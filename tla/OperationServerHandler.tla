----------------------- MODULE OperationServerHandler -----------------------
(***************************************************************************)
(* server.operation.OperationServerHandler: one handler object per agent   *)
(* connection, run by Netty's worker event loops, which reads the agent's  *)
(* OP_JOIN message, enters the agent in ChannelManager.map, publishes      *)
(* Connected, and on disconnection removes the entry and publishes         *)
(* Disconnected.                                                           *)
(*                                                                         *)
(* What is kept: every field that a later read of the channel can observe  *)
(* (offset, operationData, agentName), every early return and exception of *)
(* channelRead0, the order "put, publish, clear" of its last branch, the   *)
(* order "remove, publish" of channelInactive, and the absence of a frame  *)
(* decoder: a read delivers whatever bytes have arrived, so a chunk may    *)
(* end inside a message and may hold several of them.  headerSize,         *)
(* headerBody, dataSize are overwritten before every use, and headerRead,  *)
(* operationCode, startTm are never read: they are not state here.         *)
(*                                                                         *)
(* An agent name is a sequence of Letters, one byte each.  A message on    *)
(* the wire is HeaderUnits units of header followed by its data; inbound   *)
(* holds the messages the agent sent and pos the number of units of the    *)
(* first one that earlier reads have already taken.                        *)
(***************************************************************************)
EXTENDS Integers, Sequences, ChannelManager

CONSTANTS
    Channels,     \* agent connections accepted in a run
    Loops,        \* worker event loops (NioEventLoopGroup)
    LoopOf,       \* the loop each channel is registered with, for its life
    Letters,      \* the bytes of agent names
    Names,        \* the names agents join with
    MaxMessages   \* bound: messages one agent sends on one connection

ASSUME LoopOfAssumption == LoopOf \in [Channels -> Loops]
ASSUME NamesAssumption == Names \subseteq Seq(Letters)
ASSUME MaxMessagesAssumption == MaxMessages \in Nat

\* A header is 4 + n + 8 bytes.  Two units let a read end inside it.  readInt takes 4.
HeaderUnits == 2
IntBytes == 4

\* Header bodies: "OP_JOIN...", or anything the server drops.
Messages == [op : {"JOIN", "OTHER"}, data : Names]

\* agentName is operationData + "(" + channel id + ")"; "" until the first JOIN.
Keys == Seq(Letters) \X Channels
NoName == << >>

VARIABLES
    phase,          \* "new", "active", "failing" (exceptionCaught's write is not done),
                    \* "closed" (channelInactive is due), "dead"
    inbound, pos,   \* what the agent sent and the server has not read
    sent,           \* number of messages the agent sent (bounds the model)
    offset, operationData, agentName,   \* fields of the channel's handler
    running,        \* where the channel's callback is, "none" when not in one
    seen,           \* the table a HashMap call in progress has read
    map,            \* ChannelManager.map
    \* History, read by the properties only:
    joins,          \* registrations made on the channel
    torn,           \* how data of a JOIN came to stay in operationData after its read:
                    \* it was a "part" of the JOIN's, or the listener had "thrown"
    announced,      \* keys published as Connected and not as Disconnected since
    lossy           \* a map update discarded another loop's update

handlerVars == <<offset, operationData, agentName>>
wireVars == <<inbound, pos, sent>>
historyVars == <<joins, torn, announced, lossy>>
vars == <<phase, wireVars, handlerVars, running, seen, map, historyVars>>

Init ==
    /\ phase = [c \in Channels |-> "new"]
    /\ inbound = [c \in Channels |-> << >>]
    /\ pos = [c \in Channels |-> 0]
    /\ sent = [c \in Channels |-> 0]
    /\ offset = [c \in Channels |-> 0]
    /\ operationData = [c \in Channels |-> << >>]
    /\ agentName = [c \in Channels |-> NoName]
    /\ running = [c \in Channels |-> "none"]
    /\ seen = [c \in Channels |-> EmptyMap]
    /\ map = EmptyMap
    /\ joins = [c \in Channels |-> 0]
    /\ torn = [c \in Channels |-> {}]
    /\ announced = [c \in Channels |-> {}]
    /\ lossy = FALSE

-----------------------------------------------------------------------------
(* The agent and its connection.                                           *)

\* channelActive only logs: the channel enters no map before its JOIN.
ChannelActive(c) ==
    /\ phase[c] = "new"
    /\ phase' = [phase EXCEPT ![c] = "active"]
    /\ UNCHANGED <<wireVars, handlerVars, running, seen, map, historyVars>>

\* The channel is active, for the agent and for the server.
Open(c) == phase[c] \in {"active", "failing"}

\* The agent writes one message to its socket.
AgentSend(c, m) ==
    /\ Open(c)
    /\ sent[c] < MaxMessages
    /\ sent' = [sent EXCEPT ![c] = @ + 1]
    /\ inbound' = [inbound EXCEPT ![c] = Append(@, m)]
    /\ UNCHANGED <<phase, pos, handlerVars, running, seen, map, historyVars>>

\* A loop runs one callback at a time, whichever of its channels it is for.
LoopIdle(l) == \A c \in Channels : LoopOf[c] = l => running[c] = "none"

\* The agent hangs up, the connection breaks, or the CLOSE listener of exceptionCaught
\* runs: unread bytes are gone, channelInactive is queued.
Closes(c) ==
    /\ Open(c)
    /\ LoopIdle(LoopOf[c])
    /\ phase' = [phase EXCEPT ![c] = "closed"]
    /\ inbound' = [inbound EXCEPT ![c] = << >>]
    /\ pos' = [pos EXCEPT ![c] = 0]
    /\ UNCHANGED <<sent, handlerVars, running, seen, map, historyVars>>

\* exceptionCaught, on an active channel: the "ERR" String has no encoder, its write
\* fails, and the CLOSE listener closes the channel all the same; but behind a file that
\* is going out the write waits, and the channel is read meanwhile.
ExceptionCaught(c) == phase' = [phase EXCEPT ![c] = "failing"]

-----------------------------------------------------------------------------
(* channelRead0.  A chunk is the rest of the first k messages of inbound   *)
(* and the first p units of the next one.                                  *)

Units(m) == HeaderUnits + Len(m.data)

EndUnits(c, k) ==
    IF k < Len(inbound[c]) THEN 0 .. Units(inbound[c][k + 1]) - 1 ELSE {0}

\* The event loop has a non-empty chunk (k, p) for the handler.
Readable(c, k, p) ==
    /\ Open(c)
    /\ LoopIdle(LoopOf[c])
    /\ k = 0 => p > pos[c]

\* The chunk leaves the socket, and what the handler does not use is released.
Consume(c, k, p) ==
    /\ inbound' = [inbound EXCEPT ![c] = SubSeq(@, k + 1, Len(@))]
    /\ pos' = [pos EXCEPT ![c] = p]

HeaderComplete(k, p) == k > 0 \/ p >= HeaderUnits

Drop(c, k, p) ==
    /\ Consume(c, k, p)
    /\ UNCHANGED <<phase, sent, handlerVars, running, seen, map, historyVars>>

\* channelRead0 throws before it touches the handler's fields or the map.
ReadFails(c, k, p) ==
    /\ Consume(c, k, p)
    /\ ExceptionCaught(c)
    /\ UNCHANGED <<sent, handlerVars, running, seen, map, historyVars>>

\* Where the first message of the chunk ends in it.
End(c, k, p) == IF k > 0 THEN Units(Head(inbound[c])) ELSE p

\* Every read is parsed from its first byte as a header.  A chunk that begins inside a
\* message yields a nonsense size or body, which is dropped, or runs out of bytes, which
\* throws.  In its data four letters are a size out of range, and readInt wants no less.
ReadMisaligned(c, k, p) ==
    LET letters == End(c, k, p) - pos[c]
        inData == pos[c] >= HeaderUnits
        alone == k = 0 \/ (k = 1 /\ p = 0)
    IN  /\ pos[c] > 0
        /\ \/ ~(inData /\ alone /\ letters < IntBytes) /\ Drop(c, k, p)
           \/ ~(inData /\ letters >= IntBytes) /\ ReadFails(c, k, p)

\* readInt, readBytes or readLong runs past the end of the chunk; or, in a message that
\* is no JOIN, a size out of range is dropped before that.
ReadTruncatedHeader(c, k, p) ==
    /\ pos[c] = 0
    /\ ~HeaderComplete(k, p)
    /\ \/ ReadFails(c, k, p)
       \/ Head(inbound[c]).op # "JOIN" /\ Drop(c, k, p)

\* A header size out of range, or a header body that is not OP_JOIN.
ReadForeignHeader(c, k, p) ==
    /\ pos[c] = 0
    /\ HeaderComplete(k, p)
    /\ Head(inbound[c]).op # "JOIN"
    /\ Drop(c, k, p)

JoinHeader(c, k, p) ==
    /\ pos[c] = 0
    /\ HeaderComplete(k, p)
    /\ Head(inbound[c]).op = "JOIN"

\* dataSize - offset, and the bytes of this message's data that are in the chunk
\* (more may follow them; min(dataSize - offset, a) never reaches those).
Missing(c) == Len(Head(inbound[c]).data) - offset[c]
Available(c, k, p) ==
    IF k > 0 THEN Len(Head(inbound[c]).data) ELSE p - HeaderUnits

\* operationData += the first b bytes of the JOIN's data.
Accumulated(c, b) == operationData[c] \o SubSeq(Head(inbound[c]).data, 1, b)

\* An earlier partial read left offset beyond this JOIN's size: readBytes is
\* given a negative length and throws.
ReadJoinOverrun(c, k, p) ==
    /\ JoinHeader(c, k, p)
    /\ Missing(c) < 0
    /\ ReadFails(c, k, p)

\* The data is not all there: it is kept for a later read.
ReadJoinPart(c, k, p) ==
    /\ JoinHeader(c, k, p)
    /\ Missing(c) > Available(c, k, p)
    /\ operationData' = [operationData EXCEPT ![c] = Accumulated(c, Available(c, k, p))]
    /\ offset' = [offset EXCEPT ![c] = @ + Available(c, k, p)]
    /\ torn' = [torn EXCEPT ![c] = @ \cup {"part"}]
    /\ Consume(c, k, p)
    /\ UNCHANGED <<phase, sent, agentName, running, seen, map, joins, announced, lossy>>

\* Faulty ReadJoinLast: the agent is named and announced, but not put into the map.
ReadJoinLastUnregistered(c, k, p) ==
    /\ JoinHeader(c, k, p)
    /\ Missing(c) \in 0 .. Available(c, k, p)
    /\ operationData' = [operationData EXCEPT ![c] = Accumulated(c, Missing(c))]
    /\ offset' = [offset EXCEPT ![c] = 0]
    /\ agentName' = [agentName EXCEPT ![c] = <<operationData'[c], c>>]
    /\ running' = [running EXCEPT ![c] = "connected"]
    /\ Consume(c, k, p)
    /\ UNCHANGED <<phase, sent, seen, map, historyVars>>

\* offset reaches dataSize: name the agent and begin ChannelManager.map.put.
ReadJoinLast(c, k, p) ==
    /\ JoinHeader(c, k, p)
    /\ Missing(c) \in 0 .. Available(c, k, p)
    /\ operationData' = [operationData EXCEPT ![c] = Accumulated(c, Missing(c))]
    /\ offset' = [offset EXCEPT ![c] = 0]
    /\ agentName' = [agentName EXCEPT ![c] = <<operationData'[c], c>>]
    /\ running' = [running EXCEPT ![c] = "put"]
    /\ seen' = [seen EXCEPT ![c] = map]
    /\ Consume(c, k, p)
    /\ UNCHANGED <<phase, sent, map, historyVars>>

ChannelRead(c) ==
    \E k \in 0 .. Len(inbound[c]) : \E p \in EndUnits(c, k) :
        /\ Readable(c, k, p)
        /\ \/ ReadMisaligned(c, k, p)
           \/ ReadTruncatedHeader(c, k, p)
           \/ ReadForeignHeader(c, k, p)
           \/ ReadJoinOverrun(c, k, p)
           \/ ReadJoinPart(c, k, p)
           \/ ReadJoinLast(c, k, p)

-----------------------------------------------------------------------------
(* The rest of the callbacks, step by step: other loops and the web        *)
(* threads run between any two of them.                                    *)

\* ChannelManager.map.put(agentName, channel) takes effect.
PutDone(c) ==
    /\ running[c] = "put"
    /\ map' \in PutOutcomes(map, seen[c], agentName[c], c)
    /\ lossy' = (lossy \/ map' # MapPut(map, agentName[c], c))
    /\ running' = [running EXCEPT ![c] = "connected"]
    /\ seen' = [seen EXCEPT ![c] = EmptyMap]
    /\ joins' = [joins EXCEPT ![c] = @ + 1]
    /\ UNCHANGED <<phase, wireVars, handlerVars, torn, announced>>

\* Faulty PublishConnected: operationData is not cleared for the next JOIN.
PublishConnectedKeepsData(c) ==
    /\ running[c] = "connected"
    /\ announced' = [announced EXCEPT ![c] = @ \cup {agentName[c]}]
    /\ running' = [running EXCEPT ![c] = "none"]
    /\ UNCHANGED <<phase, wireVars, handlerVars, seen, map, joins, torn, lossy>>

\* publishEvent(Connected) returns, and operationData is cleared.
PublishConnected(c) ==
    /\ running[c] = "connected"
    /\ operationData' = [operationData EXCEPT ![c] = << >>]
    /\ announced' = [announced EXCEPT ![c] = @ \cup {agentName[c]}]
    /\ running' = [running EXCEPT ![c] = "none"]
    /\ UNCHANGED <<phase, wireVars, offset, agentName, seen, map, joins, torn, lossy>>

\* Faulty PublishConnectedThrows: the exception is swallowed, the channel stays open.
PublishConnectedSwallows(c) ==
    /\ running[c] = "connected"
    /\ running' = [running EXCEPT ![c] = "none"]
    /\ UNCHANGED <<phase, wireVars, handlerVars, seen, map, historyVars>>

\* The listener throws: it runs on this loop, inside channelRead0, so exceptionCaught
\* will close the agent's channel.  operationData keeps the name.
PublishConnectedThrows(c) ==
    /\ running[c] = "connected"
    /\ ExceptionCaught(c)
    /\ running' = [running EXCEPT ![c] = "none"]
    /\ torn' = [torn EXCEPT ![c] = @ \cup {"thrown"}]
    /\ UNCHANGED <<wireVars, handlerVars, seen, map, joins, announced, lossy>>

\* Faulty ChannelInactive: only a channel that has joined is cleaned up.
ChannelInactiveOfJoined(c) ==
    /\ phase[c] = "closed"
    /\ agentName[c] # NoName
    /\ LoopIdle(LoopOf[c])
    /\ running' = [running EXCEPT ![c] = "remove"]
    /\ seen' = [seen EXCEPT ![c] = map]
    /\ UNCHANGED <<phase, wireVars, handlerVars, map, historyVars>>

\* channelInactive begins ChannelManager.map.remove(agentName).
ChannelInactive(c) ==
    /\ phase[c] = "closed"
    /\ LoopIdle(LoopOf[c])
    /\ running' = [running EXCEPT ![c] = "remove"]
    /\ seen' = [seen EXCEPT ![c] = map]
    /\ UNCHANGED <<phase, wireVars, handlerVars, map, historyVars>>

\* Faulty RemoveDone: every agent that sent the same name is removed.
RemoveDoneByName(c) ==
    /\ running[c] = "remove"
    /\ map' = Restrict(map, {k \in DOMAIN map :
                                agentName[c] = NoName \/ k[1] # agentName[c][1]})
    /\ running' = [running EXCEPT ![c] = "disconnected"]
    /\ seen' = [seen EXCEPT ![c] = EmptyMap]
    /\ UNCHANGED <<phase, wireVars, handlerVars, historyVars>>

RemoveDone(c) ==
    /\ running[c] = "remove"
    /\ map' \in RemoveOutcomes(map, seen[c], agentName[c])
    /\ lossy' = (lossy \/ map' # MapRemove(map, agentName[c]))
    /\ running' = [running EXCEPT ![c] = "disconnected"]
    /\ seen' = [seen EXCEPT ![c] = EmptyMap]
    /\ UNCHANGED <<phase, wireVars, handlerVars, joins, torn, announced>>

\* publishEvent(Disconnected) returns, or throws to an inactive channel, which
\* exceptionCaught only logs.
PublishDisconnected(c) ==
    /\ running[c] = "disconnected"
    /\ running' = [running EXCEPT ![c] = "none"]
    /\ phase' = [phase EXCEPT ![c] = "dead"]
    /\ \/ announced' = [announced EXCEPT ![c] = @ \ {agentName[c]}]
       \/ UNCHANGED announced
    /\ UNCHANGED <<wireVars, handlerVars, seen, map, joins, torn, lossy>>

Callback(c) ==
    \/ PutDone(c)
    \/ PublishConnected(c)
    \/ PublishConnectedThrows(c)
    \/ RemoveDone(c)
    \/ PublishDisconnected(c)

Next ==
    \E c \in Channels :
        \/ ChannelActive(c)
        \/ \E m \in Messages : AgentSend(c, m)
        \/ Closes(c)
        \/ ChannelRead(c)
        \/ ChannelInactive(c)
        \/ Callback(c)

Spec == Init /\ [][Next]_vars

\* An event loop finishes the callback it is in.  Between two selects it runs the
\* tasks queued on it, so a queued channelInactive is not postponed for ever by
\* the reads of the loop's other channels.
Fairness ==
    \A c \in Channels : WF_vars(Callback(c)) /\ SF_vars(ChannelInactive(c))

FairSpec == Spec /\ Fairness

-----------------------------------------------------------------------------
(* Properties.                                                             *)

\* A table of agents: every key names the channel it is mapped to.
Registry(m) == DOMAIN m \subseteq Keys /\ \A k \in DOMAIN m : m[k] = k[2]

\* Types, for the fields of every handler and for the tables: what channelRead0
\* puts under an agent name is the channel whose id the name ends with.
TypeOK ==
    /\ phase \in [Channels -> {"new", "active", "failing", "closed", "dead"}]
    /\ inbound \in [Channels -> Seq(Messages)]
    /\ pos \in [Channels -> Nat]
    /\ sent \in [Channels -> 0 .. MaxMessages]
    /\ offset \in [Channels -> Nat]
    /\ operationData \in [Channels -> Seq(Letters)]
    /\ agentName \in [Channels -> Keys \cup {NoName}]
    /\ running \in [Channels -> {"none", "put", "connected", "remove", "disconnected"}]
    /\ Registry(map)
    /\ DOMAIN seen = Channels /\ \A c \in Channels : Registry(seen[c])
    /\ joins \in [Channels -> Nat]
    /\ torn \in [Channels -> SUBSET {"part", "thrown"}]
    /\ announced \in [Channels -> SUBSET Keys]
    /\ lossy \in BOOLEAN

AtRest(c) == running[c] = "none"

\* channelInactive removes the key of the last JOIN only (line 139 is commented
\* out): an entry can outlive its channel, but only if the channel registered
\* more than once, or the unsynchronised HashMap lost an update.
LeftBehindOnlyByRejoin ==
    \A k \in DOMAIN map : phase[map[k]] = "dead" => joins[map[k]] > 1 \/ lossy

\* Between callbacks, an agent that has joined and whose channel is open is in the
\* registry under its current name, so the consoles can select it, unless the
\* HashMap lost the update.
JoinedIsRegistered ==
    \A c \in Channels :
        Open(c) /\ AtRest(c) /\ agentName[c] # NoName
            => agentName[c] \in DOMAIN map \/ lossy

\* A registered name is a name the agent sent, never a mixture of two messages,
\* unless some JOIN on that channel was read in part, or its announcement threw.
NamesAreGenuine ==
    \A k \in DOMAIN map : k[1] \in Names \/ torn[map[k]] # {}

\* What the event stream told the consoles agrees with the registry: outside the
\* callbacks, every agent in the registry was announced as Connected and not
\* declared Disconnected since, even when a later announcement was cut short; but a
\* channel on which one was cut short may leave an entry if it joins again before it closes.
RegisteredIsAnnounced ==
    \A k \in DOMAIN map :
        phase[map[k]] \in {"active", "dead"} /\ AtRest(map[k])
            => \/ k \in announced[map[k]]
               \/ "thrown" \in torn[map[k]] /\ joins[map[k]] > 1
               \/ lossy

\* No step takes an agent out of the registry while its channel is open, whatever
\* the other agents do, unless the HashMap lost the update in that step.
OnlyClosedIsRemoved ==
    [][\A k \in DOMAIN map :
        k \notin DOMAIN map' => phase[map[k]] = "closed" \/ lossy']_vars

\* With one worker loop all writers of the registry share a thread, and no update
\* is ever lost.
OneLoopLosesNothing ==
    (\A l1, l2 \in Loops : l1 = l2) => ~lossy

\* Every connection that ends is eventually cleaned up: channelInactive completes.
ClosedIsCleanedUp ==
    \A c \in Channels : (phase[c] = "closed") ~> (phase[c] = "dead")

\* The handlers, their loops and the shared table implement the abstract registry.
SR == INSTANCE SessionRegistry WITH
    Agents <- Channels,
    registered <- {map[k] : k \in DOMAIN map},
    rejoined <- {c \in Channels : joins[c] > 1},
    told <- {c \in Channels : announced[c] # {}},
    leaving <- {c \in Channels : running[c] = "disconnected" \/ phase[c] = "dead"},
    gone <- {c \in Channels : phase[c] = "dead"},
    lost <- lossy

\* Each callback, cut where another loop can see the difference, is a step of the
\* registry that the consoles and the pages rely on, or none that they can see: no agent
\* is announced before it is registered, none is taken out for another's leaving, and
\* none is told to be gone while its entry is there, but for the two exceptions named there.
ImplementsRegistry == SR!Spec

-----------------------------------------------------------------------------
(* Claims of the repository's comments that the code does not meet.        *)

\* OperationServerHandler.java:66 says a channel is registered on receiving the
\* agent's join message.  Claim: an agent whose JOIN arrived over several reads, none of
\* which threw, is registered once all it sent has been read.
JoinRegisters ==
    \A c \in Channels :
        phase[c] = "active" /\ AtRest(c) /\ torn[c] # {} /\ inbound[c] = << >>
            => \E k \in DOMAIN map : map[k] = c

=============================================================================
