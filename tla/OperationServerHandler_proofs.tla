-------------------- MODULE OperationServerHandler_proofs --------------------
(***************************************************************************)
(* Proofs about OperationServerHandler, for every number of agents and     *)
(* loops, every set of names and every bound on the messages.              *)
(***************************************************************************)
EXTENDS OperationServerHandler, SequenceTheorems, TLAPS

-----------------------------------------------------------------------------
(* The registry's operations.                                              *)

\* HashMap.put, run alone, adds or replaces the entry of one key.
LEMMA MapPutFacts ==
    ASSUME NEW m, NEW k, NEW v
    PROVE  /\ DOMAIN MapPut(m, k, v) = DOMAIN m \cup {k}
           /\ MapPut(m, k, v)[k] = v
           /\ \A x \in DOMAIN m : x # k => MapPut(m, k, v)[x] = m[x]
BY DEF MapPut

\* HashMap.remove, run alone, drops the entry of one key.
LEMMA MapRemoveFacts ==
    ASSUME NEW m, NEW k
    PROVE  /\ DOMAIN MapRemove(m, k) = DOMAIN m \ {k}
           /\ \A x \in DOMAIN m : x # k => MapRemove(m, k)[x] = m[x]
BY DEF MapRemove, Restrict

\* Whatever a racing put leaves is a table of agents.
LEMMA PutKeepsRegistry ==
    ASSUME NEW m, NEW old, NEW k \in Keys, Registry(m), Registry(old),
           NEW new \in PutOutcomes(m, old, k, k[2])
    PROVE  Registry(new)
<1>1. new = MapPut(m, k, k[2]) \/ new = MapPut(old, k, k[2])
  BY DEF PutOutcomes
<1>2. ASSUME NEW t, Registry(t) PROVE Registry(MapPut(t, k, k[2]))
  BY <1>2 DEF Registry, MapPut
<1> QED  BY <1>1, <1>2

\* Whatever a racing remove leaves is a table of agents.
LEMMA RemoveKeepsRegistry ==
    ASSUME NEW m, NEW old, NEW k, Registry(m), Registry(old),
           NEW new \in RemoveOutcomes(m, old, k)
    PROVE  Registry(new)
<1>1. new = MapRemove(m, k) \/ new = MapRemove(old, k)
  BY DEF RemoveOutcomes
<1>2. ASSUME NEW t, Registry(t) PROVE Registry(MapRemove(t, k))
  BY <1>2 DEF Registry, MapRemove, Restrict
<1> QED  BY <1>1, <1>2

-----------------------------------------------------------------------------
(* What a chunk holds.                                                     *)

\* A chunk that begins at the start of a message holds a first message, and the
\* part of its data in the chunk is a prefix of its data.
LEMMA ChunkFacts ==
    ASSUME TypeOK, NEW c \in Channels,
           NEW k \in 0 .. Len(inbound[c]), NEW p \in EndUnits(c, k),
           Readable(c, k, p), pos[c] = 0
    PROVE  /\ p \in Nat
           /\ Head(inbound[c]) \in Messages
           /\ Head(inbound[c]).data \in Seq(Letters)
           /\ HeaderComplete(k, p) => Available(c, k, p) \in 0 .. Len(Head(inbound[c]).data)
<1>1. /\ inbound[c] \in Seq(Messages)
      /\ Len(inbound[c]) \in Nat
      /\ \A i \in 1 .. Len(inbound[c]) : inbound[c][i] \in Messages
  BY DEF TypeOK
<1>2. \A m \in Messages : m.data \in Seq(Letters) /\ Len(m.data) \in Nat
  BY NamesAssumption DEF Messages
<1>3. Len(inbound[c]) > 0
  BY <1>1 DEF Readable, EndUnits
<1>4. Head(inbound[c]) = inbound[c][1]
  BY <1>1, <1>3
<1>5. p \in Nat
  BY <1>1, <1>2 DEF EndUnits, Units, HeaderUnits
<1>6. k = 0 => p <= HeaderUnits + Len(Head(inbound[c]).data) - 1
  BY <1>1, <1>2, <1>3, <1>4 DEF EndUnits, Units, HeaderUnits
<1>7. HeaderComplete(k, p) => Available(c, k, p) \in 0 .. Len(Head(inbound[c]).data)
  BY <1>1, <1>2, <1>3, <1>4, <1>5, <1>6 DEF HeaderComplete, Available, HeaderUnits
<1> QED  BY <1>1, <1>2, <1>3, <1>4, <1>5, <1>7

\* What is left of the socket after a chunk is a sequence of messages.
LEMMA ConsumeType ==
    ASSUME TypeOK, NEW c \in Channels,
           NEW k \in 0 .. Len(inbound[c]), NEW p \in EndUnits(c, k), Consume(c, k, p)
    PROVE  /\ inbound' \in [Channels -> Seq(Messages)]
           /\ pos' \in [Channels -> Nat]
<1>1. /\ inbound[c] \in Seq(Messages)
      /\ Len(inbound[c]) \in Nat
      /\ \A i \in 1 .. Len(inbound[c]) : inbound[c][i] \in Messages
  BY DEF TypeOK
<1>2. \A i \in k + 1 .. Len(inbound[c]) : inbound[c][i] \in Messages
  BY <1>1
<1>3. SubSeq(inbound[c], k + 1, Len(inbound[c])) \in Seq(Messages)
  BY <1>1, <1>2, SubSeqProperties
<1>4. \A m \in Messages : Len(m.data) \in Nat
  BY NamesAssumption DEF Messages
<1>5. p \in Nat
  BY <1>1, <1>4 DEF EndUnits, Units, HeaderUnits
<1> QED  BY <1>3, <1>5 DEF TypeOK, Consume

\* operationData grows by bytes of an agent name.
LEMMA AccumulatedType ==
    ASSUME TypeOK, NEW c \in Channels, Head(inbound[c]).data \in Seq(Letters),
           NEW b \in 0 .. Len(Head(inbound[c]).data)
    PROVE  Accumulated(c, b) \in Seq(Letters)
<1> DEFINE d == Head(inbound[c]).data
<1>1. \A i \in 1 .. b : d[i] \in Letters
  OBVIOUS
<1>2. SubSeq(d, 1, b) \in Seq(Letters)
  BY <1>1, SubSeqProperties
<1>3. operationData[c] \in Seq(Letters)
  BY DEF TypeOK
<1> QED  BY <1>2, <1>3 DEF Accumulated

-----------------------------------------------------------------------------
(* Type correctness.                                                       *)

\* Type correctness is inductive together with this: a handler names its agent
\* after its own channel, and has a name while it registers or announces it.
KeysOf(c) == Seq(Letters) \X {c}

OwnName ==
    \A c \in Channels :
        /\ agentName[c] = NoName \/ agentName[c] \in KeysOf(c)
        /\ running[c] \in {"put", "connected"} => agentName[c] \in KeysOf(c)

Typed == TypeOK /\ OwnName

\* The part of ChannelRead that follows the choice of the chunk.
ReadOf(c, k, p) ==
    /\ Readable(c, k, p)
    /\ \/ ReadMisaligned(c, k, p)
       \/ ReadTruncatedHeader(c, k, p)
       \/ ReadForeignHeader(c, k, p)
       \/ ReadJoinOverrun(c, k, p)
       \/ ReadJoinPart(c, k, p)
       \/ ReadJoinLast(c, k, p)

LEMMA KeysOfKeys == \A c \in Channels : \A k \in KeysOf(c) : k \in Keys /\ k[2] = c
BY DEF KeysOf, Keys

LEMMA OwnKey ==
    ASSUME OwnName, NEW c \in Channels
    PROVE  agentName[c] = NoName \/ (agentName[c] \in Keys /\ agentName[c][2] = c)
<1>1. agentName[c] = NoName \/ agentName[c] \in KeysOf(c)
  BY DEF OwnName
<1> QED  BY <1>1, KeysOfKeys

LEMMA NoNameIsNoKey == NoName \notin Keys
<1> SUFFICES ASSUME NoName \in Keys PROVE FALSE
  OBVIOUS
<1>1. PICK n \in Seq(Letters), c \in Channels : NoName = <<n, c>>
  BY DEF Keys
<1>2. DOMAIN NoName = {} /\ 1 \in DOMAIN <<n, c>>
  BY DEF NoName
<1> QED  BY <1>1, <1>2

LEMMA TypeInit == Init => TypeOK
<1> SUFFICES ASSUME Init PROVE TypeOK
  OBVIOUS
<1>1. Registry(EmptyMap)
  BY DEF Registry, EmptyMap
<1>2. Registry(map) /\ \A c \in Channels : Registry(seen[c])
  BY <1>1 DEF Init
<1>3. inbound \in [Channels -> Seq(Messages)] /\ operationData \in [Channels -> Seq(Letters)]
  BY DEF Init
<1>4. sent \in [Channels -> 0 .. MaxMessages]
  BY MaxMessagesAssumption DEF Init
<1>5. announced \in [Channels -> SUBSET Keys] /\ agentName \in [Channels -> Keys \cup {NoName}]
  BY DEF Init
<1>6. /\ offset \in [Channels -> Nat] /\ joins \in [Channels -> Nat] /\ pos \in [Channels -> Nat]
      /\ torn \in [Channels -> SUBSET {"part", "thrown"}] /\ lossy \in BOOLEAN /\ DOMAIN seen = Channels
  BY DEF Init
<1>7. /\ phase \in [Channels -> {"new", "active", "failing", "closed", "dead"}]
      /\ running \in [Channels -> {"none", "put", "connected", "remove", "disconnected"}]
  BY DEF Init
<1> QED  BY <1>2, <1>3, <1>4, <1>5, <1>6, <1>7 DEF TypeOK

LEMMA TypeChannelRead ==
    ASSUME TypeOK, NEW c \in Channels, ChannelRead(c)
    PROVE  TypeOK'
<1> PICK k \in 0 .. Len(inbound[c]) : \E p \in EndUnits(c, k) : ReadOf(c, k, p)
  BY DEF ChannelRead, ReadOf
<1> PICK p \in EndUnits(c, k) : ReadOf(c, k, p)
  OBVIOUS
<1>1. CASE ReadFails(c, k, p)
  BY <1>1, ConsumeType DEF ReadFails, ExceptionCaught, TypeOK, handlerVars, historyVars
<1>2. CASE Drop(c, k, p)
  BY <1>2, ConsumeType DEF Drop, TypeOK, handlerVars, historyVars
<1>3. CASE ReadJoinPart(c, k, p)
  <2>1. Available(c, k, p) \in 0 .. Len(Head(inbound[c]).data)
        /\ Head(inbound[c]).data \in Seq(Letters)
    BY <1>3, ChunkFacts DEF ReadOf, ReadJoinPart, JoinHeader
  <2>2. Accumulated(c, Available(c, k, p)) \in Seq(Letters)
    BY <2>1, AccumulatedType
  <2>3. Consume(c, k, p)
    BY <1>3 DEF ReadJoinPart
  <2>4. offset' \in [Channels -> Nat]
    BY <1>3, <2>1 DEF ReadJoinPart, TypeOK
  <2>5. torn' \in [Channels -> SUBSET {"part", "thrown"}]
    BY <1>3 DEF ReadJoinPart, TypeOK
  <2> QED  BY <1>3, <2>2, <2>3, <2>4, <2>5, ConsumeType DEF ReadJoinPart, TypeOK
<1>4. CASE ReadJoinLast(c, k, p)
  <2>1. Missing(c) \in 0 .. Len(Head(inbound[c]).data)
        /\ Head(inbound[c]).data \in Seq(Letters)
    BY <1>4, ChunkFacts DEF ReadOf, ReadJoinLast, JoinHeader
  <2>2. Accumulated(c, Missing(c)) \in Seq(Letters)
    BY <2>1, AccumulatedType
  <2>3. Consume(c, k, p)
    BY <1>4 DEF ReadJoinLast
  <2>4. operationData' \in [Channels -> Seq(Letters)]
    BY <1>4, <2>2 DEF ReadJoinLast, TypeOK
  <2>5. agentName' \in [Channels -> Keys \cup {NoName}]
    BY <1>4, <2>4 DEF ReadJoinLast, TypeOK, Keys
  <2> QED  BY <1>4, <2>3, <2>4, <2>5, ConsumeType DEF ReadJoinLast, TypeOK, historyVars
<1> QED  BY <1>1, <1>2, <1>3, <1>4
        DEF ReadOf, ReadMisaligned, ReadTruncatedHeader, ReadForeignHeader, ReadJoinOverrun

LEMMA TypeStep == Typed /\ [Next]_vars => TypeOK'
<1> SUFFICES ASSUME TypeOK, OwnName, [Next]_vars PROVE TypeOK'
  BY DEF Typed
<1>1. CASE UNCHANGED vars
  BY <1>1 DEF TypeOK, vars, wireVars, handlerVars, historyVars
<1>2. ASSUME NEW c \in Channels, ChannelActive(c) PROVE TypeOK'
  BY <1>2 DEF TypeOK, ChannelActive, wireVars, handlerVars, historyVars
<1>3. ASSUME NEW c \in Channels, NEW m \in Messages, AgentSend(c, m) PROVE TypeOK'
  <2>1. sent' \in [Channels -> 0 .. MaxMessages]
    BY <1>3, MaxMessagesAssumption DEF TypeOK, AgentSend
  <2>2. inbound' \in [Channels -> Seq(Messages)]
    <3>1. Append(inbound[c], m) \in Seq(Messages)
      BY <1>3, AppendProperties DEF TypeOK
    <3> QED  BY <1>3, <3>1 DEF TypeOK, AgentSend
  <2> QED  BY <1>3, <2>1, <2>2 DEF TypeOK, AgentSend, handlerVars, historyVars
<1>4. ASSUME NEW c \in Channels, Closes(c) PROVE TypeOK'
  BY <1>4 DEF TypeOK, Closes, handlerVars, historyVars
<1>5. ASSUME NEW c \in Channels, ChannelRead(c) PROVE TypeOK'
  BY <1>5, TypeChannelRead
<1>6. ASSUME NEW c \in Channels, ChannelInactive(c) PROVE TypeOK'
  BY <1>6 DEF TypeOK, ChannelInactive, wireVars, handlerVars, historyVars
<1>7. ASSUME NEW c \in Channels, PutDone(c) PROVE TypeOK'
  <2>1. agentName[c] \in Keys /\ agentName[c][2] = c
    BY <1>7, KeysOfKeys DEF PutDone, OwnName
  <2>2. Registry(map')
    BY <1>7, <2>1, PutKeepsRegistry DEF PutDone, TypeOK
  <2>3. DOMAIN seen' = Channels /\ \A d \in Channels : Registry(seen'[d])
    BY <1>7 DEF PutDone, TypeOK, Registry, EmptyMap
  <2> QED  BY <1>7, <2>2, <2>3 DEF PutDone, TypeOK, wireVars, handlerVars
<1>8. ASSUME NEW c \in Channels, PublishConnected(c) PROVE TypeOK'
  <2>1. agentName[c] \in Keys
    BY <1>8, KeysOfKeys DEF PublishConnected, OwnName
  <2> QED  BY <1>8, <2>1 DEF PublishConnected, TypeOK, wireVars
<1>9. ASSUME NEW c \in Channels, PublishConnectedThrows(c) PROVE TypeOK'
  BY <1>9 DEF PublishConnectedThrows, ExceptionCaught, TypeOK, wireVars, handlerVars
<1>10. ASSUME NEW c \in Channels, RemoveDone(c) PROVE TypeOK'
  <2>1. Registry(map')
    BY <1>10, RemoveKeepsRegistry DEF RemoveDone, TypeOK
  <2>2. DOMAIN seen' = Channels /\ \A d \in Channels : Registry(seen'[d])
    BY <1>10 DEF RemoveDone, TypeOK, Registry, EmptyMap
  <2> QED  BY <1>10, <2>1, <2>2 DEF RemoveDone, TypeOK, wireVars, handlerVars
<1>11. ASSUME NEW c \in Channels, PublishDisconnected(c) PROVE TypeOK'
  <2>1. announced \in [Channels -> SUBSET Keys]
    BY DEF TypeOK
  <2>2. announced[c] \ {agentName[c]} \in SUBSET Keys
    BY <2>1
  <2>3. announced' \in [Channels -> SUBSET Keys]
    BY <1>11, <2>1, <2>2 DEF PublishDisconnected
  <2> QED  BY <1>11, <2>3 DEF PublishDisconnected, TypeOK, wireVars, handlerVars
<1> QED  BY <1>1, <1>2, <1>3, <1>4, <1>5, <1>6, <1>7, <1>8, <1>9, <1>10, <1>11
        DEF Next, Callback

\* The listener threw while an agent of the channel was announced.
Threw(c) == "thrown" \in torn[c]

\* A read changes no other handler's name or callback, names its own agent after its
\* own channel, and publishes nothing.
LEMMA ReadNames ==
    ASSUME TypeOK, NEW c \in Channels, ChannelRead(c)
    PROVE  /\ map' = map /\ joins' = joins /\ announced' = announced /\ lossy' = lossy
           /\ \A d \in Channels : Threw(d)' <=> Threw(d)
           /\ Open(c) /\ LoopIdle(LoopOf[c])
           /\ \/ /\ phase' = phase \/ phase' = [phase EXCEPT ![c] = "failing"]
                 /\ UNCHANGED <<agentName, running, seen>>
              \/ /\ phase' = phase
                 /\ running' = [running EXCEPT ![c] = "put"]
                 /\ seen' = [seen EXCEPT ![c] = map]
                 /\ \E key \in KeysOf(c) : agentName' = [agentName EXCEPT ![c] = key]
<1> PICK k \in 0 .. Len(inbound[c]) : \E p \in EndUnits(c, k) : ReadOf(c, k, p)
  BY DEF ChannelRead, ReadOf
<1> PICK p \in EndUnits(c, k) : ReadOf(c, k, p)
  OBVIOUS
<1>1. CASE ReadFails(c, k, p)
  BY <1>1 DEF ReadFails, ExceptionCaught, ReadOf, Readable, Threw, handlerVars, historyVars
<1>2. CASE Drop(c, k, p)
  BY <1>2 DEF Drop, ReadOf, Readable, Threw, handlerVars, historyVars
<1>3. CASE ReadJoinPart(c, k, p)
  <2>1. \A d \in Channels : Threw(d)' <=> Threw(d)
    BY <1>3 DEF ReadJoinPart, TypeOK, Threw
  <2> QED  BY <1>3, <2>1 DEF ReadJoinPart, ReadOf, Readable
<1>4. CASE ReadJoinLast(c, k, p)
  <2>1. TypeOK'
    BY TypeChannelRead
  <2>2. <<operationData'[c], c>> \in KeysOf(c)
    BY <2>1 DEF TypeOK, KeysOf
  <2> QED  BY <1>4, <2>2 DEF ReadJoinLast, ReadOf, Readable, Threw, historyVars
<1> QED  BY <1>1, <1>2, <1>3, <1>4
        DEF ReadOf, ReadMisaligned, ReadTruncatedHeader, ReadForeignHeader, ReadJoinOverrun

LEMMA OwnNameStep == Typed /\ [Next]_vars => OwnName'
<1> SUFFICES ASSUME TypeOK, OwnName, [Next]_vars PROVE OwnName'
  BY DEF Typed
<1>1. CASE UNCHANGED vars
  BY <1>1 DEF OwnName, vars, handlerVars
<1>2. ASSUME NEW c \in Channels, ChannelActive(c) PROVE OwnName'
  BY <1>2 DEF OwnName, ChannelActive, handlerVars
<1>3. ASSUME NEW c \in Channels, NEW m \in Messages, AgentSend(c, m) PROVE OwnName'
  BY <1>3 DEF OwnName, AgentSend, handlerVars
<1>4. ASSUME NEW c \in Channels, Closes(c) PROVE OwnName'
  BY <1>4 DEF OwnName, Closes, handlerVars
<1>5. ASSUME NEW c \in Channels, ChannelRead(c) PROVE OwnName'
  <2>1. CASE UNCHANGED <<agentName, running>>
    BY <2>1 DEF OwnName
  <2>2. CASE /\ running' = [running EXCEPT ![c] = "put"]
             /\ \E key \in KeysOf(c) : agentName' = [agentName EXCEPT ![c] = key]
    BY <2>2 DEF OwnName, TypeOK
  <2> QED  BY <1>5, <2>1, <2>2, ReadNames
<1>6. ASSUME NEW c \in Channels, ChannelInactive(c) PROVE OwnName'
  BY <1>6 DEF OwnName, TypeOK, ChannelInactive, handlerVars
<1>7. ASSUME NEW c \in Channels, Callback(c) PROVE OwnName'
  BY <1>7 DEF OwnName, TypeOK, Callback, PutDone, PublishConnected, PublishConnectedThrows,
              RemoveDone, PublishDisconnected, handlerVars
<1> QED  BY <1>1, <1>2, <1>3, <1>4, <1>5, <1>6, <1>7 DEF Next

LEMMA TypedInductive == Spec => []Typed
<1>1. Init => OwnName
  BY DEF Init, OwnName
<1>2. Init => Typed
  BY <1>1, TypeInit DEF Typed
<1>3. Typed /\ [Next]_vars => Typed'
  BY TypeStep, OwnNameStep DEF Typed
<1> QED  BY <1>2, <1>3, PTL DEF Spec

\* Every field of every handler, and the registry itself, always has the type the
\* code gives it; in particular no callback ever puts or announces an agent under
\* another channel's name.
THEOREM TypeCorrect == Spec => []TypeOK
<1>1. Typed => TypeOK
  BY DEF Typed
<1> QED  BY <1>1, TypedInductive, PTL

-----------------------------------------------------------------------------
(* The registry against the life of the channels.                          *)

\* A channel's callback is at a step its phase allows.
CallbackPhase ==
    \A c \in Channels :
        /\ running[c] \in {"put", "connected"} => Open(c)
        /\ running[c] \in {"remove", "disconnected"} => phase[c] = "closed"

EntriesOf(c) == {k \in DOMAIN map : k[2] = c}

\* What ties one channel's handler to the entries of that channel, as long as the
\* HashMap has lost nothing.
Linked(c) ==
    /\ joins[c] = 0 => EntriesOf(c) = {}
    /\ joins[c] = 1 /\ running[c] # "put" => EntriesOf(c) \subseteq {agentName[c]}
    /\ running[c] = "disconnected" \/ phase[c] = "dead" => agentName[c] \notin DOMAIN map
    /\ \/ agentName[c] = NoName \/ phase[c] = "dead" \/ running[c] \in {"put", "disconnected"}
       \/ agentName[c] \in DOMAIN map
    /\ Threw(c) => phase[c] \notin {"new", "active"}
    /\ \A k \in EntriesOf(c) :
        \/ k \in announced[c]
        \/ k = agentName[c] /\ running[c] = "connected"
        \/ Threw(c) /\ (k = agentName[c] \/ running[c] = "put" \/ joins[c] > 1)

\* The inductive invariant behind the registry's properties.
IInv == Typed /\ CallbackPhase /\ (~lossy => \A c \in Channels : Linked(c))

LEMMA CallbackPhaseStep == Typed /\ CallbackPhase /\ [Next]_vars => CallbackPhase'
<1> SUFFICES ASSUME TypeOK, CallbackPhase, [Next]_vars PROVE CallbackPhase'
  BY DEF Typed
<1>1. CASE UNCHANGED vars
  BY <1>1 DEF CallbackPhase, Open, vars
<1>2. ASSUME NEW c \in Channels, ChannelActive(c) PROVE CallbackPhase'
  BY <1>2 DEF CallbackPhase, ChannelActive, Open, TypeOK
<1>3. ASSUME NEW c \in Channels, NEW m \in Messages, AgentSend(c, m) PROVE CallbackPhase'
  BY <1>3 DEF CallbackPhase, AgentSend, Open
<1>4. ASSUME NEW c \in Channels, Closes(c) PROVE CallbackPhase'
  BY <1>4 DEF CallbackPhase, Closes, LoopIdle, Open, TypeOK
<1>5. ASSUME NEW c \in Channels, ChannelRead(c) PROVE CallbackPhase'
  <2>1. running[c] = "none"
    BY <1>5, ReadNames DEF LoopIdle
  <2>2. \A d \in Channels : Open(d) => Open(d)'
    BY <1>5, ReadNames DEF Open, TypeOK
  <2>3. \A d \in Channels : phase[d] = "closed" => phase'[d] = "closed"
    BY <1>5, ReadNames DEF Open, TypeOK
  <2>4. (running' = running \/ running' = [running EXCEPT ![c] = "put"]) /\ Open(c)
    BY <1>5, ReadNames
  <2>5. /\ \A d \in Channels : d # c => running'[d] = running[d]
        /\ running'[c] \in {"none", "put"}
    BY <2>1, <2>4 DEF TypeOK
  <2> QED  BY <2>2, <2>3, <2>4, <2>5 DEF CallbackPhase
<1>6. ASSUME NEW c \in Channels, ChannelInactive(c) PROVE CallbackPhase'
  BY <1>6 DEF CallbackPhase, ChannelInactive, Open, TypeOK
<1>7. ASSUME NEW c \in Channels, Callback(c) PROVE CallbackPhase'
  BY <1>7 DEF CallbackPhase, TypeOK, Callback, PutDone, PublishConnected,
              PublishConnectedThrows, ExceptionCaught, RemoveDone, PublishDisconnected, Open
<1> QED  BY <1>1, <1>2, <1>3, <1>4, <1>5, <1>6, <1>7 DEF Next

\* A step that leaves the registry alone keeps the link of every channel whose
\* own fields it leaves alone.
LEMMA LinkedFrame ==
    ASSUME NEW d \in Channels, Linked(d), EntriesOf(d)' = EntriesOf(d),
           agentName[d] \in DOMAIN map' <=> agentName[d] \in DOMAIN map,
           joins'[d] = joins[d], running'[d] = running[d], phase'[d] = phase[d],
           agentName'[d] = agentName[d], announced'[d] = announced[d],
           Threw(d)' <=> Threw(d)
    PROVE  Linked(d)'
BY DEF Linked

LEMMA LinkedStep ==
    ASSUME Typed, CallbackPhase, \A c \in Channels : Linked(c), Next, ~lossy'
    PROVE  \A c \in Channels : Linked(c)'
<1> USE DEF Typed
<1>1. ASSUME NEW c \in Channels, ChannelActive(c) PROVE \A d \in Channels : Linked(d)'
  BY <1>1 DEF ChannelActive, Linked, Threw, EntriesOf, TypeOK, handlerVars, historyVars
<1>2. ASSUME NEW c \in Channels, NEW m \in Messages, AgentSend(c, m)
      PROVE \A d \in Channels : Linked(d)'
  BY <1>2 DEF AgentSend, Linked, Threw, EntriesOf, handlerVars, historyVars
<1>3. ASSUME NEW c \in Channels, Closes(c) PROVE \A d \in Channels : Linked(d)'
  BY <1>3 DEF Closes, Open, Linked, Threw, EntriesOf, TypeOK, handlerVars, historyVars
<1>4. ASSUME NEW c \in Channels, ChannelRead(c) PROVE \A d \in Channels : Linked(d)'
  <2>1. running[c] = "none" /\ Open(c)
    BY <1>4, ReadNames DEF LoopIdle
  <2>2. /\ UNCHANGED <<map, joins, announced>>
        /\ \A d \in Channels : EntriesOf(d)' = EntriesOf(d) /\ (Threw(d)' <=> Threw(d))
    BY <1>4, ReadNames DEF EntriesOf
  <2>3. CASE /\ phase' = phase \/ phase' = [phase EXCEPT ![c] = "failing"]
             /\ UNCHANGED <<agentName, running>>
    <3> SUFFICES ASSUME NEW d \in Channels PROVE Linked(d)'
      OBVIOUS
    <3>1. CASE phase' = phase
      BY <2>2, <2>3, <3>1, LinkedFrame
    <3>2. CASE phase' = [phase EXCEPT ![c] = "failing"]
      <4>1. phase'[d] = IF d = c THEN "failing" ELSE phase[d]
        BY <3>2 DEF TypeOK
      <4> QED  BY <2>1, <2>2, <2>3, <4>1 DEF Linked, Open
    <3> QED  BY <2>3, <3>1, <3>2
  <2>4. CASE /\ phase' = phase
             /\ running' = [running EXCEPT ![c] = "put"]
             /\ \E key \in KeysOf(c) : agentName' = [agentName EXCEPT ![c] = key]
    <3>1. Linked(c)'
      <4>1. running'[c] = "put" /\ phase'[c] = phase[c]
        BY <2>1, <2>4 DEF TypeOK
      <4> QED  BY <2>1, <2>2, <4>1 DEF Linked, Open
    <3>2. ASSUME NEW d \in Channels, d # c PROVE Linked(d)'
      BY <2>2, <2>4, <3>2, LinkedFrame DEF TypeOK
    <3> QED  BY <3>1, <3>2
  <2> QED  BY <1>4, <2>3, <2>4, ReadNames
<1>5. ASSUME NEW c \in Channels, ChannelInactive(c) PROVE \A d \in Channels : Linked(d)'
  BY <1>5 DEF ChannelInactive, LoopIdle, Linked, Threw, EntriesOf, TypeOK, handlerVars, historyVars
<1>6. ASSUME NEW c \in Channels, PutDone(c) PROVE \A d \in Channels : Linked(d)'
  <2>1. agentName[c] \in Keys /\ agentName[c][2] = c
    BY <1>6, KeysOfKeys DEF PutDone, OwnName
  <2>2. map' = MapPut(map, agentName[c], c)
    BY <1>6 DEF PutDone
  <2>3. DOMAIN map' = DOMAIN map \cup {agentName[c]}
    BY <2>2 DEF MapPut
  <2>4. Linked(c)'
    BY <1>6, <2>1, <2>3 DEF PutDone, CallbackPhase, Open, Linked, Threw, EntriesOf, TypeOK, wireVars, handlerVars
  <2>5. ASSUME NEW d \in Channels, d # c PROVE Linked(d)'
    <3>1. EntriesOf(d)' = EntriesOf(d)
      BY <2>1, <2>3, <2>5 DEF EntriesOf
    <3>2. agentName[d] # agentName[c]
      BY <2>1, <2>5, KeysOfKeys, NoNameIsNoKey DEF OwnName
    <3> QED  BY <1>6, <2>3, <2>5, <3>1, <3>2, LinkedFrame DEF PutDone, Threw, TypeOK, handlerVars
  <2> QED  BY <2>4, <2>5
<1>7. ASSUME NEW c \in Channels, PublishConnected(c) PROVE \A d \in Channels : Linked(d)'
  BY <1>7 DEF PublishConnected, CallbackPhase, Open, Linked, Threw, EntriesOf, TypeOK
<1>8. ASSUME NEW c \in Channels, PublishConnectedThrows(c) PROVE \A d \in Channels : Linked(d)'
  BY <1>8 DEF PublishConnectedThrows, ExceptionCaught, CallbackPhase, Open, Linked,
              Threw, EntriesOf, TypeOK, handlerVars
<1>9. ASSUME NEW c \in Channels, RemoveDone(c) PROVE \A d \in Channels : Linked(d)'
  <2>1. map' = MapRemove(map, agentName[c])
    BY <1>9 DEF RemoveDone
  <2>2. DOMAIN map' = DOMAIN map \ {agentName[c]}
    BY <2>1, MapRemoveFacts
  <2>3. agentName[c] = NoName \/ (agentName[c] \in Keys /\ agentName[c][2] = c)
    BY OwnKey
  <2>4. DOMAIN map \subseteq Keys
    BY DEF TypeOK, Registry
  <2>5. Linked(c)'
    <3>1. running'[c] = "disconnected" /\ phase'[c] = "closed" /\ EntriesOf(c)' = EntriesOf(c) \ {agentName[c]}
      BY <1>9, <2>2 DEF RemoveDone, CallbackPhase, EntriesOf, TypeOK
    <3> QED  BY <1>9, <2>2, <3>1 DEF RemoveDone, Linked, Threw, TypeOK, wireVars, handlerVars
  <2>6. ASSUME NEW d \in Channels, d # c PROVE Linked(d)'
    <3>1. EntriesOf(d)' = EntriesOf(d)
      BY <2>2, <2>3, <2>4, <2>6, NoNameIsNoKey DEF EntriesOf
    <3>2. agentName[d] \in DOMAIN map' <=> agentName[d] \in DOMAIN map
      BY <2>2, <2>3, <2>4, <2>6, KeysOfKeys, NoNameIsNoKey DEF OwnName
    <3> QED  BY <1>9, <2>6, <3>1, <3>2, LinkedFrame DEF RemoveDone, Threw, TypeOK, handlerVars
  <2> QED  BY <2>5, <2>6
<1>10. ASSUME NEW c \in Channels, PublishDisconnected(c) PROVE \A d \in Channels : Linked(d)'
  BY <1>10 DEF PublishDisconnected, CallbackPhase, Open, Linked, Threw, EntriesOf, TypeOK, handlerVars
<1> QED  BY <1>1, <1>2, <1>3, <1>4, <1>5, <1>6, <1>7, <1>8, <1>9, <1>10 DEF Next, Callback

\* Only PutDone and RemoveDone change the registry.
LEMMA WritersOfMap ==
    ASSUME Next
    PROVE  \E c \in Channels : PutDone(c) \/ RemoveDone(c) \/ UNCHANGED <<map, lossy>>
<1>1. PICK c \in Channels :
        \/ ChannelActive(c)
        \/ \E m \in Messages : AgentSend(c, m)
        \/ Closes(c)
        \/ ChannelRead(c)
        \/ ChannelInactive(c)
        \/ Callback(c)
  BY DEF Next
<1>2. CASE ChannelRead(c)
  BY <1>2 DEF ChannelRead, ReadMisaligned, Drop, ReadFails, ReadTruncatedHeader,
              ReadForeignHeader, ReadJoinOverrun, ReadJoinPart, ReadJoinLast, historyVars
<1>3. CASE Callback(c)
  BY <1>3 DEF Callback, PublishConnected, PublishConnectedThrows, PublishDisconnected
<1> QED  BY <1>1, <1>2, <1>3
         DEF ChannelActive, AgentSend, Closes, ChannelInactive, historyVars

\* Once an update is lost, that is remembered.
LEMMA LossyStays == [Next]_vars /\ lossy => lossy'
<1> SUFFICES ASSUME [Next]_vars, lossy PROVE lossy'
  OBVIOUS
<1>1. CASE UNCHANGED <<map, lossy>>
  BY <1>1
<1>2. ASSUME NEW c \in Channels, PutDone(c) PROVE lossy'
  BY <1>2 DEF PutDone
<1>3. ASSUME NEW c \in Channels, RemoveDone(c) PROVE lossy'
  BY <1>3 DEF RemoveDone
<1> QED  BY <1>1, <1>2, <1>3, WritersOfMap DEF vars, historyVars

LEMMA IInvInductive == Spec => []IInv
<1>1. Init => IInv
  <2> SUFFICES ASSUME Init PROVE IInv
    OBVIOUS
  <2>1. Typed
    BY TypeInit DEF Init, OwnName, Typed
  <2>2. ASSUME NEW c \in Channels PROVE Linked(c)
    BY DEF Init, Linked, Threw, EntriesOf, EmptyMap
  <2> QED  BY <2>1, <2>2 DEF IInv, CallbackPhase, Init
<1>2. IInv /\ [Next]_vars => IInv'
  <2> SUFFICES ASSUME IInv, [Next]_vars PROVE IInv'
    OBVIOUS
  <2>1. Typed'
    BY TypeStep, OwnNameStep DEF IInv, Typed
  <2>2. CallbackPhase'
    BY CallbackPhaseStep DEF IInv
  <2>3. ASSUME ~lossy' PROVE \A c \in Channels : Linked(c)'
    <3>1. \A c \in Channels : Linked(c)
      BY <2>3, LossyStays DEF IInv
    <3>2. CASE Next
      BY <2>3, <3>1, <3>2, LinkedStep DEF IInv
    <3>3. CASE UNCHANGED vars
      BY <3>1, <3>3 DEF Linked, Threw, EntriesOf, vars, handlerVars, historyVars
    <3> QED  BY <3>2, <3>3
  <2> QED  BY <2>1, <2>2, <2>3 DEF IInv
<1> QED  BY <1>1, <1>2, PTL DEF Spec

\* channelInactive removes only the key of the last JOIN, and that is enough for a
\* channel that joined once: no entry of it survives it.
THEOREM RejoinOnlyLeavesBehind == Spec => []LeftBehindOnlyByRejoin
<1>1. IInv => LeftBehindOnlyByRejoin
  <2> SUFFICES ASSUME IInv, ~lossy, NEW k \in DOMAIN map, phase[map[k]] = "dead"
               PROVE joins[map[k]] > 1
    BY DEF LeftBehindOnlyByRejoin
  <2>1. map[k] = k[2] /\ k[2] \in Channels
    BY DEF IInv, Typed, TypeOK, Registry, Keys
  <2>2. k \in EntriesOf(k[2])
    BY DEF EntriesOf
  <2>3. joins[k[2]] \in Nat
    BY <2>1 DEF IInv, Typed, TypeOK
  <2>4. Linked(k[2]) /\ running[k[2]] # "put"
    BY <2>1 DEF IInv, CallbackPhase, Open
  <2>5. joins[k[2]] # 0 /\ joins[k[2]] # 1
    BY <2>1, <2>2, <2>4 DEF Linked
  <2> QED  BY <2>1, <2>3, <2>5
<1> QED  BY <1>1, IInvInductive, PTL

\* An agent that joined stays in the registry, under its current name, for as long
\* as its connection is open.
THEOREM JoinedStaysRegistered == Spec => []JoinedIsRegistered
<1>1. IInv => JoinedIsRegistered
  BY DEF IInv, Linked, JoinedIsRegistered, AtRest, Open
<1> QED  BY <1>1, IInvInductive, PTL

\* The Connected and Disconnected events agree with the registry, but where a listener
\* threw and the channel joined again before it closed.
THEOREM EventsAgreeWithRegistry == Spec => []RegisteredIsAnnounced
<1>1. IInv => RegisteredIsAnnounced
  <2> SUFFICES ASSUME IInv, ~lossy, NEW k \in DOMAIN map,
                      phase[map[k]] \in {"active", "dead"}, AtRest(map[k])
               PROVE k \in announced[map[k]] \/ (Threw(map[k]) /\ joins[map[k]] > 1)
    BY DEF RegisteredIsAnnounced, Threw
  <2>1. map[k] = k[2] /\ k[2] \in Channels
    BY DEF IInv, Typed, TypeOK, Registry, Keys
  <2>2. k \in EntriesOf(k[2]) /\ Linked(k[2])
    BY <2>1 DEF EntriesOf, IInv
  <2> QED  BY <2>1, <2>2 DEF Linked, AtRest
<1> QED  BY <1>1, IInvInductive, PTL

\* No other agent's callbacks, and no callback of its own but channelInactive,
\* take an open channel's entry out of the registry.
THEOREM OpenIsNotRemoved == Spec => OnlyClosedIsRemoved
<1> DEFINE Kept == \A k \in DOMAIN map :
        k \notin DOMAIN map' => phase[map[k]] = "closed" \/ lossy'
<1>1. IInv /\ [Next]_vars => [Kept]_vars
  <2> SUFFICES ASSUME IInv, Next, ~lossy', NEW k \in DOMAIN map, k \notin DOMAIN map'
               PROVE phase[map[k]] = "closed"
    OBVIOUS
  <2>1. PICK c \in Channels : PutDone(c) \/ RemoveDone(c) \/ UNCHANGED <<map, lossy>>
    BY WritersOfMap
  <2>2. CASE PutDone(c)
    <3>1. map' = MapPut(map, agentName[c], c)
      BY <2>2 DEF PutDone
    <3> QED  BY <3>1 DEF MapPut
  <2>3. CASE RemoveDone(c)
    <3>1. map' = MapRemove(map, agentName[c])
      BY <2>3 DEF RemoveDone
    <3>2. k = agentName[c]
      BY <3>1 DEF MapRemove, Restrict
    <3>3. map[k] = k[2] /\ k \in Keys
      BY DEF IInv, Typed, TypeOK, Registry
    <3>4. k[2] = c
      BY <3>2, <3>3, OwnKey, NoNameIsNoKey DEF IInv, Typed
    <3> QED  BY <2>3, <3>3, <3>4 DEF RemoveDone, IInv, CallbackPhase
  <2> QED  BY <2>1, <2>2, <2>3
<1> QED  BY <1>1, IInvInductive, PTL DEF Spec, OnlyClosedIsRemoved

-----------------------------------------------------------------------------
(* The abstract registry.                                                  *)

\* A channel that has joined has an entry until channelInactive takes it out: the next
\* JOIN adds its key before anything removes the last one's.
Held(c) ==
    joins[c] > 0 /\ running[c] # "disconnected" /\ phase[c] # "dead" => EntriesOf(c) # {}

HeldInv == IInv /\ (~lossy => \A c \in Channels : Held(c))

\* A step that leaves the registry and a channel's fields alone keeps its entry.
LEMMA HeldFrame ==
    ASSUME NEW d \in Channels, Held(d), EntriesOf(d)' = EntriesOf(d), joins'[d] = joins[d],
           running'[d] = "disconnected" <=> running[d] = "disconnected",
           phase'[d] = "dead" <=> phase[d] = "dead"
    PROVE  Held(d)'
BY DEF Held

\* What the two writers of the registry make of the entries of every channel.
LEMMA PutEntries ==
    ASSUME IInv, ~lossy', NEW c \in Channels, PutDone(c)
    PROVE  /\ EntriesOf(c)' = EntriesOf(c) \cup {agentName[c]}
           /\ \A d \in Channels \ {c} : EntriesOf(d)' = EntriesOf(d)
<1>1. agentName[c] \in Keys /\ agentName[c][2] = c
  BY KeysOfKeys DEF PutDone, IInv, Typed, OwnName
<1>2. DOMAIN map' = DOMAIN map \cup {agentName[c]}
  BY DEF PutDone, MapPut
<1> QED  BY <1>1, <1>2 DEF EntriesOf

LEMMA RemoveEntries ==
    ASSUME IInv, ~lossy', NEW c \in Channels, RemoveDone(c)
    PROVE  /\ EntriesOf(c)' = EntriesOf(c) \ {agentName[c]}
           /\ \A d \in Channels \ {c} : EntriesOf(d)' = EntriesOf(d)
<1>1. map' = MapRemove(map, agentName[c])
  BY DEF RemoveDone
<1>2. DOMAIN map' = DOMAIN map \ {agentName[c]}
  BY <1>1, MapRemoveFacts
<1>3. agentName[c] = NoName \/ (agentName[c] \in Keys /\ agentName[c][2] = c)
  BY OwnKey DEF IInv, Typed
<1>4. DOMAIN map \subseteq Keys
  BY DEF IInv, Typed, TypeOK, Registry
<1> QED  BY <1>2, <1>3, <1>4, NoNameIsNoKey DEF EntriesOf

\* What the registry's promise sees of a step other than those of the table and of the
\* events: nothing.
LEMMA QuietStep ==
    ASSUME IInv, NEW c \in Channels,
           \/ ChannelActive(c)
           \/ \E m \in Messages : AgentSend(c, m)
           \/ Closes(c)
           \/ ChannelRead(c)
           \/ ChannelInactive(c)
           \/ PublishConnectedThrows(c)
    PROVE  /\ UNCHANGED <<map, joins, announced, lossy>>
           /\ \A d \in Channels :
                /\ phase'[d] = "dead" <=> phase[d] = "dead"
                /\ running'[d] = "disconnected" <=> running[d] = "disconnected"
<1> USE DEF IInv, Typed
<1>1. CASE ChannelRead(c)
  <2>1. running[c] = "none" /\ Open(c)
    BY <1>1, ReadNames DEF LoopIdle
  <2> QED  BY <1>1, <2>1, ReadNames DEF Open, TypeOK
<1>2. CASE ChannelInactive(c)
  BY <1>2 DEF ChannelInactive, LoopIdle, TypeOK, historyVars
<1>3. CASE ChannelActive(c) \/ (\E m \in Messages : AgentSend(c, m)) \/ Closes(c)
  BY <1>3 DEF ChannelActive, AgentSend, Closes, Open, TypeOK, historyVars
<1>4. CASE PublishConnectedThrows(c)
  BY <1>4 DEF PublishConnectedThrows, ExceptionCaught, CallbackPhase, Open, TypeOK
<1> QED  BY <1>1, <1>2, <1>3, <1>4

LEMMA HeldInvInductive == Spec => []HeldInv
<1>1. Init => \A c \in Channels : Held(c)
  BY DEF Init, Held
<1>2. ASSUME IInv, IInv', HeldInv, [Next]_vars PROVE HeldInv'
  <2> SUFFICES ASSUME ~lossy', NEW d \in Channels PROVE Held(d)'
    BY <1>2 DEF HeldInv
  <2>1. Held(d) /\ TypeOK
    BY <1>2, LossyStays DEF HeldInv, IInv, Typed
  <2>2. CASE UNCHANGED vars
    BY <2>1, <2>2 DEF Held, EntriesOf, vars, historyVars
  <2>3. ASSUME NEW c \in Channels, PutDone(c) PROVE Held(d)'
    <3>1. CASE d = c
      BY <1>2, <2>3, <3>1, PutEntries DEF Held
    <3>2. CASE d # c
      BY <1>2, <2>1, <2>3, <3>2, PutEntries, HeldFrame DEF PutDone, TypeOK
    <3> QED  BY <3>1, <3>2
  <2>4. ASSUME NEW c \in Channels, RemoveDone(c) PROVE Held(d)'
    <3>1. CASE d = c
      BY <2>1, <2>4, <3>1 DEF Held, RemoveDone, TypeOK
    <3>2. CASE d # c
      BY <1>2, <2>1, <2>4, <3>2, RemoveEntries, HeldFrame DEF RemoveDone, TypeOK
    <3> QED  BY <3>1, <3>2
  <2>5. ASSUME NEW c \in Channels, PublishConnected(c) \/ PublishDisconnected(c)
        PROVE Held(d)'
    BY <2>1, <2>5 DEF PublishConnected, PublishDisconnected, Held, EntriesOf, TypeOK
  <2>6. ASSUME NEW c \in Channels,
               /\ UNCHANGED <<map, joins>>
               /\ phase'[d] = "dead" <=> phase[d] = "dead"
               /\ running'[d] = "disconnected" <=> running[d] = "disconnected"
        PROVE Held(d)'
    BY <2>1, <2>6 DEF Held, EntriesOf
  <2> QED  BY <1>2, <2>2, <2>3, <2>4, <2>5, <2>6, QuietStep DEF Next, Callback
<1>3. Init /\ IInv => HeldInv
  BY <1>1 DEF HeldInv
<1> QED  BY <1>2, <1>3, IInvInductive, PTL DEF Spec

\* The channels that the registry maps its keys to are those with an entry.
LEMMA RegisteredChannels ==
    ASSUME TypeOK
    PROVE  {map[k] : k \in DOMAIN map} = {c \in Channels : EntriesOf(c) # {}}
<1>1. \A k \in DOMAIN map : map[k] = k[2] /\ k[2] \in Channels
  BY DEF TypeOK, Registry, Keys
<1> QED  BY <1>1 DEF EntriesOf

\* Every step of the handlers is a step of the abstract registry, or one it does not see.
LEMMA RegistryStep ==
    ASSUME HeldInv, IInv', [Next]_vars
    PROVE  [SR!Next]_(SR!vars)
<1> USE DEF HeldInv, IInv, Typed
<1> DEFINE registered == {map[k] : k \in DOMAIN map}
           rejoined == {c \in Channels : joins[c] > 1}
           told == {c \in Channels : announced[c] # {}}
           leaving == {c \in Channels : running[c] = "disconnected" \/ phase[c] = "dead"}
           gone == {c \in Channels : phase[c] = "dead"}
<1>1. CASE lossy'
  BY <1>1 DEF SR!Next, SR!Broken
<1>2. CASE ~lossy'
  <2>0. ~lossy /\ \A c \in Channels : Linked(c) /\ Held(c)
    BY <1>2, LossyStays
  <2>1. registered = {c \in Channels : EntriesOf(c) # {}}
    BY RegisteredChannels
  <2>2. registered' = {c \in Channels : EntriesOf(c)' # {}}
    <3>1. \A k \in DOMAIN map' : map'[k] = k[2] /\ k[2] \in Channels
      BY DEF TypeOK, Registry, Keys
    <3> QED  BY <3>1 DEF EntriesOf
  <2>3. ASSUME UNCHANGED <<registered, rejoined, told, leaving, gone, lossy>>
        PROVE UNCHANGED SR!vars
    BY <2>3 DEF SR!vars
  <2>4. CASE UNCHANGED vars
    BY <2>3, <2>4 DEF vars, historyVars
  <2>5. ASSUME NEW c \in Channels, PutDone(c) PROVE SR!Join(c)
    <3>1. c \notin leaving /\ UNCHANGED <<told, leaving, gone>>
      BY <2>5 DEF PutDone, CallbackPhase, Open, TypeOK
    <3>2. registered' = registered \cup {c}
      BY <1>2, <2>1, <2>2, <2>5, PutEntries
    <3>3. c \in registered <=> joins[c] > 0
      <4>1. joins[c] \in Nat /\ (joins[c] = 0 => EntriesOf(c) = {})
        BY <2>0 DEF Linked, TypeOK
      <4>2. joins[c] > 0 => EntriesOf(c) # {}
        BY <2>0, <3>1 DEF Held
      <4>3. c \in registered <=> EntriesOf(c) # {}
        BY <2>1
      <4> HIDE DEF registered
      <4> QED  BY <4>1, <4>2, <4>3
    <3>4. rejoined' = rejoined \cup (registered \cap {c})
      <4>1. joins \in [Channels -> Nat] /\ joins' = [joins EXCEPT ![c] = @ + 1]
        BY <2>5 DEF PutDone, TypeOK
      <4>2. \A d \in Channels : joins'[d] = IF d = c THEN joins[d] + 1 ELSE joins[d]
        BY <4>1
      <4>3. \A d \in Channels : joins'[d] > 1 <=> joins[d] > 1 \/ (d = c /\ joins[c] > 0)
        BY <4>1, <4>2
      <4> QED  BY <3>3, <4>3
    <3> QED  BY <3>1, <3>2, <3>4 DEF SR!Join
  <2>6. ASSUME NEW c \in Channels, PublishConnected(c) PROVE SR!TellJoined(c)
    <3>1. agentName[c] \in EntriesOf(c) /\ c \notin leaving
      <4>1. agentName[c] \in Keys /\ agentName[c][2] = c
        BY <2>6, KeysOfKeys DEF PublishConnected, OwnName
      <4>2. running[c] = "connected" /\ phase[c] # "dead"
        BY <2>6 DEF PublishConnected, CallbackPhase, Open
      <4>3. agentName[c] \in DOMAIN map
        BY <2>0, <4>1, <4>2, NoNameIsNoKey DEF Linked
      <4> QED  BY <4>1, <4>2, <4>3 DEF EntriesOf
    <3>2. told' = told \cup {c}
      <4>1. announced' = [announced EXCEPT ![c] = @ \cup {agentName[c]}]
        BY <2>6 DEF PublishConnected
      <4>2. \A d \in Channels : announced'[d] = IF d = c THEN announced[d] \cup {agentName[c]} ELSE announced[d]
        BY <4>1 DEF TypeOK
      <4> QED  BY <4>2
    <3>3. UNCHANGED <<registered, rejoined, leaving, gone>>
      BY <2>6 DEF PublishConnected, TypeOK
    <3> QED  BY <2>1, <3>1, <3>2, <3>3 DEF SR!TellJoined
  <2>7. ASSUME NEW c \in Channels, RemoveDone(c) PROVE SR!Leave(c)
    <3>1. c \notin leaving /\ leaving' = leaving \cup {c} /\ UNCHANGED <<rejoined, told, gone>>
      BY <2>7 DEF RemoveDone, CallbackPhase, TypeOK
    <3>2. CASE EntriesOf(c)' = {}
      <4>1. registered' = registered \ {c}
        BY <1>2, <2>1, <2>2, <2>7, <3>2, RemoveEntries
      <4> QED  BY <3>1, <4>1 DEF SR!Leave
    <3>3. CASE EntriesOf(c)' # {}
      <4>1. joins[c] \in Nat /\ joins[c] # 0 /\ joins[c] # 1
        <5>1. EntriesOf(c)' = EntriesOf(c) \ {agentName[c]} /\ running[c] = "remove"
          BY <1>2, <2>7, RemoveEntries DEF RemoveDone
        <5>2. EntriesOf(c) # {} /\ ~(EntriesOf(c) \subseteq {agentName[c]})
          BY <3>3, <5>1
        <5> QED  BY <2>0, <5>1, <5>2 DEF Linked, TypeOK
      <4>2. c \in rejoined
        BY <4>1
      <4>3. registered' = registered
        BY <1>2, <2>1, <2>2, <2>7, <3>3, RemoveEntries
      <4> QED  BY <3>1, <4>2, <4>3 DEF SR!Leave
    <3> QED  BY <3>2, <3>3
  <2>8. ASSUME NEW c \in Channels, PublishDisconnected(c) PROVE SR!TellLeft(c)
    <3>1. /\ c \in leaving \ gone
          /\ gone' = gone \cup {c}
          /\ UNCHANGED <<registered, rejoined, leaving>>
      BY <2>8 DEF PublishDisconnected, CallbackPhase, TypeOK
    <3>2. told' \in {told, told \ {c}}
      <4>1. CASE announced' = announced
        BY <4>1
      <4>2. CASE announced' = [announced EXCEPT ![c] = @ \ {agentName[c]}]
        <5>1. \A d \in Channels : d # c => announced'[d] = announced[d]
          BY <4>2 DEF TypeOK
        <5>2. c \in told' => c \in told
          BY <4>2 DEF TypeOK
        <5> QED  BY <5>1, <5>2
      <4> QED  BY <2>8, <4>1, <4>2 DEF PublishDisconnected
    <3> QED  BY <3>1, <3>2 DEF SR!TellLeft
  <2>9. ASSUME NEW c \in Channels,
               \/ ChannelActive(c)
               \/ \E m \in Messages : AgentSend(c, m)
               \/ Closes(c)
               \/ ChannelRead(c)
               \/ ChannelInactive(c)
               \/ PublishConnectedThrows(c)
        PROVE UNCHANGED SR!vars
    BY <2>3, <2>9, QuietStep
  <2> QED  BY <1>2, <2>4, <2>5, <2>6, <2>7, <2>8, <2>9 DEF Next, Callback, SR!Next, SR!Kept
<1> QED  BY <1>1, <1>2

\* The handlers implement the registry that the consoles and the pages rely on: joined,
\* told, taken out, told, in this order and each agent for itself.
THEOREM RegistryIsImplemented == Spec => ImplementsRegistry
<1>1. Init => SR!Init
  BY DEF Init, EmptyMap, SR!Init
<1>2. HeldInv /\ IInv' /\ [Next]_vars => [SR!Next]_(SR!vars)
  BY RegistryStep
<1> QED  BY <1>1, <1>2, HeldInvInductive, IInvInductive, PTL DEF Spec, SR!Spec, ImplementsRegistry

-----------------------------------------------------------------------------
(* One event loop.                                                         *)

OneLoop == \A l1, l2 \in Loops : l1 = l2

\* A loop runs one callback at a time, so a HashMap call on the only loop still
\* has before it the table it read when it began.
Serial ==
    /\ \A c, d \in Channels : running[c] # "none" /\ running[d] # "none" => c = d
    /\ \A c \in Channels : running[c] \in {"put", "remove"} => seen[c] = map
    /\ ~lossy

SerialInv == Typed /\ (OneLoop => Serial)

LEMMA IdleLoop ==
    ASSUME OneLoop, NEW c \in Channels, LoopIdle(LoopOf[c])
    PROVE  \A d \in Channels : running[d] = "none"
<1>1. \A d \in Channels : LoopOf[d] = LoopOf[c]
  BY LoopOfAssumption DEF OneLoop
<1> QED  BY <1>1 DEF LoopIdle

LEMMA SerialStep == Typed /\ OneLoop /\ Serial /\ [Next]_vars => Serial'
<1> SUFFICES ASSUME Typed, OneLoop, Serial, [Next]_vars PROVE Serial'
  OBVIOUS
<1> USE DEF Typed
<1>0. DOMAIN running = Channels /\ DOMAIN seen = Channels
  BY DEF TypeOK
<1>1. CASE UNCHANGED <<running, seen, map, lossy>>
  BY <1>1 DEF Serial
<1>2. ASSUME NEW c \in Channels, ChannelRead(c) PROVE Serial'
  <2>1. \A d \in Channels : running[d] = "none"
    BY <1>2, ReadNames, IdleLoop
  <2>2. map' = map /\ lossy' = lossy
    BY <1>2, ReadNames
  <2>3. CASE UNCHANGED <<running, seen>>
    BY <2>2, <2>3 DEF Serial
  <2>4. CASE running' = [running EXCEPT ![c] = "put"] /\ seen' = [seen EXCEPT ![c] = map]
    BY <1>0, <2>1, <2>2, <2>4 DEF Serial
  <2> QED  BY <1>2, <2>3, <2>4, ReadNames
<1>3. ASSUME NEW c \in Channels, ChannelInactive(c) PROVE Serial'
  <2>1. \A d \in Channels : running[d] = "none"
    BY <1>3, IdleLoop DEF ChannelInactive
  <2> QED  BY <1>0, <1>3, <2>1 DEF ChannelInactive, Serial, historyVars
<1>4. ASSUME NEW c \in Channels, PutDone(c) PROVE Serial'
  <2>1. seen[c] = map /\ running[c] # "none"
    BY <1>4 DEF PutDone, Serial
  <2>2. map' = MapPut(map, agentName[c], c)
    BY <1>4, <2>1 DEF PutDone, PutOutcomes
  <2>3. ~lossy'
    BY <1>4, <2>2 DEF PutDone, Serial
  <2>4. \A d \in Channels : d # c => running[d] = "none"
    BY <2>1 DEF Serial
  <2>5. running' = [running EXCEPT ![c] = "connected"]
    BY <1>4 DEF PutDone
  <2>6. \A d \in Channels : running'[d] = IF d = c THEN "connected" ELSE "none"
    BY <1>0, <2>4, <2>5
  <2> QED  BY <2>3, <2>6 DEF Serial
<1>5. ASSUME NEW c \in Channels, RemoveDone(c) PROVE Serial'
  <2>1. seen[c] = map /\ running[c] # "none"
    BY <1>5 DEF RemoveDone, Serial
  <2>2. map' = MapRemove(map, agentName[c])
    BY <1>5, <2>1 DEF RemoveDone, RemoveOutcomes
  <2>3. ~lossy'
    BY <1>5, <2>2 DEF RemoveDone, Serial
  <2>4. \A d \in Channels : d # c => running[d] = "none"
    BY <2>1 DEF Serial
  <2>5. running' = [running EXCEPT ![c] = "disconnected"]
    BY <1>5 DEF RemoveDone
  <2>6. \A d \in Channels : running'[d] = IF d = c THEN "disconnected" ELSE "none"
    BY <1>0, <2>4, <2>5
  <2> QED  BY <2>3, <2>6 DEF Serial
<1>6. ASSUME NEW c \in Channels, UNCHANGED <<seen, map, lossy>>,
             running' = [running EXCEPT ![c] = "none"]
      PROVE Serial'
  BY <1>0, <1>6 DEF Serial
<1>7. ASSUME NEW c \in Channels, Callback(c), ~PutDone(c), ~RemoveDone(c) PROVE Serial'
  BY <1>6, <1>7 DEF Callback, PublishConnected, PublishConnectedThrows, PublishDisconnected
<1>8. ASSUME NEW c \in Channels,
             \/ ChannelActive(c)
             \/ \E m \in Messages : AgentSend(c, m)
             \/ Closes(c)
      PROVE Serial'
  BY <1>1, <1>8 DEF ChannelActive, AgentSend, Closes, historyVars
<1>9. CASE UNCHANGED vars
  BY <1>1, <1>9 DEF vars, historyVars
<1> QED  BY <1>2, <1>3, <1>4, <1>5, <1>7, <1>8, <1>9 DEF Next

\* With a single worker loop the unsynchronised HashMap never loses an update.
THEOREM OneLoopIsSafe == Spec => []OneLoopLosesNothing
<1>1. Init => SerialInv
  BY TypeInit DEF SerialInv, Serial, Typed, Init, OwnName
<1>2. SerialInv /\ [Next]_vars => SerialInv'
  BY TypeStep, OwnNameStep, SerialStep DEF SerialInv, Typed, OneLoop
<1>3. SerialInv => OneLoopLosesNothing
  BY DEF SerialInv, Serial, OneLoop, OneLoopLosesNothing
<1> QED  BY <1>1, <1>2, <1>3, PTL DEF Spec

-----------------------------------------------------------------------------
(* The names of agents.                                                    *)

\* On a channel that has nothing torn, every read starts with an empty buffer, so the name
\* it yields is the name that was sent.
WholeNames(c) ==
    torn[c] # {}
    \/ /\ agentName[c] = NoName \/ agentName[c][1] \in Names
       /\ running[c] \in {"put", "connected"} => agentName[c][1] \in Names
       /\ phase[c] \in {"new", "active", "failing"} => offset[c] = 0
       /\ phase[c] \in {"new", "active", "failing"} /\ running[c] = "none" => operationData[c] = << >>

Genuine(m, t) == \A k \in DOMAIN m : k[1] \in Names \/ t[k[2]] # {}

GenuineInv ==
    /\ IInv
    /\ Genuine(map, torn)
    /\ \A c \in Channels : WholeNames(c) /\ Genuine(seen[c], torn)

\* Only a partial read of a JOIN and a listener that throws change torn.
LEMMA TornStays == TypeOK /\ [Next]_vars => \A c \in Channels : torn[c] \subseteq torn'[c]
<1> SUFFICES ASSUME TypeOK, [Next]_vars PROVE \A c \in Channels : torn[c] \subseteq torn'[c]
  OBVIOUS
<1>1. CASE torn' = torn
  BY <1>1
<1>2. ASSUME NEW c \in Channels, NEW how, torn' = [torn EXCEPT ![c] = @ \cup {how}]
      PROVE \A d \in Channels : torn[d] \subseteq torn'[d]
  BY <1>2 DEF TypeOK
<1>3. CASE UNCHANGED vars
  BY <1>1, <1>3 DEF vars, historyVars
<1>4. ASSUME NEW c \in Channels, ChannelRead(c)
      PROVE torn' = torn \/ torn' = [torn EXCEPT ![c] = @ \cup {"part"}]
  BY <1>4 DEF ChannelRead, ReadMisaligned, Drop, ReadFails, ReadTruncatedHeader,
              ReadForeignHeader, ReadJoinOverrun, ReadJoinPart, ReadJoinLast, historyVars
<1>5. ASSUME NEW c \in Channels, Callback(c)
      PROVE torn' = torn \/ torn' = [torn EXCEPT ![c] = @ \cup {"thrown"}]
  BY <1>5 DEF Callback, PutDone, PublishConnected, PublishConnectedThrows, RemoveDone,
              PublishDisconnected, historyVars
<1>6. ASSUME NEW c \in Channels,
             \/ ChannelActive(c)
             \/ \E m \in Messages : AgentSend(c, m)
             \/ Closes(c)
             \/ ChannelInactive(c)
      PROVE torn' = torn
  BY <1>6 DEF ChannelActive, AgentSend, Closes, ChannelInactive, historyVars
<1> QED  BY <1>1, <1>2, <1>3, <1>4, <1>5, <1>6 DEF Next

\* The name a whole read gives the agent is the data of its JOIN.
LEMMA WholeRead ==
    ASSUME TypeOK, NEW c \in Channels, NEW k \in 0 .. Len(inbound[c]),
           NEW p \in EndUnits(c, k), ReadOf(c, k, p), ReadJoinLast(c, k, p),
           offset[c] = 0, operationData[c] = << >>
    PROVE  agentName'[c] = <<Head(inbound[c]).data, c>> /\ agentName'[c][1] \in Names
<1> DEFINE d == Head(inbound[c]).data
<1>1. d \in Seq(Letters) /\ d \in Names /\ Missing(c) = Len(d)
  BY ChunkFacts DEF ReadOf, ReadJoinLast, JoinHeader, Missing, Messages
<1>2. SubSeq(d, 1, Len(d)) = d
  BY <1>1
<1>3. Accumulated(c, Missing(c)) = d
  BY <1>1, <1>2, ConcatEmptySeq DEF Accumulated
<1>4. operationData'[c] = d
  BY <1>3 DEF ReadJoinLast, TypeOK
<1>5. agentName'[c] = <<d, c>>
  BY <1>4 DEF ReadJoinLast, TypeOK
<1> QED  BY <1>1, <1>5

LEMMA WholeNamesRead ==
    ASSUME IInv, NEW c \in Channels, ChannelRead(c), WholeNames(c)
    PROVE  WholeNames(c)'
<1> PICK k \in 0 .. Len(inbound[c]) : \E p \in EndUnits(c, k) : ReadOf(c, k, p)
  BY DEF ChannelRead, ReadOf
<1> PICK p \in EndUnits(c, k) : ReadOf(c, k, p)
  OBVIOUS
<1> USE DEF IInv, Typed
<1>0. phase[c] \in {"active", "failing"} /\ running[c] = "none"
  BY ReadNames DEF LoopIdle, Open
<1>1. CASE ReadFails(c, k, p)
  BY <1>0, <1>1 DEF ReadFails, ExceptionCaught, WholeNames, TypeOK, handlerVars, historyVars
<1>2. CASE Drop(c, k, p)
  BY <1>2 DEF Drop, WholeNames, handlerVars, historyVars
<1>3. CASE ReadJoinPart(c, k, p)
  BY <1>3 DEF ReadJoinPart, WholeNames, TypeOK
<1>4. CASE ReadJoinLast(c, k, p)
  <2>1. CASE torn[c] # {}
    BY <1>4, <2>1 DEF ReadJoinLast, WholeNames, historyVars
  <2>2. CASE torn[c] = {}
    <3>1. offset[c] = 0 /\ operationData[c] = << >>
      BY <1>0, <2>2 DEF WholeNames
    <3>2. agentName'[c][1] \in Names
      BY <1>4, <3>1, WholeRead
    <3>3. running'[c] = "put" /\ offset'[c] = 0
      BY <1>4 DEF ReadJoinLast, TypeOK
    <3> QED  BY <3>2, <3>3 DEF WholeNames
  <2> QED  BY <2>1, <2>2
<1> QED  BY <1>1, <1>2, <1>3, <1>4
        DEF ReadOf, ReadMisaligned, ReadTruncatedHeader, ReadForeignHeader, ReadJoinOverrun

\* A callback on one channel touches no other channel's handler.
LEMMA WholeNamesStep ==
    ASSUME IInv, Next, \A c \in Channels : WholeNames(c)
    PROVE  \A c \in Channels : WholeNames(c)'
<1> USE DEF IInv, Typed
<1>1. ASSUME NEW c \in Channels, ChannelRead(c) PROVE \A d \in Channels : WholeNames(d)'
  <2>1. ASSUME NEW d \in Channels, d # c
        PROVE  UNCHANGED <<torn[d], agentName[d], running[d], phase[d], offset[d], operationData[d]>>
    BY <1>1, <2>1 DEF ChannelRead, ReadMisaligned, Drop, ReadFails, ExceptionCaught, ReadTruncatedHeader,
              ReadForeignHeader, ReadJoinOverrun, ReadJoinPart, ReadJoinLast,
              handlerVars, historyVars, TypeOK
  <2>2. ASSUME NEW d \in Channels, d # c PROVE WholeNames(d)'
    BY <2>1, <2>2 DEF WholeNames
  <2> QED  BY <1>1, <2>2, WholeNamesRead
<1>2. ASSUME NEW c \in Channels, ChannelActive(c) PROVE \A d \in Channels : WholeNames(d)'
  BY <1>2 DEF ChannelActive, WholeNames, TypeOK, handlerVars, historyVars
<1>3. ASSUME NEW c \in Channels, NEW m \in Messages, AgentSend(c, m)
      PROVE \A d \in Channels : WholeNames(d)'
  BY <1>3 DEF AgentSend, WholeNames, handlerVars, historyVars
<1>4. ASSUME NEW c \in Channels, Closes(c) PROVE \A d \in Channels : WholeNames(d)'
  BY <1>4 DEF Closes, Open, WholeNames, TypeOK, handlerVars, historyVars
<1>5. ASSUME NEW c \in Channels, ChannelInactive(c) PROVE \A d \in Channels : WholeNames(d)'
  BY <1>5 DEF ChannelInactive, WholeNames, TypeOK, handlerVars, historyVars
<1>6. ASSUME NEW c \in Channels, PutDone(c) \/ RemoveDone(c)
      PROVE \A d \in Channels : WholeNames(d)'
  BY <1>6 DEF PutDone, RemoveDone, WholeNames, TypeOK, wireVars, handlerVars
<1>7. ASSUME NEW c \in Channels, PublishConnected(c)
      PROVE \A d \in Channels : WholeNames(d)'
  BY <1>7 DEF PublishConnected, WholeNames, TypeOK
<1>8. ASSUME NEW c \in Channels, PublishConnectedThrows(c)
      PROVE \A d \in Channels : WholeNames(d)'
  <2>1. torn'[c] # {}
    BY <1>8 DEF PublishConnectedThrows, TypeOK
  <2>2. ASSUME NEW d \in Channels, d # c
        PROVE  UNCHANGED <<torn[d], agentName[d], running[d], phase[d], offset[d], operationData[d]>>
    BY <1>8, <2>2 DEF PublishConnectedThrows, ExceptionCaught, TypeOK, handlerVars
  <2> QED  BY <2>1, <2>2 DEF WholeNames
<1>9. ASSUME NEW c \in Channels, PublishDisconnected(c)
      PROVE \A d \in Channels : WholeNames(d)'
  BY <1>9 DEF PublishDisconnected, CallbackPhase, Open, WholeNames, TypeOK, handlerVars
<1> QED  BY <1>1, <1>2, <1>3, <1>4, <1>5, <1>6, <1>7, <1>8, <1>9 DEF Next, Callback

\* Every table stays genuine: a put adds a genuine name, and nothing else adds any.
LEMMA GenuineMapStep ==
    ASSUME GenuineInv, Next
    PROVE  Genuine(map', torn') /\ \A c \in Channels : Genuine(seen'[c], torn')
<1> USE DEF GenuineInv, IInv, Typed
<1>1. ASSUME NEW m, Registry(m), Genuine(m, torn) PROVE Genuine(m, torn')
  <2>1. \A k \in DOMAIN m : k[2] \in Channels
    BY <1>1 DEF Registry, Keys
  <2> QED  BY <1>1, <2>1, TornStays DEF Genuine
<1>2. Genuine(map, torn') /\ \A c \in Channels : Genuine(seen[c], torn')
  BY <1>1 DEF TypeOK
<1>3. DOMAIN seen = Channels /\ Genuine(EmptyMap, torn')
  BY DEF TypeOK, Genuine, EmptyMap
<1>4. CASE UNCHANGED <<map, seen>>
  BY <1>2, <1>4
<1>5. ASSUME NEW c \in Channels, map' = map, seen' = [seen EXCEPT ![c] = map]
      PROVE  Genuine(map', torn') /\ \A d \in Channels : Genuine(seen'[d], torn')
  BY <1>2, <1>3, <1>5
<1>6. ASSUME NEW c \in Channels, PutDone(c)
      PROVE  Genuine(map', torn') /\ \A d \in Channels : Genuine(seen'[d], torn')
  <2>1. torn' = torn /\ seen' = [seen EXCEPT ![c] = EmptyMap]
    BY <1>6 DEF PutDone
  <2>2. agentName[c][1] \in Names \/ torn[c] # {}
    BY <1>6 DEF PutDone, WholeNames
  <2>3. agentName[c] \in Keys /\ agentName[c][2] = c
    BY <1>6, KeysOfKeys DEF PutDone, OwnName
  <2>4. map' = MapPut(map, agentName[c], c) \/ map' = MapPut(seen[c], agentName[c], c)
    BY <1>6 DEF PutDone, PutOutcomes
  <2>5. ASSUME NEW m, Genuine(m, torn) PROVE Genuine(MapPut(m, agentName[c], c), torn)
    BY <2>2, <2>3, <2>5 DEF Genuine, MapPut
  <2> QED  BY <1>2, <1>3, <2>1, <2>4, <2>5
<1>7. ASSUME NEW c \in Channels, RemoveDone(c)
      PROVE  Genuine(map', torn') /\ \A d \in Channels : Genuine(seen'[d], torn')
  <2>1. torn' = torn /\ seen' = [seen EXCEPT ![c] = EmptyMap]
    BY <1>7 DEF RemoveDone
  <2>2. map' = MapRemove(map, agentName[c]) \/ map' = MapRemove(seen[c], agentName[c])
    BY <1>7 DEF RemoveDone, RemoveOutcomes
  <2>3. ASSUME NEW m, Genuine(m, torn) PROVE Genuine(MapRemove(m, agentName[c]), torn)
    BY <2>3 DEF Genuine, MapRemove, Restrict
  <2> QED  BY <1>2, <1>3, <2>1, <2>2, <2>3
<1>8. ASSUME NEW c \in Channels, ChannelRead(c)
      PROVE  Genuine(map', torn') /\ \A d \in Channels : Genuine(seen'[d], torn')
  BY <1>4, <1>5, <1>8, ReadNames
<1>9. ASSUME NEW c \in Channels, ChannelInactive(c)
      PROVE  Genuine(map', torn') /\ \A d \in Channels : Genuine(seen'[d], torn')
  BY <1>5, <1>9 DEF ChannelInactive
<1>10. ASSUME NEW c \in Channels,
              \/ ChannelActive(c)
              \/ \E m \in Messages : AgentSend(c, m)
              \/ Closes(c)
              \/ PublishConnected(c)
              \/ PublishConnectedThrows(c)
              \/ PublishDisconnected(c)
       PROVE UNCHANGED <<map, seen>>
  BY <1>10 DEF ChannelActive, AgentSend, Closes, PublishConnected, PublishConnectedThrows,
               PublishDisconnected
<1> QED  BY <1>4, <1>6, <1>7, <1>8, <1>9, <1>10 DEF Next, Callback

LEMMA GenuineInvInductive == Spec => []GenuineInv
<1>1. Init => /\ Genuine(map, torn)
              /\ \A c \in Channels : WholeNames(c) /\ Genuine(seen[c], torn)
  BY DEF Init, Genuine, WholeNames, EmptyMap
<1>2. IInv /\ IInv' /\ GenuineInv /\ [Next]_vars => GenuineInv'
  <2> SUFFICES ASSUME IInv', GenuineInv, [Next]_vars PROVE GenuineInv'
    OBVIOUS
  <2>1. CASE Next
    BY <2>1, WholeNamesStep, GenuineMapStep DEF GenuineInv
  <2>2. CASE UNCHANGED vars
    BY <2>2 DEF GenuineInv, WholeNames, vars, handlerVars, historyVars
  <2> QED  BY <2>1, <2>2
<1>3. Init /\ IInv => GenuineInv
  BY <1>1 DEF GenuineInv
<1> QED  BY <1>2, <1>3, IInvInductive, PTL DEF Spec

\* A registered name mixes two messages only on a channel that had a JOIN read in part,
\* or its announcement cut short.
THEOREM OnlyTornMixes == Spec => []NamesAreGenuine
<1>1. GenuineInv => NamesAreGenuine
  BY DEF GenuineInv, IInv, Typed, TypeOK, Registry, Genuine, NamesAreGenuine
<1> QED  BY <1>1, GenuineInvInductive, PTL

=============================================================================
