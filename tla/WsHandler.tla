------------------------------ MODULE WsHandler ------------------------------
(***************************************************************************)
(* websocket.WsHandler: the browser consoles.  The web container calls     *)
(* afterConnectionEstablished and afterConnectionClosed; every thread that *)
(* publishes a MessageEvent (an agent's event loop, the directory watcher) *)
(* runs onApplicationEvent itself, because Spring's multicaster has no     *)
(* taskExecutor, and so iterates over sessionSet in sendMessage.           *)
(*                                                                         *)
(* sessionSet is a plain java.util.HashSet shared by all of them.  An add  *)
(* or a remove that races another may discard its change, and an iterator  *)
(* is fail-fast: it has its next element at hand, and only when asked for  *)
(* it compares modCount, an unsynchronised read, so that a change during   *)
(* the loop may be noticed (ConcurrentModificationException, which         *)
(* sendMessage does not catch), may go unnoticed, or may come when no      *)
(* element is left to ask for.                                             *)
(***************************************************************************)
EXTENDS Integers, Sequences

CONSTANTS
    Sessions,      \* web-socket sessions opened in a run
    Publishers,    \* threads that publish MessageEvents
    MaxPublishes   \* bound: events one publisher publishes

ASSUME DisjointThreads == Sessions \cap Publishers = {}
ASSUME MaxPublishesAssumption == MaxPublishes \in Nat

\* The container runs the callbacks of one session one at a time, so a session
\* stands for the thread that runs its callback.
Threads == Sessions \cup Publishers

\* The messages of a thread are numbered.  A session's only one is the "[debug] your ws
\* session id" that afterConnectionEstablished broadcasts.
Messages == 1 .. MaxPublishes + 1

VARIABLES
    stage,        \* of a session: "new", "entered", "established", "gone"
    isOpen,       \* session.isOpen()
    sessionSet,
    pc,           \* where a thread is in WsHandler
    seen,         \* the table a HashSet call in progress has read
    rest,         \* what the thread's iterator has not returned yet
    stale,        \* sessionSet changed since that iterator was made
    to,           \* the sessions the thread is sending to: none or one
    count,        \* messages the thread has begun to broadcast
    received,     \* what each console received of each thread, in order
    \* History, read by the properties only:
    members,      \* consoles in place when the publisher's latest loop began
    collided,     \* consoles to which a send of that loop threw
    lossy         \* a change of the set discarded another thread's change

setVars == <<sessionSet, seen, lossy>>
loopVars == <<rest, stale, to, count, members, collided>>
vars == <<stage, isOpen, pc, received, setVars, loopVars>>

Init ==
    /\ stage = [s \in Sessions |-> "new"]
    /\ isOpen = [s \in Sessions |-> FALSE]
    /\ sessionSet = {}
    /\ pc = [t \in Threads |-> "idle"]
    /\ seen = [t \in Threads |-> {}]
    /\ rest = [t \in Threads |-> {}]
    /\ stale = [t \in Threads |-> FALSE]
    /\ to = [t \in Threads |-> {}]
    /\ count = [t \in Threads |-> 0]
    /\ received = [s \in Sessions |-> [t \in Threads |-> << >>]]
    /\ members = [p \in Publishers |-> {}]
    /\ collided = [p \in Publishers |-> {}]
    /\ lossy = FALSE

-----------------------------------------------------------------------------
(* The container and the set.                                              *)

\* Every iterator at work on the set is out of date after a structural change.
Outdate == stale' = [t \in Threads |-> stale[t] \/ (sessionSet' # sessionSet /\ rest[t] # {})]

\* The handshake is over: afterConnectionEstablished begins sessionSet.add.
AfterConnectionEstablished(s) ==
    /\ stage[s] = "new"
    /\ stage' = [stage EXCEPT ![s] = "entered"]
    /\ isOpen' = [isOpen EXCEPT ![s] = TRUE]
    /\ pc' = [pc EXCEPT ![s] = "add"]
    /\ seen' = [seen EXCEPT ![s] = sessionSet]
    /\ UNCHANGED <<sessionSet, lossy, received, loopVars>>

\* sessionSet.add(session) takes effect, possibly on the set as it was seen.
AddDone(s) ==
    /\ pc[s] = "add"
    /\ sessionSet' \in {sessionSet \cup {s}, seen[s] \cup {s}}
    /\ lossy' = (lossy \/ sessionSet' # sessionSet \cup {s})
    /\ Outdate
    /\ stage' = [stage EXCEPT ![s] = "established"]
    /\ pc' = [pc EXCEPT ![s] = "broadcast"]
    /\ seen' = [seen EXCEPT ![s] = {}]
    /\ UNCHANGED <<isOpen, received, rest, to, count, members, collided>>

\* The browser leaves, or the connection breaks.
PeerClose(s) ==
    /\ isOpen[s]
    /\ isOpen' = [isOpen EXCEPT ![s] = FALSE]
    /\ UNCHANGED <<stage, pc, received, setVars, loopVars>>

\* afterConnectionClosed begins sessionSet.remove.
AfterConnectionClosed(s) ==
    /\ stage[s] = "established"
    /\ ~isOpen[s]
    /\ pc[s] = "idle"
    /\ pc' = [pc EXCEPT ![s] = "remove"]
    /\ seen' = [seen EXCEPT ![s] = sessionSet]
    /\ UNCHANGED <<stage, isOpen, sessionSet, lossy, received, loopVars>>

\* Faulty RemoveDone: what is removed does not equal what was added.
RemoveDoneOfOther(s) ==
    /\ pc[s] = "remove"
    /\ stage' = [stage EXCEPT ![s] = "gone"]
    /\ pc' = [pc EXCEPT ![s] = "idle"]
    /\ seen' = [seen EXCEPT ![s] = {}]
    /\ UNCHANGED <<isOpen, received, sessionSet, lossy, loopVars>>

RemoveDone(s) ==
    /\ pc[s] = "remove"
    /\ sessionSet' \in {sessionSet \ {s}} \cup (IF s \in seen[s] THEN {seen[s] \ {s}} ELSE {})
    /\ lossy' = (lossy \/ sessionSet' # sessionSet \ {s})
    /\ Outdate
    /\ stage' = [stage EXCEPT ![s] = "gone"]
    /\ pc' = [pc EXCEPT ![s] = "idle"]
    /\ seen' = [seen EXCEPT ![s] = {}]
    /\ UNCHANGED <<isOpen, received, rest, to, count, members, collided>>

-----------------------------------------------------------------------------
(* sendMessage, run by a publisher or by the callback of a new session.    *)

InPlace == {s \in Sessions : stage[s] = "established" /\ isOpen[s]}

\* for (WebSocketSession session : sessionSet): the iterator is made.
Broadcast(t) ==
    /\ \/ t \in Sessions /\ pc[t] = "broadcast"
       \/ t \in Publishers /\ pc[t] \in {"idle", "returned", "threw"} /\ count[t] < MaxPublishes
    /\ pc' = [pc EXCEPT ![t] = "iterate"]
    /\ count' = [count EXCEPT ![t] = @ + 1]
    /\ rest' = [rest EXCEPT ![t] = sessionSet]
    /\ stale' = [stale EXCEPT ![t] = FALSE]
    /\ members' = [p \in Publishers |-> IF p = t THEN InPlace ELSE members[p]]
    /\ collided' = [p \in Publishers |-> IF p = t THEN {} ELSE collided[p]]
    /\ UNCHANGED <<stage, isOpen, to, received, setVars>>

\* Faulty NextSession: the iterator does not advance.
NextSessionAgain(t) ==
    /\ pc[t] = "iterate"
    /\ \E s \in rest[t] :
        /\ isOpen[s]
        /\ pc' = [pc EXCEPT ![t] = "send"]
        /\ to' = [to EXCEPT ![t] = {s}]
    /\ UNCHANGED <<stage, isOpen, received, setVars, rest, stale, count, members, collided>>

\* The next session: skipped if it is not open, or about to be sent to.  The iterator
\* looks ahead for the one after it; where the set has changed, the table may be one
\* that the HashSet has just replaced and is still filling, and sessions are missed.
NextSession(t) ==
    /\ pc[t] = "iterate"
    /\ \E s \in rest[t] :
        /\ \E left \in IF stale[t] THEN SUBSET (rest[t] \ {s}) ELSE {rest[t] \ {s}} :
            rest' = [rest EXCEPT ![t] = left]
        /\ \/ /\ isOpen[s]
              /\ pc' = [pc EXCEPT ![t] = "send"]
              /\ to' = [to EXCEPT ![t] = {s}]
           \/ /\ ~isOpen[s]
              /\ UNCHANGED <<pc, to>>
    /\ UNCHANGED <<stage, isOpen, received, setVars, stale, count, members, collided>>

\* The remote endpoint is free: no other thread is writing to the session.
Free(s) == \A t \in Threads : pc[t] = "sending" => s \notin to[t]

SendBegin(t) ==
    /\ pc[t] = "send"
    /\ \A s \in to[t] : isOpen[s] /\ Free(s)
    /\ pc' = [pc EXCEPT ![t] = "sending"]
    /\ UNCHANGED <<stage, isOpen, received, setVars, loopVars>>

\* The send of t fails, because its session was closed since the check, or another
\* thread is in the middle of a send; or, once under way, because the session closes,
\* or stays open and takes too long: sends block, for as long as the container allows.
FailsAtOnce(t) == pc[t] = "send" /\ \E s \in to[t] : ~isOpen[s] \/ ~Free(s)
FailsLater(t) == pc[t] = "sending"

\* After the exception t goes on at place p, with the sessions of its iterator in left
\* and those in kept still in hand.
AfterThrow(t, p, left, kept) ==
    /\ pc' = [pc EXCEPT ![t] = p]
    /\ rest' = [rest EXCEPT ![t] = left]
    /\ to' = [to EXCEPT ![t] = kept]
    /\ collided' = [u \in Publishers |-> IF u = t THEN collided[u] \cup to[u] ELSE collided[u]]
    /\ UNCHANGED <<stage, isOpen, received, setVars, stale, count, members>>

\* Faulty SendThrows: the try block is around the loop, which a failed send ends.
SendThrowsOut(t) ==
    /\ FailsAtOnce(t) \/ FailsLater(t)
    /\ AfterThrow(t, IF t \in Sessions THEN "idle" ELSE "returned", {}, {})

\* Faulty SendThrows: a send under way when its session closes blocks for ever.
SendThrowsEarlyOnly(t) == FailsAtOnce(t) /\ AfterThrow(t, "iterate", rest[t], {})

\* session.sendMessage throws.  The exception is ignored, and the loop goes on.
SendThrows(t) ==
    (FailsAtOnce(t) \/ FailsLater(t)) /\ AfterThrow(t, "iterate", rest[t], {})

\* The message of t has reached its console, which now has log[s] of t.
Delivered(t, log) ==
    /\ pc[t] = "sending"
    /\ \A s \in to[t] : isOpen[s]
    /\ received' = [s \in Sessions |->
            IF s \in to[t] THEN [received[s] EXCEPT ![t] = log[s]] ELSE received[s]]
    /\ pc' = [pc EXCEPT ![t] = "iterate"]
    /\ to' = [to EXCEPT ![t] = {}]
    /\ UNCHANGED <<stage, isOpen, setVars, rest, stale, count, members, collided>>

\* Faulty SendEnd: an asynchronous send, which overtakes those begun before it.
SendEndOvertakes(t) == Delivered(t, [s \in Sessions |-> <<count[t]>> \o received[s][t]])

SendEnd(t) == Delivered(t, [s \in Sessions |-> Append(received[s][t], count[t])])

\* The iterator has no next element: sendMessage returns.
LoopEnds(t) ==
    /\ pc[t] = "iterate"
    /\ rest[t] = {}
    /\ pc' = [pc EXCEPT ![t] = IF t \in Sessions THEN "idle" ELSE "returned"]
    /\ UNCHANGED <<stage, isOpen, received, setVars, loopVars>>

\* The iterator notices that the set changed.  The exception leaves sendMessage and
\* the listener: it reaches the code that published the event, or the container,
\* which closes the new session.
LoopThrows(t) ==
    /\ pc[t] = "iterate"
    /\ rest[t] # {}
    /\ stale[t]
    /\ rest' = [rest EXCEPT ![t] = {}]
    /\ pc' = [pc EXCEPT ![t] = IF t \in Sessions THEN "idle" ELSE "threw"]
    /\ isOpen' = [s \in Sessions |-> isOpen[s] /\ s # t]
    /\ UNCHANGED <<stage, received, setVars, stale, to, count, members, collided>>

Step(t) ==
    \/ NextSession(t)
    \/ SendBegin(t)
    \/ SendThrows(t)
    \/ SendEnd(t)
    \/ LoopEnds(t)
    \/ LoopThrows(t)

Callback(s) == AddDone(s) \/ Broadcast(s) \/ AfterConnectionClosed(s) \/ RemoveDone(s)

Next ==
    \/ \E s \in Sessions : AfterConnectionEstablished(s) \/ PeerClose(s) \/ Callback(s)
    \/ \E t \in Publishers : Broadcast(t)
    \/ \E t \in Threads : Step(t)

Spec == Init /\ [][Next]_vars

\* Threads run: a send completes or times out, and the container calls
\* afterConnectionClosed for every session that closed.
Fairness ==
    /\ \A t \in Threads : WF_vars(Step(t))
    /\ \A s \in Sessions : WF_vars(Callback(s))

FairSpec == Spec /\ Fairness

-----------------------------------------------------------------------------
(* Properties.                                                             *)

\* Types, and: a thread sends to one console at a time, and holds a console only
\* while sending.
TypeOK ==
    /\ stage \in [Sessions -> {"new", "entered", "established", "gone"}]
    /\ isOpen \in [Sessions -> BOOLEAN]
    /\ sessionSet \subseteq Sessions
    /\ pc \in [Threads -> {"idle", "add", "remove", "broadcast", "iterate", "send", "sending",
                           "returned", "threw"}]
    /\ seen \in [Threads -> SUBSET Sessions]
    /\ rest \in [Threads -> SUBSET Sessions]
    /\ stale \in [Threads -> BOOLEAN]
    /\ to \in [Threads -> SUBSET Sessions]
    /\ count \in [Threads -> 0 .. MaxPublishes + 1]
    /\ received \in [Sessions -> [Threads -> Seq(Messages)]]
    /\ \A t \in Threads : (pc[t] \in {"send", "sending"}) <=> (to[t] # {})

\* sendMessage skips and fails quietly.  When it returns to a publisher, a console
\* that was in place when it began and still is has the message, unless a send to it
\* threw, or the set changed under the loop, or the HashSet had lost a change.
ReturnsOnlyWhenDelivered ==
    \A t \in Publishers : \A s \in members[t] :
        pc[t] = "returned" /\ isOpen[s]
            => \/ \E i \in DOMAIN received[s][t] : received[s][t][i] = count[t]
               \/ s \in collided[t]
               \/ stale[t]
               \/ lossy

\* A console sees the messages of one thread in the order they were published, and
\* none of them twice, whatever interrupts or overtakes the broadcasts.
InOrderOnce ==
    \A s \in Sessions : \A t \in Threads : \A i, j \in DOMAIN received[s][t] :
        i < j => received[s][t][i] < received[s][t][j]

\* Once the container is done with a session the set does not hold it, and until
\* then it does, unless the HashSet lost a change.
SetFollowsSessions ==
    \A s \in Sessions :
        /\ stage[s] = "gone" => s \notin sessionSet \/ lossy
        /\ stage[s] = "established" => s \in sessionSet \/ lossy

\* Every publisher gets its thread back from the listener.
PublishEnds ==
    \A t \in Publishers : (pc[t] = "iterate") ~> (pc[t] \in {"returned", "threw"})

=============================================================================
