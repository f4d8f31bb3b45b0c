--------------------------- MODULE WsHandler_proofs ---------------------------
(***************************************************************************)
(* Proofs about WsHandler, for every number of consoles, of publishing     *)
(* threads and of messages.                                                *)
(***************************************************************************)
EXTENDS WsHandler, SequenceTheorems, TLAPS

-----------------------------------------------------------------------------
(* Type correctness.                                                       *)

\* A session broadcasts once in its life, right after it was added: this is what bounds
\* its count; and a thread sends only what it has counted.  Both make TypeOK inductive.
OnceEach ==
    \A s \in Sessions :
        /\ pc[s] = "add" => stage[s] = "entered"
        /\ pc[s] = "broadcast" => stage[s] = "established"
        /\ stage[s] \in {"new", "entered"} \/ pc[s] = "broadcast" => count[s] = 0

Counted == \A t \in Threads : pc[t] \in {"iterate", "send", "sending"} => count[t] > 0

Typed == TypeOK /\ OnceEach /\ Counted

LEMMA TypedInit == Init => Typed
<1> SUFFICES ASSUME Init PROVE Typed
  OBVIOUS
<1>1. /\ stage \in [Sessions -> {"new", "entered", "established", "gone"}]
      /\ isOpen \in [Sessions -> BOOLEAN]
      /\ stale \in [Threads -> BOOLEAN]
      /\ received \in [Sessions -> [Threads -> Seq(Messages)]]
  BY DEF Init
<1>2. /\ seen \in [Threads -> SUBSET Sessions]
      /\ rest \in [Threads -> SUBSET Sessions]
      /\ to \in [Threads -> SUBSET Sessions]
      /\ sessionSet \subseteq Sessions
  BY DEF Init
<1>3. count \in [Threads -> 0 .. MaxPublishes + 1]
  BY MaxPublishesAssumption DEF Init
<1>4. /\ pc \in [Threads -> {"idle", "add", "remove", "broadcast", "iterate", "send", "sending",
                             "returned", "threw"}]
      /\ \A t \in Threads : (pc[t] \in {"send", "sending"}) <=> (to[t] # {})
  BY DEF Init
<1>5. OnceEach /\ Counted
  BY DEF Init, OnceEach, Counted, Threads
<1> QED  BY <1>1, <1>2, <1>3, <1>4, <1>5 DEF Typed, TypeOK

\* The callbacks of the container.
LEMMA TypedCallback ==
    ASSUME Typed, NEW s \in Sessions,
           \/ AfterConnectionEstablished(s)
           \/ PeerClose(s)
           \/ AddDone(s)
           \/ AfterConnectionClosed(s)
           \/ RemoveDone(s)
    PROVE  Typed'
<1> USE DEF Typed, TypeOK
<1>0. s \in Threads
  BY DEF Threads
<1>1. CASE AfterConnectionEstablished(s)
  BY <1>0, <1>1 DEF AfterConnectionEstablished, OnceEach, Counted, loopVars
<1>2. CASE PeerClose(s)
  BY <1>0, <1>2 DEF PeerClose, OnceEach, Counted, setVars, loopVars
<1>3. CASE AddDone(s)
  <2>1. sessionSet' \subseteq Sessions
    BY <1>0, <1>3 DEF AddDone
  <2>2. stale' \in [Threads -> BOOLEAN]
    BY <1>3 DEF AddDone, Outdate
  <2>3. /\ stage' = [stage EXCEPT ![s] = "established"]
        /\ pc' = [pc EXCEPT ![s] = "broadcast"]
        /\ seen' = [seen EXCEPT ![s] = {}]
        /\ UNCHANGED <<isOpen, received, rest, to, count, members, collided>>
        /\ pc[s] = "add"
    BY <1>3 DEF AddDone
  <2>4. OnceEach' /\ Counted'
    BY <1>0, <2>3 DEF OnceEach, Counted
  <2>5. \A t \in Threads : (pc'[t] \in {"send", "sending"}) <=> (to'[t] # {})
    BY <1>0, <2>3
  <2> QED  BY <1>0, <2>1, <2>2, <2>3, <2>4, <2>5
<1>4. CASE AfterConnectionClosed(s)
  BY <1>0, <1>4 DEF AfterConnectionClosed, OnceEach, Counted, loopVars
<1>5. CASE RemoveDone(s)
  <2>1. sessionSet' \subseteq Sessions
    BY <1>0, <1>5 DEF RemoveDone
  <2>2. stale' \in [Threads -> BOOLEAN]
    BY <1>5 DEF RemoveDone, Outdate
  <2>3. /\ stage' = [stage EXCEPT ![s] = "gone"]
        /\ pc' = [pc EXCEPT ![s] = "idle"]
        /\ seen' = [seen EXCEPT ![s] = {}]
        /\ UNCHANGED <<isOpen, received, rest, to, count, members, collided>>
        /\ pc[s] = "remove"
    BY <1>5 DEF RemoveDone
  <2>4. OnceEach' /\ Counted'
    BY <1>0, <2>3 DEF OnceEach, Counted
  <2>5. \A t \in Threads : (pc'[t] \in {"send", "sending"}) <=> (to'[t] # {})
    BY <1>0, <2>3
  <2> QED  BY <1>0, <2>1, <2>2, <2>3, <2>4, <2>5
<1> QED  BY <1>1, <1>2, <1>3, <1>4, <1>5

LEMMA TypedBroadcast ==
    ASSUME Typed, NEW t \in Threads, Broadcast(t)
    PROVE  Typed'
<1> USE DEF Typed, TypeOK
<1>1. /\ pc' = [pc EXCEPT ![t] = "iterate"]
      /\ count' = [count EXCEPT ![t] = @ + 1]
      /\ rest' = [rest EXCEPT ![t] = sessionSet]
      /\ stale' = [stale EXCEPT ![t] = FALSE]
      /\ UNCHANGED <<stage, isOpen, to, received, sessionSet, seen>>
  BY DEF Broadcast, setVars
<1>2. pc[t] \in {"broadcast", "idle", "returned", "threw"}
  BY DEF Broadcast
<1>3. count[t] + 1 \in 0 .. MaxPublishes + 1
  <2>1. CASE t \in Sessions /\ pc[t] = "broadcast"
    BY <2>1, MaxPublishesAssumption DEF OnceEach
  <2>2. CASE count[t] < MaxPublishes
    BY <2>2, MaxPublishesAssumption
  <2> QED  BY <2>1, <2>2 DEF Broadcast
<1>4. count' \in [Threads -> 0 .. MaxPublishes + 1]
  BY <1>1, <1>3
<1>5. OnceEach'
  <2> SUFFICES ASSUME NEW s \in Sessions
               PROVE /\ pc'[s] = "add" => stage'[s] = "entered"
                     /\ pc'[s] = "broadcast" => stage'[s] = "established"
                     /\ stage'[s] \in {"new", "entered"} \/ pc'[s] = "broadcast" => count'[s] = 0
    BY DEF OnceEach
  <2>1. s \in Threads
    BY DEF Threads
  <2>2. CASE s = t
    <3>1. pc[s] = "broadcast"
      BY <2>2, DisjointThreads DEF Broadcast
    <3>2. stage'[s] = "established" /\ pc'[s] = "iterate"
      BY <1>1, <2>1, <2>2, <3>1 DEF OnceEach
    <3> QED  BY <3>2
  <2>3. CASE s # t
    BY <1>1, <2>1, <2>3 DEF OnceEach
  <2> QED  BY <2>2, <2>3
<1>6. \A u \in Threads : (pc'[u] \in {"send", "sending"}) <=> (to'[u] # {})
  BY <1>1, <1>2
<1>7. Counted'
  BY <1>1, <1>3 DEF Counted
<1> QED  BY <1>1, <1>4, <1>5, <1>6, <1>7

\* The iterator gives one of the sessions it had left, and has left none but others of them;
\* all the others, unless the set changed.
LEMMA NextSessionTakes ==
    ASSUME Typed, NEW t \in Threads, NextSession(t)
    PROVE  \E s \in rest[t], left \in SUBSET Sessions :
            /\ left \subseteq rest[t] \ {s}
            /\ stale[t] \/ left = rest[t] \ {s}
            /\ rest' = [rest EXCEPT ![t] = left]
            /\ \/ isOpen[s] /\ pc' = [pc EXCEPT ![t] = "send"] /\ to' = [to EXCEPT ![t] = {s}]
               \/ ~isOpen[s] /\ UNCHANGED <<pc, to>>
<1>1. PICK s \in rest[t] :
        /\ \E left \in IF stale[t] THEN SUBSET (rest[t] \ {s}) ELSE {rest[t] \ {s}} :
            rest' = [rest EXCEPT ![t] = left]
        /\ \/ isOpen[s] /\ pc' = [pc EXCEPT ![t] = "send"] /\ to' = [to EXCEPT ![t] = {s}]
           \/ ~isOpen[s] /\ UNCHANGED <<pc, to>>
  BY DEF NextSession
<1>2. PICK left \in IF stale[t] THEN SUBSET (rest[t] \ {s}) ELSE {rest[t] \ {s}} :
        rest' = [rest EXCEPT ![t] = left]
  BY <1>1
<1>3. left \subseteq rest[t] \ {s} /\ (stale[t] \/ left = rest[t] \ {s})
  BY <1>2
<1>4. rest[t] \subseteq Sessions
  BY DEF Typed, TypeOK
<1> QED  BY <1>1, <1>2, <1>3, <1>4

\* A step inside sendMessage moves its own thread only.
LEMMA TypedStep ==
    ASSUME Typed, NEW t \in Threads, Step(t)
    PROVE  Typed'
<1> USE DEF Typed, TypeOK
<1>1. ASSUME NEW p \in {"iterate", "send", "sending", "idle", "returned", "threw"},
             pc' = [pc EXCEPT ![t] = p], UNCHANGED <<stage, count>>,
             pc[t] \in {"iterate", "send", "sending"}
      PROVE OnceEach' /\ Counted'
  BY <1>1 DEF OnceEach, Counted, Threads
<1>2. CASE NextSession(t)
  <2>1. PICK s \in rest[t], left \in SUBSET Sessions :
          /\ left \subseteq rest[t] \ {s} /\ rest' = [rest EXCEPT ![t] = left]
          /\ \/ pc' = [pc EXCEPT ![t] = "send"] /\ to' = [to EXCEPT ![t] = {s}]
             \/ UNCHANGED <<pc, to>>
    BY <1>2, NextSessionTakes
  <2>2. /\ pc[t] = "iterate"
        /\ UNCHANGED <<stage, isOpen, received, sessionSet, seen, stale, count>>
    BY <1>2 DEF NextSession, setVars
  <2>3. OnceEach' /\ Counted'
    BY <1>1, <2>1, <2>2 DEF OnceEach, Counted
  <2>4. rest' \in [Threads -> SUBSET Sessions]
    BY <2>1
  <2>5. CASE pc' = [pc EXCEPT ![t] = "send"] /\ to' = [to EXCEPT ![t] = {s}]
    <3>1. /\ to' \in [Threads -> SUBSET Sessions]
          /\ \A u \in Threads : (pc'[u] \in {"send", "sending"}) <=> (to'[u] # {})
          /\ pc' \in [Threads -> {"idle", "add", "remove", "broadcast", "iterate", "send",
                                  "sending", "returned", "threw"}]
      BY <2>5
    <3> QED  BY <2>2, <2>3, <2>4, <3>1
  <2>6. CASE UNCHANGED <<pc, to>>
    BY <2>2, <2>3, <2>4, <2>6
  <2> QED  BY <2>1, <2>5, <2>6
<1>3. CASE SendBegin(t)
  BY <1>1, <1>3 DEF SendBegin, setVars, loopVars
<1>4. CASE SendThrows(t)
  <2>1. /\ pc' = [pc EXCEPT ![t] = "iterate"]
        /\ rest' = [rest EXCEPT ![t] = rest[t]]
        /\ to' = [to EXCEPT ![t] = {}]
        /\ UNCHANGED <<stage, isOpen, received, sessionSet, seen, stale, count>>
        /\ pc[t] \in {"send", "sending"}
    BY <1>4 DEF SendThrows, AfterThrow, FailsAtOnce, FailsLater, setVars
  <2> QED  BY <1>1, <2>1
<1>5. CASE SendEnd(t)
  <2>1. /\ pc' = [pc EXCEPT ![t] = "iterate"]
        /\ to' = [to EXCEPT ![t] = {}]
        /\ UNCHANGED <<stage, isOpen, sessionSet, seen, rest, stale, count>>
        /\ pc[t] = "sending"
    BY <1>5 DEF SendEnd, Delivered, setVars
  <2>2. count[t] \in Messages
    BY <2>1, MaxPublishesAssumption DEF Counted, Messages
  <2>3. received' \in [Sessions -> [Threads -> Seq(Messages)]]
    <3>1. ASSUME NEW s \in Sessions
          PROVE [received[s] EXCEPT ![t] = Append(@, count[t])] \in [Threads -> Seq(Messages)]
      <4>1. received[s] \in [Threads -> Seq(Messages)] /\ received[s][t] \in Seq(Messages)
        OBVIOUS
      <4>2. Append(received[s][t], count[t]) \in Seq(Messages)
        BY <2>2, <4>1, AppendProperties
      <4> QED  BY <4>1, <4>2
    <3> QED  BY <1>5, <3>1 DEF SendEnd, Delivered
  <2> QED  BY <1>1, <2>1, <2>3
<1>6. CASE LoopEnds(t)
  BY <1>1, <1>6 DEF LoopEnds, setVars, loopVars
<1>7. CASE LoopThrows(t)
  <2>1. /\ pc' = [pc EXCEPT ![t] = IF t \in Sessions THEN "idle" ELSE "threw"]
        /\ rest' = [rest EXCEPT ![t] = {}]
        /\ isOpen' = [s \in Sessions |-> isOpen[s] /\ s # t]
        /\ UNCHANGED <<stage, received, sessionSet, seen, stale, to, count>>
        /\ pc[t] = "iterate"
    BY <1>7 DEF LoopThrows, setVars
  <2> QED  BY <1>1, <2>1
<1> QED  BY <1>2, <1>3, <1>4, <1>5, <1>6, <1>7 DEF Step

LEMMA TypedInductive == Spec => []Typed
<1>1. ASSUME Typed, [Next]_vars PROVE Typed'
  <2>1. CASE UNCHANGED vars
    BY <1>1, <2>1 DEF Typed, TypeOK, OnceEach, Counted, vars, setVars, loopVars
  <2>2. ASSUME NEW s \in Sessions,
               AfterConnectionEstablished(s) \/ PeerClose(s) \/ Callback(s)
        PROVE Typed'
    BY <1>1, <2>2, TypedCallback, TypedBroadcast DEF Callback, Threads
  <2>3. ASSUME NEW t \in Publishers, Broadcast(t) PROVE Typed'
    BY <1>1, <2>3, TypedBroadcast DEF Threads
  <2> QED  BY <1>1, <2>1, <2>2, <2>3, TypedStep DEF Next
<1> QED  BY <1>1, TypedInit, PTL DEF Spec

\* Every variable of every thread always has its type; a thread has a console in hand
\* just while it sends to it.
THEOREM TypeCorrect == Spec => []TypeOK
<1>1. Typed => TypeOK
  BY DEF Typed
<1> QED  BY <1>1, TypedInductive, PTL

-----------------------------------------------------------------------------
(* The set and the life of the sessions.                                   *)

\* The set holds the sessions that the container has told WsHandler of and has not
\* taken back, for as long as the HashSet has not lost a change.
THEOREM SetIsFollowed == Spec => []SetFollowsSessions
<1>1. Init => SetFollowsSessions
  BY DEF Init, SetFollowsSessions
<1>2. ASSUME Typed, SetFollowsSessions, [Next]_vars PROVE SetFollowsSessions'
  <2> USE <1>2 DEF Typed, TypeOK
  <2>1. CASE UNCHANGED <<stage, sessionSet, lossy>>
    BY <2>1 DEF SetFollowsSessions
  <2>2. ASSUME NEW s \in Sessions, AfterConnectionEstablished(s) PROVE SetFollowsSessions'
    BY <2>2 DEF AfterConnectionEstablished, SetFollowsSessions
  <2>3. ASSUME NEW s \in Sessions, AddDone(s) PROVE SetFollowsSessions'
    BY <2>3 DEF AddDone, SetFollowsSessions
  <2>4. ASSUME NEW s \in Sessions, RemoveDone(s) PROVE SetFollowsSessions'
    BY <2>4 DEF RemoveDone, SetFollowsSessions
  <2>5. ASSUME NEW s \in Sessions, PeerClose(s) \/ AfterConnectionClosed(s)
        PROVE UNCHANGED <<stage, sessionSet, lossy>>
    BY <2>5 DEF PeerClose, AfterConnectionClosed, setVars
  <2>6. ASSUME NEW t \in Threads, Broadcast(t) \/ Step(t)
        PROVE UNCHANGED <<stage, sessionSet, lossy>>
    BY <2>6 DEF Broadcast, Step, NextSession, SendBegin, SendThrows, AfterThrow, SendEnd, Delivered,
                LoopEnds, LoopThrows, setVars
  <2>7. CASE UNCHANGED vars
    BY <2>1, <2>7 DEF vars, setVars
  <2> QED  BY <2>1, <2>2, <2>3, <2>4, <2>5, <2>6, <2>7 DEF Next, Callback, Threads
<1> QED  BY <1>1, <1>2, TypedInductive, PTL DEF Spec

-----------------------------------------------------------------------------
(* The order of the messages.                                              *)

\* A console has received nothing that its sender has not counted, and a console that a
\* loop has still to serve, or is serving, has not received the message of that loop.
Fresh ==
    \A s \in Sessions : \A t \in Threads :
        /\ \A i \in DOMAIN received[s][t] :
            /\ received[s][t][i] <= count[t]
            /\ s \in rest[t] \cup to[t] => received[s][t][i] < count[t]
        /\ ~(s \in rest[t] /\ s \in to[t])

OrderInv == Typed /\ Fresh /\ InOrderOnce

\* Steps that give no message and begin no broadcast leave no console more to be served.
LEMMA OrderFrame ==
    ASSUME OrderInv, UNCHANGED <<received, count>>,
           \A t \in Threads : rest'[t] \subseteq rest[t] /\ to'[t] \subseteq to[t]
    PROVE  Fresh' /\ InOrderOnce'
BY DEF OrderInv, Fresh, InOrderOnce

LEMMA OrderNextSession ==
    ASSUME OrderInv, NEW t \in Threads, NextSession(t)
    PROVE  Fresh' /\ InOrderOnce'
<1> USE DEF OrderInv, Typed, TypeOK
<1>1. PICK s \in rest[t], left \in SUBSET Sessions :
        /\ left \subseteq rest[t] \ {s} /\ rest' = [rest EXCEPT ![t] = left]
        /\ to' = [to EXCEPT ![t] = {s}] \/ UNCHANGED to
  BY NextSessionTakes
<1>2. UNCHANGED <<received, count>> /\ to[t] = {}
  BY DEF NextSession
<1>3. \A u \in Threads : rest'[u] \subseteq rest[u] /\ rest'[u] \cup to'[u] \subseteq rest[u] \cup to[u]
  BY <1>1
<1>4. \A u \in Threads : \A x \in Sessions : ~(x \in rest'[u] /\ x \in to'[u])
  BY <1>1, <1>2 DEF Fresh
<1> QED  BY <1>2, <1>3, <1>4 DEF Fresh, InOrderOnce

\* A broadcast takes a number above all that its thread has sent.
LEMMA OrderBroadcast ==
    ASSUME OrderInv, NEW t \in Threads, Broadcast(t)
    PROVE  Fresh' /\ InOrderOnce'
<1> USE DEF OrderInv, Typed, TypeOK
<1>1. /\ count' = [count EXCEPT ![t] = @ + 1]
      /\ rest' = [rest EXCEPT ![t] = sessionSet]
      /\ UNCHANGED <<received, to>>
      /\ to[t] = {}
  BY DEF Broadcast
<1>2. InOrderOnce'
  BY <1>1 DEF InOrderOnce
<1>3. ASSUME NEW s \in Sessions, NEW u \in Threads
      PROVE /\ \A i \in DOMAIN received'[s][u] :
                /\ received'[s][u][i] <= count'[u]
                /\ s \in rest'[u] \cup to'[u] => received'[s][u][i] < count'[u]
            /\ ~(s \in rest'[u] /\ s \in to'[u])
  <2>1. \A i \in DOMAIN received[s][u] : received[s][u][i] \in Nat
    <3>1. received[s][u] \in Seq(Messages)
      OBVIOUS
    <3> QED  BY <3>1, MaxPublishesAssumption DEF Messages
  <2>2. count[u] \in Nat
    BY MaxPublishesAssumption
  <2>3. CASE u = t
    <3>1. count'[t] = count[t] + 1
      BY <1>1
    <3> QED  BY <1>1, <2>1, <2>2, <2>3, <3>1 DEF Fresh
  <2>4. CASE u # t
    BY <1>1, <2>4 DEF Fresh
  <2> QED  BY <2>3, <2>4
<1>4. Fresh'
  BY <1>3 DEF Fresh
<1> QED  BY <1>2, <1>4

\* A message that is delivered is the last of its thread.
LEMMA OrderSendEnd ==
    ASSUME OrderInv, NEW t \in Threads, SendEnd(t)
    PROVE  Fresh' /\ InOrderOnce'
<1> USE DEF OrderInv, Typed, TypeOK
<1>1. /\ to' = [to EXCEPT ![t] = {}]
      /\ UNCHANGED <<rest, count>>
      /\ received' = [s \in Sessions |->
            IF s \in to[t] THEN [received[s] EXCEPT ![t] = Append(@, count[t])] ELSE received[s]]
  BY DEF SendEnd, Delivered
<1> SUFFICES ASSUME NEW s \in Sessions, NEW u \in Threads
             PROVE /\ \A i \in DOMAIN received'[s][u] :
                       /\ received'[s][u][i] <= count'[u]
                       /\ s \in rest'[u] \cup to'[u] => received'[s][u][i] < count'[u]
                   /\ ~(s \in rest'[u] /\ s \in to'[u])
                   /\ \A i, j \in DOMAIN received'[s][u] :
                       i < j => received'[s][u][i] < received'[s][u][j]
  BY DEF Fresh, InOrderOnce
<1>2. received[s][u] \in Seq(Messages) /\ count[u] \in Nat
  BY MaxPublishesAssumption
<1>3. CASE s \in to[t] /\ u = t
  <2> DEFINE r == received[s][u]
  <2>1. received'[s][u] = Append(r, count[u])
    BY <1>1, <1>3
  <2>0. /\ DOMAIN r = 1 .. Len(r)
        /\ \A i \in 1 .. Len(r) : r[i] \in Nat
    <3>1. Messages \subseteq Nat
      BY MaxPublishesAssumption DEF Messages
    <3>2. r \in Seq(Messages)
      BY <1>2
    <3> HIDE DEF r
    <3>3. DOMAIN r = 1 .. Len(r) /\ \A i \in 1 .. Len(r) : r[i] \in Messages
      BY <3>2
    <3> QED  BY <3>1, <3>3
  <2>2. \A i \in 1 .. Len(r) : r[i] \in Nat /\ r[i] < count[u]
    <3>1. \A i \in DOMAIN r : r[i] < count[u]
      BY <1>3 DEF Fresh
    <3> QED  BY <2>0, <3>1
  <2>3. \A i, j \in 1 .. Len(r) : i < j => r[i] < r[j]
    <3>1. \A i, j \in DOMAIN r : i < j => r[i] < r[j]
      BY DEF InOrderOnce
    <3> QED  BY <2>0, <3>1
  <2>4. /\ DOMAIN received'[s][u] = 1 .. Len(r) + 1
        /\ \A i \in 1 .. Len(r) : received'[s][u][i] = r[i]
        /\ received'[s][u][Len(r) + 1] = count[u]
        /\ Len(r) \in Nat
    BY <1>2, <2>1
  <2>5. s \notin rest'[u] \cup to'[u]
    BY <1>1, <1>3 DEF Fresh
  <2> DEFINE new == received'[s][u]
             n == Len(r)
             last == count[u]
  <2>6. /\ n \in Nat /\ last \in Nat /\ count'[u] = last
        /\ DOMAIN new = 1 .. n + 1 /\ new[n + 1] = last
        /\ \A i \in 1 .. n : new[i] \in Nat /\ new[i] < last
        /\ \A i, j \in 1 .. n : i < j => new[i] < new[j]
    BY <1>1, <1>2, <2>2, <2>3, <2>4
  <2> HIDE DEF r, new, n, last
  <2>7. \A i \in DOMAIN new : new[i] <= last
    BY <2>6
  <2>8. \A i, j \in DOMAIN new : i < j => new[i] < new[j]
    BY <2>6
  <2> QED  BY <2>5, <2>6, <2>7, <2>8 DEF new, last
<1>4. CASE ~(s \in to[t] /\ u = t)
  <2>1. received'[s][u] = received[s][u]
    BY <1>1, <1>4
  <2>2. rest'[u] = rest[u] /\ to'[u] \subseteq to[u] /\ count'[u] = count[u]
    BY <1>1
  <2> QED  BY <2>1, <2>2 DEF Fresh, InOrderOnce
<1> QED  BY <1>3, <1>4

\* No console sees the messages of a thread out of order or twice, however many threads
\* publish, whatever the set loses and wherever an exception cuts a broadcast short.
THEOREM MessagesInOrderOnce == Spec => []InOrderOnce
<1>1. Init => Fresh /\ InOrderOnce
  BY DEF Init, Fresh, InOrderOnce
<1>2. ASSUME Typed, Typed', OrderInv, [Next]_vars PROVE OrderInv'
  <2> USE <1>2
  <2>1. CASE UNCHANGED <<received, count, rest, to>>
    BY <2>1, OrderFrame DEF OrderInv
  <2>2. ASSUME NEW t \in Threads, SendBegin(t) \/ LoopEnds(t)
        PROVE UNCHANGED <<received, count, rest, to>>
    BY <2>2 DEF SendBegin, LoopEnds, loopVars
  <2>3. ASSUME NEW t \in Threads, SendThrows(t) \/ LoopThrows(t)
        PROVE OrderInv'
    <3>1. /\ UNCHANGED <<received, count>>
          /\ rest' = [rest EXCEPT ![t] = rest[t]] \/ rest' = [rest EXCEPT ![t] = {}]
          /\ to' = [to EXCEPT ![t] = {}] \/ UNCHANGED to
      BY <2>3 DEF SendThrows, LoopThrows, AfterThrow
    <3>2. \A u \in Threads : rest'[u] \subseteq rest[u] /\ to'[u] \subseteq to[u]
      BY <3>1 DEF Typed, TypeOK
    <3> QED  BY <3>1, <3>2, OrderFrame DEF OrderInv
  <2>4. ASSUME NEW t \in Threads, Step(t) PROVE OrderInv'
    BY <2>1, <2>2, <2>3, <2>4, OrderNextSession, OrderSendEnd DEF Step, OrderInv
  <2>5. ASSUME NEW t \in Threads, Broadcast(t) PROVE OrderInv'
    BY <2>5, OrderBroadcast DEF OrderInv
  <2>6. ASSUME NEW s \in Sessions,
               \/ AfterConnectionEstablished(s)
               \/ PeerClose(s)
               \/ AddDone(s)
               \/ AfterConnectionClosed(s)
               \/ RemoveDone(s)
        PROVE UNCHANGED <<received, count, rest, to>>
    BY <2>6 DEF AfterConnectionEstablished, PeerClose, AddDone, AfterConnectionClosed, RemoveDone,
                loopVars
  <2>7. CASE UNCHANGED vars
    BY <2>1, <2>7 DEF vars, loopVars
  <2> QED  BY <2>1, <2>4, <2>5, <2>6, <2>7 DEF Next, Callback, Threads
<1>3. Typed /\ Fresh /\ InOrderOnce => OrderInv
  BY DEF OrderInv
<1>4. OrderInv => InOrderOnce
  BY DEF OrderInv
<1> QED  BY <1>1, <1>2, <1>3, <1>4, TypedInductive, PTL DEF Spec

-----------------------------------------------------------------------------
(* Delivery.                                                               *)

\* Why a console may have been passed over by the latest loop of t.
Excused(t, s) ==
    \/ \E i \in DOMAIN received[s][t] : received[s][t][i] = count[t]
    \/ s \in collided[t]
    \/ stale[t]
    \/ lossy

\* A console that was in place when the loop of t began, and still is, is one that the
\* loop has yet to serve, or is serving, or has served or failed to serve; and the loop
\* returns when none is left.  A console that has closed does not come back, for a
\* session opens once.
Reached ==
    \A t \in Publishers :
        /\ pc[t] = "returned" => rest[t] = {}
        /\ \A s \in members[t] :
            /\ s \in Sessions /\ stage[s] \in {"established", "gone"}
            /\ pc[t] \in {"iterate", "send", "sending", "returned"} /\ isOpen[s]
                => s \in rest[t] \cup to[t] \/ Excused(t, s)

ReachedInv == Typed /\ SetFollowsSessions /\ Reached

\* The callbacks of the sessions: they give no message and take no console from a loop.
LEMMA ReachedCallback ==
    ASSUME ReachedInv, NEW s \in Sessions,
           \/ AfterConnectionEstablished(s)
           \/ PeerClose(s)
           \/ AddDone(s)
           \/ AfterConnectionClosed(s)
           \/ RemoveDone(s)
    PROVE  Reached'
<1> USE DEF ReachedInv, Typed, TypeOK
<1>1. UNCHANGED <<received, rest, to, count, members, collided>>
  BY DEF AfterConnectionEstablished, PeerClose, AddDone, AfterConnectionClosed, RemoveDone,
         setVars, loopVars
<1>2. \A t \in Threads : stale[t] => stale'[t]
  BY DEF AfterConnectionEstablished, PeerClose, AddDone, AfterConnectionClosed, RemoveDone,
         setVars, loopVars, Outdate
<1>3. \A x \in Sessions : stage[x] \in {"established", "gone"} =>
        stage'[x] \in {"established", "gone"} /\ (isOpen'[x] => isOpen[x])
  BY DEF AfterConnectionEstablished, PeerClose, AddDone, AfterConnectionClosed, RemoveDone
<1>4. \A t \in Publishers : t \in Threads /\ pc'[t] = pc[t]
  BY DisjointThreads DEF AfterConnectionEstablished, PeerClose, AddDone, AfterConnectionClosed,
                         RemoveDone, Threads
<1>5. lossy => lossy'
  BY DEF AfterConnectionEstablished, PeerClose, AddDone, AfterConnectionClosed, RemoveDone,
         setVars
<1>6. \A t \in Publishers : \A x \in members[t] : Excused(t, x) => Excused(t, x)'
  BY <1>1, <1>2, <1>4, <1>5 DEF Excused
<1> QED  BY <1>1, <1>3, <1>4, <1>6 DEF Reached

\* A loop begins with every console that is in place, unless the set has lost one.
LEMMA ReachedBroadcast ==
    ASSUME ReachedInv, NEW t \in Threads, Broadcast(t)
    PROVE  Reached'
<1> USE DEF ReachedInv, Typed, TypeOK
<1>1. /\ pc' = [pc EXCEPT ![t] = "iterate"]
      /\ count' = [count EXCEPT ![t] = @ + 1]
      /\ rest' = [rest EXCEPT ![t] = sessionSet]
      /\ stale' = [stale EXCEPT ![t] = FALSE]
      /\ members' = [p \in Publishers |-> IF p = t THEN InPlace ELSE members[p]]
      /\ collided' = [p \in Publishers |-> IF p = t THEN {} ELSE collided[p]]
      /\ UNCHANGED <<stage, isOpen, to, received, lossy>>
  BY DEF Broadcast, setVars
<1> SUFFICES ASSUME NEW u \in Publishers
             PROVE /\ pc'[u] = "returned" => rest'[u] = {}
                   /\ \A s \in members'[u] :
                        /\ s \in Sessions /\ stage[s] \in {"established", "gone"}
                        /\ pc'[u] \in {"iterate", "send", "sending", "returned"} /\ isOpen[s]
                            => s \in rest'[u] \cup to[u] \/ Excused(u, s)'
  BY <1>1 DEF Reached
<1>2. u \in Threads
  BY DEF Threads
<1>3. CASE u = t
  <2>1. pc'[u] = "iterate" /\ rest'[u] = sessionSet /\ members'[u] = InPlace
    BY <1>1, <1>2, <1>3
  <2>2. \A s \in InPlace : s \in Sessions /\ stage[s] = "established" /\ (s \in sessionSet \/ lossy)
    BY DEF InPlace, SetFollowsSessions
  <2> QED  BY <1>1, <2>1, <2>2 DEF Excused
<1>4. CASE u # t
  <2>1. /\ pc'[u] = pc[u] /\ count'[u] = count[u] /\ rest'[u] = rest[u] /\ stale'[u] = stale[u]
        /\ members'[u] = members[u] /\ collided'[u] = collided[u]
    BY <1>1, <1>2, <1>4
  <2>2. \A s \in members[u] : Excused(u, s) => Excused(u, s)'
    BY <1>1, <2>1 DEF Excused
  <2> QED  BY <2>1, <2>2 DEF Reached
<1> QED  BY <1>3, <1>4

\* A step inside sendMessage.  A publisher hands a console on from its iterator to the
\* send, and drops it delivered, failed, or excused.
LEMMA ReachedStep ==
    ASSUME ReachedInv, NEW t \in Threads, Step(t)
    PROVE  Reached'
<1> USE DEF ReachedInv, Typed, TypeOK
<1>1. UNCHANGED <<stage, members, count, stale, lossy>>
  BY DEF Step, NextSession, SendBegin, SendThrows, AfterThrow, SendEnd, Delivered, LoopEnds, LoopThrows,
         setVars, loopVars
<1>2. \A s \in Sessions : isOpen'[s] => isOpen[s]
  BY DEF Step, NextSession, SendBegin, SendThrows, AfterThrow, SendEnd, Delivered, LoopEnds, LoopThrows
\* What is left to show, for each kind of step and each publisher.
<1> DEFINE Kept(u) ==
      /\ pc'[u] = "returned" => rest'[u] = {}
      /\ \A s \in members[u] :
            pc'[u] \in {"iterate", "send", "sending", "returned"} /\ isOpen'[s]
                => s \in rest'[u] \cup to'[u] \/ Excused(u, s)'
<1>3. SUFFICES ASSUME NEW u \in Publishers PROVE Kept(u)
  BY <1>1 DEF Reached
<1>4. u \in Threads
  BY DEF Threads
<1>5. /\ pc[u] = "returned" => rest[u] = {}
      /\ \A s \in members[u] :
            /\ s \in Sessions
            /\ pc[u] \in {"iterate", "send", "sending", "returned"} /\ isOpen'[s]
                => s \in rest[u] \cup to[u] \/ Excused(u, s)
  BY <1>2 DEF Reached
<1>6. CASE NextSession(t)
  <2>1. PICK x \in rest[t], left \in SUBSET Sessions :
          /\ left \subseteq rest[t] \ {x}
          /\ stale[t] \/ left = rest[t] \ {x}
          /\ rest' = [rest EXCEPT ![t] = left]
          /\ \/ isOpen[x] /\ pc' = [pc EXCEPT ![t] = "send"] /\ to' = [to EXCEPT ![t] = {x}]
             \/ ~isOpen[x] /\ UNCHANGED <<pc, to>>
    BY <1>6, NextSessionTakes
  <2>2. UNCHANGED <<isOpen, received, collided>> /\ pc[t] = "iterate" /\ to[t] = {}
    BY <1>6 DEF NextSession
  <2>3. \A s \in members[u] : Excused(u, s) => Excused(u, s)'
    BY <1>1, <2>2 DEF Excused
  <2>4. CASE u = t
    <3>1. \A s \in members[t] : stale[t] => Excused(t, s)'
      BY <1>1 DEF Excused
    <3>2. rest'[t] = left
      BY <2>1
    <3>3. \A s \in rest[t] : s \in left \/ s = x \/ stale[t]
      BY <2>1
    <3>4. CASE isOpen[x] /\ pc' = [pc EXCEPT ![t] = "send"] /\ to' = [to EXCEPT ![t] = {x}]
      <4>1. pc'[t] = "send" /\ to'[t] = {x}
        BY <3>4
      <4> QED  BY <1>5, <2>2, <2>3, <2>4, <3>1, <3>2, <3>3, <4>1
    <3>5. CASE ~isOpen[x] /\ UNCHANGED <<pc, to>>
      BY <1>5, <2>2, <2>3, <2>4, <3>1, <3>2, <3>3, <3>5
    <3> QED  BY <2>1, <3>4, <3>5
  <2>5. CASE u # t
    <3>1. pc'[u] = pc[u] /\ rest'[u] = rest[u] /\ to'[u] = to[u]
      BY <1>4, <2>1, <2>5
    <3> QED  BY <1>5, <2>3, <3>1
  <2> QED  BY <2>4, <2>5
<1>7. CASE SendBegin(t)
  <2>1. UNCHANGED <<isOpen, received, rest, to, collided>> /\ pc[t] = "send"
        /\ pc' = [pc EXCEPT ![t] = "sending"]
    BY <1>7 DEF SendBegin, loopVars
  <2>2. \A s \in members[u] : Excused(u, s) => Excused(u, s)'
    BY <1>1, <2>1 DEF Excused
  <2> QED  BY <1>4, <1>5, <2>1, <2>2
<1>8. CASE SendThrows(t)
  <2>1. /\ pc' = [pc EXCEPT ![t] = "iterate"] /\ pc[t] \in {"send", "sending"}
        /\ rest' = [rest EXCEPT ![t] = rest[t]] /\ to' = [to EXCEPT ![t] = {}]
        /\ collided' = [p \in Publishers |-> IF p = t THEN collided[p] \cup to[p] ELSE collided[p]]
        /\ UNCHANGED received
    BY <1>8 DEF SendThrows, AfterThrow, FailsAtOnce, FailsLater
  <2>2. \A s \in members[u] : Excused(u, s) => Excused(u, s)'
    BY <1>1, <2>1 DEF Excused
  <2>3. rest'[u] = rest[u]
    BY <1>4, <2>1
  <2>4. CASE u = t
    <3>1. pc'[u] = "iterate" /\ \A s \in to[u] : Excused(u, s)'
      BY <1>4, <2>1, <2>4 DEF Excused
    <3> QED  BY <1>5, <2>1, <2>2, <2>3, <2>4, <3>1
  <2>5. CASE u # t
    <3>1. pc'[u] = pc[u] /\ to'[u] = to[u]
      BY <1>4, <2>1, <2>5
    <3> QED  BY <1>5, <2>2, <2>3, <3>1
  <2> QED  BY <2>4, <2>5
<1>9. CASE SendEnd(t)
  <2>1. /\ pc' = [pc EXCEPT ![t] = "iterate"] /\ pc[t] = "sending"
        /\ to' = [to EXCEPT ![t] = {}]
        /\ UNCHANGED <<isOpen, rest, collided>>
        /\ received' = [s \in Sessions |->
              IF s \in to[t] THEN [received[s] EXCEPT ![t] = Append(@, count[t])]
              ELSE received[s]]
    BY <1>9 DEF SendEnd, Delivered
  <2>2. ASSUME NEW s \in Sessions, NEW w \in Threads
        PROVE  received'[s][w] = IF s \in to[t] /\ w = t
                                    THEN Append(received[s][w], count[w]) ELSE received[s][w]
    <3>1. CASE s \in to[t]
      <4>1. received'[s] = [received[s] EXCEPT ![t] = Append(@, count[t])]
        BY <2>1, <3>1
      <4>2. received[s] \in [Threads -> Seq(Messages)]
        OBVIOUS
      <4>3. received'[s][t] = Append(received[s][t], count[t])
        BY <4>1, <4>2
      <4>4. w # t => received'[s][w] = received[s][w]
        BY <4>1, <4>2
      <4> QED  BY <3>1, <4>3, <4>4
    <3>2. CASE s \notin to[t]
      <4>1. received'[s] = received[s]
        BY <2>1, <3>2
      <4> QED  BY <3>2, <4>1
    <3> QED  BY <3>1, <3>2
  <2>3. \A s \in Sessions : received[s][u] \in Seq(Messages) /\ count[u] \in Messages \cup {0}
    BY <1>4, MaxPublishesAssumption DEF Messages
  <2>4. ASSUME NEW s \in Sessions, received'[s][u] = Append(received[s][u], count[u])
        PROVE  Excused(u, s)'
    <3>1. Len(received[s][u]) + 1 \in DOMAIN received'[s][u]
          /\ received'[s][u][Len(received[s][u]) + 1] = count[u]
      BY <2>3, <2>4, AppendProperties
    <3> QED  BY <1>1, <3>1 DEF Excused
  <2>5. \A s \in members[u] : Excused(u, s) => Excused(u, s)'
    BY <1>1, <1>4, <1>5, <2>1, <2>2, <2>4 DEF Excused
  <2>6. CASE u = t
    <3>1. pc'[u] = "iterate" /\ \A s \in to[u] : Excused(u, s)'
      BY <1>4, <2>1, <2>2, <2>4, <2>6
    <3> QED  BY <1>5, <2>1, <2>5, <2>6, <3>1
  <2>7. CASE u # t
    <3>1. pc'[u] = pc[u] /\ to'[u] = to[u]
      BY <1>4, <2>1, <2>7
    <3> QED  BY <1>5, <2>1, <2>5, <3>1
  <2> QED  BY <2>6, <2>7
<1>10. CASE LoopEnds(t)
  <2>1. /\ pc' = [pc EXCEPT ![t] = IF t \in Sessions THEN "idle" ELSE "returned"]
        /\ UNCHANGED <<isOpen, received, rest, to, collided>>
        /\ pc[t] = "iterate" /\ rest[t] = {}
    BY <1>10 DEF LoopEnds, loopVars
  <2>2. \A s \in members[u] : Excused(u, s) => Excused(u, s)'
    BY <1>1, <2>1 DEF Excused
  <2> QED  BY <1>4, <1>5, <2>1, <2>2
<1>11. CASE LoopThrows(t)
  <2>1. /\ pc' = [pc EXCEPT ![t] = IF t \in Sessions THEN "idle" ELSE "threw"]
        /\ rest' = [rest EXCEPT ![t] = {}]
        /\ UNCHANGED <<received, to, collided>>
    BY <1>11 DEF LoopThrows
  <2>2. \A s \in members[u] : Excused(u, s) => Excused(u, s)'
    BY <1>1, <2>1 DEF Excused
  <2>3. CASE u = t
    BY <1>4, <2>1, <2>3
  <2>4. CASE u # t
    <3>1. pc'[u] = pc[u] /\ rest'[u] = rest[u]
      BY <1>4, <2>1, <2>4
    <3> QED  BY <1>5, <2>1, <2>2, <3>1
  <2> QED  BY <2>3, <2>4
<1> QED  BY <1>6, <1>7, <1>8, <1>9, <1>10, <1>11 DEF Step

\* A publisher whose sendMessage returned has reached every console that was in place
\* when its loop began and is still there, for any number of consoles and publishers:
\* what fails silently is a send that throws, a change under the loop, or a lost change.
THEOREM ReturnIsDelivery == Spec => []ReturnsOnlyWhenDelivered
<1>1. Init => Reached
  BY DEF Init, Reached, Threads
<1>2. ASSUME ReachedInv, [Next]_vars PROVE Reached'
  <2>1. CASE UNCHANGED vars
    BY <1>2, <2>1 DEF vars, setVars, loopVars, ReachedInv, Reached, Excused
  <2>2. ASSUME NEW s \in Sessions,
               AfterConnectionEstablished(s) \/ PeerClose(s) \/ Callback(s)
        PROVE Reached'
    BY <1>2, <2>2, ReachedCallback, ReachedBroadcast DEF Callback, Threads
  <2>3. ASSUME NEW t \in Publishers, Broadcast(t) PROVE Reached'
    BY <1>2, <2>3, ReachedBroadcast DEF Threads
  <2> QED  BY <1>2, <2>1, <2>2, <2>3, ReachedStep DEF Next
<1>3. Typed /\ SetFollowsSessions /\ Reached => ReachedInv
  BY DEF ReachedInv
<1>4. ReachedInv => ReturnsOnlyWhenDelivered
  <2> SUFFICES ASSUME ReachedInv, NEW t \in Publishers, NEW s \in members[t],
                      pc[t] = "returned", isOpen[s]
               PROVE  Excused(t, s)
    BY DEF ReturnsOnlyWhenDelivered, Excused
  <2>1. to[t] = {} /\ rest[t] = {}
    BY DEF ReachedInv, Typed, TypeOK, Reached, Threads
  <2> QED  BY <2>1 DEF ReachedInv, Reached
<1> QED  BY <1>1, <1>2, <1>3, <1>4, TypedInductive, SetIsFollowed, PTL DEF Spec

=============================================================================
