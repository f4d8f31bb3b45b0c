------------------------- MODULE WebCommands_proofs -------------------------
(***************************************************************************)
(* Proofs about WebCommands, for any agents, any requests and any forms:   *)
(* what a request lists, and what it sends.                                *)
(***************************************************************************)
EXTENDS WebCommands, SequenceTheorems, TLAPS

-----------------------------------------------------------------------------
(* What a request lists.                                                   *)

\* The types that the steps need.
WellTyped ==
    /\ agent \in [Agents -> {"new", "joining", "connected", "closing", "gone"}]
    /\ pc \in [Requests -> {"new", "list", "listing", "send", "write", "done", "failed"}]
    /\ rest \in [Requests -> SUBSET Agents]
    /\ listed \in [Requests -> SUBSET Agents]
    /\ steady \in [Requests -> SUBSET Agents]
    /\ blind \in [Requests -> BOOLEAN]

\* An agent that was there all along is connected, and so it is in the map.
SteadyIsConnected == \A r \in Requests : \A a \in steady[r] : agent[a] = "connected"

\* The loop over the map is behind the request.
HasListed(r) == pc[r] = "done" \/ (pc[r] \in {"send", "write"} /\ ~SendsFirst(form[r]))

\* Of the agents that were there all along the loop has listed some and has the
\* others before it; when it is over it has listed all.
LoopSees(r) ==
    ~blind[r] =>
        /\ pc[r] = "listing" => steady[r] \subseteq listed[r] \cup rest[r]
        /\ HasListed(r) => steady[r] \subseteq listed[r]

ListInv == WellTyped /\ SteadyIsConnected /\ \A r \in Requests : LoopSees(r)

\* A request at which nothing happens but that an agent is no longer steady.
LEMMA OtherRequest ==
    ASSUME NEW r \in Requests, LoopSees(r), pc'[r] = pc[r], form' = form, rest'[r] = rest[r],
           listed'[r] = listed[r], steady'[r] \subseteq steady[r], blind'[r] = blind[r]
    PROVE  LoopSees(r)'
BY DEF LoopSees, HasListed, SendsFirst

\* The agents come and go.
LEMMA AgentStep ==
    ASSUME ListInv, NEW a \in Agents,
           JoinBegins(a) \/ JoinEnds(a) \/ Disconnects(a) \/ Leaves(a)
    PROVE  ListInv'
<1> USE DEF ListInv
<1>1. UNCHANGED requestVars
  BY DEF JoinBegins, JoinEnds, Disconnects, Leaves, Becomes
<1>2. \A r \in Requests : steady'[r] \subseteq steady[r]
  BY DEF JoinBegins, JoinEnds, Disconnects, Leaves, WellTyped
<1>3. WellTyped'
  BY <1>1 DEF JoinBegins, JoinEnds, Disconnects, Leaves, Becomes, WellTyped, requestVars
<1>4. SteadyIsConnected'
  BY DEF JoinBegins, JoinEnds, Disconnects, Leaves, Becomes, WellTyped, SteadyIsConnected
<1>5. ASSUME NEW r \in Requests PROVE LoopSees(r)'
  BY <1>1, <1>2, <1>5, OtherRequest DEF requestVars
<1> QED  BY <1>3, <1>4, <1>5

\* The files come and go.
LEMMA FileStep ==
    ASSUME ListInv, NEW x, Appears(x) \/ Vanishes(x)
    PROVE  ListInv'
<1> USE DEF ListInv
<1>1. UNCHANGED <<agent, requestVars, steady>>
  BY DEF Appears, Vanishes
<1>2. ASSUME NEW r \in Requests PROVE LoopSees(r)'
  BY <1>1, <1>2, OtherRequest DEF requestVars
<1> QED  BY <1>1, <1>2 DEF WellTyped, SteadyIsConnected, requestVars

\* The loop begins, and sees every entry unless the table is growing.
LEMMA ListBeginsSees ==
    ASSUME ListInv, NEW r \in Requests, ListBegins(r)
    PROVE  LoopSees(r)'
<1> USE DEF ListInv
<1>1. blind'[r] = (blind[r] \/ Growing) /\ pc'[r] = "listing" /\ steady' = steady
  BY DEF ListBegins, Goes, WellTyped
<1>2. CASE Growing
  BY <1>1, <1>2 DEF LoopSees
<1>3. CASE ~Growing
  <2>1. rest'[r] = Registered
    BY <1>3 DEF ListBegins, WellTyped
  <2>2. steady[r] \subseteq Registered
    BY DEF SteadyIsConnected, Registered, WellTyped
  <2> QED  BY <1>1, <2>1, <2>2 DEF LoopSees, HasListed
<1> QED  BY <1>2, <1>3

\* A step of a web thread, for its own request and for the others.
LEMMA RequestStep ==
    ASSUME ListInv, NEW r \in Requests, Receive(r) \/ WebThread(r)
    PROVE  ListInv'
<1> USE DEF ListInv, WellTyped
<1>1. WellTyped'
  <2>1. CASE Receive(r)
    BY <2>1 DEF Receive, Goes
  <2>2. CASE ListBegins(r)
    BY <2>2 DEF ListBegins, Goes, Registered
  <2>3. CASE ListNext(r) \/ ListThrows(r) \/ ListEnds(r)
    BY <2>3 DEF ListNext, ListThrows, ListEnds, Goes
  <2>4. CASE Found(r) \/ PassedOver(r) \/ SendThrows(r) \/ Write(r) \/ Unreadable(r) \/ SendEnds(r)
    BY <2>4 DEF Found, PassedOver, SendThrows, Write, Unreadable, Drop, SendEnds, Goes
  <2> QED  BY <2>1, <2>2, <2>3, <2>4 DEF WebThread
<1>2. SteadyIsConnected'
  BY DEF SteadyIsConnected, Receive, WebThread, ListBegins, ListNext, ListThrows, ListEnds,
         Found, PassedOver, SendThrows, Write, Unreadable, Drop, SendEnds
<1>3. ASSUME NEW q \in Requests, q # r PROVE LoopSees(q)'
  <2>1. /\ pc'[q] = pc[q] /\ form' = form /\ rest'[q] = rest[q] /\ listed'[q] = listed[q]
        /\ steady'[q] = steady[q] /\ blind'[q] = blind[q]
    BY <1>3 DEF Receive, WebThread, ListBegins, ListNext, ListThrows, ListEnds, Found,
                PassedOver, SendThrows, Write, Unreadable, Drop, SendEnds, Goes
  <2> QED  BY <2>1, OtherRequest
<1>4. LoopSees(r)'
  <2>1. CASE Receive(r)
    BY <2>1 DEF Receive, Goes, LoopSees, HasListed, SendsFirst
  <2>2. CASE ListBegins(r)
    BY <2>2, ListBeginsSees
  <2>3. CASE ListNext(r)
    BY <2>3 DEF ListNext, LoopSees, HasListed
  <2>4. CASE ListThrows(r)
    BY <2>4 DEF ListThrows, Goes, LoopSees, HasListed
  <2>5. CASE ListEnds(r)
    BY <2>5 DEF ListEnds, Goes, LoopSees, HasListed
  <2>6. CASE Found(r) \/ Write(r) \/ Unreadable(r)
    BY <2>6 DEF Found, Sending, Write, Unreadable, Drop, Goes, LoopSees, HasListed, SendsFirst
  <2>7. CASE PassedOver(r)
    BY <2>7 DEF PassedOver, Sending, LoopSees, HasListed, SendsFirst
  <2>8. CASE SendThrows(r)
    BY <2>8 DEF SendThrows, Goes, LoopSees, HasListed
  <2>9. CASE SendEnds(r)
    BY <2>9 DEF SendEnds, Goes, LoopSees, HasListed, SendsFirst
  <2> QED  BY <2>1, <2>2, <2>3, <2>4, <2>5, <2>6, <2>7, <2>8, <2>9 DEF WebThread
<1> QED  BY <1>1, <1>2, <1>3, <1>4

LEMMA ListInvInductive == Spec => []ListInv
<1>1. Init => ListInv
  BY DEF Init, ListInv, WellTyped, SteadyIsConnected, LoopSees, HasListed
<1>2. ASSUME ListInv, [Next]_vars PROVE ListInv'
  <2>1. CASE UNCHANGED vars
    <3>1. ASSUME NEW r \in Requests PROVE LoopSees(r)'
      BY <1>2, <2>1, <3>1, OtherRequest DEF ListInv, vars, requestVars
    <3> QED  BY <1>2, <2>1, <3>1 DEF ListInv, WellTyped, SteadyIsConnected, vars, requestVars
  <2> QED  BY <1>2, <2>1, AgentStep, FileStep, RequestStep DEF Next
<1> QED  BY <1>1, <1>2, PTL DEF Spec

\* A page that is shown has every agent that was connected all along, whichever page it
\* is and whoever comes and goes meanwhile, unless the request met a growing table.
THEOREM SteadyAreListed == Spec => []SteadyAgentsAreListed
<1>1. ListInv => SteadyAgentsAreListed
  BY DEF ListInv, LoopSees, HasListed, SteadyAgentsAreListed
<1> QED  BY <1>1, ListInvInductive, PTL

-----------------------------------------------------------------------------
(* The plan of a request.                                                  *)

Sendable == Payloads \cup {NoList}

\* Row and column of the k-th of m rows of n.
LEMMA RowAndColumn ==
    ASSUME NEW m \in Nat, NEW n \in Nat, NEW k \in 1 .. m * n
    PROVE  /\ ((k - 1) \div n) + 1 \in 1 .. m
           /\ ((k - 1) % n) + 1 \in 1 .. n
<1>1. n > 0 /\ k - 1 \in Nat
  OBVIOUS
<1> DEFINE q == (k - 1) \div n
<1>2. q \in Int /\ k - 1 = n * q + ((k - 1) % n)
  BY <1>1
<1>3. (k - 1) % n \in 0 .. n - 1
  BY <1>1
<1>4. q \in Nat
  BY <1>1
<1> HIDE DEF q
<1>5. q * n <= k - 1
  BY <1>2, <1>3, <1>4
<1>6. q < m
  <2>1. SUFFICES ASSUME q >= m PROVE FALSE
    BY <1>2
  <2>2. q * n >= m * n
    BY <2>1, <1>4
  <2> QED  BY <2>2, <1>5, <1>4
<1>7. q + 1 \in 1 .. m
  BY <1>4, <1>6
<1> QED  BY <1>3, <1>7 DEF q

\* The items are payloads; and where the page has no list of files, no item stands for
\* the missing list.
LEMMA ItemsTyped ==
    ASSUME NEW f \in FormType
    PROVE  /\ Items(f) \in Seq(Sendable)
           /\ f.page # "nfile" => Items(f) \in Seq(Payloads)
<1>1. Typed(f) \in Seq(Payloads)
  <2>1. f.typed \subseteq Payloads
    BY DEF FormType
  <2>2. CASE f.typed = {}
    <3>1. Typed(f) = [i \in 1 .. 0 |-> CHOOSE x \in f.typed : TRUE]
      BY <2>2 DEF Typed
    <3>2. Typed(f) \in [1 .. 0 -> Payloads]
      BY <3>1
    <3> QED  BY <3>2, SeqDef
  <2>3. CASE f.typed # {}
    <3>1. Typed(f) = [i \in 1 .. 1 |-> CHOOSE x \in f.typed : TRUE]
      BY <2>3 DEF Typed
    <3>2. (CHOOSE x \in f.typed : TRUE) \in Payloads
      BY <2>1, <2>3
    <3>3. Typed(f) \in [1 .. 1 -> Payloads]
      BY <3>1, <3>2
    <3> QED  BY <3>3, SeqDef
  <2> QED  BY <2>2, <2>3
<1>2. Seq(Payloads) \subseteq Seq(Sendable)
  BY DEF Sendable
<1>3. CASE f.page # "nfile"
  BY <1>1, <1>2, <1>3 DEF Items
<1>4. CASE f.page = "nfile"
  <2>1. (IF f.files = NoList THEN <<NoList>> ELSE f.files) \in Seq(Sendable)
    <3>1. <<NoList>> \in Seq(Sendable)
      BY DEF Sendable
    <3>2. f.files # NoList => f.files \in Seq(Sendable)
      BY <1>2 DEF FormType
    <3> QED  BY <3>1, <3>2
  <2>2. Typed(f) \in Seq(Sendable)
    BY <1>1, <1>2
  <2>3. Typed(f) \o (IF f.files = NoList THEN <<NoList>> ELSE f.files) \in Seq(Sendable)
    BY <2>1, <2>2, ConcatProperties
  <2> QED  BY <1>4, <2>3 DEF Items
<1> QED  BY <1>3, <1>4

LEMMA PlanTyped ==
    ASSUME NEW f \in FormType
    PROVE  /\ Plan(f) \in Seq(Agents \X Sendable)
           /\ f.page # "nfile" => \A k \in DOMAIN Plan(f) : Plan(f)[k][2] \in Payloads
<1> DEFINE m == Len(f.agents)
           n == Len(Items(f))
           agentAt(k) == f.agents[((k - 1) \div n) + 1]
           itemAt(k) == Items(f)[((k - 1) % n) + 1]
<1>1. /\ Plan(f) = [k \in 1 .. m * n |-> <<agentAt(k), itemAt(k)>>]
      /\ f.agents \in Seq(Agents)
  BY DEF Plan, FormType
<1>2. Items(f) \in Seq(Sendable) /\ (f.page # "nfile" => Items(f) \in Seq(Payloads))
  BY ItemsTyped
<1>3. m \in Nat /\ n \in Nat /\ m * n \in Nat
  BY <1>1, <1>2, LenProperties
<1>4. ASSUME NEW k \in 1 .. m * n
      PROVE  /\ agentAt(k) \in Agents /\ itemAt(k) \in Sendable
             /\ f.page # "nfile" => itemAt(k) \in Payloads
  <2>1. ((k - 1) \div n) + 1 \in 1 .. m /\ ((k - 1) % n) + 1 \in 1 .. n
    BY <1>3, RowAndColumn
  <2>2. agentAt(k) \in Agents
    BY <1>1, <2>1, ElementOfSeq
  <2>3. itemAt(k) \in Sendable
    BY <1>2, <2>1, ElementOfSeq
  <2>4. f.page # "nfile" => itemAt(k) \in Payloads
    BY <1>2, <2>1, ElementOfSeq
  <2> QED  BY <2>2, <2>3, <2>4
<1> HIDE DEF m, n, agentAt, itemAt
<1>5. Plan(f) \in [1 .. m * n -> Agents \X Sendable]
  BY <1>1, <1>4
<1>6. Plan(f) \in Seq(Agents \X Sendable)
  BY <1>3, <1>5, SeqDef
<1>7. f.page # "nfile" => \A k \in DOMAIN Plan(f) : Plan(f)[k][2] \in Payloads
  BY <1>1, <1>4
<1> QED  BY <1>6, <1>7

-----------------------------------------------------------------------------
(* What a request sends.                                                   *)

SendTyped ==
    /\ form \in [Requests -> Forms]
    /\ todo \in [Requests -> Seq(Agents \X Sendable)]
    /\ outbox \in [Agents -> Seq(Requests \X Sendable)]
    /\ kept \in [Requests -> SUBSET readable]

\* The loops over agents and items are over.
HasSent(r) == pc[r] = "done" \/ (pc[r] \in {"list", "listing"} /\ SendsFirst(form[r]))

\* The first n of the plan are done with and the others are what is left to send.
IsLeft(r, n) ==
    /\ Len(todo[r]) = Len(Plan(form[r])) - n
    /\ \A k \in 1 .. Len(todo[r]) : todo[r][k] = Plan(form[r])[n + k]

\* What the steady agents have is at every moment what the loops have behind them.  It is
\* this, and that the loops end with nothing left, that makes a page that is shown one
\* whose steady agents were served.
LoopServes(r) ==
    /\ pc[r] = "new" => SentNothing(r)
    /\ pc[r] # "new" =>
        \E n \in 0 .. Len(Plan(form[r])) :
            /\ IsLeft(r, n)
            /\ ~blind[r] => \A a \in steady[r] : Served(r, a, n)
    /\ pc[r] = "write" => todo[r] # << >>
    /\ HasSent(r) => todo[r] = << >>

\* An operation is not sent before the list is complete.
ListFirst(r) ==
    pc[r] \in {"new", "list", "listing", "failed"} /\ form[r].page \in {"noperation", "operation"}
        => SentNothing(r)

SendInv == ListInv /\ SendTyped /\ \A r \in Requests : LoopServes(r) /\ ListFirst(r)

LEMMA PlanOfForm ==
    ASSUME SendTyped, NEW r \in Requests
    PROVE  /\ form[r] \in FormType
           /\ Plan(form[r]) \in Seq(Agents \X Sendable)
           /\ Len(Plan(form[r])) \in Nat
           /\ DOMAIN Plan(form[r]) = 1 .. Len(Plan(form[r]))
<1>1. form[r] \in FormType
  BY FormsAssumption DEF SendTyped
<1>2. Plan(form[r]) \in Seq(Agents \X Sendable)
  BY <1>1, PlanTyped
<1> QED  BY <1>1, <1>2, LenProperties

\* One more pair for a bijection.
LEMMA BijectionGrows ==
    ASSUME NEW S, NEW T, NEW x, NEW y, x \notin S, y \notin T, NEW at \in Bijection(S, T)
    PROVE  [k \in S \cup {x} |-> IF k = x THEN y ELSE at[k]] \in Bijection(S \cup {x}, T \cup {y})
<1> DEFINE more == [k \in S \cup {x} |-> IF k = x THEN y ELSE at[k]]
<1>1. /\ at \in [S -> T]
      /\ \A i, j \in S : at[i] = at[j] => i = j
      /\ \A t \in T : \E k \in S : at[k] = t
  BY DEF Bijection, Injection, Surjection, IsInjective
<1>2. more \in [S \cup {x} -> T \cup {y}]
  BY <1>1
<1>3. \A i, j \in S \cup {x} : more[i] = more[j] => i = j
  BY <1>1
<1>4. \A t \in T \cup {y} : \E k \in S \cup {x} : more[k] = t
  <2>1. \A t \in T : \E k \in S : k # x /\ more[k] = t
    BY <1>1
  <2>2. more[x] = y
    OBVIOUS
  <2> QED  BY <2>1, <2>2
<1> HIDE DEF more
<1>5. more \in Bijection(S \cup {x}, T \cup {y})
  BY <1>2, <1>3, <1>4 DEF Bijection, Injection, Surjection, IsInjective
<1> QED  BY <1>5 DEF more

\* What Served says with its quantifiers named: some of the plan, and where it went.
ServedBy(r, a, n, some, at) ==
    /\ some \in SUBSET PlannedFor(r, a, n)
    /\ \A k \in PlannedFor(r, a, n) : Plan(form[r])[k][2] \in Due(r) => k \in some
    /\ at \in Bijection(some, SentTo(r, a))
    /\ \A k \in some : outbox[a][at[k]] = <<r, Plan(form[r])[k][2]>>
    /\ \A j, k \in some : j < k => at[j] < at[k]

LEMMA ServedIffBy ==
    ASSUME NEW r, NEW a, NEW n
    PROVE  Served(r, a, n) <=> \E some, at : ServedBy(r, a, n, some, at)
BY DEF Served, ServedBy

\* What was sent to a before stays as it is when entries are added, or when less is due.
LEMMA StillServed ==
    ASSUME NEW r, NEW a, NEW n, form'[r] = form[r], SentTo(r, a)' = SentTo(r, a),
           Due(r)' \subseteq Due(r),
           \A i \in SentTo(r, a) : outbox'[a][i] = outbox[a][i], Served(r, a, n)
    PROVE  Served(r, a, n)'
<1>1. PlannedFor(r, a, n)' = PlannedFor(r, a, n)
  BY DEF PlannedFor
<1>2. PICK some, at : ServedBy(r, a, n, some, at)
  BY ServedIffBy
<1>3. \A k \in some : at[k] \in SentTo(r, a)
  BY <1>2 DEF ServedBy, Bijection, Injection
<1>4. ServedBy(r, a, n, some, at)'
  BY <1>1, <1>2, <1>3 DEF ServedBy
<1> QED  BY <1>4 DEF Served, ServedBy

\* A step that leaves the sending of r alone.
LEMMA NotSending ==
    ASSUME NEW r \in Requests, LoopServes(r), pc'[r] = pc[r], form' = form,
           todo'[r] = todo[r], steady'[r] \subseteq steady[r], blind'[r] = blind[r],
           kept'[r] \subseteq kept[r],
           \A a \in Agents : /\ SentTo(r, a)' = SentTo(r, a)
                             /\ \A i \in SentTo(r, a) : outbox'[a][i] = outbox[a][i],
           steady[r] \subseteq Agents
    PROVE  LoopServes(r)'
<1>1. pc'[r] = "new" => SentNothing(r)'
  BY DEF LoopServes, SentNothing
<1>2. ASSUME pc[r] # "new"
      PROVE \E n \in 0 .. Len(Plan(form'[r])) :
                /\ IsLeft(r, n)'
                /\ ~blind'[r] => \A a \in steady'[r] : Served(r, a, n)'
  <2>1. PICK n \in 0 .. Len(Plan(form[r])) :
            IsLeft(r, n) /\ (~blind[r] => \A a \in steady[r] : Served(r, a, n))
    BY <1>2 DEF LoopServes
  <2>2. IsLeft(r, n)'
    BY <2>1 DEF IsLeft
  <2>3. Due(r)' \subseteq Due(r)
    BY DEF Due, SendsFile
  <2>4. ASSUME ~blind'[r], NEW a \in steady'[r] PROVE Served(r, a, n)'
    BY <2>1, <2>3, <2>4, StillServed
  <2> QED  BY <2>1, <2>2, <2>4
<1>3. (pc'[r] = "write" => todo'[r] # << >>) /\ (HasSent(r)' => todo'[r] = << >>)
  BY DEF LoopServes, HasSent, SendsFirst
<1> QED  BY <1>1, <1>2, <1>3 DEF LoopServes

\* The entries of q after one more entry.
LEMMA EntriesOf ==
    ASSUME NEW S, NEW s \in Seq(S), NEW e \in S, NEW q
    PROVE  /\ e[1] = q => {i \in DOMAIN Append(s, e) : Append(s, e)[i][1] = q}
                            = {i \in DOMAIN s : s[i][1] = q} \cup {Len(s) + 1}
           /\ e[1] # q => {i \in DOMAIN Append(s, e) : Append(s, e)[i][1] = q}
                            = {i \in DOMAIN s : s[i][1] = q}
<1>1. /\ DOMAIN s = 1 .. Len(s) /\ Len(s) \in Nat
      /\ DOMAIN Append(s, e) = 1 .. Len(s) + 1
      /\ \A i \in 1 .. Len(s) : Append(s, e)[i] = s[i]
      /\ Append(s, e)[Len(s) + 1] = e
  OBVIOUS
<1> DEFINE l == Len(s)
           t == Append(s, e)
<1> HIDE DEF l, t
<1>2. /\ DOMAIN s = 1 .. l /\ l \in Nat /\ DOMAIN t = 1 .. l + 1
      /\ \A i \in 1 .. l : t[i] = s[i]
      /\ t[l + 1] = e
  BY <1>1 DEF l, t
<1>3. 1 .. l + 1 = (1 .. l) \cup {l + 1}
  BY <1>2
<1>4. {i \in DOMAIN t : t[i][1] = q}
        = {i \in DOMAIN s : s[i][1] = q} \cup (IF e[1] = q THEN {l + 1} ELSE {})
  BY <1>2, <1>3
<1> QED  BY <1>4 DEF l, t

\* What a write adds to the outbox of the agent it is for, and to no other.
LEMMA WriteAdds ==
    ASSUME SendTyped, NEW r \in Requests, Write(r), todo[r] # << >>
    PROVE  /\ SendTyped'
           /\ \A q \in Requests : \A a \in Agents :
                /\ \A i \in SentTo(q, a) : outbox'[a][i] = outbox[a][i]
                /\ ~(q = r /\ a = Item(r)[1]) => SentTo(q, a)' = SentTo(q, a)
           /\ \A a \in {Item(r)[1]}, last \in {Len(outbox[Item(r)[1]]) + 1} :
                /\ last \notin SentTo(r, a) /\ \A i \in SentTo(r, a) : i < last
                /\ SentTo(r, a)' = SentTo(r, a) \cup {last}
                /\ outbox'[a][last] = <<r, Item(r)[2]>>
<1> DEFINE b == Item(r)[1]
           e == <<r, Item(r)[2]>>
<1>1. /\ outbox' = [outbox EXCEPT ![b] = Append(@, e)]
      /\ todo' = [todo EXCEPT ![r] = Tail(todo[r])]
      /\ form' = form /\ UNCHANGED fileVars
  BY DEF Write, Drop
<1>2. Item(r) \in Agents \X Sendable
  BY DEF SendTyped, Item
<1>3. b \in Agents /\ e \in Requests \X Sendable /\ e[1] = r
  BY <1>2
<1> HIDE DEF b, e
<1>4. Tail(todo[r]) \in Seq(Agents \X Sendable)
  BY DEF SendTyped
<1>5. outbox[b] \in Seq(Requests \X Sendable)
  BY <1>3 DEF SendTyped
<1>6. /\ outbox'[b] = Append(outbox[b], e)
      /\ outbox'[b] \in Seq(Requests \X Sendable)
      /\ \A a \in Agents : a # b => outbox'[a] = outbox[a]
  BY <1>1, <1>3, <1>5, AppendProperties DEF SendTyped
<1>7. SendTyped'
  BY <1>1, <1>4, <1>6 DEF SendTyped, fileVars
<1>8. /\ DOMAIN outbox[b] = 1 .. Len(outbox[b]) /\ Len(outbox[b]) \in Nat
      /\ DOMAIN outbox'[b] = 1 .. Len(outbox[b]) + 1
      /\ \A i \in 1 .. Len(outbox[b]) : outbox'[b][i] = outbox[b][i]
      /\ outbox'[b][Len(outbox[b]) + 1] = e
  BY <1>5, <1>6
<1>9. ASSUME NEW q
      PROVE  {i \in DOMAIN outbox'[b] : outbox'[b][i][1] = q}
                = {i \in DOMAIN outbox[b] : outbox[b][i][1] = q}
                    \cup (IF r = q THEN {Len(outbox[b]) + 1} ELSE {})
  <2> DEFINE s == outbox[b]
  <2>1. s \in Seq(Requests \X Sendable) /\ outbox'[b] = Append(s, e)
    BY <1>5, <1>6
  <2> HIDE DEF s
  <2>2. /\ e[1] = q => {i \in DOMAIN Append(s, e) : Append(s, e)[i][1] = q}
                            = {i \in DOMAIN s : s[i][1] = q} \cup {Len(s) + 1}
        /\ e[1] # q => {i \in DOMAIN Append(s, e) : Append(s, e)[i][1] = q}
                            = {i \in DOMAIN s : s[i][1] = q}
    BY <1>3, <2>1, EntriesOf
  <2>3. {i \in DOMAIN Append(s, e) : Append(s, e)[i][1] = q}
            = {i \in DOMAIN s : s[i][1] = q} \cup (IF r = q THEN {Len(s) + 1} ELSE {})
    BY <1>3, <2>2
  <2> QED  BY <2>1, <2>3 DEF s
<1>10. \A q \in Requests : \A a \in Agents :
        /\ \A i \in SentTo(q, a) : outbox'[a][i] = outbox[a][i]
        /\ ~(q = r /\ a = b) => SentTo(q, a)' = SentTo(q, a)
  <2> SUFFICES ASSUME NEW q \in Requests, NEW a \in Agents
               PROVE /\ \A i \in SentTo(q, a) : outbox'[a][i] = outbox[a][i]
                     /\ ~(q = r /\ a = b) => SentTo(q, a)' = SentTo(q, a)
    OBVIOUS
  <2>1. CASE a # b
    BY <1>6, <2>1 DEF SentTo
  <2>2. CASE a = b
    <3>1. \A i \in SentTo(q, a) : outbox'[a][i] = outbox[a][i]
      BY <1>8, <2>2 DEF SentTo
    <3>2. q # r => SentTo(q, a)' = SentTo(q, a)
      BY <1>9, <2>2 DEF SentTo
    <3> QED  BY <2>2, <3>1, <3>2
  <2> QED  BY <2>1, <2>2
<1>11. ASSUME NEW a \in {b}, NEW last \in {Len(outbox[b]) + 1}
       PROVE  /\ last \notin SentTo(r, a) /\ \A i \in SentTo(r, a) : i < last
              /\ SentTo(r, a)' = SentTo(r, a) \cup {last}
              /\ outbox'[a][last] = e
  <2>1. SentTo(r, a)' = SentTo(r, a) \cup {last}
    BY <1>9 DEF SentTo
  <2>2. \A i \in SentTo(r, a) : i \in 1 .. Len(outbox[b])
    BY <1>8 DEF SentTo
  <2>3. last \notin SentTo(r, a) /\ \A i \in SentTo(r, a) : i < last
    BY <1>8, <2>2
  <2> QED  BY <1>8, <2>1, <2>3
<1> QED  BY <1>7, <1>10, <1>11 DEF b, e

\* The item at hand is the next of the plan.
LEMMA ItemIsNext ==
    ASSUME SendTyped, NEW r \in Requests, todo[r] # << >>,
           NEW n \in 0 .. Len(Plan(form[r])), IsLeft(r, n)
    PROVE  /\ n + 1 \in 1 .. Len(Plan(form[r])) /\ Item(r) = Plan(form[r])[n + 1]
           /\ Len(Tail(todo[r])) = Len(Plan(form[r])) - (n + 1)
           /\ \A k \in 1 .. Len(Tail(todo[r])) : Tail(todo[r])[k] = Plan(form[r])[(n + 1) + k]
<1> DEFINE P == Plan(form[r])
           T == todo[r]
<1>1. Len(P) \in Nat /\ T \in Seq(Agents \X Sendable)
  BY PlanOfForm DEF SendTyped
<1>2. /\ Len(T) = Len(P) - n /\ \A k \in 1 .. Len(T) : T[k] = P[n + k]
  BY DEF IsLeft
<1>3. T # << >> /\ n \in 0 .. Len(P)
  OBVIOUS
<1> HIDE DEF P, T
<1>4. Len(T) \in Nat /\ Len(T) > 0 /\ Head(T) = T[1]
  BY <1>1, <1>3
<1>5. n + 1 \in 1 .. Len(P) /\ T[1] = P[n + 1]
  BY <1>1, <1>2, <1>3, <1>4
<1>6. /\ Len(Tail(T)) = Len(T) - 1
      /\ \A k \in 1 .. Len(T) - 1 : Tail(T)[k] = T[k + 1]
  BY <1>1, <1>3
<1>7. \A k \in 1 .. Len(T) - 1 : k + 1 \in 1 .. Len(T) /\ n + (k + 1) = (n + 1) + k
  BY <1>3, <1>4, <1>1
<1>8. Len(Tail(T)) = Len(P) - (n + 1)
  BY <1>1, <1>2, <1>3, <1>6
<1>9. \A k \in 1 .. Len(Tail(T)) : Tail(T)[k] = P[(n + 1) + k]
  BY <1>2, <1>4, <1>6, <1>7
<1> QED  BY <1>4, <1>5, <1>8, <1>9 DEF P, T, Item

\* The loops move on by one item: a steady agent that this is for has it now.
LEMMA WriteServes ==
    ASSUME SendInv, NEW r \in Requests, Write(r)
    PROVE  LoopServes(r)'
<1> USE DEF SendInv
<1>1. /\ pc[r] = "write" /\ todo[r] # << >> /\ pc' = [pc EXCEPT ![r] = "send"]
      /\ todo' = [todo EXCEPT ![r] = Tail(todo[r])]
      /\ UNCHANGED <<form, steady, blind, kept>>
  BY DEF Write, Drop, Goes, fileVars, LoopServes
<1>2. PICK n \in 0 .. Len(Plan(form[r])) :
        IsLeft(r, n) /\ (~blind[r] => \A a \in steady[r] : Served(r, a, n))
  BY <1>1 DEF LoopServes
<1> DEFINE P == Plan(form[r])
           T == todo[r]
<1>3. P \in Seq(Agents \X Sendable) /\ Len(P) \in Nat /\ T \in Seq(Agents \X Sendable)
  BY PlanOfForm DEF SendTyped
<1>4. /\ todo'[r] = Tail(T) /\ pc'[r] = "send" /\ T # << >>
      /\ form'[r] = form[r] /\ steady'[r] = steady[r] /\ blind'[r] = blind[r]
      /\ Due(r)' = Due(r)
  BY <1>1 DEF SendTyped, ListInv, WellTyped, Due, SendsFile
<1>5. Item(r) = P[n + 1] /\ n + 1 \in 0 .. Len(P) /\ n \in Nat
  BY <1>1, <1>2, <1>3, ItemIsNext
<1>6. IsLeft(r, n + 1)'
  <2>1. /\ Len(Tail(todo[r])) = Len(Plan(form[r])) - (n + 1)
        /\ \A k \in 1 .. Len(Tail(todo[r])) : Tail(todo[r])[k] = Plan(form[r])[(n + 1) + k]
    BY <1>1, <1>2, ItemIsNext
  <2>2. todo'[r] = Tail(todo[r]) /\ form'[r] = form[r]
    BY <1>1, <1>4
  <2> QED  BY <2>1, <2>2 DEF IsLeft
<1>7. ASSUME ~blind[r], NEW a \in steady[r] PROVE Served(r, a, n + 1)'
  <2>1. Served(r, a, n) /\ a \in Agents
    BY <1>2, <1>7 DEF ListInv, WellTyped
  <2>2. \A i \in SentTo(r, a) : outbox'[a][i] = outbox[a][i]
    BY <1>1, <2>1, WriteAdds
  <2>3. CASE a # Item(r)[1]
    <3>1. SentTo(r, a)' = SentTo(r, a)
      BY <1>1, <2>1, <2>3, WriteAdds
    <3>2. Served(r, a, n)'
      BY <1>4, <2>1, <2>2, <3>1, StillServed
    <3>3. PlannedFor(r, a, n + 1)' = PlannedFor(r, a, n)'
      BY <1>4, <1>5, <2>3 DEF PlannedFor
    <3> QED  BY <3>2, <3>3 DEF Served
  <2>4. CASE a = Item(r)[1]
    <3> DEFINE last == Len(outbox[a]) + 1
    <3>1. /\ last \notin SentTo(r, a) /\ \A i \in SentTo(r, a) : i < last
          /\ SentTo(r, a)' = SentTo(r, a) \cup {last}
          /\ outbox'[a][last] = <<r, Item(r)[2]>>
      BY <1>1, <2>4, WriteAdds
    <3>2. PICK some, at : ServedBy(r, a, n, some, at)
      BY <2>1, ServedIffBy
    <3>3. /\ PlannedFor(r, a, n + 1)' = PlannedFor(r, a, n) \cup {n + 1}
          /\ \A k \in PlannedFor(r, a, n) : k \in Int /\ k < n + 1
      BY <1>4, <1>5, <2>4 DEF PlannedFor
    <3>4. /\ some \subseteq PlannedFor(r, a, n)
          /\ \A k \in PlannedFor(r, a, n) : P[k][2] \in Due(r) => k \in some
          /\ at \in Bijection(some, SentTo(r, a))
          /\ \A k \in some : outbox[a][at[k]] = <<r, P[k][2]>>
          /\ \A k, l \in some : k < l => at[k] < at[l]
      BY <3>2 DEF ServedBy
    <3>5. \A k \in some : at[k] \in SentTo(r, a) /\ k \in Int /\ k < n + 1
      BY <3>3, <3>4 DEF Bijection, Injection
    <3>6. n + 1 \notin some /\ n + 1 \in Int
      BY <1>5, <3>5
    <3> HIDE DEF last
    <3> DEFINE more == [k \in some \cup {n + 1} |-> IF k = n + 1 THEN last ELSE at[k]]
    <3>7. more \in Bijection(some \cup {n + 1}, SentTo(r, a)')
      BY <3>1, <3>4, <3>6, BijectionGrows
    <3>8. more[n + 1] = last /\ \A k \in some : more[k] = at[k]
      BY <3>6
    <3> HIDE DEF more
    <3>9. \A k \in some \cup {n + 1} : outbox'[a][more[k]] = <<r, P[k][2]>>
      BY <1>5, <2>2, <3>1, <3>4, <3>5, <3>8
    <3>10. \A k, l \in some \cup {n + 1} : k < l => more[k] < more[l]
      <4> SUFFICES ASSUME NEW k \in some \cup {n + 1}, NEW l \in some \cup {n + 1}, k < l
                   PROVE  more[k] < more[l]
        OBVIOUS
      <4>1. k # n + 1
        BY <3>5, <3>6
      <4> QED  BY <3>1, <3>4, <3>5, <3>8, <4>1
    <3>11. \A k \in PlannedFor(r, a, n + 1)' : P[k][2] \in Due(r) => k \in some \cup {n + 1}
      BY <3>3, <3>4
    <3>12. some \cup {n + 1} \in SUBSET (PlannedFor(r, a, n + 1)')
      BY <3>3, <3>4
    <3> HIDE DEF P
    <3>13. Plan(form'[r]) = P
      BY <1>4 DEF P
    <3> QED  BY <1>4, <3>7, <3>9, <3>10, <3>11, <3>12, <3>13 DEF Served
  <2> QED  BY <2>3, <2>4
<1>8. ~(HasSent(r)') /\ pc'[r] # "new" /\ pc'[r] # "write"
  BY <1>4 DEF HasSent
<1> QED  BY <1>4, <1>5, <1>6, <1>7, <1>8 DEF LoopServes

\* An agent that is passed over is not a steady one, unless the table was growing.
LEMMA PassedOverServes ==
    ASSUME SendInv, NEW r \in Requests, PassedOver(r)
    PROVE  LoopServes(r)'
<1> USE DEF SendInv
<1>1. /\ pc[r] = "send" /\ todo[r] # << >> /\ todo' = [todo EXCEPT ![r] = Tail(todo[r])]
      /\ UNCHANGED <<agent, form, pc, outbox, steady, kept>>
      /\ blind'[r] = (blind[r] \/ Growing)
      /\ MayMiss(Item(r)[1]) \/ agent[Item(r)[1]] = "closing"
  BY DEF PassedOver, Sending, Drop, fileVars, ListInv, WellTyped
<1>2. PICK n \in 0 .. Len(Plan(form[r])) :
        IsLeft(r, n) /\ (~blind[r] => \A a \in steady[r] : Served(r, a, n))
  BY <1>1 DEF LoopServes
<1>3. todo'[r] = Tail(todo[r])
  BY <1>1 DEF SendTyped
<1>4. Item(r) = Plan(form[r])[n + 1] /\ n + 1 \in 0 .. Len(Plan(form[r])) /\ n \in Nat
  BY <1>1, <1>2, PlanOfForm, ItemIsNext
<1>5. IsLeft(r, n + 1)'
  <2>1. /\ Len(Tail(todo[r])) = Len(Plan(form[r])) - (n + 1)
        /\ \A k \in 1 .. Len(Tail(todo[r])) : Tail(todo[r])[k] = Plan(form[r])[(n + 1) + k]
    BY <1>1, <1>2, ItemIsNext
  <2>2. todo'[r] = Tail(todo[r]) /\ form'[r] = form[r]
    BY <1>1, <1>3
  <2> QED  BY <2>1, <2>2 DEF IsLeft
<1>6. ASSUME ~blind'[r], NEW a \in steady'[r] PROVE Served(r, a, n + 1)'
  <2>1. Served(r, a, n) /\ a \in Agents /\ agent[a] = "connected"
    BY <1>1, <1>2, <1>6 DEF ListInv, WellTyped, SteadyIsConnected
  <2>2. a # Item(r)[1]
    BY <1>1, <1>6, <2>1 DEF MayMiss, Registered
  <2>3. Served(r, a, n)'
    <3>1. SentTo(r, a)' = SentTo(r, a) /\ form'[r] = form[r]
      BY <1>1 DEF SentTo
    <3>2. \A i \in SentTo(r, a) : outbox'[a][i] = outbox[a][i]
      BY <1>1
    <3>3. Due(r)' = Due(r)
      BY <1>1 DEF Due, SendsFile
    <3> QED  BY <2>1, <3>1, <3>2, <3>3, StillServed
  <2>4. PlannedFor(r, a, n + 1)' = PlannedFor(r, a, n)'
    BY <1>1, <1>4, <2>2 DEF PlannedFor
  <2> QED  BY <2>3, <2>4 DEF Served
<1>7. ~(HasSent(r)') /\ pc'[r] # "new" /\ pc'[r] # "write"
  BY <1>1 DEF HasSent
<1> QED  BY <1>1, <1>4, <1>5, <1>6, <1>7 DEF LoopServes

\* A file that could not be read is not due, so nothing is missing.
LEMMA UnreadableServes ==
    ASSUME SendInv, NEW r \in Requests, Unreadable(r)
    PROVE  LoopServes(r)'
<1> USE DEF SendInv
<1>1. /\ pc[r] = "write" /\ todo[r] # << >> /\ pc' = [pc EXCEPT ![r] = "send"]
      /\ todo' = [todo EXCEPT ![r] = Tail(todo[r])]
      /\ UNCHANGED <<form, outbox, steady, blind, kept>>
      /\ SendsFile(form[r]) /\ Item(r)[2] \notin readable
  BY DEF Unreadable, Validated, Drop, Goes, fileVars, LoopServes
<1>2. PICK n \in 0 .. Len(Plan(form[r])) :
        IsLeft(r, n) /\ (~blind[r] => \A a \in steady[r] : Served(r, a, n))
  BY <1>1 DEF LoopServes
<1>3. todo'[r] = Tail(todo[r]) /\ pc'[r] = "send"
  BY <1>1 DEF SendTyped, ListInv, WellTyped
<1>4. Item(r) = Plan(form[r])[n + 1] /\ n + 1 \in 0 .. Len(Plan(form[r])) /\ n \in Nat
  BY <1>1, <1>2, PlanOfForm, ItemIsNext
<1>5. IsLeft(r, n + 1)'
  <2>1. /\ Len(Tail(todo[r])) = Len(Plan(form[r])) - (n + 1)
        /\ \A k \in 1 .. Len(Tail(todo[r])) : Tail(todo[r])[k] = Plan(form[r])[(n + 1) + k]
    BY <1>1, <1>2, ItemIsNext
  <2>2. todo'[r] = Tail(todo[r]) /\ form'[r] = form[r]
    BY <1>1, <1>3
  <2> QED  BY <2>1, <2>2 DEF IsLeft
<1>6. Due(r)' = Due(r) /\ Plan(form[r])[n + 1][2] \notin Due(r)
  BY <1>1, <1>4 DEF Due, SendsFile, SendTyped
<1>7. ASSUME ~blind'[r], NEW a \in steady'[r] PROVE Served(r, a, n + 1)'
  <2>1. PICK some, at : ServedBy(r, a, n, some, at)
    BY <1>1, <1>2, <1>7, ServedIffBy
  <2>2. /\ PlannedFor(r, a, n) \subseteq PlannedFor(r, a, n + 1)'
        /\ PlannedFor(r, a, n + 1)' \subseteq PlannedFor(r, a, n) \cup {n + 1}
    BY <1>1, <1>4 DEF PlannedFor
  <2>3. SentTo(r, a)' = SentTo(r, a) /\ form'[r] = form[r] /\ outbox'[a] = outbox[a]
    BY <1>1 DEF SentTo
  <2>4. ServedBy(r, a, n + 1, some, at)'
    BY <1>6, <2>1, <2>2, <2>3 DEF ServedBy
  <2>5. \E u, v : ServedBy(r, a, n + 1, u, v)'
    BY <2>4
  <2> QED  BY <2>5 DEF Served, ServedBy
<1>8. ~(HasSent(r)') /\ pc'[r] # "new" /\ pc'[r] # "write"
  BY <1>3 DEF HasSent
<1> QED  BY <1>1, <1>3, <1>4, <1>5, <1>7, <1>8 DEF LoopServes

\* At the start nothing is done with and nothing is sent.
LEMMA ReceiveServes ==
    ASSUME SendInv, NEW r \in Requests, Receive(r)
    PROVE  LoopServes(r)'
<1> USE DEF SendInv
<1>1. /\ todo'[r] = Plan(form[r]) /\ UNCHANGED <<form, outbox>> /\ pc[r] = "new"
      /\ pc'[r] = IF StartsWatch(form[r]) THEN "failed"
                  ELSE IF SendsFirst(form[r]) THEN "send" ELSE "list"
  BY DEF Receive, Goes, SendTyped, ListInv, WellTyped
<1>2. SentNothing(r)' /\ 0 \in 0 .. Len(Plan(form'[r]))
  BY <1>1, PlanOfForm DEF LoopServes, SentNothing, SentTo
<1>3. IsLeft(r, 0)'
  BY <1>1, PlanOfForm DEF IsLeft
<1>4. ASSUME NEW a \in steady'[r] PROVE Served(r, a, 0)'
  <2>1. a \in Agents
    BY DEF Receive, ListInv, WellTyped
  <2>2. SentTo(r, a)' = {} /\ PlannedFor(r, a, 0)' = {}
    BY <1>2, <2>1 DEF SentNothing, PlannedFor
  <2>3. << >> \in Bijection({}, {})
    BY DEF Bijection, Injection, Surjection, IsInjective
  <2>4. ServedBy(r, a, 0, {}, << >>)'
    BY <2>2, <2>3 DEF ServedBy
  <2>5. \E u, v : ServedBy(r, a, 0, u, v)'
    BY <2>4
  <2> QED  BY <2>5 DEF Served, ServedBy
<1>5. ~(HasSent(r)') /\ pc'[r] # "new" /\ pc'[r] # "write"
  BY <1>1 DEF HasSent
<1> QED  BY <1>2, <1>3, <1>4, <1>5 DEF LoopServes

\* Steps that send nothing leave what has been sent, and find the loops ended.
LEMMA OtherStepServes ==
    ASSUME SendInv, NEW r \in Requests,
           \/ ListBegins(r) \/ ListNext(r) \/ ListThrows(r) \/ ListEnds(r)
           \/ Found(r) \/ SendThrows(r) \/ SendEnds(r)
    PROVE  LoopServes(r)'
<1> USE DEF SendInv
<1>1. /\ UNCHANGED <<form, todo, outbox, steady, kept>> /\ (blind[r] => blind'[r])
      /\ pc[r] # "new" /\ pc'[r] # "new"
      /\ pc'[r] = "write" => todo[r] # << >>
      /\ HasSent(r)' => todo[r] = << >>
  BY DEF ListBegins, ListNext, ListThrows, ListEnds, Found, SendThrows, SendEnds, Sending, Goes,
         fileVars, LoopServes, HasSent, ListInv, WellTyped
<1>2. PICK n \in 0 .. Len(Plan(form[r])) :
        IsLeft(r, n) /\ (~blind[r] => \A a \in steady[r] : Served(r, a, n))
  BY <1>1 DEF LoopServes
<1>3. IsLeft(r, n)'
  BY <1>1, <1>2 DEF IsLeft
<1>4. \A a \in steady[r] : SentTo(r, a)' = SentTo(r, a)
  BY <1>1 DEF SentTo
<1>5. ~blind'[r] => \A a \in steady'[r] : Served(r, a, n)'
  <2>1. Due(r)' = Due(r)
    BY <1>1 DEF Due, SendsFile
  <2> QED  BY <1>1, <1>2, <1>4, <2>1, StillServed
<1> QED  BY <1>1, <1>2, <1>3, <1>5 DEF LoopServes

\* A web thread sends for its own request, and a user is shown an error before that.
LEMMA ThreadSends ==
    ASSUME SendInv, ListInv', NEW r \in Requests, Receive(r) \/ WebThread(r)
    PROVE  SendInv'
<1> USE DEF SendInv
<1>1. form' = form /\ (~Write(r) => outbox' = outbox)
  BY DEF Receive, WebThread, ListBegins, ListNext, ListThrows, ListEnds, Found, PassedOver,
         SendThrows, Write, Unreadable, Drop, SendEnds
<1>2. Write(r) => todo[r] # << >>
  BY DEF Write, LoopServes
<1>3. ASSUME NEW q \in Requests, NEW a \in Agents, ~(Write(r) /\ q = r)
      PROVE  /\ SentTo(q, a)' = SentTo(q, a)
             /\ \A i \in SentTo(q, a) : outbox'[a][i] = outbox[a][i]
  <2>1. CASE Write(r)
    BY <1>2, <1>3, <2>1, WriteAdds
  <2>2. CASE ~Write(r)
    BY <1>1, <2>2 DEF SentTo
  <2> QED  BY <2>1, <2>2
<1>4. SendTyped'
  <2>1. CASE Write(r)
    BY <1>2, <2>1, WriteAdds
  <2>2. CASE Receive(r)
    BY <2>2, PlanOfForm DEF Receive, SendTyped
  <2>3. CASE PassedOver(r) \/ Unreadable(r)
    <3>1. Tail(todo[r]) \in Seq(Agents \X Sendable)
      BY <2>3 DEF PassedOver, Sending, Unreadable, LoopServes, SendTyped
    <3> QED  BY <2>3, <3>1 DEF PassedOver, Unreadable, Drop, SendTyped, fileVars
  <2>4. CASE \/ ListBegins(r) \/ ListNext(r) \/ ListThrows(r) \/ ListEnds(r)
             \/ Found(r) \/ SendThrows(r) \/ SendEnds(r)
    BY <2>4 DEF ListBegins, ListNext, ListThrows, ListEnds, Found, SendThrows, SendEnds, SendTyped, fileVars
  <2> QED  BY <2>1, <2>2, <2>3, <2>4 DEF WebThread
<1>5. LoopServes(r)'
  BY ReceiveServes, OtherStepServes, WriteServes, PassedOverServes,
     UnreadableServes DEF WebThread
<1>6. ASSUME NEW q \in Requests, q # r PROVE LoopServes(q)' /\ ListFirst(q)'
  <2>1. /\ pc'[q] = pc[q] /\ todo'[q] = todo[q] /\ steady'[q] = steady[q] /\ blind'[q] = blind[q]
        /\ form' = form /\ kept'[q] = kept[q]
    BY <1>1, <1>6 DEF Receive, WebThread, ListBegins, ListNext, ListThrows, ListEnds, Found,
                      PassedOver, SendThrows, Write, Unreadable, Drop, SendEnds, Goes, SendTyped, fileVars,
                      ListInv, WellTyped
  <2>2. \A a \in Agents : /\ SentTo(q, a)' = SentTo(q, a)
                          /\ \A i \in SentTo(q, a) : outbox'[a][i] = outbox[a][i]
    BY <1>3, <1>6
  <2>3. steady[q] \subseteq Agents
    BY DEF ListInv, WellTyped
  <2>4. LoopServes(q)'
    BY <2>1, <2>2, <2>3, NotSending
  <2> QED  BY <2>1, <2>2, <2>4 DEF ListFirst, SentNothing
<1>7. ListFirst(r)'
  <2> SUFFICES ASSUME pc'[r] \in {"new", "list", "listing", "failed"},
                      form'[r].page \in {"noperation", "operation"}
               PROVE  SentNothing(r)'
    BY DEF ListFirst
  <2>1. form[r].page \in {"noperation", "operation"} /\ ~SendsFirst(form[r])
    BY <1>1 DEF SendsFirst
  <2>2. ASSUME todo[r] # << >>, pc[r] # "new" PROVE Item(r)[2] # NoList
    <3>1. PICK n \in 0 .. Len(Plan(form[r])) : IsLeft(r, n)
      BY <2>2 DEF LoopServes
    <3>2. n + 1 \in 1 .. Len(Plan(form[r])) /\ Item(r) = Plan(form[r])[n + 1]
      BY <2>2, <3>1, ItemIsNext
    <3>3. \A k \in 1 .. Len(Plan(form[r])) : Plan(form[r])[k][2] \in Payloads
      BY <2>1, PlanOfForm, PlanTyped
    <3> QED  BY <3>2, <3>3, NoListAssumption
  <2>3. pc[r] \in {"new", "list", "listing"} /\ ~Write(r)
    BY <2>1, <2>2 DEF Receive, WebThread, ListBegins, ListNext, ListThrows, ListEnds, Found,
            PassedOver, SendThrows, Write, Unreadable, Drop, SendEnds, Sending, Goes, ListInv, WellTyped
  <2>4. SentNothing(r)
    BY <2>1, <2>3 DEF ListFirst
  <2> QED  BY <1>3, <2>3, <2>4 DEF SentNothing
<1> QED  BY <1>4, <1>5, <1>6, <1>7

LEMMA SendInvInductive == Spec => []SendInv
<1>1. Init => SendInv
  <2> SUFFICES ASSUME Init PROVE SendTyped /\ \A r \in Requests : LoopServes(r) /\ ListFirst(r)
    BY DEF Init, SendInv, ListInv, WellTyped, SteadyIsConnected, LoopSees, HasListed
  <2>1. SendTyped
    BY EmptySeq DEF Init, SendTyped
  <2>2. ASSUME NEW r \in Requests PROVE SentNothing(r)
    BY DEF Init, SentNothing, SentTo
  <2> QED  BY <2>1, <2>2 DEF Init, LoopServes, ListFirst, HasSent
<1>2. ASSUME SendInv, ListInv', [Next]_vars PROVE SendInv'
  <2>1. ASSUME UNCHANGED <<requestVars, outbox>>, SendTyped',
               \A r \in Requests : steady'[r] \subseteq steady[r] /\ kept'[r] \subseteq kept[r]
        PROVE  SendInv'
    <3>1. ASSUME NEW r \in Requests PROVE LoopServes(r)' /\ ListFirst(r)'
      <4>1. \A a \in Agents : /\ SentTo(r, a)' = SentTo(r, a)
                              /\ \A i \in SentTo(r, a) : outbox'[a][i] = outbox[a][i]
        BY <2>1 DEF SentTo
      <4>2. LoopServes(r)'
        BY <1>2, <2>1, <4>1, NotSending DEF SendInv, ListInv, WellTyped, requestVars
      <4> QED  BY <1>2, <2>1, <4>1, <4>2 DEF SendInv, ListFirst, SentNothing, requestVars
    <3> QED  BY <1>2, <2>1, <3>1 DEF SendInv
  <2>2. ASSUME NEW a \in Agents, JoinBegins(a) \/ JoinEnds(a) \/ Disconnects(a) \/ Leaves(a)
        PROVE  SendInv'
    <3>1. /\ UNCHANGED <<requestVars, outbox, fileVars>>
          /\ \A r \in Requests : steady'[r] \subseteq steady[r]
      BY <1>2, <2>2 DEF JoinBegins, JoinEnds, Disconnects, Leaves, Becomes, SendInv, ListInv, WellTyped
    <3>2. SendTyped'
      BY <1>2, <3>1 DEF SendInv, SendTyped, requestVars, fileVars
    <3> QED  BY <2>1, <3>1, <3>2 DEF fileVars
  <2>3. ASSUME NEW x, Appears(x) \/ Vanishes(x) PROVE SendInv'
    <3>1. UNCHANGED <<requestVars, outbox, steady>>
      BY <2>3 DEF Appears, Vanishes
    <3>2. kept \in [Requests -> SUBSET readable]
      BY <1>2 DEF SendInv, SendTyped
    <3>3. kept' \in [Requests -> SUBSET readable'] /\ \A r \in Requests : kept'[r] \subseteq kept[r]
      BY <2>3, <3>2 DEF Appears, Vanishes
    <3>4. SendTyped'
      BY <1>2, <3>1, <3>3 DEF SendInv, SendTyped, requestVars
    <3> QED  BY <2>1, <3>1, <3>3, <3>4
  <2>4. CASE UNCHANGED vars
    <3>1. SendTyped'
      BY <1>2, <2>4 DEF SendInv, SendTyped, vars, requestVars, fileVars
    <3> QED  BY <2>1, <2>4, <3>1 DEF vars, fileVars
  <2> QED  BY <1>2, <2>2, <2>3, <2>4, ThreadSends DEF Next
<1> QED  BY <1>1, <1>2, ListInvInductive, PTL DEF Spec

\* A page that is shown comes after every agent that was connected all along was sent the
\* operation or every file that could be read all along, and nothing but what the form has
\* for it, each item at most once and in the order of the form, for any number of agents,
\* files and requests at work; an error page, after just the items before the error were;
\* unless the request met a growing table.
THEOREM SteadyAreServed == Spec => []SteadyAgentsAreServed
<1>1. SendInv => SteadyAgentsAreServed
  <2> SUFFICES ASSUME SendInv, NEW r \in Requests, pc[r] \in {"done", "failed"}, ~blind[r],
                      NEW a \in steady[r]
               PROVE  Served(r, a, CameTo(r))
    BY DEF SteadyAgentsAreServed
  <2>1. PICK n \in 0 .. Len(Plan(form[r])) : IsLeft(r, n) /\ Served(r, a, n)
    BY DEF SendInv, LoopServes
  <2>2. Len(Plan(form[r])) \in Nat /\ (pc[r] = "done" => Len(todo[r]) = 0)
    BY PlanOfForm DEF SendInv, LoopServes, HasSent
  <2>3. n = CameTo(r)
    BY <2>1, <2>2 DEF IsLeft, CameTo
  <2> QED  BY <2>1, <2>3
<1>2. QED  BY <1>1, SendInvInductive, PTL

\* An operation whose request ends in an error has been sent to no agent.
THEOREM ErrorsComeFirst == Spec => []FailedOperationSentNothing
<1>1. SendInv => FailedOperationSentNothing
  BY DEF SendInv, ListFirst, FailedOperationSentNothing
<1> QED  BY <1>1, SendInvInductive, PTL

=============================================================================
