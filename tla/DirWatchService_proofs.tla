----------------------- MODULE DirWatchService_proofs -----------------------
(***************************************************************************)
(* Proofs about DirWatchService, for any directories, any files and any    *)
(* limit of the watch key.                                                 *)
(***************************************************************************)
EXTENDS DirWatchService, SequenceTheorems, TLAPS

Happenings == Files \cup {Overflow}

\* What was announced, what is about to be and what the key keeps, one after the other:
\* the watcher's loop moves events along this sequence, and does not change it.
Everything == published \o (batch \o events)

\* The types that the steps need.
Typed ==
    /\ published \in Seq(Happenings)
    /\ batch \in Seq(Happenings)
    /\ events \in Seq(Happenings)
    /\ created \in Seq(Files)
    /\ signalled \in BOOLEAN
    /\ queued \in BOOLEAN

\* Before the key is registered nothing has happened.  The key is signalled while the
\* watcher has it in hand, and otherwise just while it is in the queue; it keeps no
\* events without being signalled.
Handshake ==
    /\ thread \in {"new", "started", "opening"} =>
        /\ pc = "take" /\ ~signalled /\ ~queued
        /\ published = << >> /\ events = << >> /\ created = << >>
    /\ pc # "publish" => batch = << >>
    /\ thread = "watching" =>
        /\ pc \in {"poll", "publish"} => signalled
        /\ pc = "take" => (signalled <=> queued)
        /\ events # << >> => signalled

HandInv == Typed /\ Handshake

-----------------------------------------------------------------------------
(* The handshake with the watch key.                                       *)

LEMMA FileAppearsKeepsHand ==
    ASSUME HandInv, NEW f \in Files, FileAppears(f)
    PROVE  HandInv'
<1>1. created' \in Seq(Files)
  BY AppendProperties DEF HandInv, Typed, FileAppears
<1>2. events' \in Seq(Happenings)
  <2>1. f \in Happenings /\ Overflow \in Happenings /\ <<Overflow>> \in Seq(Happenings)
    BY DEF Happenings
  <2>2. Append(events, f) \in Seq(Happenings)
    BY <2>1, AppendProperties DEF HandInv, Typed
  <2> QED  BY <2>1, <2>2 DEF HandInv, Typed, FileAppears, keyVars
<1>3. Typed'
  BY <1>1, <1>2 DEF HandInv, Typed, FileAppears, keyVars, loopVars, Signal
<1>4. Handshake'
  BY DEF HandInv, Typed, Handshake, FileAppears, keyVars, loopVars, Signal
<1> QED  BY <1>3, <1>4 DEF HandInv

LEMMA PublishKeepsHand ==
    ASSUME HandInv, Publish
    PROVE  HandInv'
<1>1. Head(batch) \in Happenings /\ Tail(batch) \in Seq(Happenings)
  BY HeadTailProperties DEF HandInv, Typed, Publish
<1>2. Append(published, Head(batch)) \in Seq(Happenings)
  BY <1>1, AppendProperties DEF HandInv, Typed
<1> QED  BY <1>1, <1>2 DEF HandInv, Typed, Handshake, Publish, PublishEvent, keyVars

LEMMA HandInvInductive == Spec => []HandInv
<1>1. Init => HandInv
  BY EmptySeq DEF Init, HandInv, Typed, Handshake
<1>2. ASSUME HandInv, [Next]_vars PROVE HandInv'
  <2> USE <1>2 DEF HandInv, Typed, Handshake
  <2>1. CASE StartService \/ Run \/ Register \/ RegisterFails
    BY <2>1 DEF StartService, Run, Register, RegisterFails, keyVars, loopVars
  <2>2. CASE Take
    BY <2>2 DEF Take
  <2>3. CASE PollEvents
    BY <2>3 DEF PollEvents
  <2>4. CASE Publish
    BY <2>4, PublishKeepsHand
  <2>5. CASE PublishThrows
    BY <2>5 DEF PublishThrows, keyVars, loopVars
  <2>6. CASE Reset
    BY <2>6 DEF Reset, BatchDone
  <2>7. ASSUME NEW f \in Files, FileAppears(f) PROVE HandInv'
    BY <2>7, FileAppearsKeepsHand
  <2>8. ASSUME NEW d \in Dirs, DirectoryDeleted(d) PROVE HandInv'
    BY <2>8 DEF DirectoryDeleted, keyVars, loopVars, Signal
  <2>9. ASSUME NEW d \in Dirs, DirectoryCreated(d) \/ SaveConfiguration(d) PROVE HandInv'
    BY <2>9 DEF DirectoryCreated, SaveConfiguration, keyVars, loopVars
  <2>10. CASE UNCHANGED vars
    BY <2>10 DEF vars, keyVars, loopVars
  <2> QED  BY <2>1, <2>2, <2>3, <2>4, <2>5, <2>6, <2>7, <2>8, <2>9, <2>10 DEF Next, Loop
<1> QED  BY <1>1, <1>2, PTL DEF Spec

-----------------------------------------------------------------------------
(* What the loop does to the events: it moves them.                        *)

LEMMA EventsAssociate ==
    \A s, t, u \in Seq(Happenings) : (s \o t) \o u = s \o (t \o u)
BY ConcatAssociative

LEMMA EverythingPublished ==
    ASSUME Typed, batch # << >>
    PROVE  Append(published, Head(batch)) \o (Tail(batch) \o events) = Everything
<1> DEFINE one == <<Head(batch)>>
<1> USE DEF Typed
<1>1. Head(batch) \in Happenings /\ Tail(batch) \in Seq(Happenings) /\ one \in Seq(Happenings)
  BY HeadTailProperties
<1>2. Append(published, Head(batch)) = published \o one
  BY <1>1, AppendIsConcat
<1>3. batch = one \o Tail(batch)
  <2>1. one \o Tail(batch) \in Seq(Happenings)
    BY <1>1, ConcatProperties
  <2>2. Len(one \o Tail(batch)) = Len(batch)
    BY <1>1, ConcatProperties, HeadTailProperties, LenProperties
  <2>3. ASSUME NEW i \in 1 .. Len(batch) PROVE (one \o Tail(batch))[i] = batch[i]
    BY <1>1, <2>3, ConcatProperties, HeadTailProperties, LenProperties
  <2> QED  BY <2>1, <2>2, <2>3, SeqEqual
<1> HIDE DEF one
<1>4. Tail(batch) \o events \in Seq(Happenings)
  BY <1>1, ConcatProperties
<1>5. (published \o one) \o (Tail(batch) \o events) = published \o (one \o (Tail(batch) \o events))
  BY <1>1, <1>4, EventsAssociate
<1>6. one \o (Tail(batch) \o events) = (one \o Tail(batch)) \o events
  BY <1>1, EventsAssociate
<1> QED  BY <1>2, <1>3, <1>5, <1>6 DEF Everything

LEMMA LoopMoves ==
    ASSUME HandInv, Loop
    PROVE  Everything' = Everything /\ created' = created
<1> USE DEF HandInv
<1>1. CASE Take
  BY <1>1 DEF Take, Everything
<1>2. CASE PollEvents
  <2>1. batch = << >> /\ batch' = events /\ events' = << >> /\ UNCHANGED <<published, created>>
    BY <1>2 DEF PollEvents, Handshake
  <2>2. batch \o events = events /\ batch' \o events' = events
    BY <2>1, ConcatEmptySeq DEF Typed
  <2> QED  BY <2>1, <2>2 DEF Everything
<1>3. CASE Publish
  <2>1. Everything' = Append(published, Head(batch)) \o (Tail(batch) \o events)
    BY <1>3 DEF Publish, PublishEvent, keyVars, Everything
  <2>2. batch # << >> /\ created' = created
    BY <1>3 DEF Publish, PublishEvent
  <2> QED  BY <2>1, <2>2, EverythingPublished
<1>4. CASE PublishThrows
  BY <1>4 DEF PublishThrows, keyVars, loopVars, Everything
<1>5. CASE Reset
  BY <1>5 DEF Reset, BatchDone, Everything
<1> QED  BY <1>1, <1>2, <1>3, <1>4, <1>5 DEF Loop

\* The steps that leave Everything and created alone.
LEMMA OthersLeave ==
    ASSUME HandInv, [Next]_vars, ~\E f \in Files : FileAppears(f)
    PROVE  Everything' = Everything /\ created' = created
<1>1. CASE Loop
  BY <1>1, LoopMoves
<1>2. CASE ~Loop
  BY <1>2 DEF Next, StartService, Run, Register, RegisterFails, DirectoryDeleted, Signal,
              DirectoryCreated, SaveConfiguration, vars, keyVars, loopVars, Everything
<1> QED  BY <1>1, <1>2

-----------------------------------------------------------------------------
(* What a new file does to them.                                           *)

LEMMA EventsConcat ==
    \A s, t \in Seq(Happenings) :
        /\ s \o t \in Seq(Happenings)
        /\ Len(s \o t) = Len(s) + Len(t)
        /\ \A i \in 1 .. Len(s) + Len(t) : (s \o t)[i] = IF i <= Len(s) THEN s[i] ELSE t[i - Len(s)]
BY ConcatProperties

\* What a sequence of three parts consists of.
Joins(whole, first, second, third) ==
    /\ whole \in Seq(Happenings)
    /\ Len(whole) = Len(first) + Len(second) + Len(third)
    /\ \A i \in 1 .. Len(first) : whole[i] = first[i]
    /\ \A i \in 1 .. Len(second) : whole[Len(first) + i] = second[i]
    /\ \A i \in 1 .. Len(third) : whole[Len(first) + Len(second) + i] = third[i]

LEMMA ThreeParts ==
    ASSUME NEW first \in Seq(Happenings), NEW second \in Seq(Happenings),
           NEW third \in Seq(Happenings)
    PROVE  Joins(first \o (second \o third), first, second, third)
<1> PICK rest \in Seq(Happenings) :
        /\ rest = second \o third
        /\ Len(rest) = Len(second) + Len(third)
        /\ \A i \in 1 .. Len(second) + Len(third) :
            rest[i] = IF i <= Len(second) THEN second[i] ELSE third[i - Len(second)]
  BY EventsConcat
<1> PICK whole \in Seq(Happenings) :
        /\ whole = first \o rest
        /\ Len(whole) = Len(first) + Len(rest)
        /\ \A i \in 1 .. Len(first) + Len(rest) :
            whole[i] = IF i <= Len(first) THEN first[i] ELSE rest[i - Len(first)]
  BY EventsConcat
<1>1. Len(first) \in Nat /\ Len(second) \in Nat /\ Len(third) \in Nat
  BY LenProperties
<1>2. ASSUME NEW i \in 1 .. Len(second) PROVE whole[Len(first) + i] = second[i]
  <2>1. Len(first) + i \in 1 .. Len(first) + Len(rest) /\ ~(Len(first) + i <= Len(first))
        /\ (Len(first) + i) - Len(first) = i /\ i \in 1 .. Len(second) + Len(third) /\ i <= Len(second)
    BY <1>1
  <2> QED  BY <2>1
<1>3. ASSUME NEW i \in 1 .. Len(third) PROVE whole[Len(first) + Len(second) + i] = third[i]
  <2> DEFINE n == Len(first) + Len(second) + i
  <2>1. n \in 1 .. Len(first) + Len(rest) /\ ~(n <= Len(first))
        /\ n - Len(first) = Len(second) + i
        /\ Len(second) + i \in 1 .. Len(second) + Len(third) /\ ~(Len(second) + i <= Len(second))
        /\ (Len(second) + i) - Len(second) = i
    BY <1>1
  <2> HIDE DEF n
  <2>2. whole[n] = rest[Len(second) + i]
    BY <2>1
  <2>3. rest[Len(second) + i] = third[i]
    BY <2>1
  <2> QED  BY <2>2, <2>3 DEF n
<1>4. ASSUME NEW i \in 1 .. Len(first) PROVE whole[i] = first[i]
  <2>1. i \in 1 .. Len(first) + Len(rest) /\ i <= Len(first)
    BY <1>1
  <2> QED  BY <2>1
<1>5. Len(whole) = Len(first) + Len(second) + Len(third)
  BY <1>1
<1> QED  BY <1>2, <1>3, <1>4, <1>5 DEF Joins

LEMMA EverythingJoins == Typed => Joins(Everything, published, batch, events)
BY ThreeParts DEF Typed, Everything

\* If not all is as before, a new event follows on a part of what there was: the file
\* on all of it, or an Overflow.
Grows(f) ==
    \E k \in 0 .. Len(Everything) :
        /\ Len(Everything') = k + 1
        /\ \A i \in 1 .. k : Everything'[i] = Everything[i]
        /\ Everything'[k + 1] = Overflow \/ (Everything'[k + 1] = f /\ k = Len(Everything))

LEMMA FileGrows ==
    ASSUME HandInv, NEW f \in Files, FileAppears(f)
    PROVE  \/ Grows(f)
           \/ /\ Everything' = Everything
              /\ \E i \in DOMAIN Everything : Everything[i] = Overflow
<1>1. Typed /\ Typed'
  BY FileAppearsKeepsHand DEF HandInv
<1>2. published' = published /\ batch' = batch
  BY DEF FileAppears, loopVars
<1>3. Len(published) \in Nat /\ Len(batch) \in Nat /\ Len(events) \in Nat
  BY <1>1, LenProperties DEF Typed
<1>7. Joins(Everything, published, batch, events)
  BY <1>1, EverythingJoins
<1>8. Joins(Everything', published, batch, events')
  <2>1. Everything' = published \o (batch \o events')
    BY <1>2 DEF Everything
  <2> QED  BY <1>1, <1>2, <2>1, ThreeParts DEF Typed
<1> USE DEF Joins
<1>4. CASE events # << >> /\ Last(events) = Overflow
  <2>1. Everything' = Everything
    BY <1>2, <1>4 DEF FileAppears, keyVars, Everything
  <2>2. Len(events) \in 1 .. Len(events) /\ events[Len(events)] = Overflow
    BY <1>1, <1>3, <1>4, EmptySeq DEF Last, Typed
  <2>3. Everything[Len(published) + Len(batch) + Len(events)] = Overflow
    BY <1>1, <2>2, <1>7, <1>8
  <2>4. Len(published) + Len(batch) + Len(events) \in DOMAIN Everything
    BY <1>1, <1>3, <2>2, <1>7, <1>8, LenProperties
  <2> QED  BY <2>1, <2>3, <2>4
<1>5. CASE ~(events # << >> /\ Last(events) = Overflow) /\ Len(events) < EventLimit
  <2>0. ~(Len(events) >= EventLimit)
    BY <1>3, <1>5, LimitAssumption
  <2>1. events' = Append(events, f)
    BY <1>5, <2>0 DEF FileAppears
  <2>2. f \in Happenings
    BY DEF Happenings
  <2>3. /\ Len(events') = Len(events) + 1
        /\ \A i \in 1 .. Len(events) : events'[i] = events[i]
        /\ events'[Len(events) + 1] = f
    BY <1>1, <2>1, <2>2, AppendProperties DEF Typed
  <2>4. Len(Everything') = Len(Everything) + 1 /\ Everything'[Len(Everything) + 1] = f
    <3>1. Len(events) + 1 \in 1 .. Len(events')
      BY <1>3, <2>3
    <3>2. Everything'[Len(published) + Len(batch) + (Len(events) + 1)] = f
      BY <1>8, <2>3, <3>1
    <3>3. /\ Len(Everything') = Len(Everything) + 1
          /\ Len(Everything) + 1 = Len(published) + Len(batch) + (Len(events) + 1)
      BY <1>3, <1>7, <1>8, <2>3
    <3> QED  BY <3>2, <3>3
  <2>5. ASSUME NEW i \in 1 .. Len(Everything) PROVE Everything'[i] = Everything[i]
    <3>1. CASE i <= Len(published)
      BY <1>1, <1>2, <1>3, <3>1, <1>7, <1>8
    <3>2. CASE i > Len(published) /\ i <= Len(published) + Len(batch)
      <4>0. i - Len(published) \in 1 .. Len(batch) /\ i = Len(published) + (i - Len(published))
        BY <1>3, <1>7, <3>2
      <4>1. PICK j \in 1 .. Len(batch) : i = Len(published) + j
        BY <4>0
      <4>2. Everything'[i] = batch[j] /\ Everything[i] = batch[j]
        BY <1>7, <1>8, <4>1
      <4> QED  BY <4>2
    <3>3. CASE i > Len(published) + Len(batch)
      <4> DEFINE j == i - (Len(published) + Len(batch))
      <4>1. j \in 1 .. Len(events) /\ j \in 1 .. Len(events') /\ i = Len(published) + Len(batch) + j
        BY <1>1, <1>3, <2>3, <3>3, <1>7, <1>8
      <4> HIDE DEF j
      <4>2. Everything'[i] = events'[j] /\ Everything[i] = events[j]
        BY <1>1, <1>2, <4>1, <1>7, <1>8
      <4> QED  BY <2>3, <4>1, <4>2
    <3> QED  BY <1>1, <1>3, <3>1, <3>2, <3>3, <1>7, <1>8
  <2>6. Len(Everything) \in 0 .. Len(Everything)
    BY <1>1, <1>7, <1>8, <1>3
  <2> QED  BY <2>4, <2>5, <2>6 DEF Grows
<1>6. CASE ~(events # << >> /\ Last(events) = Overflow) /\ Len(events) >= EventLimit
  <2>1. events' = <<Overflow>>
    BY <1>6 DEF FileAppears
  <2> DEFINE k == Len(published) + Len(batch)
  <2>2. k \in 0 .. Len(Everything) /\ k \in Nat
    BY <1>1, <1>3, <1>7, <1>8
  <2>3. Len(Everything') = k + 1 /\ Everything'[k + 1] = Overflow
    <3>1. Len(events') = 1 /\ events'[1] = Overflow /\ 1 \in 1 .. Len(events')
      BY <2>1
    <3> QED  BY <1>1, <1>2, <1>3, <3>1, <1>7, <1>8
  <2>4. ASSUME NEW i \in 1 .. k PROVE Everything'[i] = Everything[i]
    <3>1. CASE i <= Len(published)
      BY <1>1, <1>2, <1>3, <3>1, <1>7, <1>8
    <3>2. CASE i > Len(published)
      <4>1. PICK j \in 1 .. Len(batch) : i = Len(published) + j
        BY <1>3, <3>2
      <4>2. Everything'[i] = batch[j] /\ Everything[i] = batch[j]
        BY <1>7, <1>8, <4>1
      <4> QED  BY <4>2
    <3> QED  BY <1>3, <3>1, <3>2
  <2> HIDE DEF k
  <2> QED  BY <2>2, <2>3, <2>4 DEF Grows
<1> QED  BY <1>3, <1>4, <1>5, <1>6, LimitAssumption

-----------------------------------------------------------------------------
(* Nothing is dropped silently.                                            *)

\* Every file that appeared is in Everything, or an Overflow is.
Covered ==
    \A m \in DOMAIN created :
        \E i \in DOMAIN Everything : Everything[i] \in {created[m], Overflow}

LEMMA CreatedGrows ==
    ASSUME HandInv, NEW f \in Files, FileAppears(f)
    PROVE  /\ Len(created) \in Nat
           /\ DOMAIN created = 1 .. Len(created)
           /\ DOMAIN created' = 1 .. Len(created) + 1
           /\ \A m \in 1 .. Len(created) : created'[m] = created[m]
           /\ created'[Len(created) + 1] = f
BY LenProperties, AppendProperties DEF HandInv, Typed, FileAppears

\* Everything, as a function, before and after a new file.
LEMMA EverythingDomain ==
    ASSUME HandInv, HandInv'
    PROVE  /\ Len(Everything) \in Nat /\ DOMAIN Everything = 1 .. Len(Everything)
           /\ Len(Everything') \in Nat /\ DOMAIN Everything' = 1 .. Len(Everything')
<1>1. Everything \in Seq(Happenings)
  BY EverythingJoins DEF HandInv, Joins
<1>2. Everything' \in Seq(Happenings)
  <2>1. batch' \o events' \in Seq(Happenings)
    BY EventsConcat DEF HandInv, Typed
  <2> QED  BY <2>1, EventsConcat DEF HandInv, Typed, Everything
<1> QED  BY <1>1, <1>2, LenProperties

LEMMA CoveredStep ==
    ASSUME HandInv, HandInv', Covered, [Next]_vars
    PROVE  Covered'
<1>1. CASE ~\E f \in Files : FileAppears(f)
  BY <1>1, OthersLeave DEF Covered
<1>2. ASSUME NEW f \in Files, FileAppears(f) PROVE Covered'
  <2>1. CASE Everything' = Everything /\ \E i \in DOMAIN Everything : Everything[i] = Overflow
    BY <2>1 DEF Covered
  <2>2. CASE Grows(f)
    <3>1. PICK k \in 0 .. Len(Everything) :
            /\ Len(Everything') = k + 1
            /\ \A i \in 1 .. k : Everything'[i] = Everything[i]
            /\ Everything'[k + 1] = Overflow \/ (Everything'[k + 1] = f /\ k = Len(Everything))
      BY <2>2 DEF Grows
    <3>2. k + 1 \in DOMAIN Everything' /\ \A i \in 1 .. k : i \in DOMAIN Everything'
      <4>0. Len(Everything) \in Nat /\ DOMAIN Everything' = 1 .. Len(Everything')
        BY EverythingDomain
      <4>1. k \in Nat /\ DOMAIN Everything' = 1 .. k + 1
        BY <3>1, <4>0
      <4> QED  BY <4>1
    <3>3. CASE Everything'[k + 1] = Overflow
      BY <3>2, <3>3 DEF Covered
    <3>4. CASE Everything'[k + 1] = f /\ k = Len(Everything)
      <4>1. ASSUME NEW m \in DOMAIN created'
            PROVE  \E i \in DOMAIN Everything' : Everything'[i] \in {created'[m], Overflow}
        <5>1. CASE m = Len(created) + 1
          BY <1>2, <3>2, <3>4, <5>1, CreatedGrows
        <5>2. CASE m # Len(created) + 1
          <6>1. m \in DOMAIN created /\ created'[m] = created[m]
            BY <1>2, <5>2, CreatedGrows
          <6>2. PICK i \in DOMAIN Everything : Everything[i] \in {created[m], Overflow}
            BY <6>1 DEF Covered
          <6>3. i \in 1 .. k
            BY <3>4, EverythingDomain
          <6> QED  BY <3>1, <3>2, <6>1, <6>2, <6>3
        <5> QED  BY <5>1, <5>2
      <4> QED  BY <4>1 DEF Covered
    <3> QED  BY <3>1, <3>3, <3>4
  <2> QED  BY <1>2, <2>1, <2>2, FileGrows
<1> QED  BY <1>1, <1>2

\* A watcher that sleeps on its key has announced every file that has appeared, or an
\* overflow: the handshake of take, pollEvents and reset leaves nothing behind.
THEOREM NoFileSlips == Spec => []NothingDroppedSilently
<1>1. Init => Covered
  BY DEF Init, Covered
<1>2. HandInv /\ Covered => NothingDroppedSilently
  <2> SUFFICES ASSUME HandInv, Covered, thread = "watching", pc = "take", ~queued,
                      NEW f \in Files, Contains(created, f)
               PROVE  Announced(f) \/ Announced(Overflow)
    BY DEF NothingDroppedSilently
  <2>1. batch = << >> /\ events = << >>
    BY DEF HandInv, Handshake
  <2>2. Everything = published
    BY <2>1, ConcatEmptySeq DEF HandInv, Typed, Everything
  <2>3. PICK m \in DOMAIN created : created[m] = f
    BY LenProperties DEF Contains, HandInv, Typed
  <2>4. PICK i \in DOMAIN published : published[i] \in {f, Overflow}
    BY <2>2, <2>3 DEF Covered
  <2> QED  BY <2>4, LenProperties DEF Announced, Contains, HandInv, Typed
<1> QED  BY <1>1, <1>2, CoveredStep, HandInvInductive, PTL DEF Spec

-----------------------------------------------------------------------------
(* The order of the announcements.                                         *)

\* Of Everything, what is not an Overflow has appeared, and in this order.
Ordered ==
    /\ \A i \in DOMAIN Everything : Everything[i] # Overflow =>
        \E m \in DOMAIN created : created[m] = Everything[i]
    /\ \A i, j \in DOMAIN Everything :
        i < j /\ Everything[i] # Overflow /\ Everything[j] # Overflow =>
            \E m, n \in DOMAIN created :
                m < n /\ created[m] = Everything[i] /\ created[n] = Everything[j]

LEMMA OrderedStep ==
    ASSUME HandInv, HandInv', Ordered, [Next]_vars
    PROVE  Ordered'
<1>1. CASE ~\E f \in Files : FileAppears(f)
  BY <1>1, OthersLeave DEF Ordered
<1>2. ASSUME NEW f \in Files, FileAppears(f) PROVE Ordered'
  <2>1. \A m \in DOMAIN created :
            m \in Nat /\ m \in DOMAIN created' /\ created'[m] = created[m] /\ m < Len(created) + 1
    BY <1>2, CreatedGrows
  <2>2. Len(created) + 1 \in DOMAIN created' /\ created'[Len(created) + 1] = f
    BY <1>2, CreatedGrows
  <2>3. CASE Everything' = Everything
    <3>1. ASSUME NEW i \in DOMAIN Everything', Everything'[i] # Overflow
          PROVE  \E m \in DOMAIN created' : created'[m] = Everything'[i]
      BY <2>1, <2>3, <3>1 DEF Ordered
    <3>2. ASSUME NEW i \in DOMAIN Everything', NEW j \in DOMAIN Everything',
                 i < j, Everything'[i] # Overflow, Everything'[j] # Overflow
          PROVE  \E m, n \in DOMAIN created' :
                    m < n /\ created'[m] = Everything'[i] /\ created'[n] = Everything'[j]
      BY <2>1, <2>3, <3>2 DEF Ordered
    <3> QED  BY <3>1, <3>2 DEF Ordered
  <2>4. CASE Grows(f)
    <3>1. PICK k \in 0 .. Len(Everything) :
            /\ Len(Everything') = k + 1
            /\ \A i \in 1 .. k : Everything'[i] = Everything[i]
            /\ Everything'[k + 1] = Overflow \/ (Everything'[k + 1] = f /\ k = Len(Everything))
      BY <2>4 DEF Grows
    <3>2. k \in Nat /\ DOMAIN Everything' = 1 .. k + 1 /\ \A i \in 1 .. k : i \in DOMAIN Everything
      <4>0. Len(Everything) \in Nat /\ DOMAIN Everything' = 1 .. Len(Everything')
        BY EverythingDomain
      <4>1. DOMAIN Everything = 1 .. Len(Everything)
        BY EverythingDomain
      <4>2. k \in Nat /\ DOMAIN Everything' = 1 .. k + 1
        BY <3>1, <4>0
      <4>3. \A i \in 1 .. k : i \in 1 .. Len(Everything)
        BY <4>0, <4>2
      <4> QED  BY <4>1, <4>2, <4>3
    <3>3. ASSUME NEW i \in DOMAIN Everything', Everything'[i] # Overflow
          PROVE  \/ i = k + 1 /\ Everything'[i] = f
                 \/ i \in 1 .. k /\ i \in DOMAIN Everything /\ Everything'[i] = Everything[i]
      BY <3>1, <3>2, <3>3
    <3>4. ASSUME NEW i \in DOMAIN Everything', Everything'[i] # Overflow
          PROVE  \E m \in DOMAIN created' : created'[m] = Everything'[i]
      <4>1. CASE i = k + 1 /\ Everything'[i] = f
        BY <2>2, <4>1
      <4>2. CASE i \in DOMAIN Everything /\ Everything'[i] = Everything[i]
        BY <2>1, <3>4, <4>2 DEF Ordered
      <4> QED  BY <3>3, <3>4, <4>1, <4>2
    <3>5. ASSUME NEW i \in DOMAIN Everything', NEW j \in DOMAIN Everything',
                 i < j, Everything'[i] # Overflow, Everything'[j] # Overflow
          PROVE  \E m, n \in DOMAIN created' :
                    m < n /\ created'[m] = Everything'[i] /\ created'[n] = Everything'[j]
      <4>1. i \in DOMAIN Everything /\ Everything'[i] = Everything[i]
        BY <3>2, <3>3, <3>5
      <4>2. PICK m \in DOMAIN created : created[m] = Everything[i]
        BY <3>5, <4>1 DEF Ordered
      <4>3. CASE j = k + 1 /\ Everything'[j] = f
        <5>1. m \in DOMAIN created' /\ created'[m] = Everything'[i] /\ m < Len(created) + 1
          BY <2>1, <4>1, <4>2
        <5> QED  BY <2>2, <4>3, <5>1
      <4>4. CASE j \in DOMAIN Everything /\ Everything'[j] = Everything[j]
        <5>1. PICK u, v \in DOMAIN created :
                u < v /\ created[u] = Everything[i] /\ created[v] = Everything[j]
          BY <3>5, <4>1, <4>4 DEF Ordered
        <5> QED  BY <2>1, <4>1, <4>4, <5>1
      <4> QED  BY <3>3, <3>5, <4>3, <4>4
    <3> QED  BY <3>4, <3>5 DEF Ordered
  <2> QED  BY <1>2, <2>3, <2>4, FileGrows
<1> QED  BY <1>1, <1>2

\* The announcements are in the order in which the files appeared, each once, whatever
\* the batches and the overflows.
THEOREM OrderIsKept == Spec => []AnnouncedInOrder
<1>1. Init => Ordered
  <2> SUFFICES ASSUME Init PROVE Ordered
    OBVIOUS
  <2>1. Everything = << >>
    <3>1. << >> \in Seq(Happenings)
      BY EmptySeq
    <3> QED  BY <3>1, ConcatEmptySeq DEF Init, Everything
  <2> QED  BY <2>1 DEF Ordered
<1>2. HandInv /\ Ordered => AnnouncedInOrder
  <2> SUFFICES ASSUME HandInv, Ordered PROVE AnnouncedInOrder
    OBVIOUS
  <2>1. Joins(Everything, published, batch, events)
    BY EverythingJoins DEF HandInv
  <2>2. Len(published) \in Nat /\ Len(batch) \in Nat /\ Len(events) \in Nat
        /\ DOMAIN published = 1 .. Len(published)
    BY LenProperties DEF HandInv, Typed
  <2>3. DOMAIN Everything = 1 .. Len(published) + Len(batch) + Len(events)
    BY <2>1, LenProperties DEF Joins
  <2>4. \A i \in DOMAIN published : i \in DOMAIN Everything /\ Everything[i] = published[i]
    BY <2>1, <2>2, <2>3 DEF Joins
  <2> QED  BY <2>4 DEF Ordered, AnnouncedInOrder
<1> QED  BY <1>1, <1>2, OrderedStep, HandInvInductive, PTL DEF Spec

=============================================================================
