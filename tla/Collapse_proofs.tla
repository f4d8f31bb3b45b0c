-------------------------- MODULE Collapse_proofs --------------------------
(***************************************************************************)
(* Proofs about Collapse, for any number of panels, any listeners and any  *)
(* number of handlers that wait for the same panel.                        *)
(***************************************************************************)
EXTENDS Collapse, SequenceTheorems, WellFoundedInduction, TLAPS

Handlers == [kind : {"show", "hide"}, stored : BOOLEAN]
Instances == [parent : BOOLEAN, transitioning : BOOLEAN, exists : BOOLEAN]

\* Of the handlers that wait for a panel: one shows it; one's instance is in the data.
Shows(handlers) == \E i \in DOMAIN handlers : handlers[i].kind = "show"
Stored(handlers) == \E i \in DOMAIN handlers : handlers[i].stored

LEMMA OpeningShows == \A p : Opening(p) <=> Shows(pending[p])
BY DEF Opening, Shows

LEMMA EmptyHandlers == << >> \in Seq(Handlers) /\ ~Shows(<< >>) /\ ~Stored(<< >>)
BY EmptySeq DEF Shows, Stored

LEMMA AppendHandler ==
    ASSUME NEW s \in Seq(Handlers), NEW h \in Handlers
    PROVE  /\ Append(s, h) \in Seq(Handlers)
           /\ Append(s, h) # << >>
           /\ Shows(Append(s, h)) <=> Shows(s) \/ h.kind = "show"
           /\ Stored(Append(s, h)) <=> Stored(s) \/ h.stored
<1>1. /\ Append(s, h) \in Seq(Handlers) /\ Append(s, h) # << >>
      /\ Len(s) \in Nat /\ DOMAIN s = 1 .. Len(s)
      /\ DOMAIN Append(s, h) = 1 .. Len(s) + 1
      /\ \A i \in 1 .. Len(s) : Append(s, h)[i] = s[i]
      /\ Append(s, h)[Len(s) + 1] = h
  BY AppendProperties, LenProperties
<1>2. \A i : i \in DOMAIN Append(s, h) <=> i \in DOMAIN s \/ i = Len(s) + 1
  BY <1>1
<1>3. Shows(Append(s, h)) <=> Shows(s) \/ h.kind = "show"
  BY <1>1, <1>2 DEF Shows
<1>4. Stored(Append(s, h)) <=> Stored(s) \/ h.stored
  BY <1>1, <1>2 DEF Stored
<1> QED  BY <1>1, <1>3, <1>4

LEMMA UnstoredHandlers ==
    ASSUME NEW s \in Seq(Handlers)
    PROVE  /\ Unstored(s) \in Seq(Handlers)
           /\ Unstored(s) = << >> <=> s = << >>
           /\ Shows(Unstored(s)) <=> Shows(s)
           /\ ~Stored(Unstored(s))
<1>1. Len(s) \in Nat /\ DOMAIN s = 1 .. Len(s) /\ \A i \in DOMAIN s : s[i] \in Handlers
  BY LenProperties, ElementOfSeq
<1>2. Unstored(s) = [i \in 1 .. Len(s) |-> [s[i] EXCEPT !.stored = FALSE]]
  BY <1>1 DEF Unstored
<1>3. \A i \in 1 .. Len(s) : /\ [s[i] EXCEPT !.stored = FALSE] \in Handlers
                             /\ [s[i] EXCEPT !.stored = FALSE].kind = s[i].kind
                             /\ ~[s[i] EXCEPT !.stored = FALSE].stored
  BY <1>1 DEF Handlers
<1>4. Unstored(s) \in [1 .. Len(s) -> Handlers]
  BY <1>2, <1>3
<1>5. Unstored(s) \in Seq(Handlers) /\ Len(Unstored(s)) = Len(s)
  BY <1>1, <1>4, SeqDef, LenProperties
<1>6. Unstored(s) = << >> <=> s = << >>
  BY <1>5, EmptySeq
<1>7. /\ Shows(Unstored(s)) <=> Shows(s)
      /\ ~Stored(Unstored(s))
  BY <1>1, <1>2, <1>3 DEF Shows, Stored
<1> QED  BY <1>5, <1>6, <1>7

-----------------------------------------------------------------------------
(* Every panel by itself.                                                  *)

Typed ==
    /\ hasParent \in BOOLEAN
    /\ classes \in [Panels -> {Closed, Moving, Open}]
    /\ expanded \in [Panels -> BOOLEAN]
    /\ data \in [Panels -> Instances]
    /\ pending \in [Panels -> Seq(Handlers)]
    /\ misread \in [Panels -> BOOLEAN]
    /\ vetoed \in BOOLEAN
    /\ confused \in BOOLEAN

\* A panel is moving just while handlers wait for it, which takes transition support; it
\* is announced as what it is or will be, unless it was misread; and its instance knows
\* of the transition just if the handler of one of them is the instance's own.
PanelOK(p) ==
    /\ pending[p] # << >> <=> classes[p] = Moving
    /\ pending[p] # << >> => Supported
    /\ ~misread[p] => (expanded[p] <=> IsOpen(p) \/ Shows(pending[p]))
    /\ Stored(pending[p]) <=> data[p].transitioning
    /\ data[p].transitioning => data[p].exists

PanelsInv == Typed /\ \A p \in Panels : PanelOK(p)

LEMMA Classes ==
    /\ Closed # Moving /\ Closed # Open /\ Moving # Open
    /\ "in" \in Open /\ "in" \notin Closed /\ "in" \notin Moving
BY DEF Closed, Moving, Open

LEMMA OpenIs == ASSUME Typed, NEW p \in Panels PROVE IsOpen(p) <=> classes[p] = Open
BY Classes DEF Typed, IsOpen

\* The instance that toggles knows of no other transition than the one in the data.
LEMMA OwnIs ==
    ASSUME Typed, NEW p \in Panels, PanelOK(p)
    PROVE  /\ Own(p) \in Instances /\ Own(p).exists
           /\ Own(p).transitioning <=> data[p].transitioning
           /\ Work(Own(p)) \in Instances /\ Work(Own(p)).exists
           /\ Work(Own(p)).transitioning <=> Supported
<1>1. Own(p) \in Instances /\ Own(p).exists
  BY DEF Typed, Own, Instance, Instances
<1>2. Own(p).transitioning <=> data[p].transitioning
  BY DEF Typed, Own, Instance, Instances, PanelOK
<1>3. Supported \in BOOLEAN
  BY DEF Supported
<1>4. /\ Work(Own(p)) \in Instances /\ Work(Own(p)).exists
      /\ Work(Own(p)).transitioning <=> Supported
  BY <1>1, <1>3 DEF Work, Instances
<1> QED  BY <1>1, <1>2, <1>4

\* A constructor that misreads a panel is the only one to announce what is not so.
LEMMA AnnouncedOrMisread ==
    ASSUME Typed, NEW p \in Panels, PanelOK(p), NEW panels
    PROVE  /\ Announced(panels)[p] \in BOOLEAN /\ Misread(panels)[p] \in BOOLEAN
           /\ ~Misread(panels)[p] => (Announced(panels)[p] <=> IsOpen(p) \/ Shows(pending[p]))
<1>1. /\ Announced(panels)[p] = (IF p \in panels THEN IsOpen(p) ELSE expanded[p])
      /\ Misread(panels)[p] = (misread[p] \/ (p \in panels /\ expanded[p] /\ ~IsOpen(p)))
  BY DEF Announced, Misread
<1>2. expanded[p] \in BOOLEAN /\ misread[p] \in BOOLEAN /\ IsOpen(p) \in BOOLEAN
  BY DEF Typed, IsOpen
<1> QED  BY <1>1, <1>2 DEF PanelOK

LEMMA StaysKeeps ==
    ASSUME PanelsInv, NEW p \in Panels, Stays(p), UNCHANGED <<support, hasParent>>
    PROVE  PanelsInv'
<1> USE DEF PanelsInv
<1>1. /\ data' = [data EXCEPT ![p] = Own(p)]
      /\ expanded' = Announced(Adjusted(p)) /\ misread' = Misread(Adjusted(p))
      /\ UNCHANGED <<pending, classes, vetoed, confused>>
  BY DEF Stays
<1>2. Typed'
  <2>1. data' \in [Panels -> Instances]
    BY <1>1, OwnIs DEF Typed
  <2>2. expanded' \in [Panels -> BOOLEAN] /\ misread' \in [Panels -> BOOLEAN]
    BY <1>1, AnnouncedOrMisread DEF Announced, Misread
  <2> QED  BY <1>1, <2>1, <2>2 DEF Typed
<1>3. ASSUME NEW q \in Panels PROVE PanelOK(q)'
  <2>1. (IsOpen(q) <=> IsOpen(q)') /\ (Supported <=> Supported')
    BY <1>1 DEF IsOpen, Supported
  <2>2. /\ data'[q].transitioning <=> data[q].transitioning
        /\ data[q].exists => data'[q].exists
    BY <1>1, OwnIs DEF Typed
  <2>3. ~misread'[q] => (expanded'[q] <=> IsOpen(q) \/ Shows(pending[q]))
    BY <1>1, AnnouncedOrMisread
  <2> QED  BY <1>1, <2>1, <2>2, <2>3 DEF PanelOK
<1> QED  BY <1>2, <1>3

LEMMA HandleIs ==
    ASSUME NEW kind \in {"show", "hide"}
    PROVE  /\ Handler(kind) \in Handlers /\ Handler(kind).kind = kind /\ Handler(kind).stored
           /\ Begin(kind) \in {Closed, Moving, Open}
           /\ Supported => Begin(kind) = Moving
           /\ ~Supported => Begin(kind) = Finish(kind)
           /\ Finish("show") = Open /\ Finish("hide") = Closed
BY DEF Handler, Handlers, Begin, Finish

LEMMA HideKeeps ==
    ASSUME PanelsInv, NEW p \in Panels, IsOpen(p), Hide(p), UNCHANGED <<support, hasParent>>
    PROVE  PanelsInv'
<1> USE DEF PanelsInv
<1>1. /\ data' = [data EXCEPT ![p] = Work(Own(p))]
      /\ classes' = [classes EXCEPT ![p] = Begin("hide")]
      /\ expanded' = [Announced(Adjusted(p)) EXCEPT ![p] = FALSE]
      /\ misread' = [Misread(Adjusted(p)) EXCEPT ![p] = FALSE]
      /\ pending' = IF Supported THEN [pending EXCEPT ![p] = Append(@, Handler("hide"))] ELSE pending
      /\ UNCHANGED <<vetoed, confused>>
  BY DEF Hide, Bound
<1>2. pending[p] = << >> /\ ~Shows(pending[p]) /\ ~Stored(pending[p])
  BY OpenIs, Classes, EmptyHandlers DEF PanelOK
<1>3. Typed'
  <2>1. data' \in [Panels -> Instances] /\ classes' \in [Panels -> {Closed, Moving, Open}]
    BY <1>1, OwnIs, HandleIs DEF Typed
  <2>2. expanded' \in [Panels -> BOOLEAN] /\ misread' \in [Panels -> BOOLEAN]
    BY <1>1, AnnouncedOrMisread DEF Announced, Misread
  <2>3. pending' \in [Panels -> Seq(Handlers)]
    BY <1>1, HandleIs, AppendHandler DEF Typed
  <2> QED  BY <1>1, <2>1, <2>2, <2>3 DEF Typed
<1>4. ASSUME NEW q \in Panels, q # p PROVE PanelOK(q)'
  <2>1. /\ pending'[q] = pending[q] /\ data'[q] = data[q] /\ classes'[q] = classes[q]
        /\ (Supported <=> Supported')
    BY <1>1, <1>4 DEF Typed, Supported
  <2>2. IsOpen(q) <=> IsOpen(q)'
    BY <2>1 DEF IsOpen
  <2>3. expanded'[q] = Announced(Adjusted(p))[q] /\ misread'[q] = Misread(Adjusted(p))[q]
    BY <1>1, <1>4 DEF Announced, Misread
  <2>4. ~misread'[q] => (expanded'[q] <=> IsOpen(q) \/ Shows(pending[q]))
    BY <2>3, AnnouncedOrMisread
  <2> QED  BY <2>1, <2>2, <2>4 DEF PanelOK
<1>5. PanelOK(p)'
  <2>1. data'[p] = Work(Own(p)) /\ classes'[p] = Begin("hide") /\ (Supported <=> Supported')
    BY <1>1 DEF Typed, Supported
  <2>2. ~expanded'[p] /\ ~misread'[p]
    BY <1>1 DEF Announced, Misread
  <2>3. ~IsOpen(p)'
    BY <2>1, HandleIs, Classes DEF IsOpen
  <2>4. CASE Supported
    <3>1. pending'[p] = Append(pending[p], Handler("hide"))
      BY <1>1, <2>4 DEF Typed
    <3>2. Handler("hide") \in Handlers /\ Handler("hide").kind # "show" /\ Handler("hide").stored
      BY HandleIs
    <3>3. pending[p] \in Seq(Handlers)
      BY DEF Typed
    <3>4. /\ Append(pending[p], Handler("hide")) # << >>
          /\ ~Shows(Append(pending[p], Handler("hide")))
          /\ Stored(Append(pending[p], Handler("hide")))
      <4>1. ASSUME NEW h \in Handlers, h.kind # "show", h.stored
            PROVE  Append(pending[p], h) # << >> /\ ~Shows(Append(pending[p], h)) /\ Stored(Append(pending[p], h))
        BY <1>2, <3>3, <4>1, AppendHandler
      <4> QED  BY <3>2, <4>1
    <3> QED  BY <2>1, <2>2, <2>3, <2>4, <3>1, <3>4, OwnIs, HandleIs DEF PanelOK
  <2>5. CASE ~Supported
    BY <1>1, <1>2, <2>1, <2>2, <2>3, <2>5, OwnIs, HandleIs, Classes DEF PanelOK
  <2> QED  BY <2>4, <2>5
<1> QED  BY <1>3, <1>4, <1>5

LEMMA CompleteKeeps ==
    ASSUME PanelsInv, NEW p \in Panels, Complete(p)
    PROVE  PanelsInv'
<1> USE DEF PanelsInv
<1>1. /\ pending[p] # << >>
      /\ classes' = [classes EXCEPT ![p] = Finish(IF Shows(pending[p]) THEN "show" ELSE "hide")]
      /\ data' = IF Stored(pending[p]) THEN [data EXCEPT ![p].transitioning = FALSE] ELSE data
      /\ pending' = [pending EXCEPT ![p] = << >>]
      /\ UNCHANGED <<support, hasParent, expanded, misread, vetoed, confused>>
  BY DEF Complete, Ended, Shows, Stored, history
<1>2. Typed'
  <2>1. data' \in [Panels -> Instances] /\ classes' \in [Panels -> {Closed, Moving, Open}]
    BY <1>1 DEF Typed, Instances, Finish
  <2>2. pending' \in [Panels -> Seq(Handlers)]
    BY <1>1, EmptyHandlers DEF Typed
  <2> QED  BY <1>1, <2>1, <2>2 DEF Typed
<1>3. ASSUME NEW q \in Panels, q # p PROVE PanelOK(q)'
  <2>1. /\ pending'[q] = pending[q] /\ data'[q] = data[q] /\ classes'[q] = classes[q]
        /\ (Supported <=> Supported')
    BY <1>1, <1>3 DEF Typed, Supported
  <2> QED  BY <1>1, <2>1 DEF PanelOK, IsOpen
<1>4. PanelOK(p)'
  <2>1. pending'[p] = << >> /\ classes'[p] = IF Shows(pending[p]) THEN Open ELSE Closed
    BY <1>1, HandleIs DEF Typed
  <2>2. ~data'[p].transitioning
    BY <1>1 DEF Typed, Instances, PanelOK
  <2>3. ~IsOpen(p) /\ (IsOpen(p)' <=> Shows(pending[p]))
    BY <1>1, <2>1, Classes, OpenIs DEF PanelOK, IsOpen
  <2> QED  BY <1>1, <2>1, <2>2, <2>3, EmptyHandlers, Classes DEF PanelOK
<1> QED  BY <1>2, <1>3, <1>4

\* What show leaves of the panel that is opened, of one that is hidden for it, and of the
\* others.
Before(p, q) == IF q \in Dropped(p) THEN Unstored(pending[q]) ELSE pending[q]
Kept(p, q) == q \notin Dropped(p) \/ (q = p /\ ~data[p].exists)
Looked(p) == Adjusted(p) \cup {q \in Actives(p) : ~data[q].exists}

LEMMA ShowOpens ==
    ASSUME NEW p \in Panels, NEW prevented, Show(p, prevented)
    PROVE  /\ data'[p] = IF Kept(p, p) THEN Work(Own(p)) ELSE NoData
           /\ classes'[p] = Begin("show")
           /\ expanded'[p] /\ ~misread'[p]
           /\ pending'[p] = IF Supported
                            THEN Append(Before(p, p), [kind |-> "show", stored |-> Kept(p, p)])
                            ELSE pending[p]
<1>1. /\ data'[p] = IF Kept(p, p) THEN Work(Own(p)) ELSE NoData
      /\ classes'[p] = Begin("show") /\ expanded'[p] /\ ~misread'[p]
  BY DEF Show, Kept
<1>2. pending'[p] = IF Supported
                    THEN Append(Before(p, p), [kind |-> "show", stored |-> Kept(p, p)])
                    ELSE pending[p]
  BY DEF Show, Kept, Before
<1> QED  BY <1>1, <1>2

LEMMA ShowHides ==
    ASSUME NEW p \in Panels, NEW prevented, Show(p, prevented),
           NEW q \in Hidden(p, prevented), q \in Panels, q # p
    PROVE  /\ data'[q] = IF Kept(p, q) THEN AfterHide(q, TRUE) ELSE NoData
           /\ classes'[q] = Begin("hide")
           /\ ~expanded'[q] /\ ~misread'[q]
           /\ pending'[q] = IF Supported
                            THEN Append(Before(p, q), [kind |-> "hide", stored |-> Kept(p, q)])
                            ELSE pending[q]
<1>0. q \in Actives(p)
  BY DEF Hidden
<1>1. /\ data'[q] = IF Kept(p, q) THEN AfterHide(q, TRUE) ELSE NoData
      /\ classes'[q] = Begin("hide") /\ ~expanded'[q] /\ ~misread'[q]
  <2>1. (q \in Hidden(p, prevented)) = TRUE
    OBVIOUS
  <2> QED  BY <1>0, <2>1 DEF Show, Kept
<1>2. pending'[q] = IF Supported
                    THEN Append(Before(p, q), [kind |-> "hide", stored |-> Kept(p, q)])
                    ELSE pending[q]
  <2>1. Kept(p, q) = (q \notin Dropped(p))
    BY DEF Kept
  <2> QED  BY <2>1 DEF Show, Kept, Before
<1> QED  BY <1>1, <1>2

LEMMA ShowLeaves ==
    ASSUME NEW p \in Panels, NEW prevented, Show(p, prevented),
           NEW q \in Panels, q # p, q \notin Hidden(p, prevented)
    PROVE  /\ data'[q] = IF ~Kept(p, q) THEN NoData
                         ELSE IF q \in Actives(p) THEN AfterHide(q, FALSE) ELSE data[q]
           /\ classes'[q] = classes[q]
           /\ expanded'[q] = Announced(Looked(p))[q] /\ misread'[q] = Misread(Looked(p))[q]
           /\ pending'[q] = IF Supported THEN Before(p, q) ELSE pending[q]
<1>1. /\ data'[q] = IF ~Kept(p, q) THEN NoData
                    ELSE IF q \in Actives(p) THEN AfterHide(q, FALSE) ELSE data[q]
      /\ classes'[q] = classes[q]
  <2>1. (q \in Hidden(p, prevented)) = FALSE
    OBVIOUS
  <2> QED  BY <2>1 DEF Show, Kept
<1>2. expanded'[q] = Announced(Looked(p))[q]
  BY DEF Show, Looked
<1>3. misread'[q] = Misread(Looked(p))[q]
  <2>1. Misread(Looked(p))[q] \in BOOLEAN
    BY DEF Misread
  <2> QED  BY <2>1 DEF Show, Looked
<1>4. pending'[q] = IF Supported THEN Before(p, q) ELSE pending[q]
  BY DEF Show, Before
<1> QED  BY <1>1, <1>2, <1>3, <1>4

LEMMA BeforeIs ==
    ASSUME Typed, NEW p \in Panels, NEW q \in Panels
    PROVE  /\ Before(p, q) \in Seq(Handlers)
           /\ Before(p, q) = << >> <=> pending[q] = << >>
           /\ Shows(Before(p, q)) <=> Shows(pending[q])
           /\ Stored(Before(p, q)) <=> q \notin Dropped(p) /\ Stored(pending[q])
<1>1. pending[q] \in Seq(Handlers)
  BY DEF Typed
<1> QED  BY <1>1, UnstoredHandlers DEF Before

\* A handler that is bound behind those that wait already.
LEMMA BoundIs ==
    ASSUME NEW s \in Seq(Handlers), NEW kind \in {"show", "hide"}, NEW stored \in BOOLEAN
    PROVE  LET t == Append(s, [kind |-> kind, stored |-> stored])
           IN  /\ t \in Seq(Handlers) /\ t # << >>
               /\ Shows(t) <=> Shows(s) \/ kind = "show"
               /\ Stored(t) <=> Stored(s) \/ stored
<1>1. ASSUME NEW h \in Handlers, h.kind = kind, h.stored = stored
      PROVE  /\ Append(s, h) \in Seq(Handlers) /\ Append(s, h) # << >>
             /\ Shows(Append(s, h)) <=> Shows(s) \/ kind = "show"
             /\ Stored(Append(s, h)) <=> Stored(s) \/ stored
  BY <1>1, AppendHandler
<1>2. [kind |-> kind, stored |-> stored] \in Handlers
  BY DEF Handlers
<1> QED  BY <1>1, <1>2

LEMMA AfterHideIs ==
    ASSUME Typed, NEW q \in Panels, PanelOK(q), NEW hides \in BOOLEAN
    PROVE  /\ AfterHide(q, hides) \in Instances /\ AfterHide(q, hides).exists
           /\ hides => (AfterHide(q, hides).transitioning <=> Supported)
           /\ ~hides => (AfterHide(q, hides).transitioning <=> data[q].transitioning)
<1>1. data[q] \in Instances /\ Supported \in BOOLEAN
  BY DEF Typed, Supported
<1> QED  BY <1>1 DEF AfterHide, Instance, Instances, Work, PanelOK

LEMMA NoDataIs == NoData \in Instances /\ ~NoData.transitioning
BY DEF NoData, Instances

LEMMA ShowOpensKeeps ==
    ASSUME PanelsInv, NEW p \in Panels, NEW prevented, ~IsOpen(p), Show(p, prevented),
           UNCHANGED support
    PROVE  /\ data'[p] \in Instances /\ classes'[p] \in {Closed, Moving, Open}
           /\ pending'[p] \in Seq(Handlers)
           /\ PanelOK(p)'
<1> USE DEF PanelsInv
<1>1. Supported <=> Supported'
  BY DEF Supported
<1>2. Kept(p, p) \in BOOLEAN /\ (p \notin Dropped(p) => Kept(p, p))
  BY DEF Kept
<1>3. /\ data'[p] \in Instances
      /\ data'[p].transitioning <=> Supported /\ Kept(p, p)
      /\ data'[p].transitioning => data'[p].exists
  BY <1>2, ShowOpens, OwnIs, NoDataIs
<1>4. expanded'[p] /\ ~misread'[p] /\ classes'[p] = Begin("show")
  BY ShowOpens
<1>5. CASE Supported
  <2>1. pending'[p] = Append(Before(p, p), [kind |-> "show", stored |-> Kept(p, p)])
    BY <1>5, ShowOpens
  <2>2. /\ pending'[p] \in Seq(Handlers) /\ pending'[p] # << >>
        /\ Shows(pending'[p])
        /\ Stored(pending'[p]) <=> Kept(p, p)
    BY <1>2, <2>1, BoundIs, BeforeIs
  <2>3. classes'[p] = Moving
    BY <1>4, <1>5, HandleIs
  <2> QED  BY <1>1, <1>3, <1>4, <1>5, <2>2, <2>3 DEF PanelOK
<1>6. CASE ~Supported
  <2>1. pending'[p] = << >> /\ pending'[p] \in Seq(Handlers)
    BY <1>6, ShowOpens, EmptyHandlers DEF PanelOK
  <2>2. classes'[p] = Open /\ IsOpen(p)'
    BY <1>4, <1>6, HandleIs, Classes DEF IsOpen
  <2> QED  BY <1>1, <1>3, <1>4, <1>6, <2>1, <2>2, EmptyHandlers, Classes DEF PanelOK
<1> QED  BY <1>5, <1>6

LEMMA ShowHidesKeeps ==
    ASSUME PanelsInv, NEW p \in Panels, NEW prevented, Show(p, prevented), UNCHANGED support,
           NEW q \in Hidden(p, prevented), q \in Panels, q # p
    PROVE  /\ data'[q] \in Instances /\ classes'[q] \in {Closed, Moving, Open}
           /\ pending'[q] \in Seq(Handlers)
           /\ PanelOK(q)'
<1> USE DEF PanelsInv
<1>1. Supported <=> Supported'
  BY DEF Supported
<1>2. Kept(p, q) \in BOOLEAN
  BY DEF Kept
<1>3. /\ data'[q] \in Instances
      /\ data'[q].transitioning <=> Supported /\ Kept(p, q)
      /\ data'[q].transitioning => data'[q].exists
  BY <1>2, ShowHides, AfterHideIs, NoDataIs
<1>4. ~expanded'[q] /\ ~misread'[q] /\ classes'[q] = Begin("hide")
  BY ShowHides
<1>5. pending[q] = << >>
  BY OpenIs, Classes DEF Hidden, PanelOK
<1>6. CASE Supported
  <2>1. pending'[q] = Append(Before(p, q), [kind |-> "hide", stored |-> Kept(p, q)])
    BY <1>6, ShowHides
  <2>2. Before(p, q) \in Seq(Handlers) /\ ~Shows(Before(p, q)) /\ ~Stored(Before(p, q))
    BY <1>5, BeforeIs, EmptyHandlers
  <2>3. /\ pending'[q] \in Seq(Handlers) /\ pending'[q] # << >>
        /\ ~Shows(pending'[q])
        /\ Stored(pending'[q]) <=> Kept(p, q)
    BY <1>2, <2>1, <2>2, BoundIs
  <2>4. classes'[q] = Moving /\ ~IsOpen(q)'
    BY <1>4, <1>6, HandleIs, Classes DEF IsOpen
  <2> QED  BY <1>1, <1>3, <1>4, <1>6, <2>3, <2>4 DEF PanelOK
<1>7. CASE ~Supported
  <2>1. pending'[q] = << >> /\ pending'[q] \in Seq(Handlers)
    BY <1>5, <1>7, ShowHides, EmptyHandlers
  <2>2. classes'[q] = Closed /\ ~IsOpen(q)'
    BY <1>4, <1>7, HandleIs, Classes DEF IsOpen
  <2> QED  BY <1>1, <1>3, <1>4, <1>7, <2>1, <2>2, EmptyHandlers, Classes DEF PanelOK
<1> QED  BY <1>6, <1>7

LEMMA ShowLeavesKeeps ==
    ASSUME PanelsInv, NEW p \in Panels, NEW prevented, Show(p, prevented), UNCHANGED support,
           NEW q \in Panels, q # p, q \notin Hidden(p, prevented)
    PROVE  /\ data'[q] \in Instances /\ classes'[q] \in {Closed, Moving, Open}
           /\ pending'[q] \in Seq(Handlers)
           /\ PanelOK(q)'
<1> USE DEF PanelsInv
<1>1. Supported <=> Supported'
  BY DEF Supported
<1>2. Kept(p, q) <=> q \notin Dropped(p)
  BY DEF Kept
<1>3. /\ data'[q] \in Instances
      /\ data'[q].transitioning <=> Kept(p, q) /\ data[q].transitioning
      /\ data'[q].transitioning => data'[q].exists
  <2>1. data'[q] = IF ~Kept(p, q) THEN NoData
                   ELSE IF q \in Actives(p) THEN AfterHide(q, FALSE) ELSE data[q]
    BY ShowLeaves
  <2>2. /\ AfterHide(q, FALSE) \in Instances /\ AfterHide(q, FALSE).exists
        /\ AfterHide(q, FALSE).transitioning <=> data[q].transitioning
    BY AfterHideIs
  <2>3. data[q] \in Instances /\ (data[q].transitioning => data[q].exists)
    BY DEF Typed, PanelOK
  <2>4. CASE ~Kept(p, q)
    BY <2>1, <2>4, NoDataIs
  <2>5. CASE Kept(p, q) /\ q \in Actives(p)
    BY <2>1, <2>2, <2>5
  <2>6. CASE Kept(p, q) /\ q \notin Actives(p)
    BY <2>1, <2>3, <2>6
  <2> QED  BY <2>4, <2>5, <2>6
<1>4. classes'[q] = classes[q] /\ (IsOpen(q)' <=> IsOpen(q))
  BY ShowLeaves DEF IsOpen
<1>5. /\ pending'[q] \in Seq(Handlers)
      /\ pending'[q] = << >> <=> pending[q] = << >>
      /\ Shows(pending'[q]) <=> Shows(pending[q])
      /\ Stored(pending'[q]) <=> Kept(p, q) /\ Stored(pending[q])
  <2>1. CASE Supported
    <3>1. pending'[q] = Before(p, q)
      BY <2>1, ShowLeaves
    <3> QED  BY <1>2, <3>1, BeforeIs
  <2>2. CASE ~Supported
    BY <1>2, <2>2, ShowLeaves, EmptyHandlers DEF PanelOK
  <2> QED  BY <2>1, <2>2
<1>6. ~misread'[q] => (expanded'[q] <=> IsOpen(q) \/ Shows(pending[q]))
  <2>1. expanded'[q] = Announced(Looked(p))[q] /\ misread'[q] = Misread(Looked(p))[q]
    BY ShowLeaves
  <2>2. ~Misread(Looked(p))[q] => (Announced(Looked(p))[q] <=> IsOpen(q) \/ Shows(pending[q]))
    BY AnnouncedOrMisread
  <2> QED  BY <2>1, <2>2
<1> QED  BY <1>1, <1>3, <1>4, <1>5, <1>6 DEF PanelOK, Typed

LEMMA ShowKeeps ==
    ASSUME PanelsInv, NEW p \in Panels, NEW prevented, ~IsOpen(p), Show(p, prevented),
           UNCHANGED <<support, hasParent>>
    PROVE  PanelsInv'
<1>1. ASSUME NEW q \in Panels
      PROVE  /\ data'[q] \in Instances /\ classes'[q] \in {Closed, Moving, Open}
             /\ pending'[q] \in Seq(Handlers)
             /\ PanelOK(q)'
  <2>1. CASE q = p
    BY <2>1, ShowOpensKeeps
  <2>2. CASE q # p /\ q \in Hidden(p, prevented)
    BY <2>2, ShowHidesKeeps
  <2>3. CASE q # p /\ q \notin Hidden(p, prevented)
    BY <2>3, ShowLeavesKeeps
  <2> QED  BY <2>1, <2>2, <2>3
<1>2. data' \in [Panels -> Instances]
  <2>1. \E f : data' = [q \in Panels |-> f[q]]
    <3>1. data' = [q \in Panels |-> data'[q]]
      BY DEF Show
    <3> QED  BY <3>1
  <2> QED  BY <1>1, <2>1
<1>3. classes' \in [Panels -> {Closed, Moving, Open}]
  <2>1. classes' = [q \in Panels |-> classes'[q]]
    BY DEF Show
  <2> QED  BY <1>1, <2>1
<1>4. pending' \in [Panels -> Seq(Handlers)]
  <2>1. pending' = [q \in Panels |-> pending'[q]]
    BY DEF Show
  <2> QED  BY <1>1, <2>1
<1>5. expanded' \in [Panels -> BOOLEAN]
  <2>1. \A q \in Panels : Announced(Looked(p))[q] \in BOOLEAN
    BY AnnouncedOrMisread DEF PanelsInv
  <2> QED  BY <2>1 DEF Show, Looked
<1>6. misread' \in [Panels -> BOOLEAN]
  BY DEF Show
<1>7. hasParent' \in BOOLEAN /\ vetoed' \in BOOLEAN /\ confused' \in BOOLEAN
  BY DEF Show, PanelsInv, Typed
<1> QED  BY <1>1, <1>2, <1>3, <1>4, <1>5, <1>6, <1>7 DEF PanelsInv, Typed

LEMMA PanelsInductive == Spec => []PanelsInv
<1>1. Init => PanelsInv
  <2> SUFFICES ASSUME Init PROVE PanelsInv
    OBVIOUS
  <2>1. Typed
    <3>1. hasParent \in BOOLEAN /\ misread \in [Panels -> BOOLEAN] /\ ~vetoed /\ ~confused
      BY DEF Init
    <3>2. PICK opened \in SUBSET Panels :
            /\ classes = [p \in Panels |-> IF p \in opened THEN Open ELSE Closed]
            /\ expanded = [p \in Panels |-> p \in opened]
      BY DEF Init
    <3>3. classes \in [Panels -> {Closed, Moving, Open}]
      BY <3>2
    <3>4. expanded \in [Panels -> BOOLEAN]
      BY <3>2
    <3>5. vetoed \in BOOLEAN /\ confused \in BOOLEAN
      BY DEF Init
    <3>6. data \in [Panels -> Instances] /\ pending \in [Panels -> Seq(Handlers)]
      BY EmptyHandlers, ElementsAssumption, NoDataIs DEF Init, InitTransition
    <3> QED  BY <3>1, <3>3, <3>4, <3>5, <3>6 DEF Typed
  <2>2. ASSUME NEW p \in Panels PROVE PanelOK(p)
    <3>1. pending[p] = << >> /\ data[p] = NoData
      BY ElementsAssumption DEF Init, InitTransition
    <3>2. classes[p] \in {Closed, Open} /\ (expanded[p] <=> classes[p] = Open)
      BY Classes DEF Init
    <3> QED  BY <2>1, <3>1, <3>2, Classes, EmptyHandlers, NoDataIs, OpenIs DEF PanelOK
  <2> QED  BY <2>1, <2>2 DEF PanelsInv
<1>2. ASSUME PanelsInv, [Next]_vars PROVE PanelsInv'
  <2> USE <1>2
  <2>1. ASSUME NEW p \in Panels, Click(p) PROVE PanelsInv'
    <3>1. UNCHANGED <<support, hasParent>>
      BY <2>1 DEF Click
    <3>2. PICK prevented \in SUBSET Panels : ToggleHides(p, prevented) \/ ToggleShows(p, prevented)
      BY <2>1 DEF Click
    <3> QED  BY <3>1, <3>2, StaysKeeps, HideKeeps, ShowKeeps DEF ToggleHides, ToggleShows
  <2>2. CASE Ready /\ UNCHANGED <<hasParent, classes, expanded, data, history>>
    <3>1. ~Supported
      BY <2>2 DEF Ready, Supported
    <3> QED  BY <2>2, <3>1 DEF Ready, history, PanelsInv, Typed, PanelOK, IsOpen
  <2>3. CASE UNCHANGED vars
    BY <2>3 DEF vars, transitionVars, history, PanelsInv, Typed, PanelOK, IsOpen, Supported
  <2> QED  BY <2>1, <2>2, <2>3, CompleteKeeps DEF Next
<1> QED  BY <1>1, <1>2, PTL DEF Spec

\* A panel at rest is announced as what it is, unless a constructor misread it, for every
\* number of panels and however many transitions of theirs are under way.
THEOREM PanelsAreAnnounced == Spec => []AnnouncedAsItIs
<1>1. PanelsInv => AnnouncedAsItIs
  <2> SUFFICES ASSUME PanelsInv, NEW p \in Panels, pending[p] = << >>, ~misread[p]
               PROVE  expanded[p] = IsOpen(p)
    BY DEF AnnouncedAsItIs
  <2>1. ~Shows(pending[p])
    BY EmptyHandlers
  <2>2. expanded[p] <=> IsOpen(p)
    BY <2>1 DEF PanelsInv, PanelOK
  <2>3. expanded[p] \in BOOLEAN /\ IsOpen(p) \in BOOLEAN
    BY DEF PanelsInv, Typed, IsOpen
  <2> QED  BY <2>2, <2>3
<1> QED  BY <1>1, PanelsInductive, PTL

-----------------------------------------------------------------------------
(* The panels of an accordion together.                                    *)

\* The order in which jQuery finds the panels has a first one.
Precedes == {ss \in Nat \X Nat : ss[1] < ss[2]}

LEMMA NumbersAreWellFounded == IsWellFoundedOn(Precedes, Nat)
BY NatLessThanWellFounded DEF OpToRel, Precedes

LEMMA FirstOf ==
    ASSUME NEW S, S \subseteq Nat, S # {}
    PROVE  \E q \in S : \A r \in S : q <= r
<1>1. PICK q \in S : \A r \in S : ~(<<r, q>> \in Precedes)
  BY NumbersAreWellFounded, WFMin
<1>2. ASSUME NEW r \in S, r < q PROVE FALSE
  <2>1. <<r, q>> \in Precedes
    BY <1>2 DEF Precedes
  <2> QED  BY <1>1, <2>1
<1> QED  BY <1>2

LEMMA ActivesDataIs ==
    ASSUME NEW p \in Panels, Actives(p) # {}
    PROVE  \E f \in Actives(p) : ActivesData(p) = data[f]
<1>1. Actives(p) \subseteq Nat
  BY NumPanelsAssumption DEF Actives, Panels
<1>2. \E q \in Actives(p) : \A r \in Actives(p) : q <= r
  BY <1>1, FirstOf
<1> QED  BY <1>2 DEF ActivesData

\* A panel is up when it is open or will be.
Up(p) == IsOpen(p) \/ Shows(pending[p])

\* The accordion has one panel up at most, and its instances know their parent.
Accordion ==
    hasParent /\ ~vetoed /\ ~confused =>
        /\ \A p, q \in Panels : Up(p) /\ Up(q) => p = q
        /\ \A p \in Panels : data[p].exists => data[p].parent

LEMMA UpIsActive ==
    ASSUME PanelsInv, NEW p \in Panels, Own(p).parent, NEW q \in Panels
    PROVE  /\ Up(q) => q \in Actives(p)
           /\ q \in Actives(p) /\ pending[q] = << >> => IsOpen(q)
BY EmptyHandlers DEF Actives, Up, PanelsInv, PanelOK

LEMMA StaysOrHides ==
    ASSUME PanelsInv, Accordion, NEW p \in Panels,
           Stays(p) \/ (IsOpen(p) /\ Hide(p)), UNCHANGED <<support, hasParent>>
    PROVE  Accordion'
<1> SUFFICES ASSUME hasParent, ~vetoed, ~confused
             PROVE  /\ \A q \in Panels : Up(q)' => Up(q)
                    /\ \A q \in Panels : data'[q].exists => data'[q].parent
  <2>1. vetoed' = vetoed /\ confused' = confused
    BY DEF Stays, Hide
  <2> QED  BY <2>1 DEF Accordion
<1>1. Own(p).parent
  BY DEF Accordion, Own, Instance
<1>2. ASSUME NEW q \in Panels PROVE data'[q].exists => data'[q].parent
  <2>1. \/ data' = [data EXCEPT ![p] = Own(p)]
        \/ data' = [data EXCEPT ![p] = Work(Own(p))]
    BY DEF Stays, Hide
  <2>2. Work(Own(p)).parent
    BY <1>1, OwnIs DEF Work, PanelsInv, Instances
  <2>3. data'[q] = data[q] \/ data'[q].parent
    BY <1>1, <2>1, <2>2 DEF PanelsInv, Typed
  <2> QED  BY <2>3 DEF Accordion
<1>3. ASSUME NEW q \in Panels PROVE Up(q)' => Up(q)
  <2>1. CASE q = p \/ Stays(p)
    BY <2>1 DEF Stays, Up, IsOpen
  <2>2. CASE q # p /\ Hide(p)
    <3>1. classes'[q] = classes[q] /\ pending'[q] = pending[q]
      BY <2>2 DEF Hide, Bound, PanelsInv, Typed
    <3> QED  BY <3>1 DEF Up, IsOpen
  <2> QED  BY <2>1, <2>2 DEF Up
<1> QED  BY <1>2, <1>3

LEMMA Completes ==
    ASSUME PanelsInv, Accordion, NEW p \in Panels, Complete(p)
    PROVE  Accordion'
<1> USE DEF PanelsInv
<1>1. /\ pending[p] # << >>
      /\ classes' = [classes EXCEPT ![p] = Finish(IF Shows(pending[p]) THEN "show" ELSE "hide")]
      /\ data' = data \/ data' = [data EXCEPT ![p].transitioning = FALSE]
      /\ pending' = [pending EXCEPT ![p] = << >>]
      /\ UNCHANGED <<hasParent, vetoed, confused>>
  BY DEF Complete, Ended, Shows, history
<1>2. ASSUME NEW q \in Panels PROVE Up(q)' => Up(q)
  <2>1. CASE q = p
    <3>1. pending'[p] = << >> /\ classes'[p] = IF Shows(pending[p]) THEN Open ELSE Closed
      BY <1>1, HandleIs DEF Typed
    <3> QED  BY <2>1, <3>1, EmptyHandlers, Classes DEF Up, IsOpen
  <2>2. CASE q # p
    <3>1. classes'[q] = classes[q] /\ pending'[q] = pending[q]
      BY <1>1, <2>2 DEF Typed
    <3> QED  BY <3>1 DEF Up, IsOpen
  <2> QED  BY <2>1, <2>2
<1>3. ASSUME NEW q \in Panels
      PROVE  data'[q].exists = data[q].exists /\ data'[q].parent = data[q].parent
  <2>1. CASE data' = data
    BY <2>1
  <2>2. CASE data' = [data EXCEPT ![p].transitioning = FALSE]
    BY <2>2 DEF Typed, Instances
  <2> QED  BY <1>1, <2>1, <2>2
<1> QED  BY <1>1, <1>2, <1>3 DEF Accordion

LEMMA ShowIsAlone ==
    ASSUME PanelsInv, Accordion, NEW p \in Panels, NEW prevented \in SUBSET Panels, ~IsOpen(p),
           ~ActivesData(p).transitioning, Show(p, prevented), UNCHANGED <<support, hasParent>>
    PROVE  Accordion'
<1> SUFFICES ASSUME hasParent, ~vetoed', ~confused'
             PROVE  /\ \A q \in Panels : Up(q)' => q = p
                    /\ \A q \in Panels : data'[q].exists => data'[q].parent
  BY DEF Accordion
<1>1. /\ \A q, r \in Panels : Up(q) /\ Up(r) => q = r
      /\ \A q \in Panels : data[q].exists => data[q].parent
  <2>1. ~vetoed /\ ~confused
    BY DEF Show
  <2> QED  BY <2>1 DEF Accordion
<1>2. Own(p).parent
  BY <1>1 DEF Own, Instance
<1>3. \A q \in Actives(p) : q \in Panels
  BY DEF Actives
\* Of an active panel no instance was dropped, so that its instance knows how it moves.
<1>4. ASSUME NEW q \in Actives(p), ~data[q].transitioning
      PROVE  pending[q] = << >> /\ IsOpen(q) /\ Up(q)
  <2>1. \A i \in DOMAIN pending[q] : pending[q][i].stored
    BY DEF Show
  <2>2. ~Stored(pending[q])
    BY <1>3, <1>4 DEF PanelsInv, PanelOK
  <2>3. pending[q] \in Seq(Handlers)
    BY <1>3 DEF PanelsInv, Typed
  <2>4. DOMAIN pending[q] = {}
    BY <2>1, <2>2 DEF Stored
  <2>5. pending[q] = << >>
    <3>1. Len(pending[q]) \in Nat /\ DOMAIN pending[q] = 1 .. Len(pending[q])
      BY <2>3, LenProperties
    <3>2. Len(pending[q]) = 0
      <4>1. \A n \in Nat : 1 .. n = {} => n = 0
        <5>1. \A n \in Nat : n # 0 => 1 \in 1 .. n
          OBVIOUS
        <5> QED  BY <5>1
      <4> QED  BY <2>4, <3>1, <4>1
    <3> QED  BY <2>3, <3>2, EmptySeq
  <2> QED  BY <1>2, <1>3, <2>5, UpIsActive DEF Up
\* The one whose data are read is open, so that it is the only one that is up.
<1>5. ASSUME NEW q \in Actives(p), Up(q)
      PROVE  q = p \/ (IsOpen(q) /\ ~data[q].transitioning /\ ActivesData(p) = data[q])
  <2>1. PICK f \in Actives(p) : ActivesData(p) = data[f]
    BY ActivesDataIs
  <2>2. ~data[f].transitioning
    BY <2>1
  <2>3. IsOpen(f) /\ Up(f)
    BY <1>4, <2>2
  <2>4. f = q
    BY <1>1, <1>3, <1>5, <2>3
  <2> QED  BY <2>1, <2>2, <2>3, <2>4
<1>6. ASSUME NEW q \in Panels, q # p PROVE ~Up(q)'
  <2>1. CASE q \in Hidden(p, prevented)
    <3>1. q \in Actives(p) /\ ~data[q].transitioning
      BY <2>1 DEF Hidden
    <3>2. pending[q] = << >>
      BY <1>4, <3>1
    <3>3. classes'[q] = Begin("hide") /\ ~IsOpen(q)'
      BY <1>6, <2>1, ShowHides, HandleIs, Classes DEF IsOpen
    <3>4. ~Shows(pending'[q])
      <4>1. CASE Supported
        <5>1. pending'[q] = Append(Before(p, q), [kind |-> "hide", stored |-> Kept(p, q)])
          BY <1>6, <2>1, <4>1, ShowHides
        <5>2. Before(p, q) \in Seq(Handlers) /\ ~Shows(Before(p, q)) /\ Kept(p, q) \in BOOLEAN
          BY <3>2, BeforeIs, EmptyHandlers DEF PanelsInv, Kept
        <5> QED  BY <5>1, <5>2, BoundIs
      <4>2. CASE ~Supported
        <5>1. pending'[q] = pending[q]
          BY <1>6, <2>1, <4>2, ShowHides
        <5> QED  BY <3>2, <5>1, EmptyHandlers
      <4> QED  BY <4>1, <4>2
    <3> QED  BY <3>3, <3>4 DEF Up
  <2>2. CASE q \notin Hidden(p, prevented)
    <3>1. ~Up(q)
      <4>1. SUFFICES ASSUME Up(q) PROVE FALSE
        OBVIOUS
      <4>2. q \in Actives(p)
        BY <1>2, <4>1, UpIsActive
      <4>3. IsOpen(q) /\ ~data[q].transitioning
        BY <1>5, <1>6, <4>1, <4>2
      <4>4. q \in prevented
        BY <1>3, <2>2, <4>2, <4>3 DEF Hidden
      <4>5. vetoed'
        BY <4>2, <4>3, <4>4 DEF Show
      <4> QED  BY <4>5
    <3>2. classes'[q] = classes[q] /\ (IsOpen(q)' <=> IsOpen(q))
      BY <1>6, <2>2, ShowLeaves DEF IsOpen
    <3>3. Shows(pending'[q]) <=> Shows(pending[q])
      <4>1. pending'[q] = IF Supported THEN Before(p, q) ELSE pending[q]
        BY <1>6, <2>2, ShowLeaves
      <4> QED  BY <4>1, BeforeIs DEF PanelsInv
    <3> QED  BY <3>1, <3>2, <3>3 DEF Up
  <2> QED  BY <2>1, <2>2
<1>7. ASSUME NEW q \in Panels, data'[q].exists PROVE data'[q].parent
  <2>1. NoData.exists = FALSE
    BY DEF NoData
  <2>2. CASE q = p
    <3>1. data'[p] = Work(Own(p))
      BY <1>7, <2>1, <2>2, ShowOpens
    <3> QED  BY <1>2, <2>2, <3>1, OwnIs DEF Work, PanelsInv, Instances
  <2>3. CASE q # p /\ q \notin Actives(p)
    <3>1. q \notin Hidden(p, prevented) /\ Kept(p, q)
      BY <2>3 DEF Hidden, Kept, Dropped
    <3>2. data'[q] = data[q]
      BY <2>3, <3>1, ShowLeaves
    <3> QED  BY <1>1, <1>7, <3>2
  <2>4. CASE q # p /\ q \in Actives(p)
    <3>1. Kept(p, q)
      <4>1. CASE q \in Hidden(p, prevented)
        BY <1>7, <2>1, <2>4, <4>1, ShowHides
      <4>2. CASE q \notin Hidden(p, prevented)
        BY <1>7, <2>1, <2>4, <4>2, ShowLeaves
      <4> QED  BY <4>1, <4>2
    <3>2. ActivesData(p).exists
      BY <2>4, <3>1 DEF Kept, Dropped
    <3>3. data[q].exists
      <4>1. SUFFICES ASSUME ~data[q].exists PROVE FALSE
        OBVIOUS
      <4>2. ~data[q].transitioning
        BY <4>1 DEF PanelsInv, PanelOK
      <4>3. ActivesData(p) = data[q]
        BY <1>4, <1>5, <2>4, <4>2
      <4> QED  BY <3>2, <4>1, <4>3
    <3>4. \E hides \in BOOLEAN : data'[q] = AfterHide(q, hides)
      <4>1. CASE q \in Hidden(p, prevented)
        BY <2>4, <3>1, <4>1, ShowHides
      <4>2. CASE q \notin Hidden(p, prevented)
        BY <2>4, <3>1, <4>2, ShowLeaves
      <4> QED  BY <4>1, <4>2
    <3>5. data[q] \in Instances /\ data[q].parent
      BY <1>1, <3>3 DEF PanelsInv, Typed
    <3> QED  BY <3>3, <3>4, <3>5 DEF AfterHide, Work, Instances
  <2> QED  BY <2>2, <2>3, <2>4
<1> QED  BY <1>6, <1>7

LEMMA AccordionInductive == Spec => []Accordion
<1>1. Init => Accordion
  <2> SUFFICES ASSUME Init PROVE Accordion
    OBVIOUS
  <2>1. PICK opened \in SUBSET Panels :
          /\ \A p, q \in opened : p = q
          /\ classes = [p \in Panels |-> IF p \in opened THEN Open ELSE Closed]
    BY DEF Init
  <2>2. \A p \in Panels : pending[p] = << >> /\ data[p] = NoData
    BY ElementsAssumption DEF Init, InitTransition
  <2>3. ASSUME NEW p \in Panels, Up(p) PROVE p \in opened
    BY <2>1, <2>2, <2>3, EmptyHandlers, Classes DEF Up, IsOpen
  <2> QED  BY <2>1, <2>2, <2>3 DEF Accordion, NoData
<1>2. ASSUME PanelsInv, Accordion, [Next]_vars PROVE Accordion'
  <2> USE <1>2
  <2>1. ASSUME NEW p \in Panels, Click(p) PROVE Accordion'
    <3>1. UNCHANGED <<support, hasParent>>
      BY <2>1 DEF Click
    <3>2. PICK prevented \in SUBSET Panels : ToggleHides(p, prevented) \/ ToggleShows(p, prevented)
      BY <2>1 DEF Click
    <3> QED  BY <3>1, <3>2, StaysOrHides, ShowIsAlone DEF ToggleHides, ToggleShows
  <2>2. CASE Ready /\ UNCHANGED <<hasParent, classes, expanded, data, history>>
    BY <2>2 DEF Ready, history, Accordion, Up, IsOpen
  <2>3. CASE UNCHANGED vars
    BY <2>3 DEF vars, transitionVars, history, Accordion, Up, IsOpen
  <2> QED  BY <2>1, <2>2, <2>3, Completes DEF Next
<1> QED  BY <1>1, <1>2, PanelsInductive, PTL DEF Spec

\* Two panels of an accordion are never both open or opening, for every number of panels,
\* unless a listener or a dropped instance kept one from being closed.
THEOREM AccordionShowsOne == Spec => []OneOpenPanel
<1>1. Accordion => OneOpenPanel
  BY OpeningShows DEF Accordion, OneOpenPanel, Up
<1> QED  BY <1>1, AccordionInductive, PTL

=============================================================================
