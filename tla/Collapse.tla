------------------------------ MODULE Collapse ------------------------------
(***************************************************************************)
(* The collapse plugin of bootstrap.js (lines 548 to 749): panels that are *)
(* opened and closed by their triggers.  The panels of an accordion name   *)
(* their parent (data-parent on the triggers), and opening one closes the  *)
(* others; the navigation bar of the pages is a panel without a parent.    *)
(*                                                                         *)
(* An instance (the element's data 'bs.collapse') is made at the first     *)
(* click on a panel's trigger, or when another panel of the accordion is   *)
(* about to close this one.  In the second case show drops it again        *)
(* ("activesData || actives.data('bs.collapse', null)"), although it may   *)
(* be at work: its handler runs later all the same, and the next click     *)
(* makes another instance, which knows nothing of the transition.          *)
(***************************************************************************)
EXTENDS Integers, Transition

CONSTANTS
    NumPanels,    \* panels, numbered in the order of the document
    MaxPending    \* bound: handlers bound to one panel

Panels == 1 .. NumPanels

ASSUME NumPanelsAssumption == NumPanels \in Nat \ {0}
ASSUME MaxPendingAssumption == MaxPending \in Nat \ {0}
ASSUME ElementsAssumption == Elements = Panels

VARIABLES
    hasParent,    \* the triggers name a parent: the panels are an accordion
    classes,      \* which of "collapse", "collapsing", "in" a panel has
    expanded,     \* aria-expanded, and no "collapsed" on the trigger
    data,         \* a panel's instance, or NoData
    \* History, read by the properties only:
    misread,      \* a constructor took a panel that was opening for closed
    vetoed,       \* a listener prevented a hide that show had called for
    confused      \* a show met a panel that moved without its instance

history == <<misread, vetoed, confused>>
vars == <<transitionVars, hasParent, classes, expanded, data, history>>

NoData == [parent |-> FALSE, transitioning |-> FALSE, exists |-> FALSE]
Instance(parent) == [parent |-> parent, transitioning |-> FALSE, exists |-> TRUE]

Closed == {"collapse"}
Moving == {"collapsing"}
Open == {"collapse", "in"}

\* A page is delivered with at most one panel open and with the attributes
\* of the triggers in agreement.
Init ==
    /\ InitTransition
    /\ hasParent \in BOOLEAN
    /\ \E opened \in SUBSET Panels :
        /\ \A p, q \in opened : p = q
        /\ classes = [p \in Panels |-> IF p \in opened THEN Open ELSE Closed]
        /\ expanded = [p \in Panels |-> p \in opened]
    /\ data = [p \in Panels |-> NoData]
    /\ misread = [p \in Panels |-> FALSE]
    /\ vetoed = FALSE
    /\ confused = FALSE

-----------------------------------------------------------------------------
(* A click on the trigger of panel p: make an instance if there is none,   *)
(* and toggle.  A listener of the page may veto the hide or show of a      *)
(* panel (preventDefault); prevented is the set of panels it does so for.  *)

IsOpen(p) == "in" \in classes[p]

\* The instance that toggles.
Own(p) == IF data[p].exists THEN data[p] ELSE Instance(hasParent)

\* The panels to which a constructor applies addAriaAndCollapsedClass: those of
\* the whole accordion, or the panel's own.
Adjusted(p) == IF data[p].exists THEN {} ELSE IF hasParent THEN Panels ELSE {p}

\* addAriaAndCollapsedClass goes by the class "in", which a panel that is opening
\* does not have yet.
Announced(panels) == [q \in Panels |-> IF q \in panels THEN IsOpen(q) ELSE expanded[q]]

Misread(panels) ==
    [q \in Panels |-> misread[q] \/ (q \in panels /\ expanded[q] /\ ~IsOpen(q))]

\* What a transition leaves at its end, without transition support at once.
Finish(kind) == IF kind = "show" THEN Open ELSE Closed
Begin(kind) == IF Supported THEN Moving ELSE Finish(kind)
Work(inst) == [inst EXCEPT !.transitioning = Supported]
Handler(kind) == [kind |-> kind, stored |-> TRUE]

\* The click changes nothing but what the constructor does.
Stays(p) ==
    /\ data' = [data EXCEPT ![p] = Own(p)]
    /\ expanded' = Announced(Adjusted(p))
    /\ misread' = Misread(Adjusted(p))
    /\ UNCHANGED <<pending, classes, vetoed, confused>>

\* toggle -> hide, up to the event.
Hide(p) ==
    /\ data' = [data EXCEPT ![p] = Work(Own(p))]
    /\ classes' = [classes EXCEPT ![p] = Begin("hide")]
    /\ expanded' = [Announced(Adjusted(p)) EXCEPT ![p] = FALSE]
    /\ misread' = [Misread(Adjusted(p)) EXCEPT ![p] = FALSE]
    /\ pending' = IF Supported THEN Bound(pending, p, Handler("hide")) ELSE pending
    /\ UNCHANGED <<vetoed, confused>>

\* Faulty ToggleHides: the attributes are set before the listeners are asked.
ToggleHidesFirst(p, prevented) ==
    /\ IsOpen(p)
    /\ IF Own(p).transitioning \/ p \in prevented
       THEN /\ data' = [data EXCEPT ![p] = Own(p)]
            /\ expanded' = [Announced(Adjusted(p)) EXCEPT ![p] = FALSE]
            /\ misread' = Misread(Adjusted(p))
            /\ UNCHANGED <<pending, classes, vetoed, confused>>
       ELSE Hide(p)

ToggleHides(p, prevented) ==
    /\ IsOpen(p)
    /\ IF Own(p).transitioning \/ p \in prevented THEN Stays(p) ELSE Hide(p)

\* The other panels of the accordion that are open or on their way.
Actives(p) ==
    IF Own(p).parent THEN {q \in Panels : IsOpen(q) \/ classes[q] = Moving} ELSE {}

\* actives.data(...) reads the first element's data only.
ActivesData(p) ==
    IF Actives(p) = {} THEN NoData
    ELSE data[CHOOSE q \in Actives(p) : \A r \in Actives(p) : q <= r]

\* The panels that Plugin.call(actives, 'hide') closes.
Hidden(p, prevented) ==
    {q \in Actives(p) : IsOpen(q) /\ ~data[q].transitioning /\ q \notin prevented}

\* The panels whose instance show drops afterwards.
Dropped(p) == IF ActivesData(p).exists THEN {} ELSE Actives(p)

\* Plugin.call(actives, 'hide') makes the instance it needs, without a parent.
AfterHide(q, hides) ==
    LET inst == IF data[q].exists THEN data[q] ELSE Instance(FALSE)
    IN  IF hides THEN Work(inst) ELSE inst

\* An instance that was dropped still gets its end.
Unstored(handlers) == [i \in DOMAIN handlers |-> [handlers[i] EXCEPT !.stored = FALSE]]

\* toggle -> show: hide the actives, then open.
Show(p, prevented) ==
    LET hidden == Hidden(p, prevented)
        isNew == ~data[p].exists
        adjusted == Adjusted(p) \cup {q \in Actives(p) : ~data[q].exists}
    IN
    /\ data' = [q \in Panels |->
            IF q = p /\ (isNew \/ p \notin Dropped(p)) THEN Work(Own(p))
            ELSE IF q \in Dropped(p) THEN NoData
            ELSE IF q \in Actives(p) THEN AfterHide(q, q \in hidden)
            ELSE data[q]]
    /\ classes' = [q \in Panels |->
            IF q = p THEN Begin("show")
            ELSE IF q \in hidden THEN Begin("hide") ELSE classes[q]]
    /\ expanded' = [q \in Panels |->
            IF q = p THEN TRUE ELSE IF q \in hidden THEN FALSE ELSE Announced(adjusted)[q]]
    /\ misread' = [q \in Panels |-> Misread(adjusted)[q] /\ q # p /\ q \notin hidden]
    /\ pending' = [q \in Panels |->
            LET before == IF q \in Dropped(p) THEN Unstored(pending[q]) ELSE pending[q]
                stored == q \notin Dropped(p) \/ (q = p /\ isNew)
            IN  IF ~Supported THEN pending[q]
                ELSE IF q = p THEN Append(before, [kind |-> "show", stored |-> stored])
                ELSE IF q \in hidden THEN Append(before, [kind |-> "hide", stored |-> stored])
                ELSE before]
    /\ vetoed' = (vetoed \/ \E q \in Actives(p) \cap prevented : IsOpen(q) /\ ~data[q].transitioning)
    /\ confused' = (confused \/ \E q \in Actives(p) : \E i \in DOMAIN pending[q] : ~pending[q][i].stored)

\* Faulty ToggleShows: show does not look whether the actives are at work.
ToggleShowsBusy(p, prevented) ==
    /\ ~IsOpen(p)
    /\ IF Own(p).transitioning \/ p \in prevented THEN Stays(p) ELSE Show(p, prevented)

ToggleShows(p, prevented) ==
    /\ ~IsOpen(p)
    /\ IF Own(p).transitioning \/ ActivesData(p).transitioning \/ p \in prevented
       THEN Stays(p)
       ELSE Show(p, prevented)

Click(p) ==
    /\ Len(pending[p]) < MaxPending
    /\ \E prevented \in SUBSET Panels : ToggleHides(p, prevented) \/ ToggleShows(p, prevented)
    /\ UNCHANGED <<support, hasParent>>

-----------------------------------------------------------------------------
(* The end of a panel's transition runs the complete functions.            *)

\* Faulty Complete: the panel is left to its instance as it is.
CompleteOnly(p) ==
    /\ pending[p] # << >>
    /\ classes' = [classes EXCEPT ![p] =
            Finish(IF \E i \in DOMAIN pending[p] : pending[p][i].kind = "show" THEN "show" ELSE "hide")]
    /\ pending' = Ended(pending, p)
    /\ UNCHANGED <<support, hasParent, data, expanded, history>>

\* complete of hide removes nothing that complete of show adds, so that with both
\* bound the panel is open.
Complete(p) ==
    /\ pending[p] # << >>
    /\ classes' = [classes EXCEPT ![p] =
            Finish(IF \E i \in DOMAIN pending[p] : pending[p][i].kind = "show" THEN "show" ELSE "hide")]
    /\ data' = IF \E i \in DOMAIN pending[p] : pending[p][i].stored
               THEN [data EXCEPT ![p].transitioning = FALSE]
               ELSE data
    /\ pending' = Ended(pending, p)
    /\ UNCHANGED <<support, hasParent, expanded, history>>

Next ==
    \/ Ready /\ UNCHANGED <<hasParent, classes, expanded, data, history>>
    \/ \E p \in Panels : Click(p) \/ Complete(p)

Spec == Init /\ [][Next]_vars

\* emulateTransitionEnd sees to it that each transition comes to its end.
FairSpec == Spec /\ \A p \in Panels : WF_vars(Complete(p))

-----------------------------------------------------------------------------
(* Properties.                                                             *)

\* A panel at rest is announced as what it is: aria-expanded and the trigger's
\* class agree with "in", unless a constructor looked at the accordion while the
\* panel was opening and the panel has not moved since.
AnnouncedAsItIs ==
    \A p \in Panels : pending[p] = << >> /\ ~misread[p] => expanded[p] = IsOpen(p)

\* Of an accordion one panel at most is open or opening, however the clicks and the
\* ends of the transitions interleave, unless a listener kept a panel open, or
\* one was opened while a panel moved whose instance had been dropped.
Opening(p) == \E i \in DOMAIN pending[p] : pending[p][i].kind = "show"

OneOpenPanel ==
    hasParent /\ ~vetoed /\ ~confused =>
        \A p, q \in Panels : (IsOpen(p) \/ Opening(p)) /\ (IsOpen(q) \/ Opening(q)) => p = q

\* No trigger goes dead: an instance that ignores clicks because it is in a
\* transition will listen to them again.
TriggersComeBack == \A p \in Panels : data[p].transitioning ~> ~data[p].transitioning

=============================================================================
