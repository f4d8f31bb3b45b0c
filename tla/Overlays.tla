------------------------------ MODULE Overlays ------------------------------
(***************************************************************************)
(* What lies over a page for a while: a modal (Modal) or a tooltip         *)
(* (Tooltip).  The two have nothing in common but the support of           *)
(* transitions: a page has the one or the other, and the variables of what *)
(* it does not have stay as they are.                                      *)
(***************************************************************************)
EXTENDS Integers

CONSTANTS MaxCalls, MaxEvents, MaxPending

ASSUME MaxCallsAssumption == MaxCalls \in Nat
ASSUME TooltipBoundsAssumption == MaxEvents \in Nat /\ MaxPending \in Nat

VARIABLES
    overlay,       \* what the page has: "modal" or "tooltip"
    transition,    \* $.support.transition, of Transition
    options,
    scrolls, page, calls, reopened, hasty,
    tip, events, scripted, vetoed, refused, crossed, disturbed

M == INSTANCE Modal WITH support <- transition
TT == INSTANCE Tooltip WITH support <- transition

modalVars == <<scrolls, page, calls, reopened, hasty>>
tooltipVars == <<tip, events, scripted, vetoed, refused, crossed, disturbed>>
overlaysVars == <<overlay, transition, options, modalVars, tooltipVars>>

NoModal ==
    /\ scrolls = FALSE
    /\ page = "none"
    /\ calls = 0
    /\ reopened = FALSE
    /\ hasty = FALSE

NoTooltip ==
    /\ tip = "none"
    /\ events = 0
    /\ scripted = FALSE
    /\ vetoed = FALSE
    /\ refused = FALSE
    /\ crossed = FALSE
    /\ disturbed = FALSE

InitOverlays ==
    \/ overlay = "modal" /\ M!Init /\ NoTooltip
    \/ overlay = "tooltip" /\ TT!Init /\ NoModal

NextOverlays ==
    \/ overlay = "modal" /\ M!Next /\ UNCHANGED <<overlay, tooltipVars>>
    \/ overlay = "tooltip" /\ TT!Next /\ UNCHANGED <<overlay, modalVars>>

SpecOverlays == InitOverlays /\ [][NextOverlays]_overlaysVars

\* What a modal leaves on the page when it is hidden (Modal).
HiddenLeavesNothing == overlay = "modal" => M!HiddenLeavesNothing

\* That a modal that is shown is all there (Modal).
ShownIsWhole == overlay = "modal" => M!ShownIsWhole

\* That no tip is left behind (Tooltip).
NoTipLeftBehind == overlay = "tooltip" => TT!NoTipLeftBehind

\* That a tip that is wanted is shown (Tooltip).
WantedIsShown == overlay = "tooltip" => TT!WantedIsShown

\* That a tooltip that was destroyed is left alone (Tooltip).
DestroyedIsQuiet == overlay = "tooltip" => TT!DestroyedIsQuiet

=============================================================================
