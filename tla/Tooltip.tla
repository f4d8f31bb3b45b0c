------------------------------ MODULE Tooltip ------------------------------
(***************************************************************************)
(* The tooltip plugin of bootstrap.js (lines 1273 to 1776) and the popover *)
(* (lines 1795 to 1892), which is a tooltip with another content: a tip    *)
(* that is shown while the pointer is over its element, the element has    *)
(* the focus, or a click has asked for it.                                 *)
(*                                                                         *)
(* inState says who wants the tip; hoverState says where the tip is going  *)
(* ("in" or "out") until it has arrived.  What is to be done goes through  *)
(* a timeout, if there is a delay, and then through a transition, and the  *)
(* element may be entered and left meanwhile.  hide does not take back     *)
(* what show has bound to the tip's transition, nor show what hide has:    *)
(* all of it is run at the next end.                                       *)
(*                                                                         *)
(* The option selector (one instance that makes others) and the placement  *)
(* of the tip are left out.  Methods are functions from a tip to the tip   *)
(* they leave, as in Modal.                                                *)
(***************************************************************************)
EXTENDS Integers, Sequences

CONSTANTS
    MaxEvents,      \* bound, a number: events and calls in a run
    MaxPending      \* bound, a number: handlers bound to the tip

Triggers == {"click", "hover", "focus"}
Elements == {"tip"}

VARIABLES
    support,     \* $.support.transition, of Transition
    options,     \* of the instance
    tip,         \* the instance and its tip, see Init
    events,      \* events and calls so far
    \* History, read by the properties only:
    scripted,    \* a script has called show, hide or toggle
    vetoed,      \* a listener has prevented a hide
    refused,     \* a show came to nothing: prevented, or the tooltip was disabled
    crossed,     \* the element was entered while a hide was at work
    disturbed    \* something happened to a tooltip that was being destroyed

history == <<scripted, vetoed, refused, crossed, disturbed>>
vars == <<support, options, tip, events, history>>

T == INSTANCE Transition WITH pending <- tip.pending

Options == [trigger : SUBSET Triggers, delayShow : BOOLEAN, delayHide : BOOLEAN, animation : BOOLEAN]

Init ==
    /\ support = "undefined"
    /\ options \in Options
    /\ tip = [
        alive |-> TRUE,              \* not destroyed
        enabled |-> TRUE,
        inState |-> {},
        hoverState |-> "none",
        timeout |-> "none",          \* the timeout that is set: "show" or "hide"
        inDom |-> FALSE,
        in |-> FALSE,                \* the tip has the class "in"
        fade |-> FALSE,              \* and the class "fade"
        described |-> FALSE,         \* the element has aria-describedby
        failed |-> FALSE,            \* a callback has met $element = null
        pending |-> [el \in Elements |-> << >>]]
    /\ events = 0
    /\ scripted = FALSE
    /\ vetoed = FALSE
    /\ refused = FALSE
    /\ crossed = FALSE
    /\ disturbed = FALSE

-----------------------------------------------------------------------------
(* The methods.  prevented is the set of events, of "show" and "hide", that *)
(* a listener prevents.                                                     *)

Failed(t) == [t EXCEPT !.failed = TRUE]
Wait(t, handler) == [t EXCEPT !.pending = T!Bound(@, "tip", handler)]
Animated(t) == T!Supported /\ t.fade

\* The callback of destroy: handlers, data and tip are given up.
Destroyed(t) ==
    IF t.alive THEN [t EXCEPT !.alive = FALSE, !.inDom = FALSE, !.in = FALSE] ELSE Failed(t)

\* complete of hide: a tip that is on its way in stays in the document.
HideComplete(t, handler) ==
    LET hidden == [t EXCEPT !.inDom = @ /\ t.hoverState = "in", !.described = @ /\ ~t.alive]
    IN  IF handler = "destroyed" THEN Destroyed(hidden) ELSE hidden

Hide(t, handler, prevented) ==
    LET out == [t EXCEPT !.in = FALSE]
        left == IF Animated(out) THEN Wait(out, handler) ELSE HideComplete(out, handler)
    IN  IF ~t.alive THEN Failed(t)
        ELSE IF "hide" \in prevented THEN t
        ELSE [left EXCEPT !.hoverState = "none"]

\* Faulty Leave: that someone else may want the tip is not looked at.
LeaveAnyway(t, prevented) ==
    LET left == [t EXCEPT !.timeout = "none", !.hoverState = "out"]
    IN  IF options.delayHide THEN [left EXCEPT !.timeout = "hide"] ELSE Hide(left, "hidden", prevented)

Leave(t, prevented) ==
    LET left == [t EXCEPT !.timeout = "none", !.hoverState = "out"]
    IN  IF t.inState # {} THEN t
        ELSE IF options.delayHide THEN [left EXCEPT !.timeout = "hide"]
        ELSE Hide(left, "hidden", prevented)

\* Faulty ShowComplete: that the element was left meanwhile is not looked at.
ShowCompleteForgets(t, prevented) ==
    IF ~t.alive THEN Failed(t) ELSE [t EXCEPT !.hoverState = "none"]

\* complete of show: the tip has arrived; if the element was left meanwhile, it goes.
ShowComplete(t, prevented) ==
    LET arrived == [t EXCEPT !.hoverState = "none"]
    IN  IF ~t.alive THEN Failed(t)
        ELSE IF t.hoverState = "out" THEN Leave(arrived, prevented) ELSE arrived

Show(t, prevented) ==
    LET shown == [t EXCEPT !.inDom = TRUE, !.in = TRUE, !.fade = options.animation, !.described = TRUE]
    IN  IF ~t.alive THEN Failed(t)
        ELSE IF ~t.enabled \/ "show" \in prevented THEN t
        ELSE IF Animated(shown) THEN Wait(shown, "shown")
        ELSE ShowComplete(shown, prevented)

Enter(t, prevented) ==
    LET entered == [t EXCEPT !.hoverState = "in"]
        cleared == [entered EXCEPT !.timeout = "none"]
    IN  IF t.in \/ t.hoverState = "in" THEN entered
        ELSE IF options.delayShow THEN [cleared EXCEPT !.timeout = "show"]
        ELSE Show(cleared, prevented)

\* toggle, without an event: of the tip itself.
Toggle(t, prevented) == IF t.in THEN Leave(t, prevented) ELSE Enter(t, prevented)

\* Faulty Destroy: the element is given up at once, and not when the tip is hidden.
DestroyAtOnce(t, prevented) == Destroyed(Hide([t EXCEPT !.timeout = "none"], "hidden", prevented))

\* destroy: the timeout is cleared, and the tip is hidden for the last time.
Destroy(t, prevented) == Hide([t EXCEPT !.timeout = "none"], "destroyed", prevented)

Run(t, handler, prevented) ==
    IF handler = "shown" THEN ShowComplete(t, prevented) ELSE HideComplete(t, handler)

\* All that is bound to an end, in order.
RunAll(t, handlers, prevented) ==
    LET step[i \in 0 .. Len(handlers)] ==
            IF i = 0 THEN t ELSE Run(step[i - 1], handlers[i], prevented)
    IN  step[Len(handlers)]

-----------------------------------------------------------------------------
(* What calls them.                                                        *)

Leaving == \E i \in DOMAIN tip.pending["tip"] : tip.pending["tip"][i] # "shown"
Dying == \E i \in DOMAIN tip.pending["tip"] : tip.pending["tip"][i] = "destroyed"

\* What the properties need to remember of a step.
Remember(prevented) ==
    /\ vetoed' = (vetoed \/ "hide" \in prevented)
    /\ refused' = (refused \/ "show" \in prevented \/ ~tip.enabled)
    /\ crossed' = (crossed \/ (Leaving /\ tip'.hoverState = "in"))

\* One event or call.
Does(next, prevented) ==
    /\ events < MaxEvents
    /\ tip.alive
    /\ Len(tip.pending["tip"]) < MaxPending
    /\ events' = events + 1
    /\ tip' = next
    /\ Remember(prevented)
    /\ disturbed' = (disturbed \/ Dying)
    /\ UNCHANGED <<support, options>>

\* The pointer or the focus comes (mouseenter, focusin).
Comes(trigger, prevented) ==
    /\ trigger \in options.trigger \ (tip.inState \cup {"click"})
    /\ Does(Enter([tip EXCEPT !.inState = @ \cup {trigger}], prevented), prevented)
    /\ UNCHANGED scripted

\* It goes (mouseleave, focusout).
Goes(trigger, prevented) ==
    /\ trigger \in tip.inState \ {"click"}
    /\ Does(Leave([tip EXCEPT !.inState = @ \ {trigger}], prevented), prevented)
    /\ UNCHANGED scripted

Click(prevented) ==
    LET clicked == [tip EXCEPT !.inState = IF "click" \in @ THEN @ \ {"click"} ELSE @ \cup {"click"}]
    IN
    /\ "click" \in options.trigger
    /\ Does(IF clicked.inState # {} THEN Enter(clicked, prevented) ELSE Leave(clicked, prevented), prevented)
    /\ UNCHANGED scripted

\* Calls of the plugin by a script.
CallShow(prevented) == Does(Show(tip, prevented), prevented) /\ scripted' = TRUE
CallHide(prevented) == Does(Hide(tip, "hidden", prevented), prevented) /\ scripted' = TRUE
CallToggle(prevented) == Does(Toggle(tip, prevented), prevented) /\ scripted' = TRUE
CallDestroy(prevented) == Does(Destroy(tip, prevented), prevented) /\ UNCHANGED scripted
ToggleEnabled == Does([tip EXCEPT !.enabled = ~@], {}) /\ UNCHANGED scripted

\* The timeout that was set with a delay.
Timeout(prevented) ==
    /\ tip.timeout # "none"
    /\ LET due == [tip EXCEPT !.timeout = "none"]
       IN  tip' = IF tip.timeout = "show" /\ tip.hoverState = "in" THEN Show(due, prevented)
                  ELSE IF tip.timeout = "hide" /\ tip.hoverState = "out" THEN Hide(due, "hidden", prevented)
                  ELSE due
    /\ Remember(prevented)
    /\ UNCHANGED <<support, options, events, scripted, disturbed>>

\* The end of the tip's transition.
End(prevented) ==
    /\ tip.pending["tip"] # << >>
    /\ tip' = RunAll([tip EXCEPT !.pending = T!Ended(@, "tip")], tip.pending["tip"], prevented)
    /\ Remember(prevented)
    /\ UNCHANGED <<support, options, events, scripted, disturbed>>

Prevented == SUBSET {"show", "hide"}

Next ==
    \/ UNCHANGED <<options, tip, events, history>> /\ T!Ready
    \/ ToggleEnabled
    \/ \E prevented \in Prevented :
        \/ \E trigger \in Triggers : Comes(trigger, prevented) \/ Goes(trigger, prevented)
        \/ Click(prevented)
        \/ CallShow(prevented) \/ CallHide(prevented) \/ CallToggle(prevented) \/ CallDestroy(prevented)
        \/ Timeout(prevented) \/ End(prevented)

Spec == Init /\ [][Next]_vars

-----------------------------------------------------------------------------
(* Properties.                                                             *)

AtRest == tip.pending["tip"] = << >> /\ tip.timeout = "none"
Unwanted == tip.inState = {} /\ ~scripted /\ ~vetoed

\* No tip is left behind: at rest, and wanted by no one, it is out of the document, however
\* the element was entered and left while it came and went, unless a listener kept it.
NoTipLeftBehind ==
    AtRest /\ tip.alive /\ Unwanted => ~tip.inDom /\ ~tip.in /\ ~tip.described

\* At rest, a tip that is wanted is shown, and the element is described by it, unless
\* a show came to nothing, or the element was entered while the tip was going: then
\* what hide had bound takes the tip, or its description, away again.
WantedIsShown ==
    AtRest /\ tip.alive /\ tip.inState # {} /\ ~scripted /\ ~refused /\ ~crossed /\ ~vetoed =>
        tip.inDom /\ tip.in /\ tip.described

\* No callback meets a tooltip that has been destroyed, unless something happened to it
\* while its last transition was on.
DestroyedIsQuiet == tip.failed => disturbed

=============================================================================
