----------------------------- MODULE Transition -----------------------------
(***************************************************************************)
(* The transition support of bootstrap.js (lines 28 to 75), on which its   *)
(* plugins build: a plugin changes the classes of an element, binds what   *)
(* is to be done when the element's CSS transition is over with            *)
(* one('bsTransitionEnd', ...), and calls emulateTransitionEnd, whose      *)
(* timer triggers the event if the browser has not.                        *)
(*                                                                         *)
(* An end that reaches an element runs every handler bound to it.  It may  *)
(* be the browser's for this transition, the browser's for an earlier one  *)
(* (a second CSS property, or one whose timer was first), or the timer's.  *)
(* They differ in when they come and in nothing else: an element may see   *)
(* its end at any time after the handler was bound, and thanks to the      *)
(* timer it does see one.                                                  *)
(***************************************************************************)
EXTENDS Sequences

CONSTANT Elements    \* elements whose transitions are waited for

VARIABLES
    support,    \* $.support.transition: "undefined", "event" or "false"
    pending     \* the handlers bound to an element's end, the oldest first

transitionVars == <<support, pending>>

\* transitionEnd: the name of the browser's event, or false for one without.
TransitionEnd == {"event", "false"}

\* The scripts run before the document is ready, and so may a click.
InitTransition ==
    /\ support = "undefined"
    /\ pending = [el \in Elements |-> << >>]

Supported == support = "event"

\* The document is ready.
Ready ==
    /\ support = "undefined"
    /\ support' \in TransitionEnd
    /\ UNCHANGED pending

\* one('bsTransitionEnd', handler) and emulateTransitionEnd on an element.
Bound(handlers, el, handler) == [handlers EXCEPT ![el] = Append(@, handler)]

\* The end has reached an element: its handlers are run, each once, and the
\* timers that were set for them find "called" to be true.
Ended(handlers, el) == [handlers EXCEPT ![el] = << >>]

=============================================================================
