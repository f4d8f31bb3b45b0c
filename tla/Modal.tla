------------------------------- MODULE Modal -------------------------------
(***************************************************************************)
(* The modal plugin of bootstrap.js (lines 926 to 1255).  show makes a     *)
(* backdrop, and what there is left to do (the modal is displayed, takes   *)
(* the focus and keeps it) waits for the end of the backdrop's transition; *)
(* hide waits for the end of the modal's own, then for the backdrop's, and *)
(* only then gives the page its scrolling and its padding back.  Neither   *)
(* asks whether the other is still at work: isShown is set at once.        *)
(*                                                                         *)
(* One turn of the browser's loop runs these methods inside each other, so *)
(* they are written as functions from a page to the page they leave.       *)
(***************************************************************************)
EXTENDS Integers, FiniteSets, Sequences

CONSTANT MaxCalls    \* bound, a number: calls, clicks and keys in a run

\* Elements are numbered: the modal, its dialog, and the backdrops that may be made.
Element == 0
Dialog == -1
Backdrops == 1 .. MaxCalls + 1
Elements == {Element, Dialog} \cup Backdrops

VARIABLES
    support,     \* $.support.transition, of Transition
    options,     \* of the instance, and whether the modal has the class "fade"
    scrolls,     \* the page is longer than the window
    page,        \* the instance and what it has done to the page, see Init
    calls,       \* calls, clicks and keys so far
    \* History, read by the properties only:
    reopened,    \* show was called while a hide was at work
    hasty        \* hide was called before the modal of the latest show was displayed

vars == <<support, options, scrolls, page, calls, reopened, hasty>>

T == INSTANCE Transition WITH pending <- page.pending

Options == [backdrop : {"true", "static", "false"}, keyboard : BOOLEAN, fade : BOOLEAN]

Init ==
    /\ support = "undefined"
    /\ options \in Options
    /\ scrolls \in BOOLEAN
    /\ page = [
        isShown |-> FALSE,
        backdrop |-> 0,              \* this.$backdrop, or 0
        ignoreBackdropClick |-> FALSE,
        originalBodyPad |-> 0,
        backdrops |-> {},            \* the backdrops in the document
        visible |-> FALSE,           \* the modal is displayed
        in |-> FALSE,                \* and has the class "in"
        modalOpen |-> FALSE,         \* the body does not scroll
        bodyPad |-> 0,               \* scrollbar widths of padding on the body
        escape |-> FALSE,            \* the Escape key is listened to
        dismiss |-> FALSE,           \* so are the dismiss buttons and the mouse
        backdropClicks |-> 0,        \* handlers of a click beside the dialog
        focusin |-> FALSE,           \* the focus is called back into the modal
        onShow |-> FALSE,            \* the trigger waits for show,
        onHidden |-> FALSE,          \* and for hidden, to have the focus again
        pending |-> [el \in Elements |-> << >>]]
    /\ calls = 0
    /\ reopened = FALSE
    /\ hasty = FALSE

Animated == T!Supported /\ options.fade

\* Wait for the end of an element's transition, or go on at once.
Wait(p, el, handler) == [p EXCEPT !.pending = T!Bound(@, el, handler)]

-----------------------------------------------------------------------------
(* The methods.                                                            *)

\* The callback of show: display the modal, enforceFocus, wait for the dialog.
Display(p) ==
    LET shown == [p EXCEPT !.visible = TRUE, !.in = TRUE, !.focusin = TRUE]
    IN  IF Animated THEN Wait(shown, Dialog, "shown") ELSE shown

\* The callback of hideModal: the page scrolls again, as it was padded before, and
\* the hidden event gives the focus back.
Unlock(p) ==
    [p EXCEPT !.modalOpen = FALSE, !.bodyPad = p.originalBodyPad, !.onHidden = FALSE]

Callback(p, name) == IF name = "display" THEN Display(p) ELSE Unlock(p)

\* removeBackdrop, of whichever is this.$backdrop by now; its handlers go with it.
RemoveBackdrop(p) ==
    IF p.backdrop = 0 THEN p
    ELSE [p EXCEPT !.backdrop = 0, !.backdrops = @ \ {p.backdrop},
                   !.pending = T!Ended(@, p.backdrop)]

\* The first branch of backdrop: put a new one into the document, whatever became of
\* the last.
MakeBackdrop(p, name) ==
    LET new == CHOOSE b \in Backdrops \ p.backdrops : TRUE
        made == [p EXCEPT !.backdrop = new, !.backdrops = @ \cup {new}, !.backdropClicks = @ + 1]
    IN  IF Animated THEN Wait(made, new, name) ELSE Callback(made, name)

\* backdrop(callback)
Backdrop(p, name) ==
    IF p.isShown /\ options.backdrop # "false" THEN MakeBackdrop(p, name)
    ELSE IF ~p.isShown /\ p.backdrop # 0
    THEN IF Animated THEN Wait(p, p.backdrop, "remove") ELSE Callback(RemoveBackdrop(p), name)
    ELSE Callback(p, name)

HideModal(p) == Backdrop([p EXCEPT !.visible = FALSE], "unlock")

\* Faulty SetScrollbar: the padding is remembered when it is set.
SetScrollbarFirst(p) ==
    LET padded == IF scrolls /\ ~p.modalOpen THEN p.bodyPad + 1 ELSE p.bodyPad
    IN  [p EXCEPT !.originalBodyPad = padded, !.bodyPad = padded]

\* checkScrollbar and setScrollbar: a body that does not scroll has no scrollbar.
SetScrollbar(p) ==
    [p EXCEPT !.originalBodyPad = p.bodyPad,
              !.bodyPad = IF scrolls /\ ~p.modalOpen THEN @ + 1 ELSE @]

\* The show event comes first, and the trigger's listener hears it even if show goes
\* no further.
ShowEvent(p, prevented) ==
    [p EXCEPT !.onShow = FALSE, !.onHidden = @ \/ (p.onShow /\ ~prevented)]

\* Faulty Show: of a modal that is shown.
ShowTwice(p, prevented) ==
    LET heard == ShowEvent(p, prevented)
        opened == [SetScrollbar(heard) EXCEPT !.isShown = TRUE, !.modalOpen = TRUE,
                                              !.escape = options.keyboard, !.dismiss = TRUE]
    IN  IF prevented THEN heard ELSE Backdrop(opened, "display")

Show(p, prevented) ==
    LET heard == ShowEvent(p, prevented)
        opened == [SetScrollbar(heard) EXCEPT !.isShown = TRUE, !.modalOpen = TRUE,
                                              !.escape = options.keyboard, !.dismiss = TRUE]
    IN  IF p.isShown \/ prevented THEN heard ELSE Backdrop(opened, "display")

Hide(p, prevented) ==
    LET closed == [p EXCEPT !.isShown = FALSE, !.escape = FALSE, !.focusin = FALSE,
                            !.in = FALSE, !.dismiss = FALSE, !.backdropClicks = 0]
    IN  IF ~p.isShown \/ prevented THEN p
        ELSE IF Animated THEN Wait(closed, Element, "hideModal") ELSE HideModal(closed)

Toggle(p, prevented) == IF p.isShown THEN Hide(p, prevented) ELSE Show(p, prevented)

\* A handler is run.
Run(p, handler) ==
    CASE handler = "shown" -> p
      [] handler = "hideModal" -> HideModal(p)
      [] handler = "remove" -> Unlock(RemoveBackdrop(p))
      [] OTHER -> Callback(p, handler)

\* All of them, in order.
RunAll(p, handlers) ==
    LET step[i \in 0 .. Len(handlers)] ==
            IF i = 0 THEN p ELSE Run(step[i - 1], handlers[i])
    IN  step[Len(handlers)]

-----------------------------------------------------------------------------
(* What calls them.                                                        *)

Hiding == \E el \in Elements : \E i \in DOMAIN page.pending[el] :
    page.pending[el][i] \in {"hideModal", "remove", "unlock"}
Displaying == \E el \in Elements : \E i \in DOMAIN page.pending[el] :
    page.pending[el][i] = "display"

\* One call, with what the properties need to remember of it.
Does(next) ==
    /\ calls < MaxCalls
    /\ calls' = calls + 1
    /\ page' = next
    /\ reopened' = (reopened \/ (~page.isShown /\ next.isShown /\ Hiding))
    /\ hasty' = IF next.isShown /\ ~page.isShown THEN FALSE
                ELSE hasty \/ (page.isShown /\ ~next.isShown /\ Displaying)
    /\ UNCHANGED <<support, options, scrolls>>

\* A call of the plugin by a script.
Call == \E prevented \in BOOLEAN :
    Does(Show(page, prevented)) \/ Does(Hide(page, prevented)) \/ Does(Toggle(page, prevented))

\* A click on the trigger (data-toggle): it wants the focus back, and toggles.
ClickTrigger == \E prevented \in BOOLEAN :
    Does(Toggle([page EXCEPT !.onShow = TRUE], prevented))

\* A click on a dismiss button, and the Escape key.
ClickDismiss == page.visible /\ page.dismiss /\ \E prevented \in BOOLEAN : Does(Hide(page, prevented))
KeydownEscape == page.visible /\ page.escape /\ \E prevented \in BOOLEAN : Does(Hide(page, prevented))

\* The mouse goes down in the dialog and up beside it.
Drag == page.visible /\ page.dismiss /\ Does([page EXCEPT !.ignoreBackdropClick = TRUE])

\* A click beside the dialog: each handler that is bound is run; the one that finds
\* ignoreBackdropClick takes it back and does no more.
ClickBackdrop == \E prevented \in BOOLEAN :
    LET heeded == [page EXCEPT !.ignoreBackdropClick = FALSE]
        left == IF page.ignoreBackdropClick THEN page.backdropClicks - 1 ELSE page.backdropClicks
    IN
    /\ page.visible
    /\ page.backdropClicks > 0
    /\ Does(IF left = 0 \/ options.backdrop = "static" THEN heeded ELSE Hide(heeded, prevented))

\* The end of a transition of the modal, the dialog or a backdrop.
End(el) ==
    /\ page.pending[el] # << >>
    /\ page' = RunAll([page EXCEPT !.pending = T!Ended(@, el)], page.pending[el])
    /\ UNCHANGED <<support, options, scrolls, calls, reopened, hasty>>

Next ==
    \/ UNCHANGED <<options, scrolls, page, calls, reopened, hasty>> /\ T!Ready
    \/ Call \/ ClickTrigger \/ ClickDismiss \/ KeydownEscape \/ Drag \/ ClickBackdrop
    \/ \E el \in Elements : End(el)

Spec == Init /\ [][Next]_vars

-----------------------------------------------------------------------------
(* Properties.                                                             *)

AtRest == \A el \in Elements : page.pending[el] = << >>

\* A modal that is hidden, and at rest, leaves nothing behind: no backdrop lies over the
\* page, the page scrolls and has its own padding, and the trigger has the focus, unless
\* the modal was once shown again while it was being hidden; nor is it displayed, or calls
\* the focus back, unless it was hidden before it was displayed: then the callback of show
\* comes after hide has tidied up.
HiddenLeavesNothing ==
    AtRest /\ ~page.isShown /\ ~reopened =>
        /\ page.backdrops = {}
        /\ ~page.modalOpen
        /\ page.bodyPad = 0
        /\ ~page.onHidden
        /\ hasty \/ (~page.visible /\ ~page.in /\ ~page.focusin)

\* A modal that is shown, and at rest, is all there: with the backdrop asked for, one
\* handler for clicks beside it, and the page held still.
ShownIsWhole ==
    AtRest /\ page.isShown /\ ~reopened =>
        /\ page.visible /\ page.in /\ page.focusin /\ page.modalOpen /\ page.dismiss
        /\ page.escape = options.keyboard
        /\ Cardinality(page.backdrops) = page.backdropClicks
        /\ page.backdrops = (IF options.backdrop = "false" THEN {} ELSE {page.backdrop})

=============================================================================
