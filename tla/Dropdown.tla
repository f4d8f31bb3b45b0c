------------------------------ MODULE Dropdown ------------------------------
(***************************************************************************)
(* The dropdown plugin of bootstrap.js (lines 760 to 915): toggles whose   *)
(* menus are opened by a click or a key and closed by a click anywhere.    *)
(*                                                                         *)
(* Every handler is on the document.  Those delegated to a toggle run      *)
(* before clearMenus, which is on the document itself, and stop it by      *)
(* returning false; when toggle returns early, clearMenus still runs.      *)
(* clearMenus assigns the hide event to its parameter e, so that from the  *)
(* second open menu on it no longer sees what was clicked.                 *)
(***************************************************************************)
EXTENDS Integers

CONSTANTS
    NumToggles,     \* toggles, numbered in the order of the document
    Navbar          \* those in a .navbar-nav

Toggles == 1 .. NumToggles

ASSUME NumTogglesAssumption == NumToggles \in Nat \ {0}
ASSUME NavbarAssumption == Navbar \subseteq Toggles

VARIABLES
    onPage,      \* the toggles of the page
    touch,       \* the browser has touch events
    disabled,    \* toggles with the class "disabled"
    items,       \* how many entries each menu has
    open,        \* toggles whose parent has the class "open"
    expanded,    \* toggles with aria-expanded="true"
    backdrop,    \* there is a .dropdown-backdrop
    focus,       \* what has the focus: <<toggle, 0>>, <<toggle, entry>> or Nowhere
    heard,       \* the toggles for which this turn triggered show and hide
    \* History, read by the properties only:
    kept,        \* open menus whose hide a listener prevented
    entered      \* open menus that a click in their input has spared

pageVars == <<onPage, touch, disabled>>
menuVars == <<open, expanded, backdrop, focus, heard, kept, entered>>

Nowhere == <<0, 0>>
Nothing == [show |-> {}, hide |-> {}]
Keys == {"up", "down", "space", "esc"}

InitDropdown ==
    /\ touch \in BOOLEAN
    /\ disabled \in SUBSET onPage
    /\ open = {}
    /\ expanded = {}
    /\ backdrop = FALSE
    /\ focus = Nowhere
    /\ heard = Nothing
    /\ kept = {}
    /\ entered = {}

\* The menus of asked are asked to hide, which listeners prevent for some; and those of
\* opened are opened.
Leaves(asked, prevented, opened) ==
    LET closed == asked \ prevented IN
    /\ open' = (open \ closed) \cup opened
    /\ expanded' = (expanded \ closed) \cup opened
    /\ kept' = (kept \cup (asked \cap prevented)) \ (closed \cup opened)
    /\ entered' = (entered \cup (open \ asked)) \ (closed \cup opened)
    /\ heard' = [show |-> opened, hide |-> asked]

\* An entry that is no longer displayed loses the focus.
FocusStays == focus' = IF focus[2] > 0 /\ focus[1] \notin open' THEN Nowhere ELSE focus

\* clearMenus, whose click was not in an input.
ClearMenus(prevented) ==
    /\ Leaves(open, prevented, {})
    /\ backdrop' = FALSE

\* A click beside the menus, on an entry, on the backdrop, or on a disabled toggle, of
\* which toggle makes nothing.  (The right button changes nothing, nor does a click in
\* a form, which does not get to the document.)
ClickAway(prevented) == ClearMenus(prevented) /\ FocusStays

First(menus) == CHOOSE t \in menus : \A u \in menus : t <= u

\* A click in an input of an open menu: clearMenus spares it if it is the first open one.
ClickInput(t, prevented) ==
    /\ t \in open
    /\ IF t = First(open)
       THEN /\ Leaves(open \ {t}, prevented \ {t}, {})
            /\ backdrop' = FALSE
       ELSE ClearMenus(prevented)
    /\ focus' = Nowhere

\* Faulty Open: the other menus are left alone.
OpenBeside(t, prevented) ==
    /\ Leaves({}, {}, {t})
    /\ backdrop' = (touch /\ t \notin Navbar)
    /\ focus' = <<t, 0>>

\* toggle, of a menu that is not open: the others are hidden, this one shown.
Open(t, prevented) ==
    /\ Leaves(open, prevented, {t})
    /\ backdrop' = (touch /\ t \notin Navbar)
    /\ focus' = <<t, 0>>

\* A click on a toggle.
ClickOpenToggle(t, prevented) ==
    /\ t \in open \ disabled
    /\ ClearMenus(prevented)
    /\ FocusStays

ClickClosedToggle(t, prevented) ==
    /\ t \in onPage \ (open \cup disabled)
    /\ Open(t, prevented)

\* Faulty ShowPrevented: toggle returns false, so that clearMenus is not run again.
ShowPreventedStops(t, prevented) ==
    /\ t \in onPage \ (open \cup disabled)
    /\ Leaves(open, prevented, {})
    /\ backdrop' = (touch /\ t \notin Navbar)
    /\ FocusStays

\* show is prevented: toggle returns with its backdrop made, and clearMenus, run again
\* by the document, removes it.
ShowPrevented(t, prevented) ==
    /\ t \in onPage \ (open \cup disabled)
    /\ ClearMenus(prevented)
    /\ FocusStays

\* keydown: Escape on an open menu gives the focus to its toggle and clicks; another
\* key on a toggle whose menu is closed is a click on it (the actions above); on an open
\* one it moves the focus through the entries.
Escape(prevented) ==
    /\ focus[1] \in open \ disabled
    /\ ClearMenus(prevented)
    /\ focus' = <<focus[1], 0>>

\* The entry that a key leads to: the toggle is not among them, its index is -1.
Entry(key) ==
    LET n == items[focus[1]]
        i == focus[2]
    IN  CASE i = 0 -> 1
          [] key = "up" -> IF i > 1 THEN i - 1 ELSE 1
          [] key = "down" -> IF i < n THEN i + 1 ELSE n
          [] OTHER -> i

MoveFocus(key) ==
    /\ focus[1] \in open
    /\ items[focus[1]] > 0
    /\ key # "esc"
    /\ focus' = <<focus[1], Entry(key)>>
    /\ heard' = Nothing
    /\ UNCHANGED <<open, expanded, backdrop, kept, entered>>

\* The focus goes to a toggle, by a key of the browser's own.
Tab(t) ==
    /\ t \in onPage
    /\ focus' = <<t, 0>>
    /\ heard' = Nothing
    /\ UNCHANGED <<open, expanded, backdrop, kept, entered>>

\* One turn: a click or a key.  Plain menus have no inputs, and no listeners that prevent
\* something.
Turn(plain, prevented) ==
    \/ ClickAway(prevented) \/ Escape(prevented)
    \/ \E t \in onPage :
        \/ ClickOpenToggle(t, prevented) \/ ClickClosedToggle(t, prevented) \/ Tab(t)
        \/ ~plain /\ (ClickInput(t, prevented) \/ ShowPrevented(t, prevented))
    \/ \E key \in Keys : MoveFocus(key)

-----------------------------------------------------------------------------
(* Properties.                                                             *)

TypeOKDropdown ==
    /\ onPage \subseteq Toggles
    /\ touch \in BOOLEAN
    /\ disabled \subseteq onPage
    /\ open \subseteq onPage \ disabled
    /\ expanded = open
    /\ backdrop \in BOOLEAN
    /\ kept \subseteq open
    /\ entered \subseteq open

\* One menu is open at a time: whatever is clicked, and in whichever order, a second
\* one is open only if its hide was prevented.
OneMenu == \A t, u \in open \ kept : t = u

\* In a browser with touch events a backdrop catches the clicks beside a menu for just
\* as long as one is open outside the navbar; a menu that outlives a click (its hide was
\* prevented, or the click was in its input) has lost it.
BackdropWhileOpen == backdrop <=> touch /\ open \ (Navbar \cup kept \cup entered) # {}

=============================================================================
