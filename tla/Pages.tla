------------------------------- MODULE Pages -------------------------------
(***************************************************************************)
(* The dropdowns of a page, and what the console page (w.jsp with ws.js)   *)
(* makes of its own: the menu of notifications.  Its web socket, the peer  *)
(* of WsHandler, appends each message to the menu and shows how many there *)
(* are on a badge; opening the menu hides the badge, closing it empties    *)
(* the list.  A message that arrives while the menu is open sets the badge *)
(* all the same, and closing does not take it back.                        *)
(***************************************************************************)
EXTENDS Dropdown

CONSTANTS
    MaxItems,       \* entries of a menu on a page other than the console
    MaxMessages     \* bound: messages that a web socket delivers

ASSUME MaxItemsAssumption == MaxItems \in Nat
ASSUME MaxMessagesAssumption == MaxMessages \in Nat

VARIABLES
    console,     \* the page is the console
    phase,       \* of the page: "loading", "ready" or "loaded"
    socket,      \* the web socket: "none", "connecting", "open" or "closed"
    icon,        \* of the notifications: "none" or "active"
    badge,       \* whether it is shown,
    count,       \* and the number on it
    arrived,     \* messages so far
    late         \* history: the last message came while the menu was open

consoleVars == <<phase, socket, icon, badge, count, arrived, late>>
vars == <<pageVars, items, menuVars, console, consoleVars>>

\* The console's one dropdown.
Noti == 1

Init ==
    /\ console \in BOOLEAN
    /\ onPage = (IF console THEN {Noti} ELSE Toggles)
    /\ items = [t \in Toggles |-> IF console THEN 0 ELSE MaxItems]
    /\ InitDropdown
    /\ console => disabled = {}
    /\ phase = "loading"
    /\ socket = "none"
    /\ icon = "none"
    /\ badge = FALSE
    /\ count = 0
    /\ arrived = 0
    /\ late = FALSE

-----------------------------------------------------------------------------
(* The page.                                                               *)

\* ready: the listeners of show and hide are bound.
DocumentReady ==
    /\ phase = "loading"
    /\ phase' = "ready"
    /\ heard' = Nothing
    /\ UNCHANGED <<pageVars, items, open, expanded, backdrop, focus, kept, entered,
                   console, socket, icon, badge, count, arrived, late>>

\* load: init, on the console, makes the web socket; no one makes another.
Load ==
    /\ phase = "ready"
    /\ phase' = "loaded"
    /\ socket' = IF console THEN "connecting" ELSE "none"
    /\ heard' = Nothing
    /\ UNCHANGED <<pageVars, items, open, expanded, backdrop, focus, kept, entered,
                   console, icon, badge, count, arrived, late>>

\* onOpen throws before it sends anything: there is no textID in the page.
OnOpen ==
    /\ socket = "connecting"
    /\ socket' = "open"
    /\ heard' = Nothing
    /\ UNCHANGED <<pageVars, items, open, expanded, backdrop, focus, kept, entered,
                   console, phase, icon, badge, count, arrived, late>>

\* The connection fails or ends; onError does nothing and nothing listens to the close.
Disconnected ==
    /\ socket \in {"connecting", "open"}
    /\ socket' = "closed"
    /\ heard' = Nothing
    /\ UNCHANGED <<pageVars, items, open, expanded, backdrop, focus, kept, entered,
                   console, phase, icon, badge, count, arrived, late>>

\* informEvent: the message is appended to the menu, and the entries are counted.
InformEvent ==
    /\ icon' = "active"
    /\ items' = [items EXCEPT ![Noti] = @ + 1]
    /\ count' = items'[Noti]
    /\ badge' = TRUE
    /\ late' = (Noti \in open)

OnMessage ==
    /\ socket = "open"
    /\ arrived < MaxMessages
    /\ arrived' = arrived + 1
    /\ InformEvent
    /\ heard' = Nothing
    /\ UNCHANGED <<pageVars, open, expanded, backdrop, focus, kept, entered,
                   console, phase, socket>>

\* Faulty OnHide: the entries stay.
OnHideKeeps == UNCHANGED items

\* The listener of hide.
OnHide == items' = [items EXCEPT ![Noti] = 0]

\* The listener of show.
OnShow ==
    /\ icon' = "none"
    /\ badge' = FALSE
    /\ late' = FALSE

\* The console's listeners hear the events of the turn once they are bound.
Listeners ==
    /\ IF console /\ phase # "loading" /\ heard'.hide # {} THEN OnHide ELSE UNCHANGED items
    /\ IF console /\ phase # "loading" /\ heard'.show # {} THEN OnShow
       ELSE UNCHANGED <<icon, badge, late>>

\* A click or a key of the user.  No listener of the console prevents anything.
User ==
    /\ \E prevented \in SUBSET (IF console THEN {} ELSE open) : Turn(console, prevented)
    /\ Listeners
    /\ UNCHANGED <<pageVars, console, phase, socket, count, arrived>>

Next == DocumentReady \/ Load \/ OnOpen \/ Disconnected \/ OnMessage \/ User

Spec == Init /\ [][Next]_vars

-----------------------------------------------------------------------------
(* Properties.                                                             *)

\* What the user has not had in front of him is signalled: while the menu is closed and
\* has entries, the icon is the active one and the badge is shown; and the badge shows
\* their number, unless the last message came while the menu was open.
UnreadIsSignalled ==
    console /\ Noti \notin open =>
        /\ items[Noti] > 0 => icon = "active" /\ badge
        /\ badge => count = items[Noti] \/ late

=============================================================================
