--------------------------- MODULE SessionRegistry ---------------------------
(***************************************************************************)
(* What the registry of agents promises to the consoles and to the web     *)
(* pages, whatever the protocol that fills it: an agent is registered and  *)
(* then announced, while it is connected; when its connection is over its  *)
(* entry is taken out, only its own, and then the consoles are told; and   *)
(* it does not come back.  There are two ways out of the promise.  An      *)
(* agent that joined twice may leave an entry behind.  And once the table  *)
(* that the event loops share has lost an update, nothing is promised.     *)
(***************************************************************************)
CONSTANT Agents    \* connections of agents

VARIABLES
    registered,    \* agents with an entry
    rejoined,      \* agents that joined more than once
    told,          \* agents of which the consoles have been told that they came
    leaving,       \* agents that have been taken out, or have never been in
    gone,          \* agents of whose leaving the consoles have been told
    lost           \* the table has lost an update

vars == <<registered, rejoined, told, leaving, gone, lost>>

Init ==
    /\ registered = {}
    /\ rejoined = {}
    /\ told = {}
    /\ leaving = {}
    /\ gone = {}
    /\ lost = FALSE

Join(a) ==
    /\ a \notin leaving
    /\ registered' = registered \cup {a}
    /\ rejoined' = rejoined \cup (registered \cap {a})
    /\ UNCHANGED <<told, leaving, gone>>

TellJoined(a) ==
    /\ a \in registered \ leaving
    /\ told' = told \cup {a}
    /\ UNCHANGED <<registered, rejoined, leaving, gone>>

Leave(a) ==
    /\ a \notin leaving
    /\ leaving' = leaving \cup {a}
    /\ \/ registered' = registered \ {a}
       \/ a \in rejoined /\ UNCHANGED registered
    /\ UNCHANGED <<rejoined, told, gone>>

\* The news may be lost, with an exception of the listener.
TellLeft(a) ==
    /\ a \in leaving \ gone
    /\ gone' = gone \cup {a}
    /\ told' \in {told, told \ {a}}
    /\ UNCHANGED <<registered, rejoined, leaving>>

Kept ==
    /\ ~lost'
    /\ \E a \in Agents : Join(a) \/ TellJoined(a) \/ Leave(a) \/ TellLeft(a)

Broken == lost'

Next == Kept \/ Broken

Spec == Init /\ [][Next]_vars

=============================================================================
