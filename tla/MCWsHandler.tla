----------------------------- MODULE MCWsHandler -----------------------------
(* Small instances of WsHandler for TLC.                                   *)
EXTENDS WsHandler, TLC

CONSTANTS s1, s2, p1, p2

\* Two situations in a run, each with less to come than the constants allow: two publishers
\* and one console, the other having been and gone; or two consoles and one publication,
\* the others having been made when no console was there.
Situations == {
    [gone |-> {s2}, past |-> p1 :> 0 @@ p2 :> 0],
    [gone |-> {}, past |-> p1 :> MaxPublishes - 1 @@ p2 :> MaxPublishes]}

MCInit ==
    /\ \E at \in Situations :
        /\ stage = [s \in Sessions |-> IF s \in at.gone THEN "gone" ELSE "new"]
        /\ count = [t \in Threads |-> IF t \in Publishers THEN at.past[t]
                                      ELSE IF t \in at.gone THEN 1 ELSE 0]
        /\ pc = [t \in Threads |-> IF t \in Publishers /\ at.past[t] > 0
                                   THEN "returned" ELSE "idle"]
    /\ isOpen = [s \in Sessions |-> FALSE]
    /\ sessionSet = {}
    /\ seen = [t \in Threads |-> {}]
    /\ rest = [t \in Threads |-> {}]
    /\ stale = [t \in Threads |-> FALSE]
    /\ to = [t \in Threads |-> {}]
    /\ received = [s \in Sessions |-> [t \in Threads |-> << >>]]
    /\ members = [p \in Publishers |-> {}]
    /\ collided = [p \in Publishers |-> {}]
    /\ lossy = FALSE

MCSpec == MCInit /\ [][Next]_vars /\ Fairness

=============================================================================
