-------------------------- MODULE MCCommandDelivery --------------------------
(* Small instances of CommandDelivery for TLC.                             *)
EXTENDS CommandDelivery

CONSTANTS f1, f2, o1, t1, t2

\* One web request that sends two files, and one that sends an operation.
MCCallsOf == [t \in WebThreads |-> IF t = t1 THEN <<f1, f2>> ELSE <<o1>>]

=============================================================================
