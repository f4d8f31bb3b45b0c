------------------------- MODULE MCNConfiguration -------------------------
(* Small instances of NConfiguration for TLC.                                *)
EXTENDS NConfiguration, TLC

CONSTANTS short, long, other, t1, t2, t3

\* Two texts of one length and a longer one.
MCSize == (short :> 1) @@ (other :> 1) @@ (long :> 2)

\* Web threads are interchangeable; no temporal formula of the run tells them apart.
Symmetric == Permutations({t1, t2, t3})
=============================================================================
