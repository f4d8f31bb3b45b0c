---------------------- MODULE MCOperationServerHandler ----------------------
(* Small instances of OperationServerHandler for TLC.                      *)
EXTENDS OperationServerHandler, TLC

CONSTANTS c1, c2, l1, l2, a, b

\* One channel per loop, and both channels on one loop.
MCLoopOfTwo == c1 :> l1 @@ c2 :> l2
MCLoopOfOne == [c \in Channels |-> l1]

\* The empty name and one of two bytes: a partial read of the second leaves an offset
\* equal to, or beyond, the size of the first.
MCShortNames == {<< >>, <<b, b>>}

\* A name of one byte and one of six: a partial read of the long one leaves a rest that is
\* enough for a readInt or that is not.
MCLongNames == {<<b>>, <<a, a, b, a, b, b>>}

=============================================================================
