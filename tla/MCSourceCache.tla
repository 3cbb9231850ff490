--------------------------- MODULE MCSourceCache ---------------------------
(***************************************************************************)
(* Instances of SourceCache for TLC.                                       *)
(***************************************************************************)
EXTENDS SourceCache

CONSTANTS s1, s2, a1, a2, g1

\* One of them evaluates another commit, which an old mirror may lack.
TwoShas  == [a \in Attempts |-> IF a = a1 THEN s2 ELSE s1]
=============================================================================
