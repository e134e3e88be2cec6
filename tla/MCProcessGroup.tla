--------------------------- MODULE MCProcessGroup ---------------------------
(* Instances of ProcessGroup for TLC. *)
EXTENDS ProcessGroup, TLC

CONSTANTS p1, p2, g1, g2, timer, signal, second, abort, none

Symmetric == Permutations({p1, p2})
=============================================================================
