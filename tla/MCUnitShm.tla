------------------------------ MODULE MCUnitShm -----------------------------
(* UnitShm for TLC.                                                         *)
EXTENDS UnitShm, TLC
CONSTANTS x1, x2, e1, e2
Symm == Permutations({x1, x2}) \cup Permutations({e1, e2})
=============================================================================
