------------------------------- MODULE MCNncq -------------------------------
(* Nncq for TLC: three threads on a queue of two slots.                     *)
EXTENDS Nncq, TLC
CONSTANTS p1, p2, p3
Symm == Permutations({p1, p2, p3})
=============================================================================
