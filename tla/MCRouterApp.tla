---------------------------- MODULE MCRouterApp ----------------------------
(* RouterApp on small instances.                                           *)
EXTENDS RouterApp, TLC

Symmetry == Permutations(Atts) \cup Permutations(Protos) \cup Permutations(Reqs)

=============================================================================
