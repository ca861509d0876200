----------------------------- MODULE MCPortQueue ----------------------------
(* PortQueue for TLC: a request that can leave the queue for the socket and *)
(* one that ends with its second message.                                   *)
EXTENDS PortQueue
CONSTANTS r1, r2
Lengths == [r \in Reqs |-> IF r = r1 THEN 3 ELSE 2]
=============================================================================
