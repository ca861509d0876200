----------------------------- MODULE MCPortWrite ----------------------------
(* PortWrite for TLC.                                                       *)
EXTENDS PortWrite, TLC
CONSTANTS own, oth

\* The owner sends what may be cancelled behind a descriptor, while the other
\* engine wakes the peer and sends a message of two fragments; both send
\* descriptors, and the other engine rings.
Mixed == {own :> <<"fd", "plain">> @@ oth :> <<"wake", "big">>,
          own :> <<"wake", "fd">> @@ oth :> <<"fd", "doorbell">>}
=============================================================================
