---------------------------- MODULE MCListeners ----------------------------
(* Small instances of Listeners. *)
EXTENDS Listeners

Conf(addrs, threads) == [addrs |-> addrs, threads |-> threads]

\* One listener moves, a second one comes and goes, a thread too.
MCPlans == {Conf(<<1>>, 1), Conf(<<2>>, 1), Conf(<<>>, 1), Conf(<<1, 2>>, 1),
            Conf(<<1>>, 2)}

\* The behaviours up to the first damage to a queue in use.
Intact == ~mem.torn
=============================================================================
