--------------------------- MODULE MCStratumProxy ---------------------------
(* StratumProxy for TLC: two settings that open a connection, one that does not. *)
EXTENDS StratumProxy

CONSTANTS user, dev, bad

MCWorkers == 1..3
MCClients == 1..4
MCPoolInfos == {user, dev, bad}
MCBadPoolInfos == {bad}

\* Keys have one order, and Distributions describes the outcome of the loop, and
\* only that one.
ASSUME DistributionsIsTheLoop ==
    \A n \in 0..3, ps \in SUBSET (1..3), cnt \in [1..3 -> 0..MaxWorkersCount] :
        /\ Cardinality(InKeyOrder(ps)) = 1
        /\ \A order \in InKeyOrder(ps) :
            Distributions(n, ps, cnt) = {Offers(order, n, cnt)[n + Len(order)].to}

=============================================================================
