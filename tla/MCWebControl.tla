---------------------------- MODULE MCWebControl ----------------------------
(* WebControl for TLC: lists of two user pools, one refused, and developer  *)
(* lists that begin with a refused pool.                                    *)
EXTENDS WebControl

CONSTANTS first, second, bad, dev, badDev

MCWorkers == 1..1
MCClients == 1..3
MCPoolInfos == {first, second, bad, dev, badDev}
MCBadPoolInfos == {bad, badDev}
MCPoolLists == {<<>>, <<first, second>>, <<bad, first>>}
MCDevPoolLists == {<<dev>>, <<badDev, dev>>}

=============================================================================
