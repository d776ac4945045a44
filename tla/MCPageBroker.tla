---------------------------- MODULE MCPageBroker ----------------------------
(* PageBroker for TLC: two wrappers the broker can open, one with two        *)
(* threads, and one it cannot.                                               *)
EXTENDS PageBroker

CONSTANTS p1, p2, p3, t1, t2, t3, t4

MCPids == {p1, p2, p3}
MCThreads == {t1, t2, t3, t4}
MCPidOf == [t \in MCThreads |-> CASE t \in {t1, t2} -> p1 [] t = t3 -> p2 [] t = t4 -> p3]
MCDenied == {p3}
MCNodes == {0}

=============================================================================
