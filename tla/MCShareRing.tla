----------------------------- MODULE MCShareRing -----------------------------
(* ShareRing for TLC: two threads in the first wrapper, one in the second,  *)
(* as Startup lays them out when every processor mines.                     *)
EXTENDS ShareRing

CONSTANTS t1, t2, t3

MCThreads == {t1, t2, t3}
MCWrappers == {0, 1}
MCWrapperOf == [t \in MCThreads |-> IF t = t3 THEN 1 ELSE 0]

=============================================================================
