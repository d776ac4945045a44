----------------------------- MODULE MCMinerJobs -----------------------------
(* MinerJobs for TLC. *)
EXTENDS MinerJobs, TLC

CONSTANTS t1, t2

MCThreads == {t1, t2}
MCSymmetry == Permutations(MCThreads)

=============================================================================
