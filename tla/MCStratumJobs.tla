---------------------------- MODULE MCStratumJobs ----------------------------
(* StratumJobs for TLC: a byte of two values and two extranonces, so that   *)
(* both wrap.                                                               *)
EXTENDS StratumJobs

MCMachines == 1..3
MCJobIds == {"a", "b"}
MCOneTime == {"t1"}

=============================================================================
