-------------------------- MODULE MCMachineControl --------------------------
(* MachineControl for TLC: two choices of options, one of them too large. *)
EXTENDS MachineControl

CONSTANTS few, many, test

MCOptions == {few, many}
MCTooMany == {many}
MCNone == {}
MCLate == {"stale", "death"}
MCAllFaults == {"early", "stale", "death"}

=============================================================================
