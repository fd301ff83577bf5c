----------------------------- MODULE MCMachine -----------------------------
(***************************************************************************)
(* MachineControl for TLC: a week of two short days.                       *)
(***************************************************************************)
EXTENDS MachineControl

MCPlans == {[takesPart |-> p, on |-> 0, off |-> Grid] : p \in BOOLEAN}
=============================================================================
