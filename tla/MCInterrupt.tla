----------------------------- MODULE MCInterrupt ------------------------------
(* Small instances of Interrupt for TLC. *)
EXTENDS Interrupt, TLC

Symmetry == Permutations(IrqSources) \cup Permutations(NmiSources)
=============================================================================
