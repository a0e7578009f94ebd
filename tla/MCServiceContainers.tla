-------------------------- MODULE MCServiceContainers --------------------------
(* ServiceContainers for TLC: every operation, requests alike. *)
EXTENDS ServiceContainers, TLC

MCKinds == Ops
MCSymmetry == Permutations(Slots)
============================================================================
