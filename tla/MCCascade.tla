----------------------------- MODULE MCCascade -----------------------------
(* Instances of Cascade. No client is told from another. *)
EXTENDS Cascade, TLC

Symmetry == Permutations(Clients)
=============================================================================
