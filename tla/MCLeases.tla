------------------------------ MODULE MCLeases ------------------------------
(***************************************************************************)
(* Leases for TLC: works, sessions and leases may be exchanged freely.     *)
(***************************************************************************)
EXTENDS Leases, TLC

Symmetry == Permutations(Works) \cup Permutations(Sessions) \cup Permutations(LeaseIds)

=============================================================================
