------------------------------ MODULE MCLease ------------------------------
(* Instances of ProjectLease for TLC. *)
EXTENDS ProjectLease, TLC

MCSymmetry == Permutations(Macs)
=============================================================================
