----------------------------- MODULE MCTwinHub -----------------------------
(***************************************************************************)
(* Instances of TwinHub for TLC. Connections are interchangeable, so the   *)
(* safety run takes them up to permutation.                                *)
(***************************************************************************)
EXTENDS TwinHub, TLC

ClientSymmetry == Permutations(Clients)
=============================================================================
