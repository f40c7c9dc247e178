------------------------------ MODULE MCForge ------------------------------
(* Instances of Forge for TLC.                                             *)
EXTENDS Forge, TLC

Symmetry == Permutations(Name) \cup Permutations(Serial)
              \cup Permutations(Address)
=============================================================================
