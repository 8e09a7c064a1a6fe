---------------------------- MODULE MCAccessList ----------------------------
(* Instances of AccessList: two managers, so that their loads may overlap. *)
EXTENDS AccessList, TLC

Symmetry == Permutations(Managers)
=============================================================================
