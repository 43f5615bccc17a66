---------------------------- MODULE DepartmentsMC ----------------------------
(***************************************************************************)
(* Departments for TLC: neither the ids nor the pages differ from each     *)
(* other, and all that is checked is safety.                               *)
(***************************************************************************)
EXTENDS Departments, TLC

Alike == Permutations(Ids) \cup Permutations(Admins)
=============================================================================
