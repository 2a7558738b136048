--------------------------- MODULE MCAllocations ---------------------------
(***************************************************************************)
(* Instances of Allocations for TLC.                                       *)
(***************************************************************************)
EXTENDS Allocations, TLC

Symmetry == Permutations(Row) \cup Permutations(Project) \cup Permutations(Person)
                \cup Permutations(Handler)
=============================================================================
