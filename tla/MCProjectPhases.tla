--------------------------- MODULE MCProjectPhases ---------------------------
(***************************************************************************)
(* Instances of ProjectPhases for TLC.                                     *)
(***************************************************************************)
EXTENDS ProjectPhases, TLC

Symmetry == Permutations(Phase) \cup Permutations(Task) \cup Permutations(Milestone)
                \cup Permutations(Handler)
=============================================================================
