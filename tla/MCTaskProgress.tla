--------------------------- MODULE MCTaskProgress ---------------------------
(***************************************************************************)
(* Instances of TaskProgress for TLC.  People, rows and handlers are       *)
(* interchangeable: any person may own the task or review it.              *)
(***************************************************************************)
EXTENDS TaskProgress, TLC

Symmetry == Permutations(Person) \cup Permutations(Update) \cup Permutations(Handler)
=============================================================================
