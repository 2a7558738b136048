--------------------------- MODULE MCTaskSchedule ---------------------------
(***************************************************************************)
(* Instances of TaskSchedule for TLC: three tasks of a project and days    *)
(* counted from 0.                                                         *)
(***************************************************************************)
EXTENDS TaskSchedule, TLC

On(s, e) == [start |-> {s}, end |-> {e}]
Undated == [start |-> {}, end |-> {}]

MCLinks ==
    {[type |-> "FS", lag |-> 0], [type |-> "SS", lag |-> 1],
     [type |-> "FF", lag |-> 0]}
MCStartLinks == {[type |-> "FS", lag |-> 0]}
MCSpans == {On(0, 1), Undated}
MCOneDay == {On(0, 0)}

Symmetry == Permutations(Task)
=============================================================================
