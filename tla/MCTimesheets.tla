---------------------------- MODULE MCTimesheets ----------------------------
(***************************************************************************)
(* Instances of Timesheets for TLC: an engineer and a manager who may both *)
(* log time and review; two tasks of one project; one day of one week.     *)
(* Hours are counted in shifts, and DailyMax is a few of them.             *)
(***************************************************************************)
EXTENDS Timesheets, TLC

CONSTANTS eng, pm, t1, t2, p1, d1, w1

MCProjectOf == t1 :> p1 @@ t2 :> p1
MCWeekOf == d1 :> w1
MCScope == eng :> {} @@ pm :> {p1}

Symmetry == Permutations(Entry) \cup Permutations({t1, t2})
HandlerSymmetry == Symmetry \cup Permutations(Handler)
=============================================================================
