------------------------- MODULE TimesheetLifecycle -------------------------
(***************************************************************************)
(* What the timesheet services promise, each operation in one step: the    *)
(* life of an entry from draft to approval.  An entry is changed by its    *)
(* owner only while it is a draft or was sent back, hours that have been   *)
(* submitted stay as they are until somebody else has decided on them, an  *)
(* approved entry is final, and nobody's day ever exceeds the daily        *)
(* maximum.                                                                *)
(***************************************************************************)
EXTENDS Integers, FiniteSets, FiniteSetsExt

CONSTANTS User, Task, Day, Entry, Hours, DailyMax

VARIABLES
    row,      \* the entries: free, deleted, or a row
    verdicts  \* who has decided on an entry and how

vars == <<row, verdicts>>

Live == {e \in Entry : row[e].status \in {"Draft", "Submitted", "Approved", "Rejected"}}

DayTotal(u, d) ==
    MapThenSumSet(LAMBDA e : row[e].hours,
                  {e \in Live : row[e].owner = u /\ row[e].day = d})

Init ==
    /\ row = [e \in Entry |-> [status |-> "free"]]
    /\ verdicts = [e \in Entry |-> {}]

WithinCap == \A u \in User, d \in Day : DayTotal(u, d)' <= DailyMax

Log(e, u, t, d, n) ==
    /\ row[e].status = "free"
    /\ \A f \in Live : <<row[f].owner, row[f].task, row[f].day>> # <<u, t, d>>
    /\ row' = [row EXCEPT ![e] = [status |-> "Draft", owner |-> u, task |-> t,
                                  day |-> d, hours |-> n]]
    /\ WithinCap
    /\ UNCHANGED verdicts

Revise(e, n) ==
    /\ row[e].status \in {"Draft", "Rejected"}
    /\ row' = [row EXCEPT ![e].hours = n, ![e].status = "Draft"]
    /\ WithinCap
    /\ UNCHANGED verdicts

Remove(e) ==
    /\ row[e].status = "Draft"
    /\ verdicts[e] = {}
    /\ row' = [row EXCEPT ![e] = [status |-> "deleted"]]
    /\ UNCHANGED verdicts

(* A submission or a decision is about entries of one owner.                *)
Advance(S, from, to) ==
    /\ S # {}
    /\ \A e, f \in S : row[e].owner = row[f].owner
    /\ \A e \in S : row[e].status = from
    /\ row' = [e \in Entry |-> IF e \in S THEN [row[e] EXCEPT !.status = to] ELSE row[e]]

Submit(S, from) ==
    /\ Advance(S, from, "Submitted")
    /\ UNCHANGED verdicts

Decide(S, r, v) ==
    /\ \A e \in S : row[e].owner # r
    /\ Advance(S, "Submitted", v)
    /\ verdicts' = [e \in Entry |-> IF e \in S THEN verdicts[e] \cup {<<r, v>>}
                                             ELSE verdicts[e]]

Next ==
    \/ \E e \in Entry, u \in User, t \in Task, d \in Day, n \in Hours : Log(e, u, t, d, n)
    \/ \E e \in Entry, n \in Hours : Revise(e, n)
    \/ \E e \in Entry : Remove(e)
    \/ \E S \in SUBSET Live, from \in {"Draft", "Rejected"} : Submit(S, from)
    \/ \E S \in SUBSET Live, r \in User, v \in {"Approved", "Rejected"} : Decide(S, r, v)

Spec == Init /\ [][Next]_vars
=============================================================================
