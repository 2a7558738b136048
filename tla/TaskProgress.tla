---------------------------- MODULE TaskProgress ----------------------------
(***************************************************************************)
(* Progress of one task: the owner submits increments, project managers    *)
(* approve, reject or send them back, and the status and the official      *)
(* progress may also be edited by hand (TaskProgressService, and the part  *)
(* of TasksService.update about status and progress).                      *)
(*                                                                         *)
(* Every statement sent to the database is a step, so requests in flight   *)
(* interleave.  Transactions run at READ COMMITTED: what one has written   *)
(* is seen by others when it commits, a row it has updated is locked until *)
(* then, and each statement reads what is committed at that moment.        *)
(***************************************************************************)
EXTENDS Integers, FiniteSetsExt

CONSTANTS
    Person,    \* users who may own the task or review it
    Update,    \* ids of TaskProgressUpdate rows (bound: submissions in all)
    Handler,   \* requests in flight (bound)
    Full       \* 100 percent

ASSUME ProgressAssumption == Full \in Nat \ {0}

VARIABLES
    updates,   \* TaskProgressUpdate rows of the task
    approved,  \* Task.progressApproved
    pending,   \* Task.progressPending
    status,    \* Task.status
    req,       \* the requests
    earned     \* history: values of approved by creation, by hand or by an approval

task == <<approved, pending, status>>
vars == <<updates, task, req, earned>>

Status == {"To_Do", "In_Progress", "Submitted_for_Review", "Approved", "Rework", "Done"}
Submittable == {"In_Progress", "Rework", "Submitted_for_Review"}
Decision == {"Approved", "Rejected", "Rework"}
Percent == 0..Full

Free == [state |-> "free"]
(* reviewedBy: empty until somebody has decided.                            *)
Row == [state: {"Pending"} \cup Decision, percent: 1..Full, by: Person,
        reviewedBy: SUBSET Person]

Idle == [pc |-> "idle"]
(* base: the official progress as read when the task was loaded.            *)
SubmitRequest ==
    [pc: {"floor"}, by: Person, increment: 1..Full, base: Percent]
    \cup [pc: {"create", "submit_write"}, by: Person, percent: 1..Full, pending: Percent]
ReviewRequest ==
    [pc: {"mark", "read_task", "read_pending", "review_write"}, update: Update,
     reviewer: Person, decision: Decision, approved: Percent, pending: Percent]
StatusRequest == [pc: {"status_write"}, next: Status]

TypeOK ==
    /\ updates \in [Update -> Row \cup {Free}]
    /\ approved \in Percent
    /\ pending \in Percent
    /\ status \in Status
    /\ req \in [Handler -> SubmitRequest \cup ReviewRequest \cup StatusRequest \cup {Idle}]
    /\ earned \subseteq Percent

(* A task may be created with a status and with progress.                   *)
Init ==
    /\ updates = [u \in Update |-> Free]
    /\ approved \in Percent
    /\ pending = 0
    /\ status \in Status
    /\ req = [h \in Handler |-> Idle]
    /\ earned = {approved}

At(h, pc) == req[h].pc = pc
Become(h, r) == req' = [req EXCEPT ![h] = r]
Finish(h) == Become(h, Idle)

(* maxPendingProgressPercent: the highest, or 0 when there is none.         *)
Waiting == {u \in Update : updates[u].state = "Pending"}
Highest(S) == Max(S \cup {0})
PercentsOf(U) == {updates[u].percent : u \in U}

-----------------------------------------------------------------------------
(* submit.  The owner of the task, or of its parent, may change between     *)
(* requests, so any person may be the one who submits.                      *)

SubmitLoad(h, p, n) ==
    /\ At(h, "idle")
    /\ status \in Submittable
    /\ Become(h, [pc |-> "floor", by |-> p, increment |-> n, base |-> approved])
    /\ UNCHANGED <<updates, task, earned>>

(* Mutant: the remaining capacity is not checked.                           *)
SubmitFloorUnbounded(h) ==
    LET r == req[h]
        floor == Max({r.base, Highest(PercentsOf(Waiting))})
    IN  /\ At(h, "floor")
        /\ Become(h, [pc |-> "create", by |-> r.by, percent |-> floor + r.increment,
                      pending |-> 0])
        /\ UNCHANGED <<updates, task, earned>>

SubmitFloor(h) ==
    LET r == req[h]
        floor == Max({r.base, Highest(PercentsOf(Waiting))})
    IN  /\ At(h, "floor")
        /\ IF r.increment <= Full - floor
              THEN Become(h, [pc |-> "create", by |-> r.by,
                              percent |-> floor + r.increment, pending |-> 0])
              ELSE Finish(h)
        /\ UNCHANGED <<updates, task, earned>>

(* The new row counts in the transaction before others see it.              *)
SubmitCreate(h) ==
    LET r == req[h] IN
    /\ At(h, "create")
    /\ Become(h, [r EXCEPT !.pc = "submit_write",
                           !.pending = Highest(PercentsOf(Waiting) \cup {r.percent})])
    /\ UNCHANGED <<updates, task, earned>>

SubmitWrite(h, u) ==
    LET r == req[h] IN
    /\ At(h, "submit_write")
    /\ updates[u] = Free
    /\ updates' = [updates EXCEPT ![u] = [state |-> "Pending", percent |-> r.percent,
                                          by |-> r.by, reviewedBy |-> {}]]
    /\ pending' = r.pending
    /\ status' = "Submitted_for_Review"
    /\ Finish(h)
    /\ UNCHANGED <<approved, earned>>

-----------------------------------------------------------------------------
(* review: applyApproval, applyRejection and applyRework.                   *)

InTransaction == {"read_task", "read_pending", "review_write"}

ReviewFind(h, u, p, decision) ==
    /\ At(h, "idle")
    /\ u \in Waiting
    /\ p # updates[u].by
    /\ Become(h, [pc |-> "mark", update |-> u, reviewer |-> p, decision |-> decision,
                  approved |-> 0, pending |-> 0])
    /\ UNCHANGED <<updates, task, earned>>

(* The row is updated by id, whatever its status has become meanwhile.      *)
ReviewMark(h) ==
    /\ At(h, "mark")
    /\ \A g \in Handler : req[g].pc \in InTransaction => req[g].update # req[h].update
    /\ Become(h, [req[h] EXCEPT !.pc = "read_task"])
    /\ UNCHANGED <<updates, task, earned>>

(* Mutant: an approval adds the claim, a total already, to the official     *)
(* progress.                                                                *)
ReviewReadTaskAdding(h) ==
    LET r == req[h]
        official == IF r.decision = "Approved"
                       THEN Min({Full, approved + updates[r.update].percent})
                       ELSE approved
    IN  /\ At(h, "read_task")
        /\ Become(h, [r EXCEPT !.pc = "read_pending", !.approved = official])
        /\ UNCHANGED <<updates, task, earned>>

(* Mutant: the claim becomes official whatever the decision.                *)
ReviewReadTaskApplying(h) ==
    LET r == req[h] IN
    /\ At(h, "read_task")
    /\ Become(h, [r EXCEPT !.pc = "read_pending",
                           !.approved = Max({approved, updates[r.update].percent})])
    /\ UNCHANGED <<updates, task, earned>>

ReviewReadTask(h) ==
    LET r == req[h]
        official == IF r.decision = "Approved"
                       THEN Max({approved, updates[r.update].percent}) ELSE approved
    IN  /\ At(h, "read_task")
        /\ Become(h, [r EXCEPT !.pc = "read_pending", !.approved = official])
        /\ UNCHANGED <<updates, task, earned>>

(* Mutant: the pending total is read before the row is marked.              *)
ReviewReadPendingEarly(h) ==
    LET r == req[h] IN
    /\ At(h, "read_pending")
    /\ Become(h, [r EXCEPT !.pc = "review_write", !.pending = Highest(PercentsOf(Waiting))])
    /\ UNCHANGED <<updates, task, earned>>

ReviewReadPending(h) ==
    LET r == req[h] IN
    /\ At(h, "read_pending")
    /\ Become(h, [r EXCEPT !.pc = "review_write",
                           !.pending = Highest(PercentsOf(Waiting \ {r.update}))])
    /\ UNCHANGED <<updates, task, earned>>

StatusAfter(decision, official, waiting) ==
    IF waiting > 0 THEN "Submitted_for_Review"
    ELSE IF decision = "Rework" THEN "Rework"
    ELSE IF decision = "Approved" /\ official >= Full THEN "Approved"
    ELSE "In_Progress"

ReviewWrite(h) ==
    LET r == req[h] IN
    /\ At(h, "review_write")
    /\ updates' = [updates EXCEPT ![r.update].state = r.decision,
                                  ![r.update].reviewedBy = {r.reviewer}]
    /\ approved' = r.approved
    /\ pending' = r.pending
    /\ status' = StatusAfter(r.decision, r.approved, r.pending)
    /\ earned' = IF r.decision = "Approved"
                    THEN earned \cup {updates[r.update].percent} ELSE earned
    /\ Finish(h)

-----------------------------------------------------------------------------
(* TasksService.update.  An owner may make fewer of these moves than a      *)
(* project manager, who may make them all.                                  *)

LegalFrom ==
    [To_Do                |-> {"In_Progress"},
     In_Progress          |-> {"To_Do", "Submitted_for_Review"},
     Submitted_for_Review |-> {"Approved", "Rework"},
     Approved             |-> {"Done"},
     Rework               |-> {"In_Progress", "Submitted_for_Review"},
     Done                 |-> {}]

StatusRead(h, s) ==
    /\ At(h, "idle")
    /\ s = status \/ s \in LegalFrom[status]
    /\ Become(h, [pc |-> "status_write", next |-> s])
    /\ UNCHANGED <<updates, task, earned>>

StatusWrite(h) ==
    /\ At(h, "status_write")
    /\ status' = req[h].next
    /\ Finish(h)
    /\ UNCHANGED <<updates, approved, pending, earned>>

(* Nothing is decided from what is read, so an edit of the progress is one  *)
(* step.                                                                    *)
EditProgress(h, n) ==
    /\ At(h, "idle")
    /\ approved' = n
    /\ earned' = earned \cup {n}
    /\ UNCHANGED <<updates, pending, status, req>>

(* A query throws or the backend restarts: the transaction is rolled back.  *)
Abort(h) ==
    /\ ~At(h, "idle")
    /\ Finish(h)
    /\ UNCHANGED <<updates, task, earned>>

SubmitStep(h) ==
    \/ \E p \in Person, n \in 1..Full : SubmitLoad(h, p, n)
    \/ SubmitFloor(h) \/ SubmitCreate(h)
    \/ \E u \in Update : SubmitWrite(h, u)

ReviewStep(h) ==
    \/ \E u \in Update, p \in Person, d \in Decision : ReviewFind(h, u, p, d)
    \/ ReviewMark(h) \/ ReviewReadTask(h) \/ ReviewReadPending(h) \/ ReviewWrite(h)

UpdateStep(h) ==
    \/ \E s \in Status : StatusRead(h, s)
    \/ StatusWrite(h)
    \/ \E n \in Percent : EditProgress(h, n)

Next == \E h \in Handler : SubmitStep(h) \/ ReviewStep(h) \/ UpdateStep(h) \/ Abort(h)

Spec == Init /\ [][Next]_vars

-----------------------------------------------------------------------------
(* The pending progress shown with the task is the highest claim that still *)
(* waits, through submissions above each other, reviews in any order,       *)
(* rollbacks and edits by hand, as long as requests come one at a time.     *)
PendingAgrees == pending = Highest(PercentsOf(Waiting))

(* Every total shown comes from work: the official progress was set at      *)
(* creation, by hand or by an approval, and the pending one is the claim of *)
(* a submission, even when stale values are written back by requests that   *)
(* overlap.                                                                 *)
Live == {u \in Update : updates[u] # Free}
TotalsAreReal == approved \in earned /\ pending \in PercentsOf(Live) \cup {0}

(* Requests served one at a time keep what the service promises.            *)
Ledger == INSTANCE ProgressLedger
ImplementsLedger == Ledger!Spec
=============================================================================
