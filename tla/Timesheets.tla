----------------------------- MODULE Timesheets -----------------------------
(***************************************************************************)
(* Timesheet logging, submission and approval: TimesheetsService and       *)
(* TimesheetApprovalService.                                               *)
(*                                                                         *)
(* The services keep no state of their own.  A request handler is a chain  *)
(* of awaited queries; other handlers run at every await, and each query   *)
(* is one SQL statement (or one transaction) on the shared rows.  A        *)
(* handler is therefore a record req[h]: where it stands and what it has   *)
(* read so far, which may be stale by the time it writes.  With one        *)
(* Handler the requests are served one after the other.                    *)
(***************************************************************************)
EXTENDS Integers, Sequences, FiniteSets, FiniteSetsExt

CONSTANTS
    User,          \* people: those who log time and those who review it
    Task,          \* top-level tasks
    Project,
    Day,           \* work dates that are not in the future
    Week,
    ProjectOf,     \* the project of a task
    WeekOf,        \* the Monday-based week of a date
    Scope,         \* the projects whose submissions a user may decide on
    Entry,         \* ids of timesheet rows, never reused
    Handler,       \* requests in flight at the same time
    Hours,         \* totals that resolveHourSplit lets through
    DailyMax,      \* TIMESHEET_DAILY_MAX_HOURS
    MaxDecisions   \* bound: approval rows per entry

ASSUME TimesheetsAssumption ==
    /\ ProjectOf \in [Task -> Project]
    /\ WeekOf \in [Day -> Week]
    /\ Scope \in [User -> SUBSET Project]
    /\ DailyMax \in Nat
    /\ Hours \subseteq 0..DailyMax
    /\ MaxDecisions \in Nat

VARIABLES
    entry,      \* the timesheet rows
    decisions,  \* the timesheet_approvals rows of each entry, oldest first
    loggable,   \* tasks that accept time: project Active or At_Risk, task not Done
    notices,    \* what has been announced about an entry, <<entry, event>>
    req         \* the handlers in flight

vars == <<entry, decisions, loggable, notices, req>>

Editable == {"Draft", "Rejected"}
Verdict == {"Approved", "Rejected"}
Status == Verdict \cup {"Draft", "Submitted"}

Free == [status |-> "free"]        \* an id no row has used yet
Deleted == [status |-> "deleted"]
Row == [status: Status, owner: User, task: Task, day: Day, hours: Hours]
Decision == [verdict: Verdict, reviewer: User]

CreatePc == {"create_loggable", "create_capacity", "create_insert"}
EditPc == {"edit_loggable", "edit_capacity", "edit_write"}
SubmitPc == {"submit_write", "submit_notify"}
DecidePc == {"decide_commit", "decide_push", "decide_notify"}

Idle == [pc |-> "idle"]
CreateRequest == [pc: CreatePc, owner: User, task: Task, day: Day, hours: Hours]
EditRequest == [pc: EditPc, id: Entry, row: Row, hours: Hours, changing: BOOLEAN]
DeleteRequest == [pc: {"delete_write"}, id: Entry]
SubmitRequest == [pc: SubmitPc, rows: SUBSET Entry]
DecideRequest == [pc: DecidePc, rows: SUBSET Entry, unpushed: SUBSET Entry,
                  verdict: Verdict, reviewer: User]
Request == {Idle} \cup CreateRequest \cup EditRequest \cup DeleteRequest
                  \cup SubmitRequest \cup DecideRequest

TypeOK ==
    /\ entry \in [Entry -> Row \cup {Free, Deleted}]
    /\ decisions \in [Entry -> Seq(Decision)]
    /\ loggable \subseteq Task
    /\ notices \subseteq Entry \X (Verdict \cup {"Submitted"})
    /\ req \in [Handler -> Request]

Init ==
    /\ entry = [e \in Entry |-> Free]
    /\ decisions = [e \in Entry |-> <<>>]
    /\ loggable = Task
    /\ notices = {}
    /\ req = [h \in Handler |-> Idle]

-----------------------------------------------------------------------------
Live == {e \in Entry : entry[e].status \in Status}

(* The rows of a user on a day, and what they add up to.                    *)
DayRows(u, d) == {e \in Live : entry[e].owner = u /\ entry[e].day = d}
DayTotal(S) == MapThenSumSet(LAMBDA e : entry[e].hours, S)

(* The rows of a user's week that have a given status.                      *)
WeekRows(u, w, status) ==
    {e \in Live : /\ entry[e].owner = u
                  /\ WeekOf[entry[e].day] = w
                  /\ entry[e].status = status}

At(h, pc) == req[h].pc = pc
Start(h, request) == At(h, "idle") /\ req' = [req EXCEPT ![h] = request]
Goto(h, pc) == req' = [req EXCEPT ![h].pc = pc]
Finish(h) == req' = [req EXCEPT ![h] = Idle]

(* An update of one column set of the rows S that still exist.              *)
SetStatus(S, status) ==
    entry' = [e \in Entry |-> IF e \in S \cap Live
                              THEN [entry[e] EXCEPT !.status = status]
                              ELSE entry[e]]

-----------------------------------------------------------------------------
(* createEntry: the checks, each a query of its own, then the insert.       *)
(* assertProjectAccess and assertTaskBelongsToProject read rows of other    *)
(* components; a request they refuse takes no step.                         *)

CreateStart(h, u, t, d, hours) ==
    /\ Start(h, [pc |-> "create_loggable", owner |-> u, task |-> t, day |-> d,
                 hours |-> hours])
    /\ UNCHANGED <<entry, decisions, loggable, notices>>

CreateLoggable(h) ==
    /\ At(h, "create_loggable")
    /\ IF req[h].task \in loggable THEN Goto(h, "create_capacity") ELSE Finish(h)
    /\ UNCHANGED <<entry, decisions, loggable, notices>>

(* Mutant: the cap is compared with what is logged already.                 *)
CreateCapacityOfTheRest(h) ==
    /\ At(h, "create_capacity")
    /\ IF DayTotal(DayRows(req[h].owner, req[h].day)) <= DailyMax
       THEN Goto(h, "create_insert")
       ELSE Finish(h)
    /\ UNCHANGED <<entry, decisions, loggable, notices>>

CreateCapacity(h) ==
    /\ At(h, "create_capacity")
    /\ IF DayTotal(DayRows(req[h].owner, req[h].day)) + req[h].hours <= DailyMax
       THEN Goto(h, "create_insert")
       ELSE Finish(h)
    /\ UNCHANGED <<entry, decisions, loggable, notices>>

(* The unique index uq_timesheet_entry turns a second row into a conflict.  *)
CreateInsert(h) ==
    /\ At(h, "create_insert")
    /\ LET r == req[h]
           taken == \E e \in DayRows(r.owner, r.day) : entry[e].task = r.task
       IN \/ taken /\ UNCHANGED entry
          \/ /\ ~taken
             /\ \E e \in Entry :
                  /\ entry[e] = Free
                  /\ entry' = [entry EXCEPT ![e] =
                         [status |-> "Draft", owner |-> r.owner, task |-> r.task,
                          day |-> r.day, hours |-> r.hours]]
    /\ Finish(h)
    /\ UNCHANGED <<decisions, loggable, notices>>

-----------------------------------------------------------------------------
(* updateEntry: reads the row, checks, and writes hours and a status that   *)
(* both come from what it read.  hours is the new total when changing.      *)

(* Mutant: an edit that does not ask isEditable.                            *)
EditReadAnyStatus(h, e, hours, changing) ==
    /\ e \in Live
    /\ changing \/ hours = entry[e].hours
    /\ Start(h, [pc |-> "edit_loggable", id |-> e, row |-> entry[e],
                 hours |-> hours, changing |-> changing])
    /\ UNCHANGED <<entry, decisions, loggable, notices>>

EditRead(h, e, hours, changing) ==
    /\ entry[e].status \in Editable
    /\ changing \/ hours = entry[e].hours
    /\ Start(h, [pc |-> "edit_loggable", id |-> e, row |-> entry[e],
                 hours |-> hours, changing |-> changing])
    /\ UNCHANGED <<entry, decisions, loggable, notices>>

EditLoggable(h) ==
    /\ At(h, "edit_loggable")
    /\ IF req[h].row.task \in loggable
       THEN Goto(h, IF req[h].changing THEN "edit_capacity" ELSE "edit_write")
       ELSE Finish(h)
    /\ UNCHANGED <<entry, decisions, loggable, notices>>

EditCapacity(h) ==
    /\ At(h, "edit_capacity")
    /\ LET r == req[h]
           others == DayRows(r.row.owner, r.row.day) \ {r.id}
       IN IF DayTotal(others) + r.hours <= DailyMax
          THEN Goto(h, "edit_write")
          ELSE Finish(h)
    /\ UNCHANGED <<entry, decisions, loggable, notices>>

(* The update names the row by id only: whatever status it has by now is    *)
(* overwritten.  A row deleted meanwhile makes the update fail.             *)
EditWrite(h) ==
    /\ At(h, "edit_write")
    /\ LET r == req[h]
           reopened == IF r.row.status = "Rejected" THEN "Draft" ELSE r.row.status
       IN IF r.id \in Live
          THEN entry' = [entry EXCEPT ![r.id].hours = r.hours,
                                      ![r.id].status = reopened]
          ELSE UNCHANGED entry
    /\ Finish(h)
    /\ UNCHANGED <<decisions, loggable, notices>>

-----------------------------------------------------------------------------
(* deleteEntry: the foreign key of timesheet_approvals restricts the delete *)
(* to rows that were never decided on.                                      *)

DeleteRead(h, e) ==
    /\ entry[e].status \in Editable
    /\ Start(h, [pc |-> "delete_write", id |-> e])
    /\ UNCHANGED <<entry, decisions, loggable, notices>>

(* Mutant: a cascading foreign key.                                         *)
DeleteWriteCascading(h) ==
    /\ At(h, "delete_write")
    /\ entry' = IF req[h].id \in Live
                THEN [entry EXCEPT ![req[h].id] = Deleted]
                ELSE entry
    /\ Finish(h)
    /\ UNCHANGED <<decisions, loggable, notices>>

DeleteWrite(h) ==
    /\ At(h, "delete_write")
    /\ LET e == req[h].id
       IN IF e \in Live /\ decisions[e] = <<>>
          THEN entry' = [entry EXCEPT ![e] = Deleted]
          ELSE UNCHANGED entry
    /\ Finish(h)
    /\ UNCHANGED <<decisions, loggable, notices>>

-----------------------------------------------------------------------------
(* submitWeek takes the Draft rows of the week, resubmitWeek the Rejected   *)
(* ones; assertEntriesLoggableForSubmit looks at the statuses they were     *)
(* read with.  The update names the rows by id only.                        *)

SubmitRead(h, u, w, from) ==
    LET rows == WeekRows(u, w, from)
    IN /\ rows # {}
       /\ \A e \in rows : entry[e].task \in loggable
       /\ Start(h, [pc |-> "submit_write", rows |-> rows])
       /\ UNCHANGED <<entry, decisions, loggable, notices>>

SubmitWrite(h) ==
    /\ At(h, "submit_write")
    /\ SetStatus(req[h].rows, "Submitted")
    /\ Goto(h, "submit_notify")
    /\ UNCHANGED <<decisions, loggable, notices>>

(* The rows are read again before the approvers are told.                   *)
SubmitNotify(h) ==
    /\ At(h, "submit_notify")
    /\ notices' = notices \cup ((req[h].rows \cap Live) \X {"Submitted"})
    /\ Finish(h)
    /\ UNCHANGED <<entry, decisions, loggable>>

-----------------------------------------------------------------------------
(* approveSubmission and rejectSubmission: getActionableEntries, the check  *)
(* that nobody decides on their own submission, one transaction over all    *)
(* rows, then (approve) one Keka push per row, then the notice.             *)

(* Mutant: a reviewer decides on a submission of their own.                 *)
DecideReadOwn(h, r, u, w, verdict) ==
    LET rows == {e \in WeekRows(u, w, "Submitted") :
                    ProjectOf[entry[e].task] \in Scope[r]}
    IN /\ rows # {}
       /\ Start(h, [pc |-> "decide_commit", rows |-> rows, unpushed |-> {},
                    verdict |-> verdict, reviewer |-> r])
       /\ UNCHANGED <<entry, decisions, loggable, notices>>

DecideRead(h, r, u, w, verdict) ==
    LET rows == {e \in WeekRows(u, w, "Submitted") :
                    ProjectOf[entry[e].task] \in Scope[r]}
    IN /\ rows # {}
       /\ u # r
       /\ Start(h, [pc |-> "decide_commit", rows |-> rows, unpushed |-> {},
                    verdict |-> verdict, reviewer |-> r])
       /\ UNCHANGED <<entry, decisions, loggable, notices>>

(* Mutant: an updateMany that skips the rows that are gone.                 *)
DecideCommitSkipping(h) ==
    /\ At(h, "decide_commit")
    /\ LET r == req[h]
           approval == [verdict |-> r.verdict, reviewer |-> r.reviewer]
       IN /\ \A e \in r.rows : Len(decisions[e]) < MaxDecisions
          /\ SetStatus(r.rows, r.verdict)
          /\ decisions' = [e \in Entry |-> IF e \in r.rows \cap Live
                                           THEN Append(decisions[e], approval)
                                           ELSE decisions[e]]
          /\ Goto(h, "decide_notify")
    /\ UNCHANGED <<loggable, notices>>

(* The transaction fails as a whole if one of the rows is gone.  Its        *)
(* updates name the rows by id only.                                        *)
DecideCommit(h) ==
    /\ At(h, "decide_commit")
    /\ LET r == req[h]
           approval == [verdict |-> r.verdict, reviewer |-> r.reviewer]
       IN \/ /\ ~(r.rows \subseteq Live)
             /\ Finish(h)
             /\ UNCHANGED <<entry, decisions>>
          \/ /\ r.rows \subseteq Live
             /\ \A e \in r.rows : Len(decisions[e]) < MaxDecisions
             /\ SetStatus(r.rows, r.verdict)
             /\ decisions' = [e \in Entry |-> IF e \in r.rows
                                              THEN Append(decisions[e], approval)
                                              ELSE decisions[e]]
             /\ req' = [req EXCEPT
                   ![h] = IF r.verdict = "Approved"
                          THEN [r EXCEPT !.pc = "decide_push", !.unpushed = r.rows]
                          ELSE [r EXCEPT !.pc = "decide_notify"]]
    /\ UNCHANGED <<loggable, notices>>

(* pushTimesheetEntry for one row; TimesheetPush says what it does.         *)
DecidePush(h, e) ==
    /\ At(h, "decide_push")
    /\ e \in req[h].unpushed
    /\ LET left == req[h].unpushed \ {e}
       IN req' = [req EXCEPT ![h].unpushed = left,
                             ![h].pc = IF left = {} THEN "decide_notify" ELSE @]
    /\ UNCHANGED <<entry, decisions, loggable, notices>>

DecideNotify(h) ==
    /\ At(h, "decide_notify")
    /\ notices' = notices \cup (req[h].rows \X {req[h].verdict})
    /\ Finish(h)
    /\ UNCHANGED <<entry, decisions, loggable>>

-----------------------------------------------------------------------------
(* A handler ends early: a query or a push throws, or the process restarts. *)
Abort(h) ==
    /\ ~At(h, "idle")
    /\ Finish(h)
    /\ UNCHANGED <<entry, decisions, loggable, notices>>

(* A project changes status, or a task is done or reopened.                 *)
ChangeLoggable(t) ==
    /\ loggable' = IF t \in loggable THEN loggable \ {t} ELSE loggable \cup {t}
    /\ UNCHANGED <<entry, decisions, notices, req>>

CreateStep(h) ==
    \/ \E u \in User, t \in Task, d \in Day, n \in Hours : CreateStart(h, u, t, d, n)
    \/ CreateLoggable(h)
    \/ CreateCapacity(h)
    \/ CreateInsert(h)

EditStep(h) ==
    \/ \E e \in Entry, n \in Hours, c \in BOOLEAN : EditRead(h, e, n, c)
    \/ EditLoggable(h)
    \/ EditCapacity(h)
    \/ EditWrite(h)

DeleteStep(h) ==
    \/ \E e \in Entry : DeleteRead(h, e)
    \/ DeleteWrite(h)

SubmitStep(h) ==
    \/ \E u \in User, w \in Week, s \in Editable : SubmitRead(h, u, w, s)
    \/ SubmitWrite(h)
    \/ SubmitNotify(h)

DecideStep(h) ==
    \/ \E r, u \in User, w \in Week, v \in Verdict : DecideRead(h, r, u, w, v)
    \/ DecideCommit(h)
    \/ \E e \in Entry : DecidePush(h, e)
    \/ DecideNotify(h)

Next ==
    \/ \E h \in Handler : \/ CreateStep(h)
                          \/ EditStep(h)
                          \/ DeleteStep(h)
                          \/ SubmitStep(h)
                          \/ DecideStep(h)
                          \/ Abort(h)
    \/ \E t \in Task : ChangeLoggable(t)

Spec == Init /\ [][Next]_vars

-----------------------------------------------------------------------------
(* What holds however the handlers interleave.                              *)

(* Separation of duties and the audit trail: a row that says Approved or    *)
(* Rejected has a decision row with that verdict, and nobody but another    *)
(* user has ever decided on it.  The status is written by one handler from  *)
(* what it read and guarded by a check made a query earlier.                *)
DecidedByAnother ==
    \A e \in Live :
        /\ \A i \in DOMAIN decisions[e] : decisions[e][i].reviewer # entry[e].owner
        /\ entry[e].status \in Verdict =>
              \E i \in DOMAIN decisions[e] :
                  decisions[e][i].verdict = entry[e].status

(* No decision outlives its row: a delete that read the row as a draft      *)
(* cannot remove it once it has been submitted and decided on.              *)
DecisionsKeepTheirRow == \A e \in Entry : decisions[e] # <<>> => e \in Live

(* An employee is only told of decisions that were recorded.                *)
NoticesAreTrue ==
    \A e \in Entry, v \in Verdict :
        <<e, v>> \in notices =>
            \E i \in DOMAIN decisions[e] : decisions[e][i].verdict = v

-----------------------------------------------------------------------------
(* What the code says, and what only requests served one at a time obey.    *)

(* "Hard cap per day across all entries."                                   *)
DailyCap == \A u \in User, d \in Day : DayTotal(DayRows(u, d)) <= DailyMax

(* The abstract life of an entry, read off the rows and the decisions.      *)
Lifecycle ==
    INSTANCE TimesheetLifecycle WITH
        row <- entry,
        verdicts <- [e \in Entry |->
            {<<decisions[e][i].reviewer, decisions[e][i].verdict>> :
                i \in DOMAIN decisions[e]}]

(* Served one at a time, the handlers implement the promised life cycle.    *)
ImplementsLifecycle == Lifecycle!Spec
=============================================================================
