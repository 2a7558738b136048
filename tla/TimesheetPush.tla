---------------------------- MODULE TimesheetPush ----------------------------
(***************************************************************************)
(* Pushing approved time entries to Keka, and what happens when a push     *)
(* fails: TimesheetPushService, the FailedSyncRecord helpers, the hourly   *)
(* FailedSyncRetryService and the admin's retries and listings.            *)
(*                                                                         *)
(* Keka is outside the repository: it may accept a time entry, refuse it,  *)
(* or accept it and lose the reply.  Every await is a step, so pushes of   *)
(* the same entry by a reviewer, by an admin and by the hourly job         *)
(* interleave.  Timesheets says how an entry comes to be approved.         *)
(***************************************************************************)
EXTENDS Integers, Sequences, FiniteSets

CONSTANTS
    Entry,         \* timesheet rows
    Process,       \* requests and runs of the hourly job in flight
    MaxRetries,    \* TIMESHEET_KEKA_MAX_RETRIES
    MaxBackfill,   \* KEKA_FAILED_SYNC_MAX_RETRIES
    Admin,         \* what admins do: a subset of {"retry", "force", "list"}
    MaxApprovals,  \* bound: approvals of an entry
    MaxAdmin,      \* bound: admin actions
    MaxFaults      \* bound: lost replies, database errors, restarts, withdrawals

ASSUME PushAssumption ==
    /\ MaxRetries \in Nat \ {0}
    /\ MaxBackfill \in Nat \ {0}
    /\ Admin \subseteq {"retry", "force", "list"}
    /\ MaxApprovals \in Nat /\ MaxAdmin \in Nat /\ MaxFaults \in Nat

VARIABLES
    approved,  \* entries whose status is Approved
    refs,      \* kekaSyncRef of each Approved approval of an entry, 0 when null
    logs,      \* failed kekaSyncLog rows of each entry, oldest first
    records,   \* FailedSyncRecord rows of each entry, oldest first
    proc,      \* the processes
    posts,     \* time entries Keka holds for each entry
    tries,     \* history: pushes attempted for each entry
    listed,    \* history: the failed records have been listed
    admins,    \* admin actions so far
    faults     \* faults so far

store == <<approved, refs, logs, records>>
history == <<tries, listed>>
budget == <<admins, faults>>
vars == <<store, proc, posts, history, budget>>

Class == {"permanent", "transient"}
Log == [count: Nat, class: Class]
Record == [count: Nat, class: Class, dead: BOOLEAN, open: BOOLEAN]

None == [pc |-> "idle"]
PushPc == {"read", "prepare", "send", "save", "log_success", "resolve",
           "resolve_again", "fail_read", "fail_log", "fail_find", "fail_write",
           "retry_read", "retry_log", "retry_bump", "force_write", "backfill_create"}
(* at: the approval; row: a log or record row; n: a count or a ref.         *)
Work == [pc: PushPc, by: {"reviewer", "admin", "cron"}, batch: SUBSET (Entry \X Nat),
         entry: Entry, at: Nat, row: Nat, n: Nat, class: Class]
(* The hourly job between two entries of its batch.                         *)
Job == [pc: {"cron_next"}, batch: SUBSET (Entry \X Nat)]

TypeOK ==
    /\ approved \subseteq Entry
    /\ refs \in [Entry -> Seq(Nat)]
    /\ logs \in [Entry -> Seq(Log)]
    /\ records \in [Entry -> Seq(Record)]
    /\ proc \in [Process -> Work \cup Job \cup {None}]
    /\ posts \in [Entry -> Nat]
    /\ tries \in [Entry -> Nat]
    /\ listed \in BOOLEAN
    /\ admins \in 0..MaxAdmin
    /\ faults \in 0..MaxFaults

Init ==
    /\ approved = {}
    /\ refs = [e \in Entry |-> <<>>]
    /\ logs = [e \in Entry |-> <<>>]
    /\ records = [e \in Entry |-> <<>>]
    /\ proc = [p \in Process |-> None]
    /\ posts = [e \in Entry |-> 0]
    /\ tries = [e \in Entry |-> 0]
    /\ listed = FALSE
    /\ admins = 0
    /\ faults = 0

-----------------------------------------------------------------------------
At(p, pc) == proc[p].pc = pc
Goto(p, pc) == proc' = [proc EXCEPT ![p].pc = pc]
Become(p, w) == proc' = [proc EXCEPT ![p] = w]

Task(pc, by, e, at) ==
    [pc |-> pc, by |-> by, batch |-> {}, entry |-> e, at |-> at, row |-> 0, n |-> 0,
     class |-> "transient"]

(* A request ends; the hourly job goes on with the rest of its batch.       *)
Return(p) ==
    Become(p, IF proc[p].by = "cron"
              THEN [pc |-> "cron_next", batch |-> proc[p].batch]
              ELSE None)

Fail(p, class) == Become(p, [proc[p] EXCEPT !.pc = "fail_read", !.class = class])

(* What an admin action and a fault cost.                                   *)
AdminActs(kind) ==
    /\ kind \in Admin
    /\ admins < MaxAdmin
    /\ admins' = admins + 1
    /\ UNCHANGED faults

Fault == faults < MaxFaults /\ faults' = faults + 1 /\ UNCHANGED admins

OpenRows(e) == {k \in DOMAIN records[e] : records[e][k].open}
Exhausted(class, count, max) == class = "permanent" \/ count >= max

(* autoRetryEligibleWhere, with the ceiling of retryPendingFailedSyncs.     *)
Eligible(row) == row.open /\ ~row.dead /\ row.class = "transient" /\ row.count < MaxRetries

-----------------------------------------------------------------------------
(* A reviewer approves an entry (the transaction of approveSubmission); the *)
(* handler goes on to push it.                                              *)
Approve(p, e) ==
    /\ At(p, "idle")
    /\ Len(refs[e]) < MaxApprovals
    /\ approved' = approved \cup {e}
    /\ refs' = [refs EXCEPT ![e] = Append(@, 0)]
    /\ Become(p, Task("read", "reviewer", e, Len(refs[e]) + 1))
    /\ UNCHANGED <<logs, records, posts, history, budget>>

(* Mutant: an employee without a Keka id is skipped in silence.             *)
ReadSilent(p) ==
    LET w == proc[p] IN
    /\ At(p, "read")
    /\ IF w.entry \in approved /\ refs[w.entry][w.at] = 0
       THEN Return(p) \/ Goto(p, "prepare")
       ELSE Return(p)
    /\ UNCHANGED <<store, posts, history, budget>>

(* pushTimesheetEntry reads the row and the approval: a row that is not     *)
(* approved or an approval that has its ref ends the push (a caller that    *)
(* retries for an admin then resolves), an employee without a Keka id fails *)
(* it for good.                                                             *)
Read(p) ==
    LET w == proc[p] IN
    /\ At(p, "read")
    /\ \/ /\ w.entry \notin approved
          /\ Return(p)
          /\ UNCHANGED tries
       \/ /\ w.entry \in approved
          /\ refs[w.entry][w.at] # 0
          /\ IF w.by = "admin" THEN Goto(p, "resolve_again") ELSE Return(p)
          /\ UNCHANGED tries
       \/ /\ w.entry \in approved
          /\ refs[w.entry][w.at] = 0
          /\ Fail(p, "permanent") \/ Goto(p, "prepare")
          /\ tries' = [tries EXCEPT ![w.entry] = @ + 1]
    /\ UNCHANGED <<store, posts, listed, budget>>

(* The project, the task and the allocation are linked first.               *)
Prepare(p) ==
    /\ At(p, "prepare")
    /\ Goto(p, "send") \/ \E c \in Class : Fail(p, c)
    /\ UNCHANGED <<store, posts, history, budget>>

(* The request to Keka.  A refusal whose message names no HTTP status is    *)
(* taken for transient, so a refusal fails either way.                      *)
Send(p) ==
    LET e == proc[p].entry IN
    /\ At(p, "send")
    /\ \/ /\ posts' = [posts EXCEPT ![e] = @ + 1]
          /\ Become(p, [proc[p] EXCEPT !.pc = "save", !.n = posts[e] + 1])
          /\ UNCHANGED budget
       \/ /\ posts' = [posts EXCEPT ![e] = @ + 1]
          /\ Fail(p, "transient")
          /\ Fault
       \/ /\ \E c \in Class : Fail(p, c)
          /\ UNCHANGED <<posts, budget>>
    /\ UNCHANGED <<store, history>>

(* Mutant: a reply without an id leaves no ref.                             *)
SaveRefWithoutFallback(p) ==
    /\ At(p, "save")
    /\ Goto(p, "log_success")
    /\ UNCHANGED <<store, posts, history, budget>>

SaveRef(p) ==
    LET w == proc[p] IN
    /\ At(p, "save")
    /\ refs' = [refs EXCEPT ![w.entry][w.at] = w.n]
    /\ Goto(p, "log_success")
    /\ UNCHANGED <<approved, logs, records, posts, history, budget>>

(* Mutant: a push that succeeds leaves the records alone.                   *)
LogSuccessReturns(p) ==
    /\ At(p, "log_success")
    /\ Return(p)
    /\ UNCHANGED <<store, posts, history, budget>>

(* The SUCCESS row of the sync log; nothing in this model reads it.         *)
LogSuccess(p) ==
    /\ At(p, "log_success")
    /\ Goto(p, "resolve")
    /\ UNCHANGED <<store, posts, history, budget>>

(* Every open record of the entry is resolved, by the push itself and again *)
(* by an admin's retry.                                                     *)
Resolve(p) ==
    LET w == proc[p] IN
    /\ w.pc \in {"resolve", "resolve_again"}
    /\ records' = [records EXCEPT ![w.entry] =
                      [k \in DOMAIN @ |-> [@[k] EXCEPT !.open = FALSE]]]
    /\ IF w.pc = "resolve" /\ w.by = "admin" THEN Goto(p, "resolve_again") ELSE Return(p)
    /\ UNCHANGED <<approved, refs, logs, posts, history, budget>>

-----------------------------------------------------------------------------
(* logFailure: the count of the latest failed log plus one, a new log, and  *)
(* upsertFailedSyncRecord, which looks for an open record and then writes.  *)

LatestCount(e) == IF logs[e] = <<>> THEN 0 ELSE logs[e][Len(logs[e])].count

FailRead(p) ==
    /\ At(p, "fail_read")
    /\ Become(p, [proc[p] EXCEPT !.pc = "fail_log", !.n = LatestCount(proc[p].entry) + 1])
    /\ UNCHANGED <<store, posts, history, budget>>

FailLog(p) ==
    LET w == proc[p] IN
    /\ At(p, "fail_log")
    /\ logs' = [logs EXCEPT ![w.entry] = Append(@, [count |-> w.n, class |-> w.class])]
    /\ Goto(p, "fail_find")
    /\ UNCHANGED <<approved, refs, records, posts, history, budget>>

FailFind(p) ==
    LET rows == OpenRows(proc[p].entry) IN
    /\ At(p, "fail_find")
    /\ \E k \in IF rows = {} THEN {0} ELSE rows :
          Become(p, [proc[p] EXCEPT !.pc = "fail_write", !.row = k])
    /\ UNCHANGED <<store, posts, history, budget>>


FailWrite(p) ==
    LET w == proc[p]
        dead == Exhausted(w.class, w.n, MaxRetries)
    IN
    /\ At(p, "fail_write")
    /\ records' = [records EXCEPT ![w.entry] =
          IF w.row = 0
          THEN Append(@, [count |-> w.n, class |-> w.class, dead |-> dead, open |-> TRUE])
          ELSE [@ EXCEPT ![w.row].count = w.n,
                         ![w.row].class = w.class,
                         ![w.row].dead = dead]]
    /\ Return(p)
    /\ UNCHANGED <<approved, refs, logs, posts, history, budget>>

-----------------------------------------------------------------------------
(* retryTimesheetSync, started by an admin or by the hourly job.            *)

RetryStart(p, e) ==
    /\ At(p, "idle")
    /\ AdminActs("retry")
    /\ Become(p, Task("retry_read", "admin", e, 0))
    /\ UNCHANGED <<store, posts, history>>

(* The latest approval that has its ref is a success; nothing is resolved.  *)
RetryRead(p) ==
    LET w == proc[p]
        last == Len(refs[w.entry])
    IN
    /\ At(p, "retry_read")
    /\ IF w.entry \in approved /\ last > 0 /\ refs[w.entry][last] = 0
       THEN Become(p, [w EXCEPT !.pc = "retry_log", !.at = last])
       ELSE Return(p)
    /\ UNCHANGED <<store, posts, history, budget>>

(* Mutant: one retry more than the maximum.                                 *)
RetryLogOffByOne(p) ==
    LET w == proc[p]
        last == Len(logs[w.entry])
    IN
    /\ At(p, "retry_log")
    /\ IF last = 0
       THEN Goto(p, "read")
       ELSE IF w.by = "cron" /\ LatestCount(w.entry) > MaxRetries
            THEN Return(p)
            ELSE Become(p, [w EXCEPT !.pc = "retry_bump", !.row = last,
                                     !.n = LatestCount(w.entry)])
    /\ UNCHANGED <<store, posts, history, budget>>

RetryLog(p) ==
    LET w == proc[p]
        last == Len(logs[w.entry])
    IN
    /\ At(p, "retry_log")
    /\ \/ /\ last = 0
          /\ Goto(p, "read")
       \/ /\ last > 0 /\ w.by = "cron" /\ LatestCount(w.entry) >= MaxRetries
          /\ Return(p)
       \/ /\ last > 0 /\ ~(w.by = "cron" /\ LatestCount(w.entry) >= MaxRetries)
          /\ Become(p, [w EXCEPT !.pc = "retry_bump", !.row = last,
                                 !.n = LatestCount(w.entry)])
    /\ UNCHANGED <<store, posts, history, budget>>

RetryBump(p) ==
    LET w == proc[p] IN
    /\ At(p, "retry_bump")
    /\ logs' = [logs EXCEPT ![w.entry][w.row].count = w.n + 1]
    /\ Goto(p, "read")
    /\ UNCHANGED <<approved, refs, records, posts, history, budget>>

(* retryPendingFailedSyncs: the batch is read once and served in order of   *)
(* lastAttempted, here in any order.                                        *)
CronStart(p) ==
    LET rows == UNION {{e} \X DOMAIN records[e] : e \in Entry}
        batch == {b \in rows : Eligible(records[b[1]][b[2]])}
    IN
    /\ At(p, "idle")
    /\ batch # {}
    /\ Become(p, [pc |-> "cron_next", batch |-> batch])
    /\ UNCHANGED <<store, posts, history, budget>>

CronNext(p) ==
    LET batch == proc[p].batch IN
    /\ At(p, "cron_next")
    /\ \/ /\ batch = {}
          /\ Become(p, None)
       \/ \E b \in batch :
             Become(p, [Task("retry_read", "cron", b[1], 0) EXCEPT !.batch = batch \ {b}])
    /\ UNCHANGED <<store, posts, history, budget>>

-----------------------------------------------------------------------------
(* The admin's force retry: an open record is given a fresh window, then    *)
(* the entry is retried.                                                    *)
ForceStart(p, e) ==
    /\ At(p, "idle")
    /\ AdminActs("force")
    /\ \E k \in OpenRows(e) :
          Become(p, [Task("force_write", "admin", e, 0) EXCEPT !.row = k])
    /\ UNCHANGED <<store, posts, history>>

(* Mutant: a force retry that clears the class.                             *)
ForceWriteUnclassified(p) ==
    LET w == proc[p] IN
    /\ At(p, "force_write")
    /\ records' = [records EXCEPT ![w.entry][w.row].class = "none"]
    /\ Goto(p, "retry_read")
    /\ UNCHANGED <<approved, refs, logs, posts, history, budget>>

ForceWrite(p) ==
    LET w == proc[p] IN
    /\ At(p, "force_write")
    /\ records' = [records EXCEPT ![w.entry] =
          [@ EXCEPT ![w.row].dead = FALSE, ![w.row].class = "transient", ![w.row].count = 0]]
    /\ Goto(p, "retry_read")
    /\ UNCHANGED <<approved, refs, logs, posts, history, budget>>

(* An admin lists the failed records: an entry with a failed log and no     *)
(* open record gets one, from its latest log.                               *)
BackfillStart(p, e) ==
    LET latest == logs[e][Len(logs[e])] IN
    /\ At(p, "idle")
    /\ AdminActs("list")
    /\ logs[e] # <<>>
    /\ OpenRows(e) = {}
    /\ Become(p, [Task("backfill_create", "admin", e, 0) EXCEPT
                      !.n = latest.count, !.class = latest.class])
    /\ listed' = TRUE
    /\ UNCHANGED <<store, posts, tries>>

BackfillCreate(p) ==
    LET w == proc[p] IN
    /\ At(p, "backfill_create")
    /\ records' = [records EXCEPT ![w.entry] =
          Append(@, [count |-> w.n, class |-> w.class, open |-> TRUE,
                     dead |-> Exhausted(w.class, w.n, MaxBackfill)])]
    /\ Become(p, None)
    /\ UNCHANGED <<approved, refs, logs, posts, history, budget>>

-----------------------------------------------------------------------------
(* A database error inside the push is caught and logged as a failure of    *)
(* the push; anywhere else it ends the request or the run of the job.       *)
DatabaseError(p) ==
    /\ proc[p].pc \notin {"idle", "send"}
    /\ IF proc[p].pc \in {"save", "log_success", "resolve"}
       THEN \E c \in Class : Fail(p, c)
       ELSE Become(p, None)
    /\ Fault
    /\ UNCHANGED <<store, posts, history>>

(* The backend restarts: every request in flight is gone.                   *)
Restart ==
    /\ \E p \in Process : ~At(p, "idle")
    /\ proc' = [p \in Process |-> None]
    /\ Fault
    /\ UNCHANGED <<store, posts, history>>

(* A stale edit, submission or rejection takes the row out of Approved.     *)
Withdraw(e) ==
    /\ e \in approved
    /\ approved' = approved \ {e}
    /\ Fault
    /\ UNCHANGED <<refs, logs, records, proc, posts, history>>

PushStep(p) ==
    \/ Read(p) \/ Prepare(p) \/ Send(p) \/ SaveRef(p) \/ LogSuccess(p) \/ Resolve(p)
    \/ FailRead(p) \/ FailLog(p) \/ FailFind(p) \/ FailWrite(p)

RetryStep(p) == RetryRead(p) \/ RetryLog(p) \/ RetryBump(p) \/ CronNext(p)

AdminStep(p) == ForceWrite(p) \/ BackfillCreate(p)

Next ==
    \/ \E p \in Process :
          \/ PushStep(p) \/ RetryStep(p) \/ AdminStep(p)
          \/ CronStart(p)
          \/ \E e \in Entry : Approve(p, e) \/ RetryStart(p, e) \/ ForceStart(p, e)
                              \/ BackfillStart(p, e)
          \/ DatabaseError(p)
    \/ Restart
    \/ \E e \in Entry : Withdraw(e)

Spec == Init /\ [][Next]_vars

(* Requests run to their end, and the hourly job comes around.              *)
Fairness ==
    /\ \A p \in Process : WF_vars(PushStep(p) \/ RetryStep(p) \/ AdminStep(p))
    /\ WF_vars(\E p \in Process : CronStart(p))

FairSpec == Spec /\ Fairness

-----------------------------------------------------------------------------
Synced(e) == {i \in DOMAIN refs[e] : refs[e][i] # 0}
Saving(e) == {p \in Process : At(p, "save") /\ proc[p].entry = e}

(* Keka holds one time entry for every approval that was pushed, and at     *)
(* most one extra for every fault, however often a push is retried.         *)
NoUnexplainedPosts ==
    \A e \in Entry :
        posts[e] <= Cardinality(Synced(e)) + Cardinality(Saving(e)) + faults

(* An entry is tried once for each approval, at most once for each admin    *)
(* action, and less than MaxRetries times by the hourly job, whatever fails *)
(* and whenever the backend restarts.                                       *)
RetriesBounded ==
    \A e \in Entry : tries[e] < Len(refs[e]) + admins + MaxRetries

AtRest == \A p \in Process : At(p, "idle")

(* As long as nothing breaks, an approved entry that Keka has not taken     *)
(* stays visible: when nothing is in flight it has an open record, however  *)
(* the pushes of its approvals, retries and the job interleaved.            *)
NothingForgotten ==
    faults = 0 /\ AtRest =>
        \A e \in approved : Synced(e) # {} \/ OpenRows(e) # {}

StillOpen(e) == refs[e] # <<>> /\ refs[e][Len(refs[e])] # 0 /\ OpenRows(e) # {}

(* A push that goes through closes every record of its entry, so when       *)
(* nothing is in flight, nothing broke and nobody listed the records, none  *)
(* is left open for an entry whose latest approval has its ref.             *)
PushResolves == faults = 0 /\ ~listed /\ AtRest => \A e \in Entry : ~StillOpen(e)

(* What may come between the two counters of an entry: a second approval,   *)
(* whose push overlaps, an admin or a fault.                                *)
Disturbed(e) == Len(refs[e]) > 1 \/ admins > 0 \/ faults > 0

(* retryTimesheetSync returns to the hourly job without a try.              *)
LeftAlone(e) ==
    \/ e \notin approved
    \/ refs[e][Len(refs[e])] # 0
    \/ LatestCount(e) >= MaxRetries

=============================================================================
