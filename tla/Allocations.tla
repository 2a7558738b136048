---------------------------- MODULE Allocations ----------------------------
(***************************************************************************)
(* The allocations of one employee to projects: ProjectTeamService adds,   *)
(* edits and removes them, AllocationApprovalService decides those that    *)
(* would book the employee beyond capacity, AllocationPushService sends    *)
(* the active ones to Keka, and the hourly job and the admin retry what    *)
(* failed.                                                                 *)
(*                                                                         *)
(* Capacity is the employee's, so one employee is enough.  Dates are left  *)
(* out: all allocations overlap.  Every query is a step.  A handler stands *)
(* for a request and for the push that it leaves behind when it has been   *)
(* answered.  Keka may take an allocation, refuse it, or take it and lose  *)
(* the reply.                                                              *)
(***************************************************************************)
EXTENDS Integers, Sequences, SequencesExt, FiniteSetsExt

CONSTANTS
    Row,         \* rows of the allocations table
    Project,
    Person,      \* users who edit teams and decide requests
    Handler,     \* requests, pushes and runs of the job in flight
    Hours,       \* weekly hours of an allocation
    Capacity,    \* weeklyHours of the employee
    Modes,       \* values that the threshold policy may take: "warn", "block", "approve"
    MaxRetries,  \* KEKA_FAILED_SYNC_MAX_RETRIES
    Batch,       \* rows that a run of the job takes
    MaxFailures, \* bound: answers of Keka that are not a success
    MaxCalls     \* bound: requests and pushes that users start

ASSUME AllocationsAssumption ==
    /\ Hours \subseteq Nat \ {0}
    /\ Capacity \in Nat
    /\ Modes \subseteq {"warn", "block", "approve"}
    /\ MaxRetries \in Nat \ {0}
    /\ Batch \in Nat \ {0}
    /\ MaxFailures \in Nat
    /\ MaxCalls \in Nat

CONSTANT Nobody
ASSUME NobodyAssumption == Nobody \notin Row \cup Project \cup Person

VARIABLES
    alloc,     \* the rows
    records,   \* FailedSyncRecord rows of allocations, least recently attempted first
    keka,      \* allocations that Keka holds for each row
    work,      \* the handlers
    failures,  \* answers of Keka that were not a success
    calls,     \* requests and pushes that users have started
    crossed,   \* history: two requests were in flight at once
    raced,     \* history: rows with two pushes in flight at once
    unheard    \* history: rows for which Keka's reply was lost

vars == <<alloc, records, keka, work, failures, calls, crossed, raced, unheard>>

(* reason: overrideReason is set; synced: kekaSyncRef is.                   *)
Allocation ==
    [status: {"free", "Pending", "Active", "Rejected", "Removed"},
     project: Project \cup {Nobody}, hours: Hours \cup {0}, reason: BOOLEAN,
     asker: Person \cup {Nobody}, approver: Person \cup {Nobody}, synced: BOOLEAN]
Free == [status |-> "free", project |-> Nobody, hours |-> 0, reason |-> FALSE,
         asker |-> Nobody, approver |-> Nobody, synced |-> FALSE]

(* dead: dead-lettered, or of the permanent class, which is the same to the
   code; open: not resolved.                                                *)
Record == [id: Nat, row: Row, count: Nat, dead: BOOLEAN, open: BOOLEAN]

RequestPc == {"add_check", "add_create", "update_write", "approve_write", "reject_write"}
PushPc == {"push_read", "push_send", "push_save", "push_resolve", "fail_find", "fail_write"}
Outcome == {"none", "active", "override", "pending"}
(* outcome: what resolveThresholdOutcome said; at: a record id, 0 for none;
   batch: records that a run of the job has still to serve, each with its place
   when they were read.                                                     *)
Work ==
    [pc: {"idle"} \cup RequestPc \cup PushPc, row: Row \cup {Nobody},
     project: Project \cup {Nobody}, actor: Person \cup {Nobody}, hours: Hours \cup {0},
     outcome: Outcome, at: Nat, batch: SUBSET (Nat \X Row)]
Idle == [pc |-> "idle", row |-> Nobody, project |-> Nobody, actor |-> Nobody, hours |-> 0,
         outcome |-> "none", at |-> 0, batch |-> {}]

TypeOK ==
    /\ alloc \in [Row -> Allocation]
    /\ records \in Seq(Record)
    /\ keka \in [Row -> Nat]
    /\ work \in [Handler -> Work]
    /\ failures \in 0..MaxFailures
    /\ calls \in 0..MaxCalls
    /\ crossed \in BOOLEAN
    /\ raced \subseteq Row
    /\ unheard \subseteq Row

Init ==
    /\ alloc = [r \in Row |-> Free]
    /\ records = <<>>
    /\ keka = [r \in Row |-> 0]
    /\ work = [h \in Handler |-> Idle]
    /\ failures = 0
    /\ calls = 0
    /\ crossed = FALSE
    /\ raced = {}
    /\ unheard = {}

-----------------------------------------------------------------------------
(* Helpers.                                                                 *)

IsActive(r) == alloc[r].status = "Active"
OnTeam(r) == alloc[r].status \in {"Active", "Pending"}

(* sumOverlappingAllocationHours                                            *)
Booked(R) == MapThenSumSet(LAMBDA r : alloc[r].hours, R)

(* Mutant: an edit looks only at the team it is made on.                    *)
OthersHere(r) == {s \in Row \ {r} : IsActive(s) /\ alloc[s].project = alloc[r].project}
(* What counts beside an edited row; what counts beside a new one.          *)
Others(r) == {s \in Row \ {r} : IsActive(s)}
Elsewhere(p) == {s \in Row : IsActive(s) /\ alloc[s].project # p}

(* resolveThresholdOutcome; a request that is blocked changes nothing.      *)
Outcomes(over) ==
    IF ~over THEN {"active"}
    ELSE {CASE m = "approve" -> "pending" [] m = "warn" -> "override" : m \in Modes \ {"block"}}

Settled(row, outcome, actor) ==
    IF outcome = "none" THEN row
    ELSE [row EXCEPT !.status = IF outcome = "pending" THEN "Pending" ELSE "Active",
                     !.approver = IF outcome = "pending" THEN Nobody ELSE actor,
                     !.asker = IF outcome = "pending" THEN actor ELSE Nobody,
                     !.reason = outcome # "active"]

Goto(h, pc) == work' = [work EXCEPT ![h].pc = pc]
Pushes(r, batch) == [Idle EXCEPT !.pc = "push_read", !.row = r, !.batch = batch]
First(b, batch) == b \in batch /\ \A c \in batch : b[1] <= c[1]
(* A push ends; a run of the job goes on with its next row.                 *)
EndPush(h) ==
    LET batch == work[h].batch
    IN  \/ batch = {} /\ work' = [work EXCEPT ![h] = Idle]
        \/ \E b \in batch :
              First(b, batch) /\ work' = [work EXCEPT ![h] = Pushes(b[2], batch \ {b})]
(* A request is answered, and leaves a push of an active row behind.        *)
Answer(h, r, status) ==
    work' = [work EXCEPT ![h] = IF status = "Active" THEN Pushes(r, {}) ELSE Idle]

Called == calls < MaxCalls /\ calls' = calls + 1
Requested == Called /\ crossed' = (crossed \/ \E h \in Handler : work[h].pc \in RequestPc)

keka_side == <<records, keka, failures, raced, unheard>>
pmo_side == <<alloc, calls, crossed>>

-----------------------------------------------------------------------------
(* ProjectTeamService.                                                      *)

(* addMembers: planAllocationCreate reads the bookings, then whether the
   employee is on the team; the row is created at the end.                  *)
AddPlan(h, actor, p, n) ==
    /\ work[h].pc = "idle"
    /\ \E o \in Outcomes(Booked(Elsewhere(p)) + n > Capacity) :
          work' = [work EXCEPT ![h] = [Idle EXCEPT !.pc = "add_check", !.project = p,
                                                  !.actor = actor, !.hours = n, !.outcome = o]]
    /\ Requested
    /\ UNCHANGED <<alloc, keka_side>>

(* Mutant: a pending allocation does not count.                             *)
AddCheckActive(h) ==
    /\ work[h].pc = "add_check"
    /\ \/ /\ \E r \in Row : IsActive(r) /\ alloc[r].project = work[h].project
          /\ work' = [work EXCEPT ![h] = Idle]
       \/ /\ ~\E r \in Row : IsActive(r) /\ alloc[r].project = work[h].project
          /\ Goto(h, "add_create")
    /\ UNCHANGED <<pmo_side, keka_side>>

AddCheck(h) ==
    /\ work[h].pc = "add_check"
    /\ \/ /\ \E r \in Row : OnTeam(r) /\ alloc[r].project = work[h].project
          /\ work' = [work EXCEPT ![h] = Idle]
       \/ /\ ~\E r \in Row : OnTeam(r) /\ alloc[r].project = work[h].project
          /\ Goto(h, "add_create")
    /\ UNCHANGED <<pmo_side, keka_side>>

AddCreate(h) ==
    /\ work[h].pc = "add_create"
    /\ \E r \in Row :
          /\ alloc[r].status = "free"
          /\ alloc' = [alloc EXCEPT ![r] =
                Settled([Free EXCEPT !.project = work[h].project, !.hours = work[h].hours],
                        work[h].outcome, work[h].actor)]
          /\ Answer(h, r, alloc'[r].status)
    /\ UNCHANGED <<calls, crossed, keka_side>>

(* updateMember reads the row with the bookings.  An edit changes the hours
   (n > 0), or only dates (the policy is asked only when over), or only the
   role or the backup.                                                      *)
UpdateRead(h, actor, r, n, dates) ==
    /\ work[h].pc = "idle"
    /\ OnTeam(r)
    /\ LET over == Booked(Others(r)) + (IF n > 0 THEN n ELSE alloc[r].hours) > Capacity
           asked == n > 0 \/ (dates /\ over)
       IN  \E o \in IF asked THEN Outcomes(over) ELSE {"none"} :
             work' = [work EXCEPT ![h] = [Idle EXCEPT !.pc = "update_write", !.row = r,
                                                     !.actor = actor, !.hours = n, !.outcome = o]]
    /\ Requested
    /\ UNCHANGED <<alloc, keka_side>>

(* Mutant: an edit does not push.                                           *)
UpdateWriteQuiet(h) ==
    /\ work[h].pc = "update_write"
    /\ LET r == work[h].row
           edited == IF work[h].hours = 0 THEN alloc[r] ELSE [alloc[r] EXCEPT !.hours = work[h].hours]
       IN  alloc' = [alloc EXCEPT ![r] = Settled(edited, work[h].outcome, work[h].actor)]
    /\ work' = [work EXCEPT ![h] = Idle]
    /\ UNCHANGED <<calls, crossed, keka_side>>

(* By id: whatever the row has become is overwritten.                       *)
UpdateWrite(h) ==
    /\ work[h].pc = "update_write"
    /\ LET r == work[h].row
           edited == IF work[h].hours = 0 THEN alloc[r] ELSE [alloc[r] EXCEPT !.hours = work[h].hours]
       IN  /\ alloc' = [alloc EXCEPT ![r] = Settled(edited, work[h].outcome, work[h].actor)]
           /\ Answer(h, r, alloc'[r].status)
    /\ UNCHANGED <<calls, crossed, keka_side>>

(* removeMember decides nothing from what it reads.                         *)
RemoveMember(r) ==
    /\ alloc[r].status # "free"
    /\ alloc' = [alloc EXCEPT ![r].status = "Removed"]
    /\ Requested
    /\ UNCHANGED <<work, keka_side>>

-----------------------------------------------------------------------------
(* AllocationApprovalService.                                               *)

(* Mutant: those who asked may decide.                                      *)
DecideReadAnyone(h, actor, r, pc) ==
    /\ work[h].pc = "idle"
    /\ alloc[r].status = "Pending"
    /\ work' = [work EXCEPT ![h] = [Idle EXCEPT !.pc = pc, !.row = r, !.actor = actor]]
    /\ Requested
    /\ UNCHANGED <<alloc, keka_side>>

(* getPendingAllocation, and not by who asked.                              *)
DecideRead(h, actor, r, pc) ==
    /\ work[h].pc = "idle"
    /\ alloc[r].status = "Pending"
    /\ alloc[r].asker # actor
    /\ work' = [work EXCEPT ![h] = [Idle EXCEPT !.pc = pc, !.row = r, !.actor = actor]]
    /\ Requested
    /\ UNCHANGED <<alloc, keka_side>>

DecideWrite(h, pc, status) ==
    /\ work[h].pc = pc
    /\ alloc' = [alloc EXCEPT ![work[h].row] =
          [@ EXCEPT !.status = status, !.approver = work[h].actor]]
    /\ Answer(h, work[h].row, status)
    /\ UNCHANGED <<calls, crossed, keka_side>>

ApproveWrite(h) == DecideWrite(h, "approve_write", "Active")
(* Mutant: a status that no query knows.                                    *)
RejectWriteOdd(h) == DecideWrite(h, "reject_write", "Declined")
RejectWrite(h) == DecideWrite(h, "reject_write", "Rejected")

-----------------------------------------------------------------------------
(* pushAllocation.                                                          *)

Pushing(h, r) == work[h].pc \in PushPc \ {"push_read"} /\ work[h].row = r
Racing(h) == IF \E g \in Handler \ {h} : Pushing(g, work[h].row) THEN {work[h].row} ELSE {}

(* Mutant: the ref is not looked at.                                        *)
PushReadAgain(h) ==
    /\ work[h].pc = "push_read"
    /\ IF ~IsActive(work[h].row)
       THEN EndPush(h) /\ UNCHANGED raced
       ELSE Goto(h, "push_send") /\ raced' = raced \cup Racing(h)
    /\ UNCHANGED <<pmo_side, records, keka, failures, unheard>>

PushRead(h) ==
    /\ work[h].pc = "push_read"
    /\ IF ~IsActive(work[h].row) \/ alloc[work[h].row].synced
       THEN EndPush(h) /\ UNCHANGED raced
       ELSE Goto(h, "push_send") /\ raced' = raced \cup Racing(h)
    /\ UNCHANGED <<pmo_side, records, keka, failures, unheard>>

(* The project is linked, the client and the billing role looked up, and the
   allocation posted; any of these may fail.                                *)
PushSend(h) ==
    /\ work[h].pc = "push_send"
    /\ \/ Goto(h, "push_save") /\ UNCHANGED failures
       \/ failures < MaxFailures /\ failures' = failures + 1 /\ Goto(h, "fail_find")
    /\ \/ keka' = [keka EXCEPT ![work[h].row] = @ + 1]
       \/ keka' = keka /\ failures' # failures
    /\ unheard' = IF keka' # keka /\ failures' # failures
                  THEN unheard \cup {work[h].row} ELSE unheard
    /\ UNCHANGED <<pmo_side, records, raced>>

(* The ref, then the success log.                                           *)
PushSave(h) ==
    /\ work[h].pc = "push_save"
    /\ alloc' = [alloc EXCEPT ![work[h].row].synced = TRUE]
    /\ Goto(h, "push_resolve")
    /\ UNCHANGED <<calls, crossed, keka_side>>

(* Mutant: a success closes no record.                                      *)
PushResolveNothing(h) ==
    /\ work[h].pc = "push_resolve"
    /\ EndPush(h)
    /\ UNCHANGED <<pmo_side, keka_side>>

(* resolveFailedSyncRecord                                                  *)
PushResolve(h) ==
    /\ work[h].pc = "push_resolve"
    /\ records' = [i \in DOMAIN records |->
          IF records[i].row = work[h].row THEN [records[i] EXCEPT !.open = FALSE] ELSE records[i]]
    /\ EndPush(h)
    /\ UNCHANGED <<pmo_side, keka, failures, raced, unheard>>

(* logFailure: the failed log, then upsertFailedSyncRecord.                 *)
OpenOf(r) == {records[i].id : i \in {k \in DOMAIN records : records[k].row = r /\ records[k].open}}

FailFind(h) ==
    /\ work[h].pc = "fail_find"
    /\ \E id \in IF OpenOf(work[h].row) = {} THEN {0} ELSE OpenOf(work[h].row) :
          work' = [work EXCEPT ![h] = [@ EXCEPT !.pc = "fail_write", !.at = id]]
    /\ UNCHANGED <<pmo_side, keka_side>>

(* A row that was attempted now goes to the end.                            *)
Attempted(i, rec) == Append(RemoveAt(records, i), rec)

FailWrite(h) ==
    /\ work[h].pc = "fail_write"
    /\ \E permanent \in BOOLEAN :
          \/ /\ work[h].at = 0
             /\ records' = Append(records,
                   [id |-> Len(records) + 1, row |-> work[h].row, count |-> 1,
                    dead |-> permanent \/ 1 >= MaxRetries, open |-> TRUE])
          \/ \E i \in DOMAIN records :
                /\ work[h].at = records[i].id
                /\ records' = Attempted(i, [records[i] EXCEPT
                      !.count = @ + 1, !.dead = permanent \/ records[i].count + 1 >= MaxRetries])
    /\ EndPush(h)
    /\ UNCHANGED <<pmo_side, keka, failures, raced, unheard>>

-----------------------------------------------------------------------------
(* Other callers of pushAllocation.                                         *)

(* The push of a timesheet whose employee Keka does not know on the project. *)
PushForTimesheet(h, r) ==
    /\ work[h].pc = "idle"
    /\ IsActive(r)
    /\ work' = [work EXCEPT ![h] = Pushes(r, {})]
    /\ Called
    /\ UNCHANGED <<alloc, crossed, keka_side>>

Eligible(rec) == rec.open /\ ~rec.dead /\ rec.count < MaxRetries
Retried ==
    LET found == {i \in DOMAIN records : Eligible(records[i])}
    IN  {<<i, records[i].row>> : i \in {k \in found : Cardinality({j \in found : j < k}) < Batch}}

(* retryPendingAllocations                                                  *)
CronStart(h) ==
    /\ work[h].pc = "idle"
    /\ \E b \in Retried :
          First(b, Retried) /\ work' = [work EXCEPT ![h] = Pushes(b[2], Retried \ {b})]
    /\ UNCHANGED <<pmo_side, keka_side>>

(* An admin's force retry: prepareFailedSyncForceRetry, then the push.      *)
ForceRetry(h, i) ==
    /\ work[h].pc = "idle"
    /\ i \in DOMAIN records /\ records[i].open
    /\ records' = Attempted(i, [records[i] EXCEPT !.count = 0, !.dead = FALSE])
    /\ work' = [work EXCEPT ![h] = Pushes(records[i].row, {})]
    /\ Called
    /\ UNCHANGED <<alloc, crossed, keka, failures, raced, unheard>>

-----------------------------------------------------------------------------
RequestStep(h) ==
    AddCheck(h) \/ AddCreate(h) \/ UpdateWrite(h) \/ ApproveWrite(h) \/ RejectWrite(h)
PushStep(h) ==
    PushRead(h) \/ PushSend(h) \/ PushSave(h) \/ PushResolve(h) \/ FailFind(h) \/ FailWrite(h)

Begin(h) ==
    /\ work[h].pc = "idle" /\ calls < MaxCalls
    /\ \/ \E actor \in Person :
             \/ \E p \in Project, n \in Hours : AddPlan(h, actor, p, n)
             \/ \E r \in Row, n \in Hours \cup {0}, dates \in BOOLEAN :
                   UpdateRead(h, actor, r, n, dates)
             \/ \E r \in Row, pc \in {"approve_write", "reject_write"} : DecideRead(h, actor, r, pc)
       \/ \E r \in Row : PushForTimesheet(h, r)
       \/ \E i \in DOMAIN records : ForceRetry(h, i)

Next ==
    \/ \E h \in Handler : Begin(h) \/ CronStart(h) \/ RequestStep(h) \/ PushStep(h)
    \/ \E r \in Row : RemoveMember(r)

Spec == Init /\ [][Next]_vars

-----------------------------------------------------------------------------
(* Properties.                                                              *)

(* As long as requests do not overlap, the employee is on each team once,
   pushes in the background notwithstanding.                                *)
OnTeamOnce ==
    ~crossed => \A r, s \in Row :
        OnTeam(r) /\ OnTeam(s) /\ alloc[r].project = alloc[s].project => r = s

(* As long as requests do not overlap, an employee who is booked beyond
   capacity is so by an allocation that states an override reason.  Each check
   looks only at what is active at that moment, and adds, edits, approvals
   and removals come in any order.                                          *)
OverbookingHasReason ==
    ~crossed /\ Booked({r \in Row : IsActive(r)}) > Capacity
        => \E r \in Row : IsActive(r) /\ alloc[r].reason

(* As long as requests do not overlap, nobody has decided on a request of
   their own, whatever edits have come between.                             *)
NotTheirOwn ==
    ~crossed => \A r \in Row :
        alloc[r].approver # Nobody => alloc[r].asker # alloc[r].approver

InPush(r) ==
    \E h \in Handler :
        /\ work[h].pc \in PushPc
        /\ work[h].row = r \/ \E b \in work[h].batch : b[2] = r
Recorded(r) == \E i \in DOMAIN records : records[i].row = r /\ records[i].open

(* An active allocation that Keka does not know is being pushed, or there is an
   open record of its failure, however requests, pushes and retries interleave. *)
FollowedUp ==
    \A r \in Row : IsActive(r) /\ ~alloc[r].synced => InPush(r) \/ Recorded(r)

(* Keka holds an allocation twice only if a reply was lost or two pushes of
   it overlapped: a retry that comes later finds the ref.                   *)
HeldOnce == \A r \in Row : keka[r] > 1 => r \in raced \cup unheard

(* Unless two pushes of it overlapped, an allocation that is synced has no
   open record left once its push is over.                                  *)
SyncedIsClosed ==
    \A r \in Row \ raced :
        alloc[r].synced /\ Recorded(r) => InPush(r)

=============================================================================
