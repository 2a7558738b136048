---------------------------- MODULE ImportQueue ----------------------------
(***************************************************************************)
(* The queue of imports of one user: ImportsJobsService, the cleanup of    *)
(* ImportsProcessor, and the Redis keys and Bull jobs they share.  One     *)
(* import of a user is meant to run at a time; the others wait in a list   *)
(* until the running one takes out the next.                               *)
(*                                                                         *)
(* Users share nothing but the workers, so one user is enough.  Every call *)
(* to Redis or Bull is a step.                                             *)
(***************************************************************************)
EXTENDS Integers, Sequences, FiniteSets

CONSTANTS
    Import,      \* requests of the user, each with its import, numbered as they arrive
    Job,         \* ids of Bull jobs, numbers handed out in order
    MaxPerUser,  \* IMPORT_MAX_PER_USER
    MaxFaults    \* bound: Redis errors, restarts, expired locks

ASSUME ImportAssumption ==
    /\ Import \subseteq Nat \ {0}
    /\ Job \subseteq Nat
    /\ MaxPerUser \in Nat \ {0}
    /\ MaxFaults \in Nat

VARIABLES
    lock,      \* whether the user's lock is set
    pending,   \* the user's list of imports that wait
    record,    \* what a client that polls reads of its import
    req,       \* the requests
    job,       \* the jobs, each with its handler
    stranded,  \* history: an import was put in the list when nobody was left to take it
    faults     \* faults so far

store == <<lock, pending, record>>
vars == <<store, req, job, stranded, faults>>

Nobody == 0

(* seen: a job of the user was found; tried: the lock was.                  *)
ReqPc == {"new", "find", "count", "lock", "add", "undo", "push", "save",
          "started", "queued", "refused", "failed"}
Request == [pc: ReqPc, seen: BOOLEAN, tried: BOOLEAN]

(* next: the import taken from the list; stalled: a restart has requeued it. *)
JobPc == {"none", "waiting", "work", "take", "relock", "restart",
          "note", "unlock", "give_back", "close", "finished"}
JobState == [pc: JobPc, import: Import \cup {Nobody}, next: Import \cup {Nobody},
             stalled: BOOLEAN]

TypeOK ==
    /\ lock \in BOOLEAN
    /\ pending \in Seq(Import)
    /\ record \in [Import -> {"none", "queued", "started"}]
    /\ req \in [Import -> Request]
    /\ job \in [Job -> JobState]
    /\ stranded \in BOOLEAN
    /\ faults \in 0..MaxFaults

Init ==
    /\ lock = FALSE
    /\ pending = <<>>
    /\ record = [i \in Import |-> "none"]
    /\ req = [i \in Import |-> [pc |-> "new", seen |-> FALSE, tried |-> FALSE]]
    /\ job = [j \in Job |-> [pc |-> "none", import |-> Nobody, next |-> Nobody, stalled |-> FALSE]]
    /\ stranded = FALSE
    /\ faults = 0

-----------------------------------------------------------------------------
(* Helpers.                                                                 *)

(* The job lists that findActiveJobForUser asks for.  A job stays active in
   Bull until its handler has returned, its cleanup included.               *)
Unfinished(j) == job[j].pc \notin {"none", "finished"}
ActiveJob == \E j \in Job : Unfinished(j)

(* A job that has not looked into the list yet.                             *)
WillTake(j) == job[j].pc \in {"waiting", "work", "take"}
(* Somebody will look into the list: such a job, or one about to be added.  A
   job that tries the lock will add one, unless somebody else who will holds it. *)
Waker ==
    \/ \E j \in Job : WillTake(j) \/ job[j].pc \in {"relock", "restart"}
    \/ \E i \in Import : req[i].pc = "add"

ReqGoto(i, pc) == req' = [req EXCEPT ![i].pc = pc]
JobGoto(j, pc) == job' = [job EXCEPT ![j].pc = pc]

(* importsQueue.add                                                         *)
NextJob(j) == job[j].pc = "none" /\ \A k \in Job : k < j => job[k].pc # "none"
NewJob(i) == [pc |-> "waiting", import |-> i, next |-> Nobody, stalled |-> FALSE]

(* Mutant: the lock is taken for granted.                                   *)
SetNxUnchecked(got) == got = TRUE /\ lock' = TRUE
(* redis.setNx: whether the key was set.                                    *)
SetNx(got) == got = ~lock /\ lock' = TRUE

-----------------------------------------------------------------------------
(* enqueue                                                                  *)

Asks(i) ==
    \/ req[i].pc = "new" /\ \A k \in Import : k < i => req[k].pc # "new"
    \/ req[i].pc = "find"

FindActive(i) ==
    /\ Asks(i)
    /\ req' = [req EXCEPT ![i] = [@ EXCEPT !.pc = "count", !.seen = ActiveJob]]
    /\ UNCHANGED <<store, job, stranded, faults>>

Full(i) == Len(pending) + (IF req[i].seen THEN 1 ELSE 0) >= MaxPerUser

Count(i) ==
    /\ req[i].pc = "count"
    /\ \/ Full(i) /\ ReqGoto(i, "refused")
       \/ ~Full(i) /\ (req[i].seen \/ req[i].tried) /\ ReqGoto(i, "push")
       \/ ~Full(i) /\ ~req[i].seen /\ ~req[i].tried /\ ReqGoto(i, "lock")
    /\ UNCHANGED <<store, job, stranded, faults>>

TryLock(i) ==
    /\ req[i].pc = "lock"
    /\ \E got \in BOOLEAN :
          /\ SetNx(got)
          /\ req' = [req EXCEPT ![i] = [@ EXCEPT !.pc = IF got THEN "add" ELSE "find", !.tried = TRUE]]
    /\ UNCHANGED <<pending, record, job, stranded, faults>>

JobAdded(i) ==
    /\ \E j \in Job : NextJob(j) /\ job' = [job EXCEPT ![j] = NewJob(i)]
    /\ stranded' = FALSE

(* The reply, with the length of the list, follows.                         *)
AddJob(i) ==
    /\ req[i].pc = "add"
    /\ JobAdded(i)
    /\ ReqGoto(i, "started")
    /\ UNCHANGED <<store, faults>>

(* Adding or counting failed: the lock is deleted and the error thrown.     *)
Undo(i) ==
    /\ req[i].pc = "undo"
    /\ lock' = FALSE
    /\ ReqGoto(i, "failed")
    /\ UNCHANGED <<pending, record, job, stranded, faults>>

Push(i) ==
    /\ req[i].pc = "push"
    /\ pending' = Append(pending, i)
    /\ stranded' = (stranded \/ ~Waker)
    /\ ReqGoto(i, "save")
    /\ UNCHANGED <<lock, record, job, faults>>

SaveQueued(i) ==
    /\ req[i].pc = "save"
    /\ record' = [record EXCEPT ![i] = "queued"]
    /\ ReqGoto(i, "queued")
    /\ UNCHANGED <<lock, pending, job, stranded, faults>>

-----------------------------------------------------------------------------
(* A job: the import itself, and releaseUserLockAndStartNext at its end.    *)

Work(j) ==
    /\ job[j].pc = "waiting"
    /\ JobGoto(j, "work")
    /\ UNCHANGED <<store, req, stranded, faults>>

(* Mutant: the cleanup is left out after a failure.                         *)
WorkEndsUncleaned(j) ==
    /\ job[j].pc = "work"
    /\ \/ JobGoto(j, "take") /\ lock' = FALSE
       \/ JobGoto(j, "close") /\ UNCHANGED lock
    /\ UNCHANGED <<pending, record, req, stranded, faults>>

(* The import is done or has failed; the cleanup deletes the lock either way. *)
WorkEnds(j) ==
    /\ job[j].pc = "work"
    /\ lock' = FALSE
    /\ JobGoto(j, "take")
    /\ UNCHANGED <<pending, record, req, stranded, faults>>

Take(j) ==
    /\ job[j].pc = "take"
    /\ \/ /\ pending = <<>>
          /\ JobGoto(j, "close")
          /\ UNCHANGED pending
       \/ /\ pending # <<>>
          /\ pending' = Tail(pending)
          /\ job' = [job EXCEPT ![j] = [@ EXCEPT !.pc = "relock", !.next = Head(pending)]]
    /\ UNCHANGED <<lock, record, req, stranded, faults>>

Relock(j) ==
    /\ job[j].pc = "relock"
    /\ \E got \in BOOLEAN :
          SetNx(got) /\ JobGoto(j, IF got THEN "restart" ELSE "give_back")
    /\ UNCHANGED <<pending, record, req, stranded, faults>>

(* Mutant: the client is told before there is a job.                        *)
StartNextTold(j) ==
    /\ job[j].pc = "restart"
    /\ record' = [record EXCEPT ![job[j].next] = "started"]
    /\ JobGoto(j, "note")
    /\ UNCHANGED <<lock, pending, req, stranded, faults>>

StartNext(j) ==
    /\ job[j].pc = "restart"
    /\ \E k \in Job :
          /\ NextJob(k)
          /\ job' = [job EXCEPT ![k] = NewJob(job[j].next), ![j].pc = "note"]
    /\ stranded' = FALSE
    /\ UNCHANGED <<store, req, faults>>

SaveStarted(j) ==
    /\ job[j].pc = "note"
    /\ record' = [record EXCEPT ![job[j].next] = "started"]
    /\ job' = [job EXCEPT ![j] = [@ EXCEPT !.pc = "close", !.next = Nobody]]
    /\ UNCHANGED <<lock, pending, req, stranded, faults>>

(* Starting failed: the lock is deleted, then the import goes back.         *)
Unlock(j) ==
    /\ job[j].pc = "unlock"
    /\ lock' = FALSE
    /\ JobGoto(j, "give_back")
    /\ UNCHANGED <<pending, record, req, stranded, faults>>

(* Mutant: the import that was taken out is not put back.                   *)
GiveBackNothing(j) ==
    /\ job[j].pc = "give_back"
    /\ job' = [job EXCEPT ![j] = [@ EXCEPT !.pc = "close", !.next = Nobody]]
    /\ UNCHANGED <<store, req, stranded, faults>>

GiveBack(j) ==
    /\ job[j].pc = "give_back"
    /\ pending' = <<job[j].next>> \o pending
    /\ stranded' = (stranded \/ ~Waker)
    /\ job' = [job EXCEPT ![j] = [@ EXCEPT !.pc = "close", !.next = Nobody]]
    /\ UNCHANGED <<lock, record, req, faults>>

(* Bull moves the job out of its active list.                               *)
Close(j) ==
    /\ job[j].pc = "close"
    /\ JobGoto(j, "finished")
    /\ UNCHANGED <<store, req, stranded, faults>>

-----------------------------------------------------------------------------
(* Faults.                                                                  *)

Fault == faults < MaxFaults /\ faults' = faults + 1

(* A call of a request throws; after "add" it may be the one that counts the
   list once the job has been added.                                        *)
RequestError(i) ==
    /\ Fault
    /\ \/ /\ \/ Asks(i)
             \/ req[i].pc \in {"count", "lock", "undo", "push", "save"}
          /\ ReqGoto(i, "failed")
          /\ UNCHANGED <<job, stranded>>
       \/ /\ req[i].pc = "add"
          /\ ReqGoto(i, "undo")
          /\ JobAdded(i) \/ UNCHANGED <<job, stranded>>
    /\ UNCHANGED store

(* A call of a cleanup throws: what it holds in its hand is gone, except
   where the code catches it.                                               *)
CleanupError(j) ==
    /\ Fault
    /\ \/ /\ job[j].pc \in {"work", "take", "relock", "unlock", "give_back"}
          /\ job' = [job EXCEPT ![j] = [@ EXCEPT !.pc = "close", !.next = Nobody]]
       \/ job[j].pc \in {"restart", "note"} /\ JobGoto(j, "unlock")
    /\ UNCHANGED <<store, req, stranded>>

(* Bull requeues a job whose worker is gone once, then fails it without
   running its handler (maxStalledCount).                                   *)
AfterRestart(s) ==
    IF s.pc \in {"none", "waiting", "finished"} THEN s
    ELSE [s EXCEPT !.pc = IF s.stalled THEN "finished" ELSE "waiting",
                   !.next = Nobody, !.stalled = TRUE]

Answered(i) == req[i].pc \in {"new", "started", "queued", "refused", "failed"}

Restart ==
    /\ Fault
    /\ job' = [j \in Job |-> AfterRestart(job[j])]
    /\ req' = [i \in Import |-> IF Answered(i) THEN req[i] ELSE [req[i] EXCEPT !.pc = "failed"]]
    /\ UNCHANGED <<store, stranded>>

(* IMPORT_LOCK_TTL_SECONDS have passed.                                     *)
Expire ==
    /\ Fault
    /\ lock
    /\ lock' = FALSE
    /\ UNCHANGED <<pending, record, req, job, stranded>>

-----------------------------------------------------------------------------
RequestStep(i) ==
    \/ FindActive(i) \/ Count(i) \/ TryLock(i) \/ AddJob(i) \/ Undo(i)
    \/ Push(i) \/ SaveQueued(i)

JobStep(j) ==
    \/ Work(j) \/ WorkEnds(j) \/ Take(j) \/ Relock(j) \/ StartNext(j)
    \/ SaveStarted(j) \/ Unlock(j) \/ GiveBack(j) \/ Close(j)

Next ==
    \/ \E i \in Import : RequestStep(i) \/ RequestError(i)
    \/ \E j \in Job : JobStep(j) \/ CleanupError(j)
    \/ Restart
    \/ Expire

Spec == Init /\ [][Next]_vars

(* Requests that have been made and jobs that have been taken go on; the
   workers get to every job in the end.                                     *)
FairSpec ==
    /\ Spec
    /\ \A i \in Import : WF_vars(req[i].pc # "new" /\ RequestStep(i))
    /\ \A j \in Job : WF_vars(JobStep(j))

-----------------------------------------------------------------------------
(* Properties.                                                              *)

(* A job that runs, or will as soon as a worker has taken it.               *)
Runs(j) == job[j].pc \in {"waiting", "work"}

(* Unless a call failed, the backend restarted or a lock ran out, no two
   imports of a user run at the same time, although a request starts one
   itself when it finds no job, and the end of a job starts another.        *)
OneAtATime ==
    faults = 0 => \A j, k \in Job : Runs(j) /\ Runs(k) => j = k

Times(i) ==
    Cardinality({n \in DOMAIN pending : pending[n] = i})
    + Cardinality({j \in Job : job[j].import = i})
    + Cardinality({j \in Job : job[j].pc \in {"relock", "restart", "unlock", "give_back"} /\ job[j].next = i})
Accepted(i) == req[i].pc \in {"started", "save", "queued"}

(* Without faults, an import that was accepted is in exactly one place for
   ever: in the list, in the hands of a job that ends, or in one job; and one
   that was refused is nowhere.                                             *)
NoneLostOrDoubled ==
    faults = 0 => \A i \in Import : Times(i) = IF Accepted(i) THEN 1 ELSE 0

(* Without faults, an import that waits has somebody who will look into the
   list, unless it was put there when the last job had already looked: the
   next import of the user rescues it.                                      *)
Woken == faults = 0 /\ pending # <<>> => Waker \/ stranded

(* A client is told that its import has started only if there is a job for
   it, whatever fails.                                                      *)
StartedHasJob ==
    \A i \in Import : record[i] = "started" => \E j \in Job : job[j].import = i

Waits(i) == \E n \in DOMAIN pending : pending[n] = i
HasJob(i) == \E j \in Job : job[j].import = i

(* An import that waits gets its job, however the ends of jobs and new
   requests interleave, with the exceptions of Woken.                       *)
WaitingStarts ==
    \A i \in Import : Waits(i) ~> HasJob(i) \/ stranded \/ faults > 0

=============================================================================
