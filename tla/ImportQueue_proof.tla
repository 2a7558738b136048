------------------------- MODULE ImportQueue_proof -------------------------
(***************************************************************************)
(* Proofs about ImportQueue, for any number of imports and jobs: types and *)
(* who holds the lock (IInv), what a client is told (ToldInv), and in how  *)
(* many places an import is (PlaceInv).                                    *)
(***************************************************************************)
EXTENDS ImportQueue, FiniteSetTheorems, TLAPS

USE DEF Nobody

-----------------------------------------------------------------------------
(* Types.                                                                   *)

LEMMA EitherIsBoolean == ASSUME NEW a, NEW b PROVE (a \/ b) \in BOOLEAN
OBVIOUS

LEMMA InitType == ASSUME ImportAssumption, Init PROVE TypeOK
<1>1. req \in [Import -> Request] BY DEF Init, Request, ReqPc
<1>2. job \in [Job -> JobState] BY DEF Init, JobState, JobPc
<1>3. faults \in 0..MaxFaults BY DEF Init, ImportAssumption
<1>4. stranded \in BOOLEAN /\ lock \in BOOLEAN BY Zenon DEF Init
<1>5. record \in [Import -> {"none", "queued", "started"}] BY DEF Init
<1> QED BY <1>1, <1>2, <1>3, <1>4, <1>5 DEF Init, TypeOK

LEMMA ReqGotoType ==
    ASSUME TypeOK, NEW i \in Import, NEW pc \in ReqPc, ReqGoto(i, pc)
    PROVE  req' \in [Import -> Request]
BY DEF TypeOK, ReqGoto, Request

(* A request moves and changes its flags.                                   *)
LEMMA RequestType ==
    ASSUME TypeOK, NEW i \in Import, RequestStep(i), ImportAssumption
    PROVE  TypeOK'
<1> USE DEF store
<1>1. CASE FindActive(i)
  <2>1. ActiveJob \in BOOLEAN BY DEF ActiveJob
  <2>2. req' = [req EXCEPT ![i] = [@ EXCEPT !.pc = "count", !.seen = ActiveJob]]
    BY <1>1, Zenon DEF FindActive
  <2>3. req' \in [Import -> Request] BY <2>1, <2>2 DEF TypeOK, Request, ReqPc
  <2> QED BY <1>1, <2>3 DEF FindActive, TypeOK
<1>2. CASE Count(i) \/ Undo(i) \/ SaveQueued(i)
  <2>1. \E pc \in ReqPc : ReqGoto(i, pc) BY <1>2 DEF Count, Undo, SaveQueued, ReqPc
  <2>2. req' \in [Import -> Request] BY <2>1, ReqGotoType
  <2> QED BY <1>2, <2>2 DEF Count, Undo, SaveQueued, TypeOK
<1>3. CASE TryLock(i)
  <2>1. PICK pc \in {"add", "find"} : req' = [req EXCEPT ![i] = [@ EXCEPT !.pc = pc, !.tried = TRUE]]
    BY <1>3, Zenon DEF TryLock
  <2>2. req' \in [Import -> Request] BY <2>1 DEF TypeOK, Request, ReqPc
  <2> QED BY <1>3, <2>2 DEF TryLock, SetNx, TypeOK
<1>4. CASE AddJob(i)
  <2>1. PICK j \in Job : job' = [job EXCEPT ![j] = NewJob(i)]
    BY <1>4 DEF AddJob, JobAdded
  <2>2. NewJob(i) \in JobState BY DEF NewJob, JobState, JobPc
  <2>3. job' \in [Job -> JobState] BY <2>1, <2>2 DEF TypeOK
  <2>4. req' \in [Import -> Request] BY <1>4 DEF AddJob, ReqGoto, TypeOK, Request, ReqPc
  <2> QED BY <1>4, <2>3, <2>4 DEF AddJob, JobAdded, TypeOK
<1>5. CASE Push(i)
  <2>1. pending' \in Seq(Import) BY <1>5 DEF Push, TypeOK
  <2>2. stranded' \in BOOLEAN BY <1>5, EitherIsBoolean, Zenon DEF Push
  <2>3. req' \in [Import -> Request] BY <1>5 DEF Push, ReqGoto, TypeOK, Request, ReqPc
  <2> QED BY <1>5, <2>1, <2>2, <2>3 DEF Push, TypeOK
<1> QED BY <1>1, <1>2, <1>3, <1>4, <1>5 DEF RequestStep

(* A job that has taken an import out holds it until it is in a job or back. *)
Hand ==
    \A j \in Job :
        job[j].pc \in {"relock", "restart", "note", "unlock", "give_back"} => job[j].next \in Import

LEMMA JobGotoType ==
    ASSUME TypeOK, NEW j \in Job, NEW pc \in JobPc, JobGoto(j, pc)
    PROVE  job' \in [Job -> JobState]
BY DEF TypeOK, JobGoto, JobState

LEMMA JobType ==
    ASSUME TypeOK, Hand, NEW j \in Job, JobStep(j)
    PROVE  TypeOK'
<1> USE DEF store, Hand
<1>1. CASE Work(j) \/ WorkEnds(j) \/ Relock(j) \/ Unlock(j) \/ Close(j)
  <2>1. \E pc \in JobPc : JobGoto(j, pc)
    BY <1>1 DEF Work, WorkEnds, Relock, Unlock, Close, JobPc
  <2>2. job' \in [Job -> JobState] BY <2>1, JobGotoType
  <2> QED BY <1>1, <2>2 DEF TypeOK, Work, WorkEnds, Relock, Unlock, Close, SetNx
<1>2. CASE Take(j)
  <2>1. CASE pending = <<>>
    <3>1. job' \in [Job -> JobState] BY <1>2, <2>1, JobGotoType DEF Take, JobPc
    <3> QED BY <1>2, <2>1, <3>1 DEF Take, TypeOK
  <2>2. CASE pending # <<>>
    <3>1. /\ Head(pending) \in Import
          /\ Tail(pending) \in Seq(Import)
      BY <2>2 DEF TypeOK
    <3>2. job' = [job EXCEPT ![j] = [@ EXCEPT !.pc = "relock", !.next = Head(pending)]] BY <1>2, <2>2 DEF Take
    <3>3. job' \in [Job -> JobState] BY <3>1, <3>2 DEF TypeOK, JobState, JobPc
    <3> QED BY <1>2, <2>2, <3>1, <3>3 DEF Take, TypeOK
  <2> QED BY <2>1, <2>2
<1>3. CASE StartNext(j)
  <2>1. PICK k \in Job : job' = [job EXCEPT ![k] = NewJob(job[j].next), ![j].pc = "note"]
    BY <1>3 DEF StartNext
  <2>2. NewJob(job[j].next) \in JobState BY <1>3 DEF StartNext, NewJob, JobState, JobPc
  <2>3. job' \in [Job -> JobState] BY <2>1, <2>2 DEF TypeOK, JobState, JobPc
  <2> QED BY <1>3, <2>3 DEF StartNext, TypeOK
<1>4. CASE SaveStarted(j)
  <2>1. job' \in [Job -> JobState] BY <1>4 DEF SaveStarted, TypeOK, JobState, JobPc
  <2>2. record' \in [Import -> {"none", "queued", "started"}] BY <1>4 DEF SaveStarted, TypeOK
  <2> QED BY <1>4, <2>1, <2>2 DEF SaveStarted, TypeOK
<1>5. CASE GiveBack(j)
  <2>1. job' \in [Job -> JobState] BY <1>5 DEF GiveBack, TypeOK, JobState, JobPc
  <2>2. pending' \in Seq(Import) BY <1>5 DEF GiveBack, TypeOK
  <2>3. stranded' \in BOOLEAN BY <1>5, EitherIsBoolean, Zenon DEF GiveBack
  <2> QED BY <1>5, <2>1, <2>2, <2>3 DEF GiveBack, TypeOK
<1> QED BY <1>1, <1>2, <1>3, <1>4, <1>5 DEF JobStep

LEMMA FaultType ==
    ASSUME TypeOK, Hand, ImportAssumption,
           \/ \E i \in Import : RequestError(i)
           \/ \E j \in Job : CleanupError(j)
           \/ Restart
           \/ Expire
    PROVE  TypeOK'
<1>1. faults' \in 0..MaxFaults
  <2>1. Fault BY DEF RequestError, CleanupError, Restart, Expire
  <2> QED BY <2>1 DEF TypeOK, ImportAssumption, Fault
<1>2. ASSUME NEW i \in Import, RequestError(i) PROVE TypeOK'
  <2>1. req' \in [Import -> Request]
    <3>1. \E pc \in ReqPc : ReqGoto(i, pc) BY <1>2 DEF RequestError, ReqPc
    <3> QED BY <3>1, ReqGotoType
  <2>2. job' \in [Job -> JobState] /\ stranded' \in BOOLEAN
    <3>1. CASE JobAdded(i)
      <4>1. NewJob(i) \in JobState BY DEF NewJob, JobState, JobPc
      <4> QED BY <3>1, <4>1 DEF JobAdded, TypeOK
    <3>2. CASE UNCHANGED <<job, stranded>> BY <3>2 DEF TypeOK
    <3> QED BY <1>2, <3>1, <3>2 DEF RequestError
  <2> QED BY <1>1, <1>2, <2>1, <2>2 DEF RequestError, TypeOK, store
<1>3. ASSUME NEW j \in Job, CleanupError(j) PROVE TypeOK'
  <2>3. job' \in [Job -> JobState]
    <3>1. CASE JobGoto(j, "unlock") BY <3>1, JobGotoType DEF JobPc
    <3>2. CASE job' = [job EXCEPT ![j] = [@ EXCEPT !.pc = "close", !.next = Nobody]]
      BY <3>2 DEF TypeOK, JobState, JobPc
    <3> QED BY <1>3, <3>1, <3>2 DEF CleanupError
  <2> QED BY <1>1, <1>3, <2>3 DEF CleanupError, TypeOK, store
<1>4. CASE Restart
  <2>1. \A j \in Job : AfterRestart(job[j]) \in JobState
    BY DEF TypeOK, AfterRestart, JobState, JobPc
  <2>2. job' \in [Job -> JobState] BY <1>4, <2>1 DEF Restart
  <2>3. req' \in [Import -> Request] BY <1>4 DEF Restart, TypeOK, Request, ReqPc
  <2> QED BY <1>1, <1>4, <2>2, <2>3 DEF Restart, TypeOK, store
<1>5. CASE Expire BY <1>1, <1>5 DEF Expire, TypeOK
<1> QED BY <1>2, <1>3, <1>4, <1>5

LEMMA HandStep == ASSUME TypeOK, Hand, Next PROVE Hand'
<1>1. ASSUME NEW i \in Import, RequestStep(i) \/ RequestError(i) PROVE Hand'
  <2>1. job' = job \/ \E k \in Job : NextJob(k) /\ job' = [job EXCEPT ![k] = NewJob(i)]
    BY <1>1 DEF RequestStep, RequestError, FindActive, Count, TryLock, AddJob, JobAdded, Undo,
                Push, SaveQueued, store
  <2> QED BY <2>1 DEF Hand, TypeOK, NewJob
<1>2. ASSUME NEW j \in Job, JobStep(j) \/ CleanupError(j) PROVE Hand'
  <2>1. CASE Work(j) \/ WorkEnds(j) \/ Relock(j) \/ Unlock(j) \/ Close(j)
    <3>1. PICK pc \in {"work", "take", "restart", "give_back", "finished"} :
             JobGoto(j, pc) /\ (pc \in {"restart", "give_back"} => job[j].pc \in {"relock", "unlock"})
      BY <2>1 DEF Work, WorkEnds, Relock, Unlock, Close
    <3> QED BY <3>1 DEF Hand, JobGoto, TypeOK, JobState
  <2>2. CASE Take(j)
    <3>1. CASE pending = <<>> BY <2>2, <3>1 DEF Take, Hand, JobGoto, TypeOK, JobState
    <3>2. CASE pending # <<>>
      <4>1. Head(pending) \in Import BY <3>2 DEF TypeOK
      <4> QED BY <2>2, <3>2, <4>1 DEF Take, Hand, TypeOK, JobState
    <3> QED BY <3>1, <3>2
  <2>3. CASE StartNext(j) BY <2>3 DEF StartNext, NextJob, NewJob, Hand, TypeOK, JobState
  <2>4. CASE job' = [job EXCEPT ![j] = [@ EXCEPT !.pc = "close", !.next = Nobody]]
    <3>1. job'[j].pc = "close" BY <2>4 DEF TypeOK, JobState
    <3>2. \A k \in Job \ {j} : job'[k] = job[k] BY <2>4 DEF TypeOK
    <3> QED BY <3>1, <3>2 DEF Hand
  <2>5. CASE job[j].pc \in {"restart", "note"} /\ JobGoto(j, "unlock")
    BY <2>5 DEF JobGoto, Hand, TypeOK, JobState
  <2> QED BY <1>2, <2>1, <2>2, <2>3, <2>4, <2>5 DEF JobStep, SaveStarted, GiveBack, CleanupError
<1>3. CASE Restart BY <1>3 DEF Restart, AfterRestart, Hand, TypeOK, JobState, JobPc
<1>4. CASE Expire BY <1>4 DEF Expire, Hand
<1> QED BY <1>1, <1>2, <1>3, <1>4 DEF Next

(* Every state has the types that TypeOK says, with any number of imports,
   jobs and faults.                                                         *)
THEOREM TypeCorrect == ASSUME ImportAssumption PROVE Spec => []TypeOK
<1>1. Init => TypeOK /\ Hand
  <2>1. ASSUME Init PROVE Hand BY <2>1 DEF Init, Hand
  <2> QED BY <2>1, InitType
<1>2. TypeOK /\ Hand /\ [Next]_vars => (TypeOK /\ Hand)'
  <2>1. ASSUME TypeOK, Hand, Next PROVE (TypeOK /\ Hand)'
    BY <2>1, HandStep, RequestType, JobType, FaultType DEF Next
  <2>2. ASSUME TypeOK, Hand, UNCHANGED vars PROVE (TypeOK /\ Hand)'
    BY <2>2 DEF TypeOK, Hand, vars, store
  <2> QED BY <2>1, <2>2
<1> QED BY <1>1, <1>2, PTL DEF Spec

-----------------------------------------------------------------------------
(* One import at a time, and nobody sleeps in the list.                     *)

HasLock(j) == job[j].pc \in {"waiting", "work", "restart"}
IsAdding(i) == req[i].pc = "add"

(* Only one job or request acts under the lock.                             *)
Exclusive ==
    /\ \A j, k \in Job : HasLock(j) /\ HasLock(k) => j = k
    /\ \A i, k \in Import : IsAdding(i) /\ IsAdding(k) => i = k
    /\ \A i \in Import, j \in Job : ~(IsAdding(i) /\ HasLock(j))

(* The lock is set exactly as long as there is one.                         *)
LockIsHeld == lock <=> (\E j \in Job : HasLock(j)) \/ (\E i \in Import : IsAdding(i))

(* The paths that follow an error are not taken.                            *)
NoError ==
    /\ \A j \in Job : job[j].pc # "unlock"
    /\ \A i \in Import : req[i].pc # "undo"

Held == Exclusive /\ LockIsHeld /\ NoError

IInv == TypeOK /\ Hand /\ (faults = 0 => Held /\ Woken)

LEMMA InitHeld == ASSUME Init PROVE Held /\ Woken
BY DEF Init, Held, Exclusive, LockIsHeld, NoError, HasLock, IsAdding, Woken

LEMMA RequestHeld ==
    ASSUME TypeOK, Held, NEW i \in Import, RequestStep(i)
    PROVE  Held'
<1> USE DEF Held, Exclusive, LockIsHeld, NoError, HasLock, IsAdding
<1>1. CASE \E pc \in {"count", "refused", "push", "lock", "save", "queued"} :
             /\ req'[i].pc = pc
             /\ \A k \in Import \ {i} : req'[k] = req[k]
             /\ req[i].pc # "add"
             /\ UNCHANGED <<lock, job>>
  BY <1>1
<1>2. CASE TryLock(i)
  <2>1. \A k \in Import \ {i} : req'[k] = req[k] BY <1>2 DEF TryLock, TypeOK
  <2>2. CASE lock
    <3>1. req'[i].pc = "find" BY <1>2, <2>2 DEF TryLock, SetNx, TypeOK, Request
    <3> QED BY <1>2, <2>1, <2>2, <3>1 DEF TryLock, SetNx
  <2>3. CASE ~lock
    <3>1. req'[i].pc = "add" BY <1>2, <2>3 DEF TryLock, SetNx, TypeOK, Request
    <3> QED BY <1>2, <2>1, <2>3, <3>1 DEF TryLock, SetNx
  <2> QED BY <2>2, <2>3
<1>3. CASE AddJob(i)
  <2>1. PICK j \in Job : NextJob(j) /\ job' = [job EXCEPT ![j] = NewJob(i)]
    BY <1>3 DEF AddJob, JobAdded
  <2>2. /\ job'[j].pc = "waiting"
        /\ \A k \in Job \ {j} : job'[k] = job[k]
    BY <2>1 DEF TypeOK, NewJob
  <2>3. /\ req'[i].pc = "started"
        /\ \A k \in Import \ {i} : req'[k] = req[k]
    BY <1>3 DEF AddJob, ReqGoto, TypeOK, Request
  <2>4. lock' = lock BY <1>3 DEF AddJob, store
  <2> QED BY <1>3, <2>2, <2>3, <2>4 DEF AddJob
<1>4. CASE FindActive(i) \/ Count(i) \/ Push(i) \/ SaveQueued(i)
  <2>1. \A k \in Import \ {i} : req'[k] = req[k]
    BY <1>4 DEF FindActive, Count, Push, SaveQueued, ReqGoto, TypeOK
  <2>2. req[i].pc # "add" BY <1>4 DEF FindActive, Asks, Count, Push, SaveQueued
  <2>3. UNCHANGED <<lock, job>> BY <1>4 DEF FindActive, Count, Push, SaveQueued, store
  <2>4. req'[i].pc \in {"count", "refused", "push", "lock", "save", "queued"}
    <3>1. CASE FindActive(i) BY <3>1 DEF FindActive, TypeOK, Request
    <3>2. CASE Count(i) BY <3>2 DEF Count, ReqGoto, TypeOK, Request
    <3>3. CASE Push(i) \/ SaveQueued(i) BY <3>3 DEF Push, SaveQueued, ReqGoto, TypeOK, Request
    <3> QED BY <1>4, <3>1, <3>2, <3>3
  <2> QED BY <1>1, <2>1, <2>2, <2>3, <2>4
<1> QED BY <1>2, <1>3, <1>4 DEF RequestStep, Undo

LEMMA JobHeld ==
    ASSUME TypeOK, Held, NEW j \in Job, JobStep(j)
    PROVE  Held'
<1> USE DEF Held, Exclusive, LockIsHeld, NoError, HasLock, IsAdding
<1>1. ASSUME NEW pc \in {"take", "relock", "note", "give_back", "close", "finished"},
             job'[j].pc = pc,
             \A k \in Job \ {j} : job'[k] = job[k],
             ~HasLock(j),
             UNCHANGED <<lock, req>>
      PROVE  Held'
  BY <1>1
<1>2. CASE Work(j)
  <2>1. job'[j].pc = "work" /\ \A k \in Job \ {j} : job'[k] = job[k]
    BY <1>2 DEF Work, JobGoto, TypeOK, JobState
  <2> QED BY <1>2, <2>1 DEF Work, store
<1>3. CASE WorkEnds(j)
  <2>1. job'[j].pc = "take" /\ \A k \in Job \ {j} : job'[k] = job[k]
    BY <1>3 DEF WorkEnds, JobGoto, TypeOK, JobState
  <2> QED BY <1>3, <2>1 DEF WorkEnds
<1>4. CASE Take(j)
  <2>1. job'[j].pc \in {"close", "relock"} /\ \A k \in Job \ {j} : job'[k] = job[k]
    BY <1>4 DEF Take, JobGoto, TypeOK, JobState
  <2> QED BY <1>1, <1>4, <2>1 DEF Take
<1>5. CASE Relock(j)
  <2>1. \A k \in Job \ {j} : job'[k] = job[k] BY <1>5 DEF Relock, JobGoto, TypeOK
  <2>2. CASE lock
    <3>1. job'[j].pc = "give_back" BY <1>5, <2>2 DEF Relock, SetNx, JobGoto, TypeOK, JobState
    <3> QED BY <1>5, <2>1, <2>2, <3>1 DEF Relock, SetNx
  <2>3. CASE ~lock
    <3>1. job'[j].pc = "restart" BY <1>5, <2>3 DEF Relock, SetNx, JobGoto, TypeOK, JobState
    <3> QED BY <1>5, <2>1, <2>3, <3>1 DEF Relock, SetNx
  <2> QED BY <2>2, <2>3
<1>6. CASE StartNext(j)
  <2>1. PICK k \in Job :
           NextJob(k) /\ job' = [job EXCEPT ![k] = NewJob(job[j].next), ![j].pc = "note"]
    BY <1>6 DEF StartNext
  <2>2. k # j BY <1>6, <2>1 DEF StartNext, NextJob
  <2>3. /\ job'[k].pc = "waiting"
        /\ job'[j].pc = "note"
        /\ \A l \in Job \ {j, k} : job'[l] = job[l]
    BY <2>1, <2>2 DEF NewJob, TypeOK, JobState
  <2>4. UNCHANGED <<lock, req>> /\ HasLock(j) BY <1>6 DEF StartNext, store
  <2>5. \A l \in Job : HasLock(l)' <=> l = k BY <2>2, <2>3, <2>4
  <2>6. lock /\ \A i \in Import : ~IsAdding(i) BY <2>4
  <2>7. \A l \in Job : job'[l].pc # "unlock" BY <2>3
  <2> QED BY <2>4, <2>5, <2>6, <2>7
<1>7. CASE SaveStarted(j)
  <2>1. job'[j].pc = "close" /\ \A k \in Job \ {j} : job'[k] = job[k]
    BY <1>7 DEF SaveStarted, TypeOK, JobState
  <2> QED BY <1>1, <1>7, <2>1 DEF SaveStarted
<1>8. CASE GiveBack(j)
  <2>1. job'[j].pc = "close" /\ \A k \in Job \ {j} : job'[k] = job[k]
    BY <1>8 DEF GiveBack, TypeOK, JobState
  <2> QED BY <1>1, <1>8, <2>1 DEF GiveBack
<1>9. CASE Close(j)
  <2>1. job'[j].pc = "finished" /\ \A k \in Job \ {j} : job'[k] = job[k]
    BY <1>9 DEF Close, JobGoto, TypeOK, JobState
  <2> QED BY <1>1, <1>9, <2>1 DEF Close, store
<1> QED BY <1>2, <1>3, <1>4, <1>5, <1>6, <1>7, <1>8, <1>9 DEF JobStep, Unlock

(* The wake-up: what matters is that whoever finds the lock taken knows that
   its holder has yet to look into the list.                                *)
LEMMA RequestWoken ==
    ASSUME TypeOK, Held, Woken, faults = 0, NEW i \in Import, RequestStep(i)
    PROVE  Woken'
<1>1. CASE FindActive(i) \/ Count(i) \/ SaveQueued(i)
  <2>1. \A k \in Import : req[k].pc = "add" => req'[k].pc = "add"
    BY <1>1 DEF FindActive, Asks, Count, SaveQueued, ReqGoto, TypeOK, Request
  <2>2. UNCHANGED <<pending, job, stranded>> BY <1>1 DEF FindActive, Count, SaveQueued, store
  <2> QED BY <2>1, <2>2 DEF Woken, Waker, WillTake
<1>2. CASE TryLock(i)
  <2>1. \A k \in Import : req[k].pc = "add" => req'[k].pc = "add"
    BY <1>2 DEF TryLock, TypeOK, Request
  <2>2. UNCHANGED <<pending, job, stranded>> BY <1>2 DEF TryLock
  <2> QED BY <2>1, <2>2 DEF Woken, Waker, WillTake
<1>3. CASE AddJob(i)
  <2>1. PICK j \in Job : job' = [job EXCEPT ![j] = NewJob(i)] BY <1>3 DEF AddJob, JobAdded
  <2>2. job'[j].pc = "waiting" BY <2>1 DEF TypeOK, NewJob
  <2> QED BY <2>2 DEF Woken, Waker, WillTake
<1>4. CASE Push(i)
  <2>1. \A k \in Import : req[k].pc = "add" => req'[k].pc = "add"
    BY <1>4 DEF Push, ReqGoto, TypeOK, Request
  <2>2. Waker => Waker' BY <1>4, <2>1 DEF Push, Waker, WillTake
  <2>3. stranded' <=> stranded \/ ~Waker BY <1>4 DEF Push
  <2> QED BY <2>2, <2>3 DEF Woken
<1> QED BY <1>1, <1>2, <1>3, <1>4 DEF RequestStep, Undo, Held, NoError

LEMMA JobWoken ==
    ASSUME TypeOK, Held, Woken, faults = 0, NEW j \in Job, JobStep(j)
    PROVE  Woken'
<1>1. ASSUME NEW pc, JobGoto(j, pc), pc \in {"work", "take", "relock", "restart"}
      PROVE  Waker'
  <2>1. job'[j].pc = pc BY <1>1 DEF JobGoto, TypeOK, JobState
  <2> QED BY <1>1, <2>1 DEF Waker, WillTake
<1>2. CASE Work(j) \/ WorkEnds(j)
  BY <1>1, <1>2 DEF Work, WorkEnds, Woken
<1>3. CASE Take(j)
  <2>1. CASE pending = <<>> BY <1>3, <2>1 DEF Take, Woken
  <2>2. CASE pending # <<>>
    <3>1. job' = [job EXCEPT ![j] = [@ EXCEPT !.pc = "relock", !.next = Head(pending)]]
      BY <1>3, <2>2 DEF Take
    <3>2. job'[j].pc = "relock" BY <3>1 DEF TypeOK, JobState
    <3> QED BY <3>2 DEF Woken, Waker
  <2> QED BY <2>1, <2>2
<1>4. CASE Relock(j)
  <2>1. CASE ~lock
    <3>1. JobGoto(j, "restart") BY <1>4, <2>1 DEF Relock, SetNx
    <3> QED BY <1>1, <3>1 DEF Woken
  <2>2. CASE lock
    <3>1. (\E k \in Job : HasLock(k)) \/ (\E i \in Import : IsAdding(i))
      BY <2>2 DEF Held, LockIsHeld
    <3>2. \A k \in Job \ {j} : job'[k] = job[k] BY <1>4 DEF Relock, JobGoto, TypeOK
    <3>3. ~HasLock(j) /\ req' = req BY <1>4 DEF Relock, HasLock
    <3>4. Waker' BY <3>1, <3>2, <3>3 DEF Waker, WillTake, HasLock, IsAdding
    <3> QED BY <3>4 DEF Woken
  <2> QED BY <2>1, <2>2
<1>5. CASE StartNext(j)
  <2>1. PICK k \in Job :
           NextJob(k) /\ job' = [job EXCEPT ![k] = NewJob(job[j].next), ![j].pc = "note"]
    BY <1>5 DEF StartNext
  <2>2. k # j BY <1>5, <2>1 DEF StartNext, NextJob
  <2>3. job'[k].pc = "waiting" BY <2>1, <2>2 DEF NewJob, TypeOK, JobState
  <2> QED BY <2>3 DEF Woken, Waker, WillTake
<1>6. CASE SaveStarted(j) \/ GiveBack(j) \/ Close(j)
  <2>1. ~WillTake(j) /\ job[j].pc \notin {"relock", "restart"}
    BY <1>6 DEF SaveStarted, GiveBack, Close, WillTake
  <2>2. \A k \in Job \ {j} : job'[k] = job[k]
    BY <1>6 DEF SaveStarted, GiveBack, Close, JobGoto, TypeOK
  <2>3. req' = req BY <1>6 DEF SaveStarted, GiveBack, Close
  <2>4. Waker => Waker' BY <2>1, <2>2, <2>3 DEF Waker, WillTake
  <2>5. CASE GiveBack(j)
    <3>1. stranded' <=> stranded \/ ~Waker BY <2>5 DEF GiveBack
    <3> QED BY <2>4, <3>1 DEF Woken
  <2>6. CASE SaveStarted(j) \/ Close(j)
    <3>1. UNCHANGED <<pending, stranded>> BY <2>6 DEF SaveStarted, Close, store
    <3> QED BY <2>4, <3>1 DEF Woken
  <2> QED BY <1>6, <2>5, <2>6
<1> QED BY <1>2, <1>3, <1>4, <1>5, <1>6 DEF JobStep, Unlock, Held, NoError

LEMMA IInvStep == ASSUME ImportAssumption, IInv, [Next]_vars PROVE IInv'
<1>1. CASE UNCHANGED vars
  BY <1>1 DEF vars, store, IInv, TypeOK, Hand, Held, Exclusive, LockIsHeld, NoError, HasLock,
              IsAdding, Woken, Waker, WillTake
<1>2. CASE Next
  <2>1. TypeOK' /\ Hand'
    BY <1>2, HandStep, RequestType, JobType, FaultType DEF Next, IInv
  <2>2. ASSUME NEW i \in Import, RequestStep(i) PROVE IInv'
    <3>1. faults' = faults
      BY <2>2 DEF RequestStep, FindActive, Count, TryLock, AddJob, Undo, Push, SaveQueued
    <3> QED BY <2>1, <2>2, <3>1, RequestHeld, RequestWoken DEF IInv
  <2>3. ASSUME NEW j \in Job, JobStep(j) PROVE IInv'
    <3>1. faults' = faults
      BY <2>3 DEF JobStep, Work, WorkEnds, Take, Relock, StartNext, SaveStarted, Unlock, GiveBack, Close
    <3> QED BY <2>1, <2>3, <3>1, JobHeld, JobWoken DEF IInv
  <2>4. CASE Fault BY <2>1, <2>4 DEF Fault, IInv, TypeOK, ImportAssumption
  <2> QED BY <1>2, <2>2, <2>3, <2>4 DEF Next, RequestError, CleanupError, Restart, Expire
<1> QED BY <1>1, <1>2

LEMMA IInvInductive == ASSUME ImportAssumption PROVE Spec => []IInv
<1>1. Init => IInv
  <2>1. ASSUME Init PROVE Hand BY <2>1 DEF Init, Hand
  <2> QED BY <2>1, InitType, InitHeld DEF IInv
<1>2. IInv /\ [Next]_vars => IInv' BY IInvStep
<1> QED BY <1>1, <1>2, PTL DEF Spec

(* Without faults, no two imports of the user run at the same time, however
   requests and the ends of jobs interleave.                                *)
THEOREM NoTwoImports == ASSUME ImportAssumption PROVE Spec => []OneAtATime
<1>1. IInv => OneAtATime BY DEF IInv, Held, Exclusive, HasLock, OneAtATime, Runs
<1> QED BY <1>1, IInvInductive, PTL

(* Without faults, somebody will look into a list that is not empty, unless
   an import came too late for the last one.                                *)
THEOREM SomebodyLooks == ASSUME ImportAssumption PROVE Spec => []Woken
<1>1. IInv => Woken BY DEF IInv, Woken
<1> QED BY <1>1, IInvInductive, PTL

-----------------------------------------------------------------------------
(* What clients are told.                                                   *)

(* A free id stands for no import; a job whose successor was added knows it. *)
JobsOfImports ==
    /\ \A j \in Job : job[j].pc = "none" => job[j].import = Nobody
    /\ \A j \in Job : job[j].pc = "note" => HasJob(job[j].next)

ToldInv == TypeOK /\ Hand /\ JobsOfImports /\ StartedHasJob

(* Jobs keep the import they were made for.                                 *)
LEMMA ImportsStay ==
    ASSUME TypeOK, JobsOfImports, Next
    PROVE  /\ \A j \in Job : job[j].pc # "none" => job'[j].pc # "none" /\ job'[j].import = job[j].import
           /\ \A j \in Job : job'[j].pc = "none" => job'[j] = job[j]
<1>1. ASSUME NEW i \in Import, RequestStep(i) \/ RequestError(i)
      PROVE  job' = job \/ \E k \in Job : NextJob(k) /\ job' = [job EXCEPT ![k] = NewJob(i)]
  BY <1>1 DEF RequestStep, RequestError, FindActive, Count, TryLock, AddJob, JobAdded, Undo,
              Push, SaveQueued, store
<1>2. ASSUME NEW j \in Job, JobStep(j) \/ CleanupError(j)
      PROVE  /\ job[j].pc # "none" /\ job'[j].pc # "none" /\ job'[j].import = job[j].import
             /\ \/ \A k \in Job \ {j} : job'[k] = job[k]
                \/ \E k \in Job \ {j} : NextJob(k) /\ job'[k] = NewJob(job[j].next)
                                       /\ \A l \in Job \ {j, k} : job'[l] = job[l]
  <2>1. CASE \E pc \in JobPc \ {"none"} : JobGoto(j, pc) /\ job[j].pc # "none"
    BY <2>1 DEF JobGoto, TypeOK, JobState
  <2>2. CASE /\ job[j].pc # "none"
             /\ \E pc \in {"relock", "close"}, x \in Import \cup {Nobody} :
                   job' = [job EXCEPT ![j] = [@ EXCEPT !.pc = pc, !.next = x]]
    BY <2>2 DEF TypeOK, JobState
  <2>3. CASE StartNext(j)
    <3>1. PICK k \in Job :
             NextJob(k) /\ job' = [job EXCEPT ![k] = NewJob(job[j].next), ![j].pc = "note"]
      BY <2>3 DEF StartNext
    <3>2. k # j BY <2>3, <3>1 DEF StartNext, NextJob
    <3> QED BY <2>3, <3>1, <3>2 DEF StartNext, TypeOK, JobState
  <2>4. CASE Work(j) \/ WorkEnds(j) \/ Relock(j) \/ Unlock(j) \/ Close(j)
    BY <2>1, <2>4 DEF Work, WorkEnds, Relock, Unlock, Close, JobPc
  <2>5. CASE Take(j)
    <3>1. CASE pending = <<>> BY <2>1, <2>5, <3>1 DEF Take, JobPc
    <3>2. CASE pending # <<>>
      <4>1. Head(pending) \in Import BY <3>2 DEF TypeOK
      <4> QED BY <2>2, <2>5, <3>2, <4>1 DEF Take
    <3> QED BY <3>1, <3>2
  <2>6. CASE SaveStarted(j) \/ GiveBack(j) BY <2>2, <2>6 DEF SaveStarted, GiveBack
  <2>7. CASE CleanupError(j)
    <3>1. job[j].pc # "none" BY <2>7 DEF CleanupError
    <3> QED BY <2>1, <2>2, <2>7, <3>1 DEF CleanupError, JobPc
  <2> QED BY <1>2, <2>3, <2>4, <2>5, <2>6, <2>7 DEF JobStep
<1>3. CASE \E i \in Import : RequestStep(i) \/ RequestError(i)
  BY <1>1, <1>3 DEF NextJob, NewJob, TypeOK
<1>4. CASE \E j \in Job : JobStep(j) \/ CleanupError(j)
  <2>1. PICK j \in Job : JobStep(j) \/ CleanupError(j) BY <1>4
  <2>2. job[j].pc # "none" /\ job'[j].pc # "none" /\ job'[j].import = job[j].import
    BY <1>2, <2>1
  <2>3. CASE \A k \in Job \ {j} : job'[k] = job[k] BY <2>2, <2>3
  <2>4. CASE \E k \in Job \ {j} : NextJob(k) /\ job'[k] = NewJob(job[j].next)
                                       /\ \A l \in Job \ {j, k} : job'[l] = job[l]
    <3>1. PICK k \in Job \ {j} : /\ NextJob(k) /\ job'[k] = NewJob(job[j].next)
                                 /\ \A l \in Job \ {j, k} : job'[l] = job[l]
      BY <2>4
    <3>2. job[k].pc = "none" /\ job'[k].pc = "waiting" BY <3>1 DEF NextJob, NewJob
    <3> QED BY <2>2, <3>1, <3>2
  <2> QED BY <1>2, <2>1, <2>3, <2>4
<1>5. CASE Restart BY <1>5 DEF Restart, AfterRestart, TypeOK, JobState
<1>6. CASE Expire BY <1>6 DEF Expire
<1> QED BY <1>3, <1>4, <1>5, <1>6 DEF Next

LEMMA ToldStep == ASSUME ImportAssumption, ToldInv, Next PROVE ToldInv'
<1>1. TypeOK' /\ Hand'
  BY HandStep, RequestType, JobType, FaultType DEF Next, ToldInv
<1>2. \A i \in Import : HasJob(i) => HasJob(i)'
  BY ImportsStay DEF ToldInv, HasJob, JobsOfImports, ImportAssumption
<1>3. \A j \in Job : job'[j].pc = "none" => job'[j].import = Nobody
  BY ImportsStay DEF ToldInv, JobsOfImports
<1>4. \A j \in Job : job'[j].pc = "note" => HasJob(job[j].next)' /\ job'[j].next = job[j].next
  <2>1. ASSUME NEW j \in Job, job[j].pc = "note", job'[j] = job[j]
        PROVE  HasJob(job[j].next)'
    BY <1>2, <2>1 DEF ToldInv, JobsOfImports, Hand
  <2>2. ASSUME NEW j \in Job, StartNext(j)
        PROVE  HasJob(job[j].next)' /\ job'[j].next = job[j].next
    <3>1. PICK k \in Job :
             NextJob(k) /\ job' = [job EXCEPT ![k] = NewJob(job[j].next), ![j].pc = "note"]
      BY <2>2 DEF StartNext
    <3>2. k # j BY <2>2, <3>1 DEF StartNext, NextJob
    <3>3. job'[k].import = job[j].next BY <3>1, <3>2 DEF NewJob, ToldInv, TypeOK
    <3> QED BY <3>1, <3>2, <3>3 DEF HasJob, ToldInv, TypeOK, JobState
  <2>3. ASSUME NEW j \in Job, job'[j].pc = "note", job'[j] # job[j] PROVE StartNext(j)
    <3>1. ASSUME NEW i \in Import, RequestStep(i) \/ RequestError(i) PROVE FALSE
      <4>1. job' = job \/ \E k \in Job : job' = [job EXCEPT ![k] = NewJob(i)]
        BY <3>1 DEF RequestStep, RequestError, FindActive, Count, TryLock, AddJob, JobAdded,
                    Undo, Push, SaveQueued, store
      <4> QED BY <2>3, <4>1 DEF NewJob, ToldInv, TypeOK
    <3>2. ASSUME NEW k \in Job, JobStep(k) \/ CleanupError(k), ~StartNext(k) PROVE FALSE
      <4>1. \A l \in Job \ {k} : job'[l] = job[l]
        BY <3>2 DEF JobStep, CleanupError, Work, WorkEnds, Take, Relock, SaveStarted, Unlock,
                    GiveBack, Close, JobGoto, ToldInv, TypeOK
      <4>2. job'[k].pc # "note"
        <5>1. CASE Take(k)
          <6>1. CASE pending = <<>> BY <5>1, <6>1 DEF Take, JobGoto, ToldInv, TypeOK, JobState
          <6>2. CASE pending # <<>> BY <5>1, <6>2 DEF Take, ToldInv, TypeOK, JobState
          <6> QED BY <6>1, <6>2
        <5>2. CASE CleanupError(k)
          <6>1. CASE JobGoto(k, "unlock") BY <6>1 DEF JobGoto, ToldInv, TypeOK, JobState
          <6>2. CASE job' = [job EXCEPT ![k] = [@ EXCEPT !.pc = "close", !.next = Nobody]]
            BY <6>2 DEF ToldInv, TypeOK, JobState
          <6> QED BY <5>2, <6>1, <6>2 DEF CleanupError
        <5>3. CASE Work(k) \/ WorkEnds(k) \/ Relock(k) \/ Unlock(k) \/ Close(k)
          BY <5>3 DEF Work, WorkEnds, Relock, Unlock, Close, JobGoto, ToldInv, TypeOK, JobState
        <5>4. CASE SaveStarted(k) \/ GiveBack(k)
          BY <5>4 DEF SaveStarted, GiveBack, ToldInv, TypeOK, JobState
        <5> QED BY <3>2, <5>1, <5>2, <5>3, <5>4 DEF JobStep
      <4> QED BY <2>3, <4>1, <4>2
    <3>3. ASSUME NEW k \in Job, StartNext(k) PROVE k = j
      <4>1. PICK l \in Job :
               job' = [job EXCEPT ![l] = NewJob(job[k].next), ![k].pc = "note"]
        BY <3>3 DEF StartNext
      <4> QED BY <2>3, <4>1 DEF NewJob, ToldInv, TypeOK, JobState
    <3>4. CASE Restart BY <2>3, <3>4 DEF Restart, AfterRestart, ToldInv, TypeOK, JobState
    <3>5. CASE Expire BY <2>3, <3>5 DEF Expire
    <3> QED BY <3>1, <3>2, <3>3, <3>4, <3>5 DEF Next
  <2>4. ASSUME NEW j \in Job, job'[j].pc = "note"
        PROVE  HasJob(job[j].next)' /\ job'[j].next = job[j].next
    BY <2>1, <2>2, <2>3, <2>4
  <2> QED BY <2>4
<1>5. \A i \in Import : record'[i] = "started" => record[i] = "started"
                                              \/ \E j \in Job : job[j].pc = "note" /\ job[j].next = i
  <2>1. ASSUME NEW i \in Import, SaveQueued(i)
        PROVE  \A k \in Import : record'[k] = "started" => record[k] = "started"
    BY <2>1 DEF SaveQueued, ToldInv, TypeOK
  <2>2. ASSUME NEW j \in Job, SaveStarted(j)
        PROVE  \A k \in Import : record'[k] = "started" => record[k] = "started" \/ job[j].next = k
    BY <2>2 DEF SaveStarted, ToldInv, TypeOK
  <2>3. record' = record \/ (\E i \in Import : SaveQueued(i)) \/ (\E j \in Job : SaveStarted(j))
    BY DEF Next, RequestStep, RequestError, FindActive, Count, TryLock, AddJob, Undo, Push,
           JobStep, CleanupError, Work, WorkEnds, Take, Relock, StartNext, Unlock, GiveBack,
           Close, Restart, Expire, store
  <2> QED BY <2>1, <2>2, <2>3 DEF SaveStarted
<1>6. StartedHasJob'
  <2>1. ASSUME NEW i \in Import, record'[i] = "started" PROVE HasJob(i)'
    <3>1. HasJob(i) BY <1>5, <2>1 DEF ToldInv, StartedHasJob, JobsOfImports, HasJob
    <3> QED BY <1>2, <3>1
  <2> QED BY <2>1 DEF StartedHasJob, HasJob
<1>7. JobsOfImports'
  BY <1>3, <1>4 DEF JobsOfImports
<1> QED BY <1>1, <1>6, <1>7 DEF ToldInv

(* Whatever fails, a client that reads "started" has a job.                 *)
THEOREM ClientsAreToldTheTruth == ASSUME ImportAssumption PROVE Spec => []StartedHasJob
<1>1. Init => ToldInv
  <2>1. ASSUME Init PROVE Hand /\ JobsOfImports /\ StartedHasJob
    BY <2>1 DEF Init, Hand, JobsOfImports, StartedHasJob
  <2> QED BY <2>1, InitType DEF ToldInv
<1>2. ToldInv /\ [Next]_vars => ToldInv'
  <2>1. ASSUME ToldInv, UNCHANGED vars PROVE ToldInv'
    BY <2>1 DEF vars, store, ToldInv, TypeOK, Hand, JobsOfImports, StartedHasJob, HasJob
  <2> QED BY <2>1, ToldStep
<1>3. ToldInv => StartedHasJob BY DEF ToldInv
<1> QED BY <1>1, <1>2, <1>3, PTL DEF Spec

-----------------------------------------------------------------------------
(* Where imports are.                                                       *)

InJob(j, i) == job[j].import = i
InHand(j, i) ==
    job[j].pc \in {"relock", "restart", "unlock", "give_back"} /\ job[j].next = i

(* An accepted import is in one place of one kind, another one in none.     *)
OnePlace(i) ==
    /\ \A m, n \in DOMAIN pending : pending[m] = i /\ pending[n] = i => m = n
    /\ \A j, k \in Job : InJob(j, i) /\ InJob(k, i) => j = k
    /\ \A j, k \in Job : InHand(j, i) /\ InHand(k, i) => j = k
    /\ \A j, k \in Job : ~(InJob(j, i) /\ InHand(k, i))
    /\ Waits(i) => \A j \in Job : ~InJob(j, i) /\ ~InHand(j, i)
    /\ Accepted(i) <=> Waits(i) \/ \E j \in Job : InJob(j, i) \/ InHand(j, i)
Places == \A i \in Import : OnePlace(i)

PlaceInv == IInv /\ ToldInv /\ (faults = 0 => Places)

LEMMA PlacesKept ==
    ASSUME Places, pending' = pending,
           \A i \in Import : Accepted(i)' <=> Accepted(i),
           \A j \in Job, i \in Import : (InJob(j, i)' <=> InJob(j, i)) /\ (InHand(j, i)' <=> InHand(j, i))
    PROVE  Places'
<1> SUFFICES ASSUME NEW i \in Import PROVE OnePlace(i)'
  BY DEF Places
<1>1. OnePlace(i) BY DEF Places
<1>2. Waits(i)' <=> Waits(i) BY DEF Waits
<1> HIDE DEF InJob, InHand, Accepted, Waits
<1> QED BY <1>1, <1>2 DEF OnePlace

(* Where a request may put its import.                                      *)
LEMMA RequestPlaces ==
    ASSUME ImportAssumption, TypeOK, NoError, JobsOfImports, Places, NEW i \in Import, RequestStep(i)
    PROVE  Places'
<1>1. \A x \in Import \ {i} : Accepted(x)' <=> Accepted(x)
  <2>1. \A x \in Import \ {i} : req'[x] = req[x]
    BY DEF RequestStep, FindActive, Count, TryLock, AddJob, Undo, Push, SaveQueued, ReqGoto, TypeOK
  <2> QED BY <2>1 DEF Accepted
<1>2. CASE FindActive(i) \/ Count(i) \/ TryLock(i) \/ SaveQueued(i)
  <2>1. Accepted(i)' <=> Accepted(i)
    <3>1. CASE FindActive(i) BY <3>1 DEF FindActive, Asks, Accepted, TypeOK, Request
    <3>2. CASE Count(i) BY <3>2 DEF Count, ReqGoto, Accepted, TypeOK, Request
    <3>3. CASE TryLock(i)
      <4>1. PICK pc \in {"add", "find"} : req' = [req EXCEPT ![i] = [@ EXCEPT !.pc = pc, !.tried = TRUE]]
        BY <3>3, Zenon DEF TryLock
      <4>2. req'[i].pc = pc BY <4>1 DEF TypeOK, Request
      <4> QED BY <3>3, <4>2 DEF TryLock, Accepted
    <3>4. CASE SaveQueued(i) BY <3>4 DEF SaveQueued, ReqGoto, Accepted, TypeOK, Request
    <3> QED BY <1>2, <3>1, <3>2, <3>3, <3>4
  <2>2. UNCHANGED <<pending, job>> BY <1>2 DEF FindActive, Count, TryLock, SaveQueued, store
  <2>3. \A j \in Job, x \in Import : (InJob(j, x)' <=> InJob(j, x)) /\ (InHand(j, x)' <=> InHand(j, x))
    BY <2>2 DEF InJob, InHand
  <2> QED BY <1>1, <2>1, <2>2, <2>3, PlacesKept
<1>3. CASE AddJob(i)
  <2>1. PICK j \in Job : NextJob(j) /\ job' = [job EXCEPT ![j] = NewJob(i)]
    BY <1>3 DEF AddJob, JobAdded
  <2>2. /\ job'[j] = NewJob(i)
        /\ \A k \in Job \ {j} : job'[k] = job[k]
        /\ job[j].pc = "none" /\ job[j].import = 0
    BY <2>1 DEF TypeOK, NextJob, JobsOfImports
  <2>3. pending' = pending BY <1>3 DEF AddJob, store
  <2>4. \A k \in Job, x \in Import : InJob(k, x)' <=> InJob(k, x) \/ (k = j /\ x = i)
    <3>1. job'[j].import = i BY <2>2 DEF NewJob
    <3>2. \A x \in Import : x # 0 BY DEF ImportAssumption
    <3>3. \A x \in Import : (InJob(j, x)' <=> x = i) /\ ~InJob(j, x) BY <2>2, <3>1, <3>2 DEF InJob
    <3>4. \A k \in Job \ {j}, x \in Import : InJob(k, x)' <=> InJob(k, x) BY <2>2 DEF InJob
    <3> QED BY <3>3, <3>4
  <2>5. \A k \in Job, x \in Import : InHand(k, x)' <=> InHand(k, x)
    BY <2>2 DEF InHand, NewJob
  <2>6. ~Accepted(i) /\ Accepted(i)' BY <1>3 DEF AddJob, ReqGoto, Accepted, TypeOK, Request
  <2>7. \A x \in Import : Waits(x)' <=> Waits(x) BY <2>3 DEF Waits
  <2> SUFFICES ASSUME NEW x \in Import PROVE OnePlace(x)'
    BY DEF Places
  <2>8. OnePlace(x) BY DEF Places
  <2> HIDE DEF InJob, InHand, Accepted, Waits
  <2> QED BY <1>1, <2>3, <2>4, <2>5, <2>6, <2>7, <2>8 DEF OnePlace
<1>4. CASE Push(i)
  <2>1. pending' = Append(pending, i) /\ job' = job BY <1>4 DEF Push
  <2>2. /\ Len(pending) \in Nat /\ DOMAIN pending = 1..Len(pending)
        /\ DOMAIN pending' = 1..(Len(pending) + 1)
        /\ \A n \in DOMAIN pending : pending'[n] = pending[n]
        /\ pending'[Len(pending) + 1] = i
    BY <2>1 DEF TypeOK
  <2>3. \A n \in DOMAIN pending' : n \in DOMAIN pending \/ n = Len(pending) + 1 BY <2>2
  <2>4. DOMAIN pending \subseteq DOMAIN pending' /\ Len(pending) + 1 \in DOMAIN pending' BY <2>2
  <2>5. \A k \in Job, x \in Import : (InJob(k, x)' <=> InJob(k, x)) /\ (InHand(k, x)' <=> InHand(k, x))
    BY <2>1 DEF InJob, InHand
  <2>6. ~Accepted(i) /\ Accepted(i)' BY <1>4 DEF Push, ReqGoto, Accepted, TypeOK, Request
  <2>7. \A x \in Import : Waits(x)' <=> Waits(x) \/ x = i BY <2>2, <2>3, <2>4 DEF Waits
  <2> SUFFICES ASSUME NEW x \in Import PROVE OnePlace(x)'
    BY DEF Places
  <2>8. OnePlace(x) /\ (x = i => ~Waits(i)) BY <2>6 DEF Places, OnePlace
  <2>9. \A m, n \in DOMAIN pending' : pending'[m] = x /\ pending'[n] = x => m = n
    <3>1. CASE x = i
      <4>1. \A n \in DOMAIN pending : pending[n] # i BY <2>8, <3>1 DEF Waits
      <4> QED BY <2>2, <2>3, <3>1, <4>1
    <3>2. CASE x # i
      <4>1. \A m, n \in DOMAIN pending : pending[m] = x /\ pending[n] = x => m = n BY <2>8 DEF OnePlace
      <4> QED BY <2>2, <2>3, <3>2, <4>1
    <3> QED BY <3>1, <3>2
  <2> HIDE DEF InJob, InHand, Accepted, Waits
  <2> QED BY <1>1, <2>5, <2>6, <2>7, <2>8, <2>9 DEF OnePlace
<1> QED BY <1>2, <1>3, <1>4 DEF RequestStep, Undo, NoError

(* Where the end of a job may put an import.                                *)
LEMMA JobPlaces ==
    ASSUME ImportAssumption, TypeOK, Hand, NoError, JobsOfImports, Places, NEW j \in Job, JobStep(j)
    PROVE  Places'
<1>1. \A i \in Import : Accepted(i)' <=> Accepted(i)
  <2>1. req' = req
    BY DEF JobStep, Work, WorkEnds, Take, Relock, StartNext, SaveStarted, Unlock, GiveBack, Close
  <2> QED BY <2>1 DEF Accepted
<1>2. ASSUME pending' = pending,
             \A k \in Job \ {j} : job'[k] = job[k],
             job'[j].import = job[j].import,
             \A i \in Import : InHand(j, i)' <=> InHand(j, i)
      PROVE  Places'
  <2>1. \A k \in Job, i \in Import : InJob(k, i)' <=> InJob(k, i) BY <1>2 DEF InJob
  <2>2. \A k \in Job, i \in Import : InHand(k, i)' <=> InHand(k, i)
    <3>1. \A k \in Job \ {j}, i \in Import : InHand(k, i)' <=> InHand(k, i) BY <1>2 DEF InHand
    <3> QED BY <1>2, <3>1
  <2> QED BY <1>1, <1>2, <2>1, <2>2, PlacesKept
<1>3. CASE Work(j) \/ WorkEnds(j) \/ Relock(j) \/ Close(j)
  <2>1. PICK pc \in JobPc :
           /\ JobGoto(j, pc)
           /\ job[j].pc \in {"relock", "restart", "unlock", "give_back"}
                <=> pc \in {"relock", "restart", "unlock", "give_back"}
    BY <1>3 DEF Work, WorkEnds, Relock, Close, JobPc
  <2>2. /\ job'[j] = [job[j] EXCEPT !.pc = pc]
        /\ \A k \in Job \ {j} : job'[k] = job[k]
    BY <2>1 DEF JobGoto, TypeOK
  <2>3. job'[j].pc = pc /\ job'[j].import = job[j].import /\ job'[j].next = job[j].next
    BY <2>2 DEF TypeOK, JobState
  <2>4. \A i \in Import : InHand(j, i)' <=> InHand(j, i) BY <2>1, <2>3 DEF InHand
  <2>5. pending' = pending BY <1>3 DEF Work, WorkEnds, Relock, Close, store
  <2> QED BY <1>2, <2>2, <2>3, <2>4, <2>5
<1>4. CASE Take(j) /\ pending = <<>>
  <2>1. JobGoto(j, "close") /\ pending' = pending /\ job[j].pc = "take" BY <1>4 DEF Take
  <2>2. /\ job'[j].pc = "close" /\ job'[j].import = job[j].import
        /\ \A k \in Job \ {j} : job'[k] = job[k]
    BY <2>1 DEF JobGoto, TypeOK, JobState
  <2>3. \A i \in Import : InHand(j, i)' <=> InHand(j, i) BY <2>1, <2>2 DEF InHand
  <2> QED BY <1>2, <2>1, <2>2, <2>3
<1>5. CASE Take(j) /\ pending # <<>>
  <2>1. PICK h \in Import : h = Head(pending) /\ h = pending[1]
    BY <1>5 DEF TypeOK
  <2>2. /\ pending' = Tail(pending) /\ job[j].pc = "take"
        /\ job' = [job EXCEPT ![j] = [@ EXCEPT !.pc = "relock", !.next = h]]
    BY <1>5, <2>1 DEF Take
  <2>3. /\ job'[j].pc = "relock" /\ job'[j].next = h /\ job'[j].import = job[j].import
        /\ \A k \in Job \ {j} : job'[k] = job[k]
    BY <2>2 DEF TypeOK, JobState
  <2>4. \A k \in Job, i \in Import : InJob(k, i)' <=> InJob(k, i) BY <2>3 DEF InJob
  <2>5. \A k \in Job, i \in Import : InHand(k, i)' <=> InHand(k, i) \/ (k = j /\ i = h)
    BY <2>2, <2>3 DEF InHand
  <2>6. /\ Len(pending) \in Nat /\ Len(pending) >= 1 /\ DOMAIN pending = 1..Len(pending)
        /\ DOMAIN pending' = 1..(Len(pending) - 1)
        /\ \A n \in DOMAIN pending' : pending'[n] = pending[n + 1]
    <3>1. pending \in Seq(Import) /\ pending # <<>> BY <1>5 DEF TypeOK
    <3> QED BY <2>2, <3>1
  <2>7. \A n \in DOMAIN pending' : n \in Nat /\ n + 1 \in DOMAIN pending /\ n + 1 # 1 BY <2>6
  <2>8. \A n \in DOMAIN pending : n # 1 => n - 1 \in DOMAIN pending' /\ pending'[n - 1] = pending[n]
    <3> TAKE n \in DOMAIN pending
    <3> HAVE n # 1
    <3>1. n \in Int /\ n - 1 \in DOMAIN pending' BY <2>6
    <3>2. pending'[n - 1] = pending[(n - 1) + 1] BY <2>6, <3>1
    <3>3. (n - 1) + 1 = n BY <3>1
    <3> QED BY <3>1, <3>2, <3>3
  <2>9. 1 \in DOMAIN pending BY <2>6
  <2> SUFFICES ASSUME NEW x \in Import PROVE OnePlace(x)'
    BY DEF Places
  <2>10. OnePlace(x) BY DEF Places
  <2>11. \A m, n \in DOMAIN pending : pending[m] = x /\ pending[n] = x => m = n
    BY <2>10 DEF OnePlace
  <2>12. Waits(h) BY <2>1, <2>9 DEF Waits
  <2>13. Waits(x)' <=> Waits(x) /\ x # h
    <3>1. ASSUME NEW n \in DOMAIN pending', pending'[n] = x PROVE Waits(x) /\ x # h
      <4>1. pending[n + 1] = x /\ n + 1 \in DOMAIN pending /\ n + 1 # 1 BY <2>6, <2>7, <3>1
      <4>2. x # h BY <2>1, <2>9, <2>11, <4>1
      <4> QED BY <4>1, <4>2 DEF Waits
    <3>2. ASSUME NEW n \in DOMAIN pending, pending[n] = x, x # h PROVE Waits(x)'
      <4>1. n # 1 BY <2>1, <3>2
      <4> QED BY <2>8, <3>2, <4>1 DEF Waits
    <3> QED BY <3>1, <3>2 DEF Waits
  <2>14. \A m, n \in DOMAIN pending' : pending'[m] = x /\ pending'[n] = x => m = n
    <3> TAKE m, n \in DOMAIN pending'
    <3> HAVE pending'[m] = x /\ pending'[n] = x
    <3>1. m + 1 = n + 1 BY <2>6, <2>7, <2>11
    <3> QED BY <2>7, <3>1
  <2>15. \A k \in Job : x = h => ~InJob(k, x) /\ ~InHand(k, x) BY <2>10, <2>12 DEF OnePlace
  <2> HIDE DEF InJob, InHand, Accepted, Waits
  <2> QED BY <1>1, <2>4, <2>5, <2>10, <2>12, <2>13, <2>14, <2>15 DEF OnePlace
<1>6. CASE StartNext(j)
  <2>1. PICK k \in Job :
           NextJob(k) /\ job' = [job EXCEPT ![k] = NewJob(job[j].next), ![j].pc = "note"]
    BY <1>6 DEF StartNext
  <2>2. job[j].pc = "restart" /\ pending' = pending BY <1>6 DEF StartNext, store
  <2>3. k # j BY <2>1, <2>2 DEF NextJob
  <2>4. PICK h \in Import : h = job[j].next BY <2>2 DEF Hand
  <2>5. /\ job'[k] = NewJob(h)
        /\ job'[j].pc = "note" /\ job'[j].import = job[j].import
        /\ \A l \in Job \ {j, k} : job'[l] = job[l]
    BY <2>1, <2>3, <2>4 DEF TypeOK, JobState
  <2>6. job[k].pc = "none" /\ job[k].import = 0 BY <2>1 DEF NextJob, JobsOfImports
  <2>7. \A l \in Job, i \in Import : InJob(l, i)' <=> InJob(l, i) \/ (l = k /\ i = h)
    <3>1. job'[k].import = h BY <2>5 DEF NewJob
    <3>2. \A i \in Import : i # 0 BY DEF ImportAssumption
    <3>3. \A i \in Import : (InJob(k, i)' <=> i = h) /\ ~InJob(k, i) BY <2>6, <3>1, <3>2 DEF InJob
    <3>4. \A l \in Job \ {k}, i \in Import : InJob(l, i)' <=> InJob(l, i) BY <2>5 DEF InJob
    <3> QED BY <3>3, <3>4
  <2>8. \A l \in Job, i \in Import : InHand(l, i)' <=> InHand(l, i) /\ l # j
    <3>1. job'[k].pc = "waiting" BY <2>5 DEF NewJob
    <3>2. \A i \in Import : ~InHand(j, i)' /\ ~InHand(k, i)' /\ ~InHand(k, i)
      BY <2>5, <2>6, <3>1 DEF InHand
    <3>3. \A l \in Job \ {j, k}, i \in Import : InHand(l, i)' <=> InHand(l, i) BY <2>5 DEF InHand
    <3> QED BY <3>2, <3>3
  <2>9. InHand(j, h) /\ (\A i \in Import : InHand(j, i) => i = h) BY <2>2, <2>4 DEF InHand
  <2> SUFFICES ASSUME NEW x \in Import PROVE OnePlace(x)'
    BY DEF Places
  <2>10. OnePlace(x) BY DEF Places
  <2>11. Waits(x)' <=> Waits(x) BY <2>2 DEF Waits
  <2> HIDE DEF InJob, InHand, Accepted, Waits
  <2> QED BY <1>1, <2>2, <2>7, <2>8, <2>9, <2>10, <2>11 DEF OnePlace
<1>7. CASE SaveStarted(j)
  <2>1. job[j].pc = "note" /\ pending' = pending BY <1>7 DEF SaveStarted
  <2>2. /\ job'[j].pc = "close" /\ job'[j].import = job[j].import
        /\ \A k \in Job \ {j} : job'[k] = job[k]
    BY <1>7 DEF SaveStarted, TypeOK, JobState
  <2>3. \A i \in Import : InHand(j, i)' <=> InHand(j, i) BY <2>1, <2>2 DEF InHand
  <2> QED BY <1>2, <2>1, <2>2, <2>3
<1>8. CASE GiveBack(j)
  <2>1. PICK h \in Import : h = job[j].next BY <1>8 DEF GiveBack, Hand
  <2>2. pending' = <<h>> \o pending /\ job[j].pc = "give_back" BY <1>8, <2>1 DEF GiveBack
  <2>3. /\ job'[j].pc = "close" /\ job'[j].import = job[j].import
        /\ \A k \in Job \ {j} : job'[k] = job[k]
    BY <1>8 DEF GiveBack, TypeOK, JobState
  <2>4. \A k \in Job, i \in Import : InJob(k, i)' <=> InJob(k, i) BY <2>3 DEF InJob
  <2>5. \A k \in Job, i \in Import : InHand(k, i)' <=> InHand(k, i) /\ k # j
    BY <2>3 DEF InHand
  <2>6. InHand(j, h) /\ (\A i \in Import : InHand(j, i) => i = h) BY <2>1, <2>2 DEF InHand
  <2>7. /\ Len(pending) \in Nat /\ DOMAIN pending = 1..Len(pending)
        /\ DOMAIN pending' = 1..(Len(pending) + 1)
        /\ pending'[1] = h
        /\ \A n \in 2..(Len(pending) + 1) : pending'[n] = pending[n - 1]
    <3>1. pending \in Seq(Import) BY DEF TypeOK
    <3> QED BY <2>2, <3>1
  <2>8. \A n \in DOMAIN pending' : n = 1 \/ (n - 1 \in DOMAIN pending /\ pending'[n] = pending[n - 1])
    BY <2>7
  <2>9. \A n \in DOMAIN pending : n + 1 \in DOMAIN pending' /\ pending'[n + 1] = pending[n]
    <3> TAKE n \in DOMAIN pending
    <3>1. n \in Int /\ n + 1 \in 2..(Len(pending) + 1) /\ n + 1 \in DOMAIN pending' BY <2>7
    <3>2. pending'[n + 1] = pending[(n + 1) - 1] BY <2>7, <3>1
    <3>3. (n + 1) - 1 = n BY <3>1
    <3> QED BY <3>1, <3>2, <3>3
  <2>10. 1 \in DOMAIN pending' BY <2>7
  <2> SUFFICES ASSUME NEW x \in Import PROVE OnePlace(x)'
    BY DEF Places
  <2>11. OnePlace(x) /\ OnePlace(h) BY DEF Places
  <2>12. ~Waits(h) BY <2>6, <2>11 DEF OnePlace
  <2>13. Waits(x)' <=> Waits(x) \/ x = h
    <3>1. Waits(x)' => Waits(x) \/ x = h BY <2>7, <2>8 DEF Waits
    <3>2. Waits(x) => Waits(x)' BY <2>9 DEF Waits
    <3>3. x = h => Waits(x)' BY <2>7, <2>10 DEF Waits
    <3> QED BY <3>1, <3>2, <3>3
  <2>14. \A m, n \in DOMAIN pending' : pending'[m] = x /\ pending'[n] = x => m = n
    <3> TAKE m, n \in DOMAIN pending'
    <3> HAVE pending'[m] = x /\ pending'[n] = x
    <3>0. m \in Int /\ n \in Int BY <2>7
    <3>1. CASE x = h
      <4>1. \A l \in DOMAIN pending : pending[l] # x BY <2>12, <3>1 DEF Waits
      <4> QED BY <2>8, <4>1
    <3>2. CASE x # h
      <4>1. m # 1 /\ n # 1 BY <2>7, <3>2
      <4>2. m - 1 = n - 1 BY <2>8, <2>11, <4>1 DEF OnePlace
      <4> QED BY <3>0, <4>2
    <3> QED BY <3>1, <3>2
  <2> HIDE DEF InJob, InHand, Accepted, Waits
  <2> QED BY <1>1, <2>4, <2>5, <2>6, <2>11, <2>12, <2>13, <2>14 DEF OnePlace
<1> QED BY <1>3, <1>4, <1>5, <1>6, <1>7, <1>8 DEF JobStep, Unlock, NoError

LEMMA PlaceStep == ASSUME ImportAssumption, PlaceInv, [Next]_vars PROVE PlaceInv'
<1>1. IInv' BY IInvStep DEF PlaceInv
<1>2. CASE UNCHANGED vars
  <2>1. ToldInv'
    BY <1>2 DEF vars, store, PlaceInv, ToldInv, TypeOK, Hand, JobsOfImports, StartedHasJob, HasJob
  <2>2. UNCHANGED <<pending, req, job, faults>> BY <1>2 DEF vars, store
  <2>3. Places => Places'
    BY <2>2 DEF Places, OnePlace, InJob, InHand, Waits, Accepted
  <2> QED BY <1>1, <2>1, <2>2, <2>3 DEF PlaceInv
<1>3. CASE Next
  <2>1. ToldInv' BY <1>3, ToldStep DEF PlaceInv
  <2>2. ASSUME NEW i \in Import, RequestStep(i) PROVE PlaceInv'
    <3>1. faults' = faults
      BY <2>2 DEF RequestStep, FindActive, Count, TryLock, AddJob, Undo, Push, SaveQueued
    <3> QED BY <1>1, <2>1, <2>2, <3>1, RequestPlaces DEF PlaceInv, IInv, ToldInv, Held
  <2>3. ASSUME NEW j \in Job, JobStep(j) PROVE PlaceInv'
    <3>1. faults' = faults
      BY <2>3 DEF JobStep, Work, WorkEnds, Take, Relock, StartNext, SaveStarted, Unlock, GiveBack, Close
    <3> QED BY <1>1, <2>1, <2>3, <3>1, JobPlaces DEF PlaceInv, IInv, ToldInv, Held
  <2>4. CASE Fault
    <3>1. faults' # 0 BY <2>4 DEF Fault, PlaceInv, IInv, TypeOK, ImportAssumption
    <3> QED BY <1>1, <2>1, <3>1 DEF PlaceInv
  <2> QED BY <1>3, <2>2, <2>3, <2>4 DEF Next, RequestError, CleanupError, Restart, Expire
<1> QED BY <1>2, <1>3

LEMMA PlaceInit == ASSUME ImportAssumption, Init PROVE PlaceInv
<1>1. Hand /\ JobsOfImports /\ StartedHasJob
  BY DEF Init, Hand, JobsOfImports, StartedHasJob
<1>2. Places
  <2>1. pending = <<>> /\ (\A j \in Job : job[j].pc = "none" /\ job[j].import = 0)
    BY DEF Init
  <2>2. \A i \in Import : ~Accepted(i) BY DEF Init, Accepted
  <2>3. \A j \in Job, i \in Import : ~InJob(j, i) /\ ~InHand(j, i)
    BY <2>1 DEF InJob, InHand, ImportAssumption
  <2>4. DOMAIN pending = {} BY <2>1
  <2> HIDE DEF InJob, InHand, Accepted
  <2> QED BY <2>2, <2>3, <2>4 DEF Places, OnePlace, Waits
<1> QED BY <1>1, <1>2, InitType, InitHeld DEF PlaceInv, IInv, ToldInv

(* A place of one kind counts once, or not at all.                          *)
LEMMA AtMostOne ==
    ASSUME NEW S, \A x, y \in S : x = y
    PROVE  Cardinality(S) = IF S = {} THEN 0 ELSE 1
<1>1. CASE S = {} BY <1>1, FS_EmptySet
<1>2. CASE S # {}
  <2>1. PICK x : x \in S BY <1>2
  <2>2. S = {x} BY <2>1
  <2> QED BY <1>2, <2>2, FS_Singleton
<1> QED BY <1>1, <1>2

LEMMA PlacesCount == ASSUME Places, NEW i \in Import PROVE Times(i) = IF Accepted(i) THEN 1 ELSE 0
<1> DEFINE L == {n \in DOMAIN pending : pending[n] = i}
           J == {j \in Job : job[j].import = i}
           H == {j \in Job : job[j].pc \in {"relock", "restart", "unlock", "give_back"} /\ job[j].next = i}
<1>1. OnePlace(i) BY DEF Places
<1>2. /\ \A m, n \in L : m = n
      /\ \A j, k \in J : j = k
      /\ \A j, k \in H : j = k
  BY <1>1 DEF OnePlace, InJob, InHand
<1>3. /\ L # {} => J = {} /\ H = {}
      /\ J # {} => H = {}
      /\ Accepted(i) <=> L # {} \/ J # {} \/ H # {}
  BY <1>1 DEF OnePlace, InJob, InHand, Waits
<1>4. Times(i) = Cardinality(L) + Cardinality(J) + Cardinality(H) BY DEF Times
<1> HIDE DEF L, J, H
<1>5. /\ Cardinality(L) = IF L = {} THEN 0 ELSE 1
      /\ Cardinality(J) = IF J = {} THEN 0 ELSE 1
      /\ Cardinality(H) = IF H = {} THEN 0 ELSE 1
  BY <1>2, AtMostOne
<1> HIDE DEF Accepted, Times
<1> QED BY <1>3, <1>4, <1>5

(* Without faults, an import that was accepted is in the list, in the hands
   of a job that ends, or in one job, and in one of these places only.      *)
THEOREM NothingLostOrDoubled == ASSUME ImportAssumption PROVE Spec => []NoneLostOrDoubled
<1>1. Init => PlaceInv BY PlaceInit
<1>2. PlaceInv /\ [Next]_vars => PlaceInv' BY PlaceStep
<1>3. PlaceInv => NoneLostOrDoubled BY PlacesCount DEF PlaceInv, NoneLostOrDoubled
<1> QED BY <1>1, <1>2, <1>3, PTL DEF Spec
=============================================================================
