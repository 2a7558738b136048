---------------------------- MODULE ProjectPhases ----------------------------
(***************************************************************************)
(* Phases, milestones and sign-off tasks of one project (the phase and     *)
(* milestone part of ProjectsService, phase-gate.util, and what            *)
(* TasksService does with the phase and the gate of a task).               *)
(*                                                                         *)
(* A request reads, decides and writes in different statements, and others *)
(* run in between.  A request that is refused or fails changes nothing.    *)
(***************************************************************************)
EXTENDS Integers, FiniteSetsExt

CONSTANTS
    Phase, Task, Milestone,  \* ids of rows
    Handler,                 \* requests in flight (bound)
    Total,                   \* the sum of weights there may be: 100
    Weight,                  \* weights that a milestone may be given
    MaxCalls,                \* bound: requests in all
    None,                    \* a column that is null
    Keep                     \* a field that a request leaves out

ASSUME PhasesAssumption ==
    /\ Total \in Nat /\ Weight \subseteq 0..Total /\ 0 \in Weight
    /\ MaxCalls \in Nat
    /\ None # Keep /\ {None, Keep} \cap (Phase \cup Task \cup BOOLEAN) = {}

VARIABLES
    phase,      \* ProjectPhase rows
    task,       \* Task rows, the schedule twins of phases and milestones among them
    milestone,  \* ProjectMilestone rows
    req,        \* the requests
    calls,      \* requests begun
    waived      \* history: rules that a race, a moved milestone or an update that names
                \* another parent may have broken

rows == <<phase, task, milestone>>
vars == <<rows, req, calls, waived>>

InSome(P) == P \cup {None}

(* An id is free, that of a row, or gone with its row: none is used twice.  *)
State == {"free", "row", "gone"}
PhaseRow == [state : State, status : {"Open", "Completed"}, twin : InSome(Task)]
(* sub: parentTaskId is set.  done: the status is Done or Approved.         *)
TaskRow ==
    [state : State, phase : InSome(Phase), sub : BOOLEAN, gate : BOOLEAN, done : BOOLEAN]
MilestoneRow ==
    [state : State, weight : Weight, phase : InSome(Phase), complete : BOOLEAN,
     twin : InSome(Task)]

NoPhase(state) == [state |-> state, status |-> "Open", twin |-> None]
NoTask(state) ==
    [state |-> state, phase |-> None, sub |-> FALSE, gate |-> FALSE, done |-> FALSE]
NoMilestone(state) ==
    [state |-> state, weight |-> 0, phase |-> None, complete |-> FALSE, twin |-> None]

(* clean: no other request has written since this one took the decision that
   it is about to carry out (history).                                      *)
Idle == [pc |-> "idle"]
PhaseRequest ==
    [pc : {"gate_check", "phase_write", "count", "remove"}, phase : Phase,
     twin : InSome(Task), next : {"Open", "Completed", Keep}, clean : BOOLEAN]
TaskRequest ==
    [pc : {"task_write"}, task : Task, phase : InSome(Phase) \cup {Keep},
     done : BOOLEAN \cup {Keep}, clean : BOOLEAN]
(* task: None for one that is to be created.                                *)
GateRequest ==
    [pc : {"gate_begin", "gate_set"}, task : InSome(Task), phase : Phase,
     done : BOOLEAN \cup {Keep}, others : SUBSET Task, clean : BOOLEAN]
MilestoneRequest ==
    [pc : {"insert"}, weight : Weight, phase : InSome(Phase), clean : BOOLEAN]
    \cup [pc : {"milestone_write"}, milestone : Milestone, weight : Weight \cup {Keep},
          phase : InSome(Phase) \cup {Keep}, complete : BOOLEAN \cup {Keep}, clean : BOOLEAN]
    \cup [pc : {"twin_write"}, task : Task, phase : InSome(Phase), done : BOOLEAN,
          clean : BOOLEAN]
Request == PhaseRequest \cup TaskRequest \cup GateRequest \cup MilestoneRequest \cup {Idle}

TypeOK ==
    /\ phase \in [Phase -> PhaseRow]
    /\ task \in [Task -> TaskRow]
    /\ milestone \in [Milestone -> MilestoneRow]
    /\ req \in [Handler -> Request]
    /\ calls \in 0..MaxCalls
    /\ waived \subseteq {"gate", "parent", "weights"}

(* An imported project has phases without a twin and milestones with one.   *)
Init ==
    /\ phase \in [Phase -> {NoPhase("free"), NoPhase("row")}]
    /\ \/ /\ task = [t \in Task |-> NoTask("free")]
          /\ milestone = [m \in Milestone |-> NoMilestone("free")]
       \/ \E t \in Task, m \in Milestone :
             /\ task = [u \in Task |-> NoTask(IF u = t THEN "row" ELSE "free")]
             /\ milestone = [n \in Milestone |->
                    IF n = m THEN [NoMilestone("row") EXCEPT !.twin = t]
                    ELSE NoMilestone("free")]
    /\ req = [h \in Handler |-> Idle]
    /\ calls = 0
    /\ waived = {}

-----------------------------------------------------------------------------
At(h, pc) == req[h].pc = pc
PhaseIds == {p \in Phase : phase[p].state = "row"}
TaskIds == {t \in Task : task[t].state = "row"}
MilestoneIds == {m \in Milestone : milestone[m].state = "row"}
(* A field that is left out keeps its value.                                *)
Given(field, old) == IF field = Keep THEN old ELSE field
GatesOf(p) == {t \in TaskIds : task[t].gate /\ task[t].phase = p}

(* A query that only reads: the request goes on to r.                       *)
Become(h, r) == req' = [req EXCEPT ![h] = r] /\ UNCHANGED <<rows, calls, waived>>
(* A new request, and what it does in its first query.                      *)
MayStart(h) == At(h, "idle") /\ calls < MaxCalls
Start(h) == MayStart(h) /\ calls' = calls + 1
Begin(h, r) == Start(h) /\ req' = [req EXCEPT ![h] = r] /\ UNCHANGED <<rows, waived>>
(* A statement or a transaction that writes rows.                           *)
Wrote(h, r) ==
    req' = [g \in Handler |-> IF g = h THEN r
                              ELSE IF At(g, "idle") THEN Idle
                              ELSE [req[g] EXCEPT !.clean = FALSE]]
(* The request is refused, or fails for a row or a foreign key that is not
   there or for any other reason: its transaction is rolled back.           *)
Abort(h) == ~At(h, "idle") /\ Become(h, Idle)

(* The transaction that makes a task a gate holds its row until it commits. *)
Locked(t) == t # None /\ \E h \in Handler : At(h, "gate_set") /\ req[h].task = t

(* Foreign keys are set to null with the row they name.                     *)
WithoutTask(column, t) ==
    [i \in DOMAIN column |->
        IF column[i].twin = t THEN [column[i] EXCEPT !.twin = None] ELSE column[i]]

-----------------------------------------------------------------------------
(* Phases.                                                                  *)

CreatePhase(h, p, t, status) ==
    /\ Start(h)
    /\ phase[p].state = "free" /\ task[t].state = "free"
    /\ phase' = [phase EXCEPT ![p] = [state |-> "row", status |-> status, twin |-> t]]
    /\ task' = [task EXCEPT ![t] = [NoTask("row") EXCEPT !.phase = p]]
    /\ Wrote(h, Idle)
    /\ UNCHANGED <<milestone, waived>>

(* updatePhase: a phase that is to become Completed needs its gate.         *)
UpdatePhaseRead(h, p, next) ==
    /\ p \in PhaseIds
    /\ Begin(h, [pc |-> IF next = "Completed" /\ phase[p].status # next
                        THEN "gate_check" ELSE "phase_write",
                 phase |-> p, twin |-> phase[p].twin, next |-> next, clean |-> TRUE])

(* Mutant: any gate will do, complete or not.                               *)
GateCheckAny(h) ==
    /\ At(h, "gate_check")
    /\ \E t \in GatesOf(req[h].phase) : ~task[t].sub
    /\ Become(h, [req[h] EXCEPT !.pc = "phase_write", !.clean = TRUE])

(* assertPhaseGateReadyToComplete: the first gate that the query finds.     *)
GateCheck(h) ==
    /\ At(h, "gate_check")
    /\ \E t \in GatesOf(req[h].phase) : ~task[t].sub /\ task[t].done
    /\ Become(h, [req[h] EXCEPT !.pc = "phase_write", !.clean = TRUE])

(* A phase without a twin gets one.                                         *)
PhaseWrite(h, t) ==
    LET r == req[h]
        status == Given(r.next, phase[r.phase].status)
    IN  /\ At(h, "phase_write")
        /\ r.phase \in PhaseIds
        /\ \/ /\ r.twin = t /\ t \in TaskIds /\ ~Locked(t)
              /\ phase' = [phase EXCEPT ![r.phase] = [@ EXCEPT !.status = status]]
              /\ UNCHANGED task
           \/ /\ r.twin = None /\ task[t].state = "free"
              /\ phase' = [phase EXCEPT ![r.phase] = [@ EXCEPT !.status = status, !.twin = t]]
              /\ task' = [task EXCEPT ![t] = [NoTask("row") EXCEPT !.phase = r.phase]]
        /\ Wrote(h, Idle)
        /\ UNCHANGED <<milestone, calls, waived>>

RemovePhaseRead(h, p) ==
    /\ p \in PhaseIds
    /\ Begin(h, [pc |-> "count", phase |-> p, twin |-> phase[p].twin, next |-> Keep,
                 clean |-> TRUE])

(* Mutant: only open tasks are counted.                                     *)
RemoveCountOpen(h) ==
    /\ At(h, "count")
    /\ \A t \in TaskIds \ {req[h].twin} : task[t].phase = req[h].phase => task[t].done
    /\ Become(h, [req[h] EXCEPT !.pc = "remove", !.clean = TRUE])

RemoveCount(h) ==
    /\ At(h, "count")
    /\ \A t \in TaskIds \ {req[h].twin} : task[t].phase # req[h].phase
    /\ Become(h, [req[h] EXCEPT !.pc = "remove", !.clean = TRUE])

(* The twin goes, if it is still there; milestones, and tasks that have come
   since the count, lose their phase.                                       *)
RemoveWrite(h) ==
    LET p == req[h].phase
        twin == req[h].twin
        left == {t \in TaskIds \ {twin} : task[t].phase = p}
    IN  /\ At(h, "remove")
        /\ p \in PhaseIds
        /\ \A t \in left \cup {twin} : ~Locked(t)
        /\ task' = [t \in Task |-> IF t = twin THEN NoTask("gone")
                                   ELSE IF t \in left THEN [task[t] EXCEPT !.phase = None]
                                   ELSE task[t]]
        /\ phase' = [WithoutTask(phase, twin) EXCEPT ![p] = NoPhase("gone")]
        /\ milestone' = [m \in Milestone |->
               LET row == WithoutTask(milestone, twin)[m]
               IN  IF row.phase = p THEN [row EXCEPT !.phase = None] ELSE row]
        /\ waived' = waived \cup {"gate" : t \in left \cap GatesOf(p)}
        /\ Wrote(h, Idle)
        /\ UNCHANGED calls

-----------------------------------------------------------------------------
(* Tasks.  A task that is to be a gate is written in one transaction with the
   gates that it replaces: its row is locked, then the others are looked for,
   then both are written and seen.                                          *)

CreateTask(h, t, p, sub) ==
    /\ Start(h)
    /\ task[t].state = "free" /\ p \in InSome(PhaseIds) /\ (sub => TaskIds # {})
    /\ task' = [task EXCEPT ![t] = [NoTask("row") EXCEPT !.phase = p, !.sub = sub]]
    /\ Wrote(h, Idle)
    /\ UNCHANGED <<phase, milestone, waived>>

CreateGate(h, p, done) ==
    /\ p \in PhaseIds
    /\ Begin(h, [pc |-> "gate_begin", task |-> None, phase |-> p, done |-> done,
                 others |-> {}, clean |-> TRUE])

(* Mutant: a sub-task may be a gate.                                        *)
StaysGateInAny(t, p, sub, gate) ==
    p # None /\ (gate = TRUE \/ (gate = Keep /\ task[t].gate))

(* resolveIsPhaseGate, for the phase and the parent that the task is to have. *)
StaysGate(t, p, sub, gate) ==
    /\ p # None /\ ~sub
    /\ gate = TRUE \/ (gate = Keep /\ task[t].gate)

(* update and updateBundle: what is read here decides what is written.  A parent
   that is named (sub) counts for the flag, but neither of them writes it.  A
   status is set in a request of its own, as it has no part in the decision. *)
UpdateTaskRead(h, t, p, sub, gate, done) ==
    LET resolved == Given(p, task[t].phase)
        stays == StaysGate(t, resolved, Given(sub, task[t].sub), gate)
    IN  /\ Start(h)
        /\ t \in TaskIds
        /\ done = Keep \/ (p = Keep /\ sub = Keep /\ gate = Keep)
        /\ gate = TRUE => stays
        /\ req' = [req EXCEPT ![h] =
               IF stays
               THEN [pc |-> "gate_begin", task |-> t, phase |-> resolved, done |-> done,
                     others |-> {}, clean |-> TRUE]
               ELSE [pc |-> "task_write", task |-> t, phase |-> p, done |-> done,
                     clean |-> TRUE]]
        /\ waived' = waived \cup (IF sub \in {Keep, task[t].sub} THEN {} ELSE {"parent"})
        /\ UNCHANGED rows

UpdateTaskWrite(h) ==
    LET r == req[h]
        old == task[r.task]
    IN  /\ At(h, "task_write")
        /\ r.task \in TaskIds /\ ~Locked(r.task)
        /\ r.phase \in PhaseIds \cup {None, Keep}
        /\ task' = [task EXCEPT ![r.task] =
                       [old EXCEPT !.phase = Given(r.phase, old.phase), !.gate = FALSE,
                                   !.done = Given(r.done, old.done)]]
        /\ Wrote(h, Idle)
        /\ UNCHANGED <<phase, milestone, calls, waived>>

(* Mutant: the other gates are left alone.                                  *)
GateBeginShared(h) ==
    LET r == req[h] IN
    /\ At(h, "gate_begin")
    /\ r.task # None => r.task \in TaskIds /\ ~Locked(r.task)
    /\ Become(h, [r EXCEPT !.pc = "gate_set", !.others = {}, !.clean = TRUE])

GateBegin(h) ==
    LET r == req[h] IN
    /\ At(h, "gate_begin")
    /\ r.task # None => r.task \in TaskIds /\ ~Locked(r.task)
    /\ Become(h, [r EXCEPT !.pc = "gate_set", !.others = GatesOf(r.phase) \ {r.task},
                           !.clean = TRUE])

(* assignExclusivePhaseGate, as it commits.                                 *)
GateSet(h, t) ==
    LET r == req[h]
        row == IF r.task = None THEN NoTask("row") ELSE task[t]
    IN  /\ At(h, "gate_set")
        /\ IF r.task = None THEN task[t].state = "free" ELSE t = r.task
        /\ r.phase \in PhaseIds
        /\ \A o \in r.others : ~Locked(o)
        /\ task' = [u \in Task |->
               IF u = t
               THEN [row EXCEPT !.phase = r.phase, !.gate = TRUE,
                           !.done = Given(r.done, row.done)]
               ELSE IF u \in r.others \cap GatesOf(r.phase) THEN [task[u] EXCEPT !.gate = FALSE]
               ELSE task[u]]
        /\ waived' = waived \cup (IF r.clean THEN {} ELSE {"gate"})
        /\ Wrote(h, Idle)
        /\ UNCHANGED <<phase, milestone, calls>>

RemoveTask(h, t) ==
    /\ Start(h)
    /\ t \in TaskIds /\ ~Locked(t)
    /\ task' = [task EXCEPT ![t] = NoTask("gone")]
    /\ phase' = WithoutTask(phase, t)
    /\ milestone' = WithoutTask(milestone, t)
    /\ Wrote(h, Idle)
    /\ UNCHANGED waived

-----------------------------------------------------------------------------
(* Milestones.                                                              *)

SumOf(M) == MapThenSumSet(LAMBDA m : milestone[m].weight, M)

(* Mutant: only the milestone's own weight is compared.                     *)
WeightsFitAlone(M, w) == w <= Total

(* assertProjectMilestoneWeightLimit, for the milestones M beside this one. *)
WeightsFit(M, w) == SumOf(M) + w <= Total

CreateMilestone(h, w, p) ==
    /\ p \in InSome(PhaseIds)
    /\ WeightsFit(MilestoneIds, w)
    /\ Begin(h, [pc |-> "insert", weight |-> w, phase |-> p, clean |-> TRUE])

InsertMilestone(h, m) ==
    LET r == req[h] IN
    /\ At(h, "insert")
    /\ milestone[m].state = "free"
    /\ r.phase \in InSome(PhaseIds)
    /\ milestone' = [milestone EXCEPT ![m] =
                        [NoMilestone("row") EXCEPT !.weight = r.weight, !.phase = r.phase]]
    /\ waived' = waived \cup (IF r.clean THEN {} ELSE {"weights"})
    /\ Wrote(h, Idle)
    /\ UNCHANGED <<phase, task, calls>>

(* One field at a time, as each is written whatever becomes of the others.  *)
UpdateMilestone(h, m, w, p, complete) ==
    /\ m \in MilestoneIds
    /\ p \in PhaseIds \cup {None, Keep}
    /\ w = Keep \/ (p = Keep /\ complete = Keep)
    /\ p = Keep \/ complete = Keep
    /\ w # Keep => WeightsFit(MilestoneIds \ {m}, w)
    /\ Begin(h, [pc |-> "milestone_write", milestone |-> m, weight |-> w, phase |-> p,
                 complete |-> complete, clean |-> TRUE])

(* The row, and in another query the schedule twin of an imported one.      *)
MilestoneWrite(h) ==
    LET r == req[h]
        m == r.milestone
        old == milestone[m]
        new == [old EXCEPT !.weight = Given(r.weight, old.weight),
                           !.phase = Given(r.phase, old.phase),
                           !.complete = Given(r.complete, old.complete)]
    IN  /\ At(h, "milestone_write")
        /\ m \in MilestoneIds
        /\ r.phase \in PhaseIds \cup {None, Keep}
        /\ milestone' = [milestone EXCEPT ![m] = new]
        /\ waived' = waived \cup (IF r.clean \/ r.weight = Keep THEN {} ELSE {"weights"})
        /\ Wrote(h, IF old.twin = None THEN Idle
                    ELSE [pc |-> "twin_write", task |-> old.twin, phase |-> new.phase,
                          done |-> new.complete, clean |-> TRUE])
        /\ UNCHANGED <<phase, task, calls>>

(* The flag of a gate is left as it is.                                     *)
TwinWrite(h) ==
    LET r == req[h]
        t == r.task
    IN  /\ At(h, "twin_write")
        /\ t \in TaskIds /\ ~Locked(t)
        /\ r.phase \in InSome(PhaseIds)
        /\ task' = [task EXCEPT ![t] = [@ EXCEPT !.phase = r.phase, !.done = r.done]]
        /\ waived' = waived \cup (IF task[t].gate /\ task[t].phase # r.phase
                                  THEN {"gate"} ELSE {})
        /\ Wrote(h, Idle)
        /\ UNCHANGED <<phase, milestone, calls>>

RemoveMilestone(h, m) ==
    /\ Start(h)
    /\ m \in MilestoneIds
    /\ milestone' = [milestone EXCEPT ![m] = NoMilestone("gone")]
    /\ Wrote(h, Idle)
    /\ UNCHANGED <<phase, task, waived>>

-----------------------------------------------------------------------------
PhaseStep(h) ==
    \/ \E p \in Phase, t \in Task, s \in {"Open", "Completed"} : CreatePhase(h, p, t, s)
    \/ \E p \in Phase, s \in {"Open", "Completed", Keep} : UpdatePhaseRead(h, p, s)
    \/ GateCheck(h)
    \/ \E t \in Task : PhaseWrite(h, t)
    \/ \E p \in Phase : RemovePhaseRead(h, p)
    \/ RemoveCount(h) \/ RemoveWrite(h)

TaskStep(h) ==
    \/ \E t \in Task, p \in InSome(Phase), sub \in BOOLEAN : CreateTask(h, t, p, sub)
    \/ \E p \in Phase, done \in BOOLEAN : CreateGate(h, p, done)
    \/ /\ MayStart(h)
       /\ \E t \in Task, p \in InSome(Phase) \cup {Keep},
             sub, gate, done \in BOOLEAN \cup {Keep} :
                UpdateTaskRead(h, t, p, sub, gate, done)
    \/ UpdateTaskWrite(h) \/ GateBegin(h)
    \/ \E t \in Task : GateSet(h, t) \/ RemoveTask(h, t)

MilestoneStep(h) ==
    \/ \E w \in Weight, p \in InSome(Phase) : CreateMilestone(h, w, p)
    \/ \E m \in Milestone : InsertMilestone(h, m) \/ RemoveMilestone(h, m)
    \/ /\ MayStart(h)
       /\ \E m \in Milestone, w \in Weight \cup {Keep}, p \in InSome(Phase) \cup {Keep},
             complete \in BOOLEAN \cup {Keep} : UpdateMilestone(h, m, w, p, complete)
    \/ MilestoneWrite(h) \/ TwinWrite(h)

Next == \E h \in Handler : PhaseStep(h) \/ TaskStep(h) \/ MilestoneStep(h) \/ Abort(h)

Spec == Init /\ [][Next]_vars

-----------------------------------------------------------------------------
(* Properties.  The first three are waived by what is known to break them: two
   transactions that make a gate at the same time, a phase removed under a gate
   that has just come, and a milestone that takes its twin to another phase.  *)

(* A phase has one sign-off task at most, however many requests act on what
   they have read earlier (assignExclusivePhaseGate).                        *)
OneGatePerPhase ==
    "gate" \notin waived => \A p \in Phase : Cardinality(GatesOf(p)) <= 1

(* A sign-off task has a phase and is no sub-task, unless an update has named a
   parent that is not the one of its task (resolveIsPhaseGate).              *)
GateIsOfAPhase ==
    "gate" \notin waived =>
        \A t \in TaskIds : task[t].gate =>
            task[t].phase \in PhaseIds /\ (task[t].sub => "parent" \in waived)

(* A phase is set to Completed when its sign-off task is complete, unless some
   request has written since this was looked at (updatePhase).               *)
Completes(h, p) ==
    /\ At(h, "phase_write") /\ req'[h] = Idle /\ req[h].phase = p
    /\ p \in PhaseIds /\ phase[p].status # "Completed"
    /\ phase'[p].status = "Completed"
CompletedIsSignedOff ==
    [][\A h \in Handler, p \in Phase :
         Completes(h, p) /\ req[h].clean /\ "gate" \notin waived =>
             GatesOf(p) # {} /\ \A t \in GatesOf(p) : task[t].done]_vars

(* The removal of a phase takes its twin only: no other task loses its phase or
   is lost, unless some request has written since the tasks were counted.    *)
Removes(h, p) ==
    /\ At(h, "remove") /\ req'[h] = Idle /\ req[h].phase = p
    /\ p \in PhaseIds /\ phase'[p].state = "gone"
RemovesOnlyTwin ==
    [][\A h \in Handler, p \in Phase :
         Removes(h, p) /\ req[h].clean =>
             \A t \in Task \ {req[h].twin} : task'[t] = task[t]]_vars

(* Weights stay within the total, unless a request has written between the sum
   that another one took and what it wrote (updateMilestone, createMilestone). *)
WeightsWithinTotal == "weights" \notin waived => SumOf(MilestoneIds) <= Total
=============================================================================
