------------------------- MODULE ProjectPhases_proof -------------------------
(***************************************************************************)
(* Proofs about ProjectPhases, for any phases, tasks, milestones, weights  *)
(* and number of requests in flight: types, gates and removals with IInv,  *)
(* the sum of the weights with WInv, which rests on it.                    *)
(***************************************************************************)
EXTENDS ProjectPhases, FiniteSetTheorems, TLAPS

-----------------------------------------------------------------------------
(* Types.                                                                   *)

LEMMA BlankTypes ==
    ASSUME PhasesAssumption, NEW s \in State
    PROVE  NoPhase(s) \in PhaseRow /\ NoTask(s) \in TaskRow /\ NoMilestone(s) \in MilestoneRow
BY DEF PhasesAssumption, NoPhase, NoTask, NoMilestone, PhaseRow, TaskRow, MilestoneRow, InSome

(* What a record is follows from where its request stands.                  *)
LEMMA Kinds ==
    ASSUME NEW r \in Request
    PROVE  /\ r.pc \in {"gate_check", "phase_write", "count", "remove"} => r \in PhaseRequest
           /\ r.pc = "task_write" => r \in TaskRequest
           /\ r.pc \in {"gate_begin", "gate_set"} => r \in GateRequest
           /\ r.pc \in {"insert", "milestone_write", "twin_write"} => r \in MilestoneRequest
           /\ r.pc = "idle" => r = Idle
BY DEF Request, PhaseRequest, TaskRequest, GateRequest, MilestoneRequest, Idle

LEMMA MilestoneKinds ==
    ASSUME NEW r \in MilestoneRequest
    PROVE  /\ r.pc = "insert" => r.weight \in Weight /\ r.phase \in InSome(Phase)
           /\ r.pc = "milestone_write" =>
                 /\ r.milestone \in Milestone /\ r.weight \in Weight \cup {Keep}
                 /\ r.phase \in InSome(Phase) \cup {Keep}
                 /\ r.complete \in BOOLEAN \cup {Keep}
           /\ r.pc = "twin_write" =>
                 r.task \in Task /\ r.phase \in InSome(Phase) /\ r.done \in BOOLEAN
BY DEF MilestoneRequest

LEMMA Unclean ==
    ASSUME NEW r \in Request, r.pc # "idle"
    PROVE  [r EXCEPT !.clean = FALSE] \in Request
<1>1. CASE r \in PhaseRequest BY <1>1 DEF Request, PhaseRequest
<1>2. CASE r \in TaskRequest BY <1>2 DEF Request, TaskRequest
<1>3. CASE r \in GateRequest BY <1>3 DEF Request, GateRequest
<1>4. CASE r \in MilestoneRequest BY <1>4 DEF Request, MilestoneRequest
<1> QED BY <1>1, <1>2, <1>3, <1>4 DEF Request, Idle

LEMMA WroteType ==
    ASSUME TypeOK, NEW h \in Handler, NEW r \in Request, Wrote(h, r)
    PROVE  req' \in [Handler -> Request]
<1>1. Idle \in Request BY DEF Request
<1>2. ASSUME NEW g \in Handler, ~At(g, "idle")
      PROVE  [req[g] EXCEPT !.clean = FALSE] \in Request
  BY <1>2, Unclean DEF TypeOK, At
<1> QED BY <1>1, <1>2 DEF TypeOK, Wrote

LEMMA WithoutTypes ==
    ASSUME TypeOK, NEW t
    PROVE  /\ WithoutTask(phase, t) \in [Phase -> PhaseRow]
           /\ WithoutTask(milestone, t) \in [Milestone -> MilestoneRow]
BY DEF TypeOK, WithoutTask, PhaseRow, MilestoneRow, InSome

LEMMA InitType == ASSUME PhasesAssumption, Init PROVE TypeOK
<1>1. {"free", "row", "gone"} \subseteq State BY DEF State
<1>2. phase \in [Phase -> PhaseRow] BY <1>1, BlankTypes DEF Init
<1>3. task \in [Task -> TaskRow] BY <1>1, BlankTypes DEF Init
<1>4. milestone \in [Milestone -> MilestoneRow]
  <2>1. \A t \in Task : [NoMilestone("row") EXCEPT !.twin = t] \in MilestoneRow
    BY <1>1 DEF NoMilestone, MilestoneRow, InSome, PhasesAssumption
  <2> QED BY <1>1, <2>1, BlankTypes DEF Init
<1>5. req \in [Handler -> Request] BY DEF Init, Request
<1>6. calls \in 0..MaxCalls BY DEF Init, PhasesAssumption
<1> QED BY <1>2, <1>3, <1>4, <1>5, <1>6 DEF Init, TypeOK

LEMMA BecomeType ==
    ASSUME TypeOK, NEW h \in Handler, NEW r \in Request, Become(h, r)
    PROVE  TypeOK'
BY DEF TypeOK, Become, rows

LEMMA BeginType ==
    ASSUME PhasesAssumption, TypeOK, NEW h \in Handler, NEW r \in Request, Begin(h, r)
    PROVE  TypeOK'
<1>1. calls' \in 0..MaxCalls BY DEF TypeOK, Begin, Start, MayStart, PhasesAssumption
<1> QED BY <1>1 DEF TypeOK, Begin, rows

LEMMA StartType ==
    ASSUME PhasesAssumption, TypeOK, NEW h \in Handler, Start(h)
    PROVE  calls' \in 0..MaxCalls
BY DEF TypeOK, Start, MayStart, PhasesAssumption

LEMMA PhaseType ==
    ASSUME PhasesAssumption, TypeOK, NEW h \in Handler, PhaseStep(h)
    PROVE  TypeOK'
<1>0. req[h] \in Request /\ Idle \in Request BY DEF TypeOK, Request
<1>1. ASSUME NEW p \in Phase, NEW t \in Task, NEW s \in {"Open", "Completed"},
             CreatePhase(h, p, t, s)
      PROVE  TypeOK'
  <2>1. phase' \in [Phase -> PhaseRow]
    BY <1>1 DEF CreatePhase, TypeOK, PhaseRow, State, InSome
  <2>2. [NoTask("row") EXCEPT !.phase = p] \in TaskRow
    BY DEF NoTask, TaskRow, State, InSome
  <2>3. task' \in [Task -> TaskRow] BY <1>1, <2>2 DEF CreatePhase, TypeOK
  <2>4. req' \in [Handler -> Request] BY <1>0, <1>1, WroteType DEF CreatePhase
  <2>5. calls' \in 0..MaxCalls BY <1>1, StartType DEF CreatePhase
  <2> QED BY <1>1, <2>1, <2>3, <2>4, <2>5 DEF CreatePhase, TypeOK
<1>2. ASSUME NEW p \in Phase, NEW s \in {"Open", "Completed", Keep}, UpdatePhaseRead(h, p, s)
      PROVE  TypeOK'
  <2>1. phase[p].twin \in InSome(Task) BY DEF TypeOK, PhaseRow
  <2>2. [pc |-> IF s = "Completed" /\ phase[p].status # s THEN "gate_check" ELSE "phase_write",
         phase |-> p, twin |-> phase[p].twin, next |-> s, clean |-> TRUE] \in Request
    BY <2>1 DEF Request, PhaseRequest
  <2> QED BY <1>2, <2>2, BeginType DEF UpdatePhaseRead
<1>3. CASE GateCheck(h)
  <2>2. req[h] \in PhaseRequest BY <1>0, <1>3, Kinds DEF GateCheck, At
  <2>1. [req[h] EXCEPT !.pc = "phase_write", !.clean = TRUE] \in Request
    BY <2>2 DEF Request, PhaseRequest
  <2> QED BY <1>3, <2>1, BecomeType DEF GateCheck
<1>4. ASSUME NEW t \in Task, PhaseWrite(h, t) PROVE TypeOK'
  <2>1. req[h] \in PhaseRequest BY <1>0, <1>4, Kinds DEF PhaseWrite, At
  <2> DEFINE old == phase[req[h].phase]
             status == Given(req[h].next, old.status)
  <2>7. old \in PhaseRow /\ req[h].phase \in Phase BY <2>1 DEF PhaseRequest, TypeOK
  <2>2. status \in {"Open", "Completed"}
    BY <2>1, <2>7 DEF PhaseRequest, Given, PhaseRow
  <2>8. /\ [old EXCEPT !.status = status] \in PhaseRow
        /\ [old EXCEPT !.status = status, !.twin = t] \in PhaseRow
    BY <2>2, <2>7 DEF PhaseRow, InSome
  <2>3. phase' \in [Phase -> PhaseRow]
    BY <1>4, <2>7, <2>8 DEF PhaseWrite, TypeOK
  <2>4. [NoTask("row") EXCEPT !.phase = req[h].phase] \in TaskRow
    BY <2>1 DEF NoTask, TaskRow, State, InSome, PhaseRequest
  <2>5. task' \in [Task -> TaskRow] BY <1>4, <2>4 DEF PhaseWrite, TypeOK
  <2>6. req' \in [Handler -> Request] BY <1>0, <1>4, WroteType DEF PhaseWrite
  <2> QED BY <1>4, <2>3, <2>5, <2>6 DEF PhaseWrite, TypeOK
<1>5. ASSUME NEW p \in Phase, RemovePhaseRead(h, p) PROVE TypeOK'
  <2>1. phase[p].twin \in InSome(Task) BY DEF TypeOK, PhaseRow
  <2>2. [pc |-> "count", phase |-> p, twin |-> phase[p].twin, next |-> Keep,
         clean |-> TRUE] \in Request
    BY <2>1 DEF Request, PhaseRequest
  <2> QED BY <1>5, <2>2, BeginType DEF RemovePhaseRead
<1>6. CASE RemoveCount(h)
  <2>2. req[h] \in PhaseRequest BY <1>0, <1>6, Kinds DEF RemoveCount, At
  <2>1. [req[h] EXCEPT !.pc = "remove", !.clean = TRUE] \in Request
    BY <2>2 DEF Request, PhaseRequest
  <2> QED BY <1>6, <2>1, BecomeType DEF RemoveCount
<1>7. CASE RemoveWrite(h)
  <2> DEFINE p == req[h].phase
             twin == req[h].twin
             left == {t \in TaskIds \ {twin} : task[t].phase = p}
  <2>1. req[h] \in PhaseRequest BY <1>0, <1>7, Kinds DEF RemoveWrite, At
  <2>2. NoPhase("gone") \in PhaseRow /\ NoTask("gone") \in TaskRow
    BY BlankTypes DEF State
  <2>3. phase' \in [Phase -> PhaseRow]
    BY <1>7, <2>2, WithoutTypes DEF RemoveWrite
  <2>4. \A t \in Task : [task[t] EXCEPT !.phase = None] \in TaskRow
    BY DEF TypeOK, TaskRow, InSome
  <2>5. task' = [t \in Task |-> IF t = twin THEN NoTask("gone")
                                ELSE IF t \in left THEN [task[t] EXCEPT !.phase = None]
                                ELSE task[t]]
    BY <1>7 DEF RemoveWrite
  <2>6. task' \in [Task -> TaskRow] BY <2>2, <2>4, <2>5 DEF TypeOK
  <2>7. ASSUME NEW row \in MilestoneRow
        PROVE  (IF row.phase = p THEN [row EXCEPT !.phase = None] ELSE row) \in MilestoneRow
    BY DEF MilestoneRow, InSome
  <2>8. milestone' = [m \in Milestone |->
               LET row == WithoutTask(milestone, twin)[m]
               IN  IF row.phase = p THEN [row EXCEPT !.phase = None] ELSE row]
    BY <1>7 DEF RemoveWrite
  <2>9. milestone' \in [Milestone -> MilestoneRow] BY <2>7, <2>8, WithoutTypes
  <2>10. req' \in [Handler -> Request] BY <1>0, <1>7, WroteType DEF RemoveWrite
  <2>11. waived' \subseteq {"gate", "parent", "weights"} BY <1>7 DEF RemoveWrite, TypeOK
  <2> QED BY <1>7, <2>3, <2>6, <2>9, <2>10, <2>11 DEF RemoveWrite, TypeOK
<1> QED BY <1>1, <1>2, <1>3, <1>4, <1>5, <1>6, <1>7 DEF PhaseStep

LEMMA TaskType ==
    ASSUME PhasesAssumption, TypeOK, NEW h \in Handler, TaskStep(h)
    PROVE  TypeOK'
<1>0. req[h] \in Request /\ Idle \in Request BY DEF TypeOK, Request
<1>1. ASSUME NEW t \in Task, NEW p \in InSome(Phase), NEW sub \in BOOLEAN,
             CreateTask(h, t, p, sub)
      PROVE  TypeOK'
  <2>1. [NoTask("row") EXCEPT !.phase = p, !.sub = sub] \in TaskRow
    BY DEF NoTask, TaskRow, State
  <2>2. task' \in [Task -> TaskRow] BY <1>1, <2>1 DEF CreateTask, TypeOK
  <2>3. req' \in [Handler -> Request] BY <1>0, <1>1, WroteType DEF CreateTask
  <2>4. calls' \in 0..MaxCalls BY <1>1, StartType DEF CreateTask
  <2> QED BY <1>1, <2>2, <2>3, <2>4 DEF CreateTask, TypeOK
<1>2. ASSUME NEW p \in Phase, NEW done \in BOOLEAN, CreateGate(h, p, done) PROVE TypeOK'
  <2>1. [pc |-> "gate_begin", task |-> None, phase |-> p, done |-> done,
         others |-> {}, clean |-> TRUE] \in Request
    BY DEF Request, GateRequest, InSome
  <2> QED BY <1>2, <2>1, BeginType DEF CreateGate
<1>3. ASSUME NEW t \in Task, NEW p \in InSome(Phase) \cup {Keep}, NEW sub \in BOOLEAN \cup {Keep},
             NEW gate \in BOOLEAN \cup {Keep}, NEW done \in BOOLEAN \cup {Keep},
             UpdateTaskRead(h, t, p, sub, gate, done)
      PROVE  TypeOK'
  <2> DEFINE resolved == Given(p, task[t].phase)
             stays == StaysGate(t, resolved, Given(sub, task[t].sub), gate)
             begin == [pc |-> "gate_begin", task |-> t, phase |-> resolved, done |-> done,
                       others |-> {}, clean |-> TRUE]
             write == [pc |-> "task_write", task |-> t, phase |-> p, done |-> done,
                       clean |-> TRUE]
  <2>1. resolved \in InSome(Phase) BY DEF Given, TypeOK, TaskRow
  <2>2. stays => begin \in Request BY <2>1 DEF Request, GateRequest, InSome, StaysGate
  <2>3. write \in Request BY DEF Request, TaskRequest
  <2>4. req' = [req EXCEPT ![h] = IF stays THEN begin ELSE write] BY <1>3 DEF UpdateTaskRead
  <2>5. req' \in [Handler -> Request] BY <2>2, <2>3, <2>4 DEF TypeOK
  <2>6. calls' \in 0..MaxCalls BY <1>3, StartType DEF UpdateTaskRead
  <2>7. waived' \subseteq {"gate", "parent", "weights"} BY <1>3 DEF UpdateTaskRead, TypeOK
  <2> QED BY <1>3, <2>5, <2>6, <2>7 DEF UpdateTaskRead, TypeOK, rows
<1>4. CASE UpdateTaskWrite(h)
  <2>1. req[h] \in TaskRequest BY <1>0, <1>4, Kinds DEF UpdateTaskWrite, At
  <2> DEFINE old == task[req[h].task]
  <2>2. old \in TaskRow /\ req[h].task \in Task BY <2>1 DEF TaskRequest, TypeOK
  <2>5. [old EXCEPT !.phase = Given(req[h].phase, old.phase), !.gate = FALSE,
                    !.done = Given(req[h].done, old.done)] \in TaskRow
    BY <2>1, <2>2 DEF TaskRequest, TaskRow, Given
  <2>3. task' \in [Task -> TaskRow] BY <1>4, <2>2, <2>5 DEF UpdateTaskWrite, TypeOK
  <2>4. req' \in [Handler -> Request] BY <1>0, <1>4, WroteType DEF UpdateTaskWrite
  <2> QED BY <1>4, <2>3, <2>4 DEF UpdateTaskWrite, TypeOK
<1>5. CASE GateBegin(h)
  <2>1. req[h] \in GateRequest BY <1>0, <1>5, Kinds DEF GateBegin, At
  <2>2. GatesOf(req[h].phase) \ {req[h].task} \in SUBSET Task BY DEF GatesOf, TaskIds
  <2>3. [req[h] EXCEPT !.pc = "gate_set", !.others = GatesOf(req[h].phase) \ {req[h].task},
                       !.clean = TRUE] \in Request
    BY <2>1, <2>2 DEF Request, GateRequest
  <2> QED BY <1>5, <2>3, BecomeType DEF GateBegin
<1>6. ASSUME NEW t \in Task, GateSet(h, t) PROVE TypeOK'
  <2> DEFINE row == IF req[h].task = None THEN NoTask("row") ELSE task[t]
  <2>1. req[h] \in GateRequest BY <1>0, <1>6, Kinds DEF GateSet, At
  <2>2. row \in TaskRow BY BlankTypes DEF TypeOK, State
  <2>3. [row EXCEPT !.phase = req[h].phase, !.gate = TRUE, !.done = Given(req[h].done, row.done)]
          \in TaskRow
    BY <2>1, <2>2 DEF GateRequest, TaskRow, InSome, Given
  <2>4. \A u \in Task : [task[u] EXCEPT !.gate = FALSE] \in TaskRow BY DEF TypeOK, TaskRow
  <2>5. task' = [u \in Task |->
               IF u = t
               THEN [row EXCEPT !.phase = req[h].phase, !.gate = TRUE,
                                !.done = Given(req[h].done, row.done)]
               ELSE IF u \in req[h].others \cap GatesOf(req[h].phase)
                    THEN [task[u] EXCEPT !.gate = FALSE]
               ELSE task[u]]
    BY <1>6 DEF GateSet
  <2>6. task' \in [Task -> TaskRow] BY <2>3, <2>4, <2>5 DEF TypeOK
  <2>7. req' \in [Handler -> Request] BY <1>0, <1>6, WroteType DEF GateSet
  <2>8. waived' \subseteq {"gate", "parent", "weights"} BY <1>6 DEF GateSet, TypeOK
  <2> QED BY <1>6, <2>6, <2>7, <2>8 DEF GateSet, TypeOK
<1>7. ASSUME NEW t \in Task, RemoveTask(h, t) PROVE TypeOK'
  <2>1. task' \in [Task -> TaskRow] BY <1>7, BlankTypes DEF RemoveTask, TypeOK, State
  <2>2. req' \in [Handler -> Request] BY <1>0, <1>7, WroteType DEF RemoveTask
  <2>3. calls' \in 0..MaxCalls BY <1>7, StartType DEF RemoveTask
  <2> QED BY <1>7, <2>1, <2>2, <2>3, WithoutTypes DEF RemoveTask, TypeOK
<1> QED BY <1>1, <1>2, <1>3, <1>4, <1>5, <1>6, <1>7 DEF TaskStep

LEMMA MilestoneType ==
    ASSUME PhasesAssumption, TypeOK, NEW h \in Handler, MilestoneStep(h)
    PROVE  TypeOK'
<1>0. req[h] \in Request /\ Idle \in Request BY DEF TypeOK, Request
<1>1. ASSUME NEW w \in Weight, NEW p \in InSome(Phase), CreateMilestone(h, w, p)
      PROVE  TypeOK'
  <2>1. [pc |-> "insert", weight |-> w, phase |-> p, clean |-> TRUE] \in Request
    BY DEF Request, MilestoneRequest
  <2> QED BY <1>1, <2>1, BeginType DEF CreateMilestone
<1>2. ASSUME NEW m \in Milestone, InsertMilestone(h, m) PROVE TypeOK'
  <2>1. req[h] \in MilestoneRequest BY <1>0, <1>2, Kinds DEF InsertMilestone, At
  <2>2. req[h].weight \in Weight /\ req[h].phase \in InSome(Phase)
    BY <1>2, <2>1, MilestoneKinds DEF InsertMilestone, At
  <2>3. [NoMilestone("row") EXCEPT !.weight = req[h].weight, !.phase = req[h].phase]
          \in MilestoneRow
    BY <2>2 DEF NoMilestone, MilestoneRow, State, InSome
  <2>4. milestone' \in [Milestone -> MilestoneRow] BY <1>2, <2>3 DEF InsertMilestone, TypeOK
  <2>5. req' \in [Handler -> Request] BY <1>0, <1>2, WroteType DEF InsertMilestone
  <2>6. waived' \subseteq {"gate", "parent", "weights"} BY <1>2 DEF InsertMilestone, TypeOK
  <2> QED BY <1>2, <2>4, <2>5, <2>6 DEF InsertMilestone, TypeOK
<1>3. ASSUME NEW m \in Milestone, RemoveMilestone(h, m) PROVE TypeOK'
  <2>1. milestone' \in [Milestone -> MilestoneRow]
    BY <1>3, BlankTypes DEF RemoveMilestone, TypeOK, State
  <2>2. req' \in [Handler -> Request] BY <1>0, <1>3, WroteType DEF RemoveMilestone
  <2>3. calls' \in 0..MaxCalls BY <1>3, StartType DEF RemoveMilestone
  <2> QED BY <1>3, <2>1, <2>2, <2>3 DEF RemoveMilestone, TypeOK
<1>4. ASSUME NEW m \in Milestone, NEW w \in Weight \cup {Keep},
             NEW p \in InSome(Phase) \cup {Keep}, NEW complete \in BOOLEAN \cup {Keep},
             UpdateMilestone(h, m, w, p, complete)
      PROVE  TypeOK'
  <2>1. [pc |-> "milestone_write", milestone |-> m, weight |-> w, phase |-> p,
         complete |-> complete, clean |-> TRUE] \in Request
    BY DEF Request, MilestoneRequest
  <2> QED BY <1>4, <2>1, BeginType DEF UpdateMilestone
<1>5. CASE MilestoneWrite(h)
  <2> DEFINE r == req[h]
             old == milestone[r.milestone]
             new == [old EXCEPT !.weight = Given(r.weight, old.weight),
                                !.phase = Given(r.phase, old.phase),
                                !.complete = Given(r.complete, old.complete)]
             next == IF old.twin = None THEN Idle
                     ELSE [pc |-> "twin_write", task |-> old.twin, phase |-> new.phase,
                           done |-> new.complete, clean |-> TRUE]
  <2>1. r \in MilestoneRequest BY <1>0, <1>5, Kinds DEF MilestoneWrite, At
  <2>2. /\ r.milestone \in Milestone /\ r.weight \in Weight \cup {Keep}
        /\ r.phase \in InSome(Phase) \cup {Keep} /\ r.complete \in BOOLEAN \cup {Keep}
    BY <1>5, <2>1, MilestoneKinds DEF MilestoneWrite, At
  <2>3. old \in MilestoneRow BY <2>2 DEF TypeOK
  <2>4. new \in MilestoneRow BY <2>2, <2>3 DEF MilestoneRow, Given
  <2>5. next \in Request
    BY <1>0, <2>3, <2>4 DEF Request, MilestoneRequest, MilestoneRow, InSome
  <2>6. milestone' \in [Milestone -> MilestoneRow] BY <1>5, <2>4 DEF MilestoneWrite, TypeOK
  <2>7. Wrote(h, next) BY <1>5 DEF MilestoneWrite
  <2>8. req' \in [Handler -> Request] BY <2>5, <2>7, WroteType
  <2>9. waived' \subseteq {"gate", "parent", "weights"} BY <1>5 DEF MilestoneWrite, TypeOK
  <2> QED BY <1>5, <2>6, <2>8, <2>9 DEF MilestoneWrite, TypeOK
<1>6. CASE TwinWrite(h)
  <2>1. req[h] \in MilestoneRequest BY <1>0, <1>6, Kinds DEF TwinWrite, At
  <2>2. req[h].task \in Task /\ req[h].phase \in InSome(Phase) /\ req[h].done \in BOOLEAN
    BY <1>6, <2>1, MilestoneKinds DEF TwinWrite, At
  <2>3. task' \in [Task -> TaskRow] BY <1>6, <2>2 DEF TwinWrite, TypeOK, TaskRow
  <2>4. req' \in [Handler -> Request] BY <1>0, <1>6, WroteType DEF TwinWrite
  <2>5. waived' \subseteq {"gate", "parent", "weights"} BY <1>6 DEF TwinWrite, TypeOK
  <2> QED BY <1>6, <2>3, <2>4, <2>5 DEF TwinWrite, TypeOK
<1> QED BY <1>1, <1>2, <1>3, <1>4, <1>5, <1>6 DEF MilestoneStep

LEMMA StepType ==
    ASSUME PhasesAssumption, TypeOK, [Next]_vars
    PROVE  TypeOK'
<1>1. ASSUME NEW h \in Handler, Abort(h) PROVE TypeOK'
  BY <1>1, BecomeType DEF Abort, Request
<1>2. CASE UNCHANGED vars BY <1>2 DEF vars, rows, TypeOK
<1> QED BY <1>1, <1>2, PhaseType, TaskType, MilestoneType DEF Next

(* Rows and requests keep their types.                                      *)
THEOREM TypeCorrect == Spec => []TypeOK
<1>1. Init => TypeOK BY InitType, PhasesAssumption
<1>2. TypeOK /\ [Next]_vars => TypeOK' BY StepType, PhasesAssumption
<1> QED BY <1>1, <1>2, PTL DEF Spec

-----------------------------------------------------------------------------
(* Gates.  What a request relies on when it writes, if nobody has written since
   it decided: the gates that it replaces are all there are, a phase that it
   completes has a gate that is done, a phase that it removes has no tasks.  A
   task that is to be a gate is no sub-task, whoever has written since, unless
   an update has named another parent.                                       *)
Top(t) == task[t].sub = FALSE \/ "parent" \in waived

Relies(r) ==
    /\ r.pc \in {"gate_begin", "gate_set"} /\ r.task # None =>
          task[r.task].state # "free" /\ Top(r.task)
    /\ r.pc = "gate_set" /\ r.clean = TRUE => r.others = GatesOf(r.phase) \ {r.task}
    /\ r.pc = "phase_write" /\ r.clean = TRUE /\ r.next = "Completed" =>
          \/ phase[r.phase].status = "Completed"
          \/ \E t \in GatesOf(r.phase) : task[t].done = TRUE
    /\ r.pc = "remove" /\ r.clean = TRUE =>
          \A t \in TaskIds \ {r.twin} : task[t].phase # r.phase

SoleGates ==
    "gate" \notin waived =>
        \A t \in TaskIds : task[t].gate = TRUE =>
            /\ task[t].phase \in PhaseIds /\ Top(t)
            /\ \A u \in TaskIds : task[u].gate = TRUE /\ task[u].phase = task[t].phase => u = t

IInv == TypeOK /\ SoleGates /\ \A h \in Handler : Relies(req[h])

(* A task that is not free and no sub-task stays so.                        *)
TopTask(t) == task[t].state # "free" /\ Top(t)
StaysTop == \A t \in Task : TopTask(t) => TopTask(t)'

(* A step that only reads: what this request relies on is to be shown.      *)
LEMMA ReadRelies ==
    ASSUME IInv, NEW h \in Handler, NEW r, req' = [req EXCEPT ![h] = r],
           UNCHANGED rows, waived' \in {waived, waived \cup {"parent"}},
           \/ Relies(r)
           \/ /\ "parent" \in waived' /\ r.pc = "gate_begin"
              /\ r.task # None => task[r.task].state # "free"
    PROVE  SoleGates' /\ \A g \in Handler : Relies(req[g])'
<1>1. UNCHANGED <<phase, task, milestone>> BY DEF rows
<1>2. SoleGates' BY <1>1 DEF IInv, SoleGates, Top, TaskIds, PhaseIds
<1>3. ASSUME NEW g \in Handler PROVE Relies(req[g])'
  <2>1. CASE Relies(req'[g]) BY <1>1, <2>1 DEF Relies, Top, GatesOf, TaskIds
  <2>2. CASE g # h
    <3>1. Relies(req'[g]) BY <2>2 DEF IInv, TypeOK
    <3> QED BY <2>1, <3>1
  <2>3. CASE g = h /\ ~Relies(r)
    <3>1. req'[g] = r BY <2>3 DEF IInv, TypeOK
    <3> QED BY <1>1, <2>3, <3>1 DEF Relies, Top
  <2>4. CASE g = h /\ Relies(r)
    <3>1. req'[g] = r BY <2>4 DEF IInv, TypeOK
    <3> QED BY <2>1, <2>4, <3>1
  <2> QED BY <2>2, <2>3, <2>4
<1> QED BY <1>2, <1>3

(* A step that writes: the other requests are not clean any more.           *)
LEMMA WriteRelies ==
    ASSUME IInv, NEW h \in Handler, NEW r, r.pc \in {"idle", "twin_write"}, Wrote(h, r), StaysTop
    PROVE  \A g \in Handler : Relies(req[g])'
<1> SUFFICES ASSUME NEW g \in Handler PROVE Relies(req[g])'
  OBVIOUS
<1>1. CASE g = h
  <2>1. req'[g].pc \in {"idle", "twin_write"} BY <1>1 DEF Wrote
  <2> QED BY <2>1 DEF Relies
<1>2. CASE g # h /\ At(g, "idle")
  <2>1. req'[g].pc = "idle" BY <1>2 DEF Wrote, Idle
  <2> QED BY <2>1 DEF Relies
<1>3. CASE g # h /\ ~At(g, "idle")
  <2>1. req'[g] = [req[g] EXCEPT !.clean = FALSE] BY <1>3 DEF Wrote
  <2>2. req[g] \in Request BY DEF IInv, TypeOK
  <2>3. /\ req'[g].pc = req[g].pc /\ req'[g].clean = FALSE
        /\ req[g].pc \in {"gate_begin", "gate_set"} =>
              req'[g].task = req[g].task /\ req[g].task \in InSome(Task)
    BY <1>3, <2>1, <2>2, Kinds
       DEF At, Request, PhaseRequest, TaskRequest, GateRequest, MilestoneRequest, Idle
  <2> QED BY <2>3 DEF IInv, Relies, StaysTop, TopTask, InSome
<1> QED BY <1>1, <1>2, <1>3

(* Every gate was one before, and of the same phase, which is still there.  *)
LEMMA FewerGates ==
    ASSUME SoleGates, waived \subseteq waived',
           "gate" \notin waived' =>
               \A t \in TaskIds' : task'[t].gate = TRUE =>
                   /\ t \in TaskIds /\ task[t].gate = TRUE
                   /\ task'[t].phase = task[t].phase /\ task'[t].sub = task[t].sub
                   /\ task[t].phase \in PhaseIds => task[t].phase \in PhaseIds'
    PROVE  SoleGates'
BY DEF SoleGates, Top

LEMMA PhaseKeeps ==
    ASSUME PhasesAssumption, IInv, NEW h \in Handler, PhaseStep(h)
    PROVE  SoleGates' /\ \A g \in Handler : Relies(req[g])'
<1> USE DEF IInv
<1>0. req[h] \in Request BY DEF TypeOK
<1>1. ASSUME NEW p \in Phase, NEW t \in Task, NEW s \in {"Open", "Completed"},
             CreatePhase(h, p, t, s)
      PROVE  SoleGates' /\ \A g \in Handler : Relies(req[g])'
  <2>1. StaysTop BY <1>1 DEF CreatePhase, StaysTop, TopTask, Top, TypeOK
  <2>2. Wrote(h, Idle) BY <1>1 DEF CreatePhase
  <2>3. \A u \in Task : task'[u].gate = TRUE => u # t /\ task'[u] = task[u]
    BY <1>1 DEF CreatePhase, TypeOK, NoTask
  <2>4. PhaseIds \subseteq PhaseIds' BY <1>1 DEF CreatePhase, PhaseIds, TypeOK
  <2>5. SoleGates' BY <1>1, <2>3, <2>4, FewerGates DEF CreatePhase, TaskIds
  <2> QED BY <2>1, <2>2, <2>5, WriteRelies DEF Idle
<1>2. ASSUME NEW p \in Phase, NEW s \in {"Open", "Completed", Keep}, UpdatePhaseRead(h, p, s)
      PROVE  SoleGates' /\ \A g \in Handler : Relies(req[g])'
  <2> DEFINE r == [pc |-> IF s = "Completed" /\ phase[p].status # s
                          THEN "gate_check" ELSE "phase_write",
                   phase |-> p, twin |-> phase[p].twin, next |-> s, clean |-> TRUE]
  <2>1. Relies(r) BY DEF Relies
  <2> QED BY <1>2, <2>1, ReadRelies DEF UpdatePhaseRead, Begin
<1>3. CASE GateCheck(h)
  <2> DEFINE r == [req[h] EXCEPT !.pc = "phase_write", !.clean = TRUE]
  <2>1. req[h] \in PhaseRequest BY <1>0, <1>3, Kinds DEF GateCheck, At
  <2>2. r.pc = "phase_write" /\ r.phase = req[h].phase BY <2>1 DEF PhaseRequest
  <2>3. \E t \in GatesOf(r.phase) : task[t].done = TRUE BY <1>3, <2>2 DEF GateCheck
  <2>4. Relies(r) BY <2>2, <2>3 DEF Relies
  <2> QED BY <1>3, <2>4, ReadRelies DEF GateCheck, Become
<1>4. ASSUME NEW t \in Task, PhaseWrite(h, t)
      PROVE  SoleGates' /\ \A g \in Handler : Relies(req[g])'
  <2>1. StaysTop BY <1>4 DEF PhaseWrite, StaysTop, TopTask, Top, TypeOK
  <2>2. Wrote(h, Idle) BY <1>4 DEF PhaseWrite
  <2>3. \A u \in Task : task'[u].gate = TRUE => task'[u] = task[u]
    BY <1>4 DEF PhaseWrite, TypeOK, NoTask
  <2> DEFINE p == req[h].phase
             status == Given(req[h].next, phase[p].status)
  <2>6. \/ phase' = [phase EXCEPT ![p] = [@ EXCEPT !.status = status]]
        \/ phase' = [phase EXCEPT ![p] = [@ EXCEPT !.status = status, !.twin = t]]
    BY <1>4 DEF PhaseWrite
  <2>7. ASSUME NEW q \in Phase PROVE phase'[q].state = phase[q].state
    <3>1. CASE q # p BY <2>6, <3>1 DEF TypeOK
    <3>2. CASE q = p
      <4>1. phase[p] \in PhaseRow BY <3>2 DEF TypeOK
      <4>2. \/ phase'[p] = [phase[p] EXCEPT !.status = status]
            \/ phase'[p] = [phase[p] EXCEPT !.status = status, !.twin = t]
        BY <2>6, <3>2 DEF TypeOK
      <4> QED BY <3>2, <4>1, <4>2 DEF PhaseRow
    <3> QED BY <3>1, <3>2
  <2>4. PhaseIds \subseteq PhaseIds' BY <2>7 DEF PhaseIds
  <2>5. SoleGates' BY <1>4, <2>3, <2>4, FewerGates DEF PhaseWrite, TaskIds
  <2> QED BY <2>1, <2>2, <2>5, WriteRelies DEF Idle
<1>5. ASSUME NEW p \in Phase, RemovePhaseRead(h, p)
      PROVE  SoleGates' /\ \A g \in Handler : Relies(req[g])'
  <2>1. Relies([pc |-> "count", phase |-> p, twin |-> phase[p].twin, next |-> Keep,
                clean |-> TRUE])
    BY DEF Relies
  <2> QED BY <1>5, <2>1, ReadRelies DEF RemovePhaseRead, Begin
<1>6. CASE RemoveCount(h)
  <2> DEFINE r == [req[h] EXCEPT !.pc = "remove", !.clean = TRUE]
  <2>1. req[h] \in PhaseRequest BY <1>0, <1>6, Kinds DEF RemoveCount, At
  <2>2. r.pc = "remove" /\ r.phase = req[h].phase /\ r.twin = req[h].twin
    BY <2>1 DEF PhaseRequest
  <2>3. Relies(r) BY <1>6, <2>2 DEF Relies, RemoveCount
  <2> QED BY <1>6, <2>3, ReadRelies DEF RemoveCount, Become
<1>7. CASE RemoveWrite(h)
  <2> DEFINE p == req[h].phase
             twin == req[h].twin
             left == {t \in TaskIds \ {twin} : task[t].phase = p}
  <2>1. task' = [t \in Task |-> IF t = twin THEN NoTask("gone")
                                ELSE IF t \in left THEN [task[t] EXCEPT !.phase = None]
                                ELSE task[t]]
    BY <1>7 DEF RemoveWrite
  <2>2. waived' = waived \cup {"gate" : t \in left \cap GatesOf(p)} BY <1>7 DEF RemoveWrite
  <2>3. StaysTop BY <2>1, <2>2 DEF StaysTop, TopTask, Top, TypeOK, TaskRow, NoTask
  <2>4. Wrote(h, Idle) BY <1>7 DEF RemoveWrite
  <2>5. ASSUME NEW t \in TaskIds', task'[t].gate = TRUE, "gate" \notin waived'
        PROVE  t \in TaskIds /\ task'[t] = task[t] /\ task[t].phase # p
    <3>1. t # twin BY <2>1, <2>5 DEF TaskIds, NoTask
    <3>2. t \in TaskIds /\ task[t].gate = TRUE
      BY <2>1, <2>5, <3>1 DEF TaskIds, TypeOK, TaskRow
    <3>3. t \notin left BY <2>2, <2>5, <3>2 DEF GatesOf
    <3> QED BY <2>1, <3>1, <3>2, <3>3 DEF TaskIds
  <2>6. PhaseIds \ {p} \subseteq PhaseIds'
    BY <1>7 DEF RemoveWrite, WithoutTask, PhaseIds, TypeOK, PhaseRow
  <2>7. SoleGates' BY <2>2, <2>5, <2>6, FewerGates
  <2> QED BY <2>3, <2>4, <2>7, WriteRelies DEF Idle
<1> QED BY <1>1, <1>2, <1>3, <1>4, <1>5, <1>6, <1>7 DEF PhaseStep

LEMMA TaskKeeps ==
    ASSUME PhasesAssumption, IInv, NEW h \in Handler, TaskStep(h)
    PROVE  SoleGates' /\ \A g \in Handler : Relies(req[g])'
<1> USE DEF IInv
<1>0. req[h] \in Request BY DEF TypeOK
<1>1. ASSUME NEW t \in Task, NEW p \in InSome(Phase), NEW sub \in BOOLEAN,
             CreateTask(h, t, p, sub)
      PROVE  SoleGates' /\ \A g \in Handler : Relies(req[g])'
  <2>1. StaysTop BY <1>1 DEF CreateTask, StaysTop, TopTask, Top, TypeOK
  <2>2. Wrote(h, Idle) BY <1>1 DEF CreateTask
  <2>3. \A u \in Task : task'[u].gate = TRUE => u # t /\ task'[u] = task[u]
    BY <1>1 DEF CreateTask, TypeOK, NoTask
  <2>4. SoleGates' BY <1>1, <2>3, FewerGates DEF CreateTask, TaskIds, PhaseIds
  <2> QED BY <2>1, <2>2, <2>4, WriteRelies DEF Idle
<1>2. ASSUME NEW p \in Phase, NEW done \in BOOLEAN, CreateGate(h, p, done)
      PROVE  SoleGates' /\ \A g \in Handler : Relies(req[g])'
  <2>1. Relies([pc |-> "gate_begin", task |-> None, phase |-> p, done |-> done,
                others |-> {}, clean |-> TRUE])
    BY DEF Relies
  <2> QED BY <1>2, <2>1, ReadRelies DEF CreateGate, Begin
<1>3. ASSUME NEW t \in Task, NEW p \in InSome(Phase) \cup {Keep}, NEW sub \in BOOLEAN \cup {Keep},
             NEW gate \in BOOLEAN \cup {Keep}, NEW done \in BOOLEAN \cup {Keep},
             UpdateTaskRead(h, t, p, sub, gate, done)
      PROVE  SoleGates' /\ \A g \in Handler : Relies(req[g])'
  <2> DEFINE resolved == Given(p, task[t].phase)
             stays == StaysGate(t, resolved, Given(sub, task[t].sub), gate)
             begin == [pc |-> "gate_begin", task |-> t, phase |-> resolved, done |-> done,
                       others |-> {}, clean |-> TRUE]
             write == [pc |-> "task_write", task |-> t, phase |-> p, done |-> done,
                       clean |-> TRUE]
  <2>1. req' = [req EXCEPT ![h] = IF stays THEN begin ELSE write] BY <1>3 DEF UpdateTaskRead
  <2>2. UNCHANGED rows /\ waived' \in {waived, waived \cup {"parent"}}
    BY <1>3 DEF UpdateTaskRead
  <2>3. task[t].state # "free" BY <1>3 DEF UpdateTaskRead, TaskIds
  <2>4. CASE stays /\ sub \in {Keep, task[t].sub}
    <3>1. Given(sub, task[t].sub) = task[t].sub BY <2>4 DEF Given
    <3>2. task[t].sub = FALSE BY <2>4, <3>1 DEF StaysGate, TypeOK, TaskRow
    <3>3. Relies(begin) BY <2>3, <3>2 DEF Relies, Top
    <3> QED BY <2>1, <2>2, <2>4, <3>3, ReadRelies
  <2>5. CASE stays /\ sub \notin {Keep, task[t].sub}
    <3>1. "parent" \in waived' BY <1>3, <2>5 DEF UpdateTaskRead
    <3> QED BY <2>1, <2>2, <2>3, <2>5, <3>1, ReadRelies
  <2>6. CASE ~stays
    <3>1. Relies(write) BY DEF Relies
    <3> QED BY <2>1, <2>2, <2>6, <3>1, ReadRelies
  <2> QED BY <2>4, <2>5, <2>6
<1>4. CASE UpdateTaskWrite(h)
  <2>1. req[h].task \in Task /\ Wrote(h, Idle) BY <1>4 DEF UpdateTaskWrite, TaskIds
  <2>2. StaysTop BY <1>4, <2>1 DEF UpdateTaskWrite, StaysTop, TopTask, Top, TypeOK, TaskRow
  <2>3. task'[req[h].task].gate = FALSE
    BY <1>4, <2>1 DEF UpdateTaskWrite, TypeOK, TaskRow
  <2>4. \A u \in Task : task'[u].gate = TRUE => task'[u] = task[u]
    BY <1>4, <2>1, <2>3 DEF UpdateTaskWrite, TypeOK
  <2>5. SoleGates' BY <1>4, <2>4, FewerGates DEF UpdateTaskWrite, TaskIds, PhaseIds
  <2> QED BY <2>1, <2>2, <2>5, WriteRelies DEF Idle
<1>5. CASE GateBegin(h)
  <2> DEFINE r == [req[h] EXCEPT !.pc = "gate_set",
                                 !.others = GatesOf(req[h].phase) \ {req[h].task},
                                 !.clean = TRUE]
  <2>1. req[h] \in GateRequest BY <1>0, <1>5, Kinds DEF GateBegin, At
  <2>2. /\ r.pc = "gate_set" /\ r.phase = req[h].phase /\ r.task = req[h].task
        /\ r.others = GatesOf(r.phase) \ {r.task}
    BY <2>1 DEF GateRequest
  <2>3. req[h].pc = "gate_begin" BY <1>5 DEF GateBegin, At
  <2>4. Relies(r) BY <2>2, <2>3 DEF Relies
  <2> QED BY <1>5, <2>4, ReadRelies DEF GateBegin, Become
<1>6. ASSUME NEW t \in Task, GateSet(h, t)
      PROVE  SoleGates' /\ \A g \in Handler : Relies(req[g])'
  <2> DEFINE r == req[h]
             row == IF r.task = None THEN NoTask("row") ELSE task[t]
             new == [row EXCEPT !.phase = r.phase, !.gate = TRUE, !.done = Given(r.done, row.done)]
  <2>1. r \in GateRequest /\ r.pc = "gate_set" BY <1>0, <1>6, Kinds DEF GateSet, At
  <2>2. task' = [u \in Task |-> IF u = t THEN new
                                ELSE IF u \in r.others \cap GatesOf(r.phase)
                                     THEN [task[u] EXCEPT !.gate = FALSE]
                                ELSE task[u]]
    BY <1>6 DEF GateSet
  <2>3. row \in TaskRow BY BlankTypes DEF TypeOK, State
  <2>4. (row.sub = FALSE \/ "parent" \in waived) /\ row.state # "free"
    BY <1>6, <2>1 DEF GateSet, Relies, Top, NoTask
  <2>5. /\ new.sub = FALSE \/ "parent" \in waived
        /\ new.state # "free" /\ new.phase = r.phase
    BY <2>3, <2>4 DEF TaskRow
  <2>8. waived' = waived \cup (IF r.clean THEN {} ELSE {"gate"}) BY <1>6 DEF GateSet
  <2>6. StaysTop BY <2>2, <2>5, <2>8 DEF StaysTop, TopTask, Top, TypeOK, TaskRow
  <2>7. Wrote(h, Idle) /\ r.phase \in PhaseIds /\ UNCHANGED phase BY <1>6 DEF GateSet
  <2>9. SoleGates'
    <3> SUFFICES ASSUME "gate" \notin waived' PROVE SoleGates'
      BY DEF SoleGates
    <3>1. r.clean = TRUE /\ "gate" \notin waived BY <2>1, <2>8 DEF GateRequest
    <3>2. r.others = GatesOf(r.phase) \ {r.task} BY <2>1, <3>1 DEF Relies
    <3>3. r.task = None \/ r.task = t BY <1>6 DEF GateSet
    <3>5. GatesOf(r.phase) \ {t} \subseteq r.others
      <4>1. None \notin Task BY DEF PhasesAssumption
      <4>2. GatesOf(r.phase) \subseteq Task BY DEF GatesOf, TaskIds
      <4> QED BY <3>2, <3>3, <4>1, <4>2
    <3>6. ASSUME NEW u \in TaskIds', u # t, task'[u].gate = TRUE
          PROVE  /\ u \in TaskIds /\ task'[u] = task[u] /\ task[u].gate = TRUE
                 /\ task[u].phase # r.phase
      <4>1. u \in Task BY DEF TaskIds
      <4>2. u \notin r.others \cap GatesOf(r.phase)
        BY <2>2, <3>6, <4>1 DEF TypeOK, TaskRow
      <4>3. task'[u] = task[u] BY <2>2, <3>6, <4>1, <4>2
      <4>4. u \in TaskIds /\ task[u].gate = TRUE BY <3>6, <4>3 DEF TaskIds
      <4> QED BY <3>5, <3>6, <4>2, <4>3, <4>4 DEF GatesOf
    <3>7. task'[t].phase = r.phase /\ Top(t)' BY <2>2, <2>5, <2>8 DEF Top
    <3>8. PhaseIds' = PhaseIds BY <2>7 DEF PhaseIds
    <3>9. ASSUME NEW u \in TaskIds', task'[u].gate = TRUE
          PROVE  /\ task'[u].phase \in PhaseIds /\ Top(u)'
                 /\ u # t => task'[u].phase # r.phase
      BY <2>7, <2>8, <3>1, <3>6, <3>7, <3>9 DEF SoleGates, Top
    <3>10. ASSUME NEW u \in TaskIds', NEW v \in TaskIds', task'[u].gate = TRUE,
                  task'[v].gate = TRUE, task'[u].phase = task'[v].phase
           PROVE  u = v
      <4>1. CASE u = t \/ v = t BY <3>7, <3>9, <3>10, <4>1
      <4>2. CASE u # t /\ v # t BY <3>1, <3>6, <3>10, <4>2 DEF SoleGates
      <4> QED BY <4>1, <4>2
    <3> QED BY <3>8, <3>9, <3>10 DEF SoleGates
  <2> QED BY <2>6, <2>7, <2>9, WriteRelies DEF Idle
<1>7. ASSUME NEW t \in Task, RemoveTask(h, t)
      PROVE  SoleGates' /\ \A g \in Handler : Relies(req[g])'
  <2>1. StaysTop BY <1>7 DEF RemoveTask, StaysTop, TopTask, Top, TypeOK, NoTask
  <2>2. Wrote(h, Idle) BY <1>7 DEF RemoveTask
  <2>3. \A u \in Task : task'[u].gate = TRUE => task'[u] = task[u]
    BY <1>7 DEF RemoveTask, TypeOK, NoTask
  <2>4. PhaseIds \subseteq PhaseIds'
    BY <1>7 DEF RemoveTask, WithoutTask, PhaseIds, TypeOK, PhaseRow
  <2>5. SoleGates' BY <1>7, <2>3, <2>4, FewerGates DEF RemoveTask, TaskIds
  <2> QED BY <2>1, <2>2, <2>5, WriteRelies DEF Idle
<1> QED BY <1>1, <1>2, <1>3, <1>4, <1>5, <1>6, <1>7 DEF TaskStep

LEMMA MilestoneKeeps ==
    ASSUME PhasesAssumption, IInv, NEW h \in Handler, MilestoneStep(h)
    PROVE  SoleGates' /\ \A g \in Handler : Relies(req[g])'
<1> USE DEF IInv
<1>0. req[h] \in Request BY DEF TypeOK
<1>1. ASSUME NEW w \in Weight, NEW p \in InSome(Phase), CreateMilestone(h, w, p)
      PROVE  SoleGates' /\ \A g \in Handler : Relies(req[g])'
  <2>1. Relies([pc |-> "insert", weight |-> w, phase |-> p, clean |-> TRUE]) BY DEF Relies
  <2> QED BY <1>1, <2>1, ReadRelies DEF CreateMilestone, Begin
<1>2. ASSUME NEW m \in Milestone, NEW w \in Weight \cup {Keep},
             NEW p \in InSome(Phase) \cup {Keep}, NEW complete \in BOOLEAN \cup {Keep},
             UpdateMilestone(h, m, w, p, complete)
      PROVE  SoleGates' /\ \A g \in Handler : Relies(req[g])'
  <2>1. Relies([pc |-> "milestone_write", milestone |-> m, weight |-> w, phase |-> p,
                complete |-> complete, clean |-> TRUE])
    BY DEF Relies
  <2> QED BY <1>2, <2>1, ReadRelies DEF UpdateMilestone, Begin
<1>3. ASSUME UNCHANGED <<phase, task>>, waived \subseteq waived',
             NEW r, r.pc \in {"idle", "twin_write"}, Wrote(h, r)
      PROVE  SoleGates' /\ \A g \in Handler : Relies(req[g])'
  <2>1. StaysTop BY <1>3 DEF StaysTop, TopTask, Top
  <2>2. SoleGates' BY <1>3, FewerGates DEF TaskIds, PhaseIds
  <2> QED BY <1>3, <2>1, <2>2, WriteRelies
<1>4. ASSUME NEW m \in Milestone, InsertMilestone(h, m) \/ RemoveMilestone(h, m)
      PROVE  SoleGates' /\ \A g \in Handler : Relies(req[g])'
  <2>1. UNCHANGED <<phase, task>> /\ waived \subseteq waived' /\ Wrote(h, Idle)
    BY <1>4 DEF InsertMilestone, RemoveMilestone
  <2> QED BY <1>3, <2>1 DEF Idle
<1>5. CASE MilestoneWrite(h)
  <2> DEFINE m == req[h].milestone
             old == milestone[m]
             new == [old EXCEPT !.weight = Given(req[h].weight, old.weight),
                                !.phase = Given(req[h].phase, old.phase),
                                !.complete = Given(req[h].complete, old.complete)]
             r == IF old.twin = None THEN Idle
                  ELSE [pc |-> "twin_write", task |-> old.twin, phase |-> new.phase,
                        done |-> new.complete, clean |-> TRUE]
  <2>1. UNCHANGED <<phase, task>> /\ waived \subseteq waived' /\ Wrote(h, r)
    BY <1>5 DEF MilestoneWrite
  <2>2. r.pc \in {"idle", "twin_write"} BY DEF Idle
  <2> QED BY <1>3, <2>1, <2>2
<1>6. CASE TwinWrite(h)
  <2> DEFINE t == req[h].task
  <2>1. t \in Task /\ Wrote(h, Idle) BY <1>6 DEF TwinWrite, TaskIds
  <2>2. StaysTop BY <1>6, <2>1 DEF TwinWrite, StaysTop, TopTask, Top, TypeOK, TaskRow
  <2>3. waived' = waived \cup (IF task[t].gate /\ task[t].phase # req[h].phase
                              THEN {"gate"} ELSE {})
    BY <1>6 DEF TwinWrite
  <2>4. \A u \in Task : u # t => task'[u] = task[u] BY <1>6 DEF TwinWrite, TypeOK
  <2>5. /\ t \in TaskIds /\ task'[t].gate = task[t].gate /\ task'[t].sub = task[t].sub
        /\ task'[t].phase = req[h].phase
    BY <1>6, <2>1 DEF TwinWrite, TypeOK, TaskRow
  <2>6. UNCHANGED phase BY <1>6 DEF TwinWrite
  <2>7. SoleGates' BY <2>3, <2>4, <2>5, <2>6, FewerGates DEF TaskIds, PhaseIds
  <2> QED BY <2>1, <2>2, <2>7, WriteRelies DEF Idle
<1> QED BY <1>1, <1>2, <1>4, <1>5, <1>6 DEF MilestoneStep

LEMMA StepKeeps ==
    ASSUME PhasesAssumption, IInv, [Next]_vars
    PROVE  IInv'
<1>1. TypeOK' BY StepType DEF IInv
<1>2. ASSUME NEW h \in Handler, Abort(h)
      PROVE  SoleGates' /\ \A g \in Handler : Relies(req[g])'
  <2>1. Relies(Idle) BY DEF Relies, Idle
  <2> QED BY <1>2, <2>1, ReadRelies DEF Abort, Become
<1>3. ASSUME UNCHANGED vars
      PROVE  SoleGates' /\ \A g \in Handler : Relies(req[g])'
  <2>1. UNCHANGED <<phase, task, milestone, req, waived>> BY <1>3 DEF vars, rows
  <2>2. SoleGates' BY <2>1 DEF IInv, SoleGates, Top, TaskIds, PhaseIds
  <2>3. \A g \in Handler : Relies(req[g])' BY <2>1 DEF IInv, Relies, Top, GatesOf, TaskIds
  <2> QED BY <2>2, <2>3
<1>5. ASSUME NEW h \in Handler, PhaseStep(h) \/ TaskStep(h) \/ MilestoneStep(h) \/ Abort(h)
      PROVE  SoleGates' /\ \A g \in Handler : Relies(req[g])'
  BY <1>2, <1>5, PhaseKeeps, TaskKeeps, MilestoneKeeps
<1>4. SoleGates' /\ \A g \in Handler : Relies(req[g])'
  <2>1. CASE Next BY <1>5, <2>1 DEF Next
  <2> QED BY <1>3, <2>1
<1> QED BY <1>1, <1>4 DEF IInv

LEMMA InitKeeps == ASSUME PhasesAssumption, Init PROVE IInv
<1>1. TypeOK BY InitType
<1>2. \A t \in Task : task[t].gate = FALSE BY DEF Init, NoTask
<1>3. SoleGates BY <1>2 DEF SoleGates, TaskIds
<1>4. \A h \in Handler : Relies(req[h]) BY DEF Init, Relies, Idle
<1> QED BY <1>1, <1>3, <1>4 DEF IInv

LEMMA Invariant == Spec => []IInv
<1>1. Init => IInv BY InitKeeps, PhasesAssumption
<1>2. IInv /\ [Next]_vars => IInv' BY StepKeeps, PhasesAssumption
<1> QED BY <1>1, <1>2, PTL DEF Spec

(* A phase has one sign-off task at most, however requests interleave.      *)
THEOREM OneGate == Spec => []OneGatePerPhase
<1>1. ASSUME IInv PROVE OneGatePerPhase
  <2> SUFFICES ASSUME "gate" \notin waived, NEW p \in Phase PROVE Cardinality(GatesOf(p)) <= 1
    BY DEF OneGatePerPhase
  <2>4. \A t \in GatesOf(p) : t \in TaskIds /\ task[t].gate = TRUE /\ task[t].phase = p
    BY <1>1 DEF IInv, GatesOf, TypeOK, TaskRow, TaskIds
  <2>1. \A t, u \in GatesOf(p) : t = u BY <1>1, <2>4 DEF IInv, SoleGates
  <2>2. CASE GatesOf(p) = {} BY <2>2, FS_EmptySet
  <2>3. CASE GatesOf(p) # {}
    <3>1. PICK t : t \in GatesOf(p) BY <2>3
    <3>2. GatesOf(p) = {t} BY <2>1, <3>1
    <3>3. Cardinality({t}) = 1 BY FS_Singleton
    <3> QED BY <3>2, <3>3
  <2> QED BY <2>2, <2>3
<1> QED BY <1>1, Invariant, PTL

(* A sign-off task is of a phase and no sub-task, as far as parents are named
   that the task has.                                                        *)
THEOREM GateInPhase == Spec => []GateIsOfAPhase
<1>1. ASSUME IInv PROVE GateIsOfAPhase
  <2> SUFFICES ASSUME "gate" \notin waived, NEW t \in TaskIds, task[t].gate
               PROVE  task[t].phase \in PhaseIds /\ (task[t].sub => "parent" \in waived)
    BY DEF GateIsOfAPhase
  <2>1. task[t].gate = TRUE BY <1>1 DEF IInv, TypeOK, TaskRow, TaskIds
  <2>2. task[t].phase \in PhaseIds /\ Top(t) BY <1>1, <2>1 DEF IInv, SoleGates
  <2> QED BY <2>2 DEF Top
<1> QED BY <1>1, Invariant, PTL

(* The first query of an update only reads.                                 *)
LEMMA UpdateReads ==
    ASSUME NEW h \in Handler, NEW t, NEW p, NEW sub, NEW gate, NEW done,
           UpdateTaskRead(h, t, p, sub, gate, done)
    PROVE  At(h, "idle") /\ UNCHANGED rows /\ \E r : req' = [req EXCEPT ![h] = r]
BY DEF UpdateTaskRead, Start, MayStart

(* What the request of another one is at stays.                             *)
LEMMA OthersStay ==
    ASSUME IInv, NEW g \in Handler, NEW h \in Handler, g # h, ~At(h, "idle"),
           PhaseStep(g) \/ TaskStep(g) \/ MilestoneStep(g) \/ Abort(g)
    PROVE  req'[h] # Idle
<1>1. ASSUME NEW r, req' = [req EXCEPT ![g] = r] PROVE req'[h] # Idle
  BY <1>1 DEF IInv, TypeOK, At, Idle
<1>2. ASSUME NEW r, Wrote(g, r) PROVE req'[h] # Idle
  <2>1. req'[h] = [req[h] EXCEPT !.clean = FALSE] BY <1>2 DEF Wrote
  <2>2. req[h] \in Request BY DEF IInv, TypeOK
  <2>3. req'[h].pc = req[h].pc
    BY <2>1, <2>2 DEF Request, PhaseRequest, TaskRequest, GateRequest, MilestoneRequest, Idle
  <2> QED BY <2>3 DEF At, Idle
<1>3. CASE PhaseStep(g)
  BY <1>1, <1>2, <1>3 DEF PhaseStep, CreatePhase, UpdatePhaseRead, GateCheck, PhaseWrite,
     RemovePhaseRead, RemoveCount, RemoveWrite, Begin, Become
<1>4. CASE TaskStep(g)
  <2>1. CASE \E t \in Task, p \in InSome(Phase) \cup {Keep}, sub, gate, done \in BOOLEAN \cup {Keep} :
               UpdateTaskRead(g, t, p, sub, gate, done)
    BY <1>1, <2>1, UpdateReads
  <2>2. CASE ~\E t \in Task, p \in InSome(Phase) \cup {Keep}, sub, gate, done \in BOOLEAN \cup {Keep} :
               UpdateTaskRead(g, t, p, sub, gate, done)
    BY <1>1, <1>2, <1>4, <2>2 DEF TaskStep, CreateTask, CreateGate, UpdateTaskWrite,
       GateBegin, GateSet, RemoveTask, Begin, Become
  <2> QED BY <2>1, <2>2
<1>5. CASE MilestoneStep(g)
  BY <1>1, <1>2, <1>5 DEF MilestoneStep, CreateMilestone, InsertMilestone, UpdateMilestone,
     MilestoneWrite, TwinWrite, RemoveMilestone, Begin, Become
<1>6. CASE Abort(g) BY <1>1, <1>6 DEF Abort, Become
<1> QED BY <1>3, <1>4, <1>5, <1>6

(* A request that stands before a write of phases does this, or gives up.   *)
LEMMA OwnWrite ==
    ASSUME NEW h \in Handler, At(h, "phase_write") \/ At(h, "remove"),
           PhaseStep(h) \/ TaskStep(h) \/ MilestoneStep(h) \/ Abort(h)
    PROVE  \/ At(h, "phase_write") /\ \E t \in Task : PhaseWrite(h, t)
           \/ At(h, "remove") /\ RemoveWrite(h)
           \/ UNCHANGED rows
<1>1. CASE PhaseStep(h)
  BY <1>1 DEF PhaseStep, CreatePhase, UpdatePhaseRead, GateCheck, PhaseWrite,
     RemovePhaseRead, RemoveCount, RemoveWrite, Begin, Become, Start, MayStart, At
<1>2. CASE TaskStep(h)
  <2>1. CASE \E t \in Task, p \in InSome(Phase) \cup {Keep}, sub, gate, done \in BOOLEAN \cup {Keep} :
               UpdateTaskRead(h, t, p, sub, gate, done)
    BY <2>1, UpdateReads
  <2>2. CASE ~\E t \in Task, p \in InSome(Phase) \cup {Keep}, sub, gate, done \in BOOLEAN \cup {Keep} :
               UpdateTaskRead(h, t, p, sub, gate, done)
    BY <1>2, <2>2 DEF TaskStep, CreateTask, CreateGate, UpdateTaskWrite,
       GateBegin, GateSet, RemoveTask, Begin, Become, Start, MayStart, At
  <2> QED BY <2>1, <2>2
<1>3. CASE MilestoneStep(h)
  BY <1>3 DEF MilestoneStep, CreateMilestone, InsertMilestone, UpdateMilestone,
     MilestoneWrite, TwinWrite, RemoveMilestone, Begin, Become, Start, MayStart, At
<1>4. CASE Abort(h) BY <1>4 DEF Abort, Become
<1> QED BY <1>1, <1>2, <1>3, <1>4

(* The request that ends its write of a phase is the one that took the step. *)
LEMMA WhoWrites ==
    ASSUME IInv, Next, NEW h \in Handler, At(h, "phase_write") \/ At(h, "remove"),
           req'[h] = Idle, ~UNCHANGED rows
    PROVE  \/ At(h, "phase_write") /\ \E t \in Task : PhaseWrite(h, t)
           \/ At(h, "remove") /\ RemoveWrite(h)
<1>1. PICK g \in Handler : PhaseStep(g) \/ TaskStep(g) \/ MilestoneStep(g) \/ Abort(g)
  BY DEF Next
<1>2. ~At(h, "idle") BY DEF At
<1>3. g = h BY <1>1, <1>2, OthersStay
<1> QED BY <1>1, <1>3, OwnWrite

(* A phase is completed when its sign-off task is, if nobody has written since
   that was looked at.                                                       *)
THEOREM CompletionIsSignedOff == Spec => CompletedIsSignedOff
<1> DEFINE Step ==
      \A h \in Handler, p \in Phase :
         Completes(h, p) /\ req[h].clean /\ "gate" \notin waived =>
             GatesOf(p) # {} /\ \A t \in GatesOf(p) : task[t].done
<1>1. ASSUME IInv, Next PROVE Step
  <2> SUFFICES ASSUME NEW h \in Handler, NEW p \in Phase, Completes(h, p), req[h].clean,
                      "gate" \notin waived
               PROVE  GatesOf(p) # {} /\ \A t \in GatesOf(p) : task[t].done
    OBVIOUS
  <2>1. /\ req[h].pc = "phase_write" /\ req[h].phase = p /\ req'[h] = Idle
        /\ phase[p].status # "Completed" /\ phase'[p].status = "Completed"
    BY DEF Completes, At
  <2>2. req[h] \in PhaseRequest BY <1>1, <2>1, Kinds DEF IInv, TypeOK
  <2>3. req[h].clean = TRUE BY <2>2 DEF PhaseRequest
  <2>4. req[h].next = "Completed"
    <3>1. ~UNCHANGED rows BY <2>1 DEF rows
    <3>2. PICK t \in Task : PhaseWrite(h, t) BY <1>1, <2>1, <3>1, WhoWrites DEF At
    <3> DEFINE status == Given(req[h].next, phase[p].status)
    <3>3. phase[p] \in PhaseRow BY <1>1 DEF IInv, TypeOK
    <3>4. \/ phase' = [phase EXCEPT ![p] = [@ EXCEPT !.status = status]]
          \/ phase' = [phase EXCEPT ![p] = [@ EXCEPT !.status = status, !.twin = t]]
      BY <2>1, <3>2 DEF PhaseWrite
    <3>5. \/ phase'[p] = [phase[p] EXCEPT !.status = status]
          \/ phase'[p] = [phase[p] EXCEPT !.status = status, !.twin = t]
      BY <1>1, <3>4 DEF IInv, TypeOK
    <3>6. phase'[p].status = status BY <3>3, <3>5 DEF PhaseRow
    <3> QED BY <2>1, <3>6 DEF Given
  <2>5. PICK t \in GatesOf(p) : task[t].done = TRUE
    BY <1>1, <2>1, <2>3, <2>4 DEF IInv, Relies
  <2>6. \A u \in GatesOf(p) : u \in TaskIds /\ task[u].gate = TRUE /\ task[u].phase = p
    BY <1>1 DEF IInv, GatesOf, TypeOK, TaskRow, TaskIds
  <2>7. \A u \in GatesOf(p) : u = t BY <1>1, <2>5, <2>6 DEF IInv, SoleGates
  <2> QED BY <2>5, <2>7
<1>2. IInv /\ [Next]_vars => [Step]_vars BY <1>1
<1> QED BY <1>2, Invariant, PTL DEF Spec, CompletedIsSignedOff

(* The removal of a phase takes its twin only, if nobody has written since its
   tasks were counted.                                                       *)
THEOREM RemovalTakesTwin == Spec => RemovesOnlyTwin
<1> DEFINE Step ==
      \A h \in Handler, p \in Phase :
         Removes(h, p) /\ req[h].clean =>
             \A t \in Task \ {req[h].twin} : task'[t] = task[t]
<1>1. ASSUME IInv, Next PROVE Step
  <2> SUFFICES ASSUME NEW h \in Handler, NEW p \in Phase, Removes(h, p), req[h].clean,
                      NEW t \in Task \ {req[h].twin}
               PROVE  task'[t] = task[t]
    OBVIOUS
  <2>1. /\ req[h].pc = "remove" /\ req[h].phase = p /\ req'[h] = Idle
        /\ phase[p].state = "row" /\ phase'[p].state = "gone"
    BY DEF Removes, At, PhaseIds
  <2>2. req[h] \in PhaseRequest BY <1>1, <2>1, Kinds DEF IInv, TypeOK
  <2>3. req[h].clean = TRUE BY <2>2 DEF PhaseRequest
  <2>4. ~UNCHANGED rows BY <2>1 DEF rows
  <2>5. RemoveWrite(h) BY <1>1, <2>1, <2>4, WhoWrites DEF At
  <2>6. \A u \in TaskIds \ {req[h].twin} : task[u].phase # p
    BY <1>1, <2>1, <2>3 DEF IInv, Relies
  <2> QED BY <2>1, <2>5, <2>6 DEF RemoveWrite
<1>2. IInv /\ [Next]_vars => [Step]_vars BY <1>1
<1> QED BY <1>2, Invariant, PTL DEF Spec, RemovesOnlyTwin

-----------------------------------------------------------------------------
(* What MapThenSumSet computes on a finite set, for the weights of rows. The *)
(* library gives it as a recursive function that takes an arbitrary element *)
(* out first; here it is shown to be a natural number that does not depend  *)
(* on the order, nor on rows outside the set.                               *)
WeightOf(f, S) == MapThenSumSet(LAMBDA e : f[e].weight, S)

First(s) == CHOOSE x \in s : TRUE

Solves(g, f, S) ==
    g = [s \in SUBSET S |->
            IF s = {} THEN 0 ELSE f[First(s)].weight + g[s \ {First(s)}]]

LEMMA WeightDef ==
    ASSUME NEW f, NEW S
    PROVE  WeightOf(f, S) = (CHOOSE g : Solves(g, f, S))[S]
BY DEF WeightOf, MapThenSumSet, MapThenFoldSet, Solves, First

(* Induction over the subsets of a finite set: a smallest bad one is good.  *)
LEMMA BySubsets ==
    ASSUME NEW S, IsFiniteSet(S), NEW good,
           \A s \in SUBSET S : (\A t \in SUBSET s : t # s => t \in good) => s \in good
    PROVE  \A s \in SUBSET S : s \in good
<1> DEFINE bad == {s \in SUBSET S : s \notin good}
<1>1. SUFFICES ASSUME bad # {} PROVE FALSE
  OBVIOUS
<1>2. IsWellFoundedOn(StrictSubsetOrdering(S), SUBSET S)
  BY FS_StrictSubsetOrderingWellFounded, FS_FiniteSubsetsOfFinite
<1>3. PICK s \in bad : \A t \in bad : ~(<<t, s>> \in StrictSubsetOrdering(S))
  <2> HIDE DEF bad
  <2>1. bad \subseteq SUBSET S
    BY DEF bad
  <2> QED
    BY <1>1, <1>2, <2>1, WFMin
<1>4. \A t \in SUBSET s : t # s => t \in good
  BY <1>3 DEF StrictSubsetOrdering
<1> QED
  BY <1>3, <1>4

(* The recursion of the sum has a solution on the subsets of a finite set.  *)
LEMMA SolutionExists ==
    ASSUME NEW f, NEW S, IsFiniteSet(S)
    PROVE  \E g : Solves(g, f, S)
<1> DEFINE Small(n) == {s \in SUBSET S : Cardinality(s) <= n}
           Upto(n, g) == g = [s \in Small(n) |->
                        IF s = {} THEN 0 ELSE f[First(s)].weight + g[s \ {First(s)}]]
           good == {s \in SUBSET S : \E g : Upto(Cardinality(s), g)}
<1>1. ASSUME NEW s \in SUBSET S
      PROVE  /\ IsFiniteSet(s) /\ Cardinality(s) \in Nat
             /\ Cardinality(s) <= Cardinality(S)
             /\ s # {} => /\ First(s) \in s
                          /\ Cardinality(s \ {First(s)}) = Cardinality(s) - 1
             /\ Cardinality(s) = 0 <=> s = {}
  <2>1. IsFiniteSet(s) /\ Cardinality(s) <= Cardinality(S)
    BY FS_Subset
  <2>2. Cardinality(s) \in Nat /\ (Cardinality(s) = 0 <=> s = {})
    BY <2>1, FS_CardinalityType, FS_EmptySet
  <2>3. s # {} => First(s) \in s
    BY DEF First
  <2>4. s # {} => Cardinality(s \ {First(s)}) = Cardinality(s) - 1
    BY <2>1, <2>3, FS_RemoveElement
  <2> QED
    BY <2>1, <2>2, <2>3, <2>4
<1>2. ASSUME NEW s \in SUBSET S, \A t \in SUBSET s : t # s => t \in good
      PROVE  s \in good
  <2> DEFINE n == Cardinality(s)
  <2>1. CASE s = {}
    <3>1. Upto(0, [u \in Small(0) |-> 0])
      BY <1>1
    <3> QED
      BY <1>1, <2>1, <3>1
  <2>2. CASE s # {}
    <3>1. n \in Nat /\ n # 0 /\ s \ {First(s)} \in good
      BY <1>1, <1>2, <2>2
    <3>2. PICK g : Upto(n - 1, g)
      <4>1. Cardinality(s \ {First(s)}) = n - 1
        BY <1>1, <2>2
      <4>2. \E g : Upto(Cardinality(s \ {First(s)}), g)
        BY <3>1
      <4> HIDE DEF Upto
      <4> QED
        BY <4>1, <4>2
    <3> DEFINE h == [u \in Small(n) |->
                        IF u = {} THEN 0 ELSE f[First(u)].weight + g[u \ {First(u)}]]
    <3>3. \A u \in Small(n - 1) : u \in Small(n)
      <4>1. \A k \in Nat : k <= n - 1 => k <= n
        BY <3>1
      <4> QED
        BY <1>1, <4>1
    <3>4. ASSUME NEW u \in Small(n), u # {} PROVE u \ {First(u)} \in Small(n - 1)
      <4> DEFINE k == Cardinality(u)
      <4>1. k \in Nat /\ k <= n /\ Cardinality(u \ {First(u)}) = k - 1
        BY <1>1, <3>4
      <4> HIDE DEF k, n
      <4>2. k - 1 <= n - 1
        BY <3>1, <4>1
      <4> QED
        BY <4>1, <4>2
    <3>5. \A u \in Small(n - 1) : h[u] = g[u]
      BY <3>2, <3>3
    <3>6. Upto(n, h)
      BY <3>3, <3>4, <3>5
    <3> QED
      BY <3>6
  <2> QED
    BY <2>1, <2>2
<1>3. S \in good
  <2> HIDE DEF good
  <2> QED
    BY <1>2, BySubsets
<1>4. PICK g : Upto(Cardinality(S), g)
  BY <1>3
<1>5. Small(Cardinality(S)) = SUBSET S
  BY <1>1
<1> QED
  BY <1>4, <1>5 DEF Solves

(* Solutions on two sets agree on what the sets have in common.             *)
LEMMA SolutionsAgree ==
    ASSUME NEW f, NEW h, NEW S, NEW T, IsFiniteSet(S), T \subseteq S,
           \A e \in T : h[e].weight = f[e].weight,
           NEW g, Solves(g, f, S), NEW k, Solves(k, h, T)
    PROVE  g[T] = k[T]
<1> DEFINE good == {s \in SUBSET T : g[s] = k[s]}
<1>1. IsFiniteSet(T)
  BY FS_Subset
<1>2. ASSUME NEW s \in SUBSET T, \A t \in SUBSET s : t # s => t \in good
      PROVE  s \in good
  <2>1. CASE s = {}
    BY <2>1 DEF Solves
  <2>2. CASE s # {}
    <3>1. First(s) \in s
      BY <2>2 DEF First
    <3> DEFINE t == s \ {First(s)}
    <3>2. g[t] = k[t]
      BY <1>2, <3>1
    <3>3. g[s] = f[First(s)].weight + g[t] /\ k[s] = h[First(s)].weight + k[t]
      BY <2>2 DEF Solves
    <3> QED
      BY <3>1, <3>2, <3>3
  <2> QED
    BY <2>1, <2>2
<1> HIDE DEF good
<1>3. T \in good
  BY <1>1, <1>2, BySubsets
<1> QED
  BY <1>3 DEF good

(* What the sum is made of.                                                 *)
LEMMA WeightSolves ==
    ASSUME NEW f, NEW S, IsFiniteSet(S)
    PROVE  \E g : Solves(g, f, S) /\ \A T \in SUBSET S : WeightOf(f, T) = g[T]
<1>1. PICK g : Solves(g, f, S)
  BY SolutionExists
<1>2. ASSUME NEW T \in SUBSET S PROVE WeightOf(f, T) = g[T]
  <2>1. IsFiniteSet(T)
    BY FS_Subset
  <2> DEFINE k == CHOOSE k : Solves(k, f, T)
  <2>2. Solves(k, f, T)
    BY <2>1, SolutionExists
  <2>3. WeightOf(f, T) = k[T]
    BY WeightDef
  <2> HIDE DEF k
  <2> QED
    BY <1>1, <2>2, <2>3, SolutionsAgree
<1> QED
  BY <1>1, <1>2

LEMMA WeightAgrees ==
    ASSUME NEW f, NEW h, NEW S, IsFiniteSet(S), \A e \in S : h[e].weight = f[e].weight
    PROVE  WeightOf(h, S) = WeightOf(f, S)
<1>1. PICK g : Solves(g, f, S) /\ \A T \in SUBSET S : WeightOf(f, T) = g[T]
  BY WeightSolves
<1>2. PICK k : Solves(k, h, S) /\ \A T \in SUBSET S : WeightOf(h, T) = k[T]
  BY WeightSolves
<1>3. g[S] = k[S]
  BY <1>1, <1>2, SolutionsAgree
<1> QED
  BY <1>1, <1>2, <1>3

LEMMA WeightUnfolds ==
    ASSUME NEW f, NEW S, IsFiniteSet(S)
    PROVE  /\ WeightOf(f, {}) = 0
           /\ S # {} => /\ First(S) \in S
                        /\ WeightOf(f, S) = f[First(S)].weight + WeightOf(f, S \ {First(S)})
<1>1. PICK g : Solves(g, f, S) /\ \A T \in SUBSET S : WeightOf(f, T) = g[T]
  BY WeightSolves
<1>2. S # {} => First(S) \in S
  BY DEF First
<1> QED
  BY <1>1, <1>2 DEF Solves

(* A sum of natural numbers is one, and any element may be taken out first. *)
LEMMA WeightType ==
    ASSUME NEW f, NEW S, IsFiniteSet(S), \A e \in S : f[e].weight \in Nat
    PROVE  WeightOf(f, S) \in Nat
<1> DEFINE good == {s \in SUBSET S : WeightOf(f, s) \in Nat}
<1>1. ASSUME NEW s \in SUBSET S, \A t \in SUBSET s : t # s => t \in good
      PROVE  s \in good
  <2>1. IsFiniteSet(s)
    BY FS_Subset
  <2>2. CASE s = {}
    <3>1. WeightOf(f, s) = 0
      BY <2>1, <2>2, WeightUnfolds
    <3> QED
      BY <2>2, <3>1
  <2>3. CASE s # {}
    <3> DEFINE x == First(s)
    <3>1. x \in s /\ WeightOf(f, s) = f[x].weight + WeightOf(f, s \ {x})
      BY <2>1, <2>3, WeightUnfolds
    <3>2. s \ {x} \in good /\ x \in S
      BY <1>1, <3>1
    <3>3. f[x].weight \in Nat /\ WeightOf(f, s \ {x}) \in Nat
      BY <3>2
    <3> HIDE DEF x
    <3> QED
      BY <3>1, <3>3
  <2> QED
    BY <2>2, <2>3
<1> HIDE DEF good
<1>2. S \in good
  BY <1>1, BySubsets
<1> QED
  BY <1>2 DEF good

LEMMA WeightTakesOut ==
    ASSUME NEW f, NEW S, IsFiniteSet(S), \A e \in S : f[e].weight \in Nat, NEW e \in S
    PROVE  WeightOf(f, S) = f[e].weight + WeightOf(f, S \ {e})
<1> DEFINE good == {s \in SUBSET S : \A d \in s : WeightOf(f, s) = f[d].weight + WeightOf(f, s \ {d})}
<1>1. ASSUME NEW s \in SUBSET S, \A t \in SUBSET s : t # s => t \in good
      PROVE  s \in good
  <2> SUFFICES ASSUME NEW d \in s
               PROVE  WeightOf(f, s) = f[d].weight + WeightOf(f, s \ {d})
    OBVIOUS
  <2>1. \A t \in SUBSET s : IsFiniteSet(t) /\ WeightOf(f, t) \in Nat
    BY FS_Subset, WeightType
  <2> DEFINE x == First(s)
  <2>2. x \in s /\ WeightOf(f, s) = f[x].weight + WeightOf(f, s \ {x})
    BY <2>1, WeightUnfolds
  <2>3. CASE d = x
    BY <2>2, <2>3
  <2>4. CASE d # x
    <3>1. s \ {x} \in good /\ s \ {d} \in good
      BY <1>1, <2>2
    <3> DEFINE rest == (s \ {x}) \ {d}
    <3>2. WeightOf(f, s \ {x}) = f[d].weight + WeightOf(f, rest)
      BY <2>4, <3>1
    <3>3. (s \ {d}) \ {x} = rest
      OBVIOUS
    <3>4. WeightOf(f, s \ {d}) = f[x].weight + WeightOf(f, rest)
      BY <2>2, <2>4, <3>1, <3>3
    <3>5. f[d].weight \in Nat /\ f[x].weight \in Nat /\ WeightOf(f, rest) \in Nat
      BY <2>1, <2>2
    <3> HIDE DEF rest, x
    <3> QED
      BY <2>2, <3>2, <3>4, <3>5
  <2> QED
    BY <2>3, <2>4
<1> HIDE DEF good
<1>2. S \in good
  BY <1>1, BySubsets
<1> QED
  BY <1>2 DEF good

-----------------------------------------------------------------------------
(* Weights.  A request that is clean may still write the weight it was      *)
(* allowed: the sum that it took is the one there is.                       *)
OthersSum(m) == SumOf(MilestoneIds \ {m})

Fits(r) ==
    /\ r.pc = "insert" /\ r.clean = TRUE => SumOf(MilestoneIds) + r.weight <= Total
    /\ r.pc = "milestone_write" /\ r.clean = TRUE /\ r.weight # Keep =>
           OthersSum(r.milestone) + r.weight <= Total

(* Milestones come one by one: there are only ever finitely many.           *)
WInv ==
    /\ IInv
    /\ IsFiniteSet(MilestoneIds)
    /\ WeightsWithinTotal
    /\ \A h \in Handler : Fits(req[h])

(* The sums of this state and of the next.                                  *)
LEMMA Sums ==
    ASSUME NEW m
    PROVE  /\ SumOf(MilestoneIds) = WeightOf(milestone, MilestoneIds)
           /\ SumOf(MilestoneIds)' = WeightOf(milestone', MilestoneIds')
           /\ OthersSum(m) = WeightOf(milestone, MilestoneIds \ {m})
           /\ OthersSum(m)' = WeightOf(milestone', MilestoneIds' \ {m})
<1>1. SumOf(MilestoneIds) = WeightOf(milestone, MilestoneIds)
  BY DEF SumOf, WeightOf
<1>2. SumOf(MilestoneIds)' = WeightOf(milestone', MilestoneIds')
  BY DEF SumOf, WeightOf, MilestoneIds, MapThenSumSet, MapThenFoldSet
<1>3. OthersSum(m) = WeightOf(milestone, MilestoneIds \ {m})
  BY DEF OthersSum, SumOf, WeightOf
<1>4. OthersSum(m)' = WeightOf(milestone', MilestoneIds' \ {m})
  BY DEF OthersSum, SumOf, WeightOf, MilestoneIds, MapThenSumSet, MapThenFoldSet
<1> QED BY <1>1, <1>2, <1>3, <1>4

LEMMA WeightsAreNat ==
    ASSUME PhasesAssumption, TypeOK
    PROVE  /\ Total \in Nat /\ Weight \subseteq Nat
           /\ MilestoneIds \subseteq Milestone
           /\ \A m \in Milestone : milestone[m].weight \in Nat
<1>1. Total \in Nat /\ Weight \subseteq Nat BY DEF PhasesAssumption
<1>2. \A m \in Milestone : milestone[m].weight \in Weight BY DEF TypeOK, MilestoneRow
<1> QED BY <1>1, <1>2 DEF MilestoneIds

(* Rows that keep their weights and their places keep the sums.             *)
SameWeights ==
    /\ MilestoneIds' = MilestoneIds
    /\ \A m \in MilestoneIds : milestone'[m].weight = milestone[m].weight

LEMMA SumsStay ==
    ASSUME IsFiniteSet(MilestoneIds), SameWeights, NEW m
    PROVE  /\ SumOf(MilestoneIds)' = SumOf(MilestoneIds)
           /\ OthersSum(m)' = OthersSum(m)
<1>1. IsFiniteSet(MilestoneIds \ {m}) BY FS_RemoveElement
<1>2. WeightOf(milestone', MilestoneIds) = WeightOf(milestone, MilestoneIds)
  BY WeightAgrees DEF SameWeights
<1>3. WeightOf(milestone', MilestoneIds \ {m}) = WeightOf(milestone, MilestoneIds \ {m})
  BY <1>1, WeightAgrees DEF SameWeights
<1> QED BY <1>2, <1>3, Sums DEF SameWeights

(* A step that leaves the weights, and what it waives.                      *)
LEMMA WithinStays ==
    ASSUME WInv, SameWeights, waived \subseteq waived'
    PROVE  IsFiniteSet(MilestoneIds)' /\ WeightsWithinTotal'
<1>1. SumOf(MilestoneIds)' = SumOf(MilestoneIds) BY SumsStay DEF WInv
<1> QED BY <1>1 DEF WInv, WeightsWithinTotal, SameWeights

LEMMA ReadFits ==
    ASSUME WInv, NEW h \in Handler, NEW r, Fits(r), req' = [req EXCEPT ![h] = r],
           UNCHANGED rows, waived \subseteq waived'
    PROVE  IsFiniteSet(MilestoneIds)' /\ WeightsWithinTotal' /\ \A g \in Handler : Fits(req[g])'
<1>1. milestone' = milestone /\ MilestoneIds' = MilestoneIds BY DEF rows, MilestoneIds
<1>2. SameWeights BY <1>1 DEF SameWeights
<1>3. ASSUME NEW g \in Handler PROVE Fits(req[g])'
  <2>1. PICK q : q = req'[g] /\ Fits(q) BY DEF WInv, IInv, TypeOK
  <2>2. SumOf(MilestoneIds)' = SumOf(MilestoneIds) BY <1>2, SumsStay DEF WInv
  <2>3. PICK m : m = q.milestone OBVIOUS
  <2>4. OthersSum(m)' = OthersSum(m) BY <1>2, SumsStay DEF WInv
  <2>5. Fits(q)' BY <2>1, <2>2, <2>3, <2>4 DEF Fits
  <2> QED BY <2>1, <2>5 DEF Fits
<1> QED BY <1>2, <1>3, WithinStays

(* A write leaves no other request clean.                                   *)
LEMMA WriteFits ==
    ASSUME IInv, NEW h \in Handler, NEW r, r.pc \in {"idle", "twin_write"}, Wrote(h, r)
    PROVE  \A g \in Handler : Fits(req[g])'
<1> SUFFICES ASSUME NEW g \in Handler PROVE Fits(req[g])'
  OBVIOUS
<1>1. CASE g = h
  <2>1. req'[g] = r BY <1>1 DEF Wrote
  <2> QED BY <2>1 DEF Fits
<1>2. CASE g # h /\ At(g, "idle")
  <2>1. req'[g] = Idle BY <1>2 DEF Wrote
  <2> QED BY <2>1 DEF Fits, Idle
<1>3. CASE g # h /\ ~At(g, "idle")
  <2>1. req'[g] = [req[g] EXCEPT !.clean = FALSE] BY <1>3 DEF Wrote
  <2>2. req[g] \in Request /\ req[g].pc # "idle" BY <1>3 DEF IInv, TypeOK, At
  <2>3. req'[g].clean = FALSE
    BY <2>1, <2>2 DEF Request, PhaseRequest, TaskRequest, GateRequest, MilestoneRequest, Idle
  <2> QED BY <2>3 DEF Fits
<1> QED BY <1>1, <1>2, <1>3

(* createMilestone's insert adds the weight it checked.                     *)
LEMMA InsertFits ==
    ASSUME PhasesAssumption, WInv, NEW h \in Handler, NEW m \in Milestone,
           InsertMilestone(h, m)
    PROVE  IsFiniteSet(MilestoneIds)' /\ WeightsWithinTotal' /\ \A g \in Handler : Fits(req[g])'
<1> DEFINE S == MilestoneIds
           T == S \cup {m}
<1>1. TypeOK /\ IsFiniteSet(S) /\ WeightsWithinTotal /\ Fits(req[h]) /\ req[h].pc = "insert"
  BY DEF WInv, IInv, InsertMilestone, At
<1>2. req[h] \in MilestoneRequest BY <1>1, Kinds DEF TypeOK
<1>3. PICK w : w = req[h].weight /\ w \in Nat
  BY <1>1, <1>2, MilestoneKinds, WeightsAreNat
<1>4. \A g \in Handler : Fits(req[g])' BY WriteFits DEF InsertMilestone, WInv, Idle
<1>5. /\ m \notin S /\ milestone'[m].weight = w /\ milestone'[m].state = "row"
      /\ \A n \in Milestone : n # m => milestone'[n] = milestone[n]
  BY <1>1, <1>3 DEF InsertMilestone, MilestoneIds, TypeOK, NoMilestone
<1>6. MilestoneIds' = T BY <1>5 DEF MilestoneIds
<1>7. IsFiniteSet(T) BY <1>1, FS_AddElement
<1>8. WeightsWithinTotal'
  <2> SUFFICES ASSUME "weights" \notin waived'
               PROVE  SumOf(MilestoneIds)' <= Total
    BY DEF WeightsWithinTotal
  <2>1. req[h].clean = TRUE
    <3>1. req[h].clean \in BOOLEAN BY <1>2 DEF MilestoneRequest
    <3> QED BY <3>1 DEF InsertMilestone
  <2>2. SumOf(MilestoneIds) + w <= Total BY <1>1, <1>3, <2>1 DEF Fits
  <2>3. S \subseteq Milestone /\ \A n \in Milestone : milestone[n].weight \in Nat
    BY <1>1, WeightsAreNat
  <2>4. \A n \in T : milestone'[n].weight \in Nat BY <1>3, <1>5, <2>3
  <2>5. WeightOf(milestone', T) = w + WeightOf(milestone', T \ {m})
    BY <1>5, <1>7, <2>4, WeightTakesOut
  <2>6. T \ {m} = S BY <1>5
  <2>7. WeightOf(milestone', S) = WeightOf(milestone, S)
    BY <1>1, <1>5, <2>3, WeightAgrees
  <2>8. WeightOf(milestone, S) \in Nat BY <1>1, <2>3, WeightType
  <2>9. PICK s : s = WeightOf(milestone, S) /\ s \in Nat BY <2>8
  <2>10. s + w <= Total BY <2>2, <2>9, Sums
  <2>11. WeightOf(milestone', T) = w + s BY <2>5, <2>6, <2>7, <2>9
  <2>12. WeightOf(milestone', T) <= Total
    <3> HIDE DEF T
    <3> QED BY <1>3, <2>9, <2>10, <2>11
  <2> QED BY <1>6, <2>12, Sums
<1> QED BY <1>4, <1>6, <1>7, <1>8

(* updateMilestone writes the weight it checked, or none.                   *)
LEMMA WriteMilestoneFits ==
    ASSUME PhasesAssumption, WInv, NEW h \in Handler, MilestoneWrite(h)
    PROVE  IsFiniteSet(MilestoneIds)' /\ WeightsWithinTotal' /\ \A g \in Handler : Fits(req[g])'
<1> DEFINE S == MilestoneIds
           m == req[h].milestone
           old == milestone[m]
           new == [old EXCEPT !.weight = Given(req[h].weight, old.weight),
                              !.phase = Given(req[h].phase, old.phase),
                              !.complete = Given(req[h].complete, old.complete)]
<1>1. /\ TypeOK /\ IsFiniteSet(S) /\ WeightsWithinTotal /\ Fits(req[h])
      /\ req[h].pc = "milestone_write"
  BY DEF WInv, IInv, MilestoneWrite, At
<1>2. req[h] \in MilestoneRequest BY <1>1, Kinds DEF TypeOK
<1>3. m \in S /\ m \in Milestone /\ old \in MilestoneRow /\ old.state = "row"
  BY <1>1 DEF MilestoneWrite, MilestoneIds, TypeOK
<1>4. milestone' = [milestone EXCEPT ![m] = new] BY DEF MilestoneWrite
<1>5. \A g \in Handler : Fits(req[g])'
  <2> DEFINE r == IF old.twin = None THEN Idle
                  ELSE [pc |-> "twin_write", task |-> old.twin, phase |-> new.phase,
                        done |-> new.complete, clean |-> TRUE]
  <2>1. Wrote(h, r) BY DEF MilestoneWrite
  <2>2. r.pc \in {"idle", "twin_write"} BY DEF Idle
  <2> HIDE DEF r
  <2>3. PICK q : q = r OBVIOUS
  <2> QED BY <2>1, <2>2, <2>3, WriteFits DEF WInv
<1>6. /\ milestone'[m].state = "row"
      /\ milestone'[m].weight = Given(req[h].weight, old.weight)
      /\ \A n \in Milestone : n # m => milestone'[n] = milestone[n]
  <2>1. new.state = "row" /\ new.weight = Given(req[h].weight, old.weight)
    BY <1>3 DEF MilestoneRow
  <2> HIDE DEF new
  <2> QED BY <1>1, <1>3, <1>4, <2>1 DEF TypeOK
<1>7. MilestoneIds' = S BY <1>3, <1>6 DEF MilestoneIds
<1>8. waived' = waived \cup (IF req[h].clean \/ req[h].weight = Keep THEN {} ELSE {"weights"})
  BY DEF MilestoneWrite
<1>9. CASE req[h].weight = Keep
  <2>1. milestone'[m].weight = old.weight BY <1>6, <1>9 DEF Given
  <2>2. SameWeights BY <1>6, <1>7, <2>1, WeightsAreNat, <1>1 DEF SameWeights
  <2> QED BY <1>5, <1>8, <2>2, WithinStays
<1>10. CASE req[h].weight # Keep
  <2>1. WeightsWithinTotal'
    <3> SUFFICES ASSUME "weights" \notin waived'
                 PROVE  SumOf(MilestoneIds)' <= Total
      BY DEF WeightsWithinTotal
    <3>1. req[h].clean = TRUE
      <4>1. req[h].clean \in BOOLEAN BY <1>2 DEF MilestoneRequest
      <4> QED BY <1>8, <1>10, <4>1
    <3>2. PICK n, w : n = m /\ w = req[h].weight OBVIOUS
    <3>3. w \in Nat BY <1>1, <1>2, <1>10, <3>2, MilestoneKinds, WeightsAreNat
    <3>4. OthersSum(n) + w <= Total BY <1>1, <1>10, <3>1, <3>2 DEF Fits
    <3> DEFINE T == S \ {n}
    <3>5. S \subseteq Milestone /\ \A i \in Milestone : milestone[i].weight \in Nat
      BY <1>1, WeightsAreNat
    <3>6. IsFiniteSet(T) BY <1>1, FS_RemoveElement
    <3>7. WeightOf(milestone, T) \in Nat BY <3>5, <3>6, WeightType
    <3>8. milestone'[n].weight = w BY <1>6, <1>10, <3>2 DEF Given
    <3>9. \A i \in S : milestone'[i].weight \in Nat BY <1>6, <3>2, <3>3, <3>5, <3>8
    <3>10. WeightOf(milestone', S) = w + WeightOf(milestone', T)
      BY <1>1, <1>3, <3>2, <3>8, <3>9, WeightTakesOut
    <3>11. WeightOf(milestone', T) = WeightOf(milestone, T)
      BY <1>6, <3>2, <3>5, <3>6, WeightAgrees
    <3>12. PICK s : s = WeightOf(milestone, T) /\ s \in Nat BY <3>7
    <3>13. s + w <= Total BY <3>4, <3>12, Sums
    <3>14. WeightOf(milestone', S) = w + s BY <3>10, <3>11, <3>12
    <3>15. WeightOf(milestone', S) <= Total
      <4> HIDE DEF S
      <4> QED BY <3>3, <3>12, <3>13, <3>14
    <3> QED BY <1>7, <3>15, Sums
  <2> QED BY <1>1, <1>5, <1>7, <2>1
<1> QED BY <1>9, <1>10

LEMMA RemoveMilestoneFits ==
    ASSUME PhasesAssumption, WInv, NEW h \in Handler, NEW m \in Milestone,
           RemoveMilestone(h, m)
    PROVE  IsFiniteSet(MilestoneIds)' /\ WeightsWithinTotal' /\ \A g \in Handler : Fits(req[g])'
<1> DEFINE S == MilestoneIds
           T == S \ {m}
<1>1. TypeOK /\ IsFiniteSet(S) /\ WeightsWithinTotal /\ m \in S /\ waived' = waived
  BY DEF WInv, IInv, RemoveMilestone
<1>2. \A g \in Handler : Fits(req[g])' BY WriteFits DEF RemoveMilestone, WInv, Idle
<1>3. /\ milestone'[m].state = "gone"
      /\ \A n \in Milestone : n # m => milestone'[n] = milestone[n]
  BY <1>1 DEF RemoveMilestone, TypeOK, NoMilestone
<1>4. MilestoneIds' = T BY <1>3 DEF MilestoneIds
<1>5. IsFiniteSet(T) BY <1>1, FS_RemoveElement
<1>6. S \subseteq Milestone /\ \A n \in Milestone : milestone[n].weight \in Nat /\ Total \in Nat
  BY <1>1, WeightsAreNat
<1>7. WeightOf(milestone', T) = WeightOf(milestone, T) BY <1>3, <1>5, <1>6, WeightAgrees
<1>8. WeightOf(milestone, S) = milestone[m].weight + WeightOf(milestone, T)
  BY <1>1, <1>6, WeightTakesOut
<1>9. WeightOf(milestone, T) \in Nat BY <1>5, <1>6, WeightType
<1>10. WeightOf(milestone, T) <= WeightOf(milestone, S)
  <2>1. milestone[m].weight \in Nat BY <1>6
  <2> HIDE DEF S, T
  <2> QED BY <1>8, <1>9, <2>1
<1>11. WeightOf(milestone, S) \in Nat BY <1>1, <1>6, WeightType
<1>12. SumOf(MilestoneIds) <= Total => SumOf(MilestoneIds)' <= Total
  <2> HIDE DEF S, T
  <2>1. SumOf(MilestoneIds) = WeightOf(milestone, S) BY Sums DEF S
  <2>2. SumOf(MilestoneIds)' = WeightOf(milestone, T) BY <1>4, <1>7, Sums DEF S
  <2> QED BY <1>6, <1>9, <1>10, <1>11, <2>1, <2>2, <1>1
<1> QED BY <1>1, <1>2, <1>4, <1>5, <1>12 DEF WeightsWithinTotal

(* A request about a milestone starts with the check of its weight.         *)
LEMMA MilestoneStepFits ==
    ASSUME PhasesAssumption, WInv, NEW h \in Handler, MilestoneStep(h)
    PROVE  IsFiniteSet(MilestoneIds)' /\ WeightsWithinTotal' /\ \A g \in Handler : Fits(req[g])'
<1>1. ASSUME NEW w \in Weight, NEW p \in InSome(Phase), CreateMilestone(h, w, p)
      PROVE  IsFiniteSet(MilestoneIds)' /\ WeightsWithinTotal' /\ \A g \in Handler : Fits(req[g])'
  <2>1. Fits([pc |-> "insert", weight |-> w, phase |-> p, clean |-> TRUE])
    BY <1>1 DEF Fits, CreateMilestone, WeightsFit
  <2> QED BY <1>1, <2>1, ReadFits DEF CreateMilestone, Begin
<1>2. ASSUME NEW m \in Milestone, NEW w \in Weight \cup {Keep},
             NEW p \in InSome(Phase) \cup {Keep}, NEW complete \in BOOLEAN \cup {Keep},
             UpdateMilestone(h, m, w, p, complete)
      PROVE  IsFiniteSet(MilestoneIds)' /\ WeightsWithinTotal' /\ \A g \in Handler : Fits(req[g])'
  <2>1. Fits([pc |-> "milestone_write", milestone |-> m, weight |-> w, phase |-> p,
              complete |-> complete, clean |-> TRUE])
    BY <1>2 DEF Fits, UpdateMilestone, WeightsFit, OthersSum
  <2> QED BY <1>2, <2>1, ReadFits DEF UpdateMilestone, Begin
<1>3. CASE TwinWrite(h)
  <2>1. Wrote(h, Idle) /\ milestone' = milestone /\ waived \subseteq waived'
    BY <1>3 DEF TwinWrite
  <2>2. SameWeights BY <2>1 DEF SameWeights, MilestoneIds
  <2> QED BY <2>1, <2>2, WriteFits, WithinStays DEF WInv, Idle
<1> QED
  BY <1>1, <1>2, <1>3, InsertFits, WriteMilestoneFits, RemoveMilestoneFits DEF MilestoneStep

(* Removing a task clears a column of the milestones, and nothing else.     *)
LEMMA ColumnsKeepWeights ==
    ASSUME TypeOK, NEW t,
           \/ milestone' = WithoutTask(milestone, t)
           \/ \E p : milestone' = [m \in Milestone |->
                 LET row == WithoutTask(milestone, t)[m]
                 IN  IF row.phase = p THEN [row EXCEPT !.phase = None] ELSE row]
    PROVE  SameWeights
<1> DEFINE without == WithoutTask(milestone, t)
<1>1. /\ without \in [Milestone -> MilestoneRow]
      /\ \A m \in Milestone : /\ without[m].state = milestone[m].state
                              /\ without[m].weight = milestone[m].weight
  BY WithoutTypes DEF TypeOK, WithoutTask, MilestoneRow
<1>2. \A m \in Milestone : /\ milestone'[m].state = milestone[m].state
                           /\ milestone'[m].weight = milestone[m].weight
  <2>1. CASE milestone' = without BY <1>1, <2>1
  <2>2. CASE \E p : milestone' = [m \in Milestone |->
                 LET row == without[m]
                 IN  IF row.phase = p THEN [row EXCEPT !.phase = None] ELSE row]
    <3>1. PICK p : milestone' = [m \in Milestone |->
                 LET row == without[m]
                 IN  IF row.phase = p THEN [row EXCEPT !.phase = None] ELSE row]
      BY <2>2
    <3> HIDE DEF without
    <3>2. SUFFICES ASSUME NEW m \in Milestone
                   PROVE  milestone'[m].state = without[m].state
                          /\ milestone'[m].weight = without[m].weight
      BY <1>1
    <3>3. without[m] \in MilestoneRow BY <1>1
    <3>4. milestone'[m] = without[m] \/ milestone'[m] = [without[m] EXCEPT !.phase = None]
      BY <3>1
    <3> QED BY <3>3, <3>4 DEF MilestoneRow
  <2> QED BY <2>1, <2>2
<1> QED BY <1>2 DEF SameWeights, MilestoneIds

(* A write that is not of a milestone's weight.                             *)
LEMMA OtherWriteFits ==
    ASSUME WInv, NEW h \in Handler, Wrote(h, Idle), waived \subseteq waived',
           milestone' = milestone \/ SameWeights
    PROVE  IsFiniteSet(MilestoneIds)' /\ WeightsWithinTotal' /\ \A g \in Handler : Fits(req[g])'
<1>1. SameWeights
  <2>1. CASE milestone' = milestone BY <2>1 DEF SameWeights, MilestoneIds
  <2> QED BY <2>1
<1>2. Idle.pc \in {"idle", "twin_write"} BY DEF Idle
<1> QED BY <1>1, <1>2, WriteFits, WithinStays DEF WInv

LEMMA PhaseStepFits ==
    ASSUME PhasesAssumption, WInv, NEW h \in Handler, PhaseStep(h)
    PROVE  IsFiniteSet(MilestoneIds)' /\ WeightsWithinTotal' /\ \A g \in Handler : Fits(req[g])'
<1>1. ASSUME NEW p \in Phase, NEW t \in Task, NEW s \in {"Open", "Completed"},
             CreatePhase(h, p, t, s)
      PROVE  IsFiniteSet(MilestoneIds)' /\ WeightsWithinTotal' /\ \A g \in Handler : Fits(req[g])'
  BY <1>1, OtherWriteFits DEF CreatePhase
<1>2. ASSUME NEW p \in Phase, NEW s \in {"Open", "Completed", Keep}, UpdatePhaseRead(h, p, s)
      PROVE  IsFiniteSet(MilestoneIds)' /\ WeightsWithinTotal' /\ \A g \in Handler : Fits(req[g])'
  <2>1. Fits([pc |-> IF s = "Completed" /\ phase[p].status # s
                     THEN "gate_check" ELSE "phase_write",
              phase |-> p, twin |-> phase[p].twin, next |-> s, clean |-> TRUE])
    BY DEF Fits
  <2> QED BY <1>2, <2>1, ReadFits DEF UpdatePhaseRead, Begin
<1>3. CASE GateCheck(h) \/ RemoveCount(h)
  <2>1. req[h] \in PhaseRequest
    BY <1>3, Kinds DEF GateCheck, RemoveCount, At, WInv, IInv, TypeOK
  <2>2. ASSUME NEW pc \in {"phase_write", "remove"}
        PROVE  Fits([req[h] EXCEPT !.pc = pc, !.clean = TRUE])
    <3>1. [req[h] EXCEPT !.pc = pc, !.clean = TRUE].pc = pc BY <2>1 DEF PhaseRequest
    <3> QED BY <3>1 DEF Fits
  <2> QED BY <1>3, <2>2, ReadFits DEF GateCheck, RemoveCount, Become
<1>4. ASSUME NEW t \in Task, PhaseWrite(h, t)
      PROVE  IsFiniteSet(MilestoneIds)' /\ WeightsWithinTotal' /\ \A g \in Handler : Fits(req[g])'
  BY <1>4, OtherWriteFits DEF PhaseWrite
<1>5. ASSUME NEW p \in Phase, RemovePhaseRead(h, p)
      PROVE  IsFiniteSet(MilestoneIds)' /\ WeightsWithinTotal' /\ \A g \in Handler : Fits(req[g])'
  <2>1. Fits([pc |-> "count", phase |-> p, twin |-> phase[p].twin, next |-> Keep,
              clean |-> TRUE])
    BY DEF Fits
  <2> QED BY <1>5, <2>1, ReadFits DEF RemovePhaseRead, Begin
<1>6. CASE RemoveWrite(h)
  <2>1. Wrote(h, Idle) /\ waived \subseteq waived' BY <1>6 DEF RemoveWrite
  <2>2. SameWeights
    <3>1. \E p : milestone' = [m \in Milestone |->
                 LET row == WithoutTask(milestone, req[h].twin)[m]
                 IN  IF row.phase = p THEN [row EXCEPT !.phase = None] ELSE row]
      BY <1>6 DEF RemoveWrite
    <3> QED BY <3>1, ColumnsKeepWeights DEF WInv, IInv
  <2> QED BY <2>1, <2>2, OtherWriteFits
<1> QED BY <1>1, <1>2, <1>3, <1>4, <1>5, <1>6 DEF PhaseStep

LEMMA TaskStepFits ==
    ASSUME PhasesAssumption, WInv, NEW h \in Handler, TaskStep(h)
    PROVE  IsFiniteSet(MilestoneIds)' /\ WeightsWithinTotal' /\ \A g \in Handler : Fits(req[g])'
<1>1. ASSUME NEW t \in Task, NEW p \in InSome(Phase), NEW sub \in BOOLEAN,
             CreateTask(h, t, p, sub)
      PROVE  IsFiniteSet(MilestoneIds)' /\ WeightsWithinTotal' /\ \A g \in Handler : Fits(req[g])'
  BY <1>1, OtherWriteFits DEF CreateTask
<1>2. ASSUME NEW p \in Phase, NEW done \in BOOLEAN, CreateGate(h, p, done)
      PROVE  IsFiniteSet(MilestoneIds)' /\ WeightsWithinTotal' /\ \A g \in Handler : Fits(req[g])'
  <2>1. Fits([pc |-> "gate_begin", task |-> None, phase |-> p, done |-> done,
              others |-> {}, clean |-> TRUE])
    BY DEF Fits
  <2> QED BY <1>2, <2>1, ReadFits DEF CreateGate, Begin
<1>3. ASSUME NEW t \in Task, NEW p \in InSome(Phase) \cup {Keep}, NEW sub \in BOOLEAN \cup {Keep},
             NEW gate \in BOOLEAN \cup {Keep}, NEW done \in BOOLEAN \cup {Keep},
             UpdateTaskRead(h, t, p, sub, gate, done)
      PROVE  IsFiniteSet(MilestoneIds)' /\ WeightsWithinTotal' /\ \A g \in Handler : Fits(req[g])'
  <2> DEFINE resolved == Given(p, task[t].phase)
             r == IF StaysGate(t, resolved, Given(sub, task[t].sub), gate)
                  THEN [pc |-> "gate_begin", task |-> t, phase |-> resolved, done |-> done,
                        others |-> {}, clean |-> TRUE]
                  ELSE [pc |-> "task_write", task |-> t, phase |-> p, done |-> done,
                        clean |-> TRUE]
  <2>1. req' = [req EXCEPT ![h] = r] /\ waived \subseteq waived' /\ UNCHANGED rows
    BY <1>3 DEF UpdateTaskRead
  <2>2. r.pc \in {"gate_begin", "task_write"} OBVIOUS
  <2> HIDE DEF r
  <2>3. Fits(r) BY <2>2 DEF Fits
  <2> QED BY <2>1, <2>3, ReadFits
<1>4. CASE UpdateTaskWrite(h)
  BY <1>4, OtherWriteFits DEF UpdateTaskWrite
<1>5. CASE GateBegin(h)
  <2> DEFINE r == [req[h] EXCEPT !.pc = "gate_set",
                                 !.others = GatesOf(req[h].phase) \ {req[h].task},
                                 !.clean = TRUE]
  <2>1. req[h] \in GateRequest BY <1>5, Kinds DEF GateBegin, At, WInv, IInv, TypeOK
  <2>2. r.pc = "gate_set" BY <2>1 DEF GateRequest
  <2>3. req' = [req EXCEPT ![h] = r] /\ waived \subseteq waived' /\ UNCHANGED rows
    BY <1>5 DEF GateBegin, Become
  <2> HIDE DEF r
  <2>4. Fits(r) BY <2>2 DEF Fits
  <2> QED BY <2>3, <2>4, ReadFits
<1>6. ASSUME NEW t \in Task, GateSet(h, t)
      PROVE  IsFiniteSet(MilestoneIds)' /\ WeightsWithinTotal' /\ \A g \in Handler : Fits(req[g])'
  <2>1. Wrote(h, Idle) /\ milestone' = milestone /\ waived \subseteq waived'
    BY <1>6 DEF GateSet
  <2> QED BY <2>1, OtherWriteFits
<1>7. ASSUME NEW t \in Task, RemoveTask(h, t)
      PROVE  IsFiniteSet(MilestoneIds)' /\ WeightsWithinTotal' /\ \A g \in Handler : Fits(req[g])'
  <2>1. Wrote(h, Idle) /\ waived \subseteq waived' /\ milestone' = WithoutTask(milestone, t)
    BY <1>7 DEF RemoveTask
  <2>2. SameWeights BY <2>1, ColumnsKeepWeights DEF WInv, IInv
  <2> QED BY <2>1, <2>2, OtherWriteFits
<1> QED BY <1>1, <1>2, <1>3, <1>4, <1>5, <1>6, <1>7 DEF TaskStep

LEMMA WeightsStep ==
    ASSUME PhasesAssumption, WInv, [Next]_vars
    PROVE  WInv'
<1>1. IInv' BY StepKeeps DEF WInv
<1>2. ASSUME NEW h \in Handler, PhaseStep(h) \/ TaskStep(h) \/ MilestoneStep(h) \/ Abort(h)
      PROVE  IsFiniteSet(MilestoneIds)' /\ WeightsWithinTotal' /\ \A g \in Handler : Fits(req[g])'
  <2>1. Fits(Idle) BY DEF Fits, Idle
  <2>2. CASE Abort(h) BY <2>1, <2>2, ReadFits DEF Abort, Become
  <2> QED BY <1>2, <2>2, PhaseStepFits, TaskStepFits, MilestoneStepFits
<1>3. ASSUME UNCHANGED vars
      PROVE  IsFiniteSet(MilestoneIds)' /\ WeightsWithinTotal' /\ \A g \in Handler : Fits(req[g])'
  <2>1. UNCHANGED <<rows, req, waived>> BY <1>3 DEF vars
  <2>2. CASE Handler = {}
    <3>1. SameWeights BY <2>1 DEF SameWeights, MilestoneIds, rows
    <3> QED BY <2>1, <2>2, <3>1, WithinStays
  <2>3. CASE Handler # {}
    <3>1. PICK h \in Handler : TRUE BY <2>3
    <3>2. Fits(req[h]) BY DEF WInv
    <3>3. req' = [req EXCEPT ![h] = req[h]] BY <2>1 DEF WInv, IInv, TypeOK
    <3> QED BY <2>1, <3>2, <3>3, ReadFits
  <2> QED BY <2>2, <2>3
<1>4. CASE Next BY <1>1, <1>2, <1>4 DEF Next, WInv
<1> QED BY <1>1, <1>3, <1>4 DEF WInv

LEMMA WeightsInit ==
    ASSUME PhasesAssumption, Init
    PROVE  WInv
<1>1. IInv BY InitKeeps
<1>2. \A h \in Handler : Fits(req[h]) BY DEF Init, Fits, Idle
<1>3. \A m \in Milestone : milestone[m].weight = 0
  BY DEF Init, NoMilestone
<1>4. MilestoneIds = {} \/ \E m \in Milestone : MilestoneIds = {m}
  BY DEF Init, NoMilestone, MilestoneIds
<1>5. IsFiniteSet(MilestoneIds)
  <2>1. IsFiniteSet({}) BY FS_EmptySet
  <2>2. \A m \in Milestone : IsFiniteSet({m}) BY FS_Singleton
  <2> QED BY <1>4, <2>1, <2>2
<1>6. SumOf(MilestoneIds) = 0
  <2>1. WeightOf(milestone, {}) = 0 BY FS_EmptySet, WeightUnfolds
  <2>2. CASE MilestoneIds = {} BY <2>1, <2>2, Sums
  <2>3. CASE \E m \in Milestone : MilestoneIds = {m}
    <3>1. PICK m \in Milestone : MilestoneIds = {m} BY <2>3
    <3>2. WeightOf(milestone, {m}) = milestone[m].weight + WeightOf(milestone, {m} \ {m})
      BY <1>3, <1>5, <3>1, WeightTakesOut
    <3>3. {m} \ {m} = {} OBVIOUS
    <3>4. WeightOf(milestone, {m}) = 0 BY <1>3, <2>1, <3>2, <3>3
    <3>5. SumOf(MilestoneIds) = WeightOf(milestone, MilestoneIds) BY Sums
    <3> QED BY <3>1, <3>4, <3>5
  <2> QED BY <1>4, <2>2, <2>3
<1>7. Total \in Nat BY DEF PhasesAssumption
<1> QED BY <1>1, <1>2, <1>5, <1>6, <1>7 DEF WInv, WeightsWithinTotal

(* The weights of the milestones of a project stay within the total, for any
   number of milestones and requests, unless another request has written between
   a sum and the write that relies on it.                                    *)
THEOREM WeightsFitTotal == Spec => []WeightsWithinTotal
<1>1. Init => WInv BY WeightsInit, PhasesAssumption
<1>2. WInv /\ [Next]_vars => WInv' BY WeightsStep, PhasesAssumption
<1>3. WInv => WeightsWithinTotal BY DEF WInv
<1> QED BY <1>1, <1>2, <1>3, PTL DEF Spec

=============================================================================
