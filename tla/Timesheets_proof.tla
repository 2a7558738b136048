-------------------------- MODULE Timesheets_proof --------------------------
(***************************************************************************)
(* Proofs about Timesheets, for any people, tasks, dates, entries and any  *)
(* number of handlers in flight: the types, and that a decision is always  *)
(* somebody else's, keeps its row, and is the only thing announced.  And,  *)
(* for requests served one at a time: the daily maximum, and that every    *)
(* write is an operation of TimesheetLifecycle.                            *)
(***************************************************************************)
EXTENDS Timesheets, FiniteSetTheorems, TLAPS

(* What a handler in flight knows: an edit has read an editable row, the    *)
(* rows named by a request exist or existed, a decision is on other         *)
(* people's rows, and one about to be announced has been written.           *)
KnowsWell(h) ==
    /\ req[h].pc \in EditPc => req[h].row.status \in Editable
    /\ req[h].pc \in EditPc \cup {"delete_write"} => entry[req[h].id] # Free
    /\ req[h].pc \in SubmitPc \cup DecidePc => \A e \in req[h].rows : entry[e] # Free
    /\ req[h].pc \in DecidePc =>
          \A e \in req[h].rows \cap Live : entry[e].owner # req[h].reviewer
    /\ req[h].pc \in {"decide_push", "decide_notify"} =>
          \A e \in req[h].rows :
              \E i \in DOMAIN decisions[e] : decisions[e][i].verdict = req[h].verdict

HandlersKnowWell == \A h \in Handler : KnowsWell(h)

Safe ==
    /\ HandlersKnowWell
    /\ DecisionsKeepTheirRow
    /\ DecidedByAnother
    /\ NoticesAreTrue

IInv == TypeOK /\ Safe

-----------------------------------------------------------------------------
(* A row that exists is a Row, and its id was given out.                    *)
LEMMA LiveIsRow ==
    ASSUME TypeOK, NEW e \in Live
    PROVE  e \in Entry /\ entry[e] \in Row /\ entry[e] # Free /\ entry[e] # Deleted
BY DEF TypeOK, Live, Free, Deleted, Status, Verdict

(* The program counter of a handler tells which request it serves.          *)
LEMMA PcTellsRequest ==
    ASSUME TypeOK, NEW h \in Handler
    PROVE  /\ At(h, "idle") => req[h] = Idle
           /\ req[h].pc \in CreatePc => req[h] \in CreateRequest
           /\ req[h].pc \in EditPc => req[h] \in EditRequest
           /\ At(h, "delete_write") => req[h] \in DeleteRequest
           /\ req[h].pc \in SubmitPc => req[h] \in SubmitRequest
           /\ req[h].pc \in DecidePc => req[h] \in DecideRequest
<1>1. req[h] \in Request
  BY DEF TypeOK
<1> QED
  BY <1>1 DEF Request, Idle, CreateRequest, EditRequest, DeleteRequest, SubmitRequest,
              DecideRequest, CreatePc, EditPc, SubmitPc, DecidePc, At

(* A change of status leaves every row a row, with its other columns.       *)
LEMMA SetStatusType ==
    ASSUME TypeOK, NEW S \in SUBSET Entry, NEW s \in Status, SetStatus(S, s)
    PROVE  /\ entry' \in [Entry -> Row \cup {Free, Deleted}]
           /\ Live' = Live
           /\ \A e \in Entry : entry'[e] = Free <=> entry[e] = Free
           /\ \A e \in Live : entry'[e].owner = entry[e].owner
           /\ \A e \in S \cap Live : entry'[e].status = s
           /\ \A e \in Entry \ S : entry'[e] = entry[e]
<1>1. \A e \in Live : e \in Entry /\ entry[e] \in Row /\ entry[e] # Free /\ entry[e] # Deleted
  BY LiveIsRow
<1>2. \A e \in Live : [entry[e] EXCEPT !.status = s] \in Row
  BY <1>1 DEF Row
<1>3. /\ \A e \in S \cap Live : entry'[e] = [entry[e] EXCEPT !.status = s]
      /\ \A e \in Entry \ (S \cap Live) : entry'[e] = entry[e]
  BY DEF SetStatus
<1>4. entry' \in [Entry -> Row \cup {Free, Deleted}]
  BY <1>1, <1>2 DEF SetStatus, TypeOK
<1>5. \A e \in S \cap Live : entry'[e].status = s /\ entry'[e].owner = entry[e].owner
  BY <1>1, <1>3 DEF Row
<1>6. Live' = Live
  BY <1>3, <1>5 DEF Live
<1>7. \A e \in S \cap Live : entry'[e] # Free
  BY <1>5 DEF Free, Status, Verdict
<1> QED
  BY <1>1, <1>3, <1>4, <1>5, <1>6, <1>7

-----------------------------------------------------------------------------
(* Handlers that only move their program counter keep the request's type.   *)
LEMMA StartType ==
    ASSUME TypeOK, NEW h \in Handler, NEW r \in Request, Start(h, r)
    PROVE  req' \in [Handler -> Request]
BY DEF TypeOK, Start

LEMMA FinishType ==
    ASSUME TypeOK, NEW h \in Handler, Finish(h)
    PROVE  req' \in [Handler -> Request]
BY DEF TypeOK, Finish, Request

LEMMA GotoType ==
    ASSUME TypeOK, NEW h \in Handler, NEW pc, Goto(h, pc),
           \/ req[h].pc \in CreatePc /\ pc \in CreatePc
           \/ req[h].pc \in EditPc /\ pc \in EditPc
           \/ req[h].pc \in SubmitPc /\ pc \in SubmitPc
    PROVE  req' \in [Handler -> Request]
<1>1. [req[h] EXCEPT !.pc = pc] \in Request
  <2>1. CASE req[h].pc \in CreatePc /\ pc \in CreatePc
    BY <2>1, PcTellsRequest DEF CreateRequest, Request
  <2>2. CASE req[h].pc \in EditPc /\ pc \in EditPc
    BY <2>2, PcTellsRequest DEF EditRequest, Request
  <2>3. CASE req[h].pc \in SubmitPc /\ pc \in SubmitPc
    BY <2>3, PcTellsRequest DEF SubmitRequest, Request
  <2> QED
    BY <2>1, <2>2, <2>3
<1>2. req' = [req EXCEPT ![h] = [req[h] EXCEPT !.pc = pc]]
  BY DEF Goto, TypeOK
<1> QED
  BY <1>1, <1>2 DEF TypeOK

(* Every step of a handler keeps the types: logging, editing and deleting.  *)
LEMMA OwnerStepType ==
    ASSUME TypeOK, NEW h \in Handler,
           CreateStep(h) \/ EditStep(h) \/ DeleteStep(h)
    PROVE  TypeOK'
<1>1. ASSUME NEW u \in User, NEW t \in Task, NEW d \in Day, NEW n \in Hours,
             CreateStart(h, u, t, d, n)
      PROVE  TypeOK'
  <2>1. [pc |-> "create_loggable", owner |-> u, task |-> t, day |-> d, hours |-> n]
            \in Request
    BY DEF Request, CreateRequest, CreatePc
  <2> QED
    BY <1>1, <2>1, StartType DEF CreateStart, TypeOK
<1>2. CASE CreateLoggable(h)
  BY <1>2, GotoType, FinishType DEF CreateLoggable, At, CreatePc, TypeOK
<1>3. CASE CreateCapacity(h)
  BY <1>3, GotoType, FinishType DEF CreateCapacity, At, CreatePc, TypeOK
<1>4. CASE CreateInsert(h)
  <2>1. req[h] \in CreateRequest
    BY <1>4, PcTellsRequest DEF CreateInsert, At, CreatePc
  <2>2. [status |-> "Draft", owner |-> req[h].owner, task |-> req[h].task,
         day |-> req[h].day, hours |-> req[h].hours] \in Row
    BY <2>1 DEF CreateRequest, Row, Status
  <2>3. entry' \in [Entry -> Row \cup {Free, Deleted}]
    BY <1>4, <2>2 DEF CreateInsert, TypeOK
  <2> QED
    BY <1>4, <2>3, FinishType DEF CreateInsert, TypeOK
<1>5. ASSUME NEW e \in Entry, NEW n \in Hours, NEW c \in BOOLEAN, EditRead(h, e, n, c)
      PROVE  TypeOK'
  <2>1. entry[e] \in Row
    BY <1>5, LiveIsRow DEF EditRead, Live, Editable, Status, Verdict
  <2>2. [pc |-> "edit_loggable", id |-> e, row |-> entry[e], hours |-> n, changing |-> c]
            \in Request
    BY <2>1 DEF Request, EditRequest, EditPc
  <2> QED
    BY <1>5, <2>2, StartType DEF EditRead, TypeOK
<1>6. CASE EditLoggable(h)
  BY <1>6, GotoType, FinishType DEF EditLoggable, At, EditPc, TypeOK
<1>7. CASE EditCapacity(h)
  BY <1>7, GotoType, FinishType DEF EditCapacity, At, EditPc, TypeOK
<1>8. CASE EditWrite(h)
  <2>1. req[h] \in EditRequest
    BY <1>8, PcTellsRequest DEF EditWrite, At, EditPc
  <2> DEFINE r == req[h]
             reopened == IF r.row.status = "Rejected" THEN "Draft" ELSE r.row.status
  <2>2. reopened \in Status
    BY <2>1 DEF EditRequest, Row, Status, Verdict
  <2>3. ASSUME r.id \in Live
        PROVE  [entry[r.id] EXCEPT !.hours = r.hours, !.status = reopened] \in Row
    <3>1. entry[r.id] \in Row
      BY <2>3, LiveIsRow
    <3> QED
      BY <2>1, <2>2, <3>1 DEF EditRequest, Row
  <2>4. entry' \in [Entry -> Row \cup {Free, Deleted}]
    <3>1. CASE r.id \in Live
      <4>1. r.id \in Entry
        BY <3>1, LiveIsRow
      <4>2. entry' = [entry EXCEPT ![r.id] =
                         [entry[r.id] EXCEPT !.hours = r.hours, !.status = reopened]]
        BY <1>8, <3>1, <4>1 DEF EditWrite, TypeOK
      <4> QED
        BY <2>3, <3>1, <4>1, <4>2 DEF TypeOK
    <3>2. CASE r.id \notin Live
      BY <1>8, <3>2 DEF EditWrite, TypeOK
    <3> QED
      BY <3>1, <3>2
  <2> QED
    BY <1>8, <2>4, FinishType DEF EditWrite, TypeOK
<1>9. ASSUME NEW e \in Entry, DeleteRead(h, e)
      PROVE  TypeOK'
  <2>1. [pc |-> "delete_write", id |-> e] \in Request
    BY DEF Request, DeleteRequest
  <2> QED
    BY <1>9, <2>1, StartType DEF DeleteRead, TypeOK
<1>10. CASE DeleteWrite(h)
  BY <1>10, FinishType DEF DeleteWrite, TypeOK
<1> QED
  BY <1>1, <1>2, <1>3, <1>4, <1>5, <1>6, <1>7, <1>8, <1>9, <1>10
     DEF CreateStep, EditStep, DeleteStep

(* The same for submitting and deciding.                                    *)
LEMMA DecisionsType ==
    ASSUME TypeOK, NEW S \in SUBSET Entry, NEW d \in Decision,
           decisions' = [e \in Entry |-> IF e \in S THEN Append(decisions[e], d)
                                                    ELSE decisions[e]]
    PROVE  decisions' \in [Entry -> Seq(Decision)]
<1>1. \A e \in Entry : Append(decisions[e], d) \in Seq(Decision)
  BY DEF TypeOK
<1> QED
  BY <1>1 DEF TypeOK

LEMMA SubmitDecideType ==
    ASSUME TypeOK, NEW h \in Handler, SubmitStep(h) \/ DecideStep(h)
    PROVE  TypeOK'
<1>1. ASSUME NEW u \in User, NEW w \in Week, NEW s \in Editable, SubmitRead(h, u, w, s)
      PROVE  TypeOK'
  <2>1. [pc |-> "submit_write", rows |-> WeekRows(u, w, s)] \in Request
    BY DEF Request, SubmitRequest, SubmitPc, WeekRows, Live
  <2> QED
    BY <1>1, <2>1, StartType DEF SubmitRead, TypeOK
<1>2. CASE SubmitWrite(h)
  <2>1. req[h].rows \in SUBSET Entry
    BY <1>2, PcTellsRequest DEF SubmitWrite, At, SubmitPc, SubmitRequest
  <2>2. entry' \in [Entry -> Row \cup {Free, Deleted}]
    BY <1>2, <2>1, SetStatusType DEF SubmitWrite, Status
  <2>3. req' \in [Handler -> Request]
    BY <1>2, GotoType DEF SubmitWrite, At, SubmitPc
  <2> QED
    BY <1>2, <2>2, <2>3 DEF SubmitWrite, TypeOK
<1>3. CASE SubmitNotify(h)
  <2>1. req[h].rows \in SUBSET Entry
    BY <1>3, PcTellsRequest DEF SubmitNotify, At, SubmitPc, SubmitRequest
  <2> QED
    BY <1>3, <2>1, FinishType DEF SubmitNotify, TypeOK
<1>4. ASSUME NEW r \in User, NEW u \in User, NEW w \in Week, NEW v \in Verdict,
             DecideRead(h, r, u, w, v)
      PROVE  TypeOK'
  <2> DEFINE rows == {e \in WeekRows(u, w, "Submitted") :
                          ProjectOf[entry[e].task] \in Scope[r]}
  <2>1. [pc |-> "decide_commit", rows |-> rows, unpushed |-> {}, verdict |-> v,
         reviewer |-> r] \in Request
    BY DEF Request, DecideRequest, DecidePc, WeekRows, Live
  <2> QED
    BY <1>4, <2>1, StartType DEF DecideRead, TypeOK
<1>5. CASE DecideCommit(h)
  <2>1. req[h] \in DecideRequest
    BY <1>5, PcTellsRequest DEF DecideCommit, At, DecidePc
  <2> DEFINE r == req[h]
             approval == [verdict |-> r.verdict, reviewer |-> r.reviewer]
  <2>2. approval \in Decision /\ r.rows \in SUBSET Entry /\ r.verdict \in Status
    BY <2>1 DEF DecideRequest, Decision, Status
  <2>3. CASE ~(r.rows \subseteq Live)
    BY <1>5, <2>3, FinishType DEF DecideCommit, TypeOK
  <2>4. CASE r.rows \subseteq Live
    <3>1. SetStatus(r.rows, r.verdict)
      BY <1>5, <2>4 DEF DecideCommit
    <3>2. entry' \in [Entry -> Row \cup {Free, Deleted}]
      BY <2>2, <3>1, SetStatusType
    <3>3. decisions' = [e \in Entry |-> IF e \in r.rows THEN Append(decisions[e], approval)
                                                        ELSE decisions[e]]
      BY <1>5, <2>4 DEF DecideCommit
    <3>4. decisions' \in [Entry -> Seq(Decision)]
      BY <2>2, <3>3, DecisionsType
    <3>5. /\ [r EXCEPT !.pc = "decide_push", !.unpushed = r.rows] \in Request
          /\ [r EXCEPT !.pc = "decide_notify"] \in Request
      BY <2>1 DEF Request, DecideRequest, DecidePc
    <3>6. req' \in [Handler -> Request]
      BY <1>5, <2>4, <3>5 DEF DecideCommit, TypeOK
    <3> QED
      BY <1>5, <3>2, <3>4, <3>6 DEF DecideCommit, TypeOK
  <2> QED
    BY <2>3, <2>4
<1>6. ASSUME NEW e \in Entry, DecidePush(h, e)
      PROVE  TypeOK'
  <2>1. req[h] \in DecideRequest
    BY <1>6, PcTellsRequest DEF DecidePush, At, DecidePc
  <2> DEFINE left == req[h].unpushed \ {e}
             next == [req[h] EXCEPT !.unpushed = left,
                                    !.pc = IF left = {} THEN "decide_notify" ELSE @]
  <2>2. next \in Request
    BY <2>1 DEF Request, DecideRequest, DecidePc
  <2>3. req' = [req EXCEPT ![h] = next]
    BY <1>6 DEF DecidePush, TypeOK
  <2> QED
    BY <1>6, <2>2, <2>3 DEF DecidePush, TypeOK
<1>7. CASE DecideNotify(h)
  <2>1. req[h] \in DecideRequest
    BY <1>7, PcTellsRequest DEF DecideNotify, At, DecidePc
  <2> QED
    BY <1>7, <2>1, FinishType DEF DecideNotify, DecideRequest, TypeOK
<1> QED
  BY <1>1, <1>2, <1>3, <1>4, <1>5, <1>6, <1>7 DEF SubmitStep, DecideStep

LEMMA StepType == ASSUME TypeOK, [Next]_vars PROVE TypeOK'
<1>1. ASSUME NEW h \in Handler, Abort(h)
      PROVE  TypeOK'
  BY <1>1, FinishType DEF Abort, TypeOK
<1>2. ASSUME NEW t \in Task, ChangeLoggable(t)
      PROVE  TypeOK'
  BY <1>2 DEF ChangeLoggable, TypeOK
<1>3. CASE UNCHANGED vars
  BY <1>3 DEF vars, TypeOK
<1> QED
  BY <1>1, <1>2, <1>3, OwnerStepType, SubmitDecideType DEF Next

LEMMA InitType == Init => TypeOK
BY DEF Init, TypeOK, Request

(* Rows, decisions, notices and requests keep their types, whatever the     *)
(* requests in flight and their interleaving.                               *)
THEOREM TypeCorrect == Spec => []TypeOK
BY InitType, StepType, PTL DEF Spec

-----------------------------------------------------------------------------
(* A step on the rows that records no decision: no row is taken back to     *)
(* Free or given away, none gets a verdict, and those decided on stay.      *)
RowsKeep ==
    /\ \A e \in Entry : entry[e] # Free => entry'[e] # Free
    /\ \A e \in Live' : entry[e] = Free \/ e \in Live
    /\ \A e \in Live' \cap Live : entry'[e].owner = entry[e].owner
    /\ \A e \in Live' : entry'[e].status \in Verdict =>
          e \in Live /\ entry'[e].status = entry[e].status
    /\ \A e \in Entry : decisions[e] # <<>> => e \in Live'

LEMMA UnchangedRowsKeep == ASSUME IInv, entry' = entry PROVE RowsKeep
BY DEF IInv, Safe, RowsKeep, Live, DecisionsKeepTheirRow

(* Such a step disturbs no decision and no handler whose request it leaves  *)
(* alone.                                                                   *)
LEMMA Frame ==
    ASSUME IInv, TypeOK', RowsKeep, decisions' = decisions
    PROVE  /\ DecisionsKeepTheirRow'
           /\ DecidedByAnother'
           /\ \A g \in Handler : req'[g] = req[g] => KnowsWell(g)'
<1> USE DEF IInv, Safe
<1>1. DecisionsKeepTheirRow'
  BY DEF RowsKeep, DecisionsKeepTheirRow
<1>2. DecidedByAnother'
  <2> SUFFICES ASSUME NEW e \in Live'
               PROVE  /\ \A i \in DOMAIN decisions[e] :
                            decisions[e][i].reviewer # entry'[e].owner
                      /\ entry'[e].status \in Verdict =>
                            \E i \in DOMAIN decisions[e] :
                                decisions[e][i].verdict = entry'[e].status
    BY DEF DecidedByAnother
  <2>1. CASE e \in Live
    BY <2>1 DEF RowsKeep, DecidedByAnother
  <2>2. CASE e \notin Live
    <3>1. decisions[e] = <<>>
      BY <2>2 DEF DecisionsKeepTheirRow, Live
    <3> QED
      BY <2>2, <3>1 DEF RowsKeep
  <2> QED
    BY <2>1, <2>2
<1>3. ASSUME NEW g \in Handler, req'[g] = req[g]
      PROVE  KnowsWell(g)'
  <2>1. KnowsWell(g)
    BY DEF HandlersKnowWell
  <2>2. /\ req[g].pc \in EditPc \cup {"delete_write"} => req[g].id \in Entry
        /\ req[g].pc \in SubmitPc \cup DecidePc => req[g].rows \subseteq Entry
    BY PcTellsRequest DEF At, EditRequest, DeleteRequest, SubmitRequest, DecideRequest
  <2>3. req[g].pc \in DecidePc =>
            \A e \in req[g].rows \cap Live' : entry'[e].owner # req[g].reviewer
    BY <2>1, <2>2 DEF KnowsWell, RowsKeep
  <2> QED
    BY <1>3, <2>1, <2>2, <2>3 DEF KnowsWell, RowsKeep
<1> QED
  BY <1>1, <1>2, <1>3

(* A handler that ends, or moves on inside a create or an edit, knows no    *)
(* more than before.                                                        *)
LEMMA MoveKnowsWell ==
    ASSUME IInv, NEW h \in Handler, entry' = entry, decisions' = decisions,
           \/ Finish(h)
           \/ \E pc \in CreatePc : Goto(h, pc) /\ req[h].pc \in CreatePc
           \/ \E pc \in EditPc : Goto(h, pc) /\ req[h].pc \in EditPc
    PROVE  \A g \in Handler : KnowsWell(g)'
<1> SUFFICES ASSUME NEW g \in Handler PROVE KnowsWell(g)'
  OBVIOUS
<1>1. KnowsWell(g) /\ KnowsWell(h) /\ Live' = Live
  BY DEF IInv, Safe, HandlersKnowWell, Live
<1>2. CASE Finish(h)
  BY <1>1, <1>2 DEF KnowsWell, Finish, Idle, EditPc, SubmitPc, DecidePc, IInv, TypeOK
<1>3. ASSUME NEW pc \in CreatePc, Goto(h, pc), req[h].pc \in CreatePc
      PROVE  KnowsWell(g)'
  <2>1. g # h => req'[g] = req[g]
    BY <1>3 DEF Goto, IInv, TypeOK
  <2>2. req'[h].pc = pc
    <3>1. req[h] \in CreateRequest
      BY <1>3, PcTellsRequest DEF IInv
    <3> QED
      BY <1>3, <3>1 DEF Goto, IInv, TypeOK, CreateRequest
  <2> QED
    BY <1>1, <2>1, <2>2 DEF KnowsWell, CreatePc, EditPc, SubmitPc, DecidePc
<1>4. ASSUME NEW pc \in EditPc, Goto(h, pc), req[h].pc \in EditPc
      PROVE  KnowsWell(g)'
  <2>1. g # h => req'[g] = req[g]
    BY <1>4 DEF Goto, IInv, TypeOK
  <2>2. req'[h].pc = pc /\ req'[h].id = req[h].id /\ req'[h].row = req[h].row
    <3>1. req[h] \in EditRequest
      BY <1>4, PcTellsRequest DEF IInv
    <3> QED
      BY <1>4, <3>1 DEF Goto, IInv, TypeOK, EditRequest
  <2> QED
    BY <1>1, <1>4, <2>1, <2>2 DEF KnowsWell, EditPc, SubmitPc, DecidePc
<1> QED
  BY <1>2, <1>3, <1>4

-----------------------------------------------------------------------------
(* Every step of an owner's request keeps the handlers' knowledge, the      *)
(* decisions and the notices sound.                                         *)
LEMMA OwnerStepSafe ==
    ASSUME IInv, TypeOK', NEW h \in Handler,
           CreateStep(h) \/ EditStep(h) \/ DeleteStep(h)
    PROVE  Safe'
<1>1. decisions' = decisions /\ notices' = notices
  BY DEF CreateStep, CreateStart, CreateLoggable, CreateCapacity, CreateInsert,
         EditStep, EditRead, EditLoggable, EditCapacity, EditWrite,
         DeleteStep, DeleteRead, DeleteWrite
<1>2. NoticesAreTrue'
  BY <1>1 DEF NoticesAreTrue, IInv, Safe
<1>3. \A g \in Handler \ {h} : req'[g] = req[g]
  BY DEF CreateStep, CreateStart, CreateLoggable, CreateCapacity, CreateInsert,
         EditStep, EditRead, EditLoggable, EditCapacity, EditWrite,
         DeleteStep, DeleteRead, DeleteWrite, Start, Goto, Finish, IInv, TypeOK
<1>4. SUFFICES RowsKeep /\ KnowsWell(h)'
  <2>1. /\ DecisionsKeepTheirRow' /\ DecidedByAnother'
        /\ \A g \in Handler : req'[g] = req[g] => KnowsWell(g)'
    BY <1>1, <1>4, Frame
  <2> QED
    BY <1>2, <1>3, <1>4, <2>1 DEF Safe, HandlersKnowWell
<1>5. ASSUME NEW u \in User, NEW t \in Task, NEW d \in Day, NEW n \in Hours,
             CreateStart(h, u, t, d, n)
      PROVE  RowsKeep /\ KnowsWell(h)'
  <2>1. req'[h].pc = "create_loggable"
    BY <1>5 DEF CreateStart, Start, IInv, TypeOK
  <2> QED
    BY <1>5, <2>1, UnchangedRowsKeep DEF CreateStart, KnowsWell, EditPc, SubmitPc, DecidePc
<1>6. CASE CreateLoggable(h) \/ CreateCapacity(h) \/ EditLoggable(h) \/ EditCapacity(h)
  <2>1. /\ entry' = entry
        /\ \/ Finish(h)
           \/ \E pc \in CreatePc : Goto(h, pc) /\ req[h].pc \in CreatePc
           \/ \E pc \in EditPc : Goto(h, pc) /\ req[h].pc \in EditPc
    BY <1>6 DEF CreateLoggable, CreateCapacity, EditLoggable, EditCapacity, At,
                CreatePc, EditPc
  <2> QED
    BY <1>1, <2>1, MoveKnowsWell, UnchangedRowsKeep
<1>7. CASE CreateInsert(h)
  <2>1. KnowsWell(h)'
    BY <1>7 DEF CreateInsert, Finish, Idle, KnowsWell, EditPc, SubmitPc, DecidePc, IInv, TypeOK
  <2>2. CASE entry' = entry
    BY <2>1, <2>2, UnchangedRowsKeep
  <2>3. CASE entry' # entry
    <3>1. PICK e \in Entry :
             /\ entry[e] = Free
             /\ entry' = [entry EXCEPT ![e] =
                   [status |-> "Draft", owner |-> req[h].owner, task |-> req[h].task,
                    day |-> req[h].day, hours |-> req[h].hours]]
      BY <1>7, <2>3 DEF CreateInsert
    <3>2. decisions[e] = <<>>
      BY <3>1 DEF IInv, Safe, DecisionsKeepTheirRow, Live, Free, Status, Verdict
    <3>3. /\ entry'[e].status = "Draft" /\ entry'[e] # Free
          /\ \A f \in Entry \ {e} : entry'[f] = entry[f]
      BY <3>1 DEF IInv, TypeOK, Free
    <3>4. e \notin Live
      BY <3>1 DEF Live, Free, Status, Verdict
    <3> QED
      BY <2>1, <3>1, <3>2, <3>3, <3>4
         DEF RowsKeep, Live, Verdict, IInv, Safe, DecisionsKeepTheirRow
  <2> QED
    BY <2>2, <2>3
<1>8. ASSUME NEW e \in Entry, NEW n \in Hours, NEW c \in BOOLEAN, EditRead(h, e, n, c)
      PROVE  RowsKeep /\ KnowsWell(h)'
  <2>1. /\ req'[h].pc = "edit_loggable" /\ req'[h].id = e /\ req'[h].row = entry[e]
        /\ entry' = entry
    BY <1>8 DEF EditRead, Start, IInv, TypeOK
  <2>2. entry[e].status \in Editable /\ entry[e] # Free
    BY <1>8 DEF EditRead, Editable, Free
  <2> QED
    BY <2>1, <2>2, UnchangedRowsKeep DEF KnowsWell, EditPc, SubmitPc, DecidePc
<1>9. CASE EditWrite(h)
  <2>1. KnowsWell(h)'
    BY <1>9 DEF EditWrite, Finish, Idle, KnowsWell, EditPc, SubmitPc, DecidePc, IInv, TypeOK
  <2>2. req[h].row.status \in Editable
    BY <1>9 DEF EditWrite, At, EditPc, IInv, Safe, HandlersKnowWell, KnowsWell
  <2> DEFINE id == req[h].id
             reopened == IF req[h].row.status = "Rejected" THEN "Draft"
                         ELSE req[h].row.status
  <2>3. reopened = "Draft"
    BY <2>2 DEF Editable
  <2>4. CASE id \notin Live
    BY <1>9, <2>1, <2>4, UnchangedRowsKeep DEF EditWrite
  <2>5. CASE id \in Live
    <3>1. id \in Entry /\ entry[id] \in Row
      BY <2>5, LiveIsRow DEF IInv
    <3>2. /\ entry'[id].status = "Draft" /\ entry'[id].owner = entry[id].owner
          /\ \A f \in Entry \ {id} : entry'[f] = entry[f]
      BY <1>9, <2>3, <2>5, <3>1 DEF EditWrite, IInv, TypeOK, Row
    <3>3. entry'[id] # Free
      BY <3>2 DEF Free
    <3>4. Live' = Live
      BY <2>5, <3>1, <3>2 DEF Live, Status
    <3>5. Live \subseteq Entry
      BY DEF Live
    <3>6. \A f \in Live' : entry'[f].status \in Verdict =>
              f \in Live /\ entry'[f].status = entry[f].status
      BY <3>2, <3>4, <3>5 DEF Verdict
    <3>7. \A f \in Entry : decisions[f] # <<>> => f \in Live'
      BY <3>4 DEF IInv, Safe, DecisionsKeepTheirRow
    <3> QED
      BY <2>1, <3>1, <3>2, <3>3, <3>4, <3>5, <3>6, <3>7 DEF RowsKeep
  <2> QED
    BY <2>4, <2>5
<1>10. ASSUME NEW e \in Entry, DeleteRead(h, e)
       PROVE  RowsKeep /\ KnowsWell(h)'
  <2>1. req'[h].pc = "delete_write" /\ req'[h].id = e /\ entry' = entry
    BY <1>10 DEF DeleteRead, Start, IInv, TypeOK
  <2>2. entry[e] # Free
    BY <1>10 DEF DeleteRead, Editable, Free
  <2> QED
    BY <2>1, <2>2, UnchangedRowsKeep DEF KnowsWell, EditPc, SubmitPc, DecidePc
<1>11. CASE DeleteWrite(h)
  <2>1. KnowsWell(h)'
    BY <1>11 DEF DeleteWrite, Finish, Idle, KnowsWell, EditPc, SubmitPc, DecidePc, IInv, TypeOK
  <2>2. CASE entry' = entry
    BY <2>1, <2>2, UnchangedRowsKeep
  <2>3. CASE entry' # entry
    <3> DEFINE e == req[h].id
    <3>1. e \in Live /\ decisions[e] = <<>> /\ entry' = [entry EXCEPT ![e] = Deleted]
      BY <1>11, <2>3 DEF DeleteWrite
    <3>2. /\ e \in Entry /\ entry'[e] = Deleted
          /\ \A f \in Entry \ {e} : entry'[f] = entry[f]
      BY <3>1 DEF IInv, TypeOK, Live
    <3>3. Live' = Live \ {e}
      BY <3>2 DEF Live, Deleted, Status, Verdict
    <3>4. Deleted # Free
      BY DEF Deleted, Free
    <3> QED
      BY <2>1, <3>1, <3>2, <3>3, <3>4 DEF RowsKeep, IInv, Safe, DecisionsKeepTheirRow
  <2> QED
    BY <2>2, <2>3
<1> QED
  BY <1>5, <1>6, <1>7, <1>8, <1>9, <1>10, <1>11 DEF CreateStep, EditStep, DeleteStep

(* The same for submissions and for decisions.                              *)
LEMMA SubmitStepSafe ==
    ASSUME IInv, TypeOK', NEW h \in Handler, SubmitStep(h)
    PROVE  Safe'
<1>1. decisions' = decisions
  BY DEF SubmitStep, SubmitRead, SubmitWrite, SubmitNotify
<1>2. NoticesAreTrue'
  <2>1. \A e \in Entry, v \in Verdict : <<e, v>> \in notices' => <<e, v>> \in notices
    <3>1. "Submitted" \notin Verdict
      BY DEF Verdict
    <3>2. CASE notices' = notices
      BY <3>2
    <3>3. CASE SubmitNotify(h)
      BY <3>1, <3>3 DEF SubmitNotify
    <3> QED
      BY <3>2, <3>3 DEF SubmitStep, SubmitRead, SubmitWrite
  <2> QED
    BY <1>1, <2>1 DEF NoticesAreTrue, IInv, Safe
<1>3. \A g \in Handler \ {h} : req'[g] = req[g]
  BY DEF SubmitStep, SubmitRead, SubmitWrite, SubmitNotify, Start, Goto, Finish, IInv, TypeOK
<1>4. SUFFICES RowsKeep /\ KnowsWell(h)'
  <2>1. /\ DecisionsKeepTheirRow' /\ DecidedByAnother'
        /\ \A g \in Handler : req'[g] = req[g] => KnowsWell(g)'
    BY <1>1, <1>4, Frame
  <2> QED
    BY <1>2, <1>3, <1>4, <2>1 DEF Safe, HandlersKnowWell
<1>5. ASSUME NEW u \in User, NEW w \in Week, NEW s \in Editable, SubmitRead(h, u, w, s)
      PROVE  RowsKeep /\ KnowsWell(h)'
  <2>1. req'[h].pc = "submit_write" /\ req'[h].rows = WeekRows(u, w, s) /\ entry' = entry
    BY <1>5 DEF SubmitRead, Start, IInv, TypeOK
  <2>2. \A e \in WeekRows(u, w, s) : entry[e] # Free
    BY LiveIsRow DEF WeekRows, IInv
  <2> QED
    BY <2>1, <2>2, UnchangedRowsKeep DEF KnowsWell, EditPc, SubmitPc, DecidePc
<1>6. CASE SubmitWrite(h)
  <2>1. req[h] \in SubmitRequest
    BY <1>6, PcTellsRequest DEF SubmitWrite, At, SubmitPc, IInv
  <2> DEFINE S == req[h].rows
  <2>2. S \in SUBSET Entry
    BY <2>1 DEF SubmitRequest
  <2>3. SetStatus(S, "Submitted") /\ "Submitted" \in Status
    BY <1>6 DEF SubmitWrite, Status
  <2>4. /\ Live' = Live
        /\ \A e \in Entry : entry'[e] = Free <=> entry[e] = Free
        /\ \A e \in Live : entry'[e].owner = entry[e].owner
        /\ \A e \in S \cap Live : entry'[e].status = "Submitted"
        /\ \A e \in Entry \ S : entry'[e] = entry[e]
    BY <2>2, <2>3, SetStatusType DEF IInv
  <2>5. req'[h].pc = "submit_notify" /\ req'[h].rows = S
    BY <1>6, <2>1 DEF SubmitWrite, Goto, IInv, TypeOK, SubmitRequest
  <2>6. \A e \in S : entry[e] # Free
    BY <1>6 DEF SubmitWrite, At, SubmitPc, IInv, Safe, HandlersKnowWell, KnowsWell
  <2>7. KnowsWell(h)'
    BY <2>2, <2>4, <2>5, <2>6 DEF KnowsWell, EditPc, SubmitPc, DecidePc
  <2>8. \A e \in Live' : entry'[e].status \in Verdict =>
            e \in Live /\ entry'[e].status = entry[e].status
    BY <2>4 DEF Live, Verdict
  <2>9. Live \subseteq Entry /\ \A e \in Entry : decisions[e] # <<>> => e \in Live
    BY DEF Live, IInv, Safe, DecisionsKeepTheirRow
  <2> QED
    BY <2>4, <2>7, <2>8, <2>9 DEF RowsKeep
<1>7. CASE SubmitNotify(h)
  <2>1. KnowsWell(h)'
    BY <1>7 DEF SubmitNotify, Finish, Idle, KnowsWell, EditPc, SubmitPc, DecidePc, IInv, TypeOK
  <2> QED
    BY <1>7, <2>1, UnchangedRowsKeep DEF SubmitNotify
<1> QED
  BY <1>5, <1>6, <1>7 DEF SubmitStep

LEMMA DecideCommitSafe ==
    ASSUME IInv, TypeOK', NEW h \in Handler, DecideCommit(h), req[h].rows \subseteq Live
    PROVE  Safe'
<1> DEFINE r == req[h]
           S == r.rows
           approval == [verdict |-> r.verdict, reviewer |-> r.reviewer]
<1>1. r \in DecideRequest
  BY PcTellsRequest DEF DecideCommit, At, DecidePc, IInv
<1>2. S \in SUBSET Entry /\ r.verdict \in Verdict /\ r.verdict \in Status
  BY <1>1 DEF DecideRequest, Status
<1>3. SetStatus(S, r.verdict) /\ notices' = notices
  BY DEF DecideCommit
<1>4. /\ Live' = Live
      /\ \A e \in Entry : entry'[e] = Free <=> entry[e] = Free
      /\ \A e \in Live : entry'[e].owner = entry[e].owner
      /\ \A e \in S \cap Live : entry'[e].status = r.verdict
      /\ \A e \in Entry \ S : entry'[e] = entry[e]
  BY <1>2, <1>3, SetStatusType DEF IInv
<1>5. /\ \A e \in S : decisions'[e] = Append(decisions[e], approval)
      /\ \A e \in Entry \ S : decisions'[e] = decisions[e]
  BY <1>2 DEF DecideCommit
<1>6. /\ r.pc \in DecidePc
      /\ KnowsWell(h)
      /\ \A e \in S : entry[e].owner # r.reviewer /\ entry[e] # Free
  BY DEF DecideCommit, At, DecidePc, IInv, Safe, HandlersKnowWell, KnowsWell
(* What is appended stays visible next to what was there before.            *)
<1>7. \A e \in S :
         /\ DOMAIN decisions'[e] = DOMAIN decisions[e] \cup {Len(decisions[e]) + 1}
         /\ decisions'[e][Len(decisions[e]) + 1] = approval
         /\ \A i \in DOMAIN decisions[e] : decisions'[e][i] = decisions[e][i]
  <2> SUFFICES ASSUME NEW e \in S
               PROVE  /\ DOMAIN decisions'[e] = DOMAIN decisions[e] \cup {Len(decisions[e]) + 1}
                      /\ decisions'[e][Len(decisions[e]) + 1] = approval
                      /\ \A i \in DOMAIN decisions[e] : decisions'[e][i] = decisions[e][i]
    OBVIOUS
  <2>1. decisions[e] \in Seq(Decision) /\ approval \in Decision
    BY <1>1, <1>2 DEF IInv, TypeOK, DecideRequest, Decision
  <2> QED
    BY <1>5, <2>1
<1>8. \A e \in Entry, v \in Verdict :
         (\E i \in DOMAIN decisions[e] : decisions[e][i].verdict = v)
           => \E i \in DOMAIN decisions'[e] : decisions'[e][i].verdict = v
  BY <1>5, <1>7
<1>9. \A e \in S : \E i \in DOMAIN decisions'[e] : decisions'[e][i].verdict = r.verdict
  <2> SUFFICES ASSUME NEW e \in S
               PROVE  \E i \in DOMAIN decisions'[e] : decisions'[e][i].verdict = r.verdict
    OBVIOUS
  <2> DEFINE last == Len(decisions[e]) + 1
  <2>1. last \in DOMAIN decisions'[e]
    BY <1>7
  <2>2. decisions'[e][last].verdict = r.verdict
    BY <1>7
  <2> QED
    BY <2>1, <2>2
<1>10. DecisionsKeepTheirRow'
  BY <1>4, <1>5 DEF DecisionsKeepTheirRow, IInv, Safe
<1>11. DecidedByAnother'
  <2> SUFFICES ASSUME NEW e \in Live
               PROVE  /\ \A i \in DOMAIN decisions'[e] :
                            decisions'[e][i].reviewer # entry'[e].owner
                      /\ entry'[e].status \in Verdict =>
                            \E i \in DOMAIN decisions'[e] :
                                decisions'[e][i].verdict = entry'[e].status
    BY <1>4 DEF DecidedByAnother
  <2>1. e \in Entry
    BY DEF Live
  <2>2. CASE e \in S
    <3>1. \A i \in DOMAIN decisions'[e] : decisions'[e][i].reviewer # entry'[e].owner
      BY <1>4, <1>6, <1>7, <2>2 DEF IInv, Safe, DecidedByAnother
    <3> QED
      BY <1>4, <1>9, <2>2, <3>1
  <2>3. CASE e \notin S
    BY <1>4, <1>5, <2>1, <2>3 DEF IInv, Safe, DecidedByAnother
  <2> QED
    BY <2>2, <2>3
<1>12. NoticesAreTrue'
  BY <1>3, <1>8 DEF NoticesAreTrue, IInv, Safe
<1>13. ASSUME NEW g \in Handler \ {h} PROVE KnowsWell(g)'
  <2>1. KnowsWell(g) /\ req'[g] = req[g]
    BY DEF DecideCommit, IInv, TypeOK, Safe, HandlersKnowWell
  <2>2. /\ req[g].pc \in EditPc \cup {"delete_write"} => req[g].id \in Entry
        /\ req[g].pc \in SubmitPc \cup DecidePc => req[g].rows \subseteq Entry
        /\ req[g].pc \in DecidePc => req[g].verdict \in Verdict
    BY PcTellsRequest DEF At, EditRequest, DeleteRequest, SubmitRequest, DecideRequest, IInv
  <2>3. req[g].pc \in {"decide_push", "decide_notify"} =>
          \A e \in req[g].rows :
              \E i \in DOMAIN decisions'[e] : decisions'[e][i].verdict = req[g].verdict
    BY <1>8, <2>1, <2>2 DEF KnowsWell, DecidePc
  <2> QED
    BY <1>4, <2>1, <2>2, <2>3 DEF KnowsWell
<1>14. KnowsWell(h)'
  <2>1. /\ req'[h].pc \in {"decide_push", "decide_notify"}
        /\ req'[h].rows = S /\ req'[h].reviewer = r.reviewer /\ req'[h].verdict = r.verdict
    <3>1. \/ req'[h] = [r EXCEPT !.pc = "decide_push", !.unpushed = r.rows]
          \/ req'[h] = [r EXCEPT !.pc = "decide_notify"]
      BY DEF DecideCommit, IInv, TypeOK
    <3> QED
      BY <1>1, <3>1 DEF DecideRequest
  <2> QED
    BY <1>2, <1>4, <1>6, <1>9, <2>1 DEF KnowsWell, EditPc, SubmitPc
<1> QED
  BY <1>10, <1>11, <1>12, <1>13, <1>14 DEF Safe, HandlersKnowWell

LEMMA DecideStepSafe ==
    ASSUME IInv, TypeOK', NEW h \in Handler, DecideStep(h)
    PROVE  Safe'
<1>1. CASE DecideCommit(h) /\ req[h].rows \subseteq Live
  BY <1>1, DecideCommitSafe
<1>2. ASSUME entry' = entry, decisions' = decisions, NoticesAreTrue', KnowsWell(h)',
             \A g \in Handler \ {h} : req'[g] = req[g]
      PROVE  Safe'
  <2>1. /\ DecisionsKeepTheirRow' /\ DecidedByAnother'
        /\ \A g \in Handler : req'[g] = req[g] => KnowsWell(g)'
    BY <1>2, Frame, UnchangedRowsKeep
  <2> QED
    BY <1>2, <2>1 DEF Safe, HandlersKnowWell
<1>3. notices' = notices /\ decisions' = decisions => NoticesAreTrue'
  BY DEF NoticesAreTrue, IInv, Safe
<1>4. CASE DecideCommit(h) /\ ~(req[h].rows \subseteq Live)
  <2>1. Finish(h) /\ entry' = entry /\ decisions' = decisions /\ notices' = notices
    BY <1>4 DEF DecideCommit
  <2>2. KnowsWell(h)' /\ \A g \in Handler \ {h} : req'[g] = req[g]
    BY <2>1 DEF Finish, Idle, KnowsWell, EditPc, SubmitPc, DecidePc, IInv, TypeOK
  <2> QED
    BY <1>2, <1>3, <2>1, <2>2
<1>5. ASSUME NEW r \in User, NEW u \in User, NEW w \in Week, NEW v \in Verdict,
             DecideRead(h, r, u, w, v)
      PROVE  Safe'
  <2> DEFINE rows == {e \in WeekRows(u, w, "Submitted") :
                          ProjectOf[entry[e].task] \in Scope[r]}
  <2>1. /\ req'[h].pc = "decide_commit" /\ req'[h].rows = rows /\ req'[h].reviewer = r
        /\ entry' = entry /\ decisions' = decisions /\ notices' = notices
        /\ \A g \in Handler \ {h} : req'[g] = req[g]
    BY <1>5 DEF DecideRead, Start, IInv, TypeOK
  <2>2. \A e \in rows : entry[e] # Free /\ entry[e].owner # r
    BY <1>5, LiveIsRow DEF WeekRows, IInv, DecideRead
  <2>3. KnowsWell(h)'
    BY <2>1, <2>2 DEF KnowsWell, EditPc, SubmitPc, DecidePc
  <2> QED
    BY <1>2, <1>3, <2>1, <2>3
<1>6. ASSUME NEW e \in Entry, DecidePush(h, e)
      PROVE  Safe'
  <2>1. req[h] \in DecideRequest
    BY <1>6, PcTellsRequest DEF DecidePush, At, DecidePc, IInv
  <2>2. /\ entry' = entry /\ decisions' = decisions /\ notices' = notices
        /\ \A g \in Handler \ {h} : req'[g] = req[g]
        /\ req[h].pc = "decide_push"
    BY <1>6 DEF DecidePush, At, IInv, TypeOK
  <2>3. /\ req'[h].pc \in {"decide_push", "decide_notify"} /\ req'[h].rows = req[h].rows
        /\ req'[h].reviewer = req[h].reviewer /\ req'[h].verdict = req[h].verdict
    BY <1>6, <2>1, <2>2 DEF DecidePush, IInv, TypeOK, DecideRequest
  <2>4. Live' = Live /\ KnowsWell(h)
    BY <2>2 DEF Live, IInv, Safe, HandlersKnowWell
  <2>5. KnowsWell(h)'
    BY <2>2, <2>3, <2>4 DEF KnowsWell, EditPc, SubmitPc, DecidePc
  <2> QED
    BY <1>2, <1>3, <2>2, <2>5
<1>7. CASE DecideNotify(h)
  <2>1. /\ Finish(h) /\ entry' = entry /\ decisions' = decisions
        /\ notices' = notices \cup (req[h].rows \X {req[h].verdict})
        /\ req[h].pc = "decide_notify"
    BY <1>7 DEF DecideNotify, At
  <2>2. KnowsWell(h)' /\ \A g \in Handler \ {h} : req'[g] = req[g]
    BY <2>1 DEF Finish, Idle, KnowsWell, EditPc, SubmitPc, DecidePc, IInv, TypeOK
  <2>3. \A e \in req[h].rows :
            \E i \in DOMAIN decisions[e] : decisions[e][i].verdict = req[h].verdict
    BY <2>1 DEF IInv, Safe, HandlersKnowWell, KnowsWell
  <2>4. NoticesAreTrue'
    <3> SUFFICES ASSUME NEW e \in Entry, NEW v \in Verdict, <<e, v>> \in notices'
                 PROVE  \E i \in DOMAIN decisions[e] : decisions[e][i].verdict = v
      BY <2>1 DEF NoticesAreTrue
    <3>1. CASE <<e, v>> \in notices
      BY <3>1 DEF NoticesAreTrue, IInv, Safe
    <3>2. CASE e \in req[h].rows /\ v = req[h].verdict
      BY <2>3, <3>2
    <3> QED
      BY <2>1, <3>1, <3>2
  <2> QED
    BY <1>2, <2>1, <2>2, <2>4
<1> QED
  BY <1>1, <1>4, <1>5, <1>6, <1>7 DEF DecideStep

-----------------------------------------------------------------------------
LEMMA InitSafe == Init => IInv
<1> SUFFICES ASSUME Init PROVE IInv
  OBVIOUS
<1>1. TypeOK
  BY InitType
<1>2. Live = {}
  BY DEF Init, Live, Free, Status, Verdict
<1> QED
  BY <1>1, <1>2 DEF Init, IInv, Safe, HandlersKnowWell, KnowsWell, Idle, EditPc, SubmitPc,
                    DecidePc, DecisionsKeepTheirRow, DecidedByAnother, NoticesAreTrue

LEMMA StepSafe == ASSUME IInv, [Next]_vars PROVE IInv'
<1>1. TypeOK'
  BY StepType DEF IInv
<1>2. ASSUME entry' = entry, decisions' = decisions, notices' = notices,
             \A g \in Handler : KnowsWell(g) => KnowsWell(g)'
      PROVE  Safe'
  <2>1. DecisionsKeepTheirRow' /\ DecidedByAnother'
    BY <1>1, <1>2, Frame, UnchangedRowsKeep
  <2>2. NoticesAreTrue'
    BY <1>2 DEF NoticesAreTrue, IInv, Safe
  <2> QED
    BY <1>2, <2>1, <2>2 DEF IInv, Safe, HandlersKnowWell
<1>3. ASSUME NEW h \in Handler, Abort(h)
      PROVE  Safe'
  BY <1>2, <1>3, MoveKnowsWell DEF Abort
<1>4. ASSUME NEW t \in Task, ChangeLoggable(t)
      PROVE  Safe'
  BY <1>2, <1>4 DEF ChangeLoggable, KnowsWell, Live
<1>5. ASSUME UNCHANGED vars PROVE Safe'
  <2>1. entry' = entry /\ decisions' = decisions /\ notices' = notices /\ req' = req
    BY <1>5 DEF vars
  <2>2. \A g \in Handler : KnowsWell(g) => KnowsWell(g)'
    BY <2>1 DEF KnowsWell, Live
  <2> QED
    BY <1>2, <2>1, <2>2
<1> QED
  <2>1. ASSUME NEW h \in Handler,
               CreateStep(h) \/ EditStep(h) \/ DeleteStep(h) \/ SubmitStep(h) \/ DecideStep(h)
        PROVE  Safe'
    BY <1>1, <2>1, OwnerStepSafe, SubmitStepSafe, DecideStepSafe
  <2>2. Safe'
    BY <1>3, <1>4, <1>5, <2>1 DEF Next
  <2> QED
    BY <1>1, <2>2 DEF IInv

LEMMA Inductive == Spec => []IInv
BY InitSafe, StepSafe, PTL DEF Spec

(* approveSubmission and rejectSubmission never let a person decide on      *)
(* their own row, and no row says Approved or Rejected without a decision   *)
(* row that says so, whatever else runs between their check and their       *)
(* transaction.                                                             *)
THEOREM SeparationOfDuties == Spec => []DecidedByAnother
<1>1. IInv => DecidedByAnother
  BY DEF IInv, Safe
<1> QED
  BY Inductive, <1>1, PTL

(* deleteEntry never removes a row that has been decided on.                *)
THEOREM DecisionsAreKept == Spec => []DecisionsKeepTheirRow
<1>1. IInv => DecisionsKeepTheirRow
  BY DEF IInv, Safe
<1> QED
  BY Inductive, <1>1, PTL

(* Nobody is told of an approval or a rejection that was not recorded.      *)
THEOREM NoticesAreRecorded == Spec => []NoticesAreTrue
<1>1. IInv => NoticesAreTrue
  BY DEF IInv, Safe
<1> QED
  BY Inductive, <1>1, PTL
-----------------------------------------------------------------------------
(* What MapThenSumSet computes on a finite set, for the hours of rows.  The *)
(* library gives it as a recursive function that takes an arbitrary element *)
(* out first; here it is shown to be a natural number that does not depend  *)
(* on the order, nor on rows outside the set.                               *)
Total(f, S) == MapThenSumSet(LAMBDA e : f[e].hours, S)

First(s) == CHOOSE x \in s : TRUE

Solves(g, f, S) ==
    g = [s \in SUBSET S |->
            IF s = {} THEN 0 ELSE f[First(s)].hours + g[s \ {First(s)}]]

LEMMA TotalDef ==
    ASSUME NEW f, NEW S
    PROVE  Total(f, S) = (CHOOSE g : Solves(g, f, S))[S]
BY DEF Total, MapThenSumSet, MapThenFoldSet, Solves, First

(* Induction over the subsets of a finite set: a smallest bad one is good.  *)
LEMMA BySubsets ==
    ASSUME NEW S, IsFiniteSet(S), NEW good,
           \A s \in SUBSET S : (\A t \in SUBSET s : t # s => t \in good) => s \in good
    PROVE  \A s \in SUBSET S : s \in good
<1> DEFINE bad == {s \in SUBSET S : s \notin good}
<1>1. SUFFICES ASSUME bad # {} PROVE FALSE
  OBVIOUS
<1>2. IsWellFoundedOn(StrictSubsetOrdering(S), SUBSET S)
  BY FS_StrictSubsetOrderingWellFounded, FS_FiniteSubsetsOfFinite
<1>3. PICK s \in bad : \A t \in bad : ~(<<t, s>> \in StrictSubsetOrdering(S))
  <2> HIDE DEF bad
  <2>1. bad \subseteq SUBSET S
    BY DEF bad
  <2> QED
    BY <1>1, <1>2, <2>1, WFMin
<1>4. \A t \in SUBSET s : t # s => t \in good
  BY <1>3 DEF StrictSubsetOrdering
<1> QED
  BY <1>3, <1>4

(* The recursion of the sum has a solution on the subsets of a finite set.  *)
LEMMA SolutionExists ==
    ASSUME NEW f, NEW S, IsFiniteSet(S)
    PROVE  \E g : Solves(g, f, S)
<1> DEFINE Small(n) == {s \in SUBSET S : Cardinality(s) <= n}
           Upto(n, g) == g = [s \in Small(n) |->
                        IF s = {} THEN 0 ELSE f[First(s)].hours + g[s \ {First(s)}]]
           good == {s \in SUBSET S : \E g : Upto(Cardinality(s), g)}
<1>1. ASSUME NEW s \in SUBSET S
      PROVE  /\ IsFiniteSet(s) /\ Cardinality(s) \in Nat
             /\ Cardinality(s) <= Cardinality(S)
             /\ s # {} => /\ First(s) \in s
                          /\ Cardinality(s \ {First(s)}) = Cardinality(s) - 1
             /\ Cardinality(s) = 0 <=> s = {}
  <2>1. IsFiniteSet(s) /\ Cardinality(s) <= Cardinality(S)
    BY FS_Subset
  <2>2. Cardinality(s) \in Nat /\ (Cardinality(s) = 0 <=> s = {})
    BY <2>1, FS_CardinalityType, FS_EmptySet
  <2>3. s # {} => First(s) \in s
    BY DEF First
  <2>4. s # {} => Cardinality(s \ {First(s)}) = Cardinality(s) - 1
    BY <2>1, <2>3, FS_RemoveElement
  <2> QED
    BY <2>1, <2>2, <2>3, <2>4
<1>2. ASSUME NEW s \in SUBSET S, \A t \in SUBSET s : t # s => t \in good
      PROVE  s \in good
  <2> DEFINE n == Cardinality(s)
  <2>1. CASE s = {}
    <3>1. Upto(0, [u \in Small(0) |-> 0])
      BY <1>1
    <3> QED
      BY <1>1, <2>1, <3>1
  <2>2. CASE s # {}
    <3>1. n \in Nat /\ n # 0 /\ s \ {First(s)} \in good
      BY <1>1, <1>2, <2>2
    <3>2. PICK g : Upto(n - 1, g)
      <4>1. Cardinality(s \ {First(s)}) = n - 1
        BY <1>1, <2>2
      <4>2. \E g : Upto(Cardinality(s \ {First(s)}), g)
        BY <3>1
      <4> HIDE DEF Upto
      <4> QED
        BY <4>1, <4>2
    <3> DEFINE h == [u \in Small(n) |->
                        IF u = {} THEN 0 ELSE f[First(u)].hours + g[u \ {First(u)}]]
    <3>3. \A u \in Small(n - 1) : u \in Small(n)
      <4>1. \A k \in Nat : k <= n - 1 => k <= n
        BY <3>1
      <4> QED
        BY <1>1, <4>1
    <3>4. ASSUME NEW u \in Small(n), u # {} PROVE u \ {First(u)} \in Small(n - 1)
      <4> DEFINE k == Cardinality(u)
      <4>1. k \in Nat /\ k <= n /\ Cardinality(u \ {First(u)}) = k - 1
        BY <1>1, <3>4
      <4> HIDE DEF k, n
      <4>2. k - 1 <= n - 1
        BY <3>1, <4>1
      <4> QED
        BY <4>1, <4>2
    <3>5. \A u \in Small(n - 1) : h[u] = g[u]
      BY <3>2, <3>3
    <3>6. Upto(n, h)
      BY <3>3, <3>4, <3>5
    <3> QED
      BY <3>6
  <2> QED
    BY <2>1, <2>2
<1>3. S \in good
  <2> HIDE DEF good
  <2> QED
    BY <1>2, BySubsets
<1>4. PICK g : Upto(Cardinality(S), g)
  BY <1>3
<1>5. Small(Cardinality(S)) = SUBSET S
  BY <1>1
<1> QED
  BY <1>4, <1>5 DEF Solves

(* Solutions on two sets agree on what the sets have in common.             *)
LEMMA SolutionsAgree ==
    ASSUME NEW f, NEW h, NEW S, NEW T, IsFiniteSet(S), T \subseteq S,
           \A e \in T : h[e].hours = f[e].hours,
           NEW g, Solves(g, f, S), NEW k, Solves(k, h, T)
    PROVE  g[T] = k[T]
<1> DEFINE good == {s \in SUBSET T : g[s] = k[s]}
<1>1. IsFiniteSet(T)
  BY FS_Subset
<1>2. ASSUME NEW s \in SUBSET T, \A t \in SUBSET s : t # s => t \in good
      PROVE  s \in good
  <2>1. CASE s = {}
    BY <2>1 DEF Solves
  <2>2. CASE s # {}
    <3>1. First(s) \in s
      BY <2>2 DEF First
    <3> DEFINE t == s \ {First(s)}
    <3>2. g[t] = k[t]
      BY <1>2, <3>1
    <3>3. g[s] = f[First(s)].hours + g[t] /\ k[s] = h[First(s)].hours + k[t]
      BY <2>2 DEF Solves
    <3> QED
      BY <3>1, <3>2, <3>3
  <2> QED
    BY <2>1, <2>2
<1> HIDE DEF good
<1>3. T \in good
  BY <1>1, <1>2, BySubsets
<1> QED
  BY <1>3 DEF good

(* What the sum is made of.                                                 *)
LEMMA TotalSolves ==
    ASSUME NEW f, NEW S, IsFiniteSet(S)
    PROVE  \E g : Solves(g, f, S) /\ \A T \in SUBSET S : Total(f, T) = g[T]
<1>1. PICK g : Solves(g, f, S)
  BY SolutionExists
<1>2. ASSUME NEW T \in SUBSET S PROVE Total(f, T) = g[T]
  <2>1. IsFiniteSet(T)
    BY FS_Subset
  <2> DEFINE k == CHOOSE k : Solves(k, f, T)
  <2>2. Solves(k, f, T)
    BY <2>1, SolutionExists
  <2>3. Total(f, T) = k[T]
    BY TotalDef
  <2> HIDE DEF k
  <2> QED
    BY <1>1, <2>2, <2>3, SolutionsAgree
<1> QED
  BY <1>1, <1>2

LEMMA TotalAgrees ==
    ASSUME NEW f, NEW h, NEW S, IsFiniteSet(S), \A e \in S : h[e].hours = f[e].hours
    PROVE  Total(h, S) = Total(f, S)
<1>1. PICK g : Solves(g, f, S) /\ \A T \in SUBSET S : Total(f, T) = g[T]
  BY TotalSolves
<1>2. PICK k : Solves(k, h, S) /\ \A T \in SUBSET S : Total(h, T) = k[T]
  BY TotalSolves
<1>3. g[S] = k[S]
  BY <1>1, <1>2, SolutionsAgree
<1> QED
  BY <1>1, <1>2, <1>3

LEMMA TotalUnfolds ==
    ASSUME NEW f, NEW S, IsFiniteSet(S)
    PROVE  /\ Total(f, {}) = 0
           /\ S # {} => /\ First(S) \in S
                        /\ Total(f, S) = f[First(S)].hours + Total(f, S \ {First(S)})
<1>1. PICK g : Solves(g, f, S) /\ \A T \in SUBSET S : Total(f, T) = g[T]
  BY TotalSolves
<1>2. S # {} => First(S) \in S
  BY DEF First
<1> QED
  BY <1>1, <1>2 DEF Solves

(* A sum of natural numbers is one, and any element may be taken out first. *)
LEMMA TotalType ==
    ASSUME NEW f, NEW S, IsFiniteSet(S), \A e \in S : f[e].hours \in Nat
    PROVE  Total(f, S) \in Nat
<1> DEFINE good == {s \in SUBSET S : Total(f, s) \in Nat}
<1>1. ASSUME NEW s \in SUBSET S, \A t \in SUBSET s : t # s => t \in good
      PROVE  s \in good
  <2>1. IsFiniteSet(s)
    BY FS_Subset
  <2>2. CASE s = {}
    <3>1. Total(f, s) = 0
      BY <2>1, <2>2, TotalUnfolds
    <3> QED
      BY <2>2, <3>1
  <2>3. CASE s # {}
    <3> DEFINE x == First(s)
    <3>1. x \in s /\ Total(f, s) = f[x].hours + Total(f, s \ {x})
      BY <2>1, <2>3, TotalUnfolds
    <3>2. s \ {x} \in good /\ x \in S
      BY <1>1, <3>1
    <3>3. f[x].hours \in Nat /\ Total(f, s \ {x}) \in Nat
      BY <3>2
    <3> HIDE DEF x
    <3> QED
      BY <3>1, <3>3
  <2> QED
    BY <2>2, <2>3
<1> HIDE DEF good
<1>2. S \in good
  BY <1>1, BySubsets
<1> QED
  BY <1>2 DEF good

LEMMA TotalTakesOut ==
    ASSUME NEW f, NEW S, IsFiniteSet(S), \A e \in S : f[e].hours \in Nat, NEW e \in S
    PROVE  Total(f, S) = f[e].hours + Total(f, S \ {e})
<1> DEFINE good == {s \in SUBSET S : \A d \in s : Total(f, s) = f[d].hours + Total(f, s \ {d})}
<1>1. ASSUME NEW s \in SUBSET S, \A t \in SUBSET s : t # s => t \in good
      PROVE  s \in good
  <2> SUFFICES ASSUME NEW d \in s
               PROVE  Total(f, s) = f[d].hours + Total(f, s \ {d})
    OBVIOUS
  <2>1. \A t \in SUBSET s : IsFiniteSet(t) /\ Total(f, t) \in Nat
    BY FS_Subset, TotalType
  <2> DEFINE x == First(s)
  <2>2. x \in s /\ Total(f, s) = f[x].hours + Total(f, s \ {x})
    BY <2>1, TotalUnfolds
  <2>3. CASE d = x
    BY <2>2, <2>3
  <2>4. CASE d # x
    <3>1. s \ {x} \in good /\ s \ {d} \in good
      BY <1>1, <2>2
    <3> DEFINE rest == (s \ {x}) \ {d}
    <3>2. Total(f, s \ {x}) = f[d].hours + Total(f, rest)
      BY <2>4, <3>1
    <3>3. (s \ {d}) \ {x} = rest
      OBVIOUS
    <3>4. Total(f, s \ {d}) = f[x].hours + Total(f, rest)
      BY <2>2, <2>4, <3>1, <3>3
    <3>5. f[d].hours \in Nat /\ f[x].hours \in Nat /\ Total(f, rest) \in Nat
      BY <2>1, <2>2
    <3> HIDE DEF rest, x
    <3> QED
      BY <2>2, <3>2, <3>4, <3>5
  <2> QED
    BY <2>3, <2>4
<1> HIDE DEF good
<1>2. S \in good
  BY <1>1, BySubsets
<1> QED
  BY <1>2 DEF good
-----------------------------------------------------------------------------
(* What only one request at a time preserves.  With one handler nothing     *)
(* changes the rows between its queries, so what it read is still so.       *)
RowsAre(S, u, s) ==
    /\ S # {} /\ S \subseteq Live
    /\ \A e \in S : entry[e].owner = u /\ entry[e].status = s

(* What else a user has logged on the day of one of their rows.              *)
OtherTotal(u, d, e) == DayTotal(DayRows(u, d) \ {e})

Reads(h) ==
    LET r == req[h]
    IN /\ r.pc = "create_insert" =>
             DayTotal(DayRows(r.owner, r.day)) + r.hours <= DailyMax
       /\ r.pc \in EditPc => /\ entry[r.id] = r.row
                             /\ r.changing \/ r.hours = r.row.hours
       /\ r.pc = "edit_write" =>
             OtherTotal(r.row.owner, r.row.day, r.id) + r.hours <= DailyMax
       /\ r.pc = "delete_write" => entry[r.id].status \in Editable
       /\ r.pc = "submit_write" => \E u \in User, s \in Editable : RowsAre(r.rows, u, s)
       /\ r.pc = "decide_commit" =>
             \E u \in User : u # r.reviewer /\ RowsAre(r.rows, u, "Submitted")

(* Rows are logged one by one: there are only ever finitely many.           *)
SerialInv ==
    /\ IInv
    /\ IsFiniteSet(Live)
    /\ DailyCap
    /\ \A h \in Handler : Reads(h)

-----------------------------------------------------------------------------
(* Hours and totals of the rows that exist.                                 *)
LEMMA HoursType == Hours \subseteq Nat /\ DailyMax \in Nat
BY TimesheetsAssumption

LEMMA RowHours ==
    ASSUME TypeOK, NEW e \in Live
    PROVE  /\ entry[e].hours \in Nat
           /\ entry[e].owner \in User /\ entry[e].day \in Day
           /\ entry[e].status \in Status
<1>1. entry[e] \in Row
  BY LiveIsRow
<1> QED
  BY <1>1, HoursType DEF Row

LEMMA DayRowsTotal ==
    ASSUME TypeOK, IsFiniteSet(Live), NEW S \in SUBSET Live
    PROVE  IsFiniteSet(S) /\ Total(entry, S) \in Nat /\ \A e \in S : entry[e].hours \in Nat
<1>1. IsFiniteSet(S)
  BY FS_Subset
<1>2. \A e \in S : entry[e].hours \in Nat
  BY RowHours
<1> QED
  BY <1>1, <1>2, TotalType

(* What a user logged on a day, in this state and the next, here and in the *)
(* abstract specification.                                                  *)
LEMMA DayTotals ==
    ASSUME NEW u, NEW d
    PROVE  /\ DayTotal(DayRows(u, d)) = Total(entry, DayRows(u, d))
           /\ DayTotal(DayRows(u, d))' = Total(entry', DayRows(u, d)')
           /\ Lifecycle!DayTotal(u, d)' = Total(entry', DayRows(u, d)')
<1>1. DayTotal(DayRows(u, d)) = Total(entry, DayRows(u, d))
  BY DEF DayTotal, Total
<1>2. DayTotal(DayRows(u, d))' = Total(entry', DayRows(u, d)')
  BY DEF DayTotal, Total, DayRows, Live, MapThenSumSet, MapThenFoldSet
<1>3. DayRows(u, d) = {e \in Lifecycle!Live : entry[e].owner = u /\ entry[e].day = d}
  BY DEF DayRows, Live, Lifecycle!Live, Status, Verdict
<1>4. DayRows(u, d)' = {e \in Lifecycle!Live : entry[e].owner = u /\ entry[e].day = d}'
  BY DEF DayRows, Live, Lifecycle!Live, Status, Verdict
<1>5. Lifecycle!DayTotal(u, d)'
        = Total(entry', {e \in Lifecycle!Live : entry[e].owner = u /\ entry[e].day = d}')
  BY DEF Lifecycle!DayTotal, Total, Lifecycle!MapThenSumSet, Lifecycle!MapThenFoldSet,
         MapThenSumSet, MapThenFoldSet, Lifecycle!Live
<1> QED
  BY <1>1, <1>2, <1>4, <1>5

LEMMA CapIsWithinCap == DailyCap' => Lifecycle!WithinCap
BY DayTotals DEF DailyCap, Lifecycle!WithinCap

(* Hours, owners and days are left alone by a change of status.             *)
LEMMA SetStatusKeeps ==
    ASSUME TypeOK, NEW S \in SUBSET Live, NEW s \in Status, SetStatus(S, s)
    PROVE  /\ Live' = Live
           /\ entry' = [e \in Entry |-> IF e \in S THEN [entry[e] EXCEPT !.status = s]
                                                   ELSE entry[e]]
           /\ \A e \in Live : /\ entry'[e].owner = entry[e].owner
                              /\ entry'[e].day = entry[e].day
                              /\ entry'[e].hours = entry[e].hours
<1>1. Live \subseteq Entry /\ S \cap Live = S
  BY DEF Live
<1>2. Live' = Live
  BY <1>1, SetStatusType
<1>3. entry' = [e \in Entry |-> IF e \in S THEN [entry[e] EXCEPT !.status = s] ELSE entry[e]]
  BY <1>1 DEF SetStatus
<1>4. \A e \in Live : entry[e] \in Row
  BY LiveIsRow
<1> QED
  BY <1>1, <1>2, <1>3, <1>4 DEF Row

(* A day on which no row came, went or changed its hours.                   *)
LEMMA DayStays ==
    ASSUME TypeOK, IsFiniteSet(Live), NEW u \in User, NEW d \in Day,
           DayTotal(DayRows(u, d)) <= DailyMax,
           DayRows(u, d)' = DayRows(u, d),
           \A e \in DayRows(u, d) : entry'[e].hours = entry[e].hours
    PROVE  DayTotal(DayRows(u, d))' <= DailyMax
<1>1. DayRows(u, d) \in SUBSET Live
  BY DEF DayRows
<1>2. Total(entry', DayRows(u, d)) = Total(entry, DayRows(u, d))
  BY <1>1, DayRowsTotal, TotalAgrees
<1> QED
  BY <1>2, DayTotals

-----------------------------------------------------------------------------
(* The writes, each a step of the abstract life cycle that keeps the cap.   *)

(* createEntry's insert logs the hours it checked.                          *)
LEMMA InsertIsLog ==
    ASSUME SerialInv, NEW h \in Handler, CreateInsert(h), entry' # entry
    PROVE  DailyCap' /\ IsFiniteSet(Live') /\ Lifecycle!Next
<1> DEFINE r == req[h]
           new == [status |-> "Draft", owner |-> r.owner, task |-> r.task,
                   day |-> r.day, hours |-> r.hours]
<1>1. TypeOK /\ IsFiniteSet(Live) /\ DailyCap /\ Reads(h) /\ decisions' = decisions
  BY DEF SerialInv, IInv, CreateInsert
<1>2. r \in CreateRequest /\ r.pc = "create_insert"
  BY <1>1, PcTellsRequest DEF CreateInsert, At, CreatePc
<1>3. /\ r.owner \in User /\ r.task \in Task /\ r.day \in Day
      /\ r.hours \in Hours /\ r.hours \in Nat
  BY <1>2, HoursType DEF CreateRequest
<1>4. PICK e \in Entry : entry[e] = Free /\ entry' = [entry EXCEPT ![e] = new]
  BY DEF CreateInsert
<1>5. \A f \in DayRows(r.owner, r.day) : entry[f].task # r.task
  BY DEF CreateInsert
<1>6. /\ e \notin Live /\ entry'[e] = new
      /\ \A f \in Live : f # e /\ entry'[f] = entry[f]
      /\ Live' = Live \cup {e}
  BY <1>1, <1>4 DEF TypeOK, Live, Free, Status, Verdict
<1>7. IsFiniteSet(Live')
  BY <1>1, <1>6, FS_AddElement
<1>8. DailyCap'
  <2> SUFFICES ASSUME NEW u \in User, NEW d \in Day
               PROVE  DayTotal(DayRows(u, d))' <= DailyMax
    BY DEF DailyCap
  <2> DEFINE S == DayRows(u, d)
  <2>1. S \in SUBSET Live /\ DayTotal(S) <= DailyMax
    BY <1>1 DEF DailyCap, DayRows
  <2>2. \A f \in S : entry'[f].hours = entry[f].hours
    BY <1>6, <2>1
  <2>3. CASE u = r.owner /\ d = r.day
    <3>1. DayRows(u, d)' = S \cup {e}
      BY <1>6, <2>3 DEF DayRows
    <3> DEFINE T == S \cup {e}
    <3>2. IsFiniteSet(S) /\ Total(entry, S) \in Nat /\ \A f \in S : entry[f].hours \in Nat
      BY <1>1, <2>1, DayRowsTotal
    <3>3. IsFiniteSet(T) /\ \A f \in T : entry'[f].hours \in Nat
      BY <1>3, <1>6, <2>2, <3>2, FS_AddElement
    <3>4. Total(entry', T) = entry'[e].hours + Total(entry', T \ {e})
      BY <3>3, TotalTakesOut
    <3>5. T \ {e} = S
      BY <1>6, <2>1
    <3>6. Total(entry', S) = Total(entry, S)
      BY <2>2, <3>2, TotalAgrees
    <3>7. Total(entry, S) + r.hours <= DailyMax
      BY <1>1, <1>2, <2>3, DayTotals DEF Reads
    <3>8. entry'[e].hours = r.hours
      BY <1>6
    <3>9. Total(entry', T) = r.hours + Total(entry, S)
      BY <3>4, <3>5, <3>6, <3>8
    <3>10. Total(entry', T) <= DailyMax
      <4> HIDE DEF S, T
      <4> QED
        BY <1>3, <3>2, <3>7, <3>9
    <3> QED
      BY <3>1, <3>10, DayTotals
  <2>4. CASE ~(u = r.owner /\ d = r.day)
    <3>1. DayRows(u, d)' = S
      BY <1>6, <2>4 DEF DayRows
    <3> QED
      BY <1>1, <2>1, <2>2, <3>1, DayStays
  <2> QED
    BY <2>3, <2>4
<1>9. Lifecycle!Log(e, r.owner, r.task, r.day, r.hours)
  <2>1. \A f \in Lifecycle!Live :
            <<entry[f].owner, entry[f].task, entry[f].day>> # <<r.owner, r.task, r.day>>
    BY <1>5 DEF DayRows, Live, Lifecycle!Live, Status, Verdict
  <2>2. entry[e].status = "free"
    BY <1>4 DEF Free
  <2> QED
    BY <1>1, <1>4, <1>8, <2>1, <2>2, CapIsWithinCap DEF Lifecycle!Log
<1> QED
  BY <1>3, <1>7, <1>8, <1>9 DEF Lifecycle!Next

(* updateEntry's write revises the row it read.                             *)
LEMMA EditIsRevise ==
    ASSUME SerialInv, NEW h \in Handler, EditWrite(h)
    PROVE  DailyCap' /\ IsFiniteSet(Live') /\ Lifecycle!Next
<1> DEFINE r == req[h]
           e == r.id
<1>1. TypeOK /\ IsFiniteSet(Live) /\ DailyCap /\ Reads(h) /\ decisions' = decisions
  BY DEF SerialInv, IInv, EditWrite
<1>2. r \in EditRequest /\ r.pc = "edit_write" /\ r.pc \in EditPc
  BY <1>1, PcTellsRequest DEF EditWrite, At, EditPc
<1>3. r.row.status \in Editable
  BY <1>2 DEF SerialInv, IInv, Safe, HandlersKnowWell, KnowsWell
<1>4. e \in Entry /\ entry[e] = r.row /\ r.hours \in Hours /\ r.hours \in Nat
  BY <1>1, <1>2, HoursType DEF EditRequest, Reads
<1>5. e \in Live /\ entry[e] \in Row
  BY <1>1, <1>3, <1>4, LiveIsRow DEF Live, Editable, Status, Verdict
<1>6. entry' = [entry EXCEPT ![e].hours = r.hours, ![e].status = "Draft"]
  BY <1>3, <1>5 DEF EditWrite, Editable
<1>7. /\ entry'[e].hours = r.hours /\ entry'[e].status = "Draft"
      /\ entry'[e].owner = entry[e].owner /\ entry'[e].day = entry[e].day
      /\ \A f \in Entry : f # e => entry'[f] = entry[f]
  BY <1>1, <1>4, <1>5, <1>6 DEF TypeOK, Row
<1>8. Live' = Live
  BY <1>4, <1>5, <1>7 DEF Live, Status
<1>9. DailyCap'
  <2> SUFFICES ASSUME NEW u \in User, NEW d \in Day
               PROVE  DayTotal(DayRows(u, d))' <= DailyMax
    BY DEF DailyCap
  <2> DEFINE S == DayRows(u, d)
  <2>1. S \in SUBSET Live /\ S \in SUBSET Entry /\ DayTotal(S) <= DailyMax
    BY <1>1 DEF DailyCap, DayRows, Live
  <2>2. DayRows(u, d)' = S
    BY <1>7, <1>8 DEF DayRows, Live
  <2>3. CASE e \in S
    <3>1. IsFiniteSet(S) /\ \A f \in S : entry[f].hours \in Nat
      BY <1>1, <2>1, DayRowsTotal
    <3>2. \A f \in S : entry'[f].hours \in Nat
      BY <1>4, <1>7, <2>1, <3>1
    <3>3. Total(entry', S) = r.hours + Total(entry', S \ {e})
      BY <1>7, <2>3, <3>1, <3>2, TotalTakesOut
    <3>4. IsFiniteSet(S \ {e}) /\ Total(entry, S \ {e}) \in Nat
      BY <1>1, <2>1, DayRowsTotal
    <3>5. \A f \in S \ {e} : entry'[f].hours = entry[f].hours
      BY <1>7, <2>1
    <3>6. Total(entry', S \ {e}) = Total(entry, S \ {e})
      BY <3>4, <3>5, TotalAgrees
    <3>7. r.row.owner = u /\ r.row.day = d
      BY <1>4, <2>3 DEF DayRows
    <3>8. DayTotal(S \ {e}) + r.hours <= DailyMax
      BY <1>1, <1>2, <3>7 DEF Reads, OtherTotal
    <3>9. DayTotal(S \ {e}) = Total(entry, S \ {e})
      BY DEF DayTotal, Total
    <3> DEFINE rest == Total(entry, S \ {e})
    <3>10. Total(entry', S) <= DailyMax
      <4>1. rest + r.hours <= DailyMax /\ Total(entry', S) = r.hours + rest /\ rest \in Nat
        BY <3>3, <3>4, <3>6, <3>8, <3>9
      <4> HIDE DEF rest, S
      <4> QED
        BY <1>4, <4>1
    <3> QED
      BY <2>2, <3>10, DayTotals
  <2>4. CASE e \notin S
    <3>1. \A f \in S : entry'[f].hours = entry[f].hours
      BY <1>7, <2>1, <2>4
    <3> QED
      BY <1>1, <2>1, <2>2, <3>1, DayStays
  <2> QED
    BY <2>3, <2>4
<1>10. Lifecycle!Revise(e, r.hours)
  BY <1>1, <1>3, <1>4, <1>6, <1>9, CapIsWithinCap DEF Lifecycle!Revise, Editable
<1> QED
  BY <1>1, <1>4, <1>8, <1>9, <1>10 DEF Lifecycle!Next

(* deleteEntry removes a draft nobody has decided on.                       *)
LEMMA DeleteIsRemove ==
    ASSUME SerialInv, NEW h \in Handler, DeleteWrite(h), entry' # entry
    PROVE  DailyCap' /\ IsFiniteSet(Live') /\ Lifecycle!Next
<1> DEFINE e == req[h].id
<1>1. TypeOK /\ IsFiniteSet(Live) /\ DailyCap /\ Reads(h) /\ decisions' = decisions
  BY DEF SerialInv, IInv, DeleteWrite
<1>2. e \in Live /\ e \in Entry /\ decisions[e] = <<>> /\ entry' = [entry EXCEPT ![e] = Deleted]
  BY DEF DeleteWrite, Live
<1>3. entry[e].status \in Editable
  BY <1>1 DEF Reads, DeleteWrite, At
<1>4. entry[e].status = "Draft"
  BY <1>2, <1>3 DEF Editable, Verdict, SerialInv, IInv, Safe, DecidedByAnother
<1>5. /\ Live' = Live \ {e}
      /\ \A f \in Live' : entry'[f] = entry[f]
  BY <1>1, <1>2 DEF TypeOK, Live, Deleted, Status, Verdict
<1>6. IsFiniteSet(Live')
  BY <1>1, <1>5, FS_RemoveElement
<1>7. DailyCap'
  <2> SUFFICES ASSUME NEW u \in User, NEW d \in Day
               PROVE  DayTotal(DayRows(u, d))' <= DailyMax
    BY DEF DailyCap
  <2> DEFINE S == DayRows(u, d)
             T == S \ {e}
  <2>1. S \in SUBSET Live /\ DayTotal(S) <= DailyMax
    BY <1>1 DEF DailyCap, DayRows
  <2>2. DayRows(u, d)' = T
    BY <1>5 DEF DayRows
  <2>3. IsFiniteSet(S) /\ IsFiniteSet(T) /\ Total(entry, T) \in Nat
        /\ \A f \in S : entry[f].hours \in Nat
    BY <1>1, <2>1, DayRowsTotal
  <2>4. Total(entry', T) = Total(entry, T)
    <3>1. \A f \in T : entry'[f].hours = entry[f].hours
      BY <1>5, <2>1
    <3> QED
      BY <2>3, <3>1, TotalAgrees
  <2>5. Total(entry, T) <= DailyMax
    <3>1. CASE e \in S
      <4>1. Total(entry, S) = entry[e].hours + Total(entry, T)
        BY <2>3, <3>1, TotalTakesOut
      <4>2. Total(entry, S) <= DailyMax /\ entry[e].hours \in Nat
        BY <2>1, <2>3, <3>1, DayTotals
      <4> HIDE DEF S, T
      <4> QED
        BY <2>3, <4>1, <4>2, HoursType
    <3>2. CASE e \notin S
      <4>1. T = S
        BY <3>2
      <4> QED
        BY <2>1, <4>1, DayTotals
    <3> QED
      BY <3>1, <3>2
  <2> QED
    BY <2>2, <2>4, <2>5, DayTotals
<1>8. Lifecycle!Remove(e)
  BY <1>1, <1>2, <1>4 DEF Lifecycle!Remove, Deleted
<1> QED
  BY <1>2, <1>6, <1>7, <1>8 DEF Lifecycle!Next

(* submitWeek and resubmitWeek submit rows of one user that are as they     *)
(* were read.                                                               *)
LEMMA StatusKeepsCap ==
    ASSUME SerialInv, NEW S \in SUBSET Live, NEW s \in Status, SetStatus(S, s)
    PROVE  DailyCap' /\ IsFiniteSet(Live')
<1>1. TypeOK /\ IsFiniteSet(Live) /\ DailyCap
  BY DEF SerialInv, IInv
<1>2. /\ Live' = Live
      /\ \A e \in Live : /\ entry'[e].owner = entry[e].owner
                         /\ entry'[e].day = entry[e].day
                         /\ entry'[e].hours = entry[e].hours
  BY <1>1, SetStatusKeeps
<1>3. ASSUME NEW u \in User, NEW d \in Day
      PROVE  DayTotal(DayRows(u, d))' <= DailyMax
  <2>1. DayRows(u, d)' = DayRows(u, d) /\ DayRows(u, d) \subseteq Live
    BY <1>2 DEF DayRows
  <2>2. DayTotal(DayRows(u, d)) <= DailyMax
    BY <1>1 DEF DailyCap
  <2> QED
    BY <1>1, <1>2, <2>1, <2>2, DayStays
<1> QED
  BY <1>1, <1>2, <1>3 DEF DailyCap

LEMMA SubmitIsSubmit ==
    ASSUME SerialInv, NEW h \in Handler, SubmitWrite(h)
    PROVE  DailyCap' /\ IsFiniteSet(Live') /\ Lifecycle!Next
<1> DEFINE S == req[h].rows
<1>1. TypeOK /\ Reads(h) /\ decisions' = decisions
  BY DEF SerialInv, IInv, SubmitWrite
<1>2. SetStatus(S, "Submitted") /\ req[h].pc = "submit_write" /\ "Submitted" \in Status
  BY DEF SubmitWrite, At, Status
<1>3. PICK u \in User, s \in Editable : RowsAre(S, u, s)
  BY <1>1, <1>2 DEF Reads
<1>4. S \in SUBSET Live
  BY <1>3 DEF RowsAre
<1>5. entry' = [e \in Entry |-> IF e \in S THEN [entry[e] EXCEPT !.status = "Submitted"]
                                           ELSE entry[e]]
  BY <1>1, <1>2, <1>4, SetStatusKeeps
<1>6. Lifecycle!Submit(S, s)
  BY <1>1, <1>3, <1>5 DEF Lifecycle!Submit, Lifecycle!Advance, RowsAre
<1>7. S \in SUBSET Lifecycle!Live
  BY <1>4 DEF Live, Lifecycle!Live, Status, Verdict
<1>8. DailyCap' /\ IsFiniteSet(Live')
  BY <1>2, <1>4, StatusKeepsCap
<1> QED
  BY <1>6, <1>7, <1>8 DEF Lifecycle!Next, Editable

(* A decision is recorded next to those there were.                         *)
Recorded(e) ==
    {<<decisions[e][i].reviewer, decisions[e][i].verdict>> : i \in DOMAIN decisions[e]}

LEMMA AppendRecords ==
    ASSUME TypeOK, NEW S \in SUBSET Entry, NEW d \in Decision,
           decisions' = [e \in Entry |-> IF e \in S THEN Append(decisions[e], d)
                                                    ELSE decisions[e]]
    PROVE  \A e \in Entry : Recorded(e)' = IF e \in S
                                           THEN Recorded(e) \cup {<<d.reviewer, d.verdict>>}
                                           ELSE Recorded(e)
<1> SUFFICES ASSUME NEW e \in Entry
             PROVE  Recorded(e)' = IF e \in S
                                   THEN Recorded(e) \cup {<<d.reviewer, d.verdict>>}
                                   ELSE Recorded(e)
  OBVIOUS
<1>1. CASE e \in S
  <2>1. decisions'[e] = Append(decisions[e], d) /\ decisions[e] \in Seq(Decision)
    BY <1>1 DEF TypeOK
  <2> DEFINE n == Len(decisions[e]) + 1
  <2>2. /\ DOMAIN decisions'[e] = DOMAIN decisions[e] \cup {n}
        /\ decisions'[e][n] = d
        /\ \A i \in DOMAIN decisions[e] : decisions'[e][i] = decisions[e][i]
    BY <2>1
  <2> HIDE DEF n
  <2> QED
    BY <1>1, <2>2 DEF Recorded
<1>2. CASE e \notin S
  BY <1>2 DEF Recorded
<1> QED
  BY <1>1, <1>2

(* approveSubmission and rejectSubmission decide on rows of somebody else   *)
(* that are submitted still.                                                *)
LEMMA CommitIsDecide ==
    ASSUME SerialInv, NEW h \in Handler, DecideCommit(h), req[h].rows \subseteq Live
    PROVE  DailyCap' /\ IsFiniteSet(Live') /\ Lifecycle!Next
<1> DEFINE r == req[h]
           S == r.rows
           approval == [verdict |-> r.verdict, reviewer |-> r.reviewer]
<1>1. TypeOK /\ Reads(h)
  BY DEF SerialInv, IInv
<1>2. r \in DecideRequest /\ r.pc = "decide_commit"
  BY <1>1, PcTellsRequest DEF DecideCommit, At, DecidePc
<1>3. /\ S \in SUBSET Entry /\ S \in SUBSET Live
      /\ r.verdict \in Verdict /\ r.verdict \in Status /\ r.reviewer \in User
      /\ approval \in Decision
  BY <1>2 DEF DecideRequest, Status, Decision
<1>4. PICK u \in User : u # r.reviewer /\ RowsAre(S, u, "Submitted")
  BY <1>1, <1>2 DEF Reads
<1>5. /\ SetStatus(S, r.verdict)
      /\ decisions' = [e \in Entry |-> IF e \in S THEN Append(decisions[e], approval)
                                                  ELSE decisions[e]]
  BY DEF DecideCommit
<1>6. entry' = [e \in Entry |-> IF e \in S THEN [entry[e] EXCEPT !.status = r.verdict]
                                           ELSE entry[e]]
  BY <1>1, <1>3, <1>5, SetStatusKeeps
<1>7. \A e \in Entry : Recorded(e)' = IF e \in S
                                      THEN Recorded(e) \cup {<<r.reviewer, r.verdict>>}
                                      ELSE Recorded(e)
  <2> DEFINE d == approval
  <2>1. d.reviewer = r.reviewer /\ d.verdict = r.verdict
    OBVIOUS
  <2>2. d \in Decision /\ decisions' = [e \in Entry |-> IF e \in S THEN Append(decisions[e], d)
                                                       ELSE decisions[e]]
    BY <1>3, <1>5
  <2> HIDE DEF d, S
  <2>3. \A e \in Entry : Recorded(e)' = IF e \in S
                                        THEN Recorded(e) \cup {<<d.reviewer, d.verdict>>}
                                        ELSE Recorded(e)
    BY <1>1, <1>3, <2>2, AppendRecords
  <2> QED
    BY <2>1, <2>3
<1>8. ASSUME NEW T, NEW q, NEW v, T = S, q = r.reviewer, v = r.verdict
      PROVE  Lifecycle!Decide(T, q, v)
  <2>1. /\ \A e \in T : entry[e].owner # q
        /\ Lifecycle!Advance(T, "Submitted", v)
    BY <1>4, <1>6, <1>8 DEF Lifecycle!Advance, RowsAre
  <2> DEFINE V == [e \in Entry |-> Recorded(e)]
  <2>2. V' = [e \in Entry |-> IF e \in T THEN V[e] \cup {<<q, v>>} ELSE V[e]]
    BY <1>7, <1>8
  <2> QED
    BY <2>1, <2>2 DEF Lifecycle!Decide, Recorded
<1>9. S \in SUBSET Lifecycle!Live
  BY <1>3 DEF Live, Lifecycle!Live, Status, Verdict
<1>10. DailyCap' /\ IsFiniteSet(Live')
  BY <1>3, <1>5, StatusKeepsCap
<1>11. Lifecycle!Next
  <2>1. PICK T, q, v : T = S /\ q = r.reviewer /\ v = r.verdict
    OBVIOUS
  <2>2. T \in SUBSET Lifecycle!Live /\ q \in User /\ v \in {"Approved", "Rejected"}
    BY <1>3, <1>9, <2>1 DEF Verdict
  <2>3. Lifecycle!Decide(T, q, v)
    BY <1>8, <2>1
  <2> QED
    BY <2>2, <2>3 DEF Lifecycle!Next
<1> QED
  BY <1>10, <1>11

-----------------------------------------------------------------------------
(* Reads, and steps of other kinds, leave the rows as they are.             *)
LEMMA RowsUntouched ==
    ASSUME SerialInv, entry' = entry
    PROVE  DailyCap' /\ IsFiniteSet(Live')
<1>1. Live' = Live
  BY DEF Live
<1>2. ASSUME NEW u \in User, NEW d \in Day
      PROVE  DayTotal(DayRows(u, d))' <= DailyMax
  <2>1. DayRows(u, d)' = DayRows(u, d)
    BY <1>1 DEF DayRows
  <2> QED
    BY <2>1, DayStays DEF SerialInv, IInv, DailyCap
<1> QED
  BY <1>1, <1>2 DEF SerialInv, DailyCap

(* The two sums a request may have checked, when the rows stay.             *)
LEMMA SumsStay ==
    ASSUME entry' = entry, NEW u, NEW d, NEW e
    PROVE  /\ DayTotal(DayRows(u, d))' = DayTotal(DayRows(u, d))
           /\ OtherTotal(u, d, e)' = OtherTotal(u, d, e)
<1>1. DayRows(u, d)' = DayRows(u, d)
  BY DEF DayRows, Live
<1>2. OtherTotal(u, d, e)' = Total(entry', DayRows(u, d)' \ {e})
  BY DEF OtherTotal, DayTotal, Total, DayRows, Live, MapThenSumSet, MapThenFoldSet
<1>3. OtherTotal(u, d, e) = Total(entry, DayRows(u, d) \ {e})
  BY DEF OtherTotal, DayTotal, Total
<1> QED
  BY <1>1, <1>2, <1>3, DayTotals

(* Most points of a request rely on nothing that was read.                  *)
LEMMA NothingRead ==
    ASSUME NEW h \in Handler,
           req'[h].pc \notin EditPc \cup {"create_insert", "delete_write", "submit_write",
                                          "decide_commit"}
    PROVE  Reads(h)'
BY DEF Reads, EditPc

LEMMA FinishReads == ASSUME TypeOK, NEW h \in Handler, Finish(h) PROVE Reads(h)'
<1>1. req'[h].pc = "idle"
  BY DEF TypeOK, Finish, Idle
<1> QED
  BY <1>1, NothingRead DEF EditPc

LEMMA CreateReads ==
    ASSUME SerialInv, NEW h \in Handler, CreateStep(h)
    PROVE  Reads(h)'
<1>1. TypeOK
  BY DEF SerialInv, IInv
<1>2. ASSUME NEW u \in User, NEW t \in Task, NEW d \in Day, NEW n \in Hours,
             CreateStart(h, u, t, d, n)
      PROVE  Reads(h)'
  <2>1. req'[h].pc = "create_loggable"
    BY <1>1, <1>2 DEF CreateStart, Start, TypeOK
  <2> QED
    BY <2>1, NothingRead DEF EditPc
<1>3. CASE CreateLoggable(h)
  <2>1. CASE Goto(h, "create_capacity")
    <3>1. req[h] \in CreateRequest
      BY <1>1, <1>3, PcTellsRequest DEF CreateLoggable, At, CreatePc
    <3>2. req'[h].pc = "create_capacity"
      BY <1>1, <2>1, <3>1 DEF Goto, TypeOK, CreateRequest
    <3> QED
      BY <3>2, NothingRead DEF EditPc
  <2> QED
    BY <1>1, <1>3, <2>1, FinishReads DEF CreateLoggable
<1>4. CASE CreateCapacity(h)
  <2>1. CASE ~Finish(h)
    <3>1. req[h] \in CreateRequest
      BY <1>1, <1>4, PcTellsRequest DEF CreateCapacity, At, CreatePc
    <3>2. /\ req'[h].pc = "create_insert"
          /\ req'[h].owner = req[h].owner /\ req'[h].day = req[h].day
          /\ req'[h].hours = req[h].hours
      BY <1>1, <1>4, <2>1, <3>1 DEF CreateCapacity, Goto, TypeOK, CreateRequest
    <3>3. PICK u, d, n : u = req[h].owner /\ d = req[h].day /\ n = req[h].hours
      OBVIOUS
    <3>4. DayTotal(DayRows(u, d)) + n <= DailyMax /\ entry' = entry
      BY <1>4, <2>1, <3>3 DEF CreateCapacity
    <3>5. DayTotal(DayRows(u, d))' + n <= DailyMax
      BY <3>4, SumsStay
    <3>6. (DayTotal(DayRows(req[h].owner, req[h].day)) + req[h].hours <= DailyMax)'
      BY <3>2, <3>3, <3>5
    <3> QED
      BY <3>2, <3>6 DEF Reads, EditPc
  <2> QED
    BY <1>1, <1>4, <2>1, FinishReads DEF CreateCapacity
<1>5. CASE CreateInsert(h)
  BY <1>1, <1>5, FinishReads DEF CreateInsert
<1> QED
  BY <1>2, <1>3, <1>4, <1>5 DEF CreateStep

LEMMA EditReads ==
    ASSUME SerialInv, NEW h \in Handler, EditStep(h)
    PROVE  Reads(h)'
<1>1. TypeOK /\ IsFiniteSet(Live) /\ DailyCap /\ Reads(h)
  BY DEF SerialInv, IInv
<1>2. ASSUME NEW e \in Entry, NEW n \in Hours, NEW c \in BOOLEAN, EditRead(h, e, n, c)
      PROVE  Reads(h)'
  <2>1. /\ req'[h].pc = "edit_loggable" /\ req'[h].id = e /\ req'[h].row = entry[e]
        /\ req'[h].hours = n /\ req'[h].changing = c /\ entry' = entry
        /\ c \/ n = entry[e].hours
    BY <1>1, <1>2 DEF EditRead, Start, TypeOK
  <2> QED
    BY <2>1 DEF Reads, EditPc
(* A request that moves on keeps the row it read.                           *)
<1>3. ASSUME NEW pc \in EditPc, Goto(h, pc), req[h].pc \in EditPc, entry' = entry,
             NEW u, NEW d, NEW e, NEW n,
             u = req[h].row.owner, d = req[h].row.day, e = req[h].id, n = req[h].hours,
             pc = "edit_write" => OtherTotal(u, d, e) + n <= DailyMax
      PROVE  Reads(h)'
  <2>1. req[h] \in EditRequest
    BY <1>1, <1>3, PcTellsRequest
  <2>2. /\ req'[h].pc = pc /\ req'[h].id = e /\ req'[h].row = req[h].row
        /\ req'[h].hours = n /\ req'[h].changing = req[h].changing
    BY <1>1, <1>3, <2>1 DEF Goto, TypeOK, EditRequest
  <2>3. pc = "edit_write" => OtherTotal(u, d, e)' + n <= DailyMax
    <3>1. entry' = entry
      BY <1>3
    <3>2. OtherTotal(u, d, e)' = OtherTotal(u, d, e)
      BY <3>1, SumsStay
    <3> QED
      BY <1>3, <3>2
  <2>4. pc = "edit_write" =>
          (OtherTotal(req[h].row.owner, req[h].row.day, req[h].id) + req[h].hours
              <= DailyMax)'
    BY <1>3, <2>2, <2>3
  <2>5. entry'[e] = req[h].row /\ (req[h].changing \/ n = req[h].row.hours)
    BY <1>1, <1>3 DEF Reads
  <2> QED
    BY <2>2, <2>4, <2>5 DEF Reads, EditPc
<1>4. CASE EditLoggable(h) \/ EditCapacity(h)
  <2>1. req[h] \in EditRequest /\ req[h].pc \in EditPc /\ entry' = entry
    BY <1>1, <1>4, PcTellsRequest DEF EditLoggable, EditCapacity, At, EditPc
  <2>2. PICK u, d, e, n : /\ u = req[h].row.owner /\ d = req[h].row.day
                          /\ e = req[h].id /\ n = req[h].hours
    OBVIOUS
  <2>3. CASE Finish(h)
    BY <1>1, <2>3, FinishReads
  <2>4. CASE EditCapacity(h) /\ ~Finish(h)
    <3>1. Goto(h, "edit_write") /\ "edit_write" \in EditPc
      BY <2>4 DEF EditCapacity, EditPc
    <3>2. OtherTotal(u, d, e) + n <= DailyMax
      BY <2>2, <2>4 DEF EditCapacity, OtherTotal
    <3> QED
      BY <1>3, <2>1, <2>2, <3>1, <3>2
  <2>5. CASE EditLoggable(h) /\ ~Finish(h) /\ req[h].changing
    <3>1. Goto(h, "edit_capacity") /\ "edit_capacity" \in EditPc
      BY <2>5 DEF EditLoggable, EditPc
    <3> QED
      BY <1>3, <2>1, <2>2, <3>1
(* Hours that stay fit the day, as they did before.                         *)
  <2>6. CASE EditLoggable(h) /\ ~Finish(h) /\ ~req[h].changing
    <3>1. Goto(h, "edit_write") /\ "edit_write" \in EditPc
      BY <2>6 DEF EditLoggable, EditPc
    <3>2. entry[e] = req[h].row /\ n = entry[e].hours /\ e \in Entry
      BY <1>1, <2>1, <2>2, <2>6 DEF Reads, EditRequest
    <3>3. entry[e].status \in Editable
      BY <2>1, <3>2 DEF SerialInv, IInv, Safe, HandlersKnowWell, KnowsWell
    <3>4. e \in Live
      BY <3>2, <3>3 DEF Live, Editable, Status, Verdict
    <3> DEFINE S == DayRows(u, d)
    <3>5. u \in User /\ d \in Day /\ e \in S
      BY <1>1, <2>2, <3>2, <3>4, RowHours DEF DayRows
    <3>6. S \in SUBSET Live
      BY DEF DayRows
    <3>7. IsFiniteSet(S) /\ \A f \in S : entry[f].hours \in Nat
      BY <1>1, <3>6, DayRowsTotal
    <3>8. Total(entry, S) = n + Total(entry, S \ {e})
      BY <3>2, <3>5, <3>7, TotalTakesOut
    <3>9. Total(entry, S \ {e}) \in Nat /\ n \in Nat
      BY <1>1, <3>2, <3>5, <3>6, <3>7, DayRowsTotal
    <3>10. Total(entry, S) <= DailyMax
      BY <1>1, <3>5, DayTotals DEF DailyCap
    <3> DEFINE rest == Total(entry, S \ {e})
    <3>11. rest + n <= DailyMax
      <4>1. Total(entry, S) = n + rest /\ rest \in Nat
        BY <3>8, <3>9
      <4> HIDE DEF rest, S
      <4> QED
        BY <3>9, <3>10, <4>1
    <3>12. OtherTotal(u, d, e) = rest
      BY DEF OtherTotal, DayTotal, Total
    <3> QED
      BY <1>3, <2>1, <2>2, <3>1, <3>11, <3>12
  <2> QED
    BY <1>4, <2>3, <2>4, <2>5, <2>6
<1>5. CASE EditWrite(h)
  BY <1>1, <1>5, FinishReads DEF EditWrite
<1> QED
  BY <1>2, <1>4, <1>5 DEF EditStep

LEMMA OtherReads ==
    ASSUME SerialInv, NEW h \in Handler, DeleteStep(h) \/ SubmitStep(h) \/ DecideStep(h)
    PROVE  Reads(h)'
<1>1. TypeOK
  BY DEF SerialInv, IInv
<1>2. ASSUME NEW e \in Entry, DeleteRead(h, e)
      PROVE  Reads(h)'
  <2>1. /\ req'[h].pc = "delete_write" /\ req'[h].id = e /\ entry' = entry
        /\ entry[e].status \in Editable
    BY <1>1, <1>2 DEF DeleteRead, Start, TypeOK
  <2> QED
    BY <2>1 DEF Reads, EditPc
<1>3. ASSUME NEW u \in User, NEW w \in Week, NEW s \in Editable, SubmitRead(h, u, w, s)
      PROVE  Reads(h)'
  <2>1. PICK S : S = WeekRows(u, w, s)
    OBVIOUS
  <2>2. req'[h].pc = "submit_write" /\ req'[h].rows = S /\ entry' = entry /\ S # {}
    BY <1>1, <1>3, <2>1 DEF SubmitRead, Start, TypeOK
  <2>3. RowsAre(S, u, s)
    BY <2>1, <2>2 DEF RowsAre, WeekRows
  <2>4. RowsAre(req[h].rows, u, s)'
    BY <2>2, <2>3 DEF RowsAre, Live
  <2> QED
    BY <2>2, <2>4 DEF Reads, EditPc
<1>4. ASSUME NEW r \in User, NEW u \in User, NEW w \in Week, NEW v \in Verdict,
             DecideRead(h, r, u, w, v)
      PROVE  Reads(h)'
  <2>1. PICK S : S = {e \in WeekRows(u, w, "Submitted") :
                          ProjectOf[entry[e].task] \in Scope[r]}
    OBVIOUS
  <2>2. /\ req'[h].pc = "decide_commit" /\ req'[h].rows = S /\ req'[h].reviewer = r
        /\ entry' = entry /\ S # {} /\ u # r
    BY <1>1, <1>4, <2>1 DEF DecideRead, Start, TypeOK
  <2>3. RowsAre(S, u, "Submitted")
    BY <2>1, <2>2 DEF RowsAre, WeekRows
  <2>4. RowsAre(req[h].rows, u, "Submitted")'
    BY <2>2, <2>3 DEF RowsAre, Live
  <2> QED
    BY <2>2, <2>4 DEF Reads, EditPc
<1>5. CASE DeleteWrite(h) \/ SubmitNotify(h) \/ DecideNotify(h)
  BY <1>1, <1>5, FinishReads DEF DeleteWrite, SubmitNotify, DecideNotify
<1>6. CASE SubmitWrite(h)
  <2>1. req[h] \in SubmitRequest
    BY <1>1, <1>6, PcTellsRequest DEF SubmitWrite, At, SubmitPc
  <2>2. req'[h].pc = "submit_notify"
    BY <1>1, <1>6, <2>1 DEF SubmitWrite, Goto, TypeOK, SubmitRequest
  <2> QED
    BY <2>2, NothingRead DEF EditPc
<1>7. CASE DecideCommit(h)
  <2>1. req[h] \in DecideRequest
    BY <1>1, <1>7, PcTellsRequest DEF DecideCommit, At, DecidePc
  <2>2. CASE ~Finish(h)
    <3>1. \/ req'[h] = [req[h] EXCEPT !.pc = "decide_push", !.unpushed = req[h].rows]
          \/ req'[h] = [req[h] EXCEPT !.pc = "decide_notify"]
      BY <1>1, <1>7, <2>2 DEF DecideCommit, TypeOK
    <3>2. req'[h].pc \in {"decide_push", "decide_notify"}
      BY <2>1, <3>1 DEF DecideRequest
    <3> QED
      BY <3>2, NothingRead DEF EditPc
  <2> QED
    BY <1>1, <2>2, FinishReads
<1>8. ASSUME NEW e \in Entry, DecidePush(h, e)
      PROVE  Reads(h)'
  <2>1. req[h] \in DecideRequest /\ req[h].pc = "decide_push"
    BY <1>1, <1>8, PcTellsRequest DEF DecidePush, At, DecidePc
  <2>2. req'[h].pc \in {"decide_push", "decide_notify"}
    BY <1>1, <1>8, <2>1 DEF DecidePush, TypeOK, DecideRequest
  <2> QED
    BY <2>2, NothingRead DEF EditPc
<1> QED
  BY <1>2, <1>3, <1>4, <1>5, <1>6, <1>7, <1>8 DEF DeleteStep, SubmitStep, DecideStep

-----------------------------------------------------------------------------
(* A step either leaves the rows and the decisions or is one of the writes. *)
LEMMA WritesAreLifecycle ==
    ASSUME SerialInv, NEW h \in Handler,
           CreateStep(h) \/ EditStep(h) \/ DeleteStep(h) \/ SubmitStep(h) \/ DecideStep(h)
    PROVE  /\ DailyCap' /\ IsFiniteSet(Live')
           /\ Lifecycle!Next \/ UNCHANGED <<entry, decisions>>
<1>1. CASE UNCHANGED <<entry, decisions>>
  BY <1>1, RowsUntouched
<1>2. CASE CreateInsert(h)
  <2>1. CASE entry' # entry
    BY <1>2, <2>1, InsertIsLog
  <2>2. CASE entry' = entry
    BY <1>1, <1>2, <2>2 DEF CreateInsert
  <2> QED
    BY <2>1, <2>2
<1>3. CASE EditWrite(h)
  BY <1>3, EditIsRevise
<1>4. CASE DeleteWrite(h)
  <2>1. CASE entry' # entry
    BY <1>4, <2>1, DeleteIsRemove
  <2>2. CASE entry' = entry
    BY <1>1, <1>4, <2>2 DEF DeleteWrite
  <2> QED
    BY <2>1, <2>2
<1>5. CASE SubmitWrite(h)
  BY <1>5, SubmitIsSubmit
<1>6. CASE DecideCommit(h)
  <2>1. CASE req[h].rows \subseteq Live
    BY <1>6, <2>1, CommitIsDecide
  <2>2. CASE ~(req[h].rows \subseteq Live)
    BY <1>1, <1>6, <2>2 DEF DecideCommit
  <2> QED
    BY <2>1, <2>2
<1>7. CASE ~(CreateInsert(h) \/ EditWrite(h) \/ DeleteWrite(h) \/ SubmitWrite(h) \/ DecideCommit(h))
  <2>1. UNCHANGED <<entry, decisions>>
    BY <1>7 DEF CreateStep, CreateStart, CreateLoggable, CreateCapacity, EditStep, EditRead,
                EditLoggable, EditCapacity, DeleteStep, DeleteRead, SubmitStep, SubmitRead,
                SubmitNotify, DecideStep, DecideRead, DecidePush, DecideNotify
  <2> QED
    BY <1>1, <2>1
<1> QED
  BY <1>2, <1>3, <1>4, <1>5, <1>6, <1>7

LEMMA SerialStep ==
    ASSUME NEW only, Handler = {only}, SerialInv, [Next]_vars
    PROVE  SerialInv' /\ [Lifecycle!Next]_Lifecycle!vars
<1>1. IInv' /\ only \in Handler
  BY StepSafe DEF SerialInv
<1>2. SUFFICES /\ DailyCap' /\ IsFiniteSet(Live') /\ Reads(only)'
               /\ Lifecycle!Next \/ UNCHANGED <<entry, decisions>>
  <2>1. UNCHANGED <<entry, decisions>> => UNCHANGED Lifecycle!vars
    BY DEF Lifecycle!vars
  <2> QED
    BY <1>1, <1>2, <2>1 DEF SerialInv
<1>3. CASE CreateStep(only) \/ EditStep(only) \/ DeleteStep(only) \/ SubmitStep(only)
              \/ DecideStep(only)
  <2>1. Reads(only)'
    BY <1>1, <1>3, CreateReads, EditReads, OtherReads
  <2> QED
    BY <1>1, <1>3, <2>1, WritesAreLifecycle
<1>4. CASE Abort(only)
  <2>1. Reads(only)' /\ UNCHANGED <<entry, decisions>>
    BY <1>1, <1>4, FinishReads DEF Abort, SerialInv, IInv
  <2> QED
    BY <2>1, RowsUntouched
<1>5. CASE UNCHANGED <<entry, decisions, req>>
  <2>1. Reads(only)'
    <3>1. Reads(only) /\ Live' = Live
      BY <1>1, <1>5 DEF SerialInv, Live
    <3>2. PICK r : r = req[only] /\ r = req'[only]
      BY <1>5
    <3>3. /\ DayTotal(DayRows(r.owner, r.day))' = DayTotal(DayRows(r.owner, r.day))
          /\ OtherTotal(r.row.owner, r.row.day, r.id)'
                = OtherTotal(r.row.owner, r.row.day, r.id)
      <4>1. PICK u, d, v, c, e : /\ u = r.owner /\ d = r.day
                                 /\ v = r.row.owner /\ c = r.row.day /\ e = r.id
        OBVIOUS
      <4>2. /\ DayTotal(DayRows(u, d))' = DayTotal(DayRows(u, d))
            /\ OtherTotal(v, c, e)' = OtherTotal(v, c, e)
        BY <1>5, SumsStay
      <4> QED
        BY <4>1, <4>2
    <3>4. \A S, u, s : RowsAre(S, u, s)' <=> RowsAre(S, u, s)
      BY <1>5, <3>1 DEF RowsAre
    <3> QED
      BY <1>5, <3>1, <3>2, <3>3, <3>4 DEF Reads
  <2> QED
    BY <1>5, <2>1, RowsUntouched
<1> QED
  <2>1. CASE \E t \in Task : ChangeLoggable(t)
    BY <1>5, <2>1 DEF ChangeLoggable
  <2>2. CASE UNCHANGED vars
    BY <1>5, <2>2 DEF vars
  <2> QED
    BY <1>1, <1>3, <1>4, <2>1, <2>2 DEF Next

LEMMA SerialInit ==
    ASSUME NEW only, Handler = {only}, Init
    PROVE  SerialInv /\ Lifecycle!Init
<1>1. IInv
  BY InitSafe
<1>2. Live = {} /\ IsFiniteSet(Live)
  BY FS_EmptySet DEF Init, Live, Free, Status, Verdict
<1>3. DailyCap
  <2> SUFFICES ASSUME NEW u \in User, NEW d \in Day
               PROVE  DayTotal(DayRows(u, d)) <= DailyMax
    BY DEF DailyCap
  <2>1. DayRows(u, d) = {}
    BY <1>2 DEF DayRows
  <2>2. Total(entry, DayRows(u, d)) = 0
    BY <1>2, <2>1, TotalUnfolds
  <2> QED
    BY <2>2, DayTotals, HoursType
<1>4. \A h \in Handler : Reads(h)
  BY DEF Init, Idle, Reads, EditPc
<1>5. Lifecycle!Init
  BY DEF Init, Lifecycle!Init, Free
<1> QED
  BY <1>1, <1>2, <1>3, <1>4, <1>5 DEF SerialInv

(* Served one at a time, with failures at any step, the requests never let  *)
(* a person's day exceed the maximum: the capacity check of createEntry and *)
(* of updateEntry is right, it only lacks a lock.                           *)
THEOREM SerialDailyCap ==
    ASSUME NEW only, Handler = {only}
    PROVE  Spec => []DailyCap
<1>1. Init => SerialInv
  BY SerialInit
<1>2. SerialInv /\ [Next]_vars => SerialInv'
  BY SerialStep
<1>3. SerialInv => DailyCap
  BY DEF SerialInv
<1> QED
  BY <1>1, <1>2, <1>3, PTL DEF Spec

(* Served one at a time, every write of the services is an operation of the *)
(* promised life cycle, made in one step.                                   *)
THEOREM SerialImplementsLifecycle ==
    ASSUME NEW only, Handler = {only}
    PROVE  Spec => ImplementsLifecycle
<1>1. Init => SerialInv /\ Lifecycle!Init
  BY SerialInit
<1>2. SerialInv /\ [Next]_vars => SerialInv' /\ [Lifecycle!Next]_Lifecycle!vars
  BY SerialStep
<1> QED
  BY <1>1, <1>2, PTL DEF Spec, ImplementsLifecycle, Lifecycle!Spec
=============================================================================
