------------------------- MODULE TaskProgress_proof -------------------------
(***************************************************************************)
(* Proofs about TaskProgress, for any people, any number of submissions    *)
(* and any percentage that counts as full.                                 *)
(***************************************************************************)
EXTENDS TaskProgress, WellFoundedInduction, TLAPS

ReviewPc == {"mark"} \cup InTransaction

(* What a request carries from one step to the next: a review names a row   *)
(* that exists, the totals it is about to write back are real, and those of *)
(* a submission are real once its row is there.                             *)
CarriesReal(h) ==
    LET r == req[h] IN
    /\ r.pc \in ReviewPc => r.update \in Live
    /\ r.pc = "submit_write" => r.pending \in PercentsOf(Live) \cup {r.percent, 0}
    /\ r.pc \in {"read_pending", "review_write"} =>
          \/ r.approved \in earned
          \/ r.decision = "Approved" /\ r.approved = updates[r.update].percent
    /\ r.pc = "review_write" => r.pending \in PercentsOf(Live) \cup {0}

IInv ==
    /\ TypeOK
    /\ \A h \in Handler : CarriesReal(h)
    /\ TotalsAreReal

-----------------------------------------------------------------------------
(* A set of percentages that is not empty has a greatest element.           *)
LEMMA MaxOfPercents ==
    ASSUME NEW S \in SUBSET Percent, S # {}
    PROVE  Max(S) \in S /\ \A n \in S : n <= Max(S)
<1> DEFINE D == {Full - n : n \in S}
<1>1. PICK s \in S : TRUE
  OBVIOUS
<1>2. D \in SUBSET Nat /\ Full - s \in D
  BY <1>1, ProgressAssumption DEF Percent
<1>3. PICK d \in D : \A k \in D : <<k, d>> \notin OpToRel(<, Nat)
  BY <1>2, NatLessThanWellFounded, WFMin
<1>4. PICK m \in S : d = Full - m
  OBVIOUS
<1>5. ASSUME NEW n \in S
      PROVE  m >= n
  <2>1. Full - n \in D /\ Full - n \in Nat /\ d \in Nat
    BY <1>2
  <2>2. ~(Full - n < d)
    BY <1>3, <2>1 DEF OpToRel
  <2> QED
    BY <1>4, <2>1, <2>2, ProgressAssumption DEF Percent
<1>6. Max(S) \in S /\ \A n \in S : Max(S) >= n
  BY <1>5 DEF Max
<1> QED
  BY <1>6, ProgressAssumption DEF Percent

(* maxPendingProgressPercent returns one of the claims, or 0, and none is   *)
(* above it.                                                                *)
LEMMA HighestOfPercents ==
    ASSUME NEW S \in SUBSET Percent
    PROVE  /\ Highest(S) \in Percent
           /\ Highest(S) \in S \cup {0}
           /\ \A n \in S : n <= Highest(S)
<1>1. S \cup {0} \in SUBSET Percent /\ S \cup {0} # {}
  BY ProgressAssumption DEF Percent
<1> QED
  BY <1>1, MaxOfPercents DEF Highest

LEMMA MaxOfTwo ==
    ASSUME NEW a \in Percent, NEW b \in Percent
    PROVE  /\ Max({a, b}) \in {a, b}
           /\ a <= Max({a, b}) /\ b <= Max({a, b})
           /\ Max({a, b}) = IF b > a THEN b ELSE a
<1>1. /\ Max({a, b}) \in {a, b}
      /\ a <= Max({a, b}) /\ b <= Max({a, b})
  BY MaxOfPercents, {a, b} \in SUBSET Percent, {a, b} # {}
<1>2. a \in Int /\ b \in Int
  BY ProgressAssumption DEF Percent
<1> QED
  BY <1>1, <1>2

LEMMA WaitingPercents ==
    ASSUME TypeOK, NEW U \in SUBSET Waiting
    PROVE  PercentsOf(U) \in SUBSET (1..Full) /\ PercentsOf(U) \in SUBSET Percent
BY ProgressAssumption DEF TypeOK, Waiting, PercentsOf, Row, Free, Percent

LEMMA LiveIsRow ==
    ASSUME TypeOK, NEW u \in Live
    PROVE  u \in Update /\ updates[u] \in Row /\ updates[u].percent \in Percent
BY ProgressAssumption DEF TypeOK, Live, Row, Percent

(* The program counter of a handler tells which request it serves.          *)
LEMMA PcTellsRequest ==
    ASSUME TypeOK, NEW h \in Handler
    PROVE  /\ At(h, "idle") => req[h] = Idle
           /\ At(h, "floor") =>
                 req[h] \in [pc: {"floor"}, by: Person, increment: 1..Full, base: Percent]
           /\ req[h].pc \in {"create", "submit_write"} =>
                 req[h] \in [pc: {"create", "submit_write"}, by: Person,
                             percent: 1..Full, pending: Percent]
           /\ req[h].pc \in ReviewPc => req[h] \in ReviewRequest
           /\ At(h, "status_write") => req[h] \in StatusRequest
<1>1. req[h] \in SubmitRequest \cup ReviewRequest \cup StatusRequest \cup {Idle}
  BY DEF TypeOK
<1> QED
  BY <1>1 DEF Idle, SubmitRequest, ReviewRequest, StatusRequest, At, ReviewPc,
              InTransaction

-----------------------------------------------------------------------------
(* Type correctness.                                                        *)

LEMMA TypeInit == Init => TypeOK
BY ProgressAssumption DEF Init, TypeOK, Percent

LEMMA SubmitStepType ==
    ASSUME TypeOK, NEW h \in Handler, SubmitStep(h)
    PROVE  TypeOK'
<1>1. ASSUME NEW p \in Person, NEW n \in 1..Full, SubmitLoad(h, p, n)
      PROVE  TypeOK'
  BY <1>1 DEF SubmitLoad, Become, task, TypeOK, SubmitRequest
<1>2. CASE SubmitFloor(h)
  <2> DEFINE r == req[h]
             floor == Max({r.base, Highest(PercentsOf(Waiting))})
  <2>1. r \in [pc: {"floor"}, by: Person, increment: 1..Full, base: Percent]
    BY <1>2, PcTellsRequest DEF SubmitFloor
  <2>2. floor \in Percent
    BY <2>1, WaitingPercents, HighestOfPercents, MaxOfTwo
  <2>3. CASE r.increment <= Full - floor
    <3>1. floor + r.increment \in 1..Full /\ 0 \in Percent
      BY <2>1, <2>2, <2>3, ProgressAssumption DEF Percent
    <3>2. req' = [req EXCEPT ![h] = [pc |-> "create", by |-> r.by,
                                     percent |-> floor + r.increment, pending |-> 0]]
      BY <1>2, <2>3 DEF SubmitFloor, Become
    <3>3. [pc |-> "create", by |-> r.by, percent |-> floor + r.increment, pending |-> 0]
             \in SubmitRequest
      BY <2>1, <3>1 DEF SubmitRequest
    <3> QED
      BY <1>2, <3>2, <3>3 DEF SubmitFloor, task, TypeOK
  <2>4. CASE ~(r.increment <= Full - floor)
    BY <1>2, <2>4 DEF SubmitFloor, Finish, Become, task, TypeOK
  <2> QED
    BY <2>3, <2>4
<1>3. CASE SubmitCreate(h)
  <2> DEFINE r == req[h]
  <2>1. r \in [pc: {"create", "submit_write"}, by: Person, percent: 1..Full, pending: Percent]
    BY <1>3, PcTellsRequest DEF SubmitCreate, At
  <2>2. PercentsOf(Waiting) \cup {r.percent} \in SUBSET Percent
    BY <2>1, WaitingPercents, ProgressAssumption DEF Percent
  <2>3. Highest(PercentsOf(Waiting) \cup {r.percent}) \in Percent
    BY <2>2, HighestOfPercents
  <2> QED
    BY <1>3, <2>1, <2>3 DEF SubmitCreate, Become, task, TypeOK, SubmitRequest
<1>4. ASSUME NEW u \in Update, SubmitWrite(h, u)
      PROVE  TypeOK'
  <2>1. req[h] \in [pc: {"create", "submit_write"}, by: Person, percent: 1..Full,
                    pending: Percent]
    BY <1>4, PcTellsRequest DEF SubmitWrite, At
  <2> QED
    BY <1>4, <2>1 DEF SubmitWrite, Finish, Become, TypeOK, Row, Status
<1> QED
  BY <1>1, <1>2, <1>3, <1>4 DEF SubmitStep

LEMMA ReviewStepType ==
    ASSUME IInv, NEW h \in Handler, ReviewStep(h)
    PROVE  TypeOK'
<1> DEFINE r == req[h]
<1>0. 0 \in Percent /\ TypeOK
  BY ProgressAssumption DEF Percent, IInv
<1>1. ASSUME NEW u \in Update, NEW p \in Person, NEW d \in Decision, ReviewFind(h, u, p, d)
      PROVE  TypeOK'
  BY <1>0, <1>1 DEF ReviewFind, Become, task, TypeOK, ReviewRequest
<1>2. CASE ReviewMark(h)
  <2>1. r \in ReviewRequest
    BY <1>0, <1>2, PcTellsRequest DEF ReviewMark, At, ReviewPc
  <2> QED
    BY <1>0, <1>2, <2>1 DEF ReviewMark, Become, task, TypeOK, ReviewRequest
<1>3. CASE ReviewReadTask(h)
  <2> DEFINE official == IF r.decision = "Approved"
                            THEN Max({approved, updates[r.update].percent}) ELSE approved
  <2>1. r \in ReviewRequest
    BY <1>0, <1>3, PcTellsRequest DEF ReviewReadTask, At, ReviewPc, InTransaction
  <2>2. r.update \in Live
    BY <1>3 DEF IInv, CarriesReal, ReviewReadTask, At, ReviewPc, InTransaction
  <2>3. official \in Percent
    <3>1. approved \in Percent /\ updates[r.update].percent \in Percent
      BY <1>0, <2>2, LiveIsRow DEF TypeOK
    <3>2. Max({approved, updates[r.update].percent}) \in {approved, updates[r.update].percent}
      BY <3>1, MaxOfTwo
    <3> QED
      BY <3>1, <3>2
  <2>4. req' = [req EXCEPT ![h] = [r EXCEPT !.pc = "read_pending", !.approved = official]]
    BY <1>3 DEF ReviewReadTask, Become
  <2> HIDE DEF official
  <2>5. [r EXCEPT !.pc = "read_pending", !.approved = official] \in ReviewRequest
    BY <2>1, <2>3 DEF ReviewRequest
  <2> QED
    BY <1>0, <1>3, <2>4, <2>5 DEF ReviewReadTask, task, TypeOK
<1>4. CASE ReviewReadPending(h)
  <2>1. r \in ReviewRequest
    BY <1>0, <1>4, PcTellsRequest DEF ReviewReadPending, At, ReviewPc, InTransaction
  <2>2. Highest(PercentsOf(Waiting \ {r.update})) \in Percent
    BY <1>0, WaitingPercents, HighestOfPercents
  <2> QED
    BY <1>0, <1>4, <2>1, <2>2 DEF ReviewReadPending, Become, task, TypeOK, ReviewRequest
<1>5. CASE ReviewWrite(h)
  <2>1. r \in ReviewRequest
    BY <1>0, <1>5, PcTellsRequest DEF ReviewWrite, At, ReviewPc, InTransaction
  <2>2. r.update \in Live
    BY <1>5 DEF IInv, CarriesReal, ReviewWrite, At, ReviewPc, InTransaction
  <2>3. updates[r.update] \in Row /\ updates[r.update].percent \in Percent
    BY <1>0, <2>2, LiveIsRow
  <2>4. updates' \in [Update -> Row \cup {Free}]
    BY <1>0, <1>5, <2>1, <2>3 DEF ReviewWrite, TypeOK, Row, ReviewRequest
  <2> QED
    BY <1>0, <1>5, <2>1, <2>3, <2>4
    DEF ReviewWrite, Finish, Become, TypeOK, ReviewRequest, StatusAfter, Status
<1> QED
  BY <1>1, <1>2, <1>3, <1>4, <1>5 DEF ReviewStep

LEMMA UpdateStepType ==
    ASSUME TypeOK, NEW h \in Handler, UpdateStep(h)
    PROVE  TypeOK'
<1>1. ASSUME NEW s \in Status, StatusRead(h, s)
      PROVE  TypeOK'
  BY <1>1 DEF StatusRead, Become, task, TypeOK, StatusRequest
<1>2. CASE StatusWrite(h)
  <2>1. req[h] \in StatusRequest
    BY <1>2, PcTellsRequest DEF StatusWrite
  <2> QED
    BY <1>2, <2>1 DEF StatusWrite, Finish, Become, TypeOK, StatusRequest
<1>3. ASSUME NEW n \in Percent, EditProgress(h, n)
      PROVE  TypeOK'
  BY <1>3 DEF EditProgress, TypeOK
<1> QED
  BY <1>1, <1>2, <1>3 DEF UpdateStep

LEMMA TypeStep == IInv /\ [Next]_vars => TypeOK'
<1> SUFFICES ASSUME IInv, [Next]_vars
             PROVE  TypeOK'
  OBVIOUS
<1>1. ASSUME NEW h \in Handler, SubmitStep(h) \/ ReviewStep(h) \/ UpdateStep(h)
      PROVE  TypeOK'
  BY <1>1, SubmitStepType, ReviewStepType, UpdateStepType DEF IInv
<1>2. ASSUME NEW h \in Handler, Abort(h)
      PROVE  TypeOK'
  BY <1>2 DEF Abort, Finish, Become, task, TypeOK, IInv
<1>3. CASE UNCHANGED vars
  BY <1>3 DEF vars, task, TypeOK, IInv
<1> QED
  BY <1>1, <1>2, <1>3 DEF Next

-----------------------------------------------------------------------------
(* The totals are real, whatever is in flight.                              *)

(* Rows keep their claims, and history only grows.                          *)
Grows ==
    /\ \A u \in Live : u \in Live' /\ updates'[u].percent = updates[u].percent
    /\ earned \subseteq earned'

LEMMA UnchangedGrows == UNCHANGED <<updates, earned>> => Grows
BY DEF Grows, Live

(* What a request carries stays real while others go on.                    *)
LEMMA Frame ==
    ASSUME Grows, NEW g \in Handler, CarriesReal(g), req'[g] = req[g]
    PROVE  CarriesReal(g)'
<1>1. PercentsOf(Live) \subseteq PercentsOf(Live)'
  BY DEF Grows, PercentsOf
<1>2. CASE req[g].pc \in ReviewPc
  <2>1. req[g].update \in Live
    BY <1>2 DEF CarriesReal
  <2> QED
    BY <1>1, <1>2, <2>1 DEF Grows, CarriesReal, ReviewPc, InTransaction
<1>3. CASE req[g].pc \notin ReviewPc
  BY <1>1, <1>3 DEF CarriesReal, ReviewPc, InTransaction
<1> QED
  BY <1>2, <1>3

(* So a step has to be looked at in its own handler only.                   *)
LEMMA OwnStep ==
    ASSUME IInv, TypeOK', Grows, NEW h \in Handler, CarriesReal(h)',
           \A g \in Handler \ {h} : req'[g] = req[g],
           approved' \in earned', pending' \in PercentsOf(Live)' \cup {0}
    PROVE  IInv'
<1>1. ASSUME NEW g \in Handler
      PROVE  CarriesReal(g)'
  BY <1>1, Frame DEF IInv
<1> QED
  BY <1>1 DEF IInv, TotalsAreReal

LEMMA TotalsKept ==
    ASSUME IInv, Grows, approved' = approved, pending' = pending
    PROVE  approved' \in earned' /\ pending' \in PercentsOf(Live)' \cup {0}
BY DEF IInv, TotalsAreReal, Grows, PercentsOf

LEMMA WaitingIsLive == TypeOK => Waiting \subseteq Live
BY DEF TypeOK, Waiting, Live, Free

LEMMA SubmitStepReal ==
    ASSUME IInv, TypeOK', NEW h \in Handler, SubmitStep(h)
    PROVE  IInv'
<1>0. TypeOK /\ \A g \in Handler \ {h} : req'[g] = req[g]
  BY DEF IInv, TypeOK, SubmitStep, SubmitLoad, SubmitFloor, SubmitCreate, SubmitWrite,
         Become, Finish
<1>1. ASSUME NEW p \in Person, NEW n \in 1..Full, SubmitLoad(h, p, n)
      PROVE  IInv'
  <2>1. req'[h].pc = "floor"
    BY <1>0, <1>1 DEF SubmitLoad, Become, TypeOK
  <2>2. CarriesReal(h)'
    BY <2>1 DEF CarriesReal, ReviewPc, InTransaction
  <2> QED
    BY <1>0, <1>1, <2>2, UnchangedGrows, TotalsKept, OwnStep DEF SubmitLoad, task
<1>2. CASE SubmitFloor(h)
  <2>1. req'[h].pc \in {"create", "idle"}
    BY <1>0, <1>2 DEF SubmitFloor, Become, Finish, Idle, TypeOK
  <2>2. CarriesReal(h)'
    BY <2>1 DEF CarriesReal, ReviewPc, InTransaction
  <2> QED
    BY <1>0, <1>2, <2>2, UnchangedGrows, TotalsKept, OwnStep DEF SubmitFloor, task
<1>3. CASE SubmitCreate(h)
  <2> DEFINE r == req[h]
             claims == PercentsOf(Waiting) \cup {r.percent}
  <2>1. r \in [pc: {"create", "submit_write"}, by: Person, percent: 1..Full, pending: Percent]
    BY <1>0, <1>3, PcTellsRequest DEF SubmitCreate, At
  <2>2. claims \in SUBSET Percent
    BY <1>0, <2>1, WaitingPercents, ProgressAssumption DEF Percent
  <2>3. Highest(claims) \in claims \cup {0}
    BY <2>2, HighestOfPercents
  <2>4. claims \subseteq PercentsOf(Live) \cup {r.percent}
    BY <1>0, WaitingIsLive DEF PercentsOf
  <2>5. req'[h] = [r EXCEPT !.pc = "submit_write", !.pending = Highest(claims)]
    BY <1>0, <1>3 DEF SubmitCreate, Become, TypeOK
  <2>6. /\ req'[h].pc = "submit_write" /\ req'[h].percent = r.percent
        /\ req'[h].pending = Highest(claims)
    BY <2>1, <2>5
  <2>7. PercentsOf(Live)' = PercentsOf(Live)
    BY <1>3 DEF SubmitCreate, PercentsOf, Live
  <2>8. CarriesReal(h)'
    BY <2>3, <2>4, <2>6, <2>7 DEF CarriesReal, ReviewPc, InTransaction
  <2> QED
    BY <1>0, <1>3, <2>8, UnchangedGrows, TotalsKept, OwnStep DEF SubmitCreate, task
<1>4. ASSUME NEW u \in Update, SubmitWrite(h, u)
      PROVE  IInv'
  <2> DEFINE r == req[h]
  <2>1. req'[h].pc = "idle"
    BY <1>0, <1>4 DEF SubmitWrite, Finish, Become, Idle, TypeOK
  <2>2. CarriesReal(h)'
    BY <2>1 DEF CarriesReal, ReviewPc, InTransaction
  <2>3. /\ updates'[u].percent = r.percent /\ u \in Live'
        /\ \A v \in Live : v # u /\ updates'[v] = updates[v]
    BY <1>0, <1>4 DEF SubmitWrite, Live, Free, TypeOK
  <2>4. Grows
    BY <1>4, <2>3 DEF Grows, SubmitWrite, Live
  <2>5. r.pending \in PercentsOf(Live) \cup {r.percent, 0}
    BY <1>4 DEF IInv, CarriesReal, SubmitWrite, At
  <2>6. pending' \in PercentsOf(Live)' \cup {0}
    BY <1>4, <2>3, <2>4, <2>5 DEF Grows, PercentsOf, SubmitWrite
  <2>7. approved' \in earned'
    BY <1>4 DEF SubmitWrite, IInv, TotalsAreReal
  <2> QED
    BY <1>0, <2>2, <2>4, <2>6, <2>7, OwnStep
<1> QED
  BY <1>1, <1>2, <1>3, <1>4 DEF SubmitStep

LEMMA ReviewStepReal ==
    ASSUME IInv, TypeOK', NEW h \in Handler, ReviewStep(h)
    PROVE  IInv'
<1> DEFINE r == req[h]
<1>0. TypeOK /\ \A g \in Handler \ {h} : req'[g] = req[g]
  BY DEF IInv, TypeOK, ReviewStep, ReviewFind, ReviewMark, ReviewReadTask,
         ReviewReadPending, ReviewWrite, Become, Finish
<1>1. ASSUME NEW u \in Update, NEW p \in Person, NEW d \in Decision, ReviewFind(h, u, p, d)
      PROVE  IInv'
  <2>1. req'[h].pc = "mark" /\ req'[h].update = u
    BY <1>0, <1>1 DEF ReviewFind, Become, TypeOK
  <2>2. u \in Live'
    BY <1>0, <1>1, WaitingIsLive DEF ReviewFind, Live
  <2>3. CarriesReal(h)'
    BY <2>1, <2>2 DEF CarriesReal
  <2> QED
    BY <1>0, <1>1, <2>3, UnchangedGrows, TotalsKept, OwnStep DEF ReviewFind, task
<1>2. CASE ReviewMark(h)
  <2>1. r \in ReviewRequest /\ r.update \in Live
    BY <1>0, <1>2, PcTellsRequest DEF ReviewMark, At, ReviewPc, IInv, CarriesReal
  <2>2. req'[h] = [r EXCEPT !.pc = "read_task"]
    BY <1>0, <1>2 DEF ReviewMark, Become, TypeOK
  <2>3. req'[h].pc = "read_task" /\ req'[h].update = r.update /\ req'[h].reviewer = r.reviewer
    BY <2>1, <2>2 DEF ReviewRequest
  <2>4. CarriesReal(h)'
    BY <1>2, <2>1, <2>3 DEF CarriesReal, ReviewMark, Live
  <2> QED
    BY <1>0, <1>2, <2>4, UnchangedGrows, TotalsKept, OwnStep DEF ReviewMark, task
<1>3. CASE ReviewReadTask(h)
  <2> DEFINE official == IF r.decision = "Approved"
                            THEN Max({approved, updates[r.update].percent}) ELSE approved
  <2>1. r \in ReviewRequest /\ r.update \in Live
    BY <1>0, <1>3, PcTellsRequest
    DEF ReviewReadTask, At, ReviewPc, InTransaction, IInv, CarriesReal
  <2>2. /\ approved \in earned
        /\ approved \in Percent /\ updates[r.update].percent \in Percent
    BY <1>0, <2>1, LiveIsRow DEF IInv, TotalsAreReal, TypeOK
  <2>3. \/ official \in earned
        \/ r.decision = "Approved" /\ official = updates[r.update].percent
    BY <2>2, MaxOfTwo
  <2>4. req'[h] = [r EXCEPT !.pc = "read_pending", !.approved = official]
    BY <1>0, <1>3 DEF ReviewReadTask, Become, TypeOK
  <2> HIDE DEF official
  <2>5. /\ req'[h].pc = "read_pending" /\ req'[h].update = r.update
        /\ req'[h].approved = official /\ req'[h].decision = r.decision
    BY <2>1, <2>4 DEF ReviewRequest
  <2>6. CarriesReal(h)'
    BY <1>3, <2>1, <2>3, <2>5 DEF CarriesReal, ReviewReadTask, Live
  <2> QED
    BY <1>0, <1>3, <2>6, UnchangedGrows, TotalsKept, OwnStep DEF ReviewReadTask, task
<1>4. CASE ReviewReadPending(h)
  <2> DEFINE claims == PercentsOf(Waiting \ {r.update})
  <2>1. r \in ReviewRequest
    BY <1>0, <1>4, PcTellsRequest DEF ReviewReadPending, At, ReviewPc, InTransaction
  <2>2. /\ r.update \in Live
        /\ \/ r.approved \in earned
           \/ r.decision = "Approved" /\ r.approved = updates[r.update].percent
    BY <1>4 DEF ReviewReadPending, At, ReviewPc, InTransaction, IInv, CarriesReal
  <2>3. Highest(claims) \in claims \cup {0}
    BY <1>0, WaitingPercents, HighestOfPercents
  <2>4. claims \subseteq PercentsOf(Live)
    BY <1>0, WaitingIsLive DEF PercentsOf
  <2>5. req'[h] = [r EXCEPT !.pc = "review_write", !.pending = Highest(claims)]
    BY <1>0, <1>4 DEF ReviewReadPending, Become, TypeOK
  <2>6. /\ req'[h].pc = "review_write" /\ req'[h].update = r.update
        /\ req'[h].approved = r.approved /\ req'[h].decision = r.decision
        /\ req'[h].pending = Highest(claims)
    BY <2>1, <2>5 DEF ReviewRequest
  <2>7. updates' = updates /\ earned' = earned /\ PercentsOf(Live)' = PercentsOf(Live)
    BY <1>4 DEF ReviewReadPending, PercentsOf, Live
  <2>8. CarriesReal(h)'
    BY <2>2, <2>3, <2>4, <2>6, <2>7 DEF CarriesReal, Live
  <2> QED
    BY <1>0, <1>4, <2>8, UnchangedGrows, TotalsKept, OwnStep DEF ReviewReadPending, task
<1>5. CASE ReviewWrite(h)
  <2>1. r \in ReviewRequest
    BY <1>0, <1>5, PcTellsRequest DEF ReviewWrite, At, ReviewPc, InTransaction
  <2>2. /\ r.update \in Live
        /\ \/ r.approved \in earned
           \/ r.decision = "Approved" /\ r.approved = updates[r.update].percent
        /\ r.pending \in PercentsOf(Live) \cup {0}
    BY <1>5 DEF ReviewWrite, At, ReviewPc, InTransaction, IInv, CarriesReal
  <2>3. req'[h].pc = "idle"
    BY <1>0, <1>5 DEF ReviewWrite, Finish, Become, Idle, TypeOK
  <2>4. CarriesReal(h)'
    BY <2>3 DEF CarriesReal, ReviewPc, InTransaction
  <2>5. updates[r.update] \in Row
    BY <1>0, <2>2, LiveIsRow
  <2>6. \A u \in Live : updates'[u] # Free /\ updates'[u].percent = updates[u].percent
    <3> DEFINE row == [updates[r.update] EXCEPT !.state = r.decision,
                                                !.reviewedBy = {r.reviewer}]
    <3>1. updates' = [updates EXCEPT ![r.update] = row] /\ r.update \in Update
      BY <1>0, <1>5, <2>1 DEF ReviewWrite, TypeOK, ReviewRequest
    <3>2. row.state = r.decision /\ row.percent = updates[r.update].percent
      BY <2>5 DEF Row
    <3>3. row # Free
      BY <2>1, <3>2 DEF Free, ReviewRequest, Decision
    <3> HIDE DEF row
    <3>4. \A u \in Live : updates'[u] = IF u = r.update THEN row ELSE updates[u]
      BY <1>0, <3>1 DEF TypeOK, Live
    <3> QED
      BY <3>2, <3>3, <3>4 DEF Live
  <2>7. Grows
    BY <1>5, <2>6 DEF Grows, ReviewWrite, Live
  <2>8. approved' \in earned'
    BY <1>5, <2>2 DEF ReviewWrite
  <2>9. pending' \in PercentsOf(Live)' \cup {0}
    <3>1. pending' = r.pending
      BY <1>5 DEF ReviewWrite
    <3>2. PercentsOf(Live) \subseteq PercentsOf(Live)'
      BY <2>7 DEF Grows, PercentsOf
    <3> QED
      BY <2>2, <3>1, <3>2
  <2> QED
    BY <1>0, <2>4, <2>7, <2>8, <2>9, OwnStep
<1> QED
  BY <1>1, <1>2, <1>3, <1>4, <1>5 DEF ReviewStep

LEMMA UpdateStepReal ==
    ASSUME IInv, TypeOK', NEW h \in Handler, UpdateStep(h) \/ Abort(h)
    PROVE  IInv'
<1>0. TypeOK /\ updates' = updates /\ \A g \in Handler \ {h} : req'[g] = req[g]
  BY DEF IInv, TypeOK, UpdateStep, StatusRead, StatusWrite, EditProgress, Abort, Become,
         Finish
<1>1. ASSUME NEW n \in Percent, EditProgress(h, n)
      PROVE  IInv'
  <2>1. Grows /\ approved' \in earned' /\ req'[h] = req[h]
    BY <1>1 DEF EditProgress, Grows, Live
  <2>2. CarriesReal(h)'
    BY <2>1, Frame DEF IInv
  <2>3. pending' \in PercentsOf(Live)' \cup {0}
    BY <1>1, <2>1 DEF EditProgress, IInv, TotalsAreReal, Grows, PercentsOf
  <2> QED
    BY <1>0, <2>1, <2>2, <2>3, OwnStep
<1>2. ASSUME \/ \E s \in Status : StatusRead(h, s)
             \/ StatusWrite(h)
             \/ Abort(h)
      PROVE  IInv'
  <2>1. req'[h].pc \in {"status_write", "idle"}
    BY <1>0, <1>2 DEF StatusRead, StatusWrite, Abort, Become, Finish, Idle, TypeOK
  <2>2. CarriesReal(h)'
    BY <2>1 DEF CarriesReal, ReviewPc, InTransaction
  <2>3. UNCHANGED <<updates, approved, pending, earned>>
    BY <1>2 DEF StatusRead, StatusWrite, Abort, task
  <2> QED
    BY <1>0, <2>2, <2>3, UnchangedGrows, TotalsKept, OwnStep
<1> QED
  BY <1>1, <1>2 DEF UpdateStep

LEMMA RealInit == Init => IInv
<1> SUFFICES ASSUME Init
             PROVE  IInv
  OBVIOUS
<1>1. \A h \in Handler : req[h].pc = "idle"
  BY DEF Init, Idle
<1> QED
  BY <1>1, TypeInit DEF Init, IInv, CarriesReal, TotalsAreReal, ReviewPc, InTransaction

LEMMA RealStep == IInv /\ [Next]_vars => IInv'
<1> SUFFICES ASSUME IInv, [Next]_vars
             PROVE  IInv'
  OBVIOUS
<1>1. TypeOK'
  BY TypeStep
<1>2. CASE Next
  BY <1>1, <1>2, SubmitStepReal, ReviewStepReal, UpdateStepReal DEF Next
<1>3. CASE UNCHANGED vars
  <2>1. Grows /\ UNCHANGED <<req, approved, pending>>
    BY <1>3, UnchangedGrows DEF vars, task
  <2> QED
    BY <1>1, <2>1, Frame, TotalsKept DEF IInv, TotalsAreReal
<1> QED
  BY <1>2, <1>3

(* The rows, the totals and the requests have their types: a claim never    *)
(* exceeds 100 percent, whoever else submits meanwhile.                     *)
THEOREM TypeCorrect == Spec => []TypeOK
<1>1. IInv => TypeOK
  BY DEF IInv
<1> QED
  BY <1>1, RealInit, RealStep, PTL DEF Spec

(* With any number of requests in flight, the totals shown with the task    *)
(* come from creation, an edit, an approval or a submission.                *)
THEOREM TotalsStayReal == Spec => []TotalsAreReal
<1>1. IInv => TotalsAreReal
  BY DEF IInv
<1> QED
  BY <1>1, RealInit, RealStep, PTL DEF Spec

-----------------------------------------------------------------------------
(* One request at a time: nothing that a request has read has changed when  *)
(* it writes, so the requests implement the steps of the ledger.            *)

Top == Highest(PercentsOf(Waiting))
TopWithout(u) == Highest(PercentsOf(Waiting \ {u}))
OfficialAfter(u, decision) ==
    IF decision = "Approved" /\ updates[u].percent > approved
       THEN updates[u].percent ELSE approved
MayReview(p, u) == p # updates[u].by

FreshSubmit(h) ==
    /\ req[h].pc = "floor" => req[h].base = approved
    /\ req[h].pc \in {"floor", "create", "submit_write"} => status \in Submittable
    /\ req[h].pc \in {"create", "submit_write"} =>
          req[h].percent > approved /\ req[h].percent > Top
    /\ req[h].pc = "submit_write" => req[h].pending = req[h].percent

FreshReview(h) ==
    /\ req[h].pc \in ReviewPc =>
          req[h].update \in Waiting /\ MayReview(req[h].reviewer, req[h].update)
    /\ req[h].pc \in {"read_pending", "review_write"} =>
          req[h].approved = OfficialAfter(req[h].update, req[h].decision)
    /\ req[h].pc = "review_write" => req[h].pending = TopWithout(req[h].update)

FreshStatus(h) ==
    req[h].pc = "status_write" =>
        req[h].next = status \/ req[h].next \in LegalFrom[status]

Fresh(h) == FreshSubmit(h) /\ FreshReview(h) /\ FreshStatus(h)

SerialInv == IInv /\ PendingAgrees /\ \A h \in Handler : Fresh(h)

(* A claim above the others is the highest.                                 *)
LEMMA HighestWithClaim ==
    ASSUME NEW S \in SUBSET Percent, NEW n \in Percent, n > Highest(S)
    PROVE  Highest(S \cup {n}) = n
<1>1. S \cup {n} \in SUBSET Percent
  OBVIOUS
<1>2. /\ Highest(S \cup {n}) \in S \cup {n, 0} /\ n <= Highest(S \cup {n})
      /\ \A k \in S : k <= Highest(S)
      /\ Highest(S) \in Percent /\ Highest(S \cup {n}) \in Percent
  BY <1>1, HighestOfPercents
<1> QED
  BY <1>2, ProgressAssumption DEF Percent

(* A request that is not of a kind carries nothing of that kind.            *)
LEMMA OtherKinds ==
    ASSUME NEW h
    PROVE  /\ req'[h].pc \notin {"floor", "create", "submit_write"} => FreshSubmit(h)'
           /\ req'[h].pc \notin ReviewPc => FreshReview(h)'
           /\ req'[h].pc # "status_write" => FreshStatus(h)'
BY DEF FreshSubmit, FreshReview, FreshStatus, ReviewPc, InTransaction

(* What a step that writes nothing leaves as it is.                         *)
LEMMA NothingWritten ==
    ASSUME UNCHANGED <<updates, task>>
    PROVE  /\ Waiting' = Waiting /\ Top' = Top
           /\ \A u : TopWithout(u)' = TopWithout(u)
           /\ \A p, u : MayReview(p, u)' = MayReview(p, u)
           /\ \A u, d : OfficialAfter(u, d)' = OfficialAfter(u, d)
           /\ UNCHANGED <<approved, pending, status>>
BY DEF task, Waiting, Top, TopWithout, MayReview, OfficialAfter, Highest, PercentsOf

LEMMA FreshSubmission ==
    ASSUME TypeOK, NEW h \in Handler, FreshSubmit(h),
           \/ \E p \in Person, n \in 1..Full : SubmitLoad(h, p, n)
           \/ SubmitFloor(h) \/ SubmitCreate(h)
    PROVE  UNCHANGED <<updates, task>> /\ Fresh(h)'
<1> DEFINE r == req[h]
<1>1. UNCHANGED <<updates, task>>
  BY DEF SubmitLoad, SubmitFloor, SubmitCreate
<1>2. Top' = Top /\ UNCHANGED <<approved, status>>
  BY <1>1, NothingWritten
<1>3. Top \in Percent
  BY WaitingPercents, HighestOfPercents DEF Top
<1>4. ASSUME NEW p \in Person, NEW n \in 1..Full, SubmitLoad(h, p, n)
      PROVE  Fresh(h)'
  <2>1. req'[h].pc = "floor" /\ req'[h].base = approved /\ status \in Submittable
    BY <1>4 DEF SubmitLoad, Become, TypeOK
  <2>2. FreshSubmit(h)'
    BY <1>2, <2>1 DEF FreshSubmit, Submittable
  <2> QED
    BY <2>1, <2>2, OtherKinds DEF Fresh, ReviewPc, InTransaction
<1>5. CASE SubmitFloor(h)
  <2> DEFINE floor == Max({r.base, Top})
  <2>1. /\ r \in [pc: {"floor"}, by: Person, increment: 1..Full, base: Percent]
        /\ r.base = approved /\ status \in Submittable
    BY <1>5, PcTellsRequest DEF SubmitFloor, At, FreshSubmit
  <2>2. floor \in Percent /\ approved <= floor /\ Top <= floor
    BY <1>3, <2>1, MaxOfTwo
  <2>3. CASE r.increment <= Full - floor
    <3>1. req' = [req EXCEPT ![h] = [pc |-> "create", by |-> r.by,
                                     percent |-> floor + r.increment, pending |-> 0]]
      BY <1>5, <2>3 DEF SubmitFloor, Become, Top
    <3>2. floor + r.increment > approved /\ floor + r.increment > Top
      BY <1>3, <2>1, <2>2, ProgressAssumption DEF Percent, TypeOK
    <3> HIDE DEF floor
    <3>3. req'[h].pc = "create" /\ req'[h].percent = floor + r.increment
      BY <3>1 DEF TypeOK
    <3>4. FreshSubmit(h)'
      BY <1>2, <2>1, <3>2, <3>3 DEF FreshSubmit, Submittable
    <3> QED
      BY <1>1, <3>3, <3>4, OtherKinds DEF Fresh, ReviewPc, InTransaction
  <2>4. CASE ~(r.increment <= Full - floor)
    <3>1. req'[h].pc = "idle"
      BY <1>5, <2>4 DEF SubmitFloor, Become, Finish, Idle, TypeOK, Top
    <3> QED
      BY <1>1, <3>1, OtherKinds DEF Fresh, ReviewPc, InTransaction
  <2> QED
    BY <2>3, <2>4
<1>6. CASE SubmitCreate(h)
  <2>1. /\ r \in [pc: {"create", "submit_write"}, by: Person, percent: 1..Full,
                   pending: Percent]
        /\ r.percent > approved /\ r.percent > Top /\ status \in Submittable
    BY <1>6, PcTellsRequest DEF SubmitCreate, At, FreshSubmit
  <2>2. Highest(PercentsOf(Waiting) \cup {r.percent}) = r.percent
    BY <2>1, WaitingPercents, HighestWithClaim, ProgressAssumption DEF Percent, Top
  <2>3. req'[h] = [r EXCEPT !.pc = "submit_write", !.pending = r.percent]
    BY <1>6, <2>2 DEF SubmitCreate, Become, TypeOK
  <2>4. /\ req'[h].pc = "submit_write" /\ req'[h].percent = r.percent
        /\ req'[h].pending = r.percent
    BY <2>1, <2>3
  <2>5. FreshSubmit(h)'
    BY <1>2, <2>1, <2>4 DEF FreshSubmit, Submittable
  <2> QED
    BY <1>1, <2>4, <2>5, OtherKinds DEF Fresh, ReviewPc, InTransaction
<1> QED
  BY <1>1, <1>4, <1>5, <1>6

LEMMA FreshReading ==
    ASSUME TypeOK, NEW h \in Handler, FreshReview(h),
           \/ \E u \in Update, p \in Person, d \in Decision : ReviewFind(h, u, p, d)
           \/ ReviewMark(h) \/ ReviewReadTask(h) \/ ReviewReadPending(h)
    PROVE  UNCHANGED <<updates, task>> /\ Fresh(h)'
<1> DEFINE r == req[h]
<1>1. UNCHANGED <<updates, task>>
  BY DEF ReviewFind, ReviewMark, ReviewReadTask, ReviewReadPending
<1>2. SUFFICES req'[h].pc \in ReviewPc /\ FreshReview(h)'
  BY <1>1, OtherKinds DEF Fresh, ReviewPc, InTransaction
<1>3. ASSUME NEW u \in Update, NEW p \in Person, NEW d \in Decision, ReviewFind(h, u, p, d)
      PROVE  req'[h].pc \in ReviewPc /\ FreshReview(h)'
  <2>1. /\ req'[h].pc = "mark" /\ req'[h].update = u /\ req'[h].reviewer = p
        /\ u \in Waiting /\ MayReview(p, u)
    BY <1>3 DEF ReviewFind, Become, TypeOK, MayReview
  <2> QED
    BY <1>1, <2>1, NothingWritten DEF FreshReview, ReviewPc
<1>4. ASSUME ReviewMark(h) \/ ReviewReadTask(h) \/ ReviewReadPending(h)
      PROVE  /\ r \in ReviewRequest /\ r.update \in Waiting /\ MayReview(r.reviewer, r.update)
             /\ updates[r.update].percent \in Percent /\ approved \in Percent
  <2>1. r.pc \in ReviewPc
    BY <1>4 DEF ReviewMark, ReviewReadTask, ReviewReadPending, At, ReviewPc, InTransaction
  <2> QED
    BY <2>1, PcTellsRequest, WaitingIsLive, LiveIsRow DEF FreshReview, TypeOK
<1>5. CASE ReviewMark(h)
  <2>1. req'[h] = [r EXCEPT !.pc = "read_task"]
    BY <1>5 DEF ReviewMark, Become, TypeOK
  <2>2. req'[h].pc = "read_task" /\ req'[h].update = r.update /\ req'[h].reviewer = r.reviewer
    BY <1>4, <1>5, <2>1 DEF ReviewRequest
  <2> QED
    BY <1>1, <1>4, <1>5, <2>2, NothingWritten DEF FreshReview, ReviewPc, InTransaction
<1>6. CASE ReviewReadTask(h)
  <2> DEFINE official == OfficialAfter(r.update, r.decision)
  <2>1. official = IF r.decision = "Approved"
                      THEN Max({approved, updates[r.update].percent}) ELSE approved
    BY <1>4, <1>6, MaxOfTwo DEF OfficialAfter
  <2>2. req'[h] = [r EXCEPT !.pc = "read_pending", !.approved = official]
    BY <1>6, <2>1 DEF ReviewReadTask, Become, TypeOK
  <2> HIDE DEF official
  <2>3. /\ req'[h].pc = "read_pending" /\ req'[h].update = r.update
        /\ req'[h].approved = official /\ req'[h].decision = r.decision
        /\ req'[h].reviewer = r.reviewer
    BY <1>4, <1>6, <2>2 DEF ReviewRequest
  <2> QED
    BY <1>1, <1>4, <1>6, <2>3, NothingWritten DEF FreshReview, ReviewPc, InTransaction, official
<1>7. CASE ReviewReadPending(h)
  <2>1. r.approved = OfficialAfter(r.update, r.decision)
    BY <1>7 DEF ReviewReadPending, At, FreshReview
  <2>2. req'[h] = [r EXCEPT !.pc = "review_write", !.pending = TopWithout(r.update)]
    BY <1>7 DEF ReviewReadPending, Become, TypeOK, TopWithout
  <2>3. /\ req'[h].pc = "review_write" /\ req'[h].update = r.update
        /\ req'[h].approved = r.approved /\ req'[h].decision = r.decision
        /\ req'[h].reviewer = r.reviewer
        /\ req'[h].pending = TopWithout(r.update)
    BY <1>4, <1>7, <2>2 DEF ReviewRequest
  <2> QED
    BY <1>1, <1>4, <1>7, <2>1, <2>3, NothingWritten DEF FreshReview, ReviewPc, InTransaction
<1> QED
  BY <1>3, <1>5, <1>6, <1>7

LEMMA FreshStatusRead ==
    ASSUME TypeOK, NEW h \in Handler, Abort(h) \/ \E s \in Status : StatusRead(h, s)
    PROVE  UNCHANGED <<updates, task>> /\ Fresh(h)'
<1>1. UNCHANGED <<updates, task>>
  BY DEF Abort, StatusRead
<1>2. ASSUME NEW s \in Status, StatusRead(h, s)
      PROVE  Fresh(h)'
  <2>1. /\ req'[h].pc = "status_write" /\ req'[h].next = s
        /\ s = status \/ s \in LegalFrom[status]
    BY <1>2 DEF StatusRead, Become, TypeOK
  <2>2. FreshStatus(h)'
    BY <1>1, <2>1 DEF FreshStatus, LegalFrom, task
  <2> QED
    BY <2>1, <2>2, OtherKinds DEF Fresh, ReviewPc, InTransaction
<1>3. CASE Abort(h)
  <2>1. req'[h].pc = "idle"
    BY <1>3 DEF Abort, Become, Finish, Idle, TypeOK
  <2> QED
    BY <1>1, <2>1, OtherKinds DEF Fresh, ReviewPc, InTransaction
<1> QED
  BY <1>1, <1>2, <1>3

LEMMA IdleIsFresh ==
    ASSUME TypeOK, NEW h \in Handler, At(h, "idle"), UNCHANGED req
    PROVE  Fresh(h)'
<1>1. req'[h].pc = "idle"
  BY DEF At
<1> QED
  BY <1>1, OtherKinds DEF Fresh, ReviewPc, InTransaction

LEMMA FinishIsFresh ==
    ASSUME TypeOK, NEW h \in Handler, Finish(h)
    PROVE  Fresh(h)'
<1>1. req'[h].pc = "idle"
  BY DEF Finish, Become, Idle, TypeOK
<1> QED
  BY <1>1, OtherKinds DEF Fresh, ReviewPc, InTransaction

(* The steps that write do what the ledger does in one step.                *)

LEMMA SubmitWriteIsSubmit ==
    ASSUME TypeOK, NEW h \in Handler, FreshSubmit(h), NEW u \in Update, SubmitWrite(h, u)
    PROVE  /\ PendingAgrees'
           /\ \E p \in Person, n \in 1..Full : Ledger!Submit(u, p, n)
<1> DEFINE r == req[h]
<1>1. /\ r \in [pc: {"create", "submit_write"}, by: Person, percent: 1..Full,
                 pending: Percent]
      /\ r.percent > approved /\ r.percent > Top
      /\ status \in Submittable /\ r.pending = r.percent
  BY PcTellsRequest DEF SubmitWrite, At, FreshSubmit
<1>2. updates' = [updates EXCEPT ![u] = [state |-> "Pending", percent |-> r.percent,
                                         by |-> r.by, reviewedBy |-> {}]]
  BY DEF SubmitWrite
<1>3. Waiting' = Waiting \cup {u} /\ u \notin Waiting
  BY <1>2 DEF SubmitWrite, Waiting, TypeOK, Free
<1>4. /\ updates'[u].percent = r.percent
      /\ \A v \in Waiting : updates'[v].percent = updates[v].percent
  BY <1>2, <1>3 DEF TypeOK, Waiting
<1>5. PercentsOf(Waiting)' = PercentsOf(Waiting) \cup {r.percent}
  BY <1>3, <1>4 DEF PercentsOf
<1>6. Highest(PercentsOf(Waiting) \cup {r.percent}) = r.percent
  BY <1>1, WaitingPercents, HighestWithClaim, ProgressAssumption DEF Percent, Top
<1>7. PendingAgrees'
  BY <1>1, <1>5, <1>6 DEF PendingAgrees, SubmitWrite, Highest
<1>8. Ledger!Claimed = Top
  BY DEF Ledger!Claimed, Ledger!Waiting, Ledger!Highest, Ledger!Max, Top, Highest, Max,
         PercentsOf, Waiting
<1>9. Ledger!Submit(u, r.by, r.percent)
  BY <1>1, <1>2, <1>8 DEF Ledger!Submit, SubmitWrite, Submittable, Free
<1> QED
  BY <1>1, <1>7, <1>9

LEMMA ReviewWriteIsReview ==
    ASSUME TypeOK, NEW h \in Handler, FreshReview(h), ReviewWrite(h)
    PROVE  /\ PendingAgrees'
           /\ \E u \in Update, p \in Person, d \in Decision : Ledger!Review(u, p, d)
<1> DEFINE r == req[h]
<1>1. /\ r \in ReviewRequest
      /\ r.update \in Waiting /\ MayReview(r.reviewer, r.update)
      /\ r.approved = OfficialAfter(r.update, r.decision)
      /\ r.pending = TopWithout(r.update)
  BY PcTellsRequest DEF ReviewWrite, At, FreshReview, ReviewPc, InTransaction
<1>2. /\ r.update \in Update /\ r.reviewer \in Person /\ r.decision \in Decision
      /\ updates[r.update] \in Row
  BY <1>1, WaitingIsLive, LiveIsRow DEF ReviewRequest
<1>3. updates' = [updates EXCEPT ![r.update].state = r.decision,
                                ![r.update].reviewedBy = {r.reviewer}]
  BY DEF ReviewWrite
<1>4. /\ updates'[r.update].state = r.decision
      /\ \A v \in Update \ {r.update} : updates'[v] = updates[v]
  BY <1>2, <1>3 DEF TypeOK, Row
<1>5. Waiting' = Waiting \ {r.update}
  BY <1>2, <1>4 DEF Waiting, Decision
<1>6. PercentsOf(Waiting)' = PercentsOf(Waiting \ {r.update})
  BY <1>4, <1>5 DEF PercentsOf, Waiting
<1>7. PendingAgrees'
  BY <1>1, <1>6 DEF PendingAgrees, ReviewWrite, Highest, TopWithout
<1>8. Ledger!Claimed' = pending'
  BY <1>7
  DEF Ledger!Claimed, Ledger!Waiting, Ledger!Highest, Ledger!Max, PendingAgrees, Highest,
      Max, PercentsOf, Waiting
<1>9. Ledger!Review(r.update, r.reviewer, r.decision)
  <2>1. r.update \in Ledger!Waiting
    BY <1>1 DEF Ledger!Waiting, Waiting
  <2>2. r.reviewer # updates[r.update].by
    BY <1>1 DEF MayReview
  <2>3. approved' = IF r.decision = "Approved" /\ updates[r.update].percent > approved
                       THEN updates[r.update].percent ELSE approved
    BY <1>1 DEF ReviewWrite, OfficialAfter
  <2>4. status' = StatusAfter(r.decision, approved', pending')
    BY DEF ReviewWrite
  <2> QED
    BY <1>3, <1>8, <2>1, <2>2, <2>3, <2>4 DEF Ledger!Review, StatusAfter
<1> QED
  BY <1>2, <1>7, <1>9

(* A step of the only handler is a step of the ledger, or none.             *)
LEMMA SerialStep ==
    ASSUME NEW only, Handler = {only}, SerialInv, [Next]_vars
    PROVE  SerialInv' /\ [Ledger!Next]_Ledger!vars
<1>1. /\ IInv' /\ TypeOK /\ PendingAgrees /\ only \in Handler
      /\ FreshSubmit(only) /\ FreshReview(only) /\ FreshStatus(only)
  BY RealStep DEF SerialInv, IInv, Fresh
<1>2. SUFFICES /\ PendingAgrees' /\ Fresh(only)'
               /\ Ledger!Next \/ UNCHANGED <<updates, task>>
  BY <1>1 DEF SerialInv, Ledger!vars, task
<1>3. ASSUME UNCHANGED <<updates, task>>
      PROVE  PendingAgrees'
  BY <1>1, <1>3, NothingWritten DEF PendingAgrees, Top
<1>4. ASSUME \/ \E p \in Person, n \in 1..Full : SubmitLoad(only, p, n)
             \/ SubmitFloor(only) \/ SubmitCreate(only)
             \/ \E u \in Update, p \in Person, d \in Decision : ReviewFind(only, u, p, d)
             \/ ReviewMark(only) \/ ReviewReadTask(only) \/ ReviewReadPending(only)
             \/ Abort(only) \/ \E s \in Status : StatusRead(only, s)
      PROVE  PendingAgrees' /\ Fresh(only)' /\ UNCHANGED <<updates, task>>
  BY <1>1, <1>3, <1>4, FreshSubmission, FreshReading, FreshStatusRead
<1>5. ASSUME NEW u \in Update, SubmitWrite(only, u)
      PROVE  PendingAgrees' /\ Fresh(only)' /\ Ledger!Next
  <2>1. PendingAgrees' /\ \E p \in Person, n \in 1..Full : Ledger!Submit(u, p, n)
    BY <1>1, <1>5, SubmitWriteIsSubmit
  <2>2. Fresh(only)'
    <3>1. Finish(only)
      BY <1>5 DEF SubmitWrite
    <3> QED
      BY <1>1, <3>1, FinishIsFresh
  <2> QED
    BY <2>1, <2>2 DEF Ledger!Next
<1>6. CASE ReviewWrite(only)
  <2>1. PendingAgrees' /\ \E u \in Update, p \in Person, d \in Decision : Ledger!Review(u, p, d)
    BY <1>1, <1>6, ReviewWriteIsReview
  <2>2. Fresh(only)'
    <3>1. Finish(only)
      BY <1>6 DEF ReviewWrite
    <3> QED
      BY <1>1, <3>1, FinishIsFresh
  <2> QED
    BY <2>1, <2>2 DEF Ledger!Next, Decision
<1>7. CASE StatusWrite(only)
  <2>1. req[only] \in StatusRequest
        /\ (status' = status \/ status' \in LegalFrom[status])
    BY <1>1, <1>7, PcTellsRequest DEF StatusWrite, At, FreshStatus
  <2>2. status' \in Status
    BY <1>7, <2>1 DEF StatusWrite, StatusRequest
  <2>3. UNCHANGED <<updates, approved, pending>>
    BY <1>7 DEF StatusWrite
  <2>4. PendingAgrees'
    BY <1>1, <2>3 DEF PendingAgrees, Highest, PercentsOf, Waiting
  <2>5. Fresh(only)'
    <3>1. Finish(only)
      BY <1>7 DEF StatusWrite
    <3> QED
      BY <1>1, <3>1, FinishIsFresh
  <2>6. CASE status' \in LegalFrom[status]
    <3>1. Ledger!SetStatus(status')
      BY <2>3, <2>6 DEF Ledger!SetStatus, Ledger!LegalFrom, LegalFrom
    <3>2. Ledger!Next
      BY <2>2, <3>1 DEF Ledger!Next, Ledger!Status, Status
    <3> QED
      BY <2>4, <2>5, <3>2
  <2>7. CASE status' = status
    BY <2>3, <2>4, <2>5, <2>7 DEF task
  <2> QED
    BY <2>1, <2>6, <2>7
<1>8. ASSUME NEW n \in Percent, EditProgress(only, n)
      PROVE  PendingAgrees' /\ Fresh(only)' /\ Ledger!Next
  <2>1. PendingAgrees'
    BY <1>1, <1>8 DEF EditProgress, PendingAgrees, Highest, PercentsOf, Waiting
  <2>2. Fresh(only)'
    BY <1>1, <1>8, IdleIsFresh DEF EditProgress
  <2>3. Ledger!Next
    BY <1>8 DEF EditProgress, Ledger!EditProgress, Ledger!Next, Percent
  <2> QED
    BY <2>1, <2>2, <2>3
<1>9. CASE UNCHANGED vars
  <2>1. Fresh(only)'
    BY <1>1, <1>9, NothingWritten
    DEF vars, Fresh, FreshSubmit, FreshReview, FreshStatus, LegalFrom, Submittable, ReviewPc,
        InTransaction
  <2> QED
    BY <1>3, <1>9, <2>1 DEF vars
<1> QED
  BY <1>4, <1>5, <1>6, <1>7, <1>8, <1>9 DEF Next, SubmitStep, ReviewStep, UpdateStep

LEMMA SerialInit ==
    ASSUME NEW only, Handler = {only}, Init
    PROVE  SerialInv /\ Ledger!Init
<1>1. Waiting = {} /\ PercentsOf(Waiting) = {}
  BY DEF Init, Waiting, Free, PercentsOf
<1>2. PendingAgrees
  <2>1. {} \in SUBSET Percent
    OBVIOUS
  <2>2. Highest({}) \in {} \cup {0}
    BY <2>1, HighestOfPercents
  <2> QED
    BY <1>1, <2>2 DEF PendingAgrees, Init
<1>3. \A h \in Handler : req[h].pc = "idle"
  BY DEF Init, Idle
<1>4. \A h \in Handler : Fresh(h)
  BY <1>3 DEF Fresh, FreshSubmit, FreshReview, FreshStatus, ReviewPc, InTransaction
<1>5. Ledger!Init
  BY DEF Init, Ledger!Init, Free, Percent, Status, Ledger!Status
<1> QED
  BY <1>2, <1>4, <1>5, RealInit DEF SerialInv

(* Served one at a time, with failures at any step, the pending progress is *)
(* the highest claim that waits.                                            *)
THEOREM SerialPendingAgrees ==
    ASSUME NEW only, Handler = {only}
    PROVE  Spec => []PendingAgrees
<1>1. Init => SerialInv
  BY SerialInit
<1>2. SerialInv /\ [Next]_vars => SerialInv'
  BY SerialStep
<1>3. SerialInv => PendingAgrees
  BY DEF SerialInv
<1> QED
  BY <1>1, <1>2, <1>3, PTL DEF Spec

(* Served one at a time, with failures at any step, the requests implement  *)
(* the ledger: one decision per submission, and only approvals and edits    *)
(* move the official progress.                                              *)
THEOREM SerialImplementsLedger ==
    ASSUME NEW only, Handler = {only}
    PROVE  Spec => ImplementsLedger
<1>1. Init => SerialInv /\ Ledger!Init
  BY SerialInit
<1>2. SerialInv /\ [Next]_vars => SerialInv' /\ [Ledger!Next]_Ledger!vars
  BY SerialStep
<1> QED
  BY <1>1, <1>2, PTL DEF Spec, ImplementsLedger, Ledger!Spec
=============================================================================
