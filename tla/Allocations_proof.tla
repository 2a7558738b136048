-------------------------- MODULE Allocations_proof --------------------------
(***************************************************************************)
(* Proofs about Allocations, for any rows, people, handlers and limits: any *)
(* number of allocations, of requests and pushes in flight and of failures *)
(* of Keka.  All but the last rest on IInv; that nobody is overbooked      *)
(* without a reason needs what a request has read of the rows (BInv).      *)
(***************************************************************************)
EXTENDS Allocations, SequenceTheorems, FiniteSetTheorems, TLAPS

-----------------------------------------------------------------------------
(* What a failed attempt does to the records: the one it is about moves to *)
(* the end, the later ones move up.                                        *)

LEMMA AttemptedMoves ==
    ASSUME records \in Seq(Record), NEW i \in DOMAIN records, NEW rec \in Record
    PROVE  /\ Attempted(i, rec) \in Seq(Record)
           /\ Len(Attempted(i, rec)) = Len(records)
           /\ \A k \in 1..Len(records) :
                Attempted(i, rec)[k] = IF k < i THEN records[k]
                                       ELSE IF k = Len(records) THEN rec
                                       ELSE records[k + 1]
<1> DEFINE n == Len(records)
           before == SubSeq(records, 1, i - 1)
           after == SubSeq(records, i + 1, n)
           rest == before \o after
<1>1. n \in Nat /\ i \in 1..n /\ DOMAIN records = 1..n OBVIOUS
<1>2. /\ before \in Seq(Record) /\ Len(before) = i - 1
      /\ \A k \in 1..(i - 1) : before[k] = records[k]
  BY <1>1
<1>3. /\ after \in Seq(Record) /\ Len(after) = n - i
      /\ \A k \in 1..(n - i) : after[k] = records[i + k]
  BY <1>1
<1>4. Attempted(i, rec) = Append(rest, rec) BY DEF Attempted, RemoveAt
<1> HIDE DEF before, after
<1>5. /\ rest \in Seq(Record) /\ Len(rest) = Len(before) + Len(after)
      /\ \A k \in 1..(Len(before) + Len(after)) :
           rest[k] = IF k <= Len(before) THEN before[k] ELSE after[k - Len(before)]
  BY <1>2, <1>3, ConcatProperties
<1> HIDE DEF rest, n
<1>6. Len(rest) = n - 1 BY <1>1, <1>2, <1>3, <1>5
<1>7. \A k \in 1..(n - 1) : rest[k] = IF k < i THEN records[k] ELSE records[k + 1]
  <2> TAKE k \in 1..(n - 1)
  <2>1. CASE k < i
    <3>1. rest[k] = before[k] BY <1>1, <1>2, <1>3, <1>5, <2>1
    <3> QED BY <1>1, <1>2, <2>1, <3>1
  <2>2. CASE ~(k < i)
    <3>1. rest[k] = after[k - (i - 1)] BY <1>1, <1>2, <1>3, <1>5, <2>2
    <3>2. k - (i - 1) \in 1..(n - i) BY <1>1, <2>2
    <3>3. after[k - (i - 1)] = records[i + (k - (i - 1))] BY <1>3, <3>2
    <3>4. i + (k - (i - 1)) = k + 1 BY <1>1
    <3> QED BY <2>2, <3>1, <3>3, <3>4
  <2> QED BY <2>1, <2>2
<1> DEFINE all == Append(rest, rec)
<1>8. /\ all \in Seq(Record) /\ Len(all) = Len(rest) + 1
      /\ \A k \in 1..Len(rest) : all[k] = rest[k]
      /\ all[Len(rest) + 1] = rec
  BY <1>5, AppendProperties
<1> HIDE DEF all
<1>9. Attempted(i, rec) = all BY <1>4 DEF all
<1>10. Len(all) = n /\ all[n] = rec BY <1>1, <1>6, <1>8
<1>11. \A k \in 1..n : all[k] = IF k < i THEN records[k] ELSE IF k = n THEN rec ELSE records[k + 1]
  <2> TAKE k \in 1..n
  <2>1. CASE k = n BY <1>1, <1>10, <2>1
  <2>2. CASE k # n
    <3>1. k \in 1..(n - 1) /\ k \in 1..Len(rest) BY <1>1, <1>6, <2>2
    <3> QED BY <1>7, <1>8, <2>2, <3>1
  <2> QED BY <2>1, <2>2
<1> QED BY <1>1, <1>8, <1>9, <1>10, <1>11 DEF n

-----------------------------------------------------------------------------
LEMMA PushesType ==
    ASSUME NEW r \in Row, NEW batch \in SUBSET (Nat \X Row)
    PROVE  /\ Pushes(r, batch) \in Work /\ Idle \in Work
           /\ Pushes(r, batch).pc = "push_read" /\ Pushes(r, batch).row = r
           /\ Pushes(r, batch).batch = batch
           /\ Idle.pc = "idle" /\ Idle.batch = {}
BY DEF Pushes, Idle, Work, PushPc, RequestPc, Outcome

LEMMA EndPushWork ==
    ASSUME TypeOK, NEW h \in Handler, EndPush(h)
    PROVE  \/ work[h].batch = {} /\ work' = [work EXCEPT ![h] = Idle]
           \/ \E b \in work[h].batch :
                 /\ b \in Nat \X Row
                 /\ work' = [work EXCEPT ![h] = Pushes(b[2], work[h].batch \ {b})]
<1>1. work[h].batch \in SUBSET (Nat \X Row) BY DEF TypeOK, Work
<1> QED BY <1>1 DEF EndPush, First

LEMMA EndPushType ==
    ASSUME TypeOK, NEW h \in Handler, EndPush(h)
    PROVE  work' \in [Handler -> Work]
<1>1. work \in [Handler -> Work] /\ work[h].batch \in SUBSET (Nat \X Row) BY DEF TypeOK, Work
<1>2. CASE work[h].batch = {} /\ work' = [work EXCEPT ![h] = Idle]
  <2>1. Idle \in Work BY DEF Idle, Work, PushPc, RequestPc, Outcome
  <2> QED BY <1>1, <1>2, <2>1
<1>3. CASE \E b \in work[h].batch :
              /\ b \in Nat \X Row
              /\ work' = [work EXCEPT ![h] = Pushes(b[2], work[h].batch \ {b})]
  <2>1. PICK b \in Nat \X Row : work' = [work EXCEPT ![h] = Pushes(b[2], work[h].batch \ {b})]
    BY <1>3
  <2>2. Pushes(b[2], work[h].batch \ {b}) \in Work BY <1>1, PushesType
  <2> QED BY <1>1, <2>1, <2>2
<1> QED BY <1>2, <1>3, EndPushWork

LEMMA GotoType ==
    ASSUME TypeOK, NEW h \in Handler, NEW pc \in {"idle"} \cup RequestPc \cup PushPc, Goto(h, pc)
    PROVE  work' \in [Handler -> Work]
<1>1. work \in [Handler -> Work] /\ work[h] \in Work BY DEF TypeOK
<1>2. [work[h] EXCEPT !.pc = pc] \in Work BY <1>1 DEF Work
<1> QED BY <1>1, <1>2 DEF Goto

LEMMA SettledType ==
    ASSUME NEW row \in Allocation, NEW o \in Outcome, NEW actor \in Person \cup {Nobody}
    PROVE  /\ Settled(row, o, actor) \in Allocation
           /\ Settled(row, o, actor).project = row.project
           /\ Settled(row, o, actor).synced = row.synced
           /\ o = "none" => Settled(row, o, actor) = row
           /\ o = "pending" => /\ Settled(row, o, actor).status = "Pending"
                               /\ Settled(row, o, actor).approver = Nobody
           /\ o \in {"active", "override"} => /\ Settled(row, o, actor).status = "Active"
                                              /\ Settled(row, o, actor).approver = actor
                                              /\ Settled(row, o, actor).asker = Nobody
<1> DEFINE new == [row EXCEPT !.status = IF o = "pending" THEN "Pending" ELSE "Active",
                              !.approver = IF o = "pending" THEN Nobody ELSE actor,
                              !.asker = IF o = "pending" THEN actor ELSE Nobody,
                              !.reason = o # "active"]
<1>1. Settled(row, o, actor) = IF o = "none" THEN row ELSE new BY DEF Settled
<1>2. /\ new.status = IF o = "pending" THEN "Pending" ELSE "Active"
      /\ new.approver = IF o = "pending" THEN Nobody ELSE actor
      /\ new.asker = IF o = "pending" THEN actor ELSE Nobody
      /\ new.project = row.project /\ new.synced = row.synced
  BY DEF Allocation
<1>3. new \in Allocation BY DEF Allocation
<1> HIDE DEF new
<1> QED BY <1>1, <1>2, <1>3 DEF Outcome

LEMMA AnswerType ==
    ASSUME TypeOK, NEW h \in Handler, NEW r \in Row, NEW status, Answer(h, r, status)
    PROVE  work' \in [Handler -> Work]
<1>1. Pushes(r, {}) \in Work /\ Idle \in Work BY PushesType
<1> QED BY <1>1 DEF Answer, TypeOK

LEMMA RetriedType == ASSUME TypeOK PROVE Retried \in SUBSET (Nat \X Row)
<1> DEFINE found == {i \in DOMAIN records : Eligible(records[i])}
           due == {k \in found : Cardinality({j \in found : j < k}) < Batch}
<1>1. \A i \in DOMAIN records : i \in Nat /\ records[i] \in Record BY DEF TypeOK
<1>2. Retried = {<<i, records[i].row>> : i \in due} BY DEF Retried
<1>3. due \subseteq DOMAIN records OBVIOUS
<1> HIDE DEF due
<1> QED BY <1>1, <1>2, <1>3 DEF Record

LEMMA OutcomesType ==
    ASSUME AllocationsAssumption, NEW over
    PROVE  Outcomes(over) \subseteq {"active", "override", "pending"}
BY DEF AllocationsAssumption, Outcomes

LEMMA CalledType ==
    ASSUME AllocationsAssumption, TypeOK, Called
    PROVE  calls' \in 0..MaxCalls
BY DEF AllocationsAssumption, TypeOK, Called

LEMMA RequestedType ==
    ASSUME AllocationsAssumption, TypeOK, Requested
    PROVE  calls' \in 0..MaxCalls /\ crossed' \in BOOLEAN
BY CalledType DEF Requested, TypeOK

-----------------------------------------------------------------------------
(* The inductive invariant.                                                  *)

(* Requests in flight, as long as they do not overlap.                       *)
OneRequest ==
    ~crossed => \A g, h \in Handler :
        work[g].pc \in RequestPc /\ work[h].pc \in RequestPc => g = h
RequestFits ==
    ~crossed => \A h \in Handler :
        /\ work[h].pc = "add_create" =>
              \A r \in Row : OnTeam(r) => alloc[r].project # work[h].project
        /\ work[h].pc = "update_write" => OnTeam(work[h].row)
        /\ work[h].pc \in {"approve_write", "reject_write"} =>
              OnTeam(work[h].row) /\ alloc[work[h].row].asker # work[h].actor

(* The rows that handlers and records name are there.                        *)
Named(r) == r \in Row /\ alloc[r].status # "free"
HandlersNameRows ==
    \A h \in Handler :
        /\ work[h].pc \in RequestPc => work[h].actor \in Person
        /\ work[h].pc \in PushPc \cup {"update_write", "approve_write", "reject_write"} =>
              Named(work[h].row)
        /\ \A b \in work[h].batch : Named(b[2])
RecordsNameRows ==
    \A i \in DOMAIN records :
        /\ Named(records[i].row)
        /\ records[i].id \in 1..Len(records)
        /\ \A j \in DOMAIN records : records[i].id = records[j].id => i = j

(* What a push has seen or done is so, or the row is synced.                 *)
PushKnows ==
    \A h \in Handler :
        /\ work[h].pc = "push_resolve" => alloc[work[h].row].synced
        /\ work[h].pc = "fail_write" /\ work[h].at # 0 =>
              \E i \in DOMAIN records :
                 /\ records[i].id = work[h].at /\ records[i].row = work[h].row
                 /\ records[i].open \/ alloc[work[h].row].synced

(* One push at a time of a row that was not raced for.                       *)
OnePush ==
    \A g, h \in Handler : \A r \in Row \ raced : Pushing(g, r) /\ Pushing(h, r) => g = h
Unsynced ==
    \A h \in Handler : \A r \in Row \ raced :
        /\ work[h].row = r
        /\ work[h].pc \in {"push_send", "push_save", "fail_find", "fail_write"}
        => ~alloc[r].synced
Sent ==
    \A r \in Row :
        /\ keka[r] > 0 => alloc[r].status # "free"
        /\ r \notin raced \cup unheard =>
              /\ keka[r] <= 1
              /\ keka[r] = 1 => alloc[r].synced
                               \/ \E h \in Handler : work[h].pc = "push_save" /\ work[h].row = r
Closing ==
    \A r \in Row \ raced : alloc[r].synced /\ Recorded(r) =>
        \E h \in Handler : work[h].pc = "push_resolve" /\ work[h].row = r

IInv ==
    /\ TypeOK /\ HandlersNameRows /\ RecordsNameRows
    /\ OneRequest /\ RequestFits /\ OnTeamOnce /\ NotTheirOwn
    /\ PushKnows /\ FollowedUp
    /\ OnePush /\ Unsynced /\ Sent /\ Closing

-----------------------------------------------------------------------------
(* Types.                                                                    *)

LEMMA RequestType ==
    ASSUME AllocationsAssumption, TypeOK, HandlersNameRows, NEW h \in Handler, RequestStep(h)
    PROVE  TypeOK'
<1> USE DEF pmo_side, keka_side
<1>1. CASE AddCheck(h)
  <2>1. Goto(h, "add_create") \/ work' = [work EXCEPT ![h] = Idle] BY <1>1 DEF AddCheck
  <2>2. Idle \in Work BY DEF Idle, Work, PushPc, RequestPc, Outcome
  <2>3. work' \in [Handler -> Work] BY <2>1, <2>2, GotoType DEF RequestPc, TypeOK
  <2> QED BY <1>1, <2>3 DEF AddCheck, TypeOK
<1>2. CASE AddCreate(h)
  <2>1. PICK r \in Row :
          /\ alloc' = [alloc EXCEPT ![r] =
                Settled([Free EXCEPT !.project = work[h].project, !.hours = work[h].hours],
                        work[h].outcome, work[h].actor)]
          /\ Answer(h, r, alloc'[r].status)
    BY <1>2 DEF AddCreate
  <2>2. work[h] \in Work BY DEF TypeOK
  <2>3. [Free EXCEPT !.project = work[h].project, !.hours = work[h].hours] \in Allocation
    BY <2>2 DEF Free, Allocation, Work
  <2>4. alloc' \in [Row -> Allocation] BY <2>1, <2>2, <2>3, SettledType DEF TypeOK, Work
  <2>5. work' \in [Handler -> Work] BY <2>1, AnswerType
  <2> QED BY <1>2, <2>4, <2>5 DEF AddCreate, TypeOK
<1>3. CASE UpdateWrite(h)
  <2> DEFINE r == work[h].row
             edited == IF work[h].hours = 0 THEN alloc[r]
                       ELSE [alloc[r] EXCEPT !.hours = work[h].hours]
  <2>1. r \in Row BY <1>3 DEF UpdateWrite, HandlersNameRows, Named
  <2>2. work[h] \in Work /\ alloc[r] \in Allocation BY <2>1 DEF TypeOK
  <2>3. edited \in Allocation BY <2>2 DEF Allocation, Work
  <2>4. /\ alloc' = [alloc EXCEPT ![r] = Settled(edited, work[h].outcome, work[h].actor)]
        /\ Answer(h, r, alloc'[r].status)
    BY <1>3 DEF UpdateWrite
  <2>5. Settled(edited, work[h].outcome, work[h].actor) \in Allocation
    <3> HIDE DEF edited
    <3> QED BY <2>2, <2>3, SettledType DEF Work
  <2>6. alloc' \in [Row -> Allocation] BY <2>1, <2>4, <2>5 DEF TypeOK
  <2>7. work' \in [Handler -> Work] BY <2>1, <2>4, AnswerType
  <2> QED BY <1>3, <2>6, <2>7 DEF UpdateWrite, TypeOK
<1>4. ASSUME NEW pc \in {"approve_write", "reject_write"}, NEW status \in {"Active", "Rejected"},
             DecideWrite(h, pc, status)
      PROVE  TypeOK'
  <2>1. work[h].row \in Row /\ work[h].actor \in Person
    BY <1>4 DEF DecideWrite, HandlersNameRows, Named, RequestPc
  <2>2. [alloc[work[h].row] EXCEPT !.status = status, !.approver = work[h].actor] \in Allocation
    <3>1. alloc[work[h].row] \in Allocation BY <2>1 DEF TypeOK
    <3> QED BY <2>1, <3>1 DEF Allocation
  <2>3. alloc' \in [Row -> Allocation] BY <1>4, <2>1, <2>2 DEF DecideWrite, TypeOK
  <2>4. work' \in [Handler -> Work] BY <1>4, <2>1, AnswerType DEF DecideWrite
  <2> QED BY <1>4, <2>3, <2>4 DEF DecideWrite, TypeOK
<1> QED BY <1>1, <1>2, <1>3, <1>4 DEF RequestStep, ApproveWrite, RejectWrite

LEMMA RecountType ==
    ASSUME NEW rec \in Record, NEW n \in Nat, NEW dead \in BOOLEAN
    PROVE  [rec EXCEPT !.count = n, !.dead = dead] \in Record
BY DEF Record

LEMMA FailWriteRecords ==
    ASSUME TypeOK, NEW h \in Handler, work[h].row \in Row, FailWrite(h)
    PROVE  \/ /\ work[h].at = 0
              /\ \E rec \in Record :
                    /\ records' = Append(records, rec)
                    /\ rec.id = Len(records) + 1 /\ rec.row = work[h].row /\ rec.open
           \/ \E i \in DOMAIN records, rec \in Record :
                 /\ work[h].at = records[i].id
                 /\ records' = Attempted(i, rec)
                 /\ rec.id = records[i].id /\ rec.row = records[i].row
                 /\ rec.open = records[i].open
<1>1. PICK permanent \in BOOLEAN :
         \/ /\ work[h].at = 0
            /\ records' = Append(records,
                 [id |-> Len(records) + 1, row |-> work[h].row, count |-> 1,
                  dead |-> permanent \/ 1 >= MaxRetries, open |-> TRUE])
         \/ \E i \in DOMAIN records :
               /\ work[h].at = records[i].id
               /\ records' = Attempted(i, [records[i] EXCEPT
                     !.count = @ + 1, !.dead = permanent \/ records[i].count + 1 >= MaxRetries])
  BY DEF FailWrite
<1>2. CASE /\ work[h].at = 0
           /\ records' = Append(records,
                [id |-> Len(records) + 1, row |-> work[h].row, count |-> 1,
                 dead |-> permanent \/ 1 >= MaxRetries, open |-> TRUE])
  <2> DEFINE rec == [id |-> Len(records) + 1, row |-> work[h].row, count |-> 1,
                     dead |-> permanent \/ 1 >= MaxRetries, open |-> TRUE]
  <2>1. rec \in Record BY DEF Record, TypeOK
  <2>2. rec.id = Len(records) + 1 /\ rec.row = work[h].row /\ rec.open OBVIOUS
  <2> HIDE DEF rec
  <2>3. records' = Append(records, rec) BY <1>2 DEF rec
  <2> QED BY <1>2, <2>1, <2>2, <2>3
<1>3. ASSUME NEW i \in DOMAIN records, work[h].at = records[i].id,
             records' = Attempted(i, [records[i] EXCEPT
                 !.count = @ + 1, !.dead = permanent \/ records[i].count + 1 >= MaxRetries])
      PROVE  \E rec \in Record :
                 /\ records' = Attempted(i, rec)
                 /\ rec.id = records[i].id /\ rec.row = records[i].row
                 /\ rec.open = records[i].open
  <2> DEFINE rec == [records[i] EXCEPT
                        !.count = @ + 1, !.dead = permanent \/ records[i].count + 1 >= MaxRetries]
  <2>1. records[i] \in Record BY DEF TypeOK
  <2>2. records[i].count + 1 \in Nat BY <2>1 DEF Record
  <2>3. (permanent \/ records[i].count + 1 >= MaxRetries) \in BOOLEAN OBVIOUS
  <2>4. rec \in Record BY <2>1, <2>2, <2>3, RecountType
  <2>5. rec.id = records[i].id /\ rec.row = records[i].row /\ rec.open = records[i].open
    BY <2>1 DEF Record
  <2>6. records' = Attempted(i, rec) BY <1>3
  <2> HIDE DEF rec
  <2> QED BY <2>4, <2>5, <2>6
<1> QED BY <1>1, <1>2, <1>3

(* What a record that moves to the end leaves as it was.                     *)
LEMMA AttemptedKeeps ==
    ASSUME records \in Seq(Record), NEW i \in DOMAIN records, NEW rec \in Record,
           rec.id = records[i].id, rec.row = records[i].row, rec.open = records[i].open,
           records' = Attempted(i, rec)
    PROVE  /\ Len(records') = Len(records)
           /\ \A k \in DOMAIN records : \E j \in DOMAIN records' :
                 /\ records'[j].id = records[k].id /\ records'[j].row = records[k].row
                 /\ records'[j].open = records[k].open
           /\ \A j \in DOMAIN records' : \E k \in DOMAIN records :
                 /\ records'[j].id = records[k].id /\ records'[j].row = records[k].row
                 /\ records'[j].open = records[k].open
           /\ (\A k, l \in DOMAIN records : records[k].id = records[l].id => k = l)
              => \A k, l \in DOMAIN records' : records'[k].id = records'[l].id => k = l
<1> DEFINE n == Len(records)
           old(k) == IF k < i THEN k ELSE IF k = n THEN i ELSE k + 1
           new(k) == IF k < i THEN k ELSE IF k = i THEN n ELSE k - 1
<1>1. n \in Nat /\ i \in 1..n /\ DOMAIN records = 1..n OBVIOUS
<1>2. /\ records' \in Seq(Record) /\ Len(records') = n
      /\ \A k \in 1..n : records'[k] = IF k < i THEN records[k]
                                       ELSE IF k = n THEN rec ELSE records[k + 1]
  BY AttemptedMoves
<1>3. DOMAIN records' = 1..n BY <1>2
<1> HIDE DEF n
<1>4. \A k \in 1..n : old(k) \in 1..n /\ new(k) \in 1..n /\ old(new(k)) = k BY <1>1
<1>5. \A k, l \in 1..n : old(k) = old(l) => k = l BY <1>1
<1>6. \A k \in 1..n : /\ records'[k].id = records[old(k)].id
                      /\ records'[k].row = records[old(k)].row
                      /\ records'[k].open = records[old(k)].open
  <2> TAKE k \in 1..n
  <2>1. CASE k < i BY <1>2, <2>1
  <2>2. CASE k >= i /\ k = n BY <1>1, <1>2, <2>2
  <2>3. CASE k >= i /\ k # n BY <1>1, <1>2, <2>3
  <2> QED BY <1>1, <2>1, <2>2, <2>3
<1> HIDE DEF old, new
<1>7. \A k \in 1..n : /\ records'[new(k)].id = records[k].id
                      /\ records'[new(k)].row = records[k].row
                      /\ records'[new(k)].open = records[k].open
  BY <1>4, <1>6
<1>8. Len(records') = Len(records) BY <1>2 DEF n
<1>9. \A k \in DOMAIN records : \E j \in DOMAIN records' :
         /\ records'[j].id = records[k].id /\ records'[j].row = records[k].row
         /\ records'[j].open = records[k].open
  BY <1>1, <1>3, <1>4, <1>7
<1>10. \A j \in DOMAIN records' : \E k \in DOMAIN records :
         /\ records'[j].id = records[k].id /\ records'[j].row = records[k].row
         /\ records'[j].open = records[k].open
  <2> TAKE j \in DOMAIN records'
  <2>1. old(j) \in DOMAIN records BY <1>1, <1>3, <1>4
  <2>2. /\ records'[j].id = records[old(j)].id /\ records'[j].row = records[old(j)].row
        /\ records'[j].open = records[old(j)].open
    BY <1>3, <1>6
  <2> QED BY <2>1, <2>2
<1>11. ASSUME \A k, l \in DOMAIN records : records[k].id = records[l].id => k = l,
              NEW k \in DOMAIN records', NEW l \in DOMAIN records',
              records'[k].id = records'[l].id
       PROVE  k = l
  <2>1. old(k) \in DOMAIN records /\ old(l) \in DOMAIN records BY <1>1, <1>3, <1>4, <1>11
  <2>2. records[old(k)].id = records[old(l)].id BY <1>3, <1>6, <1>11
  <2>3. old(k) = old(l) BY <1>11, <2>1, <2>2
  <2> QED BY <1>3, <1>5, <1>11, <2>3
<1> QED BY <1>8, <1>9, <1>10, <1>11

LEMMA PushType ==
    ASSUME AllocationsAssumption, TypeOK, HandlersNameRows, NEW h \in Handler, PushStep(h)
    PROVE  TypeOK'
<1> USE DEF pmo_side, keka_side
<1>1. work[h] \in Work BY DEF TypeOK
<1>2. work[h].row \in Row BY DEF PushStep, PushRead, PushSend, PushSave, PushResolve, FailFind,
         FailWrite, HandlersNameRows, PushPc, Named
<1>3. CASE PushRead(h)
  <2>1. work' \in [Handler -> Work] BY <1>3, EndPushType, GotoType DEF PushRead, PushPc
  <2>2. raced' \subseteq Row BY <1>2, <1>3 DEF PushRead, Racing, TypeOK
  <2> QED BY <1>3, <2>1, <2>2 DEF PushRead, TypeOK
<1>4. CASE PushSend(h)
  <2>1. work' \in [Handler -> Work] BY <1>4, GotoType DEF PushSend, PushPc
  <2>2. keka' \in [Row -> Nat] BY <1>2, <1>4 DEF PushSend, TypeOK
  <2>3. failures' \in 0..MaxFailures BY <1>4, AllocationsAssumption DEF PushSend, TypeOK
  <2>4. unheard' \subseteq Row BY <1>2, <1>4 DEF PushSend, TypeOK
  <2> QED BY <1>4, <2>1, <2>2, <2>3, <2>4 DEF PushSend, TypeOK
<1>5. CASE PushSave(h)
  <2>1. work' \in [Handler -> Work] BY <1>5, GotoType DEF PushSave, PushPc
  <2>2. [alloc[work[h].row] EXCEPT !.synced = TRUE] \in Allocation
    <3>1. alloc[work[h].row] \in Allocation BY <1>2 DEF TypeOK
    <3> QED BY <3>1 DEF Allocation
  <2>3. alloc' \in [Row -> Allocation] BY <1>2, <1>5, <2>2 DEF PushSave, TypeOK
  <2> QED BY <1>5, <2>1, <2>3 DEF PushSave, TypeOK
<1>6. CASE PushResolve(h)
  <2>1. work' \in [Handler -> Work] BY <1>6, EndPushType DEF PushResolve
  <2>2. records' \in Seq(Record)
    <3>1. \A i \in 1..Len(records) : records[i] \in Record BY DEF TypeOK
    <3>2. \A i \in 1..Len(records) : [records[i] EXCEPT !.open = FALSE] \in Record
      BY <3>1 DEF Record
    <3>3. records' \in [1..Len(records) -> Record]
      BY <1>6, <3>1, <3>2 DEF PushResolve, TypeOK
    <3> QED BY <3>3, SeqDef DEF TypeOK
  <2> QED BY <1>6, <2>1, <2>2 DEF PushResolve, TypeOK
<1>7. CASE FailFind(h)
  <2>1. PICK id \in IF OpenOf(work[h].row) = {} THEN {0} ELSE OpenOf(work[h].row) :
          work' = [work EXCEPT ![h] = [@ EXCEPT !.pc = "fail_write", !.at = id]]
    BY <1>7 DEF FailFind
  <2>2. id \in Nat
    <3>1. \A i \in DOMAIN records : records[i] \in Record BY DEF TypeOK
    <3>2. \A i \in DOMAIN records : records[i].id \in Nat BY <3>1 DEF Record
    <3> QED BY <2>1, <3>2 DEF OpenOf
  <2>3. [work[h] EXCEPT !.pc = "fail_write", !.at = id] \in Work BY <1>1, <2>2 DEF Work, PushPc
  <2> QED BY <1>7, <2>1, <2>3 DEF FailFind, TypeOK
<1>8. CASE FailWrite(h)
  <2>1. work' \in [Handler -> Work] BY <1>8, EndPushType DEF FailWrite
  <2>2. records' \in Seq(Record)
    <3>1. records \in Seq(Record) BY DEF TypeOK
    <3>2. CASE \E rec \in Record : records' = Append(records, rec) BY <3>1, <3>2
    <3>3. CASE \E i \in DOMAIN records, rec \in Record : records' = Attempted(i, rec)
      BY <3>1, <3>3, AttemptedMoves
    <3> QED BY <1>2, <1>8, <3>2, <3>3, FailWriteRecords
  <2> QED BY <1>8, <2>1, <2>2 DEF FailWrite, TypeOK
<1> QED BY <1>3, <1>4, <1>5, <1>6, <1>7, <1>8 DEF PushStep

LEMMA StartType ==
    ASSUME AllocationsAssumption, TypeOK, HandlersNameRows, NEW h \in Handler,
           Begin(h) \/ CronStart(h)
    PROVE  TypeOK'
<1> USE DEF pmo_side, keka_side
<1>1. ASSUME NEW actor \in Person, NEW p \in Project, NEW n \in Hours, AddPlan(h, actor, p, n)
      PROVE  TypeOK'
  <2>1. PICK o \in Outcome :
          work' = [work EXCEPT ![h] = [Idle EXCEPT !.pc = "add_check", !.project = p,
                                                  !.actor = actor, !.hours = n, !.outcome = o]]
    BY <1>1, OutcomesType DEF AddPlan, Outcome
  <2>2. [Idle EXCEPT !.pc = "add_check", !.project = p, !.actor = actor, !.hours = n,
                     !.outcome = o] \in Work
    BY DEF Idle, Work, RequestPc
  <2> QED BY <1>1, <2>1, <2>2, RequestedType DEF AddPlan, TypeOK
<1>2. ASSUME NEW actor \in Person, NEW r \in Row, NEW n \in Hours \cup {0}, NEW dates \in BOOLEAN,
             UpdateRead(h, actor, r, n, dates)
      PROVE  TypeOK'
  <2>1. PICK o \in Outcome :
          work' = [work EXCEPT ![h] = [Idle EXCEPT !.pc = "update_write", !.row = r,
                                                  !.actor = actor, !.hours = n, !.outcome = o]]
    BY <1>2, OutcomesType DEF UpdateRead, Outcome
  <2>2. [Idle EXCEPT !.pc = "update_write", !.row = r, !.actor = actor, !.hours = n,
                     !.outcome = o] \in Work
    BY DEF Idle, Work, RequestPc
  <2> QED BY <1>2, <2>1, <2>2, RequestedType DEF UpdateRead, TypeOK
<1>3. ASSUME NEW actor \in Person, NEW r \in Row, NEW pc \in {"approve_write", "reject_write"},
             DecideRead(h, actor, r, pc)
      PROVE  TypeOK'
  <2>1. [Idle EXCEPT !.pc = pc, !.row = r, !.actor = actor] \in Work
    BY DEF Idle, Work, RequestPc, Outcome
  <2> QED BY <1>3, <2>1, RequestedType DEF DecideRead, TypeOK
<1>4. ASSUME NEW r \in Row, PushForTimesheet(h, r) PROVE TypeOK'
  <2>1. Pushes(r, {}) \in Work BY PushesType
  <2> QED BY <1>4, <2>1, CalledType DEF PushForTimesheet, TypeOK
<1>5. ASSUME NEW i \in DOMAIN records, ForceRetry(h, i) PROVE TypeOK'
  <2>1. records[i] \in Record BY DEF TypeOK
  <2>2. Pushes(records[i].row, {}) \in Work BY <2>1, PushesType DEF Record
  <2>3. [records[i] EXCEPT !.count = 0, !.dead = FALSE] \in Record BY <2>1 DEF Record
  <2>4. records' \in Seq(Record) BY <1>5, <2>3, AttemptedMoves DEF ForceRetry, TypeOK
  <2> QED BY <1>5, <2>2, <2>4, CalledType DEF ForceRetry, TypeOK
<1>6. CASE CronStart(h)
  <2>1. PICK b \in Retried : work' = [work EXCEPT ![h] = Pushes(b[2], Retried \ {b})]
    BY <1>6 DEF CronStart
  <2>2. Pushes(b[2], Retried \ {b}) \in Work BY RetriedType, PushesType
  <2> QED BY <1>6, <2>1, <2>2 DEF CronStart, TypeOK
<1> QED BY <1>1, <1>2, <1>3, <1>4, <1>5, <1>6 DEF Begin

LEMMA RemoveType ==
    ASSUME AllocationsAssumption, TypeOK, NEW r \in Row, RemoveMember(r)
    PROVE  TypeOK'
<1>1. alloc[r] \in Allocation BY DEF TypeOK
<1>2. [alloc[r] EXCEPT !.status = "Removed"] \in Allocation BY <1>1 DEF Allocation
<1> QED BY <1>2, RequestedType DEF RemoveMember, TypeOK, keka_side

-----------------------------------------------------------------------------
(* What the actions do, in the terms that the invariant needs.               *)

LEMMA GotoFields ==
    ASSUME TypeOK, NEW h \in Handler, NEW pc, Goto(h, pc)
    PROVE  /\ \A g \in Handler \ {h} : work'[g] = work[g]
           /\ work'[h].pc = pc /\ work'[h].row = work[h].row
           /\ work'[h].project = work[h].project
           /\ work'[h].actor = work[h].actor /\ work'[h].batch = work[h].batch
           /\ work'[h].hours = work[h].hours /\ work'[h].outcome = work[h].outcome
BY DEF TypeOK, Goto, Work

LEMMA EndPushFields ==
    ASSUME TypeOK, NEW h \in Handler, EndPush(h)
    PROVE  /\ \A g \in Handler \ {h} : work'[g] = work[g]
           /\ \/ work[h].batch = {} /\ work'[h].pc = "idle" /\ work'[h].batch = {}
              \/ \E b \in work[h].batch :
                    /\ b[2] \in Row /\ work'[h].pc = "push_read" /\ work'[h].row = b[2]
                    /\ work'[h].batch = work[h].batch \ {b}
<1>1. work \in [Handler -> Work] /\ work[h].batch \in SUBSET (Nat \X Row) BY DEF TypeOK, Work
<1>2. CASE work[h].batch = {} /\ work' = [work EXCEPT ![h] = Idle]
  <2>1. Idle.pc = "idle" /\ Idle.batch = {} BY DEF Idle
  <2> QED BY <1>1, <1>2, <2>1
<1>3. ASSUME NEW b \in work[h].batch, b \in Nat \X Row,
             work' = [work EXCEPT ![h] = Pushes(b[2], work[h].batch \ {b})]
      PROVE  /\ \A g \in Handler \ {h} : work'[g] = work[g]
             /\ b[2] \in Row /\ work'[h].pc = "push_read" /\ work'[h].row = b[2]
             /\ work'[h].batch = work[h].batch \ {b}
  <2>1. /\ Pushes(b[2], work[h].batch \ {b}).pc = "push_read"
        /\ Pushes(b[2], work[h].batch \ {b}).row = b[2]
        /\ Pushes(b[2], work[h].batch \ {b}).batch = work[h].batch \ {b}
    BY DEF Pushes, Idle
  <2> QED BY <1>1, <1>3, <2>1
<1> QED BY <1>2, <1>3, EndPushWork

LEMMA AnswerFields ==
    ASSUME TypeOK, NEW h \in Handler, NEW r \in Row, NEW status, Answer(h, r, status)
    PROVE  /\ \A g \in Handler \ {h} : work'[g] = work[g]
           /\ work'[h].batch = {}
           /\ status = "Active" => work'[h].pc = "push_read" /\ work'[h].row = r
           /\ status # "Active" => work'[h].pc = "idle"
<1>1. /\ Pushes(r, {}).pc = "push_read" /\ Pushes(r, {}).row = r /\ Pushes(r, {}).batch = {}
      /\ Idle.pc = "idle" /\ Idle.batch = {}
  BY DEF Pushes, Idle
<1> QED BY <1>1 DEF Answer, TypeOK

(* Who has decided on a row has not asked for it.                            *)
Apart(a) == a.approver # Nobody => a.asker # a.approver

LEMMA SettledApart ==
    ASSUME NEW row \in Allocation, NEW o \in Outcome, NEW actor \in Person
    PROVE  /\ Settled(row, o, actor) \in Allocation
           /\ Settled(row, o, actor).project = row.project
           /\ Settled(row, o, actor).synced = row.synced
           /\ Settled(row, o, actor).status \in {row.status, "Active", "Pending"}
           /\ Settled(row, o, actor) = row \/ Apart(Settled(row, o, actor))
           /\ row.approver = Nobody => Apart(Settled(row, o, actor))
<1> DEFINE a == Settled(row, o, actor)
<1>1. /\ a \in Allocation /\ a.project = row.project /\ a.synced = row.synced
      /\ o = "none" => a = row
      /\ o = "pending" => a.status = "Pending" /\ a.approver = Nobody
      /\ o \in {"active", "override"} => /\ a.status = "Active" /\ a.approver = actor
                                         /\ a.asker = Nobody
  BY SettledType
<1> HIDE DEF a
<1>2. actor # Nobody BY NobodyAssumption
<1>3. CASE o = "none" BY <1>1, <1>3 DEF a, Apart
<1>4. CASE o = "pending" BY <1>1, <1>4 DEF a, Apart
<1>5. CASE o \in {"active", "override"} BY <1>1, <1>2, <1>5 DEF a, Apart
<1> QED BY <1>3, <1>4, <1>5 DEF Outcome

LEMMA RequestWrites ==
    ASSUME TypeOK, HandlersNameRows, NEW h \in Handler, RequestStep(h), ~AddCheck(h)
    PROVE  \E r \in Row, a \in Allocation :
              /\ alloc' = [alloc EXCEPT ![r] = a] /\ Answer(h, r, a.status)
              /\ UNCHANGED <<calls, crossed, keka_side>>
              /\ \/ /\ work[h].pc = "add_create" /\ alloc[r].status = "free"
                    /\ a.project = work[h].project /\ Apart(a)
                 \/ /\ work[h].pc = "update_write" /\ r = work[h].row
                    /\ a.project = alloc[r].project /\ a.synced = alloc[r].synced
                    /\ a.status \in {alloc[r].status, "Active", "Pending"}
                    /\ \/ a.asker = alloc[r].asker /\ a.approver = alloc[r].approver
                       \/ Apart(a)
                 \/ /\ work[h].pc \in {"approve_write", "reject_write"} /\ r = work[h].row
                    /\ a.project = alloc[r].project /\ a.synced = alloc[r].synced
                    /\ a.status \in {"Active", "Rejected"}
                    /\ a.asker = alloc[r].asker /\ a.approver = work[h].actor
<1>1. work[h] \in Work BY DEF TypeOK
<1>2. CASE AddCreate(h)
  <2> DEFINE new == [Free EXCEPT !.project = work[h].project, !.hours = work[h].hours]
             a == Settled(new, work[h].outcome, work[h].actor)
  <2>1. PICK r \in Row : /\ alloc[r].status = "free" /\ alloc' = [alloc EXCEPT ![r] = a]
                         /\ Answer(h, r, alloc'[r].status)
    BY <1>2 DEF AddCreate
  <2>2. /\ new \in Allocation /\ new.project = work[h].project
        /\ new.approver = Nobody
    BY <1>1 DEF Free, Allocation, Work
  <2>3. work[h].pc = "add_create" /\ work[h].actor \in Person
    BY <1>2 DEF AddCreate, HandlersNameRows, RequestPc
  <2>4. work[h].outcome \in Outcome BY <1>1 DEF Work
  <2> HIDE DEF new
  <2>5. a \in Allocation /\ a.project = work[h].project /\ Apart(a)
    BY <2>2, <2>3, <2>4, SettledApart
  <2> HIDE DEF a
  <2>6. alloc'[r] = a BY <2>1 DEF TypeOK
  <2> QED BY <1>2, <2>1, <2>3, <2>5, <2>6 DEF AddCreate
<1>3. CASE UpdateWrite(h)
  <2> DEFINE r == work[h].row
             edited == IF work[h].hours = 0 THEN alloc[r]
                       ELSE [alloc[r] EXCEPT !.hours = work[h].hours]
             a == Settled(edited, work[h].outcome, work[h].actor)
  <2>1. /\ r \in Row /\ work[h].pc = "update_write" /\ work[h].actor \in Person
    BY <1>3 DEF UpdateWrite, HandlersNameRows, Named, RequestPc
  <2>2. alloc[r] \in Allocation BY <2>1 DEF TypeOK
  <2>3. /\ edited \in Allocation /\ edited.project = alloc[r].project
        /\ edited.synced = alloc[r].synced /\ edited.status = alloc[r].status
        /\ edited.asker = alloc[r].asker /\ edited.approver = alloc[r].approver
    BY <1>1, <2>2 DEF Allocation, Work
  <2>4. alloc' = [alloc EXCEPT ![r] = a] /\ Answer(h, r, alloc'[r].status)
    BY <1>3 DEF UpdateWrite
  <2>5. work[h].outcome \in Outcome BY <1>1 DEF Work
  <2> HIDE DEF edited
  <2>6. /\ a \in Allocation /\ a.project = alloc[r].project /\ a.synced = alloc[r].synced
        /\ a.status \in {alloc[r].status, "Active", "Pending"}
        /\ (a.asker = alloc[r].asker /\ a.approver = alloc[r].approver) \/ Apart(a)
    BY <2>1, <2>3, <2>5, SettledApart
  <2> HIDE DEF a
  <2>7. alloc'[r] = a BY <2>1, <2>4 DEF TypeOK
  <2> QED BY <1>3, <2>1, <2>4, <2>6, <2>7 DEF UpdateWrite
<1>4. ASSUME NEW pc \in {"approve_write", "reject_write"}, NEW status \in {"Active", "Rejected"},
             DecideWrite(h, pc, status)
      PROVE  \E a \in Allocation :
                /\ work[h].row \in Row
                /\ alloc' = [alloc EXCEPT ![work[h].row] = a] /\ Answer(h, work[h].row, a.status)
                /\ a.project = alloc[work[h].row].project /\ a.synced = alloc[work[h].row].synced
                /\ a.status \in {"Active", "Rejected"}
                /\ a.asker = alloc[work[h].row].asker /\ a.approver = work[h].actor
                /\ work[h].pc = pc /\ UNCHANGED <<calls, crossed, keka_side>>
  <2> DEFINE r == work[h].row
             a == [alloc[r] EXCEPT !.status = status, !.approver = work[h].actor]
  <2>1. r \in Row /\ work[h].actor \in Person
    BY <1>4 DEF DecideWrite, HandlersNameRows, Named, RequestPc
  <2>2. alloc[r] \in Allocation BY <2>1 DEF TypeOK
  <2>3. /\ a \in Allocation /\ a.project = alloc[r].project /\ a.synced = alloc[r].synced
        /\ a.status = status /\ a.asker = alloc[r].asker /\ a.approver = work[h].actor
    BY <2>1, <2>2 DEF Allocation
  <2>4. alloc' = [alloc EXCEPT ![r] = a] /\ Answer(h, r, status) BY <1>4 DEF DecideWrite
  <2> HIDE DEF a
  <2> QED BY <1>4, <2>1, <2>3, <2>4 DEF DecideWrite
<1> QED BY <1>2, <1>3, <1>4 DEF RequestStep, ApproveWrite, RejectWrite

LEMMA RequestBegins ==
    ASSUME AllocationsAssumption, TypeOK, NEW h \in Handler, Begin(h),
           ~\E r \in Row : PushForTimesheet(h, r), ~\E i \in DOMAIN records : ForceRetry(h, i)
    PROVE  /\ work[h].pc = "idle" /\ UNCHANGED <<alloc, keka_side>>
           /\ crossed' = (crossed \/ \E g \in Handler : work[g].pc \in RequestPc)
           /\ \A g \in Handler \ {h} : work'[g] = work[g]
           /\ work'[h].batch = {} /\ work'[h].actor \in Person
           /\ \/ work'[h].pc = "add_check"
              \/ work'[h].pc = "update_write" /\ work'[h].row \in Row /\ OnTeam(work'[h].row)
              \/ /\ work'[h].pc \in {"approve_write", "reject_write"} /\ work'[h].row \in Row
                 /\ alloc[work'[h].row].status = "Pending"
                 /\ alloc[work'[h].row].asker # work'[h].actor
<1>1. ASSUME NEW w, work' = [work EXCEPT ![h] = w]
      PROVE  work'[h] = w /\ \A g \in Handler \ {h} : work'[g] = work[g]
  BY <1>1 DEF TypeOK
<1>2. ASSUME NEW actor \in Person, NEW p \in Project, NEW n \in Hours, AddPlan(h, actor, p, n)
      PROVE  /\ \A g \in Handler \ {h} : work'[g] = work[g]
             /\ work'[h].batch = {} /\ work'[h].actor \in Person /\ work'[h].pc = "add_check"
  <2>1. PICK o : work' = [work EXCEPT ![h] =
            [Idle EXCEPT !.pc = "add_check", !.project = p, !.actor = actor, !.hours = n,
                         !.outcome = o]]
    BY <1>2 DEF AddPlan
  <2> DEFINE w == [Idle EXCEPT !.pc = "add_check", !.project = p, !.actor = actor, !.hours = n,
                               !.outcome = o]
  <2>2. w.batch = {} /\ w.actor = actor /\ w.pc = "add_check" BY DEF Idle
  <2> HIDE DEF w
  <2> QED BY <1>1, <2>1, <2>2 DEF w
<1>3. ASSUME NEW actor \in Person, NEW r \in Row, NEW n \in Hours \cup {0}, NEW dates \in BOOLEAN,
             UpdateRead(h, actor, r, n, dates)
      PROVE  /\ \A g \in Handler \ {h} : work'[g] = work[g]
             /\ work'[h].batch = {} /\ work'[h].actor \in Person
             /\ work'[h].pc = "update_write" /\ work'[h].row = r /\ OnTeam(r)
  <2>1. PICK o : work' = [work EXCEPT ![h] =
            [Idle EXCEPT !.pc = "update_write", !.row = r, !.actor = actor, !.hours = n,
                         !.outcome = o]]
    BY <1>3 DEF UpdateRead
  <2> DEFINE w == [Idle EXCEPT !.pc = "update_write", !.row = r, !.actor = actor, !.hours = n,
                               !.outcome = o]
  <2>2. w.batch = {} /\ w.actor = actor /\ w.pc = "update_write" /\ w.row = r BY DEF Idle
  <2>3. OnTeam(r) BY <1>3 DEF UpdateRead
  <2> HIDE DEF w
  <2> QED BY <1>1, <2>1, <2>2, <2>3 DEF w
<1>4. ASSUME NEW actor \in Person, NEW r \in Row, NEW pc \in {"approve_write", "reject_write"},
             DecideRead(h, actor, r, pc)
      PROVE  /\ \A g \in Handler \ {h} : work'[g] = work[g]
             /\ work'[h].batch = {} /\ work'[h].actor \in Person
             /\ work'[h].pc = pc /\ work'[h].row = r
             /\ alloc[r].status = "Pending" /\ alloc[r].asker # work'[h].actor
  <2> DEFINE w == [Idle EXCEPT !.pc = pc, !.row = r, !.actor = actor]
  <2>1. w.batch = {} /\ w.actor = actor /\ w.pc = pc /\ w.row = r BY DEF Idle
  <2>2. work' = [work EXCEPT ![h] = w] /\ alloc[r].status = "Pending" /\ alloc[r].asker # actor
    BY <1>4 DEF DecideRead
  <2> HIDE DEF w
  <2> QED BY <1>1, <2>1, <2>2
<1>5. CASE \E actor \in Person, p \in Project, n \in Hours : AddPlan(h, actor, p, n)
  <2>1. work[h].pc = "idle" /\ UNCHANGED <<alloc, keka_side>> /\ Requested
    BY <1>5 DEF AddPlan
  <2> QED BY <1>2, <1>5, <2>1 DEF Requested
<1>6. CASE \E actor \in Person, r \in Row, n \in Hours \cup {0}, dates \in BOOLEAN :
              UpdateRead(h, actor, r, n, dates)
  <2>1. work[h].pc = "idle" /\ UNCHANGED <<alloc, keka_side>> /\ Requested
    BY <1>6 DEF UpdateRead
  <2> QED BY <1>3, <1>6, <2>1 DEF Requested
<1>7. CASE \E actor \in Person, r \in Row, pc \in {"approve_write", "reject_write"} :
              DecideRead(h, actor, r, pc)
  <2>1. work[h].pc = "idle" /\ UNCHANGED <<alloc, keka_side>> /\ Requested
    BY <1>7 DEF DecideRead
  <2> QED BY <1>4, <1>7, <2>1 DEF Requested
<1> QED BY <1>5, <1>6, <1>7 DEF Begin

(* The same records, in another order or with other counts.                  *)
Same(rec, old) == rec.id = old.id /\ rec.row = old.row /\ rec.open = old.open
RecordsStay ==
    /\ Len(records') = Len(records)
    /\ \A k \in DOMAIN records : \E j \in DOMAIN records' : Same(records'[j], records[k])
    /\ \A j \in DOMAIN records' : \E k \in DOMAIN records : Same(records'[j], records[k])
    /\ (\A k, l \in DOMAIN records : records[k].id = records[l].id => k = l)
       => \A k, l \in DOMAIN records' : records'[k].id = records'[l].id => k = l

LEMMA AttemptedStay ==
    ASSUME TypeOK, NEW i \in DOMAIN records, NEW rec \in Record, Same(rec, records[i]),
           records' = Attempted(i, rec)
    PROVE  RecordsStay
<1>1. records \in Seq(Record) BY DEF TypeOK
<1> QED BY <1>1, AttemptedKeeps DEF RecordsStay, Same

LEMMA UnchangedStay == ASSUME records' = records PROVE RecordsStay
BY DEF RecordsStay, Same

LEMMA PushBegins ==
    ASSUME TypeOK, RecordsNameRows, NEW h \in Handler,
           \/ CronStart(h)
           \/ \E r \in Row : PushForTimesheet(h, r)
           \/ \E i \in DOMAIN records : ForceRetry(h, i)
    PROVE  /\ work[h].pc = "idle" /\ UNCHANGED <<alloc, crossed, keka, failures, raced, unheard>>
           /\ \A g \in Handler \ {h} : work'[g] = work[g]
           /\ work'[h].pc = "push_read" /\ Named(work'[h].row)
           /\ \A b \in work'[h].batch : Named(b[2])
           /\ RecordsStay
<1>1. ASSUME NEW r \in Row, NEW batch, work' = [work EXCEPT ![h] = Pushes(r, batch)]
      PROVE  /\ \A g \in Handler \ {h} : work'[g] = work[g]
             /\ work'[h].pc = "push_read" /\ work'[h].row = r /\ work'[h].batch = batch
  <2>1. /\ Pushes(r, batch).pc = "push_read" /\ Pushes(r, batch).row = r
        /\ Pushes(r, batch).batch = batch
    BY DEF Pushes, Idle
  <2> QED BY <1>1, <2>1 DEF TypeOK
<1>2. CASE CronStart(h)
  <2>1. PICK b \in Retried : work' = [work EXCEPT ![h] = Pushes(b[2], Retried \ {b})]
    BY <1>2 DEF CronStart
  <2>2. \A c \in Retried : c[2] \in Row /\ Named(c[2])
    <3>1. \A c \in Retried : \E i \in DOMAIN records : c = <<i, records[i].row>> BY DEF Retried
    <3> QED BY <3>1 DEF RecordsNameRows, Named
  <2>3. work[h].pc = "idle" /\ UNCHANGED <<pmo_side, keka_side>> BY <1>2 DEF CronStart
  <2>4. /\ \A g \in Handler \ {h} : work'[g] = work[g]
        /\ work'[h].pc = "push_read" /\ work'[h].row = b[2] /\ work'[h].batch = Retried \ {b}
    BY <1>1, <2>1, <2>2
  <2>5. RecordsStay BY <2>3, UnchangedStay DEF keka_side
  <2> QED BY <2>1, <2>2, <2>3, <2>4, <2>5 DEF pmo_side, keka_side
<1>3. ASSUME NEW r \in Row, PushForTimesheet(h, r)
      PROVE  /\ work[h].pc = "idle" /\ UNCHANGED <<alloc, crossed, keka_side>> /\ Named(r)
             /\ work' = [work EXCEPT ![h] = Pushes(r, {})]
  BY <1>3 DEF PushForTimesheet, IsActive, Named
<1>4. ASSUME NEW i \in DOMAIN records, ForceRetry(h, i)
      PROVE  /\ work[h].pc = "idle" /\ UNCHANGED <<alloc, crossed, keka, failures, raced, unheard>>
             /\ records[i].row \in Row /\ Named(records[i].row)
             /\ work' = [work EXCEPT ![h] = Pushes(records[i].row, {})]
             /\ RecordsStay
  <2>1. records[i] \in Record BY DEF TypeOK
  <2> DEFINE rec == [records[i] EXCEPT !.count = 0, !.dead = FALSE]
  <2>2. rec \in Record /\ Same(rec, records[i]) BY <2>1 DEF Record, Same
  <2>3. records' = Attempted(i, rec) BY <1>4 DEF ForceRetry
  <2> HIDE DEF rec
  <2>4. RecordsStay BY <2>2, <2>3, AttemptedStay
  <2> QED BY <1>4, <2>4 DEF ForceRetry, RecordsNameRows, Named
<1>5. CASE \E r \in Row : PushForTimesheet(h, r)
  BY <1>1, <1>3, <1>5, UnchangedStay DEF keka_side
<1>6. CASE \E i \in DOMAIN records : ForceRetry(h, i) BY <1>1, <1>4, <1>6
<1> QED BY <1>2, <1>5, <1>6

(* The kinds of steps.                                                       *)
RequestStart(h) ==
    Begin(h) /\ ~(\E r \in Row : PushForTimesheet(h, r)) /\ ~(\E i \in DOMAIN records : ForceRetry(h, i))
PushStart(h) ==
    \/ CronStart(h)
    \/ \E r \in Row : PushForTimesheet(h, r)
    \/ \E i \in DOMAIN records : ForceRetry(h, i)

LEMMA Kinds ==
    ASSUME Next
    PROVE  \/ \E r \in Row : RemoveMember(r)
           \/ \E h \in Handler :
                 \/ AddCheck(h) \/ (RequestStep(h) /\ ~AddCheck(h))
                 \/ RequestStart(h) \/ PushStart(h)
                 \/ PushRead(h) \/ PushSend(h) \/ PushSave(h) \/ PushResolve(h)
                 \/ FailFind(h) \/ FailWrite(h)
BY DEF Next, RequestStart, PushStart, PushStep

-----------------------------------------------------------------------------
(* Handlers and records name rows that are there.                            *)

LEMMA NamedStays ==
    ASSUME AllocationsAssumption, TypeOK, HandlersNameRows, Next, NEW q, Named(q)
    PROVE  Named(q)'
<1>1. q \in Row /\ alloc[q].status # "free" BY DEF Named
<1> SUFFICES alloc'[q].status # "free" BY <1>1 DEF Named
<1>2. ASSUME NEW r \in Row, RemoveMember(r) PROVE alloc'[q].status # "free"
  <2>1. alloc[r] \in Allocation BY DEF TypeOK
  <2>2. [alloc[r] EXCEPT !.status = "Removed"].status = "Removed" BY <2>1 DEF Allocation
  <2> QED BY <1>1, <1>2, <2>2 DEF RemoveMember, TypeOK
<1>3. ASSUME NEW h \in Handler, RequestStep(h), ~AddCheck(h) PROVE alloc'[q].status # "free"
  <2>1. PICK r \in Row, a \in Allocation :
          /\ alloc' = [alloc EXCEPT ![r] = a]
          /\ alloc[r].status = "free" \/ a.status \in {alloc[r].status, "Active", "Pending", "Rejected"}
    BY <1>3, RequestWrites
  <2> QED BY <1>1, <2>1 DEF TypeOK
<1>4. ASSUME NEW h \in Handler, PushSave(h) PROVE alloc'[q].status # "free"
  <2>1. \A r \in Row : [alloc[r] EXCEPT !.synced = TRUE].status = alloc[r].status
    BY DEF TypeOK, Allocation
  <2> QED BY <1>1, <1>4, <2>1 DEF PushSave, TypeOK
<1>5. ASSUME alloc' = alloc PROVE alloc'[q].status # "free" BY <1>1, <1>5
<1>6. ASSUME NEW h \in Handler, RequestStart(h) \/ PushStart(h) PROVE alloc' = alloc
  BY <1>6 DEF RequestStart, PushStart, Begin, AddPlan, UpdateRead, DecideRead, PushForTimesheet,
     ForceRetry, CronStart, pmo_side
<1>7. ASSUME NEW h \in Handler, \/ AddCheck(h) \/ PushRead(h) \/ PushSend(h) \/ PushResolve(h)
                                \/ FailFind(h) \/ FailWrite(h)
      PROVE  alloc' = alloc
  BY <1>7 DEF AddCheck, PushRead, PushSend, PushResolve, FailFind, FailWrite, pmo_side
<1> QED BY <1>2, <1>3, <1>4, <1>5, <1>6, <1>7, Kinds

(* The handler that takes a step names rows that are there.                  *)
HandlerNamesRows(h) ==
    /\ work[h].pc \in RequestPc => work[h].actor \in Person
    /\ work[h].pc \in PushPc \cup {"update_write", "approve_write", "reject_write"} =>
          Named(work[h].row)
    /\ \A b \in work[h].batch : Named(b[2])

LEMMA EndPushNames ==
    ASSUME TypeOK, HandlersNameRows, NEW h \in Handler, EndPush(h),
           \A q : Named(q) => Named(q)'
    PROVE  (\A g \in Handler \ {h} : work'[g] = work[g]) /\ HandlerNamesRows(h)'
<1>1. \A b \in work[h].batch : Named(b[2])' BY DEF HandlersNameRows
<1>2. CASE work[h].batch = {} /\ work'[h].pc = "idle" /\ work'[h].batch = {}
  BY <1>2, EndPushFields DEF HandlerNamesRows, RequestPc, PushPc
<1>3. CASE \E b \in work[h].batch :
              /\ b[2] \in Row /\ work'[h].pc = "push_read" /\ work'[h].row = b[2]
              /\ work'[h].batch = work[h].batch \ {b}
  BY <1>1, <1>3, EndPushFields DEF HandlerNamesRows, RequestPc, PushPc
<1> QED BY <1>2, <1>3, EndPushFields

LEMMA GotoNames ==
    ASSUME TypeOK, HandlersNameRows, NEW h \in Handler, NEW pc \in PushPc, Goto(h, pc),
           work[h].pc \in PushPc, \A q : Named(q) => Named(q)'
    PROVE  (\A g \in Handler \ {h} : work'[g] = work[g]) /\ HandlerNamesRows(h)'
<1>1. Named(work[h].row) /\ \A b \in work[h].batch : Named(b[2]) BY DEF HandlersNameRows
<1> QED BY <1>1, GotoFields DEF HandlerNamesRows, PushPc, RequestPc

LEMMA HandlersStep ==
    ASSUME AllocationsAssumption, TypeOK, HandlersNameRows, RecordsNameRows, Next
    PROVE  HandlersNameRows'
<1>1. \A q : Named(q) => Named(q)' BY NamedStays
<1>2. ASSUME NEW h \in Handler, \A g \in Handler \ {h} : work'[g] = work[g], HandlerNamesRows(h)'
      PROVE  HandlersNameRows'
  <2> SUFFICES ASSUME NEW g \in Handler PROVE HandlerNamesRows(g)'
    BY DEF HandlersNameRows, HandlerNamesRows
  <2>1. CASE g = h BY <1>2, <2>1
  <2>2. CASE g # h
    <3>1. HandlerNamesRows(g) BY DEF HandlersNameRows, HandlerNamesRows
    <3> QED BY <1>1, <1>2, <2>2, <3>1 DEF HandlerNamesRows
  <2> QED BY <2>1, <2>2
<1>3. ASSUME NEW r \in Row, RemoveMember(r) PROVE HandlersNameRows'
  BY <1>1, <1>3 DEF RemoveMember, HandlersNameRows
<1>4. ASSUME NEW h \in Handler, AddCheck(h) PROVE HandlersNameRows'
  <2>1. work[h].pc = "add_check" /\ (Goto(h, "add_create") \/ work' = [work EXCEPT ![h] = Idle])
    BY <1>4 DEF AddCheck
  <2>2. CASE Goto(h, "add_create")
    <3>1. /\ work'[h].pc = "add_create" /\ work'[h].actor \in Person
          /\ \A b \in work'[h].batch : Named(b[2])
      BY <2>1, <2>2, GotoFields DEF HandlersNameRows, RequestPc
    <3>2. \A g \in Handler \ {h} : work'[g] = work[g] BY <2>2, GotoFields
    <3>3. HandlerNamesRows(h)' BY <1>1, <3>1 DEF HandlerNamesRows, PushPc
    <3> QED BY <1>2, <3>2, <3>3
  <2>3. CASE work' = [work EXCEPT ![h] = Idle]
    <3>1. Idle.pc = "idle" /\ Idle.batch = {} BY DEF Idle
    <3>2. work'[h] = Idle /\ \A g \in Handler \ {h} : work'[g] = work[g] BY <2>3 DEF TypeOK
    <3>3. HandlerNamesRows(h)' BY <3>1, <3>2 DEF HandlerNamesRows, PushPc, RequestPc
    <3> QED BY <1>2, <3>2, <3>3
  <2> QED BY <2>1, <2>2, <2>3
<1>5. ASSUME NEW h \in Handler, RequestStep(h), ~AddCheck(h) PROVE HandlersNameRows'
  <2>1. PICK r \in Row, a \in Allocation :
          alloc' = [alloc EXCEPT ![r] = a] /\ Answer(h, r, a.status)
    BY <1>5, RequestWrites
  <2>2. alloc'[r] = a BY <2>1 DEF TypeOK
  <2>3. /\ \A g \in Handler \ {h} : work'[g] = work[g]
        /\ work'[h].batch = {}
        /\ \/ work'[h].pc = "idle"
           \/ work'[h].pc = "push_read" /\ work'[h].row = r /\ a.status = "Active"
    BY <2>1, AnswerFields
  <2>4. HandlerNamesRows(h)' BY <2>2, <2>3 DEF HandlerNamesRows, Named, PushPc, RequestPc
  <2> QED BY <1>2, <2>3, <2>4
<1>6. ASSUME NEW h \in Handler, RequestStart(h) PROVE HandlersNameRows'
  <2>1. /\ UNCHANGED alloc /\ \A g \in Handler \ {h} : work'[g] = work[g]
        /\ work'[h].batch = {} /\ work'[h].actor \in Person
        /\ \/ work'[h].pc = "add_check"
           \/ /\ work'[h].pc \in {"update_write", "approve_write", "reject_write"}
              /\ Named(work'[h].row)
    BY <1>6, RequestBegins DEF RequestStart, OnTeam, Named
  <2>2. HandlerNamesRows(h)' BY <1>1, <2>1 DEF HandlerNamesRows, PushPc, RequestPc
  <2> QED BY <1>2, <2>1, <2>2
<1>7. ASSUME NEW h \in Handler, PushStart(h) PROVE HandlersNameRows'
  <2>1. /\ \A g \in Handler \ {h} : work'[g] = work[g]
        /\ work'[h].pc = "push_read" /\ Named(work'[h].row)
        /\ \A b \in work'[h].batch : Named(b[2])
    BY <1>7, PushBegins DEF PushStart
  <2>2. HandlerNamesRows(h)' BY <1>1, <2>1 DEF HandlerNamesRows, PushPc, RequestPc
  <2> QED BY <1>2, <2>1, <2>2
<1>8. ASSUME NEW h \in Handler, PushRead(h) \/ PushResolve(h) \/ FailWrite(h)
      PROVE  HandlersNameRows'
  <2>1. work[h].pc \in PushPc /\ (EndPush(h) \/ Goto(h, "push_send"))
    BY <1>8 DEF PushRead, PushResolve, FailWrite, PushPc
  <2>2. (\A g \in Handler \ {h} : work'[g] = work[g]) /\ HandlerNamesRows(h)'
    BY <1>1, <2>1, EndPushNames, GotoNames DEF PushPc
  <2> QED BY <1>2, <2>2
<1>9. ASSUME NEW h \in Handler, PushSend(h) \/ PushSave(h) PROVE HandlersNameRows'
  <2>1. work[h].pc \in PushPc /\ \E pc \in PushPc : Goto(h, pc)
    BY <1>9 DEF PushSend, PushSave, PushPc
  <2>2. (\A g \in Handler \ {h} : work'[g] = work[g]) /\ HandlerNamesRows(h)'
    BY <1>1, <2>1, GotoNames
  <2> QED BY <1>2, <2>2
<1>10. ASSUME NEW h \in Handler, FailFind(h) PROVE HandlersNameRows'
  <2>1. PICK id : work' = [work EXCEPT ![h] = [@ EXCEPT !.pc = "fail_write", !.at = id]]
    BY <1>10 DEF FailFind
  <2>2. /\ \A g \in Handler \ {h} : work'[g] = work[g]
        /\ work'[h].pc = "fail_write" /\ work'[h].row = work[h].row
        /\ work'[h].batch = work[h].batch
    BY <2>1 DEF TypeOK, Work
  <2>3. Named(work[h].row) /\ \A b \in work[h].batch : Named(b[2])
    BY <1>10 DEF FailFind, HandlersNameRows, PushPc
  <2>4. HandlerNamesRows(h)' BY <1>1, <2>2, <2>3 DEF HandlerNamesRows, PushPc, RequestPc
  <2> QED BY <1>2, <2>2, <2>4
<1> QED BY <1>3, <1>4, <1>5, <1>6, <1>7, <1>8, <1>9, <1>10, Kinds

(* What becomes of the records: they stay, those of a row are closed by a push
   that knows the row synced, or one is opened for the row of a push.         *)
Closes(h) ==
    /\ Len(records') = Len(records)
    /\ \A i \in DOMAIN records :
          /\ records'[i].id = records[i].id /\ records'[i].row = records[i].row
          /\ records'[i].open = (records[i].open /\ records[i].row # work[h].row)
Opens(h) ==
    /\ Len(records') = Len(records) + 1
    /\ \A i \in DOMAIN records : records'[i] = records[i]
    /\ records'[Len(records) + 1].id = Len(records) + 1
    /\ records'[Len(records) + 1].row = work[h].row
    /\ records'[Len(records) + 1].open

LEMMA ResolveCloses ==
    ASSUME TypeOK, NEW h \in Handler, PushResolve(h)
    PROVE  Closes(h)
<1>1. records' = [i \in DOMAIN records |->
          IF records[i].row = work[h].row THEN [records[i] EXCEPT !.open = FALSE] ELSE records[i]]
  BY DEF PushResolve
<1>2. \A i \in DOMAIN records : records[i] \in Record BY DEF TypeOK
<1>3. DOMAIN records = 1..Len(records) /\ Len(records) \in Nat BY DEF TypeOK
<1>4. DOMAIN records' = 1..Len(records) BY <1>1, <1>3
<1>5. Len(records') = Len(records)
  <2>1. \A i \in 1..Len(records) : [records[i] EXCEPT !.open = FALSE] \in Record
    BY <1>2, <1>3 DEF Record
  <2>2. records' \in [1..Len(records) -> Record] BY <1>1, <1>2, <1>3, <2>1
  <2>3. records' \in Seq(Record) BY <1>3, <2>2, SeqDef
  <2> QED BY <1>3, <1>4, <2>3
<1>6. ASSUME NEW i \in DOMAIN records
      PROVE  /\ records'[i].id = records[i].id /\ records'[i].row = records[i].row
             /\ records'[i].open = (records[i].open /\ records[i].row # work[h].row)
  <2>1. records[i] \in Record BY <1>2
  <2>2. /\ [records[i] EXCEPT !.open = FALSE].id = records[i].id
        /\ [records[i] EXCEPT !.open = FALSE].row = records[i].row
        /\ [records[i] EXCEPT !.open = FALSE].open = FALSE
    BY <2>1 DEF Record
  <2>3. records[i].open \in BOOLEAN BY <2>1 DEF Record
  <2>4. CASE records[i].row = work[h].row
    <3>1. records'[i] = [records[i] EXCEPT !.open = FALSE] BY <1>1, <2>4
    <3> QED BY <2>2, <2>4, <3>1
  <2>5. CASE records[i].row # work[h].row
    <3>1. records'[i] = records[i] BY <1>1, <2>5
    <3> QED BY <2>3, <2>5, <3>1
  <2> QED BY <2>4, <2>5
<1> QED BY <1>5, <1>6 DEF Closes

LEMMA FailWriteStays ==
    ASSUME TypeOK, HandlersNameRows, RecordsNameRows, NEW h \in Handler, FailWrite(h)
    PROVE  Opens(h) \/ (work[h].at # 0 /\ RecordsStay)
<1>1. work[h].row \in Row BY DEF FailWrite, HandlersNameRows, Named, PushPc
<1>2. records \in Seq(Record) BY DEF TypeOK
<1>3. CASE \E rec \in Record : /\ records' = Append(records, rec)
                               /\ rec.id = Len(records) + 1 /\ rec.row = work[h].row /\ rec.open
  <2>1. PICK rec \in Record : /\ records' = Append(records, rec)
                              /\ rec.id = Len(records) + 1 /\ rec.row = work[h].row /\ rec.open
    BY <1>3
  <2> QED BY <1>2, <2>1, AppendProperties DEF Opens
<1>4. CASE \E i \in DOMAIN records, rec \in Record :
              /\ work[h].at = records[i].id /\ records' = Attempted(i, rec)
              /\ rec.id = records[i].id /\ rec.row = records[i].row /\ rec.open = records[i].open
  <2>1. work[h].at # 0 BY <1>2, <1>4 DEF RecordsNameRows
  <2> QED BY <1>4, <2>1, AttemptedStay DEF Same
<1> QED BY <1>1, <1>3, <1>4, FailWriteRecords

LEMMA RecordKinds ==
    ASSUME TypeOK, HandlersNameRows, RecordsNameRows, Next
    PROVE  \/ RecordsStay
           \/ \E h \in Handler : PushResolve(h) /\ Closes(h)
           \/ \E h \in Handler : FailWrite(h) /\ Opens(h)
<1>1. ASSUME NEW h \in Handler, PushStart(h) PROVE RecordsStay BY <1>1, PushBegins DEF PushStart
<1>2. ASSUME NEW h \in Handler, RequestStep(h) \/ RequestStart(h) \/ PushRead(h) \/ PushSend(h)
                                \/ PushSave(h) \/ FailFind(h)
      PROVE  RecordsStay
  <2>1. records' = records
    BY <1>2 DEF RequestStep, AddCheck, AddCreate, UpdateWrite, ApproveWrite, RejectWrite,
       DecideWrite, RequestStart, Begin, AddPlan, UpdateRead, DecideRead, PushRead, PushSend,
       PushSave, FailFind, keka_side
  <2> QED BY <2>1, UnchangedStay
<1>3. ASSUME NEW r \in Row, RemoveMember(r) PROVE RecordsStay
  BY <1>3, UnchangedStay DEF RemoveMember, keka_side
<1> QED BY <1>1, <1>2, <1>3, ResolveCloses, FailWriteStays, Kinds DEF RequestStep

LEMMA RecordsStep ==
    ASSUME AllocationsAssumption, TypeOK, HandlersNameRows, RecordsNameRows, Next, TypeOK'
    PROVE  RecordsNameRows'
<1>1. \A q : Named(q) => Named(q)' BY NamedStays
<1>2. /\ Len(records) \in Nat /\ DOMAIN records = 1..Len(records)
      /\ Len(records') \in Nat /\ DOMAIN records' = 1..Len(records')
  BY DEF TypeOK
<1>3. CASE RecordsStay BY <1>1, <1>3 DEF RecordsStay, Same, RecordsNameRows
<1>4. ASSUME NEW h \in Handler, Closes(h) PROVE RecordsNameRows'
  BY <1>1, <1>2, <1>4 DEF Closes, RecordsNameRows
<1>5. ASSUME NEW h \in Handler, FailWrite(h), Opens(h) PROVE RecordsNameRows'
  <2>1. Named(work[h].row) BY <1>5 DEF FailWrite, HandlersNameRows, PushPc
  <2> DEFINE n == Len(records)
  <2>2. ASSUME NEW i \in 1..n
        PROVE  Named(records[i].row)' /\ records'[i].id \in 1..n
    BY <1>1, <1>2, <1>5, <2>2 DEF Opens, RecordsNameRows
  <2>3. ASSUME NEW i, i = n + 1
        PROVE  Named(records[i].row)' /\ records'[i].id = n + 1
    BY <1>1, <1>5, <2>1, <2>3 DEF Opens
  <2>4. Len(records') = n + 1 BY <1>5 DEF Opens
  <2>5. \A i, j \in 1..n : records'[i].id = records'[j].id => i = j
    BY <1>2, <1>5 DEF Opens, RecordsNameRows
  <2> HIDE DEF n
  <2>6. n \in Nat BY <1>2 DEF n
  <2>7. ASSUME NEW i \in 1..(n + 1)
        PROVE  /\ Named(records[i].row)' /\ records'[i].id \in 1..(n + 1)
               /\ i # n + 1 => i \in 1..n /\ records'[i].id # n + 1
    <3>1. CASE i = n + 1 BY <2>3, <2>6, <3>1
    <3>2. CASE i # n + 1
      <4>1. i \in 1..n BY <2>6, <2>7, <3>2
      <4> QED BY <2>2, <2>6, <4>1
    <3> QED BY <3>1, <3>2
  <2>8. \A i, j \in 1..(n + 1) : records'[i].id = records'[j].id => i = j
    BY <2>3, <2>5, <2>7
  <2> QED BY <1>2, <2>4, <2>7, <2>8 DEF RecordsNameRows
<1> QED BY <1>3, <1>4, <1>5, RecordKinds

(* An open record of a row stays so, or the row is synced.                   *)
LEMMA RecordedStays ==
    ASSUME TypeOK, HandlersNameRows, RecordsNameRows, PushKnows, Next, TypeOK', NEW r \in Row,
           Recorded(r)
    PROVE  Recorded(r)' \/ alloc[r].synced
<1>1. /\ Len(records) \in Nat /\ DOMAIN records = 1..Len(records)
      /\ Len(records') \in Nat /\ DOMAIN records' = 1..Len(records')
  BY DEF TypeOK
<1>2. CASE RecordsStay BY <1>2 DEF RecordsStay, Same, Recorded
<1>3. ASSUME NEW h \in Handler, PushResolve(h), Closes(h) PROVE Recorded(r)' \/ alloc[r].synced
  <2>1. alloc[work[h].row].synced BY <1>3 DEF PushResolve, PushKnows
  <2>2. CASE r = work[h].row BY <2>1, <2>2
  <2>3. CASE r # work[h].row BY <1>1, <1>3, <2>3 DEF Closes, Recorded
  <2> QED BY <2>2, <2>3
<1>4. ASSUME NEW h \in Handler, Opens(h) PROVE Recorded(r)'
  <2>1. DOMAIN records \subseteq DOMAIN records' BY <1>1, <1>4 DEF Opens
  <2> QED BY <1>4, <2>1 DEF Opens, Recorded
<1> QED BY <1>2, <1>3, <1>4, RecordKinds

-----------------------------------------------------------------------------
(* Where the handler that takes a step goes.                                 *)

Kept(h) == work'[h].row = work[h].row /\ work'[h].batch = work[h].batch
Moves(h) ==
    /\ \A g \in Handler \ {h} : work'[g] = work[g]
    /\ \/ /\ AddCheck(h) \/ (RequestStep(h) /\ ~AddCheck(h))
          /\ work[h].pc \in RequestPc /\ work'[h].pc \in {"idle", "add_create", "push_read"}
       \/ RequestStart(h) /\ work[h].pc = "idle" /\ work'[h].pc \in RequestPc
       \/ PushStart(h) /\ work[h].pc = "idle" /\ work'[h].pc = "push_read"
       \/ /\ PushRead(h) \/ PushResolve(h) \/ FailWrite(h)
          /\ EndPush(h) /\ work'[h].pc \in {"idle", "push_read"}
       \/ PushRead(h) /\ work'[h].pc = "push_send" /\ Kept(h)
       \/ PushSend(h) /\ work'[h].pc \in {"push_save", "fail_find"} /\ Kept(h)
       \/ PushSave(h) /\ work'[h].pc = "push_resolve" /\ Kept(h)
       \/ FailFind(h) /\ work'[h].pc = "fail_write" /\ Kept(h)

LEMMA SomeMove ==
    ASSUME AllocationsAssumption, TypeOK, HandlersNameRows, RecordsNameRows, Next
    PROVE  \/ \E r \in Row : RemoveMember(r) /\ work' = work
           \/ \E h \in Handler : Moves(h)
<1>1. ASSUME NEW h \in Handler, AddCheck(h) PROVE Moves(h)
  <2>1. work[h].pc = "add_check" /\ (Goto(h, "add_create") \/ work' = [work EXCEPT ![h] = Idle])
    BY <1>1 DEF AddCheck
  <2>2. CASE Goto(h, "add_create") BY <1>1, <2>1, <2>2, GotoFields DEF Moves, RequestPc
  <2>3. CASE work' = [work EXCEPT ![h] = Idle]
    <3>1. Idle.pc = "idle" BY DEF Idle
    <3>2. work'[h] = Idle /\ \A g \in Handler \ {h} : work'[g] = work[g] BY <2>3 DEF TypeOK
    <3> QED BY <1>1, <2>1, <3>1, <3>2 DEF Moves, RequestPc
  <2> QED BY <2>1, <2>2, <2>3
<1>2. ASSUME NEW h \in Handler, RequestStep(h), ~AddCheck(h) PROVE Moves(h)
  <2>1. PICK r \in Row, a \in Allocation :
          /\ Answer(h, r, a.status)
          /\ work[h].pc \in {"add_create", "update_write", "approve_write", "reject_write"}
    BY <1>2, RequestWrites
  <2>2. /\ \A g \in Handler \ {h} : work'[g] = work[g]
        /\ work'[h].pc \in {"idle", "push_read"}
    BY <2>1, AnswerFields
  <2> QED BY <1>2, <2>1, <2>2 DEF Moves, RequestPc
<1>3. ASSUME NEW h \in Handler, RequestStart(h) PROVE Moves(h)
  <2>1. /\ work[h].pc = "idle" /\ \A g \in Handler \ {h} : work'[g] = work[g]
        /\ work'[h].pc \in RequestPc
    BY <1>3, RequestBegins DEF RequestStart, RequestPc
  <2> QED BY <1>3, <2>1 DEF Moves
<1>4. ASSUME NEW h \in Handler, PushStart(h) PROVE Moves(h)
  <2>1. /\ work[h].pc = "idle" /\ \A g \in Handler \ {h} : work'[g] = work[g]
        /\ work'[h].pc = "push_read"
    BY <1>4, PushBegins DEF PushStart
  <2> QED BY <1>4, <2>1 DEF Moves
<1>5. ASSUME NEW h \in Handler, EndPush(h), PushRead(h) \/ PushResolve(h) \/ FailWrite(h)
      PROVE  Moves(h)
  <2>1. /\ \A g \in Handler \ {h} : work'[g] = work[g]
        /\ work'[h].pc \in {"idle", "push_read"}
    BY <1>5, EndPushFields
  <2> QED BY <1>5, <2>1 DEF Moves
<1>6. ASSUME NEW h \in Handler, PushRead(h), Goto(h, "push_send") PROVE Moves(h)
  BY <1>6, GotoFields DEF Moves, Kept
<1>7. ASSUME NEW h \in Handler, PushSend(h) PROVE Moves(h)
  <2>1. Goto(h, "push_save") \/ Goto(h, "fail_find") BY <1>7 DEF PushSend
  <2> QED BY <1>7, <2>1, GotoFields DEF Moves, Kept
<1>8. ASSUME NEW h \in Handler, PushSave(h) PROVE Moves(h)
  <2>1. Goto(h, "push_resolve") BY <1>8 DEF PushSave
  <2> QED BY <1>8, <2>1, GotoFields DEF Moves, Kept
<1>9. ASSUME NEW h \in Handler, FailFind(h) PROVE Moves(h)
  <2>1. PICK id : work' = [work EXCEPT ![h] = [@ EXCEPT !.pc = "fail_write", !.at = id]]
    BY <1>9 DEF FailFind
  <2>2. /\ \A g \in Handler \ {h} : work'[g] = work[g]
        /\ work'[h].pc = "fail_write" /\ Kept(h)
    BY <2>1 DEF TypeOK, Work, Kept
  <2> QED BY <1>9, <2>2 DEF Moves
<1>10. ASSUME NEW r \in Row, RemoveMember(r) PROVE work' = work
  BY <1>10 DEF RemoveMember
<1>11. ASSUME NEW h \in Handler, PushRead(h) PROVE EndPush(h) \/ Goto(h, "push_send")
  BY <1>11 DEF PushRead
<1>12. ASSUME NEW h \in Handler, PushResolve(h) \/ FailWrite(h) PROVE EndPush(h)
  BY <1>12 DEF PushResolve, FailWrite
<1> QED BY <1>1, <1>2, <1>3, <1>4, <1>5, <1>6, <1>7, <1>8, <1>9, <1>10, <1>11, <1>12, Kinds

(* Only a push that saves the ref makes a row synced, and nothing undoes it.  *)
LEMMA SyncedStays ==
    ASSUME AllocationsAssumption, TypeOK, HandlersNameRows, Next, NEW q, Named(q)
    PROVE  /\ alloc[q].synced => alloc'[q].synced
           /\ alloc'[q].synced => \/ alloc[q].synced
                                  \/ \E h \in Handler : PushSave(h) /\ work[h].row = q
<1>1. q \in Row /\ alloc[q].status # "free" BY DEF Named
<1> DEFINE Goal == /\ alloc[q].synced => alloc'[q].synced
                   /\ alloc'[q].synced => \/ alloc[q].synced
                                          \/ \E h \in Handler : PushSave(h) /\ work[h].row = q
<1>2. ASSUME NEW r \in Row, RemoveMember(r) PROVE Goal
  <2>1. [alloc[r] EXCEPT !.status = "Removed"].synced = alloc[r].synced
    BY DEF TypeOK, Allocation
  <2> QED BY <1>1, <1>2, <2>1 DEF RemoveMember, TypeOK
<1>3. ASSUME NEW h \in Handler, RequestStep(h), ~AddCheck(h) PROVE Goal
  <2>1. PICK r \in Row, a \in Allocation :
          /\ alloc' = [alloc EXCEPT ![r] = a]
          /\ alloc[r].status = "free" \/ a.synced = alloc[r].synced
    BY <1>3, RequestWrites
  <2> QED BY <1>1, <2>1 DEF TypeOK
<1>4. ASSUME NEW h \in Handler, PushSave(h) PROVE Goal
  <2>1. work[h].row \in Row BY <1>4 DEF PushSave, HandlersNameRows, PushPc, Named
  <2>2. [alloc[work[h].row] EXCEPT !.synced = TRUE].synced = TRUE
    BY <2>1 DEF TypeOK, Allocation
  <2>3. alloc' = [alloc EXCEPT ![work[h].row] = [alloc[work[h].row] EXCEPT !.synced = TRUE]]
    BY <1>4 DEF PushSave
  <2>4. CASE q = work[h].row BY <1>1, <1>4, <2>2, <2>3, <2>4 DEF TypeOK
  <2>5. CASE q # work[h].row
    <3>1. alloc'[q] = alloc[q] BY <1>1, <2>3, <2>5 DEF TypeOK
    <3> QED BY <3>1
  <2> QED BY <2>4, <2>5
<1>5. ASSUME alloc' = alloc PROVE Goal BY <1>1, <1>5
<1>6. ASSUME NEW h \in Handler, RequestStart(h) \/ PushStart(h) PROVE alloc' = alloc
  BY <1>6 DEF RequestStart, PushStart, Begin, AddPlan, UpdateRead, DecideRead, PushForTimesheet,
     ForceRetry, CronStart, pmo_side
<1>7. ASSUME NEW h \in Handler, \/ AddCheck(h) \/ PushRead(h) \/ PushSend(h) \/ PushResolve(h)
                                \/ FailFind(h) \/ FailWrite(h)
      PROVE  alloc' = alloc
  BY <1>7 DEF AddCheck, PushRead, PushSend, PushResolve, FailFind, FailWrite, pmo_side
<1> HIDE DEF Goal
<1>8. Goal BY <1>2, <1>3, <1>4, <1>5, <1>6, <1>7, Kinds
<1> QED BY <1>8 DEF Goal

-----------------------------------------------------------------------------
(* No active row is forgotten.                                               *)

PushOfKnows(h) ==
    /\ work[h].pc = "push_resolve" => alloc[work[h].row].synced
    /\ work[h].pc = "fail_write" /\ work[h].at # 0 =>
          \E i \in DOMAIN records :
             /\ records[i].id = work[h].at /\ records[i].row = work[h].row
             /\ records[i].open \/ alloc[work[h].row].synced

LEMMA PushKnowsStep ==
    ASSUME AllocationsAssumption, TypeOK, HandlersNameRows, RecordsNameRows, PushKnows, Next, TypeOK'
    PROVE  PushKnows'
<1> SUFFICES ASSUME NEW g \in Handler PROVE PushOfKnows(g)' BY DEF PushKnows, PushOfKnows
<1>1. PushOfKnows(g) BY DEF PushKnows, PushOfKnows
<1>2. work[g].pc \in PushPc => Named(work[g].row) BY DEF HandlersNameRows
<1>3. CASE work'[g] = work[g]
  <2>1. CASE work[g].pc = "push_resolve"
    <3>1. alloc[work[g].row].synced /\ Named(work[g].row) BY <1>1, <1>2, <2>1 DEF PushOfKnows, PushPc
    <3>2. alloc'[work[g].row].synced BY <3>1, SyncedStays
    <3> QED BY <1>3, <2>1, <3>2 DEF PushOfKnows
  <2>2. CASE work[g].pc = "fail_write" /\ work[g].at # 0
    <3>1. PICK i \in DOMAIN records :
             /\ records[i].id = work[g].at /\ records[i].row = work[g].row
             /\ records[i].open \/ alloc[work[g].row].synced
      BY <1>1, <2>2 DEF PushOfKnows
    <3>2. alloc[work[g].row].synced => alloc'[work[g].row].synced
      BY <1>2, <2>2, SyncedStays DEF PushPc
    <3>3. \E j \in DOMAIN records' :
             /\ records'[j].id = work[g].at /\ records'[j].row = work[g].row
             /\ records'[j].open \/ alloc'[work[g].row].synced
      <4>1. /\ Len(records) \in Nat /\ DOMAIN records = 1..Len(records)
            /\ Len(records') \in Nat /\ DOMAIN records' = 1..Len(records')
        BY DEF TypeOK
      <4>2. CASE RecordsStay
        <5>1. PICK j \in DOMAIN records' : Same(records'[j], records[i])
          BY <4>2 DEF RecordsStay
        <5>2. /\ records'[j].id = work[g].at /\ records'[j].row = work[g].row
              /\ records'[j].open \/ alloc'[work[g].row].synced
          BY <3>1, <3>2, <5>1 DEF Same
        <5> QED BY <5>2
      <4>3. ASSUME NEW h \in Handler, PushResolve(h), Closes(h),
                   records[i].row = work[h].row
            PROVE  alloc[work[g].row].synced
        BY <3>1, <4>3 DEF PushResolve, PushKnows
      <4>4. ASSUME NEW h \in Handler, PushResolve(h), Closes(h)
            PROVE  /\ i \in DOMAIN records'
                   /\ records'[i].id = work[g].at /\ records'[i].row = work[g].row
                   /\ records'[i].open \/ alloc'[work[g].row].synced
        BY <3>1, <3>2, <4>1, <4>3, <4>4 DEF Closes
      <4>5. ASSUME NEW h \in Handler, Opens(h)
            PROVE  i \in DOMAIN records' /\ records'[i] = records[i]
        BY <4>1, <4>5 DEF Opens
      <4> QED BY <3>1, <3>2, <4>2, <4>4, <4>5, RecordKinds
    <3> QED BY <1>3, <2>2, <3>3 DEF PushOfKnows
  <2> QED BY <1>3, <2>1, <2>2 DEF PushOfKnows
<1>4. ASSUME NEW h \in Handler, Moves(h), g = h, work'[g] # work[g] PROVE PushOfKnows(g)'
  <2>1. CASE PushSave(h)
    <3>1. /\ work[h].pc = "push_save" /\ Named(work[h].row)
      BY <2>1 DEF PushSave, HandlersNameRows, PushPc
    <3>2. alloc' = [alloc EXCEPT ![work[h].row] = [alloc[work[h].row] EXCEPT !.synced = TRUE]]
      BY <2>1 DEF PushSave
    <3>3. [alloc[work[h].row] EXCEPT !.synced = TRUE].synced = TRUE
      BY <3>1 DEF TypeOK, Allocation, Named
    <3>4. alloc'[work[h].row].synced BY <3>1, <3>2, <3>3 DEF TypeOK, Named
    <3>5. Goto(h, "push_resolve") BY <2>1 DEF PushSave
    <3>6. work'[h].pc = "push_resolve" /\ work'[h].row = work[h].row BY <3>5, GotoFields
    <3> QED BY <1>4, <3>4, <3>6 DEF PushOfKnows
  <2>2. CASE FailFind(h)
    <3>1. PICK id \in IF OpenOf(work[h].row) = {} THEN {0} ELSE OpenOf(work[h].row) :
            work' = [work EXCEPT ![h] = [@ EXCEPT !.pc = "fail_write", !.at = id]]
      BY <2>2 DEF FailFind
    <3>2. work'[h].pc = "fail_write" /\ work'[h].row = work[h].row /\ work'[h].at = id
      BY <3>1 DEF TypeOK, Work
    <3>3. records' = records BY <2>2 DEF FailFind, keka_side
    <3>4. id # 0 => \E i \in DOMAIN records :
             records[i].id = id /\ records[i].row = work[h].row /\ records[i].open
      BY <3>1 DEF OpenOf
    <3> QED BY <1>4, <3>2, <3>3, <3>4 DEF PushOfKnows
  <2>3. CASE work'[h].pc \notin {"push_resolve", "fail_write"} BY <1>4, <2>3 DEF PushOfKnows
  <2> QED BY <1>4, <2>1, <2>2, <2>3 DEF Moves, RequestPc
<1>5. CASE \E r \in Row : RemoveMember(r) /\ work' = work BY <1>3, <1>5
<1>6. CASE \E h \in Handler : Moves(h)
  <2>1. PICK h \in Handler : Moves(h) BY <1>6
  <2>2. CASE g = h BY <1>3, <1>4, <2>1, <2>2
  <2>3. CASE g # h BY <1>3, <2>1, <2>3 DEF Moves
  <2> QED BY <2>2, <2>3
<1> QED BY <1>5, <1>6, SomeMove

(* A row that becomes active is left to a push.                              *)
LEMMA NewlyActive ==
    ASSUME AllocationsAssumption, TypeOK, HandlersNameRows, Next, NEW q \in Row,
           ~IsActive(q), IsActive(q)'
    PROVE  InPush(q)'
<1>1. ASSUME NEW r \in Row, RemoveMember(r) PROVE FALSE
  <2>1. [alloc[r] EXCEPT !.status = "Removed"].status = "Removed" BY DEF TypeOK, Allocation
  <2> QED BY <1>1, <2>1 DEF RemoveMember, TypeOK, IsActive
<1>2. ASSUME NEW h \in Handler, RequestStep(h), ~AddCheck(h) PROVE InPush(q)'
  <2>1. PICK r \in Row, a \in Allocation :
          alloc' = [alloc EXCEPT ![r] = a] /\ Answer(h, r, a.status)
    BY <1>2, RequestWrites
  <2>2. r = q /\ a.status = "Active" BY <2>1 DEF TypeOK, IsActive
  <2>3. work'[h].pc = "push_read" /\ work'[h].row = q BY <2>1, <2>2, AnswerFields
  <2> QED BY <2>3 DEF InPush, PushPc
<1>3. ASSUME NEW h \in Handler, PushSave(h) PROVE FALSE
  <2>1. \A r \in Row : [alloc[r] EXCEPT !.synced = TRUE].status = alloc[r].status
    BY DEF TypeOK, Allocation
  <2> QED BY <1>3, <2>1 DEF PushSave, TypeOK, IsActive
<1>4. alloc' # alloc BY DEF IsActive
<1>5. ASSUME NEW h \in Handler, RequestStart(h) \/ PushStart(h) PROVE alloc' = alloc
  BY <1>5 DEF RequestStart, PushStart, Begin, AddPlan, UpdateRead, DecideRead, PushForTimesheet,
     ForceRetry, CronStart, pmo_side
<1>6. ASSUME NEW h \in Handler, \/ AddCheck(h) \/ PushRead(h) \/ PushSend(h) \/ PushResolve(h)
                                \/ FailFind(h) \/ FailWrite(h)
      PROVE  alloc' = alloc
  BY <1>6 DEF AddCheck, PushRead, PushSend, PushResolve, FailFind, FailWrite, pmo_side
<1> QED BY <1>1, <1>2, <1>3, <1>4, <1>5, <1>6, Kinds

LEMMA FollowedStep ==
    ASSUME AllocationsAssumption, TypeOK, HandlersNameRows, RecordsNameRows, PushKnows, FollowedUp,
           Next, TypeOK'
    PROVE  FollowedUp'
<1> SUFFICES ASSUME NEW q \in Row, IsActive(q)', ~alloc'[q].synced
             PROVE  InPush(q)' \/ Recorded(q)'
  BY DEF FollowedUp
<1>1. CASE ~IsActive(q) BY <1>1, NewlyActive
<1>2. CASE IsActive(q)
  <2>1. Named(q) BY <1>2 DEF IsActive, Named
  <2>2. ~alloc[q].synced BY <2>1, SyncedStays
  <2>3. CASE Recorded(q) BY <2>2, <2>3, RecordedStays
  <2>4. ASSUME NEW g \in Handler, work[g].pc \in PushPc,
               work[g].row = q \/ \E b \in work[g].batch : b[2] = q
        PROVE  InPush(q)' \/ Recorded(q)'
    <3>1. CASE work'[g] = work[g] BY <2>4, <3>1 DEF InPush
    <3>2. ASSUME Moves(g) PROVE InPush(q)' \/ Recorded(q)'
      <4>1. CASE work'[g].pc \in PushPc /\ Kept(g) BY <2>4, <4>1 DEF InPush, Kept
      <4>2. CASE EndPush(g) /\ \E b \in work[g].batch : b[2] = q
        <5>1. PICK b \in work[g].batch : b[2] = q BY <4>2
        <5>2. PICK c \in work[g].batch :
                 /\ c[2] \in Row /\ work'[g].pc = "push_read" /\ work'[g].row = c[2]
                 /\ work'[g].batch = work[g].batch \ {c}
          BY <4>2, EndPushFields
        <5>3. work'[g].row = q \/ b \in work'[g].batch BY <5>1, <5>2
        <5> QED BY <5>1, <5>2, <5>3 DEF InPush, PushPc
      <4>3. CASE PushRead(g) /\ work[g].row = q
        <5>1. Goto(g, "push_send") BY <1>2, <2>2, <4>3 DEF PushRead
        <5>2. work'[g].pc = "push_send" /\ work'[g].row = q BY <4>3, <5>1, GotoFields
        <5> QED BY <5>2 DEF InPush, PushPc
      <4>4. CASE PushResolve(g) /\ work[g].row = q
        BY <2>2, <4>4 DEF PushResolve, PushKnows
      <4>5. CASE FailWrite(g) /\ work[g].row = q
        <5>1. CASE Opens(g)
          <6>1. /\ Len(records) \in Nat /\ DOMAIN records' = 1..Len(records') BY DEF TypeOK
          <6>2. Len(records) + 1 \in DOMAIN records' BY <5>1, <6>1 DEF Opens
          <6> QED BY <4>5, <5>1, <6>2 DEF Opens, Recorded
        <5>2. CASE work[g].at # 0
          <6>1. Recorded(q) BY <2>2, <4>5, <5>2 DEF FailWrite, PushKnows, Recorded
          <6> QED BY <2>2, <6>1, RecordedStays
        <5> QED BY <4>5, <5>1, <5>2, FailWriteStays
      <4> QED BY <2>4, <3>2, <4>1, <4>2, <4>3, <4>4, <4>5 DEF Moves, PushPc, RequestPc
    <3>3. CASE \E r \in Row : RemoveMember(r) /\ work' = work BY <3>1, <3>3
    <3>4. CASE \E h \in Handler : Moves(h)
      <4>1. PICK h \in Handler : Moves(h) BY <3>4
      <4>2. CASE g = h BY <3>2, <4>1, <4>2
      <4>3. CASE g # h BY <3>1, <4>1, <4>3 DEF Moves
      <4> QED BY <4>2, <4>3
    <3> QED BY <3>3, <3>4, SomeMove
  <2>5. InPush(q) \/ Recorded(q) BY <1>2, <2>2 DEF FollowedUp
  <2> QED BY <2>3, <2>4, <2>5 DEF InPush
<1> QED BY <1>1, <1>2

-----------------------------------------------------------------------------
(* A row that was not raced for is pushed by one handler at a time.          *)

LEMMA RacedGrows ==
    ASSUME Next
    PROVE  raced \subseteq raced' /\ unheard \subseteq unheard'
<1> USE DEF keka_side, pmo_side
<1>1. ASSUME NEW h \in Handler, RequestStep(h) \/ Begin(h) \/ CronStart(h)
      PROVE  raced' = raced /\ unheard' = unheard
  BY <1>1 DEF RequestStep, AddCheck, AddCreate, UpdateWrite, ApproveWrite, RejectWrite,
     DecideWrite, Begin, AddPlan, UpdateRead, DecideRead, PushForTimesheet, ForceRetry, CronStart
<1>2. ASSUME NEW h \in Handler, PushStep(h)
      PROVE  raced \subseteq raced' /\ unheard \subseteq unheard'
  BY <1>2 DEF PushStep, PushRead, PushSend, PushSave, PushResolve, FailFind, FailWrite
<1>3. ASSUME NEW q \in Row, RemoveMember(q) PROVE raced' = raced /\ unheard' = unheard
  BY <1>3 DEF RemoveMember
<1> QED BY <1>1, <1>2, <1>3 DEF Next

(* Who pushes a row did so before, or has just read it.                      *)
LEMMA PushingFrom ==
    ASSUME AllocationsAssumption, TypeOK, HandlersNameRows, RecordsNameRows, Next,
           NEW g \in Handler, NEW q \in Row, Pushing(g, q)'
    PROVE  \/ Pushing(g, q)
           \/ /\ PushRead(g) /\ work[g].row = q /\ ~alloc[q].synced /\ alloc' = alloc
              /\ (\E f \in Handler \ {g} : Pushing(f, q)) => q \in raced'
<1>1. CASE work'[g] = work[g] BY <1>1 DEF Pushing
<1>2. ASSUME Moves(g)
      PROVE  \/ Pushing(g, q)
             \/ /\ PushRead(g) /\ work[g].row = q /\ ~alloc[q].synced /\ alloc' = alloc
                /\ (\E f \in Handler \ {g} : Pushing(f, q)) => q \in raced'
  <2>1. work'[g].pc \in PushPc \ {"push_read"} /\ work'[g].row = q BY DEF Pushing
  <2>2. Kept(g) BY <1>2, <2>1 DEF Moves, PushPc, RequestPc
  <2>3. work[g].row = q BY <2>1, <2>2 DEF Kept
  <2>4. CASE PushRead(g)
    <3>1. ~EndPush(g) \/ work'[g].pc \in {"idle", "push_read"} BY EndPushFields
    <3>2. ~EndPush(g) BY <2>1, <3>1 DEF PushPc
    <3>3. ~alloc[q].synced /\ raced' = raced \cup Racing(g) BY <2>3, <2>4, <3>2 DEF PushRead
    <3>4. alloc' = alloc BY <2>4 DEF PushRead, pmo_side
    <3>5. (\E f \in Handler \ {g} : Pushing(f, q)) => q \in raced' BY <2>3, <3>3 DEF Racing
    <3> QED BY <2>3, <2>4, <3>3, <3>4, <3>5
  <2>5. CASE work[g].pc \in PushPc \ {"push_read"} BY <2>3, <2>5 DEF Pushing
  <2> QED BY <1>2, <2>1, <2>4, <2>5 DEF Moves, PushPc, RequestPc, PushSend, PushSave, FailFind
<1>3. CASE \E r \in Row : RemoveMember(r) /\ work' = work BY <1>1, <1>3
<1>4. CASE \E h \in Handler : Moves(h)
  <2>1. PICK h \in Handler : Moves(h) BY <1>4
  <2>2. CASE g = h BY <1>2, <2>1, <2>2
  <2>3. CASE g # h BY <1>1, <2>1, <2>3 DEF Moves
  <2> QED BY <2>2, <2>3
<1> QED BY <1>3, <1>4, SomeMove

LEMMA OnePushStep ==
    ASSUME AllocationsAssumption, TypeOK, HandlersNameRows, RecordsNameRows, OnePush, Next
    PROVE  OnePush'
<1> SUFFICES ASSUME NEW f \in Handler, NEW g \in Handler, NEW q \in Row, q \notin raced',
                    Pushing(f, q)', Pushing(g, q)', f # g
             PROVE  FALSE
  BY DEF OnePush
<1>1. q \notin raced BY RacedGrows
<1>2. ~(Pushing(f, q) /\ Pushing(g, q)) BY <1>1 DEF OnePush
<1>3. ASSUME PushRead(f), PushRead(g), work[f].row = q, work[g].row = q PROVE FALSE
  <2>1. work'[f] # work[f] /\ work'[g] # work[g] BY <1>3 DEF Pushing, PushRead
  <2>2. \A h \in Handler : ~Moves(h) BY <2>1 DEF Moves
  <2> QED BY <2>1, <2>2, SomeMove
<1> QED BY <1>2, <1>3, PushingFrom

LEMMA UnsyncedStep ==
    ASSUME AllocationsAssumption, TypeOK, HandlersNameRows, RecordsNameRows, OnePush, Unsynced,
           Next
    PROVE  Unsynced'
<1> DEFINE Open == {"push_send", "push_save", "fail_find", "fail_write"}
<1> SUFFICES ASSUME NEW g \in Handler, NEW q \in Row, q \notin raced',
                    work'[g].row = q, work'[g].pc \in Open, alloc'[q].synced
             PROVE  FALSE
  BY DEF Unsynced
<1>1. q \notin raced BY RacedGrows
<1>2. Pushing(g, q)' BY DEF Pushing, PushPc
<1>3. Pushing(g, q) BY <1>2, PushingFrom
<1>4. Named(q) BY <1>3 DEF HandlersNameRows, Pushing
<1>5. CASE \E h \in Handler : PushSave(h) /\ work[h].row = q
  <2>1. PICK h \in Handler : PushSave(h) /\ work[h].row = q BY <1>5
  <2>2. Pushing(h, q) BY <2>1 DEF PushSave, Pushing, PushPc
  <2>3. g = h BY <1>1, <1>3, <2>2 DEF OnePush
  <2>4. Goto(g, "push_resolve") BY <2>1, <2>3 DEF PushSave
  <2>5. work'[g].pc = "push_resolve" BY <2>4, GotoFields
  <2> QED BY <2>5
<1>6. CASE alloc[q].synced
  <2>1. work[g].pc \notin Open BY <1>1, <1>3, <1>6 DEF Unsynced, Pushing
  <2>2. work'[g] # work[g] BY <2>1
  <2>3. Moves(g) BY <2>2, SomeMove DEF Moves
  <2> QED BY <1>3, <2>1, <2>3 DEF Moves, Pushing, RequestPc, PushPc, PushRead, PushSend, PushSave,
        FailFind
<1> QED BY <1>4, <1>5, <1>6, SyncedStays

LEMMA KekaStays ==
    ASSUME Next
    PROVE  keka' = keka \/ \E h \in Handler : PushSend(h)
<1> USE DEF keka_side, pmo_side
<1>1. ASSUME NEW h \in Handler, RequestStep(h) \/ Begin(h) \/ CronStart(h) PROVE keka' = keka
  BY <1>1 DEF RequestStep, AddCheck, AddCreate, UpdateWrite, ApproveWrite, RejectWrite,
     DecideWrite, Begin, AddPlan, UpdateRead, DecideRead, PushForTimesheet, ForceRetry, CronStart
<1>2. ASSUME NEW h \in Handler, PushStep(h), ~PushSend(h) PROVE keka' = keka
  BY <1>2 DEF PushStep, PushRead, PushSave, PushResolve, FailFind, FailWrite
<1>3. ASSUME NEW q \in Row, RemoveMember(q) PROVE keka' = keka BY <1>3 DEF RemoveMember
<1> QED BY <1>1, <1>2, <1>3 DEF Next

LEMMA SentStep ==
    ASSUME AllocationsAssumption, TypeOK, HandlersNameRows, RecordsNameRows, OnePush, Unsynced,
           Sent, Next
    PROVE  Sent'
<1> SUFFICES ASSUME NEW q \in Row
             PROVE  /\ keka'[q] > 0 => alloc'[q].status # "free"
                    /\ q \notin raced' \cup unheard' =>
                          /\ keka'[q] <= 1
                          /\ keka'[q] = 1 =>
                                \/ alloc'[q].synced
                                \/ \E h \in Handler : work'[h].pc = "push_save" /\ work'[h].row = q
  BY DEF Sent
<1>1. keka[q] \in Nat BY DEF TypeOK
<1>2. /\ keka[q] > 0 => Named(q)
      /\ q \notin raced' \cup unheard' =>
            /\ keka[q] <= 1
            /\ keka[q] = 1 => \/ alloc[q].synced
                              \/ \E h \in Handler : work[h].pc = "push_save" /\ work[h].row = q
  BY RacedGrows DEF Sent, Named
<1>3. Named(q) => alloc'[q].status # "free" /\ (alloc[q].synced => alloc'[q].synced)
  BY NamedStays, SyncedStays DEF Named
<1>4. CASE keka'[q] = keka[q]
  <2>1. ASSUME NEW h \in Handler, work[h].pc = "push_save", work[h].row = q
        PROVE  \/ alloc'[q].synced
               \/ work'[h].pc = "push_save" /\ work'[h].row = q
    <3>1. CASE work'[h] = work[h] BY <2>1, <3>1
    <3>2. CASE Moves(h)
      <4>1. PushSave(h)
        BY <2>1, <3>2 DEF Moves, RequestPc, PushRead, PushSend, PushResolve, FailFind, FailWrite
      <4>2. alloc' = [alloc EXCEPT ![q] = [alloc[q] EXCEPT !.synced = TRUE]]
        BY <2>1, <4>1 DEF PushSave
      <4>3. [alloc[q] EXCEPT !.synced = TRUE].synced = TRUE BY DEF TypeOK, Allocation
      <4> QED BY <4>2, <4>3 DEF TypeOK
    <3> QED BY <3>1, <3>2, SomeMove DEF Moves
  <2> QED BY <1>1, <1>2, <1>3, <1>4, <2>1
<1>5. ASSUME NEW h \in Handler, PushSend(h), work[h].row = q, keka'[q] # keka[q]
      PROVE  /\ Named(q)
             /\ q \notin raced' \cup unheard' =>
                   keka'[q] = 1 /\ work'[h].pc = "push_save" /\ work'[h].row = q
  <2>1. work[h].pc = "push_send" /\ Named(q) BY <1>5 DEF PushSend, HandlersNameRows, PushPc
  <2>2. keka'[q] = keka[q] + 1 BY <1>1, <1>5 DEF PushSend, TypeOK
  <2>3. ASSUME q \notin raced' \cup unheard'
        PROVE  keka'[q] = 1 /\ work'[h].pc = "push_save" /\ work'[h].row = q
    <3>1. q \notin raced \cup unheard BY <2>3, RacedGrows
    <3>2. ~alloc[q].synced BY <1>5, <2>1, <3>1 DEF Unsynced
    <3>3. ASSUME NEW g \in Handler, work[g].pc = "push_save", work[g].row = q PROVE FALSE
      <4>1. Pushing(g, q) /\ Pushing(h, q) BY <1>5, <2>1, <3>3 DEF Pushing, PushPc
      <4>2. g = h BY <3>1, <4>1 DEF OnePush
      <4> QED BY <2>1, <3>3, <4>2
    <3>4. keka[q] = 0 BY <1>1, <1>2, <2>3, <3>2, <3>3
    <3>5. failures' = failures BY <1>5, <2>3 DEF PushSend
    <3>6. failures \in Nat BY AllocationsAssumption DEF TypeOK
    <3>7. Goto(h, "push_save") BY <1>5, <3>5, <3>6 DEF PushSend
    <3> QED BY <1>5, <2>2, <3>4, <3>7, GotoFields
  <2> QED BY <2>1, <2>3
<1>6. ASSUME NEW h \in Handler, PushSend(h), work[h].row # q PROVE keka'[q] = keka[q]
  BY <1>6 DEF PushSend, TypeOK
<1> QED BY <1>3, <1>4, <1>5, <1>6, KekaStays

LEMMA ClosingStep ==
    ASSUME AllocationsAssumption, TypeOK, HandlersNameRows, RecordsNameRows, Unsynced, Closing,
           Next, TypeOK'
    PROVE  Closing'
<1> SUFFICES ASSUME NEW q \in Row, q \notin raced', alloc'[q].synced, Recorded(q)'
             PROVE  \E h \in Handler : work'[h].pc = "push_resolve" /\ work'[h].row = q
  BY DEF Closing
<1>1. q \notin raced BY RacedGrows
<1>2. /\ Len(records) \in Nat /\ DOMAIN records = 1..Len(records)
      /\ Len(records') \in Nat /\ DOMAIN records' = 1..Len(records')
  BY DEF TypeOK
<1>3. \/ Recorded(q) /\ ~\E h \in Handler : PushResolve(h) /\ Closes(h) /\ work[h].row = q
      \/ \E h \in Handler : FailWrite(h) /\ work[h].row = q
  <2>1. PICK j \in DOMAIN records' : records'[j].row = q /\ records'[j].open BY DEF Recorded
  <2>2. ASSUME NEW h \in Handler, Closes(h) PROVE Recorded(q) /\ work[h].row # q
    BY <1>2, <2>1, <2>2 DEF Closes, Recorded
  <2>3. ASSUME NEW h \in Handler, Opens(h) PROVE Recorded(q) \/ work[h].row = q
    <3>1. j \in 1..Len(records) \/ j = Len(records) + 1 BY <1>2, <2>3 DEF Opens
    <3> QED BY <1>2, <2>1, <2>3, <3>1 DEF Opens, Recorded
  <2>4. CASE RecordsStay
    <3>1. Recorded(q) BY <2>1, <2>4 DEF RecordsStay, Same, Recorded
    <3> QED BY <2>2, <3>1
  <2>5. ASSUME NEW h \in Handler, FailWrite(h), Opens(h), NEW g \in Handler, PushResolve(g), Closes(g)
        PROVE  FALSE
    BY <1>2, <2>5 DEF Opens, Closes
  <2> QED BY <2>2, <2>3, <2>4, <2>5, RecordKinds
<1>4. Named(q)
  <2>1. Recorded(q) => Named(q) BY DEF Recorded, RecordsNameRows
  <2>2. \A h \in Handler : FailWrite(h) => Named(work[h].row)
    BY DEF FailWrite, HandlersNameRows, PushPc
  <2> QED BY <1>3, <2>1, <2>2
<1>5. CASE \E h \in Handler : PushSave(h) /\ work[h].row = q
  <2>1. PICK h \in Handler : PushSave(h) /\ work[h].row = q BY <1>5
  <2>2. Goto(h, "push_resolve") BY <2>1 DEF PushSave
  <2> QED BY <2>1, <2>2, GotoFields
<1>6. CASE alloc[q].synced
  <2>1. \A h \in Handler : FailWrite(h) => work[h].row # q
    BY <1>1, <1>6 DEF FailWrite, Unsynced
  <2>2. Recorded(q) /\ ~\E h \in Handler : PushResolve(h) /\ Closes(h) /\ work[h].row = q
    BY <1>3, <2>1
  <2>3. PICK g \in Handler : work[g].pc = "push_resolve" /\ work[g].row = q
    BY <1>1, <1>6, <2>2 DEF Closing
  <2>4. ~Moves(g)
    <3>1. Moves(g) => PushResolve(g)
      BY <2>3 DEF Moves, RequestPc, PushRead, PushSend, PushSave, FailFind, FailWrite
    <3>2. ~PushResolve(g) BY <2>2, <2>3, ResolveCloses
    <3> QED BY <3>1, <3>2
  <2>5. work'[g] = work[g] BY <2>4, SomeMove DEF Moves
  <2> QED BY <2>3, <2>5
<1> QED BY <1>4, <1>5, <1>6, SyncedStays

-----------------------------------------------------------------------------
(* Requests that do not overlap.                                             *)

Orderly == OneRequest /\ RequestFits /\ OnTeamOnce /\ NotTheirOwn
NoRequest == \A h \in Handler : work[h].pc \notin RequestPc

(* Steps that requests and teams do not notice.                              *)
SameTeams ==
    \A r \in Row : /\ alloc'[r].status = alloc[r].status /\ alloc'[r].project = alloc[r].project
                   /\ alloc'[r].asker = alloc[r].asker /\ alloc'[r].approver = alloc[r].approver
                   /\ alloc'[r].hours = alloc[r].hours /\ alloc'[r].reason = alloc[r].reason
SameRequests ==
    \A h \in Handler : work'[h].pc \in RequestPc => work'[h] = work[h]

LEMMA SameStep ==
    ASSUME HandlersNameRows, Orderly, SameTeams, SameRequests, crossed' = crossed
    PROVE  Orderly'
<1>1. OneRequest' BY DEF Orderly, OneRequest, SameRequests
<1>2. RequestFits'
  <2> SUFFICES ASSUME ~crossed', NEW h \in Handler
               PROVE  /\ work'[h].pc = "add_create" =>
                            \A r \in Row : OnTeam(r)' => alloc'[r].project # work'[h].project
                      /\ work'[h].pc = "update_write" => OnTeam(work[h].row)'
                      /\ work'[h].pc \in {"approve_write", "reject_write"} =>
                            OnTeam(work[h].row)' /\ alloc'[work'[h].row].asker # work'[h].actor
    BY DEF RequestFits
  <2>1. CASE work'[h].pc \in RequestPc
    <3>1. work'[h] = work[h] BY <2>1 DEF SameRequests
    <3>2. work[h].pc \in {"update_write", "approve_write", "reject_write"} => work[h].row \in Row
      BY DEF HandlersNameRows, Named
    <3> QED BY <3>1, <3>2 DEF Orderly, RequestFits, SameTeams, OnTeam
  <2>2. CASE work'[h].pc \notin RequestPc BY <2>2 DEF RequestPc
  <2> QED BY <2>1, <2>2
<1>3. OnTeamOnce' BY DEF Orderly, OnTeamOnce, SameTeams, OnTeam
<1>4. NotTheirOwn' BY DEF Orderly, NotTheirOwn, SameTeams
<1> QED BY <1>1, <1>2, <1>3, <1>4 DEF Orderly

LEMMA RemoveStep ==
    ASSUME TypeOK, Orderly, NEW q \in Row, RemoveMember(q)
    PROVE  Orderly'
<1> SUFFICES ASSUME ~crossed' PROVE Orderly'
  BY DEF Orderly, OneRequest, RequestFits, OnTeamOnce, NotTheirOwn
<1>1. /\ ~crossed /\ NoRequest /\ work' = work
      /\ alloc' = [alloc EXCEPT ![q].status = "Removed"]
  BY DEF RemoveMember, Requested, NoRequest
<1>2. [alloc[q] EXCEPT !.status = "Removed"].status = "Removed"
  BY DEF TypeOK, Allocation
<1>3. /\ [alloc[q] EXCEPT !.status = "Removed"].asker = alloc[q].asker
      /\ [alloc[q] EXCEPT !.status = "Removed"].approver = alloc[q].approver
  BY DEF TypeOK, Allocation
<1>4. \A r \in Row : /\ OnTeam(r)' => OnTeam(r) /\ alloc'[r] = alloc[r]
                     /\ alloc'[r].asker = alloc[r].asker /\ alloc'[r].approver = alloc[r].approver
  BY <1>1, <1>2, <1>3 DEF TypeOK, OnTeam
<1>5. OneRequest' /\ RequestFits' BY <1>1 DEF NoRequest, OneRequest, RequestFits, RequestPc
<1>6. OnTeamOnce' BY <1>1, <1>4 DEF Orderly, OnTeamOnce
<1>7. NotTheirOwn' BY <1>1, <1>4 DEF Orderly, NotTheirOwn
<1> QED BY <1>5, <1>6, <1>7 DEF Orderly

LEMMA WriteStep ==
    ASSUME TypeOK, HandlersNameRows, Orderly, NEW h \in Handler, RequestStep(h), ~AddCheck(h)
    PROVE  Orderly'
<1> SUFFICES ASSUME ~crossed' PROVE Orderly'
  BY DEF Orderly, OneRequest, RequestFits, OnTeamOnce, NotTheirOwn
<1>1. PICK q \in Row, a \in Allocation :
        /\ alloc' = [alloc EXCEPT ![q] = a] /\ Answer(h, q, a.status)
        /\ crossed' = crossed
        /\ \/ /\ work[h].pc = "add_create" /\ alloc[q].status = "free"
              /\ a.project = work[h].project /\ Apart(a)
           \/ /\ work[h].pc = "update_write" /\ q = work[h].row
              /\ a.project = alloc[q].project
              /\ \/ a.asker = alloc[q].asker /\ a.approver = alloc[q].approver
                 \/ Apart(a)
           \/ /\ work[h].pc \in {"approve_write", "reject_write"} /\ q = work[h].row
              /\ a.project = alloc[q].project
              /\ a.asker = alloc[q].asker /\ a.approver = work[h].actor
  BY RequestWrites
<1>2. ~crossed /\ work[h].pc \in RequestPc BY <1>1 DEF RequestPc
<1>3. alloc'[q] = a /\ \A r \in Row \ {q} : alloc'[r] = alloc[r] BY <1>1 DEF TypeOK
<1>4. NoRequest'
  <2>1. /\ \A g \in Handler \ {h} : work'[g] = work[g]
        /\ work'[h].pc \in {"idle", "push_read"}
    BY <1>1, AnswerFields
  <2>2. \A g \in Handler \ {h} : work[g].pc \notin RequestPc BY <1>2 DEF Orderly, OneRequest
  <2> QED BY <2>1, <2>2 DEF NoRequest, RequestPc
<1>5. OneRequest' /\ RequestFits' BY <1>4 DEF NoRequest, OneRequest, RequestFits, RequestPc
<1>6. OnTeamOnce'
  <2>1. \A r \in Row \ {q} : OnTeam(r)' <=> OnTeam(r) BY <1>3 DEF OnTeam
  <2>2. CASE work[h].pc = "add_create"
    <3>1. \A r \in Row : OnTeam(r) => alloc[r].project # a.project
      BY <1>1, <1>2, <2>2 DEF Orderly, RequestFits
    <3> QED BY <1>2, <1>3, <2>1, <3>1 DEF Orderly, OnTeamOnce
  <2>3. CASE work[h].pc \in {"update_write", "approve_write", "reject_write"}
    <3>1. OnTeam(q) /\ a.project = alloc[q].project
      BY <1>1, <1>2, <2>3 DEF Orderly, RequestFits
    <3> QED BY <1>2, <1>3, <2>1, <3>1 DEF Orderly, OnTeamOnce
  <2> QED BY <1>1, <2>2, <2>3
<1>7. NotTheirOwn'
  <2>1. Apart(alloc[q]) BY <1>2 DEF Orderly, NotTheirOwn, Apart
  <2>2. work[h].pc \in {"approve_write", "reject_write"} => alloc[q].asker # work[h].actor
    BY <1>1, <1>2 DEF Orderly, RequestFits
  <2>3. Apart(a) BY <1>1, <2>1, <2>2 DEF Apart
  <2> QED BY <1>2, <1>3, <2>3 DEF Orderly, NotTheirOwn, Apart
<1> QED BY <1>5, <1>6, <1>7 DEF Orderly

LEMMA StartStep ==
    ASSUME AllocationsAssumption, TypeOK, Orderly, NEW h \in Handler, RequestStart(h)
    PROVE  Orderly'
<1> SUFFICES ASSUME ~crossed' PROVE Orderly'
  BY DEF Orderly, OneRequest, RequestFits, OnTeamOnce, NotTheirOwn
<1>1. /\ alloc' = alloc /\ ~crossed /\ NoRequest
      /\ \A g \in Handler \ {h} : work'[g] = work[g]
      /\ \/ work'[h].pc = "add_check"
         \/ work'[h].pc = "update_write" /\ OnTeam(work'[h].row)
         \/ /\ work'[h].pc \in {"approve_write", "reject_write"}
            /\ alloc[work'[h].row].status = "Pending"
            /\ alloc[work'[h].row].asker # work'[h].actor
  BY RequestBegins DEF RequestStart, NoRequest
<1>2. OneRequest' BY <1>1 DEF NoRequest, OneRequest
<1>3. \A g \in Handler \ {h} : work'[g].pc \notin RequestPc BY <1>1 DEF NoRequest
<1>4. RequestFits' BY <1>1, <1>3 DEF RequestFits, RequestPc, OnTeam
<1>5. OnTeamOnce' /\ NotTheirOwn' BY <1>1 DEF Orderly, OnTeamOnce, NotTheirOwn, OnTeam
<1> QED BY <1>2, <1>4, <1>5 DEF Orderly

LEMMA CheckStep ==
    ASSUME TypeOK, HandlersNameRows, Orderly, NEW h \in Handler, AddCheck(h)
    PROVE  Orderly'
<1>1. /\ alloc' = alloc /\ crossed' = crossed /\ work[h].pc \in RequestPc
  BY DEF AddCheck, pmo_side, RequestPc
<1>2. CASE work' = [work EXCEPT ![h] = Idle]
  <2>1. Idle.pc = "idle" BY DEF Idle
  <2>2. SameRequests BY <1>2, <2>1 DEF SameRequests, TypeOK, RequestPc
  <2> QED BY <1>1, <2>2, SameStep DEF SameTeams
<1>3. CASE /\ ~\E r \in Row : OnTeam(r) /\ alloc[r].project = work[h].project
           /\ Goto(h, "add_create")
  <2>1. /\ \A g \in Handler \ {h} : work'[g] = work[g]
        /\ work'[h].pc = "add_create" /\ work'[h].project = work[h].project
    BY <1>3, GotoFields
  <2>2. OneRequest' BY <1>1, <2>1 DEF Orderly, OneRequest
  <2>3. RequestFits'
    <3> SUFFICES ASSUME ~crossed PROVE RequestFits' BY <1>1 DEF RequestFits
    <3>1. \A g \in Handler \ {h} : work'[g].pc \notin RequestPc
      BY <1>1, <2>1 DEF Orderly, OneRequest
    <3> QED BY <1>1, <1>3, <2>1, <3>1 DEF RequestFits, RequestPc, OnTeam
  <2>4. OnTeamOnce' /\ NotTheirOwn' BY <1>1 DEF Orderly, OnTeamOnce, NotTheirOwn, OnTeam
  <2> QED BY <2>2, <2>3, <2>4 DEF Orderly
<1> QED BY <1>2, <1>3 DEF AddCheck

(* Pushes leave teams, bookings and requests alone.                          *)
LEMMA PushesLeaveRequests ==
    ASSUME TypeOK, HandlersNameRows, RecordsNameRows, NEW h \in Handler, Moves(h),
           PushStart(h) \/ PushRead(h) \/ PushSend(h) \/ PushSave(h) \/ PushResolve(h)
           \/ FailFind(h) \/ FailWrite(h)
    PROVE  SameTeams /\ SameRequests /\ crossed' = crossed
<1>1. SameTeams
  <2>1. CASE PushSave(h)
    <3>1. work[h].row \in Row BY <2>1 DEF PushSave, HandlersNameRows, PushPc, Named
    <3> DEFINE a == [alloc[work[h].row] EXCEPT !.synced = TRUE]
    <3>2. /\ a.status = alloc[work[h].row].status /\ a.project = alloc[work[h].row].project
          /\ a.asker = alloc[work[h].row].asker /\ a.approver = alloc[work[h].row].approver
          /\ a.hours = alloc[work[h].row].hours /\ a.reason = alloc[work[h].row].reason
      BY <3>1 DEF TypeOK, Allocation
    <3>3. alloc' = [alloc EXCEPT ![work[h].row] = a] BY <2>1 DEF PushSave
    <3> HIDE DEF a
    <3> QED BY <3>1, <3>2, <3>3 DEF SameTeams, TypeOK
  <2>2. CASE ~PushSave(h)
    <3>1. alloc' = alloc
      BY <2>2 DEF PushStart, CronStart, PushForTimesheet, ForceRetry, PushRead, PushSend,
         PushResolve, FailFind, FailWrite, pmo_side
    <3> QED BY <3>1 DEF SameTeams
  <2> QED BY <2>1, <2>2
<1>2. work'[h].pc \notin RequestPc
  <2>1. CASE PushStart(h) BY <2>1, PushBegins DEF PushStart, RequestPc
  <2>2. CASE FailFind(h)
    <3>1. PICK id : work' = [work EXCEPT ![h] = [@ EXCEPT !.pc = "fail_write", !.at = id]]
      BY <2>2 DEF FailFind
    <3>2. work'[h].pc = "fail_write" BY <3>1 DEF TypeOK, Work
    <3> QED BY <3>2 DEF RequestPc
  <2>3. CASE EndPush(h) BY <2>3, EndPushFields DEF RequestPc
  <2>4. CASE \E pc \in PushPc : Goto(h, pc) BY <2>4, GotoFields DEF RequestPc, PushPc
  <2> QED BY <2>1, <2>2, <2>3, <2>4 DEF PushRead, PushSend, PushSave, PushResolve,
        FailWrite, PushPc
<1>3. SameRequests BY <1>2 DEF Moves, SameRequests
<1>4. crossed' = crossed
  BY DEF PushStart, CronStart, PushForTimesheet, ForceRetry, PushRead, PushSend, PushSave,
     PushResolve, FailFind, FailWrite, pmo_side
<1> QED BY <1>1, <1>3, <1>4

LEMMA OrderlyStep ==
    ASSUME AllocationsAssumption, TypeOK, HandlersNameRows, RecordsNameRows, Orderly, Next
    PROVE  Orderly'
<1>1. ASSUME NEW h \in Handler, Moves(h),
             PushStart(h) \/ PushRead(h) \/ PushSend(h) \/ PushSave(h) \/ PushResolve(h)
             \/ FailFind(h) \/ FailWrite(h)
      PROVE  Orderly'
  BY <1>1, PushesLeaveRequests, SameStep
<1>2. CASE \E r \in Row : RemoveMember(r) BY <1>2, RemoveStep
<1>3. ASSUME NEW h \in Handler, Moves(h) PROVE Orderly'
  BY <1>1, <1>3, WriteStep, StartStep, CheckStep DEF Moves
<1> QED BY <1>2, <1>3, SomeMove

-----------------------------------------------------------------------------
(* The invariant is inductive.                                               *)

LEMMA TypeStep ==
    ASSUME AllocationsAssumption, TypeOK, HandlersNameRows, Next
    PROVE  TypeOK'
BY RequestType, PushType, StartType, RemoveType DEF Next

LEMMA InitHolds ==
    ASSUME AllocationsAssumption, Init
    PROVE  IInv
<1>1. TypeOK
  <2>1. Free \in Allocation BY DEF Free, Allocation
  <2>2. Idle \in Work BY DEF Idle, Work, PushPc, RequestPc, Outcome
  <2>3. records \in Seq(Record) BY DEF Init
  <2>4. alloc \in [Row -> Allocation] BY <2>1 DEF Init
  <2>5. keka \in [Row -> Nat] BY DEF Init
  <2>6. work \in [Handler -> Work] BY <2>2 DEF Init
  <2>7. failures \in 0..MaxFailures /\ calls \in 0..MaxCalls
    BY AllocationsAssumption DEF AllocationsAssumption, Init
  <2>8. crossed \in BOOLEAN /\ raced \subseteq Row /\ unheard \subseteq Row BY DEF Init
  <2> QED BY <2>3, <2>4, <2>5, <2>6, <2>7, <2>8 DEF TypeOK
<1>2. \A h \in Handler : work[h].pc = "idle" /\ work[h].batch = {} BY DEF Init, Idle
<1>3. \A r \in Row : /\ alloc[r].status = "free" /\ ~alloc[r].synced /\ keka[r] = 0
                     /\ alloc[r].approver = Nobody
  BY DEF Init, Free
<1>4. DOMAIN records = {} BY DEF Init
<1>5. HandlersNameRows /\ RecordsNameRows /\ PushKnows
  BY <1>2, <1>4 DEF HandlersNameRows, RecordsNameRows, PushKnows, RequestPc, PushPc
<1>6. OneRequest /\ RequestFits /\ OnTeamOnce /\ NotTheirOwn
  BY <1>2, <1>3 DEF OneRequest, RequestFits, OnTeamOnce, NotTheirOwn, RequestPc, OnTeam
<1>7. FollowedUp /\ OnePush /\ Unsynced /\ Sent /\ Closing
  BY <1>2, <1>3 DEF FollowedUp, OnePush, Unsynced, Sent, Closing, IsActive, Pushing, PushPc
<1> QED BY <1>1, <1>5, <1>6, <1>7 DEF IInv

LEMMA IInvStep ==
    ASSUME AllocationsAssumption, IInv, Next
    PROVE  IInv'
<1>1. TypeOK /\ HandlersNameRows /\ RecordsNameRows /\ Orderly BY DEF IInv, Orderly
<1>2. TypeOK' BY <1>1, TypeStep
<1>3. HandlersNameRows' BY <1>1, HandlersStep
<1>4. RecordsNameRows' BY <1>1, <1>2, RecordsStep
<1>5. Orderly' BY <1>1, OrderlyStep
<1>6. PushKnows' BY <1>1, <1>2, PushKnowsStep DEF IInv
<1>7. FollowedUp' BY <1>1, <1>2, FollowedStep DEF IInv
<1>8. OnePush' BY <1>1, OnePushStep DEF IInv
<1>9. Unsynced' BY <1>1, UnsyncedStep DEF IInv
<1>10. Sent' BY <1>1, SentStep DEF IInv
<1>11. Closing' BY <1>1, <1>2, ClosingStep DEF IInv
<1> QED BY <1>2, <1>3, <1>4, <1>5, <1>6, <1>7, <1>8, <1>9, <1>10, <1>11 DEF IInv, Orderly

LEMMA IInvStutter == ASSUME IInv, UNCHANGED vars PROVE IInv'
<1> USE DEF vars
<1>1. TypeOK' BY DEF IInv, TypeOK
<1>2. HandlersNameRows' /\ RecordsNameRows'
  BY DEF IInv, HandlersNameRows, RecordsNameRows, Named
<1>3. OneRequest' /\ RequestFits' /\ OnTeamOnce' /\ NotTheirOwn'
  BY DEF IInv, OneRequest, RequestFits, OnTeamOnce, NotTheirOwn, OnTeam
<1>4. PushKnows' /\ FollowedUp'
  BY DEF IInv, PushKnows, FollowedUp, IsActive, InPush, Recorded
<1>5. OnePush' /\ Unsynced' /\ Sent' /\ Closing'
  BY DEF IInv, OnePush, Unsynced, Sent, Closing, Pushing, Recorded
<1> QED BY <1>1, <1>2, <1>3, <1>4, <1>5 DEF IInv

LEMMA Inductive == Spec => []IInv
<1>1. Init => IInv BY InitHolds, AllocationsAssumption
<1>2. IInv /\ [Next]_vars => IInv' BY IInvStep, IInvStutter, AllocationsAssumption
<1> QED BY <1>1, <1>2, PTL DEF Spec

-----------------------------------------------------------------------------
(* Theorems that rest on IInv; the one on bookings, which needs more, comes *)
(* at the end.                                                              *)

(* Rows, records and handlers keep their types, for any number of rows, people,
   projects and handlers (ProjectTeamService, AllocationPushService).        *)
THEOREM TypeCorrect == Spec => []TypeOK
<1>1. IInv => TypeOK BY DEF IInv
<1> QED BY <1>1, Inductive, PTL

(* Adds, edits and decisions that do not overlap keep an employee once on each
   team, whatever the pushes behind them do (planAllocationCreate).          *)
THEOREM TeamOnce == Spec => []OnTeamOnce
<1>1. IInv => OnTeamOnce BY DEF IInv
<1> QED BY <1>1, Inductive, PTL

(* Nobody has decided on a request of their own, whatever edits come between
   (getPendingAllocation).                                                   *)
THEOREM OthersDecide == Spec => []NotTheirOwn
<1>1. IInv => NotTheirOwn BY DEF IInv
<1> QED BY <1>1, Inductive, PTL

(* No active allocation that Keka does not know is forgotten: it is being pushed
   or has an open record, however requests, pushes, retries and failures
   interleave (pushAllocation, logFailure).                                  *)
THEOREM NoneForgotten == Spec => []FollowedUp
<1>1. IInv => FollowedUp BY DEF IInv
<1> QED BY <1>1, Inductive, PTL

(* Keka holds an allocation twice only after a lost reply or two pushes of it
   that overlapped (the check of kekaSyncRef in pushAllocation).             *)
THEOREM DoublesExplained == Spec => []HeldOnce
<1>1. IInv => HeldOnce BY DEF IInv, TypeOK, Sent, HeldOnce
<1> QED BY <1>1, Inductive, PTL

(* A row that is synced has no open record once its push is over, unless two of
   its pushes overlapped (resolveFailedSyncRecord).                          *)
THEOREM SuccessCloses == Spec => []SyncedIsClosed
<1>1. IInv => SyncedIsClosed BY DEF IInv, Closing, SyncedIsClosed, InPush, PushPc
<1> QED BY <1>1, Inductive, PTL

-----------------------------------------------------------------------------
(* What MapThenSumSet computes on a finite set, for the hours of rows. The *)
(* library gives it as a recursive function that takes an arbitrary element *)
(* out first; here it is shown to be a natural number that does not depend  *)
(* on the order, nor on rows outside the set.                               *)
HoursOf(f, S) == MapThenSumSet(LAMBDA e : f[e].hours, S)

Chosen(s) == CHOOSE x \in s : TRUE

Solves(g, f, S) ==
    g = [s \in SUBSET S |->
            IF s = {} THEN 0 ELSE f[Chosen(s)].hours + g[s \ {Chosen(s)}]]

LEMMA HoursDef ==
    ASSUME NEW f, NEW S
    PROVE  HoursOf(f, S) = (CHOOSE g : Solves(g, f, S))[S]
BY DEF HoursOf, MapThenSumSet, MapThenFoldSet, Solves, Chosen

(* Induction over the subsets of a finite set: a smallest bad one is good.  *)
LEMMA BySubsets ==
    ASSUME NEW S, IsFiniteSet(S), NEW good,
           \A s \in SUBSET S : (\A t \in SUBSET s : t # s => t \in good) => s \in good
    PROVE  \A s \in SUBSET S : s \in good
<1> DEFINE bad == {s \in SUBSET S : s \notin good}
<1>1. SUFFICES ASSUME bad # {} PROVE FALSE
  OBVIOUS
<1>2. IsWellFoundedOn(StrictSubsetOrdering(S), SUBSET S)
  BY FS_StrictSubsetOrderingWellFounded, FS_FiniteSubsetsOfFinite
<1>3. PICK s \in bad : \A t \in bad : ~(<<t, s>> \in StrictSubsetOrdering(S))
  <2> HIDE DEF bad
  <2>1. bad \subseteq SUBSET S
    BY DEF bad
  <2> QED
    BY <1>1, <1>2, <2>1, WFMin
<1>4. \A t \in SUBSET s : t # s => t \in good
  BY <1>3 DEF StrictSubsetOrdering
<1> QED
  BY <1>3, <1>4

(* The recursion of the sum has a solution on the subsets of a finite set.  *)
LEMMA SolutionExists ==
    ASSUME NEW f, NEW S, IsFiniteSet(S)
    PROVE  \E g : Solves(g, f, S)
<1> DEFINE Small(n) == {s \in SUBSET S : Cardinality(s) <= n}
           Upto(n, g) == g = [s \in Small(n) |->
                        IF s = {} THEN 0 ELSE f[Chosen(s)].hours + g[s \ {Chosen(s)}]]
           good == {s \in SUBSET S : \E g : Upto(Cardinality(s), g)}
<1>1. ASSUME NEW s \in SUBSET S
      PROVE  /\ IsFiniteSet(s) /\ Cardinality(s) \in Nat
             /\ Cardinality(s) <= Cardinality(S)
             /\ s # {} => /\ Chosen(s) \in s
                          /\ Cardinality(s \ {Chosen(s)}) = Cardinality(s) - 1
             /\ Cardinality(s) = 0 <=> s = {}
  <2>1. IsFiniteSet(s) /\ Cardinality(s) <= Cardinality(S)
    BY FS_Subset
  <2>2. Cardinality(s) \in Nat /\ (Cardinality(s) = 0 <=> s = {})
    BY <2>1, FS_CardinalityType, FS_EmptySet
  <2>3. s # {} => Chosen(s) \in s
    BY DEF Chosen
  <2>4. s # {} => Cardinality(s \ {Chosen(s)}) = Cardinality(s) - 1
    BY <2>1, <2>3, FS_RemoveElement
  <2> QED
    BY <2>1, <2>2, <2>3, <2>4
<1>2. ASSUME NEW s \in SUBSET S, \A t \in SUBSET s : t # s => t \in good
      PROVE  s \in good
  <2> DEFINE n == Cardinality(s)
  <2>1. CASE s = {}
    <3>1. Upto(0, [u \in Small(0) |-> 0])
      BY <1>1
    <3> QED
      BY <1>1, <2>1, <3>1
  <2>2. CASE s # {}
    <3>1. n \in Nat /\ n # 0 /\ s \ {Chosen(s)} \in good
      BY <1>1, <1>2, <2>2
    <3>2. PICK g : Upto(n - 1, g)
      <4>1. Cardinality(s \ {Chosen(s)}) = n - 1
        BY <1>1, <2>2
      <4>2. \E g : Upto(Cardinality(s \ {Chosen(s)}), g)
        BY <3>1
      <4> HIDE DEF Upto
      <4> QED
        BY <4>1, <4>2
    <3> DEFINE h == [u \in Small(n) |->
                        IF u = {} THEN 0 ELSE f[Chosen(u)].hours + g[u \ {Chosen(u)}]]
    <3>3. \A u \in Small(n - 1) : u \in Small(n)
      <4>1. \A k \in Nat : k <= n - 1 => k <= n
        BY <3>1
      <4> QED
        BY <1>1, <4>1
    <3>4. ASSUME NEW u \in Small(n), u # {} PROVE u \ {Chosen(u)} \in Small(n - 1)
      <4> DEFINE k == Cardinality(u)
      <4>1. k \in Nat /\ k <= n /\ Cardinality(u \ {Chosen(u)}) = k - 1
        BY <1>1, <3>4
      <4> HIDE DEF k, n
      <4>2. k - 1 <= n - 1
        BY <3>1, <4>1
      <4> QED
        BY <4>1, <4>2
    <3>5. \A u \in Small(n - 1) : h[u] = g[u]
      BY <3>2, <3>3
    <3>6. Upto(n, h)
      BY <3>3, <3>4, <3>5
    <3> QED
      BY <3>6
  <2> QED
    BY <2>1, <2>2
<1>3. S \in good
  <2> HIDE DEF good
  <2> QED
    BY <1>2, BySubsets
<1>4. PICK g : Upto(Cardinality(S), g)
  BY <1>3
<1>5. Small(Cardinality(S)) = SUBSET S
  BY <1>1
<1> QED
  BY <1>4, <1>5 DEF Solves

(* Solutions on two sets agree on what the sets have in common.             *)
LEMMA SolutionsAgree ==
    ASSUME NEW f, NEW h, NEW S, NEW T, IsFiniteSet(S), T \subseteq S,
           \A e \in T : h[e].hours = f[e].hours,
           NEW g, Solves(g, f, S), NEW k, Solves(k, h, T)
    PROVE  g[T] = k[T]
<1> DEFINE good == {s \in SUBSET T : g[s] = k[s]}
<1>1. IsFiniteSet(T)
  BY FS_Subset
<1>2. ASSUME NEW s \in SUBSET T, \A t \in SUBSET s : t # s => t \in good
      PROVE  s \in good
  <2>1. CASE s = {}
    BY <2>1 DEF Solves
  <2>2. CASE s # {}
    <3>1. Chosen(s) \in s
      BY <2>2 DEF Chosen
    <3> DEFINE t == s \ {Chosen(s)}
    <3>2. g[t] = k[t]
      BY <1>2, <3>1
    <3>3. g[s] = f[Chosen(s)].hours + g[t] /\ k[s] = h[Chosen(s)].hours + k[t]
      BY <2>2 DEF Solves
    <3> QED
      BY <3>1, <3>2, <3>3
  <2> QED
    BY <2>1, <2>2
<1> HIDE DEF good
<1>3. T \in good
  BY <1>1, <1>2, BySubsets
<1> QED
  BY <1>3 DEF good

(* What the sum is made of.                                                 *)
LEMMA HoursSolves ==
    ASSUME NEW f, NEW S, IsFiniteSet(S)
    PROVE  \E g : Solves(g, f, S) /\ \A T \in SUBSET S : HoursOf(f, T) = g[T]
<1>1. PICK g : Solves(g, f, S)
  BY SolutionExists
<1>2. ASSUME NEW T \in SUBSET S PROVE HoursOf(f, T) = g[T]
  <2>1. IsFiniteSet(T)
    BY FS_Subset
  <2> DEFINE k == CHOOSE k : Solves(k, f, T)
  <2>2. Solves(k, f, T)
    BY <2>1, SolutionExists
  <2>3. HoursOf(f, T) = k[T]
    BY HoursDef
  <2> HIDE DEF k
  <2> QED
    BY <1>1, <2>2, <2>3, SolutionsAgree
<1> QED
  BY <1>1, <1>2

LEMMA HoursAgrees ==
    ASSUME NEW f, NEW h, NEW S, IsFiniteSet(S), \A e \in S : h[e].hours = f[e].hours
    PROVE  HoursOf(h, S) = HoursOf(f, S)
<1>1. PICK g : Solves(g, f, S) /\ \A T \in SUBSET S : HoursOf(f, T) = g[T]
  BY HoursSolves
<1>2. PICK k : Solves(k, h, S) /\ \A T \in SUBSET S : HoursOf(h, T) = k[T]
  BY HoursSolves
<1>3. g[S] = k[S]
  BY <1>1, <1>2, SolutionsAgree
<1> QED
  BY <1>1, <1>2, <1>3

LEMMA HoursUnfolds ==
    ASSUME NEW f, NEW S, IsFiniteSet(S)
    PROVE  /\ HoursOf(f, {}) = 0
           /\ S # {} => /\ Chosen(S) \in S
                        /\ HoursOf(f, S) = f[Chosen(S)].hours + HoursOf(f, S \ {Chosen(S)})
<1>1. PICK g : Solves(g, f, S) /\ \A T \in SUBSET S : HoursOf(f, T) = g[T]
  BY HoursSolves
<1>2. S # {} => Chosen(S) \in S
  BY DEF Chosen
<1> QED
  BY <1>1, <1>2 DEF Solves

(* A sum of natural numbers is one, and any element may be taken out first. *)
LEMMA HoursType ==
    ASSUME NEW f, NEW S, IsFiniteSet(S), \A e \in S : f[e].hours \in Nat
    PROVE  HoursOf(f, S) \in Nat
<1> DEFINE good == {s \in SUBSET S : HoursOf(f, s) \in Nat}
<1>1. ASSUME NEW s \in SUBSET S, \A t \in SUBSET s : t # s => t \in good
      PROVE  s \in good
  <2>1. IsFiniteSet(s)
    BY FS_Subset
  <2>2. CASE s = {}
    <3>1. HoursOf(f, s) = 0
      BY <2>1, <2>2, HoursUnfolds
    <3> QED
      BY <2>2, <3>1
  <2>3. CASE s # {}
    <3> DEFINE x == Chosen(s)
    <3>1. x \in s /\ HoursOf(f, s) = f[x].hours + HoursOf(f, s \ {x})
      BY <2>1, <2>3, HoursUnfolds
    <3>2. s \ {x} \in good /\ x \in S
      BY <1>1, <3>1
    <3>3. f[x].hours \in Nat /\ HoursOf(f, s \ {x}) \in Nat
      BY <3>2
    <3> HIDE DEF x
    <3> QED
      BY <3>1, <3>3
  <2> QED
    BY <2>2, <2>3
<1> HIDE DEF good
<1>2. S \in good
  BY <1>1, BySubsets
<1> QED
  BY <1>2 DEF good

LEMMA HoursTakesOut ==
    ASSUME NEW f, NEW S, IsFiniteSet(S), \A e \in S : f[e].hours \in Nat, NEW e \in S
    PROVE  HoursOf(f, S) = f[e].hours + HoursOf(f, S \ {e})
<1> DEFINE good == {s \in SUBSET S : \A d \in s : HoursOf(f, s) = f[d].hours + HoursOf(f, s \ {d})}
<1>1. ASSUME NEW s \in SUBSET S, \A t \in SUBSET s : t # s => t \in good
      PROVE  s \in good
  <2> SUFFICES ASSUME NEW d \in s
               PROVE  HoursOf(f, s) = f[d].hours + HoursOf(f, s \ {d})
    OBVIOUS
  <2>1. \A t \in SUBSET s : IsFiniteSet(t) /\ HoursOf(f, t) \in Nat
    BY FS_Subset, HoursType
  <2> DEFINE x == Chosen(s)
  <2>2. x \in s /\ HoursOf(f, s) = f[x].hours + HoursOf(f, s \ {x})
    BY <2>1, HoursUnfolds
  <2>3. CASE d = x
    BY <2>2, <2>3
  <2>4. CASE d # x
    <3>1. s \ {x} \in good /\ s \ {d} \in good
      BY <1>1, <2>2
    <3> DEFINE rest == (s \ {x}) \ {d}
    <3>2. HoursOf(f, s \ {x}) = f[d].hours + HoursOf(f, rest)
      BY <2>4, <3>1
    <3>3. (s \ {d}) \ {x} = rest
      OBVIOUS
    <3>4. HoursOf(f, s \ {d}) = f[x].hours + HoursOf(f, rest)
      BY <2>2, <2>4, <3>1, <3>3
    <3>5. f[d].hours \in Nat /\ f[x].hours \in Nat /\ HoursOf(f, rest) \in Nat
      BY <2>1, <2>2
    <3> HIDE DEF rest, x
    <3> QED
      BY <2>2, <3>2, <3>4, <3>5
  <2> QED
    BY <2>3, <2>4
<1> HIDE DEF good
<1>2. S \in good
  BY <1>1, BySubsets
<1> QED
  BY <1>2 DEF good

LEMMA HoursGrow ==
    ASSUME NEW f, NEW S, IsFiniteSet(S), \A e \in S : f[e].hours \in Nat, NEW T \in SUBSET S
    PROVE  HoursOf(f, T) <= HoursOf(f, S)
<1> DEFINE good == {s \in SUBSET S : \A t \in SUBSET s : HoursOf(f, t) <= HoursOf(f, s)}
<1>1. ASSUME NEW s \in SUBSET S, \A t \in SUBSET s : t # s => t \in good
      PROVE  s \in good
  <2> SUFFICES ASSUME NEW t \in SUBSET s
               PROVE  HoursOf(f, t) <= HoursOf(f, s)
    OBVIOUS
  <2>1. IsFiniteSet(s) /\ HoursOf(f, s) \in Nat
    BY FS_Subset, HoursType
  <2>2. CASE t = s
    BY <2>1, <2>2
  <2>3. CASE t # s
    <3>1. PICK d \in s : d \notin t
      BY <2>3
    <3>2. s \ {d} \in good /\ t \in SUBSET (s \ {d})
      BY <1>1, <3>1
    <3>3. HoursOf(f, t) <= HoursOf(f, s \ {d})
      BY <3>2
    <3>4. HoursOf(f, s) = f[d].hours + HoursOf(f, s \ {d})
      BY <2>1, HoursTakesOut
    <3>5. IsFiniteSet(t) /\ IsFiniteSet(s \ {d})
      BY <2>1, FS_Subset
    <3>6. HoursOf(f, t) \in Nat /\ HoursOf(f, s \ {d}) \in Nat /\ f[d].hours \in Nat
      BY <3>1, <3>2, <3>5, HoursType
    <3> HIDE DEF good
    <3> QED
      BY <3>3, <3>4, <3>6
  <2> QED
    BY <2>2, <2>3
<1> HIDE DEF good
<1>2. \A s \in SUBSET S : s \in good
  BY <1>1, BySubsets
<1> QED
  BY <1>2 DEF good

-----------------------------------------------------------------------------
(* Bookings.  The hours of the active allocations without a reason fit into *)
(* the capacity: whoever is booked beyond it has an allocation with one.    *)

Unreasoned == {r \in Row : IsActive(r) /\ ~alloc[r].reason}
UnreasonedHours == Booked(Unreasoned)
ElsewhereHours(p) == Booked(Elsewhere(p))
OthersHours(r) == Booked(Others(r))

(* What a request has been told still holds when it writes.                 *)
Within(w) ==
    /\ w.pc \in {"add_check", "add_create"} =>
          /\ w.outcome # "none"
          /\ w.outcome = "active" => ElsewhereHours(w.project) + w.hours <= Capacity
    /\ w.pc = "update_write" =>
          /\ w.outcome = "none" => w.hours = 0
          /\ w.outcome = "active" =>
                OthersHours(w.row) + (IF w.hours = 0 THEN alloc[w.row].hours ELSE w.hours) <= Capacity
    /\ w.pc = "approve_write" => alloc[w.row].reason = TRUE

Fits ==
    ~crossed =>
        /\ UnreasonedHours <= Capacity
        /\ \A r \in Row : alloc[r].status = "Pending" => alloc[r].reason = TRUE
        /\ \A h \in Handler : Within(work[h])

(* Rows come one by one: there are only ever finitely many.                 *)
Taken == {r \in Row : alloc[r].status # "free"}

BInv == IInv /\ IsFiniteSet(Taken) /\ Fits

(* The sums of this state and of the next.                                  *)
LEMMA Sums ==
    ASSUME NEW r, NEW p
    PROVE  /\ UnreasonedHours = HoursOf(alloc, Unreasoned)
           /\ UnreasonedHours' = HoursOf(alloc', Unreasoned')
           /\ OthersHours(r) = HoursOf(alloc, Others(r))
           /\ OthersHours(r)' = HoursOf(alloc', Others(r)')
           /\ ElsewhereHours(p) = HoursOf(alloc, Elsewhere(p))
           /\ ElsewhereHours(p)' = HoursOf(alloc', Elsewhere(p)')
<1>1. UnreasonedHours = HoursOf(alloc, Unreasoned)
  BY DEF UnreasonedHours, Booked, HoursOf
<1>2. UnreasonedHours' = HoursOf(alloc', Unreasoned')
  BY DEF UnreasonedHours, Booked, HoursOf, Unreasoned, IsActive, MapThenSumSet, MapThenFoldSet
<1>3. OthersHours(r) = HoursOf(alloc, Others(r))
  BY DEF OthersHours, Booked, HoursOf
<1>4. OthersHours(r)' = HoursOf(alloc', Others(r)')
  BY DEF OthersHours, Booked, HoursOf, Others, IsActive, MapThenSumSet, MapThenFoldSet
<1>5. ElsewhereHours(p) = HoursOf(alloc, Elsewhere(p))
  BY DEF ElsewhereHours, Booked, HoursOf
<1>6. ElsewhereHours(p)' = HoursOf(alloc', Elsewhere(p)')
  BY DEF ElsewhereHours, Booked, HoursOf, Elsewhere, IsActive, MapThenSumSet, MapThenFoldSet
<1> QED BY <1>1, <1>2, <1>3, <1>4, <1>5, <1>6

LEMMA HoursAreNat ==
    ASSUME AllocationsAssumption, TypeOK
    PROVE  Capacity \in Nat /\ \A r \in Row : alloc[r].hours \in Nat
<1>1. Capacity \in Nat /\ Hours \cup {0} \subseteq Nat BY AllocationsAssumption DEF AllocationsAssumption
<1>2. \A r \in Row : alloc[r].hours \in Hours \cup {0} BY DEF TypeOK, Allocation
<1> QED BY <1>1, <1>2

LEMMA FewRows ==
    ASSUME IsFiniteSet(Taken), NEW r, NEW p
    PROVE  IsFiniteSet(Unreasoned) /\ IsFiniteSet(Others(r)) /\ IsFiniteSet(Elsewhere(p))
<1>1. Unreasoned \subseteq Taken /\ Others(r) \subseteq Taken /\ Elsewhere(p) \subseteq Taken
  BY DEF Unreasoned, Others, Elsewhere, Taken, IsActive
<1> QED BY <1>1, FS_Subset

(* Teams that stay keep every sum, and what requests have been told.        *)
LEMMA SumsStay ==
    ASSUME IsFiniteSet(Taken), SameTeams, NEW r, NEW p
    PROVE  /\ UnreasonedHours' = UnreasonedHours
           /\ OthersHours(r)' = OthersHours(r)
           /\ ElsewhereHours(p)' = ElsewhereHours(p)
<1>1. Unreasoned' = Unreasoned /\ Others(r)' = Others(r) /\ Elsewhere(p)' = Elsewhere(p)
  BY DEF SameTeams, Unreasoned, Others, Elsewhere, IsActive
<1>2. HoursOf(alloc', Unreasoned) = HoursOf(alloc, Unreasoned)
  <2>1. \A e \in Unreasoned : alloc'[e].hours = alloc[e].hours BY DEF Unreasoned, SameTeams
  <2> QED BY <2>1, FewRows, HoursAgrees
<1>3. HoursOf(alloc', Others(r)) = HoursOf(alloc, Others(r))
  <2>1. \A e \in Others(r) : alloc'[e].hours = alloc[e].hours BY DEF Others, SameTeams
  <2> QED BY <2>1, FewRows, HoursAgrees
<1>4. HoursOf(alloc', Elsewhere(p)) = HoursOf(alloc, Elsewhere(p))
  <2>1. \A e \in Elsewhere(p) : alloc'[e].hours = alloc[e].hours BY DEF Elsewhere, SameTeams
  <2> QED BY <2>1, FewRows, HoursAgrees
<1> QED BY <1>1, <1>2, <1>3, <1>4, Sums

LEMMA WithinStays ==
    ASSUME IsFiniteSet(Taken), SameTeams, NEW w, Within(w),
           w.pc \in {"update_write", "approve_write"} => w.row \in Row
    PROVE  Within(w)'
<1>1. PICK r, p : r = w.row /\ p = w.project OBVIOUS
<1>2. OthersHours(r)' = OthersHours(r) /\ ElsewhereHours(p)' = ElsewhereHours(p) BY SumsStay
<1>3. r \in Row => alloc'[r].hours = alloc[r].hours /\ alloc'[r].reason = alloc[r].reason
  BY DEF SameTeams
<1> QED BY <1>1, <1>2, <1>3 DEF Within

LEMMA SameFits ==
    ASSUME HandlersNameRows, IsFiniteSet(Taken), Fits, SameTeams, SameRequests, crossed' = crossed
    PROVE  Fits'
<1> SUFFICES ASSUME ~crossed
             PROVE  /\ UnreasonedHours' <= Capacity
                    /\ \A r \in Row : alloc'[r].status = "Pending" => alloc'[r].reason = TRUE
                    /\ \A h \in Handler : Within(work[h])'
  BY DEF Fits
<1>1. UnreasonedHours' <= Capacity BY SumsStay DEF Fits
<1>2. \A r \in Row : alloc'[r].status = "Pending" => alloc'[r].reason = TRUE
  BY DEF Fits, SameTeams
<1>3. ASSUME NEW h \in Handler PROVE Within(work[h])'
  <2>1. CASE work'[h].pc \in RequestPc
    <3>1. PICK w : w = work[h] /\ w = work'[h] BY <2>1 DEF SameRequests
    <3>2. Within(w) BY <3>1 DEF Fits
    <3>3. w.pc \in {"update_write", "approve_write"} => w.row \in Row
      BY <3>1 DEF HandlersNameRows, Named
    <3>4. Within(w)' BY <3>2, <3>3, WithinStays
    <3> QED BY <3>1, <3>4 DEF Within
  <2>2. CASE work'[h].pc \notin RequestPc BY <2>2 DEF Within, RequestPc
  <2> QED BY <2>1, <2>2
<1> QED BY <1>1, <1>2, <1>3

LEMMA NoneWithin ==
    ASSUME NoRequest'
    PROVE  \A h \in Handler : Within(work[h])'
BY DEF NoRequest, Within, RequestPc

(* A row that goes, waits or has a reason takes its hours from the sum; one that
   needs none was counted with the others before.                           *)
LEMMA RowFits ==
    ASSUME AllocationsAssumption, TypeOK, IsFiniteSet(Taken), UnreasonedHours <= Capacity,
           NEW q \in Row, NEW a \in Allocation, alloc' = [alloc EXCEPT ![q] = a],
           \/ a.status # "Active" \/ a.reason = TRUE
           \/ OthersHours(q) + a.hours <= Capacity
    PROVE  UnreasonedHours' <= Capacity
<1> DEFINE S == Unreasoned
           T == Unreasoned'
           U == T \ {q}
<1>1. alloc'[q] = a /\ \A r \in Row \ {q} : alloc'[r] = alloc[r] BY DEF TypeOK
<1>2. Capacity \in Nat /\ (\A r \in Row : alloc[r].hours \in Nat) /\ a.hours \in Nat
  <2>1. a.hours \in Hours \cup {0} /\ Hours \cup {0} \subseteq Nat
    BY AllocationsAssumption DEF AllocationsAssumption, Allocation
  <2> QED BY <2>1, HoursAreNat
<1>3. T = {r \in Row : alloc'[r].status = "Active" /\ ~alloc'[r].reason}
  BY DEF Unreasoned, IsActive
<1>4. U \subseteq S /\ U \subseteq Others(q) /\ U \subseteq Row /\ U \subseteq Taken
  BY <1>1, <1>3 DEF Unreasoned, Others, IsActive, Taken
<1>5. HoursOf(alloc', U) = HoursOf(alloc, U)
  <2>1. IsFiniteSet(U) BY <1>4, FS_Subset
  <2>2. \A e \in U : alloc'[e].hours = alloc[e].hours BY <1>1, <1>4
  <2> QED BY <2>1, <2>2, HoursAgrees
<1>6. HoursOf(alloc, U) <= HoursOf(alloc, S) /\ HoursOf(alloc, U) <= HoursOf(alloc, Others(q))
  <2>1. IsFiniteSet(S) /\ IsFiniteSet(Others(q)) BY FewRows
  <2>2. S \subseteq Row /\ Others(q) \subseteq Row BY DEF Unreasoned, Others
  <2> HIDE DEF S, U
  <2> QED BY <1>2, <1>4, <2>1, <2>2, HoursGrow
<1>7. HoursOf(alloc, U) \in Nat /\ HoursOf(alloc, S) \in Nat /\ HoursOf(alloc, Others(q)) \in Nat
  <2>1. IsFiniteSet(U) /\ IsFiniteSet(S) /\ IsFiniteSet(Others(q)) BY <1>4, FewRows, FS_Subset
  <2>2. S \subseteq Row /\ Others(q) \subseteq Row /\ U \subseteq Row
    BY <1>4 DEF Unreasoned, Others
  <2> HIDE DEF S, U
  <2> QED BY <1>2, <2>1, <2>2, HoursType
<1>8. CASE q \notin T
  <2>1. U = T BY <1>8
  <2>2. UnreasonedHours' = HoursOf(alloc, U) BY <1>5, <2>1, Sums
  <2>3. HoursOf(alloc, S) <= Capacity BY Sums
  <2> HIDE DEF S, U
  <2> QED BY <1>2, <1>6, <1>7, <2>2, <2>3
<1>9. CASE q \in T
  <2>1. OthersHours(q) + a.hours <= Capacity
    <3>1. alloc'[q].status = "Active" /\ ~alloc'[q].reason BY <1>3, <1>9
    <3> QED BY <1>1, <3>1
  <2>2. HoursOf(alloc', T) = a.hours + HoursOf(alloc, U)
    <3>1. IsFiniteSet(U) BY <1>4, FS_Subset
    <3>2. T = U \cup {q} BY <1>9
    <3>3. IsFiniteSet(T) BY <3>1, <3>2, FS_AddElement
    <3>4. \A e \in T : alloc'[e].hours \in Nat BY <1>1, <1>2, <1>4
    <3>5. HoursOf(alloc', T) = alloc'[q].hours + HoursOf(alloc', T \ {q})
      <4>1. PICK V, f : V = T /\ f = alloc' OBVIOUS
      <4>2. IsFiniteSet(V) /\ (\A e \in V : f[e].hours \in Nat) /\ q \in V
        BY <1>9, <3>3, <3>4, <4>1
      <4>3. HoursOf(f, V) = f[q].hours + HoursOf(f, V \ {q}) BY <4>2, HoursTakesOut
      <4> QED BY <4>1, <4>3
    <3> QED BY <1>1, <1>5, <3>5
  <2>3. HoursOf(alloc, Others(q)) + a.hours <= Capacity BY <2>1, Sums
  <2>4. UnreasonedHours' = a.hours + HoursOf(alloc, U) BY <2>2, Sums
  <2> HIDE DEF U
  <2> QED BY <1>2, <1>6, <1>7, <2>3, <2>4
<1> QED BY <1>8, <1>9

LEMMA SettledBooks ==
    ASSUME NEW row \in Allocation, NEW o, NEW actor
    PROVE  /\ o = "none" => Settled(row, o, actor) = row
           /\ o # "none" => /\ Settled(row, o, actor).hours = row.hours
                            /\ o = "active" \/ Settled(row, o, actor).reason = TRUE
                            /\ o = "pending" \/ Settled(row, o, actor).status # "Pending"
<1> DEFINE new == [row EXCEPT !.status = IF o = "pending" THEN "Pending" ELSE "Active",
                              !.approver = IF o = "pending" THEN Nobody ELSE actor,
                              !.asker = IF o = "pending" THEN actor ELSE Nobody,
                              !.reason = o # "active"]
<1>1. Settled(row, o, actor) = IF o = "none" THEN row ELSE new BY DEF Settled
<1>2. /\ new.status = IF o = "pending" THEN "Pending" ELSE "Active"
      /\ new.hours = row.hours /\ new.reason = (o # "active")
  BY DEF Allocation
<1> HIDE DEF new
<1> QED BY <1>1, <1>2

(* A request that writes acts on what it was told, and this still holds.    *)
LEMMA WriteFits ==
    ASSUME AllocationsAssumption, TypeOK, HandlersNameRows, Orderly, IsFiniteSet(Taken), Fits,
           ~crossed, NEW h \in Handler, RequestStep(h), ~AddCheck(h)
    PROVE  \E q \in Row, a \in Allocation :
              /\ alloc' = [alloc EXCEPT ![q] = a]
              /\ a.status = "Pending" => a.reason = TRUE
              /\ \/ a.status # "Active" \/ a.reason = TRUE
                 \/ OthersHours(q) + a.hours <= Capacity
                 \/ a = alloc[q]
<1>1. work[h] \in Work /\ Within(work[h]) BY DEF TypeOK, Fits
<1>2. work[h].outcome \in Outcome /\ work[h].hours \in Hours \cup {0} BY <1>1 DEF Work
<1>3. CASE AddCreate(h)
  <2> DEFINE new == [Free EXCEPT !.project = work[h].project, !.hours = work[h].hours]
             a == Settled(new, work[h].outcome, work[h].actor)
  <2>1. PICK q \in Row : alloc[q].status = "free" /\ alloc' = [alloc EXCEPT ![q] = a]
    BY <1>3 DEF AddCreate
  <2>2. new \in Allocation /\ new.hours = work[h].hours
    BY <1>1 DEF Free, Allocation, Work
  <2>3. work[h].pc = "add_create" /\ work[h].actor \in Person
    BY <1>3 DEF AddCreate, HandlersNameRows, RequestPc
  <2> HIDE DEF new
  <2>4. a \in Allocation BY <1>2, <2>2, <2>3, SettledType
  <2>5. /\ a.hours = work[h].hours
        /\ work[h].outcome = "active" \/ a.reason = TRUE
        /\ work[h].outcome = "pending" \/ a.status # "Pending"
    <3>1. work[h].outcome # "none" BY <1>1, <2>3 DEF Within
    <3>2. /\ a.hours = new.hours
          /\ work[h].outcome = "active" \/ a.reason = TRUE
          /\ work[h].outcome = "pending" \/ a.status # "Pending"
      BY <2>2, <3>1, SettledBooks
    <3> QED BY <2>2, <3>2
  <2> HIDE DEF a
  <2>6. work[h].outcome = "active" => OthersHours(q) + a.hours <= Capacity
    <3>1. PICK p : p = work[h].project OBVIOUS
    <3>2. Elsewhere(p) = Others(q)
      BY <2>1, <2>3, <3>1 DEF Orderly, RequestFits, OnTeam, Elsewhere, Others, IsActive
    <3>3. OthersHours(q) = ElsewhereHours(p) BY <3>2 DEF OthersHours, ElsewhereHours
    <3> QED BY <1>1, <2>3, <2>5, <3>1, <3>3 DEF Within
  <2> QED BY <2>1, <2>4, <2>5, <2>6
<1>4. CASE UpdateWrite(h)
  <2> DEFINE q == work[h].row
             edited == IF work[h].hours = 0 THEN alloc[q]
                       ELSE [alloc[q] EXCEPT !.hours = work[h].hours]
             a == Settled(edited, work[h].outcome, work[h].actor)
  <2>1. /\ q \in Row /\ work[h].pc = "update_write" /\ work[h].actor \in Person
    BY <1>4 DEF UpdateWrite, HandlersNameRows, Named, RequestPc
  <2>2. alloc[q] \in Allocation BY <2>1 DEF TypeOK
  <2>3. /\ edited \in Allocation
        /\ edited.hours = IF work[h].hours = 0 THEN alloc[q].hours ELSE work[h].hours
    BY <1>2, <2>2 DEF Allocation
  <2>4. alloc' = [alloc EXCEPT ![q] = a] BY <1>4 DEF UpdateWrite
  <2>5. work[h].outcome = "none" => edited = alloc[q] BY <1>1, <2>1 DEF Within
  <2> HIDE DEF edited
  <2>6. a \in Allocation BY <1>2, <2>1, <2>3, SettledType
  <2>7. CASE work[h].outcome = "none"
    <3>0. a = edited BY <2>3, <2>7, SettledBooks
    <3>1. a = alloc[q] BY <2>5, <2>7, <3>0
    <3>2. a.status = "Pending" => a.reason = TRUE BY <2>1, <3>1 DEF Fits
    <3> HIDE DEF a
    <3> QED BY <2>1, <2>4, <2>6, <3>1, <3>2
  <2>8. CASE work[h].outcome # "none"
    <3>1. /\ a.hours = edited.hours
          /\ work[h].outcome = "active" \/ a.reason = TRUE
          /\ work[h].outcome = "pending" \/ a.status # "Pending"
      BY <2>3, <2>8, SettledBooks
    <3> HIDE DEF a
    <3>2. PICK r : r = q OBVIOUS
    <3>3. work[h].outcome = "active" => OthersHours(r) + a.hours <= Capacity
      BY <1>1, <2>1, <2>3, <3>1, <3>2 DEF Within
    <3> QED BY <2>1, <2>4, <2>6, <3>1, <3>2, <3>3
  <2> QED BY <2>7, <2>8
<1>5. ASSUME NEW pc \in {"approve_write", "reject_write"}, NEW status \in {"Active", "Rejected"},
             DecideWrite(h, pc, status), pc = "approve_write" \/ status = "Rejected"
      PROVE  \E q \in Row, a \in Allocation :
                /\ alloc' = [alloc EXCEPT ![q] = a]
                /\ a.status # "Pending" /\ (a.status # "Active" \/ a.reason = TRUE)
  <2> DEFINE q == work[h].row
             a == [alloc[q] EXCEPT !.status = status, !.approver = work[h].actor]
  <2>1. q \in Row /\ work[h].actor \in Person /\ work[h].pc = pc
    BY <1>5 DEF DecideWrite, HandlersNameRows, Named, RequestPc
  <2>2. alloc[q] \in Allocation BY <2>1 DEF TypeOK
  <2>3. a \in Allocation /\ a.status = status /\ a.reason = alloc[q].reason
    BY <2>1, <2>2 DEF Allocation
  <2>4. alloc' = [alloc EXCEPT ![q] = a] BY <1>5 DEF DecideWrite
  <2>5. pc = "approve_write" => alloc[q].reason = TRUE BY <1>1, <2>1 DEF Within
  <2> HIDE DEF a
  <2> QED BY <1>5, <2>1, <2>3, <2>4, <2>5
<1>6. CASE ApproveWrite(h) BY <1>5, <1>6 DEF ApproveWrite
<1>7. CASE RejectWrite(h) BY <1>5, <1>7 DEF RejectWrite
<1> QED BY <1>3, <1>4, <1>6, <1>7 DEF RequestStep

LEMMA WriteStepFits ==
    ASSUME AllocationsAssumption, TypeOK, HandlersNameRows, Orderly, IsFiniteSet(Taken), Fits,
           NEW h \in Handler, RequestStep(h), ~AddCheck(h)
    PROVE  Fits'
<1>1. work[h].pc \in RequestPc /\ crossed' = crossed
  BY RequestWrites DEF RequestPc
<1> SUFFICES ASSUME ~crossed PROVE Fits'
  BY <1>1 DEF Fits
<1>2. PICK q \in Row, a \in Allocation :
              /\ alloc' = [alloc EXCEPT ![q] = a]
              /\ a.status = "Pending" => a.reason = TRUE
              /\ \/ a.status # "Active" \/ a.reason = TRUE
                 \/ OthersHours(q) + a.hours <= Capacity
                 \/ a = alloc[q]
  BY WriteFits
<1>3. alloc'[q] = a /\ \A r \in Row \ {q} : alloc'[r] = alloc[r] BY <1>2 DEF TypeOK
<1>4. UnreasonedHours' <= Capacity
  <2>1. UnreasonedHours <= Capacity BY DEF Fits
  <2>2. CASE a = alloc[q]
    <3>1. SameTeams BY <1>3, <2>2 DEF SameTeams
    <3> QED BY <2>1, <3>1, SumsStay
  <2>3. CASE a # alloc[q] BY <1>2, <2>1, <2>3, RowFits
  <2> QED BY <2>2, <2>3
<1>5. \A r \in Row : alloc'[r].status = "Pending" => alloc'[r].reason = TRUE
  BY <1>2, <1>3 DEF Fits
<1>6. NoRequest'
  <2>1. PICK r \in Row, b \in Allocation : Answer(h, r, b.status) BY RequestWrites
  <2>2. /\ \A g \in Handler \ {h} : work'[g] = work[g]
        /\ work'[h].pc \in {"idle", "push_read"}
    BY <2>1, AnswerFields
  <2>3. \A g \in Handler \ {h} : work[g].pc \notin RequestPc BY <1>1 DEF Orderly, OneRequest
  <2> QED BY <2>2, <2>3 DEF NoRequest, RequestPc
<1> QED BY <1>4, <1>5, <1>6, NoneWithin DEF Fits

LEMMA RemoveFits ==
    ASSUME AllocationsAssumption, TypeOK, IsFiniteSet(Taken), Fits,
           NEW q \in Row, RemoveMember(q)
    PROVE  Fits'
<1> SUFFICES ASSUME ~crossed' PROVE Fits'
  BY DEF Fits
<1> DEFINE a == [alloc[q] EXCEPT !.status = "Removed"]
<1>1. /\ ~crossed /\ NoRequest /\ work' = work
      /\ alloc' = [alloc EXCEPT ![q] = a]
  BY DEF RemoveMember, Requested, NoRequest
<1>2. a \in Allocation /\ a.status = "Removed" BY DEF TypeOK, Allocation
<1> HIDE DEF a
<1>3. alloc'[q] = a /\ \A r \in Row \ {q} : alloc'[r] = alloc[r] BY <1>1 DEF TypeOK
<1>4. UnreasonedHours <= Capacity BY <1>1 DEF Fits
<1>5. UnreasonedHours' <= Capacity BY <1>1, <1>2, <1>4, RowFits
<1>6. \A r \in Row : alloc'[r].status = "Pending" => alloc'[r].reason = TRUE
  BY <1>1, <1>2, <1>3 DEF Fits
<1>7. NoRequest' BY <1>1 DEF NoRequest
<1> QED BY <1>5, <1>6, <1>7, NoneWithin DEF Fits

LEMMA CheckFits ==
    ASSUME TypeOK, HandlersNameRows, Orderly, IsFiniteSet(Taken), Fits, NEW h \in Handler, AddCheck(h)
    PROVE  Fits'
<1>1. alloc' = alloc /\ crossed' = crossed /\ work[h].pc = "add_check"
  BY DEF AddCheck, pmo_side
<1>2. SameTeams BY <1>1 DEF SameTeams
<1>3. CASE work' = [work EXCEPT ![h] = Idle]
  <2>1. Idle.pc = "idle" BY DEF Idle
  <2>2. SameRequests BY <1>3, <2>1 DEF SameRequests, TypeOK, RequestPc
  <2> QED BY <1>1, <1>2, <2>2, SameFits
<1>4. CASE Goto(h, "add_create")
  <2> SUFFICES ASSUME ~crossed
               PROVE  /\ UnreasonedHours' <= Capacity
                      /\ \A r \in Row : alloc'[r].status = "Pending" => alloc'[r].reason = TRUE
                      /\ \A g \in Handler : Within(work[g])'
    BY <1>1 DEF Fits
  <2>1. UnreasonedHours' <= Capacity BY <1>2, SumsStay DEF Fits
  <2>2. \A r \in Row : alloc'[r].status = "Pending" => alloc'[r].reason = TRUE
    BY <1>1 DEF Fits
  <2>3. /\ \A g \in Handler \ {h} : work'[g] = work[g]
        /\ work'[h].pc = "add_create" /\ work'[h].project = work[h].project
        /\ work'[h].hours = work[h].hours /\ work'[h].outcome = work[h].outcome
    BY <1>4, GotoFields
  <2>4. ASSUME NEW g \in Handler PROVE Within(work[g])'
    <3>1. CASE g = h
      <4>1. PICK w : w = work'[h] OBVIOUS
      <4>2. Within(w) BY <1>1, <2>3, <4>1 DEF Fits, Within
      <4>3. Within(w)' BY <1>2, <2>3, <4>1, <4>2, WithinStays
      <4> QED BY <3>1, <4>1, <4>3 DEF Within
    <3>2. CASE g # h
      <4>1. work'[g].pc \notin RequestPc
        BY <1>1, <2>3, <3>2 DEF Orderly, OneRequest, RequestPc
      <4> QED BY <4>1 DEF Within, RequestPc
    <3> QED BY <3>1, <3>2
  <2> QED BY <2>1, <2>2, <2>4
<1> QED BY <1>3, <1>4 DEF AddCheck

(* What a request is told when it starts.                                   *)
LEMMA Told ==
    ASSUME AllocationsAssumption, NEW over, NEW o \in Outcomes(over)
    PROVE  o # "none" /\ (o = "active" => ~over)
BY DEF Outcomes, AllocationsAssumption

LEMMA NotOver ==
    ASSUME AllocationsAssumption, TypeOK, IsFiniteSet(Taken), NEW n \in Nat, NEW r \in Row, NEW p
    PROVE  /\ ~(Booked(Elsewhere(p)) + n > Capacity) => ElsewhereHours(p) + n <= Capacity
           /\ ~(Booked(Others(r)) + n > Capacity) => OthersHours(r) + n <= Capacity
<1>1. Capacity \in Nat BY HoursAreNat
<1>2. HoursOf(alloc, Elsewhere(p)) \in Nat /\ HoursOf(alloc, Others(r)) \in Nat
  <2>1. Elsewhere(p) \subseteq Row /\ Others(r) \subseteq Row BY DEF Elsewhere, Others
  <2>2. \A e \in Row : alloc[e].hours \in Nat BY HoursAreNat
  <2> QED BY <2>1, <2>2, FewRows, HoursType
<1>3. ElsewhereHours(p) \in Nat /\ OthersHours(r) \in Nat BY <1>2, Sums
<1> QED BY <1>1, <1>3 DEF ElsewhereHours, OthersHours

LEMMA StartWithin ==
    ASSUME AllocationsAssumption, TypeOK, IsFiniteSet(Taken), Fits, ~crossed, NEW h \in Handler,
           RequestStart(h)
    PROVE  \E w : /\ work' = [work EXCEPT ![h] = w] /\ Within(w)
                  /\ w.pc \in {"update_write", "approve_write"} => w.row \in Row
<1>1. Hours \subseteq Nat \ {0} BY DEF AllocationsAssumption
<1>2. ASSUME NEW actor \in Person, NEW p \in Project, NEW n \in Hours, AddPlan(h, actor, p, n)
      PROVE  \E w : /\ work' = [work EXCEPT ![h] = w] /\ Within(w)
                    /\ w.pc \in {"update_write", "approve_write"} => w.row \in Row
  <2> DEFINE over == Booked(Elsewhere(p)) + n > Capacity
  <2>1. PICK o \in Outcomes(over) : work' = [work EXCEPT ![h] =
            [Idle EXCEPT !.pc = "add_check", !.project = p, !.actor = actor, !.hours = n,
                         !.outcome = o]]
    BY <1>2 DEF AddPlan
  <2> DEFINE w == [Idle EXCEPT !.pc = "add_check", !.project = p, !.actor = actor, !.hours = n,
                               !.outcome = o]
  <2>2. w.pc = "add_check" /\ w.project = p /\ w.hours = n /\ w.outcome = o BY DEF Idle
  <2>3. o # "none" /\ (o = "active" => ElsewhereHours(p) + n <= Capacity)
    <3>1. o # "none" /\ (o = "active" => ~over) BY Told
    <3>2. n \in Nat BY <1>1
    <3>3. ~over => ElsewhereHours(p) + n <= Capacity
      <4>1. CASE Row = {}
        <5>1. Elsewhere(p) = {} BY <4>1 DEF Elsewhere
        <5>2. HoursOf(alloc, {}) = 0 BY FS_EmptySet, HoursUnfolds
        <5>3. ElsewhereHours(p) = 0 BY <5>1, <5>2, Sums
        <5>4. Capacity \in Nat BY HoursAreNat
        <5> QED BY <3>2, <5>3, <5>4 DEF ElsewhereHours
      <4>2. CASE Row # {} BY <3>2, <4>2, NotOver
      <4> QED BY <4>1, <4>2
    <3> QED BY <3>1, <3>3
  <2> HIDE DEF w
  <2>4. Within(w) BY <2>2, <2>3 DEF Within
  <2> QED BY <2>1, <2>2, <2>4 DEF w
<1>3. ASSUME NEW actor \in Person, NEW r \in Row, NEW n \in Hours \cup {0}, NEW dates \in BOOLEAN,
             UpdateRead(h, actor, r, n, dates)
      PROVE  \E w : /\ work' = [work EXCEPT ![h] = w] /\ Within(w)
                    /\ w.pc \in {"update_write", "approve_write"} => w.row \in Row
  <2> DEFINE m == IF n > 0 THEN n ELSE alloc[r].hours
             over == Booked(Others(r)) + m > Capacity
             asked == n > 0 \/ (dates /\ over)
  <2>1. PICK o \in IF asked THEN Outcomes(over) ELSE {"none"} : work' = [work EXCEPT ![h] =
            [Idle EXCEPT !.pc = "update_write", !.row = r, !.actor = actor, !.hours = n,
                         !.outcome = o]]
    BY <1>3 DEF UpdateRead
  <2> DEFINE w == [Idle EXCEPT !.pc = "update_write", !.row = r, !.actor = actor, !.hours = n,
                               !.outcome = o]
  <2>2. w.pc = "update_write" /\ w.row = r /\ w.hours = n /\ w.outcome = o BY DEF Idle
  <2>3. n \in Nat /\ (n > 0 <=> n # 0)
    <3>1. n \in Nat BY <1>1
    <3> QED BY <3>1
  <2>4. m \in Nat /\ m = (IF n = 0 THEN alloc[r].hours ELSE n) BY <2>3, HoursAreNat
  <2> HIDE DEF m
  <2>5. ~over => OthersHours(r) + m <= Capacity BY <2>4, NotOver
  <2> HIDE DEF over, w
  <2>6. CASE asked
    <3>1. o # "none" /\ (o = "active" => ~over) BY <2>1, <2>6, Told
    <3>2. Within(w) BY <2>2, <2>4, <2>5, <3>1 DEF Within
    <3> QED BY <2>1, <2>2, <3>2 DEF w
  <2>7. CASE ~asked
    <3>1. o = "none" /\ n = 0 BY <2>1, <2>3, <2>7
    <3>2. Within(w) BY <2>2, <3>1 DEF Within
    <3> QED BY <2>1, <2>2, <3>2 DEF w
  <2> QED BY <2>6, <2>7
<1>4. ASSUME NEW actor \in Person, NEW r \in Row, NEW pc \in {"approve_write", "reject_write"},
             DecideRead(h, actor, r, pc)
      PROVE  \E w : /\ work' = [work EXCEPT ![h] = w] /\ Within(w)
                    /\ w.pc \in {"update_write", "approve_write"} => w.row \in Row
  <2> DEFINE w == [Idle EXCEPT !.pc = pc, !.row = r, !.actor = actor]
  <2>1. w.pc = pc /\ w.row = r BY DEF Idle
  <2>2. work' = [work EXCEPT ![h] = w] /\ alloc[r].status = "Pending" BY <1>4 DEF DecideRead
  <2>3. alloc[r].reason = TRUE BY <2>2 DEF Fits
  <2> HIDE DEF w
  <2>4. Within(w) BY <2>1, <2>3 DEF Within
  <2> QED BY <2>1, <2>2, <2>4
<1> QED BY <1>2, <1>3, <1>4 DEF RequestStart, Begin

LEMMA StartFits ==
    ASSUME AllocationsAssumption, TypeOK, IsFiniteSet(Taken), Fits, NEW h \in Handler, RequestStart(h)
    PROVE  Fits'
<1> SUFFICES ASSUME ~crossed' PROVE Fits'
  BY DEF Fits
<1>1. alloc' = alloc /\ ~crossed /\ NoRequest BY RequestBegins DEF RequestStart, NoRequest
<1>2. SameTeams BY <1>1 DEF SameTeams
<1>3. UnreasonedHours' <= Capacity BY <1>1, <1>2, SumsStay DEF Fits
<1>4. \A r \in Row : alloc'[r].status = "Pending" => alloc'[r].reason = TRUE BY <1>1 DEF Fits
<1>5. PICK w : /\ work' = [work EXCEPT ![h] = w] /\ Within(w)
               /\ w.pc \in {"update_write", "approve_write"} => w.row \in Row
  BY <1>1, StartWithin
<1>6. ASSUME NEW g \in Handler PROVE Within(work[g])'
  <2>1. CASE g = h
    <3>1. work'[g] = w BY <1>5, <2>1 DEF TypeOK
    <3>2. Within(w)' BY <1>2, <1>5, WithinStays
    <3> QED BY <3>1, <3>2 DEF Within
  <2>2. CASE g # h
    <3>1. work'[g].pc \notin RequestPc BY <1>1, <1>5, <2>2 DEF NoRequest, TypeOK
    <3> QED BY <3>1 DEF Within, RequestPc
  <2> QED BY <2>1, <2>2
<1> QED BY <1>3, <1>4, <1>6 DEF Fits

(* A step changes one row at most, but for what SameTeams leaves open.      *)
LEMMA TakenStep ==
    ASSUME AllocationsAssumption, TypeOK, HandlersNameRows, RecordsNameRows, IsFiniteSet(Taken), Next
    PROVE  IsFiniteSet(Taken)'
<1>1. ASSUME SameTeams PROVE IsFiniteSet(Taken)'
  <2>1. Taken' = Taken BY <1>1 DEF SameTeams, Taken
  <2> QED BY <2>1
<1>2. ASSUME NEW q \in Row, NEW a, alloc' = [alloc EXCEPT ![q] = a] PROVE IsFiniteSet(Taken)'
  <2>1. \A r \in Row \ {q} : alloc'[r] = alloc[r] BY <1>2 DEF TypeOK
  <2>2. Taken' \subseteq Taken \cup {q} BY <2>1 DEF Taken
  <2>3. IsFiniteSet(Taken \cup {q}) BY FS_AddElement
  <2> QED BY <2>2, <2>3, FS_Subset
<1>3. ASSUME NEW q \in Row, RemoveMember(q) PROVE IsFiniteSet(Taken)'
  BY <1>2, <1>3 DEF RemoveMember
<1>4. ASSUME NEW h \in Handler, RequestStep(h), ~AddCheck(h) PROVE IsFiniteSet(Taken)'
  BY <1>2, <1>4, RequestWrites
<1>5. ASSUME NEW h \in Handler, AddCheck(h) PROVE IsFiniteSet(Taken)'
  BY <1>1, <1>5 DEF AddCheck, pmo_side, SameTeams
<1>6. ASSUME NEW h \in Handler, RequestStart(h) PROVE IsFiniteSet(Taken)'
  <2>1. alloc' = alloc BY <1>6, RequestBegins DEF RequestStart
  <2> QED BY <1>1, <2>1 DEF SameTeams
<1>7. ASSUME NEW h \in Handler, Moves(h),
             PushStart(h) \/ PushRead(h) \/ PushSend(h) \/ PushSave(h) \/ PushResolve(h)
             \/ FailFind(h) \/ FailWrite(h)
      PROVE  IsFiniteSet(Taken)'
  BY <1>1, <1>7, PushesLeaveRequests
<1>8. ASSUME NEW h \in Handler, Moves(h) PROVE IsFiniteSet(Taken)'
  BY <1>4, <1>5, <1>6, <1>7, <1>8 DEF Moves
<1> QED BY <1>3, <1>8, SomeMove

LEMMA FitsStep ==
    ASSUME AllocationsAssumption, TypeOK, HandlersNameRows, RecordsNameRows, Orderly,
           IsFiniteSet(Taken), Fits, Next
    PROVE  Fits'
<1>1. ASSUME NEW h \in Handler, Moves(h),
             PushStart(h) \/ PushRead(h) \/ PushSend(h) \/ PushSave(h) \/ PushResolve(h)
             \/ FailFind(h) \/ FailWrite(h)
      PROVE  Fits'
  BY <1>1, PushesLeaveRequests, SameFits
<1>2. CASE \E r \in Row : RemoveMember(r) BY <1>2, RemoveFits
<1>3. ASSUME NEW h \in Handler, Moves(h) PROVE Fits'
  BY <1>1, <1>3, WriteStepFits, StartFits, CheckFits DEF Moves
<1> QED BY <1>2, <1>3, SomeMove

LEMMA BInvStep ==
    ASSUME AllocationsAssumption, BInv, [Next]_vars
    PROVE  BInv'
<1>1. CASE Next
  <2>1. TypeOK /\ HandlersNameRows /\ RecordsNameRows /\ Orderly BY DEF BInv, IInv, Orderly
  <2>2. IInv' BY <1>1, IInvStep DEF BInv
  <2>3. IsFiniteSet(Taken)' BY <1>1, <2>1, TakenStep DEF BInv
  <2>4. Fits' BY <1>1, <2>1, FitsStep DEF BInv
  <2> QED BY <2>2, <2>3, <2>4 DEF BInv
<1>2. CASE UNCHANGED vars
  <2>1. alloc' = alloc /\ work' = work /\ crossed' = crossed BY <1>2 DEF vars
  <2>2. SameTeams /\ SameRequests BY <2>1 DEF SameTeams, SameRequests
  <2>3. IsFiniteSet(Taken)' BY <2>1 DEF BInv, Taken
  <2>4. Fits' BY <2>1, <2>2, SameFits DEF BInv, IInv
  <2> QED BY <1>2, <2>3, <2>4, IInvStutter DEF BInv
<1> QED BY <1>1, <1>2

LEMMA BInvInit ==
    ASSUME AllocationsAssumption, Init
    PROVE  BInv
<1>1. IInv BY InitHolds
<1>2. \A r \in Row : alloc[r].status = "free" BY DEF Init, Free
<1>3. \A h \in Handler : work[h].pc = "idle" BY DEF Init, Idle
<1>4. Taken = {} /\ Unreasoned = {} BY <1>2 DEF Taken, Unreasoned, IsActive
<1>5. IsFiniteSet(Taken) BY <1>4, FS_EmptySet
<1>6. UnreasonedHours <= Capacity
  <2>1. HoursOf(alloc, {}) = 0 BY FS_EmptySet, HoursUnfolds
  <2>2. UnreasonedHours = HoursOf(alloc, Unreasoned) BY Sums
  <2>3. Capacity \in Nat BY DEF AllocationsAssumption
  <2> QED BY <1>4, <2>1, <2>2, <2>3
<1>7. Fits BY <1>2, <1>3, <1>6 DEF Fits, Within
<1> QED BY <1>1, <1>5, <1>7 DEF BInv

(* An employee who is booked beyond capacity is so by an allocation that states
   an override reason, for any number of allocations, as long as requests do not
   overlap (resolveThresholdOutcome, sumOverlappingAllocationHours).         *)
THEOREM ReasonForOverbooking == Spec => []OverbookingHasReason
<1>1. Init => BInv BY BInvInit, AllocationsAssumption
<1>2. BInv /\ [Next]_vars => BInv' BY BInvStep, AllocationsAssumption
<1>3. BInv => OverbookingHasReason
  <2> SUFFICES ASSUME BInv, ~crossed, Booked({r \in Row : IsActive(r)}) > Capacity,
                      ~\E r \in Row : IsActive(r) /\ alloc[r].reason
               PROVE  FALSE
    BY DEF OverbookingHasReason
  <2>1. {r \in Row : IsActive(r)} = Unreasoned BY DEF Unreasoned
  <2>2. UnreasonedHours <= Capacity BY DEF BInv, Fits
  <2>3. UnreasonedHours > Capacity BY <2>1 DEF UnreasonedHours
  <2>4. Capacity \in Nat BY AllocationsAssumption DEF AllocationsAssumption
  <2>5. UnreasonedHours \in Nat
    <3>1. TypeOK /\ IsFiniteSet(Unreasoned) BY FewRows DEF BInv, IInv
    <3>2. \A e \in Unreasoned : alloc[e].hours \in Nat
      BY <3>1, HoursAreNat, AllocationsAssumption DEF Unreasoned
    <3> QED BY <3>1, <3>2, HoursType, Sums
  <2> QED BY <2>2, <2>3, <2>4, <2>5
<1> QED BY <1>1, <1>2, <1>3, PTL DEF Spec
=============================================================================
