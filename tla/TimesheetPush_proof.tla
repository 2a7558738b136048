------------------------ MODULE TimesheetPush_proof ------------------------
(***************************************************************************)
(* Proofs about TimesheetPush, for any entries and limits: that nothing is *)
(* forgotten for any number of requests and jobs in flight, the bounds on  *)
(* posts and retries for one at a time, whatever fails.                    *)
(***************************************************************************)
EXTENDS TimesheetPush, SequenceTheorems, FiniteSetTheorems, TLAPS

-----------------------------------------------------------------------------
(* What a process relies on, however many there are.                        *)

(* A push works on an approval of its entry; what it saves is a ref.  Past   *)
(* the ref, one is saved.  The record it is to bump is open, or was closed   *)
(* by a push that got through.                                              *)
OnApproval == {"read", "prepare", "send", "save", "log_success", "resolve", "resolve_again",
               "fail_read", "fail_log", "fail_find", "fail_write", "retry_log", "retry_bump"}
Past == {"log_success", "resolve", "resolve_again"}
Known(w) ==
    /\ w.pc \in OnApproval => w.at \in DOMAIN refs[w.entry]
    /\ w.pc = "save" => w.n # 0
    /\ w.pc \in Past => Synced(w.entry) # {}
    /\ w.pc = "fail_write" /\ w.row # 0 =>
          /\ w.row \in DOMAIN records[w.entry]
          /\ records[w.entry][w.row].open \/ Synced(w.entry) # {}
AllKnown == \A p \in Process : Known(proc[p])

(* An approved entry is synced, recorded as failed, or being pushed.         *)
OnItsWay == {"read", "prepare", "send", "save", "fail_read", "fail_log", "fail_find",
             "fail_write"}
Pushing(p, e) == proc[p].pc \in OnItsWay /\ proc[p].entry = e
Seen(e) == Synced(e) # {} \/ OpenRows(e) # {} \/ \E p \in Process : Pushing(p, e)
AllSeen == faults = 0 => \A e \in approved : Seen(e)

IInv == TypeOK /\ AllKnown /\ AllSeen

-----------------------------------------------------------------------------
(* What one process at a time relies on.                                    *)

(* Its approval is the latest one, and has no ref yet unless a success was   *)
(* taken for a failure.                                                     *)
Unsent == {"prepare", "send", "save"}
Failing == {"fail_read", "fail_log", "fail_find", "fail_write"}
Current(w) ==
    /\ w.pc \in OnApproval => w.at = Len(refs[w.entry])
    /\ w.pc \in Unsent => refs[w.entry][w.at] = 0
    /\ w.pc \in Failing /\ faults = 0 => refs[w.entry][w.at] = 0
    /\ w.pc = "backfill_create" => listed

(* Records have a log, and what was read of the logs is still so.            *)
Logged(w) ==
    /\ w.pc \in {"fail_find", "fail_write", "backfill_create", "retry_bump"} =>
          logs[w.entry] # <<>>
    /\ w.pc \in PushPc /\ w.by = "cron" => logs[w.entry] # <<>>
    /\ w.pc \in PushPc \cup {"cron_next"} => \A b \in w.batch : logs[b[1]] # <<>>
    /\ w.pc = "fail_log" => w.n = LatestCount(w.entry) + 1
    /\ w.pc = "retry_bump" =>
          /\ w.row = Len(logs[w.entry])
          /\ w.n = LatestCount(w.entry)
          /\ w.by = "cron" => w.n < MaxRetries
AllLogged ==
    \A e \in Entry : /\ logs[e] = <<>> => records[e] = <<>>
                     /\ logs[e] # <<>> => LatestCount(e) >= 1

(* A push past its ref closes what is open.                                  *)
Closing == faults = 0 /\ ~listed =>
    \A e \in Entry : StillOpen(e) =>
        \E p \in Process : proc[p].pc \in {"log_success", "resolve"} /\ proc[p].entry = e

(* Keka's entries: one for each ref, for a push about to save, for a fault.  *)
Held(e) == IF Saving(e) = {} THEN 0 ELSE 1
Explained == \A e \in Entry : posts[e] <= Cardinality(Synced(e)) + Held(e) + faults

(* A try to come is paid for: by an approval, an admin's action, or for the  *)
(* hourly job by a count of the latest log below the maximum.                *)
ToTry(p, e) ==
    /\ proc[p].pc \in PushPc
    /\ proc[p].entry = e
    /\ \/ proc[p].pc = "read"
       \/ /\ proc[p].pc \in {"retry_read", "retry_log", "retry_bump", "force_write"}
          /\ proc[p].by # "cron"
Due(e) == IF \E p \in Process : ToTry(p, e) THEN 1 ELSE 0
Bumps(e) == IF logs[e] = <<>> THEN 0
            ELSE (IF LatestCount(e) < MaxRetries THEN LatestCount(e) ELSE MaxRetries) - 1
Paid == \A e \in Entry : tries[e] + Due(e) <= Len(refs[e]) + admins + Bumps(e)

SerialInv ==
    /\ IInv
    /\ \A p \in Process : Current(proc[p]) /\ Logged(proc[p])
    /\ AllLogged /\ Closing /\ Explained /\ Paid

-----------------------------------------------------------------------------
(* Sequences.                                                               *)

LEMMA SetAt ==
    ASSUME NEW S, NEW s \in Seq(S), NEW i \in Nat, NEW v \in S
    PROVE  /\ [s EXCEPT ![i] = v] \in Seq(S)
           /\ Len([s EXCEPT ![i] = v]) = Len(s)
           /\ DOMAIN [s EXCEPT ![i] = v] = DOMAIN s
           /\ \A j \in DOMAIN s : [s EXCEPT ![i] = v][j] = IF j = i THEN v ELSE s[j]
<1>1. DOMAIN s = 1..Len(s) BY LenProperties
<1>2. CASE i \in 1..Len(s) BY <1>1, <1>2, ExceptSeq, LenProperties
<1>3. CASE i \notin 1..Len(s)
  <2>1. [s EXCEPT ![i] = v] = s BY <1>1, <1>3
  <2> QED BY <1>1, <1>3, <2>1
<1> QED BY <1>2, <1>3

LEMMA AddLast ==
    ASSUME NEW S, NEW s \in Seq(S), NEW v \in S
    PROVE  /\ Append(s, v) \in Seq(S)
           /\ Len(Append(s, v)) = Len(s) + 1 /\ Len(s) \in Nat
           /\ DOMAIN s = 1..Len(s) /\ DOMAIN Append(s, v) = 1..(Len(s) + 1)
           /\ Append(s, v)[Len(s) + 1] = v
           /\ \A j \in DOMAIN s : Append(s, v)[j] = s[j]
OBVIOUS

LEMMA LastThere ==
    ASSUME NEW S, NEW s \in Seq(S)
    PROVE  /\ Len(s) \in Nat /\ DOMAIN s = 1..Len(s)
           /\ s # <<>> <=> Len(s) > 0
           /\ s # <<>> => Len(s) \in DOMAIN s /\ s[Len(s)] \in S
OBVIOUS

-----------------------------------------------------------------------------
(* How a process moves: it alone goes to another step of its work, or it is  *)
(* done with it.                                                            *)

Proc == Work \cup Job \cup {None}
Moved(p) == /\ proc' \in [Process -> Proc]
            /\ \A q \in Process \ {p} : proc'[q] = proc[q]
To(p, pc) ==
    /\ Moved(p)
    /\ proc'[p] \in Work
    /\ proc'[p].pc = pc
    /\ proc'[p].entry = proc[p].entry /\ proc'[p].at = proc[p].at
    /\ proc'[p].by = proc[p].by /\ proc'[p].batch = proc[p].batch
SameArgs(p) == /\ proc'[p].row = proc[p].row /\ proc'[p].n = proc[p].n
               /\ proc'[p].class = proc[p].class
Done(p) ==
    /\ Moved(p)
    /\ proc'[p] \in Job \cup {None}
    /\ proc'[p].pc = "cron_next" => proc[p].by = "cron" /\ proc'[p].batch = proc[p].batch
Starts(p, pc, by, e, at) ==
    /\ Moved(p)
    /\ proc'[p] \in Work
    /\ proc'[p].pc = pc /\ proc'[p].by = by /\ proc'[p].entry = e /\ proc'[p].at = at

LEMMA Workers ==
    ASSUME TypeOK, NEW p \in Process
    PROVE  /\ proc[p] \in Proc
           /\ proc[p].pc \in PushPc => proc[p] \in Work
           /\ proc[p].pc = "cron_next" => proc[p] \in Job
           /\ proc[p] \in Work => proc[p].pc \in PushPc
BY DEF TypeOK, Proc, Work, Job, None, PushPc

LEMMA BecomeMoves ==
    ASSUME TypeOK, NEW p \in Process, NEW w \in Proc, Become(p, w)
    PROVE  Moved(p) /\ proc'[p] = w
BY DEF TypeOK, Become, Moved, Proc

LEMMA GotoMoves ==
    ASSUME TypeOK, NEW p \in Process, proc[p].pc \in PushPc, NEW pc \in PushPc, Goto(p, pc)
    PROVE  To(p, pc) /\ SameArgs(p)
<1>1. proc[p] \in Work BY Workers
<1>2. [proc[p] EXCEPT !.pc = pc] \in Work BY <1>1 DEF Work
<1>3. Become(p, [proc[p] EXCEPT !.pc = pc]) BY DEF Goto, Become
<1>4. Moved(p) /\ proc'[p] = [proc[p] EXCEPT !.pc = pc] BY <1>2, <1>3, BecomeMoves DEF Proc
<1> QED BY <1>1, <1>2, <1>4 DEF To, SameArgs, Work

LEMMA FailMoves ==
    ASSUME TypeOK, NEW p \in Process, proc[p].pc \in PushPc, NEW class \in Class, Fail(p, class)
    PROVE  To(p, "fail_read")
<1> DEFINE w == [proc[p] EXCEPT !.pc = "fail_read", !.class = class]
<1>1. proc[p] \in Work BY Workers
<1>2. w \in Work BY <1>1 DEF Work, PushPc
<1>3. /\ w.pc = "fail_read" /\ w.entry = proc[p].entry /\ w.at = proc[p].at
      /\ w.by = proc[p].by /\ w.batch = proc[p].batch
  BY <1>1 DEF Work
<1>4. Become(p, w) BY DEF Fail
<1> HIDE DEF w
<1>5. Moved(p) /\ proc'[p] = w BY <1>2, <1>4, BecomeMoves DEF Proc
<1> QED BY <1>2, <1>3, <1>5 DEF To

LEMMA ReturnMoves ==
    ASSUME TypeOK, NEW p \in Process, proc[p].pc \in PushPc, Return(p)
    PROVE  Done(p)
<1>1. proc[p] \in Work BY Workers
<1>2. CASE proc[p].by = "cron"
  <2>1. [pc |-> "cron_next", batch |-> proc[p].batch] \in Job BY <1>1 DEF Work, Job
  <2>2. Become(p, [pc |-> "cron_next", batch |-> proc[p].batch]) BY <1>2 DEF Return
  <2> QED BY <1>2, <2>1, <2>2, BecomeMoves DEF Done, Proc
<1>3. CASE proc[p].by # "cron"
  <2>1. Become(p, None) BY <1>3 DEF Return
  <2>2. Moved(p) /\ proc'[p] = None BY <2>1, BecomeMoves DEF Proc
  <2> QED BY <2>2 DEF Done, None
<1> QED BY <1>2, <1>3

LEMMA TaskType ==
    ASSUME NEW pc \in PushPc, NEW by \in {"reviewer", "admin", "cron"}, NEW e \in Entry,
           NEW at \in Nat
    PROVE  Task(pc, by, e, at) \in Work
BY DEF Task, Work, Class

-----------------------------------------------------------------------------
(* What each step does, in these words.                                     *)

LEMMA ReadDoes ==
    ASSUME TypeOK, NEW p \in Process, Read(p)
    PROVE  LET w == proc[p] IN
           /\ w.pc = "read" /\ UNCHANGED <<store, posts, listed, budget>>
           /\ \/ /\ Done(p) /\ UNCHANGED tries
                 /\ w.entry \notin approved \/ refs[w.entry][w.at] # 0
              \/ /\ To(p, "resolve_again") /\ UNCHANGED tries
                 /\ w.entry \in approved /\ refs[w.entry][w.at] # 0
              \/ /\ To(p, "fail_read") \/ To(p, "prepare")
                 /\ w.entry \in approved /\ refs[w.entry][w.at] = 0
                 /\ tries' = [tries EXCEPT ![w.entry] = @ + 1]
<1>1. proc[p].pc = "read" /\ proc[p].pc \in PushPc BY DEF Read, At, PushPc
<1>2. Return(p) => Done(p) BY <1>1, ReturnMoves
<1>3. Goto(p, "resolve_again") => To(p, "resolve_again") BY <1>1, GotoMoves DEF PushPc
<1>4. Goto(p, "prepare") => To(p, "prepare") BY <1>1, GotoMoves DEF PushPc
<1>5. Fail(p, "permanent") => To(p, "fail_read") BY <1>1, FailMoves DEF Class
<1> QED BY <1>1, <1>2, <1>3, <1>4, <1>5 DEF Read

LEMMA PrepareDoes ==
    ASSUME TypeOK, NEW p \in Process, Prepare(p)
    PROVE  /\ proc[p].pc = "prepare" /\ UNCHANGED <<store, posts, history, budget>>
           /\ To(p, "send") \/ To(p, "fail_read")
<1>1. proc[p].pc = "prepare" /\ proc[p].pc \in PushPc BY DEF Prepare, At, PushPc
<1>2. Goto(p, "send") => To(p, "send") BY <1>1, GotoMoves DEF PushPc
<1>3. \A c \in Class : Fail(p, c) => To(p, "fail_read") BY <1>1, FailMoves
<1> QED BY <1>1, <1>2, <1>3 DEF Prepare

LEMMA SendDoes ==
    ASSUME TypeOK, NEW p \in Process, Send(p)
    PROVE  LET e == proc[p].entry IN
           /\ proc[p].pc = "send" /\ UNCHANGED <<store, history>>
           /\ \/ /\ To(p, "save") /\ proc'[p].n = posts[e] + 1
                 /\ posts' = [posts EXCEPT ![e] = @ + 1] /\ UNCHANGED budget
              \/ /\ To(p, "fail_read") /\ Fault
                 /\ posts' = [posts EXCEPT ![e] = @ + 1]
              \/ To(p, "fail_read") /\ UNCHANGED <<posts, budget>>
<1> DEFINE w == [proc[p] EXCEPT !.pc = "save", !.n = posts[proc[p].entry] + 1]
<1>1. proc[p].pc = "send" /\ proc[p].pc \in PushPc BY DEF Send, At, PushPc
<1>2. \A c \in Class : Fail(p, c) => To(p, "fail_read") BY <1>1, FailMoves
<1>3. "transient" \in Class BY DEF Class
<1>4. ASSUME Become(p, w) PROVE To(p, "save") /\ proc'[p].n = posts[proc[p].entry] + 1
  <2>1. proc[p] \in Work BY <1>1, Workers
  <2>2. posts[proc[p].entry] + 1 \in Nat BY <2>1 DEF TypeOK, Work
  <2>3. w \in Work BY <2>1, <2>2 DEF Work, PushPc
  <2>4. /\ w.pc = "save" /\ w.entry = proc[p].entry /\ w.at = proc[p].at /\ w.by = proc[p].by
        /\ w.batch = proc[p].batch /\ w.n = posts[proc[p].entry] + 1
    BY <2>1 DEF Work
  <2> HIDE DEF w
  <2>5. Moved(p) /\ proc'[p] = w BY <1>4, <2>3, BecomeMoves DEF Proc
  <2> QED BY <2>3, <2>4, <2>5 DEF To
<1> QED BY <1>1, <1>2, <1>3, <1>4 DEF Send

LEMMA SaveRefDoes ==
    ASSUME TypeOK, NEW p \in Process, SaveRef(p)
    PROVE  LET w == proc[p] IN
           /\ w.pc = "save" /\ To(p, "log_success")
           /\ UNCHANGED <<approved, logs, records, posts, history, budget>>
           /\ refs' \in [Entry -> Seq(Nat)]
           /\ \A e \in Entry \ {w.entry} : refs'[e] = refs[e]
           /\ refs'[w.entry] = [refs[w.entry] EXCEPT ![w.at] = w.n]
<1>1. proc[p].pc = "save" /\ proc[p].pc \in PushPc BY DEF SaveRef, At, PushPc
<1>2. Goto(p, "log_success") => To(p, "log_success") BY <1>1, GotoMoves DEF PushPc
<1>3. proc[p] \in Work BY <1>1, Workers
<1>4. proc[p].entry \in Entry /\ proc[p].at \in Nat /\ proc[p].n \in Nat BY <1>3 DEF Work
<1>5. [refs[proc[p].entry] EXCEPT ![proc[p].at] = proc[p].n] \in Seq(Nat)
  BY <1>4, SetAt DEF TypeOK
<1>6. refs' = [refs EXCEPT ![proc[p].entry] =
                  [refs[proc[p].entry] EXCEPT ![proc[p].at] = proc[p].n]]
  BY DEF SaveRef
<1>7. /\ refs' \in [Entry -> Seq(Nat)]
      /\ \A e \in Entry \ {proc[p].entry} : refs'[e] = refs[e]
      /\ refs'[proc[p].entry] = [refs[proc[p].entry] EXCEPT ![proc[p].at] = proc[p].n]
  BY <1>4, <1>5, <1>6 DEF TypeOK
<1> QED BY <1>1, <1>2, <1>7 DEF SaveRef

LEMMA LogSuccessDoes ==
    ASSUME TypeOK, NEW p \in Process, LogSuccess(p)
    PROVE  /\ proc[p].pc = "log_success" /\ To(p, "resolve")
           /\ UNCHANGED <<store, posts, history, budget>>
<1>1. proc[p].pc = "log_success" /\ proc[p].pc \in PushPc BY DEF LogSuccess, At, PushPc
<1> QED BY <1>1, GotoMoves DEF LogSuccess, PushPc

LEMMA ResolveDoes ==
    ASSUME TypeOK, NEW p \in Process, Resolve(p)
    PROVE  LET w == proc[p] IN
           /\ w.pc \in {"resolve", "resolve_again"}
           /\ UNCHANGED <<approved, refs, logs, posts, history, budget>>
           /\ Done(p) \/ To(p, "resolve_again")
           /\ records' \in [Entry -> Seq(Record)]
           /\ \A e \in Entry \ {w.entry} : records'[e] = records[e]
           /\ DOMAIN records'[w.entry] = DOMAIN records[w.entry]
           /\ \A k \in DOMAIN records[w.entry] : ~records'[w.entry][k].open
<1>1. proc[p].pc \in {"resolve", "resolve_again"} /\ proc[p].pc \in PushPc
  BY DEF Resolve, PushPc
<1>2. Goto(p, "resolve_again") => To(p, "resolve_again") BY <1>1, GotoMoves DEF PushPc
<1>3. Return(p) => Done(p) BY <1>1, ReturnMoves
<1>4. proc[p] \in Work BY <1>1, Workers
<1>5. proc[p].entry \in Entry BY <1>4 DEF Work
<1> DEFINE e == proc[p].entry
           s == records[e]
           closed == [k \in DOMAIN s |-> [s[k] EXCEPT !.open = FALSE]]
<1>6. s \in Seq(Record) BY <1>5 DEF TypeOK
<1>7. DOMAIN s = 1..Len(s) /\ Len(s) \in Nat /\ \A k \in DOMAIN s : s[k] \in Record
  BY <1>6, LenProperties, ElementOfSeq
<1>8. \A k \in DOMAIN s : [s[k] EXCEPT !.open = FALSE] \in Record BY <1>7 DEF Record
<1>9. closed \in Seq(Record)
  <2> HIDE DEF s
  <2>1. closed \in [1..Len(s) -> Record] BY <1>7, <1>8
  <2> QED BY <1>7, <2>1, SeqDef
<1>10. \A k \in DOMAIN s : ~closed[k].open BY <1>7, <1>8 DEF Record
<1>11. records' = [records EXCEPT ![e] = closed] BY DEF Resolve
<1>12. DOMAIN closed = DOMAIN s OBVIOUS
<1> HIDE DEF closed
<1>13. /\ records' \in [Entry -> Seq(Record)]
       /\ \A x \in Entry \ {e} : records'[x] = records[x]
       /\ records'[e] = closed
  BY <1>5, <1>9, <1>11 DEF TypeOK
<1>14. Done(p) \/ To(p, "resolve_again") BY <1>2, <1>3 DEF Resolve
<1> QED BY <1>1, <1>10, <1>12, <1>13, <1>14 DEF Resolve

LEMMA LatestType ==
    ASSUME TypeOK, NEW e \in Entry
    PROVE  /\ LatestCount(e) \in Nat
           /\ logs[e] # <<>> => Len(logs[e]) \in DOMAIN logs[e] /\ logs[e][Len(logs[e])] \in Log
<1>1. logs[e] \in Seq(Log) BY DEF TypeOK
<1>2. logs[e] # <<>> => Len(logs[e]) \in DOMAIN logs[e] /\ logs[e][Len(logs[e])] \in Log
  BY <1>1, LastThere
<1> QED BY <1>2 DEF LatestCount, Log

LEMMA FailReadDoes ==
    ASSUME TypeOK, NEW p \in Process, FailRead(p)
    PROVE  /\ proc[p].pc = "fail_read" /\ To(p, "fail_log")
           /\ proc'[p].n = LatestCount(proc[p].entry) + 1
           /\ UNCHANGED <<store, posts, history, budget>>
<1> DEFINE n == LatestCount(proc[p].entry) + 1
           w == [proc[p] EXCEPT !.pc = "fail_log", !.n = n]
<1>1. proc[p].pc = "fail_read" /\ proc[p].pc \in PushPc BY DEF FailRead, At, PushPc
<1>2. proc[p] \in Work BY <1>1, Workers
<1>3. n \in Nat BY <1>2, LatestType DEF Work
<1>4. Become(p, w) BY DEF FailRead
<1> HIDE DEF n
<1>5. w \in Work BY <1>2, <1>3 DEF Work, PushPc
<1>6. /\ w.pc = "fail_log" /\ w.entry = proc[p].entry /\ w.at = proc[p].at /\ w.by = proc[p].by
      /\ w.batch = proc[p].batch /\ w.n = n
  BY <1>2 DEF Work
<1> HIDE DEF w
<1>7. Moved(p) /\ proc'[p] = w BY <1>4, <1>5, BecomeMoves DEF Proc
<1> QED BY <1>1, <1>5, <1>6, <1>7 DEF FailRead, To, n

LEMMA FailLogDoes ==
    ASSUME TypeOK, NEW p \in Process, FailLog(p)
    PROVE  LET w == proc[p] IN
           /\ w.pc = "fail_log" /\ To(p, "fail_find")
           /\ UNCHANGED <<approved, refs, records, posts, history, budget>>
           /\ logs' \in [Entry -> Seq(Log)]
           /\ \A e \in Entry \ {w.entry} : logs'[e] = logs[e]
           /\ \A e \in Entry : e = w.entry => logs'[e] # <<>> /\ LatestCount(e)' = w.n
<1> DEFINE e == proc[p].entry
           new == [count |-> proc[p].n, class |-> proc[p].class]
           s == Append(logs[e], new)
<1>1. proc[p].pc = "fail_log" /\ proc[p].pc \in PushPc BY DEF FailLog, At, PushPc
<1>2. proc[p] \in Work BY <1>1, Workers
<1>3. e \in Entry /\ new \in Log /\ new.count = proc[p].n BY <1>2 DEF Work, Log
<1>4. logs' = [logs EXCEPT ![e] = s] BY DEF FailLog
<1>5. logs[e] \in Seq(Log) BY <1>3 DEF TypeOK
<1> HIDE DEF new
<1>6. /\ s \in Seq(Log) /\ s # <<>> /\ Len(s) = Len(logs[e]) + 1
      /\ s[Len(logs[e]) + 1] = new
  BY <1>3, <1>5, AddLast, LastThere
<1> HIDE DEF s
<1>7. /\ logs' \in [Entry -> Seq(Log)]
      /\ \A x \in Entry \ {e} : logs'[x] = logs[x]
      /\ logs'[e] = s
  BY <1>3, <1>4, <1>6 DEF TypeOK
<1>8. To(p, "fail_find") BY <1>1, GotoMoves DEF FailLog, PushPc
<1>9. ASSUME NEW x \in Entry, x = e PROVE logs'[x] # <<>> /\ LatestCount(x)' = proc[p].n
  <2>1. logs'[x][Len(logs'[x])].count = proc[p].n BY <1>3, <1>5, <1>6, <1>7, <1>9
  <2> QED BY <2>1, <1>6, <1>7, <1>9 DEF LatestCount
<1> QED BY <1>1, <1>6, <1>7, <1>8, <1>9 DEF FailLog

LEMMA OpenRowsType ==
    ASSUME TypeOK, NEW e \in Entry, NEW k \in OpenRows(e)
    PROVE  k \in Nat \ {0} /\ k \in DOMAIN records[e] /\ records[e][k].open
<1>1. records[e] \in Seq(Record) BY DEF TypeOK
<1> QED BY <1>1, LastThere DEF OpenRows

LEMMA FailFindDoes ==
    ASSUME TypeOK, NEW p \in Process, FailFind(p)
    PROVE  /\ proc[p].pc = "fail_find" /\ To(p, "fail_write")
           /\ UNCHANGED <<store, posts, history, budget>>
           /\ \/ proc'[p].row = 0
              \/ proc'[p].row \in OpenRows(proc[p].entry)
<1>1. proc[p].pc = "fail_find" /\ proc[p].pc \in PushPc BY DEF FailFind, At, PushPc
<1>2. proc[p] \in Work BY <1>1, Workers
<1>3. PICK k \in {0} \cup OpenRows(proc[p].entry) :
          Become(p, [proc[p] EXCEPT !.pc = "fail_write", !.row = k])
  BY DEF FailFind
<1> DEFINE w == [proc[p] EXCEPT !.pc = "fail_write", !.row = k]
<1>4. k \in Nat BY <1>2, OpenRowsType DEF Work
<1>5. w \in Work BY <1>2, <1>4 DEF Work, PushPc
<1>6. /\ w.pc = "fail_write" /\ w.entry = proc[p].entry /\ w.at = proc[p].at
      /\ w.by = proc[p].by /\ w.batch = proc[p].batch /\ w.row = k
  BY <1>2 DEF Work
<1>7. Become(p, w) BY <1>3
<1> HIDE DEF w
<1>8. Moved(p) /\ proc'[p] = w BY <1>5, <1>7, BecomeMoves DEF Proc
<1> QED BY <1>1, <1>3, <1>5, <1>6, <1>8 DEF FailFind, To

(* Records of an entry stay where they are, and one that is to be written    *)
(* keeps being open or not.                                                 *)
Kept(e) == \A k \in DOMAIN records[e] :
              k \in DOMAIN records'[e] /\ records'[e][k].open = records[e][k].open
Wrote(e) ==
    /\ records' \in [Entry -> Seq(Record)]
    /\ \A x \in Entry \ {e} : records'[x] = records[x]
    /\ Kept(e)

LEMMA RecordAdded ==
    ASSUME TypeOK, NEW e \in Entry, NEW rec \in Record,
           records' = [records EXCEPT ![e] = Append(@, rec)]
    PROVE  /\ Wrote(e)
           /\ Len(records[e]) + 1 \in DOMAIN records'[e]
           /\ records'[e][Len(records[e]) + 1] = rec
<1>1. records[e] \in Seq(Record) BY DEF TypeOK
<1>2. /\ Append(records[e], rec) \in Seq(Record)
      /\ DOMAIN records[e] = 1..Len(records[e]) /\ Len(records[e]) \in Nat
      /\ DOMAIN Append(records[e], rec) = 1..(Len(records[e]) + 1)
      /\ Append(records[e], rec)[Len(records[e]) + 1] = rec
      /\ \A j \in DOMAIN records[e] : Append(records[e], rec)[j] = records[e][j]
  BY <1>1, AddLast
<1>3. /\ records' \in [Entry -> Seq(Record)]
      /\ \A x \in Entry \ {e} : records'[x] = records[x]
      /\ records'[e] = Append(records[e], rec)
  BY <1>2 DEF TypeOK
<1> QED BY <1>2, <1>3 DEF Wrote, Kept

LEMMA RecordSet ==
    ASSUME TypeOK, NEW e \in Entry, NEW k \in Nat, NEW s, NEW rec,
           k \in DOMAIN records[e] => rec \in Record /\ rec.open = records[e][k].open,
           s = [records[e] EXCEPT ![k] = rec],
           records' = [records EXCEPT ![e] = s]
    PROVE  Wrote(e) /\ DOMAIN records'[e] = DOMAIN records[e]
<1>1. records[e] \in Seq(Record) BY DEF TypeOK
<1>2. s \in Seq(Record) /\ DOMAIN s = DOMAIN records[e]
      /\ \A j \in DOMAIN records[e] : s[j].open = records[e][j].open
  <2>1. CASE k \in DOMAIN records[e] BY <1>1, <2>1, SetAt
  <2>2. CASE k \notin DOMAIN records[e]
    <3>1. s = records[e] BY <1>1, <2>2, LastThere
    <3> QED BY <1>1, <3>1
  <2> QED BY <2>1, <2>2
<1>3. /\ records' \in [Entry -> Seq(Record)]
      /\ \A x \in Entry \ {e} : records'[x] = records[x]
      /\ records'[e] = s
  BY <1>2 DEF TypeOK
<1> QED BY <1>2, <1>3 DEF Wrote, Kept

LEMMA FailWriteDoes ==
    ASSUME PushAssumption, TypeOK, NEW p \in Process, FailWrite(p)
    PROVE  LET w == proc[p] IN
           /\ w.pc = "fail_write" /\ Done(p)
           /\ UNCHANGED <<approved, refs, logs, posts, history, budget>>
           /\ Wrote(w.entry)
           /\ w.row = 0 => \E k \in DOMAIN records'[w.entry] : records'[w.entry][k].open
<1> DEFINE w == proc[p]
           e == w.entry
           dead == Exhausted(w.class, w.n, MaxRetries)
           new == [count |-> w.n, class |-> w.class, dead |-> dead, open |-> TRUE]
           old == records[e][w.row]
           bumped == [[[old EXCEPT !.count = w.n] EXCEPT !.class = w.class] EXCEPT !.dead = dead]
<1>1. w.pc = "fail_write" /\ w.pc \in PushPc BY DEF FailWrite, At, PushPc
<1>2. w \in Work BY <1>1, Workers
<1>3. Done(p) BY <1>1, ReturnMoves DEF FailWrite
<1>4. /\ e \in Entry /\ w.row \in Nat /\ w.n \in Nat /\ w.class \in Class
      /\ dead \in BOOLEAN
  BY <1>2 DEF Work, Exhausted, PushAssumption
<1>5. CASE w.row = 0
  <2>1. records' = [records EXCEPT ![e] = Append(@, new)] BY <1>5 DEF FailWrite
  <2>2. new \in Record /\ new.open BY <1>4 DEF Record
  <2> HIDE DEF new
  <2>3. /\ Wrote(e) /\ Len(records[e]) + 1 \in DOMAIN records'[e]
        /\ records'[e][Len(records[e]) + 1] = new
    BY <1>4, <2>1, <2>2, RecordAdded
  <2> QED BY <1>1, <1>3, <2>2, <2>3 DEF FailWrite
<1>6. CASE w.row # 0
  <2>1. records' = [records EXCEPT ![e] =
           [@ EXCEPT ![w.row].count = w.n, ![w.row].class = w.class, ![w.row].dead = dead]]
    BY <1>6 DEF FailWrite
  <2>2. w.row \in DOMAIN records[e] => old \in Record
    BY <1>4, LastThere, ElementOfSeq DEF TypeOK
  <2>3. w.row \in DOMAIN records[e] => bumped \in Record /\ bumped.open = old.open
    BY <1>4, <2>2 DEF Record
  <2>4. [records[e] EXCEPT ![w.row].count = w.n, ![w.row].class = w.class, ![w.row].dead = dead]
        = [records[e] EXCEPT ![w.row] = bumped]
    <3> HIDE DEF dead, w, e
    <3> QED BY DEF old, bumped
  <2>5. records' = [records EXCEPT ![e] = [records[e] EXCEPT ![w.row] = bumped]]
    BY <2>1, <2>4
  <2> HIDE DEF bumped
  <2>6. Wrote(e) BY <1>4, <2>3, <2>5, RecordSet
  <2> QED BY <1>1, <1>3, <1>6, <2>6 DEF FailWrite
<1> QED BY <1>5, <1>6

LEMMA ForceWriteDoes ==
    ASSUME TypeOK, NEW p \in Process, ForceWrite(p)
    PROVE  /\ proc[p].pc = "force_write" /\ To(p, "retry_read")
           /\ UNCHANGED <<approved, refs, logs, posts, history, budget>>
           /\ Wrote(proc[p].entry)
           /\ DOMAIN records'[proc[p].entry] = DOMAIN records[proc[p].entry]
<1> DEFINE w == proc[p]
           e == w.entry
           old == records[e][w.row]
           fresh == [[[old EXCEPT !.dead = FALSE] EXCEPT !.class = "transient"] EXCEPT !.count = 0]
<1>1. w.pc = "force_write" /\ w.pc \in PushPc BY DEF ForceWrite, At, PushPc
<1>2. w \in Work BY <1>1, Workers
<1>3. To(p, "retry_read") BY <1>1, GotoMoves DEF ForceWrite, PushPc
<1>4. e \in Entry /\ w.row \in Nat BY <1>2 DEF Work
<1>5. w.row \in DOMAIN records[e] => old \in Record
  BY <1>4, LastThere, ElementOfSeq DEF TypeOK
<1>6. w.row \in DOMAIN records[e] => fresh \in Record /\ fresh.open = old.open
  BY <1>5 DEF Record, Class
<1>7. records' = [records EXCEPT ![e] =
         [@ EXCEPT ![w.row].dead = FALSE, ![w.row].class = "transient", ![w.row].count = 0]]
  BY DEF ForceWrite
<1>8. [records[e] EXCEPT ![w.row].dead = FALSE, ![w.row].class = "transient", ![w.row].count = 0]
      = [records[e] EXCEPT ![w.row] = fresh]
  <2> HIDE DEF w, e
  <2> QED BY DEF old, fresh
<1>9. records' = [records EXCEPT ![e] = [records[e] EXCEPT ![w.row] = fresh]] BY <1>7, <1>8
<1> HIDE DEF fresh
<1>10. Wrote(e) /\ DOMAIN records'[e] = DOMAIN records[e] BY <1>4, <1>6, <1>9, RecordSet
<1> QED BY <1>1, <1>3, <1>10 DEF ForceWrite

LEMMA BackfillCreateDoes ==
    ASSUME PushAssumption, TypeOK, NEW p \in Process, BackfillCreate(p)
    PROVE  /\ proc[p].pc = "backfill_create" /\ Done(p)
           /\ UNCHANGED <<approved, refs, logs, posts, history, budget>>
           /\ Wrote(proc[p].entry)
<1> DEFINE w == proc[p]
           e == w.entry
           dead == Exhausted(w.class, w.n, MaxBackfill)
           new == [count |-> w.n, class |-> w.class, open |-> TRUE, dead |-> dead]
<1>1. w.pc = "backfill_create" /\ w.pc \in PushPc BY DEF BackfillCreate, At, PushPc
<1>2. w \in Work BY <1>1, Workers
<1>3. e \in Entry /\ w.n \in Nat /\ w.class \in Class /\ dead \in BOOLEAN
  BY <1>2 DEF Work, Exhausted, PushAssumption
<1>4. new \in Record BY <1>3 DEF Record
<1>5. records' = [records EXCEPT ![e] = Append(@, new)] BY DEF BackfillCreate
<1> HIDE DEF new
<1>6. Wrote(e) BY <1>3, <1>4, <1>5, RecordAdded
<1>7. Done(p) BY BecomeMoves DEF BackfillCreate, Done, Proc, None
<1> QED BY <1>1, <1>6, <1>7 DEF BackfillCreate

LEMMA RetryReadDoes ==
    ASSUME TypeOK, NEW p \in Process, RetryRead(p)
    PROVE  LET w == proc[p] IN
           /\ w.pc = "retry_read" /\ UNCHANGED <<store, posts, history, budget>>
           /\ \/ Done(p)
              \/ /\ Starts(p, "retry_log", w.by, w.entry, Len(refs[w.entry]))
                 /\ proc'[p].batch = w.batch
                 /\ Len(refs[w.entry]) > 0
<1> DEFINE w == proc[p]
           last == Len(refs[w.entry])
           new == [w EXCEPT !.pc = "retry_log", !.at = last]
<1>1. w.pc = "retry_read" /\ w.pc \in PushPc BY DEF RetryRead, At, PushPc
<1>2. Return(p) => Done(p) BY <1>1, ReturnMoves
<1>3. w \in Work BY <1>1, Workers
<1>4. last \in Nat BY <1>3, LastThere DEF Work, TypeOK
<1>5. ASSUME Become(p, new), last > 0
      PROVE  Starts(p, "retry_log", w.by, w.entry, last) /\ proc'[p].batch = w.batch
  <2> HIDE DEF last
  <2>1. new \in Work BY <1>3, <1>4 DEF Work, PushPc
  <2>2. /\ new.pc = "retry_log" /\ new.by = w.by /\ new.entry = w.entry /\ new.at = last
        /\ new.batch = w.batch
    BY <1>3 DEF Work
  <2> HIDE DEF new
  <2>3. Moved(p) /\ proc'[p] = new BY <1>5, <2>1, BecomeMoves DEF Proc
  <2> QED BY <2>1, <2>2, <2>3 DEF Starts
<1> QED BY <1>1, <1>2, <1>5 DEF RetryRead

LEMMA RetryLogDoes ==
    ASSUME TypeOK, NEW p \in Process, RetryLog(p)
    PROVE  LET w == proc[p] IN
           /\ w.pc = "retry_log" /\ UNCHANGED <<store, posts, history, budget>>
           /\ \/ To(p, "read") /\ logs[w.entry] = <<>>
              \/ Done(p)
              \/ /\ To(p, "retry_bump")
                 /\ logs[w.entry] # <<>>
                 /\ proc'[p].row = Len(logs[w.entry])
                 /\ proc'[p].n = LatestCount(w.entry)
                 /\ ~(w.by = "cron" /\ LatestCount(w.entry) >= MaxRetries)
<1> DEFINE w == proc[p]
           last == Len(logs[w.entry])
           n == LatestCount(w.entry)
           new == [w EXCEPT !.pc = "retry_bump", !.row = last, !.n = n]
<1>1. w.pc = "retry_log" /\ w.pc \in PushPc BY DEF RetryLog, At, PushPc
<1>2. Return(p) => Done(p) BY <1>1, ReturnMoves
<1>3. w \in Work BY <1>1, Workers
<1>4. w.entry \in Entry BY <1>3 DEF Work
<1>5. /\ last \in Nat /\ n \in Nat
      /\ last = 0 <=> logs[w.entry] = <<>>
  BY <1>4, LastThere, LatestType DEF TypeOK
<1>6. Goto(p, "read") => To(p, "read") BY <1>1, GotoMoves DEF PushPc
<1>7. ASSUME Become(p, new)
      PROVE  To(p, "retry_bump") /\ proc'[p].row = last /\ proc'[p].n = n
  <2> HIDE DEF last, n
  <2>1. new \in Work BY <1>3, <1>5 DEF Work, PushPc
  <2>2. /\ new.pc = "retry_bump" /\ new.by = w.by /\ new.entry = w.entry /\ new.at = w.at
        /\ new.batch = w.batch /\ new.row = last /\ new.n = n
    BY <1>3 DEF Work
  <2> HIDE DEF new
  <2>3. Moved(p) /\ proc'[p] = new BY <1>7, <2>1, BecomeMoves DEF Proc
  <2> QED BY <2>1, <2>2, <2>3 DEF To
<1>8. \/ last = 0 /\ Goto(p, "read")
      \/ Return(p)
      \/ last > 0 /\ ~(w.by = "cron" /\ n >= MaxRetries) /\ Become(p, new)
  BY DEF RetryLog
<1> HIDE DEF last, n, new
<1>9. \/ last = 0 /\ To(p, "read")
      \/ Done(p)
      \/ last > 0 /\ ~(w.by = "cron" /\ n >= MaxRetries) /\ To(p, "retry_bump")
         /\ proc'[p].row = last /\ proc'[p].n = n
  BY <1>2, <1>6, <1>7, <1>8
<1>10. UNCHANGED <<store, posts, history, budget>> BY DEF RetryLog
<1>11. last > 0 => logs[w.entry] # <<>> BY <1>5
<1> QED BY <1>1, <1>5, <1>9, <1>10, <1>11 DEF last, n

LEMMA RetryBumpDoes ==
    ASSUME TypeOK, NEW p \in Process, RetryBump(p)
    PROVE  LET w == proc[p] IN
           /\ w.pc = "retry_bump" /\ To(p, "read")
           /\ UNCHANGED <<approved, refs, records, posts, history, budget>>
           /\ logs' \in [Entry -> Seq(Log)]
           /\ \A e \in Entry \ {w.entry} : logs'[e] = logs[e]
           /\ logs'[w.entry] = <<>> <=> logs[w.entry] = <<>>
           /\ \A e \in Entry : e = w.entry /\ logs[e] # <<>> /\ w.row = Len(logs[e])
                               => LatestCount(e)' = w.n + 1
<1> DEFINE w == proc[p]
           s == logs[w.entry]
           row == [s[w.row] EXCEPT !.count = w.n + 1]
           t == [s EXCEPT ![w.row] = row]
<1>1. w.pc = "retry_bump" /\ w.pc \in PushPc BY DEF RetryBump, At, PushPc
<1>2. w \in Work BY <1>1, Workers
<1>3. w.entry \in Entry /\ w.row \in Nat /\ w.n \in Nat BY <1>2 DEF Work
<1>4. s \in Seq(Log) BY <1>3 DEF TypeOK
<1>5. w.row \in DOMAIN s => row \in Log /\ row.count = w.n + 1
  <2> HIDE DEF s, w
  <2>1. w.row \in DOMAIN s => s[w.row] \in Log BY <1>4, LastThere, ElementOfSeq
  <2> QED BY <1>3, <2>1 DEF Log
<1>6. logs' = [logs EXCEPT ![w.entry] = t] BY DEF RetryBump
<1>7. To(p, "read") BY <1>1, GotoMoves DEF RetryBump, PushPc
<1> HIDE DEF row
<1>8. /\ t \in Seq(Log) /\ Len(t) = Len(s)
      /\ w.row \in DOMAIN s => t[w.row] = row
  <2>1. CASE w.row \in DOMAIN s BY <1>3, <1>4, <1>5, <2>1, SetAt
  <2>2. CASE w.row \notin DOMAIN s
    <3>1. t = s BY <1>4, <2>2, LastThere
    <3> QED BY <1>4, <2>2, <3>1
  <2> QED BY <2>1, <2>2
<1> HIDE DEF t
<1>9. /\ logs' \in [Entry -> Seq(Log)] /\ logs'[w.entry] = t
      /\ \A e \in Entry \ {w.entry} : logs'[e] = logs[e]
  BY <1>3, <1>6, <1>8 DEF TypeOK
<1>10. t = <<>> <=> s = <<>> BY <1>4, <1>8, LastThere
<1>11. ASSUME NEW e \in Entry, e = w.entry, logs[e] # <<>>, w.row = Len(logs[e])
       PROVE  LatestCount(e)' = w.n + 1
  <2>1. w.row \in DOMAIN s BY <1>4, <1>11, LastThere
  <2>2. logs'[e] = t /\ t # <<>> BY <1>9, <1>10, <1>11
  <2>3. logs'[e][Len(logs'[e])].count = w.n + 1 BY <1>5, <1>8, <1>11, <2>1, <2>2
  <2> QED BY <2>2, <2>3 DEF LatestCount
<1> QED BY <1>1, <1>7, <1>9, <1>10, <1>11 DEF RetryBump

LEMMA CronNextDoes ==
    ASSUME TypeOK, NEW p \in Process, CronNext(p)
    PROVE  /\ proc[p].pc = "cron_next" /\ UNCHANGED <<store, posts, history, budget>>
           /\ \/ Moved(p) /\ proc'[p] = None
              \/ \E b \in proc[p].batch :
                    /\ Starts(p, "retry_read", "cron", b[1], 0)
                    /\ proc'[p].batch \subseteq proc[p].batch
<1>1. proc[p].pc = "cron_next" BY DEF CronNext, At
<1>2. proc[p].batch \subseteq Entry \X Nat BY <1>1, Workers DEF Job
<1>3. Become(p, None) => Moved(p) /\ proc'[p] = None BY BecomeMoves DEF Proc
<1>4. ASSUME NEW b \in proc[p].batch,
             Become(p, [Task("retry_read", "cron", b[1], 0) EXCEPT !.batch = proc[p].batch \ {b}])
      PROVE  /\ Starts(p, "retry_read", "cron", b[1], 0)
             /\ proc'[p].batch \subseteq proc[p].batch
  <2> DEFINE batch == proc[p].batch \ {b}
             w == [Task("retry_read", "cron", b[1], 0) EXCEPT !.batch = batch]
  <2>1. b[1] \in Entry /\ batch \in SUBSET (Entry \X Nat) BY <1>2
  <2> HIDE DEF batch
  <2>2. w \in Work BY <2>1 DEF Task, Work, PushPc, Class
  <2>3. w.pc = "retry_read" /\ w.by = "cron" /\ w.entry = b[1] /\ w.at = 0 /\ w.batch = batch
    BY DEF Task
  <2>4. Become(p, w) BY <1>4 DEF batch
  <2> HIDE DEF w
  <2>5. Moved(p) /\ proc'[p] = w BY <2>2, <2>4, BecomeMoves DEF Proc
  <2> QED BY <2>2, <2>3, <2>5 DEF Starts, batch
<1> QED BY <1>1, <1>3, <1>4 DEF CronNext

LEMMA CronStartDoes ==
    ASSUME TypeOK, NEW p \in Process, CronStart(p)
    PROVE  /\ proc[p].pc = "idle" /\ UNCHANGED <<store, posts, history, budget>>
           /\ Moved(p) /\ proc'[p] \in Job
           /\ \A b \in proc'[p].batch : b[1] \in Entry /\ records[b[1]] # <<>>
<1> DEFINE rows == UNION {{e} \X DOMAIN records[e] : e \in Entry}
           batch == {b \in rows : Eligible(records[b[1]][b[2]])}
           w == [pc |-> "cron_next", batch |-> batch]
<1>1. \A b \in rows : b \in Entry \X Nat /\ records[b[1]] # <<>>
  <2>1. ASSUME NEW e \in Entry, NEW b \in {e} \X DOMAIN records[e]
        PROVE  b \in Entry \X Nat /\ records[b[1]] # <<>>
    <3>1. records[e] \in Seq(Record) BY DEF TypeOK
    <3>2. DOMAIN records[e] \subseteq Nat BY <3>1, LastThere
    <3>3. records[e] # <<>> BY <3>1, LastThere
    <3> QED BY <3>2, <3>3
  <2> QED BY <2>1
<1>2. \A b \in batch : b \in Entry \X Nat /\ records[b[1]] # <<>> BY <1>1
<1>3. Become(p, w) BY DEF CronStart
<1> HIDE DEF batch
<1>4. w \in Job BY <1>2 DEF Job
<1>5. w.batch = batch OBVIOUS
<1> HIDE DEF w
<1>6. Moved(p) /\ proc'[p] = w BY <1>3, <1>4, BecomeMoves DEF Proc
<1>7. \A b \in proc'[p].batch : b[1] \in Entry /\ records[b[1]] # <<>>
  BY <1>2, <1>5, <1>6
<1> QED BY <1>4, <1>6, <1>7 DEF CronStart, At

LEMMA ApproveDoes ==
    ASSUME TypeOK, NEW p \in Process, NEW e \in Entry, Approve(p, e)
    PROVE  /\ proc[p].pc = "idle" /\ UNCHANGED <<logs, records, posts, history, budget>>
           /\ approved' = approved \cup {e}
           /\ refs' \in [Entry -> Seq(Nat)]
           /\ \A x \in Entry \ {e} : refs'[x] = refs[x]
           /\ refs'[e] = Append(refs[e], 0)
           /\ Starts(p, "read", "reviewer", e, Len(refs[e]) + 1)
           /\ proc'[p].batch = {}
<1> DEFINE w == Task("read", "reviewer", e, Len(refs[e]) + 1)
<1>1. refs[e] \in Seq(Nat) BY DEF TypeOK
<1>2. Len(refs[e]) + 1 \in Nat BY <1>1, LastThere
<1>3. w \in Work BY <1>2, TaskType DEF PushPc
<1>4. /\ w.pc = "read" /\ w.by = "reviewer" /\ w.entry = e /\ w.at = Len(refs[e]) + 1
      /\ w.batch = {}
  BY DEF Task
<1>5. Become(p, w) BY DEF Approve
<1> HIDE DEF w
<1>6. Moved(p) /\ proc'[p] = w BY <1>3, <1>5, BecomeMoves DEF Proc
<1>7. Append(refs[e], 0) \in Seq(Nat) BY <1>1, AddLast
<1>8. refs' = [refs EXCEPT ![e] = Append(@, 0)] BY DEF Approve
<1>9. /\ refs' \in [Entry -> Seq(Nat)] /\ refs'[e] = Append(refs[e], 0)
      /\ \A x \in Entry \ {e} : refs'[x] = refs[x]
  BY <1>7, <1>8 DEF TypeOK
<1> QED BY <1>3, <1>4, <1>6, <1>9 DEF Approve, Starts, At

LEMMA RetryStartDoes ==
    ASSUME TypeOK, NEW p \in Process, NEW e \in Entry, RetryStart(p, e)
    PROVE  /\ proc[p].pc = "idle" /\ UNCHANGED <<store, posts, history>>
           /\ AdminActs("retry")
           /\ Starts(p, "retry_read", "admin", e, 0) /\ proc'[p].batch = {}
<1> DEFINE w == Task("retry_read", "admin", e, 0)
<1>1. w \in Work BY TaskType DEF PushPc
<1>2. w.pc = "retry_read" /\ w.by = "admin" /\ w.entry = e /\ w.at = 0 /\ w.batch = {}
  BY DEF Task
<1>3. Become(p, w) BY DEF RetryStart
<1> HIDE DEF w
<1>4. Moved(p) /\ proc'[p] = w BY <1>1, <1>3, BecomeMoves DEF Proc
<1> QED BY <1>1, <1>2, <1>4 DEF RetryStart, Starts, At

LEMMA ForceStartDoes ==
    ASSUME TypeOK, NEW p \in Process, NEW e \in Entry, ForceStart(p, e)
    PROVE  /\ proc[p].pc = "idle" /\ UNCHANGED <<store, posts, history>>
           /\ AdminActs("force")
           /\ Starts(p, "force_write", "admin", e, 0) /\ proc'[p].batch = {}
<1>1. PICK k \in OpenRows(e) : Become(p, [Task("force_write", "admin", e, 0) EXCEPT !.row = k])
  BY DEF ForceStart
<1> DEFINE w == [Task("force_write", "admin", e, 0) EXCEPT !.row = k]
<1>2. k \in Nat BY OpenRowsType
<1>3. w \in Work BY <1>2 DEF Task, Work, PushPc, Class
<1>4. w.pc = "force_write" /\ w.by = "admin" /\ w.entry = e /\ w.at = 0 /\ w.batch = {}
  BY DEF Task
<1>5. Become(p, w) BY <1>1
<1> HIDE DEF w
<1>6. Moved(p) /\ proc'[p] = w BY <1>3, <1>5, BecomeMoves DEF Proc
<1> QED BY <1>3, <1>4, <1>6 DEF ForceStart, Starts, At

LEMMA BackfillStartDoes ==
    ASSUME TypeOK, NEW p \in Process, NEW e \in Entry, BackfillStart(p, e)
    PROVE  /\ proc[p].pc = "idle" /\ UNCHANGED <<store, posts, tries>>
           /\ AdminActs("list") /\ listed' /\ logs[e] # <<>>
           /\ Starts(p, "backfill_create", "admin", e, 0) /\ proc'[p].batch = {}
<1> DEFINE latest == logs[e][Len(logs[e])]
           w == [Task("backfill_create", "admin", e, 0) EXCEPT
                    !.n = latest.count, !.class = latest.class]
<1>1. latest \in Log BY LatestType DEF BackfillStart
<1>2. Become(p, w) BY DEF BackfillStart
<1> HIDE DEF latest
<1>3. w \in Work BY <1>1 DEF Task, Work, PushPc, Log
<1>4. w.pc = "backfill_create" /\ w.by = "admin" /\ w.entry = e /\ w.at = 0 /\ w.batch = {}
  BY DEF Task
<1> HIDE DEF w
<1>5. Moved(p) /\ proc'[p] = w BY <1>2, <1>3, BecomeMoves DEF Proc
<1> QED BY <1>3, <1>4, <1>5 DEF BackfillStart, Starts, At

LEMMA DatabaseErrorDoes ==
    ASSUME TypeOK, NEW p \in Process, DatabaseError(p)
    PROVE  /\ Fault /\ UNCHANGED <<store, posts, history>>
           /\ \/ proc[p].pc \in {"save", "log_success", "resolve"} /\ To(p, "fail_read")
              \/ Moved(p) /\ proc'[p] = None
<1>1. CASE proc[p].pc \in {"save", "log_success", "resolve"}
  <2>1. proc[p].pc \in PushPc BY <1>1 DEF PushPc
  <2>2. PICK c \in Class : Fail(p, c) BY <1>1 DEF DatabaseError
  <2>3. To(p, "fail_read") BY <2>1, <2>2, FailMoves
  <2> QED BY <1>1, <2>3 DEF DatabaseError
<1>2. CASE proc[p].pc \notin {"save", "log_success", "resolve"}
  <2>1. Become(p, None) BY <1>2 DEF DatabaseError
  <2> QED BY <2>1, BecomeMoves DEF DatabaseError, Proc
<1> QED BY <1>1, <1>2

-----------------------------------------------------------------------------
(* Types.                                                                   *)

LEMMA ProcType == ASSUME NEW p \in Process, Moved(p)
                  PROVE  proc' \in [Process -> Work \cup Job \cup {None}]
BY DEF Moved, Proc

LEMMA MovesOf ==
    ASSUME NEW p \in Process,
           \/ Done(p)
           \/ \E pc \in PushPc : To(p, pc)
           \/ \E pc, by, e, at : Starts(p, pc, by, e, at)
    PROVE  Moved(p)
BY DEF Done, To, Starts

LEMMA EntryOf ==
    ASSUME TypeOK, NEW p \in Process, proc[p].pc \in PushPc
    PROVE  /\ proc[p].entry \in Entry /\ proc[p].at \in Nat
           /\ proc[p].batch \subseteq Entry \X Nat
BY Workers DEF Work

LEMMA PushType ==
    ASSUME PushAssumption, TypeOK, NEW p \in Process, PushStep(p)
    PROVE  TypeOK'
<1> USE ProcType DEF store, history, budget
<1>1. CASE Read(p)
  <2>1. Moved(p) BY <1>1, ReadDoes, MovesOf DEF PushPc
  <2>2. tries' \in [Entry -> Nat]
    <3>1. proc[p].entry \in Entry BY <1>1, ReadDoes, EntryOf DEF PushPc
    <3>2. \/ tries' = tries
          \/ tries' = [tries EXCEPT ![proc[p].entry] = tries[proc[p].entry] + 1]
      BY <1>1, ReadDoes
    <3>3. tries \in [Entry -> Nat] BY DEF TypeOK
    <3>4. tries[proc[p].entry] + 1 \in Nat BY <3>1, <3>3
    <3> QED BY <3>1, <3>2, <3>3, <3>4
  <2> QED BY <1>1, <2>1, <2>2, ReadDoes DEF TypeOK
<1>2. CASE Prepare(p)
  <2>1. Moved(p) BY <1>2, PrepareDoes, MovesOf DEF PushPc
  <2> QED BY <1>2, <2>1, PrepareDoes DEF TypeOK
<1>3. CASE Send(p)
  <2>1. Moved(p) BY <1>3, SendDoes, MovesOf DEF PushPc
  <2>2. posts' \in [Entry -> Nat]
    <3>1. proc[p].entry \in Entry BY <1>3, SendDoes, EntryOf DEF PushPc
    <3> QED BY <1>3, <3>1, SendDoes DEF TypeOK
  <2>3. admins' \in 0..MaxAdmin /\ faults' \in 0..MaxFaults
    BY <1>3, SendDoes DEF TypeOK, Fault, PushAssumption
  <2> QED BY <1>3, <2>1, <2>2, <2>3, SendDoes DEF TypeOK
<1>4. CASE SaveRef(p)
  <2>1. Moved(p) BY <1>4, SaveRefDoes, MovesOf DEF PushPc
  <2> QED BY <1>4, <2>1, SaveRefDoes DEF TypeOK
<1>5. CASE LogSuccess(p)
  <2>1. Moved(p) BY <1>5, LogSuccessDoes, MovesOf DEF PushPc
  <2> QED BY <1>5, <2>1, LogSuccessDoes DEF TypeOK
<1>6. CASE Resolve(p)
  <2>1. Moved(p) BY <1>6, ResolveDoes, MovesOf DEF PushPc
  <2> QED BY <1>6, <2>1, ResolveDoes DEF TypeOK
<1>7. CASE FailRead(p)
  <2>1. Moved(p) BY <1>7, FailReadDoes, MovesOf DEF PushPc
  <2> QED BY <1>7, <2>1, FailReadDoes DEF TypeOK
<1>8. CASE FailLog(p)
  <2>1. Moved(p) BY <1>8, FailLogDoes, MovesOf DEF PushPc
  <2> QED BY <1>8, <2>1, FailLogDoes DEF TypeOK
<1>9. CASE FailFind(p)
  <2>1. Moved(p) BY <1>9, FailFindDoes, MovesOf DEF PushPc
  <2> QED BY <1>9, <2>1, FailFindDoes DEF TypeOK
<1>10. CASE FailWrite(p)
  <2>1. Moved(p) BY <1>10, FailWriteDoes, MovesOf
  <2> QED BY <1>10, <2>1, FailWriteDoes DEF TypeOK, Wrote
<1> QED BY <1>1, <1>2, <1>3, <1>4, <1>5, <1>6, <1>7, <1>8, <1>9, <1>10 DEF PushStep

LEMMA RetryType ==
    ASSUME PushAssumption, TypeOK, NEW p \in Process, RetryStep(p) \/ AdminStep(p)
    PROVE  TypeOK'
<1> USE ProcType DEF store, history, budget
<1>1. CASE RetryRead(p)
  <2>1. Moved(p) BY <1>1, RetryReadDoes, MovesOf
  <2> QED BY <1>1, <2>1, RetryReadDoes DEF TypeOK
<1>2. CASE RetryLog(p)
  <2>1. Moved(p) BY <1>2, RetryLogDoes, MovesOf DEF PushPc
  <2> QED BY <1>2, <2>1, RetryLogDoes DEF TypeOK
<1>3. CASE RetryBump(p)
  <2>1. Moved(p) BY <1>3, RetryBumpDoes, MovesOf DEF PushPc
  <2> QED BY <1>3, <2>1, RetryBumpDoes DEF TypeOK
<1>4. CASE CronNext(p)
  <2>1. Moved(p) BY <1>4, CronNextDoes, MovesOf
  <2> QED BY <1>4, <2>1, CronNextDoes DEF TypeOK
<1>5. CASE ForceWrite(p)
  <2>1. Moved(p) BY <1>5, ForceWriteDoes, MovesOf DEF PushPc
  <2> QED BY <1>5, <2>1, ForceWriteDoes DEF TypeOK, Wrote
<1>6. CASE BackfillCreate(p)
  <2>1. Moved(p) BY <1>6, BackfillCreateDoes, MovesOf
  <2> QED BY <1>6, <2>1, BackfillCreateDoes DEF TypeOK, Wrote
<1> QED BY <1>1, <1>2, <1>3, <1>4, <1>5, <1>6 DEF RetryStep, AdminStep

Start(p) == \/ CronStart(p)
            \/ \E e \in Entry : Approve(p, e) \/ RetryStart(p, e) \/ ForceStart(p, e)
                                \/ BackfillStart(p, e)

LEMMA StartType ==
    ASSUME PushAssumption, TypeOK, NEW p \in Process, Start(p)
    PROVE  TypeOK'
<1> USE ProcType DEF store, history, budget
<1>1. CASE CronStart(p) BY <1>1, CronStartDoes DEF TypeOK
<1>2. ASSUME NEW e \in Entry, Approve(p, e) PROVE TypeOK'
  <2>1. Moved(p) BY <1>2, ApproveDoes, MovesOf
  <2>2. /\ approved' = approved \cup {e} /\ refs' \in [Entry -> Seq(Nat)]
        /\ UNCHANGED <<logs, records, posts, history, budget>>
    BY <1>2, ApproveDoes
  <2>3. proc' \in [Process -> Work \cup Job \cup {None}] BY <2>1
  <2>4. approved' \subseteq Entry BY <2>2 DEF TypeOK
  <2> QED BY <2>2, <2>3, <2>4 DEF TypeOK
<1>3. \A kind : AdminActs(kind) => admins' \in 0..MaxAdmin /\ faults' \in 0..MaxFaults
  BY DEF TypeOK, AdminActs, PushAssumption
<1>4. ASSUME NEW e \in Entry, RetryStart(p, e) PROVE TypeOK'
  <2>1. Moved(p) BY <1>4, RetryStartDoes, MovesOf
  <2> QED BY <1>3, <1>4, <2>1, RetryStartDoes DEF TypeOK
<1>5. ASSUME NEW e \in Entry, ForceStart(p, e) PROVE TypeOK'
  <2>1. Moved(p) BY <1>5, ForceStartDoes, MovesOf
  <2> QED BY <1>3, <1>5, <2>1, ForceStartDoes DEF TypeOK
<1>6. ASSUME NEW e \in Entry, BackfillStart(p, e) PROVE TypeOK'
  <2>1. Moved(p) BY <1>6, BackfillStartDoes, MovesOf
  <2>2. listed' \in BOOLEAN BY <1>6 DEF BackfillStart
  <2> QED BY <1>3, <1>6, <2>1, <2>2, BackfillStartDoes DEF TypeOK
<1> QED BY <1>1, <1>2, <1>4, <1>5, <1>6 DEF Start

LEMMA FaultType ==
    ASSUME PushAssumption, TypeOK,
           \/ \E p \in Process : DatabaseError(p)
           \/ Restart
           \/ \E e \in Entry : Withdraw(e)
    PROVE  TypeOK'
<1> USE ProcType DEF store, history, budget
<1>1. Fault BY DEF DatabaseError, Restart, Withdraw
<1>2. admins' \in 0..MaxAdmin /\ faults' \in 0..MaxFaults
  BY <1>1 DEF TypeOK, Fault, PushAssumption
<1>3. ASSUME NEW p \in Process, DatabaseError(p) PROVE TypeOK'
  <2>1. Moved(p) BY <1>3, DatabaseErrorDoes, MovesOf DEF PushPc
  <2> QED BY <1>2, <1>3, <2>1, DatabaseErrorDoes DEF TypeOK
<1>4. CASE Restart BY <1>2, <1>4 DEF Restart, TypeOK
<1>5. ASSUME NEW e \in Entry, Withdraw(e) PROVE TypeOK'
  BY <1>2, <1>5 DEF Withdraw, TypeOK
<1> QED BY <1>3, <1>4, <1>5

LEMMA TypeStep ==
    ASSUME PushAssumption, TypeOK, [Next]_vars
    PROVE  TypeOK'
<1>1. CASE UNCHANGED vars BY <1>1 DEF TypeOK, vars, store, history, budget
<1>2. CASE Next BY <1>2, PushType, RetryType, StartType, FaultType DEF Next, Start
<1> QED BY <1>1, <1>2

-----------------------------------------------------------------------------
(* Nothing is forgotten, for any number of processes.                       *)

(* Refs stay; a record is closed only once its entry is synced.              *)
Grows ==
    \A e \in Entry :
        /\ \A i \in DOMAIN refs[e] :
              i \in DOMAIN refs'[e] /\ (refs[e][i] # 0 => refs'[e][i] # 0)
        /\ \A k \in DOMAIN records[e] :
              /\ k \in DOMAIN records'[e]
              /\ records[e][k].open => records'[e][k].open \/ Synced(e)' # {}

LEMMA GrowsSame == ASSUME UNCHANGED <<refs, records>> PROVE Grows
BY DEF Grows

LEMMA GrowsRecords ==
    ASSUME refs' = refs, NEW e \in Entry, Wrote(e)
    PROVE  Grows
BY DEF Grows, Wrote, Kept

LEMMA SyncedStays ==
    ASSUME Grows, NEW e \in Entry
    PROVE  Synced(e) # {} => Synced(e)' # {}
BY DEF Grows, Synced

LEMMA KnownStays ==
    ASSUME TypeOK, Grows, NEW q \in Process, Known(proc[q]), proc'[q] = proc[q]
    PROVE  Known(proc[q])'
<1>1. CASE proc[q].pc \in PushPc
  <2> DEFINE e == proc[q].entry
  <2>1. e \in Entry BY <1>1, EntryOf
  <2>2. Synced(e) # {} => Synced(proc[q].entry)' # {}
    <3>1. \A x \in Entry : Synced(x) # {} => Synced(x)' # {} BY SyncedStays
    <3> QED BY <2>1, <3>1 DEF Synced
  <2> QED BY <2>1, <2>2 DEF Known, Grows, Synced
<1>2. CASE proc[q].pc \notin PushPc
  BY <1>2 DEF Known, OnApproval, Past, PushPc
<1> QED BY <1>1, <1>2

LEMMA SeenStays ==
    ASSUME TypeOK, Grows, NEW p \in Process, Moved(p), NEW e \in Entry, Seen(e),
           Pushing(p, e) => Seen(e)'
    PROVE  Seen(e)'
<1>1. CASE Synced(e) # {} BY <1>1, SyncedStays DEF Seen
<1>2. CASE OpenRows(e) # {} BY <1>2 DEF Seen, OpenRows, Grows
<1>3. ASSUME NEW q \in Process \ {p}, Pushing(q, e) PROVE Seen(e)'
  BY <1>3 DEF Moved, Pushing, Seen
<1> QED BY <1>1, <1>2, <1>3 DEF Seen

(* A step of a process that hands its entry on.                              *)
Good(p) ==
    /\ Moved(p) /\ Grows /\ Known(proc[p])'
    /\ faults' = 0 => /\ faults = 0
                      /\ \A e \in approved' : e \in approved \/ Pushing(p, e)'
                      /\ \A e \in approved : Pushing(p, e) => Seen(e)'

LEMMA GoodKeeps ==
    ASSUME IInv, TypeOK', NEW p \in Process, Good(p)
    PROVE  IInv'
<1>1. AllKnown'
  <2>1. ASSUME NEW q \in Process PROVE Known(proc[q])'
    <3>1. CASE q = p BY <3>1 DEF Good
    <3>2. CASE q # p
      <4>1. proc'[q] = proc[q] BY <3>2 DEF Good, Moved
      <4>2. Known(proc[q]) /\ TypeOK /\ Grows BY DEF IInv, AllKnown, Good
      <4> QED BY <4>1, <4>2, KnownStays
    <3> QED BY <3>1, <3>2
  <2> QED BY <2>1 DEF AllKnown
<1>2. AllSeen'
  <2>1. ASSUME faults' = 0, NEW e \in approved' PROVE Seen(e)'
    <3>1. e \in Entry BY DEF TypeOK
    <3>2. CASE e \in approved
      <4>1. Seen(e) /\ TypeOK /\ Grows /\ Moved(p) BY <2>1, <3>2 DEF Good, IInv, AllSeen
      <4>2. Pushing(p, e) => Seen(e)' BY <2>1, <3>2 DEF Good
      <4> QED BY <3>1, <4>1, <4>2, SeenStays
    <3>3. CASE e \notin approved BY <2>1, <3>3 DEF Good, Seen
    <3> QED BY <3>2, <3>3
  <2> QED BY <2>1 DEF AllSeen
<1> QED BY <1>1, <1>2 DEF IInv

(* The knowledge of a process that has gone to another step.                 *)
LEMMA KnownIdle ==
    ASSUME NEW p \in Process, TypeOK', proc'[p].pc \notin OnApproval
    PROVE  Known(proc[p])'
BY DEF Known, OnApproval, Past

LEMMA KnownTo ==
    ASSUME TypeOK, Grows, NEW p \in Process, proc[p].pc \in OnApproval, Known(proc[p]),
           NEW pc \in PushPc \ (Past \cup {"save", "fail_write"}), To(p, pc)
    PROVE  Known(proc[p])'
<1>1. proc[p].entry \in Entry BY EntryOf DEF PushPc, OnApproval
<1>2. proc'[p].at \in DOMAIN refs'[proc'[p].entry] BY <1>1 DEF Known, Grows, To
<1>3. proc'[p].pc = pc BY DEF To
<1>4. pc \notin Past /\ pc # "save" /\ pc # "fail_write" OBVIOUS
<1> QED BY <1>2, <1>3, <1>4 DEF Known

LEMMA StillPushing ==
    ASSUME NEW p \in Process, NEW pc \in OnItsWay, To(p, pc)
    PROVE  \A e \in Entry : Pushing(p, e) => Seen(e)'
BY DEF To, Pushing, Seen

LEMMA DoneKnows == ASSUME NEW p \in Process, Done(p) PROVE Known(proc[p])'
<1>1. proc'[p].pc \in {"cron_next", "idle"} BY DEF Done, Job, None
<1> QED BY <1>1 DEF Known, OnApproval, Past

LEMMA SyncedAt ==
    ASSUME NEW p \in Process, NEW e, proc[p].at \in DOMAIN refs[e], refs[e][proc[p].at] # 0
    PROVE  Synced(e) # {}
BY DEF Synced

LEMMA EntryPicked ==
    ASSUME TypeOK, NEW p \in Process, proc[p].pc \in PushPc
    PROVE  \E e \in Entry : proc[p].entry = e
BY EntryOf

(* An entry that the process has in hand is seen to after the step.          *)
LEMMA OnlyMine ==
    ASSUME NEW p \in Process, NEW e, proc[p].entry = e, Seen(e)'
    PROVE  \A x \in Entry : Pushing(p, x) => Seen(x)'
BY DEF Pushing

LEMMA ReadGood ==
    ASSUME IInv, TypeOK', NEW p \in Process, Read(p)
    PROVE  Good(p)
<1>1. /\ proc[p].pc = "read" /\ TypeOK /\ Known(proc[p])
      /\ refs' = refs /\ records' = records /\ approved' = approved /\ faults' = faults
  BY ReadDoes DEF IInv, AllKnown, store, budget
<1>2. PICK e \in Entry : proc[p].entry = e BY <1>1, EntryPicked DEF PushPc
<1>3. Grows BY <1>1, GrowsSame
<1>4. proc[p].at \in DOMAIN refs[e] BY <1>1, <1>2 DEF Known, OnApproval
<1>5. refs[e][proc[p].at] # 0 => Synced(e)' # {} BY <1>1, <1>4, SyncedAt DEF Synced
<1>6. CASE Done(p) /\ (e \notin approved \/ refs[e][proc[p].at] # 0)
  <2>1. Moved(p) /\ Known(proc[p])' BY <1>6, DoneKnows DEF Done
  <2>2. \A x \in approved : Pushing(p, x) => Seen(x)' BY <1>2, <1>5, <1>6 DEF Pushing, Seen
  <2> QED BY <1>1, <1>3, <2>1, <2>2 DEF Good
<1>7. CASE To(p, "resolve_again") /\ refs[e][proc[p].at] # 0
  <2>1. Moved(p) BY <1>7 DEF To
  <2>2. Known(proc[p])' BY <1>1, <1>2, <1>4, <1>5, <1>7 DEF To, Known
  <2>3. \A x \in Entry : Pushing(p, x) => Seen(x)' BY <1>2, <1>5, <1>7, OnlyMine DEF Seen
  <2>4. approved \subseteq Entry BY <1>1 DEF TypeOK
  <2> QED BY <1>1, <1>3, <2>1, <2>2, <2>3, <2>4 DEF Good
<1>8. ASSUME NEW pc \in {"fail_read", "prepare"}, To(p, pc) PROVE Good(p)
  <2>1. Moved(p) BY <1>8 DEF To
  <2>2. pc \in PushPc \ (Past \cup {"save", "fail_write"}) /\ pc \in OnItsWay
    BY DEF PushPc, Past, OnItsWay
  <2>3. Known(proc[p])' BY <1>1, <1>3, <1>8, <2>2, KnownTo DEF OnApproval
  <2>4. \A x \in Entry : Pushing(p, x) => Seen(x)' BY <1>8, <2>2, StillPushing
  <2>5. approved \subseteq Entry BY <1>1 DEF TypeOK
  <2> QED BY <1>1, <1>3, <2>1, <2>3, <2>4, <2>5 DEF Good
<1> QED BY <1>2, <1>6, <1>7, <1>8, ReadDoes, <1>1

(* A step within the push that leaves refs and records alone.               *)
LEMMA MiddleGood ==
    ASSUME IInv, NEW p \in Process, proc[p].pc \in OnApproval,
           NEW pc \in OnItsWay \ {"save", "fail_write"}, To(p, pc),
           UNCHANGED <<approved, refs, records>>, faults' = 0 => faults = 0
    PROVE  Good(p)
<1>1. TypeOK /\ Known(proc[p]) BY DEF IInv, AllKnown
<1>2. Grows BY GrowsSame
<1>3. Moved(p) BY DEF To
<1>4. pc \in PushPc \ (Past \cup {"save", "fail_write"}) BY DEF PushPc, Past, OnItsWay
<1>5. Known(proc[p])' BY <1>1, <1>2, <1>4, KnownTo
<1>6. \A x \in Entry : Pushing(p, x) => Seen(x)' BY StillPushing
<1>7. approved \subseteq Entry BY <1>1 DEF TypeOK
<1> QED BY <1>2, <1>3, <1>5, <1>6, <1>7 DEF Good

LEMMA SendGood ==
    ASSUME IInv, TypeOK', NEW p \in Process, Send(p)
    PROVE  Good(p)
<1>1. /\ proc[p].pc = "send" /\ TypeOK /\ Known(proc[p])
      /\ refs' = refs /\ records' = records /\ approved' = approved
  BY SendDoes DEF IInv, AllKnown, store
<1>2. PICK e \in Entry : proc[p].entry = e BY <1>1, EntryPicked DEF PushPc
<1>3. faults' = 0 => faults = 0 BY <1>1, SendDoes DEF Fault, budget, TypeOK
<1>4. CASE To(p, "fail_read")
  BY <1>1, <1>3, <1>4, MiddleGood DEF OnApproval, OnItsWay
<1>5. CASE To(p, "save") /\ proc'[p].n = posts[e] + 1
  <2>1. Moved(p) BY <1>5 DEF To
  <2>2. proc'[p].n # 0
    <3>1. posts[e] \in Nat BY <1>1 DEF TypeOK
    <3> QED BY <1>5, <3>1
  <2>3. proc'[p].at \in DOMAIN refs'[proc'[p].entry]
    <3>1. proc[p].at \in DOMAIN refs[proc[p].entry] BY <1>1 DEF Known, OnApproval
    <3>2. proc'[p].at = proc[p].at /\ proc'[p].entry = proc[p].entry BY <1>5 DEF To
    <3> QED BY <1>1, <3>1, <3>2
  <2>4. Known(proc[p])' BY <1>5, <2>2, <2>3 DEF To, Known, Past
  <2>5. \A x \in Entry : Pushing(p, x) => Seen(x)' BY <1>5, StillPushing DEF OnItsWay
  <2>6. approved \subseteq Entry BY <1>1 DEF TypeOK
  <2> QED BY <1>1, <1>3, <2>1, <2>4, <2>5, <2>6, GrowsSame DEF Good
<1> QED BY <1>1, <1>2, <1>4, <1>5, SendDoes

LEMMA SaveRefGood ==
    ASSUME IInv, TypeOK', NEW p \in Process, SaveRef(p)
    PROVE  Good(p)
<1>1. /\ proc[p].pc = "save" /\ TypeOK /\ Known(proc[p]) /\ To(p, "log_success")
      /\ records' = records /\ approved' = approved /\ faults' = faults
  BY SaveRefDoes DEF IInv, AllKnown, budget
<1>2. PICK e \in Entry : proc[p].entry = e BY <1>1, EntryPicked DEF PushPc
<1>3. proc[p].at \in DOMAIN refs[e] /\ proc[p].n # 0
  BY <1>1, <1>2 DEF Known, OnApproval
<1>4. /\ \A x \in Entry \ {e} : refs'[x] = refs[x]
      /\ refs'[e] = [refs[e] EXCEPT ![proc[p].at] = proc[p].n]
  BY <1>1, <1>2, SaveRefDoes
<1>5. /\ DOMAIN refs'[e] = DOMAIN refs[e] /\ refs'[e][proc[p].at] # 0
      /\ \A i \in DOMAIN refs[e] : refs[e][i] # 0 => refs'[e][i] # 0
  BY <1>3, <1>4
<1>6. Grows BY <1>1, <1>4, <1>5 DEF Grows
<1>7. Synced(e)' # {} BY <1>3, <1>5 DEF Synced
<1>8. Known(proc[p])'
  <2>1. proc'[p].pc = "log_success" /\ proc'[p].entry = e /\ proc'[p].at = proc[p].at
    BY <1>1, <1>2 DEF To
  <2>2. Synced(proc[p].entry)' # {} BY <1>7, <2>1 DEF Synced
  <2> QED BY <1>3, <1>5, <2>1, <2>2 DEF Known
<1>9. \A x \in Entry : Pushing(p, x) => Seen(x)' BY <1>2, <1>7, OnlyMine DEF Seen
<1>10. approved \subseteq Entry /\ Moved(p) BY <1>1 DEF TypeOK, To
<1> QED BY <1>1, <1>6, <1>8, <1>9, <1>10 DEF Good

(* A step that takes no entry out of a push.                                 *)
LEMMA SideGood ==
    ASSUME NEW p \in Process, proc[p].pc \notin OnItsWay, Grows, Moved(p), Known(proc[p])',
           approved' = approved, faults' = faults
    PROVE  Good(p)
BY DEF Good, Pushing

LEMMA PastKnows ==
    ASSUME TypeOK, Grows, NEW p \in Process, proc[p].pc \in Past, Known(proc[p]),
           NEW pc \in {"resolve", "resolve_again"}, To(p, pc)
    PROVE  Known(proc[p])'
<1>1. PICK e \in Entry : proc[p].entry = e BY EntryPicked DEF PushPc, Past
<1>2. proc[p].at \in DOMAIN refs[e] /\ Synced(e) # {} BY <1>1 DEF Known, Past, OnApproval
<1>3. proc[p].at \in DOMAIN refs'[e] BY <1>2 DEF Grows
<1>4. Synced(e)' # {} BY <1>2, SyncedStays
<1>5. proc'[p].pc = pc /\ proc'[p].entry = e /\ proc'[p].at = proc[p].at BY <1>1 DEF To
<1>6. Synced(proc[p].entry)' # {} BY <1>4, <1>5 DEF Synced
<1> QED BY <1>3, <1>5, <1>6 DEF Known

LEMMA ResolveGood ==
    ASSUME IInv, NEW p \in Process, LogSuccess(p) \/ Resolve(p)
    PROVE  Good(p)
<1>1. TypeOK /\ Known(proc[p]) BY DEF IInv, AllKnown
<1>2. CASE LogSuccess(p)
  <2>1. /\ proc[p].pc = "log_success" /\ To(p, "resolve")
        /\ UNCHANGED <<approved, refs, records, faults>>
    BY <1>1, <1>2, LogSuccessDoes DEF store, budget
  <2>2. Grows BY <2>1, GrowsSame
  <2>3. Known(proc[p])' BY <1>1, <2>1, <2>2, PastKnows DEF Past
  <2>4. Moved(p) /\ proc[p].pc \notin OnItsWay BY <2>1 DEF To, OnItsWay
  <2> QED BY <2>1, <2>2, <2>3, <2>4, SideGood
<1>3. CASE Resolve(p)
  <2>1. /\ proc[p].pc \in {"resolve", "resolve_again"}
        /\ UNCHANGED <<approved, refs, faults>>
        /\ Done(p) \/ To(p, "resolve_again")
    BY <1>1, <1>3, ResolveDoes DEF budget
  <2>2. PICK e \in Entry : proc[p].entry = e BY <1>1, <2>1, EntryPicked DEF PushPc
  <2>3. Synced(e) # {} BY <1>1, <2>1, <2>2 DEF Known, Past
  <2>4. Synced(e)' # {} BY <2>1, <2>3 DEF Synced
  <2>5. /\ \A x \in Entry \ {e} : records'[x] = records[x]
        /\ DOMAIN records'[e] = DOMAIN records[e]
    BY <1>1, <1>3, <2>2, ResolveDoes
  <2>6. Grows BY <2>1, <2>4, <2>5 DEF Grows
  <2>7. Known(proc[p])' BY <1>1, <2>1, <2>6, PastKnows, DoneKnows DEF Past
  <2>8. Moved(p) /\ proc[p].pc \notin OnItsWay BY <2>1 DEF To, Done, OnItsWay
  <2> QED BY <2>1, <2>6, <2>7, <2>8, SideGood
<1> QED BY <1>2, <1>3

LEMMA FailFindGood ==
    ASSUME IInv, NEW p \in Process, FailFind(p)
    PROVE  Good(p)
<1>1. TypeOK /\ Known(proc[p]) BY DEF IInv, AllKnown
<1>2. /\ proc[p].pc = "fail_find" /\ To(p, "fail_write")
      /\ UNCHANGED <<approved, refs, records, faults>>
      /\ proc'[p].row = 0 \/ proc'[p].row \in OpenRows(proc[p].entry)
  BY <1>1, FailFindDoes DEF store, budget
<1>3. PICK e \in Entry : proc[p].entry = e BY <1>1, <1>2, EntryPicked DEF PushPc
<1>4. proc[p].at \in DOMAIN refs[e] BY <1>1, <1>2, <1>3 DEF Known, OnApproval
<1>5. proc'[p].row # 0 =>
         proc'[p].row \in DOMAIN records[e] /\ records[e][proc'[p].row].open
  BY <1>2, <1>3 DEF OpenRows
<1>6. proc'[p].pc = "fail_write" /\ proc'[p].entry = e /\ proc'[p].at = proc[p].at
  BY <1>2, <1>3 DEF To
<1>7. Known(proc[p])' BY <1>2, <1>4, <1>5, <1>6 DEF Known, Past
<1>8. \A x \in Entry : Pushing(p, x) => Seen(x)' BY <1>2, StillPushing DEF OnItsWay
<1>9. approved \subseteq Entry /\ Moved(p) BY <1>1, <1>2 DEF TypeOK, To
<1> QED BY <1>2, <1>7, <1>8, <1>9, GrowsSame DEF Good

LEMMA FailWriteGood ==
    ASSUME PushAssumption, IInv, NEW p \in Process, FailWrite(p)
    PROVE  Good(p)
<1>1. TypeOK /\ Known(proc[p]) BY DEF IInv, AllKnown
<1>2. /\ proc[p].pc = "fail_write" /\ Done(p) /\ UNCHANGED <<approved, refs, faults>>
      /\ Wrote(proc[p].entry)
  BY <1>1, FailWriteDoes DEF budget
<1>3. PICK e \in Entry : proc[p].entry = e BY <1>1, <1>2, EntryPicked DEF PushPc
<1>4. Grows BY <1>2, <1>3, GrowsRecords
<1>5. Seen(e)'
  <2>1. CASE proc[p].row = 0
    <3>1. \E k \in DOMAIN records'[e] : records'[e][k].open
      BY <1>1, <1>3, <2>1, FailWriteDoes
    <3> QED BY <3>1 DEF Seen, OpenRows
  <2>2. CASE proc[p].row # 0
    <3>1. /\ proc[p].row \in DOMAIN records[e]
          /\ records[e][proc[p].row].open \/ Synced(e) # {}
      BY <1>1, <1>2, <1>3, <2>2 DEF Known
    <3>2. records'[e][proc[p].row].open \/ Synced(e)' # {}
      BY <1>3, <1>4, <3>1, SyncedStays DEF Grows
    <3>3. proc[p].row \in DOMAIN records'[e] BY <1>4, <3>1 DEF Grows
    <3> QED BY <3>2, <3>3 DEF Seen, OpenRows
  <2> QED BY <2>1, <2>2
<1>6. \A x \in Entry : Pushing(p, x) => Seen(x)' BY <1>3, <1>5, OnlyMine
<1>7. approved \subseteq Entry /\ Moved(p) BY <1>1, <1>2 DEF TypeOK, Done
<1>8. Known(proc[p])' BY <1>2, DoneKnows
<1> QED BY <1>2, <1>4, <1>6, <1>7, <1>8 DEF Good

LEMMA PushGood ==
    ASSUME PushAssumption, IInv, TypeOK', NEW p \in Process, PushStep(p)
    PROVE  Good(p)
<1>1. TypeOK BY DEF IInv
<1>2. CASE Prepare(p)
  <2>1. /\ proc[p].pc = "prepare"
        /\ To(p, "send") \/ To(p, "fail_read")
        /\ UNCHANGED <<approved, refs, records, faults>>
    BY <1>1, <1>2, PrepareDoes DEF store, budget
  <2>2. proc[p].pc \in OnApproval BY <2>1 DEF OnApproval
  <2>3. "send" \in OnItsWay \ {"save", "fail_write"}
        /\ "fail_read" \in OnItsWay \ {"save", "fail_write"} BY DEF OnItsWay
  <2>4. To(p, "send") => Good(p) BY <2>1, <2>2, <2>3, MiddleGood
  <2>5. To(p, "fail_read") => Good(p) BY <2>1, <2>2, <2>3, MiddleGood
  <2> QED BY <2>1, <2>4, <2>5
<1>3. CASE FailRead(p)
  <2>1. /\ proc[p].pc = "fail_read" /\ To(p, "fail_log")
        /\ UNCHANGED <<approved, refs, records, faults>>
    BY <1>1, <1>3, FailReadDoes DEF store, budget
  <2> QED BY <2>1, MiddleGood DEF OnApproval, OnItsWay
<1>4. CASE FailLog(p)
  <2>1. /\ proc[p].pc = "fail_log" /\ To(p, "fail_find")
        /\ UNCHANGED <<approved, refs, records, faults>>
    BY <1>1, <1>4, FailLogDoes DEF budget
  <2> QED BY <2>1, MiddleGood DEF OnApproval, OnItsWay
<1> QED BY <1>2, <1>3, <1>4, ReadGood, SendGood, SaveRefGood, ResolveGood, FailFindGood,
           FailWriteGood DEF PushStep

LEMMA SideKnows ==
    ASSUME TypeOK, NEW p \in Process, Known(proc[p]), UNCHANGED <<refs, records>>,
           \/ Done(p)
           \/ proc'[p].pc \notin OnApproval
           \/ proc[p].pc \in OnApproval
              /\ \E pc \in PushPc \ (Past \cup {"save", "fail_write"}) : To(p, pc)
    PROVE  Known(proc[p])'
<1>1. Grows BY GrowsSame
<1>2. CASE Done(p) BY <1>2, DoneKnows
<1>3. CASE proc'[p].pc \notin OnApproval BY <1>3 DEF Known, OnApproval, Past
<1>4. ASSUME NEW pc \in PushPc \ (Past \cup {"save", "fail_write"}), To(p, pc),
             proc[p].pc \in OnApproval
      PROVE  Known(proc[p])'
  BY <1>1, <1>4, KnownTo
<1> QED BY <1>2, <1>3, <1>4

LEMMA RetryGood ==
    ASSUME IInv, NEW p \in Process, RetryStep(p)
    PROVE  Good(p)
<1>1. TypeOK /\ Known(proc[p]) BY DEF IInv, AllKnown
<1>2. CASE RetryRead(p)
  <2>1. /\ proc[p].pc = "retry_read" /\ UNCHANGED <<approved, refs, records, faults>>
        /\ \/ Done(p)
           \/ /\ Starts(p, "retry_log", proc[p].by, proc[p].entry, Len(refs[proc[p].entry]))
              /\ Len(refs[proc[p].entry]) > 0
    BY <1>1, <1>2, RetryReadDoes DEF store, budget
  <2>2. PICK e \in Entry : proc[p].entry = e BY <1>1, <2>1, EntryPicked DEF PushPc
  <2>3. Known(proc[p])'
    <3>1. CASE Done(p) BY <3>1, DoneKnows
    <3>2. CASE Starts(p, "retry_log", proc[p].by, e, Len(refs[e])) /\ Len(refs[e]) > 0
      <4>1. refs[e] \in Seq(Nat) BY <1>1 DEF TypeOK
      <4>2. Len(refs[e]) \in DOMAIN refs[e] BY <3>2, <4>1, LastThere
      <4>3. proc'[p].pc = "retry_log" /\ proc'[p].entry = e /\ proc'[p].at = Len(refs[e])
        BY <3>2 DEF Starts
      <4> QED BY <2>1, <4>2, <4>3 DEF Known, Past
    <3> QED BY <2>1, <2>2, <3>1, <3>2
  <2>4. proc[p].pc \notin OnItsWay /\ Moved(p) BY <2>1 DEF OnItsWay, Done, Starts
  <2> QED BY <2>1, <2>3, <2>4, GrowsSame, SideGood
<1>3. CASE RetryLog(p)
  <2>1. /\ proc[p].pc = "retry_log" /\ UNCHANGED <<approved, refs, records, faults>>
        /\ To(p, "read") \/ Done(p) \/ To(p, "retry_bump")
    BY <1>1, <1>3, RetryLogDoes DEF store, budget
  <2>2. Known(proc[p])' BY <1>1, <2>1, SideKnows DEF OnApproval, PushPc, Past
  <2>3. proc[p].pc \notin OnItsWay /\ Moved(p) BY <2>1 DEF OnItsWay, Done, To
  <2> QED BY <2>1, <2>2, <2>3, GrowsSame, SideGood
<1>4. CASE RetryBump(p)
  <2>1. /\ proc[p].pc = "retry_bump" /\ UNCHANGED <<approved, refs, records, faults>>
        /\ To(p, "read")
    BY <1>1, <1>4, RetryBumpDoes DEF budget
  <2>2. Known(proc[p])' BY <1>1, <2>1, SideKnows DEF OnApproval, PushPc, Past
  <2>3. proc[p].pc \notin OnItsWay /\ Moved(p) BY <2>1 DEF OnItsWay, To
  <2> QED BY <2>1, <2>2, <2>3, GrowsSame, SideGood
<1>5. CASE CronNext(p)
  <2>1. /\ proc[p].pc = "cron_next" /\ UNCHANGED <<approved, refs, records, faults>>
        /\ Moved(p) /\ proc'[p].pc \in {"idle", "retry_read"}
    BY <1>1, <1>5, CronNextDoes DEF store, budget, Starts, None
  <2>2. Known(proc[p])' BY <2>1 DEF Known, OnApproval, Past
  <2>3. proc[p].pc \notin OnItsWay BY <2>1 DEF OnItsWay
  <2> QED BY <2>1, <2>2, <2>3, GrowsSame, SideGood
<1> QED BY <1>2, <1>3, <1>4, <1>5 DEF RetryStep

LEMMA AdminGood ==
    ASSUME PushAssumption, IInv, NEW p \in Process, AdminStep(p)
    PROVE  Good(p)
<1>1. TypeOK BY DEF IInv
<1>2. CASE ForceWrite(p)
  <2>1. /\ proc[p].pc = "force_write" /\ UNCHANGED <<approved, refs, faults>>
        /\ To(p, "retry_read") /\ Wrote(proc[p].entry)
    BY <1>1, <1>2, ForceWriteDoes DEF budget
  <2>2. proc[p].entry \in Entry BY <1>1, <2>1, EntryOf DEF PushPc
  <2>3. Known(proc[p])' /\ Moved(p) BY <2>1 DEF To, Known, OnApproval, Past
  <2> QED BY <2>1, <2>2, <2>3, GrowsRecords, SideGood DEF OnItsWay
<1>3. CASE BackfillCreate(p)
  <2>1. /\ proc[p].pc = "backfill_create" /\ UNCHANGED <<approved, refs, faults>>
        /\ Done(p) /\ Wrote(proc[p].entry)
    BY <1>1, <1>3, BackfillCreateDoes DEF budget
  <2>2. proc[p].entry \in Entry BY <1>1, <2>1, EntryOf DEF PushPc
  <2>3. Known(proc[p])' /\ Moved(p) BY <2>1, DoneKnows DEF Done
  <2> QED BY <2>1, <2>2, <2>3, GrowsRecords, SideGood DEF OnItsWay
<1> QED BY <1>2, <1>3 DEF AdminStep

LEMMA ApproveGood ==
    ASSUME IInv, NEW p \in Process, NEW e \in Entry, Approve(p, e)
    PROVE  Good(p)
<1>1. TypeOK BY DEF IInv
<1>2. /\ proc[p].pc = "idle" /\ records' = records /\ faults' = faults
      /\ approved' = approved \cup {e}
      /\ \A x \in Entry \ {e} : refs'[x] = refs[x]
      /\ refs'[e] = Append(refs[e], 0)
      /\ Starts(p, "read", "reviewer", e, Len(refs[e]) + 1)
  BY <1>1, ApproveDoes DEF budget
<1>3. refs[e] \in Seq(Nat) BY <1>1 DEF TypeOK
<1>4. /\ DOMAIN refs[e] = 1..Len(refs[e]) /\ Len(refs[e]) \in Nat
      /\ DOMAIN refs'[e] = 1..(Len(refs[e]) + 1)
      /\ \A i \in DOMAIN refs[e] : refs'[e][i] = refs[e][i]
  BY <1>2, <1>3, AddLast
<1>5. Grows BY <1>2, <1>4 DEF Grows
<1>6. /\ Moved(p) /\ proc'[p].pc = "read" /\ proc'[p].entry = e
      /\ proc'[p].at = Len(refs[e]) + 1
  BY <1>2 DEF Starts
<1>7. Known(proc[p])' BY <1>4, <1>6 DEF Known, Past
<1>8. Pushing(p, e)' BY <1>6 DEF Pushing, OnItsWay
<1>9. \A x : ~Pushing(p, x) BY <1>2 DEF Pushing, OnItsWay
<1> QED BY <1>2, <1>5, <1>6, <1>7, <1>8, <1>9 DEF Good

LEMMA StartGood ==
    ASSUME IInv, NEW p \in Process, Start(p)
    PROVE  Good(p)
<1>1. TypeOK BY DEF IInv
<1>2. ASSUME ~\E e \in Entry : Approve(p, e)
      PROVE  /\ proc[p].pc = "idle" /\ UNCHANGED <<approved, refs, records, faults>>
             /\ Moved(p) /\ proc'[p].pc \notin OnApproval
  <2>1. CASE CronStart(p)
    BY <1>1, <2>1, CronStartDoes DEF store, budget, Job, OnApproval
  <2>2. ASSUME NEW e \in Entry, RetryStart(p, e)
        PROVE  /\ proc[p].pc = "idle" /\ UNCHANGED <<approved, refs, records, faults>>
               /\ Moved(p) /\ proc'[p].pc \notin OnApproval
    BY <1>1, <2>2, RetryStartDoes DEF store, AdminActs, Starts, OnApproval
  <2>3. ASSUME NEW e \in Entry, ForceStart(p, e)
        PROVE  /\ proc[p].pc = "idle" /\ UNCHANGED <<approved, refs, records, faults>>
               /\ Moved(p) /\ proc'[p].pc \notin OnApproval
    BY <1>1, <2>3, ForceStartDoes DEF store, AdminActs, Starts, OnApproval
  <2>4. ASSUME NEW e \in Entry, BackfillStart(p, e)
        PROVE  /\ proc[p].pc = "idle" /\ UNCHANGED <<approved, refs, records, faults>>
               /\ Moved(p) /\ proc'[p].pc \notin OnApproval
    BY <1>1, <2>4, BackfillStartDoes DEF store, AdminActs, Starts, OnApproval
  <2> QED BY <1>2, <2>1, <2>2, <2>3, <2>4 DEF Start
<1>3. ASSUME ~\E e \in Entry : Approve(p, e) PROVE Good(p)
  <2>1. /\ proc[p].pc = "idle" /\ UNCHANGED <<approved, refs, records, faults>>
        /\ Moved(p) /\ proc'[p].pc \notin OnApproval
    BY <1>2, <1>3
  <2>2. Known(proc[p])' BY <2>1 DEF Known, OnApproval, Past
  <2> QED BY <2>1, <2>2, GrowsSame, SideGood DEF OnItsWay
<1> QED BY <1>3, ApproveGood

LEMMA FaultKeeps ==
    ASSUME IInv, TypeOK',
           \/ \E p \in Process : DatabaseError(p)
           \/ Restart
           \/ \E e \in Entry : Withdraw(e)
    PROVE  IInv'
<1>1. TypeOK /\ Fault BY DEF IInv, DatabaseError, Restart, Withdraw
<1>2. faults' # 0 BY <1>1 DEF Fault, TypeOK
<1>3. UNCHANGED <<refs, records>> BY DEF DatabaseError, Restart, Withdraw, store
<1>4. Grows BY <1>3, GrowsSame
<1>5. ASSUME NEW p \in Process, DatabaseError(p) PROVE AllKnown'
  <2>1. /\ Moved(p)
        /\ \/ proc[p].pc \in {"save", "log_success", "resolve"} /\ To(p, "fail_read")
           \/ proc'[p] = None
    BY <1>1, <1>5, DatabaseErrorDoes DEF To
  <2>2. Known(proc[p]) BY DEF IInv, AllKnown
  <2>3. CASE proc[p].pc \in {"save", "log_success", "resolve"} /\ To(p, "fail_read")
    <3>1. Known(proc[p])' BY <1>1, <1>4, <2>2, <2>3, KnownTo DEF OnApproval, PushPc, Past
    <3> QED BY <1>1, <1>4, <2>1, <3>1, KnownStays DEF AllKnown, Moved, IInv
  <2>4. CASE proc'[p] = None
    <3>1. Known(proc[p])' BY <2>4 DEF Known, None, OnApproval, Past
    <3> QED BY <1>1, <1>4, <2>1, <3>1, KnownStays DEF AllKnown, Moved, IInv
  <2> QED BY <2>1, <2>3, <2>4
<1>6. ASSUME Restart PROVE AllKnown'
  <2>1. \A p \in Process : proc'[p] = None BY <1>6 DEF Restart
  <2> QED BY <2>1 DEF AllKnown, Known, None, OnApproval, Past
<1>7. ASSUME NEW e \in Entry, Withdraw(e) PROVE AllKnown'
  BY <1>1, <1>4, <1>7, KnownStays DEF Withdraw, AllKnown, IInv
<1>8. AllSeen' BY <1>2 DEF AllSeen
<1> QED BY <1>5, <1>6, <1>7, <1>8 DEF IInv

LEMMA InvStep ==
    ASSUME PushAssumption, IInv, [Next]_vars
    PROVE  IInv'
<1>1. TypeOK' BY TypeStep DEF IInv
<1>2. CASE UNCHANGED vars
  <2>1. UNCHANGED <<approved, refs, records, proc, faults>>
    BY <1>2 DEF vars, store, budget
  <2>2. AllKnown' BY <2>1, GrowsSame, KnownStays DEF IInv, AllKnown
  <2>3. \A e : Seen(e) <=> Seen(e)' BY <2>1 DEF Seen, Synced, OpenRows, Pushing
  <2>4. AllSeen' BY <2>1, <2>3 DEF IInv, AllSeen
  <2> QED BY <1>1, <2>2, <2>4 DEF IInv
<1>3. CASE Next
  <2>1. \/ \E p \in Process : PushStep(p) \/ RetryStep(p) \/ AdminStep(p) \/ Start(p)
        \/ \E p \in Process : DatabaseError(p)
        \/ Restart
        \/ \E e \in Entry : Withdraw(e)
    BY <1>3 DEF Next, Start
  <2>2. ASSUME NEW p \in Process, PushStep(p) \/ RetryStep(p) \/ AdminStep(p) \/ Start(p)
        PROVE  IInv'
    <3>1. Good(p) BY <1>1, <2>2, PushGood, RetryGood, AdminGood, StartGood
    <3> QED BY <1>1, <3>1, GoodKeeps
  <2> QED BY <1>1, <2>1, <2>2, FaultKeeps
<1> QED BY <1>2, <1>3

LEMMA InvInit == ASSUME PushAssumption, Init PROVE IInv
<1>1. None \in Work \cup Job \cup {None} OBVIOUS
<1>2. TypeOK
  <2>1. approved \subseteq Entry /\ listed \in BOOLEAN BY DEF Init
  <2>2. /\ refs \in [Entry -> Seq(Nat)] /\ logs \in [Entry -> Seq(Log)]
        /\ records \in [Entry -> Seq(Record)]
    BY DEF Init
  <2>3. posts \in [Entry -> Nat] /\ tries \in [Entry -> Nat] BY DEF Init
  <2>4. proc \in [Process -> Work \cup Job \cup {None}] BY <1>1 DEF Init
  <2>5. admins \in 0..MaxAdmin /\ faults \in 0..MaxFaults BY DEF Init, PushAssumption
  <2> QED BY <2>1, <2>2, <2>3, <2>4, <2>5 DEF TypeOK
<1>3. AllKnown BY DEF Init, AllKnown, Known, None, OnApproval, Past
<1>4. AllSeen BY DEF Init, AllSeen
<1> QED BY <1>2, <1>3, <1>4 DEF IInv

LEMMA Inductive == Spec => []IInv
<1> USE PushAssumption
<1>1. Init => IInv BY InvInit
<1>2. IInv /\ [Next]_vars => IInv' BY InvStep
<1> QED BY <1>1, <1>2, PTL DEF Spec

(* Rows, logs, records and processes keep their types, for any number of     *)
(* entries and of requests and jobs in flight (TimesheetPushService).       *)
THEOREM TypeCorrect == Spec => []TypeOK
<1>1. IInv => TypeOK BY DEF IInv
<1> QED BY <1>1, Inductive, PTL

(* As long as nothing breaks, an approved entry that Keka has not taken has  *)
(* an open record when nothing is in flight, for any number of pushes of it, *)
(* retries and runs of the job (pushTimesheetEntry, logFailure).            *)
THEOREM NobodyForgets == Spec => []NothingForgotten
<1>1. IInv => NothingForgotten
  <2> SUFFICES ASSUME IInv, faults = 0, AtRest, NEW e \in approved
               PROVE  Synced(e) # {} \/ OpenRows(e) # {}
    BY DEF NothingForgotten
  <2>1. Seen(e) BY DEF IInv, AllSeen
  <2>2. \A p \in Process : ~Pushing(p, e) BY DEF AtRest, At, Pushing, OnItsWay
  <2> QED BY <2>1, <2>2 DEF Seen
<1> QED BY <1>1, Inductive, PTL

-----------------------------------------------------------------------------
(* One process at a time: its approval is current.                          *)

LEMMA CurrentTo ==
    ASSUME TypeOK, NEW p \in Process, Current(proc[p]), proc[p].pc \in OnApproval,
           NEW pc, To(p, pc), pc # "backfill_create", refs' = refs,
           pc \in Unsent \/ (pc \in Failing /\ faults' = 0)
              => refs[proc[p].entry][proc[p].at] = 0
    PROVE  Current(proc[p])'
<1>1. proc'[p].pc = pc /\ proc'[p].entry = proc[p].entry /\ proc'[p].at = proc[p].at BY DEF To
<1>2. proc[p].at = Len(refs[proc[p].entry]) BY DEF Current
<1> QED BY <1>1, <1>2 DEF Current

LEMMA CurrentOut ==
    ASSUME NEW p \in Process, proc'[p].pc \notin OnApproval,
           proc'[p].pc = "backfill_create" => listed'
    PROVE  Current(proc[p])'
BY DEF Current, OnApproval, Unsent, Failing

LEMMA CurrentDone == ASSUME NEW p \in Process, Done(p) PROVE Current(proc[p])'
<1>1. proc'[p].pc \in {"cron_next", "idle"} BY DEF Done, Job, None
<1> QED BY <1>1, CurrentOut DEF OnApproval

LEMMA CurrentStep ==
    ASSUME PushAssumption, IInv, NEW p, Process = {p}, Current(proc[p]), Next
    PROVE  Current(proc[p])'
<1> USE DEF OnApproval
<1>1. TypeOK /\ p \in Process BY DEF IInv
<1>2. CASE Read(p)
  <2>1. proc[p].pc = "read" /\ refs' = refs BY <1>1, <1>2, ReadDoes DEF store
  <2>2. \/ Done(p) \/ To(p, "resolve_again")
        \/ refs[proc[p].entry][proc[p].at] = 0 /\ (To(p, "fail_read") \/ To(p, "prepare"))
    BY <1>1, <1>2, ReadDoes
  <2> QED BY <1>1, <2>1, <2>2, CurrentDone, CurrentTo DEF Unsent, Failing
<1>3. CASE Prepare(p)
  <2>1. /\ proc[p].pc = "prepare" /\ refs' = refs
        /\ To(p, "send") \/ To(p, "fail_read")
    BY <1>1, <1>3, PrepareDoes DEF store
  <2>2. refs[proc[p].entry][proc[p].at] = 0 BY <2>1 DEF Current, Unsent
  <2> QED BY <1>1, <2>1, <2>2, CurrentTo
<1>4. CASE Send(p)
  <2>1. /\ proc[p].pc = "send" /\ refs' = refs
        /\ To(p, "save") \/ To(p, "fail_read")
    BY <1>1, <1>4, SendDoes DEF store
  <2>2. refs[proc[p].entry][proc[p].at] = 0 BY <2>1 DEF Current, Unsent
  <2> QED BY <1>1, <2>1, <2>2, CurrentTo
<1>5. CASE SaveRef(p)
  <2>1. proc[p].pc = "save" /\ To(p, "log_success") BY <1>1, <1>5, SaveRefDoes
  <2>2. PICK e \in Entry : proc[p].entry = e BY <1>1, <2>1, EntryPicked DEF PushPc
  <2>3. refs'[e] = [refs[e] EXCEPT ![proc[p].at] = proc[p].n] BY <1>1, <1>5, <2>2, SaveRefDoes
  <2>4. refs[e] \in Seq(Nat) /\ proc[p].at \in Nat /\ proc[p].n \in Nat
    BY <1>1, <2>1, Workers DEF TypeOK, Work, PushPc
  <2>5. Len(refs'[e]) = Len(refs[e]) BY <2>3, <2>4, SetAt
  <2>6. proc[p].at = Len(refs[e]) BY <2>1, <2>2 DEF Current
  <2>7. proc'[p].pc = "log_success" /\ proc'[p].entry = e /\ proc'[p].at = proc[p].at
    BY <2>1, <2>2 DEF To
  <2> QED BY <2>5, <2>6, <2>7 DEF Current, Unsent, Failing
<1>6. CASE LogSuccess(p)
  <2>1. proc[p].pc = "log_success" /\ To(p, "resolve") /\ refs' = refs
    BY <1>1, <1>6, LogSuccessDoes DEF store
  <2> QED BY <1>1, <2>1, CurrentTo DEF Unsent, Failing
<1>7. CASE Resolve(p)
  <2>1. /\ proc[p].pc \in {"resolve", "resolve_again"} /\ refs' = refs
        /\ Done(p) \/ To(p, "resolve_again")
    BY <1>1, <1>7, ResolveDoes
  <2> QED BY <1>1, <2>1, CurrentDone, CurrentTo DEF Unsent, Failing
<1>8. CASE FailRead(p) \/ FailLog(p) \/ FailFind(p)
  <2>1. /\ proc[p].pc \in Failing /\ refs' = refs /\ faults' = faults
        /\ \E pc \in Failing : To(p, pc)
    BY <1>1, <1>8, FailReadDoes, FailLogDoes, FailFindDoes DEF store, budget, Failing
  <2>2. faults = 0 => refs[proc[p].entry][proc[p].at] = 0 BY <2>1 DEF Current
  <2>3. proc[p].pc \in OnApproval BY <2>1 DEF Failing
  <2>4. ASSUME NEW pc \in Failing, To(p, pc) PROVE Current(proc[p])'
    <3>1. pc # "backfill_create" /\ pc \notin Unsent BY DEF Failing, Unsent
    <3> QED BY <1>1, <2>1, <2>2, <2>3, <2>4, <3>1, CurrentTo
  <2> QED BY <2>1, <2>4
<1>9. CASE FailWrite(p) BY <1>1, <1>9, FailWriteDoes, CurrentDone
<1>10. CASE RetryRead(p)
  <2>1. /\ proc[p].pc = "retry_read" /\ refs' = refs
        /\ \/ Done(p)
           \/ Starts(p, "retry_log", proc[p].by, proc[p].entry, Len(refs[proc[p].entry]))
    BY <1>1, <1>10, RetryReadDoes DEF store
  <2>2. CASE Starts(p, "retry_log", proc[p].by, proc[p].entry, Len(refs[proc[p].entry]))
    BY <2>1, <2>2 DEF Starts, Current, Unsent, Failing
  <2> QED BY <1>1, <2>1, <2>2, CurrentDone
<1>11. CASE RetryLog(p)
  <2>1. /\ proc[p].pc = "retry_log" /\ refs' = refs
        /\ To(p, "read") \/ Done(p) \/ To(p, "retry_bump")
    BY <1>1, <1>11, RetryLogDoes DEF store
  <2> QED BY <1>1, <2>1, CurrentDone, CurrentTo DEF Unsent, Failing
<1>12. CASE RetryBump(p)
  <2>1. proc[p].pc = "retry_bump" /\ refs' = refs /\ To(p, "read")
    BY <1>1, <1>12, RetryBumpDoes
  <2> QED BY <1>1, <2>1, CurrentTo DEF Unsent, Failing
<1>13. CASE CronNext(p)
  <2>1. proc'[p].pc \in {"idle", "retry_read"} BY <1>1, <1>13, CronNextDoes DEF Starts, None
  <2> QED BY <1>1, <2>1, CurrentOut
<1>14. CASE AdminStep(p)
  <2>1. Done(p) \/ To(p, "retry_read")
    BY <1>1, <1>14, ForceWriteDoes, BackfillCreateDoes DEF AdminStep
  <2>2. To(p, "retry_read") => proc'[p].pc = "retry_read" BY DEF To
  <2> QED BY <1>1, <2>1, <2>2, CurrentDone, CurrentOut
<1>15. CASE CronStart(p)
  <2>1. proc'[p].pc = "cron_next" BY <1>1, <1>15, CronStartDoes DEF Job
  <2> QED BY <1>1, <2>1, CurrentOut
<1>16. ASSUME NEW e \in Entry, Approve(p, e) PROVE Current(proc[p])'
  <2>1. /\ proc'[p].pc = "read" /\ proc'[p].entry = e /\ proc'[p].at = Len(refs[e]) + 1
        /\ refs'[e] = Append(refs[e], 0)
    BY <1>1, <1>16, ApproveDoes DEF Starts
  <2>2. Len(refs'[e]) = Len(refs[e]) + 1 BY <1>1, <2>1, AddLast DEF TypeOK
  <2> QED BY <2>1, <2>2 DEF Current, Unsent, Failing
<1>17. ASSUME NEW e \in Entry, RetryStart(p, e) \/ ForceStart(p, e) \/ BackfillStart(p, e)
       PROVE  Current(proc[p])'
  <2>1. \/ proc'[p].pc \in {"retry_read", "force_write"}
        \/ proc'[p].pc = "backfill_create" /\ listed'
    BY <1>1, <1>17, RetryStartDoes, ForceStartDoes, BackfillStartDoes DEF Starts
  <2> QED BY <1>1, <2>1, CurrentOut
<1>18. CASE DatabaseError(p)
  <2>1. Fault /\ refs' = refs BY <1>18 DEF DatabaseError, store
  <2>2. faults' # 0 BY <1>1, <2>1 DEF Fault, TypeOK
  <2>3. \/ proc[p].pc \in {"save", "log_success", "resolve"} /\ To(p, "fail_read")
        \/ proc'[p] = None
    BY <1>1, <1>18, DatabaseErrorDoes
  <2>4. proc'[p] = None => Current(proc[p])' BY <1>1, CurrentOut DEF None
  <2> QED BY <1>1, <2>1, <2>2, <2>3, <2>4, CurrentTo DEF Unsent
<1>19. CASE Restart
  <2>1. proc'[p] = None BY <1>1, <1>19 DEF Restart
  <2> QED BY <1>1, <2>1, CurrentOut DEF None
<1>20. ASSUME NEW e \in Entry, Withdraw(e) PROVE Current(proc[p])'
  <2>1. Fault /\ refs' = refs /\ proc' = proc /\ listed' = listed BY <1>20 DEF Withdraw, history
  <2>2. faults' # 0 BY <1>1, <2>1 DEF Fault, TypeOK
  <2> QED BY <2>1, <2>2 DEF Current
<1> QED BY <1>2, <1>3, <1>4, <1>5, <1>6, <1>7, <1>8, <1>9, <1>10, <1>11, <1>12, <1>13, <1>14,
           <1>15, <1>16, <1>17, <1>18, <1>19, <1>20 DEF Next, PushStep, RetryStep

-----------------------------------------------------------------------------
(* One process at a time: what Keka holds is explained.                     *)

LEMMA OneHolds ==
    ASSUME NEW p, Process = {p}, NEW e
    PROVE  /\ Held(e) = IF proc[p].pc = "save" /\ proc[p].entry = e THEN 1 ELSE 0
           /\ Held(e)' = IF proc'[p].pc = "save" /\ proc'[p].entry = e THEN 1 ELSE 0
<1>1. Saving(e) = {} <=> ~(proc[p].pc = "save" /\ proc[p].entry = e) BY DEF Saving, At
<1>2. Saving(e)' = {} <=> ~(proc'[p].pc = "save" /\ proc'[p].entry = e) BY DEF Saving, At
<1> QED BY <1>1, <1>2 DEF Held

LEMMA SyncedSize ==
    ASSUME TypeOK, NEW e \in Entry
    PROVE  IsFiniteSet(Synced(e)) /\ Cardinality(Synced(e)) \in Nat
<1>1. refs[e] \in Seq(Nat) BY DEF TypeOK
<1>2. DOMAIN refs[e] = 1..Len(refs[e]) /\ Len(refs[e]) \in Nat BY <1>1, LastThere
<1>3. IsFiniteSet(1..Len(refs[e])) BY <1>2, FS_Interval
<1>4. IsFiniteSet(Synced(e)) BY <1>2, <1>3, FS_Subset DEF Synced
<1> QED BY <1>4, FS_CardinalityType

(* A step that neither posts nor saves; an end of a save is a fault.         *)
LEMMA ExplainedStays ==
    ASSUME TypeOK, TypeOK', NEW p, Process = {p}, Explained, refs' = refs, posts' = posts,
           proc'[p].pc # "save", faults' >= faults,
           proc[p].pc = "save" => faults' = faults + 1
    PROVE  Explained'
<1> SUFFICES ASSUME NEW e \in Entry
             PROVE  posts'[e] <= Cardinality(Synced(e)') + Held(e)' + faults'
  BY DEF Explained
<1>1. Synced(e)' = Synced(e) BY DEF Synced
<1>2. Cardinality(Synced(e)) \in Nat /\ posts[e] \in Nat /\ faults \in Nat /\ faults' \in Nat
  BY SyncedSize DEF TypeOK
<1>3. posts[e] <= Cardinality(Synced(e)) + Held(e) + faults BY DEF Explained
<1>4. Held(e)' = 0 BY OneHolds
<1>5. Held(e) \in {0, 1} /\ (Held(e) = 1 => faults' = faults + 1) BY OneHolds
<1> QED BY <1>1, <1>2, <1>3, <1>4, <1>5

LEMMA SendExplained ==
    ASSUME TypeOK, TypeOK', NEW p, Process = {p}, Explained, Send(p)
    PROVE  Explained'
<1> SUFFICES ASSUME NEW e \in Entry
             PROVE  posts'[e] <= Cardinality(Synced(e)') + Held(e)' + faults'
  BY DEF Explained
<1>1. proc[p].pc = "send" /\ refs' = refs /\ p \in Process BY SendDoes DEF store
<1>2. Synced(e)' = Synced(e) BY <1>1 DEF Synced
<1>3. Cardinality(Synced(e)) \in Nat /\ posts[e] \in Nat /\ faults \in Nat /\ faults' \in Nat
  BY SyncedSize DEF TypeOK
<1>4. posts[e] <= Cardinality(Synced(e)) + Held(e) + faults BY DEF Explained
<1>5. Held(e) = 0 BY <1>1, OneHolds
<1>6. Held(e)' \in {0, 1} BY OneHolds
<1>7. \/ posts' = [posts EXCEPT ![proc[p].entry] = posts[proc[p].entry] + 1]
         /\ To(p, "save") /\ faults' = faults
      \/ posts' = [posts EXCEPT ![proc[p].entry] = posts[proc[p].entry] + 1]
         /\ faults' = faults + 1
      \/ posts' = posts /\ faults' = faults
  BY <1>1, SendDoes DEF Fault, budget
<1>8. posts'[e] \in {posts[e], posts[e] + 1} /\ (e # proc[p].entry => posts'[e] = posts[e])
  BY <1>7 DEF TypeOK
<1>9. e = proc[p].entry /\ To(p, "save") => Held(e)' = 1 BY OneHolds DEF To
<1>10. \/ posts'[e] = posts[e] /\ faults' >= faults
       \/ posts'[e] = posts[e] + 1 /\ Held(e)' = 1 /\ faults' = faults
       \/ posts'[e] = posts[e] + 1 /\ faults' = faults + 1
  BY <1>3, <1>7, <1>8, <1>9
<1> QED BY <1>2, <1>3, <1>4, <1>5, <1>6, <1>10

LEMMA SaveExplained ==
    ASSUME IInv, TypeOK', NEW p, Process = {p}, Current(proc[p]), Explained, SaveRef(p)
    PROVE  Explained'
<1> SUFFICES ASSUME NEW e \in Entry
             PROVE  posts'[e] <= Cardinality(Synced(e)') + Held(e)' + faults'
  BY DEF Explained
<1>1. TypeOK /\ p \in Process /\ Known(proc[p]) BY DEF IInv, AllKnown
<1>2. /\ proc[p].pc = "save" /\ To(p, "log_success") /\ posts' = posts /\ faults' = faults
  BY <1>1, SaveRefDoes DEF budget
<1>3. Cardinality(Synced(e)) \in Nat /\ posts[e] \in Nat /\ faults \in Nat
  BY <1>1, SyncedSize DEF TypeOK
<1>4. posts[e] <= Cardinality(Synced(e)) + Held(e) + faults BY DEF Explained
<1>5. Held(e)' = 0 BY <1>2, OneHolds DEF To
<1>6. CASE e # proc[p].entry
  <2>1. refs'[e] = refs[e] BY <1>1, <1>6, SaveRefDoes
  <2>2. Synced(e)' = Synced(e) BY <2>1 DEF Synced
  <2>3. Held(e) = 0 BY <1>6, OneHolds
  <2> QED BY <1>2, <1>3, <1>4, <1>5, <2>2, <2>3
<1>7. CASE e = proc[p].entry
  <2> DEFINE at == proc[p].at
  <2>1. refs'[e] = [refs[e] EXCEPT ![at] = proc[p].n] BY <1>1, <1>7, SaveRefDoes
  <2>2. at \in DOMAIN refs[e] /\ proc[p].n # 0 /\ refs[e][at] = 0
    BY <1>1, <1>2, <1>7 DEF Known, OnApproval, Current, Unsent
  <2> HIDE DEF at
  <2>3. Synced(e)' = {i \in DOMAIN refs'[e] : refs'[e][i] # 0} BY DEF Synced
  <2>4. Synced(e)' = Synced(e) \cup {at} BY <2>1, <2>2, <2>3 DEF Synced
  <2>5. at \notin Synced(e) BY <2>2 DEF Synced
  <2>6. IsFiniteSet(Synced(e)) BY <1>1, SyncedSize
  <2>7. Cardinality(Synced(e) \cup {at}) = Cardinality(Synced(e)) + 1
    BY <2>5, <2>6, FS_AddElement
  <2>8. Held(e) = 1 BY <1>2, <1>7, OneHolds
  <2> QED BY <1>2, <1>3, <1>4, <1>5, <2>4, <2>7, <2>8
<1> QED BY <1>6, <1>7

LEMMA ApproveExplained ==
    ASSUME TypeOK, TypeOK', NEW p, Process = {p}, Explained, NEW a \in Entry, Approve(p, a)
    PROVE  Explained'
<1> SUFFICES ASSUME NEW e \in Entry
             PROVE  posts'[e] <= Cardinality(Synced(e)') + Held(e)' + faults'
  BY DEF Explained
<1>1. /\ proc[p].pc = "idle" /\ proc'[p].pc = "read" /\ posts' = posts /\ faults' = faults
      /\ \A x \in Entry \ {a} : refs'[x] = refs[x]
      /\ refs'[a] = Append(refs[a], 0)
  BY ApproveDoes DEF budget, Starts
<1>2. Synced(e)' = Synced(e)
  <2>1. CASE e # a BY <1>1, <2>1 DEF Synced
  <2>2. CASE e = a
    <3>1. refs[a] \in Seq(Nat) BY DEF TypeOK
    <3>2. /\ DOMAIN refs[a] = 1..Len(refs[a]) /\ Len(refs[a]) \in Nat
          /\ DOMAIN refs'[a] = 1..(Len(refs[a]) + 1)
          /\ refs'[a][Len(refs[a]) + 1] = 0
          /\ \A i \in DOMAIN refs[a] : refs'[a][i] = refs[a][i]
      BY <1>1, <3>1, AddLast
    <3> QED BY <2>2, <3>2 DEF Synced
  <2> QED BY <2>1, <2>2
<1>3. Held(e) = 0 /\ Held(e)' = 0 BY <1>1, OneHolds
<1>4. posts[e] <= Cardinality(Synced(e)) + Held(e) + faults BY DEF Explained
<1> QED BY <1>1, <1>2, <1>3, <1>4

LEMMA StepExplained ==
    ASSUME PushAssumption, IInv, TypeOK', NEW p, Process = {p}, Current(proc[p]), Explained,
           Next
    PROVE  Explained'
<1>1. TypeOK /\ p \in Process /\ faults \in Nat BY DEF IInv, TypeOK
<1>2. ASSUME ~Send(p), ~SaveRef(p), ~\E e \in Entry : Approve(p, e),
             ~\E e \in Entry : Withdraw(e)
      PROVE  /\ refs' = refs /\ posts' = posts /\ proc'[p].pc # "save"
             /\ faults' >= faults /\ (proc[p].pc = "save" => faults' = faults + 1)
  <2> DEFINE Plain == /\ refs' = refs /\ posts' = posts /\ proc'[p].pc # "save"
                      /\ faults' >= faults /\ (proc[p].pc = "save" => faults' = faults + 1)
  <2> USE DEF store, budget, To, Done, Job, None, Starts
  <2>1. CASE Read(p) BY <1>1, <2>1, ReadDoes
  <2>2. CASE Prepare(p) BY <1>1, <2>2, PrepareDoes
  <2>3. CASE LogSuccess(p) BY <1>1, <2>3, LogSuccessDoes
  <2>4. CASE Resolve(p) BY <1>1, <2>4, ResolveDoes
  <2>5. CASE FailRead(p) BY <1>1, <2>5, FailReadDoes
  <2>6. CASE FailLog(p) BY <1>1, <2>6, FailLogDoes
  <2>7. CASE FailFind(p) BY <1>1, <2>7, FailFindDoes
  <2>8. CASE FailWrite(p) BY <1>1, <2>8, FailWriteDoes
  <2>9. CASE RetryRead(p) BY <1>1, <2>9, RetryReadDoes
  <2>10. CASE RetryLog(p) BY <1>1, <2>10, RetryLogDoes
  <2>11. CASE RetryBump(p) BY <1>1, <2>11, RetryBumpDoes
  <2>12. CASE CronNext(p) BY <1>1, <2>12, CronNextDoes
  <2>13. CASE AdminStep(p) BY <1>1, <2>13, ForceWriteDoes, BackfillCreateDoes DEF AdminStep
  <2>14. CASE CronStart(p) BY <1>1, <2>14, CronStartDoes
  <2>15. ASSUME NEW e \in Entry, RetryStart(p, e) PROVE Plain
    BY <1>1, <2>15, RetryStartDoes DEF AdminActs
  <2>16. ASSUME NEW e \in Entry, ForceStart(p, e) PROVE Plain
    BY <1>1, <2>16, ForceStartDoes DEF AdminActs
  <2>17. ASSUME NEW e \in Entry, BackfillStart(p, e) PROVE Plain
    BY <1>1, <2>17, BackfillStartDoes DEF AdminActs
  <2>18. CASE DatabaseError(p) BY <1>1, <2>18, DatabaseErrorDoes DEF Fault
  <2>19. CASE Restart BY <1>1, <2>19 DEF Restart, Fault
  <2> QED BY <1>1, <1>2, <2>1, <2>2, <2>3, <2>4, <2>5, <2>6, <2>7, <2>8, <2>9, <2>10, <2>11,
             <2>12, <2>13, <2>14, <2>15, <2>16, <2>17, <2>18, <2>19
      DEF Next, PushStep, RetryStep
<1>3. ASSUME NEW e \in Entry, Withdraw(e) PROVE Explained'
  <2> SUFFICES ASSUME NEW x \in Entry
               PROVE  posts'[x] <= Cardinality(Synced(x)') + Held(x)' + faults'
    BY DEF Explained
  <2>1. refs' = refs /\ proc' = proc /\ posts' = posts /\ faults' = faults + 1
    BY <1>3 DEF Withdraw, Fault
  <2>2. Synced(x)' = Synced(x) /\ Held(x)' = Held(x) BY <1>1, <2>1, OneHolds DEF Synced
  <2>3. posts[x] <= Cardinality(Synced(x)) + Held(x) + faults BY DEF Explained
  <2>4. Cardinality(Synced(x)) \in Nat /\ posts[x] \in Nat /\ Held(x) \in {0, 1}
    BY <1>1, SyncedSize, OneHolds DEF TypeOK
  <2> QED BY <1>1, <2>1, <2>2, <2>3, <2>4
<1>4. ASSUME ~Send(p), ~SaveRef(p), ~\E e \in Entry : Approve(p, e),
             ~\E e \in Entry : Withdraw(e)
      PROVE  Explained'
  BY <1>1, <1>2, <1>4, ExplainedStays
<1> QED BY <1>1, <1>3, <1>4, SendExplained, SaveExplained, ApproveExplained

-----------------------------------------------------------------------------
(* One process at a time: what it read of the logs is still so.             *)

LogsGrow == \A e \in Entry : logs[e] # <<>> => logs'[e] # <<>>
WritesUp == {"fail_find", "fail_write", "backfill_create", "retry_bump"}

LEMMA LoggedTo ==
    ASSUME TypeOK, NEW p \in Process, proc[p].pc \in PushPc, Logged(proc[p]), LogsGrow,
           NEW pc, To(p, pc), pc \notin WritesUp \cup {"fail_log"}
    PROVE  Logged(proc[p])'
<1>1. proc[p].entry \in Entry /\ \A b \in proc[p].batch : b[1] \in Entry BY EntryOf
<1>2. /\ proc'[p].pc = pc /\ proc'[p].entry = proc[p].entry /\ proc'[p].by = proc[p].by
      /\ proc'[p].batch = proc[p].batch
  BY DEF To
<1>3. proc[p].by = "cron" => logs'[proc[p].entry] # <<>> BY <1>1 DEF Logged, LogsGrow
<1>4. \A b \in proc[p].batch : logs'[b[1]] # <<>> BY <1>1 DEF Logged, LogsGrow
<1> QED BY <1>2, <1>3, <1>4 DEF Logged, WritesUp

LEMMA LoggedDone ==
    ASSUME TypeOK, NEW p \in Process, proc[p].pc \in PushPc, Logged(proc[p]), LogsGrow,
           Done(p)
    PROVE  Logged(proc[p])'
<1>1. \A b \in proc[p].batch : b[1] \in Entry BY EntryOf
<1>2. \A b \in proc[p].batch : logs'[b[1]] # <<>> BY <1>1 DEF Logged, LogsGrow
<1>3. /\ proc'[p].pc \in {"cron_next", "idle"}
      /\ proc'[p].pc = "cron_next" => proc'[p].batch = proc[p].batch
  BY DEF Done, Job, None
<1> QED BY <1>2, <1>3 DEF Logged, PushPc

LEMMA LoggedStart ==
    ASSUME NEW p \in Process, NEW pc, NEW by, NEW e, NEW at, Starts(p, pc, by, e, at),
           by # "cron", proc'[p].batch = {}, pc \notin {"fail_log", "retry_bump"},
           pc \in WritesUp => logs'[e] # <<>>
    PROVE  Logged(proc[p])'
BY DEF Starts, Logged, WritesUp

LEMMA LoggedNone == ASSUME NEW p \in Process, proc'[p] = None PROVE Logged(proc[p])'
BY DEF Logged, None, PushPc

LEMMA LogsSame == ASSUME logs' = logs PROVE LogsGrow
BY DEF LogsGrow

LEMMA PushLogged ==
    ASSUME PushAssumption, TypeOK, NEW p \in Process, Logged(proc[p]), PushStep(p)
    PROVE  Logged(proc[p])'
<1> USE DEF WritesUp, PushPc
<1>1. CASE Read(p)
  <2>1. /\ proc[p].pc = "read" /\ logs' = logs
        /\ Done(p) \/ To(p, "resolve_again") \/ To(p, "fail_read") \/ To(p, "prepare")
    BY <1>1, ReadDoes DEF store
  <2> QED BY <2>1, LogsSame, LoggedDone, LoggedTo
<1>2. CASE Prepare(p)
  <2>1. /\ proc[p].pc = "prepare" /\ logs' = logs
        /\ To(p, "send") \/ To(p, "fail_read")
    BY <1>2, PrepareDoes DEF store
  <2> QED BY <2>1, LogsSame, LoggedTo
<1>3. CASE Send(p)
  <2>1. /\ proc[p].pc = "send" /\ logs' = logs
        /\ To(p, "save") \/ To(p, "fail_read")
    BY <1>3, SendDoes DEF store
  <2> QED BY <2>1, LogsSame, LoggedTo
<1>4. CASE SaveRef(p)
  <2>1. proc[p].pc = "save" /\ logs' = logs /\ To(p, "log_success") BY <1>4, SaveRefDoes
  <2> QED BY <2>1, LogsSame, LoggedTo
<1>5. CASE LogSuccess(p)
  <2>1. proc[p].pc = "log_success" /\ logs' = logs /\ To(p, "resolve")
    BY <1>5, LogSuccessDoes DEF store
  <2> QED BY <2>1, LogsSame, LoggedTo
<1>6. CASE Resolve(p)
  <2>1. /\ proc[p].pc \in {"resolve", "resolve_again"} /\ logs' = logs
        /\ Done(p) \/ To(p, "resolve_again")
    BY <1>6, ResolveDoes
  <2> QED BY <2>1, LogsSame, LoggedDone, LoggedTo
<1>7. CASE FailRead(p)
  <2>1. /\ proc[p].pc = "fail_read" /\ logs' = logs /\ To(p, "fail_log")
        /\ proc'[p].n = LatestCount(proc[p].entry) + 1
    BY <1>7, FailReadDoes DEF store
  <2>2. /\ proc'[p].pc = "fail_log" /\ proc'[p].entry = proc[p].entry
        /\ proc'[p].by = proc[p].by /\ proc'[p].batch = proc[p].batch
    BY <2>1 DEF To
  <2>3. proc'[p].n = LatestCount(proc[p].entry)' + 1 BY <2>1, <2>2 DEF LatestCount
  <2> QED BY <2>1, <2>2, <2>3 DEF Logged
<1>8. CASE FailLog(p)
  <2>1. /\ proc[p].pc = "fail_log" /\ To(p, "fail_find")
        /\ \A e \in Entry \ {proc[p].entry} : logs'[e] = logs[e]
        /\ \A e \in Entry : e = proc[p].entry => logs'[e] # <<>>
    BY <1>8, FailLogDoes
  <2>2. LogsGrow BY <2>1 DEF LogsGrow
  <2>3. proc[p].entry \in Entry /\ \A b \in proc[p].batch : b[1] \in Entry BY <2>1, EntryOf
  <2>4. \A b \in proc[p].batch : logs'[b[1]] # <<>> BY <2>1, <2>2, <2>3 DEF Logged, LogsGrow
  <2>5. /\ proc'[p].pc = "fail_find" /\ proc'[p].entry = proc[p].entry
        /\ proc'[p].batch = proc[p].batch
    BY <2>1 DEF To
  <2> QED BY <2>1, <2>3, <2>4, <2>5 DEF Logged
<1>9. CASE FailFind(p)
  <2>1. proc[p].pc = "fail_find" /\ logs' = logs /\ To(p, "fail_write")
    BY <1>9, FailFindDoes DEF store
  <2>2. /\ proc'[p].pc = "fail_write" /\ proc'[p].entry = proc[p].entry
        /\ proc'[p].by = proc[p].by /\ proc'[p].batch = proc[p].batch
    BY <2>1 DEF To
  <2> QED BY <2>1, <2>2 DEF Logged
<1>10. CASE FailWrite(p)
  <2>1. proc[p].pc = "fail_write" /\ logs' = logs /\ Done(p) BY <1>10, FailWriteDoes
  <2> QED BY <2>1, LogsSame, LoggedDone
<1> QED BY <1>1, <1>2, <1>3, <1>4, <1>5, <1>6, <1>7, <1>8, <1>9, <1>10 DEF PushStep

LEMMA RetryLogged ==
    ASSUME PushAssumption, TypeOK, NEW p \in Process, Logged(proc[p]),
           RetryStep(p) \/ AdminStep(p)
    PROVE  Logged(proc[p])'
<1> USE DEF WritesUp, PushPc
<1>1. CASE RetryRead(p)
  <2>1. /\ proc[p].pc = "retry_read" /\ logs' = logs
        /\ \/ Done(p)
           \/ /\ Starts(p, "retry_log", proc[p].by, proc[p].entry, Len(refs[proc[p].entry]))
              /\ proc'[p].batch = proc[p].batch
    BY <1>1, RetryReadDoes DEF store
  <2>2. CASE Starts(p, "retry_log", proc[p].by, proc[p].entry, Len(refs[proc[p].entry]))
             /\ proc'[p].batch = proc[p].batch
    <3>1. proc'[p].pc = "retry_log" /\ proc'[p].entry = proc[p].entry
          /\ proc'[p].by = proc[p].by /\ proc'[p].batch = proc[p].batch
      BY <2>2 DEF Starts
    <3> QED BY <2>1, <3>1 DEF Logged
  <2> QED BY <2>1, <2>2, LogsSame, LoggedDone
<1>2. CASE RetryLog(p)
  <2>1. /\ proc[p].pc = "retry_log" /\ logs' = logs
        /\ \/ To(p, "read") \/ Done(p)
           \/ /\ To(p, "retry_bump") /\ logs[proc[p].entry] # <<>>
              /\ proc'[p].row = Len(logs[proc[p].entry])
              /\ proc'[p].n = LatestCount(proc[p].entry)
              /\ ~(proc[p].by = "cron" /\ LatestCount(proc[p].entry) >= MaxRetries)
    BY <1>2, RetryLogDoes DEF store
  <2>2. ASSUME /\ To(p, "retry_bump") /\ logs[proc[p].entry] # <<>>
               /\ proc'[p].row = Len(logs[proc[p].entry])
               /\ proc'[p].n = LatestCount(proc[p].entry)
               /\ ~(proc[p].by = "cron" /\ LatestCount(proc[p].entry) >= MaxRetries)
        PROVE  Logged(proc[p])'
    <3>1. /\ proc'[p].pc = "retry_bump" /\ proc'[p].entry = proc[p].entry
          /\ proc'[p].by = proc[p].by /\ proc'[p].batch = proc[p].batch
      BY <2>2 DEF To
    <3>2. LatestCount(proc[p].entry)' = LatestCount(proc[p].entry)
      BY <2>1, <3>1 DEF LatestCount
    <3>3. LatestCount(proc[p].entry) \in Nat BY <2>1, EntryOf, LatestType
    <3>4. proc'[p].by = "cron" => proc'[p].n < MaxRetries
      BY <2>2, <3>1, <3>3 DEF PushAssumption
    <3> QED BY <2>1, <2>2, <3>1, <3>2, <3>4 DEF Logged
  <2> QED BY <2>1, <2>2, LogsSame, LoggedDone, LoggedTo
<1>3. CASE RetryBump(p)
  <2>1. /\ proc[p].pc = "retry_bump" /\ To(p, "read")
        /\ \A e \in Entry \ {proc[p].entry} : logs'[e] = logs[e]
        /\ logs'[proc[p].entry] = <<>> <=> logs[proc[p].entry] = <<>>
    BY <1>3, RetryBumpDoes
  <2>2. LogsGrow BY <2>1 DEF LogsGrow
  <2> QED BY <2>1, <2>2, LoggedTo
<1>4. CASE CronNext(p)
  <2>1. /\ proc[p].pc = "cron_next" /\ logs' = logs
        /\ \/ proc'[p] = None
           \/ \E b \in proc[p].batch : /\ Starts(p, "retry_read", "cron", b[1], 0)
                                       /\ proc'[p].batch \subseteq proc[p].batch
    BY <1>4, CronNextDoes DEF store
  <2>2. ASSUME NEW b \in proc[p].batch, Starts(p, "retry_read", "cron", b[1], 0),
               proc'[p].batch \subseteq proc[p].batch
        PROVE  Logged(proc[p])'
    <3>1. proc'[p].pc = "retry_read" /\ proc'[p].entry = b[1] BY <2>2 DEF Starts
    <3>2. \A x \in proc[p].batch : logs'[x[1]] # <<>> BY <2>1 DEF Logged
    <3> QED BY <2>2, <3>1, <3>2 DEF Logged
  <2> QED BY <2>1, <2>2, LoggedNone
<1>5. CASE ForceWrite(p)
  <2>1. proc[p].pc = "force_write" /\ logs' = logs /\ To(p, "retry_read")
    BY <1>5, ForceWriteDoes
  <2> QED BY <2>1, LogsSame, LoggedTo
<1>6. CASE BackfillCreate(p)
  <2>1. proc[p].pc = "backfill_create" /\ logs' = logs /\ Done(p) BY <1>6, BackfillCreateDoes
  <2> QED BY <2>1, LogsSame, LoggedDone
<1> QED BY <1>1, <1>2, <1>3, <1>4, <1>5, <1>6 DEF RetryStep, AdminStep

LEMMA StepLogged ==
    ASSUME PushAssumption, TypeOK, NEW p, Process = {p}, Logged(proc[p]), AllLogged, Next
    PROVE  Logged(proc[p])'
<1>1. p \in Process OBVIOUS
<1>2. CASE CronStart(p)
  <2>1. /\ proc'[p] \in Job /\ logs' = logs
        /\ \A b \in proc'[p].batch : b[1] \in Entry /\ records[b[1]] # <<>>
    BY <1>1, <1>2, CronStartDoes DEF store
  <2>2. \A b \in proc'[p].batch : logs'[b[1]] # <<>> BY <2>1 DEF AllLogged
  <2>3. proc'[p].pc = "cron_next" BY <2>1 DEF Job
  <2> QED BY <2>2, <2>3 DEF Logged, PushPc
<1>3. ASSUME NEW e \in Entry, Approve(p, e) PROVE Logged(proc[p])'
  <2>1. Starts(p, "read", "reviewer", e, Len(refs[e]) + 1) /\ proc'[p].batch = {}
    BY <1>1, <1>3, ApproveDoes
  <2> QED BY <1>1, <2>1, LoggedStart DEF WritesUp
<1>4. ASSUME NEW e \in Entry, RetryStart(p, e) PROVE Logged(proc[p])'
  <2>1. Starts(p, "retry_read", "admin", e, 0) /\ proc'[p].batch = {}
    BY <1>1, <1>4, RetryStartDoes
  <2> QED BY <1>1, <2>1, LoggedStart DEF WritesUp
<1>5. ASSUME NEW e \in Entry, ForceStart(p, e) PROVE Logged(proc[p])'
  <2>1. Starts(p, "force_write", "admin", e, 0) /\ proc'[p].batch = {}
    BY <1>1, <1>5, ForceStartDoes
  <2> QED BY <1>1, <2>1, LoggedStart DEF WritesUp
<1>6. ASSUME NEW e \in Entry, BackfillStart(p, e) PROVE Logged(proc[p])'
  <2>1. /\ Starts(p, "backfill_create", "admin", e, 0) /\ proc'[p].batch = {}
        /\ logs[e] # <<>> /\ logs' = logs
    BY <1>1, <1>6, BackfillStartDoes DEF store
  <2> QED BY <1>1, <2>1, LoggedStart
<1>7. CASE DatabaseError(p)
  <2>1. /\ logs' = logs
        /\ \/ proc[p].pc \in {"save", "log_success", "resolve"} /\ To(p, "fail_read")
           \/ proc'[p] = None
    BY <1>1, <1>7, DatabaseErrorDoes DEF store
  <2> QED BY <1>1, <2>1, LogsSame, LoggedTo, LoggedNone DEF WritesUp, PushPc
<1>8. CASE Restart
  <2>1. proc'[p] = None BY <1>1, <1>8 DEF Restart
  <2> QED BY <1>1, <2>1, LoggedNone
<1>9. ASSUME NEW e \in Entry, Withdraw(e) PROVE Logged(proc[p])'
  <2>1. logs' = logs /\ proc' = proc BY <1>9 DEF Withdraw
  <2> QED BY <2>1 DEF Logged, LatestCount
<1> QED BY <1>1, <1>2, <1>3, <1>4, <1>5, <1>6, <1>7, <1>8, <1>9, PushLogged, RetryLogged DEF Next

LEMMA LogsStay ==
    ASSUME AllLogged, logs' = logs,
           \A e \in Entry : records[e] = <<>> /\ logs[e] = <<>> => records'[e] = <<>>
    PROVE  AllLogged'
<1> SUFFICES ASSUME NEW e \in Entry
             PROVE  /\ logs'[e] = <<>> => records'[e] = <<>>
                    /\ logs'[e] # <<>> => LatestCount(e)' >= 1
  BY DEF AllLogged
<1>1. LatestCount(e)' = LatestCount(e) BY DEF LatestCount
<1> QED BY <1>1 DEF AllLogged

LEMMA EmptyBoth ==
    ASSUME NEW s \in Seq(Record), NEW t \in Seq(Record), DOMAIN s = DOMAIN t
    PROVE  s = <<>> => t = <<>>
BY LastThere

LEMMA StepAllLogged ==
    ASSUME PushAssumption, TypeOK, TypeOK', NEW p, Process = {p}, Logged(proc[p]), AllLogged,
           Next
    PROVE  AllLogged'
<1>1. p \in Process OBVIOUS
<1>2. CASE FailLog(p)
  <2>1. /\ proc[p].pc = "fail_log" /\ records' = records
        /\ \A e \in Entry \ {proc[p].entry} : logs'[e] = logs[e]
        /\ \A e \in Entry : e = proc[p].entry
                            => logs'[e] # <<>> /\ LatestCount(e)' = proc[p].n
    BY <1>1, <1>2, FailLogDoes
  <2>2. PICK e \in Entry : proc[p].entry = e BY <1>1, <2>1, EntryPicked DEF PushPc
  <2>3. LatestCount(e)' >= 1
    <3>1. LatestCount(e) \in Nat /\ LatestCount(e)' = LatestCount(e) + 1
      BY <2>1, <2>2, LatestType DEF Logged
    <3> QED BY <3>1
  <2>4. \A x \in Entry \ {e} : LatestCount(x)' = LatestCount(x) BY <2>1, <2>2 DEF LatestCount
  <2> QED BY <2>1, <2>2, <2>3, <2>4 DEF AllLogged
<1>3. CASE RetryBump(p)
  <2>1. /\ proc[p].pc = "retry_bump" /\ records' = records
        /\ \A e \in Entry \ {proc[p].entry} : logs'[e] = logs[e]
        /\ logs'[proc[p].entry] = <<>> <=> logs[proc[p].entry] = <<>>
        /\ \A e \in Entry : e = proc[p].entry /\ logs[e] # <<>> /\ proc[p].row = Len(logs[e])
                            => LatestCount(e)' = proc[p].n + 1
    BY <1>1, <1>3, RetryBumpDoes
  <2>2. PICK e \in Entry : proc[p].entry = e BY <1>1, <2>1, EntryPicked DEF PushPc
  <2>3. logs[e] # <<>> /\ proc[p].row = Len(logs[e]) BY <2>1, <2>2 DEF Logged
  <2>4. LatestCount(e)' >= 1
    <3>1. proc[p].n \in Nat BY <1>1, <2>1, Workers DEF Work, PushPc
    <3>2. LatestCount(e)' = proc[p].n + 1 BY <2>1, <2>2, <2>3
    <3> QED BY <3>1, <3>2
  <2>5. \A x \in Entry \ {e} : LatestCount(x)' = LatestCount(x) BY <2>1, <2>2 DEF LatestCount
  <2> QED BY <2>1, <2>2, <2>4, <2>5 DEF AllLogged
<1>4. ASSUME NEW pc \in {"fail_write", "backfill_create"}, proc[p].pc = pc, logs' = logs,
             Wrote(proc[p].entry)
      PROVE  AllLogged'
  <2>1. logs[proc[p].entry] # <<>> BY <1>4 DEF Logged
  <2> QED BY <1>4, <2>1, LogsStay DEF Wrote
<1>5. CASE FailWrite(p) BY <1>1, <1>4, <1>5, FailWriteDoes
<1>6. CASE BackfillCreate(p) BY <1>1, <1>4, <1>6, BackfillCreateDoes
<1>7. ASSUME proc[p].pc \in PushPc, logs' = logs,
             \A e \in Entry \ {proc[p].entry} : records'[e] = records[e],
             DOMAIN records'[proc[p].entry] = DOMAIN records[proc[p].entry]
      PROVE  AllLogged'
  <2>1. PICK e \in Entry : proc[p].entry = e BY <1>1, <1>7, EntryPicked
  <2>2. records[e] \in Seq(Record) /\ records'[e] \in Seq(Record) BY DEF TypeOK
  <2>3. records[e] = <<>> => records'[e] = <<>> BY <1>7, <2>1, <2>2, EmptyBoth
  <2> QED BY <1>7, <2>1, <2>3, LogsStay
<1>8. CASE Resolve(p) BY <1>1, <1>7, <1>8, ResolveDoes DEF PushPc
<1>9. CASE ForceWrite(p)
  <2>1. /\ proc[p].pc \in PushPc /\ logs' = logs /\ Wrote(proc[p].entry)
        /\ DOMAIN records'[proc[p].entry] = DOMAIN records[proc[p].entry]
    BY <1>1, <1>9, ForceWriteDoes DEF PushPc
  <2> QED BY <1>7, <2>1 DEF Wrote
<1>10. ASSUME ~FailLog(p), ~RetryBump(p), ~FailWrite(p), ~BackfillCreate(p), ~Resolve(p),
              ~ForceWrite(p)
       PROVE  logs' = logs /\ records' = records
  <2> USE DEF store
  <2>1. CASE PushStep(p)
    BY <1>10, <2>1 DEF PushStep, Read, Prepare, Send, SaveRef, LogSuccess, FailRead, FailFind
  <2>2. CASE RetryStep(p) BY <1>10, <2>2 DEF RetryStep, RetryRead, RetryLog, CronNext
  <2>3. CASE CronStart(p) BY <2>3 DEF CronStart
  <2>4. ASSUME NEW e \in Entry, Approve(p, e) \/ RetryStart(p, e) \/ ForceStart(p, e)
                                \/ BackfillStart(p, e)
        PROVE  logs' = logs /\ records' = records
    BY <2>4 DEF Approve, RetryStart, ForceStart, BackfillStart
  <2>5. CASE DatabaseError(p) BY <2>5 DEF DatabaseError
  <2>6. CASE Restart BY <2>6 DEF Restart
  <2>7. ASSUME NEW e \in Entry, Withdraw(e) PROVE logs' = logs /\ records' = records
    BY <2>7 DEF Withdraw
  <2> QED BY <1>1, <1>10, <2>1, <2>2, <2>3, <2>4, <2>5, <2>6, <2>7 DEF Next, AdminStep
<1>11. ASSUME ~FailLog(p), ~RetryBump(p), ~FailWrite(p), ~BackfillCreate(p), ~Resolve(p),
              ~ForceWrite(p)
       PROVE  AllLogged'
  BY <1>10, <1>11, LogsStay
<1> QED BY <1>2, <1>3, <1>5, <1>6, <1>8, <1>9, <1>11

-----------------------------------------------------------------------------
(* One process at a time: a push that goes through closes what is open.      *)

LEMMA OnlyGrows ==
    ASSUME TypeOK, Next
    PROVE  /\ faults' = 0 => faults = 0
           /\ listed => listed'
<1> USE DEF budget, history
<1>1. faults \in Nat BY DEF TypeOK
<1>2. ASSUME NEW p \in Process, PushStep(p)
      PROVE  faults' \in {faults, faults + 1} /\ listed' = listed
  BY <1>1, <1>2 DEF PushStep, Read, Prepare, Send, SaveRef, LogSuccess, Resolve, FailRead,
                    FailLog, FailFind, FailWrite, Fault
<1>3. ASSUME NEW p \in Process, RetryStep(p) \/ AdminStep(p)
      PROVE  faults' \in {faults, faults + 1} /\ listed' = listed
  BY <1>3 DEF RetryStep, AdminStep, RetryRead, RetryLog, RetryBump, CronNext, ForceWrite,
              BackfillCreate
<1>4. ASSUME NEW p \in Process, CronStart(p)
      PROVE  faults' \in {faults, faults + 1} /\ listed' = listed
  BY <1>4 DEF CronStart
<1>5. ASSUME NEW p \in Process, NEW e \in Entry,
             Approve(p, e) \/ RetryStart(p, e) \/ ForceStart(p, e) \/ BackfillStart(p, e)
      PROVE  faults' \in {faults, faults + 1} /\ (listed => listed')
  BY <1>5 DEF Approve, RetryStart, ForceStart, BackfillStart, AdminActs
<1>6. ASSUME \/ \E p \in Process : DatabaseError(p)
             \/ Restart
             \/ \E e \in Entry : Withdraw(e)
      PROVE  faults' \in {faults, faults + 1} /\ listed' = listed
  BY <1>6 DEF DatabaseError, Restart, Withdraw, Fault
<1>7. faults' \in {faults, faults + 1} /\ (listed => listed')
  BY <1>2, <1>3, <1>4, <1>5, <1>6 DEF Next
<1> QED BY <1>1, <1>7

LEMMA RefsAndRecordsSame ==
    ASSUME NEW p, Process = {p}, Next, ~SaveRef(p), ~Resolve(p), ~FailWrite(p),
           ~ForceWrite(p), ~BackfillCreate(p), ~\E e \in Entry : Approve(p, e)
    PROVE  refs' = refs /\ records' = records
<1> USE DEF store
<1>1. CASE PushStep(p)
  BY <1>1 DEF PushStep, Read, Prepare, Send, LogSuccess, FailRead, FailLog, FailFind
<1>2. CASE RetryStep(p) BY <1>2 DEF RetryStep, RetryRead, RetryLog, RetryBump, CronNext
<1>3. CASE CronStart(p) BY <1>3 DEF CronStart
<1>4. ASSUME NEW e \in Entry, RetryStart(p, e) \/ ForceStart(p, e) \/ BackfillStart(p, e)
      PROVE  refs' = refs /\ records' = records
  BY <1>4 DEF RetryStart, ForceStart, BackfillStart
<1>5. CASE DatabaseError(p) BY <1>5 DEF DatabaseError
<1>6. CASE Restart BY <1>6 DEF Restart
<1>7. ASSUME NEW e \in Entry, Withdraw(e) PROVE refs' = refs /\ records' = records
  BY <1>7 DEF Withdraw
<1> QED BY <1>1, <1>2, <1>3, <1>4, <1>5, <1>6, <1>7 DEF Next, AdminStep

AtClose(p, e) == proc[p].pc \in {"log_success", "resolve"} /\ proc[p].entry = e

LEMMA StepCloses ==
    ASSUME PushAssumption, TypeOK, TypeOK', NEW p, Process = {p}, Current(proc[p]), Closing,
           Next
    PROVE  Closing'
<1> SUFFICES ASSUME faults' = 0, ~listed', NEW e \in Entry, StillOpen(e)'
             PROVE  AtClose(p, e)'
  BY DEF Closing, AtClose
<1>1. p \in Process /\ faults = 0 /\ ~listed BY OnlyGrows
<1>2. \A x \in Entry : StillOpen(x) => AtClose(p, x) BY <1>1 DEF Closing, AtClose
<1>3. refs'[e] = refs[e] /\ OpenRows(e)' = OpenRows(e) => StillOpen(e) BY DEF StillOpen
<1>4. CASE SaveRef(p)
  <2>1. /\ proc[p].pc = "save" /\ To(p, "log_success") /\ records' = records
        /\ \A x \in Entry \ {proc[p].entry} : refs'[x] = refs[x]
    BY <1>1, <1>4, SaveRefDoes
  <2>2. CASE proc[p].entry = e BY <2>1, <2>2 DEF To, AtClose
  <2>3. CASE proc[p].entry # e
    <3>1. StillOpen(e) BY <1>3, <2>1, <2>3 DEF OpenRows
    <3> QED BY <1>2, <2>1, <3>1 DEF AtClose
  <2> QED BY <2>2, <2>3
<1>5. CASE Resolve(p)
  <2>1. /\ refs' = refs
        /\ \A x \in Entry \ {proc[p].entry} : records'[x] = records[x]
        /\ DOMAIN records'[proc[p].entry] = DOMAIN records[proc[p].entry]
        /\ \A k \in DOMAIN records[proc[p].entry] : ~records'[proc[p].entry][k].open
    BY <1>1, <1>5, ResolveDoes
  <2>2. CASE proc[p].entry = e
    <3>1. OpenRows(e)' = {} BY <2>1, <2>2 DEF OpenRows
    <3> QED BY <3>1 DEF StillOpen
  <2>3. CASE proc[p].entry # e
    <3>1. StillOpen(e) BY <1>3, <2>1, <2>3 DEF OpenRows
    <3> QED BY <1>2, <2>3, <3>1 DEF AtClose
  <2> QED BY <2>2, <2>3
<1>6. CASE FailWrite(p)
  <2>1. proc[p].pc = "fail_write" /\ refs' = refs /\ Wrote(proc[p].entry)
    BY <1>1, <1>6, FailWriteDoes
  <2>2. CASE proc[p].entry = e
    <3>1. refs[e][Len(refs[e])] = 0
      BY <1>1, <2>1, <2>2 DEF Current, OnApproval, Failing
    <3> QED BY <2>1, <3>1 DEF StillOpen
  <2>3. CASE proc[p].entry # e
    <3>1. StillOpen(e) BY <1>3, <2>1, <2>3 DEF OpenRows, Wrote
    <3> QED BY <1>2, <2>1, <3>1 DEF AtClose
  <2> QED BY <2>2, <2>3
<1>7. CASE ForceWrite(p)
  <2>1. /\ proc[p].pc = "force_write" /\ refs' = refs /\ Wrote(proc[p].entry)
        /\ DOMAIN records'[proc[p].entry] = DOMAIN records[proc[p].entry]
    BY <1>1, <1>7, ForceWriteDoes
  <2>2. OpenRows(e)' = OpenRows(e)
    <3>1. CASE proc[p].entry = e BY <2>1, <3>1 DEF OpenRows, Wrote, Kept
    <3>2. CASE proc[p].entry # e BY <2>1, <3>2 DEF OpenRows, Wrote
    <3> QED BY <3>1, <3>2
  <2> QED BY <1>2, <1>3, <2>1, <2>2 DEF AtClose
<1>8. CASE BackfillCreate(p)
  BY <1>1, <1>8, BackfillCreateDoes DEF Current
<1>9. ASSUME NEW a \in Entry, Approve(p, a) PROVE AtClose(p, e)'
  <2>1. /\ proc[p].pc = "idle" /\ records' = records
        /\ \A x \in Entry \ {a} : refs'[x] = refs[x]
        /\ refs'[a] = Append(refs[a], 0)
    BY <1>1, <1>9, ApproveDoes
  <2>2. CASE a = e
    <3>1. refs[a] \in Seq(Nat) BY DEF TypeOK
    <3>2. refs'[a][Len(refs'[a])] = 0 BY <2>1, <3>1, AddLast
    <3> QED BY <2>2, <3>2 DEF StillOpen
  <2>3. CASE a # e
    <3>1. StillOpen(e) BY <1>3, <2>1, <2>3 DEF OpenRows
    <3> QED BY <1>2, <2>1, <3>1 DEF AtClose
  <2> QED BY <2>2, <2>3
<1>10. ASSUME ~SaveRef(p), ~Resolve(p), ~FailWrite(p), ~ForceWrite(p), ~BackfillCreate(p),
              ~\E a \in Entry : Approve(p, a)
       PROVE  AtClose(p, e)'
  <2>1. refs' = refs /\ records' = records BY <1>10, RefsAndRecordsSame
  <2>2. StillOpen(e) BY <1>3, <2>1 DEF OpenRows
  <2>3. proc[p].pc \in {"log_success", "resolve"} /\ proc[p].entry = e
    BY <1>2, <2>2 DEF AtClose
  <2>4. ~DatabaseError(p) /\ ~Restart /\ ~\E x \in Entry : Withdraw(x)
    BY <1>1 DEF DatabaseError, Restart, Withdraw, Fault
  <2>5. LogSuccess(p)
    <3> USE <2>3 DEF At
    <3>1. ~PushStep(p) \/ LogSuccess(p)
      BY <1>10 DEF PushStep, Read, Prepare, Send, FailRead, FailLog, FailFind
    <3>2. ~RetryStep(p) BY DEF RetryStep, RetryRead, RetryLog, RetryBump, CronNext
    <3>3. ~AdminStep(p) BY <1>10 DEF AdminStep
    <3>4. ~CronStart(p) BY DEF CronStart
    <3>5. \A x \in Entry : ~(RetryStart(p, x) \/ ForceStart(p, x) \/ BackfillStart(p, x))
      BY DEF RetryStart, ForceStart, BackfillStart
    <3> QED BY <1>10, <2>4, <3>1, <3>2, <3>3, <3>4, <3>5 DEF Next
  <2>6. To(p, "resolve") BY <1>1, <2>5, LogSuccessDoes
  <2> QED BY <2>3, <2>6 DEF To, AtClose
<1> QED BY <1>4, <1>5, <1>6, <1>7, <1>8, <1>9, <1>10

-----------------------------------------------------------------------------
(* One process at a time: every try is paid for.                            *)

LEMMA OneDue ==
    ASSUME NEW p, Process = {p}, NEW e
    PROVE  /\ Due(e) = IF ToTry(p, e) THEN 1 ELSE 0
           /\ Due(e)' = IF ToTry(p, e)' THEN 1 ELSE 0
BY DEF Due

LEMMA BumpsType ==
    ASSUME PushAssumption, TypeOK, NEW e \in Entry
    PROVE  /\ Bumps(e) \in Int /\ Bumps(e) < MaxRetries
           /\ logs' = logs => Bumps(e)' = Bumps(e)
<1>1. LatestCount(e) \in Nat BY LatestType
<1>2. logs' = logs => LatestCount(e)' = LatestCount(e) BY DEF LatestCount
<1> QED BY <1>1, <1>2 DEF Bumps, PushAssumption

LEMMA PaidAt ==
    ASSUME TypeOK, Paid, NEW e \in Entry
    PROVE  /\ tries[e] + Due(e) <= Len(refs[e]) + admins + Bumps(e)
           /\ tries[e] \in Nat /\ Len(refs[e]) \in Nat /\ admins \in Nat
<1>1. refs[e] \in Seq(Nat) BY DEF TypeOK
<1> QED BY <1>1, LastThere DEF TypeOK, Paid

(* A step that tries nothing and owes no more than before.                   *)
LEMMA PaidStays ==
    ASSUME PushAssumption, TypeOK, TypeOK', NEW p, Process = {p}, Paid, NEW e \in Entry,
           tries'[e] = tries[e], Len(refs'[e]) >= Len(refs[e]), admins' >= admins,
           Bumps(e)' >= Bumps(e), ToTry(p, e)' => ToTry(p, e)
    PROVE  tries'[e] + Due(e)' <= Len(refs'[e]) + admins' + Bumps(e)'
<1>1. /\ tries[e] + Due(e) <= Len(refs[e]) + admins + Bumps(e)
      /\ tries[e] \in Nat /\ Len(refs[e]) \in Nat /\ admins \in Nat
  BY PaidAt
<1>2. Bumps(e) \in Int BY BumpsType
<1>3. LatestCount(e)' \in Int
  <2>1. logs'[e] \in Seq(Log) BY DEF TypeOK
  <2>2. logs'[e] # <<>> => logs'[e][Len(logs'[e])] \in Log BY <2>1, LastThere
  <2> QED BY <2>2 DEF LatestCount, Log
<1>4. Bumps(e)' \in Int BY <1>3 DEF Bumps, PushAssumption
<1>5. Len(refs'[e]) \in Nat BY LastThere DEF TypeOK
<1>6. Due(e)' <= Due(e) /\ Due(e) \in {0, 1} /\ Due(e)' \in {0, 1} BY OneDue
<1>7. admins' \in Nat BY DEF TypeOK
<1> DEFINE t == tries[e]
           owed == Due(e)
           owes == Due(e)'
           has == Len(refs[e]) + admins
           gets == Len(refs'[e]) + admins'
           b == Bumps(e)
           c == Bumps(e)'
<1>8. t \in Int /\ owed \in Int /\ owes \in Int /\ has \in Int /\ gets \in Int
  BY <1>1, <1>5, <1>6, <1>7
<1>9. has <= gets BY <1>1, <1>5, <1>7
<1>10. t + owed <= has + b BY <1>1
<1>11. b \in Int /\ c \in Int /\ b <= c BY <1>2, <1>4
<1>12. owes <= owed BY <1>6
<1>13. tries'[e] = t OBVIOUS
<1> HIDE DEF t, owed, owes, has, gets, b, c
<1>14. t + owes <= gets + c BY <1>8, <1>9, <1>10, <1>11, <1>12
<1> QED BY <1>13, <1>14 DEF owes, gets, c

LEMMA ReadPaid ==
    ASSUME PushAssumption, TypeOK, TypeOK', NEW p, Process = {p}, Paid, Read(p),
           NEW e \in Entry
    PROVE  tries'[e] + Due(e)' <= Len(refs'[e]) + admins' + Bumps(e)'
<1>1. /\ p \in Process /\ proc[p].pc = "read" /\ refs' = refs /\ logs' = logs
      /\ admins' = admins
  BY ReadDoes DEF store, budget
<1>2. ~ToTry(p, e)'
  <2>1. proc'[p].pc \in {"cron_next", "idle", "resolve_again", "fail_read", "prepare"}
    BY <1>1, ReadDoes DEF To, Done, Job, None
  <2> QED BY <2>1 DEF ToTry
<1>3. Bumps(e)' = Bumps(e) /\ Bumps(e) \in Int BY <1>1, BumpsType
<1>4. /\ tries[e] + Due(e) <= Len(refs[e]) + admins + Bumps(e)
      /\ tries[e] \in Nat /\ Len(refs[e]) \in Nat /\ admins \in Nat
  BY PaidAt
<1>5. \/ tries' = tries
      \/ tries' = [tries EXCEPT ![proc[p].entry] = tries[proc[p].entry] + 1]
  BY <1>1, ReadDoes
<1>6. tries \in [Entry -> Nat] BY DEF TypeOK
<1>7. Due(e)' = 0 BY <1>2, OneDue
<1>8. Due(e) \in {0, 1} BY OneDue
<1>9. CASE proc[p].entry = e
  <2>1. Due(e) = 1 BY <1>1, <1>9, OneDue DEF ToTry, PushPc
  <2>2. tries'[e] <= tries[e] + 1 /\ tries'[e] \in Nat BY <1>4, <1>5, <1>6, <1>9
  <2> QED BY <1>1, <1>3, <1>4, <1>7, <2>1, <2>2
<1>10. CASE proc[p].entry # e
  <2>1. tries'[e] = tries[e] BY <1>5, <1>6, <1>10
  <2> QED BY <1>1, <1>3, <1>4, <1>7, <1>8, <2>1
<1> QED BY <1>9, <1>10

LEMMA RetryBumpPaid ==
    ASSUME PushAssumption, TypeOK, TypeOK', NEW p, Process = {p}, Logged(proc[p]), Paid,
           RetryBump(p), NEW e \in Entry
    PROVE  tries'[e] + Due(e)' <= Len(refs'[e]) + admins' + Bumps(e)'
<1>1. /\ p \in Process /\ proc[p].pc = "retry_bump" /\ To(p, "read")
      /\ refs' = refs /\ tries' = tries /\ admins' = admins
      /\ \A x \in Entry \ {proc[p].entry} : logs'[x] = logs[x]
      /\ logs'[proc[p].entry] = <<>> <=> logs[proc[p].entry] = <<>>
      /\ \A x \in Entry : x = proc[p].entry /\ logs[x] # <<>> /\ proc[p].row = Len(logs[x])
                          => LatestCount(x)' = proc[p].n + 1
  BY RetryBumpDoes DEF budget, history
<1>2. proc'[p].pc = "read" /\ proc'[p].entry = proc[p].entry /\ proc'[p].by = proc[p].by
  BY <1>1 DEF To
<1>3. Len(refs[e]) \in Nat /\ admins \in Nat /\ tries[e] \in Nat
      /\ tries[e] + Due(e) <= Len(refs[e]) + admins + Bumps(e)
  BY PaidAt
<1>4. CASE proc[p].entry # e
  <2>1. logs'[e] = logs[e] BY <1>1, <1>4
  <2>2. Bumps(e)' = Bumps(e) /\ Bumps(e) \in Int BY <2>1, BumpsType DEF Bumps, LatestCount
  <2>3. ~ToTry(p, e)' BY <1>2, <1>4 DEF ToTry
  <2> QED BY <1>1, <1>3, <2>2, <2>3, PaidStays
<1>5. CASE proc[p].entry = e
  <2>1. /\ logs[e] # <<>> /\ proc[p].row = Len(logs[e]) /\ proc[p].n = LatestCount(e)
        /\ proc[p].by = "cron" => proc[p].n < MaxRetries
    BY <1>1, <1>5 DEF Logged
  <2>2. logs'[e] # <<>> /\ LatestCount(e)' = LatestCount(e) + 1 BY <1>1, <1>5, <2>1
  <2>3. LatestCount(e) \in Nat /\ MaxRetries \in Nat BY LatestType DEF PushAssumption
  <2>4. Bumps(e)' >= Bumps(e) BY <2>1, <2>2, <2>3 DEF Bumps
  <2>5. CASE proc[p].by # "cron"
    <3>1. ToTry(p, e) BY <1>1, <1>5, <2>5 DEF ToTry, PushPc
    <3> QED BY <1>1, <1>3, <2>4, <3>1, PaidStays
  <2>6. CASE proc[p].by = "cron"
    <3>1. Bumps(e)' = Bumps(e) + 1 /\ Bumps(e) \in Int
      BY <2>1, <2>2, <2>3, <2>6 DEF Bumps
    <3>2. ~ToTry(p, e) BY <1>1, <2>6 DEF ToTry
    <3>3. Due(e) = 0 /\ Due(e)' \in {0, 1} BY <3>2, OneDue
    <3> QED BY <1>1, <1>3, <3>1, <3>3
  <2> QED BY <2>5, <2>6
<1> QED BY <1>4, <1>5

LEMMA FailLogPaid ==
    ASSUME PushAssumption, TypeOK, TypeOK', NEW p, Process = {p}, Logged(proc[p]), Paid,
           FailLog(p), NEW e \in Entry
    PROVE  tries'[e] + Due(e)' <= Len(refs'[e]) + admins' + Bumps(e)'
<1>1. /\ p \in Process /\ proc[p].pc = "fail_log" /\ To(p, "fail_find")
      /\ refs' = refs /\ tries' = tries /\ admins' = admins
      /\ \A x \in Entry \ {proc[p].entry} : logs'[x] = logs[x]
      /\ \A x \in Entry : x = proc[p].entry
                          => logs'[x] # <<>> /\ LatestCount(x)' = proc[p].n
  BY FailLogDoes DEF budget, history
<1>2. ~ToTry(p, e)' BY <1>1 DEF To, ToTry
<1>3. LatestCount(e) \in Nat /\ MaxRetries \in Nat \ {0} BY LatestType DEF PushAssumption
<1>4. Bumps(e)' >= Bumps(e)
  <2>1. CASE proc[p].entry # e
    <3>1. logs'[e] = logs[e] BY <1>1, <2>1
    <3>2. Bumps(e)' = Bumps(e) /\ Bumps(e) \in Int BY <3>1, BumpsType DEF Bumps, LatestCount
    <3> QED BY <3>2
  <2>2. CASE proc[p].entry = e
    <3>1. logs'[e] # <<>> /\ LatestCount(e)' = LatestCount(e) + 1
      BY <1>1, <2>2 DEF Logged
    <3> QED BY <1>3, <3>1 DEF Bumps
  <2> QED BY <2>1, <2>2
<1>5. Len(refs[e]) \in Nat /\ admins \in Nat BY PaidAt
<1> QED BY <1>1, <1>2, <1>4, <1>5, PaidStays

LEMMA StartPaid ==
    ASSUME PushAssumption, TypeOK, TypeOK', NEW p, Process = {p}, Paid, NEW a \in Entry,
           Approve(p, a) \/ RetryStart(p, a) \/ ForceStart(p, a),
           NEW e \in Entry
    PROVE  tries'[e] + Due(e)' <= Len(refs'[e]) + admins' + Bumps(e)'
<1>1. /\ tries[e] + Due(e) <= Len(refs[e]) + admins + Bumps(e)
      /\ tries[e] \in Nat /\ Len(refs[e]) \in Nat /\ admins \in Nat
  BY PaidAt
<1>2. proc[p].pc = "idle" /\ p \in Process /\ tries' = tries /\ logs' = logs
  BY DEF Approve, RetryStart, ForceStart, At, store, history
<1>3. Bumps(e)' = Bumps(e) /\ Bumps(e) \in Int BY <1>2, BumpsType
<1>4. Due(e)' \in {0, 1} /\ Due(e) \in {0, 1} BY OneDue
<1>5. CASE Approve(p, a)
  <2>1. /\ admins' = admins /\ proc'[p].entry = a
        /\ refs'[a] = Append(refs[a], 0)
        /\ \A x \in Entry \ {a} : refs'[x] = refs[x]
    BY <1>2, <1>5, ApproveDoes DEF budget, Starts
  <2>2. CASE e = a
    <3>1. Len(refs'[e]) = Len(refs[e]) + 1 BY <2>1, <2>2, AddLast DEF TypeOK
    <3>2. Due(e) = 0 BY <1>2, OneDue DEF ToTry
    <3> QED BY <1>1, <1>2, <1>3, <1>4, <2>1, <3>1, <3>2
  <2>3. CASE e # a
    <3>1. ~ToTry(p, e)' BY <2>1, <2>3 DEF ToTry
    <3>2. Len(refs'[e]) >= Len(refs[e]) /\ admins' >= admins /\ Bumps(e)' >= Bumps(e)
      BY <1>1, <1>3, <2>1, <2>3
    <3> QED BY <1>2, <3>1, <3>2, PaidStays
  <2> QED BY <2>2, <2>3
<1>6. CASE RetryStart(p, a) \/ ForceStart(p, a)
  <2>1. refs' = refs /\ admins' = admins + 1
    BY <1>6 DEF RetryStart, ForceStart, AdminActs, store
  <2>2. Due(e) = 0 BY <1>2, OneDue DEF ToTry
  <2>3. Len(refs'[e]) = Len(refs[e]) /\ tries'[e] = tries[e] BY <1>2, <2>1
  <2>4. tries[e] <= Len(refs[e]) + admins + Bumps(e) BY <1>1, <2>2
  <2>5. PICK t \in Int, l \in Int, b \in Int, d \in {0, 1}, n \in Int :
           t = tries[e] /\ l = Len(refs[e]) /\ b = Bumps(e) /\ d = Due(e)' /\ n = admins
    BY <1>1, <1>3, <1>4
  <2>6. t <= l + n + b BY <2>4, <2>5
  <2>7. t + d <= l + (n + 1) + b BY <2>6
  <2> QED BY <1>3, <2>1, <2>3, <2>5, <2>7
<1> QED BY <1>5, <1>6

LEMMA SavePaid ==
    ASSUME TypeOK, NEW p, Process = {p}, SaveRef(p), NEW e \in Entry
    PROVE  Len(refs'[e]) = Len(refs[e])
<1>1. /\ p \in Process /\ proc[p].pc = "save"
      /\ \A x \in Entry \ {proc[p].entry} : refs'[x] = refs[x]
      /\ refs'[proc[p].entry] = [refs[proc[p].entry] EXCEPT ![proc[p].at] = proc[p].n]
  BY SaveRefDoes
<1>2. CASE e # proc[p].entry BY <1>1, <1>2
<1>3. CASE e = proc[p].entry
  <2>1. proc[p] \in Work BY <1>1, Workers DEF PushPc
  <2>2. refs[e] \in Seq(Nat) /\ proc[p].at \in Nat /\ proc[p].n \in Nat
    BY <2>1 DEF TypeOK, Work
  <2> QED BY <1>1, <1>3, <2>2, SetAt
<1> QED BY <1>2, <1>3

(* Any other step.                                                          *)
LEMMA QuietStep ==
    ASSUME PushAssumption, TypeOK, NEW p, Process = {p}, Logged(proc[p]), Next,
           ~Read(p), ~RetryBump(p), ~FailLog(p),
           ~\E a \in Entry : Approve(p, a) \/ RetryStart(p, a) \/ ForceStart(p, a),
           NEW e \in Entry
    PROVE  /\ tries' = tries /\ logs' = logs /\ admins' >= admins
           /\ Len(refs'[e]) >= Len(refs[e])
           /\ ToTry(p, e)' => ToTry(p, e)
<1> DEFINE Quiet == /\ tries' = tries /\ logs' = logs /\ admins' >= admins
                    /\ Len(refs'[e]) >= Len(refs[e])
                    /\ ToTry(p, e)' => ToTry(p, e)
<1>1. p \in Process /\ admins \in Nat /\ Len(refs[e]) \in Nat BY LastThere DEF TypeOK
<1>2. Done(p) => ~ToTry(p, e)' BY DEF Done, ToTry, Job, None, PushPc
<1>3. \A pc : To(p, pc) /\ pc \notin {"read", "retry_read", "retry_log", "retry_bump", "force_write"}
              => ~ToTry(p, e)'
  BY DEF To, ToTry
<1>4. proc'[p] = None => ~ToTry(p, e)' BY DEF None, ToTry, PushPc
<1> USE DEF store, history, budget
<1>5. CASE PushStep(p)
  <2>1. CASE Prepare(p) BY <1>1, <1>3, <2>1, PrepareDoes
  <2>2. CASE Send(p) BY <1>1, <1>3, <2>2, SendDoes DEF Fault
  <2>3. CASE SaveRef(p) BY <1>1, <1>3, <2>3, SaveRefDoes, SavePaid
  <2>4. CASE LogSuccess(p) BY <1>1, <1>3, <2>4, LogSuccessDoes
  <2>5. CASE Resolve(p) BY <1>1, <1>2, <1>3, <2>5, ResolveDoes
  <2>6. CASE FailRead(p) BY <1>1, <1>3, <2>6, FailReadDoes
  <2>7. CASE FailFind(p) BY <1>1, <1>3, <2>7, FailFindDoes
  <2>8. CASE FailWrite(p) BY <1>1, <1>2, <2>8, FailWriteDoes
  <2> QED BY <1>5, <2>1, <2>2, <2>3, <2>4, <2>5, <2>6, <2>7, <2>8 DEF PushStep
<1>6. CASE RetryRead(p)
  <2>1. \/ Done(p)
        \/ Starts(p, "retry_log", proc[p].by, proc[p].entry, Len(refs[proc[p].entry]))
    BY <1>1, <1>6, RetryReadDoes
  <2>2. ToTry(p, e)' => ToTry(p, e)
    BY <1>1, <1>2, <1>6, <2>1, RetryReadDoes DEF Starts, ToTry, PushPc
  <2> QED BY <1>1, <1>6, <2>2, RetryReadDoes
<1>7. CASE RetryLog(p)
  <2>1. proc[p].pc = "retry_log" /\ (logs[proc[p].entry] = <<>> => proc[p].by # "cron")
    BY <1>1, <1>7, RetryLogDoes DEF Logged, PushPc
  <2>2. \/ To(p, "read") /\ proc[p].by # "cron"
        \/ Done(p)
        \/ To(p, "retry_bump")
    BY <1>1, <1>7, <2>1, RetryLogDoes
  <2>3. ToTry(p, e)' => ToTry(p, e)
    BY <1>2, <2>1, <2>2 DEF To, ToTry, PushPc
  <2> QED BY <1>1, <1>7, <2>3, RetryLogDoes
<1>8. CASE CronNext(p)
  <2>1. \/ proc'[p] = None
        \/ \E b \in proc[p].batch : Starts(p, "retry_read", "cron", b[1], 0)
    BY <1>1, <1>8, CronNextDoes
  <2>2. ~ToTry(p, e)' BY <1>4, <2>1 DEF Starts, ToTry
  <2> QED BY <1>1, <1>8, <2>2, CronNextDoes
<1>9. CASE ForceWrite(p)
  <2>1. ToTry(p, e)' => ToTry(p, e)
    BY <1>1, <1>9, ForceWriteDoes DEF To, ToTry, PushPc
  <2> QED BY <1>1, <1>9, <2>1, ForceWriteDoes
<1>10. CASE BackfillCreate(p) BY <1>1, <1>2, <1>10, BackfillCreateDoes
<1>11. CASE CronStart(p)
  <2>1. ~ToTry(p, e)' BY <1>1, <1>11, CronStartDoes DEF Job, ToTry, PushPc
  <2> QED BY <1>1, <1>11, <2>1, CronStartDoes
<1>12. ASSUME NEW a \in Entry, BackfillStart(p, a) PROVE Quiet
  <2>1. Starts(p, "backfill_create", "admin", a, 0) BY <1>1, <1>12, BackfillStartDoes
  <2>2. ~ToTry(p, e)' BY <2>1 DEF Starts, ToTry
  <2> QED BY <1>1, <1>12, <2>2, BackfillStartDoes DEF AdminActs
<1>13. CASE DatabaseError(p)
  <2>1. To(p, "fail_read") \/ proc'[p] = None BY <1>1, <1>13, DatabaseErrorDoes
  <2>2. ~ToTry(p, e)' BY <1>3, <1>4, <2>1
  <2> QED BY <1>1, <1>13, <2>2, DatabaseErrorDoes DEF Fault
<1>14. CASE Restart
  <2>1. proc'[p] = None BY <1>1, <1>14 DEF Restart
  <2> QED BY <1>1, <1>4, <1>14, <2>1 DEF Restart, Fault
<1>15. ASSUME NEW a \in Entry, Withdraw(a) PROVE Quiet
  <2>1. proc' = proc /\ refs' = refs BY <1>15 DEF Withdraw
  <2>2. ToTry(p, e)' => ToTry(p, e) BY <2>1 DEF ToTry
  <2> QED BY <1>1, <1>15, <2>1, <2>2 DEF Withdraw, Fault
<1> QED
  BY <1>5, <1>6, <1>7, <1>8, <1>9, <1>10, <1>11, <1>12, <1>13, <1>14, <1>15
  DEF Next, RetryStep, AdminStep

LEMMA StepPaid ==
    ASSUME PushAssumption, TypeOK, TypeOK', NEW p, Process = {p}, Logged(proc[p]), Paid, Next
    PROVE  Paid'
<1> SUFFICES ASSUME NEW e \in Entry
             PROVE  tries'[e] + Due(e)' <= Len(refs'[e]) + admins' + Bumps(e)'
  BY DEF Paid
<1>1. CASE Read(p) BY <1>1, ReadPaid
<1>2. CASE RetryBump(p) BY <1>2, RetryBumpPaid
<1>3. CASE FailLog(p) BY <1>3, FailLogPaid
<1>4. CASE \E a \in Entry : Approve(p, a) \/ RetryStart(p, a) \/ ForceStart(p, a)
  BY <1>4, StartPaid
<1>5. CASE /\ ~Read(p) /\ ~RetryBump(p) /\ ~FailLog(p)
           /\ ~\E a \in Entry : Approve(p, a) \/ RetryStart(p, a) \/ ForceStart(p, a)
  <2>1. /\ tries' = tries /\ logs' = logs /\ admins' >= admins
        /\ Len(refs'[e]) >= Len(refs[e])
        /\ ToTry(p, e)' => ToTry(p, e)
    BY <1>5, QuietStep
  <2>2. Bumps(e)' = Bumps(e) /\ Bumps(e) \in Int BY <2>1, BumpsType
  <2>3. Bumps(e)' >= Bumps(e) BY <2>2
  <2> QED BY <2>1, <2>3, PaidStays
<1> QED BY <1>1, <1>2, <1>3, <1>4, <1>5

-----------------------------------------------------------------------------
(* One process at a time.                                                   *)

LEMMA SerialInit ==
    ASSUME PushAssumption, Init
    PROVE  SerialInv
<1>1. IInv BY InvInit
<1>2. \A p \in Process : proc[p].pc = "idle" BY DEF Init, None
<1>3. \A p \in Process : Current(proc[p]) /\ Logged(proc[p])
  BY <1>2 DEF Current, Logged, OnApproval, Unsent, Failing, PushPc
<1>4. \A e \in Entry : refs[e] = <<>> /\ logs[e] = <<>> /\ records[e] = <<>> BY DEF Init
<1>5. AllLogged BY <1>4 DEF AllLogged
<1>6. Closing BY <1>4 DEF Closing, StillOpen
<1>7. Explained
  <2> SUFFICES ASSUME NEW e \in Entry
               PROVE  posts[e] <= Cardinality(Synced(e)) + Held(e) + faults
    BY DEF Explained
  <2>1. Saving(e) = {} BY <1>2 DEF Saving, At
  <2>2. Held(e) = 0 BY <2>1 DEF Held
  <2>3. TypeOK BY <1>1 DEF IInv
  <2>4. Cardinality(Synced(e)) \in Nat BY <2>3, SyncedSize
  <2>5. posts[e] = 0 /\ faults = 0 BY DEF Init
  <2> QED BY <2>2, <2>4, <2>5
<1>8. Paid
  <2> SUFFICES ASSUME NEW e \in Entry
               PROVE  tries[e] + Due(e) <= Len(refs[e]) + admins + Bumps(e)
    BY DEF Paid
  <2>1. Due(e) = 0 BY <1>2 DEF Due, ToTry, PushPc
  <2>2. Bumps(e) = 0 BY <1>4 DEF Bumps
  <2>3. tries[e] = 0 /\ admins = 0 /\ Len(refs[e]) = 0 BY <1>4 DEF Init
  <2> QED BY <2>1, <2>2, <2>3
<1> QED BY <1>1, <1>3, <1>5, <1>6, <1>7, <1>8 DEF SerialInv

LEMMA SerialStep ==
    ASSUME PushAssumption, NEW p, Process = {p}, SerialInv, [Next]_vars
    PROVE  SerialInv'
<1>1. IInv' BY InvStep DEF SerialInv
<1>2. TypeOK /\ TypeOK' BY <1>1 DEF SerialInv, IInv
<1>3. /\ IInv /\ Current(proc[p]) /\ Logged(proc[p])
      /\ AllLogged /\ Closing /\ Explained /\ Paid
  BY DEF SerialInv
<1>4. CASE Next
  <2>1. Current(proc[p])' BY <1>2, <1>3, <1>4, CurrentStep
  <2>2. Logged(proc[p])' BY <1>2, <1>3, <1>4, StepLogged
  <2>3. AllLogged' BY <1>2, <1>3, <1>4, StepAllLogged
  <2>4. Closing' BY <1>2, <1>3, <1>4, StepCloses
  <2>5. Explained' BY <1>2, <1>3, <1>4, StepExplained
  <2>6. Paid' BY <1>2, <1>3, <1>4, StepPaid
  <2> QED BY <1>1, <2>1, <2>2, <2>3, <2>4, <2>5, <2>6 DEF SerialInv
<1>5. CASE UNCHANGED vars
  <2> USE <1>5 DEF vars, store, history, budget
  <2>1. Current(proc[p])' BY <1>3 DEF Current
  <2>2. Logged(proc[p])' BY <1>3 DEF Logged, LatestCount
  <2>3. AllLogged' BY <1>3 DEF AllLogged, LatestCount
  <2>4. Closing' BY <1>3 DEF Closing, StillOpen, OpenRows
  <2>5. Explained' BY <1>3 DEF Explained, Synced, Held, Saving, At
  <2>6. Paid' BY <1>3 DEF Paid, Due, ToTry, Bumps, LatestCount
  <2> QED BY <1>1, <2>1, <2>2, <2>3, <2>4, <2>5, <2>6 DEF SerialInv
<1> QED BY <1>4, <1>5

LEMMA SerialInductive == ASSUME NEW only, Process = {only} PROVE Spec => []SerialInv
<1> USE PushAssumption
<1>1. Init => SerialInv BY SerialInit
<1>2. SerialInv /\ [Next]_vars => SerialInv' BY SerialStep
<1> QED BY <1>1, <1>2, PTL DEF Spec

(* Served one at a time, with lost replies, database errors and restarts at  *)
(* any step, Keka holds one time entry for each ref, one for a push about to *)
(* save its ref, and at most one for each fault (pushTimesheetEntry).        *)
THEOREM SerialPostsExplained ==
    ASSUME NEW only, Process = {only}
    PROVE  Spec => []NoUnexplainedPosts
<1>1. SerialInv => NoUnexplainedPosts
  <2> SUFFICES ASSUME SerialInv, NEW e \in Entry
               PROVE  posts[e] <= Cardinality(Synced(e)) + Cardinality(Saving(e)) + faults
    BY DEF NoUnexplainedPosts
  <2>1. TypeOK /\ posts[e] <= Cardinality(Synced(e)) + Held(e) + faults
    BY DEF SerialInv, IInv, Explained
  <2>2. Saving(e) = {} \/ Saving(e) = {only} BY DEF Saving
  <2>3. Cardinality({}) = 0 /\ Cardinality({only}) = 1 BY FS_EmptySet, FS_Singleton
  <2>4. Held(e) = Cardinality(Saving(e)) BY <2>2, <2>3 DEF Held
  <2> QED BY <2>1, <2>4
<1> QED BY <1>1, SerialInductive, PTL

(* Served one at a time, an entry is tried once for each approval, once for  *)
(* each admin action and less than MaxRetries times by the hourly job,       *)
(* whatever fails and whenever the backend restarts (retryTimesheetSync).    *)
THEOREM SerialRetriesBounded ==
    ASSUME NEW only, Process = {only}
    PROVE  Spec => []RetriesBounded
<1>1. SerialInv => RetriesBounded
  <2> SUFFICES ASSUME SerialInv, NEW e \in Entry
               PROVE  tries[e] < Len(refs[e]) + admins + MaxRetries
    BY DEF RetriesBounded
  <2>1. TypeOK /\ Paid BY DEF SerialInv, IInv
  <2>2. /\ tries[e] + Due(e) <= Len(refs[e]) + admins + Bumps(e)
        /\ tries[e] \in Nat /\ Len(refs[e]) \in Nat /\ admins \in Nat
    BY <2>1, PaidAt
  <2>3. Bumps(e) \in Int /\ Bumps(e) < MaxRetries BY <2>1, PushAssumption, BumpsType
  <2>4. Due(e) \in {0, 1} /\ MaxRetries \in Nat BY PushAssumption DEF Due, PushAssumption
  <2> QED BY <2>2, <2>3, <2>4
<1> QED BY <1>1, SerialInductive, PTL

(* Served one at a time, and as long as nothing breaks and nobody lists the  *)
(* records, nothing is left open for an entry whose latest approval has its  *)
(* ref (resolveFailedSyncRecords, called by the push and by the retry).      *)
THEOREM SerialPushResolves ==
    ASSUME NEW only, Process = {only}
    PROVE  Spec => []PushResolves
<1>1. SerialInv => PushResolves
  <2> SUFFICES ASSUME SerialInv, faults = 0, ~listed, AtRest, NEW e \in Entry, StillOpen(e)
               PROVE  FALSE
    BY DEF PushResolves
  <2>1. PICK p \in Process : proc[p].pc \in {"log_success", "resolve"}
    BY DEF SerialInv, Closing
  <2> QED BY <2>1 DEF AtRest, At
<1> QED BY <1>1, SerialInductive, PTL

=============================================================================
