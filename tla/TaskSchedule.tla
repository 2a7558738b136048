---------------------------- MODULE TaskSchedule ----------------------------
(***************************************************************************)
(* The dependencies between the tasks of a project and the schedule that   *)
(* follows from them: TaskDependenciesService (cycle check, propagation of *)
(* dates, critical path) and the parts of TasksService that edit dates and *)
(* links.                                                                  *)
(*                                                                         *)
(* A request checks, writes, reads the project again, moves the dates of   *)
(* the tasks downstream row by row and sets the critical path flags; every *)
(* await is a step and nothing spans two of them.  Dates are days.         *)
(***************************************************************************)
EXTENDS Integers, FiniteSets, SequencesExt

CONSTANTS
    Task,          \* tasks of one project
    Handler,       \* requests in flight at most
    Link,          \* [type, lag] of the links users make
    Span,          \* [start, end] dates users enter, from {d} and {}
    AnyLinks,      \* a bundle names links of other tasks than its own
    BundleSize,    \* bound: links a bundle adds, and links it removes
    MaxRequests,   \* bound: requests
    MaxFaults      \* bound: errors and restarts

NoLink == [type |-> "none", lag |-> 0]

(* A date column that may be null is a set of at most one day.              *)
Dates == [start: SUBSET Int, end: SUBSET Int]

AtMostOne(days) == \A a, b \in days : a = b

ASSUME ScheduleAssumption ==
    /\ IsFiniteSet(Task)
    /\ Link \subseteq [type: {"FS", "SS", "FF", "SF"}, lag: Int]
    /\ Span \subseteq Dates
    /\ \A d \in Span : AtMostOne(d.start) /\ AtMostOne(d.end)
    /\ AnyLinks \in BOOLEAN
    /\ BundleSize \in Nat /\ MaxRequests \in Nat /\ MaxFaults \in Nat

VARIABLES
    link,      \* the TaskDependency row of each pair of tasks, or NoLink
    dates,     \* startDate and endDate of each task
    critical,  \* tasks with isOnCriticalPath
    req,       \* the requests
    waived,    \* history: "dates" or "critical" when the code lets it go
    served,    \* requests so far
    faults     \* faults so far

rows == <<link, dates, critical>>
vars == <<rows, req, waived, served, faults>>

Edge == Task \X Task

None == [pc |-> "idle"]
Request ==
    [pc: {"insert", "apply", "count", "recalculate", "write", "flags", "write_flags"},
     task: Task,                 \* the seed, or the task of a bundle
     add: SUBSET Edge, remove: SUBSET Edge, link: Link \cup {NoLink},
     span: SUBSET Dates, todo: SUBSET Task, plan: [Task -> Dates], flag: SUBSET Task]

TypeOK ==
    /\ link \in [Edge -> Link \cup {NoLink}]
    /\ dates \in [Task -> Dates]
    /\ \A t \in Task : AtMostOne(dates[t].start) /\ AtMostOne(dates[t].end)
    /\ critical \subseteq Task
    /\ req \in [Handler -> Request \cup {None}]
    /\ waived \subseteq {"dates", "critical"}
    /\ served \in 0..MaxRequests
    /\ faults \in 0..MaxFaults

-----------------------------------------------------------------------------
(* Graphs of links.                                                         *)

Graph(l) == {e \in Edge : l[e] # NoLink}
Predecessors(g, t) == {p \in Task : <<p, t>> \in g}
Successors(g, t) == {s \in Task : <<t, s>> \in g}

Closed(g, S) == \A e \in g : e[1] \in S => e[2] \in S
(* The tasks a walk along the links finds, its start included.              *)
Reach(g, t) == {u \in Task : \A S \in SUBSET Task : t \in S /\ Closed(g, S) => u \in S}

Acyclical(g) == \A e \in g : e[1] \notin Reach(g, e[2])

(* Mutant: only a link back is seen.                                        *)
WouldCycleDirect(g, p, s) == <<s, p>> \in g

(* wouldCycleInGraph: a walk from the successor that meets the predecessor. *)
WouldCycle(g, p, s) == p \in Reach(g, s)

-----------------------------------------------------------------------------
(* Dates that follow from links.                                            *)

Shift(days, n) == {d + n : d \in days}
Latest(days) == IF days = {} THEN {} ELSE {Max(days)}

PreEnd(d) == IF d.end # {} THEN d.end ELSE d.start

(* constraintFromDependency: what a link asks of the start or of the end of *)
(* its successor.                                                           *)
StartBound(d, l) ==
    CASE l.type = "FS" -> Shift(PreEnd(d), l.lag + 1)
      [] l.type = "SS" -> Shift(d.start, l.lag)
      [] OTHER -> {}
EndBound(d, l) ==
    CASE l.type = "FF" -> Shift(PreEnd(d), l.lag)
      [] l.type = "SF" -> Shift(d.start, l.lag)
      [] OTHER -> {}

Length(d) == Max({0} \cup {e - s : s \in d.start, e \in d.end})

(* Mutant: the dates of all predecessors, not the latest.                   *)
MergeConstraintsAll(t, ds, l) ==
    LET pre == Predecessors(Graph(l), t)
        starts == UNION {StartBound(ds[p], l[<<p, t>>]) : p \in pre}
    IN IF starts = {} THEN ds[t] ELSE [ds[t] EXCEPT !.start = starts]

MergeConstraints(t, ds, l) ==
    LET pre == Predecessors(Graph(l), t)
        start == Latest(UNION {StartBound(ds[p], l[<<p, t>>]) : p \in pre})
        end == Latest(UNION {EndBound(ds[p], l[<<p, t>>]) : p \in pre})
        length == Length(ds[t])
    IN CASE start # {} /\ length > 0 -> [start |-> start, end |-> Shift(start, length)]
         [] start # {} /\ length = 0 ->
                [start |-> start, end |-> IF end # {} THEN end ELSE ds[t].end]
         [] start = {} /\ end # {} ->
                [start |-> IF length > 0 THEN Shift(end, -length) ELSE ds[t].start,
                 end |-> end]
         [] OTHER -> ds[t]

(* The orders in which a queue visits what is downstream of the seed, each  *)
(* task once, the rows of a task's links coming in any order.               *)
VisitOrders(g, seed) ==
    LET found(o, i) == Min({j \in DOMAIN o : <<o[j], o[i]>> \in g}) IN
    {o \in SetToSeqs(Reach(g, seed)) :
        /\ o[1] = seed
        /\ \A i \in 2..Len(o) : \E j \in 1..(i - 1) : <<o[j], o[i]>> \in g
        /\ \A i \in 2..Len(o) : \A k \in i..Len(o) : found(o, i) <= found(o, k)}

Propagate(order, ds, l) ==
    FoldLeft(LAMBDA acc, t : [acc EXCEPT ![t] = MergeConstraints(t, acc, l)], ds, order)

-----------------------------------------------------------------------------
(* updateCriticalPathFlags: earliest dates forwards, latest dates backwards *)
(* over the tasks that have links; none is flagged when there is a cycle.   *)

Days(d) ==
    LET end == PreEnd(d) IN
    IF d.start = {} \/ end = {} THEN 1
    ELSE Max({1} \cup {e - s + 1 : s \in d.start, e \in end})

CriticalTasks(ds, l) ==
    LET g == Graph(l)
        len(t) == Days(ds[t])
        (* The earliest start that a link asks of a task.                   *)
        bound(k, es, ef, t) ==
            CASE k.type = "FS" -> ef + k.lag + 1
              [] k.type = "SS" -> es + k.lag
              [] k.type = "FF" -> ef + k.lag - len(t) + 1
              [] k.type = "SF" -> es + k.lag - len(t) + 1
        ES[t \in Task] ==
            Max((IF ds[t].start = {} THEN {0} ELSE ds[t].start) \cup
                {bound(l[<<p, t>>], ES[p], ES[p] + len(p) - 1, t) : p \in Predecessors(g, t)})
        (* The latest finish that a link leaves its predecessor.            *)
        leaves(k, ls, lf, t) ==
            CASE k.type = "FS" -> ls - k.lag - 1
              [] k.type = "SS" -> ls - k.lag + len(t) - 1
              [] k.type \in {"FF", "SF"} -> lf - k.lag
        LF[t \in Task] ==
            IF Successors(g, t) = {} THEN ES[t] + len(t) - 1
            ELSE Min({leaves(l[<<t, s>>], LF[s] - len(s) + 1, LF[s], t) : s \in Successors(g, t)})
    IN IF ~Acyclical(g) THEN {}
       ELSE {t \in Task : /\ \E e \in g : t \in {e[1], e[2]}
                          /\ ES[t] = LF[t] - len(t) + 1}

-----------------------------------------------------------------------------
Init ==
    /\ link = [e \in Edge |-> NoLink]
    /\ dates \in [Task -> Span]
    /\ critical = {}
    /\ req = [h \in Handler |-> None]
    /\ waived = {}
    /\ served = 0
    /\ faults = 0

Become(h, r) == req' = [req EXCEPT ![h] = r]
Idle(h) == req[h] = None
At(h, pc) == req[h].pc = pc
Goto(h, pc) == req' = [req EXCEPT ![h].pc = pc]

Ask(pc, t) ==
    [pc |-> pc, task |-> t, add |-> {}, remove |-> {}, link |-> NoLink,
     span |-> {}, todo |-> {},
     plan |-> [u \in Task |-> [start |-> {}, end |-> {}]], flag |-> {}]

Begin(h) ==
    /\ Idle(h)
    /\ served < MaxRequests
    /\ served' = served + 1

(* A task with two predecessors may be visited before one of them moves.    *)
Merging(l) == IF \E t \in Task : Cardinality(Predecessors(Graph(l), t)) > 1
              THEN {"dates"} ELSE {}

(* create: the pair is checked against all links there are.                 *)
CreateCheck(h, p, s) ==
    /\ Begin(h)
    /\ p # s
    /\ ~WouldCycle(Graph(link), p, s)
    /\ \E k \in Link : Become(h, [Ask("insert", s) EXCEPT !.add = {<<p, s>>}, !.link = k])
    /\ UNCHANGED <<rows, waived, faults>>

(* A pair that is linked meanwhile is refused by its unique index.          *)
CreateInsert(h) ==
    LET new == [e \in Edge |-> IF e \in req[h].add THEN req[h].link ELSE link[e]] IN
    /\ At(h, "insert")
    /\ \/ /\ req[h].add \cap Graph(link) # {}
          /\ Become(h, None)
          /\ UNCHANGED <<link, waived>>
       \/ /\ req[h].add \cap Graph(link) = {}
          /\ link' = new
          /\ waived' = waived \cup Merging(new)
          /\ Become(h, Ask("recalculate", req[h].task))
    /\ UNCHANGED <<dates, critical, served, faults>>

(* update: the type or the lag of a link that is there.                     *)
UpdateLink(h, e) ==
    /\ Begin(h)
    /\ e \in Graph(link)
    /\ \E k \in Link : link' = [link EXCEPT ![e] = k]
    /\ Become(h, Ask("recalculate", e[2]))
    /\ UNCHANGED <<dates, critical, waived, faults>>

(* Mutant: the flags are left as they are.                                  *)
RemoveLinkOnly(h, e) ==
    /\ Begin(h)
    /\ e \in Graph(link)
    /\ link' = [link EXCEPT ![e] = NoLink]
    /\ UNCHANGED <<dates, critical, req, waived, faults>>

(* remove: no date moves.                                                   *)
RemoveLink(h, e) ==
    /\ Begin(h)
    /\ e \in Graph(link)
    /\ link' = [link EXCEPT ![e] = NoLink]
    /\ Become(h, Ask("flags", e[2]))
    /\ UNCHANGED <<dates, critical, waived, faults>>

(* TasksService.update with new dates; unchanged dates end the request.     *)
EditDates(h, t) ==
    /\ Begin(h)
    /\ \E d \in Span \ {dates[t]} : dates' = [dates EXCEPT ![t] = d]
    /\ Become(h, Ask("count", t))
    /\ UNCHANGED <<link, critical, waived, faults>>

-----------------------------------------------------------------------------
(* TasksService.updateBundle: links added and removed with the task.        *)

Few == {edges \in SUBSET Edge : Cardinality(edges) <= BundleSize}
Own(t, edges) == {e \in edges : t \in {e[1], e[2]}}

(* validateBundleChanges: each link is checked against the graph without    *)
(* the removed links and with the links added before it, so all pass when   *)
(* none is on a cycle of the resulting graph.  One without links is like    *)
(* EditDates.                                                               *)
BundleValidate(h, t, add, remove) ==
    LET g == (Graph(link) \ remove) \cup add IN
    /\ Begin(h)
    /\ AnyLinks \/ Own(t, add \cup remove) = add \cup remove
    /\ remove \subseteq Graph(link)
    /\ add \cup remove # {}
    /\ \A e \in add : e[1] # e[2] /\ ~WouldCycle(g, e[1], e[2])
    /\ \E k \in IF add = {} THEN {NoLink} ELSE Link :
       \E span \in {{}} \cup {{d} : d \in Span \ {dates[t]}} :
          Become(h, [Ask("apply", t) EXCEPT !.add = add, !.remove = remove,
                                            !.link = k, !.span = span])
    /\ UNCHANGED <<rows, waived, faults>>

(* The transaction: only links of the task itself are removed.  Then one    *)
(* task is the seed: this one when its dates changed, else the first        *)
(* successor of a link that was removed or added.                           *)
BundleApply(h) ==
    LET r == req[h]
        gone == Own(r.task, r.remove \cap Graph(link))
        new == [e \in Edge |-> IF e \in r.add THEN r.link
                               ELSE IF e \in gone THEN NoLink ELSE link[e]]
        moved == r.span # {}
        first == IF gone # {} THEN gone ELSE r.add
        (* Links whose successors are not recalculated.                     *)
        left(seed) == {e \in r.add : e[2] \notin Reach(Graph(new), seed)}
        linked(seed) == \E e \in Graph(new) : seed \in {e[1], e[2]}
        Recalculate(seed) ==
            /\ Become(h, Ask("count", seed))
            /\ waived' = waived \cup Merging(new)
                  \cup (IF left(seed) # {} THEN {"dates"} ELSE {})
                  \cup (IF ~linked(seed) THEN {"critical"} ELSE {})
    IN
    /\ At(h, "apply")
    /\ link' = new
    /\ IF moved THEN \E d \in r.span : dates' = [dates EXCEPT ![r.task] = d]
                ELSE UNCHANGED dates
    /\ \/ moved /\ Recalculate(r.task)
       \/ ~moved /\ \E e \in first : Recalculate(e[2])
       \/ ~moved /\ first = {} /\ Become(h, None) /\ UNCHANGED waived
    /\ UNCHANGED <<critical, served, faults>>

-----------------------------------------------------------------------------
(* recalculateFromTaskDateChange: nothing to do without links of the task.  *)
Count(h) ==
    /\ At(h, "count")
    /\ IF Own(req[h].task, Graph(link)) = {} THEN Become(h, None) ELSE Goto(h, "recalculate")
    /\ UNCHANGED <<rows, waived, served, faults>>

(* Mutant: the seed's own constraints only.                                 *)
RecalculateSeedOnly(h) ==
    LET r == req[h]
        new == [dates EXCEPT ![r.task] = MergeConstraints(r.task, dates, link)]
        changed == {t \in Task : new[t] # dates[t]}
    IN
    /\ At(h, "recalculate")
    /\ Become(h, [r EXCEPT !.plan = new, !.todo = changed,
                           !.pc = IF changed = {} THEN "flags" ELSE "write"])
    /\ UNCHANGED <<rows, waived, served, faults>>

(* recalculateScheduleFrom reads the project and works out the new dates.   *)
Recalculate(h) ==
    LET r == req[h] IN
    /\ At(h, "recalculate")
    /\ \E order \in VisitOrders(Graph(link), r.task) :
          LET new == Propagate(order, dates, link)
              changed == {t \in Task : new[t] # dates[t]}
          IN Become(h, [r EXCEPT !.todo = changed,
                                 !.plan = [t \in Task |-> IF t \in changed THEN new[t]
                                                          ELSE r.plan[t]],
                                 !.pc = IF changed = {} THEN "flags" ELSE "write"])
    /\ UNCHANGED <<rows, waived, served, faults>>

(* The changed rows are written one by one.                                 *)
WriteDates(h, t) ==
    LET r == req[h] IN
    /\ At(h, "write")
    /\ t \in r.todo
    /\ dates' = [dates EXCEPT ![t] = r.plan[t]]
    /\ IF r.todo = {t}
       THEN Become(h, Ask("flags", r.task))
       ELSE Become(h, [r EXCEPT !.todo = @ \ {t}])
    /\ UNCHANGED <<link, critical, waived, served, faults>>

ReadFlags(h) ==
    /\ At(h, "flags")
    /\ Become(h, [req[h] EXCEPT !.pc = "write_flags", !.flag = CriticalTasks(dates, link)])
    /\ UNCHANGED <<rows, waived, served, faults>>

WriteFlags(h) ==
    /\ At(h, "write_flags")
    /\ critical' = req[h].flag
    /\ Become(h, None)
    /\ UNCHANGED <<link, dates, waived, served, faults>>

(* A database error or a restart ends a request where it stands.            *)
Abort(h) ==
    /\ ~Idle(h)
    /\ faults < MaxFaults
    /\ faults' = faults + 1
    /\ waived' = waived \cup
          (IF At(h, "insert") \/ At(h, "apply") THEN {} ELSE {"dates", "critical"})
    /\ Become(h, None)
    /\ UNCHANGED <<rows, served>>

LinkRequest(h) ==
    \/ \E p, s \in Task : CreateCheck(h, p, s)
    \/ \E e \in Edge : UpdateLink(h, e) \/ RemoveLink(h, e)

TaskRequest(h) ==
    \/ \E t \in Task : EditDates(h, t)
    \/ \E t \in Task : \E add, remove \in Few : BundleValidate(h, t, add, remove)

Step(h) ==
    \/ CreateInsert(h) \/ BundleApply(h) \/ Count(h) \/ Recalculate(h)
    \/ \E t \in Task : WriteDates(h, t)
    \/ ReadFlags(h) \/ WriteFlags(h)

Next == \E h \in Handler : LinkRequest(h) \/ TaskRequest(h) \/ Step(h) \/ Abort(h)

Spec == Init /\ [][Next]_vars

-----------------------------------------------------------------------------
AtRest == \A h \in Handler : Idle(h)

(* The links of a project never form a cycle ("cyclicDependency"), through  *)
(* any sequence of single links and bundles.                                *)
Acyclic == Acyclical(Graph(link))

(* A link is respected: its successor starts, or ends, no earlier than the  *)
(* link allows.                                                             *)
Respected(e) ==
    LET s == dates[e[2]] IN
    /\ \A b \in StartBound(dates[e[1]], link[e]) : \A d \in s.start : d >= b
    /\ \A b \in EndBound(dates[e[1]], link[e]) : \A d \in s.end : d >= b

(* Between requests every link is respected, however the dates and links    *)
(* upstream were edited, as long as no task ever had two predecessors, each *)
(* bundle reached the successors of its new links, and nothing broke.       *)
LinksRespected ==
    AtRest /\ "dates" \notin waived => \A e \in Graph(link) : Respected(e)

(* Between requests the flags are those of the present links and dates, as  *)
(* long as nothing broke and no bundle took away the last link of the task  *)
(* it recalculates from.                                                    *)
FlagsAreCurrent ==
    AtRest /\ "critical" \notin waived => critical = CriticalTasks(dates, link)

=============================================================================
