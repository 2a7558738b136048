------------------------- MODULE TaskSchedule_proof -------------------------
(***************************************************************************)
(* Proofs about TaskSchedule, for any tasks, links, lags and dates: types, *)
(* for any number of requests in flight (TInv); and for requests served    *)
(* one at a time, that the cycle check is sufficient (IInv), that links    *)
(* are respected (LInv) and that the critical path flags are current       *)
(* (FInv).  Walks along the links are reasoned about through closed sets:  *)
(* a task is out of reach when a closed set holds the start and not the    *)
(* task.                                                                   *)
(***************************************************************************)
EXTENDS TaskSchedule, FiniteSetTheorems, TLAPS

-----------------------------------------------------------------------------
(* Walks.                                                                   *)

LEMMA ReachesItself ==
    ASSUME NEW g, NEW t \in Task
    PROVE  t \in Reach(g, t)
BY DEF Reach

(* What a walk finds is closed.                                             *)
LEMMA ReachIsClosed ==
    ASSUME NEW g \in SUBSET Edge, NEW t \in Task
    PROVE  Closed(g, Reach(g, t))
<1> SUFFICES ASSUME NEW e \in g, e[1] \in Reach(g, t)
             PROVE  e[2] \in Reach(g, t)
    BY DEF Closed
<1>1. e[2] \in Task
    BY DEF Edge
<1>2. ASSUME NEW S \in SUBSET Task, t \in S, Closed(g, S)
      PROVE  e[2] \in S
    BY <1>2 DEF Reach, Closed
<1> QED
    BY <1>1, <1>2 DEF Reach

(* Closed sets bound a walk.                                                *)
LEMMA OutOfReach ==
    ASSUME NEW g, NEW t \in Task, NEW u, NEW S \in SUBSET Task,
           t \in S, Closed(g, S), u \notin S
    PROVE  u \notin Reach(g, t)
BY DEF Reach

LEMMA ReachIsTransitive ==
    ASSUME NEW g \in SUBSET Edge, NEW t \in Task, NEW u \in Reach(g, t)
    PROVE  Reach(g, u) \subseteq Reach(g, t)
<1>1. u \in Task /\ Reach(g, t) \in SUBSET Task
    BY DEF Reach
<1>2. Closed(g, Reach(g, t))
    BY ReachIsClosed
<1> QED
    BY <1>1, <1>2, OutOfReach

(* Fewer links, fewer cycles.                                               *)
LEMMA FewerLinks ==
    ASSUME NEW g \in SUBSET Edge, NEW f \in SUBSET g, Acyclical(g)
    PROVE  Acyclical(f)
<1> SUFFICES ASSUME NEW e \in f
             PROVE  e[1] \notin Reach(f, e[2])
    BY DEF Acyclical
<1>1. e \in g /\ e[2] \in Task /\ e[1] \notin Reach(g, e[2])
    BY DEF Acyclical, Edge
<1>2. Closed(f, Reach(g, e[2]))
    BY <1>1, ReachIsClosed DEF Closed
<1>3. Reach(g, e[2]) \in SUBSET Task /\ e[2] \in Reach(g, e[2])
    BY <1>1, ReachesItself DEF Reach
<1> QED
    BY <1>1, <1>2, <1>3, OutOfReach

(* A single link that closes no walk back does not once it is there.        *)
LEMMA OneLinkChecked ==
    ASSUME NEW g \in SUBSET Edge, NEW p \in Task, NEW s \in Task, ~WouldCycle(g, p, s)
    PROVE  ~WouldCycle(g \cup {<<p, s>>}, p, s)
<1> DEFINE S == Reach(g, s)
<1>1. p \notin S /\ s \in S /\ S \in SUBSET Task
    BY ReachesItself DEF WouldCycle, Reach
<1>2. Closed(g, S)
    BY ReachIsClosed
<1>3. Closed(g \cup {<<p, s>>}, S)
    BY <1>1, <1>2 DEF Closed
<1> HIDE DEF S
<1> QED
    BY <1>1, <1>3, OutOfReach DEF WouldCycle

(* validateBundleChanges: links that are on no cycle of the resulting graph *)
(* keep it free of cycles.                                                  *)
LEMMA LinksChecked ==
    ASSUME NEW g \in SUBSET Edge, NEW add \in SUBSET Edge, Acyclical(g),
           \A e \in add : ~WouldCycle(g \cup add, e[1], e[2])
    PROVE  Acyclical(g \cup add)
<1> DEFINE all == g \cup add
<1>0. all \in SUBSET Edge
    OBVIOUS
<1> SUFFICES ASSUME NEW x \in g, x[1] \in Reach(all, x[2])
             PROVE  FALSE
    BY DEF Acyclical, WouldCycle
<1> DEFINE a == x[1]
           b == x[2]
           near == Reach(g, b)
           S == near \cup {y \in Reach(all, b) : a \notin Reach(all, y)}
<1>1. a \in Task /\ b \in Task /\ x \in all
    BY DEF Edge
<1>2. a \notin near
    BY DEF Acyclical
<1>3. near \subseteq Reach(all, b)
  <2>1. Closed(g, Reach(all, b))
      BY <1>0, <1>1, ReachIsClosed DEF Closed
  <2>2. b \in Reach(all, b) /\ Reach(all, b) \in SUBSET Task
      BY <1>1, ReachesItself DEF Reach
  <2> QED
      BY <1>1, <2>1, <2>2, OutOfReach
<1>4. Closed(all, S)
  <2> SUFFICES ASSUME NEW e \in all, e[1] \in S
               PROVE  e[2] \in S
      BY DEF Closed
  <2>1. e[1] \in Task /\ e[2] \in Task /\ e[1] \in Reach(all, b)
      BY <1>0, <1>3 DEF Edge
  <2>2. e[2] \in Reach(all, b)
      BY <1>0, <1>1, <2>1, ReachIsClosed DEF Closed
  <2>3. CASE e[1] \in near /\ e \in g
      BY <1>1, <2>3, ReachIsClosed DEF Closed
  <2>4. CASE e \in add /\ e[1] \in near
    (* If the link led back to a, it would be on a cycle through x.         *)
    <3>1. ASSUME a \in Reach(all, e[2])
          PROVE  FALSE
      <4>1. b \in Reach(all, a)
          BY <1>0, <1>1, ReachIsClosed, ReachesItself DEF Closed
      <4>2. e[1] \in Reach(all, a)
          BY <1>0, <1>1, <2>1, <4>1, ReachIsTransitive
      <4>3. e[1] \in Reach(all, e[2])
          BY <1>0, <2>1, <3>1, <4>2, ReachIsTransitive
      <4> QED
          BY <2>4, <4>3 DEF WouldCycle
    <3> QED
        BY <2>2, <3>1
  <2>5. CASE a \notin Reach(all, e[1])
    <3>1. e[2] \in Reach(all, e[1])
        BY <1>0, <2>1, ReachIsClosed, ReachesItself DEF Closed
    <3>2. a \notin Reach(all, e[2])
        BY <1>0, <2>1, <2>5, <3>1, ReachIsTransitive
    <3> QED
        BY <2>2, <3>2
  <2> QED
      BY <2>3, <2>4, <2>5
<1>5. S \in SUBSET Task /\ b \in S /\ a \notin S
    BY <1>1, <1>2, ReachesItself DEF Reach
<1> HIDE DEF S
<1> QED
    BY <1>1, <1>4, <1>5, OutOfReach

LEMMA GraphIsEdges == \A l : Graph(l) \in SUBSET Edge
BY DEF Graph

-----------------------------------------------------------------------------
(* One request at a time, each naming links of its own task.                *)

Fields == {"pc", "task", "add", "remove", "link", "span", "todo", "plan", "flag"}

Shapes ==
    /\ link = [e \in Edge |-> link[e]]
    /\ req = [h \in Handler |-> req[h]]
    /\ \A h \in Handler : req[h] = None \/ DOMAIN req[h] = Fields

(* What a request has checked and not written yet still holds.              *)
InsertIsSafe(h) ==
    At(h, "insert") =>
        /\ req[h].add \in SUBSET Edge
        /\ \A e \in req[h].add : ~WouldCycle(Graph(link) \cup req[h].add, e[1], e[2])

BundleIsSafe(h) ==
    At(h, "apply") =>
        /\ req[h].add \in SUBSET Edge
        /\ Own(req[h].task, req[h].remove) = req[h].remove
        /\ req[h].remove \subseteq Graph(link)
        /\ \A e \in req[h].add :
              ~WouldCycle((Graph(link) \ req[h].remove) \cup req[h].add, e[1], e[2])

IInv ==
    /\ Shapes
    /\ Acyclic
    /\ \A h \in Handler : InsertIsSafe(h) /\ BundleIsSafe(h)

LEMMA InitIsSafe == Init => IInv
<1> SUFFICES ASSUME Init
             PROVE  IInv
    OBVIOUS
<1>1. Graph(link) = {}
    BY DEF Init, Graph
<1>2. Acyclic
    BY <1>1 DEF Acyclic, Acyclical
<1>3. \A h \in Handler : req[h] = None
    BY DEF Init
<1>4. Shapes
    BY <1>3 DEF Init, Shapes
<1> QED
    BY <1>2, <1>3, <1>4 DEF IInv, InsertIsSafe, BundleIsSafe, At, None

(* Links that are only taken away or changed close no cycle.                *)
LEMMA NoNewLinks ==
    ASSUME Acyclic, Graph(link') \subseteq Graph(link)
    PROVE  Acyclic'
BY FewerLinks, GraphIsEdges DEF Acyclic

(* A request that is neither about to insert nor about to apply.            *)
Harmless(r) == r = None \/ (DOMAIN r = Fields /\ r.pc \notin {"insert", "apply"})

LEMMA AskIsHarmless ==
    ASSUME NEW pc, NEW t, pc \notin {"insert", "apply"}
    PROVE  Harmless(Ask(pc, t))
BY DEF Harmless, Ask, Fields

LEMMA SafeWithHarmless ==
    ASSUME NEW only, Handler = {only}, IInv, NEW r, Harmless(r), Become(only, r),
           link' = [e \in Edge |-> link'[e]], Acyclic'
    PROVE  IInv'
<1>1. req' = [h \in Handler |-> r]
    BY DEF Become, IInv, Shapes
<1>2. ~At(only, "insert")' /\ ~At(only, "apply")'
    BY <1>1 DEF Harmless, At, None
<1>3. Shapes'
    BY <1>1 DEF Shapes, Harmless
<1> QED
    BY <1>2, <1>3 DEF IInv, InsertIsSafe, BundleIsSafe

LEMMA StepIsSafe ==
    ASSUME NEW only, Handler = {only}, ~AnyLinks, IInv, [Next]_vars
    PROVE  IInv'
<1>0. link = [e \in Edge |-> link[e]] /\ Acyclic
    BY DEF IInv, Shapes
<1>1. ASSUME link' = link
      PROVE  link' = [e \in Edge |-> link'[e]] /\ Acyclic'
    BY <1>0, <1>1, NoNewLinks
<1>2. ASSUME NEW p \in Task, NEW s \in Task, CreateCheck(only, p, s)
      PROVE  IInv'
  <2>1. PICK k \in Link :
            Become(only, [Ask("insert", s) EXCEPT !.add = {<<p, s>>}, !.link = k])
      BY <1>2 DEF CreateCheck
  <2> DEFINE r == [Ask("insert", s) EXCEPT !.add = {<<p, s>>}, !.link = k]
  <2>2. r.pc = "insert" /\ r.add = {<<p, s>>} /\ DOMAIN r = Fields
      BY DEF Ask, Fields
  <2> HIDE DEF r
  <2>3. req' = [h \in Handler |-> r] /\ link' = link
      BY <1>2, <2>1 DEF CreateCheck, Become, IInv, Shapes, rows, r
  <2>4. ~WouldCycle(Graph(link) \cup {<<p, s>>}, p, s)
      BY <1>2, OneLinkChecked, GraphIsEdges DEF CreateCheck
  <2>5. InsertIsSafe(only)'
    <3>1. req'[only] = r /\ Graph(link') = Graph(link)
        BY <2>3
    <3>2. {<<p, s>>} \in SUBSET Edge
        BY DEF Edge
    <3>3. \A e \in {<<p, s>>} : ~WouldCycle(Graph(link') \cup {<<p, s>>}, e[1], e[2])
        BY <2>4, <3>1
    <3> QED
        BY <2>2, <3>1, <3>2, <3>3 DEF InsertIsSafe
  <2>6. BundleIsSafe(only)'
      BY <2>2, <2>3 DEF BundleIsSafe, At
  <2>7. Shapes'
      BY <1>0, <2>2, <2>3 DEF Shapes
  <2> QED
      BY <1>1, <2>3, <2>5, <2>6, <2>7 DEF IInv
<1>3. CASE CreateInsert(only)
  <2>1. CASE req[only].add \cap Graph(link) # {}
    <3>1. link' = link /\ Become(only, None)
        BY <1>3, <2>1 DEF CreateInsert
    <3> QED
        BY <1>1, <3>1, SafeWithHarmless DEF Harmless
  <2>2. CASE req[only].add \cap Graph(link) = {}
    <3> DEFINE add == req[only].add
    <3>1. link' = [e \in Edge |-> IF e \in add THEN req[only].link ELSE link[e]]
        BY <1>3, <2>2 DEF CreateInsert
    <3>2. Graph(link') \subseteq Graph(link) \cup add
        BY <3>1 DEF Graph
    <3>3. add \in SUBSET Edge
              /\ \A e \in add : ~WouldCycle(Graph(link) \cup add, e[1], e[2])
        BY <1>3 DEF CreateInsert, IInv, InsertIsSafe
    <3>4. Acyclical(Graph(link) \cup add)
        BY <1>0, <3>3, LinksChecked, GraphIsEdges DEF Acyclic
    <3>5. Acyclic'
        BY <3>2, <3>3, <3>4, FewerLinks, GraphIsEdges DEF Acyclic
    <3>6. Become(only, Ask("recalculate", req[only].task))
        BY <1>3, <2>2 DEF CreateInsert
    <3>7. link' = [e \in Edge |-> link'[e]]
        BY <3>1
    <3> QED
        BY <3>5, <3>6, <3>7, AskIsHarmless, SafeWithHarmless
  <2> QED
      BY <2>1, <2>2
<1>4. ASSUME NEW e \in Edge, UpdateLink(only, e)
      PROVE  IInv'
  <2>1. PICK k \in Link : link' = [link EXCEPT ![e] = k]
      BY <1>4 DEF UpdateLink
  <2>2. link' = [x \in Edge |-> link'[x]] /\ Graph(link') \subseteq Graph(link)
      BY <1>0, <1>4, <2>1 DEF UpdateLink, Graph
  <2>3. Become(only, Ask("recalculate", e[2]))
      BY <1>4 DEF UpdateLink
  <2> QED
      BY <1>0, <2>2, <2>3, NoNewLinks, AskIsHarmless, SafeWithHarmless
<1>5. ASSUME NEW e \in Edge, RemoveLink(only, e)
      PROVE  IInv'
  <2>1. link' = [link EXCEPT ![e] = NoLink] /\ Become(only, Ask("flags", e[2]))
      BY <1>5 DEF RemoveLink
  <2>2. link' = [x \in Edge |-> link'[x]] /\ Graph(link') \subseteq Graph(link)
      BY <1>0, <2>1 DEF Graph
  <2> QED
      BY <1>0, <2>1, <2>2, NoNewLinks, AskIsHarmless, SafeWithHarmless
<1>6. ASSUME NEW t \in Task, EditDates(only, t)
      PROVE  IInv'
    BY <1>1, <1>6, AskIsHarmless, SafeWithHarmless DEF EditDates
<1>7. ASSUME NEW t \in Task, NEW add \in Few, NEW remove \in Few,
             BundleValidate(only, t, add, remove)
      PROVE  IInv'
  <2>1. PICK k, span :
            Become(only, [Ask("apply", t) EXCEPT !.add = add, !.remove = remove,
                                                 !.link = k, !.span = span])
      BY <1>7 DEF BundleValidate
  <2> DEFINE r == [Ask("apply", t) EXCEPT !.add = add, !.remove = remove,
                                          !.link = k, !.span = span]
  <2>2. r.pc = "apply" /\ r.task = t /\ r.add = add /\ r.remove = remove /\ DOMAIN r = Fields
      BY DEF Ask, Fields
  <2> HIDE DEF r
  <2>3. req' = [h \in Handler |-> r] /\ link' = link
      BY <1>7, <2>1 DEF BundleValidate, Become, IInv, Shapes, rows, r
  <2>4. /\ add \in SUBSET Edge /\ remove \subseteq Graph(link) /\ Own(t, remove) = remove
        /\ \A e \in add : ~WouldCycle((Graph(link) \ remove) \cup add, e[1], e[2])
      BY <1>7 DEF BundleValidate, Few, Own
  <2>5. BundleIsSafe(only)'
      BY <2>2, <2>3, <2>4 DEF BundleIsSafe, At
  <2>6. InsertIsSafe(only)'
      BY <2>2, <2>3 DEF InsertIsSafe, At
  <2>7. Shapes'
      BY <1>0, <2>2, <2>3 DEF Shapes
  <2> QED
      BY <1>1, <2>3, <2>5, <2>6, <2>7 DEF IInv
<1>8. CASE BundleApply(only)
  <2> DEFINE r == req[only]
             gone == Own(r.task, r.remove \cap Graph(link))
  <2>1. link' = [e \in Edge |-> IF e \in r.add THEN r.link
                                ELSE IF e \in gone THEN NoLink ELSE link[e]]
      BY <1>8 DEF BundleApply
  <2>2. /\ r.add \in SUBSET Edge /\ Own(r.task, r.remove) = r.remove
        /\ r.remove \subseteq Graph(link)
        /\ \A e \in r.add : ~WouldCycle((Graph(link) \ r.remove) \cup r.add, e[1], e[2])
      BY <1>8 DEF BundleApply, IInv, BundleIsSafe
  <2>3. gone = r.remove
      BY <2>2 DEF Own
  <2>4. Graph(link') \subseteq (Graph(link) \ r.remove) \cup r.add
      BY <2>1, <2>3 DEF Graph
  <2>5. Acyclical(Graph(link) \ r.remove)
      BY <1>0, FewerLinks, GraphIsEdges DEF Acyclic
  <2>6. Acyclical((Graph(link) \ r.remove) \cup r.add)
      BY <2>2, <2>5, LinksChecked, GraphIsEdges
  <2>7. Acyclic'
      BY <2>2, <2>4, <2>6, FewerLinks, GraphIsEdges DEF Acyclic
  <2>8. link' = [e \in Edge |-> link'[e]]
      BY <2>1
  <2>9. \E next : Harmless(next) /\ Become(only, next)
    <3>1. Become(only, None) \/ \E seed : Become(only, Ask("count", seed))
        BY <1>8 DEF BundleApply
    <3> QED
        BY <3>1, AskIsHarmless DEF Harmless
  <2> QED
      BY <2>7, <2>8, <2>9, SafeWithHarmless
<1>9. CASE Count(only) \/ Recalculate(only) \/ (\E t \in Task : WriteDates(only, t))
           \/ ReadFlags(only) \/ WriteFlags(only) \/ Abort(only)
  <2>1. link' = link
      BY <1>9 DEF Count, Recalculate, WriteDates, ReadFlags, WriteFlags, Abort, rows
  <2>2. \E next : Harmless(next) /\ Become(only, next)
    <3>1. CASE Count(only)
      <4>1. DOMAIN req[only] = Fields
          BY <3>1 DEF Count, At, IInv, Shapes, None
      <4>2. Become(only, None) \/ Become(only, [req[only] EXCEPT !.pc = "recalculate"])
          BY <3>1 DEF Count, Goto, Become
      <4> QED
          BY <4>1, <4>2 DEF Harmless, Fields
    <3>2. CASE Recalculate(only)
      <4>1. DOMAIN req[only] = Fields
          BY <3>2 DEF Recalculate, At, IInv, Shapes, None
      <4>2. PICK todo, plan, pc :
                /\ pc \in {"flags", "write"}
                /\ Become(only, [req[only] EXCEPT !.todo = todo, !.plan = plan, !.pc = pc])
          BY <3>2 DEF Recalculate
      <4> QED
          BY <4>1, <4>2 DEF Harmless, Fields
    <3>3. ASSUME NEW t \in Task, WriteDates(only, t)
          PROVE  \E next : Harmless(next) /\ Become(only, next)
      <4>1. DOMAIN req[only] = Fields /\ req[only].pc = "write"
          BY <3>3 DEF WriteDates, At, IInv, Shapes, None
      <4>2. \/ Become(only, Ask("flags", req[only].task))
            \/ \E todo : Become(only, [req[only] EXCEPT !.todo = todo])
          BY <3>3 DEF WriteDates
      <4> QED
          BY <4>1, <4>2, AskIsHarmless DEF Harmless, Fields
    <3>4. CASE ReadFlags(only)
      <4>1. DOMAIN req[only] = Fields
          BY <3>4 DEF ReadFlags, At, IInv, Shapes, None
      <4>2. \E flag : Become(only, [req[only] EXCEPT !.pc = "write_flags", !.flag = flag])
          BY <3>4 DEF ReadFlags
      <4> QED
          BY <4>1, <4>2 DEF Harmless, Fields
    <3>5. CASE WriteFlags(only) \/ Abort(only)
        BY <3>5 DEF WriteFlags, Abort, Harmless
    <3> QED
        BY <1>9, <3>1, <3>2, <3>3, <3>4, <3>5
  <2> QED
      BY <1>1, <2>1, <2>2, SafeWithHarmless
<1>10. CASE UNCHANGED vars
    BY <1>1, <1>10 DEF vars, rows, IInv, Shapes, Acyclic, InsertIsSafe, BundleIsSafe, At
<1> QED
    BY <1>2, <1>3, <1>4, <1>5, <1>6, <1>7, <1>8, <1>9, <1>10
       DEF Next, LinkRequest, TaskRequest, Step

(* Served one at a time, with errors at any step, links never form a cycle, *)
(* for any tasks, any links and bundles of any size that name links of the  *)
(* task they belong to.                                                     *)
THEOREM SerialAcyclic ==
    ASSUME NEW only, Handler = {only}, ~AnyLinks
    PROVE  Spec => []Acyclic
<1>1. Init => IInv
    BY InitIsSafe
<1>2. IInv /\ [Next]_vars => IInv'
    BY StepIsSafe
<1>3. IInv => Acyclic
    BY DEF IInv
<1> QED
    BY <1>1, <1>2, <1>3, PTL DEF Spec

-----------------------------------------------------------------------------
(* Types.                                                                   *)

(* The dates of a task, a column holding one day or none.                   *)
Short(d) == d \in Dates /\ AtMostOne(d.start) /\ AtMostOne(d.end)

(* What a request carries may become the dates of a task.                   *)
Good(r) ==
    /\ r \in Request
    /\ \A d \in r.span : Short(d)
    /\ \A t \in Task : Short(r.plan[t])

TInv == TypeOK /\ \A h \in Handler : Idle(h) \/ Good(req[h])

(* Induction over the subsets of a finite set: a smallest bad one is good.  *)
LEMMA BySubsets ==
    ASSUME NEW S, IsFiniteSet(S), NEW good,
           \A s \in SUBSET S : (\A t \in SUBSET s : t # s => t \in good) => s \in good
    PROVE  \A s \in SUBSET S : s \in good
<1> DEFINE bad == {s \in SUBSET S : s \notin good}
<1>1. SUFFICES ASSUME bad # {} PROVE FALSE
    OBVIOUS
<1>2. IsWellFoundedOn(StrictSubsetOrdering(S), SUBSET S)
    BY FS_StrictSubsetOrderingWellFounded, FS_FiniteSubsetsOfFinite
<1>3. PICK s \in bad : \A t \in bad : ~(<<t, s>> \in StrictSubsetOrdering(S))
  <2> HIDE DEF bad
  <2>1. bad \subseteq SUBSET S
      BY DEF bad
  <2> QED
      BY <1>1, <1>2, <2>1, WFMin
<1>4. \A t \in SUBSET s : t # s => t \in good
    BY <1>3 DEF StrictSubsetOrdering
<1> QED
    BY <1>3, <1>4

LEMMA MaxIs ==
    ASSUME NEW S \in SUBSET Int, IsFiniteSet(S), S # {}
    PROVE  Max(S) \in S /\ \A y \in S : Max(S) >= y
<1> DEFINE good == {s \in SUBSET S : s # {} => \E x \in s : \A y \in s : x >= y}
<1>1. ASSUME NEW s \in SUBSET S, \A t \in SUBSET s : t # s => t \in good
      PROVE  s \in good
  <2>1. CASE s = {}
      BY <2>1
  <2>2. CASE s # {}
    <3>1. PICK z \in s : TRUE
        BY <2>2
    <3>2. s \ {z} \in good
        BY <1>1
    <3>3. CASE s \ {z} = {}
        BY <3>1, <3>3
    <3>4. CASE s \ {z} # {}
      <4>1. PICK x \in s \ {z} : \A y \in s \ {z} : x >= y
          BY <3>2, <3>4
      <4>2. \E m \in {x, z} : \A y \in s : m >= y
          BY <4>1
      <4> QED
          BY <4>1, <4>2
    <3> QED
        BY <3>3, <3>4
  <2> QED
      BY <2>1, <2>2
<1>2. \A s \in SUBSET S : s \in good
  <2> HIDE DEF good
  <2> QED
      BY <1>1, BySubsets
<1>3. \E x \in S : \A y \in S : x >= y
    BY <1>2
<1> QED
    BY <1>3 DEF Max

LEMMA MinIs ==
    ASSUME NEW S \in SUBSET Int, IsFiniteSet(S), S # {}
    PROVE  Min(S) \in S /\ \A y \in S : Min(S) <= y
<1> DEFINE T == {-x : x \in S}
           f == [x \in S |-> -x]
<1>1. f \in Surjection(S, T)
    BY DEF Surjection
<1>2. IsFiniteSet(T) /\ T \in SUBSET Int /\ T # {}
  <2>1. IsFiniteSet(T)
      BY <1>1, FS_Surjection
  <2>2. \A x \in S : -x \in Int
      OBVIOUS
  <2> QED
      BY <2>1, <2>2
<1>3. PICK m : m \in T /\ \A y \in T : m >= y
    BY <1>2, MaxIs
<1>4. PICK x \in S : m = -x
    BY <1>3
<1>5. \A y \in S : x <= y
    BY <1>3, <1>4
<1> QED
    BY <1>5 DEF Min

LEMMA ImageIsFinite ==
    ASSUME NEW S, IsFiniteSet(S), NEW f
    PROVE  IsFiniteSet({f[x] : x \in S})
<1> DEFINE T == {f[x] : x \in S}
           g == [x \in S |-> f[x]]
<1>1. g \in Surjection(S, T)
    BY DEF Surjection
<1> QED
    BY <1>1, FS_Surjection

(* Columns of finitely many tasks hold finitely many days.                  *)
LEMMA ColumnsAreFinite ==
    ASSUME NEW S, IsFiniteSet(S), NEW f, \A x \in S : AtMostOne(f[x])
    PROVE  IsFiniteSet(UNION {f[x] : x \in S})
<1>1. ASSUME NEW x \in S PROVE IsFiniteSet(f[x])
  <2>1. CASE f[x] = {}
      BY <2>1, FS_EmptySet
  <2>2. CASE f[x] # {}
    <3>1. PICK y : y \in f[x]
        BY <2>2
    <3>2. f[x] = {y}
        BY <3>1 DEF AtMostOne
    <3> QED
        BY <3>2, FS_Singleton
  <2> QED
      BY <2>1, <2>2
<1>2. \A C \in {f[x] : x \in S} : IsFiniteSet(C)
    BY <1>1
<1> QED
    BY <1>2, ImageIsFinite, FS_UNION

LinkTypes == [type: {"FS", "SS", "FF", "SF", "none"}, lag: Int]
DateMaps == {ds \in [Task -> Dates] : \A t \in Task : Short(ds[t])}

LEMMA ShiftType ==
    ASSUME NEW days \in SUBSET Int, AtMostOne(days), NEW n \in Int
    PROVE  Shift(days, n) \in SUBSET Int /\ AtMostOne(Shift(days, n))
<1>1. \A d \in days : d + n \in Int
    OBVIOUS
<1>2. \A a, b \in Shift(days, n) : a = b
    BY DEF Shift, AtMostOne
<1> QED
    BY <1>1, <1>2 DEF Shift, AtMostOne

LEMMA LatestType ==
    ASSUME NEW days \in SUBSET Int, IsFiniteSet(days)
    PROVE  Latest(days) \in SUBSET Int /\ AtMostOne(Latest(days))
<1>1. days # {} => Max(days) \in Int
    BY MaxIs
<1> QED
    BY <1>1 DEF Latest, AtMostOne

(* The one day there is is the latest.                                      *)
LEMMA LatestOfOne ==
    ASSUME NEW days \in SUBSET Int, AtMostOne(days)
    PROVE  Latest(days) = days
<1>1. CASE days = {}
    BY <1>1 DEF Latest
<1>2. CASE days # {}
  <2>1. PICK d : d \in days
      BY <1>2
  <2>2. days = {d} /\ d \in Int
      BY <2>1 DEF AtMostOne
  <2>3. Max({d}) = d
      BY <2>2 DEF Max
  <2> QED
      BY <1>2, <2>2, <2>3 DEF Latest
<1> QED
    BY <1>1, <1>2

LEMMA BoundTypes ==
    ASSUME NEW d, Short(d), NEW k \in LinkTypes
    PROVE  /\ StartBound(d, k) \in SUBSET Int /\ AtMostOne(StartBound(d, k))
           /\ EndBound(d, k) \in SUBSET Int /\ AtMostOne(EndBound(d, k))
<1>1. /\ d.start \in SUBSET Int /\ AtMostOne(d.start)
      /\ d.end \in SUBSET Int /\ AtMostOne(d.end)
    BY DEF Short, Dates
<1>2. PreEnd(d) \in SUBSET Int /\ AtMostOne(PreEnd(d))
    BY <1>1 DEF PreEnd
<1>3. k.lag \in Int /\ k.lag + 1 \in Int
    BY DEF LinkTypes
<1>4. {} \in SUBSET Int /\ AtMostOne({})
    BY DEF AtMostOne
<1>5. /\ Shift(PreEnd(d), k.lag + 1) \in SUBSET Int /\ AtMostOne(Shift(PreEnd(d), k.lag + 1))
      /\ Shift(PreEnd(d), k.lag) \in SUBSET Int /\ AtMostOne(Shift(PreEnd(d), k.lag))
      /\ Shift(d.start, k.lag) \in SUBSET Int /\ AtMostOne(Shift(d.start, k.lag))
  <2> HIDE DEF AtMostOne, PreEnd
  <2> QED
      BY <1>1, <1>2, <1>3, ShiftType
<1>6. /\ StartBound(d, k) \in {Shift(PreEnd(d), k.lag + 1), Shift(d.start, k.lag), {}}
      /\ EndBound(d, k) \in {Shift(PreEnd(d), k.lag), Shift(d.start, k.lag), {}}
    BY DEF StartBound, EndBound
<1> HIDE DEF AtMostOne
<1> QED
    BY <1>4, <1>5, <1>6

LEMMA LengthType ==
    ASSUME NEW d, Short(d)
    PROVE  Length(d) \in Nat
<1> DEFINE S == {0} \cup {e - s : s \in d.start, e \in d.end}
<1>1. /\ d.start \in SUBSET Int /\ \A a, b \in d.start : a = b
      /\ d.end \in SUBSET Int /\ \A a, b \in d.end : a = b
    BY DEF Short, Dates, AtMostOne
<1>2. S = {0} \/ \E x \in Int : S = {0, x}
  <2>1. CASE d.start = {} \/ d.end = {}
      BY <2>1
  <2>2. CASE d.start # {} /\ d.end # {}
    <3>1. PICK s \in d.start, e \in d.end : TRUE
        BY <2>2
    <3>2. d.start = {s} /\ d.end = {e} /\ e - s \in Int
        BY <1>1, <3>1
    <3>3. S = {0, e - s}
        BY <3>2
    <3> QED
        BY <3>2, <3>3
  <2> QED
      BY <2>1, <2>2
<1>3. S \in SUBSET Int /\ 0 \in S /\ IsFiniteSet(S)
  <2> HIDE DEF S
  <2>1. IsFiniteSet({0})
      BY FS_Singleton
  <2>2. CASE S = {0}
      BY <2>1, <2>2
  <2>3. ASSUME NEW x \in Int, S = {0, x}
        PROVE  S \in SUBSET Int /\ 0 \in S /\ IsFiniteSet(S)
    <3>1. S = {0} \cup {x}
        BY <2>3
    <3>2. IsFiniteSet({0} \cup {x})
        BY <2>1, FS_AddElement
    <3> QED
        BY <2>3, <3>1, <3>2
  <2> QED
      BY <1>2, <2>2, <2>3
<1>4. Max(S) \in Int /\ Max(S) >= 0
  <2> HIDE DEF S
  <2> QED
      BY <1>3, MaxIs
<1> QED
    BY <1>4 DEF Length

LEMMA MergeType ==
    ASSUME IsFiniteSet(Task), NEW t \in Task, NEW ds \in DateMaps, NEW l \in [Edge -> LinkTypes]
    PROVE  Short(MergeConstraints(t, ds, l))
<1> DEFINE pre == Predecessors(Graph(l), t)
           fs == [p \in Task |-> StartBound(ds[p], l[<<p, t>>])]
           fe == [p \in Task |-> EndBound(ds[p], l[<<p, t>>])]
           starts == UNION {StartBound(ds[p], l[<<p, t>>]) : p \in pre}
           ends == UNION {EndBound(ds[p], l[<<p, t>>]) : p \in pre}
<1>1. pre \in SUBSET Task /\ IsFiniteSet(pre)
  <2>1. pre \in SUBSET Task
      BY DEF Predecessors
  <2> QED
      BY <2>1, FS_Subset
<1>2. ASSUME NEW p \in pre
      PROVE  /\ fs[p] = StartBound(ds[p], l[<<p, t>>]) /\ fs[p] \in SUBSET Int /\ AtMostOne(fs[p])
             /\ fe[p] = EndBound(ds[p], l[<<p, t>>]) /\ fe[p] \in SUBSET Int /\ AtMostOne(fe[p])
  <2>1. p \in Task /\ l[<<p, t>>] \in LinkTypes /\ Short(ds[p])
      BY <1>1 DEF Edge, DateMaps
  <2>2. fs[p] = StartBound(ds[p], l[<<p, t>>]) /\ fe[p] = EndBound(ds[p], l[<<p, t>>])
      BY <2>1
  <2> HIDE DEF fs, fe
  <2> QED
      BY <2>1, <2>2, BoundTypes
<1>3. starts = UNION {fs[p] : p \in pre} /\ ends = UNION {fe[p] : p \in pre}
    BY <1>2
<1> HIDE DEF pre, fs, fe
<1>4. /\ starts \in SUBSET Int /\ IsFiniteSet(starts)
      /\ ends \in SUBSET Int /\ IsFiniteSet(ends)
  <2>0. (\A p \in pre : AtMostOne(fs[p])) /\ (\A p \in pre : AtMostOne(fe[p]))
      BY <1>2
  <2>1. IsFiniteSet(UNION {fs[p] : p \in pre})
      BY <1>1, <2>0, ColumnsAreFinite
  <2>2. IsFiniteSet(UNION {fe[p] : p \in pre})
      BY <1>1, <2>0, ColumnsAreFinite
  <2>3. UNION {fs[p] : p \in pre} \in SUBSET Int /\ UNION {fe[p] : p \in pre} \in SUBSET Int
      BY <1>2
  <2> QED
      BY <1>3, <2>1, <2>2, <2>3
<1> HIDE DEF starts, ends
<1> DEFINE start == Latest(starts)
           end == Latest(ends)
           length == Length(ds[t])
<1>5. /\ start \in SUBSET Int /\ AtMostOne(start)
      /\ end \in SUBSET Int /\ AtMostOne(end)
    BY <1>4, LatestType
<1>6. /\ Short(ds[t]) /\ length \in Nat
      /\ ds[t].start \in SUBSET Int /\ AtMostOne(ds[t].start)
      /\ ds[t].end \in SUBSET Int /\ AtMostOne(ds[t].end)
    BY LengthType DEF DateMaps, Short, Dates
<1>7. MergeConstraints(t, ds, l) =
        CASE start # {} /\ length > 0 -> [start |-> start, end |-> Shift(start, length)]
          [] start # {} /\ length = 0 -> [start |-> start, end |-> IF end # {} THEN end ELSE ds[t].end]
          [] start = {} /\ end # {} ->
                [start |-> IF length > 0 THEN Shift(end, -length) ELSE ds[t].start, end |-> end]
          [] OTHER -> ds[t]
    BY DEF MergeConstraints, starts, ends, pre
<1> HIDE DEF start, end, length
<1>8. /\ Shift(start, length) \in SUBSET Int /\ AtMostOne(Shift(start, length))
      /\ Shift(end, -length) \in SUBSET Int /\ AtMostOne(Shift(end, -length))
    BY <1>5, <1>6, ShiftType
<1>9. ASSUME NEW a \in SUBSET Int, NEW b \in SUBSET Int, AtMostOne(a), AtMostOne(b)
      PROVE  Short([start |-> a, end |-> b])
    BY <1>9 DEF Short, Dates
<1> HIDE DEF AtMostOne, Short
<1>10. CASE start # {} /\ length > 0
    BY <1>5, <1>7, <1>8, <1>9, <1>10
<1>11. CASE start # {} /\ length = 0
    BY <1>5, <1>6, <1>7, <1>9, <1>11
<1>12. CASE start = {} /\ end # {}
    BY <1>5, <1>6, <1>7, <1>8, <1>9, <1>12
<1>13. CASE start = {} /\ end = {}
    BY <1>6, <1>7, <1>13
<1> QED
    BY <1>6, <1>10, <1>11, <1>12, <1>13

-----------------------------------------------------------------------------
(* What Propagate computes.  The library folds a sequence with a recursive  *)
(* function of the positions visited so far, which is shown here to exist,  *)
(* to keep the types, and to merge each task once.                          *)
Merged(t, ds, l) == [ds EXCEPT ![t] = MergeConstraints(t, ds, l)]

Folds(g, o, ds, l) ==
    g = [s \in SUBSET (DOMAIN o) |->
            IF s = {} THEN ds ELSE Merged(o[Max(s)], g[s \ {Max(s)}], l)]

LEMMA PropagateDef ==
    ASSUME NEW o, NEW ds, NEW l
    PROVE  Propagate(o, ds, l) = (CHOOSE g : Folds(g, o, ds, l))[DOMAIN o]
BY DEF Propagate, FoldLeft, MapThenFoldSet, Folds, Merged

(* Positions of a sequence.                                                 *)
LEMMA Positions ==
    ASSUME NEW n \in Nat, NEW s \in SUBSET (1..n)
    PROVE  /\ IsFiniteSet(s) /\ Cardinality(s) \in Nat /\ Cardinality(s) <= Cardinality(1..n)
           /\ Cardinality(s) = 0 <=> s = {}
           /\ s # {} => /\ Max(s) \in s /\ \A i \in s : i <= Max(s)
                        /\ Cardinality(s \ {Max(s)}) = Cardinality(s) - 1
<1>1. IsFiniteSet(1..n)
    BY FS_Interval
<1>2. IsFiniteSet(s) /\ Cardinality(s) <= Cardinality(1..n)
    BY <1>1, FS_Subset
<1>3. Cardinality(s) \in Nat /\ (Cardinality(s) = 0 <=> s = {})
    BY <1>2, FS_CardinalityType, FS_EmptySet
<1>4. s \in SUBSET Int
    OBVIOUS
<1>5. s # {} => Max(s) \in s /\ \A i \in s : i <= Max(s)
    BY <1>2, <1>4, MaxIs
<1>6. s # {} => Cardinality(s \ {Max(s)}) = Cardinality(s) - 1
    BY <1>2, <1>5, FS_RemoveElement
<1> QED
    BY <1>2, <1>3, <1>5, <1>6

LEMMA FoldExists ==
    ASSUME NEW n \in Nat, NEW o, DOMAIN o = 1..n, NEW ds, NEW l
    PROVE  \E g : Folds(g, o, ds, l)
<1> DEFINE S == 1..n
           Small(k) == {s \in SUBSET S : Cardinality(s) <= k}
           Upto(k, g) == g = [s \in Small(k) |->
                        IF s = {} THEN ds ELSE Merged(o[Max(s)], g[s \ {Max(s)}], l)]
           good == {s \in SUBSET S : \E g : Upto(Cardinality(s), g)}
<1>0. IsFiniteSet(S)
    BY FS_Interval
<1>1. ASSUME NEW s \in SUBSET S
      PROVE  /\ IsFiniteSet(s) /\ Cardinality(s) \in Nat
             /\ Cardinality(s) <= Cardinality(S)
             /\ s # {} => /\ Max(s) \in s
                          /\ Cardinality(s \ {Max(s)}) = Cardinality(s) - 1
             /\ Cardinality(s) = 0 <=> s = {}
    BY Positions
<1> HIDE DEF S
<1>2. ASSUME NEW s \in SUBSET S, \A t \in SUBSET s : t # s => t \in good
      PROVE  s \in good
  <2> DEFINE m == Cardinality(s)
  <2>1. CASE s = {}
    <3>1. Upto(0, [u \in Small(0) |-> ds])
        BY <1>1
    <3>2. Cardinality(s) = 0
        BY <1>1, <2>1
    <3>3. \E g : Upto(Cardinality(s), g)
      <4> HIDE DEF Upto
      <4> QED
          BY <3>1, <3>2
    <3> QED
        BY <3>3
  <2>2. CASE s # {}
    <3>1. m \in Nat /\ m # 0 /\ s \ {Max(s)} \in good
        BY <1>1, <1>2, <2>2
    <3>2. PICK g : Upto(m - 1, g)
      <4>1. Cardinality(s \ {Max(s)}) = m - 1
          BY <1>1, <2>2
      <4>2. \E g : Upto(Cardinality(s \ {Max(s)}), g)
          BY <3>1
      <4> HIDE DEF Upto
      <4> QED
          BY <4>1, <4>2
    <3> DEFINE h == [u \in Small(m) |->
                        IF u = {} THEN ds ELSE Merged(o[Max(u)], g[u \ {Max(u)}], l)]
    <3>3. \A u \in Small(m - 1) : u \in Small(m)
      <4>1. \A k \in Nat : k <= m - 1 => k <= m
          BY <3>1
      <4> QED
          BY <1>1, <4>1
    <3>4. ASSUME NEW u \in Small(m), u # {} PROVE u \ {Max(u)} \in Small(m - 1)
      <4> DEFINE k == Cardinality(u)
      <4>1. k \in Nat /\ k <= m /\ Cardinality(u \ {Max(u)}) = k - 1
          BY <1>1, <3>4
      <4> HIDE DEF k, m
      <4>2. k - 1 <= m - 1
          BY <3>1, <4>1
      <4> QED
          BY <4>1, <4>2
    <3>5. \A u \in Small(m - 1) : h[u] = g[u]
        BY <3>2, <3>3
    <3>6. Upto(m, h)
        BY <3>3, <3>4, <3>5
    <3> QED
        BY <3>6
  <2> QED
      BY <2>1, <2>2
<1>3. S \in good
  <2> HIDE DEF good
  <2> QED
      BY <1>0, <1>2, BySubsets
<1>4. PICK g : Upto(Cardinality(S), g)
    BY <1>3
<1>5. Small(Cardinality(S)) = SUBSET S
    BY <1>1
<1> QED
    BY <1>4, <1>5 DEF Folds, S

LEMMA PropagateFolds ==
    ASSUME NEW n \in Nat, NEW o, DOMAIN o = 1..n, NEW ds, NEW l
    PROVE  \E g : Folds(g, o, ds, l) /\ Propagate(o, ds, l) = g[1..n]
<1> DEFINE g == CHOOSE g : Folds(g, o, ds, l)
<1>1. Folds(g, o, ds, l)
    BY FoldExists
<1> QED
    BY <1>1, PropagateDef

(* Each fold is of the positions it is asked for.                           *)
LEMMA FoldUnfolds ==
    ASSUME NEW n \in Nat, NEW o, DOMAIN o = 1..n, NEW ds, NEW l, NEW g, Folds(g, o, ds, l),
           NEW s \in SUBSET (1..n)
    PROVE  /\ s = {} => g[s] = ds
           /\ s # {} => g[s] = Merged(o[Max(s)], g[s \ {Max(s)}], l)
BY DEF Folds

LEMMA FoldType ==
    ASSUME IsFiniteSet(Task), NEW n \in Nat, NEW o \in [1..n -> Task],
           NEW ds \in DateMaps, NEW l \in [Edge -> LinkTypes], NEW g, Folds(g, o, ds, l)
    PROVE  \A s \in SUBSET (1..n) : g[s] \in DateMaps
<1> DEFINE S == 1..n
           good == {s \in SUBSET S : g[s] \in DateMaps}
<1>0. DOMAIN o = 1..n
    OBVIOUS
<1>1. ASSUME NEW s \in SUBSET S, \A t \in SUBSET s : t # s => t \in good
      PROVE  s \in good
  <2>1. CASE s = {}
    <3>1. g[s] = ds
        BY <1>0, <2>1 DEF Folds
    <3> QED
        BY <3>1
  <2>2. CASE s # {}
    <3> DEFINE m == Max(s)
               acc == g[s \ {m}]
    <3>1. m \in s /\ m \in 1..n
        BY <2>2, Positions
    <3>2. acc \in DateMaps
        BY <1>1, <3>1
    <3>3. g[s] = Merged(o[m], acc, l)
        BY <1>0, <2>2, FoldUnfolds
    <3> HIDE DEF m, acc
    <3>4. o[m] \in Task /\ Short(MergeConstraints(o[m], acc, l))
        BY <3>1, <3>2, MergeType
    <3>5. Merged(o[m], acc, l) \in DateMaps
        BY <3>2, <3>4 DEF Merged, DateMaps, Short
    <3> QED
        BY <3>3, <3>5
  <2> QED
      BY <2>1, <2>2
<1>2. IsFiniteSet(S)
    BY FS_Interval
<1> HIDE DEF good, S
<1>3. \A s \in SUBSET S : s \in good
    BY <1>1, <1>2, BySubsets
<1> QED
    BY <1>3 DEF good, S

LEMMA PropagateType ==
    ASSUME IsFiniteSet(Task), NEW g \in SUBSET Edge, NEW seed \in Task, NEW o \in VisitOrders(g, seed),
           NEW ds \in DateMaps, NEW l \in [Edge -> LinkTypes]
    PROVE  Propagate(o, ds, l) \in DateMaps
<1>1. PICK n \in Nat : o \in [1..n -> Task]
  <2>1. Reach(g, seed) \in SUBSET Task /\ IsFiniteSet(Reach(g, seed))
    <3>1. Reach(g, seed) \in SUBSET Task
        BY DEF Reach
    <3> QED
        BY <3>1, FS_Subset
  <2>2. Cardinality(Reach(g, seed)) \in Nat
      BY <2>1, FS_CardinalityType
  <2>3. o \in [1..Cardinality(Reach(g, seed)) -> Reach(g, seed)]
      BY DEF VisitOrders, SetToSeqs
  <2> QED
      BY <2>1, <2>2, <2>3
<1>2. DOMAIN o = 1..n
    BY <1>1
<1>3. PICK f : Folds(f, o, ds, l) /\ Propagate(o, ds, l) = f[1..n]
    BY <1>2, PropagateFolds
<1> QED
    BY <1>1, <1>3, FoldType

-----------------------------------------------------------------------------
(* Steps keep the types.                                                    *)

LEMMA SpanIsShort == ASSUME ScheduleAssumption, NEW d \in Span PROVE Short(d)
BY DEF ScheduleAssumption, Short

LEMMA LinksAreTyped == ASSUME ScheduleAssumption, TypeOK PROVE link \in [Edge -> LinkTypes]
BY DEF ScheduleAssumption, TypeOK, LinkTypes, NoLink

LEMMA DatesAreTyped == ASSUME TypeOK PROVE dates \in DateMaps
BY DEF TypeOK, DateMaps, Short

LEMMA NoneIsNoRequest == None \notin Request
BY DEF None, Request

LEMMA AskIsGood ==
    ASSUME NEW pc \in {"insert", "apply", "count", "recalculate", "flags"}, NEW t \in Task
    PROVE  Good(Ask(pc, t))
<1>1. [start |-> {}, end |-> {}] \in Dates /\ Short([start |-> {}, end |-> {}])
    BY DEF Dates, Short, AtMostOne
<1>2. Ask(pc, t) \in Request
    BY <1>1 DEF Ask, Request
<1>3. Ask(pc, t).span = {} /\ \A u \in Task : Ask(pc, t).plan[u] = [start |-> {}, end |-> {}]
    BY DEF Ask
<1> QED
    BY <1>1, <1>2, <1>3 DEF Good

LEMMA BecomeIsTyped ==
    ASSUME TInv, NEW h \in Handler, NEW r, r = None \/ Good(r), Become(h, r)
    PROVE  /\ req' \in [Handler -> Request \cup {None}]
           /\ \A k \in Handler : Idle(k)' \/ Good(req[k])'
<1>1. r \in Request \cup {None}
    BY DEF Good
<1>2. req' \in [Handler -> Request \cup {None}]
    BY <1>1 DEF TInv, TypeOK, Become
<1>3. ASSUME NEW k \in Handler PROVE Idle(k)' \/ Good(req[k])'
  <2>1. CASE k = h
    <3>1. req'[k] = r
        BY <2>1 DEF Become, TInv, TypeOK
    <3> QED
        BY <3>1 DEF Idle, Good
  <2>2. CASE k # h
    <3>1. req'[k] = req[k]
        BY <2>2 DEF Become, TInv, TypeOK
    <3> QED
        BY <3>1 DEF Idle, Good, TInv
  <2> QED
      BY <2>1, <2>2
<1> QED
    BY <1>2, <1>3

LEMMA AtIsGood ==
    ASSUME TInv, NEW h \in Handler, req[h].pc # "idle"
    PROVE  Good(req[h])
BY DEF TInv, Idle, None

LEMMA BeginIsTyped ==
    ASSUME ScheduleAssumption, TInv, NEW h \in Handler, Begin(h)
    PROVE  served' \in 0..MaxRequests
BY DEF ScheduleAssumption, TInv, TypeOK, Begin

LEMMA MergingType == \A l : Merging(l) \subseteq {"dates", "critical"}
BY DEF Merging

LEMMA LinkRequestIsTyped ==
    ASSUME ScheduleAssumption, TInv, NEW h \in Handler, LinkRequest(h)
    PROVE  TInv'
<1>1. ASSUME NEW p \in Task, NEW s \in Task, CreateCheck(h, p, s)
      PROVE  TInv'
  <2>1. PICK k \in Link : Become(h, [Ask("insert", s) EXCEPT !.add = {<<p, s>>}, !.link = k])
      BY <1>1 DEF CreateCheck
  <2> DEFINE r == [Ask("insert", s) EXCEPT !.add = {<<p, s>>}, !.link = k]
  <2>2. Good(Ask("insert", s)) /\ {<<p, s>>} \in SUBSET Edge
      BY AskIsGood DEF Edge
  <2>3. Good(r)
      BY <2>2 DEF Good, Request
  <2> HIDE DEF r
  <2>4. served' \in 0..MaxRequests
      BY <1>1, BeginIsTyped DEF CreateCheck
  <2>5. /\ req' \in [Handler -> Request \cup {None}]
        /\ \A k_1 \in Handler : Idle(k_1)' \/ Good(req[k_1])'
      BY <2>1, <2>3, BecomeIsTyped DEF r
  <2> QED
      BY <1>1, <2>4, <2>5 DEF CreateCheck, TInv, TypeOK, rows
<1>2. ASSUME NEW e \in Edge, NEW pc \in {"recalculate", "flags"},
             UpdateLink(h, e) \/ RemoveLink(h, e), Become(h, Ask(pc, e[2]))
      PROVE  TInv'
  <2>1. Good(Ask(pc, e[2]))
      BY AskIsGood DEF Edge
  <2>2. served' \in 0..MaxRequests
      BY <1>2, BeginIsTyped DEF UpdateLink, RemoveLink
  <2>3. /\ req' \in [Handler -> Request \cup {None}]
        /\ \A k \in Handler : Idle(k)' \/ Good(req[k])'
      BY <1>2, <2>1, BecomeIsTyped
  <2>4. link' \in [Edge -> Link \cup {NoLink}]
      BY <1>2 DEF UpdateLink, RemoveLink, TInv, TypeOK
  <2> QED
      BY <1>2, <2>2, <2>3, <2>4 DEF UpdateLink, RemoveLink, TInv, TypeOK
<1> QED
    BY <1>1, <1>2 DEF LinkRequest, UpdateLink, RemoveLink

LEMMA TaskRequestIsTyped ==
    ASSUME ScheduleAssumption, TInv, NEW h \in Handler, TaskRequest(h)
    PROVE  TInv'
<1>1. ASSUME NEW t \in Task, EditDates(h, t)
      PROVE  TInv'
  <2>1. PICK d \in Span : dates' = [dates EXCEPT ![t] = d]
      BY <1>1 DEF EditDates
  <2>2. Short(d)
      BY SpanIsShort
  <2>3. dates' \in [Task -> Dates] /\ \A u \in Task : AtMostOne(dates'[u].start) /\ AtMostOne(dates'[u].end)
      BY <2>1, <2>2 DEF Short, TInv, TypeOK
  <2>4. /\ req' \in [Handler -> Request \cup {None}]
        /\ \A k \in Handler : Idle(k)' \/ Good(req[k])'
      BY <1>1, AskIsGood, BecomeIsTyped DEF EditDates
  <2>5. served' \in 0..MaxRequests
      BY <1>1, BeginIsTyped DEF EditDates
  <2> QED
      BY <1>1, <2>3, <2>4, <2>5 DEF EditDates, TInv, TypeOK
<1>2. ASSUME NEW t \in Task, NEW add \in Few, NEW remove \in Few, BundleValidate(h, t, add, remove)
      PROVE  TInv'
  <2>1. PICK k \in Link \cup {NoLink}, span \in {{}} \cup {{d} : d \in Span \ {dates[t]}} :
            Become(h, [Ask("apply", t) EXCEPT !.add = add, !.remove = remove,
                                              !.link = k, !.span = span])
    <3>1. (IF add = {} THEN {NoLink} ELSE Link) \subseteq Link \cup {NoLink}
        OBVIOUS
    <3> QED
        BY <1>2, <3>1 DEF BundleValidate
  <2> DEFINE r == [Ask("apply", t) EXCEPT !.add = add, !.remove = remove,
                                          !.link = k, !.span = span]
  <2>2. Good(Ask("apply", t)) /\ add \in SUBSET Edge /\ remove \in SUBSET Edge
      BY AskIsGood DEF Few
  <2>3. span \subseteq Span
      BY <2>1
  <2>4. \A d \in span : Short(d)
      BY <2>3, SpanIsShort
  <2>5. span \in SUBSET Dates
      BY <2>4 DEF Short
  <2>6. Good(r)
      BY <2>2, <2>4, <2>5 DEF Good, Request
  <2> HIDE DEF r
  <2>7. /\ req' \in [Handler -> Request \cup {None}]
        /\ \A h_1 \in Handler : Idle(h_1)' \/ Good(req[h_1])'
      BY <2>1, <2>6, BecomeIsTyped DEF r
  <2>8. served' \in 0..MaxRequests
      BY <1>2, BeginIsTyped DEF BundleValidate
  <2> QED
      BY <1>2, <2>7, <2>8 DEF BundleValidate, TInv, TypeOK, rows
<1> QED
    BY <1>1, <1>2 DEF TaskRequest

LEMMA StepIsTyped ==
    ASSUME ScheduleAssumption, TInv, NEW h \in Handler, Step(h)
    PROVE  TInv'
<1> DEFINE r == req[h]
<1>1. ASSUME NEW next, next = None \/ Good(next), Become(h, next),
             link' \in [Edge -> Link \cup {NoLink}],
             dates' \in DateMaps,
             critical' \subseteq Task,
             waived' \subseteq {"dates", "critical"},
             UNCHANGED <<served, faults>>
      PROVE  TInv'
  <2>1. /\ req' \in [Handler -> Request \cup {None}]
        /\ \A k \in Handler : Idle(k)' \/ Good(req[k])'
      BY <1>1, BecomeIsTyped
  <2>2. dates' \in [Task -> Dates] /\ \A u \in Task : AtMostOne(dates'[u].start) /\ AtMostOne(dates'[u].end)
      BY <1>1 DEF DateMaps, Short
  <2> QED
      BY <1>1, <2>1, <2>2 DEF TInv, TypeOK
<1>2. /\ link \in [Edge -> Link \cup {NoLink}] /\ dates \in DateMaps /\ critical \subseteq Task
      /\ waived \subseteq {"dates", "critical"}
    BY DatesAreTyped DEF TInv, TypeOK
<1>3. Good(r) /\ r \in Request
  <2>1. r.pc # "idle"
      BY DEF Step, CreateInsert, BundleApply, Count, Recalculate, WriteDates, ReadFlags, WriteFlags, At
  <2> QED
      BY <2>1, AtIsGood DEF Good
<1>4. CASE CreateInsert(h)
  <2>1. link' \in [Edge -> Link \cup {NoLink}] /\ waived' \subseteq {"dates", "critical"}
    <3>1. [e \in Edge |-> IF e \in r.add THEN r.link ELSE link[e]] \in [Edge -> Link \cup {NoLink}]
        BY <1>2, <1>3 DEF Request
    <3> QED
        BY <1>2, <1>4, <3>1, MergingType DEF CreateInsert
  <2>2. Become(h, None) \/ Become(h, Ask("recalculate", r.task))
      BY <1>4 DEF CreateInsert
  <2>3. Good(Ask("recalculate", r.task))
      BY <1>3, AskIsGood DEF Request
  <2> QED
      BY <1>1, <1>2, <1>4, <2>1, <2>2, <2>3 DEF CreateInsert
<1>5. CASE BundleApply(h)
  <2>1. link' \in [Edge -> Link \cup {NoLink}]
    <3>1. \A gone : [e \in Edge |-> IF e \in r.add THEN r.link
                                   ELSE IF e \in gone THEN NoLink ELSE link[e]]
                       \in [Edge -> Link \cup {NoLink}]
        BY <1>2, <1>3 DEF Request
    <3> QED
        BY <1>5, <3>1 DEF BundleApply
  <2>2. dates' \in DateMaps
    <3>1. dates' = dates \/ \E d \in r.span : dates' = [dates EXCEPT ![r.task] = d]
        BY <1>5 DEF BundleApply
    <3>2. \A d \in r.span : Short(d) /\ d \in Dates
        BY <1>3 DEF Good, Short
    <3> QED
        BY <1>2, <3>1, <3>2 DEF DateMaps
  <2>3. Become(h, None) \/ (\E seed \in Task : Become(h, Ask("count", seed)))
    <3>1. r.task \in Task /\ r.add \in SUBSET Edge
        BY <1>3 DEF Request
    <3>2. \A e \in Edge : e[2] \in Task
        BY DEF Edge
    <3>3. Own(r.task, r.remove \cap Graph(link)) \in SUBSET Edge
        BY DEF Own, Graph
    <3>4. \A e \in (IF Own(r.task, r.remove \cap Graph(link)) # {}
                    THEN Own(r.task, r.remove \cap Graph(link)) ELSE r.add) : e[2] \in Task
        BY <3>1, <3>2, <3>3
    <3> QED
        BY <1>5, <3>1, <3>4 DEF BundleApply
  <2>4. waived' \subseteq {"dates", "critical"}
    <3>1. \/ waived' = waived
          \/ \E a, b \in SUBSET {"dates", "critical"} : \E l : waived' = waived \cup Merging(l) \cup a \cup b
      <4>1. \A c : (IF c THEN {"dates"} ELSE {}) \in SUBSET {"dates", "critical"}
          OBVIOUS
      <4>2. \A c : (IF c THEN {"critical"} ELSE {}) \in SUBSET {"dates", "critical"}
          OBVIOUS
      <4> QED
          BY <1>5, <4>1, <4>2 DEF BundleApply
    <3> QED
        BY <1>2, <3>1, MergingType
  <2>5. \A seed \in Task : Good(Ask("count", seed))
      BY AskIsGood
  <2> QED
      BY <1>1, <1>2, <1>5, <2>1, <2>2, <2>3, <2>4, <2>5 DEF BundleApply
<1>6. CASE Count(h)
  <2>1. Good([r EXCEPT !.pc = "recalculate"])
      BY <1>3 DEF Good, Request
  <2>2. Become(h, None) \/ Become(h, [r EXCEPT !.pc = "recalculate"])
    <3>1. Goto(h, "recalculate") => Become(h, [r EXCEPT !.pc = "recalculate"])
        BY DEF Goto, Become
    <3> QED
        BY <1>6, <3>1 DEF Count
  <2> QED
      BY <1>1, <1>2, <1>6, <2>1, <2>2 DEF Count, rows
<1>7. CASE Recalculate(h)
  <2>1. PICK order \in VisitOrders(Graph(link), r.task) :
          LET new == Propagate(order, dates, link)
              changed == {t \in Task : new[t] # dates[t]}
          IN Become(h, [r EXCEPT !.todo = changed,
                                 !.plan = [t \in Task |-> IF t \in changed THEN new[t]
                                                          ELSE r.plan[t]],
                                 !.pc = IF changed = {} THEN "flags" ELSE "write"])
      BY <1>7 DEF Recalculate
  <2> DEFINE new == Propagate(order, dates, link)
             changed == {t \in Task : new[t] # dates[t]}
             plan == [t \in Task |-> IF t \in changed THEN new[t] ELSE r.plan[t]]
             next == [r EXCEPT !.todo = changed, !.plan = plan,
                               !.pc = IF changed = {} THEN "flags" ELSE "write"]
  <2>2. Become(h, next)
      BY <2>1
  <2>3. new \in DateMaps
    <3>1. r.task \in Task /\ Graph(link) \in SUBSET Edge /\ link \in [Edge -> LinkTypes] /\ IsFiniteSet(Task)
        BY <1>3, GraphIsEdges, LinksAreTyped DEF Request, ScheduleAssumption, TInv
    <3> QED
        BY <1>2, <3>1, PropagateType
  <2> HIDE DEF new
  <2>4. changed \in SUBSET Task /\ plan \in [Task -> Dates] /\ \A t \in Task : Short(plan[t])
      BY <1>3, <2>3 DEF DateMaps, Good, Short
  <2> HIDE DEF changed, plan
  <2>5. Good(next)
      BY <1>3, <2>4 DEF Good, Request
  <2> HIDE DEF next
  <2> QED
      BY <1>1, <1>2, <1>7, <2>2, <2>5 DEF Recalculate, rows
<1>8. ASSUME NEW t \in Task, WriteDates(h, t)
      PROVE  TInv'
  <2>1. dates' \in DateMaps
    <3>1. Short(r.plan[t]) /\ r.plan[t] \in Dates
        BY <1>3 DEF Good, Short
    <3> QED
        BY <1>2, <1>8, <3>1 DEF WriteDates, DateMaps
  <2>2. Good(Ask("flags", r.task))
      BY <1>3, AskIsGood DEF Request
  <2>3. Good([r EXCEPT !.todo = @ \ {t}])
      BY <1>3 DEF Good, Request
  <2>4. Become(h, Ask("flags", r.task)) \/ Become(h, [r EXCEPT !.todo = @ \ {t}])
      BY <1>8 DEF WriteDates
  <2> QED
      BY <1>1, <1>2, <1>8, <2>1, <2>2, <2>3, <2>4 DEF WriteDates
<1>9. CASE ReadFlags(h)
  <2>1. CriticalTasks(dates, link) \in SUBSET Task
      BY DEF CriticalTasks
  <2> DEFINE next == [r EXCEPT !.pc = "write_flags", !.flag = CriticalTasks(dates, link)]
  <2>2. Good(next)
      BY <1>3, <2>1 DEF Good, Request
  <2>3. Become(h, next)
      BY <1>9 DEF ReadFlags
  <2> HIDE DEF next
  <2> QED
      BY <1>1, <1>2, <1>9, <2>2, <2>3 DEF ReadFlags, rows
<1>10. CASE WriteFlags(h)
  <2>1. r.flag \subseteq Task
      BY <1>3 DEF Request
  <2> QED
      BY <1>1, <1>2, <1>10, <2>1 DEF WriteFlags
<1> QED
    BY <1>4, <1>5, <1>6, <1>7, <1>8, <1>9, <1>10 DEF Step

LEMMA TypesStep == ASSUME ScheduleAssumption, TInv, [Next]_vars PROVE TInv'
<1>1. ASSUME NEW h \in Handler, Abort(h)
      PROVE  TInv'
  <2>1. faults' \in 0..MaxFaults
      BY <1>1 DEF Abort, TInv, TypeOK, ScheduleAssumption
  <2>2. /\ req' \in [Handler -> Request \cup {None}]
        /\ \A k \in Handler : Idle(k)' \/ Good(req[k])'
      BY <1>1, BecomeIsTyped DEF Abort
  <2>3. waived' \subseteq {"dates", "critical"}
      BY <1>1 DEF Abort, TInv, TypeOK
  <2> QED
      BY <1>1, <2>1, <2>2, <2>3 DEF Abort, TInv, TypeOK, rows
<1>2. CASE UNCHANGED vars
    BY <1>2 DEF vars, rows, TInv, TypeOK, Idle, Good
<1> QED
    BY <1>1, <1>2, LinkRequestIsTyped, TaskRequestIsTyped, StepIsTyped DEF Next

LEMMA TypesInit == ASSUME ScheduleAssumption, Init PROVE TInv
<1>1. \A t \in Task : Short(dates[t])
    BY SpanIsShort DEF Init
<1>2. dates \in [Task -> Dates] /\ \A t \in Task : AtMostOne(dates[t].start) /\ AtMostOne(dates[t].end)
    BY <1>1 DEF Init, Short
<1>3. link \in [Edge -> Link \cup {NoLink}] /\ req \in [Handler -> Request \cup {None}]
    BY DEF Init
<1>4. served \in 0..MaxRequests /\ faults \in 0..MaxFaults
    BY DEF Init, ScheduleAssumption
<1>5. \A h \in Handler : Idle(h)
    BY DEF Init, Idle
<1> QED
    BY <1>2, <1>3, <1>4, <1>5 DEF Init, TInv, TypeOK

LEMMA TypesHold == ASSUME ScheduleAssumption PROVE Spec => []TInv
<1>1. Init => TInv
    BY TypesInit
<1>2. TInv /\ [Next]_vars => TInv'
    BY TypesStep
<1> QED
    BY <1>1, <1>2, PTL DEF Spec

(* Every state has the types that TypeOK says, with any number of requests  *)
(* at a time: in particular a date column never gets two days, whatever     *)
(* links and dates the propagation merges.                                  *)
THEOREM TypeCorrect == ASSUME ScheduleAssumption PROVE Spec => []TypeOK
<1>1. TInv => TypeOK
    BY DEF TInv
<1> QED
    BY <1>1, TypesHold, PTL

-----------------------------------------------------------------------------
(* Links that are respected, one request at a time.                         *)

(* A link is respected by dates that may not be written yet.                *)
RespectedBy(ds, l, e) ==
    /\ \A b \in StartBound(ds[e[1]], l[e]) : \A d \in ds[e[2]].start : d >= b
    /\ \A b \in EndBound(ds[e[1]], l[e]) : \A d \in ds[e[2]].end : d >= b

Forest(g) == \A t \in Task : \A p, q \in Predecessors(g, t) : p = q

(* The dates once the rows that a request has yet to write are written.     *)
Ahead(r, ds) == [t \in Task |-> IF t \in r.todo THEN r.plan[t] ELSE ds[t]]

(* A link that is not respected is downstream of the task from which the
   request is about to recalculate, or is put right by the rows it has yet
   to write.                                                                *)
InSight(r, ds, l) ==
    LET g == Graph(l) IN
    /\ r.pc \in {"count", "recalculate"} =>
          \A e \in g : e[2] \notin Reach(g, r.task) => RespectedBy(ds, l, e)
    /\ r.pc = "write" => \A e \in g : RespectedBy(Ahead(r, ds), l, e)
    /\ r.pc \notin {"count", "recalculate", "write"} => \A e \in g : RespectedBy(ds, l, e)

(* A link is inserted before the task that is its seed.                     *)
Seeded(r) == r.pc = "insert" => \A e \in r.add : e[2] = r.task

LInv ==
    /\ \A h \in Handler : Seeded(req[h])
    /\ "dates" \notin waived =>
          Forest(Graph(link)) /\ \A h \in Handler : InSight(req[h], dates, link)

-----------------------------------------------------------------------------
(* What a visit respects.                                                   *)

Before(s, i) == {j \in s : j < i}

(* A task that is visited is merged once, with the dates that the tasks
   before it left; the others keep theirs.                                  *)
LEMMA FoldVisits ==
    ASSUME IsFiniteSet(Task), NEW n \in Nat, NEW o \in [1..n -> Task],
           \A i, j \in 1..n : i # j => o[i] # o[j],
           NEW ds \in DateMaps, NEW l \in [Edge -> LinkTypes], NEW g, Folds(g, o, ds, l)
    PROVE  \A s \in SUBSET (1..n) :
              /\ \A t \in Task : (\A i \in s : o[i] # t) => g[s][t] = ds[t]
              /\ \A i \in s : g[s][o[i]] = MergeConstraints(o[i], g[Before(s, i)], l)
<1> DEFINE S == 1..n
           Stay(s) == \A t \in Task : (\A i \in s : o[i] # t) => g[s][t] = ds[t]
           Once(s) == \A i \in s : g[s][o[i]] = MergeConstraints(o[i], g[Before(s, i)], l)
           good == {s \in SUBSET S : Stay(s) /\ Once(s)}
<1>0. DOMAIN o = 1..n
    OBVIOUS
<1>1. ASSUME NEW s \in SUBSET S, \A t \in SUBSET s : t # s => t \in good
      PROVE  s \in good
  <2>1. CASE s = {}
    <3>1. g[s] = ds
        BY <1>0, <2>1 DEF Folds
    <3> QED
        BY <2>1, <3>1
  <2>2. CASE s # {}
    <3> DEFINE m == Max(s)
               r == s \ {m}
               acc == g[r]
    <3>1. m \in s /\ m \in 1..n /\ \A i \in s : i <= m
        BY <2>2, Positions
    <3>2. acc \in DateMaps /\ Stay(r) /\ Once(r)
      <4>1. r \in good
          BY <1>1, <3>1
      <4>2. r \in SUBSET (1..n)
          OBVIOUS
      <4> QED
          BY <4>1, <4>2, FoldType
    <3>3. g[s] = Merged(o[m], acc, l)
        BY <1>0, <2>2 DEF Folds
    <3>4. /\ g[s][o[m]] = MergeConstraints(o[m], acc, l)
          /\ \A t \in Task : t # o[m] => g[s][t] = acc[t]
      <4> HIDE DEF acc, m
      <4> QED
          BY <3>1, <3>2, <3>3 DEF Merged, DateMaps
    <3>5. Before(s, m) = r /\ \A i \in r : Before(s, i) = Before(r, i)
      <4>1. (\A i \in s : i \in Int) /\ m \in Int
          BY <3>1
      <4> HIDE DEF m
      <4>2. \A i \in r : i < m /\ i \in s
          BY <3>1, <4>1
      <4>3. Before(s, m) = r
        <5>1. ~(m < m)
            BY <4>1
        <5>2. \A j : j \in Before(s, m) <=> j \in s /\ j < m
            BY DEF Before
        <5>3. \A j : j \in Before(s, m) <=> j \in r
            BY <4>2, <5>1, <5>2
        <5> HIDE DEF r
        <5> QED
            BY <5>3
      <4>4. ASSUME NEW i \in r PROVE Before(s, i) = Before(r, i)
          BY <4>1, <4>2 DEF Before
      <4> QED
          BY <4>3, <4>4
    <3>6. Stay(s)
      <4> SUFFICES ASSUME NEW t \in Task, \A i \in s : o[i] # t
                   PROVE  g[s][t] = ds[t]
          OBVIOUS
      <4>1. acc[t] = ds[t] /\ t # o[m]
          BY <3>1, <3>2
      <4> QED
          BY <3>4, <4>1
    <3>7. Once(s)
      <4> SUFFICES ASSUME NEW i \in s
                   PROVE  g[s][o[i]] = MergeConstraints(o[i], g[Before(s, i)], l)
          OBVIOUS
      <4>1. CASE i = m
          BY <3>4, <3>5, <4>1
      <4>2. CASE i # m
        <5>1. i \in r /\ o[i] # o[m] /\ o[i] \in Task
            BY <3>1, <4>2
        <5>2. g[s][o[i]] = acc[o[i]]
            BY <3>4, <5>1
        <5>3. acc[o[i]] = MergeConstraints(o[i], g[Before(r, i)], l)
            BY <3>2, <5>1
        <5> QED
            BY <3>5, <5>1, <5>2, <5>3
      <4> QED
          BY <4>1, <4>2
    <3> QED
        BY <3>6, <3>7
  <2> QED
      BY <2>1, <2>2
<1>2. IsFiniteSet(S)
    BY FS_Interval
<1> HIDE DEF good, S
<1>3. \A s \in SUBSET S : s \in good
    BY <1>1, <1>2, BySubsets
<1> QED
    BY <1>3 DEF good, S

(* A visit starts at the seed, finds all that is downstream, each task once
   and after one of its predecessors.                                       *)
LEMMA Visit ==
    ASSUME IsFiniteSet(Task), NEW g \in SUBSET Edge, NEW seed \in Task, NEW o \in VisitOrders(g, seed)
    PROVE  \E n \in Nat :
              /\ o \in [1..n -> Reach(g, seed)]
              /\ \A i, j \in 1..n : i # j => o[i] # o[j]
              /\ \A u \in Reach(g, seed) : \E i \in 1..n : o[i] = u
              /\ o[1] = seed
              /\ \A i \in 2..n : \E j \in 1..(i - 1) : <<o[j], o[i]>> \in g
<1> DEFINE R == Reach(g, seed)
           n == Cardinality(R)
<1>1. R \in SUBSET Task /\ IsFiniteSet(R)
  <2>1. R \in SUBSET Task
      BY DEF Reach
  <2> QED
      BY <2>1, FS_Subset
<1>2. n \in Nat
    BY <1>1, FS_CardinalityType
<1> HIDE DEF R
<1>3. /\ o \in [1..n -> R]
      /\ \A i, j \in 1..n : i # j => o[i] # o[j]
      /\ o[1] = seed
      /\ \A i \in 2..Len(o) : \E j \in 1..(i - 1) : <<o[j], o[i]>> \in g
    BY DEF VisitOrders, SetToSeqs, R
<1>4. Len(o) = n
    BY <1>2, <1>3
<1>5. \A u \in R : \E i \in 1..n : o[i] = u
  <2>1. o \in Injection(1..n, R)
      BY <1>3 DEF Injection, IsInjective
  <2>2. Cardinality(1..n) = n
      BY <1>2, FS_Interval
  <2> HIDE DEF n
  <2>3. Cardinality(1..n) = Cardinality(R)
      BY <2>2 DEF n
  <2>4. o \in Surjection(1..n, R)
      BY <1>1, <2>1, <2>3, FS_Injection
  <2> QED
      BY <2>4 DEF Surjection
<1> QED
    BY <1>2, <1>3, <1>4, <1>5 DEF R

(* With one predecessor at most for each task, a visited task is merged with
   the dates that its predecessor ends up with.                             *)
LEMMA PropagateMeets ==
    ASSUME IsFiniteSet(Task), NEW l \in [Edge -> LinkTypes], NEW seed \in Task,
           Acyclical(Graph(l)), Forest(Graph(l)),
           NEW o \in VisitOrders(Graph(l), seed), NEW ds \in DateMaps
    PROVE  LET new == Propagate(o, ds, l) IN
           /\ \A t \in Task \ Reach(Graph(l), seed) : new[t] = ds[t]
           /\ \A t \in Reach(Graph(l), seed) : \E acc \in DateMaps :
                 /\ new[t] = MergeConstraints(t, acc, l)
                 /\ \A p \in Predecessors(Graph(l), t) : acc[p] = new[p]
<1> DEFINE g == Graph(l)
           R == Reach(g, seed)
           new == Propagate(o, ds, l)
<1>1. g \in SUBSET Edge /\ R \in SUBSET Task /\ seed \in R /\ Closed(g, R)
  <2>1. g \in SUBSET Edge
      BY GraphIsEdges
  <2>2. R \in SUBSET Task
      BY DEF Reach
  <2> HIDE DEF g
  <2> QED
      BY <2>1, <2>2, ReachesItself, ReachIsClosed
<1>2. Acyclical(g) /\ Forest(g) /\ o \in VisitOrders(g, seed)
    OBVIOUS
<1> HIDE DEF g
<1>3. PICK n \in Nat :
              /\ o \in [1..n -> R]
              /\ \A i, j \in 1..n : i # j => o[i] # o[j]
              /\ \A u \in R : \E i \in 1..n : o[i] = u
              /\ o[1] = seed
              /\ \A i \in 2..n : \E j \in 1..(i - 1) : <<o[j], o[i]>> \in g
    BY <1>1, <1>2, Visit
<1>4. o \in [1..n -> Task] /\ DOMAIN o = 1..n
    BY <1>1, <1>3
<1>5. PICK f : Folds(f, o, ds, l) /\ Propagate(o, ds, l) = f[1..n]
    BY <1>4, PropagateFolds
<1> HIDE DEF R
<1>6. \A s \in SUBSET (1..n) :
              /\ \A t \in Task : (\A i \in s : o[i] # t) => f[s][t] = ds[t]
              /\ \A i \in s : f[s][o[i]] = MergeConstraints(o[i], f[Before(s, i)], l)
    BY <1>3, <1>4, <1>5, FoldVisits
<1>7. \A s \in SUBSET (1..n) : f[s] \in DateMaps
    BY <1>4, <1>5, FoldType
<1>8. /\ \A t \in Task \ R : new[t] = ds[t]
      /\ \A i \in 1..n : new[o[i]] = MergeConstraints(o[i], f[Before(1..n, i)], l)
  <2>1. new = f[1..n]
      BY <1>5
  <2>2. \A i \in 1..n : o[i] \in R
      BY <1>3
  <2>3. 1..n \in SUBSET (1..n)
      OBVIOUS
  <2> HIDE DEF new
  <2> QED
      BY <1>6, <2>1, <2>2, <2>3
<1> HIDE DEF new
<1>9. ASSUME NEW i \in 1..n
      PROVE  LET acc == f[Before(1..n, i)] IN
             /\ acc \in DateMaps
             /\ \A j \in 1..n : j < i => acc[o[j]] = new[o[j]]
             /\ \A t \in Task \ R : acc[t] = ds[t]
  <2> DEFINE b == Before(1..n, i)
  <2>1. b \in SUBSET (1..n) /\ \A j \in 1..n : j < i => j \in b
      BY DEF Before
  <2>2. ASSUME NEW j \in 1..n, j < i PROVE Before(b, j) = Before(1..n, j)
    <3>1. \A k \in 1..n : k < j => k < i
        BY <2>2
    <3> QED
        BY <3>1 DEF Before
  <2>3. \A k \in 1..n : o[k] \in R
      BY <1>3
  <2> HIDE DEF b
  <2>4. /\ \A t \in Task : (\A k \in b : o[k] # t) => f[b][t] = ds[t]
        /\ \A k \in b : f[b][o[k]] = MergeConstraints(o[k], f[Before(b, k)], l)
        /\ f[b] \in DateMaps
      BY <1>6, <1>7, <2>1
  <2>5. \A j \in 1..n : j < i => f[b][o[j]] = new[o[j]]
      BY <1>8, <2>1, <2>2, <2>4
  <2>6. \A t \in Task \ R : f[b][t] = ds[t]
      BY <2>1, <2>3, <2>4
  <2> QED
      BY <2>4, <2>5, <2>6 DEF b
<1>10. ASSUME NEW t \in R
       PROVE  \E acc \in DateMaps :
                 /\ new[t] = MergeConstraints(t, acc, l)
                 /\ \A p \in Predecessors(g, t) : acc[p] = new[p]
  <2>1. PICK i \in 1..n : o[i] = t
      BY <1>3
  <2> DEFINE acc == f[Before(1..n, i)]
  <2>2. /\ acc \in DateMaps
        /\ \A j \in 1..n : j < i => acc[o[j]] = new[o[j]]
        /\ \A u \in Task \ R : acc[u] = ds[u]
      BY <1>9
  <2>3. new[t] = MergeConstraints(t, acc, l)
      BY <1>8, <2>1
  <2> HIDE DEF acc
  <2>4. ASSUME NEW p \in Predecessors(g, t) PROVE acc[p] = new[p]
    <3>1. p \in Task /\ <<p, t>> \in g
        BY DEF Predecessors
    <3>2. CASE p \notin R
        BY <1>8, <2>2, <3>1, <3>2
    <3>3. CASE p \in R
      <4>1. i # 1
        <5>1. SUFFICES ASSUME t = seed PROVE FALSE
            BY <1>3, <2>1
        <5>2. p \notin Reach(g, t)
            BY <1>2, <3>1 DEF Acyclical
        <5> QED
            BY <3>3, <5>1, <5>2 DEF R
      <4>2. PICK j \in 1..(i - 1) : <<o[j], t>> \in g
          BY <1>3, <2>1, <4>1
      <4>3. j \in 1..n /\ j < i
          BY <4>2
      <4>4. o[j] \in Predecessors(g, t)
          BY <1>4, <4>2, <4>3 DEF Predecessors
      <4>5. t \in Task
          BY <1>1
      <4>6. o[j] = p
          BY <1>2, <4>4, <4>5 DEF Forest
      <4> QED
          BY <2>2, <4>3, <4>6
    <3> QED
        BY <3>2, <3>3
  <2> QED
      BY <2>2, <2>3, <2>4
<1> QED
    BY <1>8, <1>10 DEF g, R, new

(* Merging a task with its one predecessor respects the link between them.  *)
LEMMA MergeRespects ==
    ASSUME NEW t \in Task, NEW p \in Task, NEW acc \in DateMaps, NEW l \in [Edge -> LinkTypes],
           Predecessors(Graph(l), t) = {p}
    PROVE  LET d == MergeConstraints(t, acc, l) IN
           /\ \A b \in StartBound(acc[p], l[<<p, t>>]) : \A day \in d.start : day >= b
           /\ \A b \in EndBound(acc[p], l[<<p, t>>]) : \A day \in d.end : day >= b
<1> DEFINE k == l[<<p, t>>]
           starts == StartBound(acc[p], k)
           ends == EndBound(acc[p], k)
           length == Length(acc[t])
           d == MergeConstraints(t, acc, l)
<1>1. k \in LinkTypes /\ Short(acc[p]) /\ Short(acc[t])
    BY DEF Edge, DateMaps
<1>2. /\ starts \in SUBSET Int /\ AtMostOne(starts)
      /\ ends \in SUBSET Int /\ AtMostOne(ends)
  <2> HIDE DEF k
  <2> QED
      BY <1>1, BoundTypes
<1>3. starts = {} \/ ends = {}
    BY <1>1 DEF StartBound, EndBound, LinkTypes
<1>4. length \in Nat
    BY <1>1, LengthType
<1>5. d = CASE starts # {} /\ length > 0 -> [start |-> starts, end |-> Shift(starts, length)]
            [] starts # {} /\ length = 0 -> [start |-> starts, end |-> IF ends # {} THEN ends ELSE acc[t].end]
            [] starts = {} /\ ends # {} ->
                  [start |-> IF length > 0 THEN Shift(ends, -length) ELSE acc[t].start, end |-> ends]
            [] OTHER -> acc[t]
  <2>1. /\ UNION {StartBound(acc[q], l[<<q, t>>]) : q \in {p}} = starts
        /\ UNION {EndBound(acc[q], l[<<q, t>>]) : q \in {p}} = ends
      OBVIOUS
  <2> HIDE DEF starts, ends, k
  <2>2. Latest(starts) = starts /\ Latest(ends) = ends
      BY <1>2, LatestOfOne
  <2> QED
      BY <2>1, <2>2 DEF MergeConstraints
<1> HIDE DEF starts, ends, length, d, k
<1>6. starts # {} => d.start = starts
    BY <1>4, <1>5
<1>7. starts = {} /\ ends # {} => d.end = ends
    BY <1>5
<1>8. /\ \A b \in starts : \A day \in d.start : day >= b
      /\ \A b \in ends : \A day \in d.end : day >= b
  <2>1. ASSUME NEW b \in starts, NEW day \in d.start PROVE day >= b
    <3>1. day \in starts /\ b \in Int
        BY <1>2, <1>6, <2>1
    <3>2. day = b
        BY <1>2, <3>1 DEF AtMostOne
    <3> QED
        BY <3>1, <3>2
  <2>2. ASSUME NEW b \in ends, NEW day \in d.end PROVE day >= b
    <3>1. day \in ends /\ b \in Int
        BY <1>2, <1>3, <1>7, <2>2
    <3>2. day = b
        BY <1>2, <3>1 DEF AtMostOne
    <3> QED
        BY <3>1, <3>2
  <2> QED
      BY <2>1, <2>2
<1> QED
    BY <1>8 DEF d, starts, ends, k

(* Recalculating from a task puts right all links that it can see.          *)
LEMMA PropagateRespects ==
    ASSUME IsFiniteSet(Task), NEW l \in [Edge -> LinkTypes], NEW seed \in Task,
           Acyclical(Graph(l)), Forest(Graph(l)),
           NEW o \in VisitOrders(Graph(l), seed), NEW ds \in DateMaps,
           \A e \in Graph(l) : e[2] \notin Reach(Graph(l), seed) => RespectedBy(ds, l, e)
    PROVE  \A e \in Graph(l) : RespectedBy(Propagate(o, ds, l), l, e)
<1> DEFINE g == Graph(l)
           R == Reach(g, seed)
           new == Propagate(o, ds, l)
<1> SUFFICES ASSUME NEW e \in g
             PROVE  RespectedBy(new, l, e)
    OBVIOUS
<1>1. /\ \A t \in Task \ R : new[t] = ds[t]
      /\ \A t \in R : \E acc \in DateMaps :
                 /\ new[t] = MergeConstraints(t, acc, l)
                 /\ \A p \in Predecessors(g, t) : acc[p] = new[p]
    BY PropagateMeets
<1>2. g \in SUBSET Edge /\ (e[2] \notin R => RespectedBy(ds, l, e)) /\ Forest(g)
    BY GraphIsEdges
<1>3. Closed(g, R)
    BY <1>2, ReachIsClosed
<1> HIDE DEF g, new
<1>4. e[1] \in Task /\ e[2] \in Task /\ e = <<e[1], e[2]>>
    BY <1>2 DEF Edge
<1>5. CASE e[2] \notin R
  <2>1. e[1] \notin R
      BY <1>3, <1>5 DEF Closed
  <2>2. new[e[1]] = ds[e[1]] /\ new[e[2]] = ds[e[2]]
      BY <1>1, <1>4, <1>5, <2>1
  <2> QED
      BY <1>2, <1>5, <2>2 DEF RespectedBy
<1>6. CASE e[2] \in R
  <2>1. Predecessors(g, e[2]) = {e[1]}
    <3>1. e[1] \in Predecessors(g, e[2])
        BY <1>4 DEF Predecessors
    <3> QED
        BY <1>2, <1>4, <3>1 DEF Forest
  <2>2. PICK acc \in DateMaps :
                 /\ new[e[2]] = MergeConstraints(e[2], acc, l)
                 /\ \A p \in Predecessors(g, e[2]) : acc[p] = new[p]
      BY <1>1, <1>6
  <2>3. acc[e[1]] = new[e[1]]
      BY <2>1, <2>2
  <2>4. LET d == MergeConstraints(e[2], acc, l) IN
        /\ \A b \in StartBound(acc[e[1]], l[<<e[1], e[2]>>]) : \A day \in d.start : day >= b
        /\ \A b \in EndBound(acc[e[1]], l[<<e[1], e[2]>>]) : \A day \in d.end : day >= b
      BY <1>4, <2>1, MergeRespects DEF g
  <2> QED
      BY <1>4, <2>2, <2>3, <2>4 DEF RespectedBy
<1> QED
    BY <1>5, <1>6

LEMMA MergingForest ==
    ASSUME IsFiniteSet(Task), NEW l, "dates" \notin Merging(l)
    PROVE  Forest(Graph(l))
<1> SUFFICES ASSUME NEW t \in Task, NEW p \in Predecessors(Graph(l), t),
                    NEW q \in Predecessors(Graph(l), t)
             PROVE  p = q
    BY DEF Forest
<1> DEFINE pre == Predecessors(Graph(l), t)
<1>1. pre \in SUBSET Task /\ ~(Cardinality(pre) > 1)
    BY DEF Merging, Predecessors
<1> HIDE DEF pre
<1>2. IsFiniteSet(pre)
    BY <1>1, FS_Subset
<1>3. Cardinality(pre) \in Nat
    BY <1>2, FS_CardinalityType
<1>4. Cardinality(pre) = 0 \/ Cardinality(pre) = 1
    BY <1>1, <1>3
<1>5. pre = {} \/ \E x : pre = {x}
    BY <1>2, <1>4, FS_EmptySet, FS_Singleton
<1> QED
    BY <1>5 DEF pre

LEMMA FewerForest ==
    ASSUME NEW f, NEW g, f \subseteq g, Forest(g)
    PROVE  Forest(f)
BY DEF Forest, Predecessors

LEMMA InSightStep ==
    ASSUME NEW only, Handler = {only}, TInv, NEW r, Become(only, r), Seeded(r),
           "dates" \notin waived' => Forest(Graph(link')) /\ InSight(r, dates', link')
    PROVE  LInv'
<1>1. req' = [h \in Handler |-> r]
    BY DEF Become, TInv, TypeOK
<1>2. \A h \in Handler : req'[h] = r
    BY <1>1
<1> QED
    BY <1>2 DEF LInv

(* The links of a state that one of its requests changes keep their bounds. *)
LEMMA SameBounds ==
    ASSUME NEW ds, NEW l, NEW k, NEW e, l[e] = k[e], RespectedBy(ds, l, e)
    PROVE  RespectedBy(ds, k, e)
BY DEF RespectedBy

LEMMA SightOfLinkRequests ==
    ASSUME ScheduleAssumption, NEW only, Handler = {only}, TInv, LInv, LinkRequest(only)
    PROVE  LInv'
<1>1. waived' = waived /\ dates' = dates /\ req[only] = None
    BY DEF LinkRequest, CreateCheck, UpdateLink, RemoveLink, Begin, Idle, rows
<1>2. "dates" \notin waived' => Forest(Graph(link)) /\ \A e \in Graph(link) : RespectedBy(dates, link, e)
    BY <1>1 DEF LInv, InSight, None
<1>3. link \in [Edge -> Link \cup {NoLink}] /\ NoLink \notin Link /\ Graph(link) \subseteq Edge
    BY DEF TInv, TypeOK, ScheduleAssumption, NoLink, Graph
<1>4. ASSUME NEW p \in Task, NEW s \in Task, CreateCheck(only, p, s)
      PROVE  LInv'
  <2>1. PICK k \in Link : Become(only, [Ask("insert", s) EXCEPT !.add = {<<p, s>>}, !.link = k])
      BY <1>4 DEF CreateCheck
  <2> DEFINE r == [Ask("insert", s) EXCEPT !.add = {<<p, s>>}, !.link = k]
  <2>2. r.pc = "insert" /\ r.add = {<<p, s>>} /\ r.task = s
      BY DEF Ask
  <2>3. Become(only, r)
      BY <2>1
  <2> HIDE DEF r
  <2>4. link' = link
      BY <1>4 DEF CreateCheck, rows
  <2> QED
      BY <1>1, <1>2, <2>2, <2>3, <2>4, InSightStep DEF Seeded, InSight
<1>5. ASSUME NEW e \in Edge, UpdateLink(only, e)
      PROVE  LInv'
  <2>1. PICK k \in Link : link' = [link EXCEPT ![e] = k]
      BY <1>5 DEF UpdateLink
  <2> DEFINE r == Ask("recalculate", e[2])
  <2>2. r.pc = "recalculate" /\ r.task = e[2] /\ Become(only, r)
      BY <1>5 DEF UpdateLink, Ask
  <2> HIDE DEF r
  <2>3. Graph(link') = Graph(link)
      BY <1>3, <1>5, <2>1 DEF UpdateLink, Graph
  <2>4. \A x \in Graph(link) : x # e => link'[x] = link[x]
      BY <1>3, <2>1
  <2>5. e[2] \in Reach(Graph(link), e[2])
      BY ReachesItself DEF Edge
  <2>6. ASSUME "dates" \notin waived', NEW x \in Graph(link), x # e
        PROVE  RespectedBy(dates', link', x)
      BY <1>1, <1>2, <2>4, <2>6, SameBounds
  <2> QED
      BY <1>2, <2>2, <2>3, <2>5, <2>6, InSightStep DEF Seeded, InSight
<1>6. ASSUME NEW e \in Edge, RemoveLink(only, e)
      PROVE  LInv'
  <2> DEFINE r == Ask("flags", e[2])
  <2>1. link' = [link EXCEPT ![e] = NoLink] /\ Become(only, r)
      BY <1>6 DEF RemoveLink
  <2>2. r.pc = "flags"
      BY DEF Ask
  <2> HIDE DEF r
  <2>3. Graph(link') \subseteq Graph(link) /\ \A x \in Graph(link') : link'[x] = link[x]
      BY <1>3, <2>1 DEF Graph
  <2>4. "dates" \notin waived' => Forest(Graph(link')) /\ \A x \in Graph(link') : RespectedBy(dates', link', x)
    <3>1. "dates" \notin waived' => Forest(Graph(link'))
        BY <1>2, <2>3, FewerForest
    <3>2. ASSUME "dates" \notin waived', NEW x \in Graph(link')
          PROVE  RespectedBy(dates', link', x)
        BY <1>1, <1>2, <2>3, <3>2, SameBounds
    <3> QED
        BY <3>1, <3>2
  <2> QED
      BY <2>1, <2>2, <2>4, InSightStep DEF Seeded, InSight
<1> QED
    BY <1>4, <1>5, <1>6 DEF LinkRequest

(* Dates of one task are written; it is the seed.                           *)
LEMMA EditedInSight ==
    ASSUME NEW l, NEW k, NEW ds, NEW new, NEW t \in Task,
           \A u \in Task \ {t} : new[u] = ds[u],
           \A e \in Graph(k) : e[2] \notin Reach(Graph(k), t) => k[e] = l[e] /\ RespectedBy(ds, l, e)
    PROVE  \A e \in Graph(k) : e[2] \notin Reach(Graph(k), t) => RespectedBy(new, k, e)
<1> SUFFICES ASSUME NEW e \in Graph(k), e[2] \notin Reach(Graph(k), t)
             PROVE  RespectedBy(new, k, e)
    OBVIOUS
<1> DEFINE g == Graph(k)
           R == Reach(g, t)
<1>1. g \in SUBSET Edge /\ t \in R /\ Closed(g, R) /\ e \in g /\ e[2] \notin R
    BY GraphIsEdges, ReachesItself, ReachIsClosed
<1>2. e[1] \in Task /\ e[2] \in Task
    BY <1>1 DEF Edge
<1>3. e[1] # t /\ e[2] # t
    BY <1>1 DEF Closed
<1>4. new[e[1]] = ds[e[1]] /\ new[e[2]] = ds[e[2]]
    BY <1>2, <1>3
<1> QED
    BY <1>4 DEF RespectedBy

LEMMA SightOfTaskRequests ==
    ASSUME ScheduleAssumption, NEW only, Handler = {only}, TInv, LInv, TaskRequest(only)
    PROVE  LInv'
<1>1. waived' = waived /\ link' = link /\ req[only] = None
    BY DEF TaskRequest, EditDates, BundleValidate, Begin, Idle, rows
<1>2. "dates" \notin waived' => Forest(Graph(link)) /\ \A e \in Graph(link) : RespectedBy(dates, link, e)
    BY <1>1 DEF LInv, InSight, None
<1>3. ASSUME NEW t \in Task, EditDates(only, t)
      PROVE  LInv'
  <2> DEFINE r == Ask("count", t)
  <2>1. r.pc = "count" /\ r.task = t /\ Become(only, r)
      BY <1>3 DEF EditDates, Ask
  <2> HIDE DEF r
  <2>2. \A u \in Task \ {t} : dates'[u] = dates[u]
      BY <1>3 DEF EditDates, TInv, TypeOK
  <2>3. "dates" \notin waived' =>
           \A e \in Graph(link) : e[2] \notin Reach(Graph(link), t) => RespectedBy(dates', link, e)
      BY <1>2, <2>2, EditedInSight
  <2> QED
      BY <1>1, <1>2, <2>1, <2>3, InSightStep DEF Seeded, InSight
<1>4. ASSUME NEW t \in Task, NEW add \in Few, NEW remove \in Few, BundleValidate(only, t, add, remove)
      PROVE  LInv'
  <2>1. PICK k, span : Become(only, [Ask("apply", t) EXCEPT !.add = add, !.remove = remove,
                                                           !.link = k, !.span = span])
      BY <1>4 DEF BundleValidate
  <2> DEFINE r == [Ask("apply", t) EXCEPT !.add = add, !.remove = remove, !.link = k, !.span = span]
  <2>2. r.pc = "apply" /\ Become(only, r)
      BY <2>1 DEF Ask
  <2> HIDE DEF r
  <2>3. dates' = dates
      BY <1>4 DEF BundleValidate, rows
  <2> QED
      BY <1>1, <1>2, <2>2, <2>3, InSightStep DEF Seeded, InSight
<1> QED
    BY <1>3, <1>4 DEF TaskRequest

LEMMA SightOfInsert ==
    ASSUME ScheduleAssumption, NEW only, Handler = {only}, TInv, LInv, CreateInsert(only)
    PROVE  LInv'
<1> DEFINE add == req[only].add
           seed == req[only].task
<1>1. /\ "dates" \notin waived => Forest(Graph(link)) /\ \A e \in Graph(link) : RespectedBy(dates, link, e)
      /\ \A e \in add : e[2] = seed
      /\ seed \in Task
  <2>1. req[only].pc = "insert" /\ Good(req[only])
      BY AtIsGood DEF CreateInsert, At
  <2> QED
      BY <2>1 DEF LInv, InSight, Seeded, Good, Request
<1>2. dates' = dates
    BY DEF CreateInsert
<1>3. CASE add \cap Graph(link) # {}
  <2>1. Become(only, None) /\ UNCHANGED <<link, waived>>
      BY <1>3 DEF CreateInsert
  <2> QED
      BY <1>1, <1>2, <2>1, InSightStep DEF Seeded, InSight, None
<1>4. CASE add \cap Graph(link) = {}
  <2> DEFINE r == Ask("recalculate", seed)
  <2>1. /\ link' = [e \in Edge |-> IF e \in add THEN req[only].link ELSE link[e]]
        /\ waived' = waived \cup Merging(link')
        /\ Become(only, r)
      BY <1>4 DEF CreateInsert
  <2>2. r.pc = "recalculate" /\ r.task = seed
      BY DEF Ask
  <2> HIDE DEF r, add, seed
  <2>3. "dates" \notin waived' => "dates" \notin waived /\ Forest(Graph(link'))
      BY <2>1, MergingForest DEF ScheduleAssumption
  <2>4. \A e \in Graph(link') : e[2] # seed => e \in Graph(link) /\ link'[e] = link[e]
    <3>1. \A e \in Graph(link') : e \in Edge /\ link'[e] # NoLink
        BY DEF Graph
    <3> QED
        BY <1>1, <2>1, <3>1 DEF Graph
  <2>5. seed \in Reach(Graph(link'), seed)
      BY <1>1, ReachesItself
  <2>6. ASSUME "dates" \notin waived', NEW e \in Graph(link'), e[2] \notin Reach(Graph(link'), seed)
        PROVE  RespectedBy(dates', link', e)
    <3>1. e[2] # seed
        BY <2>5, <2>6
    <3>2. e \in Graph(link) /\ link'[e] = link[e] /\ RespectedBy(dates, link, e)
        BY <1>1, <2>3, <2>4, <2>6, <3>1
    <3> QED
        BY <1>2, <3>2, SameBounds
  <2> QED
      BY <2>1, <2>2, <2>3, <2>6, InSightStep DEF Seeded, InSight
<1> QED
    BY <1>3, <1>4

LEMMA SightOfBundle ==
    ASSUME ScheduleAssumption, NEW only, Handler = {only}, TInv, LInv, BundleApply(only)
    PROVE  LInv'
<1> DEFINE r == req[only]
           gone == Own(r.task, r.remove \cap Graph(link))
           first == IF gone # {} THEN gone ELSE r.add
<1>1. /\ "dates" \notin waived => Forest(Graph(link)) /\ \A e \in Graph(link) : RespectedBy(dates, link, e)
      /\ Good(r)
      /\ r.task \in Task /\ r.add \in SUBSET Edge
  <2>1. r.pc = "apply" /\ Good(r)
      BY AtIsGood DEF BundleApply, At
  <2> QED
      BY <2>1 DEF LInv, InSight, Good, Request
<1>2. link' = [e \in Edge |-> IF e \in r.add THEN r.link ELSE IF e \in gone THEN NoLink ELSE link[e]]
    BY DEF BundleApply
<1>3. \A e \in Graph(link') : e \notin r.add => e \in Graph(link) /\ link'[e] = link[e]
  <2>1. \A e \in Graph(link') : e \in Edge /\ link'[e] # NoLink
      BY DEF Graph
  <2> QED
      BY <1>2, <2>1 DEF Graph
<1>4. ASSUME NEW seed \in Task, Become(only, Ask("count", seed)),
             waived' = waived \cup Merging(link')
                  \cup (IF {e \in r.add : e[2] \notin Reach(Graph(link'), seed)} # {} THEN {"dates"} ELSE {})
                  \cup (IF ~(\E e \in Graph(link') : seed \in {e[1], e[2]}) THEN {"critical"} ELSE {}),
             \A u \in Task \ {seed} : dates'[u] = dates[u]
      PROVE  LInv'
  <2> DEFINE next == Ask("count", seed)
  <2>1. next.pc = "count" /\ next.task = seed /\ Become(only, next)
      BY <1>4 DEF Ask
  <2> HIDE DEF next, r, gone
  <2>2. "dates" \notin waived' => /\ "dates" \notin waived /\ Forest(Graph(link'))
                                  /\ \A e \in r.add : e[2] \in Reach(Graph(link'), seed)
    <3>1. "dates" \notin waived' => "dates" \notin waived /\ "dates" \notin Merging(link')
        BY <1>4
    <3>2. "dates" \notin waived' => {e \in r.add : e[2] \notin Reach(Graph(link'), seed)} = {}
        BY <1>4
    <3> QED
        BY <3>1, <3>2, MergingForest DEF ScheduleAssumption
  <2>3. ASSUME "dates" \notin waived'
        PROVE  \A e \in Graph(link') : e[2] \notin Reach(Graph(link'), seed) => RespectedBy(dates', link', e)
    <3>1. \A e \in Graph(link') : e[2] \notin Reach(Graph(link'), seed) =>
             link'[e] = link[e] /\ RespectedBy(dates, link, e)
        BY <1>1, <1>3, <2>2, <2>3
    <3> QED
        BY <1>4, <3>1, EditedInSight
  <2> QED
      BY <2>1, <2>2, <2>3, InSightStep DEF Seeded, InSight
<1>5. CASE r.span # {}
  <2>1. \E d \in r.span : dates' = [dates EXCEPT ![r.task] = d]
      BY <1>5 DEF BundleApply
  <2>2. \A u \in Task \ {r.task} : dates'[u] = dates[u]
      BY <2>1 DEF TInv, TypeOK
  <2>3. /\ Become(only, Ask("count", r.task))
        /\ waived' = waived \cup Merging(link')
              \cup (IF {e \in r.add : e[2] \notin Reach(Graph(link'), r.task)} # {} THEN {"dates"} ELSE {})
              \cup (IF ~(\E e \in Graph(link') : r.task \in {e[1], e[2]}) THEN {"critical"} ELSE {})
      BY <1>5 DEF BundleApply
  <2> QED
      BY <1>1, <1>4, <2>2, <2>3
<1>6. CASE r.span = {} /\ first # {}
  <2>1. dates' = dates
      BY <1>6 DEF BundleApply
  <2> DEFINE new == [e \in Edge |-> IF e \in r.add THEN r.link
                                    ELSE IF e \in gone THEN NoLink ELSE link[e]]
             Seed(g, seed) ==
                 /\ Become(only, Ask("count", seed))
                 /\ waived' = waived \cup Merging(g)
                       \cup (IF {e \in r.add : e[2] \notin Reach(Graph(g), seed)} # {} THEN {"dates"} ELSE {})
                       \cup (IF ~(\E e \in Graph(g) : seed \in {e[1], e[2]}) THEN {"critical"} ELSE {})
  <2>4. \E f \in first : Seed(new, f[2])
    <3>1. r.span = {} /\ first # {}
        BY <1>6
    <3>2. \/ \E f \in first : Seed(new, f[2])
          \/ first = {}
      <4>1. \/ r.span # {} /\ Seed(new, r.task)
            \/ r.span = {} /\ \E f \in first : Seed(new, f[2])
            \/ r.span = {} /\ first = {} /\ Become(only, None) /\ UNCHANGED waived
          BY DEF BundleApply
      <4> HIDE DEF first, Seed, new, r
      <4> QED
          BY <3>1, <4>1
    <3> HIDE DEF first, Seed, new, r
    <3> QED
        BY <3>1, <3>2
  <2>5. link' = new
      BY <1>2
  <2>2. PICK f \in first : Seed(link', f[2])
    <3> HIDE DEF first, Seed, new
    <3> QED
        BY <2>4, <2>5
  <2>3. f[2] \in Task
    <3>1. gone \in SUBSET Edge
        BY DEF Own, Graph
    <3> QED
        BY <1>1, <3>1 DEF Edge
  <2> QED
      BY <1>4, <2>1, <2>2, <2>3
<1>7. CASE r.span = {} /\ first = {}
  <2>1. r.add = {} /\ gone = {}
      BY <1>7
  <2>2. dates' = dates /\ Become(only, None) /\ waived' = waived
      BY <1>7 DEF BundleApply
  <2>3. link' = link
    <3>1. link' = [e \in Edge |-> link[e]]
        BY <1>2, <2>1
    <3> QED
        BY <3>1 DEF TInv, TypeOK
  <2> QED
      BY <1>1, <2>2, <2>3, InSightStep DEF Seeded, InSight, None
<1> QED
    BY <1>5, <1>6, <1>7

LEMMA SightOfCount ==
    ASSUME ScheduleAssumption, NEW only, Handler = {only}, TInv, LInv, Count(only)
    PROVE  LInv'
<1> DEFINE t == req[only].task
           g == Graph(link)
<1>1. UNCHANGED <<dates, link, waived>> /\ t \in Task /\ req[only].pc = "count"
  <2>1. req[only].pc = "count" /\ Good(req[only])
      BY AtIsGood DEF Count, At
  <2> QED
      BY <2>1 DEF Good, Request, Count, rows
<1>2. "dates" \notin waived =>
         Forest(g) /\ \A e \in g : e[2] \notin Reach(g, t) => RespectedBy(dates, link, e)
    BY <1>1 DEF LInv, InSight
<1>3. CASE Own(t, g) = {}
  <2>1. \A e \in g : e[1] # t /\ e[2] # t
      BY <1>3 DEF Own
  <2>2. Closed(g, {t})
      BY <2>1 DEF Closed
  <2>3. \A e \in g : e[2] \notin Reach(g, t)
    <3> HIDE DEF t, g
    <3>1. {t} \in SUBSET Task
        BY <1>1
    <3> QED
        BY <1>1, <2>1, <2>2, <3>1, OutOfReach
  <2>4. Become(only, None)
      BY <1>3 DEF Count
  <2> QED
      BY <1>1, <1>2, <2>3, <2>4, InSightStep DEF Seeded, InSight, None
<1>4. CASE Own(t, g) # {}
  <2> DEFINE next == [req[only] EXCEPT !.pc = "recalculate"]
  <2>1. Become(only, next)
      BY <1>4 DEF Count, Goto, Become
  <2>2. next.pc = "recalculate" /\ next.task = t
    <3>1. Good(req[only])
        BY <1>1, AtIsGood
    <3> QED
        BY <3>1 DEF Good, Request
  <2> HIDE DEF next
  <2> QED
      BY <1>1, <1>2, <2>1, <2>2, InSightStep DEF Seeded, InSight
<1> QED
    BY <1>3, <1>4

LEMMA SightOfRecalculate ==
    ASSUME ScheduleAssumption, NEW only, Handler = {only}, TInv, LInv, Acyclic, Recalculate(only)
    PROVE  LInv'
<1> DEFINE r == req[only]
           g == Graph(link)
<1>1. /\ UNCHANGED <<dates, link, waived>> /\ r.task \in Task /\ r.pc = "recalculate"
      /\ r \in Request
  <2>1. r.pc = "recalculate" /\ Good(r)
      BY AtIsGood DEF Recalculate, At
  <2> QED
      BY <2>1 DEF Good, Request, Recalculate, rows
<1>2. "dates" \notin waived =>
         Forest(g) /\ \A e \in g : e[2] \notin Reach(g, r.task) => RespectedBy(dates, link, e)
    BY <1>1 DEF LInv, InSight
<1>3. PICK order \in VisitOrders(g, r.task) :
          LET new == Propagate(order, dates, link)
              changed == {t \in Task : new[t] # dates[t]}
          IN Become(only, [r EXCEPT !.todo = changed,
                                    !.plan = [t \in Task |-> IF t \in changed THEN new[t]
                                                             ELSE r.plan[t]],
                                    !.pc = IF changed = {} THEN "flags" ELSE "write"])
    BY DEF Recalculate
<1> DEFINE new == Propagate(order, dates, link)
           changed == {t \in Task : new[t] # dates[t]}
           plan == [t \in Task |-> IF t \in changed THEN new[t] ELSE r.plan[t]]
           next == [r EXCEPT !.todo = changed, !.plan = plan,
                             !.pc = IF changed = {} THEN "flags" ELSE "write"]
<1>4. Become(only, next)
    BY <1>3
<1>5. "dates" \notin waived => \A e \in g : RespectedBy(new, link, e)
  <2>1. /\ IsFiniteSet(Task) /\ link \in [Edge -> LinkTypes] /\ dates \in DateMaps
        /\ Acyclical(Graph(link))
      BY LinksAreTyped, DatesAreTyped DEF ScheduleAssumption, TInv, Acyclic
  <2> QED
      BY <1>1, <1>2, <2>1, PropagateRespects
<1>6. g \in SUBSET Edge
    BY GraphIsEdges
<1> HIDE DEF new, g
<1>7. /\ next.pc = IF changed = {} THEN "flags" ELSE "write"
      /\ next.todo = changed /\ next.plan = plan
  <2> HIDE DEF changed, plan
  <2> QED
      BY <1>1 DEF Request
<1>8. \A t \in Task : Ahead(next, dates)[t] = new[t]
  <2> HIDE DEF next
  <2> QED
      BY <1>7 DEF Ahead
<1>9. changed = {} => \A t \in Task : new[t] = dates[t]
    OBVIOUS
<1> HIDE DEF next, changed, plan
<1>10. ASSUME NEW ds, \A t \in Task : ds[t] = new[t], "dates" \notin waived, NEW e \in g
       PROVE  RespectedBy(ds, link, e)
  <2>1. e[1] \in Task /\ e[2] \in Task
      BY <1>6 DEF Edge
  <2>2. ds[e[1]] = new[e[1]] /\ ds[e[2]] = new[e[2]] /\ RespectedBy(new, link, e)
      BY <1>5, <1>10, <2>1
  <2> QED
      BY <2>2 DEF RespectedBy
<1>11. CASE changed = {}
    BY <1>1, <1>2, <1>4, <1>7, <1>9, <1>10, <1>11, InSightStep DEF Seeded, InSight, g
<1>12. CASE changed # {}
  <2>1. "dates" \notin waived => \A e \in g : RespectedBy(Ahead(next, dates), link, e)
      BY <1>8, <1>10
  <2>2. next.pc = "write"
      BY <1>7, <1>12
  <2> QED
      BY <1>1, <1>2, <1>4, <2>1, <2>2, InSightStep DEF Seeded, InSight, g
<1> QED
    BY <1>11, <1>12

LEMMA SightOfWrites ==
    ASSUME ScheduleAssumption, NEW only, Handler = {only}, TInv, LInv, NEW t \in Task, WriteDates(only, t)
    PROVE  LInv'
<1> DEFINE r == req[only]
           ahead == Ahead(r, dates)
<1>1. UNCHANGED <<link, waived>> /\ r.pc = "write" /\ r \in Request
  <2>1. r.pc = "write" /\ Good(r)
      BY AtIsGood DEF WriteDates, At
  <2> QED
      BY <2>1 DEF Good, WriteDates
<1>2. "dates" \notin waived => Forest(Graph(link)) /\ \A e \in Graph(link) : RespectedBy(ahead, link, e)
    BY <1>1 DEF LInv, InSight
<1>3. /\ dates' = [dates EXCEPT ![t] = r.plan[t]] /\ t \in r.todo
      /\ dates \in [Task -> Dates] /\ r.todo \in SUBSET Task
    BY <1>1 DEF WriteDates, TInv, TypeOK, Request
<1>4. CASE r.todo = {t}
  <2>1. dates' = ahead
      BY <1>3, <1>4 DEF Ahead
  <2> DEFINE next == Ask("flags", r.task)
  <2>2. next.pc = "flags" /\ Become(only, next)
      BY <1>4 DEF Ask, WriteDates
  <2> HIDE DEF next, ahead
  <2> QED
      BY <1>1, <1>2, <2>1, <2>2, InSightStep DEF Seeded, InSight
<1>5. CASE r.todo # {t}
  <2> DEFINE next == [r EXCEPT !.todo = @ \ {t}]
  <2>1. next.pc = "write" /\ next.todo = r.todo \ {t} /\ next.plan = r.plan
      BY <1>1 DEF Request
  <2>2. Become(only, next)
      BY <1>5 DEF WriteDates
  <2> HIDE DEF next
  <2>3. Ahead(next, dates') = ahead
      BY <1>3, <2>1 DEF Ahead
  <2> HIDE DEF ahead
  <2> QED
      BY <1>1, <1>2, <2>1, <2>2, <2>3, InSightStep DEF Seeded, InSight
<1> QED
    BY <1>4, <1>5

LEMMA SightOfOthers ==
    ASSUME ScheduleAssumption, NEW only, Handler = {only}, TInv, LInv,
           ReadFlags(only) \/ WriteFlags(only) \/ Abort(only)
    PROVE  LInv'
<1>1. UNCHANGED <<dates, link>> /\ ("dates" \notin waived' => "dates" \notin waived)
    BY DEF ReadFlags, WriteFlags, Abort, rows
<1>2. "dates" \notin waived' => Forest(Graph(link)) /\ \A e \in Graph(link) : RespectedBy(dates, link, e)
  <2>1. CASE ReadFlags(only) \/ WriteFlags(only)
      BY <1>1, <2>1 DEF LInv, InSight, ReadFlags, WriteFlags, At
  <2>2. CASE Abort(only) /\ req[only].pc \in {"insert", "apply"}
      BY <1>1, <2>2 DEF LInv, InSight
  <2>3. CASE Abort(only) /\ req[only].pc \notin {"insert", "apply"}
      BY <2>3 DEF Abort, At
  <2> QED
      BY <2>1, <2>2, <2>3
<1>3. PICK r : Become(only, r) /\ r.pc \in {"write_flags", "idle"}
  <2>1. CASE ReadFlags(only)
    <3> DEFINE r == [req[only] EXCEPT !.pc = "write_flags", !.flag = CriticalTasks(dates, link)]
    <3>1. Good(req[only])
        BY <2>1, AtIsGood DEF ReadFlags, At
    <3>2. r.pc = "write_flags"
        BY <3>1 DEF Good, Request
    <3>3. Become(only, r)
        BY <2>1 DEF ReadFlags
    <3> QED
        BY <3>2, <3>3
  <2>2. CASE WriteFlags(only) \/ Abort(only)
      BY <2>2 DEF WriteFlags, Abort, None
  <2> QED
      BY <2>1, <2>2
<1> QED
    BY <1>1, <1>2, <1>3, InSightStep DEF Seeded, InSight

LEMMA SightStep ==
    ASSUME ScheduleAssumption, NEW only, Handler = {only}, TInv, LInv, Acyclic, [Next]_vars
    PROVE  LInv'
<1>1. CASE UNCHANGED vars
    BY <1>1 DEF vars, rows, LInv
<1>2. CASE Next
    BY <1>2, SightOfLinkRequests, SightOfTaskRequests, SightOfInsert, SightOfBundle, SightOfCount,
       SightOfRecalculate, SightOfWrites, SightOfOthers
       DEF Next, Step
<1> QED
    BY <1>1, <1>2

LEMMA SightInit == ASSUME Init PROVE LInv
<1>1. Graph(link) = {}
    BY DEF Init, Graph
<1>2. \A h \in Handler : req[h] = None
    BY DEF Init
<1>3. Forest(Graph(link))
    BY <1>1 DEF Forest, Predecessors
<1> QED
    BY <1>1, <1>2, <1>3 DEF LInv, InSight, Seeded, None

(* Served one at a time, with errors at any step: once the requests are done
   every link is respected, for any tasks, links, lags and dates and for any
   order in which a recalculation visits the tasks, unless a task ever had
   two predecessors, a bundle did not reach the successors of its new links
   or a write was cut off.                                                  *)
THEOREM SerialLinksRespected ==
    ASSUME ScheduleAssumption, NEW only, Handler = {only}, ~AnyLinks
    PROVE  Spec => []LinksRespected
<1>1. Init => LInv
    BY SightInit
<1>2. TInv /\ Acyclic /\ LInv /\ [Next]_vars => LInv'
    BY SightStep
<1>3. LInv => LinksRespected
  <2> SUFFICES ASSUME LInv, AtRest, "dates" \notin waived, NEW e \in Graph(link)
               PROVE  Respected(e)
      BY DEF LinksRespected
  <2>1. req[only].pc = "idle"
      BY DEF AtRest, Idle, None
  <2>2. RespectedBy(dates, link, e)
      BY <2>1 DEF LInv, InSight
  <2> QED
      BY <2>2 DEF RespectedBy, Respected
<1>4. Spec => []TInv
    BY TypesHold
<1>5. Spec => []Acyclic
    BY SerialAcyclic
<1> QED
    BY <1>1, <1>2, <1>3, <1>4, <1>5, PTL DEF Spec

-----------------------------------------------------------------------------
(* Flags that are current, one request at a time.                           *)

(* The flags are current, or the request will set them.                     *)
FlagsFollow(r, ds, l, flags) ==
    /\ r.pc \in {"idle", "insert", "apply"} => flags = CriticalTasks(ds, l)
    /\ r.pc = "write_flags" => r.flag = CriticalTasks(ds, l)
    /\ r.pc = "count" /\ Own(r.task, Graph(l)) = {} => flags = CriticalTasks(ds, l)

FInv ==
    "critical" \notin waived => \A h \in Handler : FlagsFollow(req[h], dates, link, critical)
-----------------------------------------------------------------------------
(* What CriticalTasks computes: the earliest starts and the latest finishes *)
(* are recursive functions over the links.                                  *)
EarlyBound(ds, k, es, ef, t) ==
    CASE k.type = "FS" -> ef + k.lag + 1
      [] k.type = "SS" -> es + k.lag
      [] k.type = "FF" -> ef + k.lag - Days(ds[t]) + 1
      [] k.type = "SF" -> es + k.lag - Days(ds[t]) + 1

EarlyOf(f, ds, l, t) ==
    Max((IF ds[t].start = {} THEN {0} ELSE ds[t].start) \cup
        {EarlyBound(ds, l[<<p, t>>], f[p], f[p] + Days(ds[p]) - 1, t) :
            p \in Predecessors(Graph(l), t)})

Early(f, ds, l) == f = [t \in Task |-> EarlyOf(f, ds, l, t)]

LateBound(ds, k, ls, lf, t) ==
    CASE k.type = "FS" -> ls - k.lag - 1
      [] k.type = "SS" -> ls - k.lag + Days(ds[t]) - 1
      [] k.type \in {"FF", "SF"} -> lf - k.lag

LateOf(es, f, ds, l, t) ==
    IF Successors(Graph(l), t) = {} THEN es[t] + Days(ds[t]) - 1
    ELSE Min({LateBound(ds, l[<<t, s>>], f[s] - Days(ds[s]) + 1, f[s], t) :
                 s \in Successors(Graph(l), t)})

Late(es, f, ds, l) == f = [t \in Task |-> LateOf(es, f, ds, l, t)]

EarlyStarts(ds, l) == CHOOSE f : Early(f, ds, l)
LateFinishes(es, ds, l) == CHOOSE f : Late(es, f, ds, l)

LEMMA CriticalTasksDef ==
    ASSUME NEW ds, NEW l, Acyclical(Graph(l))
    PROVE  CriticalTasks(ds, l) =
              {t \in Task : /\ \E e \in Graph(l) : t \in {e[1], e[2]}
                            /\ EarlyStarts(ds, l)[t] =
                                 LateFinishes(EarlyStarts(ds, l), ds, l)[t] - Days(ds[t]) + 1}
BY DEF CriticalTasks, EarlyStarts, LateFinishes, Early, Late, EarlyOf, LateOf, EarlyBound, LateBound

(* Along a link of a graph without a cycle strictly fewer tasks are         *)
(* reached.                                                                 *)
LEMMA ReachShrinks ==
    ASSUME NEW g \in SUBSET Edge, Acyclical(g), NEW t \in Task, NEW s \in Successors(g, t)
    PROVE  Reach(g, s) \subseteq Reach(g, t) /\ Reach(g, s) # Reach(g, t)
<1>1. s \in Task /\ <<t, s>> \in g /\ t \in Reach(g, t)
    BY ReachesItself DEF Successors
<1>2. s \in Reach(g, t)
    BY <1>1, ReachIsClosed DEF Closed
<1>3. t \notin Reach(g, s)
    BY <1>1 DEF Acyclical
<1> QED
    BY <1>1, <1>2, <1>3, ReachIsTransitive

(* Without a cycle, some task of a set has no successor in it, and some has *)
(* no predecessor in it.                                                    *)
LEMMA SomeLast ==
    ASSUME IsFiniteSet(Task), NEW g \in SUBSET Edge, Acyclical(g), NEW D \in SUBSET Task, D # {}
    PROVE  \E t \in D : Successors(g, t) \cap D = {}
<1> SUFFICES ASSUME \A t \in D : Successors(g, t) \cap D # {}
             PROVE  FALSE
    OBVIOUS
<1> DEFINE good == {S \in SUBSET Task : \A t \in D : Reach(g, t) # S}
<1>1. ASSUME NEW S \in SUBSET Task, \A T \in SUBSET S : T # S => T \in good
      PROVE  S \in good
  <2> SUFFICES ASSUME NEW t \in D, Reach(g, t) = S
               PROVE  FALSE
      OBVIOUS
  <2>1. PICK s \in Successors(g, t) : s \in D
      OBVIOUS
  <2>2. Reach(g, s) \subseteq S /\ Reach(g, s) # S
      BY <2>1, ReachShrinks
  <2>3. Reach(g, s) \in good
      BY <1>1, <2>2
  <2> QED
      BY <2>1, <2>3
<1> HIDE DEF good
<1>2. \A S \in SUBSET Task : S \in good
    BY <1>1, BySubsets
<1>3. PICK t \in D : TRUE
    OBVIOUS
<1>4. Reach(g, t) \in good
    BY <1>2 DEF Reach
<1> QED
    BY <1>3, <1>4 DEF good

LEMMA SomeFirst ==
    ASSUME IsFiniteSet(Task), NEW g \in SUBSET Edge, Acyclical(g), NEW D \in SUBSET Task, D # {}
    PROVE  \E t \in D : Predecessors(g, t) \cap D = {}
<1> SUFFICES ASSUME \A t \in D : Predecessors(g, t) \cap D # {}
             PROVE  FALSE
    OBVIOUS
<1> DEFINE good == {S \in SUBSET Task : \A t \in D : Task \ Reach(g, t) # S}
<1>1. ASSUME NEW S \in SUBSET Task, \A T \in SUBSET S : T # S => T \in good
      PROVE  S \in good
  <2> SUFFICES ASSUME NEW t \in D, Task \ Reach(g, t) = S
               PROVE  FALSE
      OBVIOUS
  <2>1. PICK p \in Predecessors(g, t) : p \in D
      OBVIOUS
  <2>2. t \in Successors(g, p)
      BY <2>1 DEF Predecessors, Successors
  <2>3. /\ Reach(g, t) \subseteq Reach(g, p) /\ Reach(g, t) # Reach(g, p)
        /\ Reach(g, p) \in SUBSET Task
      BY <2>1, <2>2, ReachShrinks DEF Reach
  <2>4. Task \ Reach(g, p) \in SUBSET S /\ Task \ Reach(g, p) # S
      BY <2>3
  <2>5. Task \ Reach(g, p) \in good
      BY <1>1, <2>4
  <2> QED
      BY <2>1, <2>5
<1> HIDE DEF good
<1>2. \A S \in SUBSET Task : S \in good
    BY <1>1, BySubsets
<1>3. PICK t \in D : TRUE
    OBVIOUS
<1>4. Task \ Reach(g, t) \in good
    BY <1>2
<1> QED
    BY <1>3, <1>4 DEF good

-----------------------------------------------------------------------------
(* The dates of a task without links do not decide what is critical.        *)

(* Dates, or functions of the tasks, that differ for one task at most.      *)
AgreeOff(t, f, k) == \A u \in Task : u # t => f[u] = k[u]

LEMMA LinksElsewhere ==
    ASSUME NEW g \in SUBSET Edge, NEW t \in Task, Own(t, g) = {}, NEW u \in Task
    PROVE  /\ t \notin Predecessors(g, u) /\ t \notin Successors(g, u)
           /\ Predecessors(g, t) = {} /\ Successors(g, t) = {}
BY DEF Own, Predecessors, Successors

LEMMA EarlyBoundSame ==
    ASSUME NEW ds, NEW new, NEW u, ds[u] = new[u], NEW k, NEW es, NEW ef
    PROVE  EarlyBound(ds, k, es, ef, u) = EarlyBound(new, k, es, ef, u)
BY DEF EarlyBound

LEMMA LateBoundSame ==
    ASSUME NEW ds, NEW new, NEW u, ds[u] = new[u], NEW k, NEW ls, NEW lf
    PROVE  LateBound(ds, k, ls, lf, u) = LateBound(new, k, ls, lf, u)
BY DEF LateBound

(* What is asked of a task depends on its predecessors.                     *)
LEMMA EarlyOfSame ==
    ASSUME NEW ds, NEW new, NEW l, NEW f, NEW k, NEW u \in Task, ds[u] = new[u],
           \A p \in Predecessors(Graph(l), u) : f[p] = k[p] /\ ds[p] = new[p]
    PROVE  EarlyOf(f, ds, l, u) = EarlyOf(k, new, l, u)
<1> DEFINE pre == Predecessors(Graph(l), u)
           A == {EarlyBound(ds, l[<<p, u>>], f[p], f[p] + Days(ds[p]) - 1, u) : p \in pre}
           B == {EarlyBound(new, l[<<p, u>>], k[p], k[p] + Days(new[p]) - 1, u) : p \in pre}
<1>1. ASSUME NEW p \in pre
      PROVE  EarlyBound(ds, l[<<p, u>>], f[p], f[p] + Days(ds[p]) - 1, u)
               = EarlyBound(new, l[<<p, u>>], k[p], k[p] + Days(new[p]) - 1, u)
  <2>1. f[p] = k[p] /\ ds[p] = new[p]
      BY <1>1
  <2>2. EarlyBound(ds, l[<<p, u>>], f[p], f[p] + Days(ds[p]) - 1, u)
          = EarlyBound(new, l[<<p, u>>], f[p], f[p] + Days(ds[p]) - 1, u)
      BY EarlyBoundSame
  <2> QED
      BY <2>1, <2>2
<1> HIDE DEF pre
<1>2. A = B
    BY <1>1
<1> HIDE DEF A, B
<1>3. EarlyOf(f, ds, l, u) = Max((IF ds[u].start = {} THEN {0} ELSE ds[u].start) \cup A)
    BY DEF EarlyOf, A, pre
<1>4. EarlyOf(k, new, l, u) = Max((IF new[u].start = {} THEN {0} ELSE new[u].start) \cup B)
    BY DEF EarlyOf, B, pre
<1> QED
    BY <1>2, <1>3, <1>4

(* What is left to a task depends on its successors.                        *)
LEMMA LateOfSame ==
    ASSUME NEW ds, NEW new, NEW l, NEW es, NEW fs, NEW f, NEW k, NEW u \in Task,
           ds[u] = new[u], es[u] = fs[u],
           \A s \in Successors(Graph(l), u) : f[s] = k[s] /\ ds[s] = new[s]
    PROVE  LateOf(es, f, ds, l, u) = LateOf(fs, k, new, l, u)
<1> DEFINE post == Successors(Graph(l), u)
           A == {LateBound(ds, l[<<u, s>>], f[s] - Days(ds[s]) + 1, f[s], u) : s \in post}
           B == {LateBound(new, l[<<u, s>>], k[s] - Days(new[s]) + 1, k[s], u) : s \in post}
<1>1. ASSUME NEW s \in post
      PROVE  LateBound(ds, l[<<u, s>>], f[s] - Days(ds[s]) + 1, f[s], u)
               = LateBound(new, l[<<u, s>>], k[s] - Days(new[s]) + 1, k[s], u)
  <2>1. f[s] = k[s] /\ ds[s] = new[s]
      BY <1>1
  <2>2. LateBound(ds, l[<<u, s>>], f[s] - Days(ds[s]) + 1, f[s], u)
          = LateBound(new, l[<<u, s>>], f[s] - Days(ds[s]) + 1, f[s], u)
      BY LateBoundSame
  <2> QED
      BY <2>1, <2>2
<1> HIDE DEF post
<1>2. A = B
    BY <1>1
<1> HIDE DEF A, B
<1>3. LateOf(es, f, ds, l, u) = IF post = {} THEN es[u] + Days(ds[u]) - 1 ELSE Min(A)
    BY DEF LateOf, A, post
<1>4. LateOf(fs, k, new, l, u) = IF post = {} THEN fs[u] + Days(new[u]) - 1 ELSE Min(B)
    BY DEF LateOf, B, post
<1> QED
    BY <1>2, <1>3, <1>4

LEMMA EarlyAgree ==
    ASSUME IsFiniteSet(Task), NEW l, Acyclical(Graph(l)), NEW t \in Task, Own(t, Graph(l)) = {},
           NEW ds, NEW new, AgreeOff(t, ds, new),
           NEW f, NEW k, Early(f, ds, l), Early(k, new, l)
    PROVE  AgreeOff(t, f, k)
<1> DEFINE g == Graph(l)
           D == {u \in Task : u # t /\ f[u] # k[u]}
<1>1. SUFFICES ASSUME D # {} PROVE FALSE
    BY DEF AgreeOff
<1>2. PICK u \in D : Predecessors(g, u) \cap D = {}
    BY <1>1, SomeFirst, GraphIsEdges
<1>3. \A p \in Predecessors(g, u) : f[p] = k[p] /\ ds[p] = new[p]
  <2> SUFFICES ASSUME NEW p \in Predecessors(g, u)
               PROVE  f[p] = k[p] /\ ds[p] = new[p]
      OBVIOUS
  <2>1. p \in Task /\ p # t /\ p \notin D
      BY <1>2, LinksElsewhere, GraphIsEdges DEF Predecessors
  <2> QED
      BY <2>1 DEF AgreeOff
<1>4. u \in Task /\ u # t /\ ds[u] = new[u] /\ f[u] # k[u]
    BY DEF AgreeOff
<1>5. EarlyOf(f, ds, l, u) = EarlyOf(k, new, l, u)
    BY <1>3, <1>4, EarlyOfSame
<1>6. f[u] = EarlyOf(f, ds, l, u) /\ k[u] = EarlyOf(k, new, l, u)
    BY <1>4 DEF Early
<1> QED
    BY <1>4, <1>5, <1>6

(* The recursion has a solution when there is no cycle: it is built up over *)
(* sets of tasks that hold the predecessors of their members.               *)
LEMMA EarlyExists ==
    ASSUME IsFiniteSet(Task), NEW l, Acyclical(Graph(l)), NEW ds
    PROVE  \E f : Early(f, ds, l)
<1> DEFINE g == Graph(l)
           Whole(S) == \A t \in S : Predecessors(g, t) \subseteq S
           On(S, f) == \A t \in S : f[t] = EarlyOf(f, ds, l, t)
           good == {S \in SUBSET Task : Whole(S) => \E f : On(S, f)}
<1>1. ASSUME NEW S \in SUBSET Task, \A T \in SUBSET S : T # S => T \in good, Whole(S)
      PROVE  \E f : On(S, f)
  <2>1. CASE S = {}
      BY <2>1
  <2>2. CASE S # {}
    <3>1. PICK t \in S : Successors(g, t) \cap S = {}
        BY <2>2, SomeLast, GraphIsEdges
    <3>2. \A u \in S : t \notin Predecessors(g, u)
        BY <3>1 DEF Predecessors, Successors
    <3>3. Whole(S \ {t})
        BY <1>1, <3>2
    <3>4. PICK f : On(S \ {t}, f)
        BY <1>1, <3>3
    <3> DEFINE k == [u \in Task |-> IF u = t THEN EarlyOf(f, ds, l, t) ELSE f[u]]
    <3>5. k[t] = EarlyOf(f, ds, l, t) /\ \A u \in Task : u # t => k[u] = f[u]
        OBVIOUS
    <3> HIDE DEF k
    <3>6. ASSUME NEW u \in S PROVE EarlyOf(f, ds, l, u) = EarlyOf(k, ds, l, u)
      <4>1. \A p \in Predecessors(g, u) : f[p] = k[p]
          BY <3>2, <3>5 DEF Predecessors
      <4> QED
          BY <4>1, EarlyOfSame
    <3>7. On(S, k)
        BY <3>4, <3>5, <3>6
    <3> QED
        BY <3>7
  <2> QED
      BY <2>1, <2>2
<1>2. \A S \in SUBSET Task : S \in good
  <2> HIDE DEF Whole, On
  <2>1. ASSUME NEW S \in SUBSET Task, \A T \in SUBSET S : T # S => T \in good
        PROVE  S \in good
      BY <1>1, <2>1
  <2> HIDE DEF good
  <2> QED
      BY <2>1, BySubsets
<1>3. Whole(Task)
    BY DEF Predecessors
<1>4. PICK f : On(Task, f)
    BY <1>2, <1>3
<1> DEFINE k == [t \in Task |-> f[t]]
<1>5. ASSUME NEW t \in Task PROVE EarlyOf(f, ds, l, t) = EarlyOf(k, ds, l, t)
  <2>1. \A p \in Predecessors(g, t) : f[p] = k[p]
      BY DEF Predecessors
  <2> HIDE DEF k
  <2> QED
      BY <2>1, EarlyOfSame
<1>6. k = [t \in Task |-> EarlyOf(k, ds, l, t)]
    BY <1>4, <1>5
<1>7. Early(k, ds, l)
  <2> HIDE DEF k
  <2> QED
      BY <1>6 DEF Early
<1> QED
    BY <1>7

LEMMA EarlyStartsAgree ==
    ASSUME IsFiniteSet(Task), NEW l, Acyclical(Graph(l)), NEW t \in Task, Own(t, Graph(l)) = {},
           NEW ds, NEW new, AgreeOff(t, ds, new)
    PROVE  AgreeOff(t, EarlyStarts(ds, l), EarlyStarts(new, l))
<1>1. (\E f : Early(f, ds, l)) /\ \E f : Early(f, new, l)
    BY EarlyExists
<1>2. Early(EarlyStarts(ds, l), ds, l)
    BY <1>1 DEF EarlyStarts
<1>3. Early(EarlyStarts(new, l), new, l)
    BY <1>1 DEF EarlyStarts
<1> QED
    BY <1>2, <1>3, EarlyAgree

LEMMA LateAgree ==
    ASSUME IsFiniteSet(Task), NEW l, Acyclical(Graph(l)), NEW t \in Task, Own(t, Graph(l)) = {},
           NEW ds, NEW new, AgreeOff(t, ds, new), NEW es, NEW fs, AgreeOff(t, es, fs),
           NEW f, NEW k, Late(es, f, ds, l), Late(fs, k, new, l)
    PROVE  AgreeOff(t, f, k)
<1> DEFINE g == Graph(l)
           D == {u \in Task : u # t /\ f[u] # k[u]}
<1>1. SUFFICES ASSUME D # {} PROVE FALSE
    BY DEF AgreeOff
<1>2. PICK u \in D : Successors(g, u) \cap D = {}
    BY <1>1, SomeLast, GraphIsEdges
<1>3. \A s \in Successors(g, u) : f[s] = k[s] /\ ds[s] = new[s]
  <2> SUFFICES ASSUME NEW s \in Successors(g, u)
               PROVE  f[s] = k[s] /\ ds[s] = new[s]
      OBVIOUS
  <2>1. s \in Task /\ s # t /\ s \notin D
      BY <1>2, LinksElsewhere, GraphIsEdges DEF Successors
  <2> QED
      BY <2>1 DEF AgreeOff
<1>4. u \in Task /\ u # t /\ ds[u] = new[u] /\ es[u] = fs[u] /\ f[u] # k[u]
    BY DEF AgreeOff
<1>5. LateOf(es, f, ds, l, u) = LateOf(fs, k, new, l, u)
    BY <1>3, <1>4, LateOfSame
<1>6. f[u] = LateOf(es, f, ds, l, u) /\ k[u] = LateOf(fs, k, new, l, u)
    BY <1>4 DEF Late
<1> QED
    BY <1>4, <1>5, <1>6

LEMMA LateExists ==
    ASSUME IsFiniteSet(Task), NEW l, Acyclical(Graph(l)), NEW ds, NEW es
    PROVE  \E f : Late(es, f, ds, l)
<1> DEFINE g == Graph(l)
           Whole(S) == \A t \in S : Successors(g, t) \subseteq S
           On(S, f) == \A t \in S : f[t] = LateOf(es, f, ds, l, t)
           good == {S \in SUBSET Task : Whole(S) => \E f : On(S, f)}
<1>1. ASSUME NEW S \in SUBSET Task, \A T \in SUBSET S : T # S => T \in good, Whole(S)
      PROVE  \E f : On(S, f)
  <2>1. CASE S = {}
      BY <2>1
  <2>2. CASE S # {}
    <3>1. PICK t \in S : Predecessors(g, t) \cap S = {}
        BY <2>2, SomeFirst, GraphIsEdges
    <3>2. \A u \in S : t \notin Successors(g, u)
        BY <3>1 DEF Successors, Predecessors
    <3>3. Whole(S \ {t})
        BY <1>1, <3>2
    <3>4. PICK f : On(S \ {t}, f)
        BY <1>1, <3>3
    <3> DEFINE k == [u \in Task |-> IF u = t THEN LateOf(es, f, ds, l, t) ELSE f[u]]
    <3>5. k[t] = LateOf(es, f, ds, l, t) /\ \A u \in Task : u # t => k[u] = f[u]
        OBVIOUS
    <3> HIDE DEF k
    <3>6. ASSUME NEW u \in S PROVE LateOf(es, f, ds, l, u) = LateOf(es, k, ds, l, u)
      <4>1. \A p \in Successors(g, u) : f[p] = k[p]
          BY <3>2, <3>5 DEF Successors
      <4> QED
          BY <4>1, LateOfSame
    <3>7. On(S, k)
        BY <3>4, <3>5, <3>6
    <3> QED
        BY <3>7
  <2> QED
      BY <2>1, <2>2
<1>2. \A S \in SUBSET Task : S \in good
  <2> HIDE DEF Whole, On
  <2>1. ASSUME NEW S \in SUBSET Task, \A T \in SUBSET S : T # S => T \in good
        PROVE  S \in good
      BY <1>1, <2>1
  <2> HIDE DEF good
  <2> QED
      BY <2>1, BySubsets
<1>3. Whole(Task)
    BY DEF Successors
<1>4. PICK f : On(Task, f)
    BY <1>2, <1>3
<1> DEFINE k == [t \in Task |-> f[t]]
<1>5. ASSUME NEW t \in Task PROVE LateOf(es, f, ds, l, t) = LateOf(es, k, ds, l, t)
  <2>1. \A p \in Successors(g, t) : f[p] = k[p]
      BY DEF Successors
  <2> HIDE DEF k
  <2> QED
      BY <2>1, LateOfSame
<1>6. k = [t \in Task |-> LateOf(es, k, ds, l, t)]
    BY <1>4, <1>5
<1>7. Late(es, k, ds, l)
  <2> HIDE DEF k
  <2> QED
      BY <1>6 DEF Late
<1> QED
    BY <1>7

LEMMA LateFinishesAgree ==
    ASSUME IsFiniteSet(Task), NEW l, Acyclical(Graph(l)), NEW t \in Task, Own(t, Graph(l)) = {},
           NEW ds, NEW new, AgreeOff(t, ds, new), NEW es, NEW fs, AgreeOff(t, es, fs)
    PROVE  AgreeOff(t, LateFinishes(es, ds, l), LateFinishes(fs, new, l))
<1>1. \E f : Late(es, f, ds, l)
    BY LateExists
<1>2. Late(es, LateFinishes(es, ds, l), ds, l)
    BY <1>1 DEF LateFinishes
<1>3. \E f : Late(fs, f, new, l)
    BY LateExists
<1>4. Late(fs, LateFinishes(fs, new, l), new, l)
    BY <1>3 DEF LateFinishes
<1> QED
    BY <1>2, <1>4, LateAgree

(* New dates of a task without links leave the critical path as it is.      *)
LEMMA UnlinkedDates ==
    ASSUME IsFiniteSet(Task), NEW l, NEW t \in Task, Own(t, Graph(l)) = {},
           NEW ds, NEW new, AgreeOff(t, ds, new)
    PROVE  CriticalTasks(new, l) = CriticalTasks(ds, l)
<1>1. CASE ~Acyclical(Graph(l))
    BY <1>1 DEF CriticalTasks
<1>2. CASE Acyclical(Graph(l))
  <2> DEFINE es == EarlyStarts(ds, l)
             fs == EarlyStarts(new, l)
             lf == LateFinishes(es, ds, l)
             mf == LateFinishes(fs, new, l)
             A == CriticalTasks(ds, l)
             B == CriticalTasks(new, l)
  <2>1. AgreeOff(t, es, fs)
      BY <1>2, EarlyStartsAgree
  <2>2. AgreeOff(t, lf, mf)
    <3> HIDE DEF es, fs
    <3> QED
        BY <1>2, <2>1, LateFinishesAgree
  <2>3. A = {u \in Task : (\E e \in Graph(l) : u \in {e[1], e[2]}) /\ es[u] = lf[u] - Days(ds[u]) + 1}
      BY <1>2, CriticalTasksDef
  <2>4. B = {u \in Task : (\E e \in Graph(l) : u \in {e[1], e[2]}) /\ fs[u] = mf[u] - Days(new[u]) + 1}
      BY <1>2, CriticalTasksDef
  <2>5. ASSUME NEW u \in Task, \E e \in Graph(l) : u \in {e[1], e[2]}
        PROVE  es[u] = fs[u] /\ lf[u] = mf[u] /\ ds[u] = new[u]
    <3>1. u # t
        BY <2>5 DEF Own
    <3> QED
        BY <2>1, <2>2, <3>1 DEF AgreeOff
  <2> HIDE DEF es, fs, lf, mf, A, B
  <2>6. \A u \in Task : u \in A <=> u \in B
      BY <2>3, <2>4, <2>5
  <2>7. A \subseteq Task /\ B \subseteq Task
      BY <2>3, <2>4
  <2>8. A = B
      BY <2>6, <2>7
  <2> QED
      BY <2>8 DEF A, B
<1> QED
    BY <1>1, <1>2

LEMMA FollowStep ==
    ASSUME NEW only, Handler = {only}, TInv, NEW r, Become(only, r),
           "critical" \notin waived' => FlagsFollow(r, dates', link', critical')
    PROVE  FInv'
<1>1. \A h \in Handler : req'[h] = r
    BY DEF Become, TInv, TypeOK
<1> QED
    BY <1>1 DEF FInv

(* Nothing is asked of the flags before they are read.                      *)
LEMMA NothingToFollow ==
    ASSUME NEW r, r.pc \in {"recalculate", "write", "flags"}, NEW ds, NEW l, NEW flags
    PROVE  FlagsFollow(r, ds, l, flags)
BY DEF FlagsFollow

LEMMA FollowLinkRequests ==
    ASSUME NEW only, Handler = {only}, TInv, FInv, LinkRequest(only)
    PROVE  FInv'
<1>1. ASSUME NEW p \in Task, NEW s \in Task, CreateCheck(only, p, s)
      PROVE  FInv'
  <2>1. PICK k \in Link : Become(only, [Ask("insert", s) EXCEPT !.add = {<<p, s>>}, !.link = k])
      BY <1>1 DEF CreateCheck
  <2> DEFINE r == [Ask("insert", s) EXCEPT !.add = {<<p, s>>}, !.link = k]
  <2>2. r.pc = "insert" /\ Become(only, r)
      BY <2>1 DEF Ask
  <2> HIDE DEF r
  <2>3. req[only].pc = "idle" /\ UNCHANGED <<rows, waived>>
      BY <1>1 DEF CreateCheck, Begin, Idle, None
  <2>4. "critical" \notin waived' => critical' = CriticalTasks(dates', link')
      BY <2>3 DEF FInv, FlagsFollow, rows
  <2> QED
      BY <2>2, <2>4, FollowStep DEF FlagsFollow
<1>2. ASSUME NEW e \in Edge, UpdateLink(only, e) \/ RemoveLink(only, e)
      PROVE  FInv'
  <2>1. PICK r : Become(only, r) /\ r.pc \in {"recalculate", "flags"}
    <3>1. PICK pc \in {"recalculate", "flags"} : Become(only, Ask(pc, e[2]))
        BY <1>2 DEF UpdateLink, RemoveLink
    <3>2. Ask(pc, e[2]).pc = pc
        BY DEF Ask
    <3> QED
        BY <3>1, <3>2
  <2> QED
      BY <2>1, NothingToFollow, FollowStep
<1> QED
    BY <1>1, <1>2 DEF LinkRequest

LEMMA FollowTaskRequests ==
    ASSUME ScheduleAssumption, NEW only, Handler = {only}, TInv, FInv, TaskRequest(only)
    PROVE  FInv'
<1>1. req[only].pc = "idle" /\ link' = link /\ critical' = critical /\ waived' = waived
  <2>1. CASE \E t \in Task : EditDates(only, t)
      BY <2>1 DEF EditDates, Begin, Idle, None
  <2>2. CASE \E t \in Task : \E add, remove \in Few : BundleValidate(only, t, add, remove)
    <3>1. req[only] = None /\ UNCHANGED rows /\ waived' = waived
        BY <2>2 DEF BundleValidate, Begin, Idle
    <3> QED
        BY <3>1 DEF None, rows
  <2> QED
      BY <2>1, <2>2 DEF TaskRequest
<1>2. "critical" \notin waived => critical = CriticalTasks(dates, link)
    BY <1>1 DEF FInv, FlagsFollow
<1>3. ASSUME NEW t \in Task, EditDates(only, t)
      PROVE  FInv'
  <2> DEFINE r == Ask("count", t)
  <2>1. r.pc = "count" /\ r.task = t /\ Become(only, r)
      BY <1>3 DEF EditDates, Ask
  <2> HIDE DEF r
  <2>2. AgreeOff(t, dates, dates')
      BY <1>3 DEF EditDates, TInv, TypeOK, AgreeOff
  <2>3. Own(t, Graph(link)) = {} => CriticalTasks(dates', link) = CriticalTasks(dates, link)
    <3>1. \A ds, new, l : AgreeOff(t, ds, new) /\ Own(t, Graph(l)) = {} =>
                             CriticalTasks(new, l) = CriticalTasks(ds, l)
        BY UnlinkedDates DEF ScheduleAssumption
    <3> QED
        BY <2>2, <3>1
  <2> QED
      BY <1>1, <1>2, <2>1, <2>3, FollowStep DEF FlagsFollow
<1>4. ASSUME NEW t \in Task, NEW add \in Few, NEW remove \in Few, BundleValidate(only, t, add, remove)
      PROVE  FInv'
  <2>1. PICK k, span : Become(only, [Ask("apply", t) EXCEPT !.add = add, !.remove = remove,
                                                           !.link = k, !.span = span])
      BY <1>4 DEF BundleValidate
  <2> DEFINE r == [Ask("apply", t) EXCEPT !.add = add, !.remove = remove, !.link = k, !.span = span]
  <2>2. r.pc = "apply" /\ Become(only, r)
      BY <2>1 DEF Ask
  <2> HIDE DEF r
  <2>3. dates' = dates
      BY <1>4 DEF BundleValidate, rows
  <2> QED
      BY <1>1, <1>2, <2>2, <2>3, FollowStep DEF FlagsFollow
<1> QED
    BY <1>3, <1>4 DEF TaskRequest

LEMMA FollowInsert ==
    ASSUME NEW only, Handler = {only}, TInv, FInv, CreateInsert(only)
    PROVE  FInv'
<1>1. req[only].pc = "insert" /\ UNCHANGED <<dates, critical>>
    BY DEF CreateInsert, At
<1>2. CASE Become(only, None) /\ UNCHANGED <<link, waived>>
    BY <1>1, <1>2, FollowStep DEF FInv, FlagsFollow, None
<1>3. CASE Become(only, Ask("recalculate", req[only].task))
  <2>1. Ask("recalculate", req[only].task).pc = "recalculate"
      BY DEF Ask
  <2> QED
      BY <1>3, <2>1, NothingToFollow, FollowStep
<1> QED
    BY <1>2, <1>3 DEF CreateInsert

LEMMA FollowBundle ==
    ASSUME NEW only, Handler = {only}, TInv, FInv, BundleApply(only)
    PROVE  FInv'
<1> DEFINE r == req[only]
           gone == Own(r.task, r.remove \cap Graph(link))
           first == IF gone # {} THEN gone ELSE r.add
           new == [e \in Edge |-> IF e \in r.add THEN r.link
                                  ELSE IF e \in gone THEN NoLink ELSE link[e]]
           Seed(g, seed) ==
               /\ Become(only, Ask("count", seed))
               /\ waived' = waived \cup Merging(g)
                     \cup (IF {e \in r.add : e[2] \notin Reach(Graph(g), seed)} # {} THEN {"dates"} ELSE {})
                     \cup (IF ~(\E e \in Graph(g) : seed \in {e[1], e[2]}) THEN {"critical"} ELSE {})
<1>1. /\ r.pc = "apply" /\ critical' = critical /\ link' = new
      /\ r.span = {} => dates' = dates
      /\ \/ r.span # {} /\ Seed(new, r.task)
         \/ r.span = {} /\ \E f \in first : Seed(new, f[2])
         \/ r.span = {} /\ first = {} /\ Become(only, None) /\ UNCHANGED waived
    BY DEF BundleApply, At
<1>2. "critical" \notin waived => critical = CriticalTasks(dates, link)
    BY <1>1 DEF FInv, FlagsFollow
<1>3. ASSUME NEW seed, Seed(new, seed) PROVE FInv'
  <2> DEFINE next == Ask("count", seed)
  <2>1. next.pc = "count" /\ next.task = seed /\ Become(only, next)
      BY <1>3 DEF Ask
  <2>2. "critical" \notin waived' => \E e \in Graph(new) : seed \in {e[1], e[2]}
      BY <1>3
  <2>3. "critical" \notin waived' => Own(seed, Graph(link')) # {}
    <3> HIDE DEF new
    <3> QED
        BY <1>1, <2>2 DEF Own
  <2> HIDE DEF next
  <2> QED
      BY <2>1, <2>3, FollowStep DEF FlagsFollow
<1>4. CASE r.span = {} /\ first = {} /\ Become(only, None) /\ UNCHANGED waived
  <2>1. r.add = {} /\ gone = {}
      BY <1>4
  <2>2. new = [e \in Edge |-> link[e]]
      BY <2>1
  <2>3. link' = link
      BY <1>1, <2>2 DEF TInv, TypeOK
  <2> QED
      BY <1>1, <1>2, <1>4, <2>3, FollowStep DEF FlagsFollow, None
<1> HIDE DEF Seed, new, first, r
<1> QED
    BY <1>1, <1>3, <1>4

LEMMA FollowCount ==
    ASSUME NEW only, Handler = {only}, TInv, FInv, Count(only)
    PROVE  FInv'
<1> DEFINE t == req[only].task
<1>1. req[only].pc = "count" /\ UNCHANGED <<rows, waived>>
    BY DEF Count, At
<1>2. CASE Own(t, Graph(link)) = {}
    BY <1>1, <1>2, FollowStep DEF Count, FInv, FlagsFollow, None, rows
<1>3. CASE Own(t, Graph(link)) # {}
  <2> DEFINE next == [req[only] EXCEPT !.pc = "recalculate"]
  <2>1. Become(only, next)
      BY <1>3 DEF Count, Goto, Become
  <2>2. next.pc = "recalculate"
    <3>1. Good(req[only])
        BY <1>1, AtIsGood
    <3> QED
        BY <3>1 DEF Good, Request
  <2> HIDE DEF next
  <2> QED
      BY <2>1, <2>2, NothingToFollow, FollowStep
<1> QED
    BY <1>2, <1>3

LEMMA FollowDates ==
    ASSUME NEW only, Handler = {only}, TInv, FInv,
           Recalculate(only) \/ \E t \in Task : WriteDates(only, t)
    PROVE  FInv'
<1>1. req[only].pc \in {"recalculate", "write"}
    BY DEF Recalculate, WriteDates, At
<1>2. req[only] \in Request
    BY <1>1, AtIsGood DEF Good
<1>3. PICK r : Become(only, r) /\ r.pc \in {"recalculate", "write", "flags"}
  <2>1. CASE Recalculate(only)
    <3>1. PICK todo, plan, pc : /\ pc \in {"flags", "write"}
                                /\ Become(only, [req[only] EXCEPT !.todo = todo, !.plan = plan, !.pc = pc])
        BY <2>1 DEF Recalculate
    <3>2. [req[only] EXCEPT !.todo = todo, !.plan = plan, !.pc = pc].pc = pc
        BY <1>2 DEF Request
    <3> QED
        BY <3>1, <3>2
  <2>2. ASSUME NEW t \in Task, WriteDates(only, t)
        PROVE  \E r : Become(only, r) /\ r.pc \in {"recalculate", "write", "flags"}
    <3>1. \/ Become(only, Ask("flags", req[only].task))
          \/ Become(only, [req[only] EXCEPT !.todo = @ \ {t}])
        BY <2>2 DEF WriteDates
    <3>2. Ask("flags", req[only].task).pc = "flags"
        BY DEF Ask
    <3>3. [req[only] EXCEPT !.todo = @ \ {t}].pc = req[only].pc
        BY <1>2 DEF Request
    <3> QED
        BY <1>1, <3>1, <3>2, <3>3
  <2> QED
      BY <2>1, <2>2
<1> QED
    BY <1>3, NothingToFollow, FollowStep

LEMMA FollowFlags ==
    ASSUME NEW only, Handler = {only}, TInv, FInv, ReadFlags(only) \/ WriteFlags(only) \/ Abort(only)
    PROVE  FInv'
<1>1. CASE ReadFlags(only)
  <2> DEFINE r == [req[only] EXCEPT !.pc = "write_flags", !.flag = CriticalTasks(dates, link)]
  <2>1. Become(only, r) /\ UNCHANGED rows /\ req[only].pc = "flags"
      BY <1>1 DEF ReadFlags, At
  <2>2. req[only] \in Request
      BY <2>1, AtIsGood DEF Good
  <2>3. r.pc = "write_flags" /\ r.flag = CriticalTasks(dates, link)
      BY <2>2 DEF Request
  <2> HIDE DEF r
  <2>4. r.flag = CriticalTasks(dates', link')
      BY <2>1, <2>3 DEF rows
  <2> QED
      BY <2>1, <2>3, <2>4, FollowStep DEF FlagsFollow
<1>2. CASE WriteFlags(only)
  <2>1. /\ req[only].pc = "write_flags" /\ UNCHANGED <<link, dates, waived>>
        /\ critical' = req[only].flag /\ Become(only, None)
      BY <1>2 DEF WriteFlags, At
  <2>2. "critical" \notin waived' => critical' = CriticalTasks(dates', link')
      BY <2>1 DEF FInv, FlagsFollow
  <2> QED
      BY <2>1, <2>2, FollowStep DEF FlagsFollow, None
<1>3. CASE Abort(only)
  <2>1. UNCHANGED rows /\ Become(only, None)
      BY <1>3 DEF Abort
  <2>2. "critical" \notin waived' =>
           "critical" \notin waived /\ req[only].pc \in {"insert", "apply"}
      BY <1>3 DEF Abort, At
  <2>3. "critical" \notin waived' => critical = CriticalTasks(dates, link)
      BY <2>2 DEF FInv, FlagsFollow
  <2> QED
      BY <2>1, <2>3, FollowStep DEF FlagsFollow, None, rows
<1> QED
    BY <1>1, <1>2, <1>3

LEMMA FollowNext ==
    ASSUME ScheduleAssumption, NEW only, Handler = {only}, TInv, FInv, [Next]_vars
    PROVE  FInv'
<1>1. CASE UNCHANGED vars
    BY <1>1 DEF vars, rows, FInv
<1>2. CASE Next
    BY <1>2, FollowLinkRequests, FollowTaskRequests, FollowInsert, FollowBundle, FollowCount,
       FollowDates, FollowFlags
       DEF Next, Step
<1> QED
    BY <1>1, <1>2

LEMMA FollowInit == ASSUME Init PROVE FInv
<1>1. Graph(link) = {}
    BY DEF Init, Graph
<1>2. CriticalTasks(dates, link) = {}
    BY <1>1 DEF CriticalTasks
<1>3. critical = {} /\ \A h \in Handler : req[h].pc = "idle"
    BY DEF Init, None
<1> QED
    BY <1>2, <1>3 DEF FInv, FlagsFollow

(* Served one at a time, with errors at any step: once the requests are     *)
(* done the flags are those of the present links and dates, for any tasks,  *)
(* links and dates, bundles that name links of other tasks included, unless *)
(* a request broke off or a bundle recalculated from a task it left without *)
(* links.                                                                   *)
THEOREM SerialFlagsAreCurrent ==
    ASSUME ScheduleAssumption, NEW only, Handler = {only}
    PROVE  Spec => []FlagsAreCurrent
<1>1. Init => FInv
    BY FollowInit
<1>2. TInv /\ FInv /\ [Next]_vars => FInv'
    BY FollowNext
<1>3. FInv => FlagsAreCurrent
    BY DEF FInv, FlagsFollow, FlagsAreCurrent, AtRest, Idle, None
<1>4. Spec => []TInv
    BY TypesHold
<1> QED
    BY <1>1, <1>2, <1>3, <1>4, PTL DEF Spec
=============================================================================
