-------------------------- MODULE KekaClient_proof --------------------------
(***************************************************************************)
(* Proofs about KekaClient, for any number of callers, any cap, window and *)
(* number of retries.                                                      *)
(***************************************************************************)
EXTENDS KekaClient, FiniteSetTheorems, TLAPS

(* Who has slept in the gate: there is room, or a slot that counts will have
   left the window when the sleep is over.                                  *)
RoomAhead ==
    slept => \/ Cardinality(Counted) < Cap
             \/ \E s \in Counted : age[s] + sleep >= Window

(* Between changes of the settings, unless the last one overtook an exchange,
   all that is cached or being got is of the settings that are saved.       *)
Current ==
    clearing = 0 /\ ~overtaken =>
        /\ cache \in {0, settings}
        /\ \A c \in Caller : call[c].pc = "exchange" => call[c].token = settings

IInv == TypeOK /\ WindowBound /\ RoomAhead /\ GateHoldsWaiting /\ Current

-----------------------------------------------------------------------------
(* What moves a caller.                                                     *)

LEMMA SettleType ==
    ASSUME KekaClientAssumption, TypeOK, NEW c \in Caller, Settle(c)
    PROVE  call' \in [Caller -> Call]
<1>1. Idle \in Call BY DEF Call, Pc, Idle, KekaClientAssumption
<1> QED BY <1>1 DEF TypeOK, Settle

LEMMA GotoType ==
    ASSUME TypeOK, NEW c \in Caller, NEW pc \in Pc, Goto(c, pc)
    PROVE  call' \in [Caller -> Call]
BY DEF TypeOK, Goto, Call

(* A caller that was not in the gate leaves what it did; the others stay.   *)
LEMMA LeavesOff ==
    ASSUME TypeOK, NEW c \in Caller,
           Settle(c) \/ (\E n \in Int : TryAgain(c, n))
           \/ call' = [call EXCEPT ![c] = [@ EXCEPT !.pc = "sent", !.token = 0]]
    PROVE  /\ call'[c].pc \notin {"gate", "exchange"}
           /\ \A d \in Caller \ {c} : call'[d] = call[d]
<1> DOMAIN call = Caller BY DEF TypeOK
<1>1. CASE Settle(c) BY <1>1 DEF Settle, Idle
<1>2. CASE \E n \in Int : TryAgain(c, n)
  <2>1. PICK n \in Int, ticks \in UntilRefill :
          call' = [call EXCEPT ![c] = [@ EXCEPT !.pc = "wait", !.attempt = n, !.wait = ticks]]
    BY <1>2 DEF TryAgain
  <2> QED BY <2>1 DEF TypeOK, Call
<1>3. CASE call' = [call EXCEPT ![c] = [@ EXCEPT !.pc = "sent", !.token = 0]]
  BY <1>3 DEF TypeOK, Call
<1> QED BY <1>1, <1>2, <1>3

LEMMA AnswerLeavesOff ==
    ASSUME KekaClientAssumption, TypeOK, NEW c \in Caller,
           ExchangeToken(c) \/ Answered(c) \/ Refused(c)
    PROVE  /\ call[c].pc # "gate" /\ call'[c].pc \notin {"gate", "exchange"}
           /\ \A d \in Caller \ {c} : call'[d] = call[d]
<1>1. call[c].attempt + 1 \in Int BY DEF TypeOK, Call
<1>2. CASE ExchangeToken(c) BY <1>2, LeavesOff DEF ExchangeToken
<1>3. CASE Answered(c) BY <1>3, LeavesOff DEF Answered
<1>4. CASE Refused(c) BY <1>1, <1>4, LeavesOff DEF Refused
<1> QED BY <1>2, <1>3, <1>4

LEMMA UntilRefillType ==
    ASSUME TypeOK, KekaClientAssumption
    PROVE  UntilRefill \subseteq 0..Window
BY DEF TypeOK, KekaClientAssumption, UntilRefill, UntilOldestLeaves, Counted

LEMMA CountedFinite ==
    ASSUME KekaClientAssumption
    PROVE  /\ IsFiniteSet(Counted) /\ Cardinality(Counted) \in Nat
           /\ IsFiniteSet(Counted') /\ Cardinality(Counted') \in Nat
<1>1. IsFiniteSet(Slot) BY FS_Interval DEF Slot, KekaClientAssumption
<1>2. Counted \in SUBSET Slot /\ Counted' \in SUBSET Slot BY DEF Counted
<1>3. IsFiniteSet(Counted) /\ IsFiniteSet(Counted') BY <1>1, <1>2, FS_Subset
<1> QED BY <1>3, FS_CardinalityType

LEMMA InitType == ASSUME KekaClientAssumption, Init PROVE TypeOK
<1>1. call \in [Caller -> Call] BY DEF Init, Idle, Call, Pc, KekaClientAssumption
<1>2. age \in [Slot -> 0..Window] BY DEF Init, KekaClientAssumption
<1>3. slept \in BOOLEAN /\ overtaken \in BOOLEAN BY Zenon DEF Init
<1>4. sleep \in 0..Window /\ cache \in 0..MaxSettings /\ settings \in 1..MaxSettings
      /\ clearing \in 0..MaxSettings
  BY DEF Init, KekaClientAssumption
<1>5. gate \in Seq(Caller) BY DEF Init
<1> QED BY <1>1, <1>2, <1>3, <1>4, <1>5 DEF TypeOK

(* The clears that are due are the saves that were not followed by one.     *)
ClearsAreDue == clearing < settings

LEMMA GateType ==
    ASSUME KekaClientAssumption, TypeOK, GateStep
    PROVE  TypeOK'
<1> USE DEF gate_vars, token_vars
<1>1. CASE TakeSlot
  <2>1. age' \in [Slot -> 0..Window] BY <1>1 DEF TakeSlot, TypeOK, KekaClientAssumption
  <2>2. Head(gate) \in Caller /\ gate' \in Seq(Caller) BY <1>1 DEF TakeSlot, TypeOK
  <2>3. "token" \in Pc BY DEF Pc
  <2>4. call' \in [Caller -> Call] BY <1>1, <2>2, <2>3, GotoType DEF TakeSlot
  <2> QED BY <1>1, <2>1, <2>2, <2>4 DEF TakeSlot, TypeOK
<1>2. CASE SleepInGate
  <2>1. UntilOldestLeaves \subseteq 0..Window
    BY DEF UntilOldestLeaves, Counted, TypeOK, KekaClientAssumption
  <2> QED BY <1>2, <2>1 DEF SleepInGate, TypeOK
<1> QED BY <1>1, <1>2 DEF GateStep

LEMMA CallType ==
    ASSUME KekaClientAssumption, TypeOK, NEW c \in Caller, Begin(c) \/ CallStep(c)
    PROVE  TypeOK'
<1> USE DEF gate_vars, token_vars
<1> 0 \in 0..MaxSettings BY DEF KekaClientAssumption
<1> "gate" \in Pc /\ "sent" \in Pc /\ "config" \in Pc BY DEF Pc
<1>1. CASE Begin(c) \/ Retry(c)
  <2>1. call' \in [Caller -> Call] BY <1>1, GotoType DEF Begin, Retry
  <2>2. gate' = Append(gate, c) BY <1>1 DEF Begin, Retry
  <2>3. gate' \in Seq(Caller) BY <2>2 DEF TypeOK
  <2>4. UNCHANGED <<age, sleep, slept, token_vars>> BY <1>1 DEF Begin, Retry
  <2> QED BY <2>1, <2>3, <2>4 DEF TypeOK
<1>2. CASE ReadCache(c)
  <2>1. Goto(c, "sent") \/ Goto(c, "config") BY <1>2 DEF ReadCache
  <2>2. call' \in [Caller -> Call] BY <2>1, GotoType
  <2> QED BY <1>2, <2>2 DEF ReadCache, TypeOK
<1>3. CASE ReadSettings(c)
  <2>1. settings \in 0..MaxSettings BY DEF TypeOK, KekaClientAssumption
  <2>2. call' \in [Caller -> Call] BY <1>3, <2>1 DEF ReadSettings, TypeOK, Call, Pc
  <2> QED BY <1>3, <2>2 DEF ReadSettings, TypeOK
<1>4. CASE ExchangeToken(c)
  <2>1. call' \in [Caller -> Call]
    <3>1. CASE Settle(c) BY <3>1, SettleType
    <3>2. CASE call' = [call EXCEPT ![c] = [@ EXCEPT !.pc = "sent", !.token = 0]]
      BY <3>2, 0 \in 0..MaxSettings DEF TypeOK, Call
    <3> QED BY <1>4, <3>1, <3>2 DEF ExchangeToken
  <2>2. cache' \in 0..MaxSettings BY <1>4 DEF ExchangeToken, TypeOK, Call
  <2> QED BY <1>4, <2>1, <2>2 DEF ExchangeToken, TypeOK
<1>5. CASE Answered(c)
  <2>1. call' \in [Caller -> Call] BY <1>5, SettleType DEF Answered
  <2> QED BY <1>5, <2>1 DEF Answered, TypeOK
<1>6. CASE Refused(c)
  <2>1. call' \in [Caller -> Call]
    <3>1. CASE Settle(c) BY <3>1, SettleType
    <3>2. CASE call[c].attempt < MaxRetries /\ TryAgain(c, call[c].attempt + 1)
      <4>1. PICK ticks \in UntilRefill :
              call' = [call EXCEPT ![c] =
                 [@ EXCEPT !.pc = "wait", !.attempt = call[c].attempt + 1, !.wait = ticks]]
        BY <3>2 DEF TryAgain
      <4>2. ticks \in 0..Window BY UntilRefillType
      <4>3. call[c] \in Call BY DEF TypeOK
      <4>4. call[c].attempt + 1 \in 0..MaxRetries BY <3>2, <4>3 DEF Call, KekaClientAssumption
      <4> QED BY <4>1, <4>2, <4>3, <4>4 DEF TypeOK, Call, Pc
    <3> QED BY <1>6, <3>1, <3>2 DEF Refused
  <2> QED BY <1>6, <2>1 DEF Refused, TypeOK
<1> QED BY <1>1, <1>2, <1>3, <1>4, <1>5, <1>6 DEF CallStep

LEMMA OtherType ==
    ASSUME KekaClientAssumption, TypeOK, ClearsAreDue,
           SaveSettings \/ ClearTokenCache \/ Expire \/ Tick
    PROVE  TypeOK'
<1> USE DEF gate_vars, token_vars
<1>1. CASE SaveSettings
  <2>1. settings' \in 1..MaxSettings /\ clearing' \in 0..MaxSettings
    BY <1>1 DEF SaveSettings, TypeOK, ClearsAreDue, KekaClientAssumption
  <2> QED BY <1>1, <2>1 DEF SaveSettings, TypeOK
<1>2. CASE ClearTokenCache
  <2>1. clearing' \in 0..MaxSettings /\ cache' \in 0..MaxSettings
    BY <1>2 DEF ClearTokenCache, TypeOK, KekaClientAssumption
  <2>2. overtaken' \in BOOLEAN BY <1>2, Zenon DEF ClearTokenCache
  <2> QED BY <1>2, <2>1, <2>2 DEF ClearTokenCache, TypeOK
<1>3. CASE Expire
  <2>1. cache' \in 0..MaxSettings BY <1>3 DEF Expire, KekaClientAssumption
  <2> QED BY <1>3, <2>1 DEF Expire, TypeOK
<1>4. CASE Tick
  <2>1. age' \in [Slot -> 0..Window] BY <1>4 DEF Tick, Older, TypeOK, KekaClientAssumption
  <2>2. sleep' \in 0..Window BY <1>4 DEF Tick, Less, TypeOK, KekaClientAssumption
  <2>3. ASSUME NEW c \in Caller PROVE [call[c] EXCEPT !.wait = Less(call[c].wait)] \in Call
    <3>1. call[c] \in Call BY DEF TypeOK
    <3>2. Less(call[c].wait) \in 0..Window BY <3>1 DEF Less, Call, KekaClientAssumption
    <3> QED BY <3>1, <3>2 DEF Call
  <2>4. call' \in [Caller -> Call] BY <1>4, <2>3 DEF Tick
  <2> QED BY <1>4, <2>1, <2>2, <2>4 DEF Tick, TypeOK
<1> QED BY <1>1, <1>2, <1>3, <1>4

LEMMA DueStep ==
    ASSUME KekaClientAssumption, TypeOK, ClearsAreDue, [Next]_vars
    PROVE  ClearsAreDue'
<1> USE DEF gate_vars, token_vars, ClearsAreDue
<1>1. CASE GateStep BY <1>1 DEF GateStep, TakeSlot, SleepInGate
<1>2. ASSUME NEW c \in Caller, Begin(c) \/ CallStep(c) PROVE ClearsAreDue'
  BY <1>2 DEF Begin, CallStep, ReadCache, ReadSettings, ExchangeToken, Answered, Refused, Retry
<1>3. CASE SaveSettings BY <1>3 DEF SaveSettings, TypeOK
<1>4. CASE ClearTokenCache BY <1>4 DEF ClearTokenCache, TypeOK
<1>5. CASE Expire BY <1>5 DEF Expire
<1>6. CASE Tick BY <1>6 DEF Tick
<1>7. CASE UNCHANGED vars BY <1>7 DEF vars
<1> QED BY <1>1, <1>2, <1>3, <1>4, <1>5, <1>6, <1>7 DEF Next
-----------------------------------------------------------------------------
(* The gate.                                                                *)

(* A slot that is taken counts, and the others count as before.             *)
LEMMA TakeSlotCounts ==
    ASSUME KekaClientAssumption, TypeOK, TakeSlot
    PROVE  Cardinality(Counted') <= Cap
<1>1. PICK s \in Slot \ Counted : age' = [age EXCEPT ![s] = 0] BY DEF TakeSlot
<1>2. Counted' \in SUBSET (Counted \cup {s}) BY <1>1 DEF Counted, TypeOK
<1>3. /\ IsFiniteSet(Counted \cup {s})
      /\ Cardinality(Counted \cup {s}) = Cardinality(Counted) + 1
  BY <1>1, CountedFinite, FS_AddElement
<1>4. Cardinality(Counted') <= Cardinality(Counted \cup {s}) BY <1>2, <1>3, FS_Subset
<1>5. Cardinality(Counted) < Cap BY DEF TakeSlot
<1> QED BY <1>3, <1>4, <1>5, CountedFinite DEF KekaClientAssumption

(* With time, slots only leave the window.                                  *)
LEMMA TickCounts ==
    ASSUME KekaClientAssumption, TypeOK, Tick
    PROVE  Counted' \in SUBSET Counted
BY DEF Tick, Older, Counted, TypeOK, KekaClientAssumption

LEMMA AgeKept ==
    ASSUME [Next]_vars, ~TakeSlot, ~Tick
    PROVE  UNCHANGED age
BY DEF Next, GateStep, SleepInGate, Begin, CallStep, ReadCache, ReadSettings, ExchangeToken,
       Answered, Refused, Retry, SaveSettings, ClearTokenCache, Expire, vars, gate_vars

LEMMA WindowStep ==
    ASSUME KekaClientAssumption, TypeOK, WindowBound, [Next]_vars
    PROVE  WindowBound'
<1>1. CASE TakeSlot BY <1>1, TakeSlotCounts DEF WindowBound
<1>2. CASE Tick
  <2>1. Cardinality(Counted') <= Cardinality(Counted)
    BY <1>2, TickCounts, CountedFinite, FS_Subset
  <2> QED BY <2>1, CountedFinite DEF WindowBound, KekaClientAssumption
<1>3. CASE ~TakeSlot /\ ~Tick
  <2>1. Counted' = Counted BY <1>3, AgeKept DEF Counted
  <2> QED BY <2>1 DEF WindowBound
<1> QED BY <1>1, <1>2, <1>3

LEMMA SleepKept ==
    ASSUME [Next]_vars, ~GateStep, ~Tick
    PROVE  UNCHANGED <<age, sleep, slept>>
BY DEF Next, GateStep, Begin, CallStep, ReadCache, ReadSettings, ExchangeToken,
       Answered, Refused, Retry, SaveSettings, ClearTokenCache, Expire, vars, gate_vars

LEMMA RoomStep ==
    ASSUME KekaClientAssumption, TypeOK, WindowBound, RoomAhead, [Next]_vars
    PROVE  RoomAhead'
<1>1. CASE TakeSlot BY <1>1 DEF TakeSlot, RoomAhead
<1>2. CASE SleepInGate
  <2>1. PICK s \in Counted : sleep' = Window - age[s]
    BY <1>2 DEF SleepInGate, UntilOldestLeaves
  <2>2. age[s] \in 0..Window BY DEF Counted, TypeOK
  <2>3. age' = age /\ Counted' = Counted BY <1>2 DEF SleepInGate, Counted
  <2>4. age'[s] + sleep' >= Window BY <2>1, <2>2, <2>3 DEF KekaClientAssumption
  <2> QED BY <2>3, <2>4 DEF RoomAhead
<1>3. CASE Tick /\ slept
  <2>1. CASE Cardinality(Counted) < Cap
    <3>1. Cardinality(Counted') <= Cardinality(Counted)
      BY <1>3, TickCounts, CountedFinite, FS_Subset
    <3> QED BY <2>1, <3>1, CountedFinite DEF RoomAhead, KekaClientAssumption
  <2>2. ASSUME NEW s \in Counted, age[s] + sleep >= Window PROVE RoomAhead'
    <3>1. s \in Slot /\ age[s] \in 0..Window /\ age[s] < Window /\ sleep \in 0..Window
      BY DEF Counted, TypeOK
    <3>2. age'[s] = age[s] + 1 BY <1>3, <3>1 DEF Tick, Older
    <3>3. sleep' = sleep - 1 BY <1>3, <2>2, <3>1 DEF Tick, Less, KekaClientAssumption
    <3>4. CASE s \in Counted'
      <4>1. age'[s] + sleep' >= Window BY <2>2, <3>1, <3>2, <3>3 DEF KekaClientAssumption
      <4> QED BY <3>4, <4>1 DEF RoomAhead
    <3>5. CASE s \notin Counted'
      <4>1. Counted' \in SUBSET (Counted \ {s}) BY <1>3, <3>5, TickCounts
      <4>2. /\ IsFiniteSet(Counted \ {s})
            /\ Cardinality(Counted \ {s}) = Cardinality(Counted) - 1
        BY CountedFinite, FS_RemoveElement
      <4>3. Cardinality(Counted') <= Cardinality(Counted) - 1 BY <4>1, <4>2, FS_Subset
      <4> QED BY <4>3, CountedFinite DEF WindowBound, RoomAhead, KekaClientAssumption
    <3> QED BY <3>4, <3>5
  <2> QED BY <1>3, <2>1, <2>2 DEF RoomAhead
<1>4. CASE Tick /\ ~slept BY <1>4 DEF Tick, RoomAhead
<1>5. CASE ~GateStep /\ ~Tick
  <2>1. UNCHANGED <<age, sleep, slept>> BY <1>5, SleepKept
  <2>2. Counted' = Counted BY <2>1 DEF Counted
  <2> QED BY <2>1, <2>2 DEF RoomAhead
<1> QED BY <1>1, <1>2, <1>3, <1>4, <1>5 DEF GateStep

-----------------------------------------------------------------------------
(* Who waits in the gate.                                                   *)

Waits(c) == call[c].pc = "gate"

LEMMA Joins ==
    ASSUME TypeOK, GateHoldsWaiting, NEW c \in Caller, ~Waits(c),
           Goto(c, "gate"), gate' = Append(gate, c)
    PROVE  GateHoldsWaiting'
<1> DEFINE n == Len(gate)
<1>1. n \in Nat /\ DOMAIN gate = 1..n /\ DOMAIN gate' = 1..(n + 1) BY DEF TypeOK
<1>2. gate'[n + 1] = c /\ \A i \in 1..n : gate'[i] = gate[i] BY <1>1 DEF TypeOK
<1>3. \A i \in 1..n : gate[i] # c BY <1>1 DEF GateHoldsWaiting, Waits
<1>4. \A d \in Caller : call'[d].pc = "gate" <=> (d = c \/ call[d].pc = "gate")
  BY DEF Goto, TypeOK, Call
<1>5. \A d \in Caller : call'[d].pc = "gate" <=> \E i \in DOMAIN gate' : gate'[i] = d
  <2> TAKE d \in Caller
  <2>1. CASE d = c BY <1>1, <1>2, <1>4, <2>1
  <2>2. CASE d # c
    <3>1. call[d].pc = "gate" <=> \E i \in 1..n : gate[i] = d BY <1>1 DEF GateHoldsWaiting
    <3>2. (\E i \in 1..n : gate[i] = d) <=> \E i \in 1..(n + 1) : gate'[i] = d
      BY <1>1, <1>2, <2>2
    <3> QED BY <1>1, <1>4, <2>2, <3>1, <3>2
  <2> QED BY <2>1, <2>2
<1>6. \A i, j \in DOMAIN gate' : gate'[i] = gate'[j] => i = j
  BY <1>1, <1>2, <1>3 DEF GateHoldsWaiting
<1> QED BY <1>5, <1>6 DEF GateHoldsWaiting

LEMMA Leaves ==
    ASSUME TypeOK, GateHoldsWaiting, gate # <<>>,
           Goto(Head(gate), "token"), gate' = Tail(gate)
    PROVE  GateHoldsWaiting'
<1> DEFINE n == Len(gate)
<1>1. n \in Nat \ {0} /\ DOMAIN gate = 1..n /\ DOMAIN gate' = 1..(n - 1) BY DEF TypeOK
<1>2. Head(gate) = gate[1] /\ Head(gate) \in Caller BY DEF TypeOK
<1>3. \A i \in 1..(n - 1) : gate'[i] = gate[i + 1] BY <1>1 DEF TypeOK
<1>4. \A d \in Caller : call'[d].pc = "gate" <=> (d # gate[1] /\ call[d].pc = "gate")
  BY <1>2 DEF Goto, TypeOK, Call
<1>5. \A d \in Caller : call'[d].pc = "gate" <=> \E i \in DOMAIN gate' : gate'[i] = d
  <2> TAKE d \in Caller
  <2>1. call[d].pc = "gate" <=> \E i \in 1..n : gate[i] = d BY <1>1 DEF GateHoldsWaiting
  <2>2. ASSUME NEW i \in 1..n, gate[i] = d, d # gate[1] PROVE \E j \in 1..(n - 1) : gate'[j] = d
    <3>1. i - 1 \in 1..(n - 1) BY <1>1, <2>2
    <3>2. gate'[i - 1] = d BY <1>1, <1>3, <2>2, <3>1
    <3> QED BY <3>1, <3>2
  <2>3. ASSUME NEW j \in 1..(n - 1), gate'[j] = d
        PROVE  d # gate[1] /\ \E i \in 1..n : gate[i] = d
    <3>1. j + 1 \in 1..n /\ gate[j + 1] = d BY <1>1, <1>3, <2>3
    <3>2. d # gate[1] BY <1>1, <3>1 DEF GateHoldsWaiting
    <3> QED BY <3>1, <3>2
  <2> QED BY <1>1, <1>4, <2>1, <2>2, <2>3
<1>6. \A i, j \in DOMAIN gate' : gate'[i] = gate'[j] => i = j
  BY <1>1, <1>3 DEF GateHoldsWaiting
<1> QED BY <1>5, <1>6 DEF GateHoldsWaiting

(* Steps of a caller outside the gate.                                      *)
LEMMA Elsewhere ==
    ASSUME TypeOK, GateHoldsWaiting, gate' = gate,
           \A d \in Caller : Waits(d)' <=> Waits(d)
    PROVE  GateHoldsWaiting'
BY DEF GateHoldsWaiting, Waits

LEMMA CallOutside ==
    ASSUME KekaClientAssumption, TypeOK, NEW c \in Caller, CallStep(c), ~Retry(c)
    PROVE  gate' = gate /\ \A d \in Caller : Waits(d)' <=> Waits(d)
<1> USE DEF gate_vars, Waits
<1>1. CASE ReadCache(c) BY <1>1 DEF ReadCache, Goto, TypeOK, Call
<1>2. CASE ReadSettings(c) BY <1>2 DEF ReadSettings, TypeOK, Call
<1>3. CASE ExchangeToken(c) \/ Answered(c) \/ Refused(c)
  <2>1. gate' = gate BY <1>3 DEF ExchangeToken, Answered, Refused
  <2> QED BY <1>3, <2>1, AnswerLeavesOff
<1> QED BY <1>1, <1>2, <1>3 DEF CallStep

LEMMA WaitingStep ==
    ASSUME KekaClientAssumption, TypeOK, GateHoldsWaiting, [Next]_vars
    PROVE  GateHoldsWaiting'
<1>1. CASE TakeSlot BY <1>1, Leaves DEF TakeSlot
<1>2. CASE SleepInGate BY <1>2, Elsewhere DEF SleepInGate, Waits
<1>3. ASSUME NEW c \in Caller, Begin(c) \/ Retry(c) PROVE GateHoldsWaiting'
  BY <1>3, Joins DEF Begin, Retry, Waits
<1>4. ASSUME NEW c \in Caller, CallStep(c), ~Retry(c) PROVE GateHoldsWaiting'
  BY <1>4, CallOutside, Elsewhere
<1>5. CASE SaveSettings \/ ClearTokenCache \/ Expire \/ UNCHANGED vars
  BY <1>5, Elsewhere DEF SaveSettings, ClearTokenCache, Expire, vars, gate_vars, Waits
<1>6. CASE Tick
  <2>1. \A d \in Caller : call'[d].pc = call[d].pc BY <1>6 DEF Tick, TypeOK, Call
  <2> QED BY <1>6, <2>1, Elsewhere DEF Tick, Waits
<1> QED BY <1>1, <1>2, <1>3, <1>4, <1>5, <1>6 DEF Next, GateStep

-----------------------------------------------------------------------------
(* Tokens.                                                                  *)

(* A step that starts no exchange and leaves tokens and settings alone.     *)
LEMMA NoNewExchange ==
    ASSUME TypeOK, Current, UNCHANGED token_vars,
           \A c \in Caller : call'[c].pc = "exchange" =>
               call[c].pc = "exchange" /\ call'[c].token = call[c].token
    PROVE  Current'
BY DEF Current, token_vars

LEMMA CallCurrent ==
    ASSUME KekaClientAssumption, TypeOK, Current, NEW c \in Caller, Begin(c) \/ CallStep(c)
    PROVE  Current'
<1>1. CASE Begin(c) BY <1>1, NoNewExchange DEF Begin, Goto, TypeOK, Call
<1>2. CASE Retry(c) BY <1>2, NoNewExchange DEF Retry, Goto, TypeOK, Call
<1>3. CASE ReadCache(c) BY <1>3, NoNewExchange DEF ReadCache, Goto, TypeOK, Call
<1>4. CASE Answered(c) \/ Refused(c)
  <2>1. UNCHANGED token_vars BY <1>4 DEF Answered, Refused
  <2> QED BY <1>4, <2>1, AnswerLeavesOff, NoNewExchange
<1>6. CASE ReadSettings(c) BY <1>6 DEF ReadSettings, Current, token_vars, TypeOK, Call
<1>7. CASE ExchangeToken(c)
  <2>1. cache' \in {cache, call[c].token} /\ UNCHANGED <<settings, clearing, overtaken>>
    BY <1>7 DEF ExchangeToken
  <2>2. \A d \in Caller : call'[d].pc = "exchange" =>
            call[d].pc = "exchange" /\ call'[d].token = call[d].token
    BY <1>7, AnswerLeavesOff
  <2>3. call[c].pc = "exchange" BY <1>7 DEF ExchangeToken
  <2> QED BY <2>1, <2>2, <2>3 DEF Current
<1> QED BY <1>1, <1>2, <1>3, <1>4, <1>6, <1>7 DEF CallStep

LEMMA CurrentStep ==
    ASSUME KekaClientAssumption, TypeOK, Current, [Next]_vars
    PROVE  Current'
<1>1. CASE TakeSlot
  <2>1. Head(gate) \in Caller BY <1>1 DEF TakeSlot, TypeOK
  <2> QED BY <1>1, <2>1, NoNewExchange DEF TakeSlot, Goto, TypeOK, Call
<1>2. CASE SleepInGate BY <1>2, NoNewExchange DEF SleepInGate
<1>3. ASSUME NEW c \in Caller, Begin(c) \/ CallStep(c) PROVE Current'
  BY <1>3, CallCurrent
<1>4. CASE SaveSettings BY <1>4 DEF SaveSettings, Current, TypeOK
<1>5. CASE ClearTokenCache
  BY <1>5 DEF ClearTokenCache, Stale, Current
<1>6. CASE Expire BY <1>6 DEF Expire, Current
<1>7. CASE Tick
  <2>1. \A c \in Caller : call'[c].pc = call[c].pc /\ call'[c].token = call[c].token
    BY <1>7 DEF Tick, TypeOK, Call
  <2> QED BY <1>7, <2>1, NoNewExchange DEF Tick
<1>8. CASE UNCHANGED vars BY <1>8 DEF vars, Current
<1> QED BY <1>1, <1>2, <1>3, <1>4, <1>5, <1>6, <1>7, <1>8 DEF Next, GateStep

-----------------------------------------------------------------------------
(* The theorems.                                                            *)

LEMMA InitInv ==
    ASSUME KekaClientAssumption, Init PROVE IInv /\ ClearsAreDue
<1>1. TypeOK BY InitType
<1>2. Counted = {} BY DEF Init, Counted, KekaClientAssumption
<1>3. WindowBound BY <1>2, FS_EmptySet DEF WindowBound, KekaClientAssumption
<1>4. RoomAhead /\ GateHoldsWaiting BY DEF Init, RoomAhead, GateHoldsWaiting, Idle
<1>5. Current /\ ClearsAreDue BY DEF Init, Current, Idle, ClearsAreDue
<1> QED BY <1>1, <1>3, <1>4, <1>5 DEF IInv

LEMMA TypeStep ==
    ASSUME KekaClientAssumption, TypeOK, ClearsAreDue, [Next]_vars
    PROVE  TypeOK'
<1>1. CASE UNCHANGED vars BY <1>1 DEF vars, TypeOK
<1> QED BY <1>1, GateType, CallType, OtherType DEF Next

(* Slots, the gate, timers, tokens and attempts keep their types: a call is
   refused no more than MaxRetries times before it gives up.                *)
THEOREM TypeCorrect == ASSUME KekaClientAssumption PROVE Spec => []TypeOK
<1>1. Init => TypeOK /\ ClearsAreDue BY InitInv DEF IInv
<1>2. TypeOK /\ ClearsAreDue /\ [Next]_vars => (TypeOK /\ ClearsAreDue)'
  BY TypeStep, DueStep
<1> QED BY <1>1, <1>2, PTL DEF Spec

LEMMA Invariant == ASSUME KekaClientAssumption PROVE Spec => []IInv
<1>1. Init => IInv BY InitInv
<1>2. IInv /\ TypeOK' /\ [Next]_vars => IInv'
  BY WindowStep, RoomStep, WaitingStep, CurrentStep DEF IInv
<1> QED BY <1>1, <1>2, TypeCorrect, PTL DEF Spec

(* However calls come and go, acquireRateSlot lets at most softCap of them
   through in any window.                                                   *)
THEOREM AtMostCapPerWindow == ASSUME KekaClientAssumption PROVE Spec => []WindowBound
<1>1. IInv => WindowBound BY DEF IInv
<1> QED BY <1>1, Invariant, PTL

(* The sleep in acquireRateSlot is long enough: it is never slept twice for
   one slot.                                                                *)
THEOREM OneSleepPerSlot == ASSUME KekaClientAssumption PROVE Spec => []SleptHasRoom
<1>1. IInv => SleptHasRoom
  <2> SUFFICES ASSUME IInv, slept, sleep = 0 PROVE Cardinality(Counted) < Cap
    BY DEF SleptHasRoom
  <2>1. ASSUME NEW s \in Counted PROVE ~(age[s] + sleep >= Window)
    BY DEF IInv, TypeOK, Counted, KekaClientAssumption
  <2> QED BY <2>1 DEF IInv, RoomAhead
<1> QED BY <1>1, Invariant, PTL

(* The chain of promises holds every caller that waits for a slot, once.    *)
THEOREM NobodyLostInGate == ASSUME KekaClientAssumption PROVE Spec => []GateHoldsWaiting
<1>1. IInv => GateHoldsWaiting BY DEF IInv
<1> QED BY <1>1, Invariant, PTL

(* After updateConnection, a token of the older settings is cached only if
   its exchange was in flight when the cache was cleared.                   *)
THEOREM OldTokenExplained == ASSUME KekaClientAssumption PROVE Spec => []NoOldToken
<1>1. IInv => NoOldToken BY DEF IInv, Current, NoOldToken
<1> QED BY <1>1, Invariant, PTL
=============================================================================
