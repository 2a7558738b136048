----------------------------- MODULE KekaClient -----------------------------
(***************************************************************************)
(* KekaHttpClient: every request to Keka passes a gate that lets no more   *)
(* than a number of them through per window, takes a bearer token from a   *)
(* cache that admins clear when they change the connection, goes out, and  *)
(* is tried again when Keka answers 429.                                   *)
(*                                                                         *)
(* Time is counted in ticks of any length; a timer may fire late.  A       *)
(* timestamp is its age, and an age of Window or more no longer counts, so *)
(* the filter that drops such timestamps leaves no trace in the state.     *)
(* A token is the number of the connection settings that it was got with.  *)
(***************************************************************************)
EXTENDS Integers, Sequences, FiniteSets

CONSTANTS
    Caller,      \* calls of get, post or put that may be in flight
    Cap,         \* softCap: KEKA_RATE_LIMIT_PER_MINUTE - 1
    Window,      \* KEKA_RATE_LIMIT_WINDOW_MS, in ticks
    MaxRetries,  \* KEKA_RATE_LIMIT_MAX_RETRIES
    MaxSettings  \* bound: settings that are ever saved

ASSUME KekaClientAssumption ==
    /\ Cap \in Nat \ {0}
    /\ Window \in Nat \ {0}
    /\ MaxRetries \in Nat
    /\ MaxSettings \in Nat \ {0}

VARIABLES
    age,       \* requestTimestamps
    gate,      \* rateGate: callers that wait for a slot, the first of them runs
    sleep,     \* ticks that the first one still sleeps
    slept,     \* history: the first one has slept
    call,      \* the callers
    cache,     \* accessToken; 0 for none, or one that is about to expire
    settings,  \* number of the saved settings
    clearing,  \* settings that were saved, and the cache not yet cleared
    overtaken  \* history: the last clear left exchanges with older settings in flight

vars == <<age, gate, sleep, slept, call, cache, settings, clearing, overtaken>>

(* One place more than the gate may fill.                                   *)
Slot == 0..Cap

Pc == {"idle", "gate", "token", "config", "exchange", "sent", "wait"}
(* token: what is got in exchange; wait: ticks of the sleep after a 429.     *)
Call == [pc : Pc, attempt : 0..MaxRetries, wait : 0..Window, token : 0..MaxSettings]
Idle == [pc |-> "idle", attempt |-> 0, wait |-> 0, token |-> 0]

TypeOK ==
    /\ age \in [Slot -> 0..Window]
    /\ gate \in Seq(Caller)
    /\ sleep \in 0..Window
    /\ slept \in BOOLEAN
    /\ call \in [Caller -> Call]
    /\ cache \in 0..MaxSettings
    /\ settings \in 1..MaxSettings
    /\ clearing \in 0..MaxSettings
    /\ overtaken \in BOOLEAN

Init ==
    /\ age = [s \in Slot |-> Window]
    /\ gate = <<>>
    /\ sleep = 0
    /\ slept = FALSE
    /\ call = [c \in Caller |-> Idle]
    /\ cache = 0
    /\ settings = 1
    /\ clearing = 0
    /\ overtaken = FALSE

-----------------------------------------------------------------------------
(* Timestamps inside the window; how long until the oldest has left it.     *)
Counted == {s \in Slot : age[s] < Window}
UntilOldestLeaves ==
    {Window - age[s] : s \in {t \in Counted : \A u \in Counted : age[u] <= age[t]}}

FirstOf(s, S) == \A t \in S : s <= t

Goto(c, pc) == call' = [call EXCEPT ![c] = [@ EXCEPT !.pc = pc]]
(* The promise of the call settles, with a value or an error.               *)
Settle(c) == call' = [call EXCEPT ![c] = Idle]

gate_vars == <<age, gate, sleep, slept>>
token_vars == <<cache, settings, clearing, overtaken>>

(* requestWithRateLimit begins.                                             *)
Begin(c) ==
    /\ call[c].pc = "idle"
    /\ Goto(c, "gate")
    /\ gate' = Append(gate, c)
    /\ UNCHANGED <<age, sleep, slept, token_vars>>

(* Mutant: the cap is compared one too high.                                *)
TakeSlotBeyond ==
    /\ gate # <<>> /\ sleep = 0
    /\ Cardinality(Counted) <= Cap
    /\ \E s \in Slot \ Counted : FirstOf(s, Slot \ Counted) /\ age' = [age EXCEPT ![s] = 0]
    /\ Goto(Head(gate), "token")
    /\ gate' = Tail(gate)
    /\ slept' = FALSE
    /\ UNCHANGED <<sleep, token_vars>>

(* acquireRateSlot, whenever the first in the gate is awake.                *)
TakeSlot ==
    /\ gate # <<>> /\ sleep = 0
    /\ Cardinality(Counted) < Cap
    /\ \E s \in Slot \ Counted : FirstOf(s, Slot \ Counted) /\ age' = [age EXCEPT ![s] = 0]
    /\ Goto(Head(gate), "token")
    /\ gate' = Tail(gate)
    /\ slept' = FALSE
    /\ UNCHANGED <<sleep, token_vars>>

(* Mutant: no sleep, though the window is full.                             *)
SleepInGateNot ==
    /\ gate # <<>> /\ sleep = 0
    /\ Cardinality(Counted) >= Cap
    /\ slept' = TRUE
    /\ UNCHANGED <<age, gate, sleep, call, token_vars>>

SleepInGate ==
    /\ gate # <<>> /\ sleep = 0
    /\ Cardinality(Counted) >= Cap
    /\ sleep' \in UntilOldestLeaves
    /\ slept' = TRUE
    /\ UNCHANGED <<age, gate, call, token_vars>>

(* getAccessToken: the cached token, or the settings are read and exchanged. *)
ReadCache(c) ==
    /\ call[c].pc = "token"
    /\ IF cache # 0
       THEN Goto(c, "sent")
       ELSE Goto(c, "config")
    /\ UNCHANGED <<gate_vars, token_vars>>

ReadSettings(c) ==
    /\ call[c].pc = "config"
    /\ call' = [call EXCEPT ![c] = [@ EXCEPT !.pc = "exchange", !.token = settings]]
    /\ UNCHANGED <<gate_vars, token_vars>>

ExchangeToken(c) ==
    /\ call[c].pc = "exchange"
    /\ \/ /\ cache' = call[c].token
          /\ call' = [call EXCEPT ![c] = [@ EXCEPT !.pc = "sent", !.token = 0]]
       \/ cache' = cache /\ Settle(c)
    /\ UNCHANGED <<gate_vars, settings, clearing, overtaken>>

(* buildUrl reads the settings again and the request goes out: an answer other
   than 429, a failure, or the timeout.                                     *)
Answered(c) ==
    /\ call[c].pc = "sent"
    /\ Settle(c)
    /\ UNCHANGED <<gate_vars, token_vars>>

(* msUntilQuotaRefill                                                       *)
UntilRefill == IF Counted = {} THEN {1} ELSE UntilOldestLeaves
TryAgain(c, attempt) ==
    \E ticks \in UntilRefill :
        call' = [call EXCEPT ![c] = [@ EXCEPT !.pc = "wait", !.attempt = attempt, !.wait = ticks]]

(* Mutant: the attempts are not counted.                                    *)
RefusedForever(c) ==
    /\ call[c].pc = "sent"
    /\ TryAgain(c, call[c].attempt)
    /\ UNCHANGED <<gate_vars, token_vars>>

(* A 429: a sleep, and another attempt as long as some are left.            *)
Refused(c) ==
    /\ call[c].pc = "sent"
    /\ \/ call[c].attempt >= MaxRetries /\ Settle(c)
       \/ call[c].attempt < MaxRetries /\ TryAgain(c, call[c].attempt + 1)
    /\ UNCHANGED <<gate_vars, token_vars>>

Retry(c) ==
    /\ call[c].pc = "wait" /\ call[c].wait = 0
    /\ Goto(c, "gate")
    /\ gate' = Append(gate, c)
    /\ UNCHANGED <<age, sleep, slept, token_vars>>

-----------------------------------------------------------------------------
(* updateConnection saves the settings, then clears the cache.              *)
SaveSettings ==
    /\ settings < MaxSettings
    /\ settings' = settings + 1
    /\ clearing' = clearing + 1
    /\ UNCHANGED <<gate_vars, call, cache, overtaken>>

Stale(c) == call[c].pc = "exchange" /\ call[c].token # settings

(* Mutant: the cache is left to expire.                                     *)
ClearNothing ==
    /\ clearing > 0
    /\ clearing' = clearing - 1
    /\ overtaken' = \E c \in Caller : Stale(c)
    /\ UNCHANGED <<gate_vars, call, cache, settings>>

ClearTokenCache ==
    /\ clearing > 0
    /\ clearing' = clearing - 1
    /\ cache' = 0
    /\ overtaken' = \E c \in Caller : Stale(c)
    /\ UNCHANGED <<gate_vars, call, settings>>

(* The token is within a minute of tokenExpiresAt, or an admin's test of the
   connection has cleared the cache.                                        *)
Expire ==
    /\ cache # 0
    /\ cache' = 0
    /\ UNCHANGED <<gate_vars, call, settings, clearing, overtaken>>

Less(n) == IF n = 0 THEN 0 ELSE n - 1
Older(n) == IF n < Window THEN n + 1 ELSE n

Tick ==
    /\ age' = [s \in Slot |-> Older(age[s])]
    /\ sleep' = Less(sleep)
    /\ call' = [c \in Caller |-> [call[c] EXCEPT !.wait = Less(call[c].wait)]]
    /\ UNCHANGED <<gate, slept, token_vars>>

-----------------------------------------------------------------------------
GateStep == TakeSlot \/ SleepInGate
CallStep(c) ==
    \/ ReadCache(c) \/ ReadSettings(c) \/ ExchangeToken(c)
    \/ Answered(c) \/ Refused(c) \/ Retry(c)

Next ==
    \/ GateStep
    \/ \E c \in Caller : Begin(c) \/ CallStep(c)
    \/ SaveSettings \/ ClearTokenCache \/ Expire \/ Tick

Spec == Init /\ [][Next]_vars

(* Time passes, promises that have settled are run, and every fetch ends:
   those of both kinds have a timeout.                                      *)
FairSpec ==
    /\ Spec
    /\ WF_vars(Tick)
    /\ WF_vars(GateStep)
    /\ \A c \in Caller : WF_vars(CallStep(c))

-----------------------------------------------------------------------------
(* Properties.                                                              *)

(* Whatever calls begin, fail, are refused and come again, no window of time
   holds more slots than the cap.                                           *)
WindowBound == Cardinality(Counted) <= Cap

(* Who has slept in the gate finds room on waking: nobody but the first in the
   gate takes slots, so a slot costs one sleep at most.                     *)
SleptHasRoom == gate # <<>> /\ slept /\ sleep = 0 => Cardinality(Counted) < Cap

(* The gate holds each caller that waits for a slot, once, and no other: none
   is lost and none takes two slots for one attempt.                        *)
GateHoldsWaiting ==
    /\ \A c \in Caller : call[c].pc = "gate" <=> \E i \in DOMAIN gate : gate[i] = c
    /\ \A i, j \in DOMAIN gate : gate[i] = gate[j] => i = j

(* Once the settings are saved and the cache is cleared, a token that was got
   with older ones is in the cache only if its exchange was in flight then.  *)
NoOldToken == clearing = 0 /\ cache \notin {0, settings} => overtaken

(* Every call settles, however many others there are and however often Keka
   refuses: the gate is first come, first served, and attempts are counted. *)
EveryCallSettles == \A c \in Caller : call[c].pc # "idle" ~> call[c].pc = "idle"
=============================================================================
