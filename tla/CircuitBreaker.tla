--------------------------- MODULE CircuitBreaker ---------------------------
(***************************************************************************)
(* The circuit breaker in front of OpenAI (service/ai_protection.go) and   *)
(* the reply goroutines that share it.  A goroutine asks Allow before its  *)
(* call and reports with RecordResult after it, as MaybeReply and callAI   *)
(* do (service/ai_responder.go); between the two any other may ask or      *)
(* report, so a result may reach the breaker in another state than the one *)
(* that admitted the call.                                                 *)
(***************************************************************************)
EXTENDS Naturals

CONSTANTS
  Callers,        \* reply goroutines
  MaxFailures,    \* failures in a row that open the breaker
  OpenDuration,   \* how long it stays open after the last failure
  HalfOpenMax     \* probe slots of a half-open breaker

ASSUME BreakerAssumption ==
  /\ MaxFailures \in Nat \ {0}
  /\ OpenDuration \in Nat
  /\ HalfOpenMax \in Nat

VARIABLES
  state,          \* "closed", "open", "half-open"
  failures,       \* counted up to MaxFailures: beyond it nothing changes
  age,            \* time since lastFailureAt, up to OpenDuration + 1
  halfOpenCount,  \* probe slots taken
  pc,             \* "idle" or "admitted", for each caller
  streak,         \* history: failures reported since the last success
  sinceOpened,    \* history: time since the breaker opened, same limit
  unreported      \* history: callers that left without a report since it was half-open

breaker == <<state, failures, age, halfOpenCount>>
breakerHist == <<streak, sinceOpened, unreported>>
breakerVars == <<breaker, pc, breakerHist>>

BreakerInit ==
  /\ state = "closed"
  /\ failures = 0
  /\ age = OpenDuration + 1
  /\ halfOpenCount = 0
  /\ pc = [c \in Callers |-> "idle"]
  /\ streak = 0
  /\ sinceOpened = OpenDuration + 1
  /\ unreported = {}

Older(t) == IF t > OpenDuration THEN t ELSE t + 1

OneMore(n) == IF n < MaxFailures THEN n + 1 ELSE n

BreakerTick ==
  /\ age' = Older(age)
  /\ sinceOpened' = Older(sinceOpened)
  /\ UNCHANGED <<state, failures, halfOpenCount, pc, streak, unreported>>

FreeSlot == halfOpenCount < HalfOpenMax

(* Allow returns true.  (When it returns false the caller returns and      *)
(* nothing changes.)  The caller that finds the breaker open for long      *)
(* enough makes it half-open and goes ahead without taking a slot.         *)
Allow(c) ==
  /\ pc[c] = "idle"
  /\ pc' = [pc EXCEPT ![c] = "admitted"]
  /\ \/ /\ state = "closed"
        /\ UNCHANGED <<state, halfOpenCount, unreported>>
     \/ /\ state = "open"
        /\ age > OpenDuration
        /\ state' = "half-open"
        /\ halfOpenCount' = 0
        /\ unreported' = {}
     \/ /\ state = "half-open"
        /\ FreeSlot
        /\ halfOpenCount' = halfOpenCount + 1
        /\ UNCHANGED <<state, unreported>>
  /\ UNCHANGED <<failures, age, streak, sinceOpened>>

Leave(c) ==
  /\ pc[c] = "admitted"
  /\ pc' = [pc EXCEPT ![c] = "idle"]

(* Breakages of Succeed: the count survives a half-open episode; a success *)
(* closes the breaker in every state; a successful probe does not close it.*)
SucceedKeepsCount(c) ==
  /\ Leave(c)
  /\ state' = IF state = "half-open" THEN "closed" ELSE state
  /\ failures' = IF state = "closed" THEN 0 ELSE failures
  /\ halfOpenCount' = IF state = "half-open" THEN 0 ELSE halfOpenCount
  /\ streak' = 0
  /\ UNCHANGED <<age, sinceOpened, unreported>>

SucceedAlwaysCloses(c) ==
  /\ Leave(c)
  /\ state' = "closed" /\ failures' = 0 /\ halfOpenCount' = 0
  /\ streak' = 0
  /\ UNCHANGED <<age, sinceOpened, unreported>>

SucceedStaysHalfOpen(c) ==
  /\ Leave(c)
  /\ failures' = IF state = "open" THEN failures ELSE 0
  /\ streak' = 0
  /\ UNCHANGED <<state, halfOpenCount, age, sinceOpened, unreported>>

(* RecordResult(true): the call brought a non-empty reply.                 *)
Succeed(c) ==
  /\ Leave(c)
  /\ \/ /\ state = "half-open"
        /\ state' = "closed"
        /\ failures' = 0
        /\ halfOpenCount' = 0
     \/ /\ state = "closed"
        /\ failures' = 0
        /\ UNCHANGED <<state, halfOpenCount>>
     \/ /\ state = "open"
        /\ UNCHANGED <<state, failures, halfOpenCount>>
  /\ streak' = 0
  /\ UNCHANGED <<age, sinceOpened, unreported>>

(* RecordResult(false).                                                    *)
Fail(c) ==
  /\ Leave(c)
  /\ age' = 0
  /\ failures' = OneMore(failures)
  /\ \/ /\ (state = "closed" /\ failures' >= MaxFailures) \/ state = "half-open"
        /\ state' = "open"
        /\ halfOpenCount' = IF state = "half-open" THEN 0 ELSE halfOpenCount
        /\ sinceOpened' = 0
     \/ /\ (state = "closed" /\ failures' < MaxFailures) \/ state = "open"
        /\ UNCHANGED <<state, halfOpenCount, sinceOpened>>
  /\ streak' = OneMore(streak)
  /\ UNCHANGED unreported

(* MaybeReply returns between Allow and callAI: the messages cannot be     *)
(* read, the last one is a fresh AI reply, the customer's text holds a     *)
(* stop signal.                                                            *)
ReturnEarly(c) ==
  /\ Leave(c)
  /\ unreported' = unreported \cup {c}
  /\ UNCHANGED <<breaker, streak, sinceOpened>>

Finish(c) == Succeed(c) \/ Fail(c) \/ ReturnEarly(c)

BreakerNext == BreakerTick \/ \E c \in Callers : Allow(c) \/ Finish(c)

(* A reply has a timeout of 30 seconds, so an admitted caller leaves.      *)
BreakerSpec == BreakerInit /\ [][BreakerNext]_breakerVars /\ \A c \in Callers : WF_breakerVars(Finish(c))

-----------------------------------------------------------------------------
BreakerTypeOK ==
  /\ state \in {"closed", "open", "half-open"}
  /\ failures \in 0 .. MaxFailures
  /\ age \in 0 .. OpenDuration + 1
  /\ halfOpenCount \in 0 .. HalfOpenMax
  /\ pc \in [Callers -> {"idle", "admitted"}]
  /\ streak \in 0 .. MaxFailures
  /\ sinceOpened \in 0 .. OpenDuration + 1
  /\ unreported \subseteq Callers

(* Only failures in a row open a closed breaker: its counter is the length *)
(* of the current run of failures, whatever half-open episodes and late    *)
(* results went before, and it is below the limit.                         *)
FailuresAreConsecutive == state = "closed" => failures = streak /\ failures < MaxFailures

(* Once the breaker opens, nobody is admitted for OpenDuration: not even   *)
(* the late success of a call admitted before it opened lets calls through *)
(* ("cascading failures", ai_protection.go:75).                            *)
QuietAfterOpening ==
  [][\A c \in Callers :
       pc[c] = "idle" /\ pc'[c] = "admitted" => sinceOpened > OpenDuration]_breakerVars

(* A half-open breaker makes up its mind, unless a caller leaves without   *)
(* its report.                                                             *)
HalfOpenIsSettled == state = "half-open" ~> state # "half-open" \/ unreported # {}
=============================================================================
