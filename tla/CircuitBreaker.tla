--------------------------- MODULE CircuitBreaker ---------------------------
(***************************************************************************)
(* One circuit of the CircuitBreakerArena (internal/engine/                *)
(* circuit_breaker.go).  The circuit is four atomic words shared by every  *)
(* request goroutine: state, failureCount, successCount and lastTripNs.    *)
(* There is no lock, so each goroutine is modelled with a program counter  *)
(* that stops at every atomic operation of the two instructions,           *)
(* CIRCUIT_BREAKER_GATE and RECORD_CIRCUIT_OUTCOME.                        *)
(*                                                                         *)
(* Time.  Only now - lastTripNs is ever tested, against openDurationNs, so *)
(* the model keeps that difference, tripAge, saturated at OpenDuration;    *)
(* Tick is the passage of one unit of time.  A goroutine that has called   *)
(* time.Now() and not yet stored it carries the age of its reading.        *)
(***************************************************************************)
EXTENDS Naturals, FiniteSets

CONSTANTS
    Reqs,              \* request goroutines that run the guarded flow
    FailureThreshold,  \* failureThreshold given to Alloc
    SuccessThreshold,  \* successThreshold given to Alloc
    OpenDuration       \* openDurationNs, in ticks

ASSUME BreakerAssumption ==
    /\ FailureThreshold \in Nat \ {0}
    /\ SuccessThreshold \in Nat \ {0}
    /\ OpenDuration \in Nat \ {0}

VARIABLES
    state,         \* CBStateClosed, CBStateOpen or CBStateHalfOpen
    failureCount,  \* failures counted while Closed
    successCount,  \* successes counted while HalfOpen
    tripAge,       \* now - lastTripNs, saturated
    pc,            \* next atomic operation of each goroutine
    stampAge,      \* age of the time.Now() a tripping goroutine holds
    healthy        \* whether the guarded work succeeds now

vars == <<state, failureCount, successCount, tripAge, pc, stampAge, healthy>>

-----------------------------------------------------------------------------
(* The goroutines' program counters. *)

Labels == { "gate", "gateWindow", "gateCAS", "gateReset",    \* the gate
            "work",                                          \* guarded work
            "addFailure", "tripCAS", "clearFailures",        \* Closed arm
            "addSuccess", "closeCAS", "closeFailures", "closeSuccesses",
            "reopenCAS",                                     \* HalfOpen arm
            "readClock", "storeTrip", "resetFailures" }      \* after a trip

States == {"closed", "open", "halfOpen"}

Older(age) == IF age < OpenDuration THEN age + 1 ELSE age

Goto(p, l) == pc' = [pc EXCEPT ![p] = l]

(* A slot of the arena before its first request: Go's zero values.         *)
(* lastTripNs = 0 is 1970, so the age is already saturated.                *)
Init ==
    /\ state = "closed"
    /\ failureCount = 0
    /\ successCount = 0
    /\ tripAge = OpenDuration
    /\ pc = [p \in Reqs |-> "gate"]
    /\ stampAge = [p \in Reqs |-> 0]
    /\ healthy \in BOOLEAN

-----------------------------------------------------------------------------
(* CIRCUIT_BREAKER_GATE. *)

(* The first load of the state. *)
GateLoad(p) ==
    /\ pc[p] = "gate"
    /\ Goto(p, IF state = "open" THEN "gateWindow" ELSE "work")
    /\ UNCHANGED <<state, failureCount, successCount, tripAge, stampAge, healthy>>

(* time.Now() and the load of lastTripNs that follows it at once.  A       *)
(* request inside the window is rejected (503 or the fallback flow) and    *)
(* the goroutine goes on to serve its next request.                        *)
GateWindow(p) ==
    /\ pc[p] = "gateWindow"
    /\ Goto(p, IF tripAge >= OpenDuration THEN "gateCAS" ELSE "gate")
    /\ UNCHANGED <<state, failureCount, successCount, tripAge, stampAge, healthy>>

(* CompareAndSwap(Open, HalfOpen): winner and losers both pass the gate.   *)
GateCAS(p) ==
    /\ pc[p] = "gateCAS"
    /\ IF state = "open"
         THEN /\ state' = "halfOpen"
              /\ Goto(p, "gateReset")
         ELSE /\ Goto(p, "work")
              /\ UNCHANGED state
    /\ UNCHANGED <<failureCount, successCount, tripAge, stampAge, healthy>>

(* StoreInt64(&cs.successCount, 0), by the gate's winner and on closing. *)
ZeroSuccesses(p, at, next) ==
    /\ pc[p] = at
    /\ successCount' = 0
    /\ Goto(p, next)
    /\ UNCHANGED <<state, failureCount, tripAge, stampAge, healthy>>

(* Faulty variant: the winner does not reset the success count. *)
GateResetForgotten(p) ==
    /\ pc[p] = "gateReset"
    /\ Goto(p, "work")
    /\ UNCHANGED <<state, failureCount, successCount, tripAge, stampAge, healthy>>

GateReset(p) == ZeroSuccesses(p, "gateReset", "work")

-----------------------------------------------------------------------------
(* RECORD_CIRCUIT_OUTCOME. *)

(* The arm of the outcome switch that a goroutine takes. *)
Arm == CASE state = "closed"   -> IF healthy THEN "clearFailures" ELSE "addFailure"
         [] state = "halfOpen" -> IF healthy THEN "addSuccess" ELSE "reopenCAS"
         [] state = "open"     -> "gate"

(* Faulty variant: the switch has no arm for a success while HalfOpen. *)
RecordLoadDropsProbe(p) ==
    /\ pc[p] = "work"
    /\ Goto(p, IF state = "halfOpen" /\ healthy THEN "gate" ELSE Arm)
    /\ UNCHANGED <<state, failureCount, successCount, tripAge, stampAge, healthy>>

(* The guarded work ends, the state is loaded and successFn evaluated. *)
RecordLoad(p) ==
    /\ pc[p] = "work"
    /\ Goto(p, Arm)
    /\ UNCHANGED <<state, failureCount, successCount, tripAge, stampAge, healthy>>

(* Closed and failed: count, and try to trip at the threshold. *)
AddFailure(p) ==
    /\ pc[p] = "addFailure"
    /\ failureCount' = failureCount + 1
    /\ Goto(p, IF failureCount' >= FailureThreshold THEN "tripCAS" ELSE "gate")
    /\ UNCHANGED <<state, successCount, tripAge, stampAge, healthy>>

(* CompareAndSwap(from, Open), by the failure that reached the threshold   *)
(* and by a failed probe.  lastTripNs and failureCount are stored after.   *)
OpenCAS(p, at, from) ==
    /\ pc[p] = at
    /\ IF state = from
         THEN /\ state' = "open"
              /\ Goto(p, "readClock")
         ELSE /\ Goto(p, "gate")
              /\ UNCHANGED state
    /\ UNCHANGED <<failureCount, successCount, tripAge, stampAge, healthy>>

TripCAS(p) == OpenCAS(p, "tripCAS", "closed")

ReopenCAS(p) == OpenCAS(p, "reopenCAS", "halfOpen")

(* time.Now().UnixNano() evaluated for the store of lastTripNs. *)
ReadClock(p) ==
    /\ pc[p] = "readClock"
    /\ stampAge' = [stampAge EXCEPT ![p] = 0]
    /\ Goto(p, "storeTrip")
    /\ UNCHANGED <<state, failureCount, successCount, tripAge, healthy>>

StoreTrip(p) ==
    /\ pc[p] = "storeTrip"
    /\ tripAge' = stampAge[p]
    /\ stampAge' = [stampAge EXCEPT ![p] = 0]
    /\ Goto(p, "resetFailures")
    /\ UNCHANGED <<state, failureCount, successCount, healthy>>

(* StoreInt64(&cs.failureCount, 0), after a trip and on a Closed success. *)
ZeroFailures(p, at, next) ==
    /\ pc[p] = at
    /\ failureCount' = 0
    /\ Goto(p, next)
    /\ UNCHANGED <<state, successCount, tripAge, stampAge, healthy>>

ResetFailures(p) == ZeroFailures(p, "resetFailures", "gate")

ClearFailures(p) == ZeroFailures(p, "clearFailures", "gate")

(* HalfOpen and succeeded: count, and try to close at the threshold. *)
AddSuccess(p) ==
    /\ pc[p] = "addSuccess"
    /\ successCount' = successCount + 1
    /\ Goto(p, IF successCount' >= SuccessThreshold THEN "closeCAS" ELSE "gate")
    /\ UNCHANGED <<state, failureCount, tripAge, stampAge, healthy>>

(* Faulty variant: closing is a plain store instead of a CAS. *)
CloseStore(p) ==
    /\ pc[p] = "closeCAS"
    /\ state' = "closed"
    /\ Goto(p, "closeFailures")
    /\ UNCHANGED <<failureCount, successCount, tripAge, stampAge, healthy>>

(* CompareAndSwap(HalfOpen, Closed), then the two counters are reset. *)
CloseCAS(p) ==
    /\ pc[p] = "closeCAS"
    /\ IF state = "halfOpen"
         THEN /\ state' = "closed"
              /\ Goto(p, "closeFailures")
         ELSE /\ Goto(p, "gate")
              /\ UNCHANGED state
    /\ UNCHANGED <<failureCount, successCount, tripAge, stampAge, healthy>>

CloseFailures(p) == ZeroFailures(p, "closeFailures", "closeSuccesses")

CloseSuccesses(p) == ZeroSuccesses(p, "closeSuccesses", "gate")

-----------------------------------------------------------------------------
(* The environment: time passes, and the guarded upstream fails or heals. *)

Tick ==
    /\ tripAge' = Older(tripAge)
    /\ stampAge' = [p \in Reqs |-> IF pc[p] = "storeTrip" THEN Older(stampAge[p]) ELSE 0]
    /\ UNCHANGED <<state, failureCount, successCount, pc, healthy>>

UpstreamChanges ==
    /\ healthy' = ~healthy
    /\ UNCHANGED <<state, failureCount, successCount, tripAge, pc, stampAge>>

Gate(p) == GateLoad(p) \/ GateWindow(p) \/ GateCAS(p) \/ GateReset(p)

Record(p) ==
    \/ RecordLoad(p)
    \/ AddFailure(p) \/ TripCAS(p) \/ ClearFailures(p)
    \/ AddSuccess(p) \/ CloseCAS(p) \/ CloseFailures(p) \/ CloseSuccesses(p)
    \/ ReopenCAS(p)
    \/ ReadClock(p) \/ StoreTrip(p) \/ ResetFailures(p)

Step(p) == Gate(p) \/ Record(p)

Next == (\E p \in Reqs : Step(p)) \/ Tick \/ UpstreamChanges

Spec == Init /\ [][Next]_vars

(* Every goroutine keeps running and time keeps passing; nothing is        *)
(* assumed of the upstream.                                                *)
Fairness == (\A p \in Reqs : WF_vars(Step(p))) /\ WF_vars(Tick)

FairSpec == Spec /\ Fairness

-----------------------------------------------------------------------------
(* Properties. *)

(* The types of the circuit's words and of the goroutines' positions. *)
TypeOK ==
    /\ state \in States
    /\ failureCount \in Nat
    /\ successCount \in Nat
    /\ tripAge \in 0..OpenDuration
    /\ pc \in [Reqs -> Labels]
    /\ stampAge \in [Reqs -> 0..OpenDuration]
    /\ healthy \in BOOLEAN

(* No transition is missed (RecordCircuitOutcomeStep): a Closed circuit    *)
(* whose failures reached the threshold has a goroutine that is about to   *)
(* trip it or is resetting the count after closing it, and a HalfOpen      *)
(* circuit whose successes reached the threshold has one about to close it *)
(* or resetting the count after the gate opened the window.  A circuit at  *)
(* rest is therefore never past a threshold, whatever races led to it.     *)
NoMissedTransition ==
    /\ (state = "closed" /\ failureCount >= FailureThreshold)
          => \E p \in Reqs : pc[p] \in {"tripCAS", "closeFailures"}
    /\ (state = "halfOpen" /\ successCount >= SuccessThreshold)
          => \E p \in Reqs : pc[p] \in {"closeCAS", "gateReset"}

(* The breaker's state machine: Closed opens, Open only half-opens, and    *)
(* HalfOpen closes or opens again, whatever stale state a goroutine holds. *)
LegalTransitions ==
    [][ state' # state =>
          <<state, state'>> \in { <<"closed", "open">>, <<"open", "halfOpen">>,
                                  <<"halfOpen", "closed">>, <<"halfOpen", "open">> } ]_vars

(* An open circuit is always probed again: while requests keep arriving    *)
(* and time passes, Open cannot last, however often goroutines stamp a     *)
(* late trip time over lastTripNs.                                         *)
OpenIsProbed == (state = "open") ~> (state # "open")

(* Recovery: once the upstream stays healthy the circuit closes for good.  *)
RecoversWhenHealthy == (<>[]healthy) => (<>[](state = "closed"))
=============================================================================
