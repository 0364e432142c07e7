------------------------ MODULE CircuitBreakerProofs ------------------------
(***************************************************************************)
(* The circuit breaker for any number of goroutines, any thresholds and    *)
(* any open window: type correctness, no missed transition, and the shape  *)
(* of the state machine.                                                   *)
(***************************************************************************)
EXTENDS CircuitBreaker, TLAPS

(* The words of the circuit and the goroutines' positions keep their types *)
(* through every atomic operation of the gate and of the outcome record.   *)
THEOREM TypeCorrect == Spec => []TypeOK
<1>1. Init => TypeOK
  BY BreakerAssumption DEF Init, TypeOK, States, Labels
<1>2. TypeOK /\ [Next]_vars => TypeOK'
  <2> SUFFICES ASSUME TypeOK, [Next]_vars PROVE TypeOK'
    OBVIOUS
  <2> USE BreakerAssumption DEF TypeOK, States, Labels, Goto, Older
  <2>1. CASE UNCHANGED vars
    BY <2>1 DEF vars
  <2>2. CASE Tick
    BY <2>2 DEF Tick
  <2>3. CASE UpstreamChanges
    BY <2>3 DEF UpstreamChanges
  <2>4. ASSUME NEW p \in Reqs, Gate(p) PROVE TypeOK'
    BY <2>4 DEF Gate, GateLoad, GateWindow, GateCAS, GateReset, ZeroSuccesses
  <2>5. ASSUME NEW p \in Reqs, Record(p) PROVE TypeOK'
    <3>1. CASE RecordLoad(p) \/ AddFailure(p) \/ AddSuccess(p) \/ CloseCAS(p)
      BY <3>1 DEF RecordLoad, Arm, AddFailure, AddSuccess, CloseCAS
    <3>2. CASE TripCAS(p) \/ ReopenCAS(p) \/ ReadClock(p) \/ StoreTrip(p)
      BY <3>2 DEF TripCAS, ReopenCAS, OpenCAS, ReadClock, StoreTrip
    <3>3. CASE ClearFailures(p) \/ CloseFailures(p) \/ ResetFailures(p) \/ CloseSuccesses(p)
      BY <3>3 DEF ClearFailures, CloseFailures, ResetFailures, ZeroFailures, CloseSuccesses, ZeroSuccesses
    <3>4. QED
      BY <2>5, <3>1, <3>2, <3>3 DEF Record
  <2>6. QED
    BY <2>1, <2>2, <2>3, <2>4, <2>5 DEF Next, Step
<1>3. QED
  BY <1>1, <1>2, PTL DEF Spec

(* RecordCircuitOutcomeStep and the gate never leave a circuit past a      *)
(* threshold without a goroutine that will act on it: NoMissedTransition   *)
(* is inductive relative to the types.                                     *)
THEOREM TransitionsNotMissed == Spec => []NoMissedTransition
<1>1. Init => NoMissedTransition
  BY BreakerAssumption DEF Init, NoMissedTransition
<1>2. TypeOK /\ NoMissedTransition /\ [Next]_vars => NoMissedTransition'
  <2> SUFFICES ASSUME TypeOK, NoMissedTransition, [Next]_vars
               PROVE  NoMissedTransition'
    OBVIOUS
  <2> USE BreakerAssumption DEF TypeOK, States, Labels, Goto, NoMissedTransition
  <2>1. CASE UNCHANGED vars
    BY <2>1 DEF vars
  <2>2. CASE Tick
    BY <2>2 DEF Tick
  <2>3. CASE UpstreamChanges
    BY <2>3 DEF UpstreamChanges
  <2>4. ASSUME NEW p \in Reqs, Gate(p) PROVE NoMissedTransition'
    BY <2>4 DEF Gate, GateLoad, GateWindow, GateCAS, GateReset, ZeroSuccesses
  <2>5. ASSUME NEW p \in Reqs, Record(p) PROVE NoMissedTransition'
    <3>1. CASE RecordLoad(p)
      BY <3>1 DEF RecordLoad, Arm
    <3>2. CASE AddFailure(p) \/ AddSuccess(p)
      BY <3>2 DEF AddFailure, AddSuccess
    <3>3. CASE TripCAS(p) \/ ReopenCAS(p)
      BY <3>3 DEF TripCAS, ReopenCAS, OpenCAS
    <3>4. CASE CloseCAS(p)
      BY <3>4 DEF CloseCAS
    <3>5. CASE ReadClock(p) \/ StoreTrip(p)
      BY <3>5 DEF ReadClock, StoreTrip
    <3>6. CASE ClearFailures(p) \/ CloseFailures(p) \/ ResetFailures(p)
      BY <3>6 DEF ClearFailures, CloseFailures, ResetFailures, ZeroFailures
    <3>7. CASE CloseSuccesses(p)
      BY <3>7 DEF CloseSuccesses, ZeroSuccesses
    <3>8. QED
      BY <2>5, <3>1, <3>2, <3>3, <3>4, <3>5, <3>6, <3>7 DEF Record
  <2>6. QED
    BY <2>1, <2>2, <2>3, <2>4, <2>5 DEF Next, Step
<1>3. QED
  BY <1>1, <1>2, TypeCorrect, PTL DEF Spec

(* Every change of the state word is one the breaker's state machine       *)
(* allows, although goroutines act on states they loaded long before.      *)
THEOREM TransitionsLegal == Spec => LegalTransitions
<1> DEFINE Legal == state' # state =>
          <<state, state'>> \in { <<"closed", "open">>, <<"open", "halfOpen">>,
                                  <<"halfOpen", "closed">>, <<"halfOpen", "open">> }
<1>1. [Next]_vars => [Legal]_vars
  <2> SUFFICES ASSUME [Next]_vars, ~ UNCHANGED vars PROVE Legal
    OBVIOUS
  <2>1. CASE Tick \/ UpstreamChanges
    BY <2>1 DEF Tick, UpstreamChanges
  <2>2. ASSUME NEW p \in Reqs, Gate(p) PROVE Legal
    BY <2>2 DEF Gate, GateLoad, GateWindow, GateCAS, GateReset, ZeroSuccesses
  <2>3. ASSUME NEW p \in Reqs, Record(p) PROVE Legal
    BY <2>3 DEF Record, RecordLoad, Arm, AddFailure, AddSuccess, CloseCAS, TripCAS, ReopenCAS,
                OpenCAS, ReadClock, StoreTrip, ClearFailures, CloseFailures,
                ResetFailures, ZeroFailures, CloseSuccesses, ZeroSuccesses
  <2>4. QED
    BY <2>1, <2>2, <2>3 DEF Next, Step
<1>2. QED
  BY <1>1, PTL DEF Spec, LegalTransitions
=============================================================================
