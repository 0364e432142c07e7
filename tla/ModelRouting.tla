---------------------------- MODULE ModelRouting ----------------------------
(***************************************************************************)
(* How an llm_call step finds a model to answer (engine/steps/llm.go): the *)
(* model it was baked with, with retries, then its fallback chain, with    *)
(* the shared state that steers it: a spending window per model            *)
(* (engine/upstream_cost_window.go) and a named circuit per model          *)
(* (engine/named_circuit.go), which a charge over the window's limit       *)
(* trips.  The flow steps trip_circuit, check_circuit and reset_circuit    *)
(* act on the same circuits (engine/steps/circuit_steps.go).               *)
(*                                                                         *)
(* One step per access to an atomic.  A model a request names in a slot is *)
(* still checked against, and charged to, the circuit and the window of    *)
(* the baked model.  What the upstream does is a free choice, and so is    *)
(* the rate limit of a model (LocalLimits).  RecordNamedCircuitOutcome has *)
(* no caller, so no outcome of a call opens or closes a circuit.           *)
(***************************************************************************)
EXTENDS Integers, Sequences, FiniteSets

CONSTANTS
    Requests, Models,
    Baked, Fallback,    \* the model of the step, the sequence of its fallbacks
    Wired,              \* whether the limiter of Baked existed when the step was baked
    Retries,
    Limit, Costs, Div,  \* of the spending windows
    OpenFor, Overrides, \* how long a circuit stays open; for_ms of trip_circuit
    MaxNow, MaxSteps    \* bounds on the clock and on the steps started

VARIABLES
    clock,
    circuit,    \* per model: [state, lastTrip, openFor]
    window,     \* per model: [epoch, cost]
    req,        \* per goroutine: where it is, in which hop, with which values
    started,    \* steps started
    held,       \* per model: a trip has ended and no reset has come since
    raced,      \* per model: a trip, a check and a reset have overlapped
    reacted     \* per model: a trip has ended since the window began

vars == <<clock, circuit, window, req, started, held, raced, reacted>>

RoutingAssumption ==
    /\ Baked \in Models /\ Fallback \in Seq(Models) /\ Wired \in BOOLEAN
    /\ Retries \in Nat /\ Limit \in Nat /\ Costs \subseteq Nat /\ Div \in Nat \ {0}
    /\ OpenFor \in Nat \ {0} /\ Overrides \subseteq Nat \ {0}

Idle == [pc |-> "idle", hop |-> 0, model |-> Baked, attempt |-> 1, at |-> 0, trip |-> 0, value |-> 0]
Tripping == {"tripDur", "tripTime", "tripLoad", "tripSwap"}
States == {"closed", "open", "halfOpen"}

TypeOK ==
    /\ clock \in 0 .. MaxNow
    /\ circuit \in [Models -> [state : States, lastTrip : 0 .. MaxNow, openFor : {OpenFor} \cup Overrides]]
    /\ \A m \in Models : window[m].epoch \in 0 .. MaxNow /\ window[m].cost \in Nat
    /\ \A p \in Requests :
          /\ req[p].pc \in {"idle", "state", "now", "trip", "dur", "probe", "call", "epoch", "add"} \cup Tripping
          /\ req[p].hop \in -1 .. Len(Fallback) /\ req[p].model \in Models
          /\ req[p].attempt \in 1 .. Retries + 1
    /\ started \in 0 .. MaxSteps
    /\ held \in [Models -> BOOLEAN] /\ raced \in [Models -> BOOLEAN] /\ reacted \in [Models -> BOOLEAN]

Init ==
    /\ clock = OpenFor
    /\ circuit = [m \in Models |-> [state |-> "closed", lastTrip |-> 0, openFor |-> OpenFor]]
    /\ window = [m \in Models |-> [epoch |-> 0, cost |-> 0]]
    /\ req = [p \in Requests |-> Idle]
    /\ started = 0
    /\ held = [m \in Models |-> FALSE] /\ raced = [m \in Models |-> FALSE]
    /\ reacted = [m \in Models |-> FALSE]

shared == <<circuit, window, held, raced, reacted>>

-----------------------------------------------------------------------------
(* The step of a request as it moves along the chain.  A hop of -1 is a    *)
(* check_circuit or trip_circuit step, 0 the baked model, k the fallback k.*)

\* The hop after this one: the next fallback, or the end of the step.
NextHop(r) ==
    IF r.hop \in 0 .. Len(Fallback) - 1
    THEN [Idle EXCEPT !.pc = "state", !.hop = r.hop + 1, !.model = Fallback[r.hop + 1]]
    ELSE Idle

\* The circuit lets the request pass.  A fallback is then asked for its rate
\* limit; the baked model was asked before.
Passed(r) ==
    CASE r.hop = -1 -> {Idle}
      [] r.hop = 0 -> {[Idle EXCEPT !.pc = "call", !.model = r.model]}
      [] r.hop > 0 -> {[Idle EXCEPT !.pc = "call", !.hop = r.hop, !.model = r.model], NextHop(r)}

Blocked(r) == NextHop(r)

Tick ==
    /\ clock < MaxNow
    /\ clock' = clock + 1
    /\ UNCHANGED <<shared, req, started>>

\* An llm_call: the rate limit of the model, then its circuit if the step
\* has one.
Start(p) ==
    /\ req[p].pc = "idle" /\ started < MaxSteps
    /\ started' = started + 1
    /\ \E r \in {[Idle EXCEPT !.pc = IF Wired THEN "state" ELSE "call"], NextHop(Idle)} :
          req' = [req EXCEPT ![p] = r]
    /\ UNCHANGED <<clock, shared>>

\* A check_circuit step, or a trip_circuit step with a duration.
StartFlowStep(p) ==
    /\ req[p].pc = "idle" /\ started < MaxSteps
    /\ started' = started + 1
    /\ \E m \in Models : \E r \in {[Idle EXCEPT !.pc = "state"]}
                                  \cup {[Idle EXCEPT !.pc = "tripDur", !.value = d] : d \in Overrides} :
          req' = [req EXCEPT ![p] = [r EXCEPT !.hop = -1, !.model = m]]
    /\ UNCHANGED <<clock, shared>>

\* A reset_circuit step: the state is stored whatever it was.
Reset(m) ==
    /\ started < MaxSteps
    /\ started' = started + 1
    /\ circuit' = [circuit EXCEPT ![m].state = "closed"]
    /\ held' = [held EXCEPT ![m] = FALSE]
    /\ raced' = [raced EXCEPT ![m] = @ \/ \E p \in Requests : req[p].model = m /\ req[p].pc \in Tripping]
    /\ UNCHANGED <<clock, window, req, reacted>>

-----------------------------------------------------------------------------
(* IsNamedCircuitOpen.                                                     *)

LoadState(p) ==
    LET r == req[p]
    IN /\ r.pc = "state"
       /\ \E q \in IF circuit[r.model].state = "open" THEN {[r EXCEPT !.pc = "now"]} ELSE Passed(r) :
             req' = [req EXCEPT ![p] = q]
       /\ UNCHANGED <<clock, shared, started>>

ReadClock(p) ==
    /\ req[p].pc = "now"
    /\ req' = [req EXCEPT ![p].pc = "trip", ![p].at = clock]
    /\ UNCHANGED <<clock, shared, started>>

LoadTrip(p) ==
    /\ req[p].pc = "trip"
    /\ req' = [req EXCEPT ![p].pc = "dur", ![p].trip = circuit[req[p].model].lastTrip]
    /\ UNCHANGED <<clock, shared, started>>

LoadDuration(p) ==
    LET r == req[p]
    IN /\ r.pc = "dur"
       /\ req' = [req EXCEPT ![p] =
             IF r.at - r.trip >= circuit[r.model].openFor THEN [r EXCEPT !.pc = "probe"] ELSE Blocked(r)]
       /\ UNCHANGED <<clock, shared, started>>

\* One of the requests that find the time elapsed makes the circuit half
\* open; all of them pass.
Probe(p) ==
    LET r == req[p]
    IN /\ r.pc = "probe"
       /\ circuit' = [circuit EXCEPT ![r.model].state = IF @ = "open" THEN "halfOpen" ELSE @]
       /\ \E q \in Passed(r) : req' = [req EXCEPT ![p] = q]
       /\ UNCHANGED <<clock, window, started, held, raced, reacted>>

-----------------------------------------------------------------------------
(* The call, and the charge for its answer.                                *)

\* The baked model is retried on transient failures; an answer that cannot
\* be parsed ends the step, a streamed one ends it without a charge.
CallBaked(p) ==
    LET r == req[p]
    IN /\ r.pc = "call" /\ r.hop = 0
       /\ \E q \in
             {IF r.attempt <= Retries THEN [r EXCEPT !.attempt = @ + 1] ELSE NextHop(r),  \* transient
              NextHop(r),                                                                  \* refused
              Idle}                                                                        \* unparsed, streamed
             \cup {IF Wired /\ c > 0 THEN [Idle EXCEPT !.pc = "epoch", !.value = c] ELSE Idle : c \in Costs} :
             req' = [req EXCEPT ![p] = q]
       /\ UNCHANGED <<clock, shared, started>>

\* A fallback is tried once.
CallFallback(p) ==
    LET r == req[p]
    IN /\ r.pc = "call" /\ r.hop > 0
       /\ \E q \in
             {NextHop(r)}
             \cup {IF c > 0 THEN [Idle EXCEPT !.pc = "epoch", !.model = r.model, !.value = c] ELSE Idle : c \in Costs} :
             req' = [req EXCEPT ![p] = q]
       /\ UNCHANGED <<clock, shared, started>>

\* UpstreamCostWindow.Record reads the clock before its loop.
ReadEpoch(p) ==
    /\ req[p].pc = "epoch"
    /\ req' = [req EXCEPT ![p].pc = "add", ![p].at = clock \div Div]
    /\ UNCHANGED <<clock, shared, started>>

Charged(w, e, c) == IF w.epoch = e THEN [w EXCEPT !.cost = @ + c] ELSE [epoch |-> e, cost |-> c]

\* The swap that wins the loop; a charge over the limit trips the circuit.
Add(p) ==
    LET r == req[p]
        w == Charged(window[r.model], r.at, r.value)
    IN /\ r.pc = "add"
       /\ window' = [window EXCEPT ![r.model] = w]
       /\ req' = [req EXCEPT ![p] = IF w.cost > Limit THEN [Idle EXCEPT !.pc = "tripTime", !.model = r.model] ELSE Idle]
       /\ reacted' = [reacted EXCEPT ![r.model] = @ /\ window[r.model].epoch = r.at]
       /\ UNCHANGED <<clock, circuit, started, held, raced>>

-----------------------------------------------------------------------------
(* TripNamedCircuit.  The counters it clears are read by nothing.          *)

StoreDuration(p) ==
    LET m == req[p].model
    IN /\ req[p].pc = "tripDur"
       /\ circuit' = [circuit EXCEPT ![m].openFor = req[p].value]
       /\ req' = [req EXCEPT ![p].pc = "tripTime", ![p].value = 0]
       /\ UNCHANGED <<clock, window, started, held, raced, reacted>>

\* A request that has loaded the earlier time may still act on it.
StoreTime(p) ==
    LET m == req[p].model
    IN /\ req[p].pc = "tripTime"
       /\ circuit' = [circuit EXCEPT ![m].lastTrip = clock]
       /\ raced' = [raced EXCEPT ![m] = @ \/ \E q \in Requests : req[q].model = m /\ req[q].pc \in {"dur", "probe"}]
       /\ req' = [req EXCEPT ![p].pc = "tripLoad"]
       /\ UNCHANGED <<clock, window, started, held, reacted>>

LoadOld(p) ==
    /\ req[p].pc = "tripLoad"
    /\ req' = [req EXCEPT ![p].pc = "tripSwap", ![p].value = circuit[req[p].model].state]
    /\ UNCHANGED <<clock, shared, started>>

\* Faulty variant: one swap, from the closed state, in place of the loop.
SwapClosed(p) ==
    LET r == req[p]
        m == r.model
    IN /\ r.pc = "tripSwap"
       /\ circuit' = [circuit EXCEPT ![m].state = IF @ = "closed" THEN "open" ELSE @]
       /\ req' = [req EXCEPT ![p] = Idle]
       /\ held' = [held EXCEPT ![m] = TRUE]
       /\ reacted' = [reacted EXCEPT ![m] = TRUE]
       /\ UNCHANGED <<clock, window, started, raced>>

\* The loop ends when its swap succeeds, and also when the state it loaded
\* was open, whatever the state is now.
SwapOpen(p) ==
    LET r == req[p]
        m == r.model
        won == circuit[m].state = r.value
    IN /\ r.pc = "tripSwap"
       /\ circuit' = [circuit EXCEPT ![m].state = IF won THEN "open" ELSE @]
       /\ IF won \/ r.value = "open"
          THEN /\ req' = [req EXCEPT ![p] = Idle]
               /\ held' = [held EXCEPT ![m] = TRUE]
               /\ reacted' = [reacted EXCEPT ![m] = TRUE]
          ELSE /\ req' = [req EXCEPT ![p].pc = "tripLoad", ![p].value = 0]
               /\ UNCHANGED <<held, reacted>>
       /\ UNCHANGED <<clock, window, started, raced>>

Next ==
    \/ Tick
    \/ \E m \in Models : Reset(m)
    \/ \E p \in Requests :
          \/ Start(p) \/ StartFlowStep(p)
          \/ LoadState(p) \/ ReadClock(p) \/ LoadTrip(p) \/ LoadDuration(p) \/ Probe(p)
          \/ CallBaked(p) \/ CallFallback(p) \/ ReadEpoch(p) \/ Add(p)
          \/ StoreDuration(p) \/ StoreTime(p) \/ LoadOld(p) \/ SwapOpen(p)

Spec == Init /\ [][Next]_vars

-----------------------------------------------------------------------------
\* Once the trips of a circuit have come to their end it stays open for its
\* duration, through every check, unless it is reset, or a trip overlapped a
\* check that had already loaded the earlier time or a reset
\* (TripNamedCircuit, IsNamedCircuitOpen).
TripHolds ==
    \A m \in Models :
        /\ held[m] /\ ~raced[m]
        /\ \A p \in Requests : req[p].model = m => req[p].pc \notin Tripping
        /\ clock - circuit[m].lastTrip < circuit[m].openFor
        => circuit[m].state = "open"

\* A window that is spent beyond its limit has led to a trip of its model's
\* circuit, or the request that spent it is about to trip it: no charge slips
\* between two others (UpstreamCostWindow.Record, LLMCall).
OverspendTrips ==
    \A m \in Models :
        window[m].cost > Limit =>
            reacted[m] \/ \E p \in Requests : req[p].model = m /\ req[p].pc \in Tripping
=============================================================================
