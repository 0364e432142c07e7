------------------------------ MODULE MCGuards ------------------------------
(*****************************************************************************)
(* What stands between a request and its upstreams: the circuit breaker, the *)
(* egress limiter whose calls wait for the next window, the parallel step,   *)
(* the configuration other instances have to be told of, the batched calls   *)
(* of a Redis source and the deadline of an upstream call. They share no     *)
(* state, so a behaviour is one of one of them (`unit`): the breaker rests   *)
(* in an initial state while another part runs, and the variables of the     *)
(* other parts are off.                                                      *)
(*****************************************************************************)
EXTENDS CircuitBreaker, TLC

CONSTANTS p1, p2, Units, SpreadFlows, SpreadRequests

VARIABLES
    unit,     \* the part that runs
    now, epoch, count, gate, mu, closed, timer, call, gone, wired, remote, served, granted,
    panicked,
    failFast, saga, ignore, tasks, worker, parallelCall, branch, resultCh, drain, released,
    undone,
    store, up, pending, configs, live, job, inputs, faults, synced, overlapped, raced, unsaved,
    redis, req, pool, queue, batch, phase, left, result, caller, calls, changes, may, applied,
    ctx, deadlineReq, deadlineTimer, deadlineCalls, overtaken, crashed

Two == {p1, p2}
AllUnits == {"breaker", "egress", "parallel", "spread", "answers", "deadline"}
OnlySpread == {"spread"}

OneFlow == {"f"}
TwoFlows == {"f", "g"}

\* A new version of the flow, or the API configured again.
OneName == {[flows |-> "f" :> [act |-> "upsert", version |-> 2], apis |-> <<>>],
            [flows |-> <<>>, apis |-> "a" :> [act |-> "upsert", api |-> [flow |-> "f", extra |-> TRUE]]]}

\* One request that brings a flow and points the API at it.
FlowAndApi == {[flows |-> "g" :> [act |-> "upsert", version |-> 1],
                apis |-> "a" :> [act |-> "upsert", api |-> [flow |-> "g", extra |-> FALSE]]]}

Egress == INSTANCE EgressLimiter WITH Calls <- Two, Limit <- 1, Window <- 1, MaxWait <- 1,
    Behaviors <- {"fail", "fallback", "fallback_unset", "wait"}, Straddle <- FALSE, Start <- 1,
    MaxNow <- 3, MaxGates <- 4, MaxRequests <- 1
Parallel == INSTANCE ParallelStep WITH Calls <- {p1}, Branches <- 1..3, MaxWorkers <- 2,
    QueueCap <- 1, call <- parallelCall
Spread == INSTANCE ConfigSync WITH Instances <- {"A", "B"}, Handlers <- {p1},
    Flows <- SpreadFlows, Apis <- {"a"}, Versions <- 1..2, Broken <- {}, Unlinked <- {},
    Requests <- SpreadRequests, MaxInputs <- 1, MaxEvents <- 2, MaxFaults <- 0
Answers == INSTANCE RedisSource WITH Callers <- {p1}, Keys <- {1}, Vals <- {1}, None <- 0,
    Reqs <- {1, 2}, BatchMax <- 2, QueueCap <- 8, MaxCalls <- 2, MaxChanges <- 0
Deadline == INSTANCE CallDeadline WITH MaxRequests <- 2, MaxCalls <- 3, req <- deadlineReq,
    timer <- deadlineTimer, calls <- deadlineCalls

ASSUME Egress!EgressAssumption
ASSUME Parallel!ParallelAssumption
ASSUME Spread!SyncAssumption
ASSUME Answers!RedisSourceAssumption
ASSUME Deadline!DeadlineAssumption

egressVars == <<now, epoch, count, gate, mu, closed, timer, call, gone, wired, remote, served,
        granted, panicked>>
parallelVars == <<failFast, saga, ignore, tasks, worker, parallelCall, branch, resultCh, drain,
        released, undone>>
spreadVars == <<store, up, pending, configs, live, job, inputs, faults, synced, overlapped,
        raced, unsaved>>
answersVars == <<redis, req, pool, queue, batch, phase, left, result, caller, calls, changes,
        may, applied>>
deadlineVars == <<ctx, deadlineReq, deadlineTimer, deadlineCalls, overtaken, crashed>>
allVars == <<unit, vars, egressVars, parallelVars, spreadVars, answersVars, deadlineVars>>

Off == "off"
EgressOff == now = Off /\ epoch = Off /\ count = Off /\ gate = Off /\ mu = Off /\
        closed = Off /\ timer = Off /\ call = Off /\ gone = Off /\ wired = Off /\
        remote = Off /\ served = Off /\ granted = Off /\ panicked = Off
ParallelOff == failFast = Off /\ saga = Off /\ ignore = Off /\ tasks = Off /\ worker = Off /\
        parallelCall = Off /\ branch = Off /\ resultCh = Off /\ drain = Off /\ released = Off /\
        undone = Off
SpreadOff == store = Off /\ up = Off /\ pending = Off /\ configs = Off /\ live = Off /\
        job = Off /\ inputs = Off /\ faults = Off /\ synced = Off /\ overlapped = Off /\
        raced = Off /\ unsaved = Off
AnswersOff == redis = Off /\ req = Off /\ pool = Off /\ queue = Off /\ batch = Off /\
        phase = Off /\ left = Off /\ result = Off /\ caller = Off /\ calls = Off /\
        changes = Off /\ may = Off /\ applied = Off
DeadlineOff == ctx = Off /\ deadlineReq = Off /\ deadlineTimer = Off /\ deadlineCalls = Off /\
        overtaken = Off /\ crashed = Off
Rests == Init /\ healthy

GuardsInit ==
  /\ unit \in Units
  /\ \/ unit = "breaker" /\ Init /\ EgressOff /\ ParallelOff /\ SpreadOff /\ AnswersOff /\ DeadlineOff
     \/ unit = "egress" /\ Egress!Init /\ Rests /\ ParallelOff /\ SpreadOff /\ AnswersOff /\ DeadlineOff
     \/ unit = "parallel" /\ Parallel!Init /\ Rests /\ EgressOff /\ SpreadOff /\ AnswersOff /\ DeadlineOff
     \/ unit = "spread" /\ Spread!Init /\ Rests /\ EgressOff /\ ParallelOff /\ AnswersOff /\ DeadlineOff
     \/ unit = "answers" /\ Answers!Init /\ Rests /\ EgressOff /\ ParallelOff /\ SpreadOff /\ DeadlineOff
     \/ unit = "deadline" /\ Deadline!Init /\ Rests /\ EgressOff /\ ParallelOff /\ SpreadOff /\ AnswersOff

GuardsNext ==
    \/ unit = "breaker" /\ Next /\ UNCHANGED <<unit, egressVars, parallelVars, spreadVars, answersVars, deadlineVars>>
    \/ unit = "egress" /\ Egress!Next /\ UNCHANGED <<unit, vars, parallelVars, spreadVars, answersVars, deadlineVars>>
    \/ unit = "parallel" /\ Parallel!Next /\ UNCHANGED <<unit, vars, egressVars, spreadVars, answersVars, deadlineVars>>
    \/ unit = "spread" /\ Spread!Next /\ UNCHANGED <<unit, vars, egressVars, parallelVars, answersVars, deadlineVars>>
    \/ unit = "answers" /\ Answers!Next /\ UNCHANGED <<unit, vars, egressVars, parallelVars, spreadVars, deadlineVars>>
    \/ unit = "deadline" /\ Deadline!Next /\ UNCHANGED <<unit, vars, egressVars, parallelVars, spreadVars, answersVars>>

\* What each part assumes of the scheduler, the timers and the clock, for the
\* part that runs.
GuardsFairness ==
    /\ \A p \in Reqs : WF_vars(unit = "breaker" /\ Step(p))
    /\ WF_vars(unit = "breaker" /\ Tick)
    /\ WF_egressVars(unit = "egress" /\ Egress!Proceed)
    /\ WF_parallelVars(unit = "parallel" /\ Parallel!Calling(p1))
    /\ WF_parallelVars(unit = "parallel" /\ Parallel!Drain(p1))
    /\ \A w \in 1..2 : WF_parallelVars(unit = "parallel" /\ Parallel!Working(w))
    /\ WF_spreadVars(unit = "spread" /\ Spread!Proceed)
    /\ WF_answersVars(unit = "answers" /\ Answers!Proceed)
    /\ WF_deadlineVars(unit = "deadline" /\ Deadline!Proceed)

GuardsSpec == GuardsInit /\ [][GuardsNext]_allVars /\ GuardsFairness

\* A window of the egress limit lets its budget through, or, with the local
\* counter, at most twice as much (claimSlot).
BudgetKept == unit = "egress" => Egress!BudgetKept

\* A parallel step that fails undoes what it collected, each branch once, in
\* reverse order.
CollectedUndone == unit = "parallel" => Parallel!CollectedUndone

\* A request for one flow or one API reaches the other instance, and both agree
\* with the store (EventingStore, Bootstrap).
ConfigSpreads == (unit = "spread" /\ Spread!Synced) ~> (unit = "spread" /\ Spread!Agreed)

\* A deadline cancels the request it was armed in, never a later one that has
\* the same pooled context, unless a Reset falls between its check and its act
\* (CancelIfGeneration).
HitsOwn == [][unit = "deadline" => Deadline!HitsOwn]_allVars

\* After a request the instances come to agree: "so all pods converge to the
\* same compiled state" (the consumer of events in main).
Converges == (unit = "spread" /\ Spread!Synced) ~> (unit = "spread" /\ Spread!Agreed)

\* Whoever waits is let go: at the gate of the egress limit also when no
\* further call comes, for the answer of a Redis source unless its worker was
\* stopped, and for an upstream that never answers by the deadline of the call
\* (waitChannel, getWorker, CancelIfGeneration).
WaitersReleased ==
    /\ (unit = "egress") ~> (unit = "egress" /\ Egress!NoneWaits)
    /\ (unit = "answers" /\ Answers!Waits(p1)) ~> (unit = "answers" /\ Answers!IsAnswered(p1))
    /\ (unit = "deadline" /\ Deadline!Stalled) ~> (unit = "deadline" /\ Deadline!Released)
=============================================================================
