---------------------------- MODULE ParallelStep ----------------------------
(***************************************************************************)
(* The "parallel" step of a flow (internal/engine/steps/parallel.go): a    *)
(* call submits its branches to a shared pool of goroutines that are       *)
(* spawned on demand and leave when idle, collects the results until all   *)
(* are in, a timeout, or (fail_fast) the first hard failure, hands what is *)
(* left to a drainer, compensates what it collected and releases the       *)
(* branches' pooled contexts.                                              *)
(***************************************************************************)
EXTENDS Integers, Sequences, FiniteSets, SequencesExt

CONSTANTS
    Calls,          \* parallel steps running
    Branches,       \* branches of each, 1..n
    MaxWorkers, QueueCap

ParallelAssumption ==
    /\ IsFiniteSet(Branches) /\ Branches # {} /\ Branches = 1..Cardinality(Branches)
    /\ MaxWorkers \in Nat \ {0} /\ QueueCap \in Nat \ {0}

VARIABLES
    failFast, saga, \* the step's configuration: fail_fast, compensations
    ignore,         \* branches whose mode is ignore
    tasks,          \* the pool's queue: call and branch
    worker,         \* the pool's goroutines: off, idle, leaving, or their task
    call,           \* per call: pc, branch to submit, results collected, flags
    branch,         \* per call and branch: none, queued, running, ok, failed
    resultCh,       \* per call
    drain,          \* per call: results its drainer waits for; -1: none
    released,       \* per call and branch: times its context was released
    undone          \* per call: branches compensated, in order

vars == <<failFast, saga, ignore, tasks, worker, call, branch, resultCh, drain, released, undone>>

config == <<failFast, saga, ignore>>
Workers == 1..MaxWorkers
N == Cardinality(Branches)
Off == <<"off">>
Idle == <<"idle">>
Leaving == <<"leaving">>
Busy(w) == Len(worker[w]) = 2

Init ==
    /\ failFast \in BOOLEAN /\ saga \in BOOLEAN /\ ignore \in {{}, {N}}
    /\ tasks = <<>>
    /\ worker = [w \in Workers |-> Off]
    /\ call = [c \in Calls |-> [pc |-> "push", next |-> 1, got |-> <<>>, cancelled |-> FALSE, hard |-> FALSE]]
    /\ branch = [c \in Calls |-> [b \in Branches |-> "none"]]
    /\ resultCh = [c \in Calls |-> <<>>]
    /\ drain = [c \in Calls |-> -1]
    /\ released = [c \in Calls |-> [b \in Branches |-> 0]]
    /\ undone = [c \in Calls |-> <<>>]

Ended(c, b) == branch[c][b] \in {"ok", "failed"}
Hard(c, b) == branch[c][b] = "failed" /\ b \notin ignore

-----------------------------------------------------------------------------
(* workerPool.Submit: the task is queued, then a worker is spawned if      *)
(* fewer than maxSize live; one that is leaving counts until it has left.  *)

Push(c) ==
    /\ call[c].pc = "push" /\ Len(tasks) < QueueCap
    /\ tasks' = Append(tasks, <<c, call[c].next>>)
    /\ branch' = [branch EXCEPT ![c][call[c].next] = "queued"]
    /\ call' = [call EXCEPT ![c].pc = "spawn"]
    /\ UNCHANGED <<config, worker, resultCh, drain, released, undone>>

Spawn(c) ==
    /\ call[c].pc = "spawn"
    /\ IF \E w \in Workers : worker[w] = Off
         THEN worker' = [worker EXCEPT ![CHOOSE w \in Workers : worker[w] = Off] = Idle]
         ELSE UNCHANGED worker
    /\ call' = [call EXCEPT ![c].pc = IF call[c].next = N THEN "collect" ELSE "push",
                            ![c].next = @ + 1]
    /\ UNCHANGED <<config, tasks, branch, resultCh, drain, released, undone>>

(* workerPool.run. *)
Take(w) ==
    /\ worker[w] = Idle /\ tasks # <<>>
    /\ worker' = [worker EXCEPT ![w] = Head(tasks)]
    /\ tasks' = Tail(tasks)
    /\ branch' = [branch EXCEPT ![Head(tasks)[1]][Head(tasks)[2]] = "running"]
    /\ UNCHANGED <<config, call, resultCh, drain, released, undone>>

(* A send finds an idle worker waiting and hands it the task, so the timer *)
(* only ends the wait of one that has nothing to take.                     *)
IdleTimeout(w) ==
    /\ worker[w] = Idle /\ tasks = <<>>
    /\ worker' = [worker EXCEPT ![w] = Leaving]
    /\ UNCHANGED <<config, tasks, call, branch, resultCh, drain, released, undone>>

Left(w) ==
    /\ worker[w] = Leaving
    /\ worker' = [worker EXCEPT ![w] = Off]
    /\ UNCHANGED <<config, tasks, call, branch, resultCh, drain, released, undone>>

(* The branch itself: a cancelled one fails without running, another ends  *)
(* well or fails (panics included).  Then cancelFn and the result.         *)
RunBranch(w) ==
    LET c == worker[w][1]
        b == worker[w][2]
    IN
    /\ Busy(w) /\ branch[c][b] = "running"
    /\ \E end \in (IF call[c].cancelled THEN {"failed"} ELSE {"ok", "failed"}) :
          branch' = [branch EXCEPT ![c][b] = end]
    /\ UNCHANGED <<config, tasks, worker, call, resultCh, drain, released, undone>>

SendResult(w) ==
    LET c == worker[w][1]
        b == worker[w][2]
    IN
    /\ Busy(w) /\ Ended(c, b)
    /\ call' = [call EXCEPT ![c].cancelled = @ \/ (failFast /\ Hard(c, b))]
    /\ resultCh' = [resultCh EXCEPT ![c] = Append(@, b)]
    /\ worker' = [worker EXCEPT ![w] = Idle]
    /\ UNCHANGED <<config, tasks, branch, drain, released, undone>>

-----------------------------------------------------------------------------
(* The collecting loop. *)
Collect(c) ==
    LET b == Head(resultCh[c])
        hard == call[c].hard \/ Hard(c, b)
    IN
    /\ call[c].pc = "collect" /\ resultCh[c] # <<>>
    /\ resultCh' = [resultCh EXCEPT ![c] = Tail(@)]
    /\ call' = [call EXCEPT ![c] =
         [@ EXCEPT !.got = Append(@, b), !.hard = hard,
                   !.cancelled = @ \/ (failFast /\ hard),
                   !.pc = IF (failFast /\ hard) \/ Len(call[c].got) + 1 = N THEN "left" ELSE "collect"]]
    /\ UNCHANGED <<config, tasks, worker, branch, drain, released, undone>>

Timeout(c) ==
    /\ call[c].pc = "collect"
    /\ call' = [call EXCEPT ![c].cancelled = TRUE, ![c].pc = "left"]
    /\ UNCHANGED <<config, tasks, worker, branch, resultCh, drain, released, undone>>

(* The drainer takes what was not collected. *)
StartDrain(c) ==
    /\ call[c].pc = "left"
    /\ drain' = [drain EXCEPT ![c] = IF Len(call[c].got) < N THEN N - Len(call[c].got) ELSE -1]
    /\ call' = [call EXCEPT ![c].pc = "compensate", ![c].next = Len(call[c].got)]
    /\ UNCHANGED <<config, tasks, worker, branch, resultCh, released, undone>>

(* Faulty variant: in the order of collection. *)
CompensateForward(c) ==
    LET i == Len(call[c].got) - call[c].next + 1
        b == call[c].got[i]
    IN
    /\ call[c].pc = "compensate" /\ saga /\ call[c].hard /\ call[c].next > 0
    /\ undone' = [undone EXCEPT ![c] = IF branch[c][b] = "ok" THEN Append(@, b) ELSE @]
    /\ call' = [call EXCEPT ![c].next = @ - 1]
    /\ UNCHANGED <<config, tasks, worker, branch, resultCh, drain, released>>

(* Saga compensation, backwards over the results collected. *)
Compensate(c) ==
    LET b == call[c].got[call[c].next] IN
    /\ call[c].pc = "compensate" /\ saga /\ call[c].hard /\ call[c].next > 0
    /\ undone' = [undone EXCEPT ![c] = IF branch[c][b] = "ok" THEN Append(@, b) ELSE @]
    /\ call' = [call EXCEPT ![c].next = @ - 1]
    /\ UNCHANGED <<config, tasks, worker, branch, resultCh, drain, released>>

(* The collected contexts are released and the flow goes on or stops. *)
Return(c) ==
    /\ call[c].pc = "compensate" /\ (~saga \/ ~call[c].hard \/ call[c].next = 0)
    /\ released' = [released EXCEPT ![c] =
         [b \in Branches |-> IF b \in ToSet(call[c].got) THEN @[b] + 1 ELSE @[b]]]
    /\ call' = [call EXCEPT ![c].pc = IF call[c].hard THEN "failed" ELSE "ok"]
    /\ UNCHANGED <<config, tasks, worker, branch, resultCh, drain, undone>>

(* wg.Wait: every branch has sent its result. *)
Drain(c) ==
    /\ drain[c] > 0 /\ Len(call[c].got) + Len(resultCh[c]) = N
    /\ released' = [released EXCEPT ![c] =
         [b \in Branches |-> IF b \in ToSet(SubSeq(resultCh[c], 1, drain[c])) THEN @[b] + 1 ELSE @[b]]]
    /\ resultCh' = [resultCh EXCEPT ![c] = SubSeq(@, drain[c] + 1, Len(@))]
    /\ drain' = [drain EXCEPT ![c] = -1]
    /\ UNCHANGED <<config, tasks, worker, call, branch, undone>>

-----------------------------------------------------------------------------
Calling(c) == Push(c) \/ Spawn(c) \/ Collect(c) \/ Timeout(c) \/ StartDrain(c) \/ Compensate(c) \/ Return(c)
Working(w) == Take(w) \/ RunBranch(w) \/ SendResult(w) \/ Left(w)

Next ==
    \/ \E c \in Calls : Calling(c) \/ Drain(c)
    \/ \E w \in Workers : Working(w) \/ IdleTimeout(w)

(* Goroutines run on, branches end, timers fire. *)
Fairness ==
    /\ \A c \in Calls : WF_vars(Calling(c)) /\ WF_vars(Drain(c))
    /\ \A w \in Workers : WF_vars(Working(w))

Spec == Init /\ [][Next]_vars /\ Fairness

-----------------------------------------------------------------------------
(* Properties. *)

Returned(c) == call[c].pc \in {"ok", "failed"}

(* C1, C2: a branch's context goes back to the pool once at most, never    *)
(* before its branch has ended; when the call and its drainer are done     *)
(* every one is back.                                                      *)
ContextsReleased ==
    \A c \in Calls :
        /\ \A b \in Branches : released[c][b] <= 1 /\ (released[c][b] = 1 => Ended(c, b))
        /\ Returned(c) /\ drain[c] = -1 => \A b \in Branches : released[c][b] = 1

(* A call fails exactly when it collected a hard failure, and then what it *)
(* collected of the branches that committed is undone, each once, in       *)
(* reverse order.                                                          *)
CollectedUndone ==
    \A c \in Calls : Returned(c) =>
        /\ call[c].pc = "failed" <=> \E b \in ToSet(call[c].got) : Hard(c, b)
        /\ undone[c] = IF call[c].pc = "failed" /\ saga
                         THEN Reverse(SelectSeq(call[c].got, LAMBDA b : branch[c][b] = "ok"))
                         ELSE <<>>

(* A task is in the queue, every worker counted by the semaphore when it   *)
(* was submitted was leaving, and none is coming: only another Submit can  *)
(* revive the pool, and not if it blocks on a full queue.                  *)
Stranded ==
    /\ tasks # <<>> /\ \A w \in Workers : worker[w] = Off
    /\ \A c \in Calls : call[c].pc # "spawn"

(* A call returns and its drainer ends, whatever its branches and the      *)
(* other calls do, unless a task is stranded.                              *)
Finished(c) == (Returned(c) /\ drain[c] = -1) \/ Stranded
CallsReturn == \A c \in Calls : <>Finished(c)

(* The comment of BranchModeFail says a failure "triggers compensation for *)
(* any already-committed siblings (saga mode)": when a call has failed, no *)
(* committed branch whose result was there is left as it is.               *)
SiblingsUndone ==
    [][\A c \in Calls : saga /\ resultCh[c] # <<>> /\ Hard(c, Head(resultCh[c])) /\ resultCh'[c] = Tail(resultCh[c]) /\ call'[c].pc = "left" =>
          \A b \in ToSet(resultCh'[c]) : branch[c][b] # "ok"]_vars

(* Submit's comment says "max workers already live; one will pick up the   *)
(* task".                                                                  *)
TasksRun == \A c \in Calls, b \in Branches : (branch[c][b] = "queued") ~> (branch[c][b] # "queued")
=============================================================================
