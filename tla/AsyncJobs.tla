----------------------------- MODULE AsyncJobs ------------------------------
(***************************************************************************)
(* Asynchronous jobs (internal/async): AsyncManager.Submit, runJob and     *)
(* WorkerPoll (manager.go) over the job store that keeps the jobs' state   *)
(* in a key-value store and the work queue in memory, with its recovery    *)
(* after a restart (datastore_store.go).                                   *)
(***************************************************************************)
EXTENDS Integers, Sequences, FiniteSets, SequencesExt

CONSTANTS
    Jobs,
    QueueCap, MaxWorkers,
    MaxFaults       \* bound: crashes and failed writes

JobsAssumption == QueueCap \in Nat /\ MaxWorkers \in Nat \ {0} /\ MaxFaults \in Nat

Poller == "poller"
Runners == Jobs \cup {Poller}

VARIABLES
    polls,          \* somebody calls WorkerPoll
    status,         \* the status stored; "none": no record
    queue,
    submit,         \* per job: where its Submit is
    sem,            \* semaphore slots taken
    run,            \* per goroutine of Submit, and the poller: pc and job
    up,
    recovering,     \* keys Recover has still to visit
    faults,
    unwritten       \* history: jobs a status of which could not be stored

vars == <<polls, status, queue, submit, sem, run, up, recovering, faults, unwritten>>

Idle == [pc |-> "idle"]

Init ==
    /\ polls \in BOOLEAN
    /\ status = [j \in Jobs |-> "none"] /\ queue = <<>>
    /\ submit = [j \in Jobs |-> "new"] /\ sem = 0
    /\ run = [r \in Runners |-> Idle]
    /\ up = TRUE /\ recovering = {} /\ faults = 0 /\ unwritten = {}

Terminal(j) == status[j] \in {"completed", "failed"}
Store(j, s) == status' = [status EXCEPT ![j] = s]
Fault == faults < MaxFaults /\ faults' = faults + 1

(* The process serves once Recover is through. *)
Serving == up /\ recovering = {}

-----------------------------------------------------------------------------
(* Submit: the record, the queue, the semaphore, the goroutine. *)

SubmitPut(j) ==
    /\ Serving /\ submit[j] = "new"
    /\ \/ Store(j, "pending") /\ submit' = [submit EXCEPT ![j] = "stored"] /\ UNCHANGED faults
       \/ Fault /\ submit' = [submit EXCEPT ![j] = "refused"] /\ UNCHANGED status
    /\ UNCHANGED <<polls, queue, sem, run, up, recovering, unwritten>>

Room == Len(queue) < QueueCap

(* ErrQueueFull refuses the call; the record stays. *)
SubmitEnqueue(j) ==
    /\ Serving /\ submit[j] = "stored"
    /\ queue' = IF Room THEN Append(queue, j) ELSE queue
    /\ submit' = [submit EXCEPT ![j] = IF Room THEN "queued" ELSE "refused"]
    /\ UNCHANGED <<polls, status, sem, run, up, recovering, faults, unwritten>>

SubmitLaunch(j) ==
    /\ Serving /\ submit[j] = "queued" /\ sem < MaxWorkers
    /\ sem' = sem + 1
    /\ submit' = [submit EXCEPT ![j] = "accepted"]
    /\ run' = [run EXCEPT ![j] = [pc |-> "start", job |-> j]]
    /\ UNCHANGED <<polls, status, queue, up, recovering, faults, unwritten>>

(* WorkerPoll: the next job of the queue. *)
Dequeue ==
    /\ polls /\ Serving /\ run[Poller] = Idle /\ queue # <<>>
    /\ run' = [run EXCEPT ![Poller] = [pc |-> "start", job |-> Head(queue)]]
    /\ queue' = Tail(queue)
    /\ UNCHANGED <<polls, status, submit, sem, up, recovering, faults, unwritten>>

-----------------------------------------------------------------------------
(* runJob. *)
Goto(r, pc) == run' = [run EXCEPT ![r].pc = pc]
Leave(r) == run' = [run EXCEPT ![r] = Idle] /\ sem' = IF r = Poller THEN sem ELSE sem - 1

(* Get: a job that is gone is not run. *)
RunGet(r) ==
    /\ run[r].pc = "start"
    /\ IF status[run[r].job] = "none" THEN Leave(r) ELSE Goto(r, "mark") /\ UNCHANGED sem
    /\ UNCHANGED <<polls, status, queue, submit, up, recovering, faults, unwritten>>

RunMark(r) ==
    /\ run[r].pc = "mark"
    /\ \/ Store(run[r].job, "running") /\ Goto(r, "execute") /\ UNCHANGED <<sem, faults>>
       \/ Fault /\ Leave(r) /\ UNCHANGED status
    /\ unwritten' = IF faults' = faults THEN unwritten ELSE unwritten \cup {run[r].job}
    /\ UNCHANGED <<polls, queue, submit, up, recovering>>

(* executeFn; an error or a panic makes the job fail. *)
RunExecute(r) ==
    /\ run[r].pc = "execute"
    /\ \E s \in {"completed", "failed"} : run' = [run EXCEPT ![r].pc = s]
    /\ UNCHANGED <<polls, status, queue, submit, sem, up, recovering, faults, unwritten>>

RunStore(r) ==
    /\ run[r].pc \in {"completed", "failed"}
    /\ \/ Store(run[r].job, run[r].pc) /\ UNCHANGED faults
       \/ Fault /\ UNCHANGED status
    /\ unwritten' = IF faults' = faults THEN unwritten ELSE unwritten \cup {run[r].job}
    /\ Leave(r)
    /\ UNCHANGED <<polls, queue, submit, up, recovering>>

-----------------------------------------------------------------------------
(* DeleteJob, or the collection of jobs past their TTL: of any job. *)
Delete(j) ==
    /\ up /\ status[j] # "none"
    /\ Store(j, "none")
    /\ UNCHANGED <<polls, queue, submit, sem, run, up, recovering, faults, unwritten>>

(* The process ends; the store stays. *)
Crash ==
    /\ up /\ Fault
    /\ up' = FALSE
    /\ queue' = <<>> /\ sem' = 0 /\ recovering' = {}
    /\ run' = [r \in Runners |-> Idle]
    /\ submit' = [j \in Jobs |-> IF submit[j] \in {"stored", "queued"} THEN "refused" ELSE submit[j]]
    /\ UNCHANGED <<polls, status, unwritten>>

Restart ==
    /\ ~up /\ up' = TRUE
    /\ recovering' = {j \in Jobs : status[j] # "none"}
    /\ UNCHANGED <<polls, status, queue, submit, sem, run, faults, unwritten>>

RecoverPending(j) ==
    /\ up /\ j \in recovering
    /\ recovering' = recovering \ {j}
    /\ queue' = IF Room /\ status[j] = "pending" THEN Append(queue, j) ELSE queue
    /\ UNCHANGED <<polls, status, submit, sem, run, up, faults, unwritten>>

(* Recover, for one key: unfinished jobs are pending and queued again. *)
Recover(j) ==
    LET unfinished == status[j] \in {"pending", "running"} IN
    /\ up /\ j \in recovering
    /\ recovering' = recovering \ {j}
    /\ \/ /\ unfinished /\ Store(j, "pending")
          /\ queue' = IF Room THEN Append(queue, j) ELSE queue
          /\ UNCHANGED <<faults, unwritten>>
       \/ /\ unfinished /\ Fault
          /\ unwritten' = unwritten \cup {j}
          /\ UNCHANGED <<status, queue>>
       \/ ~unfinished /\ UNCHANGED <<status, queue, faults, unwritten>>
    /\ UNCHANGED <<polls, submit, sem, run, up>>

-----------------------------------------------------------------------------
Running(r) == RunGet(r) \/ RunMark(r) \/ RunExecute(r) \/ RunStore(r)
Submitting(j) == SubmitPut(j) \/ SubmitEnqueue(j) \/ SubmitLaunch(j)

Next ==
    \/ Dequeue \/ Crash \/ Restart
    \/ \E j \in Jobs : Submitting(j) \/ Recover(j) \/ Delete(j)
    \/ \E r \in Runners : Running(r)

(* Goroutines run on, a stopped process is started again, the poller       *)
(* polls.                                                                  *)
Fairness ==
    /\ WF_vars(Dequeue) /\ WF_vars(Restart)
    /\ \A j \in Jobs : WF_vars(Submitting(j)) /\ WF_vars(Recover(j))
    /\ \A r \in Runners : WF_vars(Running(r))

Spec == Init /\ [][Next]_vars /\ Fairness

-----------------------------------------------------------------------------
(* Properties. *)

(* The semaphore counts the goroutines of Submit, and never more than      *)
(* maxWorkers of them run.                                                 *)
WorkersBounded ==
    /\ sem = Cardinality({j \in Jobs : run[j] # Idle})
    /\ sem <= MaxWorkers

(* Without a poller, a job whose run has ended keeps its result, or is     *)
(* deleted: nothing puts it back to pending or running.                    *)
KeepsEnded == \A j \in Jobs : ~polls /\ Terminal(j) => status'[j] \in {status[j], "none"}
ResultStays == [][KeepsEnded]_vars

(* "Job state survives process restart; pending/running jobs found on      *)
(* startup are automatically re-enqueued": with a poller and a queue that  *)
(* holds them all, a job accepted is brought to its end even when the      *)
(* process crashes in between, unless its record is deleted or the write   *)
(* of its status failed.                                                   *)
AllDone == polls => \A j \in Jobs : submit[j] = "accepted" => Terminal(j) \/ status[j] = "none" \/ j \in unwritten
Finishes == []<>AllDone
=============================================================================
