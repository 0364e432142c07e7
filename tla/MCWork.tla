------------------------------- MODULE MCWork -------------------------------
(*****************************************************************************)
(* The parts that promise that something happens: events on their way to a   *)
(* sink, listeners and jobs. They share no state, so a behaviour is one of   *)
(* one of them (`unit`); the variables of the others are off.                *)
(*****************************************************************************)
EXTENDS EventSlots

CONSTANTS p1, p2, p3

VARIABLES
    unit,     \* the part that runs
    isLog, logMu, emitter, ring, overflow, fan, ch, worker, flushed, lost, stopping, closed,
    polls, status, queue, submit, sem, run, jobsUp, recovering, jobsFaults, unwritten

Two == {p1, p2}
Three == {p1, p2, p3}
Runners == 1..2

Ingest == INSTANCE IngestPipeline WITH Events <- Three, Fanouts <- {p1}, Sinks <- {p1},
    RingCap <- 1, OverCap <- 1, ChanCap <- 1, MaxItems <- 2, MinWorkers <- 1, MaxWorkers <- 2,
    HighFill <- 70, MidFill <- 40, LowFill <- 20
Jobs == INSTANCE AsyncJobs WITH Jobs <- Two, QueueCap <- 2, MaxWorkers <- 1, MaxFaults <- 2,
    up <- jobsUp, faults <- jobsFaults

ASSUME SlotsAssumption
ASSUME Ingest!PipelineAssumption
ASSUME Jobs!JobsAssumption

ingestVars == <<isLog, logMu, emitter, ring, overflow, fan, ch, worker, flushed, lost, stopping,
        closed>>
jobsVars == <<polls, status, queue, submit, sem, run, jobsUp, recovering, jobsFaults,
        unwritten>>
allVars == <<unit, vars, ingestVars, jobsVars>>

Off == "off"
IngestOff == isLog = Off /\ logMu = Off /\ emitter = Off /\ ring = Off /\ overflow = Off /\
        fan = Off /\ ch = Off /\ worker = Off /\ flushed = Off /\ lost = Off /\
        stopping = Off /\ closed = Off
JobsOff == polls = Off /\ status = Off /\ queue = Off /\ submit = Off /\ sem = Off /\
        run = Off /\ jobsUp = Off /\ recovering = Off /\ jobsFaults = Off /\ unwritten = Off
Rests == Init /\ expiring

WorkInit ==
    \/ unit = "slots" /\ Init /\ IngestOff /\ JobsOff
    \/ unit = "ingest" /\ Ingest!Init /\ Rests /\ JobsOff
    \/ unit = "jobs" /\ Jobs!Init /\ Rests /\ IngestOff

WorkNext ==
    \/ unit = "slots" /\ Next /\ UNCHANGED <<unit, ingestVars, jobsVars>>
    \/ unit = "ingest" /\ Ingest!Next /\ UNCHANGED <<unit, vars, jobsVars>>
    \/ unit = "jobs" /\ Jobs!Next /\ UNCHANGED <<unit, vars, ingestVars>>

\* What each part assumes of the scheduler, the timers and the clock, for the
\* part that runs.
WorkFairness ==
    /\ WF_vars(unit = "slots" /\ Expire)
    /\ \A i \in Two : WF_vars(unit = "slots" /\ TryClaim(i))
    /\ \A i \in Two : WF_vars(unit = "slots" /\ PersistClaim(i))
    /\ \A i \in Two : WF_vars(unit = "slots" /\ StopCancel(i))
    /\ \A e \in Three : WF_ingestVars(unit = "ingest" /\ Ingest!Emitting(e))
    /\ WF_ingestVars(unit = "ingest" /\ Ingest!Fanning(p1))
    /\ \A w \in Runners : WF_ingestVars(unit = "ingest" /\ Ingest!Take(p1, w))
    /\ \A w \in Runners : WF_ingestVars(unit = "ingest" /\ Ingest!Flush(p1, w))
    /\ \A w \in Runners : WF_ingestVars(unit = "ingest" /\ Ingest!Left(p1, w))
    /\ \A w \in Runners : WF_ingestVars(unit = "ingest" /\ Ingest!ScaleNeeded(p1, w))
    /\ WF_ingestVars(unit = "ingest" /\ Ingest!CloseSinks)
    /\ WF_jobsVars(unit = "jobs" /\ Jobs!Dequeue)
    /\ WF_jobsVars(unit = "jobs" /\ Jobs!Restart)
    /\ \A j \in Two : WF_jobsVars(unit = "jobs" /\ Jobs!Submitting(j))
    /\ \A j \in Two : WF_jobsVars(unit = "jobs" /\ Jobs!Recover(j))
    /\ \A r \in Jobs!Runners : WF_jobsVars(unit = "jobs" /\ Jobs!Running(r))

WorkSpec == WorkInit /\ [][WorkNext]_allVars /\ WorkFairness

\* An event Emit took is in one place for each sink, until it is flushed once
\* or given up (fanOut, runWorker, drainAll).
InOnePlace == unit = "ingest" => Ingest!InOnePlace

\* Work is taken up again after a crash: an instance that stays up sees the
\* listener run, and a job that was accepted is brought to its end
\* (startRebalancer, Recover).
Resumes ==
    /\ (unit = "slots") ~> (unit = "slots" /\ ListenerRuns)
    /\ (unit = "jobs") ~> (unit = "jobs" /\ Jobs!AllDone)
=============================================================================
