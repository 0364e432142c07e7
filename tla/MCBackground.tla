---------------------------- MODULE MCBackground ----------------------------
(*****************************************************************************)
(* What runs beside the requests: the scheduler, as several instances on one *)
(* store and as one instance with a memory store, the slab rings that        *)
(* collect access logs and traces, the control that starts and stops their   *)
(* goroutines, and the data cache with its sweeper and its collections. They *)
(* share no state, so a behaviour is one of one of them (`unit`): the shared *)
(* scheduler rests in its initial state while another part runs, and the     *)
(* variables of the other parts are off.                                     *)
(*****************************************************************************)
EXTENDS Scheduler, TLC

CONSTANTS i1, i2, w1, w2, n1, n2, n3

VARIABLES
    unit,     \* the part that runs
    localNow, localRow, localGen, localUp, localArmed, localWheel, localTicked, localLoadAt,
    localLoading, localDispatch, localCancelled, localWk, localInputs, localFired,
    active, cursor, sealed, slot, w, d, out, pending, dropped, writes, refused, crossed,
    head, tail, next, chainCursor, chainSealed, chainSlot, free, alloc, chainW, chainD,
    chainOut, chainDropped, recs, lost, overtaken,
    on, flags, controlUp, running, closed, locked, todo, patches, panics,
    dataFree, dataSlot, used, named, call, sweep, calls, clash,
    window, cap, size, live, freeRows, buf, rowsHead, app, trim, rowsCalls, rowsRecs, gone, hit,
    missed, mixed

TwoInstances == {i1, i2}
OneWorker == {w1}
TwoWriters == {w1, w2}
OneName == {n1}

\* Instances, and the goroutines that write to a ring, may be exchanged.
BackgroundSymmetry == Permutations({i1, i2}) \cup Permutations({w1, w2})

Local == INSTANCE Scheduler WITH Instances <- {i1}, Workers <- {w1, w2}, Names <- OneName,
    Backend <- "memory", Operations <- {"upsert", "delete"}, Period <- 4, Lookahead <- 5,
    MinInterval <- 1, WheelSlots <- 6, SlotCap <- 2, DispatchCap <- 2, CancelMargin <- 1,
    ClaimTTL <- 2, Retries <- 1, MaxRun <- 1, MaxTime <- 14, MaxInputs <- 3, now <- localNow,
    row <- localRow, gen <- localGen, up <- localUp, armed <- localArmed, wheel <- localWheel,
    ticked <- localTicked, loadAt <- localLoadAt, loading <- localLoading,
    dispatch <- localDispatch, cancelled <- localCancelled, wk <- localWk,
    inputs <- localInputs, fired <- localFired
Slab == INSTANCE SlabRing WITH Writers <- TwoWriters, SlabCount <- 2, SlabCap <- 2,
    BatchSize <- 2, MaxWrites <- 3
Chain == INSTANCE TraceChain WITH Writers <- TwoWriters, Slots <- 2, InitialSlabs <- 2,
    MaxSlabs <- 3, MaxRecs <- 5, cursor <- chainCursor, sealed <- chainSealed,
    slot <- chainSlot, w <- chainW, d <- chainD, out <- chainOut, dropped <- chainDropped
Control == INSTANCE ObsControl WITH MaxPatches <- 4, up <- controlUp
Data == INSTANCE DataCache WITH Callers <- TwoWriters, Names <- {n1, n2, n3},
    Tenants <- {n1, n2}, NumSlots <- 2, MaxBytes <- 3, MaxSlots <- 2, MaxCap <- 2,
    MaxCalls <- 4, free <- dataFree, slot <- dataSlot
Rows == INSTANCE CollectionArena WITH Appenders <- TwoWriters, Window <- 2, Capacity <- 2,
    MaxCap <- 3, MaxBatch <- 2, MaxCalls <- 4, head <- rowsHead, calls <- rowsCalls,
    recs <- rowsRecs

ASSUME Slab!SlabAssumption
ASSUME Chain!ChainAssumption
ASSUME Control!ControlAssumption
ASSUME Data!DataCacheAssumption
ASSUME Rows!ArenaAssumption

localVars == <<localNow, localRow, localGen, localUp, localArmed, localWheel, localTicked,
        localLoadAt, localLoading, localDispatch, localCancelled, localWk, localInputs,
        localFired>>
slabVars == <<active, cursor, sealed, slot, w, d, out, pending, dropped, writes, refused,
        crossed>>
chainVars == <<head, tail, next, chainCursor, chainSealed, chainSlot, free, alloc, chainW,
        chainD, chainOut, chainDropped, recs, lost, overtaken>>
controlVars == <<on, flags, controlUp, running, closed, locked, todo, patches, panics>>
dataVars == <<dataFree, dataSlot, used, named, call, sweep, calls, clash>>
rowsVars == <<window, cap, size, live, freeRows, buf, rowsHead, app, trim, rowsCalls, rowsRecs,
        gone, hit, missed, mixed>>
allVars == <<unit, vars, localVars, slabVars, chainVars, controlVars, dataVars, rowsVars>>

Off == "off"
LocalOff == localNow = Off /\ localRow = Off /\ localGen = Off /\ localUp = Off /\
        localArmed = Off /\ localWheel = Off /\ localTicked = Off /\ localLoadAt = Off /\
        localLoading = Off /\ localDispatch = Off /\ localCancelled = Off /\ localWk = Off /\
        localInputs = Off /\ localFired = Off
SlabOff == active = Off /\ cursor = Off /\ sealed = Off /\ slot = Off /\ w = Off /\ d = Off /\
        out = Off /\ pending = Off /\ dropped = Off /\ writes = Off /\ refused = Off /\
        crossed = Off
ChainOff == head = Off /\ tail = Off /\ next = Off /\ chainCursor = Off /\ chainSealed = Off /\
        chainSlot = Off /\ free = Off /\ alloc = Off /\ chainW = Off /\ chainD = Off /\
        chainOut = Off /\ chainDropped = Off /\ recs = Off /\ lost = Off /\ overtaken = Off
ControlOff == on = Off /\ flags = Off /\ controlUp = Off /\ running = Off /\ closed = Off /\
        locked = Off /\ todo = Off /\ patches = Off /\ panics = Off
DataOff == dataFree = Off /\ dataSlot = Off /\ used = Off /\ named = Off /\ call = Off /\
        sweep = Off /\ calls = Off /\ clash = Off
RowsOff == window = Off /\ cap = Off /\ size = Off /\ live = Off /\ freeRows = Off /\
        buf = Off /\ rowsHead = Off /\ app = Off /\ trim = Off /\ rowsCalls = Off /\
        rowsRecs = Off /\ gone = Off /\ hit = Off /\ missed = Off /\ mixed = Off
Rests == Init

BackgroundInit ==
    \/ unit = "claim" /\ Init /\ LocalOff /\ SlabOff /\ ChainOff /\ ControlOff /\ DataOff /\ RowsOff
    \/ unit = "local" /\ Local!Init /\ Rests /\ SlabOff /\ ChainOff /\ ControlOff /\ DataOff /\ RowsOff
    \/ unit = "slab" /\ Slab!Init /\ Rests /\ LocalOff /\ ChainOff /\ ControlOff /\ DataOff /\ RowsOff
    \/ unit = "chain" /\ Chain!Init /\ Rests /\ LocalOff /\ SlabOff /\ ControlOff /\ DataOff /\ RowsOff
    \/ unit = "control" /\ Control!Init /\ Rests /\ LocalOff /\ SlabOff /\ ChainOff /\ DataOff /\ RowsOff
    \/ unit = "data" /\ Data!Init /\ Rests /\ LocalOff /\ SlabOff /\ ChainOff /\ ControlOff /\ RowsOff
    \/ unit = "rows" /\ Rows!Init /\ Rests /\ LocalOff /\ SlabOff /\ ChainOff /\ ControlOff /\ DataOff

BackgroundNext ==
    \/ unit = "claim" /\ Next /\ UNCHANGED <<unit, localVars, slabVars, chainVars, controlVars, dataVars, rowsVars>>
    \/ unit = "local" /\ Local!Next /\ UNCHANGED <<unit, vars, slabVars, chainVars, controlVars, dataVars, rowsVars>>
    \/ unit = "slab" /\ Slab!Next /\ UNCHANGED <<unit, vars, localVars, chainVars, controlVars, dataVars, rowsVars>>
    \/ unit = "chain" /\ Chain!Next /\ UNCHANGED <<unit, vars, localVars, slabVars, controlVars, dataVars, rowsVars>>
    \/ unit = "control" /\ Control!Next /\ UNCHANGED <<unit, vars, localVars, slabVars, chainVars, dataVars, rowsVars>>
    \/ unit = "data" /\ Data!Next /\ UNCHANGED <<unit, vars, localVars, slabVars, chainVars, controlVars, rowsVars>>
    \/ unit = "rows" /\ Rows!Next /\ UNCHANGED <<unit, vars, localVars, slabVars, chainVars, controlVars, dataVars>>

BackgroundSpec == BackgroundInit /\ [][BackgroundNext]_allVars

\* An enabled schedule with a fire time ahead is armed, or will be loaded in
\* time, through upserts and deletes (Loader, SchedulerWheel).
LocalCovered == unit = "local" => Local!Covered

\* While requests see a flag up, the goroutine that takes their records runs,
\* at every step of every patch (Apply).
FlagMeansDrained == unit = "control" => Control!FlagMeansDrained

\* Every slot of the pool is free or belongs to one collection (Create, Drop,
\* sweepSlots).
SlotsPartitioned == unit = "data" => Data!SlotsPartitioned

\* A growing collection keeps the records appended meanwhile (growCollection).
RecordsKept == unit = "rows" => Rows!RecordsKept

\* A record handed to the access log or to the traces is drained whole and
\* once, or still waits, as long as no writer outlives its slab (write, drain;
\* enqueue, drainOnce).
RecordsExact ==
    /\ unit = "slab" => Slab!ExactRecords
    /\ unit = "chain" => Chain!TracesKept

\* Behaviours in which no writer outlives its slab and none is overtaken, no
\* two calls clash on a name, and no row is deleted under its append: beyond
\* them the properties say nothing.
BackgroundBound ==
    /\ unit = "slab" => ~crossed
    /\ unit = "chain" => ~overtaken /\ chainDropped <= 3
    /\ unit = "data" => ~clash
    /\ unit = "rows" => ~hit
=============================================================================
