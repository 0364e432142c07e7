----------------------------- MODULE MCStorage ------------------------------
(*****************************************************************************)
(* What the gateway keeps in its own memory: the index and the slab regions  *)
(* of the cache, the cache in front of a store, and the batches on their way *)
(* to a document store. They share no state, so a behaviour is one of one of *)
(* them (`unit`); the variables of the others are off.                       *)
(*****************************************************************************)
EXTENDS Integers, Sequences, FiniteSets, TLC

CONSTANTS k1, k2, k3, p1, p2

VARIABLES
    unit,     \* the part that runs
    node, next, ready, stamp, todo, freed, detached, held, ops, get, bound,
    bufs, count, maxCount, writeSlot, mu, index, cursor, used, puts, expired, pc, slabsGet,
    cleaner, aliased, drift, misled,
    l1, backend, queue, batch, op, peer, tiersPuts, peers, latest, got, disturbed,
    buffered, store, pending, call, documentsQueue, documentsBatch, loop, flight, calls, faults,
    closed, before, acked, superseded

Two == {p1, p2}

\* Three tags on one route, two of them alike in their filter bits.
OneRoute == [t \in {k1, k2, k3} |-> [d \in 1..3 |-> 0]]
FilterBits == [t \in {k1, k2, k3} |-> IF t = k1 THEN 1 ELSE 2]

\* Two keys of two tenants.
TwoTenants == [t \in {k1, k2} |-> t]

Index == INSTANCE InlineIndex WITH Tags <- {k1, k2, k3}, Vals <- {1}, Readers <- {p1},
    Route <- OneRoute, H2 <- FilterBits, Slots <- 1, Fanout <- 2, MaxDepth <- 2, PoolSize <- 4,
    MaxOps <- 6
Slabs == INSTANCE SlabCache WITH Keys <- {k1, k2}, Owner <- TwoTenants, Putters <- {p1},
    Readers <- {p2}, InitSlots <- 1, MaxSlots <- 2, GrowPct <- 70, ShrinkPct <- 100,
    GenMod <- 2, TenantLimit <- 1, MaxPuts <- 3, get <- slabsGet
Tiers == INSTANCE CacheTiers WITH QueueCap <- 3, MaxPuts <- 4, MaxPeer <- 2, puts <- tiersPuts
Documents == INSTANCE DocumentBatcher WITH Callers <- Two, QueueCap <- 1, MaxBatch <- 2,
    MaxConcurrent <- 2, MaxCalls <- 3, MaxFaults <- 1, queue <- documentsQueue,
    batch <- documentsBatch

ASSUME Index!InlineIndexAssumption
ASSUME Slabs!SlabCacheAssumption
ASSUME Tiers!TiersAssumption
ASSUME Documents!BatcherAssumption

indexVars == <<node, next, ready, stamp, todo, freed, detached, held, ops, get, bound>>
slabsVars == <<bufs, count, maxCount, writeSlot, mu, index, cursor, used, puts, expired, pc,
        slabsGet, cleaner, aliased, drift, misled>>
tiersVars == <<l1, backend, queue, batch, op, peer, tiersPuts, peers, latest, got, disturbed>>
documentsVars == <<buffered, store, pending, call, documentsQueue, documentsBatch, loop, flight,
        calls, faults, closed, before, acked, superseded>>
allVars == <<unit, indexVars, slabsVars, tiersVars, documentsVars>>

Off == "off"
IndexOff == node = Off /\ next = Off /\ ready = Off /\ stamp = Off /\ todo = Off /\
        freed = Off /\ detached = Off /\ held = Off /\ ops = Off /\ get = Off /\ bound = Off
SlabsOff == bufs = Off /\ count = Off /\ maxCount = Off /\ writeSlot = Off /\ mu = Off /\
        index = Off /\ cursor = Off /\ used = Off /\ puts = Off /\ expired = Off /\ pc = Off /\
        slabsGet = Off /\ cleaner = Off /\ aliased = Off /\ drift = Off /\ misled = Off
TiersOff == l1 = Off /\ backend = Off /\ queue = Off /\ batch = Off /\ op = Off /\ peer = Off /\
        tiersPuts = Off /\ peers = Off /\ latest = Off /\ got = Off /\ disturbed = Off
DocumentsOff == buffered = Off /\ store = Off /\ pending = Off /\ call = Off /\
        documentsQueue = Off /\ documentsBatch = Off /\ loop = Off /\ flight = Off /\
        calls = Off /\ faults = Off /\ closed = Off /\ before = Off /\ acked = Off /\
        superseded = Off

StorageInit ==
    \/ unit = "index" /\ Index!Init /\ SlabsOff /\ TiersOff /\ DocumentsOff
    \/ unit = "slabs" /\ Slabs!Init /\ IndexOff /\ TiersOff /\ DocumentsOff
    \/ unit = "tiers" /\ Tiers!Init /\ IndexOff /\ SlabsOff /\ DocumentsOff
    \/ unit = "documents" /\ Documents!Init /\ IndexOff /\ SlabsOff /\ TiersOff

StorageNext ==
    \/ unit = "index" /\ Index!Next /\ UNCHANGED <<unit, slabsVars, tiersVars, documentsVars>>
    \/ unit = "slabs" /\ Slabs!Next /\ UNCHANGED <<unit, indexVars, tiersVars, documentsVars>>
    \/ unit = "tiers" /\ Tiers!Next /\ UNCHANGED <<unit, indexVars, slabsVars, documentsVars>>
    \/ unit = "documents" /\ Documents!Next /\ UNCHANGED <<unit, indexVars, slabsVars, tiersVars>>

StorageSpec == StorageInit /\ [][StorageNext]_allVars

\* Once a later Put is acknowledged the store never goes back to one
\* acknowledged before it began, although batches overtake each other
\* (runWrites).
StoreNotSuperseded == unit = "documents" => Documents!StoreNotSuperseded

\* An entry that was put and not deleted is where a search for its tag goes,
\* and a reader that starts and ends while it stays put finds it, whatever is
\* split and merged around it (split, merge, Get).
EntryFound ==
    unit = "index" => Index!NoEntryLost /\ Index!StableEntryFound

\* A get returns a value put under its own key although slots are reused under
\* it, and the last one put through the tiers, unless a peer or a full queue
\* disturbed the order (generation check, write-behind).
ReadsOwnLatest ==
    /\ unit = "slabs" => Slabs!OwnValue
    /\ unit = "tiers" => Tiers!ReadsLatest

\* Behaviours in which no generation number comes round and no peer or full
\* queue disturbs the order: beyond them the properties say nothing.
StorageBound ==
    /\ unit = "slabs" => ~aliased
    /\ unit = "tiers" => ~disturbed
=============================================================================
