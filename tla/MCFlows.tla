------------------------------ MODULE MCFlows -------------------------------
(*****************************************************************************)
(* From a configured API to what a request runs, and what the instances      *)
(* share: the sync that applies a configuration, the flow compiler with its  *)
(* executor, the router that picks the endpoint, the tenant registry, the    *)
(* PostgreSQL and Redis stores, and the Redis sources of flows. Each is      *)
(* checked on its own, so a behaviour is one of one of them (`unit`); the    *)
(* variables of the others are off.                                          *)
(* The flows are all that can be built of one compound step between a first  *)
(* assignment and a short tail, with bodies of one or two steps and one      *)
(* level of nesting.                                                         *)
(*****************************************************************************)
EXTENDS Integers, Sequences, FiniteSets, TLC

CONSTANTS p1, p2, key, val, nil, i1, i2, t1, t2, run, r1, r2, Elements, Units, RegistryOps, RegistryAliases

VARIABLES
    unit,     \* the part that runs
    flow, order, routed, failing, plan, m,
    arena, routes, panicked, tried, kids, mistaken,
    store, up, pending, configs, live, job, inputs, faults, synced, overlapped, raced, unsaved,
    db, batcherPending, deletes, recent, inbox, flush, writerUp, gets, readerUp, call, ops,
    reads, may, mixed,
    redis, current, prev, flight, redisCall, stage, data, calls, age, redisPanicked,
    sourceRedis, req, pool, queue, batch, phase, left, result, caller, sourceCalls, changes,
    sourceMay, applied,
    registryUp, mem, registryStore, going, events, baked, linked, registryOverlapped, wrapped,
    registryOps, restarts,
    peersUp, peersMem, peersStore, peersGoing, peersEvents, peersBaked, peersLinked,
    peersOverlapped, peersWrapped, peersOps, peersRestarts

Step(act, id, v) == [a |-> act, id |-> id, v |-> v, w |-> "", n |-> 1, do |-> <<>>, alt |-> <<>>, err |-> ""]
SetA(n) == [Step("set", n, "a") EXCEPT !.n = n]
SetB == Step("set", 3, "b")
UseA == Step("use", 4, "a")
UseB == Step("use", 5, "b")
Exec(err) == [Step("exec", 6, "") EXCEPT !.err = err]
TraceB == [Exec("") EXCEPT !.w = "b"]
End(act) == Step(act, 7, "")

Bodies == {<<s>> : s \in {SetB, UseA, Step("post", 8, "a"), Exec(""), Exec("continue"), Exec("status"), TraceB,
                          End("return"), End("fail"), End("capture")}}
          \cup {<<SetB, UseA>>, <<SetB, UseB>>, <<Exec(""), End("fail")>>}
Alts == {<<>>, <<UseA>>, <<TraceB, UseA>>, <<SetB, UseB>>}
Tails == {<<>>, <<UseA>>, <<UseB>>, <<SetB, UseB>>, <<SetB, UseA>>}

Nest(act, bodies) == {[Step(act, 9, "a") EXCEPT !.do = f] : f \in bodies}
Loop(bodies) == {[Step("foreach", 9, "b") EXCEPT !.do = f, !.w = "a"] : f \in bodies}
Fork(act, bodies, alts) == {[Step(act, 9, "a") EXCEPT !.do = f, !.alt = g] : f \in bodies, g \in alts}

Inner == Nest("while", {<<UseA>>}) \cup Nest("transaction", {<<Exec("")>>, <<Exec(""), End("fail")>>})
         \cup Loop({<<UseB>>}) \cup Fork("if", {<<UseA>>}, {<<SetB>>})
         \cup Fork("switch", {<<UseA>>}, {<<SetB, UseB>>})
Outer(f) == Nest("while", {f}) \cup Nest("transaction", {f}) \cup Loop({f})
            \cup Fork("if", {<<UseA>>}, {f}) \cup Fork("switch", {<<UseA>>}, {f})
Compound == Nest("while", Bodies) \cup Nest("transaction", Bodies) \cup Nest("call", Bodies) \cup Loop(Bodies)
            \cup Fork("if", Bodies, Alts) \cup Fork("switch", Bodies, Alts)
            \cup Fork("parallel", {<<Exec("")>>}, {<<>>, <<TraceB>>})
            \cup UNION {Outer(<<s>>) : s \in Inner}

SmallFlows == {<<SetA(n), s>> \o t : n \in Elements, s \in Compound, t \in Tails}

\* Nothing fails; a statement does; a BEGIN; a COMMIT.
OneFails == {{}, {6}, {9}, {109}}

\* Static segments of one and two characters, and what may stand for a parameter.
TwoSegments == {<<97>>, <<98, 99>>}
TwoValues == {<<120>>, <<121, 97>>}

\* Requests: new versions of a flow that link, do not link and do not compile;
\* an API moved, configured again and deleted, alone or with its flow.
Flow(f, v) == f :> [act |-> "upsert", version |-> v]
NoFlow(f) == f :> [act |-> "delete", version |-> 0]
Api(a, f, x) == a :> [act |-> "upsert", api |-> [flow |-> f, extra |-> x]]
NoApi(a) == a :> [act |-> "delete", api |-> [flow |-> "", extra |-> FALSE]]
Ask(flows, apis) == [flows |-> flows, apis |-> apis]
None == <<>>
Nine == {Ask(f, None) : f \in {Flow("f", 2), Flow("f", 3), NoFlow("f"), NoFlow("g")}}
        \cup {Ask(None, a) : a \in {Api("a", "g", FALSE), Api("a", "f", TRUE), NoApi("a")}}
        \cup {Ask(Flow("g", 1), Api("a", "g", TRUE)), Ask(NoFlow("f"), NoApi("a"))}

Two == {p1, p2}

AllUnits == {"flow", "router", "sync", "batcher", "redis", "source", "registry", "peers"}
OnlyRegistry == {"registry"}
OnlyFlow == {"flow"}

\* Goroutines that call a store may be exchanged, and the requests they use.
FlowSymmetry == Permutations(Two) \cup Permutations({r1, r2})

\* Two URLs, an identifier and a metadata entry, and a batch of two of them.
FourProps == {<<"url", "primary">>, <<"url", "region">>, <<"id", "key">>, <<"meta", "tier">>}
Letter == [n \in {"primary", "region", "key", "tier"} |->
            CASE n = "primary" -> "p" [] n = "region" -> "r" [] n = "key" -> "k" [] n = "tier" -> "t"]
TwoOfFour == {[p \in FourProps |-> IF p[2] \in {"primary", "tier"} THEN val ELSE nil]}
OneProp == {<<"url", "primary">>}

Compiled == INSTANCE FlowCompiler WITH Vars <- {"a", "b"}, ConstVar <- "b", Flows <- SmallFlows,
    Failures <- OneFails, MaxIter <- 2, MaxTxDepth <- 2, MaxSlots <- 6
Router == INSTANCE SubRouter WITH Segs <- TwoSegments, Values <- TwoValues,
    RouteMethods <- {"GET", "ANY"}, MaxDepth <- 2, MaxRoutes <- 3
Sync == INSTANCE ConfigSync WITH Instances <- {"A"}, Handlers <- {"h1", "h2"},
    Flows <- {"f", "g"}, Apis <- {"a"}, Versions <- 1..3, Broken <- {3}, Unlinked <- {2},
    Requests <- Nine, MaxInputs <- 2, MaxEvents <- 2, MaxFaults <- 1
Batcher == INSTANCE WriteBatcher WITH Callers <- Two, Keys <- {key}, MaxBatch <- 2,
    InboxCap <- 8, MaxOps <- 3, MaxGets <- 1, pending <- batcherPending
Redis == INSTANCE RedisStore WITH Callers <- Two, Keys <- {key}, Values <- {val}, None <- nil,
    MaxCalls <- 4, call <- redisCall, panicked <- redisPanicked
Source == INSTANCE RedisSource WITH Callers <- Two, Keys <- {t1, t2}, Vals <- {val},
    None <- nil, Reqs <- {r1, r2}, BatchMax <- 2, QueueCap <- 8, MaxCalls <- 2, MaxChanges <- 1,
    redis <- sourceRedis, calls <- sourceCalls, may <- sourceMay
Registry == INSTANCE TenantRegistry WITH Instances <- {i1}, Aliases <- RegistryAliases,
    Runs <- {run}, Props <- FourProps, First <- Letter, Vals <- {val}, None <- nil,
    Batches <- TwoOfFour, MaxID <- 3, TestIDs <- {61440, 61441}, Spare <- 127, Width <- 65536,
    Ordered <- TRUE, MaxOps <- RegistryOps, MaxRestarts <- 1, up <- registryUp,
    store <- registryStore, overlapped <- registryOverlapped, ops <- registryOps
Peers == INSTANCE TenantRegistry WITH Instances <- {i1, i2}, Aliases <- {t1, t2}, Runs <- {run},
    Props <- OneProp, First <- Letter, Vals <- {val}, None <- nil,
    Batches <- {[p \in OneProp |-> val]}, MaxID <- 4, TestIDs <- {61440, 61441}, Spare <- 127,
    Width <- 65536, Ordered <- FALSE, MaxOps <- 3, MaxRestarts <- 0, up <- peersUp,
    mem <- peersMem, store <- peersStore, going <- peersGoing, events <- peersEvents,
    baked <- peersBaked, linked <- peersLinked, overlapped <- peersOverlapped,
    wrapped <- peersWrapped, ops <- peersOps, restarts <- peersRestarts

ASSUME Compiled!FlowAssumption
ASSUME Router!RouterAssumption
ASSUME Sync!SyncAssumption
ASSUME Batcher!BatcherAssumption
ASSUME Redis!RedisStoreAssumption
ASSUME Source!RedisSourceAssumption
ASSUME Registry!TenantRegistryAssumption
ASSUME Peers!TenantRegistryAssumption

flowVars == <<flow, order, routed, failing, plan, m>>
routerVars == <<arena, routes, panicked, tried, kids, mistaken>>
syncVars == <<store, up, pending, configs, live, job, inputs, faults, synced, overlapped, raced,
        unsaved>>
batcherVars == <<db, batcherPending, deletes, recent, inbox, flush, writerUp, gets, readerUp,
        call, ops, reads, may, mixed>>
redisVars == <<redis, current, prev, flight, redisCall, stage, data, calls, age, redisPanicked>>
sourceVars == <<sourceRedis, req, pool, queue, batch, phase, left, result, caller, sourceCalls,
        changes, sourceMay, applied>>
registryVars == <<registryUp, mem, registryStore, going, events, baked, linked,
        registryOverlapped, wrapped, registryOps, restarts>>
peersVars == <<peersUp, peersMem, peersStore, peersGoing, peersEvents, peersBaked, peersLinked,
        peersOverlapped, peersWrapped, peersOps, peersRestarts>>
allVars == <<unit, flowVars, routerVars, syncVars, batcherVars, redisVars, sourceVars, registryVars, peersVars>>

Off == "off"
CompiledOff == flow = Off /\ order = Off /\ routed = Off /\ failing = Off /\ plan = Off /\
        m = Off
RouterOff == arena = Off /\ routes = Off /\ panicked = Off /\ tried = Off /\ kids = Off /\
        mistaken = Off
SyncOff == store = Off /\ up = Off /\ pending = Off /\ configs = Off /\ live = Off /\
        job = Off /\ inputs = Off /\ faults = Off /\ synced = Off /\ overlapped = Off /\
        raced = Off /\ unsaved = Off
BatcherOff == db = Off /\ batcherPending = Off /\ deletes = Off /\ recent = Off /\
        inbox = Off /\ flush = Off /\ writerUp = Off /\ gets = Off /\ readerUp = Off /\
        call = Off /\ ops = Off /\ reads = Off /\ may = Off /\ mixed = Off
RedisOff == redis = Off /\ current = Off /\ prev = Off /\ flight = Off /\ redisCall = Off /\
        stage = Off /\ data = Off /\ calls = Off /\ age = Off /\ redisPanicked = Off
SourceOff == sourceRedis = Off /\ req = Off /\ pool = Off /\ queue = Off /\ batch = Off /\
        phase = Off /\ left = Off /\ result = Off /\ caller = Off /\ sourceCalls = Off /\
        changes = Off /\ sourceMay = Off /\ applied = Off
RegistryOff == registryUp = Off /\ mem = Off /\ registryStore = Off /\ going = Off /\
        events = Off /\ baked = Off /\ linked = Off /\ registryOverlapped = Off /\
        wrapped = Off /\ registryOps = Off /\ restarts = Off
PeersOff == peersUp = Off /\ peersMem = Off /\ peersStore = Off /\ peersGoing = Off /\
        peersEvents = Off /\ peersBaked = Off /\ peersLinked = Off /\ peersOverlapped = Off /\
        peersWrapped = Off /\ peersOps = Off /\ peersRestarts = Off

FlowInit ==
  /\ unit \in Units
  /\ \/ unit = "flow" /\ Compiled!Init /\ RouterOff /\ SyncOff /\ BatcherOff /\ RedisOff /\ SourceOff /\ RegistryOff /\ PeersOff
     \/ unit = "router" /\ Router!Init /\ CompiledOff /\ SyncOff /\ BatcherOff /\ RedisOff /\ SourceOff /\ RegistryOff /\ PeersOff
     \/ unit = "sync" /\ Sync!Init /\ CompiledOff /\ RouterOff /\ BatcherOff /\ RedisOff /\ SourceOff /\ RegistryOff /\ PeersOff
     \/ unit = "batcher" /\ Batcher!Init /\ CompiledOff /\ RouterOff /\ SyncOff /\ RedisOff /\ SourceOff /\ RegistryOff /\ PeersOff
     \/ unit = "redis" /\ Redis!Init /\ CompiledOff /\ RouterOff /\ SyncOff /\ BatcherOff /\ SourceOff /\ RegistryOff /\ PeersOff
     \/ unit = "source" /\ Source!Init /\ CompiledOff /\ RouterOff /\ SyncOff /\ BatcherOff /\ RedisOff /\ RegistryOff /\ PeersOff
     \/ unit = "registry" /\ Registry!Init /\ CompiledOff /\ RouterOff /\ SyncOff /\ BatcherOff /\ RedisOff /\ SourceOff /\ PeersOff
     \/ unit = "peers" /\ Peers!Init /\ CompiledOff /\ RouterOff /\ SyncOff /\ BatcherOff /\ RedisOff /\ SourceOff /\ RegistryOff

FlowNext ==
    \/ unit = "flow" /\ Compiled!Next /\ UNCHANGED <<unit, routerVars, syncVars, batcherVars, redisVars, sourceVars, registryVars, peersVars>>
    \/ unit = "router" /\ Router!Next /\ UNCHANGED <<unit, flowVars, syncVars, batcherVars, redisVars, sourceVars, registryVars, peersVars>>
    \/ unit = "sync" /\ Sync!Next /\ UNCHANGED <<unit, flowVars, routerVars, batcherVars, redisVars, sourceVars, registryVars, peersVars>>
    \/ unit = "batcher" /\ Batcher!Next /\ UNCHANGED <<unit, flowVars, routerVars, syncVars, redisVars, sourceVars, registryVars, peersVars>>
    \/ unit = "redis" /\ Redis!Next /\ UNCHANGED <<unit, flowVars, routerVars, syncVars, batcherVars, sourceVars, registryVars, peersVars>>
    \/ unit = "source" /\ Source!Next /\ UNCHANGED <<unit, flowVars, routerVars, syncVars, batcherVars, redisVars, registryVars, peersVars>>
    \/ unit = "registry" /\ Registry!Next /\ UNCHANGED <<unit, flowVars, routerVars, syncVars, batcherVars, redisVars, sourceVars, peersVars>>
    \/ unit = "peers" /\ Peers!Next /\ UNCHANGED <<unit, flowVars, routerVars, syncVars, batcherVars, redisVars, sourceVars, registryVars>>

FlowSpec == FlowInit /\ [][FlowNext]_allVars

\* A compiled flow does what the flow says, under the conditions that
\* Compiled!FlowAsWritten spells out (bakeFlow, compileStep, Execute).
FlowAsWritten == unit = "flow" => Compiled!FlowAsWritten

\* Every endpoint baked is found by resolveSubPath under its own path and
\* method, for every value of its parameters.
RoutesServed == unit = "router" => Router!RoutesServed

\* An API is only ever configured with a flow that is configured too, however
\* requests, rebakes and events overlap (ApplyUnifiedSync).
RefsHold == unit = "sync" => Sync!RefsHold

\* A get returns a value that was current at some time between its call and its
\* return, buffer and batches in between.
ReadIsRegular == unit = "batcher" => Batcher!ReadIsRegular

\* What an instance remembers of a key and differs from Redis is at most two
\* rotations old (Invalidate, rotate, ShouldSkipWrite).
CatchesUp == unit = "redis" => Redis!CatchesUp

\* A caller of a Redis source gets the answer to its own call, although
\* requests are pooled and callers give up (Get, Set, Del).
AnswerIsOwn == unit = "source" => Source!AnswerIsOwn

\* Two aliases share a tenant number only if somebody put them on one tenant,
\* through deletions, recycled numbers and restarts (resolveOrCreateTenant,
\* forceAssignTenantID).
TenantsApart == unit = "registry" => Registry!TenantsApart

\* Operations made one after the other leave the instances with the same
\* tenants and properties (ApplyStorePut, ApplyStoreDelete).
PeersAgree == unit = "peers" => Peers!PeersAgree

\* A restart brings back the tenants that were saved before it: "so that
\* restarts and peer instances can recover the same numeric ID"
\* (RestoreFromSnapshot, forceAssignTenantID).
RestartRecovers == [][unit = "registry" => Registry!RestartRestores]_allVars

\* A foreach visits every element: "Each iteration writes the raw JSON element"
\* (LoopGateSlot).
ForeachVisitsAll == unit = "flow" => Compiled!ForeachVisitsAll

\* A transaction that does not commit leaves nothing behind: "DB steps route
\* queries through this instead of acquiring a fresh pool connection" (the
\* active transaction of the context).
TransactionUndone == unit = "flow" => Compiled!TransactionUndone

\* Routers in which every child is where FindChildIdx looks for it: what
\* happens otherwise is SubRouter!ChildIsFound. One goroutine compiles at a
\* time: two of them write the maps of the compiler at once. Test tenants whose
\* numbers do not come round, no restart with tenants of several aliases
\* (TenantRegistry!SameNumber), and with two instances operations that do not
\* overlap.
FlowBound ==
    /\ unit = "router" => Router!InPlace /\ ~mistaken
    /\ unit = "sync" => ~raced
    /\ unit = "registry" => ~wrapped /\ ~(linked # {} /\ restarts > 0)
    /\ unit = "peers" => ~peersWrapped /\ ~peersOverlapped
=============================================================================
