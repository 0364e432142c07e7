----------------------------- MODULE ConfigSync -----------------------------
(***************************************************************************)
(* How a configuration reaches the gateway and its peers: /sync compiles a *)
(* request into a copy of the engine state and swaps it in                 *)
(* (ApplyUnifiedSync, internal/control/management_server.go), writes what  *)
(* changed to the shared store, and the store tells the other instances    *)
(* (internal/datastore/eventing_store.go), which load the whole store      *)
(* again (the consumer of cmd/rah-gateway/main.go, Bootstrap).             *)
(*                                                                         *)
(* ApplyUnifiedSync takes no lock: a goroutine stops before the load of    *)
(* the engine state, the copy of the configurations, the compilation, the  *)
(* swap, the store of the configurations and each call of the store.       *)
(* Bootstrap reads the store key by key.  Events are alike for whoever     *)
(* reads them and are counted.  A flow is its version, an API the name of  *)
(* its flow and whether it carries constants or an upstream URL; the rate  *)
(* limits, tiers, services and connectors of a request take the same path  *)
(* and are left out.                                                       *)
(***************************************************************************)
EXTENDS Integers, FiniteSets

CONSTANTS
    Instances,
    Handlers,       \* goroutines of each instance that serve /sync or rebake
    Flows, Apis,    \* names
    Versions,       \* of a flow
    Broken,         \* versions that Compile refuses
    Unlinked,       \* versions that CompileExecutable refuses
    Requests,       \* of /sync: what they say of the names they list
    MaxInputs,      \* bound: requests and rebakes
    MaxEvents,      \* bound: events an instance has not read; one more joins them
    MaxFaults       \* bound: crashes, failed writes and lost events

VARIABLES
    store,          \* the flows and the APIs in the shared store
    up,             \* instances that have started: they serve, and read the stream
    pending,        \* number of events of others each has to read
    configs,        \* flowConfigs and apiConfigs of each instance
    live,           \* its engine state: the flow library and the routes
    job,            \* what each goroutine of each instance does
    inputs, faults,
    synced,         \* history: requests answered with success
    overlapped,     \* history: two goroutines of an instance applied at once
    raced,          \* history: two of them compiled at once
    unsaved         \* history: a write to the store failed or was cut off

vars == <<store, up, pending, configs, live, job, inputs, faults, synced, overlapped,
          raced, unsaved>>

Consumer == "consumer"
Threads == Handlers \cup {Consumer}

Nothing == 0                                            \* no such flow
NoApi == [flow |-> "", extra |-> FALSE]
Empty == [flows |-> [f \in Flows |-> Nothing], apis |-> [a \in Apis |-> NoApi]]
NoRoute == [version |-> Nothing, extra |-> FALSE]
NoState == [lib |-> [f \in Flows |-> Nothing], routes |-> [a \in Apis |-> NoRoute]]

(* A request says of every name "" (nothing), "delete" or "upsert". *)
Silent == [flows |-> [f \in Flows |-> [act |-> "", version |-> Nothing]],
           apis |-> [a \in Apis |-> [act |-> "", api |-> NoApi]]]
UpsertFlow(r, f, v) == [r EXCEPT !.flows[f] = [act |-> "upsert", version |-> v]]
UpsertApi(r, a, f, x) == [r EXCEPT !.apis[a] = [act |-> "upsert", api |-> [flow |-> f, extra |-> x]]]
Merge(f, g) == [x \in DOMAIN g |-> IF x \in DOMAIN f THEN f[x] ELSE g[x]]

Idle == [pc |-> "idle", boot |-> FALSE, asked |-> FALSE, req |-> Silent, todo |-> {}, live |-> NoState,
         configs |-> Empty]

SyncAssumption ==
    /\ Broken \subseteq Versions /\ Unlinked \subseteq Versions
    /\ Nothing \notin Versions /\ "" \notin Flows
    /\ Consumer \notin Handlers
    /\ MaxInputs \in Nat /\ MaxEvents \in Nat \ {0} /\ MaxFaults \in Nat

(* An environment that has been set up: one flow, one API, every instance  *)
(* has loaded them.                                                        *)
Init ==
    /\ \E f \in Flows, a \in Apis, v \in Versions \ (Broken \cup Unlinked) :
         /\ store = [flows |-> [Empty.flows EXCEPT ![f] = v],
                     apis |-> [Empty.apis EXCEPT ![a] = [flow |-> f, extra |-> FALSE]]]
         /\ live = [i \in Instances |->
                      [lib |-> store.flows,
                       routes |-> [NoState.routes EXCEPT ![a] = [version |-> v, extra |-> FALSE]]]]
    /\ configs = [i \in Instances |-> store]
    /\ up = Instances /\ pending = [i \in Instances |-> 0]
    /\ job = [i \in Instances |-> [t \in Threads |-> Idle]]
    /\ inputs = 0 /\ faults = 0 /\ synced = 0
    /\ overlapped = FALSE /\ raced = FALSE /\ unsaved = FALSE

Set(i, t, j) == job' = [job EXCEPT ![i][t] = j]
At(i, t, l) == job[i][t].pc = l

-----------------------------------------------------------------------------
(* What starts an ApplyUnifiedSync: a request; an event of another         *)
(* instance, or a change of the AI catalog, by way of Bootstrap.           *)

Overlaps(i, t) == \E u \in Threads \ {t} : ~At(i, u, "idle")

UnifiedSyncHandler(i, t, r) ==
    /\ i \in up /\ t \in Handlers /\ At(i, t, "idle") /\ inputs < MaxInputs
    /\ Set(i, t, [Idle EXCEPT !.pc = "load", !.asked = TRUE, !.req = [flows |-> Merge(r.flows, Silent.flows),
                                                                      apis |-> Merge(r.apis, Silent.apis)]])
    /\ inputs' = inputs + 1
    /\ overlapped' = (overlapped \/ Overlaps(i, t))
    /\ UNCHANGED <<store, up, pending, configs, live, faults, synced, raced, unsaved>>

(* Bootstrap lists the flows, and later the APIs; the values follow one by *)
(* one.                                                                    *)
Stored(domain) == CASE domain = "flows" -> {f \in Flows : store.flows[f] # Nothing}
                    [] domain = "apis"  -> {a \in Apis : store.apis[a] # NoApi}

Bootstrap(i, t, boot) == Set(i, t, [Idle EXCEPT !.pc = "flows", !.boot = boot, !.todo = Stored("flows")])

Rebake(i, t) ==
    /\ i \in up /\ t \in Handlers /\ At(i, t, "idle") /\ inputs < MaxInputs
    /\ Bootstrap(i, t, FALSE)
    /\ inputs' = inputs + 1
    /\ overlapped' = (overlapped \/ Overlaps(i, t))
    /\ UNCHANGED <<store, up, pending, configs, live, faults, synced, raced, unsaved>>

Consume(i) ==
    /\ i \in up /\ pending[i] > 0 /\ At(i, Consumer, "idle")
    /\ pending' = [pending EXCEPT ![i] = @ - 1]
    /\ Bootstrap(i, Consumer, FALSE)
    /\ overlapped' = (overlapped \/ Overlaps(i, Consumer))
    /\ UNCHANGED <<store, up, configs, live, inputs, faults, synced, raced, unsaved>>

ReadFlow(i, t) ==
    LET j == job[i][t] IN
    /\ j.pc = "flows"
    /\ IF j.todo = {} THEN Set(i, t, [j EXCEPT !.pc = "apis", !.todo = Stored("apis")])
       ELSE \E f \in j.todo :
              LET next == [j EXCEPT !.todo = @ \ {f}] IN
              Set(i, t, IF store.flows[f] = Nothing THEN next
                        ELSE [next EXCEPT !.req = UpsertFlow(@, f, store.flows[f])])
    /\ UNCHANGED <<store, up, pending, configs, live, inputs, faults, synced, overlapped,
                   raced, unsaved>>

(* Nothing read, nothing to apply. *)
Read(j) == IF j.req # Silent THEN [j EXCEPT !.pc = "load"]
           ELSE [Idle EXCEPT !.pc = IF j.boot THEN "listen" ELSE "idle"]

ReadApi(i, t) ==
    LET j == job[i][t] IN
    /\ j.pc = "apis"
    /\ IF j.todo = {} THEN Set(i, t, Read(j))
       ELSE \E a \in j.todo :
              LET next == [j EXCEPT !.todo = @ \ {a}] IN
              Set(i, t, IF store.apis[a] = NoApi THEN next
                        ELSE [next EXCEPT !.req = UpsertApi(@, a, store.apis[a].flow, FALSE)])
    /\ UNCHANGED <<store, up, pending, configs, live, inputs, faults, synced, overlapped,
                   raced, unsaved>>

-----------------------------------------------------------------------------
(* ApplyUnifiedSync. *)

LoadState(i, t) ==
    /\ At(i, t, "load")
    /\ Set(i, t, [job[i][t] EXCEPT !.pc = "copy", !.live = live[i]])
    /\ UNCHANGED <<store, up, pending, configs, live, inputs, faults, synced, overlapped, raced, unsaved>>

(* The compiler has one goroutine's flow in it, and its maps, at a time:   *)
(* beyond two at once nothing is said.                                     *)
CopyConfigs(i, t) ==
    /\ At(i, t, "copy")
    /\ Set(i, t, [job[i][t] EXCEPT !.pc = "compile", !.configs = configs[i]])
    /\ raced' = (raced \/ \E u \in Threads \ {t} : At(i, u, "compile"))
    /\ UNCHANGED <<store, up, pending, configs, live, inputs, faults, synced, overlapped,
                   unsaved>>

(* The flows of the request, then its APIs: one whose flow is missing or   *)
(* does not link is logged and stays as it was.                            *)
NewFlows(r, old) ==
    [f \in Flows |-> CASE r.flows[f].act = ""       -> old[f]
                       [] r.flows[f].act = "upsert" -> r.flows[f].version
                       [] r.flows[f].act = "delete" -> Nothing]

Linked(r, flows) == {a \in Apis : /\ r.apis[a].act = "upsert"
                                  /\ flows[r.apis[a].api.flow] \notin {Nothing} \cup Unlinked}
Deleted(r) == {a \in Apis : r.apis[a].act = "delete"}

NewApis(r, flows, old) ==
    [a \in Apis |-> CASE a \in Linked(r, flows) -> r.apis[a].api
                      [] a \in Deleted(r)       -> NoApi
                      [] OTHER                  -> old[a]]

NewRoutes(r, flows, old) ==
    [a \in Apis |-> CASE a \in Linked(r, flows) -> [version |-> flows[r.apis[a].api.flow],
                                                    extra |-> r.apis[a].api.extra]
                      [] a \in Deleted(r)       -> NoRoute
                      [] OTHER                  -> old[a]]

(* A flow that does not compile refuses the request, and so does the       *)
(* deletion of a flow that an API still names.                             *)
(* Faulty variant: a flow is deleted whoever names it. *)
StillNamedNever(r, apis) == FALSE

StillNamed(r, apis) == \E f \in Flows, a \in Apis : r.flows[f].act = "delete" /\ apis[a].flow = f

Refused(r, apis) ==
    \/ \E f \in Flows : r.flows[f].act = "upsert" /\ r.flows[f].version \in Broken
    \/ StillNamed(r, apis)

(* Whoever called Bootstrap logs its error. *)
After(j) == [Idle EXCEPT !.pc = IF j.boot THEN "listen" ELSE "idle"]

Compile(i, t) ==
    LET j     == job[i][t]
        flows == NewFlows(j.req, j.configs.flows)
        lib   == NewFlows(j.req, j.live.lib)
        apis  == NewApis(j.req, flows, j.configs.apis)
    IN
    /\ j.pc = "compile"
    /\ Set(i, t, IF Refused(j.req, apis) THEN After(j)
                 ELSE [j EXCEPT !.pc = "swap", !.configs = [flows |-> flows, apis |-> apis],
                                !.live = [lib |-> lib, routes |-> NewRoutes(j.req, flows, j.live.routes)],
                                !.req.apis = [a \in Apis |-> IF a \in Linked(j.req, flows) \cup Deleted(j.req)
                                                               THEN @[a] ELSE Silent.apis[a]]])
    /\ UNCHANGED <<store, up, pending, configs, live, inputs, faults, synced, overlapped,
                   raced, unsaved>>

SetState(i, t) ==
    /\ At(i, t, "swap")
    /\ live' = [live EXCEPT ![i] = job[i][t].live]
    /\ Set(i, t, [job[i][t] EXCEPT !.pc = "configs"])
    /\ UNCHANGED <<store, up, pending, configs, inputs, faults, synced, overlapped, raced,
                   unsaved>>

(* Before SetDataStore there is nothing to write to. *)
SetConfigs(i, t) ==
    LET j == job[i][t] IN
    /\ j.pc = "configs"
    /\ configs' = [configs EXCEPT ![i] = j.configs]
    /\ Set(i, t, IF j.boot THEN After(j)
                 ELSE [j EXCEPT !.pc = "save", !.todo = {f \in Flows : j.req.flows[f].act # ""}])
    /\ UNCHANGED <<store, up, pending, live, inputs, faults, synced, overlapped, raced, unsaved>>

-----------------------------------------------------------------------------
(* The writes, flows before APIs, and the event of each: only a put makes  *)
(* another instance load the store.  A write that fails is logged.         *)

Told(is) == [i \in Instances |-> IF i \in is /\ pending[i] < MaxEvents THEN pending[i] + 1 ELSE pending[i]]

(* EventingStore.emitPut, the stream and the consumer's guard: not this    *)
(* instance.  An event may be lost: the pipeline drops it when it is full, *)
(* and a consumer that has seen none reads from the end of the stream.     *)
(* Faulty variant: the guard is the wrong way round. *)
EmitOwn(i, put) ==
    /\ pending' = IF put THEN Told({i}) ELSE pending
    /\ UNCHANGED faults

Emit(i, put) ==
    \/ /\ pending' = IF put THEN Told(up \ {i}) ELSE pending
       /\ UNCHANGED faults
    \/ /\ put /\ faults < MaxFaults
       /\ faults' = faults + 1 /\ UNCHANGED pending

Fails ==
    /\ faults < MaxFaults /\ faults' = faults + 1
    /\ unsaved' = TRUE
    /\ UNCHANGED <<store, pending>>

SaveFlow(i, t) ==
    LET j == job[i][t] IN
    /\ j.pc = "save" /\ j.todo # {}
    /\ \E f \in j.todo :
         /\ Set(i, t, [j EXCEPT !.todo = @ \ {f}])
         /\ \/ /\ store' = [store EXCEPT !.flows[f] = j.req.flows[f].version]
               /\ Emit(i, j.req.flows[f].act = "upsert")
               /\ UNCHANGED unsaved
            \/ Fails
    /\ UNCHANGED <<up, configs, live, inputs, synced, overlapped, raced>>

ToSaveApis(i, t) ==
    LET j == job[i][t] IN
    /\ j.pc = "save" /\ j.todo = {}
    /\ Set(i, t, [j EXCEPT !.pc = "saveApis", !.todo = {a \in Apis : j.req.apis[a].act # ""}])
    /\ UNCHANGED <<store, up, pending, configs, live, inputs, faults, synced, overlapped,
                   raced, unsaved>>

(* ApiConfig has no field for the constants and the upstream URL. *)
Persisted(api) == [api EXCEPT !.extra = FALSE]

SaveApi(i, t) ==
    LET j == job[i][t] IN
    /\ j.pc = "saveApis" /\ j.todo # {}
    /\ \E a \in j.todo :
         /\ Set(i, t, [j EXCEPT !.todo = @ \ {a}])
         /\ \/ /\ store' = [store EXCEPT !.apis[a] = Persisted(j.req.apis[a].api)]
               /\ Emit(i, j.req.apis[a].act = "upsert")
               /\ UNCHANGED unsaved
            \/ Fails
    /\ UNCHANGED <<up, configs, live, inputs, synced, overlapped, raced>>

Finish(i, t) ==
    LET j == job[i][t] IN
    /\ j.pc = "saveApis" /\ j.todo = {}
    /\ Set(i, t, Idle)
    /\ synced' = IF j.asked THEN synced + 1 ELSE synced
    /\ UNCHANGED <<store, up, pending, configs, live, inputs, faults, overlapped, raced, unsaved>>

-----------------------------------------------------------------------------
(* A crash, and main: Bootstrap runs alone, then the consumer starts at    *)
(* the end of the stream.                                                  *)

Crash(i) ==
    /\ i \in up /\ faults < MaxFaults
    /\ faults' = faults + 1
    /\ up' = up \ {i} /\ pending' = [pending EXCEPT ![i] = 0]
    /\ configs' = [configs EXCEPT ![i] = Empty] /\ live' = [live EXCEPT ![i] = NoState]
    /\ job' = [job EXCEPT ![i] = [t \in Threads |-> Idle]]
    /\ unsaved' = (unsaved \/ \E t \in Threads : job[i][t].pc \in {"configs", "save", "saveApis"})
    /\ UNCHANGED <<store, inputs, synced, overlapped, raced>>

Main(i) ==
    /\ i \notin up /\ At(i, Consumer, "idle")
    /\ Bootstrap(i, Consumer, TRUE)
    /\ UNCHANGED <<store, up, pending, configs, live, inputs, faults, synced, overlapped,
                   raced, unsaved>>

StartConsumers(i) ==
    /\ At(i, Consumer, "listen")
    /\ up' = up \cup {i}
    /\ Set(i, Consumer, Idle)
    /\ UNCHANGED <<store, pending, configs, live, inputs, faults, synced, overlapped, raced, unsaved>>

Apply(i, t) ==
    \/ ReadFlow(i, t) \/ ReadApi(i, t)
    \/ LoadState(i, t) \/ CopyConfigs(i, t) \/ Compile(i, t) \/ SetState(i, t) \/ SetConfigs(i, t)
    \/ SaveFlow(i, t) \/ ToSaveApis(i, t) \/ SaveApi(i, t) \/ Finish(i, t)

Next ==
    \E i \in Instances :
      \/ \E t \in Handlers, r \in Requests : UnifiedSyncHandler(i, t, r)
      \/ \E t \in Handlers : Rebake(i, t)
      \/ \E t \in Threads : Apply(i, t)
      \/ Consume(i) \/ Crash(i) \/ Main(i) \/ StartConsumers(i)

Spec == Init /\ [][Next]_vars

\* Some goroutine that applies a configuration, or a consumer, goes on.
Proceed == \E i \in Instances : Consume(i) \/ \E t \in Threads : Apply(i, t)

(* Goroutines run, and a consumer reads what is in the stream. *)
Fairness ==
    \A i \in Instances :
      /\ \A t \in Threads : WF_vars(Apply(i, t))
      /\ WF_vars(Consume(i))
      /\ WF_vars(Main(i)) /\ WF_vars(StartConsumers(i))

FairSpec == Spec /\ Fairness

-----------------------------------------------------------------------------
(* Properties. *)

Contents == [flows : [Flows -> Versions \cup {Nothing}],
             apis : [Apis -> [flow : Flows \cup {""}, extra : BOOLEAN]]]

\* The variables have their types.
TypeOK ==
    /\ store \in Contents
    /\ up \subseteq Instances
    /\ pending \in [Instances -> 0..MaxEvents] /\ \A i \in Instances \ up : pending[i] = 0
    /\ \A i \in Instances :
         /\ configs[i] \in Contents
         /\ live[i] \in [lib : [Flows -> Versions \cup {Nothing}],
                         routes : [Apis -> [version : Versions \cup {Nothing}, extra : BOOLEAN]]]
         /\ \A t \in Threads :
              /\ job[i][t].pc \in {"idle", "flows", "apis", "load", "copy", "compile", "swap",
                                   "configs", "save", "saveApis", "listen"}
              /\ job[i][t].todo \subseteq Flows \cup Apis

\* An API is only ever configured with a flow that is configured too, whatever
\* requests, rebakes and events overlap and wherever an instance crashed: the
\* flow reference check of ApplyUnifiedSync.
RefsHold ==
    \A i \in Instances, a \in Apis :
        configs[i].apis[a].flow # "" => configs[i].flows[configs[i].apis[a].flow] # Nothing

\* Once an instance that is alone has finished what it does, the store holds
\* what it is configured with, so that a restart loads it again - unless two
\* of its goroutines applied at once or a write was lost, and but for an API
\* whose flow was replaced by one that does not link, and then perhaps
\* deleted (ApplyUnifiedSync, "every upsert/delete is persisted so the gateway can
\* restore its state").
PersistedAsConfigured ==
    \A i \in up :
        Instances = {i} /\ ~overlapped /\ ~unsaved /\ (\A t \in Threads : At(i, t, "idle"))
        => /\ store.flows = configs[i].flows
           /\ \A a \in Apis : \/ store.apis[a].flow = configs[i].apis[a].flow
                              \/ store.flows[store.apis[a].flow] \in {Nothing} \cup Unlinked

\* Every instance has what the store has.
Agreed ==
    \A i \in Instances :
        /\ configs[i].flows = store.flows
        /\ \A a \in Apis : configs[i].apis[a].flow = store.apis[a].flow

\* The requests have been answered.
Synced == synced = MaxInputs

\* "Re-bootstrap this instance from the datastore so all pods converge to the
\* same compiled state": Synced ~> Agreed holds for a request with one name, and
\* not for one with a flow and an API.

-----------------------------------------------------------------------------
(* Readings that do not hold. *)

\* The instances come to rest: the instance in an event keeps "the
\* write-emit-consume-write loop" from happening (EventingStore).
LoopEnds == <>[](\A i \in Instances, t \in Threads : pending[i] = 0 /\ At(i, t, "idle"))

\* Between two applies the routes of an instance are those of its
\* configurations.
RoutesAsConfigured ==
    \A i \in up, a \in Apis :
        (\A t \in Threads : At(i, t, "idle"))
        => (live[i].routes[a] = NoRoute) = (configs[i].apis[a] = NoApi)

\* Between two applies an API is served in the version of its flow that is
\* configured.
ServesConfigured ==
    \A i \in up, a \in Apis :
        (\A t \in Threads : At(i, t, "idle")) /\ configs[i].apis[a].flow # ""
        => live[i].routes[a].version = configs[i].flows[configs[i].apis[a].flow]

\* Loading the store again takes no constants away from a route.
KeepsConstants ==
    [][\A i \in Instances, t \in Threads, a \in Apis :
         SetState(i, t) /\ ~job[i][t].asked /\ live[i].routes[a].extra => live'[i].routes[a].extra]_vars

\* Bootstrap does not change what the store holds.
BootstrapReads ==
    [][\A i \in Instances, t \in Threads :
         (SaveFlow(i, t) \/ SaveApi(i, t)) /\ ~job[i][t].asked => store' = store]_vars
=============================================================================
