----------------------------- MODULE ObsControl -----------------------------
(***************************************************************************)
(* Turning the parts of observability on and off in a running gateway      *)
(* (ObsController.Apply in observability/obs_handler.go) and the goroutine *)
(* lifecycles behind it: the writer's drains, the access logger, the       *)
(* instruction ring, the metrics aggregator, and the Telemetry workers     *)
(* with the trace ring they own.  Requests read the flags at any time, so  *)
(* the calls of a patch are steps of their own.                            *)
(*                                                                         *)
(* A patch changes one feature (a patch with several is a row of such      *)
(* patches under one lock).  net/http recovers a handler that panics, and  *)
(* what the handler had locked without a defer stays locked.               *)
(***************************************************************************)
EXTENDS Integers, Sequences

CONSTANTS MaxPatches    \* bound: patches applied

ControlAssumption == MaxPatches \in Nat

Features == {"traces", "metrics", "info", "access"}

VARIABLES
    on,             \* the controller's flag of each feature
    flags,          \* what requests read: trace mode, the two access log flags
    up,             \* goroutines that run
    running,        \* Telemetry.workerRunning
    closed,         \* channels that were closed and are not made again
    locked,         \* Telemetry.lifecycleMu was left locked
    todo,           \* the calls of the patch being applied
    patches, panics \* patches so far; those that ended in a panic

vars == <<on, flags, up, running, closed, locked, todo, patches, panics>>

Flags == {"traceMode", "writerEnabled", "logEnabled"}
Goroutines == {"instr", "writer", "logger", "agg", "workers", "traceDrain"}
NeedsBackground(f) == f["traces"] \/ f["metrics"] \/ f["info"]

(* The gateway's start: everything follows the configuration. *)
Init ==
    /\ on \in [Features -> BOOLEAN]
    /\ flags = (IF on["traces"] THEN {"traceMode"} ELSE {})
                 \cup (IF on["access"] THEN {"writerEnabled", "logEnabled"} ELSE {})
    /\ up = (IF on["traces"] THEN {"instr"} ELSE {})
              \cup (IF on["access"] THEN {"writer", "logger"} ELSE {})
              \cup (IF on["metrics"] THEN {"agg"} ELSE {})
              \cup (IF NeedsBackground(on) THEN {"workers", "traceDrain"} ELSE {})
    /\ running = NeedsBackground(on)
    /\ closed = IF NeedsBackground(on) THEN {} ELSE {"traceStop"}
    /\ locked = FALSE /\ todo = <<>> /\ patches = 0 /\ panics = 0

-----------------------------------------------------------------------------
(* Faulty variant: the flag goes up before the goroutine. *)
CallsFlagFirst(f) ==
    CASE f = "traces" /\ on[f]   -> <<"traceMode off", "instr stop", "set", "reconcile">>
      [] f = "traces" /\ ~on[f]  -> <<"traceMode on", "instr restart", "set", "reconcile">>
      [] f = "access" /\ on[f]   -> <<"logEnabled off", "writerEnabled off", "logger stop", "writer stop", "set">>
      [] f = "access" /\ ~on[f]  -> <<"writerEnabled on", "writer start", "logger start", "logEnabled on", "set">>
      [] f = "metrics"           -> <<IF on[f] THEN "agg stop" ELSE "agg start", "set", "reconcile">>
      [] OTHER                   -> <<"set", "reconcile">>

(* The calls that Apply makes for a change of feature f. *)
Calls(f) ==
    CASE f = "traces" /\ on[f]   -> <<"traceMode off", "instr stop", "set", "reconcile">>
      [] f = "traces" /\ ~on[f]  -> <<"instr restart", "traceMode on", "set", "reconcile">>
      [] f = "access" /\ on[f]   -> <<"logEnabled off", "writerEnabled off", "logger stop", "writer stop", "set">>
      [] f = "access" /\ ~on[f]  -> <<"writer start", "logger start", "writerEnabled on", "logEnabled on", "set">>
      [] f = "metrics"           -> <<IF on[f] THEN "agg stop" ELSE "agg start", "set", "reconcile">>
      [] OTHER                   -> <<"set", "reconcile">>

(* c.mu is taken: no patch overlaps another. *)
Patch(f) ==
    /\ todo = <<>> /\ patches < MaxPatches
    /\ patches' = patches + 1
    /\ todo' = [i \in DOMAIN Calls(f) |-> <<Calls(f)[i], f>>]
    /\ UNCHANGED <<on, flags, up, running, closed, locked, panics>>

Call == Head(todo)[1]
Done == todo' = Tail(todo) /\ UNCHANGED <<patches, panics>>
Panic == todo' = <<>> /\ panics' = panics + 1 /\ UNCHANGED patches

SetFlag ==
    /\ todo # <<>>
    /\ \E g \in Flags :
         \/ Call = g \o " on" /\ flags' = flags \cup {g}
         \/ Call = g \o " off" /\ flags' = flags \ {g}
    /\ Done
    /\ UNCHANGED <<on, up, running, closed, locked>>

(* InstrSlabRing, ObsWriter and AccessLogger: start makes new channels,    *)
(* stop waits for the goroutine; both do nothing a second time.            *)
StartStop ==
    /\ todo # <<>>
    /\ \E g \in {"instr", "writer", "logger"} :
         \/ Call \in {g \o " start", g \o " restart"} /\ up' = up \cup {g}
         \/ Call = g \o " stop" /\ up' = up \ {g}
    /\ Done
    /\ UNCHANGED <<on, flags, running, closed, locked>>

(* MetricsAggregator: one stop channel for its whole life. *)
StartAgg ==
    /\ todo # <<>> /\ Call = "agg start"
    /\ up' = IF "aggStop" \in closed THEN up ELSE up \cup {"agg"}
    /\ Done
    /\ UNCHANGED <<on, flags, running, closed, locked>>

StopAgg ==
    /\ todo # <<>> /\ Call = "agg stop"
    /\ IF "aggStop" \in closed
         THEN Panic /\ UNCHANGED <<up, closed>>
         ELSE Done /\ up' = up \ {"agg"} /\ closed' = closed \cup {"aggStop"}
    /\ UNCHANGED <<on, flags, running, locked>>

SetFeature ==
    /\ todo # <<>> /\ Call = "set"
    /\ on' = [on EXCEPT ![Head(todo)[2]] = ~@]
    /\ Done
    /\ UNCHANGED <<flags, up, running, closed, locked>>

(* Telemetry.Start and Stop.  TraceSlabRing also has one stop channel for  *)
(* its whole life: a drain started after it was closed ends at once, and   *)
(* closing it again panics with lifecycleMu held.                          *)
Reconcile ==
    /\ todo # <<>> /\ Call = "reconcile" /\ ~locked
    /\ \/ /\ running = NeedsBackground(on)
          /\ Done
          /\ UNCHANGED <<up, running, closed, locked>>
       \/ /\ ~running /\ NeedsBackground(on)
          /\ running' = TRUE
          /\ up' = up \cup (IF "traceStop" \in closed THEN {"workers"} ELSE {"workers", "traceDrain"})
          /\ Done
          /\ UNCHANGED <<closed, locked>>
       \/ /\ running /\ ~NeedsBackground(on) /\ "traceStop" \notin closed
          /\ running' = FALSE
          /\ up' = up \ {"workers", "traceDrain"}
          /\ closed' = closed \cup {"traceStop"}
          /\ Done
          /\ UNCHANGED locked
       \/ /\ running /\ ~NeedsBackground(on) /\ "traceStop" \in closed
          /\ running' = FALSE
          /\ locked' = TRUE
          /\ Panic
          /\ UNCHANGED <<up, closed>>
    /\ UNCHANGED <<on, flags>>

Next ==
    \/ \E f \in Features : Patch(f)
    \/ SetFlag \/ StartStop \/ StartAgg \/ StopAgg \/ SetFeature \/ Reconcile

Spec == Init /\ [][Next]_vars

-----------------------------------------------------------------------------
(* Properties. *)

TypeOK ==
    /\ on \in [Features -> BOOLEAN] /\ flags \subseteq Flags /\ up \subseteq Goroutines
    /\ running \in BOOLEAN /\ locked \in BOOLEAN /\ closed \subseteq {"aggStop", "traceStop"}
    /\ patches \in 0..MaxPatches /\ panics \in 0..MaxPatches

(* While requests see a flag up, the goroutine that takes their records    *)
(* runs, at every step of every patch: Apply starts goroutines before it   *)
(* raises a flag and lowers the flag before it stops them.                 *)
FlagMeansDrained ==
    /\ "traceMode" \in flags => "instr" \in up
    /\ "writerEnabled" \in flags => "writer" \in up
    /\ "logEnabled" \in flags => "logger" \in up

(* telemetry.go:431 "Start restarts the background goroutines after        *)
(* Stop()": while Telemetry is running its trace ring is drained.          *)
RestartDrains == running => "traceDrain" \in up
=============================================================================
