-------------------------- MODULE ConcurrencyLimiter --------------------------
(***************************************************************************)
(* The adaptive concurrency gate (internal/engine/concurrency.go): request *)
(* goroutines pass a lock-free semaphore, record their latency in a        *)
(* two-generation histogram and leave; a controller goroutine freezes a    *)
(* generation each tick and moves the limit; the admin endpoint patches    *)
(* limit and configuration.  One step per atomic operation.                *)
(*                                                                         *)
(* A latency is fast or slow (within or above TargetOverheadMs), so a      *)
(* histogram has two buckets.  Below 100 samples total/100 is 0 and the    *)
(* p99 threshold is the total itself.                                      *)
(***************************************************************************)
EXTENDS Integers, FiniteSets

CONSTANTS
    Requests,      \* request goroutines
    Admins,        \* goroutines of the admin endpoint
    Overrides,     \* the limits an administrator may set
    InitialLimit, MinLimit, MaxLimit, AddStep,
    CutPercent,    \* CutFactor, in percent
    CooldownTicks,
    MinSamples,
    MaxServed,     \* bound on the requests that arrive
    MaxTicks,      \* bound on the controller's ticks
    MaxPatches     \* bound on the administrator's requests

ConcurrencyAssumption ==
    /\ {InitialLimit, MinLimit, MaxLimit, AddStep, MinSamples} \subseteq Nat \ {0}
    /\ MinLimit <= InitialLimit /\ InitialLimit <= MaxLimit
    /\ CutPercent \in 1 .. 100
    /\ CooldownTicks \in Nat
    /\ Overrides \subseteq Nat \ {0}

VARIABLES
    active, limit,   \* ConcurrencyLimiter
    enabled,         \* limiterEnabled
    config,          \* liveConfig: enabled, and fixed when AIMD is off
    count, bucket,   \* the two generations
    current,         \* the generation being written
    req,             \* the request goroutines
    ctl,             \* the controller
    adm,             \* the admin requests
    served, ticks, patches,  \* bounds
    overridden       \* history: a limit was set by hand

gate == <<active, limit, enabled, config>>
hist == <<count, bucket, current>>
vars == <<gate, hist, req, ctl, adm, served, ticks, patches, overridden>>

Gens == {0, 1}
Speeds == {"fast", "slow"}

IdleReq == [pc |-> "idle", cur |-> 0, lim |-> 0, gen |-> 0, speed |-> "fast"]
IdleAdm == [pc |-> "idle", field |-> "limit", to |-> 0, cfg |-> [enabled |-> FALSE, fixed |-> FALSE]]

\* The requests that hold a slot of the semaphore.
Holders == {r \in Requests : req[r].pc \in {"serving", "counting", "filing", "leaving"} /\ req[r].lim # 0}

-----------------------------------------------------------------------------
(* Requests: ServeHTTP's gate, TryAcquire, Record and the deferred Release. *)

CheckGate(r) ==
    /\ req[r].pc = "idle"
    /\ served < MaxServed
    /\ served' = served + 1
    /\ req' = [req EXCEPT ![r].pc = IF enabled THEN "loading" ELSE "serving"]
    /\ UNCHANGED <<gate, hist, ctl, adm, ticks, patches, overridden>>

LoadActive(r) ==
    /\ req[r].pc = "loading"
    /\ req' = [req EXCEPT ![r].pc = "comparing", ![r].cur = active]
    /\ UNCHANGED <<gate, hist, ctl, adm, served, ticks, patches, overridden>>

\* Faulty variant: admits one request more than the limit.
LoadLimitOver(r) ==
    /\ req[r].pc = "comparing"
    /\ req' = IF req[r].cur > limit
              THEN [req EXCEPT ![r] = IdleReq]
              ELSE [req EXCEPT ![r].pc = "swapping", ![r].lim = limit]
    /\ UNCHANGED <<gate, hist, ctl, adm, served, ticks, patches, overridden>>

\* At the limit: the request is answered 429.
LoadLimit(r) ==
    /\ req[r].pc = "comparing"
    /\ req' = IF req[r].cur >= limit
              THEN [req EXCEPT ![r] = IdleReq]
              ELSE [req EXCEPT ![r].pc = "swapping", ![r].lim = limit]
    /\ UNCHANGED <<gate, hist, ctl, adm, served, ticks, patches, overridden>>

SwapActive(r) ==
    /\ req[r].pc = "swapping"
    /\ IF active = req[r].cur
       THEN /\ active' = active + 1
            /\ req' = [req EXCEPT ![r].pc = "serving", ![r].cur = 0]
       ELSE /\ UNCHANGED active
            /\ req' = [req EXCEPT ![r].pc = "loading", ![r].cur = 0, ![r].lim = 0]
    /\ UNCHANGED <<limit, enabled, config, hist, ctl, adm, served, ticks, patches, overridden>>

\* Record, after the response: pick the generation, add to its count, then
\* to the bucket.
LoadGeneration(r, s) ==
    /\ req[r].pc = "serving"
    /\ req' = [req EXCEPT ![r].pc = "counting", ![r].gen = current, ![r].speed = s]
    /\ UNCHANGED <<gate, hist, ctl, adm, served, ticks, patches, overridden>>

AddCount(r) ==
    /\ req[r].pc = "counting"
    /\ count' = [count EXCEPT ![req[r].gen] = @ + 1]
    /\ req' = [req EXCEPT ![r].pc = "filing"]
    /\ UNCHANGED <<gate, bucket, current, ctl, adm, served, ticks, patches, overridden>>

AddBucket(r) ==
    /\ req[r].pc = "filing"
    /\ bucket' = [bucket EXCEPT ![req[r].gen][req[r].speed] = @ + 1]
    /\ req' = [req EXCEPT ![r].pc = "leaving", ![r].gen = 0, ![r].speed = "fast"]
    /\ UNCHANGED <<gate, count, current, ctl, adm, served, ticks, patches, overridden>>

\* The deferred Release, registered only when TryAcquire succeeded.
Leave(r) ==
    /\ req[r].pc = "leaving"
    /\ active' = IF r \in Holders THEN active - 1 ELSE active
    /\ req' = [req EXCEPT ![r] = IdleReq]
    /\ UNCHANGED <<limit, enabled, config, hist, ctl, adm, served, ticks, patches, overridden>>

-----------------------------------------------------------------------------
(* The controller.                                                         *)

\* A tick: load the configuration, then the state of the gate.
Tick ==
    /\ ctl.pc = "waiting"
    /\ ticks < MaxTicks
    /\ ticks' = ticks + 1
    /\ ctl' = [ctl EXCEPT !.pc = "tick", !.fixed = config.fixed]
    /\ UNCHANGED <<gate, hist, req, adm, served, patches, overridden>>

LoadEnabled ==
    /\ ctl.pc = "tick"
    /\ ctl' = [ctl EXCEPT !.pc = "reset", !.on = enabled]
    /\ UNCHANGED <<gate, hist, req, adm, served, ticks, patches, overridden>>

Frozen == 1 - current

\* Rotate: zero the buckets and the count of the next generation, one store
\* each, then expose it.
ResetBucket(s) ==
    /\ ctl.pc = IF s = "fast" THEN "reset" ELSE "reset slow"
    /\ bucket' = [bucket EXCEPT ![1 - current][s] = 0]
    /\ ctl' = [ctl EXCEPT !.pc = IF s = "fast" THEN "reset slow" ELSE "reset count"]
    /\ UNCHANGED <<gate, count, current, req, adm, served, ticks, patches, overridden>>

ResetCount ==
    /\ ctl.pc = "reset count"
    /\ count' = [count EXCEPT ![1 - current] = 0]
    /\ ctl' = [ctl EXCEPT !.pc = "expose"]
    /\ UNCHANGED <<gate, bucket, current, req, adm, served, ticks, patches, overridden>>

\* Back to the ticker, with nothing left in the locals but the cooldown.
Waiting(cooldown) ==
    [pc |-> "waiting", fixed |-> FALSE, on |-> FALSE,
     cooldown |-> cooldown, total |-> 0, slow |-> FALSE, cur |-> 0,
     next |-> 0, evidence |-> FALSE]

\* The generation is frozen; a disabled gate or a fixed limit ends the tick.
\* The cooldown of an active tick goes down before the samples are counted.
Expose ==
    /\ ctl.pc = "expose"
    /\ current' = 1 - current
    /\ ctl' = IF ~ctl.on THEN Waiting(0)
              ELSE IF ctl.fixed THEN Waiting(ctl.cooldown)
              ELSE [ctl EXCEPT !.pc = "samples",
                               !.cooldown = IF @ > 0 THEN @ - 1 ELSE 0]
    /\ UNCHANGED <<gate, count, bucket, req, adm, served, ticks, patches, overridden>>

LoadSamples ==
    /\ ctl.pc = "samples"
    /\ ctl' = IF count[Frozen] < MinSamples THEN Waiting(ctl.cooldown)
              ELSE [ctl EXCEPT !.pc = "total"]
    /\ UNCHANGED <<gate, hist, req, adm, served, ticks, patches, overridden>>

\* p99Ms: the count, then the buckets in order until the threshold.  A slow
\* sample, or one on its way between count and bucket, is the evidence there
\* can be for a slow p99.
LoadTotal ==
    /\ ctl.pc = "total"
    /\ ctl' = [ctl EXCEPT !.pc = "fast", !.total = count[Frozen],
                 !.evidence = \/ bucket[Frozen]["slow"] > 0
                              \/ \E r \in Requests : req[r].pc = "filing" /\ req[r].gen = Frozen]
    /\ UNCHANGED <<gate, hist, req, adm, served, ticks, patches, overridden>>

\* Faulty variant: the threshold must be passed, not reached.
LoadFastStrict ==
    /\ ctl.pc = "fast"
    /\ ctl' = [ctl EXCEPT !.pc = "limit", !.slow = bucket[Frozen]["fast"] <= ctl.total]
    /\ UNCHANGED <<gate, hist, req, adm, served, ticks, patches, overridden>>

\* The fast buckets reach the threshold, or the result is above the target:
\* a slow bucket's bound or, when the buckets run out first, 9999.
LoadFast ==
    /\ ctl.pc = "fast"
    /\ ctl' = [ctl EXCEPT !.pc = "limit", !.slow = bucket[Frozen]["fast"] < ctl.total]
    /\ UNCHANGED <<gate, hist, req, adm, served, ticks, patches, overridden>>

ReadLimit ==
    /\ ctl.pc = "limit"
    /\ ctl' = [ctl EXCEPT !.pc = "active", !.cur = limit]
    /\ UNCHANGED <<gate, hist, req, adm, served, ticks, patches, overridden>>

Larger(x, y) == IF x >= y THEN x ELSE y
Smaller(x, y) == IF x <= y THEN x ELSE y

CutTo(cur, busy) == Larger(Larger((cur * CutPercent) \div 100, MinLimit), busy)
GrowTo(cur) == Smaller(cur + AddStep, MaxLimit)

\* The AIMD decision, from the limit read before and the active count now.
Decide ==
    /\ ctl.pc = "active"
    /\ \/ /\ ctl.slow /\ 10 * active > 6 * ctl.cur /\ ctl.cooldown = 0
          /\ ctl' = [ctl EXCEPT !.pc = "cut", !.next = CutTo(ctl.cur, active)]
       \/ /\ ~ctl.slow /\ 10 * active > 8 * ctl.cur
          /\ ctl' = [ctl EXCEPT !.pc = "grow", !.next = GrowTo(ctl.cur)]
       \/ /\ ~(ctl.slow /\ 10 * active > 6 * ctl.cur /\ ctl.cooldown = 0)
          /\ ~(~ctl.slow /\ 10 * active > 8 * ctl.cur)
          /\ ctl' = Waiting(ctl.cooldown)
    /\ UNCHANGED <<gate, hist, req, adm, served, ticks, patches, overridden>>

StoreLimit ==
    /\ ctl.pc \in {"cut", "grow"}
    /\ limit' = ctl.next
    /\ ctl' = Waiting(IF ctl.pc = "cut" THEN CooldownTicks ELSE ctl.cooldown)
    /\ UNCHANGED <<active, enabled, config, hist, req, adm, served, ticks, patches, overridden>>

-----------------------------------------------------------------------------
(* The admin endpoint: PATCH of one field, or a new limit.                 *)

\* PATCH loads the configuration.
LoadConfig(a, f, x) ==
    /\ adm[a].pc = "idle"
    /\ patches < MaxPatches
    /\ patches' = patches + 1
    /\ adm' = [adm EXCEPT ![a] =
                 [pc |-> "config", field |-> f, to |-> x,
                  cfg |-> IF f = "limit" THEN config ELSE [config EXCEPT ![f] = (x = 1)]]]
    /\ UNCHANGED <<gate, hist, req, ctl, served, ticks, overridden>>

StoreConfig(a) ==
    /\ adm[a].pc = "config"
    /\ config' = adm[a].cfg
    /\ adm' = [adm EXCEPT ![a].pc = "flag"]
    /\ UNCHANGED <<active, limit, enabled, hist, req, ctl, served, ticks, patches, overridden>>

StoreFlag(a) ==
    /\ adm[a].pc = "flag"
    /\ enabled' = adm[a].cfg.enabled
    /\ adm' = [adm EXCEPT ![a] = IF @.field = "limit" THEN [@ EXCEPT !.pc = "limit"] ELSE IdleAdm]
    /\ UNCHANGED <<active, limit, config, hist, req, ctl, served, ticks, patches, overridden>>

SetLimit(a) ==
    /\ adm[a].pc = "limit"
    /\ limit' = adm[a].to
    /\ overridden' = TRUE
    /\ adm' = [adm EXCEPT ![a] = IdleAdm]
    /\ UNCHANGED <<active, enabled, config, hist, req, ctl, served, ticks, patches>>

\* POST ?limit=N.
Post(x) ==
    /\ patches < MaxPatches
    /\ patches' = patches + 1
    /\ limit' = x
    /\ overridden' = TRUE
    /\ UNCHANGED <<active, enabled, config, hist, req, ctl, adm, served, ticks>>

-----------------------------------------------------------------------------
\* StartController: with the feature enabled in the configuration, the limit
\* is set and the controller runs; otherwise the gate is open and nothing
\* sets a limit.
Init ==
    /\ active = 0
    /\ enabled \in BOOLEAN
    /\ limit = IF enabled THEN InitialLimit ELSE 0
    /\ config = [enabled |-> enabled, fixed |-> FALSE]
    /\ count = [g \in Gens |-> 0]
    /\ bucket = [g \in Gens |-> [s \in Speeds |-> 0]]
    /\ current = 0
    /\ req = [r \in Requests |-> IdleReq]
    /\ ctl = IF enabled THEN Waiting(0) ELSE [Waiting(0) EXCEPT !.pc = "never"]
    /\ adm = [a \in Admins |-> IdleAdm]
    /\ served = 0
    /\ ticks = 0
    /\ patches = 0
    /\ overridden = FALSE

Next ==
    \/ \E r \in Requests :
          \/ CheckGate(r) \/ LoadActive(r) \/ LoadLimit(r) \/ SwapActive(r)
          \/ \E s \in Speeds : LoadGeneration(r, s)
          \/ AddCount(r) \/ AddBucket(r) \/ Leave(r)
    \/ Tick \/ LoadEnabled \/ ResetCount \/ Expose \/ LoadSamples \/ LoadTotal \/ LoadFast
    \/ ReadLimit \/ Decide \/ StoreLimit
    \/ \E s \in Speeds : ResetBucket(s)
    \/ \E a \in Admins :
          \/ \E f \in {"enabled", "fixed"}, x \in {0, 1} : LoadConfig(a, f, x)
          \/ \E x \in Overrides : LoadConfig(a, "limit", x)
          \/ StoreConfig(a) \/ StoreFlag(a) \/ SetLimit(a)
    \/ \E x \in Overrides : Post(x)

Spec == Init /\ [][Next]_vars

-----------------------------------------------------------------------------
(* Properties.                                                             *)

TypeOK ==
    /\ active \in 0 .. Cardinality(Requests)
    /\ limit \in Nat
    /\ enabled \in BOOLEAN
    /\ config \in [enabled : BOOLEAN, fixed : BOOLEAN]
    /\ count \in [Gens -> Nat]
    /\ bucket \in [Gens -> [Speeds -> Nat]]
    /\ current \in Gens
    /\ req \in [Requests -> [pc : {"idle", "loading", "comparing", "swapping", "serving",
                                   "counting", "filing", "leaving"},
                             cur : Nat, lim : Nat, gen : Gens, speed : Speeds]]
    /\ ctl.cooldown \in 0 .. CooldownTicks
    /\ {a \in Admins : adm[a].pc \notin {"idle", "config", "flag", "limit"}} = {}
    /\ served \in 0 .. MaxServed /\ ticks \in 0 .. MaxTicks /\ patches \in 0 .. MaxPatches
    /\ overridden \in BOOLEAN

\* The semaphore counts the requests that hold it, however the gate is turned
\* on and off while they run (TryAcquire, the deferred Release, PATCH).
ActiveIsHolders == active = Cardinality(Holders)

\* Requests are never admitted beyond a limit in force: among any requests in
\* flight together one was admitted when the limit was at least their number,
\* so only a later cut or override can leave more of them than the limit.
AdmittedWithinLimit ==
    \A S \in SUBSET Holders : S # {} => \E r \in S : Cardinality(S) <= req[r].lim

\* The controller keeps the limit between MinLimit and MaxLimit as long as
\* nobody overrides it, although it raises a cut to an active count that moves
\* while it decides.
LimitInBounds == ctl.pc # "never" /\ ~overridden => limit \in MinLimit .. MaxLimit

\* The controller cuts the limit only on a slow sample, or on one whose count
\* has been added and whose bucket has not ("Cut when p99 > target").
CutHasEvidence == ctl.pc = "cut" => ctl.evidence
=============================================================================
