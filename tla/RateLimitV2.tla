---------------------------- MODULE RateLimitV2 -----------------------------
(***************************************************************************)
(* The multi-window rate limit step in approximate mode                    *)
(* (engine/steps/rate_limit_v2.go) over the lock-free counter arenas       *)
(* (engine/counter_arena.go).  A request takes one snapshot of the         *)
(* registry and of the clock, then, window by window, loads the packed     *)
(* [epoch | count] word of its counter and replaces it by compare-and-swap.*)
(***************************************************************************)
EXTENDS Naturals, Integers, Sequences

CONSTANTS
    Requests,     \* concurrent requests
    Keys,         \* counter keys: tenants, or the keys of a slot arena
    Windows,      \* a sequence of [div |-> seconds, limit |-> base limit]
    Allocated,    \* windows the arena got when the configuration was first registered
    TenantKey,    \* the key of the tenant's own counter
    EmptyKey,     \* no key could be derived from the request
    OnEmpty,      \* "fail", "skip" or "fallback_tenant"
    Deltas,       \* request weights, as uint32
    Registries,   \* registry snapshots: [tenant, config, tenantScale, configScale, limits]
    Nodes,        \* live gateway instances the limit is divided by
    Word,         \* 2^32
    Straddle,     \* may a request be in progress when a window ends?
    MaxNow        \* bound on the clock

RateLimitAssumption ==
    /\ Len(Windows) \in Nat \ {0}
    /\ \A i \in 1..Len(Windows) : Windows[i].div \in Nat \ {0} /\ Windows[i].limit \in 0..Word - 1
    /\ Allocated \in Nat /\ TenantKey \in Keys /\ EmptyKey \notin Keys
    /\ OnEmpty \in {"fail", "skip", "fallback_tenant"}
    /\ Word \in Nat \ {0} /\ Deltas \subseteq 0..Word - 1 /\ Nodes \in Nat
    /\ Straddle \in BOOLEAN /\ MaxNow \in Nat

VARIABLES
    now,
    reg,      \* registry.State.Active
    slot,     \* the arena: [epoch, count] per key and window
    req,      \* the requests in progress
    used,     \* history: weight admitted per key, window and epoch
    top       \* history: largest limit applied per key, window and epoch

vars == <<now, reg, slot, req, used, top>>

Win == 1..Len(Windows)
EpochOf(t, i) == t \div Windows[i].div
Epochs == 0..MaxNow

-----------------------------------------------------------------------------
(* The effective limit of a window. *)

(* applyMultiplier: scaled in percent, clamped to 1..2^32-1. *)
applyMultiplier(limit, mult) ==
    IF mult = 0 \/ mult = 100 THEN limit
    ELSE LET v == (limit * mult) \div 100 IN
         IF v < 1 THEN 1 ELSE IF v > Word - 1 THEN Word - 1 ELSE v

(* A configuration's own scale takes priority over the tenant's. *)
Multiplier(r) ==
    LET pct == IF r.config # "none" /\ r.configScale # 0 THEN r.configScale ELSE r.tenantScale
    IN IF pct = 0 THEN 100 ELSE IF 100 + pct > 0 THEN 100 + pct ELSE 1

DivideByNodes(limit) ==
    IF Nodes <= 1 THEN limit ELSE IF limit > Nodes THEN limit \div Nodes ELSE 1

EffectiveLimit(r, i) ==
    DivideByNodes(IF r.config # "none" /\ r.limits[i] # 0
                    THEN r.limits[i]
                    ELSE applyMultiplier(Windows[i].limit, Multiplier(r)))

-----------------------------------------------------------------------------
(* One round of counterEpochCASBy on the word old. *)

Weight(d) == IF d = 0 THEN 1 ELSE d
Counted(old, epoch) == IF old.epoch = epoch THEN old.count ELSE 0
NewCount(old, epoch, d) == (Counted(old, epoch) + Weight(d)) % Word

(* Faulty variant: reaching the limit already denies. *)
DeniesAtLimit(old, epoch, limit, d) == limit = 0 \/ NewCount(old, epoch, d) >= limit

(* The request is refused without touching the counter. *)
Denies(old, epoch, limit, d) == limit = 0 \/ NewCount(old, epoch, d) > limit

-----------------------------------------------------------------------------
Free == [pc |-> "free"]

Init ==
    /\ now = 0
    /\ reg \in Registries
    /\ slot = [k \in Keys |-> [i \in Win |-> [epoch |-> 0, count |-> 0]]]
    /\ req = [p \in Requests |-> Free]
    /\ used = [k \in Keys |-> [i \in Win |-> [e \in Epochs |-> 0]]]
    /\ top = [k \in Keys |-> [i \in Win |-> [e \in Epochs |-> 0]]]

(* resolveKey and handleEmpty: an empty key denies the request or falls    *)
(* back to the tenant's counter, for "skip" as well.                       *)
resolveKey(k) == IF k = EmptyKey /\ OnEmpty # "fail" THEN TenantKey ELSE k

Settled(v, k) == [pc |-> "done", verdict |-> v, key |-> k]

(* CheckRateLimitV2.Execute: the tenant's and the configuration's flags    *)
(* settle the request, a request of another quota group passes and one     *)
(* without a key is denied; otherwise its windows are checked in order.    *)
Begin(p, k, d, inGroup) ==
    /\ req[p].pc = "free"
    /\ req' = [req EXCEPT ![p] =
         CASE reg.tenant = "blocked" -> Settled("blocked", k)
           [] reg.tenant = "unlimited" -> Settled("allowed", k)
           [] reg.tenant = "none" /\ reg.config = "blocked" -> Settled("blocked", k)
           [] reg.tenant = "none" /\ reg.config = "unlimited" -> Settled("allowed", k)
           [] OTHER ->
                IF ~inGroup THEN Settled("allowed", k)
                ELSE IF resolveKey(k) = EmptyKey THEN Settled("denied", k)
                ELSE [pc |-> "load", arg |-> k, key |-> resolveKey(k), delta |-> d, r |-> reg,
                      t |-> now, win |-> 1]]
    /\ UNCHANGED <<now, reg, slot, used, top>>

Larger(a, b) == IF a > b THEN a ELSE b

(* A window is passed: the next one follows; after the last the request is *)
(* allowed.  The histories record what was admitted.                       *)
Admit(p) ==
    LET q == req[p]
        epoch == EpochOf(q.t, q.win)
    IN /\ used' = [used EXCEPT ![q.key][q.win][epoch] = @ + Weight(q.delta)]
       /\ top' = [top EXCEPT ![q.key][q.win][epoch] = Larger(@, EffectiveLimit(q.r, q.win))]
       /\ req' = [req EXCEPT ![p] =
            IF q.win = Len(Windows)
              THEN Settled("allowed", q.arg)
              ELSE [pc |-> "load", arg |-> q.arg, key |-> q.key, delta |-> q.delta, r |-> q.r,
                    t |-> q.t, win |-> q.win + 1]]

(* The word is loaded; a window that has no room denies at once, and one   *)
(* the arena has no counter for admits everything.                         *)
Load(p) ==
    LET q == req[p]
        old == slot[q.key][q.win]
        limit == EffectiveLimit(q.r, q.win)
    IN /\ q.pc = "load"
       /\ IF limit > 0 /\ q.win > Allocated
            THEN Admit(p)
            ELSE /\ req' = [req EXCEPT ![p] =
                      IF Denies(old, EpochOf(q.t, q.win), limit, q.delta)
                        THEN Settled("denied", q.arg)
                        ELSE [pc |-> "cas", arg |-> q.arg, key |-> q.key, delta |-> q.delta, r |-> q.r,
                              t |-> q.t, win |-> q.win, old |-> old]]
                 /\ UNCHANGED <<used, top>>
       /\ UNCHANGED <<now, reg, slot>>

Store(p) ==
    LET q == req[p]
        epoch == EpochOf(q.t, q.win)
    IN slot' = [slot EXCEPT ![q.key][q.win] = [epoch |-> epoch, count |-> NewCount(q.old, epoch, q.delta)]]

(* Faulty variant: the word is stored, whatever it has become. *)
BlindStore(p) ==
    /\ req[p].pc = "cas"
    /\ Store(p) /\ Admit(p)
    /\ UNCHANGED <<now, reg>>

(* The compare-and-swap: when the word has changed it is loaded again. *)
CompareAndSwap(p) ==
    LET q == req[p] IN
    /\ q.pc = "cas"
    /\ IF slot[q.key][q.win] = q.old
         THEN Store(p) /\ Admit(p)
         ELSE /\ req' = [req EXCEPT ![p] = [pc |-> "load", arg |-> q.arg, key |-> q.key, delta |-> q.delta,
                                            r |-> q.r, t |-> q.t, win |-> q.win]]
              /\ UNCHANGED <<slot, used, top>>
    /\ UNCHANGED <<now, reg>>

Finish(p) ==
    /\ req[p].pc = "done"
    /\ req' = [req EXCEPT ![p] = Free]
    /\ UNCHANGED <<now, reg, slot, used, top>>

(* A management call installs a new registry snapshot. *)
Install == reg' \in Registries /\ UNCHANGED <<now, slot, req, used, top>>

InProgress(p) == req[p].pc \in {"load", "cas"}

Tick ==
    /\ now < MaxNow
    /\ \/ Straddle
       \/ \A p \in Requests : InProgress(p) =>
            \A i \in Win : EpochOf(now + 1, i) = EpochOf(req[p].t, i)
    /\ now' = now + 1
    /\ UNCHANGED <<reg, slot, req, used, top>>

Next ==
    \/ \E p \in Requests :
         \/ Load(p) \/ CompareAndSwap(p) \/ Finish(p)
         \/ \E k \in Keys \cup {EmptyKey}, d \in Deltas, g \in BOOLEAN : Begin(p, k, d, g)
    \/ Install \/ Tick

Spec == Init /\ [][Next]_vars

-----------------------------------------------------------------------------
(* Properties. *)

(* The weight admitted for a key in one window never exceeds the largest   *)
(* limit in force for it, whatever the interleaving of loads and swaps,    *)
(* provided no request outlives the window it began in.                    *)
WithinLimit == \A k \in Keys, i \in Win, e \in Epochs : used[k][i][e] <= top[k][i][e]

(* A denial in this step is by a window that has no room for the request.  *)
DenialIsFull ==
    \A p \in Requests :
       req[p].pc = "load" /\ req'[p].pc = "done" =>
         LET q == req[p] IN
         used[q.key][q.win][EpochOf(q.t, q.win)] + Weight(q.delta) > EffectiveLimit(q.r, q.win)
=============================================================================
