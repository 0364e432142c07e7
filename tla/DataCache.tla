----------------------------- MODULE DataCache ------------------------------
(***************************************************************************)
(* Named in-memory collections (internal/datacache): the manager's Create, *)
(* Drop and growth (manager.go), the pool of arena slots (pool.go), the    *)
(* quotas of tenants (quota.go) and the sweep of expired slots (ttl.go).   *)
(* Every call works on three structures in turn, the quota, the pool and   *)
(* the name map, with no lock around them: each is a step of its own.      *)
(*                                                                         *)
(* A collection of one unit of capacity takes one unit of bytes; growing   *)
(* doubles it.  A slot with a TTL may expire at any time.                  *)
(***************************************************************************)
EXTENDS Integers, Sequences, FiniteSets, SequencesExt, FiniteSetsExt

CONSTANTS
    Callers, Names, Tenants,
    NumSlots,       \* slots of the pool
    MaxBytes,       \* quota of a tenant, bytes
    MaxSlots,       \* quota of a tenant, slots
    MaxCap,         \* capacity a collection may grow to
    MaxCalls        \* bound: calls made

DataCacheAssumption ==
    /\ NumSlots \in Nat \ {0} /\ MaxBytes \in Nat /\ MaxSlots \in Nat
    /\ MaxCap \in Nat /\ MaxCalls \in Nat

VARIABLES
    free,           \* the pool's channel of free slots
    slot,           \* per slot: in use, owner, name, bytes of its arena, TTL state
    used,           \* per tenant: bytes and slots
    named,          \* the name map: slot, bytes and owner, or None
    call,           \* per caller: the call under way
    sweep,          \* the TTL cleaner
    calls,
    clash           \* history: a call or sweep met another on the same collection

vars == <<free, slot, used, named, call, sweep, calls, clash>>

SlotIds == 1..NumSlots
None == [slot |-> 0]
Vacant == [inUse |-> FALSE, owner |-> "none", name |-> "none", bytes |-> 0, ttl |-> "none"]
Idle == [pc |-> "idle"]

Init ==
    /\ free = [i \in SlotIds |-> i]
    /\ slot = [s \in SlotIds |-> Vacant]
    /\ used = [t \in Tenants |-> [bytes |-> 0, slots |-> 0]]
    /\ named = [n \in Names |-> None]
    /\ call = [c \in Callers |-> Idle] /\ sweep = Idle
    /\ calls = 0 /\ clash = FALSE

Step(c, pc) == call' = [call EXCEPT ![c].pc = pc]
Return(c) == call' = [call EXCEPT ![c] = Idle]

(* Name n is in the hands of someone else. *)
Busy(n) ==
    \/ \E c \in Callers : call[c].pc # "idle" /\ call[c].name = n
    \/ sweep.pc # "idle" /\ sweep.name = n

Begin(c, n) ==
    /\ call[c].pc = "idle" /\ calls < MaxCalls
    /\ calls' = calls + 1
    /\ clash' = (clash \/ Busy(n))

-----------------------------------------------------------------------------
(* QuotaRegistry: the counters go up first and down again if that was too  *)
(* much.                                                                   *)
Add(t, bytes, slots) ==
    used' = [used EXCEPT ![t] = [bytes |-> @.bytes + bytes, slots |-> @.slots + slots]]

OverBytes(t, bytes) == used[t].bytes + bytes > MaxBytes
OverSlots(t, slots) == used[t].slots + slots > MaxSlots

(* Reserve: the bytes and, at the next step, the slots. *)
ReserveBytes(c) ==
    /\ call[c].pc = "reserve"
    /\ Add(call[c].tenant, call[c].bytes, 0)
    /\ Step(c, IF OverBytes(call[c].tenant, call[c].bytes) THEN "undoBytes" ELSE "slots")
    /\ UNCHANGED <<free, slot, named, sweep, calls, clash>>

ReserveSlots(c) ==
    /\ call[c].pc = "slots"
    /\ Add(call[c].tenant, 0, call[c].slots)
    /\ Step(c, IF OverSlots(call[c].tenant, call[c].slots) THEN "undoAll" ELSE call[c].next)
    /\ UNCHANGED <<free, slot, named, sweep, calls, clash>>

(* The roll-back of Reserve, and Create's when the pool is exhausted. *)
Undo(c) ==
    /\ \/ call[c].pc = "undoBytes" /\ Add(call[c].tenant, -call[c].bytes, 0)
       \/ call[c].pc = "undoAll" /\ Add(call[c].tenant, -call[c].bytes, -call[c].slots)
    /\ Return(c)
    /\ UNCHANGED <<free, slot, named, sweep, calls, clash>>

-----------------------------------------------------------------------------
(* ArenaPool.Release: the slot is emptied and sent to the free channel. *)
Release(s) ==
    /\ slot' = [slot EXCEPT ![s] = Vacant]
    /\ free' = IF Len(free) < NumSlots THEN Append(free, s) ELSE free

(* Create. *)
StartCreate(c, n, t) ==
    /\ Begin(c, n)
    /\ call' = [call EXCEPT ![c] =
         IF named[n] # None THEN Idle   \* ErrCollectionExists
         ELSE [pc |-> "reserve", name |-> n, tenant |-> t, bytes |-> 1, slots |-> 1, next |-> "claim", at |-> 0]]
    /\ UNCHANGED <<free, slot, used, named, sweep>>

Claim(c) ==
    /\ call[c].pc = "claim"
    /\ IF free = <<>>
         THEN Step(c, "undoAll") /\ UNCHANGED <<free, slot>>
         ELSE /\ free' = Tail(free)
              /\ slot' = [slot EXCEPT ![Head(free)].inUse = TRUE]
              /\ call' = [call EXCEPT ![c] = [@ EXCEPT !.pc = "fill", !.at = Head(free)]]
    /\ UNCHANGED <<used, named, sweep, calls, clash>>

(* InitSlot, the owner, the TTL if there is one, the name. *)
Fill(c, ttl) ==
    /\ call[c].pc = "fill"
    /\ slot' = [slot EXCEPT ![call[c].at] =
                  [inUse |-> TRUE, owner |-> call[c].tenant, name |-> call[c].name, bytes |-> 1, ttl |-> ttl]]
    /\ Step(c, "publish")
    /\ UNCHANGED <<free, used, named, sweep, calls, clash>>

Publish(c) ==
    /\ call[c].pc = "publish"
    /\ named' = [named EXCEPT ![call[c].name] =
                   [slot |-> call[c].at, bytes |-> 1, owner |-> call[c].tenant]]
    /\ Return(c)
    /\ UNCHANGED <<free, slot, used, sweep, calls, clash>>

(* Drop, one at a time (dropMu). *)
StartDrop(c, n, t) ==
    /\ \A x \in Callers : call[x].pc \notin {"putBack", "release", "refund"}
    /\ Begin(c, n)
    /\ IF named[n] = None
         THEN UNCHANGED <<call, named>>
         ELSE /\ named' = [named EXCEPT ![n] = None]
              /\ call' = [call EXCEPT ![c] =
                   [pc |-> IF named[n].owner = t THEN "release" ELSE "putBack",
                    name |-> n, tenant |-> t, meta |-> named[n]]]
    /\ UNCHANGED <<free, slot, used, sweep>>

(* Somebody else's collection goes back into the map. *)
PutBack(c) ==
    /\ call[c].pc = "putBack"
    /\ named' = [named EXCEPT ![call[c].name] = call[c].meta]
    /\ Return(c)
    /\ UNCHANGED <<free, slot, used, sweep, calls, clash>>

DropSlot(c) ==
    /\ call[c].pc = "release"
    /\ Release(call[c].meta.slot)
    /\ Step(c, "refund")
    /\ UNCHANGED <<used, named, sweep, calls, clash>>

Refund(c) ==
    /\ call[c].pc = "refund"
    /\ Add(call[c].tenant, -call[c].meta.bytes, -1)
    /\ Return(c)
    /\ UNCHANGED <<free, slot, named, sweep, calls, clash>>

(* An append to a full collection makes it grow: the additional bytes are  *)
(* reserved, the arena is replaced, the metadata published.                *)
StartGrow(c, n) ==
    LET m == named[n]
        old == slot[m.slot].bytes
        cap == Min({2 * old, MaxCap})
    IN
    /\ m # None
    /\ cap > old
    /\ Begin(c, n)
    /\ call' = [call EXCEPT ![c] =
         [pc |-> "reserve", name |-> n, tenant |-> m.owner, bytes |-> cap - m.bytes, slots |-> 0,
          next |-> "swap", meta |-> [m EXCEPT !.bytes = cap]]]
    /\ UNCHANGED <<free, slot, used, named, sweep>>

Swap(c) ==
    /\ call[c].pc = "swap"
    /\ slot' = [slot EXCEPT ![call[c].meta.slot].bytes = call[c].meta.bytes]
    /\ named' = [named EXCEPT ![call[c].name] = call[c].meta]
    /\ Return(c)
    /\ UNCHANGED <<free, used, sweep, calls, clash>>

-----------------------------------------------------------------------------
(* sweepSlots, for one slot. *)

Expire(s) ==
    /\ slot[s].ttl = "set"
    /\ slot' = [slot EXCEPT ![s].ttl = "past"]
    /\ UNCHANGED <<free, used, named, call, sweep, calls, clash>>

Inspect(s) ==
    /\ sweep.pc = "idle" /\ slot[s].inUse /\ slot[s].ttl = "past"
    /\ sweep' = [pc |-> "refund", slot |-> s, owner |-> slot[s].owner, bytes |-> slot[s].bytes,
                 name |-> slot[s].name]
    /\ clash' = (clash \/ Busy(slot[s].name))
    /\ UNCHANGED <<free, slot, used, named, call, calls>>

SweepRefund ==
    /\ sweep.pc = "refund"
    /\ IF sweep.owner \in Tenants THEN Add(sweep.owner, -sweep.bytes, -1) ELSE UNCHANGED used
    /\ sweep' = [sweep EXCEPT !.pc = "forget"]
    /\ UNCHANGED <<free, slot, named, call, calls, clash>>

(* Faulty variant: the name stays in the map. *)
SweepForgetNothing ==
    /\ sweep.pc = "forget"
    /\ sweep' = [sweep EXCEPT !.pc = "release"]
    /\ UNCHANGED <<free, slot, used, named, call, calls, clash>>

SweepForget ==
    /\ sweep.pc = "forget"
    /\ named' = IF slot[sweep.slot].name \in Names
                  THEN [named EXCEPT ![slot[sweep.slot].name] = None] ELSE named
    /\ sweep' = [sweep EXCEPT !.pc = "release"]
    /\ UNCHANGED <<free, slot, used, call, calls, clash>>

SweepRelease ==
    /\ sweep.pc = "release"
    /\ Release(sweep.slot)
    /\ sweep' = Idle
    /\ UNCHANGED <<used, named, call, calls, clash>>

-----------------------------------------------------------------------------
Steps(c) ==
    \/ \E n \in Names, t \in Tenants : StartCreate(c, n, t) \/ StartDrop(c, n, t)
    \/ \E n \in Names : StartGrow(c, n)
    \/ \E ttl \in {"none", "set"} : Fill(c, ttl)
    \/ ReserveBytes(c) \/ ReserveSlots(c) \/ Undo(c) \/ Claim(c) \/ Publish(c)
    \/ PutBack(c) \/ DropSlot(c) \/ Refund(c) \/ Swap(c)

Sweep == SweepRefund \/ SweepForget \/ SweepRelease \/ \E s \in SlotIds : Expire(s) \/ Inspect(s)

Next == Sweep \/ \E c \in Callers : Steps(c)

Spec == Init /\ [][Next]_vars

-----------------------------------------------------------------------------
(* Properties. *)

TypeOK ==
    /\ free \in Seq(SlotIds) /\ Len(free) <= NumSlots
    /\ \A t \in Tenants : used[t].bytes \in Int /\ used[t].slots \in Int
    /\ \A n \in Names : named[n].slot \in 0..NumSlots
    /\ calls \in 0..MaxCalls /\ clash \in BOOLEAN

(* As long as no two calls, or a call and the sweep, meet on one           *)
(* collection, no slot serves two collections or is free while it serves   *)
(* one, and none leaks: every slot is free, named, or in the hands of the  *)
(* one call that is making or dropping it.                                 *)
Handling(s) ==
    \/ \E c \in Callers : call[c].pc \in {"fill", "publish"} /\ call[c].at = s
    \/ \E c \in Callers : call[c].pc \in {"release", "putBack"} /\ call[c].meta.slot = s
    \/ sweep.pc = "release" /\ sweep.slot = s
SlotsPartitioned ==
    ~clash =>
        /\ IsInjective(free)
        /\ \A s \in SlotIds :
              Cardinality({n \in Names : named[n].slot = s})
                + (IF Contains(free, s) THEN 1 ELSE 0) + (IF Handling(s) THEN 1 ELSE 0) = 1

(* Whoever was refused, rolled back, grown or swept: when nothing is under *)
(* way and nothing clashed, a tenant's quota is exactly what its           *)
(* collections take, and within the limits.                                *)
Owned(t) == {n \in Names : named[n] # None /\ named[n].owner = t}
QuotaExact ==
    ~clash /\ sweep.pc = "idle" /\ (\A c \in Callers : call[c].pc = "idle") =>
        \A t \in Tenants :
            /\ used[t] = [bytes |-> MapThenSumSet(LAMBDA n : named[n].bytes, Owned(t)),
                          slots |-> Cardinality(Owned(t))]
            /\ used[t].bytes <= MaxBytes /\ used[t].slots <= MaxSlots
=============================================================================
