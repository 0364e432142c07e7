----------------------------- MODULE TraceChain -----------------------------
(***************************************************************************)
(* The growing chain of slabs that traces wait in before they are written  *)
(* to the store (traceWriteRing in observability/trace_write_slab.go).     *)
(* Writers claim slots of the tail slab; the one that finds it full links  *)
(* a slab from the pool behind it under a mutex.  The drain goroutine      *)
(* takes what is ready from the head on and returns a drained slab to the  *)
(* pool.                                                                   *)
(*                                                                         *)
(* A record is the number of its enqueue call.  The straggler deadline may *)
(* pass at any time.  The batch for the store is the history `out`; the    *)
(* adaptive sleep and the payload records are left out.                    *)
(***************************************************************************)
EXTENDS Integers, Sequences, FiniteSets, SequencesExt

CONSTANTS
    Writers,        \* request goroutines
    Slots,          \* traceSlabSlots
    InitialSlabs,   \* slabs allocated at the start
    MaxSlabs,       \* the pool's hard limit
    MaxRecs         \* bound: calls of enqueue

ChainAssumption ==
    /\ Slots \in Nat \ {0} /\ InitialSlabs \in 1..MaxSlabs
    /\ MaxSlabs \in Nat /\ MaxRecs \in Nat

VARIABLES
    head, tail,     \* the drain's slab and the writers'
    next,           \* per slab: its successor, 0 for none
    cursor, sealed, \* per slab
    slot,           \* per slab and index: the record pointer and the ready flag
    free, alloc,    \* the pool: its free list and how many slabs there are
    w,              \* per writer
    d,              \* the drain goroutine
    out,            \* history: records handed to the batch
    dropped,        \* the drop counter
    recs,           \* calls of enqueue so far
    lost,           \* history: records refused, or given up by the drain
    overtaken       \* history: a slab was recycled under a writer, or unvisited

slabs == <<next, cursor, sealed, slot>>
pool == <<free, alloc>>
vars == <<head, tail, slabs, pool, w, d, out, dropped, recs, lost, overtaken>>

Slabs == 1..MaxSlabs
Indices == 0..(Slots - 1)
Empty == [rec |-> 0, ready |-> FALSE]
Resting == [pc |-> "idle"]

Init ==
    /\ head = InitialSlabs /\ tail = InitialSlabs
    /\ next = [s \in Slabs |-> 0]
    /\ cursor = [s \in Slabs |-> 0] /\ sealed = [s \in Slabs |-> FALSE]
    /\ slot = [s \in Slabs |-> [i \in Indices |-> Empty]]
    /\ free = [i \in 1..(InitialSlabs - 1) |-> i] /\ alloc = InitialSlabs
    /\ w = [p \in Writers |-> Resting] /\ d = Resting
    /\ out = <<>> /\ dropped = 0 /\ recs = 0 /\ lost = {} /\ overtaken = FALSE

-----------------------------------------------------------------------------
(* enqueue. *)

Enter(p) ==
    /\ w[p].pc = "idle" /\ recs < MaxRecs
    /\ recs' = recs + 1
    /\ w' = [w EXCEPT ![p] = [pc |-> "load", rec |-> recs + 1]]
    /\ UNCHANGED <<head, tail, slabs, pool, d, out, dropped, lost, overtaken>>

LoadTail(p) ==
    /\ w[p].pc = "load"
    /\ w' = [w EXCEPT ![p] = [pc |-> "claim", rec |-> w[p].rec, slab |-> tail]]
    /\ UNCHANGED <<head, tail, slabs, pool, d, out, dropped, recs, lost, overtaken>>

Claim(p) ==
    LET s == w[p].slab IN
    /\ w[p].pc = "claim"
    /\ cursor' = [cursor EXCEPT ![s] = @ + 1]
    /\ w' = [w EXCEPT ![p] = IF cursor[s] < Slots
                               THEN [pc |-> "store", rec |-> w[p].rec, slab |-> s, idx |-> cursor[s]]
                               ELSE [pc |-> "advance", rec |-> w[p].rec, slab |-> s]]
    /\ UNCHANGED <<head, tail, next, sealed, slot, pool, d, out, dropped, recs, lost, overtaken>>

Store(p) ==
    /\ \/ /\ w[p].pc = "store"
          /\ slot' = [slot EXCEPT ![w[p].slab][w[p].idx].rec = w[p].rec]
          /\ w' = [w EXCEPT ![p].pc = "ready"]
       \/ /\ w[p].pc = "ready"
          /\ slot' = [slot EXCEPT ![w[p].slab][w[p].idx].ready = TRUE]
          /\ w' = [w EXCEPT ![p] = Resting]
    /\ UNCHANGED <<head, tail, next, cursor, sealed, pool, d, out, dropped, recs, lost, overtaken>>

(* pool.get, for the slab g: the last of the free list or a new one. *)
Got(g) ==
    IF free # <<>>
      THEN g = Last(free) /\ free' = Front(free) /\ UNCHANGED alloc
      ELSE alloc < MaxSlabs /\ g = alloc + 1 /\ alloc' = g /\ UNCHANGED free
Exhausted == free = <<>> /\ alloc >= MaxSlabs

(* Seal the full slab, link g behind it, make g the tail. *)
LinkBehind(p, g) ==
    /\ Got(g)
    /\ sealed' = [sealed EXCEPT ![w[p].slab] = TRUE]
    /\ next' = [next EXCEPT ![w[p].slab] = g]
    /\ tail' = g
    /\ w' = [w EXCEPT ![p] = [pc |-> "load", rec |-> w[p].rec]]
    /\ UNCHANGED <<dropped, lost>>

(* advanceTail, under the mutex; when it fails the record is dropped. *)
AdvanceTail(p) ==
    /\ w[p].pc = "advance"
    /\ \/ /\ tail # w[p].slab
          /\ w' = [w EXCEPT ![p] = [pc |-> "load", rec |-> w[p].rec]]
          /\ UNCHANGED <<sealed, next, tail, pool, dropped, lost>>
       \/ /\ tail = w[p].slab
          /\ \E g \in Slabs : LinkBehind(p, g)
       \/ /\ tail = w[p].slab /\ Exhausted
          /\ dropped' = dropped + 1 /\ lost' = lost \cup {w[p].rec}
          /\ w' = [w EXCEPT ![p] = Resting]
          /\ UNCHANGED <<sealed, next, tail, pool>>
    /\ UNCHANGED <<head, cursor, slot, d, out, recs, overtaken>>

-----------------------------------------------------------------------------
(* drainAll and drainSlab. *)

BeginSlab(s) == [pc |-> "visit", slab |-> s, i |-> 0, count |-> IF cursor[s] > Slots THEN Slots ELSE cursor[s]]

StartPass ==
    /\ d.pc = "idle"
    /\ d' = BeginSlab(head)
    /\ UNCHANGED <<head, tail, slabs, pool, w, out, dropped, recs, lost, overtaken>>

Underway(s, i) ==
    {w[p].rec : p \in {x \in Writers : w[x].pc \in {"store", "ready"} /\ w[x].slab = s /\ w[x].idx = i}}

(* Slot i, when it is ready or when the deadline has passed.  The record   *)
(* goes to the batch, its wrapper to the record pool, the slot is cleared. *)
Visit(late) ==
    LET x == slot[d.slab][d.i] IN
    /\ d.pc = "visit" /\ d.i < d.count
    /\ x.ready = ~late
    /\ out' = IF late \/ x.rec = 0 THEN out ELSE Append(out, x.rec)
    /\ slot' = IF late \/ x.rec = 0 THEN slot ELSE [slot EXCEPT ![d.slab][d.i] = Empty]
    /\ dropped' = IF late THEN dropped + 1 ELSE dropped
    /\ d' = [d EXCEPT !.i = @ + 1]
    /\ UNCHANGED <<head, tail, next, cursor, sealed, pool, w, recs, lost, overtaken>>

FullyDrained == sealed[d.slab] /\ d.count \in {0, Slots}

(* The end of a slab.  Recycling it overtakes the writers that hold it,    *)
(* and gives up the records in it or on their way into it.  The drain is   *)
(* overtaken itself when the slab filled up after it was found empty.      *)
EndSlab ==
    LET s == d.slab
        holders == {p \in Writers : w[p].pc \in {"store", "ready", "advance"} /\ w[p].slab = s}
    IN
    /\ d.pc = "visit" /\ d.i = d.count
    /\ IF FullyDrained /\ next[s] # 0
         THEN /\ head' = next[s]
              /\ slot' = [slot EXCEPT ![s] = [i \in Indices |-> IF i < cursor[s] THEN Empty ELSE @[i]]]
              /\ next' = [next EXCEPT ![s] = 0]
              /\ cursor' = [cursor EXCEPT ![s] = 0]
              /\ sealed' = [sealed EXCEPT ![s] = FALSE]
              /\ free' = Append(free, s)
              /\ lost' = lost \cup UNION {Underway(s, i) \cup ({slot[s][i].rec} \ {0}) : i \in Indices}
              /\ overtaken' = (overtaken \/ holders # {} \/ d.count = 0)
              /\ d' = BeginSlab(next[s])
         ELSE d' = Resting /\ UNCHANGED <<head, slabs, free, lost, overtaken>>
    /\ UNCHANGED <<tail, alloc, w, out, dropped, recs>>

Drain == StartPass \/ EndSlab \/ \E late \in BOOLEAN : Visit(late)
Enqueue(p) == Enter(p) \/ LoadTail(p) \/ Claim(p) \/ Store(p) \/ AdvanceTail(p)
Next == Drain \/ \E p \in Writers : Enqueue(p)

Spec == Init /\ [][Next]_vars

-----------------------------------------------------------------------------
(* Properties. *)

TypeOK ==
    /\ head \in Slabs /\ tail \in Slabs /\ next \in [Slabs -> 0..MaxSlabs] /\ alloc \in Slabs
    /\ cursor \in [Slabs -> Nat] /\ sealed \in [Slabs -> BOOLEAN] /\ free \in Seq(Slabs)
    /\ slot \in [Slabs -> [Indices -> [rec : 0..MaxRecs, ready : BOOLEAN]]]
    /\ out \in Seq(1..MaxRecs) /\ lost \subseteq 1..MaxRecs

(* The slabs from the head on. *)
Chain == LET from[n \in 0..MaxSlabs] ==
                 IF n = 0 THEN <<head>>
                 ELSE IF next[Last(from[n - 1])] = 0 THEN from[n - 1]
                      ELSE Append(from[n - 1], next[Last(from[n - 1])])
         IN  from[MaxSlabs]

(* The chain is sound unless a writer was overtaken: it leads from the     *)
(* head to the tail, no slab is in it twice or free as well, every slab is *)
(* in one of the two, and all before the tail, and only those, are sealed  *)
(* and full, so that the drain passes them.                                *)
ChainSound ==
    ~overtaken =>
        /\ Last(Chain) = tail /\ IsInjective(Chain \o free)
        /\ ToSet(Chain) \cup ToSet(free) = 1..alloc
        /\ \A s \in ToSet(Chain) : sealed[s] <=> s # tail
        /\ \A s \in 1..alloc : sealed[s] => cursor[s] >= Slots

(* A record whose enqueue returned is handed to the store once, unless a   *)
(* writer or the drain was overtaken: until then it is in a slot below the *)
(* cursor of a slab, where the slab's next pass finds it, and if it is     *)
(* given up it has been counted.                                           *)
Held(r) ==
    \E s \in 1..alloc, i \in Indices : i < cursor[s] /\ slot[s][i] = [rec |-> r, ready |-> TRUE]
TracesKept ==
    /\ IsInjective(out)
    /\ ~overtaken =>
         /\ \A r \in 1..recs \ {w[p].rec : p \in {x \in Writers : w[x].pc # "idle"}} :
               r \in lost \/ Contains(out, r) \/ Held(r)
         /\ Cardinality(lost) <= dropped

(* trace_write_slab.go:379 "droppedCount returns the total number of       *)
(* records dropped": the counter does not exceed the records that were     *)
(* refused or given up, though a slot drained already is not ready when    *)
(* the next pass comes by.                                                 *)
DroppedAreLost == dropped <= Cardinality(lost \cup UNION {Underway(s, i) : s \in Slabs, i \in Indices})
=============================================================================
