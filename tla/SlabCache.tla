----------------------------- MODULE SlabCache -----------------------------
(***************************************************************************)
(* One region of the cache manager (internal/cache/regions.go and          *)
(* cache_manager.go): a buffer of equal slots that doubles until it        *)
(* reaches maxCount and is then reused in a circle, may later be halved by *)
(* the cleaner, and is read without a lock.  The index (InlineIndex) is    *)
(* here a map from tags to pointers.  Every entry has size one.            *)
(*                                                                         *)
(* The tag a slot's header points back with keeps the low 39 bits only;    *)
(* the length of the key or its 16 filter bits, above them, are never 0,   *)
(* so the shortened tag is the tag of no key.                              *)
(***************************************************************************)
EXTENDS Integers, Sequences, FiniteSets, FiniteSetsExt

CONSTANTS
    Keys, Owner,       \* Owner[k]: the tenant of key k
    Putters, Readers,
    InitSlots, MaxSlots,
    GrowPct, ShrinkPct, \* reallocGrowThreshold, shrinkThreshold
    GenMod,            \* generations a pointer tells apart (4)
    TenantLimit,
    MaxPuts

SlabCacheAssumption ==
    /\ InitSlots \in Nat \ {0} /\ MaxSlots >= InitSlots
    /\ GenMod \in Nat \ {0} /\ TenantLimit \in Nat

Tenants == {Owner[k] : k \in Keys}
NoKey == "none"
Tag(k) == <<1, k>>
TagBits(t) == <<0, t[2]>>

Empty == [id |-> 0, key |-> NoKey, gen |-> 0]
NoPtr == [id |-> 0, off |-> 0, gen |-> 0]

VARIABLES
    bufs,      \* the buffers allocated so far; the last is current
    count, maxCount, writeSlot,
    mu,        \* holder of the region's mutex, or none
    index,     \* pointer of each tag
    cursor,    \* cleanSlots
    used,      \* bytes of each tenant
    puts,      \* entries written: their ids are 1..puts
    expired,   \* ids whose time has passed
    pc,        \* of the putters: pc, key, entry
    get,       \* of the readers: pc, key, pointer, count and buffer loaded
    cleaner,   \* idle or shrinking
    aliased,   \* history: a slot came back to a generation the index still has for another entry
    drift,     \* history: entries of each tenant TryShrink dropped, less what DeleteTenant forgave
    misled     \* history: Incr changed an entry that is not its key's

vars == <<bufs, count, maxCount, writeSlot, mu, index, cursor, used, puts, expired, pc, get, cleaner,
          aliased, drift, misled>>

region == <<bufs, count, maxCount, writeSlot>>
history == <<aliased, drift, misled>>

Size(b) == Cardinality(DOMAIN bufs[b])
Cur == Len(bufs)
Held(t, slots) == Cardinality({i \in slots : bufs[Cur][i].id # 0 /\ Owner[bufs[Cur][i].key] = t})
Buf(n) == [i \in 0 .. n - 1 |-> Empty]

Init ==
    /\ bufs = <<Buf(InitSlots)>> /\ count = InitSlots /\ maxCount = MaxSlots /\ writeSlot = 0
    /\ mu = "none" /\ cursor = 0
    /\ index = [t \in {Tag(k) : k \in Keys} |-> NoPtr]
    /\ used = [t \in Tenants |-> 0]
    /\ puts = 0 /\ expired = {}
    /\ pc = [p \in Putters |-> [pc |-> "idle", key |-> NoKey, at |-> NoPtr, old |-> Empty, orphan |-> FALSE]]
    /\ get = [r \in Readers |-> [pc |-> "idle", key |-> NoKey, ptr |-> NoPtr, cnt |-> 0, buf |-> 0, hit |-> NoKey, crossed |-> FALSE]]
    /\ cleaner = "idle"
    /\ aliased = FALSE /\ drift = [t \in Tenants |-> 0] /\ misled = FALSE

(* IsLive and TryTombstone look the shortened tag up. *)
IsLive(t, off, gen) == t \in DOMAIN index /\ index[t].id # 0 /\ index[t].off = off /\ index[t].gen = gen

-----------------------------------------------------------------------------
(* put. *)

(* Unsigned: a counter that was taken below zero is beyond every limit.    *)
WithinLimit(t) == used[t] + 1 \in 0 .. TenantLimit

StartPut(p, k) ==
    /\ pc[p].pc = "idle" /\ puts < MaxPuts /\ WithinLimit(Owner[k])
    /\ pc' = [pc EXCEPT ![p] = [@ EXCEPT !.pc = "write", !.key = k]]
    /\ UNCHANGED <<region, mu, index, cursor, used, puts, expired, get, cleaner, history>>

NeedsGrow == writeSlot >= (count * GrowPct) \div 100 /\ count < maxCount

(* Write, growing first: the buffer is stored before the count. *)
GrowBuf(p) ==
    LET n == Min({count * 2, maxCount}) IN
    /\ pc[p].pc = "write" /\ mu = "none" /\ NeedsGrow
    /\ bufs' = Append(bufs, [i \in 0 .. n - 1 |-> IF i < count THEN bufs[Cur][i] ELSE Empty])
    /\ mu' = p
    /\ pc' = [pc EXCEPT ![p].pc = "grown"]
    /\ UNCHANGED <<count, maxCount, writeSlot, index, cursor, used, puts, expired, get, cleaner, history>>

GrowCount(p) ==
    /\ pc[p].pc = "grown"
    /\ count' = Size(Cur)
    /\ pc' = [pc EXCEPT ![p].pc = "claim"]
    /\ UNCHANGED <<bufs, maxCount, writeSlot, mu, index, cursor, used, puts, expired, get, cleaner, history>>

GenOf(w) == IF count >= maxCount THEN (w \div maxCount) % GenMod ELSE 0

(* A pointer with this offset and generation is in the index or about to be, or a lookup has it, *)
(* or one is about to use the slot.                                                              *)
InUse(p, off, gen) ==
    \/ \E t \in DOMAIN index : index[t].id # 0 /\ index[t].off = off /\ index[t].gen = gen
    \/ \E q \in Putters \ {p} : pc[q].pc \in {"sub", "index"} /\ pc[q].at.off = off /\ pc[q].at.gen = gen
    \/ \E r \in Readers : /\ get[r].pc # "idle" /\ get[r].ptr.off = off
                         /\ (get[r].ptr.gen = gen \/ get[r].pc = "use")

Claim(p) ==
    LET off == IF count >= maxCount THEN writeSlot % maxCount ELSE writeSlot
        old == bufs[Cur][off]
        new == [id |-> puts + 1, key |-> pc[p].key, gen |-> GenOf(writeSlot)]
    IN
    /\ \/ pc[p].pc = "claim"
       \/ pc[p].pc = "write" /\ mu = "none" /\ ~NeedsGrow
    /\ old.id = 0 \/ ~IsLive(TagBits(Tag(old.key)), off, new.gen)
    /\ bufs' = [bufs EXCEPT ![Cur][off] = new]
    /\ writeSlot' = writeSlot + 1 /\ puts' = puts + 1
    /\ mu' = "none"
    /\ pc' = [pc EXCEPT ![p] = [@ EXCEPT !.pc = "sub", !.old = old,
                                         !.at = [id |-> puts + 1, off |-> off, gen |-> new.gen]]]
    /\ aliased' = (aliased \/ InUse(p, off, new.gen))
    /\ UNCHANGED <<count, maxCount, index, cursor, used, expired, get, cleaner, drift, misled>>

SubUsage(p) ==
    /\ pc[p].pc = "sub"
    /\ used' = IF pc[p].old.id = 0 THEN used ELSE [used EXCEPT ![Owner[pc[p].old.key]] = @ - 1]
    /\ pc' = [pc EXCEPT ![p].pc = "index", ![p].old = Empty]
    /\ UNCHANGED <<region, mu, index, cursor, puts, expired, get, cleaner, history>>

(* SetTagGetPtr; the back pointer it returns goes to the header. *)
SetIndex(p) ==
    /\ pc[p].pc = "index"
    /\ index' = [index EXCEPT ![Tag(pc[p].key)] = pc[p].at]
    /\ pc' = [pc EXCEPT ![p].pc = "add"]
    /\ UNCHANGED <<region, mu, cursor, used, puts, expired, get, cleaner, history>>

(* To the counter loaded at the start, which DeleteTenant may have dropped. *)
AddUsage(p) ==
    LET t == Owner[pc[p].key] IN
    /\ pc[p].pc = "add"
    /\ IF pc[p].orphan
         THEN drift' = [drift EXCEPT ![t] = @ - 1] /\ UNCHANGED used
         ELSE used' = [used EXCEPT ![t] = @ + 1] /\ UNCHANGED drift
    /\ pc' = [pc EXCEPT ![p] = [@ EXCEPT !.pc = "idle", !.key = NoKey, !.at = NoPtr, !.orphan = FALSE]]
    /\ UNCHANGED <<region, mu, index, cursor, puts, expired, get, cleaner, aliased, misled>>

(* Incr: what the pointer leads to is changed in place under the mutex when *)
(* it has not expired, whoever's it is; else the key is put.                *)
Incr(p, k) ==
    LET ptr == index[Tag(k)]
        e == bufs[Cur][ptr.off]
    IN
    /\ pc[p].pc = "idle" /\ mu = "none" /\ ptr.id # 0 /\ ptr.off < count
    /\ e.id # 0 /\ e.id \notin expired
    /\ misled' = (misled \/ e.key # k)
    /\ UNCHANGED <<region, mu, index, cursor, used, puts, expired, pc, get, cleaner, aliased, drift>>

(* Past the end of a buffer that has shrunk, Incr panics with the mutex.   *)
IncrPanics(p, k) ==
    /\ pc[p].pc = "idle" /\ mu = "none" /\ index[Tag(k)].id # 0 /\ index[Tag(k)].off >= count
    /\ mu' = "panicked"
    /\ UNCHANGED <<region, index, cursor, used, puts, expired, pc, get, cleaner, history>>

Invalidate(k) ==
    /\ index[Tag(k)].id # 0
    /\ index' = [index EXCEPT ![Tag(k)] = NoPtr]
    /\ UNCHANGED <<region, mu, cursor, used, puts, expired, pc, get, cleaner, history>>

DeleteTenant(t) ==
    /\ used' = [used EXCEPT ![t] = 0]
    /\ drift' = [drift EXCEPT ![t] = @ - used[t]]
    /\ pc' = [p \in Putters |-> [pc[p] EXCEPT !.orphan = @ \/ (pc[p].pc # "idle" /\ Owner[pc[p].key] = t)]]
    /\ UNCHANGED <<region, mu, index, cursor, puts, expired, get, cleaner, aliased, misled>>

-----------------------------------------------------------------------------
(* Get: the count is loaded before the buffer. *)

Lookup(r, k) ==
    /\ get[r].pc = "idle" /\ index[Tag(k)].id # 0
    /\ get' = [get EXCEPT ![r] = [@ EXCEPT !.pc = "count", !.key = k, !.ptr = index[Tag(k)],
                                           !.hit = NoKey, !.crossed = FALSE]]
    /\ UNCHANGED <<region, mu, index, cursor, used, puts, expired, pc, cleaner, history>>

LoadCount(r) ==
    /\ get[r].pc = "count"
    /\ get' = [get EXCEPT ![r].pc = "buf", ![r].cnt = count, ![r].crossed = cleaner = "shrink"]
    /\ UNCHANGED <<region, mu, index, cursor, used, puts, expired, pc, cleaner, history>>

LoadBuf(r) ==
    /\ get[r].pc = "buf"
    /\ get' = [get EXCEPT ![r].pc = "check", ![r].buf = Cur]
    /\ UNCHANGED <<region, mu, index, cursor, used, puts, expired, pc, cleaner, history>>

(* Faulty variant: the generation is not compared. *)
MatchesAny(e, ptr) == e.id # 0 /\ e.id \notin expired

Matches(e, ptr) == e.id # 0 /\ e.gen = ptr.gen /\ e.id \notin expired

(* The header is checked against the slice; past the end of the buffer     *)
(* proper nothing is known of what is read.                                *)
CheckHeader(r) ==
    LET g == get[r] IN
    /\ g.pc = "check"
    /\ get' = [get EXCEPT ![r].pc =
         IF g.ptr.off >= g.cnt THEN "idle"
         ELSE IF g.ptr.off >= Size(g.buf) THEN "astray"
         ELSE IF Matches(bufs[g.buf][g.ptr.off], g.ptr) THEN "use" ELSE "idle"]
    /\ UNCHANGED <<region, mu, index, cursor, used, puts, expired, pc, cleaner, history>>

UseValue(r) ==
    LET g == get[r] IN
    /\ g.pc = "use"
    /\ get' = [get EXCEPT ![r].pc = "idle", ![r].hit = bufs[g.buf][g.ptr.off].key]
    /\ UNCHANGED <<region, mu, index, cursor, used, puts, expired, pc, cleaner, history>>

-----------------------------------------------------------------------------
(* The cleaner: sweepBatch, one slot at a time, then TryShrink. *)

Sweep ==
    LET slot == cursor % count
        e == bufs[Cur][slot]
        t == TagBits(Tag(e.key))
    IN
    /\ cleaner = "idle"
    /\ IF e.id \in expired /\ IsLive(t, slot, e.gen)
         THEN index' = [index EXCEPT ![t] = NoPtr]
         ELSE UNCHANGED index
    /\ cursor' = (slot + 1) % count
    /\ UNCHANGED <<region, mu, used, puts, expired, pc, get, cleaner, history>>

ActiveSlots == {i \in 0 .. count - 1 : bufs[Cur][i].id # 0 /\ bufs[Cur][i].id \notin expired}

Shrinkable ==
    /\ \A i \in ActiveSlots : i < maxCount \div 2
    /\ Cardinality(ActiveSlots) < (count * ShrinkPct) \div 100

ShrinkBuf ==
    /\ cleaner = "idle" /\ mu = "none"
    /\ count >= maxCount /\ maxCount >= 2 /\ maxCount > InitSlots /\ Shrinkable
    /\ bufs' = Append(bufs, [i \in 0 .. maxCount \div 2 - 1 |-> bufs[Cur][i]])
    /\ mu' = "cleaner" /\ cleaner' = "shrink"
    /\ get' = [r \in Readers |-> [get[r] EXCEPT !.crossed = @ \/ get[r].pc = "buf"]]
    /\ drift' = [t \in Tenants |-> drift[t] + Held(t, {i \in DOMAIN bufs[Cur] : i >= maxCount \div 2})]
    /\ UNCHANGED <<count, maxCount, writeSlot, index, cursor, used, puts, expired, pc, aliased, misled>>

ShrinkCount ==
    /\ cleaner = "shrink"
    /\ count' = Size(Cur) /\ maxCount' = Size(Cur) /\ writeSlot' = writeSlot % Size(Cur)
    /\ mu' = "none" /\ cleaner' = "idle"
    /\ UNCHANGED <<bufs, index, cursor, used, puts, expired, pc, get, history>>

Expire(id) ==
    /\ id \notin expired
    /\ expired' = expired \cup {id}
    /\ UNCHANGED <<region, mu, index, cursor, used, puts, pc, get, cleaner, history>>

-----------------------------------------------------------------------------
Putting(p) == GrowBuf(p) \/ GrowCount(p) \/ Claim(p) \/ SubUsage(p) \/ SetIndex(p) \/ AddUsage(p)
Reading(r) == LoadCount(r) \/ LoadBuf(r) \/ CheckHeader(r) \/ UseValue(r)

Next ==
    \/ \E p \in Putters : Putting(p) \/ \E k \in Keys : StartPut(p, k) \/ Incr(p, k) \/ IncrPanics(p, k)
    \/ \E r \in Readers : Reading(r) \/ \E k \in Keys : Lookup(r, k)
    \/ \E k \in Keys : Invalidate(k)
    \/ \E t \in Tenants : DeleteTenant(t)
    \/ Sweep \/ ShrinkBuf \/ ShrinkCount
    \/ \E id \in 1 .. puts : Expire(id)

(* The cleaner's loop never stops. *)
Spec == Init /\ [][Next]_vars /\ WF_vars(Sweep)

-----------------------------------------------------------------------------
(* Properties. *)

(* A lookup that hits returns a value put under its key, across growth,    *)
(* halving and any number of laps, unless a slot was rewritten in the      *)
(* generation, modulo GenMod, of a pointer still in use.                   *)
OwnValue == ~aliased => \A r \in Readers : get[r].hit \in {NoKey, get[r].key}

(* A lookup never reads past the buffer it loaded, unless the buffer was   *)
(* halved after the count it loaded, as TryShrink does.                    *)
InBounds == \A r \in Readers : get[r].pc = "astray" => get[r].crossed

(* With no put under way, a tenant is charged for the slots that hold its  *)
(* entries, and for what TryShrink dropped and DeleteTenant forgave.       *)
UsageExact ==
    (\A p \in Putters : pc[p].pc \in {"idle", "write"}) /\ cleaner = "idle" =>
        \A t \in Tenants : used[t] = Held(t, DOMAIN bufs[Cur]) + drift[t]

(* The quota is passed by no more than the puts that raced.                *)
QuotaSlack == \A t \in Tenants : used[t] <= TenantLimit + Cardinality(Putters) - 1

(* regions.go, on reading with the old count: "safe because new buf is     *)
(* always >= old".                                                         *)
ReadsStayInside == \A r \in Readers : get[r].pc # "astray"

(* NewCacheManager: the "in-memory cleaner: tombstones expired slab index  *)
(* entries".                                                               *)
ExpiredSwept == \A k \in Keys : (index[Tag(k)].id \in expired) ~> (index[Tag(k)].id \notin expired)

(* Incr "atomically adds delta to the int64 stored at (tenantID, key)",    *)
(* and re-validates what it locked.                                        *)
IncrOwn == ~misled
=============================================================================
