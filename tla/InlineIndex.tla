----------------------------- MODULE InlineIndex -----------------------------
(***************************************************************************)
(* One shard of the cache's inline-slot trie (internal/cache/              *)
(* index_inline.go).  Writers hold the shard's mutex; lookups take no      *)
(* lock.  A writer reads only what writers write, so the stores it will    *)
(* make are fixed when it takes the mutex: `todo` holds them, in program   *)
(* order, and one leaves at a time, each visible to lookups at once.  A    *)
(* lookup takes one step per atomic load.                                  *)
(*                                                                         *)
(* Time enters only through the grace period: a detached node is reused    *)
(* once every lookup that was running when it was stamped has returned     *)
(* (iGracePeriodNs is meant to outlast any lookup), or not yet.            *)
(***************************************************************************)
EXTENDS Integers, FiniteSets, Sequences, FiniteSetsExt, SequencesExt

CONSTANTS
    Tags,        \* the keys' tags
    Vals,        \* the values stored, positive
    Readers,     \* goroutines in Get
    Route,       \* Route[t][d]: the branch tag t takes at depth d - 1
    H2,          \* H2[t]: the 16 filter bits of tag t, positive
    Slots,       \* iSlots
    Fanout,      \* iFanout
    MaxDepth,    \* iMaxDepth
    PoolSize,    \* bound on the nodes of the pool
    MaxOps       \* bound on the write operations

Empty == "empty"         \* iEmpty
Tombstone == "tombstone" \* iTombstone
Null == 0                \* iNullChild
Root == 1

Nodes == 1 .. PoolSize
Slot == 1 .. Slots
Branch == 0 .. Fanout - 1
Depth == 0 .. MaxDepth

InlineIndexAssumption ==
    /\ Vals \subseteq Nat \ {0}
    /\ Tags \cap {Empty, Tombstone} = {}
    /\ Route \in [Tags -> [1 .. MaxDepth + 1 -> Branch]]
    /\ H2 \in [Tags -> Nat \ {0}]
    /\ {Slots, Fanout, PoolSize} \subseteq Nat \ {0}

FreshNode == [tag |-> [i \in Slot |-> Empty], val |-> [i \in Slot |-> 0],
              h2 |-> [i \in Slot |-> 0], child |-> [b \in Branch |-> Null]]

VARIABLES
    node,      \* the pool
    next,      \* the next node of the bump allocator
    ready,     \* the queue of detached nodes
    stamp,     \* stamp[n]: the lookups running when n got its freedAt
    todo,      \* the stores the holder of the mutex has still to make
    freed,     \* the nodes it has detached
    detached,  \* the nodes of operations that returned, not yet in ready
    held,      \* the operation holding the mutex, or NoOp
    ops,       \* write operations begun
    get,       \* the lookups
    bound      \* history: what the operations so far make of each tag: its
               \* value, 0 when it was never Set or was Deleted, or Expired

vars == <<node, next, ready, stamp, todo, freed, detached, held, ops, get, bound>>

Expired == -1  \* the cleaner removed the entry
Absent == {0, Expired}

NoOp == [tag |-> "none", val |-> 0]
Idle == [pc |-> "idle", tag |-> "none", at |-> Null, depth |-> 0, slot |-> 0,
         val |-> 0, hit |-> FALSE, stable |-> FALSE, seen |-> {}]

Live(t) == t \notin {Empty, Tombstone}

-----------------------------------------------------------------------------
(* Stores and the operations that are sequences of them.                   *)

Store(f, n, i, x) == [field |-> f, node |-> n, index |-> i, to |-> x]

Apply(nd, s) ==
    CASE s.field = "tag"   -> [nd EXCEPT ![s.node].tag[s.index] = s.to]
      [] s.field = "val"   -> [nd EXCEPT ![s.node].val[s.index] = s.to]
      [] s.field = "h2"    -> [nd EXCEPT ![s.node].h2[s.index] = s.to]
      [] s.field = "child" -> [nd EXCEPT ![s.node].child[s.index] = s.to]

ApplyAll(nd, stores) == FoldLeft(Apply, nd, stores)

\* Faulty variant: the filter word is not updated.
FillUnfiltered(n, i, t, v) == <<Store("val", n, i, v), Store("tag", n, i, t)>>

\* The stores that put an entry in a slot: filter bits, value, then tag.
FillSlot(n, i, t, v) ==
    <<Store("h2", n, i, H2[t]), Store("val", n, i, v), Store("tag", n, i, t)>>

\* The stores that remove one: filter bits, value, then the tombstone.
ClearSlot(n, i) ==
    <<Store("h2", n, i, 0), Store("val", n, i, 0), Store("tag", n, i, Tombstone)>>

\* The slot insertAt picks: the first that holds t or is empty, else the
\* first tombstone, else none.
InsertSlot(nd, n, t) ==
    LET hits == {i \in Slot : nd[n].tag[i] \in {t, Empty}}
        tombs == {i \in Slot : nd[n].tag[i] = Tombstone}
    IN  IF hits # {} THEN Min(hits) ELSE IF tombs # {} THEN Min(tombs) ELSE 0

insertAt(nd, n, t, v) ==
    LET i == InsertSlot(nd, n, t)
    IN  IF nd[n].tag[i] = t THEN <<Store("val", n, i, v)>> ELSE FillSlot(n, i, t, v)

\* The nodes on t's route, Null past its end.
Path(nd, t) ==
    LET at[d \in Depth] ==
            IF d = 0 THEN Root
            ELSE IF at[d - 1] = Null THEN Null
            ELSE nd[at[d - 1]].child[Route[t][d]]
    IN  at

LastOf(path) == Max({d \in Depth : path[d] # Null})

Kids(nd, p) == {b \in Branch : nd[p].child[b] # Null}

HasGrandchildren(nd, p) == \E b \in Kids(nd, p) : Kids(nd, nd[p].child[b]) # {}

\* Pull the entries of p's children, in branch and slot order, into p's free
\* slots and detach the children; refused when a child has children or the
\* entries do not fit.
tryCollapse(nd, p) ==
    LET before(c, d) == c[1] < d[1] \/ (c[1] = d[1] /\ c[2] < d[2])
        cells == SetToSortSeq({c \in Kids(nd, p) \X Slot :
                                 Live(nd[nd[p].child[c[1]]].tag[c[2]])}, before)
        free == SetToSortSeq({i \in Slot : ~Live(nd[p].tag[i])}, <)
        kids == SetToSortSeq(Kids(nd, p), <)
        Move(k) == LET from == nd[nd[p].child[cells[k][1]]]
                   IN  FillSlot(p, free[k], from.tag[cells[k][2]], from.val[cells[k][2]])
    IN  IF HasGrandchildren(nd, p) \/ Len(cells) > Slots \/ Len(free) < Len(cells)
        THEN [ok |-> FALSE, stores |-> <<>>, freed |-> <<>>]
        ELSE [ok |-> TRUE,
              stores |-> FlattenSeq([k \in DOMAIN cells |-> Move(k)])
                         \o [k \in DOMAIN kids |-> Store("child", p, kids[k], Null)],
              freed |-> [k \in DOMAIN kids |-> nd[p].child[kids[k]]]]

\* Delete's upward compaction of the nodes above depth d of the path: stop
\* at the first that does not collapse.
CollapseUp(nd, path, d) ==
    LET Try(acc, k) ==
            LET c == tryCollapse(ApplyAll(nd, acc.stores), path[d - k])
            IN  IF acc.ok
                THEN [ok |-> c.ok, stores |-> acc.stores \o c.stores, freed |-> acc.freed \o c.freed]
                ELSE acc
    IN  FoldLeft(Try, [ok |-> TRUE, stores |-> <<>>, freed |-> <<>>], [k \in 1 .. d |-> k])

-----------------------------------------------------------------------------
(* Writers.                                                                *)

Unlocked == held = NoOp

Lock(t, v, stores, off) ==
    /\ held' = [tag |-> t, val |-> v]
    /\ todo' = stores
    /\ freed' = off
    /\ ops' = ops + 1
    /\ get' = [r \in Readers |->
                 IF get[r].tag = t /\ get[r].pc # "done"
                 THEN [get[r] EXCEPT !.seen = @ \cup {v}, !.stable = @ /\ v \notin Absent]
                 ELSE get[r]]
    /\ UNCHANGED <<stamp, detached, bound>>

Begin == Unlocked /\ ops < MaxOps

\* Set where the entry fits in a node of the route: the shallowest one.
SetInPlace(t, v) ==
    /\ Begin
    /\ LET path == Path(node, t)
           fits == {d \in Depth : path[d] # Null /\ InsertSlot(node, path[d], t) # 0}
       IN  /\ fits # {}
           /\ Lock(t, v, insertAt(node, path[Min(fits)], t, v), <<>>)
    /\ UNCHANGED <<node, next, ready>>

\* The node alloc returns: the oldest detached one, when its grace period is
\* over, or the next of the bump allocator.
Recycle(c) ==
    /\ ready # <<>>
    /\ c = Head(ready)
    /\ stamp[c] = {}
    /\ ready' = Tail(ready)
    /\ node' = [node EXCEPT ![c] = FreshNode]
    /\ next' = next

Bump(c) ==
    /\ c = next
    /\ next' = next + 1
    /\ UNCHANGED <<ready, node>>

\* Set where every node of the route is full: a new child, filled before its
\* index is published.
SetInChild(t, v) ==
    /\ Begin
    /\ LET path == Path(node, t)
           d == LastOf(path)
       IN  /\ \A e \in 0 .. d : InsertSlot(node, path[e], t) = 0
           /\ d < MaxDepth
           /\ \E c \in Nodes :
                /\ Recycle(c) \/ Bump(c)
                /\ Lock(t, v, FillSlot(c, 1, t, v)
                              \o <<Store("child", path[d], Route[t][d + 1], c)>>, <<>>)

\* Set at the depth ceiling: the entry is dropped.
SetDropped(t) ==
    /\ Begin
    /\ LET path == Path(node, t)
       IN  \A d \in Depth : path[d] # Null /\ InsertSlot(node, path[d], t) = 0
    /\ ops' = ops + 1
    /\ UNCHANGED <<node, next, ready, stamp, todo, freed, detached, held, get, bound>>

\* Delete: tombstone the first entry for t on its route, then compact upward.
Delete(t) ==
    /\ Begin
    /\ LET path == Path(node, t)
           cells == {c \in Depth \X Slot : path[c[1]] # Null /\ node[path[c[1]]].tag[c[2]] = t}
       IN  \/ /\ cells = {}
              /\ Lock(t, 0, <<>>, <<>>)
           \/ /\ cells # {}
              /\ LET d == Min({c[1] : c \in cells})
                     i == Min({c[2] : c \in {e \in cells : e[1] = d}})
                     clear == ClearSlot(path[d], i)
                     up == CollapseUp(ApplyAll(node, clear), path, d)
                 IN  Lock(t, 0, clear \o up.stores, up.freed)
    /\ UNCHANGED <<node, next, ready>>

\* The cleaner's TryTombstone: the first entry for t that still points at v.
TryTombstone(t, v) ==
    /\ Begin
    /\ LET path == Path(node, t)
           cells == {c \in Depth \X Slot : /\ path[c[1]] # Null
                                           /\ node[path[c[1]]].tag[c[2]] = t
                                           /\ node[path[c[1]]].val[c[2]] = v}
       IN  /\ cells # {}
           /\ LET d == Min({c[1] : c \in cells})
                  i == Min({c[2] : c \in {e \in cells : e[1] = d}})
              IN  Lock(t, IF bound[t] = v THEN Expired ELSE bound[t], ClearSlot(path[d], i), <<>>)
    /\ UNCHANGED <<node, next, ready>>

\* The next store of the holder of the mutex.  A lookup is no longer stable
\* once a child is detached.
StoreStep ==
    /\ todo # <<>>
    /\ node' = Apply(node, Head(todo))
    /\ todo' = Tail(todo)
    /\ get' = IF Head(todo).field = "child" /\ Head(todo).to = Null
              THEN [r \in Readers |-> [get[r] EXCEPT !.stable = FALSE]]
              ELSE get
    /\ UNCHANGED <<next, ready, stamp, freed, detached, held, ops, bound>>

\* The operation is over: its effect on the contract is in force.
Unlock ==
    /\ held # NoOp
    /\ todo = <<>>
    /\ bound' = [bound EXCEPT ![held.tag] = held.val]
    /\ held' = NoOp
    /\ detached' = IF freed = <<>> THEN detached ELSE Append(detached, freed)
    /\ freed' = <<>>
    /\ UNCHANGED <<node, next, ready, stamp, todo, ops, get>>

Running == {r \in Readers : get[r].pc \notin {"idle", "done"}}

\* freeLater, after the mutex is released: stamp the nodes and queue them.
freeLater ==
    /\ detached # <<>>
    /\ stamp' = [n \in Nodes |-> IF n \in ToSet(Head(detached)) THEN Running ELSE stamp[n]]
    /\ ready' = ready \o Head(detached)
    /\ detached' = Tail(detached)
    /\ UNCHANGED <<node, next, todo, freed, held, ops, get, bound>>

-----------------------------------------------------------------------------
(* Lookups.                                                                *)

\* What the operation underway, if it is on t, makes of t.
Underway(t) == IF held.tag = t THEN {held.val} ELSE {}

GetStart(r, t) ==
    /\ get[r].pc = "idle"
    /\ get' = [get EXCEPT ![r] =
                 [Idle EXCEPT !.pc = "filter", !.tag = t, !.at = Root,
                              !.stable = Absent \cap ({bound[t]} \cup Underway(t)) = {},
                              !.seen = {bound[t]} \cup Underway(t)]]
    /\ UNCHANGED <<node, next, ready, stamp, todo, freed, detached, held, ops, bound>>

\* A lookup returns: no node waits for it any more.
Return(r, hit, v) ==
    /\ get' = [get EXCEPT ![r].pc = "done", ![r].hit = hit, ![r].val = v,
                          ![r].at = Null, ![r].depth = 0, ![r].slot = 0]
    /\ stamp' = [n \in Nodes |-> stamp[n] \ {r}]

\* Load h2word: scan the slots only when some group has the tag's bits.
LoadFilter(r) ==
    /\ get[r].pc = "filter"
    /\ get' = IF \E i \in Slot : node[get[r].at].h2[i] = H2[get[r].tag]
              THEN [get EXCEPT ![r].pc = "tag", ![r].slot = 1]
              ELSE [get EXCEPT ![r].pc = "child"]
    /\ UNCHANGED <<node, next, ready, stamp, todo, freed, detached, held, ops, bound>>

LoadTag(r) ==
    /\ get[r].pc = "tag"
    /\ get' = IF node[get[r].at].tag[get[r].slot] = get[r].tag
              THEN [get EXCEPT ![r].pc = "val"]
              ELSE IF get[r].slot < Slots THEN [get EXCEPT ![r].slot = @ + 1]
              ELSE [get EXCEPT ![r].pc = "child", ![r].slot = 0]
    /\ UNCHANGED <<node, next, ready, stamp, todo, freed, detached, held, ops, bound>>

LoadVal(r) ==
    /\ get[r].pc = "val"
    /\ Return(r, TRUE, node[get[r].at].val[get[r].slot])
    /\ UNCHANGED <<node, next, ready, todo, freed, detached, held, ops, bound>>

LoadChild(r) ==
    /\ get[r].pc = "child"
    /\ LET c == node[get[r].at].child[Route[get[r].tag][get[r].depth + 1]]
       IN  \/ /\ c = Null \/ get[r].depth = MaxDepth
              /\ Return(r, FALSE, 0)
           \/ /\ c # Null
              /\ get[r].depth < MaxDepth
              /\ get' = [get EXCEPT ![r].pc = "filter", ![r].at = c, ![r].depth = @ + 1]
              /\ UNCHANGED stamp
    /\ UNCHANGED <<node, next, ready, todo, freed, detached, held, ops, bound>>

GetEnd(r) ==
    /\ get[r].pc = "done"
    /\ get' = [get EXCEPT ![r] = Idle]
    /\ UNCHANGED <<node, next, ready, stamp, todo, freed, detached, held, ops, bound>>

-----------------------------------------------------------------------------
Init ==
    /\ node = [n \in Nodes |-> FreshNode]
    /\ next = Root + 1
    /\ ready = <<>>
    /\ stamp = [n \in Nodes |-> {}]
    /\ todo = <<>>
    /\ freed = <<>>
    /\ detached = <<>>
    /\ held = NoOp
    /\ ops = 0
    /\ get = [r \in Readers |-> Idle]
    /\ bound = [t \in Tags |-> 0]

Next ==
    \/ \E t \in Tags, v \in Vals : SetInPlace(t, v) \/ SetInChild(t, v) \/ TryTombstone(t, v)
    \/ \E t \in Tags : SetDropped(t) \/ Delete(t)
    \/ StoreStep
    \/ Unlock
    \/ freeLater
    \/ \E r \in Readers, t \in Tags : GetStart(r, t)
    \/ \E r \in Readers : LoadFilter(r) \/ LoadTag(r) \/ LoadVal(r) \/ LoadChild(r) \/ GetEnd(r)

Spec == Init /\ [][Next]_vars

-----------------------------------------------------------------------------
(* Properties.                                                             *)

Cell == Tags \cup {Empty, Tombstone}

TypeOK ==
    /\ node \in [Nodes -> [tag : [Slot -> Cell], val : [Slot -> Vals \cup {0}],
                           h2 : [Slot -> Nat], child : [Branch -> Nodes \cup {Null}]]]
    /\ next \in 2 .. PoolSize + 1
    /\ ready \in Seq(Nodes)
    /\ stamp \in [Nodes -> SUBSET Readers]
    /\ freed \in Seq(Nodes)
    /\ detached \in Seq(Seq(Nodes))
    /\ held \in [tag : Tags \cup {"none"}, val : Vals \cup Absent]
    /\ ops \in 0 .. MaxOps
    /\ bound \in [Tags -> Vals \cup Absent]
    /\ \A r \in Readers :
          /\ get[r].pc \in {"idle", "filter", "tag", "val", "child", "done"}
          /\ get[r].at \in Nodes \cup {Null}
          /\ get[r].depth \in Depth
          /\ get[r].slot \in 0 .. Slots

\* The ways to reach node n: as a child, from the queue of detached nodes, or
\* from an operation that detached it and has not queued it yet.
Parents(n) == {c \in Nodes \X Branch : node[c[1]].child[c[2]] = n /\ c[1] \notin ToSet(ready)}
Queued(n) == n \in ToSet(ready) \/ \E k \in DOMAIN detached : n \in ToSet(detached[k])

\* A node is in one place: no node has two parents, a node in the recycling
\* queue is nobody's child, and none is queued twice, so a recycled node is
\* never still part of the trie (tryCollapse's detach, freeLater and alloc).
NodeInOnePlace ==
    /\ \A n \in Nodes : Cardinality(Parents(n)) + (IF Queued(n) THEN 1 ELSE 0) <= 1
    /\ IsInjective(ready)

\* An entry for t on its route.
OnRoute(t) ==
    LET path == Path(node, t)
    IN  \E d \in Depth : path[d] # Null /\ \E i \in Slot : node[path[d]].tag[i] = t

\* A tag that was Set and not deleted since has an entry on its route whenever
\* no writer is in the shard: no sequence of inserts, deletes and collapses
\* drops an entry, moves it off its route, or leaves it in a detached node.
NoEntryLost == Unlocked => \A t \in Tags : bound[t] \notin Absent => OnRoute(t)

\* A lookup of a tag that stays Set while it runs, and during which no node is
\* detached, finds it, whatever entries come and go around it: the filter
\* word, the slot scan and the descent hide no entry.
StableEntryFound ==
    \A r \in Readers : get[r].pc = "done" /\ get[r].stable => get[r].hit

\* A lookup that hits returns a value the tag had while the lookup ran, or 0
\* when its entry was being removed ("Get returns the stored value for tag").
HitIsCurrent ==
    \A r \in Readers : get[r].pc = "done" /\ get[r].hit =>
        \/ get[r].val \in get[r].seen
        \/ get[r].val = 0 /\ get[r].seen \cap Absent # {}

\* Once Delete has returned, and until the tag is Set again, its route holds
\* no entry for it ("Delete tombstones the entry for tag").
DeletedIsGone == Unlocked => \A t \in Tags : bound[t] = 0 => ~OnRoute(t)
=============================================================================
