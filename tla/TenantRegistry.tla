--------------------------- MODULE TenantRegistry ---------------------------
(***************************************************************************)
(* The tenant registry (internal/registry): every gateway instance keeps   *)
(* all tenants in memory, under numbers of its own choosing, and saves     *)
(* every change with a goroutine of its own to the store the instances     *)
(* share.  What one of them saves, the others are told and apply.  A       *)
(* restarted instance rebuilds its memory from the store.                  *)
(*                                                                         *)
(* A property belongs to one of three categories ("url", "id", "meta")     *)
(* with a matrix each: one row for a tenant number, one column for a       *)
(* property name.  A flow is compiled with the column of a name, a request *)
(* reads the cell of its tenant and that column.                           *)
(*                                                                         *)
(* A list of aliases is its first one, which is the name of the tenant in  *)
(* the store, and the set of all of them: the order of the others is that  *)
(* of a Go map.  An empty value and no value are the same cell; a deletion *)
(* saves an empty value, Blank.                                            *)
(***************************************************************************)
EXTENDS Integers, Sequences, FiniteSets, SequencesExt, FiniteSetsExt, TLC

CONSTANTS
    Instances,      \* the gateways that share the store
    Aliases,        \* names of tenants
    Runs,           \* names of test tenants ("__test__" and a run)
    Props,          \* the properties, pairs of a category and a name
    First,          \* the first letter of a property name
    Vals,           \* the values of a property
    None,           \* no alias, no value
    Batches,        \* what a batch of properties can be, None for one it leaves out
    MaxID,          \* tenant numbers from 1 up to here; a bound
    TestIDs,        \* the numbers reserved for test tenants
    Spare,          \* rows a matrix gets beyond the one it needs: 127
    Width,          \* row counts are taken modulo this: 2^16
    Ordered,        \* the saving goroutines run in the order they were started
    MaxOps,         \* operations; a bound
    MaxRestarts     \* restarts; a bound

VARIABLES
    up,             \* instance -> it runs
    mem,            \* instance -> its registry
    store,          \* the shared store
    going,          \* instance -> goroutines that save, each the puts left to it
    events,         \* instance -> what it was told and has not applied
    baked,          \* instance -> property -> columns flows were compiled with
    linked,         \* history: pairs of aliases somebody put on one tenant
    overlapped,     \* history: an operation began while another was under way
    wrapped,        \* history: the numbers for test tenants came round
    ops, restarts

rVars == <<up, mem, store, going, events, baked, linked, overlapped, wrapped, ops, restarts>>

Cats == {p[1] : p \in Props}

All == Aliases \cup Runs

IDs == 1..MaxID \cup TestIDs

NoProps == [p \in Props |-> None]

Blank == ""

\* The properties in some order: that of a Go map.
PropList == SetToSeq(Props)

TenantRegistryAssumption ==
    /\ Cats \subseteq {"url", "id", "meta"}
    /\ TestIDs \cap 1..MaxID = {} /\ TestIDs # {} /\ IsFiniteSet(TestIDs)
    /\ None \notin All \cup Vals /\ Batches \subseteq [Props -> Vals \cup {None}]
    /\ Spare \in Nat /\ Width \in Nat \ {0} /\ Blank \notin Vals
    /\ Ordered \in BOOLEAN /\ MaxOps \in Nat /\ MaxRestarts \in Nat
    /\ Aliases \cap Runs = {}

-----------------------------------------------------------------------------
(* One registry.  A record of tenantData without an alias is none at all.  *)

NoRecord == [primary |-> None, aliases |-> {}, props |-> NoProps, created |-> FALSE]

Empty ==
    [alias |-> [a \in All |-> 0], free |-> <<>>, next |-> 1, nextTest |-> Min(TestIDs), rows |-> Spare + 1,
     ids |-> {}, rec |-> [n \in IDs |-> NoRecord], cols |-> [c \in Cats |-> <<>>],
     cell |-> [c \in Cats |-> [n \in IDs |-> <<>>]], blocked |-> [n \in IDs |-> FALSE]]

Named(m, n) == {a \in All : m.alias[a] = n}

\* The bound on tenant numbers.
Room(m, a) == m.alias[a] # 0 \/ m.free # <<>> \/ m.next <= MaxID

\* A tenant that is new has a row: the matrices are made larger, and rows
\* beyond their new end are gone, which there are when the count wraps.
GrowRows(m, n) ==
    IF n < m.rows THEN m
    ELSE LET rows == (n + 1 + Spare) % Width
         IN [m EXCEPT !.rows = rows,
                      !.cell = [c \in Cats |-> [x \in IDs |->
                        IF x < rows THEN @[c][x] ELSE [k \in DOMAIN @[c][x] |-> None]]]]

\* Faulty variant: a recycled number stays on the stack.
resolveOrCreateTenantKeeps(m, a) ==
    IF m.alias[a] # 0 THEN [m |-> m, id |-> m.alias[a], new |-> FALSE]
    ELSE LET n == IF m.free # <<>> THEN Last(m.free) ELSE m.next
         IN [m |-> GrowRows([m EXCEPT !.alias[a] = n, !.ids = @ \cup {n},
                             !.next = IF m.free # <<>> THEN @ ELSE @ + 1], n),
             id |-> n, new |-> TRUE]

resolveOrCreateTenant(m, a) ==
    IF m.alias[a] # 0 THEN [m |-> m, id |-> m.alias[a], new |-> FALSE]
    ELSE LET n == IF m.free # <<>> THEN Last(m.free) ELSE m.next
         IN [m |-> GrowRows([m EXCEPT !.alias[a] = n, !.ids = @ \cup {n},
                             !.free = IF @ # <<>> THEN Front(@) ELSE @,
                             !.next = IF m.free # <<>> THEN @ ELSE @ + 1], n),
             id |-> n, new |-> TRUE]

\* The walk takes the first name with the letter, and no other.
findKeyID(m, p) ==
    LET names == m.cols[p[1]]
        alike == {c \in DOMAIN names : First[names[c]] = First[p[2]]}
    IN IF alike # {} /\ names[Min(alike)] = p[2] THEN Min(alike) ELSE 0

insertIntoPropertiesRadix(m, p) == [m EXCEPT !.cols[p[1]] = Append(@, p[2])]

expandPropStore(m, p) ==
    [m EXCEPT !.cell[p[1]] = [n \in IDs |-> Append(@[n], None)],
              !.rows = IF @ = 0 THEN Spare + 1 ELSE @]

resolveOrCreateStoreKey(m, p) ==
    IF findKeyID(m, p) # 0 THEN [m |-> m, col |-> findKeyID(m, p)]
    ELSE [m |-> insertIntoPropertiesRadix(expandPropStore(m, p), p), col |-> Len(m.cols[p[1]]) + 1]

\* What is done to a registry is the set of what may come of it: an outcome is
\* the registry with the number of the tenant and whether that is new.
Bind(S, Op(_)) == UNION {Op(o) : o \in S}

Shown(v) == IF v = Blank THEN None ELSE v

\* The cell of the tenant, made if its column is not there.  Without a row for
\* the tenant this panics: nothing comes of it.
SetCell(o, p, v) ==
    {[o EXCEPT !.m = [k.m EXCEPT !.cell[p[1]][o.id][k.col] = Shown(v)]]
       : k \in {x \in {resolveOrCreateStoreKey(o.m, p)} : o.id < x.m.rows}}

\* ... and of every property the batch has a value for.
SetCells(o, vals) ==
    FoldLeft(LAMBDA S, p : Bind(S, LAMBDA x : IF vals[p] = None THEN {x} ELSE SetCell(x, p, vals[p])), {o}, PropList)

\* The list of aliases as the iteration over the map yields them, any first.
Listed(o) ==
    {[o EXCEPT !.m.rec[o.id].primary = a, !.m.rec[o.id].aliases = Named(o.m, o.id)] : a \in Named(o.m, o.id)}

ensureTenantRecord(o) == IF o.m.rec[o.id].aliases # {} THEN {o} ELSE Listed(o)

\* The values of a batch over those there were.
Over(vals, old) == [p \in Props |-> IF vals[p] = None THEN old[p] ELSE vals[p]]
ShownAll(vals) == [p \in Props |-> Shown(vals[p])]

\* AddServiceURL, AddIdentifier and AddMeta, and the application of the same.
SetProperty(m, a, p, v) ==
    Bind({resolveOrCreateTenant(m, a)}, LAMBDA r :
      Bind(SetCell(r, p, v), LAMBDA s :
        {[t EXCEPT !.m.rec[t.id].props[p] = Shown(v)] : t \in ensureTenantRecord(s)}))

\* A batch for a list of aliases, `a` the first.
Upsert(m, a, others, vals) ==
    Bind({resolveOrCreateTenant(m, a)}, LAMBDA r :
      Bind(SetCells([r EXCEPT !.m.alias = [b \in All |-> IF b \in others THEN r.id ELSE @[b]]], vals), LAMBDA s :
        {[t EXCEPT !.m.rec[t.id].props = ShownAll(Over(vals, @))] : t \in Listed(s)}))

RemoveTenant(m, n) ==
    [m EXCEPT !.alias = [a \in All |-> IF @[a] = n THEN 0 ELSE @[a]],
              !.cell = [c \in Cats |-> [@[c] EXCEPT ![n] = [k \in DOMAIN @ |-> None]]],
              !.free = Append(@, n), !.rec[n] = NoRecord, !.ids = @ \ {n}]

-----------------------------------------------------------------------------
(* The store and the goroutines that save to it.                           *)

NoStore ==
    [aliases |-> [a \in All |-> {}], tid |-> [a \in All |-> 0],
     props |-> [a \in All |-> NoProps], blocked |-> [a \in All |-> FALSE]]

NoPut ==
    [op |-> "none", key |-> None, id |-> 0, aliases |-> {}, props |-> NoProps, prop |-> <<>>, val |-> None]

PutTenantID(a, n) == [NoPut EXCEPT !.op = "tid", !.key = a, !.id = n]
PutTenantAliases(a, all) == [NoPut EXCEPT !.op = "aliases", !.key = a, !.aliases = all]
PutProperty(a, p, v) == [NoPut EXCEPT !.op = "prop", !.key = a, !.prop = p, !.val = v]
PutBatch(a, vals) == [NoPut EXCEPT !.op = "batch", !.key = a, !.props = vals]
PutModifier(a) == [NoPut EXCEPT !.op = "blocked", !.key = a]
DeleteKeys(a) == [NoPut EXCEPT !.op = "delete", !.key = a]

\* Saved first: the number of a tenant that is new.
persistTenantID(r, a) == IF r.new THEN <<<<PutTenantID(a, r.id)>>>> ELSE <<>>

\* DeleteTenant lists the keys below the prefix, gets them without it, and
\* deletes those: of the keys that exist only the aliases go.
StoreAfter(put) ==
    CASE put.op = "tid" -> [store EXCEPT !.tid[put.key] = put.id]
      [] put.op = "aliases" -> [store EXCEPT !.aliases[put.key] = put.aliases]
      [] put.op = "prop" -> [store EXCEPT !.props[put.key][put.prop] = put.val]
      [] put.op = "batch" -> [store EXCEPT !.props[put.key] = Over(put.props, @)]
      [] put.op = "blocked" -> [store EXCEPT !.blocked[put.key] = TRUE]
      [] put.op = "delete" -> [store EXCEPT !.aliases[put.key] = {}]

\* An event for every key, to every other instance.
Told(put) ==
    IF put.op = "batch"
    THEN LET written == SelectSeq(PropList, LAMBDA p : put.props[p] # None)
         IN [k \in DOMAIN written |-> PutProperty(put.key, written[k], put.props[written[k]])]
    ELSE <<put>>

Quiet == \A i \in Instances : going[i] = <<>> /\ events[i] = <<>>

\* An operation of instance i that leaves it with registry m and goroutines w.
Commit(i, m, w) ==
    /\ mem' = [mem EXCEPT ![i] = m]
    /\ going' = [going EXCEPT ![i] = @ \o w]
    /\ overlapped' = (overlapped \/ ~Quiet)
    /\ ops' = ops + 1
    /\ UNCHANGED <<up, store, events, restarts>>

-----------------------------------------------------------------------------
(* The operations.                                                         *)

Add(i, a, p, v) ==
    /\ Room(mem[i], a)
    /\ \E r \in SetProperty(mem[i], a, p, v) :
         Commit(i, r.m, persistTenantID(r, a) \o <<<<PutProperty(r.m.rec[r.id].primary, p, v)>>>>)
    /\ UNCHANGED <<baked, linked, wrapped>>

AddServiceURL(i, a, p, v) == p[1] = "url" /\ Add(i, a, p, v)
AddIdentifier(i, a, p, v) == p[1] = "id" /\ Add(i, a, p, v)
AddMeta(i, a, p, v) == p[1] = "meta" /\ Add(i, a, p, v)

\* Only the cell and the record of a property whose column exists.
Remove1(i, a, p) ==
    LET m == mem[i]
        n == m.alias[a]
        col == findKeyID(m, p)
        r == [m EXCEPT !.cell[p[1]][n][col] = None, !.rec[n].props[p] = None]
    IN /\ n # 0 /\ col # 0
       /\ Commit(i, r, <<<<PutProperty(m.rec[n].primary, p, Blank)>>>>)
       /\ UNCHANGED <<baked, linked, wrapped>>

DeleteServiceURL(i, a, p) == p[1] = "url" /\ Remove1(i, a, p)
DeleteIdentifier(i, a, p) == p[1] = "id" /\ Remove1(i, a, p)
DeleteMeta(i, a, p) == p[1] = "meta" /\ Remove1(i, a, p)

Pairs(S) == {{a, b} : a, b \in S} \ {{a} : a \in S}

\* An alias that belongs to another tenant is taken from it without a word to
\* its record.
AddAlias(i, a, b) ==
    /\ a # b /\ Room(mem[i], a)
    /\ \E r \in {resolveOrCreateTenant(mem[i], a)} : \E t \in Listed([r EXCEPT !.m.alias[b] = r.id]) :
         LET rec == t.m.rec[t.id]
         IN /\ Commit(i, t.m, persistTenantID(r, a) \o <<<<PutTenantAliases(rec.primary, rec.aliases)>>>>)
            /\ linked' = linked \cup Pairs(rec.aliases)
    /\ UNCHANGED <<baked, wrapped>>

UpsertTenantState(i, a, others, vals) ==
    /\ Room(mem[i], a)
    /\ \E r \in Upsert(mem[i], a, others, vals) :
         LET rec == r.m.rec[r.id]
         IN /\ Commit(i, r.m, persistTenantID(r, a) \o
                 <<<<PutTenantAliases(rec.primary, rec.aliases), PutBatch(rec.primary, rec.props)>>>>)
            /\ linked' = linked \cup Pairs(rec.aliases)
    /\ UNCHANGED <<baked, wrapped>>

DeleteTenant(i, a) ==
    LET m == mem[i]
        n == m.alias[a]
    IN /\ n # 0
       /\ Commit(i, RemoveTenant(m, n),
                 <<<<DeleteKeys(IF m.rec[n].aliases # {} THEN m.rec[n].primary ELSE a)>>>>)
       /\ UNCHANGED <<baked, linked, wrapped>>

\* Numbers are taken in turn, whether or not they are in use.
RegisterTestTenant(i, run) ==
    LET m == mem[i]
        n == m.nextTest
    IN /\ Commit(i, GrowRows([m EXCEPT !.alias[run] = n, !.ids = @ \cup {n},
                              !.nextTest = IF n = Max(TestIDs) THEN Min(TestIDs) ELSE n + 1,
                              !.rec[n] = [NoRecord EXCEPT !.primary = run, !.aliases = {run}, !.created = TRUE]], n),
                 <<>>)
       /\ wrapped' = (wrapped \/ n = Max(TestIDs))
       /\ UNCHANGED <<baked, linked>>

\* At the end of a run, or when the sweep finds the tenant too old.
DeleteTestTenant(i, run) == DeleteTenant(i, run)

\* The sweep goes by number and age; a tenant made for a run has an age.
sweepExpiredTestTenants(i) ==
    \E n \in mem[i].ids \cap TestIDs :
        mem[i].rec[n].created /\ DeleteTenant(i, mem[i].rec[n].primary)

SetTenantRateLimitModifier(i, a) ==
    /\ mem[i].alias[a] # 0
    /\ Commit(i, [mem[i] EXCEPT !.blocked[mem[i].alias[a]] = TRUE], <<<<PutModifier(a)>>>>)
    /\ UNCHANGED <<baked, linked, wrapped>>

\* A flow that loads the property is compiled.
Ensure(i, p) ==
    LET k == resolveOrCreateStoreKey(mem[i], p)
    IN /\ Commit(i, k.m, <<>>)
       /\ baked' = [baked EXCEPT ![i][p] = @ \cup {k.col}]
       /\ UNCHANGED <<linked, wrapped>>

EnsureURLKeyID(i, p) == p[1] = "url" /\ Ensure(i, p)
EnsureIDKeyID(i, p) == p[1] = "id" /\ Ensure(i, p)
EnsureMetaKeyID(i, p) == p[1] = "meta" /\ Ensure(i, p)

-----------------------------------------------------------------------------
(* Saving, and what the other instances make of it.                        *)

\* The next put of a goroutine.  That of a modifier runs with the context of a
\* request that has been answered, and may be refused.
Persist(i) ==
    \E g \in DOMAIN going[i] :
      LET put == Head(going[i][g])
          left == Tail(going[i][g])
          tell == [j \in Instances |-> IF j = i \/ ~up[j] THEN events[j] ELSE events[j] \o Told(put)]
      IN /\ Ordered => g = 1
         /\ going' = [going EXCEPT ![i] = IF left = <<>> THEN RemoveAt(@, g) ELSE [@ EXCEPT ![g] = left]]
         /\ \/ store' = StoreAfter(put) /\ events' = tell
            \/ put.op = "blocked" /\ UNCHANGED <<store, events>>
         /\ UNCHANGED <<up, mem, baked, linked, overlapped, wrapped, ops, restarts>>

\* The number another instance saved is not looked at.  A tenant that is new
\* here gets a number of this instance, which is saved over the other's.
ApplyStorePut(m, e) ==
    LET nothing == {[m |-> m, id |-> 0, new |-> FALSE]}
    IN CASE e.op = "aliases" ->
              {[r EXCEPT !.m.alias = [b \in All |-> IF b \in e.aliases /\ @[b] = 0 THEN r.id ELSE @[b]],
                         !.m.rec[r.id].primary = e.key, !.m.rec[r.id].aliases = e.aliases]
                 : r \in {resolveOrCreateTenant(m, e.key)}}
         [] e.op = "prop" -> SetProperty(m, e.key, e.prop, e.val)
         [] e.op = "blocked" /\ m.alias[e.key] # 0 ->
              {[r EXCEPT !.m.blocked[m.alias[e.key]] = TRUE] : r \in nothing}
         [] OTHER -> nothing

\* Faulty variant: an event for a tenant that is deleted is not looked at.
ApplyStoreDeleteNot(m, e) == m

ApplyStoreDelete(m, e) == IF m.alias[e.key] = 0 THEN m ELSE RemoveTenant(m, m.alias[e.key])

Consume(i) ==
    /\ events[i] # <<>>
    /\ events' = [events EXCEPT ![i] = Tail(@)]
    /\ LET e == Head(events[i])
       IN /\ Room(mem[i], e.key)
          /\ IF e.op = "delete"
             THEN mem' = [mem EXCEPT ![i] = ApplyStoreDelete(@, e)] /\ UNCHANGED going
             ELSE \E r \in ApplyStorePut(mem[i], e) :
                    /\ mem' = [mem EXCEPT ![i] = r.m]
                    /\ going' = [going EXCEPT ![i] = @ \o persistTenantID(r, e.key)]
    /\ UNCHANGED <<up, store, baked, linked, overlapped, wrapped, ops, restarts>>

-----------------------------------------------------------------------------
(* A restart.                                                              *)

forceAssignTenantID(m, n) ==
    [m EXCEPT !.next = Max({@, n + 1}), !.free = SelectSeq(@, LAMBDA x : x # n)]

\* The tenants of the store: those whose aliases were saved.  Modifiers are
\* looked for under keys without their prefix, and none is found.
LoadAll == {a \in All : store.aliases[a] # {}}

\* One tenant of the store, with the number saved under the same alias.  A
\* number that is seeded is found, so that no row is made for it.
RestoreTenant(m, a) ==
    LET n == store.tid[a]
        force == IF n = 0 THEN m ELSE forceAssignTenantID(m, n)
        seeded == IF n = 0 \/ m.alias[a] # 0 THEN force
                  ELSE [force EXCEPT !.alias[a] = n, !.ids = @ \cup {n}]
    IN Bind({seeded}, LAMBDA x : {o.m : o \in Upsert(x, a, store.aliases[a] \ {a}, store.props[a])})

\* In whatever order the store lists them.
RestoreFromSnapshot(order) == FoldLeft(LAMBDA S, a : Bind(S, LAMBDA m : RestoreTenant(m, a)), {Empty}, order)

\* The process ends, with what it had not saved and not applied, and another
\* takes its place, unless it panics over what it reads.
Restart(i) ==
    /\ restarts < MaxRestarts /\ restarts' = restarts + 1
    /\ \E order \in SetToSeqs(LoadAll) : \E out \in {RestoreFromSnapshot(order)} :
         /\ up' = [up EXCEPT ![i] = out # {}]
         /\ \E m \in IF out = {} THEN {Empty} ELSE out : mem' = [mem EXCEPT ![i] = m]
    /\ going' = [going EXCEPT ![i] = <<>>]
    /\ events' = [events EXCEPT ![i] = <<>>]
    /\ baked' = [baked EXCEPT ![i] = [p \in Props |-> {}]]
    /\ overlapped' = (overlapped \/ ~Quiet)
    /\ UNCHANGED <<store, linked, wrapped, ops>>

-----------------------------------------------------------------------------

Init ==
    /\ up = [i \in Instances |-> TRUE]
    /\ mem = [i \in Instances |-> Empty]
    /\ store = NoStore
    /\ going = [i \in Instances |-> <<>>]
    /\ events = [i \in Instances |-> <<>>]
    /\ baked = [i \in Instances |-> [p \in Props |-> {}]]
    /\ linked = {} /\ overlapped = FALSE /\ wrapped = FALSE
    /\ ops = 0 /\ restarts = 0

Operation(i) ==
    /\ ops < MaxOps /\ up[i]
    /\ \/ \E a \in Aliases, p \in Props, v \in Vals :
            AddServiceURL(i, a, p, v) \/ AddIdentifier(i, a, p, v) \/ AddMeta(i, a, p, v)
       \/ \E a \in Aliases, p \in Props :
            DeleteServiceURL(i, a, p) \/ DeleteIdentifier(i, a, p) \/ DeleteMeta(i, a, p)
       \/ \E p \in Props : EnsureURLKeyID(i, p) \/ EnsureIDKeyID(i, p) \/ EnsureMetaKeyID(i, p)
       \/ \E a, b \in Aliases : AddAlias(i, a, b)
       \/ \E a \in Aliases : \E others \in SUBSET (Aliases \ {a}), vals \in Batches :
            UpsertTenantState(i, a, others, vals)
       \/ \E a \in Aliases : DeleteTenant(i, a) \/ SetTenantRateLimitModifier(i, a)
       \/ \E run \in Runs : RegisterTestTenant(i, run) \/ DeleteTestTenant(i, run)
       \/ sweepExpiredTestTenants(i)

Next == \E i \in Instances : Operation(i) \/ Persist(i) \/ Consume(i) \/ Restart(i)

Spec == Init /\ [][Next]_rVars

-----------------------------------------------------------------------------
(* Properties.                                                             *)

\* The registry of every instance, the store and what is on its way between
\* them have their types; the sorted list of numbers is that of the records.
TypeOK ==
    /\ \A i \in Instances :
         LET m == mem[i]
         IN /\ m.alias \in [All -> IDs \cup {0}]
            /\ Range(m.free) \subseteq IDs /\ m.ids \subseteq IDs
            /\ m.nextTest \in TestIDs /\ m.rows \in 0..Width - 1
            /\ \A c \in Cats, n \in IDs : Len(m.cell[c][n]) = Len(m.cols[c])
            /\ \A n \in IDs : m.rec[n].aliases # {} <=> n \in m.ids
            /\ \A n \in IDs : m.rec[n].aliases # {} => m.rec[n].primary \in m.rec[n].aliases
    /\ store.tid \in [All -> IDs \cup {0}]
    /\ ops \in 0..MaxOps /\ restarts \in 0..MaxRestarts

\* Two aliases lead to one tenant number only if somebody put them on one
\* tenant, and a number that the next tenant can get belongs to nobody:
\* whatever is deleted and recycled, no tenant is served with the URLs and
\* identifiers of another (resolveOrCreateTenant, DeleteTenant,
\* forceAssignTenantID).
TenantsApart ==
    \A i \in Instances :
      LET m == mem[i]
      IN /\ \A a, b \in All : m.alias[a] # 0 /\ m.alias[a] = m.alias[b] => a = b \/ {a, b} \in linked
         /\ \A j \in DOMAIN m.free : Named(m, m.free[j]) = {}
         /\ \A j, k \in DOMAIN m.free : m.free[j] = m.free[k] => j = k
         /\ \A n \in 1..MaxID : n >= m.next => Named(m, n) = {}

\* What a request reads, by the column its flow was compiled with and by name,
\* is what the management API shows for the tenant (rec.ServiceURLs and the
\* like), although columns are added and rows are recycled meanwhile.
MirrorExact ==
    \A i \in Instances, a \in All, p \in Props :
      LET m == mem[i]
          n == m.alias[a]
      IN n # 0 =>
           /\ (IF findKeyID(m, p) = 0 THEN None ELSE m.cell[p[1]][n][findKeyID(m, p)]) = m.rec[n].props[p]
           /\ \A c \in baked[i][p] : m.cell[p[1]][n][c] = m.rec[n].props[p]

\* The row of a number that nobody has is empty, so the tenant that gets it
\* starts without a property of its predecessor (zeroStoreRow).
FreeRowsClean ==
    \A i \in Instances, n \in IDs :
      n \notin mem[i].ids => \A c \in Cats : \A k \in DOMAIN mem[i].cell[c][n] : mem[i].cell[c][n][k] = None

\* With one instance and tenants of one alias each, once everything is saved
\* the store has the number and every property of every tenant, and no entry
\* that a restart would make a deleted tenant of: the properties survive
\* (persistTenantBatch, persistDeleteTenant).
StoreSettles ==
    (Cardinality(Instances) = 1 /\ linked = {} /\ Quiet /\ \A i \in Instances : up[i]) =>
      \A i \in Instances, a \in Aliases :
        LET m == mem[i]
            n == m.alias[a]
        IN IF n = 0 THEN store.aliases[a] = {}
           ELSE /\ store.tid[a] = n
                /\ \A p \in Props : m.rec[n].props[p] # None => store.props[a][p] = m.rec[n].props[p]

\* When the operations come one after the other, and each tenant has one
\* alias, the instances agree on the tenants and their properties once all has
\* been saved and applied (ApplyStorePut, ApplyStoreDelete).
PeersAgree ==
    (Quiet /\ ~overlapped /\ linked = {} /\ restarts = 0) =>
      \A i, j \in Instances, a \in Aliases :
        LET m == mem[i]
            o == mem[j]
        IN /\ m.alias[a] = 0 <=> o.alias[a] = 0
           /\ m.alias[a] # 0 => m.rec[m.alias[a]].props = o.rec[o.alias[a]].props

-----------------------------------------------------------------------------
(* Readings of comments that do not hold.                                  *)

\* "EnsureURLKeyID resolves a URL key name to its stable KeyID": a second name
\* with the same first letter gets a new column with every call.
KeyStable == \A i \in Instances, p \in Props : Cardinality(baked[i][p]) <= 1

\* "DeleteTenant removes all aliases and data for the tenant": its modifier
\* stays for the next tenant with the number.
RecycledIsClean == \A i \in Instances, n \in IDs : n \notin mem[i].ids => ~mem[i].blocked[n]

\* SetStore, "used for persistence after every mutation": a tenant made by
\* AddServiceURL has no aliases in the store and is not restored.
Restorable ==
    Quiet => \A i \in Instances, a \in Aliases :
      mem[i].alias[a] # 0 => \E b \in Aliases : a \in store.aliases[b]

\* "resolveOrCreateTenant re-uses the same numeric ID across restarts and
\* gateway instances": when everything was saved before a restart, every alias
\* that comes back leads to the number it had.  The number is saved under the
\* alias the tenant was made with and looked for under the one that was first
\* in the last list, so a tenant with two aliases can get another number, and
\* one that belongs to another tenant.
SameNumber ==
    [][\A i \in Instances : (restarts' > restarts /\ Quiet) =>
         \A a \in Aliases : mem[i].alias[a] = 0 \/ mem'[i].alias[a] \in {0, mem[i].alias[a]}]_rVars

\* PutTenantID saves the number "so that restarts and peer instances can
\* recover the same numeric ID": when everything was saved before a restart,
\* the tenants whose aliases are in the store come back.  The number is seeded
\* before UpsertTenantState, so the matrices are not made larger for it, and
\* the first property of a tenant beyond their end is written out of bounds:
\* the process ends with a panic.  A number of the test range that has been
\* recycled is enough.
RestartRestores ==
    \A i \in Instances : (restarts' > restarts /\ Quiet) =>
         \A a \in Aliases : store.aliases[a] # {} => mem'[i].alias[a] # 0

=============================================================================
