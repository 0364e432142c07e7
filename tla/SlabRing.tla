------------------------------ MODULE SlabRing ------------------------------
(***************************************************************************)
(* The rotating slab ring behind the access log (obsSlabRing in            *)
(* observability/obs_slab.go; instr_slab.go and trace_slab.go repeat the   *)
(* algorithm).  Request goroutines claim a slot of the active slab with an *)
(* atomic add, check the seal, fill the slot with plain stores and raise   *)
(* its ready flag.  The drain goroutine seals the active slab, moves the   *)
(* active index on, takes the claimed slots in order, giving up on a slot  *)
(* that is not ready by a deadline, and rearms the slab.                   *)
(*                                                                         *)
(* A record is the number of the call that writes it.  A slot has two      *)
(* fields, so that a half written one shows.  The straggler deadline may   *)
(* pass at any time.                                                       *)
(***************************************************************************)
EXTENDS Integers, Sequences, FiniteSets, SequencesExt

CONSTANTS
    Writers,        \* request goroutines
    SlabCount,      \* obsSlabCount
    SlabCap,        \* slots of a slab
    BatchSize,      \* records that make the drain write to the store
    MaxWrites       \* bound: calls of write

SlabAssumption ==
    /\ SlabCount \in Nat /\ SlabCount > 1 /\ SlabCap \in Nat \ {0}
    /\ BatchSize \in Nat \ {0} /\ MaxWrites \in Nat

VARIABLES
    active,         \* index of the slab that writers use
    cursor,         \* per slab: slots claimed since it was rearmed
    sealed,         \* per slab: the drain goroutine is processing it
    slot,           \* per slab and index: the two fields and the ready flag
    w,              \* per writer: its step, slab, index and record
    d,              \* the drain goroutine
    out,            \* history: records appended to the pending batch
    pending,        \* how many of them the store has not been given
    dropped,        \* the drop counter
    writes,         \* calls of write so far
    refused,        \* history: records counted as dropped
    crossed         \* history: a writer went on in a slab that was rearmed under it

vars == <<active, cursor, sealed, slot, w, d, out, pending, dropped, writes, refused, crossed>>

Slabs == 0..(SlabCount - 1)
Indices == 0..(SlabCap - 1)
Resting == [pc |-> "idle"]

Init ==
    /\ active = 0
    /\ cursor = [s \in Slabs |-> 0]
    /\ sealed = [s \in Slabs |-> FALSE]
    /\ slot = [s \in Slabs |-> [i \in Indices |-> [a |-> 0, b |-> 0, ready |-> FALSE]]]
    /\ w = [p \in Writers |-> Resting]
    /\ d = [pc |-> "idle"]
    /\ out = <<>> /\ pending = 0 /\ dropped = 0
    /\ writes = 0 /\ refused = {} /\ crossed = FALSE

-----------------------------------------------------------------------------
(* write. *)

Load(p) ==
    /\ w[p].pc = "idle" /\ writes < MaxWrites
    /\ writes' = writes + 1
    /\ w' = [w EXCEPT ![p] = [pc |-> "claim", slab |-> active, rec |-> writes + 1]]
    /\ UNCHANGED <<active, cursor, sealed, slot, d, out, pending, dropped, refused, crossed>>

Refuse(p) ==
    /\ dropped' = dropped + 1
    /\ refused' = refused \cup {w[p].rec}
    /\ w' = [w EXCEPT ![p] = Resting]

Claim(p) ==
    LET s == w[p].slab IN
    /\ w[p].pc = "claim"
    /\ cursor' = [cursor EXCEPT ![s] = @ + 1]
    /\ IF cursor[s] >= SlabCap
         THEN Refuse(p)
         ELSE /\ w' = [w EXCEPT ![p] = [pc |-> "check", slab |-> s, idx |-> cursor[s],
                                        rec |-> w[p].rec, late |-> FALSE]]
              /\ UNCHANGED <<dropped, refused>>
    /\ UNCHANGED <<active, sealed, slot, d, out, pending, writes, crossed>>

CheckSeal(p) ==
    /\ w[p].pc = "check"
    /\ IF sealed[w[p].slab]
         THEN Refuse(p) /\ UNCHANGED crossed
         ELSE /\ w' = [w EXCEPT ![p].pc = "first"]
              /\ crossed' = (crossed \/ w[p].late)
              /\ UNCHANGED <<dropped, refused>>
    /\ UNCHANGED <<active, cursor, sealed, slot, d, out, pending, writes>>

(* Faulty variant: the flag is raised before the last field. *)
StampEarly(p) ==
    /\ \/ /\ w[p].pc = "first"
          /\ slot' = [slot EXCEPT ![w[p].slab][w[p].idx].a = w[p].rec,
                                  ![w[p].slab][w[p].idx].ready = TRUE]
          /\ w' = [w EXCEPT ![p].pc = "second"]
       \/ /\ w[p].pc = "second"
          /\ slot' = [slot EXCEPT ![w[p].slab][w[p].idx].b = w[p].rec]
          /\ w' = [w EXCEPT ![p] = Resting]
    /\ UNCHANGED <<active, cursor, sealed, d, out, pending, dropped, writes, refused, crossed>>

(* The plain stores, in two parts, and the flag. *)
Stamp(p) ==
    /\ \/ /\ w[p].pc = "first"
          /\ slot' = [slot EXCEPT ![w[p].slab][w[p].idx].a = w[p].rec]
          /\ w' = [w EXCEPT ![p].pc = "second"]
       \/ /\ w[p].pc = "second"
          /\ slot' = [slot EXCEPT ![w[p].slab][w[p].idx].b = w[p].rec]
          /\ w' = [w EXCEPT ![p].pc = "ready"]
       \/ /\ w[p].pc = "ready"
          /\ slot' = [slot EXCEPT ![w[p].slab][w[p].idx].ready = TRUE]
          /\ w' = [w EXCEPT ![p] = Resting]
    /\ UNCHANGED <<active, cursor, sealed, d, out, pending, dropped, writes, refused, crossed>>

-----------------------------------------------------------------------------
(* rotateSlab, and reset at its end. *)

Seal ==
    /\ d.pc = "idle"
    /\ sealed' = [sealed EXCEPT ![active] = TRUE]
    /\ d' = [pc |-> "advance", slab |-> active]
    /\ UNCHANGED <<active, cursor, slot, w, out, pending, dropped, writes, refused, crossed>>

Advance ==
    /\ d.pc = "advance"
    /\ active' = (d.slab + 1) % SlabCount
    /\ d' = [d EXCEPT !.pc = "count"]
    /\ UNCHANGED <<cursor, sealed, slot, w, out, pending, dropped, writes, refused, crossed>>

Snapshot ==
    LET n == cursor[d.slab] IN
    /\ d.pc = "count"
    /\ d' = [pc |-> IF n = 0 THEN "rearm" ELSE "collect", slab |-> d.slab, i |-> 0,
             count |-> IF n > SlabCap THEN SlabCap ELSE n]
    /\ UNCHANGED <<active, cursor, sealed, slot, w, out, pending, dropped, writes, refused, crossed>>

(* The records on their way into slot i of slab s. *)
Underway(s, i) ==
    {w[p].rec : p \in {x \in Writers : /\ w[x].pc \notin {"idle", "claim"} /\ ~w[x].late
                                      /\ w[x].slab = s /\ w[x].idx = i}}

(* Slot i when it is ready, or when the deadline has passed. *)
Collect(late) ==
    LET x == slot[d.slab][d.i] IN
    /\ d.pc = "collect" /\ d.i < d.count
    /\ x.ready = ~late
    /\ out' = IF late THEN out ELSE Append(out, <<x.a, x.b>>)
    /\ pending' = IF late THEN pending ELSE pending + 1
    /\ dropped' = IF late THEN dropped + 1 ELSE dropped
    /\ refused' = IF late THEN refused \cup Underway(d.slab, d.i) ELSE refused
    /\ d' = [d EXCEPT !.i = @ + 1]
    /\ UNCHANGED <<active, cursor, sealed, slot, w, writes, crossed>>

(* A writer still filling its slot, which was given up, is overtaken. *)
ClearFlags ==
    /\ d.pc = "collect" /\ d.i = d.count
    /\ slot' = [slot EXCEPT ![d.slab] =
                  [i \in Indices |-> IF i < d.count THEN [@[i] EXCEPT !.ready = FALSE] ELSE @[i]]]
    /\ d' = [d EXCEPT !.pc = "rearm"]
    /\ crossed' = (crossed \/ \E p \in Writers : w[p].pc \in {"first", "second", "ready"} /\ w[p].slab = d.slab)
    /\ UNCHANGED <<active, cursor, sealed, w, out, pending, dropped, writes, refused>>

(* From here on claims start at 0 again: a writer before its check is      *)
(* overtaken if it finds the seal gone.                                    *)
ClearCursor ==
    /\ d.pc = "rearm"
    /\ cursor' = [cursor EXCEPT ![d.slab] = 0]
    /\ d' = [d EXCEPT !.pc = "unseal"]
    /\ w' = [p \in Writers |->
               IF w[p].pc = "check" /\ w[p].slab = d.slab THEN [w[p] EXCEPT !.late = TRUE] ELSE w[p]]
    /\ UNCHANGED <<active, sealed, slot, out, pending, dropped, writes, refused, crossed>>

(* The seal goes, and a batch that is large enough to the store; an error  *)
(* of the store is ignored.                                                *)
Unseal ==
    /\ d.pc = "unseal"
    /\ sealed' = [sealed EXCEPT ![d.slab] = FALSE]
    /\ d' = [pc |-> "idle"]
    /\ pending' = IF pending >= BatchSize THEN 0 ELSE pending
    /\ UNCHANGED <<active, cursor, slot, w, out, dropped, writes, refused, crossed>>

(* flushTick. *)
Flush ==
    /\ d.pc = "idle" /\ pending > 0
    /\ pending' = 0
    /\ UNCHANGED <<active, cursor, sealed, slot, w, d, out, dropped, writes, refused, crossed>>

Rotate ==
    Seal \/ Advance \/ Snapshot \/ ClearFlags \/ ClearCursor \/ Unseal \/ Flush
        \/ (\E late \in BOOLEAN : Collect(late))

Next == Rotate \/ \E p \in Writers : Load(p) \/ Claim(p) \/ CheckSeal(p) \/ Stamp(p)

Spec == Init /\ [][Next]_vars

-----------------------------------------------------------------------------
(* Properties. *)

TypeOK ==
    /\ active \in Slabs /\ cursor \in [Slabs -> 0..MaxWrites] /\ sealed \in [Slabs -> BOOLEAN]
    /\ slot \in [Slabs -> [Indices -> [a : 0..MaxWrites, b : 0..MaxWrites, ready : BOOLEAN]]]
    /\ pending \in 0..Len(out) /\ dropped \in Nat /\ refused \subseteq 1..MaxWrites

(* As long as no writer was overtaken by a rearmed slab, the batch gets    *)
(* whole records and each of them once, in any interleaving of claims with *)
(* the seal, the count and the reset: a ready flag always speaks for its   *)
(* own slot's record.                                                      *)
ExactRecords ==
    ~crossed => /\ \A i \in DOMAIN out : out[i][1] = out[i][2]
                /\ IsInjective(out)

(* Nothing is lost silently: a record whose write returned has been        *)
(* collected, or refused and counted, or is ready in a slot below the      *)
(* cursor of its slab, which this rotation or the slab's next one takes.   *)
(* A write that claims between the seal and the reset included.            *)
Held(r) ==
    \E s \in Slabs, i \in Indices :
        /\ slot[s][i] = [a |-> r, b |-> r, ready |-> TRUE]
        /\ i < cursor[s]
        /\ d.pc \in {"collect", "rearm"} /\ d.slab = s => d.i <= i /\ i < d.count
Accounted ==
    LET returned == 1..writes \ {w[p].rec : p \in {x \in Writers : w[x].pc # "idle"}}
    IN  ~crossed => /\ \A r \in returned : r \in refused \/ Contains(out, <<r, r>>) \/ Held(r)
                    /\ Cardinality(refused) <= dropped
=============================================================================
