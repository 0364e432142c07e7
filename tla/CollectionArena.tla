-------------------------- MODULE CollectionArena ---------------------------
(***************************************************************************)
(* The rows of one collection (internal/datacache): Arena's allocation and *)
(* deletion of rows (arena.go), appends with the ring that evicts the      *)
(* oldest row of a windowed collection, TrimOldest (access.go) and the     *)
(* growth of a full one (manager.go).  freeMu protects the free list and   *)
(* the size alone: the live count, the eviction cursor and the rows'       *)
(* contents change outside it.                                             *)
(*                                                                         *)
(* A record is the number of its append; 0 is a row never written.         *)
(***************************************************************************)
EXTENDS Integers, Sequences, FiniteSets, SequencesExt, FiniteSetsExt

CONSTANTS
    Appenders,
    Window,         \* window_size of the windowed instance
    Capacity,       \* capacity at creation
    MaxCap,         \* capacity it may grow to (growth = auto)
    MaxBatch,       \* rows of a batch append
    MaxCalls        \* bound: appends and trims

ArenaAssumption ==
    /\ Window \in 1..Capacity /\ Capacity <= MaxCap
    /\ MaxBatch \in Nat \ {0} /\ MaxCalls \in Nat

VARIABLES
    window,         \* meta.WindowSize: 0, or Window
    cap, size,      \* Cap, Size
    live,           \* LiveCount
    freeRows,
    buf,            \* the row contents
    head,           \* ringHead
    app,            \* per appender: its call
    trim,           \* a TrimOldest under way: next row, rows to go
    calls,
    recs,           \* history: records accepted
    gone,           \* history: records deleted by an eviction or a trim
    hit,            \* history: a row was deleted while an appender held it
    missed,         \* history: a row changed between growth's copy and its swap
    mixed           \* history: two calls overlapped, or rows were trimmed

vars == <<window, cap, size, live, freeRows, buf, head, app, trim, calls, recs, gone, hit, missed, mixed>>

Rows == 0..(MaxCap - 1)
Idle == [pc |-> "idle"]
NoTrim == [pc |-> "idle"]

Init ==
    /\ window \in {0, Window}
    /\ cap = Capacity /\ size = 0 /\ live = 0 /\ freeRows = <<>>
    /\ buf = [r \in Rows |-> 0] /\ head = 0
    /\ app = [a \in Appenders |-> Idle] /\ trim = NoTrim
    /\ calls = 0 /\ recs = 0 /\ gone = {} /\ hit = FALSE /\ missed = FALSE /\ mixed = FALSE

Live(r) == r < size /\ ~Contains(freeRows, r)
LiveRows == {r \in Rows : Live(r)}
Step(a, pc) == app' = [app EXCEPT ![a].pc = pc]

(* The rows an appender was given and has not filled yet. *)
Held(a) == IF app[a].pc \in {"count", "write", "uncount"} THEN ToSet(app[a].rows) ELSE {}
Copying(a) == app[a].pc = "swap"
Quiet == trim.pc = "idle" /\ \A a \in Appenders : app[a].pc = "idle"

-----------------------------------------------------------------------------
(* Delete, up to the unlock: a row out of range or free already is left    *)
(* alone.                                                                  *)
DeleteRow(r) ==
    /\ freeRows' = IF Live(r) THEN Append(freeRows, r) ELSE freeRows
    /\ gone' = IF Live(r) THEN gone \cup {buf[r]} ELSE gone
    /\ hit' = (hit \/ (Live(r) /\ \E a \in Appenders : r \in Held(a)))

(* AppendVals, AppendJSON(Batch): the ring evicts when the window is full. *)
StartAppend(a) ==
    /\ app[a].pc = "idle" /\ calls < MaxCalls /\ calls' = calls + 1
    /\ \E n \in 1..(IF window = 0 THEN MaxBatch ELSE 1) :
          app' = [app EXCEPT ![a] =
            [pc |-> IF window > 0 /\ live >= window THEN "evict" ELSE "alloc", n |-> n, rows |-> <<>>,
             retried |-> FALSE, copy |-> <<>>, newCap |-> 0]]
    /\ mixed' = (mixed \/ ~Quiet)
    /\ UNCHANGED <<window, cap, size, live, freeRows, buf, head, trim, recs, gone, hit, missed>>

Evict(a) ==
    LET r == head % window IN
    /\ app[a].pc = "evict"
    /\ DeleteRow(r)
    /\ Step(a, IF Live(r) THEN "uncountEvicted" ELSE "advance")
    /\ UNCHANGED <<window, cap, size, live, buf, head, trim, recs, missed, mixed, calls>>

UncountEvicted(a) ==
    /\ app[a].pc = "uncountEvicted"
    /\ live' = live - 1
    /\ Step(a, "advance")
    /\ UNCHANGED <<window, cap, size, freeRows, buf, head, trim, recs, gone, hit, missed, mixed, calls>>

Advance(a) ==
    /\ app[a].pc = "advance"
    /\ head' = head + 1
    /\ Step(a, "alloc")
    /\ UNCHANGED <<window, cap, size, live, freeRows, buf, trim, recs, gone, hit, missed, mixed, calls>>

NoRoom(n) == size + n > cap

(* allocRows: free rows from the end of the list, then rows past the size; *)
(* too few, and the rows taken go back.                                    *)
AllocRows(a) ==
    LET n == app[a].n
        reused == Min({n, Len(freeRows)})
        left == SubSeq(freeRows, 1, Len(freeRows) - reused)
        taken == [i \in 1..reused |-> freeRows[Len(freeRows) - i + 1]]
        fresh == [i \in 1..(n - reused) |-> size + i - 1]
    IN
    /\ app[a].pc = "alloc"
    /\ IF reused < n /\ NoRoom(n - reused)
         THEN /\ freeRows' = left \o taken
              /\ UNCHANGED size
              /\ app' = [app EXCEPT ![a] =
                   IF window > 0 \/ app[a].retried THEN Idle ELSE [@ EXCEPT !.pc = "grow"]]
         ELSE /\ freeRows' = left
              /\ size' = size + n - reused
              /\ app' = [app EXCEPT ![a] = [@ EXCEPT !.pc = "count", !.rows = taken \o fresh]]
    /\ UNCHANGED <<window, cap, live, buf, head, trim, recs, gone, hit, missed, mixed, calls>>

Count(a) ==
    /\ app[a].pc = "count"
    /\ live' = live + app[a].n
    /\ Step(a, "write")
    /\ UNCHANGED <<window, cap, size, freeRows, buf, head, trim, recs, gone, hit, missed, mixed, calls>>

(* writeRow of every row. *)
Write(a) ==
    /\ app[a].pc = "write"
    /\ buf' = [r \in Rows |->
                 IF r \in ToSet(app[a].rows) THEN recs + CHOOSE i \in 1..app[a].n : app[a].rows[i] = r
                 ELSE buf[r]]
    /\ recs' = recs + app[a].n
    /\ missed' = (missed \/ \E b \in Appenders : Copying(b))
    /\ app' = [app EXCEPT ![a] = Idle]
    /\ UNCHANGED <<window, cap, size, live, freeRows, head, trim, gone, hit, mixed, calls>>

(* A value of the wrong type: the rows go back. *)
WriteFails(a) ==
    /\ app[a].pc = "write"
    /\ freeRows' = freeRows \o app[a].rows
    /\ app' = [app EXCEPT ![a] = [@ EXCEPT !.pc = "uncount", !.rows = <<>>]]
    /\ UNCHANGED <<window, cap, size, live, buf, head, trim, recs, gone, hit, missed, mixed, calls>>

Uncount(a) ==
    /\ app[a].pc = "uncount"
    /\ live' = live - app[a].n
    /\ app' = [app EXCEPT ![a] = Idle]
    /\ UNCHANGED <<window, cap, size, freeRows, buf, head, trim, recs, gone, hit, missed, mixed, calls>>

(* growCollection: refused (no room under MaxCap, no quota), or the rows   *)
(* are copied outside the lock and the arena replaced under it; then the   *)
(* append is tried again.                                                  *)
GrowRefused(a) ==
    /\ app[a].pc = "grow"
    /\ app' = [app EXCEPT ![a] = Idle]
    /\ UNCHANGED <<window, cap, size, live, freeRows, buf, head, trim, recs, gone, hit, missed, mixed, calls>>

(* Faulty variant: the last row is not copied. *)
GrowCopyShort(a) ==
    /\ app[a].pc = "grow" /\ cap < MaxCap
    /\ app' = [app EXCEPT ![a] = [@ EXCEPT !.pc = "swap", !.newCap = Min({2 * cap, MaxCap}),
                 !.copy = [r \in Rows |-> IF r < size - 1 THEN buf[r] ELSE 0]]]
    /\ UNCHANGED <<window, cap, size, live, freeRows, buf, head, trim, recs, gone, hit, missed, mixed, calls>>

GrowCopy(a) ==
    /\ app[a].pc = "grow" /\ cap < MaxCap
    /\ app' = [app EXCEPT ![a] = [@ EXCEPT !.pc = "swap", !.newCap = Min({2 * cap, MaxCap}),
                 !.copy = [r \in Rows |-> IF r < size THEN buf[r] ELSE 0]]]
    /\ UNCHANGED <<window, cap, size, live, freeRows, buf, head, trim, recs, gone, hit, missed, mixed, calls>>

GrowSwap(a) ==
    /\ app[a].pc = "swap"
    /\ buf' = app[a].copy
    /\ cap' = app[a].newCap
    /\ app' = [app EXCEPT ![a] = [@ EXCEPT !.pc = "alloc", !.retried = TRUE, !.copy = <<>>]]
    /\ UNCHANGED <<window, size, live, freeRows, head, trim, recs, gone, hit, missed, mixed, calls>>

-----------------------------------------------------------------------------
(* TrimOldest: the first n live rows in row order. *)
StartTrim(n) ==
    /\ trim.pc = "idle" /\ calls < MaxCalls /\ calls' = calls + 1
    /\ trim' = [pc |-> "row", row |-> 0, size |-> size, n |-> n]
    /\ mixed' = TRUE
    /\ UNCHANGED <<window, cap, size, live, freeRows, buf, head, app, recs, gone, hit, missed>>

TrimRow ==
    /\ trim.pc = "row"
    /\ IF trim.row = trim.size \/ trim.n = 0
         THEN trim' = NoTrim /\ UNCHANGED <<freeRows, gone, hit>>
         ELSE /\ DeleteRow(trim.row)
              /\ trim' = [trim EXCEPT !.row = @ + 1, !.n = IF Live(trim.row) THEN @ - 1 ELSE @,
                                      !.pc = IF Live(trim.row) THEN "uncount" ELSE "row"]
    /\ UNCHANGED <<window, cap, size, live, buf, head, app, recs, missed, mixed, calls>>

TrimUncount ==
    /\ trim.pc = "uncount"
    /\ live' = live - 1
    /\ trim' = [trim EXCEPT !.pc = "row"]
    /\ UNCHANGED <<window, cap, size, freeRows, buf, head, app, recs, gone, hit, missed, mixed, calls>>

-----------------------------------------------------------------------------
Appending(a) ==
    \/ StartAppend(a) \/ Evict(a) \/ UncountEvicted(a) \/ Advance(a) \/ AllocRows(a) \/ Count(a)
    \/ Write(a) \/ WriteFails(a) \/ Uncount(a) \/ GrowRefused(a) \/ GrowCopy(a) \/ GrowSwap(a)

Next ==
    \/ TrimRow \/ TrimUncount \/ \E n \in 1..2 : StartTrim(n)
    \/ \E a \in Appenders : Appending(a)

Spec == Init /\ [][Next]_vars

-----------------------------------------------------------------------------
(* Properties. *)

TypeOK ==
    /\ cap \in Capacity..MaxCap /\ size \in 0..cap /\ live \in Int /\ head \in Nat
    /\ freeRows \in Seq(Rows) /\ \A r \in Rows : buf[r] \in 0..(MaxCalls * MaxBatch)

(* Unless a row is deleted while its append is still under way, no row is  *)
(* free twice or handed to two appends, and at rest LiveCount is the       *)
(* number of live rows: through failed batches, trims, evictions, growth.  *)
RowsExclusive ==
    ~hit =>
        /\ IsInjective(freeRows)
        /\ \A a, b \in Appenders : a # b => Held(a) \cap Held(b) = {}
        /\ \A a \in Appenders : Held(a) \cap ToSet(freeRows) = {}
        /\ Quiet => live = Cardinality(LiveRows)

(* Unless a row is also written between growth's copy and its swap, every  *)
(* record accepted and not deleted is in a live row, once.                 *)
RecordsKept ==
    ~hit /\ ~missed /\ Quiet =>
        /\ {buf[r] : r \in LiveRows} = (1..recs) \ gone
        /\ \A r, q \in LiveRows : buf[r] = buf[q] => r = q

(* A windowed collection appended to by one call at a time, and never      *)
(* trimmed, holds its newest records: what is evicted is always the        *)
(* oldest, also after an append that failed.                               *)
WindowIsNewest ==
    window > 0 /\ ~mixed /\ Quiet =>
        /\ Cardinality(LiveRows) <= window
        /\ {buf[r] : r \in LiveRows} = (recs - Cardinality(LiveRows) + 1)..recs

(* access.go says of the eviction: "Ring buffer: evict oldest live row     *)
(* when at window capacity".                                               *)
EvictsOldest ==
    [][\A a \in Appenders : Evict(a) => \A r \in LiveRows : Live(head % window) => buf[head % window] <= buf[r]]_vars
=============================================================================
