----------------------------- MODULE CacheTiers -----------------------------
(***************************************************************************)
(* One key of the cache manager (internal/cache/cache_manager.go) across   *)
(* its tiers: the in-memory slab, the queue of backend writes, the batch   *)
(* the writer goroutine has taken, and the backend.  One caller puts, gets *)
(* and invalidates; peers' invalidations arrive from the event stream on a *)
(* goroutine of their own.  The values are the numbers of the puts.        *)
(*                                                                         *)
(* What a put leaves can be overtaken in five ways, and `disturbed`        *)
(* records each at its cause: the queue was full and the write went past   *)
(* it; the value was too large for a slab; the slab lost the entry before  *)
(* the backend had it; a delete, local or a peer's, found a write pending. *)
(***************************************************************************)
EXTENDS Integers, Sequences, SequencesExt

CONSTANTS QueueCap, MaxPuts, MaxPeer

TiersAssumption == {QueueCap, MaxPuts, MaxPeer} \subseteq Nat /\ QueueCap > 0

None == 0

VARIABLES
    l1, backend,
    queue, batch,  \* asyncQueue and what asyncWriteLoop holds
    op,            \* the caller: pc, value, whether the write is a put's
    peer,          \* the consumer's goroutine
    puts, peers,
    latest,        \* history: what the caller last put; None when invalidated
    got,           \* history: what its last Get since returned
    disturbed      \* history

vars == <<l1, backend, queue, batch, op, peer, puts, peers, latest, got, disturbed>>

Idle == [pc |-> "idle", val |-> None]
Pending == queue # <<>> \/ batch # <<>>

Init ==
    /\ l1 = None /\ backend = None /\ queue = <<>> /\ batch = <<>>
    /\ op = Idle /\ peer = "idle"
    /\ puts = 0 /\ peers = 0
    /\ latest = None /\ got = None /\ disturbed = FALSE

(* enqueueWrite: past a full queue straight to the backend.                *)
Enqueue(v) ==
    IF Len(queue) < QueueCap
      THEN queue' = Append(queue, v) /\ UNCHANGED backend
      ELSE backend' = v /\ UNCHANGED queue

(* put, for Put or Update. *)
StartPut ==
    /\ op.pc = "idle" /\ puts < MaxPuts
    /\ puts' = puts + 1 /\ latest' = puts + 1
    /\ Enqueue(puts + 1)
    /\ disturbed' = (disturbed \/ Len(queue) = QueueCap)
    /\ op' = [pc |-> "slab", val |-> puts + 1] /\ got' = None
    /\ UNCHANGED <<l1, batch, peer, peers>>

Slab ==
    /\ op.pc = "slab"
    /\ l1' = op.val
    /\ op' = Idle
    /\ UNCHANGED <<backend, queue, batch, peer, puts, peers, latest, got, disturbed>>

(* Region.Write refuses a value too large for the last size class; put     *)
(* succeeds all the same, on the backend's word.                           *)
SlabRefuses ==
    /\ op.pc = "slab"
    /\ op' = Idle
    /\ disturbed' = TRUE
    /\ UNCHANGED <<l1, backend, queue, batch, peer, puts, peers, latest, got>>

(* The slab is reused or the entry expires. *)
Evict ==
    /\ l1 # None
    /\ l1' = None
    /\ disturbed' = (disturbed \/ Pending \/ op.pc # "idle")
    /\ UNCHANGED <<backend, queue, batch, op, peer, puts, peers, latest, got>>

-----------------------------------------------------------------------------
(* asyncWriteLoop: the first job, then what is there, in one SetBatch. *)

TakeBatch ==
    /\ batch = <<>> /\ queue # <<>>
    /\ batch' = queue /\ queue' = <<>>
    /\ UNCHANGED <<l1, backend, op, peer, puts, peers, latest, got, disturbed>>

(* Redis runs the pipeline in order; the disk backend writes the entries   *)
(* of a batch concurrently, and any of them may be the one that stays.     *)
Flush ==
    /\ batch # <<>>
    /\ \E v \in ToSet(batch) : backend' = v /\ disturbed' = (disturbed \/ v # Last(batch))
    /\ batch' = <<>>
    /\ UNCHANGED <<l1, queue, op, peer, puts, peers, latest, got>>

-----------------------------------------------------------------------------
(* Get: a miss falls through to the backend, and what it has warms the slab *)
(* through Update.                                                          *)
GetHit ==
    /\ op.pc = "idle" /\ l1 # None
    /\ got' = l1
    /\ UNCHANGED <<l1, backend, queue, batch, op, peer, puts, peers, latest, disturbed>>

GetMiss ==
    /\ op.pc = "idle" /\ l1 = None
    /\ got' = backend
    /\ op' = IF backend = None THEN Idle ELSE [pc |-> "warm", val |-> backend]
    /\ UNCHANGED <<l1, backend, queue, batch, peer, puts, peers, latest, disturbed>>

Warm ==
    /\ op.pc = "warm"
    /\ Enqueue(op.val)
    /\ op' = [op EXCEPT !.pc = "slab"]
    /\ disturbed' = (disturbed \/ Len(queue) = QueueCap)
    /\ UNCHANGED <<l1, batch, peer, puts, peers, latest, got>>

-----------------------------------------------------------------------------
(* Invalidate, and InvalidateLocal for a peer's event: the slab's entry,   *)
(* then the backend's.                                                     *)
Invalidate ==
    /\ op.pc = "idle"
    /\ l1' = None
    /\ op' = [pc |-> "delete", val |-> None]
    /\ latest' = None /\ got' = None
    /\ disturbed' = (disturbed \/ Pending)
    /\ UNCHANGED <<backend, queue, batch, peer, puts, peers>>

Delete ==
    /\ op.pc = "delete"
    /\ backend' = None
    /\ op' = Idle
    /\ UNCHANGED <<l1, queue, batch, peer, puts, peers, latest, got, disturbed>>

PeerEvent ==
    /\ peer = "idle" /\ peers < MaxPeer
    /\ l1' = None /\ peer' = "delete" /\ peers' = peers + 1
    /\ disturbed' = (disturbed \/ Pending \/ op.pc # "idle")
    /\ UNCHANGED <<backend, queue, batch, op, puts, latest, got>>

PeerDelete ==
    /\ peer = "delete"
    /\ backend' = None /\ peer' = "idle"
    /\ UNCHANGED <<l1, queue, batch, op, puts, peers, latest, got, disturbed>>

-----------------------------------------------------------------------------
Next ==
    \/ StartPut \/ Slab \/ SlabRefuses \/ Evict
    \/ TakeBatch \/ Flush
    \/ GetHit \/ GetMiss \/ Warm
    \/ Invalidate \/ Delete \/ PeerEvent \/ PeerDelete

Spec == Init /\ [][Next]_vars

-----------------------------------------------------------------------------
(* Properties. *)

(* Undisturbed, a Get returns what was last put or a miss, from whichever  *)
(* tier, however puts, gets, evictions and deletes follow one another.     *)
ReadsLatest == ~disturbed => got \in {None, latest}

(* Undisturbed and at rest, what the backend has is what was last put.     *)
BackendSettles == ~disturbed /\ ~Pending /\ op.pc = "idle" => backend \in {None, latest}

(* Invalidate "removes (tenantID, key) from the L1 index and deletes it    *)
(* from the backend": with no put since, nothing brings it back.           *)
InvalidatedIsGone == op.pc = "idle" /\ puts > 0 /\ latest = None => got = None
=============================================================================
