--------------------------- MODULE DocumentBatcher ---------------------------
(***************************************************************************)
(* BatchingDocumentProvider (connectors/document/batch_provider.go): Gets  *)
(* and Puts by id are queued, a dispatcher for each drains its queue into  *)
(* batches, and up to maxConcurrent batches of each kind run against the   *)
(* document store at the same time.  With WriteBuffer a Put first enters   *)
(* the pending map, which Gets ask before they queue.                      *)
(*                                                                         *)
(* One document, one upsert flag.  Every Put writes a value of its own,    *)
(* the number of the call; 0 is no document.  A caller may give up at      *)
(* every wait (its context ends), and its request stays where it is.       *)
(* Delete goes to the store alone.                                         *)
(***************************************************************************)
EXTENDS Integers, Sequences, FiniteSets

CONSTANTS
    Callers,
    QueueCap, MaxBatch, MaxConcurrent,
    MaxCalls,   \* bound on the Gets and Puts
    MaxFaults   \* bound on failing batches and on Close

VARIABLES
    buffered,   \* WriteBuffer
    store,      \* the document in the store
    pending,    \* the pending map's entry, 0 when absent
    call,       \* per caller: what it does, and the number of the call
    queue,      \* per kind: the channel
    batch,      \* per kind: what the dispatcher has drained
    loop,       \* per kind: "wait", "drain", "ready" or "gone"
    flight,     \* per kind: the batches that run
    calls, faults, closed,
    before,     \* per caller: the Puts that were acknowledged when its Put began
    acked,      \* the Puts acknowledged without an error
    superseded  \* the acknowledged Puts that an acknowledged Put came after

vars == <<buffered, store, pending, call, queue, batch, loop, flight, calls, faults, closed,
          before, acked, superseded>>
history == <<before, acked, superseded>>
channels == <<queue, batch, loop, flight>>

BatcherAssumption == QueueCap \in Nat \ {0} /\ MaxBatch \in Nat \ {0} /\ MaxConcurrent \in Nat \ {0}

Kinds == {"get", "put"}
Ids == 1 .. MaxCalls
Idle == [pc |-> "idle", kind |-> "get", id |-> 0]
Entries == [caller : Callers, id : Ids]

TypeOK ==
    /\ buffered \in BOOLEAN /\ closed \in BOOLEAN
    /\ store \in 0 .. MaxCalls /\ pending \in 0 .. MaxCalls
    /\ call \in [Callers -> [pc : {"idle", "send", "wait"}, kind : Kinds, id : 0 .. MaxCalls]]
    /\ \A k \in Kinds :
          /\ queue[k] \in Seq(Entries) /\ Len(queue[k]) <= QueueCap
          /\ batch[k] \in Seq(Entries) /\ Len(batch[k]) <= MaxBatch
          /\ loop[k] \in {"wait", "drain", "ready", "gone"}
          /\ Cardinality(flight[k]) <= MaxConcurrent
    /\ calls \in 0 .. MaxCalls /\ faults \in 0 .. MaxFaults
    /\ before \in [Callers -> SUBSET Ids] /\ acked \subseteq Ids /\ superseded \subseteq acked

Init ==
    /\ buffered \in BOOLEAN /\ closed = FALSE
    /\ store = 0 /\ pending = 0
    /\ call = [c \in Callers |-> Idle]
    /\ queue = [k \in Kinds |-> <<>>] /\ batch = [k \in Kinds |-> <<>>]
    /\ loop = [k \in Kinds |-> "wait"] /\ flight = [k \in Kinds |-> {}]
    /\ calls = 0 /\ faults = 0
    /\ before = [c \in Callers |-> {}] /\ acked = {} /\ superseded = {}

-----------------------------------------------------------------------------
Buffer(id) == IF buffered THEN id ELSE pending

\* Put enters the pending map before it queues.
Put(c) ==
    LET id == calls + 1
    IN /\ call[c].pc = "idle" /\ calls < MaxCalls
       /\ calls' = id
       /\ pending' = Buffer(id)
       /\ call' = [call EXCEPT ![c] = [pc |-> "send", kind |-> "put", id |-> id]]
       /\ before' = [before EXCEPT ![c] = acked]
       /\ UNCHANGED <<buffered, store, channels, faults, closed, acked, superseded>>

\* Get returns a pending value at once.
Get(c) ==
    LET id == calls + 1
    IN /\ call[c].pc = "idle" /\ calls < MaxCalls
       /\ calls' = id
       /\ call' = IF buffered /\ pending # 0 THEN call
                  ELSE [call EXCEPT ![c] = [pc |-> "send", kind |-> "get", id |-> id]]
       /\ UNCHANGED <<buffered, store, pending, channels, faults, closed, history>>

\* Delete does not touch the pending map.
Delete(c) ==
    /\ call[c].pc = "idle"
    /\ store' = 0
    /\ UNCHANGED <<buffered, pending, call, channels, calls, faults, closed, history>>

Send(c) ==
    LET k == call[c].kind
    IN /\ call[c].pc = "send"
       /\ Len(queue[k]) < QueueCap
       /\ queue' = [queue EXCEPT ![k] = Append(@, [caller |-> c, id |-> call[c].id])]
       /\ call' = [call EXCEPT ![c].pc = "wait"]
       /\ UNCHANGED <<buffered, store, pending, batch, loop, flight, calls, faults, closed, history>>

\* The caller's context ends.  A Put that could not queue takes the pending
\* entry away, whoever it is of.
GiveUp(c) ==
    /\ call[c].pc \in {"send", "wait"}
    /\ pending' = IF call[c].pc = "send" /\ call[c].kind = "put" /\ buffered THEN 0 ELSE pending
    /\ call' = [call EXCEPT ![c] = Idle]
    /\ before' = [before EXCEPT ![c] = {}]
    /\ UNCHANGED <<buffered, store, channels, calls, faults, closed, acked, superseded>>

-----------------------------------------------------------------------------
\* runReads and runWrites: a first request, then what is queued already.
Drain(k) ==
    /\ loop[k] = "wait" \/ (loop[k] = "drain" /\ Len(batch[k]) < MaxBatch)
    /\ queue[k] # <<>>
    /\ batch' = [batch EXCEPT ![k] = Append(@, Head(queue[k]))]
    /\ queue' = [queue EXCEPT ![k] = Tail(@)]
    /\ loop' = [loop EXCEPT ![k] = "drain"]
    /\ UNCHANGED <<buffered, store, pending, call, flight, calls, faults, closed, history>>

Drained(k) ==
    /\ loop[k] = "drain"
    /\ queue[k] = <<>> \/ Len(batch[k]) = MaxBatch
    /\ loop' = [loop EXCEPT ![k] = "ready"]
    /\ UNCHANGED <<buffered, store, pending, call, queue, batch, flight, calls, faults, closed, history>>

\* The semaphore admits the batch, and the dispatcher goes on.
Dispatch(k) ==
    /\ loop[k] = "ready"
    /\ Cardinality(flight[k]) < MaxConcurrent
    /\ flight' = [flight EXCEPT ![k] = @ \cup {batch[k]}]
    /\ batch' = [batch EXCEPT ![k] = <<>>]
    /\ loop' = [loop EXCEPT ![k] = "wait"]
    /\ UNCHANGED <<buffered, store, pending, call, queue, calls, faults, closed, history>>

\* Close: the dispatchers end where they wait, with what they hold.
Close ==
    /\ ~closed /\ faults < MaxFaults
    /\ closed' = TRUE /\ faults' = faults + 1
    /\ UNCHANGED <<buffered, store, pending, call, channels, calls, history>>

DispatcherEnds(k) ==
    /\ closed
    /\ loop[k] \in {"wait", "ready"}
    /\ loop' = [loop EXCEPT ![k] = "gone"]
    /\ batch' = [batch EXCEPT ![k] = <<>>]
    /\ UNCHANGED <<buffered, store, pending, call, queue, flight, calls, faults, closed, history>>

\* Faulty variant: a batch answers whoever waits for a Put.
WaitsFor(c, b) == call[c].pc = "wait" /\ call[c].kind = "put"

\* Caller c waits for an entry of batch b; an entry whose caller has given
\* up is heard by nobody.
Awaits(c, b) == call[c].pc = "wait" /\ \E j \in DOMAIN b : b[j] = [caller |-> c, id |-> call[c].id]

\* The batch b is over, for those who wait for it.
Answer(k, b) ==
    /\ flight' = [flight EXCEPT ![k] = @ \ {b}]
    /\ call' = [c \in Callers |-> IF Awaits(c, b) THEN Idle ELSE call[c]]
    /\ before' = [c \in Callers |-> IF Awaits(c, b) THEN {} ELSE before[c]]

\* PutMany writes the last value of the batch; it may fail, with or without
\* having written.
WriteBatch ==
    \E b \in flight["put"] :
        LET done == {c \in Callers : Awaits(c, b)}
        IN /\ \/ /\ store' = b[Len(b)].id
                 /\ acked' = acked \cup {call[c].id : c \in done}
                 /\ superseded' = superseded \cup UNION {before[c] : c \in done}
                 /\ UNCHANGED faults
              \/ /\ closed \/ faults < MaxFaults
                 /\ store' \in {store, b[Len(b)].id}
                 /\ faults' = IF closed THEN faults ELSE faults + 1
                 /\ UNCHANGED <<acked, superseded>>
           /\ Answer("put", b)
           /\ UNCHANGED <<buffered, pending, queue, batch, loop, calls, closed>>

\* GetMany asks once for all; the answer is what the store holds, or the
\* error of the batch.
ReadBatch ==
    \E b \in flight["get"] :
        /\ Answer("get", b)
        /\ UNCHANGED <<buffered, store, pending, queue, batch, loop, calls, faults, closed, acked, superseded>>

Next ==
    \/ \E c \in Callers : Put(c) \/ Get(c) \/ Delete(c) \/ Send(c) \/ GiveUp(c)
    \/ \E k \in Kinds : Drain(k) \/ Drained(k) \/ Dispatch(k) \/ DispatcherEnds(k)
    \/ WriteBatch \/ ReadBatch \/ Close

Spec == Init /\ [][Next]_vars

-----------------------------------------------------------------------------
\* Once a later Put is acknowledged, the store never goes back to an
\* acknowledged one from before it began, although batches overtake each
\* other (runWrites).
StoreNotSuperseded == store \notin superseded

\* Nor does a Get find such a value in the pending map, which no flush ever
\* clears (Put, Get).
BufferNotSuperseded == pending \notin superseded
=============================================================================
