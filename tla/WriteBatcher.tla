---------------------------- MODULE WriteBatcher ----------------------------
(***************************************************************************)
(* The batching Postgres store (internal/datastore/postgres_batcher.go,    *)
(* postgres_write_buffer.go, postgres_batching_store.go): callers post     *)
(* puts, deletes and gets to two dispatch goroutines, and a write buffer   *)
(* in front answers reads of keys being written.                           *)
(*                                                                         *)
(* A put's value is the number of the write; 0 is an absent key.  One      *)
(* tenant.  The buffer's methods run under its mutex and are one step      *)
(* each.  A dispatcher's drain of its inbox is one step, taken when the    *)
(* inbox has run dry or the batch is full; the database (external) takes   *)
(* one step per query, and a query that fails may have been applied.       *)
(***************************************************************************)
EXTENDS Integers, FiniteSets, Sequences, SequencesExt

CONSTANTS
    Callers, Keys,
    MaxBatch,
    InboxCap,    \* maxBatch * 4
    MaxOps,      \* bound on the writes
    MaxGets      \* bound on the reads

BatcherAssumption == /\ IsFiniteSet(Callers) /\ IsFiniteSet(Keys)
                     /\ MaxBatch \in Nat \ {0} /\ InboxCap \in Nat \ {0} /\ {MaxOps, MaxGets} \subseteq Nat

VARIABLES
    db,         \* the table
    pending,    \* buf.pending, 0 for a key without an entry
    deletes,    \* buf.deletePending
    recent,     \* buf.recent
    inbox, flush, writerUp,
    gets, readerUp,
    call,       \* the callers
    ops, reads, \* how many writes and reads have begun
    may,        \* history: what the table may hold of a key that is not being written
    mixed       \* history: keys whose writes have overlapped since the last one that began alone

buffer == <<pending, deletes, recent>>
writer == <<inbox, flush, writerUp>>
reader == <<gets, readerUp>>
vars == <<db, buffer, writer, reader, call, ops, reads, may, mixed>>

Values == 0..MaxOps
Idle == [pc |-> "idle"]
Resting == [pc |-> "idle", batch |-> <<>>, todo |-> <<>>, failed |-> FALSE]

(* The requests of writes that are neither flushed nor withdrawn. *)
InFlight(k) ==
    {q \in ToSet(inbox) \cup ToSet(flush.batch) : q.key = k}
      \cup {call[c].req : c \in {x \in Callers : call[x].pc = "send" /\ call[x].req.key = k}}

Init ==
    /\ db = [k \in Keys |-> 0]
    /\ pending = [k \in Keys |-> 0] /\ deletes = {} /\ recent = [k \in Keys |-> 0]
    /\ inbox = <<>> /\ flush = Resting /\ writerUp = TRUE
    /\ gets = {} /\ readerUp = TRUE
    /\ call = [c \in Callers |-> Idle] /\ ops = 0 /\ reads = 0
    /\ may = [k \in Keys |-> {0}] /\ mixed = {}

-----------------------------------------------------------------------------
(* The write buffer. *)

SetPending(k, v) ==
    /\ pending' = [pending EXCEPT ![k] = v]
    /\ deletes' = deletes \ {k}
    /\ UNCHANGED recent

SetDeletePending(k) ==
    /\ pending' = [pending EXCEPT ![k] = 0]
    /\ deletes' = deletes \cup {k}
    /\ UNCHANGED recent

(* Lookup: Miss where the buffer knows nothing of the key. *)
Miss == -1

Lookup(k) ==
    IF k \in deletes THEN 0
    ELSE IF pending[k] # 0 THEN pending[k]
    ELSE IF recent[k] # 0 THEN recent[k] ELSE Miss

PutKeys(batch) == {q.key : q \in {x \in ToSet(batch) : ~x.del}}
DeletedKeys(batch) == {q.key : q \in {x \in ToSet(batch) : x.del}}

(* The value of the last put of k in the batch. *)
LastPut(batch, k) ==
    LET puts == {i \in DOMAIN batch : batch[i].key = k /\ ~batch[i].del}
    IN  batch[Max(puts)].id

(* Remove, and what Rotate does to the pending entries. *)
RemoveEntries(puts, dels) ==
    /\ pending' = [k \in Keys |-> IF k \in puts THEN 0 ELSE pending[k]]
    /\ deletes' = deletes \ dels

(* Faulty variant: entries of earlier batches stay. *)
RotateMerges(batch) ==
    /\ recent' = [k \in Keys |-> IF k \in PutKeys(batch) THEN LastPut(batch, k) ELSE recent[k]]
    /\ RemoveEntries(PutKeys(batch), DeletedKeys(batch))

Rotate(batch) ==
    /\ recent' = [k \in Keys |-> IF k \in PutKeys(batch) THEN LastPut(batch, k) ELSE 0]
    /\ RemoveEntries(PutKeys(batch), DeletedKeys(batch))

-----------------------------------------------------------------------------
(* Put and Delete. *)

(* What the write does to the history: overlapping writes of a key may     *)
(* leave anything, and reads of the key that are under way may see it.     *)
Begun(k) ==
    LET overlaps == InFlight(k) # {}
    IN  /\ mixed' = IF overlaps THEN mixed \cup {k} ELSE mixed \ {k}
        /\ may' = IF overlaps THEN [may EXCEPT ![k] = Values] ELSE may

Seeing(k, v) ==
    [x \in Callers |->
        IF call[x].pc \in {"rsend", "rwait", "direct"} /\ call[x].key = k
          THEN [call[x] EXCEPT !.seen = @ \cup (IF InFlight(k) # {} THEN Values ELSE {v})]
          ELSE call[x]]

StartWrite(c, k, del) ==
    LET v == IF del THEN 0 ELSE ops + 1
        req == [id |-> ops + 1, key |-> k, del |-> del, from |-> c]
    IN
    /\ call[c].pc = "idle" /\ ops < MaxOps
    /\ ops' = ops + 1
    /\ call' = [Seeing(k, v) EXCEPT ![c] = [pc |-> "send", req |-> req]]
    /\ IF del THEN SetDeletePending(k) ELSE SetPending(k, v)
    /\ Begun(k)
    /\ UNCHANGED <<db, writer, reader, reads>>

Send(c) ==
    /\ call[c].pc = "send" /\ Len(inbox) < InboxCap
    /\ inbox' = Append(inbox, call[c].req)
    /\ call' = [call EXCEPT ![c].pc = "wait"]
    /\ UNCHANGED <<db, buffer, flush, writerUp, reader, ops, reads, may, mixed>>

(* The caller's context ends before the request is in the inbox, ... *)
GiveUpSend(c) ==
    /\ call[c].pc = "send"
    /\ LET q == call[c].req IN IF q.del THEN RemoveEntries({}, {q.key}) ELSE RemoveEntries({q.key}, {})
    /\ call' = [call EXCEPT ![c] = Idle]
    /\ UNCHANGED <<db, recent, writer, reader, ops, reads, may, mixed>>

(* ... or afterwards.  A write stays in the inbox; a read is answered to   *)
(* nobody.                                                                 *)
GiveUpWait(c) ==
    /\ call[c].pc \in {"wait", "rsend", "rwait"}
    /\ call' = [call EXCEPT ![c] = Idle]
    /\ gets' = gets \ {c}
    /\ UNCHANGED <<db, buffer, writer, readerUp, ops, reads, may, mixed>>

-----------------------------------------------------------------------------
(* The dispatch goroutine of the writes. *)

TakeBatch ==
    /\ writerUp /\ flush.pc = "idle" /\ inbox # <<>>
    /\ LET n == IF Len(inbox) < MaxBatch THEN Len(inbox) ELSE MaxBatch
           batch == SubSeq(inbox, 1, n)
       IN  /\ flush' = [pc |-> IF PutKeys(batch) = {} THEN "deletes" ELSE "puts", batch |-> batch,
                        todo |-> SelectSeq(batch, LAMBDA q : q.del), failed |-> FALSE]
           /\ inbox' = SubSeq(inbox, n + 1, Len(inbox))
    /\ UNCHANGED <<db, buffer, writerUp, reader, call, ops, reads, may, mixed>>

Applied == [k \in Keys |-> IF k \in PutKeys(flush.batch) THEN LastPut(flush.batch, k) ELSE db[k]]

(* MultiPut, one statement: the puts of the batch, the last one of a key. *)
FlushPuts(ok) ==
    /\ flush.pc = "puts"
    /\ db' \in IF ok THEN {Applied} ELSE {db, Applied}
    /\ flush' = [flush EXCEPT !.pc = "deletes", !.failed = ~ok]
    /\ UNCHANGED <<buffer, inbox, writerUp, reader, call, ops, reads, may, mixed>>

(* The deletes, one query each, whatever became of the queries before. *)
FlushDelete(ok) ==
    /\ flush.pc = "deletes" /\ flush.todo # <<>>
    /\ LET gone == [db EXCEPT ![Head(flush.todo).key] = 0]
       IN  db' \in IF ok THEN {gone} ELSE {db, gone}
    /\ flush' = [flush EXCEPT !.todo = Tail(@), !.failed = @ \/ ~ok]
    /\ UNCHANGED <<buffer, inbox, writerUp, reader, call, ops, reads, may, mixed>>

SettleBuffer ==
    IF flush.failed
      THEN RemoveEntries(PutKeys(flush.batch), DeletedKeys(flush.batch)) /\ UNCHANGED recent
      ELSE Rotate(flush.batch)

(* What a flushed write leaves in the table, when it was alone. *)
Outcome(q) == IF q.del THEN 0 ELSE q.id
Settled(k) ==
    LET qs == {q \in ToSet(flush.batch) : q.key = k}
    IN  IF qs = {} \/ k \in mixed THEN may[k]
        ELSE (IF flush.failed THEN may[k] ELSE {}) \cup {Outcome(q) : q \in qs}

(* The end of a round: the buffer, then the answers.  A caller that still  *)
(* waits for its request returns.                                          *)
Finish ==
    /\ flush.pc = "deletes" /\ flush.todo = <<>>
    /\ SettleBuffer
    /\ may' = [k \in Keys |-> Settled(k)]
    /\ flush' = Resting
    /\ call' = [c \in Callers |->
                  IF call[c].pc = "wait" /\ call[c].req \in ToSet(flush.batch) THEN Idle ELSE call[c]]
    /\ UNCHANGED <<db, inbox, writerUp, reader, ops, reads, mixed>>

StopWriter ==
    /\ writerUp /\ flush.pc = "idle"
    /\ writerUp' = FALSE
    /\ UNCHANGED <<db, buffer, inbox, flush, reader, call, ops, reads, may, mixed>>

-----------------------------------------------------------------------------
(* Get, and MultiGet for one key. *)

Answer(c, k, v, seen, lost) ==
    call' = [call EXCEPT ![c] = [pc |-> "got", key |-> k, res |-> v, seen |-> seen, lost |-> lost]]

(* What a read beginning now may return. *)
Visible(k) == may[k] \cup {Outcome(q) : q \in InFlight(k)}

StartRead(c, k, next) ==
    /\ call[c].pc = "idle" /\ reads < MaxGets
    /\ reads' = reads + 1
    /\ IF Lookup(k) # Miss
         THEN Answer(c, k, Lookup(k), Visible(k), FALSE)
         ELSE call' = [call EXCEPT ![c] = [pc |-> next, key |-> k, seen |-> Visible(k)]]
    /\ UNCHANGED <<db, buffer, writer, reader, ops, may, mixed>>

SendGet(c) ==
    /\ call[c].pc = "rsend"
    /\ gets' = gets \cup {c}
    /\ call' = [call EXCEPT ![c].pc = "rwait"]
    /\ UNCHANGED <<db, buffer, writer, readerUp, ops, reads, may, mixed>>

(* The read dispatcher takes what waits, the keys of it once each, and     *)
(* fans the result of its query out.  A failed query is answered as if the *)
(* keys were absent.                                                       *)
FlushGets(ok) ==
    /\ readerUp /\ gets # {}
    /\ \E batch \in SUBSET gets :
         /\ Cardinality(batch) = IF Cardinality(gets) < MaxBatch THEN Cardinality(gets) ELSE MaxBatch
         /\ gets' = gets \ batch
         /\ call' = [c \in Callers |->
                       IF c \in batch
                         THEN [pc |-> "got", key |-> call[c].key, seen |-> call[c].seen,
                               res |-> IF ok THEN db[call[c].key] ELSE 0, lost |-> ~ok]
                         ELSE call[c]]
    /\ UNCHANGED <<db, buffer, writer, readerUp, ops, reads, may, mixed>>

(* MultiGet asks the database itself and passes an error on. *)
DirectGet(c) ==
    /\ call[c].pc = "direct"
    /\ \/ Answer(c, call[c].key, db[call[c].key], call[c].seen, FALSE)
       \/ call' = [call EXCEPT ![c] = Idle]
    /\ UNCHANGED <<db, buffer, writer, reader, ops, reads, may, mixed>>

Return(c) ==
    /\ call[c].pc = "got"
    /\ call' = [call EXCEPT ![c] = Idle]
    /\ UNCHANGED <<db, buffer, writer, reader, ops, reads, may, mixed>>

StopReader ==
    /\ readerUp
    /\ readerUp' = FALSE
    /\ UNCHANGED <<db, buffer, writer, gets, call, ops, reads, may, mixed>>

-----------------------------------------------------------------------------
Write(c) ==
    \/ \E k \in Keys, del \in BOOLEAN : StartWrite(c, k, del)
    \/ Send(c) \/ GiveUpSend(c) \/ GiveUpWait(c)

Read(c) ==
    \/ \E k \in Keys, next \in {"rsend", "direct"} : StartRead(c, k, next)
    \/ SendGet(c) \/ DirectGet(c) \/ Return(c)

Dispatch ==
    \/ TakeBatch \/ Finish \/ StopWriter \/ StopReader
    \/ \E ok \in BOOLEAN : FlushPuts(ok) \/ FlushDelete(ok) \/ FlushGets(ok)

Next == (\E c \in Callers : Write(c) \/ Read(c)) \/ Dispatch

Spec == Init /\ [][Next]_vars

-----------------------------------------------------------------------------
(* Properties. *)

Requests == [id : 1..MaxOps, key : Keys, del : BOOLEAN, from : Callers]

TypeOK ==
    /\ db \in [Keys -> Values] /\ pending \in [Keys -> Values] /\ recent \in [Keys -> Values]
    /\ deletes \subseteq Keys /\ mixed \subseteq Keys /\ may \in [Keys -> SUBSET Values]
    /\ inbox \in Seq(Requests) /\ Len(inbox) <= InboxCap
    /\ flush.batch \in Seq(Requests) /\ Len(flush.batch) <= MaxBatch /\ flush.todo \in Seq(Requests)
    /\ gets \subseteq {c \in Callers : call[c].pc = "rwait"}

(* The buffer holds an entry for a key only while a write of its kind is   *)
(* on its way: whatever calls overlap, are withdrawn or fail, no entry     *)
(* stays behind to hide the table from reads (SetPending, Rotate, Remove). *)
BufferDrains ==
    \A k \in Keys :
       /\ pending[k] # 0 => \E q \in InFlight(k) : ~q.del
       /\ k \in deletes => \E q \in InFlight(k) : q.del

(* A key whose writes do not overlap is exact: once they are answered the  *)
(* table holds the last acknowledged one, or one that failed since, and    *)
(* the buffer agrees, through batches shared with other keys, withdrawn    *)
(* calls and failed queries; a write that begins alone mends a key whose   *)
(* earlier writes did overlap.                                             *)
QuietKeyExact ==
    \A k \in Keys : InFlight(k) = {} =>
        db[k] \in may[k] /\ Lookup(k) \in may[k] \cup {Miss}

(* A read returns what the key held when it began or what was written      *)
(* while it ran, by whichever way it is answered, except when the          *)
(* dispatcher's query failed.                                              *)
ReadIsRegular ==
    \A c \in Callers : call[c].pc = "got" /\ ~call[c].lost => call[c].res \in call[c].seen

(* docs/DATASTORES.md: "keys written via Put are immediately visible to    *)
(* subsequent Get calls via shared write buffer": the buffer answers with  *)
(* the latest put of a key once its request is in the inbox.               *)
Accepted == ToSet(inbox) \cup ToSet(flush.batch)
PutVisible ==
    \A k \in Keys : \A q \in Accepted :
        q.key = k /\ ~q.del /\ (\A r \in InFlight(k) : r.id <= q.id) => Lookup(k) = q.id
=============================================================================
