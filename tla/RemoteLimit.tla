----------------------------- MODULE RemoteLimit -----------------------------
(***************************************************************************)
(* The distributed rate limit (engine/rate_limit_redis.go and              *)
(* executeDistributed of steps/rate_limit_v2.go): a call queues an entry   *)
(* with a result channel of its own and waits for at most 5 ms; one        *)
(* flusher collects entries, runs them as one Redis pipeline and hands     *)
(* every entry its count.  Whatever goes wrong (a full queue, a late       *)
(* answer, a failed command, Stop) lets the call through.  A call that no  *)
(* longer waits is still counted, and its answer goes to a channel nobody  *)
(* reads.                                                                  *)
(*                                                                         *)
(* One key with one window; every call weighs Delta.                       *)
(***************************************************************************)
EXTENDS Integers, Sequences, FiniteSets

CONSTANTS
    Callers,
    Limit, Delta,   \* the limit of the window, the weight of a call
    QueueCap, BatchMax,
    MaxCalls,       \* bound on the calls
    MaxLives        \* bound on the lives of the key in Redis

VARIABLES
    call,       \* per caller: the number of the call it waits for, or 0
    result,     \* per caller: what is in the channel of that call, a set of at most one
    queue,      \* requestCh: entries [caller, id]
    flusher,    \* "wait", "drain", "exec", "deliver" or "gone"
    batch,      \* the entries collected
    counts,     \* what Redis answered for the batch so far: [life, n] per entry
    counter, life,  \* the key in Redis, and how often it has expired
    stopped,
    calls,      \* calls made so far
    granted     \* per life of the key: the calls let through by their count

vars == <<call, result, queue, flusher, batch, counts, counter, life, stopped, calls, granted>>

RemoteAssumption ==
    /\ Limit \in Nat /\ Delta \in Nat \ {0}
    /\ QueueCap \in Nat \ {0} /\ BatchMax \in Nat \ {0}

Entries == [caller : Callers, id : 1 .. MaxCalls]
Lives == 0 .. MaxLives

TypeOK ==
    /\ call \in [Callers -> 0 .. MaxCalls]
    /\ \A c \in Callers : Cardinality(result[c]) <= 1
    /\ queue \in Seq(Entries) /\ Len(queue) <= QueueCap
    /\ flusher \in {"wait", "drain", "exec", "deliver", "gone"}
    /\ batch \in Seq(Entries) /\ Len(batch) <= BatchMax
    /\ counts \in Seq([life : Lives, n : Nat]) /\ Len(counts) <= Len(batch)
    /\ counter \in 0 .. MaxCalls /\ life \in Lives
    /\ stopped \in BOOLEAN /\ calls \in 0 .. MaxCalls
    /\ granted \in [Lives -> 0 .. MaxCalls]

Init ==
    /\ call = [c \in Callers |-> 0]
    /\ result = [c \in Callers |-> {}]
    /\ queue = <<>> /\ flusher = "wait" /\ batch = <<>> /\ counts = <<>>
    /\ counter = 0 /\ life = 0
    /\ stopped = FALSE /\ calls = 0
    /\ granted = [l \in Lives |-> 0]

-----------------------------------------------------------------------------
\* Faulty variant: the weight is ignored.
ScaledLimitPlain == Limit

\* executeDistributed has no weighted increment: it divides the limit.
ScaledLimit == IF Delta > 1 THEN (Limit \div Delta) + 1 ELSE Limit

\* Check: the send to a full queue lets the call through at once.
Check(c) ==
    /\ call[c] = 0
    /\ calls < MaxCalls
    /\ calls' = calls + 1
    /\ \/ /\ Len(queue) < QueueCap
          /\ queue' = Append(queue, [caller |-> c, id |-> calls + 1])
          /\ call' = [call EXCEPT ![c] = calls + 1]
       \/ /\ Len(queue) = QueueCap
          /\ UNCHANGED <<queue, call>>
    /\ UNCHANGED <<result, flusher, batch, counts, counter, life, stopped, granted>>

\* The answer arrives while the call waits.
Receive(c) ==
    /\ \E r \in result[c] :
          granted' = [granted EXCEPT ![r.life] = @ + (IF r.verdict = "granted" THEN 1 ELSE 0)]
    /\ call' = [call EXCEPT ![c] = 0]
    /\ result' = [result EXCEPT ![c] = {}]
    /\ UNCHANGED <<queue, flusher, batch, counts, counter, life, stopped, calls>>

\* rlCheckTimeout: the call goes through; its channel is garbage.
TimeOut(c) ==
    /\ call[c] # 0
    /\ call' = [call EXCEPT ![c] = 0]
    /\ result' = [result EXCEPT ![c] = {}]
    /\ UNCHANGED <<queue, flusher, batch, counts, counter, life, stopped, calls, granted>>

\* The first entry of a batch starts the deadline, more may join it.
Collect ==
    /\ flusher = "wait" \/ (flusher = "drain" /\ Len(batch) < BatchMax)
    /\ queue # <<>>
    /\ batch' = Append(batch, Head(queue))
    /\ queue' = Tail(queue)
    /\ flusher' = "drain"
    /\ UNCHANGED <<call, result, counts, counter, life, stopped, calls, granted>>

\* The deadline fires, or the batch is full.
Deadline ==
    /\ flusher = "drain"
    /\ flusher' = "exec"
    /\ UNCHANGED <<call, result, queue, batch, counts, counter, life, stopped, calls, granted>>

\* Redis runs the script for the next command of the pipeline.
RunScript ==
    /\ flusher = "exec"
    /\ Len(counts) < Len(batch)
    /\ counter' = counter + 1
    /\ counts' = Append(counts, [life |-> life, n |-> counter + 1])
    /\ UNCHANGED <<call, result, queue, flusher, batch, life, stopped, calls, granted>>

\* The pipeline returns: whole, or cut off with the answers of the last
\* commands missing, whether Redis has run them or not.
PipelineReturns ==
    /\ flusher = "exec"
    /\ \/ Len(counts) = Len(batch) /\ UNCHANGED counts
       \/ \E n \in 0 .. Len(counts) : n < Len(batch) /\ counts' = SubSeq(counts, 1, n)
    /\ flusher' = "deliver"
    /\ UNCHANGED <<call, result, queue, batch, counter, life, stopped, calls, granted>>

\* What an entry is told: a missing answer lets the call through.
Verdict(e) ==
    IF counts = <<>> THEN [id |-> e.id, life |-> 0, verdict |-> "open"]
    ELSE [id |-> e.id, life |-> Head(counts).life,
          verdict |-> IF Head(counts).n <= ScaledLimit THEN "granted" ELSE "denied"]

\* The caller that still waits on the channel of the entry, if there is one.
ChannelOf(e) == {c \in {e.caller} : call[c] = e.id}

\* execBatch hands out the results in order.
Deliver ==
    LET e == Head(batch)
    IN /\ flusher = "deliver"
       /\ result' = [c \in Callers |-> IF c \in ChannelOf(e) THEN {Verdict(e)} ELSE result[c]]
       /\ batch' = Tail(batch)
       /\ counts' = IF counts = <<>> THEN <<>> ELSE Tail(counts)
       /\ flusher' = IF Len(batch) = 1 THEN "wait" ELSE "deliver"
       /\ UNCHANGED <<call, queue, counter, life, stopped, calls, granted>>

\* The TTL of the key ends; the next increment starts a new life.
Expire ==
    /\ counter > 0 /\ life < MaxLives
    /\ counter' = 0
    /\ life' = life + 1
    /\ UNCHANGED <<call, result, queue, flusher, batch, counts, stopped, calls, granted>>

Stop ==
    /\ ~stopped
    /\ stopped' = TRUE
    /\ UNCHANGED <<call, result, queue, flusher, batch, counts, counter, life, calls, granted>>

\* The flusher sees the stop between batches, and abandons the queue, or
\* while it collects, and lets the batch through.
FlusherStops ==
    /\ stopped
    /\ flusher = "wait" \/ (flusher = "drain" /\ Len(batch) < BatchMax)
    /\ flusher' = "gone"
    /\ result' = [c \in Callers |->
          LET mine == {k \in DOMAIN batch : c \in ChannelOf(batch[k])}
          IN IF mine = {} THEN result[c] ELSE {[id |-> call[c], life |-> 0, verdict |-> "open"]}]
    /\ batch' = <<>>
    /\ UNCHANGED <<call, queue, counts, counter, life, stopped, calls, granted>>

Next ==
    \/ \E c \in Callers : Check(c) \/ Receive(c) \/ TimeOut(c)
    \/ Collect \/ Deadline \/ RunScript \/ PipelineReturns \/ Deliver
    \/ Expire \/ Stop \/ FlusherStops

Spec == Init /\ [][Next]_vars

-----------------------------------------------------------------------------
\* The calls that their count lets through in one life of the key weigh no
\* more than the limit, and one weight more when the limit was divided; late
\* answers, lost answers and expiries in between notwithstanding (Check,
\* execBatch, executeDistributed).
RemoteWithinLimit ==
    \A l \in Lives : granted[l] * Delta <= Limit + (IF Delta > 1 THEN Delta ELSE 0)

\* A caller that waits can only be handed the answer of the call it waits
\* for, never the late one of a call it gave up (Check, execBatch).
AnswersOwn == \A c \in Callers : \A r \in result[c] : r.id = call[c]
=============================================================================
