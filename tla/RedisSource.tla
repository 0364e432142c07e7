----------------------------- MODULE RedisSource -----------------------------
(***************************************************************************)
(* The Redis sources that flows read and write (internal/redissource): Get,*)
(* Set and Del put a pooled request into a queue and wait for its answer;  *)
(* one worker for each of the three collects requests into a batch and     *)
(* sends it when it is full or its window ends.  A caller whose context    *)
(* ends goes away, before its request is queued or after.  Other instances,*)
(* MSet, expiry and the operations that go to the client directly change   *)
(* Redis at any time.  A TTL is "expires" or not; a Del has one key.       *)
(***************************************************************************)
EXTENDS Integers, Sequences, FiniteSets, SequencesExt

CONSTANTS Callers,    \* goroutines that call a source
          Keys,       \* full keys
          Vals,       \* what is stored
          None,       \* nil: no such key, no request
          Reqs,       \* request objects; as many as there are calls at most
          BatchMax,   \* batchMax
          QueueCap,   \* capacity of a queue: batchMax * 4
          MaxCalls,   \* bound on the number of calls
          MaxChanges  \* bound on the changes made elsewhere

RedisSourceAssumption ==
    /\ None \notin Vals \cup Reqs
    /\ BatchMax \in Nat \ {0} /\ QueueCap \in Nat \ {0} /\ {MaxCalls, MaxChanges} \subseteq Nat

VARIABLES redis,      \* what Redis holds
          req,        \* the request objects, each with its channel of one answer
          pool,       \* those that are in a sync.Pool
          queue,      \* the three queues
          batch,      \* the three batches
          phase,      \* where the worker of a batch is
          left,       \* pipelined sets still to be sent
          result,     \* what Redis answered to the batch
          caller,     \* what a caller does
          calls,      \* number of calls so far
          changes,    \* number of changes elsewhere
          may,        \* history: values of its key since a caller called
          applied     \* history: requests whose write Redis has done

sVars == <<redis, req, pool, queue, batch, phase, left, result, caller, calls, changes, may, applied>>

Kinds == {"get", "set", "del"}

NoReq == [kind |-> "none", key |-> None, val |-> None, ttl |-> FALSE, resp |-> <<>>]
Rest == [pc |-> "idle", r |-> None]
NoResult == [err |-> FALSE, vals |-> <<>>]

\* Requests nobody refers to: they are collected, and others are made.
Unused == {r \in Reqs : /\ r \notin pool
                        /\ \A c \in Callers : caller[c].r # r
                        /\ \A w \in Kinds : r \notin Range(queue[w]) \cup Range(batch[w])}

Init ==
    /\ redis = [k \in Keys |-> None]
    /\ req = [r \in Reqs |-> NoReq] /\ pool = {}
    /\ queue = [w \in Kinds |-> <<>>] /\ batch = [w \in Kinds |-> <<>>]
    /\ phase = [w \in Kinds |-> "collect"] /\ left = <<>>
    /\ result = [w \in Kinds |-> NoResult]
    /\ caller = [c \in Callers |-> Rest]
    /\ calls = 0 /\ changes = 0
    /\ may = [c \in Callers |-> {}] /\ applied = {}

-----------------------------------------------------------------------------
(* Callers.                                                                *)

\* The pool gives back a request of the kind that was put there, or makes one.
Call(c, kind, k, v, t) ==
    /\ calls < MaxCalls /\ caller[c] = Rest
    /\ \E r \in {x \in pool : req[x].kind = kind} \cup Unused :
         /\ req' = [req EXCEPT ![r] = [kind |-> kind, key |-> k, val |-> v, ttl |-> t,
                                       resp |-> IF r \in pool THEN @.resp ELSE <<>>]]
         /\ pool' = pool \ {r}
         /\ caller' = [caller EXCEPT ![c] = [pc |-> "send", r |-> r]]
         /\ applied' = applied \ {r}
    /\ may' = [may EXCEPT ![c] = {redis[k]}]
    /\ calls' = calls + 1
    /\ UNCHANGED <<redis, queue, batch, phase, left, result, changes>>

Get(c, k) == Call(c, "get", k, None, FALSE)
Set(c, k, v, t) == Call(c, "set", k, v, t)
Del(c, k) == Call(c, "del", k, None, FALSE)

Send(c) ==
    LET r == caller[c].r
        w == req[r].kind
    IN /\ caller[c].pc = "send" /\ Len(queue[w]) < QueueCap
       /\ queue' = [queue EXCEPT ![w] = Append(@, r)]
       /\ caller' = [caller EXCEPT ![c].pc = "wait"]
       /\ UNCHANGED <<redis, req, pool, batch, phase, left, result, calls, may, applied, changes>>

Leave(c) == caller' = [caller EXCEPT ![c] = Rest] /\ may' = [may EXCEPT ![c] = {}]

\* The context ends before the request is in the queue.
GiveUpSend(c) ==
    /\ caller[c].pc = "send"
    /\ pool' = pool \cup {caller[c].r}
    /\ Leave(c)
    /\ UNCHANGED <<redis, req, queue, batch, phase, left, result, calls, applied, changes>>

\* The answer is there: it is taken from the channel.
Receive(c) ==
    /\ caller[c].pc = "wait" /\ req[caller[c].r].resp # <<>>
    /\ req' = [req EXCEPT ![caller[c].r] = [NoReq EXCEPT !.kind = req[caller[c].r].kind]]
    /\ pool' = pool \cup {caller[c].r}
    /\ applied' = applied \ {caller[c].r}
    /\ Leave(c)
    /\ UNCHANGED <<redis, queue, batch, phase, left, result, calls, changes>>

\* The context ends before the answer is taken: the request is left to the
\* worker, and garbage if it has been answered.
GiveUpWait(c) ==
    LET r == caller[c].r
        done == req[r].resp # <<>>
    IN /\ caller[c].pc = "wait"
       /\ Leave(c)
       /\ req' = IF done THEN [req EXCEPT ![r] = NoReq] ELSE req
       /\ applied' = IF done THEN applied \ {r} ELSE applied
       /\ UNCHANGED <<redis, pool, queue, batch, phase, left, result, calls, changes>>

-----------------------------------------------------------------------------
(* Redis.                                                                  *)

\* Redis with the writes of the requests in their order.
Written(rs, d) == FoldLeft(LAMBDA m, r : [m EXCEPT ![req[r].key] = req[r].val], d, rs)

Changed(d) ==
    /\ redis' = d
    /\ may' = [c \in Callers |-> IF caller[c] = Rest THEN may[c] ELSE may[c] \cup {d[req[caller[c].r].key]}]

Elsewhere(k) ==
    /\ changes < MaxChanges /\ changes' = changes + 1
    /\ \E v \in Vals \cup {None} : v # redis[k] /\ Changed([redis EXCEPT ![k] = v])
    /\ UNCHANGED <<req, pool, queue, batch, phase, left, result, caller, calls, applied>>

-----------------------------------------------------------------------------
(* Workers.                                                                *)

\* The next request; the one that fills the batch ends the window.
Take(w) ==
    /\ phase[w] = "collect" /\ queue[w] # <<>>
    /\ queue' = [queue EXCEPT ![w] = Tail(@)]
    /\ batch' = [batch EXCEPT ![w] = Append(@, Head(queue[w]))]
    /\ phase' = [phase EXCEPT ![w] = IF Len(batch'[w]) >= BatchMax THEN "flush" ELSE @]
    /\ UNCHANGED <<redis, req, pool, left, result, caller, calls, may, applied, changes>>

\* The window ends.
Tick(w) ==
    /\ phase[w] = "collect" /\ batch[w] # <<>>
    /\ phase' = [phase EXCEPT ![w] = "flush"]
    /\ UNCHANGED <<redis, req, pool, queue, batch, left, result, caller, calls, may, applied, changes>>

\* The context of the gateway ends; what is queued is not answered.
Cancel(w) ==
    /\ phase[w] = "collect"
    /\ phase' = [phase EXCEPT ![w] = "stopped"]
    /\ batch' = [batch EXCEPT ![w] = <<>>]
    /\ UNCHANGED <<redis, req, pool, queue, left, result, caller, calls, may, applied, changes>>

\* MGET, for all keys of the batch at one time, or it fails.
flushGet ==
    /\ phase["get"] = "flush"
    /\ \E err \in BOOLEAN :
         result' = [result EXCEPT !["get"] =
           [err |-> err, vals |-> [j \in DOMAIN batch["get"] |-> redis[req[batch["get"][j]].key]]]]
    /\ phase' = [phase EXCEPT !["get"] = "answer"]
    /\ UNCHANGED <<redis, req, pool, queue, batch, left, caller, calls, may, applied, changes>>

\* MSET for the sets without a TTL, which may fail before or after it is done;
\* then the pipeline.
flushSet ==
    LET plain == SelectSeq(batch["set"], LAMBDA r : ~req[r].ttl)
    IN /\ phase["set"] = "flush"
       /\ \E done, err \in BOOLEAN :
            /\ done \/ err
            /\ IF plain # <<>> /\ done
               THEN Changed(Written(plain, redis)) /\ applied' = applied \cup Range(plain)
               ELSE UNCHANGED <<redis, may, applied>>
            /\ result' = [result EXCEPT !["set"] = [NoResult EXCEPT !.err = plain # <<>> /\ err]]
       /\ left' = SelectSeq(batch["set"], LAMBDA r : req[r].ttl)
       /\ phase' = [phase EXCEPT !["set"] = "pipe"]
       /\ UNCHANGED <<req, pool, queue, batch, caller, calls, changes>>

\* A command of the pipeline is done or not; Exec's error is dropped.
Pipe ==
    /\ phase["set"] = "pipe"
    /\ IF left = <<>>
       THEN phase' = [phase EXCEPT !["set"] = "answer"] /\ UNCHANGED <<redis, may, applied, left>>
       ELSE /\ left' = Tail(left) /\ UNCHANGED phase
            /\ \/ Changed(Written(<<Head(left)>>, redis)) /\ applied' = applied \cup {Head(left)}
               \/ UNCHANGED <<redis, may, applied>>
    /\ UNCHANGED <<req, pool, queue, batch, result, caller, calls, changes>>

\* DEL for all keys.
flushDel ==
    /\ phase["del"] = "flush"
    /\ \E done, err \in BOOLEAN :
         /\ done \/ err
         /\ IF done THEN Changed(Written(batch["del"], redis)) /\ applied' = applied \cup Range(batch["del"])
            ELSE UNCHANGED <<redis, may, applied>>
         /\ result' = [result EXCEPT !["del"] = [NoResult EXCEPT !.err = err]]
    /\ phase' = [phase EXCEPT !["del"] = "answer"]
    /\ UNCHANGED <<req, pool, queue, batch, left, caller, calls, changes>>

\* Faulty variant: everyone gets the first value.
AnswerOfFirst(w, r) ==
    [err |-> result[w].err /\ ~req[r].ttl,
     val |-> IF w = "get" THEN result[w].vals[1] ELSE None]

\* A set with a TTL is told that all is well.
AnswerOf(w, r) ==
    [err |-> result[w].err /\ ~req[r].ttl,
     val |-> IF w = "get" THEN result[w].vals[Len(result[w].vals) - Len(batch[w]) + 1] ELSE None]

\* The answers, one after the other; the channel of a request holds one.  A
\* request whose caller has gone is then garbage, and forgotten here.
Answer(w) ==
    LET r == Head(batch[w])
        gone == r \notin pool /\ \A c \in Callers : caller[c].r # r
    IN /\ phase[w] = "answer" /\ req[r].resp = <<>>
       /\ req' = [req EXCEPT ![r] = IF gone THEN NoReq ELSE [@ EXCEPT !.resp = <<AnswerOf(w, r)>>]]
       /\ applied' = IF gone THEN applied \ {r} ELSE applied
       /\ batch' = [batch EXCEPT ![w] = Tail(@)]
       /\ IF Len(batch[w]) = 1
          THEN phase' = [phase EXCEPT ![w] = "collect"] /\ result' = [result EXCEPT ![w] = NoResult]
          ELSE UNCHANGED <<phase, result>>
       /\ UNCHANGED <<redis, pool, queue, left, caller, calls, may, changes>>

Worker(w) ==
    \/ Take(w) \/ Tick(w) \/ Answer(w)
    \/ w = "get" /\ flushGet
    \/ w = "set" /\ (flushSet \/ Pipe)
    \/ w = "del" /\ flushDel

-----------------------------------------------------------------------------

\* A worker, or a caller whose request or answer can go through its channel.
Proceed == (\E w \in Kinds : Worker(w)) \/ \E c \in Callers : Send(c) \/ Receive(c)

Next ==
    \/ \E c \in Callers :
         \/ \E k \in Keys : Get(c, k) \/ Del(c, k) \/ \E v \in Vals, t \in BOOLEAN : Set(c, k, v, t)
         \/ Send(c) \/ GiveUpSend(c) \/ Receive(c) \/ GiveUpWait(c)
    \/ \E w \in Kinds : Worker(w) \/ Cancel(w)
    \/ \E k \in Keys : Elsewhere(k)

Spec == Init /\ [][Next]_sVars

-----------------------------------------------------------------------------
(* Properties.                                                             *)

\* The variables have their types, and no batch is larger than batchMax.
TypeOK ==
    /\ redis \in [Keys -> Vals \cup {None}]
    /\ pool \subseteq Reqs /\ applied \subseteq Reqs /\ calls \in 0..MaxCalls /\ changes \in 0..MaxChanges
    /\ \A w \in Kinds : /\ Len(queue[w]) <= QueueCap /\ Len(batch[w]) <= BatchMax
                        /\ phase[w] \in {"collect", "flush", "pipe", "answer", "stopped"}
    /\ \A c \in Callers : caller[c].pc \in {"idle", "send", "wait"} /\ caller[c].r \in Reqs \cup {None}

\* The answer that waits for a caller is the answer to its own call: a Get
\* gets a value that its key had since the call, and a Set without a TTL and a
\* Del that are told no error were done, although requests come from a pool,
\* others have given up, and one answer of a batch follows the other.
AnswerIsOwn ==
    \A c \in Callers :
      LET r == caller[c].r
      IN (caller[c].pc # "idle" /\ req[r].resp # <<>> /\ ~req[r].resp[1].err) =>
           /\ caller[c].pc = "wait"
           /\ req[r].kind = "get" => req[r].resp[1].val \in may[c]
           /\ req[r].kind # "get" /\ ~req[r].ttl => r \in applied

\* A worker that answers finds the channel of the request empty: it never
\* waits for a caller who has gone, and goes on to the next batch.
AnswersNeverWait ==
    \A w \in Kinds : phase[w] = "answer" /\ batch[w] # <<>> => req[Head(batch[w])].resp = <<>>

\* A caller that has sent its request gets an answer, or its worker has been
\* stopped: nothing is left in a queue or in a batch that does not fill.
Waits(c) == caller[c].pc = "wait"
IsAnswered(c) == caller[c].pc # "wait" \/ phase[req[caller[c].r].kind] = "stopped"

=============================================================================
