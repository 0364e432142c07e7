------------------------------ MODULE RedisStore ------------------------------
(***************************************************************************)
(* The Redis-backed store (internal/datastore/redis: store.go, batch.go,   *)
(* lock.go) with its deduplication layer (iodedup.go) and the coalescing   *)
(* of reads with singleflight.  One store, the callers of its operations,  *)
(* and Redis, which other instances and the operations that bypass the     *)
(* layer change at any time.  A call works on a set of keys: one for Get,  *)
(* Put, PutWithTTL and Delete, any for MultiGet and MultiPut.  The layer's *)
(* two generations are taken key by key: keys are in shards of their own,  *)
(* which rotate one after the other.  A TTL is "no expiry" or "expires".   *)
(***************************************************************************)
EXTENDS Integers, FiniteSets

CONSTANTS Callers,   \* goroutines that call the store
          Keys,      \* scoped keys
          Values,    \* what is stored
          None,      \* nil: no such key
          MaxCalls   \* bound on the number of calls

RedisStoreAssumption == None \notin Values /\ MaxCalls \in Nat

VARIABLES redis,     \* what Redis holds: value and whether it expires
          current, prev,  \* the two generations of the layer
          flight,    \* the reads singleflight has under way
          call,      \* the call of a caller
          stage,     \* where the call is with each of its keys
          data,      \* what the call has read or written of each key
          calls,     \* number of calls so far
          age,       \* history: rotations since the layer may have come to
                     \* differ from Redis on the key; 2 when it may not
          panicked   \* history: callers whose type assertion has failed

vars == <<redis, current, prev, flight, call, stage, data, calls, age, panicked>>

Entry == [val : Values \cup {None}, ttl : BOOLEAN]
NoEntry == [val |-> None, ttl |-> TRUE]      \* not in the generation

\* What a call knows of a key: the value, the result type of its reader
\* (getResult of Get, sfResult of MultiGet), an error, and whether Redis has
\* changed since (history).
Datum == [val : Values \cup {None}, of : {"none", "get", "multi"}, err : BOOLEAN, stale : BOOLEAN]
Nothing == [val |-> None, of |-> "none", err |-> FALSE, stale |-> FALSE]

Idle == [kind |-> "none", val |-> None, ttl |-> FALSE]

TypeOK ==
    /\ redis \in [Keys -> Entry]
    /\ current \in [Keys -> Entry] /\ prev \in [Keys -> Entry]
    /\ flight \in [Keys -> [lead : Callers \cup {None}, done : BOOLEAN, data : Datum]]
    /\ call \in [Callers -> [kind : {"none", "get", "multi", "put", "del"}, val : Values \cup {None}, ttl : BOOLEAN]]
    /\ stage \in [Callers -> [Keys -> {"off", "look", "ask", "lead", "join", "got", "set", "sent", "del", "drop"}]]
    /\ data \in [Callers -> [Keys -> Datum]]
    /\ calls \in 0..MaxCalls
    /\ age \in [Keys -> 0..2]
    /\ panicked \subseteq Callers

Empty == [val |-> None, ttl |-> FALSE]
NoFlight == [lead |-> None, done |-> FALSE, data |-> Nothing]

Init ==
    /\ redis = [k \in Keys |-> Empty]
    /\ current = [k \in Keys |-> NoEntry]
    /\ prev = [k \in Keys |-> NoEntry]
    /\ flight = [k \in Keys |-> NoFlight]
    /\ call = [c \in Callers |-> Idle]
    /\ stage = [c \in Callers |-> [k \in Keys |-> "off"]]
    /\ data = [c \in Callers |-> [k \in Keys |-> Nothing]]
    /\ calls = 0
    /\ age = [k \in Keys |-> 2]
    /\ panicked = {}

(***************************************************************************)
(* The deduplication layer.  An entry with the value None is a miss that   *)
(* is remembered.                                                          *)
(***************************************************************************)

\* Get: the current generation before the previous one.
Cached(k) == IF current[k] # NoEntry THEN current[k] ELSE prev[k]

\* ShouldSkipWrite.
ShouldSkipWrite(k, v, t) == Cached(k) = [val |-> v, ttl |-> t]

\* Store, into the current generation.
Store(k, v, t) == current' = [current EXCEPT ![k] = [val |-> v, ttl |-> t]]

\* Faulty variant: only the current generation is cleared.
InvalidateCurrent(k) == /\ current' = [current EXCEPT ![k] = NoEntry]
                        /\ UNCHANGED prev

\* Invalidate, in both generations.
Invalidate(k) == /\ current' = [current EXCEPT ![k] = NoEntry]
                 /\ prev' = [prev EXCEPT ![k] = NoEntry]

\* rotate, every window.
Rotate(k) ==
    /\ prev' = [prev EXCEPT ![k] = current[k]]
    /\ current' = [current EXCEPT ![k] = NoEntry]
    /\ age' = [age EXCEPT ![k] = IF @ < 2 THEN @ + 1 ELSE @]
    /\ UNCHANGED <<redis, flight, call, stage, data, calls, panicked>>

(***************************************************************************)
(* A change of Redis, with its history: what calls know of the key is      *)
(* stale from then on.                                                     *)
(***************************************************************************)
Changes(k, e) == e.val # redis[k].val
Mark(d) == IF d = Nothing THEN d ELSE [d EXCEPT !.stale = TRUE]
Known(k, e) == IF Changes(k, e) THEN [c \in Callers |-> [data[c] EXCEPT ![k] = Mark(@)]] ELSE data
Write(k, e) ==
    /\ redis' = [redis EXCEPT ![k] = e]
    /\ flight' = IF Changes(k, e) THEN [flight EXCEPT ![k].data = Mark(@)] ELSE flight
    /\ age' = IF Changes(k, e) THEN [age EXCEPT ![k] = 0] ELSE age

\* Other instances, expiry, and the operations that bypass the layer.
Elsewhere(k) ==
    /\ \E e \in {f \in Entry : f.val = None => ~f.ttl} :
        e # redis[k] /\ Write(k, e) /\ data' = Known(k, e)
    /\ UNCHANGED <<current, prev, call, stage, calls, panicked>>

(***************************************************************************)
(* Calls.                                                                  *)
(***************************************************************************)
At(c, k, s) == stage[c][k] = s
Nowhere(c, S) == \A k \in Keys : stage[c][k] \notin S
Go(c, k, s) == stage' = [stage EXCEPT ![c][k] = s]

\* A key is done: the call is over with its last one.
Done(c, k) ==
    /\ Go(c, k, "off")
    /\ call' = IF \A j \in Keys \ {k} : stage[c][j] = "off" THEN [call EXCEPT ![c] = Idle] ELSE call

Begin(c, kind, ks, v, t, s) ==
    /\ call[c] = Idle /\ calls < MaxCalls
    /\ call' = [call EXCEPT ![c] = [kind |-> kind, val |-> v, ttl |-> t]]
    /\ stage' = [stage EXCEPT ![c] = [k \in Keys |-> IF k \in ks THEN s ELSE "off"]]
    /\ calls' = calls + 1
    /\ UNCHANGED <<redis, current, prev, flight, data, age, panicked>>

Get(c, k) == Begin(c, "get", {k}, None, FALSE, "look")
MultiGet(c, ks) == Begin(c, "multi", ks, None, FALSE, "look")
\* Put and MultiPut write without expiry, PutWithTTL with one.
Put(c, k, v) == Begin(c, "put", {k}, v, FALSE, "look")
PutWithTTL(c, k, v) == Begin(c, "put", {k}, v, TRUE, "look")
MultiPut(c, ks, v) == Begin(c, "put", ks, v, FALSE, "look")
Delete(c, k) == Begin(c, "del", {k}, None, FALSE, "del")

\* A read looks into the layer.  MultiGet reads a remembered miss again.
Look(c, k) ==
    /\ At(c, k, "look") /\ call[c].kind \in {"get", "multi"}
    /\ LET e == Cached(k) IN
        IF e # NoEntry /\ (call[c].kind = "get" \/ e.val # None)
        THEN Done(c, k)
        ELSE Go(c, k, "ask") /\ UNCHANGED call
    /\ UNCHANGED <<redis, current, prev, flight, data, calls, age, panicked>>

\* singleflight's Do: the first caller reads, those that come meanwhile wait.
Do(c, k) ==
    /\ At(c, k, "ask") /\ Nowhere(c, {"look"})
    /\ IF flight[k] = NoFlight
       THEN flight' = [flight EXCEPT ![k].lead = c] /\ Go(c, k, "lead")
       ELSE UNCHANGED flight /\ Go(c, k, "join")
    /\ UNCHANGED <<redis, current, prev, call, data, calls, age, panicked>>

\* The leader reads from Redis.  A failure is the error of a Get; MultiGet
\* takes it for a missing key.
Fetch(c, k) ==
    /\ At(c, k, "lead") /\ ~flight[k].done
    /\ \E failed \in BOOLEAN :
        LET multi == call[c].kind = "multi" IN
        flight' = [flight EXCEPT ![k].done = TRUE,
            ![k].data = [val |-> IF failed THEN None ELSE redis[k].val, of |-> call[c].kind,
                         err |-> failed /\ ~multi, stale |-> failed /\ multi /\ redis[k].val # None]]
    /\ UNCHANGED <<redis, current, prev, call, stage, data, calls, age, panicked>>

\* The read is over: its result goes to the leader and to everyone who waits.
Land(c, k) ==
    /\ At(c, k, "lead") /\ flight[k].done
    /\ LET all == {d \in Callers : stage[d][k] \in {"lead", "join"}} IN
        /\ stage' = [d \in Callers |-> IF d \in all THEN [stage[d] EXCEPT ![k] = "got"] ELSE stage[d]]
        /\ data' = [d \in Callers |-> IF d \in all THEN [data[d] EXCEPT ![k] = flight[k].data] ELSE data[d]]
    /\ flight' = [flight EXCEPT ![k] = NoFlight]
    /\ UNCHANGED <<redis, current, prev, call, calls, age, panicked>>

\* Stored over everything the layer had: right unless older than a change.
Aged(k, d) == age' = [age EXCEPT ![k] = IF d.stale THEN 0 ELSE 2]

\* The caller takes the result: an error ends a Get, MultiGet leaves the key
\* out; a result of the other type fails the assertion; else it is stored.
Keep(c, k) ==
    /\ At(c, k, "got") /\ Nowhere(c, {"look", "ask", "lead", "join"})
    /\ LET d == data[c][k] IN
        IF d.err \/ d.of # call[c].kind
        THEN /\ UNCHANGED <<current, age>>
             /\ panicked' = IF d.err THEN panicked ELSE panicked \cup {c}
        ELSE Store(k, d.val, FALSE) /\ Aged(k, d) /\ UNCHANGED panicked
    /\ data' = [data EXCEPT ![c][k] = Nothing]
    /\ Done(c, k)
    /\ UNCHANGED <<redis, prev, flight, calls>>

\* A write looks whether it may be skipped.
Check(c, k) ==
    /\ At(c, k, "look") /\ call[c].kind = "put"
    /\ IF ShouldSkipWrite(k, call[c].val, call[c].ttl)
       THEN Done(c, k)
       ELSE Go(c, k, "set") /\ UNCHANGED call
    /\ UNCHANGED <<redis, current, prev, flight, data, calls, age, panicked>>

\* The outcome of a write.
Sent(c, k, failed) == [data EXCEPT ![c][k] = [val |-> call[c].val, of |-> "none", err |-> failed, stale |-> FALSE]]

\* SET, alone or in a pipeline.  It may fail before or after Redis has done it.
Set(c, k) ==
    /\ At(c, k, "set") /\ Nowhere(c, {"look"})
    /\ LET e == [val |-> call[c].val, ttl |-> call[c].ttl] IN
        \/ \E failed \in BOOLEAN :
            /\ Write(k, e)
            /\ data' = [Known(k, e) EXCEPT ![c][k] = Sent(c, k, failed)[c][k]]
        \/ data' = Sent(c, k, TRUE) /\ UNCHANGED <<redis, flight, age>>
    /\ Go(c, k, "sent")
    /\ UNCHANGED <<current, prev, call, calls, panicked>>

\* The write is remembered, unless the call, or the pipeline, failed.
KeepWrite(c, k) ==
    /\ At(c, k, "sent") /\ Nowhere(c, {"look", "set"})
    /\ IF \E j \in Keys : stage[c][j] = "sent" /\ data[c][j].err
       THEN /\ stage' = [stage EXCEPT ![c] = [j \in Keys |-> "off"]]
            /\ call' = [call EXCEPT ![c] = Idle]
            /\ data' = [data EXCEPT ![c] = [j \in Keys |-> Nothing]]
            /\ UNCHANGED <<current, age>>
       ELSE /\ Store(k, call[c].val, call[c].ttl) /\ Aged(k, data[c][k])
            /\ data' = [data EXCEPT ![c][k] = Nothing]
            /\ Done(c, k)
    /\ UNCHANGED <<redis, prev, flight, calls, panicked>>

\* DEL.  A failure ends the call, whether Redis has deleted the key or not.
Del(c, k) ==
    /\ At(c, k, "del")
    /\ \/ Write(k, Empty) /\ data' = Known(k, Empty) /\ Go(c, k, "drop") /\ UNCHANGED call
       \/ Write(k, Empty) /\ data' = Known(k, Empty) /\ Done(c, k)
       \/ Done(c, k) /\ UNCHANGED <<redis, flight, age, data>>
    /\ UNCHANGED <<current, prev, calls, panicked>>

Drop(c, k) ==
    /\ At(c, k, "drop")
    /\ Invalidate(k)
    /\ age' = [age EXCEPT ![k] = 2]
    /\ Done(c, k)
    /\ UNCHANGED <<redis, flight, data, calls, panicked>>

Progress(c, k) ==
    \/ Look(c, k) \/ Do(c, k) \/ Fetch(c, k) \/ Land(c, k) \/ Keep(c, k)
    \/ Check(c, k) \/ Set(c, k) \/ KeepWrite(c, k) \/ Del(c, k) \/ Drop(c, k)

Next ==
    \/ \E k \in Keys : Rotate(k) \/ Elsewhere(k)
    \/ \E c \in Callers :
        \/ \E ks \in SUBSET Keys \ {{}} :
            MultiGet(c, ks) \/ \E v \in Values : MultiPut(c, ks, v)
        \/ \E k \in Keys :
            \/ Get(c, k) \/ Delete(c, k) \/ Progress(c, k)
            \/ \E v \in Values : Put(c, k, v) \/ PutWithTTL(c, k, v)

Spec == Init /\ [][Next]_vars

(***************************************************************************)
(* Properties.                                                             *)
(***************************************************************************)

\* What the layer may still say of a key.  A call that ends with its own
\* reading, write or deletion of the key, nothing having changed it meanwhile,
\* leaves the layer in agreement with Redis.  After any other change - another
\* instance, an expiry, a slow read that puts back what was deleted - it
\* agrees again after two rotations: stale values are served (Get) and elide
\* writes (ShouldSkipWrite) no longer than that.
CatchesUp == \A k \in Keys : age[k] = 2 /\ Cached(k) # NoEntry => Cached(k).val = redis[k].val

\* A read that is shared (singleflight) has one leader, who still works on it:
\* nobody waits for a result that no one will deliver.
WaitersHaveLeader == \A c \in Callers, k \in Keys :
    stage[c][k] = "join" => flight[k].lead # None /\ stage[flight[k].lead][k] = "lead"

(***************************************************************************)
(* Readings of the comments that the code does not keep.                   *)
(***************************************************************************)

\* iodedup.go:134-136: the write is elided because "the value in Redis is
\* already correct".
SkippedIsCorrect == [][\A c \in Callers, k \in Keys :
    stage[c][k] = "look" /\ call[c].kind = "put" /\ stage'[c][k] = "off" =>
        redis[k] = [val |-> call[c].val, ttl |-> call[c].ttl]]_vars

\* batch.go:14: "Concurrent fetches for the same missing key are coalesced via
\* singleflight" - and each of them returns.
SharedReadsReturn == panicked = {}

================================================================================
