----------------------------- MODULE LocalLimits -----------------------------
(***************************************************************************)
(* The limits a gateway keeps in one atomic word each: the spike arrest    *)
(* (engine/spike_arrest.go), the windows of a named upstream               *)
(* (engine/upstream_rate_limit.go) and the token bucket                    *)
(* (CounterStore.TokenBucket in engine/rate_limit.go).  The three share a  *)
(* shape: the request reads the clock once, then loads the word, decides   *)
(* and swaps, and starts over from the load when it loses the swap, with   *)
(* the clock value it already has.  A request that is overtaken between    *)
(* its clock read and its swap acts on an old time.                        *)
(*                                                                         *)
(* A word is a pair: `at` is the last time, the epoch or the last update,  *)
(* `n` the count or the tokens.  A behaviour is one of one gate.           *)
(***************************************************************************)
EXTENDS Integers, Sequences, FiniteSets

CONSTANTS
    Requests,   \* the goroutines
    Interval,   \* of the spike arrest
    Windows,    \* of the upstream: a sequence of [div, limit]
    Rate,       \* tokens per tick
    Burst,      \* capacity of the bucket
    Wrap,       \* 2^w for the unsigned integers of the bucket
    Start,      \* the clock when the gateway starts
    MaxNow,     \* bound on the clock
    MaxCalls    \* bound on the calls

VARIABLES
    gate,       \* "spike", "upstream" or "bucket"
    clock,
    words,      \* the atomic words of the gate
    req,        \* per goroutine: where it is, its clock value, its window, the word it loaded
    calls,      \* calls made so far
    passed,     \* per word: the swaps won, as a sequence of clock values or epochs
    setBack     \* per word: the swaps that moved its time backwards

vars == <<gate, clock, words, req, calls, passed, setBack>>

LocalAssumption ==
    /\ Interval \in Nat \ {0} /\ Rate \in Nat /\ Burst \in Nat \ {0}
    /\ Start \in Nat /\ Start >= Interval /\ MaxNow >= Start /\ MaxNow < Wrap
    /\ \A i \in DOMAIN Windows : Windows[i].div \in Nat \ {0} /\ Windows[i].limit \in Nat

Gates == {"spike", "upstream", "bucket"}
Zero == [at |-> 0, n |-> 0]
Idle == [pc |-> "idle", at |-> 0, i |-> 1, seen |-> Zero]
WordsOf(g) == IF g = "upstream" THEN Len(Windows) ELSE 1
Epoch(i, t) == t \div Windows[i].div

TypeOK ==
    /\ gate \in Gates
    /\ clock \in Start .. MaxNow
    /\ words \in [1 .. WordsOf(gate) -> [at : Nat, n : Nat]]
    /\ req \in [Requests -> [pc : {"idle", "peek", "load", "swap"}, at : 0 .. MaxNow,
                             i : 1 .. WordsOf(gate), seen : [at : Nat, n : Nat]]]
    /\ calls \in 0 .. MaxCalls
    /\ \A i \in 1 .. WordsOf(gate) : passed[i] \in Seq(0 .. MaxNow) /\ setBack[i] \in Nat

Init ==
    /\ gate \in Gates
    /\ clock = Start
    /\ words = [i \in 1 .. WordsOf(gate) |-> Zero]
    /\ req = [p \in Requests |-> Idle]
    /\ calls = 0
    /\ passed = [i \in 1 .. WordsOf(gate) |-> <<>>]
    /\ setBack = [i \in 1 .. WordsOf(gate) |-> 0]

-----------------------------------------------------------------------------
(* What a request that saw word w at time t would write: the set is empty  *)
(* when it is denied.                                                      *)

SpikeNext(w, t) == IF t - w.at < Interval THEN {} ELSE {[at |-> t, n |-> 0]}

EpochNext(w, e, limit) ==
    IF w.at # e THEN {[at |-> e, n |-> 1]}
    ELSE IF w.n >= limit THEN {}
    ELSE {[at |-> e, n |-> w.n + 1]}

Refilled(w, t) ==
    LET tokens == (w.n + ((t - w.at) % Wrap) * Rate) % Wrap
    IN IF tokens < Burst THEN tokens ELSE Burst

BucketNext(w, t) ==
    IF Refilled(w, t) < 1 THEN {} ELSE {[at |-> t, n |-> Refilled(w, t) - 1]}

NextWords(w, i, t) ==
    CASE gate = "spike" -> SpikeNext(w, t)
      [] gate = "upstream" -> EpochNext(w, Epoch(i, t), Windows[i].limit)
      [] gate = "bucket" -> BucketNext(w, t)

-----------------------------------------------------------------------------
Tick ==
    /\ clock < MaxNow
    /\ clock' = clock + 1
    /\ UNCHANGED <<gate, words, req, calls, passed, setBack>>

\* A request reads the clock and enters the loop; one that wants a detail
\* for its trace first looks at every window of the upstream.
Enter(p) ==
    /\ req[p].pc = "idle"
    /\ calls < MaxCalls
    /\ calls' = calls + 1
    /\ \E pc \in IF gate = "upstream" THEN {"peek", "load"} ELSE {"load"} :
          req' = [req EXCEPT ![p] = [Idle EXCEPT !.pc = pc, !.at = clock]]
    /\ UNCHANGED <<gate, clock, words, passed, setBack>>

\* CheckUpstreamLimitWithDetail: a full window denies without counting.
\* After the last window Allow reads the clock again.
Peek(p) ==
    LET i == req[p].i
        count == IF words[i].at = Epoch(i, req[p].at) THEN words[i].n ELSE 0
    IN /\ req[p].pc = "peek"
       /\ req' = [req EXCEPT ![p] =
             IF count >= Windows[i].limit THEN Idle
             ELSE IF i < Len(Windows) THEN [@ EXCEPT !.i = i + 1]
             ELSE [Idle EXCEPT !.pc = "load", !.at = clock]]
       /\ UNCHANGED <<gate, clock, words, calls, passed, setBack>>

\* The load of the loop, and the denial by what it sees.
Load(p) ==
    LET i == req[p].i
    IN /\ req[p].pc = "load"
       /\ req' = [req EXCEPT ![p] =
             IF NextWords(words[i], i, @.at) = {} THEN Idle
             ELSE [@ EXCEPT !.pc = "swap", !.seen = words[i]]]
       /\ UNCHANGED <<gate, clock, words, calls, passed, setBack>>

\* The compare-and-swap: a request that wins it goes on to the next window,
\* one that loses it loads again.
Swap(p) ==
    LET i == req[p].i
    IN /\ req[p].pc = "swap"
       /\ \/ /\ words[i] = req[p].seen
             /\ \E w \in NextWords(req[p].seen, i, req[p].at) :
                   /\ words' = [words EXCEPT ![i] = w]
                   /\ passed' = [passed EXCEPT ![i] = Append(@, IF gate = "upstream" THEN w.at ELSE req[p].at)]
                   /\ setBack' = [setBack EXCEPT ![i] = @ + (IF w.at < words[i].at THEN 1 ELSE 0)]
             /\ req' = [req EXCEPT ![p] = IF i < Len(words) THEN [@ EXCEPT !.pc = "load", !.i = i + 1, !.seen = Zero]
                                          ELSE Idle]
          \/ /\ words[i] # req[p].seen
             /\ req' = [req EXCEPT ![p].pc = "load", ![p].seen = Zero]
             /\ UNCHANGED <<words, passed, setBack>>
       /\ UNCHANGED <<gate, clock, calls>>

Next == Tick \/ \E p \in Requests : Enter(p) \/ Peek(p) \/ Load(p) \/ Swap(p)

Spec == Init /\ [][Next]_vars

-----------------------------------------------------------------------------
Times(i) == DOMAIN passed[i]
Distance(a, b) == IF a < b THEN b - a ELSE a - b

\* Two requests the spike arrest lets through are at least an interval apart
\* by their own clocks, whatever their order at the swap: an overtaken
\* request sees a later time in the word and is denied (Allow).
SpikesSpaced ==
    gate = "spike" =>
        \A j, k \in Times(1) : j # k => Distance(passed[1][j], passed[1][k]) >= Interval

\* An epoch of a window counts at most its limit of requests, and once more
\* for every time a request of an earlier epoch has set the word back; a
\* limit of zero lets the first request of an epoch through
\* (upstreamEpochAllow).
EpochWithinLimit ==
    gate = "upstream" =>
        \A i \in DOMAIN Windows : \A e \in {passed[i][k] : k \in Times(i)} :
            LET limit == IF Windows[i].limit = 0 THEN 1 ELSE Windows[i].limit
            IN Cardinality({k \in Times(i) : passed[i][k] = e}) <= limit * (1 + setBack[i])

\* The bucket hands out its burst and what the elapsed time refills, and one
\* burst more for every time an overtaken request has set the word back,
\* when the unsigned difference wraps (TokenBucket).
BucketWithinRate ==
    gate = "bucket" =>
        Len(passed[1]) <= (1 + setBack[1]) * (Burst + Rate * (clock - Start))
=============================================================================
