-------------------------- MODULE RateLimitV2Proofs ---------------------------
(***************************************************************************)
(* The multi-window rate limit admits no more weight in a window than the  *)
(* largest limit in force, and denies only for want of room: for any       *)
(* number of requests, keys, windows and registry snapshots, provided no   *)
(* request outlives its window, every window has a counter, and no weight  *)
(* takes a counter past 2^32.                                              *)
(*                                                                         *)
(* The argument: the weight admitted in the present epoch of a window is   *)
(* what the counter's word says, counted as 0 when the word is of an       *)
(* earlier epoch.  A swap that succeeds finds the word it checked, so it   *)
(* adds a weight for which there was room under the request's own limit.   *)
(***************************************************************************)
EXTENDS RateLimitV2, TLAPS

(* The conditions under which the step keeps its limits. *)
Setting ==
    /\ RateLimitAssumption /\ ~Straddle
    /\ Registries # {}
    /\ \A i \in Win : i <= Allocated
    /\ \A r \in Registries, i \in Win : EffectiveLimit(r, i) \in Nat
    /\ \A r \in Registries, i \in Win, d \in Deltas : EffectiveLimit(r, i) + Weight(d) < Word

Present(i) == EpochOf(now, i)

Shapes ==
    /\ now \in 0 .. MaxNow /\ reg \in Registries
    /\ slot \in [Keys -> [Win -> [epoch : Nat, count : Nat]]]
    /\ used \in [Keys -> [Win -> [Epochs -> Nat]]]
    /\ top \in [Keys -> [Win -> [Epochs -> Nat]]]
    /\ DOMAIN req = Requests

(* A request under way is one of the present windows. *)
Asks(q) ==
    /\ q.pc \in {"load", "cas"} =>
         /\ q.key \in Keys /\ q.win \in Win /\ q.r \in Registries /\ q.delta \in Deltas
         /\ q.t \in 0 .. MaxNow /\ \A i \in Win : EpochOf(q.t, i) = Present(i)
    /\ q.pc = "cas" => ~Denies(q.old, EpochOf(q.t, q.win), EffectiveLimit(q.r, q.win), q.delta)

(* The word of a counter: not from the future, within some limit, and what *)
(* it counts for the present epoch is what was admitted in it.             *)
CounterExact(k, i) ==
    /\ slot[k][i].epoch <= Present(i)
    /\ \E r \in Registries : slot[k][i].count <= EffectiveLimit(r, i)
    /\ used[k][i][Present(i)] = Counted(slot[k][i], Present(i))
    /\ \A e \in Epochs : e > Present(i) => used[k][i][e] = 0

LimitInv ==
    /\ Shapes
    /\ \A p \in Requests : Asks(req[p])
    /\ \A k \in Keys, i \in Win : CounterExact(k, i)
    /\ WithinLimit

-----------------------------------------------------------------------------
(* Epochs and counts. *)

(* The epochs of a window grow with the clock and stay within it. *)
LEMMA Division ==
  ASSUME NEW n \in Nat, NEW w \in Nat \ {0}
  PROVE  n \div w \in Nat /\ n \div w <= n /\ n \div w <= (n + 1) \div w
<1> DEFINE a == n \div w
           r == n % w
           b == (n + 1) \div w
           s == (n + 1) % w
<1>0. n + 1 \in Nat
  OBVIOUS
<1>1. n = w * a + r /\ a \in Nat /\ r \in 0 .. w - 1
  OBVIOUS
<1>2. n + 1 = w * b + s /\ b \in Nat /\ s \in 0 .. w - 1
  BY <1>0
<1> HIDE DEF a, b, r, s
<1>3. a <= b
  <2> SUFFICES ASSUME a >= b + 1 PROVE FALSE
    BY <1>1, <1>2
  <2>1. w * a >= w * (b + 1)
    BY <1>1, <1>2
  <2>2. w * (b + 1) = w * b + w
    BY <1>2
  <2> QED BY <1>1, <1>2, <2>1, <2>2
<1>4. a <= n
  <2>1. w * a >= a
    BY <1>1
  <2> QED BY <1>1, <2>1
<1> QED BY <1>1, <1>3, <1>4 DEF a, b

(* A sum below 2^32 does not wrap. *)
LEMMA NoWrap == ASSUME NEW n \in Nat, NEW w \in Nat \ {0}, n < w PROVE n % w = n
<1> DEFINE a == n \div w
           r == n % w
<1>1. n = w * a + r /\ a \in Nat /\ r \in 0 .. w - 1
  OBVIOUS
<1> HIDE DEF a, r
<1>2. CASE a >= 1
  <2>1. w * a >= w
    BY <1>1, <1>2
  <2> QED BY <1>1, <2>1
<1>3. CASE a = 0
  BY <1>1, <1>3 DEF r
<1> QED BY <1>1, <1>2, <1>3

(* Every tick is in an epoch of every window. *)
LEMMA EpochRange ==
  ASSUME Setting, NEW i \in Win, NEW t \in 0 .. MaxNow
  PROVE  EpochOf(t, i) \in Epochs /\ EpochOf(t, i) \in Nat /\ EpochOf(t, i) <= EpochOf(t + 1, i)
<1>1. Windows[i].div \in Nat \ {0} /\ MaxNow \in Nat /\ t \in Nat /\ t <= MaxNow
  BY DEF Setting, RateLimitAssumption, Win
<1>2. PICK w \in Nat \ {0} : w = Windows[i].div
  BY <1>1
<1> DEFINE e == t \div w
<1>3. e \in Nat /\ e <= t /\ e <= (t + 1) \div w
  BY <1>1, Division
<1> HIDE DEF e
<1>4. e \in 0 .. MaxNow
  BY <1>1, <1>3
<1> QED BY <1>2, <1>3, <1>4 DEF e, EpochOf, Epochs

(* One round of the swap adds the request's weight exactly. *)
LEMMA AddsWeight ==
  ASSUME Setting, NEW i \in Win, NEW d \in Deltas, NEW old, old.count \in Nat, NEW e,
         NEW r \in Registries, old.count <= EffectiveLimit(r, i)
  PROVE  /\ NewCount(old, e, d) = Counted(old, e) + Weight(d)
         /\ Counted(old, e) \in Nat /\ Weight(d) \in Nat /\ Weight(d) >= 1
<1>1. /\ EffectiveLimit(r, i) \in Nat /\ EffectiveLimit(r, i) + Weight(d) < Word
      /\ Word \in Nat \ {0} /\ d \in Nat
  BY DEF Setting, RateLimitAssumption
<1>2. Weight(d) \in Nat /\ Weight(d) >= 1
  BY <1>1 DEF Weight
<1>3. Counted(old, e) \in Nat /\ Counted(old, e) <= old.count
  BY DEF Counted
<1> DEFINE n == Counted(old, e) + Weight(d)
<1>4. n \in Nat /\ n < Word
  BY <1>1, <1>2, <1>3
<1> HIDE DEF n
<1>5. n % Word = n
  BY <1>1, <1>4, NoWrap
<1> QED BY <1>2, <1>3, <1>5 DEF n, NewCount

-----------------------------------------------------------------------------
(* The steps. *)

(* Nothing has been admitted at the start. *)
LEMMA LimitInit == ASSUME Setting PROVE Init => LimitInv
<1> SUFFICES ASSUME Init PROVE LimitInv
  OBVIOUS
<1>0. MaxNow \in Nat
  BY DEF Setting, RateLimitAssumption
<1>1. Shapes
  BY <1>0 DEF Init, Shapes
<1>2. \A p \in Requests : Asks(req[p])
  BY DEF Init, Asks, Free
<1>3. ASSUME NEW k \in Keys, NEW i \in Win PROVE CounterExact(k, i)
  <2>1. Present(i) \in Epochs /\ Present(i) \in Nat
    BY <1>1, EpochRange DEF Shapes, Present
  <2>2. slot[k][i].epoch = 0 /\ slot[k][i].count = 0 /\ \A e \in Epochs : used[k][i][e] = 0
    BY DEF Init
  <2>3. \E r \in Registries : 0 <= EffectiveLimit(r, i)
    BY DEF Setting
  <2> QED BY <2>1, <2>2, <2>3 DEF CounterExact, Counted
<1>4. WithinLimit
  BY DEF Init, WithinLimit
<1> QED BY <1>1, <1>2, <1>3, <1>4 DEF LimitInv

(* A step of one request that leaves the counters alone. *)
LEMMA KeepWords ==
  ASSUME LimitInv, UNCHANGED <<now, reg, slot, used, top>>, NEW p \in Requests, NEW c, Asks(c),
         req' = [req EXCEPT ![p] = c]
  PROVE  LimitInv'
<1>1. Shapes'
  BY DEF LimitInv, Shapes
<1>2. \A i : Present(i)' = Present(i)
  BY DEF Present, EpochOf
<1>3. \A q \in Requests : req'[q] = c \/ req'[q] = req[q]
  BY DEF LimitInv, Shapes
<1>4. ASSUME NEW q \in Requests PROVE Asks(req[q])'
  BY <1>2, <1>3 DEF LimitInv, Asks
<1>5. \A k \in Keys, i \in Win : CounterExact(k, i)'
  BY <1>2 DEF LimitInv, CounterExact
<1>6. WithinLimit'
  BY DEF LimitInv, WithinLimit
<1> QED BY <1>1, <1>4, <1>5, <1>6 DEF LimitInv

(* A window that is not the last has a successor. *)
LEMMA NextWindow == ASSUME Setting, NEW i \in Win, i # Len(Windows) PROVE i + 1 \in Win
<1>1. Len(Windows) \in Nat
  BY DEF Setting, RateLimitAssumption
<1> QED BY <1>1 DEF Win

(* A request begins, in the present windows, or is settled at once. *)
LEMMA LimitBegin ==
  ASSUME Setting, LimitInv, NEW p \in Requests, NEW k \in Keys \cup {EmptyKey}, NEW d \in Deltas,
         NEW g \in BOOLEAN, Begin(p, k, d, g)
  PROVE  LimitInv'
<1> DEFINE ask == [pc |-> "load", arg |-> k, key |-> resolveKey(k), delta |-> d, r |-> reg, t |-> now, win |-> 1]
<1>1. UNCHANGED <<now, reg, slot, used, top>>
  BY DEF Begin
<1>2. Asks(ask) \/ resolveKey(k) = EmptyKey
  <2>1. now \in 0 .. MaxNow /\ reg \in Registries
    BY DEF LimitInv, Shapes
  <2>2. 1 \in Win
    BY DEF Setting, RateLimitAssumption, Win
  <2>3. resolveKey(k) \in Keys \/ resolveKey(k) = EmptyKey
    BY DEF resolveKey, Setting, RateLimitAssumption
  <2> QED BY <2>1, <2>2, <2>3 DEF Asks, Present
<1>3. \A v : Asks(Settled(v, k))
  BY DEF Asks, Settled
<1>4. \/ \E v : req' = [req EXCEPT ![p] = Settled(v, k)]
      \/ req' = [req EXCEPT ![p] = ask] /\ resolveKey(k) # EmptyKey
  BY DEF Begin
<1> HIDE DEF ask
<1> QED BY <1>1, <1>2, <1>3, <1>4, KeepWords

(* The word is loaded and the room in it checked. *)
LEMMA LimitLoad == ASSUME Setting, LimitInv, NEW p \in Requests, Load(p) PROVE LimitInv'
<1> DEFINE q == req[p]
           limit == EffectiveLimit(q.r, q.win)
           swap == [pc |-> "cas", arg |-> q.arg, key |-> q.key, delta |-> q.delta, r |-> q.r,
                    t |-> q.t, win |-> q.win, old |-> slot[q.key][q.win]]
<1>1. q.pc = "load" /\ Asks(q) /\ q.win \in Win
  BY DEF Load, LimitInv, Asks
<1>2. ~(q.win > Allocated)
  BY <1>1 DEF Setting, RateLimitAssumption, Win
<1>3. /\ UNCHANGED <<now, reg, slot, used, top>>
      /\ req' = [req EXCEPT ![p] = IF Denies(slot[q.key][q.win], EpochOf(q.t, q.win), limit, q.delta)
                                     THEN Settled("denied", q.arg) ELSE swap]
  BY <1>2 DEF Load
<1>4. Asks(Settled("denied", q.arg))
  BY DEF Asks, Settled
<1>5. CASE Denies(slot[q.key][q.win], EpochOf(q.t, q.win), limit, q.delta)
  BY <1>3, <1>4, <1>5, KeepWords
<1>6. CASE ~Denies(slot[q.key][q.win], EpochOf(q.t, q.win), limit, q.delta)
  <2>1. Asks(swap)
    BY <1>1, <1>6 DEF Asks
  <2> HIDE DEF swap
  <2> QED BY <1>3, <1>6, <2>1, KeepWords
<1> QED BY <1>5, <1>6

(* The compare-and-swap that succeeds: the word is the one that was        *)
(* checked, so the weight it adds has room under the request's limit.      *)
LEMMA LimitSwap ==
  ASSUME Setting, LimitInv, NEW p \in Requests, req[p].pc = "cas",
         slot[req[p].key][req[p].win] = req[p].old, Store(p), Admit(p), UNCHANGED <<now, reg>>
  PROVE  LimitInv'
<1>s. Shapes /\ Asks(req[p])
  BY DEF LimitInv
<1>a. PICK k \in Keys, i \in Win, r \in Registries, d \in Deltas :
         k = req[p].key /\ i = req[p].win /\ r = req[p].r /\ d = req[p].delta
  BY <1>s DEF Asks
<1>b. PICK e \in Epochs : e = Present(i)
  BY <1>s, EpochRange DEF Shapes, Present
<1>c. e \in Nat /\ EpochOf(req[p].t, i) = e
  BY <1>s, <1>a, <1>b, EpochRange DEF Shapes, Present, Asks
<1>d. PICK old \in [epoch : Nat, count : Nat] : old = slot[k][i]
  BY <1>s DEF Shapes
<1>w. CounterExact(k, i)
  BY DEF LimitInv
<1>n. PICK n \in Nat : n = NewCount(old, e, d)
  <2>1. \E t \in Registries : old.count <= EffectiveLimit(t, i)
    BY <1>w, <1>d DEF CounterExact
  <2> QED BY <2>1, AddsWeight
<1>1. /\ n = used[k][i][e] + Weight(d) /\ Weight(d) \in Nat /\ Counted(old, e) = used[k][i][e]
  <2>1. \E t \in Registries : old.count <= EffectiveLimit(t, i)
    BY <1>w, <1>d DEF CounterExact
  <2>2. n = Counted(old, e) + Weight(d) /\ Weight(d) \in Nat
    BY <1>n, <2>1, AddsWeight
  <2> QED BY <2>2, <1>w, <1>b, <1>d DEF CounterExact
<1>2. n <= EffectiveLimit(r, i) /\ EffectiveLimit(r, i) \in Nat
  <2>1. ~Denies(old, e, EffectiveLimit(r, i), d)
    BY <1>s, <1>a, <1>c, <1>d DEF Asks
  <2>2. EffectiveLimit(r, i) \in Nat
    BY DEF Setting
  <2> QED BY <1>n, <2>1, <2>2 DEF Denies
<1>3. /\ slot' = [slot EXCEPT ![k][i] = [epoch |-> e, count |-> n]]
      /\ used' = [used EXCEPT ![k][i][e] = used[k][i][e] + Weight(d)]
  BY <1>a, <1>c, <1>d, <1>n DEF Store, Admit
<1>4. PICK m \in Nat : m >= EffectiveLimit(r, i) /\ top' = [top EXCEPT ![k][i][e] = m]
  <2> DEFINE m == Larger(top[k][i][e], EffectiveLimit(r, i))
  <2>1. top[k][i][e] \in Nat
    BY <1>s DEF Shapes
  <2>2. m \in Nat /\ m >= EffectiveLimit(r, i)
    BY <1>2, <2>1 DEF Larger
  <2>3. top' = [top EXCEPT ![k][i][e] = m]
    BY <1>a, <1>c DEF Admit
  <2> HIDE DEF m
  <2> QED BY <2>2, <2>3
<1>5. PICK c : Asks(c) /\ req' = [req EXCEPT ![p] = c]
  <2> DEFINE q == req[p]
             more == [pc |-> "load", arg |-> q.arg, key |-> q.key, delta |-> q.delta, r |-> q.r,
                      t |-> q.t, win |-> q.win + 1]
  <2>1. \/ req' = [req EXCEPT ![p] = Settled("allowed", q.arg)]
        \/ q.win # Len(Windows) /\ req' = [req EXCEPT ![p] = more]
    BY DEF Admit
  <2>2. Asks(Settled("allowed", q.arg))
    BY DEF Asks, Settled
  <2>3. q.win # Len(Windows) => q.win + 1 \in Win
    BY <1>a, NextWindow
  <2>4. q.win # Len(Windows) => Asks(more)
    BY <1>s, <2>3 DEF Asks
  <2> HIDE DEF more
  <2> QED BY <2>1, <2>2, <2>4
<1>6. \A j : Present(j)' = Present(j)
  BY DEF Present, EpochOf
<1>7. /\ slot' \in [Keys -> [Win -> [epoch : Nat, count : Nat]]]
      /\ used' \in [Keys -> [Win -> [Epochs -> Nat]]]
      /\ top' \in [Keys -> [Win -> [Epochs -> Nat]]]
  <2>1. slot' \in [Keys -> [Win -> [epoch : Nat, count : Nat]]]
    BY <1>s, <1>3, <1>c DEF Shapes
  <2>2. used[k][i][e] + Weight(d) \in Nat
    BY <1>1
  <2>3. used' \in [Keys -> [Win -> [Epochs -> Nat]]]
    BY <1>s, <1>3, <2>2 DEF Shapes
  <2>4. top' \in [Keys -> [Win -> [Epochs -> Nat]]]
    BY <1>s, <1>4 DEF Shapes
  <2> QED BY <2>1, <2>3, <2>4
<1>8. Shapes'
  BY <1>s, <1>5, <1>7 DEF Shapes
<1>9. /\ slot'[k][i] = [epoch |-> e, count |-> n]
      /\ used'[k][i][e] = n /\ top'[k][i][e] = m
      /\ \A f \in Epochs : f # e => used'[k][i][f] = used[k][i][f] /\ top'[k][i][f] = top[k][i][f]
      /\ \A l \in Keys, j \in Win : l # k \/ j # i =>
           slot'[l][j] = slot[l][j] /\ used'[l][j] = used[l][j] /\ top'[l][j] = top[l][j]
  <2>1. /\ slot'[k][i] = [epoch |-> e, count |-> n]
        /\ \A l \in Keys, j \in Win : l # k \/ j # i => slot'[l][j] = slot[l][j]
    BY <1>s, <1>3 DEF Shapes
  <2>2. /\ used'[k][i][e] = n
        /\ \A f \in Epochs : f # e => used'[k][i][f] = used[k][i][f]
        /\ \A l \in Keys, j \in Win : l # k \/ j # i => used'[l][j] = used[l][j]
    BY <1>s, <1>1, <1>3 DEF Shapes
  <2>3. /\ top'[k][i][e] = m
        /\ \A f \in Epochs : f # e => top'[k][i][f] = top[k][i][f]
        /\ \A l \in Keys, j \in Win : l # k \/ j # i => top'[l][j] = top[l][j]
    BY <1>s, <1>4 DEF Shapes
  <2> QED BY <2>1, <2>2, <2>3
<1>10. ASSUME NEW t \in Requests PROVE Asks(req[t])'
  <2>1. req'[t] = c \/ req'[t] = req[t]
    BY <1>5, <1>s DEF Shapes
  <2> QED BY <1>5, <1>6, <2>1 DEF LimitInv, Asks
<1>11. ASSUME NEW l \in Keys, NEW j \in Win PROVE CounterExact(l, j)'
  <2>1. CASE l = k /\ j = i
    <3>1. slot'[k][i].epoch = e /\ slot'[k][i].count = n
      BY <1>9
    <3>2. Counted(slot'[k][i], e) = n
      BY <3>1 DEF Counted
    <3>3. \A f \in Epochs : f > e => f # e
      BY <1>c DEF Epochs
    <3>4. \A f \in Epochs : f > e => used'[k][i][f] = 0
      BY <1>9, <1>w, <1>b, <3>3 DEF CounterExact
    <3> QED BY <1>b, <1>c, <1>2, <1>6, <1>9, <2>1, <3>1, <3>2, <3>4 DEF CounterExact
  <2>2. CASE l # k \/ j # i
    BY <1>6, <1>9, <2>2 DEF LimitInv, CounterExact
  <2> QED BY <2>1, <2>2
<1>12. WithinLimit'
  <2> SUFFICES ASSUME NEW l \in Keys, NEW j \in Win, NEW f \in Epochs
               PROVE  used'[l][j][f] <= top'[l][j][f]
    BY DEF WithinLimit
  <2>1. used[l][j][f] <= top[l][j][f]
    BY DEF LimitInv, WithinLimit
  <2>2. CASE l = k /\ j = i /\ f = e
    BY <1>2, <1>4, <1>9, <2>2
  <2>3. CASE ~(l = k /\ j = i /\ f = e)
    BY <1>9, <2>1, <2>3
  <2> QED BY <2>2, <2>3
<1> QED BY <1>8, <1>10, <1>11, <1>12 DEF LimitInv

(* The swap, won or lost. *)
LEMMA LimitCAS == ASSUME Setting, LimitInv, NEW p \in Requests, CompareAndSwap(p) PROVE LimitInv'
<1> DEFINE q == req[p]
           again == [pc |-> "load", arg |-> q.arg, key |-> q.key, delta |-> q.delta, r |-> q.r,
                     t |-> q.t, win |-> q.win]
<1>1. q.pc = "cas" /\ Asks(q) /\ UNCHANGED <<now, reg>>
  BY DEF CompareAndSwap, LimitInv
<1>2. CASE slot[q.key][q.win] = q.old
  <2>1. Store(p) /\ Admit(p)
    BY <1>2 DEF CompareAndSwap
  <2> QED BY <1>1, <1>2, <2>1, LimitSwap
<1>3. CASE slot[q.key][q.win] # q.old
  <2>1. UNCHANGED <<slot, used, top>> /\ req' = [req EXCEPT ![p] = again]
    BY <1>3 DEF CompareAndSwap
  <2>2. Asks(again)
    BY <1>1 DEF Asks
  <2> HIDE DEF again
  <2> QED BY <1>1, <2>1, <2>2, KeepWords
<1> QED BY <1>2, <1>3

(* A new registry snapshot is used by the requests to come. *)
LEMMA LimitInstall == ASSUME LimitInv, Install PROVE LimitInv'
<1>1. UNCHANGED <<now, slot, req, used, top>> /\ reg' \in Registries /\ \A i : Present(i)' = Present(i)
  BY DEF Install, Present, EpochOf
<1>2. Shapes'
  BY <1>1 DEF LimitInv, Shapes
<1>3. \A p \in Requests : Asks(req[p])'
  BY <1>1 DEF LimitInv, Asks
<1>4. \A k \in Keys, i \in Win : CounterExact(k, i)'
  BY <1>1 DEF LimitInv, CounterExact
<1>5. WithinLimit'
  BY <1>1 DEF LimitInv, WithinLimit
<1> QED BY <1>2, <1>3, <1>4, <1>5 DEF LimitInv

(* The clock: a new epoch of a window finds no request of the old one, a   *)
(* word of an earlier epoch and nothing admitted.                          *)
LEMMA LimitTick == ASSUME Setting, LimitInv, Tick PROVE LimitInv'
<1>s. Shapes /\ now \in 0 .. MaxNow /\ MaxNow \in Nat
  BY DEF LimitInv, Shapes, Setting, RateLimitAssumption
<1>1. /\ UNCHANGED <<reg, slot, req, used, top>> /\ now' = now + 1 /\ now + 1 \in 0 .. MaxNow
      /\ \A p \in Requests : InProgress(p) => \A i \in Win : EpochOf(now + 1, i) = EpochOf(req[p].t, i)
  BY <1>s DEF Tick, Setting
<1>2. Shapes'
  BY <1>s, <1>1 DEF Shapes
<1>3. \A i : Present(i)' = EpochOf(now + 1, i)
  BY <1>1 DEF Present, EpochOf
<1>4. ASSUME NEW p \in Requests PROVE Asks(req[p])'
  <2>1. Asks(req[p])
    BY DEF LimitInv
  <2> QED BY <1>1, <1>3, <2>1 DEF Asks, InProgress
<1>5. ASSUME NEW k \in Keys, NEW i \in Win PROVE CounterExact(k, i)'
  <2>1. PICK a \in Nat : a = Present(i)
    BY <1>s, EpochRange DEF Present
  <2>2. PICK b \in Epochs : b = EpochOf(now + 1, i) /\ b \in Nat
    BY <1>1, EpochRange
  <2>3. a <= b
    BY <1>s, <2>1, <2>2, EpochRange DEF Present
  <2>4. CounterExact(k, i) /\ slot[k][i].epoch \in Nat
    BY <1>s DEF LimitInv, Shapes
  <2>5. CASE a = b
    BY <1>1, <1>3, <2>1, <2>2, <2>4, <2>5 DEF CounterExact
  <2>6. CASE a < b
    <3>1. slot[k][i].epoch <= b /\ slot[k][i].epoch # b
      BY <2>1, <2>4, <2>6, <2>2 DEF CounterExact
    <3>2. Counted(slot[k][i], b) = 0
      BY <3>1 DEF Counted
    <3>3. used[k][i][b] = 0
      BY <2>1, <2>2, <2>4, <2>6 DEF CounterExact
    <3>4. \A e \in Epochs : e > b => used[k][i][e] = 0
      <4>1. \A e \in Epochs : e > b => e > a
        BY <2>2, <2>6 DEF Epochs
      <4> QED BY <2>1, <2>4, <4>1 DEF CounterExact
    <3>5. \E r \in Registries : slot[k][i].count <= EffectiveLimit(r, i)
      BY <2>4 DEF CounterExact
    <3> QED BY <1>1, <1>3, <2>2, <3>1, <3>2, <3>3, <3>4, <3>5 DEF CounterExact
  <2> QED BY <2>2, <2>3, <2>5, <2>6
<1>6. WithinLimit'
  BY <1>1 DEF LimitInv, WithinLimit
<1> QED BY <1>2, <1>4, <1>5, <1>6 DEF LimitInv

(* Every step keeps the invariant. *)
LEMMA LimitNext == ASSUME Setting PROVE LimitInv /\ [Next]_vars => LimitInv'
<1> SUFFICES ASSUME LimitInv, [Next]_vars PROVE LimitInv'
  OBVIOUS
<1>1. CASE UNCHANGED vars
  <2>1. UNCHANGED <<now, reg, slot, req, used, top>> /\ \A i : Present(i)' = Present(i)
    BY <1>1 DEF vars, Present, EpochOf
  <2>2. Shapes' /\ WithinLimit'
    BY <2>1 DEF LimitInv, Shapes, WithinLimit
  <2>3. \A p \in Requests : Asks(req[p])'
    BY <2>1 DEF LimitInv, Asks
  <2>4. \A k \in Keys, i \in Win : CounterExact(k, i)'
    BY <2>1 DEF LimitInv, CounterExact
  <2> QED BY <2>2, <2>3, <2>4 DEF LimitInv
<1>2. ASSUME NEW p \in Requests, Load(p) PROVE LimitInv'
  BY <1>2, LimitLoad
<1>3. ASSUME NEW p \in Requests, CompareAndSwap(p) PROVE LimitInv'
  BY <1>3, LimitCAS
<1>4. ASSUME NEW p \in Requests, Finish(p) PROVE LimitInv'
  <2>1. Asks(Free)
    BY DEF Asks, Free
  <2> QED BY <1>4, <2>1, KeepWords DEF Finish
<1>5. ASSUME NEW p \in Requests, NEW k \in Keys \cup {EmptyKey}, NEW d \in Deltas, NEW g \in BOOLEAN,
             Begin(p, k, d, g)
      PROVE  LimitInv'
  BY <1>5, LimitBegin
<1>6. CASE Install
  BY <1>6, LimitInstall
<1>7. CASE Tick
  BY <1>7, LimitTick
<1> QED BY <1>1, <1>2, <1>3, <1>4, <1>5, <1>6, <1>7 DEF Next

(* In no window of a key is more weight admitted than the largest limit in *)
(* force for it allows, whatever the interleaving of loads and swaps of    *)
(* counterEpochCASBy and however often the registry changes.               *)
THEOREM LimitsAreKept == ASSUME Setting PROVE Spec => []WithinLimit
<1>1. LimitInv => WithinLimit
  BY DEF LimitInv
<1> QED BY <1>1, LimitInit, LimitNext, PTL DEF Spec

(* A request is denied only by a window that has no room for it: a swap    *)
(* lost to others makes it look again, and never counts against it.        *)
THEOREM DenialsAreFull == ASSUME Setting PROVE Spec => [][DenialIsFull]_vars
<1>1. LimitInv /\ [Next]_vars => [DenialIsFull]_vars
  <2>0. SUFFICES ASSUME LimitInv, Next, NEW p \in Requests, req[p].pc = "load", req'[p].pc = "done"
                 PROVE  used[req[p].key][req[p].win][EpochOf(req[p].t, req[p].win)] + Weight(req[p].delta)
                          > EffectiveLimit(req[p].r, req[p].win)
    BY DEF DenialIsFull
  <2>1. Load(p)
    <3>1. ASSUME NEW o \in Requests, o # p, NEW c, req' = [req EXCEPT ![o] = c] PROVE req'[p] = req[p]
      BY <3>1, <2>0 DEF LimitInv, Shapes
    <3>2. ASSUME NEW o \in Requests, o # p, Load(o) \/ CompareAndSwap(o) \/ Finish(o) PROVE FALSE
      <4>1. \E c : req' = [req EXCEPT ![o] = c]
        BY <3>2 DEF Load, CompareAndSwap, Finish, Admit
      <4> QED BY <2>0, <3>1, <3>2, <4>1
    <3>3. ASSUME NEW o \in Requests, NEW k \in Keys \cup {EmptyKey}, NEW d \in Deltas, NEW g \in BOOLEAN,
                 Begin(o, k, d, g)
          PROVE  FALSE
      <4>1. o # p /\ \E c : req' = [req EXCEPT ![o] = c]
        BY <3>3, <2>0 DEF Begin
      <4> QED BY <2>0, <3>1, <4>1
    <3>4. ~Install /\ ~Tick
      BY <2>0 DEF Install, Tick
    <3>5. ~CompareAndSwap(p) /\ ~Finish(p)
      BY <2>0 DEF CompareAndSwap, Finish
    <3> QED BY <2>0, <3>2, <3>3, <3>4, <3>5 DEF Next
  <2>s. Shapes /\ Asks(req[p])
    BY <2>0 DEF LimitInv
  <2>a. PICK k \in Keys, i \in Win, r \in Registries, d \in Deltas :
           k = req[p].key /\ i = req[p].win /\ r = req[p].r /\ d = req[p].delta
    BY <2>0, <2>s DEF Asks
  <2>b. PICK e \in Epochs : e = Present(i) /\ e = EpochOf(req[p].t, i)
    BY <2>0, <2>s, <2>a, EpochRange DEF Shapes, Present, Asks
  <2>2. Denies(slot[k][i], e, EffectiveLimit(r, i), d)
    <3>1. ~(i > Allocated)
      BY DEF Setting, RateLimitAssumption, Win
    <3>2. ASSUME ~Denies(slot[k][i], e, EffectiveLimit(r, i), d) PROVE FALSE
      <4> DEFINE q == req[p]
                 c == [pc |-> "cas", arg |-> q.arg, key |-> q.key, delta |-> q.delta, r |-> q.r,
                       t |-> q.t, win |-> q.win, old |-> slot[q.key][q.win]]
      <4>1. /\ ~Denies(slot[q.key][q.win], EpochOf(q.t, q.win), EffectiveLimit(q.r, q.win), q.delta)
            /\ ~(q.win > Allocated)
        BY <2>a, <2>b, <3>1, <3>2
      <4>2. req' = [req EXCEPT ![p] = c]
        BY <2>1, <4>1 DEF Load
      <4>3. c.pc = "cas"
        OBVIOUS
      <4> HIDE DEF c
      <4>4. req'[p].pc = "cas"
        BY <2>s, <4>2, <4>3 DEF Shapes
      <4> QED BY <2>0, <4>4
    <3> QED BY <3>2
  <2>3. /\ NewCount(slot[k][i], e, d) = Counted(slot[k][i], e) + Weight(d)
        /\ Counted(slot[k][i], e) \in Nat /\ Weight(d) \in Nat /\ Weight(d) >= 1
    <3>1. slot[k][i].count \in Nat
      BY <2>s DEF Shapes
    <3>2. \E t \in Registries : slot[k][i].count <= EffectiveLimit(t, i)
      BY <2>0 DEF LimitInv, CounterExact
    <3> QED BY <3>1, <3>2, AddsWeight
  <2>4. used[k][i][e] = Counted(slot[k][i], e)
    BY <2>0, <2>b DEF LimitInv, CounterExact
  <2>5. EffectiveLimit(r, i) \in Nat
    BY DEF Setting
  <2>6. used[k][i][e] + Weight(d) > EffectiveLimit(r, i)
    BY <2>2, <2>3, <2>4, <2>5 DEF Denies
  <2> QED BY <2>6, <2>a, <2>b
<1> QED BY <1>1, LimitInit, LimitNext, PTL DEF Spec
=============================================================================
