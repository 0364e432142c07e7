------------------------- MODULE EgressLimiterProofs --------------------------
(***************************************************************************)
(* The budget of the egress limit step holds for any number of calls, any  *)
(* limit and any window length: Limit calls per window with a distributed  *)
(* counter, twice that with the local bucket, as long as no call outlives  *)
(* the window it read from the clock.                                      *)
(*                                                                         *)
(* The argument for the local bucket: within a window the epoch changes    *)
(* once, by the one call whose compare-and-swap wins (the resetter).       *)
(* Calls that add between its swap and its store of the count go through   *)
(* while the old count has room, at most Limit of them, and are forgotten; *)
(* after the store every call that goes through is counted, the resetter   *)
(* included, which is again at most Limit.                                 *)
(*                                                                         *)
(* The second part is about the gate callers wait at, and needs no bound   *)
(* on how long a call takes.  A gate is taken away only by the one who     *)
(* closes it, and from the moment its maker releases the mutex until then  *)
(* it has a timer: it is closed once, and everyone who waits is reached.   *)
(***************************************************************************)
EXTENDS EgressLimiter, TLAPS

Shape(c) == DOMAIN c = {"pc", "epoch", "cur", "ch", "deadline"} /\ c.epoch \in Nat /\ c.cur \in Nat

Shapes ==
    /\ now \in Nat /\ Window <= now /\ now <= MaxNow
    /\ epoch \in Nat /\ count \in Nat /\ wired \in BOOLEAN
    /\ remote \in [Epochs -> Nat] /\ granted \in [Epochs -> Nat]
    /\ DOMAIN call = Calls /\ \A p \in Calls : Shape(call[p])

This == EpochOf(now)

(* With a distributed counter it alone decides. *)
Distributed ==
    /\ \A e \in Epochs : granted[e] <= remote[e] /\ granted[e] <= Limit
    /\ \A p \in Calls : call[p].pc \notin Claiming

(* Where a claim stands in its window. *)
Claim(c) ==
    /\ c.pc \in Claiming => c.epoch = This
    /\ c.pc \in {"add", "store", "swap"} => epoch = This
    /\ c.pc = "cas" => c.cur # This /\ epoch \in {c.cur, This}

Resetters == {p \in Calls : call[p].pc \in {"store", "swap"}}
Storing == \E p \in Calls : call[p].pc = "store"
Swapping == \E p \in Calls : call[p].pc = "swap"

(* The calls let through in this window. *)
Budget ==
    /\ epoch # This => granted[This] = 0
    /\ Storing => granted[This] <= count /\ granted[This] <= Limit
    /\ epoch = This /\ ~Storing =>
         LET n == granted[This] + IF Swapping THEN 1 ELSE 0 IN n <= Limit + count /\ n <= 2 * Limit

Local ==
    /\ epoch <= This
    /\ \A p \in Calls : Claim(call[p])
    /\ \A p, q \in Resetters : p = q
    /\ Budget
    /\ \A e \in Epochs : /\ e < This => granted[e] <= 2 * Limit
                         /\ e > This => granted[e] = 0

BudgetInv == Shapes /\ IF wired THEN Distributed ELSE Local

-----------------------------------------------------------------------------
(* Windows. *)

(* Quotient and rest. *)
LEMMA Division ==
  ASSUME NEW n \in Nat, NEW w \in Nat \ {0}
  PROVE  /\ n = w * (n \div w) + (n % w)
         /\ n \div w \in Nat
         /\ n % w \in 0 .. w - 1
  OBVIOUS

(* Quotient and rest are unique. *)
LEMMA DivisionUnique ==
  ASSUME NEW w \in Nat \ {0}, NEW a \in Int, NEW b \in Int, NEW r \in 0 .. w - 1, NEW s \in 0 .. w - 1,
         w * a + r = w * b + s
  PROVE  a = b
<1>1. w * (a - b) = s - r
  OBVIOUS
<1>2. ASSUME a - b >= 1 PROVE FALSE
  <2>1. w * (a - b) >= w
    BY <1>2
  <2> QED BY <2>1, <1>1
<1>3. ASSUME a - b <= -1 PROVE FALSE
  <2>1. w * (a - b) <= -w
    BY <1>3
  <2> QED BY <2>1, <1>1
<1> QED BY <1>2, <1>3

(* The window number changes only at a multiple of the window length. *)
LEMMA SameWindow ==
  ASSUME NEW n \in Nat, NEW w \in Nat \ {0}, (n + 1) % w # 0
  PROVE  (n + 1) \div w = n \div w
<1> DEFINE a == n \div w
           r == n % w
           b == (n + 1) \div w
           s == (n + 1) % w
<1>1. n = w * a + r /\ a \in Int /\ r \in 0 .. w - 1
  BY Division
<1>2. n + 1 = w * b + s /\ b \in Int /\ s \in 0 .. w - 1 /\ s # 0
  BY Division
<1> HIDE DEF a, b, r, s
<1>3. w * a + r = w * b + (s - 1) /\ s - 1 \in 0 .. w - 1
  BY <1>1, <1>2
<1>4. a = b
  BY <1>1, <1>2, <1>3, DivisionUnique
<1> QED BY <1>4 DEF a, b

(* Window numbers grow with the clock, start at 1 and stay below it. *)
LEMMA WindowGrows ==
  ASSUME NEW n \in Nat, NEW w \in Nat \ {0}
  PROVE  n \div w <= (n + 1) \div w /\ n \div w <= n /\ (w <= n => n \div w >= 1)
<1> DEFINE a == n \div w
           r == n % w
           b == (n + 1) \div w
           s == (n + 1) % w
<1>0. n + 1 \in Nat
  OBVIOUS
<1>1. n = w * a + r /\ a \in Nat /\ r \in 0 .. w - 1
  BY Division
<1>2. n + 1 = w * b + s /\ b \in Nat /\ s \in 0 .. w - 1
  BY <1>0, Division
<1> HIDE DEF a, b, r, s
<1>3. a <= b
  <2> SUFFICES ASSUME a >= b + 1 PROVE FALSE
    BY <1>1, <1>2
  <2>1. w * a >= w * (b + 1)
    BY <1>1, <1>2
  <2>2. w * (b + 1) = w * b + w
    BY <1>2
  <2> QED BY <1>1, <1>2, <2>1, <2>2
<1>4. a <= n
  <2>1. w * a >= a
    BY <1>1
  <2> QED BY <1>1, <2>1
<1>5. ASSUME w <= n PROVE a >= 1
  <2> SUFFICES ASSUME a = 0 PROVE FALSE
    BY <1>1
  <2> QED BY <1>1, <1>5
<1> QED BY <1>3, <1>4, <1>5 DEF a, b

(* Every tick is in a window that has a budget. *)
LEMMA WindowRange ==
  ASSUME EgressAssumption, NEW n \in Nat, Window <= n, n <= MaxNow
  PROVE  EpochOf(n) \in Epochs /\ EpochOf(n) \in Nat /\ EpochOf(n) >= 1
<1>1. Window \in Nat \ {0} /\ MaxNow \in Nat
  BY DEF EgressAssumption
<1> DEFINE e == n \div Window
<1>2. e \in Nat /\ e <= n /\ e >= 1
  BY <1>1, Division, WindowGrows
<1> HIDE DEF e
<1>3. e \in 0 .. MaxNow
  BY <1>1, <1>2
<1> QED BY <1>2, <1>3 DEF e, EpochOf, Epochs

(* So is the present. *)
LEMMA ThisRange ==
  ASSUME EgressAssumption, Shapes PROVE This \in Epochs /\ This \in Nat /\ This >= 1
  BY WindowRange DEF Shapes, This

-----------------------------------------------------------------------------
(* The steps. *)

(* At the start nothing has been let through, and the bucket's epoch is of *)
(* no window.                                                              *)
LEMMA BudgetInit == ASSUME EgressAssumption PROVE Init => BudgetInv
<1> SUFFICES ASSUME Init PROVE BudgetInv
  OBVIOUS
<1>0. Start \in Nat /\ MaxNow \in Nat /\ Window \in Nat /\ Window <= Start /\ Start <= MaxNow
  BY DEF EgressAssumption
<1>1. Limit \in Nat \ {0}
  BY DEF EgressAssumption
<1>2. Shapes
  BY <1>0 DEF Init, Shapes, Shape, Idle, None
<1>3. This \in Epochs /\ This \in Nat /\ This >= 1
  BY <1>2, ThisRange
<1>4. Distributed
  BY <1>1 DEF Init, Distributed, Idle, Claiming
<1>5. epoch = 0 /\ epoch # This /\ ~Storing /\ \A e \in Epochs : granted[e] = 0
  BY <1>3 DEF Init, Storing, Idle
<1>6. Budget
  BY <1>3, <1>5 DEF Budget
<1>7. Resetters = {} /\ \A p \in Calls : Claim(call[p])
  BY DEF Init, Claim, Idle, Claiming, Resetters
<1>8. epoch <= This /\ 0 <= 2 * Limit
  BY <1>1, <1>3, <1>5
<1>9. Local
  BY <1>5, <1>6, <1>7, <1>8 DEF Local
<1> QED BY <1>2, <1>4, <1>9 DEF BudgetInv

(* What an assignment to one call does. *)
LEMMA UpdateCall ==
  ASSUME Shapes, NEW p \in Calls, NEW c, Shape(c), call' = [call EXCEPT ![p] = c]
  PROVE  /\ DOMAIN call' = Calls /\ \A q \in Calls : Shape(call'[q])
         /\ call'[p] = c /\ \A q \in Calls : q # p => call'[q] = call[q]
  BY DEF Shapes

(* A step that is not part of a claim. *)
LEMMA KeepBudget ==
  ASSUME BudgetInv, UNCHANGED <<now, epoch, count, wired, remote, granted>>,
         DOMAIN call' = Calls,
         \A q \in Calls : /\ Shape(call'[q])
                          /\ \/ call'[q].pc = call[q].pc /\ call'[q].epoch = call[q].epoch /\ call'[q].cur = call[q].cur
                             \/ call'[q].pc \notin Claiming /\ call[q].pc \notin Claiming
  PROVE  BudgetInv'
<1>1. Shapes'
  BY DEF BudgetInv, Shapes
<1>2. This' = This
  BY DEF This, EpochOf
<1>3. ASSUME wired PROVE Distributed'
  BY <1>3 DEF BudgetInv, Distributed
<1>4. ASSUME ~wired PROVE Local'
  <2>1. Local
    BY <1>4 DEF BudgetInv
  <2>2. \A q \in Calls : /\ call'[q].pc = "store" <=> call[q].pc = "store"
                         /\ call'[q].pc = "swap" <=> call[q].pc = "swap"
    BY DEF Claiming
  <2>3. Resetters' = Resetters /\ Storing' = Storing /\ Swapping' = Swapping
    BY <2>2 DEF Resetters, Storing, Swapping
  <2>4. Budget'
    BY <1>2, <2>1, <2>3 DEF Local, Budget
  <2>5. \A q \in Calls : Claim(call[q])'
    BY <1>2, <2>1 DEF Local, Claim, Claiming
  <2> QED BY <1>2, <2>1, <2>3, <2>4, <2>5 DEF Local
<1> QED BY <1>1, <1>3, <1>4 DEF BudgetInv

(* A step of a call that is not claiming, to another such state. *)
LEMMA KeepCall ==
  ASSUME BudgetInv, UNCHANGED <<now, epoch, count, wired, remote, granted>>,
         NEW p \in Calls, NEW c, Shape(c), call' = [call EXCEPT ![p] = c],
         call[p].pc \notin Claiming, c.pc \notin Claiming
  PROVE  BudgetInv'
<1>1. /\ DOMAIN call' = Calls /\ \A q \in Calls : Shape(call'[q])
      /\ call'[p] = c /\ \A q \in Calls : q # p => call'[q] = call[q]
  BY UpdateCall DEF BudgetInv
<1> QED BY <1>1, KeepBudget

(* The gate, the decision, the wait and what the client does. *)
LEMMA BudgetOther ==
  ASSUME BudgetInv, NEW p \in Calls,
         \/ LoadGate(p) \/ MakeGate(p) \/ ArmTimer(p) \/ Decide(p) \/ Wake(p)
         \/ Disconnect(p) \/ NextRequest(p)
  PROVE  BudgetInv'
<1>s. Shape(call[p]) /\ \A o : Shape([Idle EXCEPT !.pc = o]) /\ Shape(Idle)
  BY DEF BudgetInv, Shapes, Shape, Idle
<1>1. UNCHANGED <<now, epoch, count, wired, remote, granted>> /\ call[p].pc \notin Claiming
  BY DEF LoadGate, MakeGate, ArmTimer, Decide, Wake, Disconnect, NextRequest, bucket, Claiming, Final
<1>2. ASSUME LoadGate(p) PROVE BudgetInv'
  <2> DEFINE c == [call[p] EXCEPT !.ch = gate, !.pc = IF gate = None THEN "lock" ELSE "decide"]
  <2>1. Shape(c) /\ c.pc \notin Claiming
    BY <1>s DEF Shape, Claiming
  <2>2. call' = [call EXCEPT ![p] = c]
    BY <1>2 DEF LoadGate
  <2> HIDE DEF c
  <2> QED BY <1>1, <2>1, <2>2, KeepCall
<1>3. ASSUME MakeGate(p) PROVE BudgetInv'
  <2>1. PICK g, pc : pc \in {"arm", "decide"} /\ call' = [call EXCEPT ![p] = [call[p] EXCEPT !.ch = g, !.pc = pc]]
    BY <1>3 DEF MakeGate
  <2> DEFINE c == [call[p] EXCEPT !.ch = g, !.pc = pc]
  <2>2. Shape(c) /\ c.pc \notin Claiming
    BY <1>s, <2>1 DEF Shape, Claiming
  <2>3. call' = [call EXCEPT ![p] = c]
    BY <2>1
  <2> HIDE DEF c
  <2> QED BY <1>1, <2>2, <2>3, KeepCall
<1>4. ASSUME ArmTimer(p) PROVE BudgetInv'
  <2> DEFINE c == [call[p] EXCEPT !.pc = "decide"]
  <2>1. Shape(c) /\ c.pc \notin Claiming
    BY <1>s DEF Shape, Claiming
  <2>2. call' = [call EXCEPT ![p] = c]
    BY <1>4 DEF ArmTimer, Goto
  <2> HIDE DEF c
  <2> QED BY <1>1, <2>1, <2>2, KeepCall
<1>5. ASSUME NEW o \in Final, Done(p, o) PROVE BudgetInv'
  <2> DEFINE c == [Idle EXCEPT !.pc = o]
  <2>1. Shape(c) /\ c.pc \notin Claiming
    BY <1>s DEF Idle, Claiming, Final
  <2>2. call' = [call EXCEPT ![p] = c]
    BY <1>5 DEF Done
  <2> HIDE DEF c
  <2> QED BY <1>1, <2>1, <2>2, KeepCall
<1>6. ASSUME Decide(p) PROVE BudgetInv'
  <2>1. CASE \E o \in Final : Done(p, o)
    BY <1>5, <2>1
  <2>2. CASE \E g, d : call' = [call EXCEPT ![p] = [Idle EXCEPT !.pc = "blocked", !.ch = g, !.deadline = d]]
    <3>1. PICK g, d : call' = [call EXCEPT ![p] = [Idle EXCEPT !.pc = "blocked", !.ch = g, !.deadline = d]]
      BY <2>2
    <3> DEFINE c == [Idle EXCEPT !.pc = "blocked", !.ch = g, !.deadline = d]
    <3>2. Shape(c) /\ c.pc \notin Claiming
      BY DEF Shape, Idle, Claiming
    <3>3. call' = [call EXCEPT ![p] = c]
      BY <3>1
    <3> HIDE DEF c
    <3> QED BY <1>1, <3>2, <3>3, KeepCall
  <2> QED BY <1>6, <2>1, <2>2 DEF Decide, Final
<1>7. ASSUME Wake(p) PROVE BudgetInv'
  <2>1. CASE call' = [call EXCEPT ![p].ch = None, ![p].pc = "idle"]
    <3> DEFINE c == [call[p] EXCEPT !.ch = None, !.pc = "idle"]
    <3>1. Shape(c) /\ c.pc \notin Claiming
      BY <1>s DEF Shape, Claiming
    <3>2. call' = [call EXCEPT ![p] = c]
      BY <2>1
    <3> HIDE DEF c
    <3> QED BY <1>1, <3>1, <3>2, KeepCall
  <2> QED BY <1>5, <1>7, <2>1 DEF Wake, Final
<1>8. ASSUME NextRequest(p) PROVE BudgetInv'
  <2>1. Idle.pc \notin Claiming /\ call' = [call EXCEPT ![p] = Idle]
    BY <1>8 DEF NextRequest, Idle, Claiming
  <2> QED BY <1>1, <1>s, <2>1, KeepCall
<1>9. ASSUME Disconnect(p) PROVE BudgetInv'
  <2>1. call' = call
    BY <1>9 DEF Disconnect
  <2> QED BY <1>1, <2>1, KeepBudget DEF BudgetInv, Shapes
<1> QED BY <1>2, <1>3, <1>4, <1>6, <1>7, <1>8, <1>9

(* A call reads the clock; a distributed counter lets it through while it  *)
(* counts up to Limit.                                                     *)
LEMMA BudgetAcquire ==
  ASSUME EgressAssumption, BudgetInv, NEW p \in Calls, Acquire(p) PROVE BudgetInv'
<1>s. Shapes /\ Shape(call[p]) /\ This \in Epochs /\ This \in Nat /\ Limit \in Nat \ {0}
  BY ThisRange DEF BudgetInv, Shapes, EgressAssumption
<1>1. /\ UNCHANGED <<now, epoch, count, wired>> /\ This' = This /\ call[p].pc = "idle"
  BY DEF Acquire, bucket, This, EpochOf
<1>2. CASE wired
  <2>0. Distributed
    BY <1>2 DEF BudgetInv
  <2>1. remote' = [remote EXCEPT ![This] = remote[This] + 1]
    BY <1>2 DEF Acquire, This
  <2>2. PICK c : Shape(c) /\ c.pc \notin Claiming /\ call' = [call EXCEPT ![p] = c]
    <3>1. CASE remote[This] < Limit
      <4>1. call' = [call EXCEPT ![p] = [Idle EXCEPT !.pc = "allowed"]]
        BY <1>2, <3>1 DEF Acquire, Done, This
      <4>2. Shape([Idle EXCEPT !.pc = "allowed"]) /\ [Idle EXCEPT !.pc = "allowed"].pc \notin Claiming
        BY DEF Idle, Shape, Claiming
      <4> QED BY <4>1, <4>2
    <3>2. CASE ~(remote[This] < Limit)
      <4>1. call' = [call EXCEPT ![p] = [call[p] EXCEPT !.epoch = This, !.pc = "gate"]]
        BY <1>2, <3>2 DEF Acquire, This
      <4>2. /\ Shape([call[p] EXCEPT !.epoch = This, !.pc = "gate"])
            /\ [call[p] EXCEPT !.epoch = This, !.pc = "gate"].pc \notin Claiming
        BY <1>s DEF Shape, Claiming
      <4> QED BY <4>1, <4>2
    <3> QED BY <3>1, <3>2
  <2>3. /\ DOMAIN call' = Calls /\ \A q \in Calls : Shape(call'[q])
        /\ \A q \in Calls : call'[q].pc \notin Claiming
    BY <1>s, <2>0, <2>2, UpdateCall DEF Distributed
  <2>4. \/ remote[This] < Limit /\ granted' = [granted EXCEPT ![This] = granted[This] + 1]
        \/ granted' = granted
    BY <1>2 DEF Acquire, This
  <2>5. /\ remote' \in [Epochs -> Nat] /\ granted' \in [Epochs -> Nat]
        /\ \A e \in Epochs : granted'[e] <= remote'[e] /\ granted'[e] <= Limit
    <3>1. remote \in [Epochs -> Nat] /\ granted \in [Epochs -> Nat]
      BY <1>s DEF Shapes
    <3> QED BY <1>s, <2>0, <2>1, <2>4, <3>1 DEF Distributed
  <2> QED BY <1>s, <1>1, <1>2, <2>3, <2>5 DEF BudgetInv, Shapes, Distributed
<1>3. CASE ~wired
  <2>0. Local
    BY <1>3 DEF BudgetInv
  <2> DEFINE c == [call[p] EXCEPT !.epoch = This, !.pc = "load"]
  <2>1. UNCHANGED <<remote, granted>> /\ call' = [call EXCEPT ![p] = c]
    BY <1>3 DEF Acquire, This
  <2>2. Shape(c) /\ c.pc = "load" /\ c.epoch = This
    BY <1>s DEF Shape
  <2> HIDE DEF c
  <2>3. /\ DOMAIN call' = Calls /\ \A q \in Calls : Shape(call'[q])
        /\ call'[p] = c /\ \A q \in Calls : q # p => call'[q] = call[q]
    BY <1>s, <2>1, <2>2, UpdateCall
  <2>4. Resetters' = Resetters /\ Storing' = Storing /\ Swapping' = Swapping
    BY <1>1, <2>2, <2>3 DEF Resetters, Storing, Swapping
  <2>5. \A q \in Calls : Claim(call[q])'
    BY <1>1, <2>0, <2>2, <2>3 DEF Local, Claim, Claiming
  <2>6. Local'
    BY <1>1, <2>0, <2>1, <2>4, <2>5 DEF Local, Budget
  <2>7. Shapes'
    BY <1>s, <1>1, <2>1, <2>3 DEF Shapes
  <2> QED BY <1>1, <1>3, <2>6, <2>7 DEF BudgetInv
<1> QED BY <1>2, <1>3

(* A claim's step: the bucket is local, and the call is one of this window. *)
LEMMA Claims ==
  ASSUME EgressAssumption, BudgetInv, NEW p \in Calls, call[p].pc \in Claiming
  PROVE  /\ Shapes /\ Local /\ ~wired /\ Shape(call[p]) /\ Claim(call[p]) /\ call[p].epoch = This
         /\ This \in Epochs /\ This \in Nat /\ Limit \in Nat /\ Limit >= 1
         /\ granted[This] \in Nat /\ epoch \in Nat /\ count \in Nat
<1>1. Shapes /\ ~wired
  BY DEF BudgetInv, Distributed
<1>2. Local /\ Shape(call[p]) /\ Claim(call[p]) /\ call[p].epoch = This
  BY <1>1 DEF BudgetInv, Shapes, Local, Claim
<1>3. This \in Epochs /\ This \in Nat /\ Limit \in Nat /\ Limit >= 1
  BY <1>1, ThisRange DEF EgressAssumption
<1> QED BY <1>1, <1>2, <1>3 DEF Shapes

(* countForEpoch loads the epoch: the bucket has been reset, or not yet. *)
LEMMA BudgetLoad ==
  ASSUME EgressAssumption, BudgetInv, NEW p \in Calls, LoadEpoch(p) PROVE BudgetInv'
<1>s. /\ Shapes /\ Local /\ ~wired /\ Shape(call[p]) /\ call[p].epoch = This /\ epoch \in Nat
      /\ call[p].pc = "load"
  BY Claims DEF LoadEpoch, Claiming
<1> DEFINE c == [call[p] EXCEPT !.cur = epoch, !.pc = IF epoch = call[p].epoch THEN "add" ELSE "cas"]
<1>1. /\ UNCHANGED <<now, epoch, count, wired, remote, granted>> /\ This' = This
      /\ call' = [call EXCEPT ![p] = c]
  BY DEF LoadEpoch, bucket, This, EpochOf
<1>2. /\ Shape(c) /\ c.epoch = This /\ c.cur = epoch
      /\ c.pc = IF epoch = This THEN "add" ELSE "cas"
  BY <1>s DEF Shape
<1> HIDE DEF c
<1>3. /\ DOMAIN call' = Calls /\ \A q \in Calls : Shape(call'[q])
      /\ call'[p] = c /\ \A q \in Calls : q # p => call'[q] = call[q]
  BY <1>s, <1>1, <1>2, UpdateCall
<1>4. Resetters' = Resetters /\ Storing' = Storing /\ Swapping' = Swapping
  BY <1>s, <1>2, <1>3 DEF Resetters, Storing, Swapping
<1>5. \A q \in Calls : Claim(call[q])'
  BY <1>s, <1>1, <1>2, <1>3 DEF Local, Claim, Claiming
<1>6. Local'
  BY <1>s, <1>1, <1>4, <1>5 DEF Local, Budget
<1>7. Shapes'
  BY <1>s, <1>1, <1>3 DEF Shapes
<1> QED BY <1>s, <1>1, <1>6, <1>7 DEF BudgetInv

(* The calls of the window that is on go up, and no others. *)
LEMMA GrantOne ==
  ASSUME EgressAssumption, Shapes, Local, granted' = [granted EXCEPT ![This] = granted[This] + 1]
  PROVE  /\ granted' \in [Epochs -> Nat] /\ granted'[This] = granted[This] + 1
         /\ \A e \in Epochs : /\ e < This => granted'[e] <= 2 * Limit
                              /\ e > This => granted'[e] = 0
<1>1. granted \in [Epochs -> Nat] /\ This \in Epochs /\ This \in Nat
  BY ThisRange DEF Shapes
<1>2. granted' \in [Epochs -> Nat] /\ granted'[This] = granted[This] + 1
  BY <1>1
<1>3. \A e \in Epochs : e # This => granted'[e] = granted[e]
  BY <1>1
<1>4. \A e \in Epochs : (e < This => e # This) /\ (e > This => e # This)
  BY <1>1 DEF Epochs
<1> QED BY <1>2, <1>3, <1>4 DEF Local

(* A call is counted; it goes through while the count has room. *)
LEMMA BudgetAdd ==
  ASSUME EgressAssumption, BudgetInv, NEW p \in Calls, AddCount(p) PROVE BudgetInv'
<1>s. /\ Shapes /\ Local /\ ~wired /\ Shape(call[p]) /\ call[p].epoch = This
      /\ This \in Epochs /\ This \in Nat /\ Limit \in Nat /\ Limit >= 1
      /\ granted[This] \in Nat /\ count \in Nat
      /\ call[p].pc = "add" /\ epoch = This
  BY Claims DEF AddCount, Claiming, Claim
<1>1. UNCHANGED <<now, epoch, wired, remote>> /\ This' = This /\ count' = count + 1
  BY DEF AddCount, This, EpochOf
<1>2. PICK c : /\ Shape(c) /\ c.pc \notin Claiming /\ call' = [call EXCEPT ![p] = c]
               /\ \/ count + 1 <= Limit /\ granted' = [granted EXCEPT ![This] = granted[This] + 1]
                  \/ granted' = granted
  <2>1. CASE count + 1 <= Limit
    <3>1. /\ call' = [call EXCEPT ![p] = [Idle EXCEPT !.pc = "allowed"]]
          /\ granted' = [granted EXCEPT ![This] = granted[This] + 1]
      BY <1>s, <2>1 DEF AddCount, Claimed, Done
    <3>2. Shape([Idle EXCEPT !.pc = "allowed"]) /\ [Idle EXCEPT !.pc = "allowed"].pc \notin Claiming
      BY DEF Idle, Shape, Claiming
    <3> QED BY <2>1, <3>1, <3>2
  <2>2. CASE ~(count + 1 <= Limit)
    <3>1. call' = [call EXCEPT ![p] = [call[p] EXCEPT !.pc = "gate", !.cur = 0]] /\ granted' = granted
      BY <2>2 DEF AddCount, Claimed
    <3>2. /\ Shape([call[p] EXCEPT !.pc = "gate", !.cur = 0])
          /\ [call[p] EXCEPT !.pc = "gate", !.cur = 0].pc \notin Claiming
      BY <1>s DEF Shape, Claiming
    <3> QED BY <3>1, <3>2
  <2> QED BY <2>1, <2>2
<1>3. /\ DOMAIN call' = Calls /\ \A q \in Calls : Shape(call'[q])
      /\ call'[p] = c /\ \A q \in Calls : q # p => call'[q] = call[q]
  BY <1>s, <1>2, UpdateCall
<1>4. Resetters' = Resetters /\ Storing' = Storing /\ Swapping' = Swapping
  BY <1>s, <1>2, <1>3 DEF Resetters, Storing, Swapping, Claiming
<1>5. \A q \in Calls : Claim(call[q])'
  BY <1>s, <1>1, <1>2, <1>3 DEF Local, Claim, Claiming
<1>6. /\ granted' \in [Epochs -> Nat]
      /\ \/ count + 1 <= Limit /\ granted'[This] = granted[This] + 1
         \/ granted'[This] = granted[This]
      /\ \A e \in Epochs : /\ e < This => granted'[e] <= 2 * Limit
                           /\ e > This => granted'[e] = 0
  BY <1>s, <1>2, GrantOne DEF Local, Shapes
<1>7. Budget'
  <2>1. granted'[This] \in Nat
    BY <1>s, <1>6
  <2>2. CASE Storing
    <3>1. granted[This] <= count /\ granted[This] <= Limit
      BY <1>s, <2>2 DEF Local, Budget
    <3>2. granted'[This] <= count + 1 /\ granted'[This] <= Limit
      BY <1>s, <1>6, <3>1
    <3> QED BY <1>s, <1>1, <1>4, <2>2, <3>2 DEF Budget
  <2>3. CASE ~Storing
    <3> DEFINE w == IF Swapping THEN 1 ELSE 0
    <3>1. w \in Nat /\ granted[This] + w <= Limit + count /\ granted[This] + w <= 2 * Limit
      BY <1>s, <2>3 DEF Local, Budget
    <3> HIDE DEF w
    <3>2. granted'[This] + w <= Limit + (count + 1) /\ granted'[This] + w <= 2 * Limit
      BY <1>s, <1>6, <3>1
    <3> QED BY <1>s, <1>1, <1>4, <2>3, <3>2 DEF Budget, w
  <2> QED BY <2>2, <2>3
<1>8. Local'
  BY <1>s, <1>1, <1>4, <1>5, <1>6, <1>7 DEF Local
<1>9. Shapes'
  BY <1>s, <1>1, <1>3, <1>6 DEF Shapes
<1> QED BY <1>s, <1>1, <1>8, <1>9 DEF BudgetInv

(* The compare-and-swap of the epoch: its winner is the resetter of the    *)
(* window; who loses finds it reset.                                       *)
LEMMA BudgetSwapEpoch ==
  ASSUME EgressAssumption, BudgetInv, NEW p \in Calls, SwapEpoch(p) PROVE BudgetInv'
<1>s. /\ Shapes /\ Local /\ ~wired /\ Shape(call[p]) /\ call[p].epoch = This
      /\ This \in Epochs /\ This \in Nat /\ Limit \in Nat /\ Limit >= 1
      /\ granted[This] \in Nat /\ count \in Nat /\ epoch \in Nat
      /\ call[p].pc = "cas" /\ call[p].cur # This /\ epoch \in {call[p].cur, This}
  BY Claims DEF SwapEpoch, Claiming, Claim
<1>1. UNCHANGED <<now, count, wired, remote, granted>> /\ This' = This
  BY DEF SwapEpoch, This, EpochOf
<1>2. CASE epoch = call[p].cur
  <2> DEFINE c == [call[p] EXCEPT !.pc = "store"]
  <2>1. epoch' = This /\ call' = [call EXCEPT ![p] = c] /\ epoch # This
    BY <1>s, <1>2 DEF SwapEpoch, Goto
  <2>2. Shape(c) /\ c.pc = "store" /\ c.epoch = This
    BY <1>s DEF Shape
  <2> HIDE DEF c
  <2>3. /\ DOMAIN call' = Calls /\ \A q \in Calls : Shape(call'[q])
        /\ call'[p] = c /\ \A q \in Calls : q # p => call'[q] = call[q]
    BY <1>s, <2>1, <2>2, UpdateCall
  <2>4. \A q \in Calls : call[q].pc \notin {"add", "store", "swap"}
    BY <1>s, <2>1 DEF Local, Claim
  <2>5. Resetters' = {p} /\ Storing'
    BY <2>2, <2>3, <2>4 DEF Resetters, Storing
  <2>6. \A q \in Calls : Claim(call[q])'
    BY <1>s, <1>1, <2>1, <2>2, <2>3 DEF Local, Claim, Claiming
  <2>7. Budget'
    <3>1. granted[This] = 0
      BY <1>s, <2>1 DEF Local, Budget
    <3> QED BY <1>s, <1>1, <2>1, <2>5, <3>1 DEF Budget
  <2>8. Local'
    BY <1>s, <1>1, <2>1, <2>5, <2>6, <2>7 DEF Local
  <2>9. Shapes'
    BY <1>s, <1>1, <2>1, <2>3 DEF Shapes
  <2> QED BY <1>s, <1>1, <2>8, <2>9 DEF BudgetInv
<1>3. CASE epoch # call[p].cur
  <2> DEFINE c == [call[p] EXCEPT !.pc = "add"]
  <2>1. epoch' = epoch /\ call' = [call EXCEPT ![p] = c] /\ epoch = This
    BY <1>s, <1>3 DEF SwapEpoch, Goto
  <2>2. Shape(c) /\ c.pc = "add" /\ c.epoch = This
    BY <1>s DEF Shape
  <2> HIDE DEF c
  <2>3. /\ DOMAIN call' = Calls /\ \A q \in Calls : Shape(call'[q])
        /\ call'[p] = c /\ \A q \in Calls : q # p => call'[q] = call[q]
    BY <1>s, <2>1, <2>2, UpdateCall
  <2>4. Resetters' = Resetters /\ Storing' = Storing /\ Swapping' = Swapping
    BY <1>s, <2>2, <2>3 DEF Resetters, Storing, Swapping
  <2>5. \A q \in Calls : Claim(call[q])'
    BY <1>s, <1>1, <2>1, <2>2, <2>3 DEF Local, Claim, Claiming
  <2>6. Local'
    BY <1>s, <1>1, <2>1, <2>4, <2>5 DEF Local, Budget
  <2>7. Shapes'
    BY <1>s, <1>1, <2>1, <2>3 DEF Shapes
  <2> QED BY <1>s, <1>1, <2>6, <2>7 DEF BudgetInv
<1> QED BY <1>2, <1>3

(* The resetter stores the count: what was let through before is within    *)
(* Limit, and of what comes after it has counted itself.                   *)
LEMMA BudgetStore ==
  ASSUME EgressAssumption, BudgetInv, NEW p \in Calls, StoreCount(p) PROVE BudgetInv'
<1>s. /\ Shapes /\ Local /\ ~wired /\ Shape(call[p]) /\ call[p].epoch = This
      /\ This \in Epochs /\ This \in Nat /\ Limit \in Nat /\ Limit >= 1
      /\ granted[This] \in Nat /\ count \in Nat
      /\ call[p].pc = "store" /\ epoch = This
  BY Claims DEF StoreCount, Claiming, Claim
<1> DEFINE c == [call[p] EXCEPT !.pc = "swap"]
<1>1. /\ UNCHANGED <<now, epoch, wired, remote, granted>> /\ This' = This /\ count' = 1
      /\ call' = [call EXCEPT ![p] = c]
  BY DEF StoreCount, This, EpochOf, Goto
<1>2. Shape(c) /\ c.pc = "swap" /\ c.epoch = This
  BY <1>s DEF Shape
<1> HIDE DEF c
<1>3. /\ DOMAIN call' = Calls /\ \A q \in Calls : Shape(call'[q])
      /\ call'[p] = c /\ \A q \in Calls : q # p => call'[q] = call[q]
  BY <1>s, <1>1, <1>2, UpdateCall
<1>4. Storing /\ \A q \in Calls : q # p => call[q].pc \notin {"store", "swap"}
  BY <1>s DEF Local, Resetters, Storing
<1>5. ~Storing' /\ Swapping' /\ Resetters' = {p}
  BY <1>2, <1>3, <1>4 DEF Storing, Swapping, Resetters
<1>6. \A q \in Calls : Claim(call[q])'
  BY <1>s, <1>1, <1>2, <1>3 DEF Local, Claim, Claiming
<1>7. Budget'
  <2>1. granted[This] <= Limit
    BY <1>s, <1>4 DEF Local, Budget
  <2>2. granted[This] + 1 <= Limit + 1 /\ granted[This] + 1 <= 2 * Limit
    BY <1>s, <2>1
  <2> QED BY <1>s, <1>1, <1>5, <2>2 DEF Budget
<1>8. Local'
  BY <1>s, <1>1, <1>5, <1>6, <1>7 DEF Local
<1>9. Shapes'
  BY <1>s, <1>1, <1>3 DEF Shapes
<1> QED BY <1>s, <1>1, <1>8, <1>9 DEF BudgetInv

(* The resetter closes the old gate and goes through. *)
LEMMA BudgetSwapGate ==
  ASSUME EgressAssumption, BudgetInv, NEW p \in Calls, SwapGate(p) PROVE BudgetInv'
<1>s. /\ Shapes /\ Local /\ ~wired /\ Shape(call[p]) /\ call[p].epoch = This
      /\ This \in Epochs /\ This \in Nat /\ Limit \in Nat /\ Limit >= 1
      /\ granted[This] \in Nat /\ count \in Nat
      /\ call[p].pc = "swap" /\ epoch = This
  BY Claims DEF SwapGate, Claiming, Claim
<1> DEFINE c == [Idle EXCEPT !.pc = "allowed"]
<1>1. /\ UNCHANGED <<now, epoch, count, wired, remote>> /\ This' = This
      /\ granted' = [granted EXCEPT ![This] = granted[This] + 1]
      /\ call' = [call EXCEPT ![p] = c]
  BY <1>s DEF SwapGate, Claimed, Done, bucket, This, EpochOf
<1>2. Shape(c) /\ c.pc \notin Claiming
  BY DEF Shape, Idle, Claiming
<1> HIDE DEF c
<1>3. /\ DOMAIN call' = Calls /\ \A q \in Calls : Shape(call'[q])
      /\ call'[p] = c /\ \A q \in Calls : q # p => call'[q] = call[q]
  BY <1>s, <1>1, <1>2, UpdateCall
<1>4. Swapping /\ \A q \in Calls : q # p => call[q].pc \notin {"store", "swap"}
  BY <1>s DEF Local, Resetters, Swapping
<1>5. ~Storing /\ ~Storing' /\ ~Swapping' /\ Resetters' = {}
  BY <1>s, <1>2, <1>3, <1>4 DEF Storing, Swapping, Resetters, Claiming
<1>6. \A q \in Calls : Claim(call[q])'
  BY <1>s, <1>1, <1>2, <1>3 DEF Local, Claim, Claiming
<1>7. /\ granted' \in [Epochs -> Nat] /\ granted'[This] = granted[This] + 1
      /\ \A e \in Epochs : /\ e < This => granted'[e] <= 2 * Limit
                           /\ e > This => granted'[e] = 0
  BY <1>s, <1>1, GrantOne
<1>8. Budget'
  <2>1. granted[This] + 1 <= Limit + count /\ granted[This] + 1 <= 2 * Limit
    BY <1>s, <1>4, <1>5 DEF Local, Budget
  <2>2. granted'[This] + 0 <= Limit + count /\ granted'[This] + 0 <= 2 * Limit
    BY <1>s, <1>7, <2>1
  <2> QED BY <1>s, <1>1, <1>5, <2>2 DEF Budget
<1>9. Local'
  BY <1>s, <1>1, <1>5, <1>6, <1>7, <1>8 DEF Local
<1>10. Shapes'
  BY <1>s, <1>1, <1>3, <1>7 DEF Shapes
<1> QED BY <1>s, <1>1, <1>9, <1>10 DEF BudgetInv

(* The clock: a new window finds no claim under way. *)
LEMMA BudgetTick ==
  ASSUME EgressAssumption, ~Straddle, BudgetInv, Tick PROVE BudgetInv'
<1>s. /\ Shapes /\ This \in Epochs /\ This \in Nat /\ Limit \in Nat /\ Limit >= 1
      /\ now \in Nat /\ MaxNow \in Nat /\ Window \in Nat \ {0}
  BY ThisRange DEF BudgetInv, Shapes, EgressAssumption
<1>1. /\ UNCHANGED <<epoch, count, wired, remote, granted, call>> /\ now' = now + 1 /\ now < MaxNow
      /\ (now + 1) % Window = 0 => \A p \in Calls : call[p].pc \notin Claiming
  BY DEF Tick, bucket
<1>2. Shapes'
  BY <1>s, <1>1 DEF Shapes
<1>3. CASE wired
  BY <1>1, <1>2, <1>3 DEF BudgetInv, Distributed
<1>4. CASE ~wired
  <2>0. Local
    BY <1>4 DEF BudgetInv
  <2>1. Resetters' = Resetters /\ Storing' = Storing /\ Swapping' = Swapping
    BY <1>1 DEF Resetters, Storing, Swapping
  <2>2. CASE (now + 1) % Window # 0
    <3>1. This' = This
      BY <1>s, <1>1, <2>2, SameWindow DEF This, EpochOf
    <3>2. Local'
      BY <1>1, <2>0, <2>1, <3>1 DEF Local, Budget, Claim
    <3> QED BY <1>1, <1>2, <1>4, <3>2 DEF BudgetInv
  <2>3. CASE (now + 1) % Window = 0
    <3>1. This' \in Epochs /\ This' \in Nat
      <4>1. now + 1 \in Nat /\ Window <= now + 1 /\ now + 1 <= MaxNow
        BY <1>s, <1>1 DEF Shapes
      <4> QED BY <1>1, <4>1, WindowRange DEF This
    <3>2. This <= This'
      BY <1>s, <1>1, WindowGrows DEF This, EpochOf
    <3>3. CASE This' = This
      <4>1. Local'
        BY <1>1, <2>0, <2>1, <3>3 DEF Local, Budget, Claim
      <4> QED BY <1>1, <1>2, <1>4, <4>1 DEF BudgetInv
    <3>4. CASE This' > This
      <4>1. \A p \in Calls : call[p].pc \notin Claiming
        BY <1>1, <2>3
      <4>2. ~Storing' /\ Resetters' = {} /\ \A p \in Calls : Claim(call[p])'
        BY <1>1, <2>1, <4>1 DEF Storing, Resetters, Claim, Claiming
      <4>3. granted[This'] = 0 /\ epoch # This' /\ epoch <= This'
        BY <1>s, <2>0, <3>1, <3>4 DEF Local, Shapes
      <4>4. Budget'
        BY <1>1, <4>2, <4>3 DEF Budget
      <4>5. granted[This] <= 2 * Limit
        <5>1. granted[This] \in Nat /\ count \in Nat /\ ~Storing
          BY <1>s, <2>1, <4>2 DEF Shapes
        <5> QED BY <1>s, <2>0, <5>1 DEF Local, Budget
      <4>6. \A e \in Epochs : /\ e < This' => granted[e] <= 2 * Limit
                              /\ e > This' => granted[e] = 0
        <5> SUFFICES ASSUME NEW e \in Epochs
                     PROVE  (e < This' => granted[e] <= 2 * Limit) /\ (e > This' => granted[e] = 0)
          OBVIOUS
        <5>1. e \in Nat /\ granted[e] \in Nat
          BY <1>s DEF Epochs, Shapes
        <5>2. CASE e = This
          BY <1>s, <3>1, <3>4, <4>5, <5>1, <5>2
        <5>3. CASE e < This
          BY <1>s, <2>0, <3>1, <3>4, <5>1, <5>3 DEF Local
        <5>4. CASE e > This
          <6>1. granted[e] = 0
            BY <2>0, <5>4 DEF Local
          <6> QED BY <1>s, <6>1
        <5> QED BY <1>s, <5>1, <5>2, <5>3, <5>4
      <4>7. Local'
        BY <1>1, <4>2, <4>3, <4>4, <4>6 DEF Local
      <4> QED BY <1>1, <1>2, <1>4, <4>7 DEF BudgetInv
    <3> QED BY <1>s, <3>1, <3>2, <3>3, <3>4
  <2> QED BY <2>2, <2>3
<1> QED BY <1>3, <1>4

(* Every step keeps the invariant. *)
LEMMA BudgetNext ==
  ASSUME EgressAssumption, ~Straddle PROVE BudgetInv /\ [Next]_vars => BudgetInv'
<1> SUFFICES ASSUME BudgetInv, [Next]_vars PROVE BudgetInv'
  OBVIOUS
<1>1. ASSUME UNCHANGED <<now, epoch, count, wired, remote, granted, call>> PROVE BudgetInv'
  BY <1>1, KeepBudget DEF BudgetInv, Shapes
<1>2. CASE UNCHANGED vars
  BY <1>1, <1>2 DEF vars
<1>3. CASE Tick
  BY <1>3, BudgetTick
<1>4. ASSUME NEW p \in Calls, Acquire(p) PROVE BudgetInv'
  BY <1>4, BudgetAcquire
<1>5. ASSUME NEW p \in Calls, Step(p) PROVE BudgetInv'
  BY <1>5, BudgetLoad, BudgetAdd, BudgetSwapEpoch, BudgetStore, BudgetSwapGate, BudgetOther DEF Step
<1>6. ASSUME NEW p \in Calls, Disconnect(p) \/ NextRequest(p) PROVE BudgetInv'
  BY <1>6, BudgetOther
<1>7. ASSUME NEW g \in Gates, Fire(g) PROVE BudgetInv'
  BY <1>1, <1>7 DEF Fire, bucket
<1> QED BY <1>2, <1>3, <1>4, <1>5, <1>6, <1>7 DEF Next

(* A window lets at most Limit calls through when a distributed counter is *)
(* wired, and at most twice Limit with the local bucket (acquire and       *)
(* countForEpoch), provided no call outlives the window it claims in.      *)
THEOREM BudgetIsKept == ASSUME EgressAssumption, ~Straddle PROVE Spec => []BudgetKept
<1>1. BudgetInv => BudgetKept
  <2> SUFFICES ASSUME BudgetInv, NEW e \in Epochs
               PROVE  granted[e] <= IF wired THEN Limit ELSE 2 * Limit
    BY DEF BudgetKept
  <2>1. CASE wired
    BY <2>1 DEF BudgetInv, Distributed
  <2>2. CASE ~wired
    <3>1. Shapes /\ Local
      BY <2>2 DEF BudgetInv
    <3>2. This \in Nat /\ Limit \in Nat /\ Limit >= 1 /\ e \in Nat /\ granted[e] \in Nat /\ count \in Nat
      BY <3>1, ThisRange DEF Shapes, EgressAssumption, Epochs
    <3>3. CASE e # This
      <4>1. e < This \/ e > This
        BY <3>2, <3>3
      <4>2. granted[e] <= 2 * Limit \/ granted[e] = 0
        BY <3>1, <4>1 DEF Local
      <4> QED BY <2>2, <3>2, <4>2
    <3>4. CASE e = This /\ Storing
      <4>1. granted[e] <= Limit
        BY <3>1, <3>4 DEF Local, Budget
      <4> QED BY <2>2, <3>2, <4>1
    <3>5. CASE e = This /\ ~Storing
      <4>1. granted[e] = 0 \/ granted[e] + 0 <= 2 * Limit \/ granted[e] + 1 <= 2 * Limit
        BY <3>1, <3>5 DEF Local, Budget
      <4> QED BY <2>2, <3>2, <4>1
    <3> QED BY <3>3, <3>4, <3>5
  <2> QED BY <2>1, <2>2
<1> QED BY <1>1, BudgetInit, BudgetNext, PTL DEF Spec

-----------------------------------------------------------------------------
(* The gate.  Whoever holds a channel holds the gate or a closed channel:  *)
(* a gate is taken away only by the one who closes it, and it has a timer  *)
(* from when its maker lets go of the mutex until then.  Here a call may   *)
(* well outlive its window.                                                *)

CallShape(c) == DOMAIN c = {"pc", "epoch", "cur", "ch", "deadline"} /\ c.epoch \in Nat

Waiting == {"arm", "decide", "blocked"}

GateShapes ==
    /\ now \in Nat /\ Window <= now
    /\ DOMAIN call = Calls /\ \A p \in Calls : CallShape(call[p]) /\ call[p].epoch <= This
    /\ timer \in [Gates -> Nat] /\ gate \in Gates \cup {None}

Reached(c) == c.ch \in Gates /\ (c.ch \in closed \/ Opening(c.ch))

GateInv ==
    /\ GateShapes
    /\ gate # None => gate \notin closed /\ Opening(gate)
    /\ \A p \in Calls : call[p].pc \in Waiting => Reached(call[p])
    /\ panicked = FALSE

(* There is no gate at the start. *)
LEMMA GateInit == ASSUME EgressAssumption, Init PROVE GateInv
<1>1. Start \in Nat /\ Window \in Nat \ {0} /\ Window <= Start
  BY DEF EgressAssumption
<1>2. This \in Nat
  BY <1>1, Division DEF Init, This, EpochOf
<1>3. GateShapes
  BY <1>1, <1>2 DEF Init, GateShapes, CallShape, Idle, None
<1> QED BY <1>3 DEF Init, GateInv, Idle, Waiting

(* A step of one call that leaves the gate alone. *)
LEMMA KeepGate ==
  ASSUME GateInv, UNCHANGED <<now, gate, closed, timer, panicked>>,
         NEW p \in Calls, NEW c, CallShape(c), c.epoch <= This, call' = [call EXCEPT ![p] = c],
         call[p].pc # "arm", c.pc # "arm", c.pc \in Waiting => Reached(c)
  PROVE  GateInv'
<1>1. /\ DOMAIN call' = Calls /\ call'[p] = c
      /\ \A q \in Calls : q # p => call'[q] = call[q]
  BY DEF GateInv, GateShapes
<1>2. This' = This
  BY DEF This, EpochOf
<1>3. \A g : Opening(g) => Opening(g)'
  BY <1>1, <1>2 DEF Opening, This
<1>4. GateShapes'
  BY <1>1, <1>2 DEF GateInv, GateShapes
<1>5. \A q \in Calls : call'[q].pc \in Waiting => Reached(call[q])'
  BY <1>1, <1>3 DEF GateInv, Reached
<1> QED BY <1>3, <1>4, <1>5 DEF GateInv

(* The gate is closed and taken away, by the resetter or the timer. *)
LEMMA CloseGate ==
  ASSUME GateInv, gate # None, Close(gate), gate' = None, now' = now, DOMAIN call' = Calls,
         \A q \in Calls : CallShape(call'[q]) /\ call'[q].epoch <= This,
         \A q \in Calls : call'[q].pc \in Waiting => call'[q] = call[q],
         timer' \in [Gates -> Nat]
  PROVE  GateInv'
<1>1. This' = This
  BY DEF This, EpochOf
<1>2. GateShapes'
  BY <1>1 DEF GateInv, GateShapes
<1>3. panicked' = FALSE
  BY DEF GateInv, Close
<1>4. \A q \in Calls : call'[q].pc \in Waiting => Reached(call[q])'
  BY DEF GateInv, Reached, Opening, Close
<1> QED BY <1>2, <1>3, <1>4 DEF GateInv

(* The steps of a claim and of a call that waits, up to the gate itself. *)
LEMMA GateCalls ==
  ASSUME EgressAssumption, GateInv, NEW p \in Calls,
         \/ Acquire(p) \/ LoadEpoch(p) \/ AddCount(p) \/ SwapEpoch(p) \/ StoreCount(p)
         \/ LoadGate(p) \/ Decide(p) \/ Wake(p) \/ NextRequest(p)
  PROVE  GateInv'
<1>s. /\ CallShape(call[p]) /\ call[p].epoch <= This /\ This \in Nat
      /\ \A o : CallShape([Idle EXCEPT !.pc = o]) /\ [Idle EXCEPT !.pc = o].epoch = 0
  BY Division DEF GateInv, GateShapes, CallShape, Idle, This, EpochOf, EgressAssumption
<1>1. UNCHANGED <<now, gate, closed, timer, panicked>> /\ call[p].pc # "arm"
  BY DEF Acquire, LoadEpoch, AddCount, SwapEpoch, StoreCount, LoadGate, Decide, Wake, NextRequest, bucket, Final
<1>2. ASSUME NEW o, o \notin Waiting, Done(p, o) PROVE GateInv'
  <2> DEFINE c == [Idle EXCEPT !.pc = o]
  <2>1. CallShape(c) /\ c.epoch <= This /\ c.pc = o
    BY <1>s DEF Idle
  <2>2. call' = [call EXCEPT ![p] = c]
    BY <1>2 DEF Done
  <2> HIDE DEF c
  <2> QED BY <1>1, <1>2, <2>1, <2>2, KeepGate DEF Waiting
<1>3. ASSUME NEW o, o \notin Waiting, NEW e \in Nat, e <= This, NEW u,
             call' = [call EXCEPT ![p] = [call[p] EXCEPT !.pc = o, !.epoch = e, !.cur = u]]
      PROVE  GateInv'
  <2> DEFINE c == [call[p] EXCEPT !.pc = o, !.epoch = e, !.cur = u]
  <2>1. CallShape(c) /\ c.epoch = e /\ c.pc = o
    BY <1>s DEF CallShape
  <2>2. call' = [call EXCEPT ![p] = c]
    BY <1>3
  <2> HIDE DEF c
  <2> QED BY <1>1, <1>3, <2>1, <2>2, KeepGate DEF Waiting
<1>4. CASE LoadGate(p)
  <2> DEFINE c == [call[p] EXCEPT !.ch = gate, !.pc = IF gate = None THEN "lock" ELSE "decide"]
  <2>1. /\ CallShape(c) /\ c.epoch = call[p].epoch /\ c.ch = gate
        /\ c.pc = IF gate = None THEN "lock" ELSE "decide"
    BY <1>s DEF CallShape
  <2>2. call' = [call EXCEPT ![p] = c]
    BY <1>4 DEF LoadGate
  <2> HIDE DEF c
  <2>3. c.pc \in Waiting => Reached(c)
    BY <2>1 DEF GateInv, GateShapes, Reached, Waiting
  <2> QED BY <1>s, <1>1, <2>1, <2>2, <2>3, KeepGate
<1>5. CASE Decide(p)
  <2>1. CASE \E o \in Final : Done(p, o)
    BY <1>2, <2>1 DEF Final, Waiting
  <2>2. ASSUME NEW d, call' = [call EXCEPT ![p] = [Idle EXCEPT !.pc = "blocked", !.ch = call[p].ch, !.deadline = d]]
        PROVE  GateInv'
    <3> DEFINE c == [Idle EXCEPT !.pc = "blocked", !.ch = call[p].ch, !.deadline = d]
    <3>1. CallShape(c) /\ c.epoch = 0 /\ c.ch = call[p].ch /\ c.pc = "blocked"
      BY DEF CallShape, Idle
    <3>2. call' = [call EXCEPT ![p] = c]
      BY <2>2
    <3> HIDE DEF c
    <3>3. Reached(c)
      BY <1>5, <3>1 DEF Decide, GateInv, Reached, Waiting
    <3>4. c.epoch <= This
      BY <1>s, <3>1
    <3> QED BY <1>1, <3>1, <3>2, <3>3, <3>4, KeepGate
  <2> QED BY <1>5, <2>1, <2>2 DEF Decide, Final
<1>6. CASE Wake(p)
  <2>1. CASE call' = [call EXCEPT ![p].ch = None, ![p].pc = "idle"]
    <3> DEFINE c == [call[p] EXCEPT !.ch = None, !.pc = "idle"]
    <3>1. CallShape(c) /\ c.epoch = call[p].epoch /\ c.pc = "idle"
      BY <1>s DEF CallShape
    <3>2. call' = [call EXCEPT ![p] = c]
      BY <2>1
    <3> HIDE DEF c
    <3> QED BY <1>s, <1>1, <3>1, <3>2, KeepGate DEF Waiting
  <2> QED BY <1>2, <1>6, <2>1 DEF Wake, Waiting
<1>7. CASE NextRequest(p)
  <2>1. CallShape(Idle) /\ Idle.epoch = 0 /\ Idle.pc = "idle"
    BY DEF CallShape, Idle
  <2>2. call' = [call EXCEPT ![p] = Idle]
    BY <1>7 DEF NextRequest
  <2>3. Idle.epoch <= This
    BY <1>s, <2>1
  <2> QED BY <1>1, <2>1, <2>2, <2>3, KeepGate DEF Waiting
<1>8. CASE LoadEpoch(p)
  <2> DEFINE o == IF epoch = call[p].epoch THEN "add" ELSE "cas"
  <2>1. call' = [call EXCEPT ![p] = [call[p] EXCEPT !.pc = o, !.epoch = call[p].epoch, !.cur = epoch]]
    BY <1>8, <1>s DEF LoadEpoch, CallShape
  <2>2. o \notin Waiting
    BY DEF Waiting
  <2> QED BY <1>s, <1>3, <2>1, <2>2 DEF CallShape
<1>9. ASSUME NEW o, o \notin Waiting, Goto(p, o) PROVE GateInv'
  <2>1. call' = [call EXCEPT ![p] = [call[p] EXCEPT !.pc = o, !.epoch = call[p].epoch, !.cur = call[p].cur]]
    BY <1>9, <1>s DEF Goto, CallShape
  <2> QED BY <1>s, <1>3, <1>9, <2>1 DEF CallShape
<1>10. CASE SwapEpoch(p) \/ StoreCount(p)
  BY <1>9, <1>10 DEF SwapEpoch, StoreCount, Waiting
<1>11. CASE AddCount(p)
  <2>1. CASE Done(p, "allowed")
    BY <1>2, <2>1 DEF Waiting
  <2>2. CASE call' = [call EXCEPT ![p].pc = "gate", ![p].cur = 0]
    <3>1. call' = [call EXCEPT ![p] = [call[p] EXCEPT !.pc = "gate", !.epoch = call[p].epoch, !.cur = 0]]
      BY <1>s, <2>2 DEF CallShape
    <3> QED BY <1>s, <1>3, <3>1 DEF CallShape, Waiting
  <2> QED BY <1>11, <2>1, <2>2 DEF AddCount, Claimed
<1>12. CASE Acquire(p)
  <2>1. CASE Done(p, "allowed")
    BY <1>2, <2>1 DEF Waiting
  <2>2. ASSUME NEW o \in {"gate", "load"}, call' = [call EXCEPT ![p].epoch = EpochOf(now), ![p].pc = o] PROVE GateInv'
    <3>1. call' = [call EXCEPT ![p] = [call[p] EXCEPT !.pc = o, !.epoch = This, !.cur = call[p].cur]]
      BY <1>s, <2>2 DEF CallShape, This
    <3>2. o \notin Waiting /\ This <= This
      BY <1>s DEF Waiting
    <3> QED BY <1>s, <1>3, <3>1, <3>2
  <2> QED BY <1>12, <2>1, <2>2 DEF Acquire
<1> QED BY <1>4, <1>5, <1>6, <1>7, <1>8, <1>10, <1>11, <1>12

(* The resetter closes the gate of the window before, if there is one. *)
LEMMA GateReset == ASSUME EgressAssumption, GateInv, NEW p \in Calls, SwapGate(p) PROVE GateInv'
<1>s. This \in Nat /\ CallShape(call[p]) /\ call[p].epoch <= This
  BY Division DEF GateInv, GateShapes, This, EpochOf, EgressAssumption
<1>1. UNCHANGED <<now, timer>> /\ gate' = None /\ call[p].pc = "swap"
  BY DEF SwapGate
<1>2. PICK c : CallShape(c) /\ c.epoch <= This /\ c.pc \notin Waiting /\ call' = [call EXCEPT ![p] = c]
  <2>1. CASE Done(p, "allowed")
    <3> DEFINE c == [Idle EXCEPT !.pc = "allowed"]
    <3>1. CallShape(c) /\ c.epoch = 0 /\ c.pc = "allowed"
      BY DEF CallShape, Idle
    <3>2. call' = [call EXCEPT ![p] = c]
      BY <2>1 DEF Done
    <3>3. c.epoch <= This
      BY <1>s, <3>1
    <3> QED BY <3>1, <3>2, <3>3 DEF Waiting
  <2>2. CASE call' = [call EXCEPT ![p].pc = "gate", ![p].cur = 0]
    <3> DEFINE c == [call[p] EXCEPT !.pc = "gate", !.cur = 0]
    <3>1. CallShape(c) /\ c.epoch = call[p].epoch /\ c.pc = "gate"
      BY <1>s DEF CallShape
    <3>2. call' = [call EXCEPT ![p] = c]
      BY <2>2
    <3> QED BY <1>s, <3>1, <3>2 DEF Waiting
  <2> QED BY <2>1, <2>2 DEF SwapGate, Claimed
<1>3. /\ DOMAIN call' = Calls /\ call'[p] = c
      /\ \A q \in Calls : q # p => call'[q] = call[q]
  BY <1>2 DEF GateInv, GateShapes
<1>4. CASE gate # None
  <2>1. Close(gate)
    BY <1>4 DEF SwapGate
  <2>2. \A q \in Calls : CallShape(call'[q]) /\ call'[q].epoch <= This
    BY <1>2, <1>3 DEF GateInv, GateShapes
  <2> QED BY <1>1, <1>2, <1>3, <1>4, <2>1, <2>2, CloseGate DEF GateInv, GateShapes
<1>5. CASE gate = None
  <2>1. UNCHANGED <<gate, closed, panicked>>
    BY <1>1, <1>5 DEF SwapGate
  <2> QED BY <1>1, <1>2, <2>1, KeepGate DEF Waiting
<1> QED BY <1>4, <1>5

(* The timer closes the gate it was set for, and no other. *)
LEMMA GateFire == ASSUME EgressAssumption, GateInv, NEW g \in Gates, Fire(g) PROVE GateInv'
<1>1. /\ UNCHANGED <<now, call>> /\ timer' = [timer EXCEPT ![g] = None] /\ timer' \in [Gates -> Nat]
      /\ g # None /\ This' = This
  BY DEF Fire, GateInv, GateShapes, None, Gates, This, EpochOf
<1>2. CASE gate = g
  BY <1>1, <1>2, CloseGate DEF Fire, GateInv, GateShapes
<1>3. CASE gate # g
  <2>1. UNCHANGED <<gate, closed, panicked>>
    BY <1>3 DEF Fire
  <2>2. \A h \in Gates : Opening(h) => Opening(h)'
    BY <1>1, <1>3, <2>1 DEF Opening, GateInv, GateShapes, This
  <2>3. GateShapes'
    BY <1>1, <2>1 DEF GateInv, GateShapes
  <2>4. \A q \in Calls : call[q].pc \in Waiting => Reached(call[q])'
    BY <1>1, <2>1, <2>2 DEF GateInv, Reached
  <2> QED BY <1>1, <2>1, <2>2, <2>3, <2>4 DEF GateInv, GateShapes
<1> QED BY <1>2, <1>3

(* A gate found under the mutex, or a new channel nobody holds. *)
LEMMA GateMake == ASSUME EgressAssumption, GateInv, NEW p \in Calls, MakeGate(p) PROVE GateInv'
<1>s. CallShape(call[p]) /\ call[p].epoch <= This
  BY DEF GateInv, GateShapes
<1>1. UNCHANGED <<now, timer, panicked>> /\ call[p].pc = "lock" /\ This' = This
  BY DEF MakeGate, This, EpochOf
<1>2. CASE gate # None
  <2> DEFINE c == [call[p] EXCEPT !.ch = gate, !.pc = "decide"]
  <2>1. CallShape(c) /\ c.epoch = call[p].epoch /\ c.ch = gate /\ c.pc = "decide"
    BY <1>s DEF CallShape
  <2>2. UNCHANGED <<gate, closed>> /\ call' = [call EXCEPT ![p] = c]
    BY <1>2 DEF MakeGate
  <2> HIDE DEF c
  <2>3. Reached(c)
    BY <1>2, <2>1 DEF GateInv, GateShapes, Reached
  <2> QED BY <1>s, <1>1, <2>1, <2>2, <2>3, KeepGate
<1>3. CASE gate = None
  <2>1. PICK g \in Gates : /\ Unused(g) /\ gate' = g /\ closed' = closed \ {g}
                           /\ call' = [call EXCEPT ![p].ch = g, ![p].pc = "arm"]
    BY <1>3 DEF MakeGate
  <2> DEFINE c == [call[p] EXCEPT !.ch = g, !.pc = "arm"]
  <2>2. CallShape(c) /\ c.epoch = call[p].epoch /\ c.ch = g /\ c.pc = "arm"
    BY <1>s DEF CallShape
  <2>3. call' = [call EXCEPT ![p] = c]
    BY <2>1
  <2> HIDE DEF c
  <2>4. /\ DOMAIN call' = Calls /\ call'[p] = c
        /\ \A q \in Calls : q # p => call'[q] = call[q]
    BY <2>3 DEF GateInv, GateShapes
  <2>5. GateShapes'
    BY <1>s, <1>1, <2>1, <2>2, <2>4 DEF GateInv, GateShapes
  <2>6. Opening(g)'
    BY <2>1, <2>2, <2>4 DEF Opening
  <2>7. \A q \in Calls : q # p /\ call[q].pc \in Waiting => call[q].ch \in Gates /\ call[q].ch \in closed /\ call[q].ch # g
    BY <1>3, <2>1 DEF GateInv, Reached, Opening, Unused, Gates, None
  <2>8. \A q \in Calls : call'[q].pc \in Waiting => Reached(call[q])'
    BY <2>1, <2>2, <2>4, <2>6, <2>7 DEF Reached
  <2> QED BY <1>1, <2>1, <2>5, <2>6, <2>8 DEF GateInv
<1> QED BY <1>2, <1>3

(* Ends of windows keep their order. *)
LEMMA LaterEnd ==
  ASSUME NEW w \in Nat \ {0}, NEW a \in Nat, NEW b \in Nat, a <= b
  PROVE  (a + 1) * w \in Nat /\ (b + 1) * w \in Nat /\ (a + 1) * w <= (b + 1) * w /\ (a + 1) * w # 0
<1>1. (a + 1) * w \in Nat /\ (b + 1) * w \in Nat /\ (b - a) * w >= 0
  OBVIOUS
<1>2. (b + 1) * w = (a + 1) * w + (b - a) * w
  OBVIOUS
<1>3. (a + 1) * w >= w
  OBVIOUS
<1> QED BY <1>1, <1>2, <1>3

(* The present is before the end of its window. *)
LEMMA PresentEnd == ASSUME EgressAssumption, GateShapes PROVE now <= (This + 1) * Window /\ This \in Nat
<1> DEFINE a == now \div Window
           r == now % Window
<1>1. now = Window * a + r /\ a \in Nat /\ r \in 0 .. Window - 1 /\ Window \in Nat \ {0}
  BY Division DEF EgressAssumption, GateShapes
<1> HIDE DEF a, r
<1>2. (a + 1) * Window = Window * a + Window
  BY <1>1
<1>3. now <= (a + 1) * Window
  BY <1>1, <1>2
<1> QED BY <1>1, <1>3 DEF a, This, EpochOf

(* The maker of a gate sets its timer, due at the end of the window it     *)
(* read, or at once.                                                       *)
LEMMA GateArm == ASSUME EgressAssumption, GateInv, NEW p \in Calls, ArmTimer(p) PROVE GateInv'
<1>s. /\ CallShape(call[p]) /\ call[p].epoch <= This /\ call[p].epoch \in Nat /\ call[p].pc = "arm"
      /\ Reached(call[p]) /\ call[p].ch \in Gates
  BY DEF GateInv, GateShapes, CallShape, ArmTimer, Waiting, Reached
<1> DEFINE c == [call[p] EXCEPT !.pc = "decide"]
           end == (call[p].epoch + 1) * Window
           due == IF end > now THEN end ELSE now
<1>1. CallShape(c) /\ c.epoch = call[p].epoch /\ c.ch = call[p].ch /\ c.pc = "decide"
  BY <1>s DEF CallShape
<1>2. /\ UNCHANGED <<now, gate, closed, panicked>> /\ call' = [call EXCEPT ![p] = c] /\ This' = This
      /\ timer' = [timer EXCEPT ![call[p].ch] = due]
  BY DEF ArmTimer, Goto, This, EpochOf
<1>3. Window \in Nat \ {0} /\ now \in Nat /\ now # 0 /\ Window <= now
  BY DEF EgressAssumption, GateInv, GateShapes
<1>4. now <= (This + 1) * Window /\ This \in Nat
  BY PresentEnd DEF GateInv
<1>5. end \in Nat /\ end # 0 /\ end <= (This + 1) * Window
  BY <1>s, <1>3, <1>4, LaterEnd
<1> HIDE DEF c, end
<1>6. due \in Nat /\ due # None /\ due <= (This + 1) * Window
  BY <1>3, <1>4, <1>5 DEF None
<1> HIDE DEF due
<1>7. /\ DOMAIN call' = Calls /\ call'[p] = c
      /\ \A q \in Calls : q # p => call'[q] = call[q]
  BY <1>2 DEF GateInv, GateShapes
<1>8. GateShapes'
  BY <1>s, <1>1, <1>2, <1>6, <1>7 DEF GateInv, GateShapes
<1>9. timer'[call[p].ch] = due /\ \A g \in Gates : g # call[p].ch => timer'[g] = timer[g]
  BY <1>s, <1>2 DEF GateInv, GateShapes
<1>10. \A g \in Gates : Opening(g) => Opening(g)'
  <2> SUFFICES ASSUME NEW g \in Gates, Opening(g) PROVE Opening(g)'
    OBVIOUS
  <2>1. CASE g = call[p].ch
    BY <1>2, <1>6, <1>9, <2>1 DEF Opening, This
  <2>2. CASE g # call[p].ch
    BY <1>2, <1>7, <1>9, <2>2 DEF Opening, This
  <2> QED BY <2>1, <2>2
<1>11. \A q \in Calls : call'[q].pc \in Waiting => Reached(call[q])'
  BY <1>s, <1>1, <1>2, <1>7, <1>10 DEF GateInv, Reached
<1> QED BY <1>2, <1>8, <1>10, <1>11 DEF GateInv, GateShapes

(* Time passes, and the end of the present window with it. *)
LEMMA GateTick == ASSUME EgressAssumption, GateInv, Tick PROVE GateInv'
<1>1. now' = now + 1 /\ UNCHANGED <<gate, closed, timer, call, panicked>> /\ now \in Nat /\ Window \in Nat \ {0}
  BY DEF Tick, GateInv, GateShapes, EgressAssumption
<1>2. This \in Nat /\ This' \in Nat /\ This <= This'
  BY <1>1, Division, WindowGrows DEF This, EpochOf
<1>3. (This + 1) * Window \in Nat /\ (This' + 1) * Window \in Nat /\ (This + 1) * Window <= (This' + 1) * Window
  BY <1>1, <1>2, LaterEnd
<1>4. GateShapes'
  BY <1>1, <1>2 DEF GateInv, GateShapes, CallShape
<1>5. \A g \in Gates : Opening(g) => Opening(g)'
  <2> SUFFICES ASSUME NEW g \in Gates, Opening(g) PROVE Opening(g)'
    OBVIOUS
  <2>1. timer[g] \in Nat
    BY DEF GateInv, GateShapes
  <2>2. ASSUME timer[g] <= (This + 1) * Window PROVE timer[g] <= (This' + 1) * Window
    BY <1>3, <2>1, <2>2
  <2> QED BY <1>1, <2>2 DEF Opening, This
<1>6. \A q \in Calls : call'[q].pc \in Waiting => Reached(call[q])'
  BY <1>1, <1>5 DEF GateInv, Reached
<1> QED BY <1>1, <1>4, <1>5, <1>6 DEF GateInv, GateShapes

(* Every step keeps the gate sound. *)
LEMMA GateNext == ASSUME EgressAssumption PROVE GateInv /\ [Next]_vars => GateInv'
<1> SUFFICES ASSUME GateInv, [Next]_vars PROVE GateInv'
  OBVIOUS
<1>1. ASSUME UNCHANGED <<now, gate, closed, timer, call, panicked>> PROVE GateInv'
  BY <1>1 DEF GateInv, GateShapes, Reached, Opening, This, EpochOf
<1>2. CASE UNCHANGED vars
  BY <1>1, <1>2 DEF vars
<1>3. ASSUME NEW p \in Calls, Disconnect(p) PROVE GateInv'
  BY <1>1, <1>3 DEF Disconnect
<1>4. ASSUME NEW p \in Calls, Acquire(p) \/ Step(p) \/ NextRequest(p) PROVE GateInv'
  BY <1>4, GateCalls, GateReset, GateMake, GateArm DEF Step
<1> QED BY <1>2, <1>3, <1>4, GateTick, GateFire DEF Next

(* waitChannel, countForEpoch and the AfterFunc callback forget no waiter: *)
(* whoever blocks does so on a closed channel or on the gate, which its    *)
(* timer opens by the end of the present window.                           *)
THEOREM NoWaiterForgotten == ASSUME EgressAssumption PROVE Spec => []WaitersReached
<1>1. GateInv => WaitersReached
  BY DEF GateInv, WaitersReached, Reached, Waiting
<1> QED BY <1>1, GateInit, GateNext, PTL DEF Spec

(* The gate is closed by its timer or by the resetter of the next window,  *)
(* never by both: close does not panic.                                    *)
THEOREM GateClosesOnce == ASSUME EgressAssumption PROVE Spec => []NoDoubleClose
<1>1. GateInv => NoDoubleClose
  BY DEF GateInv, NoDoubleClose
<1> QED BY <1>1, GateInit, GateNext, PTL DEF Spec
=============================================================================
