-------------------------- MODULE VyukovRingProofs --------------------------
(***************************************************************************)
(* Proofs about the ring, for any producers, consumers and payloads, any   *)
(* capacity from 2 and any number of pushes: the accesses to a slot never  *)
(* race, a pop returns what was pushed at its position, and the ring       *)
(* implements the bounded FIFO queue.                                      *)
(*                                                                         *)
(* The argument looks at positions, not slots.  The positions from deqPos  *)
(* to deqPos + Capacity - 1 use every slot once, so two of them that       *)
(* differ are two slots (SlotApart).  Below enqPos a slot is claimed or    *)
(* filled, from enqPos on it is free or still being emptied, and its       *)
(* sequence number tells these four cases apart.  A goroutine that has     *)
(* claimed a position holds it in its half of the window until its last    *)
(* store, and one that is about to claim a position knows its slot's       *)
(* number, provided the position is still current when its CAS runs.       *)
(***************************************************************************)
EXTENDS VyukovRing, TLAPS, FiniteSetTheorems, SequenceTheorems

PushOwner == {"pushWrite", "pushPublish"}
PopOwner == {"popRead", "popRecycle"}
PushStates == {"idle", "pushRetry", "pushSeq", "pushCAS"} \cup PushOwner
PopStates == {"idle", "popRetry", "popSeq", "popCAS"} \cup PopOwner

(* At most Capacity positions are between the two counters. *)
Window == deqPos <= enqPos /\ enqPos <= deqPos + Capacity

(* From enqPos on a slot is free, or its last consumer has yet to recycle it. *)
FreeSlots ==
    \A x \in enqPos..(deqPos + Capacity - 1) : seq[Slot(x)] \in {x, x - Capacity + 1}

(* Below enqPos a slot is claimed, or published with its payload. *)
FilledSlots ==
    \A x \in deqPos..(enqPos - 1) :
      /\ seq[Slot(x)] \in {x, x + 1}
      /\ seq[Slot(x)] = x + 1 => event[Slot(x)] = log[x + 1]

Pushing(p) ==
    /\ pc[p] \in PushStates
    /\ pc[p] # "idle" => item[p] \in Items
    /\ pc[p] \in {"pushSeq", "pushCAS"} => pos[p] <= enqPos
    /\ pc[p] = "pushCAS" /\ pos[p] = enqPos => seq[Slot(enqPos)] = enqPos
    /\ pc[p] \in PushOwner => /\ deqPos <= pos[p] /\ pos[p] < enqPos
                              /\ seq[Slot(pos[p])] = pos[p]
                              /\ item[p] = log[pos[p] + 1]
    /\ pc[p] = "pushPublish" => event[Slot(pos[p])] = item[p]

Popping(c) ==
    /\ pc[c] \in PopStates
    /\ pc[c] \in {"popSeq", "popCAS"} => pos[c] <= deqPos
    /\ pc[c] = "popCAS" /\ pos[c] = deqPos => seq[Slot(deqPos)] = deqPos + 1
    /\ pc[c] \in PopOwner => /\ pos[c] < deqPos /\ enqPos <= pos[c] + Capacity
                             /\ seq[Slot(pos[c])] = pos[c] + 1
    /\ pc[c] = "popRead" => event[Slot(pos[c])] = log[pos[c] + 1]
    /\ pc[c] = "popRecycle" => item[c] = log[pos[c] + 1]

(* No position has two owners. *)
Apart ==
    /\ \A p, q \in Producers : p # q /\ pc[p] \in PushOwner /\ pc[q] \in PushOwner => pos[p] # pos[q]
    /\ \A c, d \in Consumers : c # d /\ pc[c] \in PopOwner /\ pc[d] \in PopOwner => pos[c] # pos[d]

IInv ==
    /\ TypeOK
    /\ Window /\ FreeSlots /\ FilledSlots
    /\ \A p \in Producers : Pushing(p)
    /\ \A c \in Consumers : Popping(c)
    /\ Apart

-----------------------------------------------------------------------------
(* The slots of positions. *)

(* Division by the capacity (pos & mask): quotient and rest are exact. *)
LEMMA Division ==
    \A x \in Nat : /\ x = Capacity * (x \div Capacity) + (x % Capacity)
                   /\ x \div Capacity \in Nat
                   /\ x % Capacity \in 0..Capacity - 1
BY RingAssumption

(* Quotient and rest are unique. *)
LEMMA DivisionUnique ==
    ASSUME NEW a \in Int, NEW b \in Int, NEW r \in 0..Capacity - 1, NEW s \in 0..Capacity - 1,
           Capacity * a + r = Capacity * b + s
    PROVE  a = b /\ r = s
<1>1. Capacity * (a - b) = s - r
  BY RingAssumption
<1>2. ASSUME a - b >= 1 PROVE FALSE
  <2>1. Capacity * (a - b) >= Capacity
    BY <1>2, RingAssumption
  <2> QED BY <2>1, <1>1, RingAssumption
<1>3. ASSUME a - b <= -1 PROVE FALSE
  <2>1. Capacity * (a - b) <= -Capacity
    BY <1>3, RingAssumption
  <2> QED BY <2>1, <1>1, RingAssumption
<1>4. a = b
  BY <1>2, <1>3
<1> QED BY <1>1, <1>4, RingAssumption

(* Every position has a slot. *)
LEMMA SlotRange == \A x \in Nat : Slot(x) \in Slots
BY Division DEF Slot, Slots

(* A position and the one a lap later share their slot. *)
LEMMA SlotLap == \A x \in Nat : Slot(x + Capacity) = Slot(x)
<1> TAKE x \in Nat
<1> DEFINE a == x \div Capacity
           b == (x + Capacity) \div Capacity
           r == x % Capacity
           s == (x + Capacity) % Capacity
<1>1. x = Capacity * a + r /\ a \in Int /\ r \in 0..Capacity - 1
  BY Division, RingAssumption
<1>2. x + Capacity = Capacity * b + s /\ b \in Int /\ s \in 0..Capacity - 1
  BY Division, RingAssumption
<1> HIDE DEF a, b, r, s
<1>3. Capacity * (a + 1) + r = Capacity * b + s
  BY <1>1, <1>2, RingAssumption
<1>4. r = s
  BY <1>1, <1>2, <1>3, DivisionUnique
<1> QED BY <1>4 DEF r, s, Slot

(* Two positions less than a lap apart have slots of their own. *)
LEMMA SlotApart == \A x, y \in Nat : x < y /\ y < x + Capacity => Slot(x) # Slot(y)
<1> SUFFICES ASSUME NEW x \in Nat, NEW y \in Nat, x < y, y < x + Capacity,
                    x % Capacity = y % Capacity
             PROVE  FALSE
  BY DEF Slot
<1> DEFINE k == (y \div Capacity) - (x \div Capacity)
<1>1. k \in Int /\ y - x = Capacity * k
  BY Division, RingAssumption
<1> HIDE DEF k
<1>2. CASE k <= 0
  <2>1. Capacity * k <= 0
    BY <1>1, <1>2, RingAssumption
  <2> QED BY <2>1, <1>1, RingAssumption
<1>3. CASE k >= 1
  <2>1. Capacity * k >= Capacity
    BY <1>1, <1>3, RingAssumption
  <2> QED BY <2>1, <1>1, RingAssumption
<1> QED BY <1>1, <1>2, <1>3

-----------------------------------------------------------------------------
(* The inductive invariant holds at the start and is kept by every access. *)

(* Every slot is free for its first lap at the start. *)
LEMMA InvInit == Init => IInv
<1> SUFFICES ASSUME Init PROVE IInv
  OBVIOUS
<1> USE RingAssumption
<1>1. TypeOK
  BY DEF Init, TypeOK, Slots
<1>2. Window
  BY DEF Init, Window
<1>3. FreeSlots
  BY DEF Init, FreeSlots, Slot, Slots
<1>4. FilledSlots
  BY DEF Init, FilledSlots
<1>5. ASSUME NEW p \in Producers PROVE Pushing(p)
  BY DEF Init, Pushing, PushStates, PushOwner, Threads
<1>6. ASSUME NEW c \in Consumers PROVE Popping(c)
  BY DEF Init, Popping, PopStates, PopOwner, Threads
<1>7. Apart
  BY DEF Init, Apart, PushOwner, PopOwner, Threads
<1> QED BY <1>1, <1>2, <1>3, <1>4, <1>5, <1>6, <1>7 DEF IInv

(* What a step of t that touches nothing shared leaves alone. *)
Local(t) ==
    /\ UNCHANGED <<enqPos, deqPos, seq, event, log>>
    /\ \E l \in PushStates \cup PopStates : pc' = [pc EXCEPT ![t] = l]
    /\ \E x \in 0..MaxPos : pos' = [pos EXCEPT ![t] = x]
    /\ \E v \in Items \cup {Empty} : item' = [item EXCEPT ![t] = v]

(* The same, for every other goroutine of a step. *)
LEMMA LocalStep ==
    ASSUME IInv, NEW t \in Threads, Local(t), pc'[t] \notin PushOwner \cup PopOwner,
           t \in Producers => Pushing(t)', t \in Consumers => Popping(t)'
    PROVE  IInv'
<1> USE DEF IInv
<1>1. TypeOK'
  BY DEF Local, TypeOK, PushStates, PopStates, PushOwner, PopOwner
<1>2. Window' /\ FreeSlots' /\ FilledSlots'
  BY DEF Local, Window, FreeSlots, FilledSlots
<1>3. \A u \in Threads : u # t => pc'[u] = pc[u] /\ pos'[u] = pos[u] /\ item'[u] = item[u]
  BY DEF Local, TypeOK
<1>4. ASSUME NEW q \in Producers PROVE Pushing(q)'
  <2>1. CASE q # t
    BY <1>3, <2>1 DEF Local, Pushing, Threads
  <2> QED BY <2>1
<1>5. ASSUME NEW c \in Consumers PROVE Popping(c)'
  <2>1. CASE c # t
    BY <1>3, <2>1 DEF Local, Popping, Threads
  <2> QED BY <2>1
<1>6. Apart'
  BY <1>3 DEF Apart, Threads
<1> QED BY <1>1, <1>2, <1>4, <1>5, <1>6

(* The facts about goroutine t that its steps start from. *)
LEMMA Typed ==
    ASSUME TypeOK, NEW t \in Threads
    PROVE  /\ enqPos \in Nat /\ deqPos \in Nat /\ enqPos \in 0..MaxPos /\ deqPos \in 0..MaxPos
           /\ pos[t] \in 0..MaxPos /\ pos[t] \in Nat /\ 0 \in 0..MaxPos
           /\ item[t] \in Items \cup {Empty}
           /\ t \in DOMAIN pc /\ t \in DOMAIN pos /\ t \in DOMAIN item
           /\ pos = [pos EXCEPT ![t] = pos[t]] /\ item = [item EXCEPT ![t] = item[t]]
BY RingAssumption DEF TypeOK

(* TryPush loads enqPos. *)
LEMMA InvPushLoadPos == ASSUME IInv, NEW p \in Producers, PushLoadPos(p) PROVE IInv'
<1> USE DEF IInv
<1>0. p \in Threads /\ p \notin Consumers
  BY RingAssumption DEF Threads
<1>1. Local(p) /\ pc'[p] = "pushSeq" /\ pos'[p] = enqPos
  BY <1>0, Typed DEF PushLoadPos, Goto, Local, PushStates
<1>2. item'[p] \in Items
  BY <1>0, Typed DEF PushLoadPos, Pushing
<1>3. Pushing(p)'
  BY <1>0, <1>1, <1>2, Typed DEF PushLoadPos, Pushing, PushStates, PushOwner
<1> QED BY <1>0, <1>1, <1>3, LocalStep DEF PushOwner, PopOwner

(* TryPush loads the sequence number of its slot. *)
LEMMA InvPushLoadSeq == ASSUME IInv, NEW p \in Producers, PushLoadSeq(p) PROVE IInv'
<1> USE DEF IInv
<1>0. p \in Threads /\ p \notin Consumers
  BY RingAssumption DEF Threads
<1>1. CASE seq[Slot(pos[p])] - pos[p] = 0 /\ Goto(p, "pushCAS") /\ UNCHANGED <<pos, item>>
  <2>1. Local(p) /\ pc'[p] = "pushCAS"
    BY <1>0, <1>1, Typed DEF PushLoadSeq, Goto, Local, PushStates
  <2>2. seq[Slot(pos[p])] = pos[p]
    BY <1>0, <1>1, SlotRange, Typed DEF TypeOK
  <2>3. Pushing(p)'
    BY <1>0, <1>1, <2>1, <2>2, Typed DEF PushLoadSeq, Local, Pushing, PushStates, PushOwner
  <2> QED BY <1>0, <2>1, <2>3, LocalStep DEF PushOwner, PopOwner
<1>2. CASE Return(p)
  <2>1. Local(p) /\ pc'[p] = "idle"
    BY <1>0, <1>2, Typed DEF PushLoadSeq, Return, Goto, Local, PushStates
  <2>2. Pushing(p)'
    BY <2>1 DEF Pushing, PushStates, PushOwner
  <2> QED BY <1>0, <2>1, <2>2, LocalStep DEF PushOwner, PopOwner
<1>3. CASE Retry(p, "pushRetry")
  <2>1. Local(p) /\ pc'[p] = "pushRetry" /\ item' = item
    BY <1>0, <1>3, Typed DEF PushLoadSeq, Retry, Goto, Local, PushStates
  <2>2. Pushing(p)'
    BY <2>1 DEF PushLoadSeq, Pushing, PushStates, PushOwner
  <2> QED BY <1>0, <2>1, <2>2, LocalStep DEF PushOwner, PopOwner
<1> QED BY <1>1, <1>2, <1>3 DEF PushLoadSeq

(* Pop loads deqPos. *)
LEMMA InvPopLoadPos == ASSUME IInv, NEW c \in Consumers, PopLoadPos(c) PROVE IInv'
<1> USE DEF IInv
<1>0. c \in Threads /\ c \notin Producers
  BY RingAssumption DEF Threads
<1>1. Local(c) /\ pc'[c] = "popSeq" /\ pos'[c] = deqPos
  BY <1>0, Typed DEF PopLoadPos, Goto, Local, PopStates
<1>2. Popping(c)'
  BY <1>0, <1>1, Typed DEF PopLoadPos, Popping, PopStates, PopOwner
<1> QED BY <1>0, <1>1, <1>2, LocalStep DEF PushOwner, PopOwner

(* Pop loads the sequence number of its slot. *)
LEMMA InvPopLoadSeq == ASSUME IInv, NEW c \in Consumers, PopLoadSeq(c) PROVE IInv'
<1> USE DEF IInv
<1>0. c \in Threads /\ c \notin Producers
  BY RingAssumption DEF Threads
<1>1. CASE seq[Slot(pos[c])] - (pos[c] + 1) = 0 /\ Goto(c, "popCAS") /\ UNCHANGED <<pos, item>>
  <2>1. Local(c) /\ pc'[c] = "popCAS"
    BY <1>0, <1>1, Typed DEF PopLoadSeq, Goto, Local, PopStates
  <2>2. seq[Slot(pos[c])] = pos[c] + 1
    BY <1>0, <1>1, SlotRange, Typed DEF TypeOK
  <2>3. Popping(c)'
    BY <1>0, <1>1, <2>1, <2>2, Typed DEF PopLoadSeq, Local, Popping, PopStates, PopOwner
  <2> QED BY <1>0, <2>1, <2>3, LocalStep DEF PushOwner, PopOwner
<1>2. CASE Return(c)
  <2>1. Local(c) /\ pc'[c] = "idle"
    BY <1>0, <1>2, Typed DEF PopLoadSeq, Return, Goto, Local, PopStates
  <2>2. Popping(c)'
    BY <2>1 DEF Popping, PopStates, PopOwner
  <2> QED BY <1>0, <2>1, <2>2, LocalStep DEF PushOwner, PopOwner
<1>3. CASE Retry(c, "popRetry")
  <2>1. Local(c) /\ pc'[c] = "popRetry"
    BY <1>0, <1>3, Typed DEF PopLoadSeq, Retry, Goto, Local, PopStates
  <2>2. Popping(c)'
    BY <2>1 DEF Popping, PopStates, PopOwner
  <2> QED BY <1>0, <2>1, <2>2, LocalStep DEF PushOwner, PopOwner
<1> QED BY <1>1, <1>2, <1>3 DEF PopLoadSeq

(* A push that is about to claim the position finds room in the window:    *)
(* with the ring full, its slot holds one of the two numbers of the oldest *)
(* position, and neither is the number it read.                            *)
LEMMA RoomAtClaim ==
    ASSUME IInv, NEW p \in Producers, pc[p] = "pushCAS", enqPos = pos[p]
    PROVE  seq[Slot(enqPos)] = enqPos /\ enqPos < deqPos + Capacity
<1> USE DEF IInv
<1>1. seq[Slot(enqPos)] = enqPos
  BY DEF Pushing
<1>2. enqPos \in Nat /\ deqPos \in Nat
  BY RingAssumption DEF TypeOK
<1>3. ASSUME enqPos = deqPos + Capacity PROVE FALSE
  <2>1. Slot(enqPos) = Slot(deqPos)
    BY <1>2, <1>3, SlotLap
  <2>2. seq[Slot(deqPos)] \in {deqPos, deqPos + 1}
    BY <1>2, <1>3, RingAssumption DEF FilledSlots
  <2> QED BY <1>1, <1>2, <1>3, <2>1, <2>2, RingAssumption
<1> QED BY <1>1, <1>2, <1>3, RingAssumption DEF Window

(* A pop that is about to claim the position finds an item there. *)
LEMMA ItemAtClaim ==
    ASSUME IInv, NEW c \in Consumers, pc[c] = "popCAS", deqPos = pos[c]
    PROVE  seq[Slot(deqPos)] = deqPos + 1 /\ deqPos < enqPos
<1> USE DEF IInv
<1>1. seq[Slot(deqPos)] = deqPos + 1
  BY DEF Popping
<1>2. enqPos \in Nat /\ deqPos \in Nat
  BY RingAssumption DEF TypeOK
<1>3. ASSUME deqPos = enqPos PROVE FALSE
  <2>1. seq[Slot(deqPos)] \in {deqPos, deqPos - Capacity + 1}
    BY <1>2, <1>3, RingAssumption DEF FreeSlots
  <2> QED BY <1>1, <1>2, <2>1, RingAssumption
<1> QED BY <1>1, <1>2, <1>3 DEF Window

(* The positions of the window have slots of their own; an owner's slot is *)
(* that of its position in the window, a lap later for a consumer.         *)
LEMMA WindowApart ==
    ASSUME IInv
    PROVE  /\ enqPos \in Nat /\ deqPos \in Nat /\ deqPos <= enqPos /\ enqPos <= deqPos + Capacity
           /\ \A x, y \in deqPos..(deqPos + Capacity - 1) : x # y => Slot(x) # Slot(y)
           /\ \A p \in Producers : pc[p] \in PushOwner =>
                pos[p] \in Nat /\ pos[p] \in deqPos..(enqPos - 1) /\ pos[p] \in deqPos..(deqPos + Capacity - 1)
           /\ \A c \in Consumers : pc[c] \in PopOwner =>
                /\ pos[c] \in Nat
                /\ pos[c] + Capacity \in enqPos..(deqPos + Capacity - 1)
                /\ pos[c] + Capacity \in deqPos..(deqPos + Capacity - 1)
                /\ Slot(pos[c] + Capacity) = Slot(pos[c])
<1> USE DEF IInv
<1>1. enqPos \in Nat /\ deqPos \in Nat /\ deqPos <= enqPos /\ enqPos <= deqPos + Capacity
  BY RingAssumption DEF TypeOK, Window
<1>2. ASSUME NEW x \in deqPos..(deqPos + Capacity - 1), NEW y \in deqPos..(deqPos + Capacity - 1), x # y
      PROVE  Slot(x) # Slot(y)
  <2>1. x \in Nat /\ y \in Nat /\ ((x < y /\ y < x + Capacity) \/ (y < x /\ x < y + Capacity))
    BY <1>1, <1>2, RingAssumption
  <2> QED BY <2>1, SlotApart
<1>3. ASSUME NEW p \in Producers, pc[p] \in PushOwner
      PROVE  pos[p] \in Nat /\ pos[p] \in deqPos..(enqPos - 1) /\ pos[p] \in deqPos..(deqPos + Capacity - 1)
  <2>1. pos[p] \in Nat /\ deqPos <= pos[p] /\ pos[p] < enqPos
    BY <1>3, Typed DEF Pushing, Threads
  <2> QED BY <1>1, <2>1, RingAssumption
<1>4. ASSUME NEW c \in Consumers, pc[c] \in PopOwner
      PROVE  /\ pos[c] \in Nat
             /\ pos[c] + Capacity \in enqPos..(deqPos + Capacity - 1)
             /\ pos[c] + Capacity \in deqPos..(deqPos + Capacity - 1)
             /\ Slot(pos[c] + Capacity) = Slot(pos[c])
  <2>1. pos[c] \in Nat /\ pos[c] < deqPos /\ enqPos <= pos[c] + Capacity
    BY <1>4, Typed DEF Popping, Threads
  <2> QED BY <1>1, <2>1, SlotLap, RingAssumption
<1> QED BY <1>1, <1>2, <1>3, <1>4

(* Two goroutines that own a slot own two slots. *)
LEMMA OwnersApart ==
    ASSUME IInv
    PROVE  /\ \A p, q \in Producers : p # q /\ pc[p] \in PushOwner /\ pc[q] \in PushOwner
                                        => Slot(pos[p]) # Slot(pos[q])
           /\ \A c, d \in Consumers : c # d /\ pc[c] \in PopOwner /\ pc[d] \in PopOwner
                                        => Slot(pos[c]) # Slot(pos[d])
           /\ \A p \in Producers, c \in Consumers : pc[p] \in PushOwner /\ pc[c] \in PopOwner
                                        => Slot(pos[p]) # Slot(pos[c])
<1> USE DEF IInv
<1>1. ASSUME NEW p \in Producers, NEW q \in Producers, p # q, pc[p] \in PushOwner, pc[q] \in PushOwner
      PROVE  Slot(pos[p]) # Slot(pos[q])
  BY <1>1, WindowApart DEF Apart
<1>2. ASSUME NEW c \in Consumers, NEW d \in Consumers, c # d, pc[c] \in PopOwner, pc[d] \in PopOwner
      PROVE  Slot(pos[c]) # Slot(pos[d])
  <2>1. pos[c] + Capacity # pos[d] + Capacity
    BY <1>2, WindowApart, RingAssumption DEF Apart
  <2> QED BY <1>2, <2>1, WindowApart
<1>3. ASSUME NEW p \in Producers, NEW c \in Consumers, pc[p] \in PushOwner, pc[c] \in PopOwner
      PROVE  Slot(pos[p]) # Slot(pos[c])
  <2>1. pos[p] # pos[c] + Capacity
    BY <1>3, WindowApart, RingAssumption
  <2> QED BY <1>3, <2>1, WindowApart
<1> QED BY <1>1, <1>2, <1>3

(* TryPush claims the position, or starts over. *)
LEMMA InvPushCAS == ASSUME IInv, NEW p \in Producers, PushCAS(p) PROVE IInv'
<1> USE DEF IInv
<1>0. p \in Threads /\ p \notin Consumers
  BY RingAssumption DEF Threads
<1>1. CASE enqPos # pos[p]
  <2>1. Local(p) /\ pc'[p] = "pushRetry" /\ item' = item
    BY <1>0, <1>1, Typed DEF PushCAS, Retry, Goto, Local, PushStates
  <2>2. Pushing(p)'
    BY <2>1 DEF PushCAS, Pushing, PushStates, PushOwner
  <2> QED BY <1>0, <2>1, <2>2, LocalStep DEF PushOwner, PopOwner
<1>2. CASE enqPos = pos[p]
  <2>1. /\ enqPos' = enqPos + 1 /\ pc' = [pc EXCEPT ![p] = "pushWrite"]
        /\ UNCHANGED <<deqPos, seq, event, pos, item>>
        /\ pc[p] = "pushCAS" /\ enqPos < MaxPos
    BY <1>2 DEF PushCAS, Goto
  <2>2. enqPos \in Nat /\ deqPos \in Nat /\ item[p] \in Items
    BY <2>1, RingAssumption DEF TypeOK, Pushing
  <2>3. seq[Slot(enqPos)] = enqPos /\ enqPos < deqPos + Capacity
    BY <1>2, <2>1, RoomAtClaim
  <2>4. /\ log \in Seq(Items) /\ Len(log) = enqPos
        /\ \A x \in 0..(enqPos - 1) : log'[x + 1] = log[x + 1]
        /\ log'[enqPos + 1] = item[p]
        /\ log' \in Seq(Items) /\ Len(log') = enqPos + 1
    <3>1. log' = Append(log, item[p])
      BY <1>2 DEF PushCAS
    <3>2. log \in Seq(Items) /\ Len(log) = enqPos
      BY DEF TypeOK
    <3> QED BY <2>2, <3>1, <3>2
  <2>5. TypeOK'
    BY <1>0, <1>2, <2>1, <2>2, <2>4, RingAssumption DEF TypeOK
  <2>6. Window' /\ FreeSlots'
    BY <2>1, <2>2, <2>3, RingAssumption DEF Window, FreeSlots
  <2>7. FilledSlots'
    <3> SUFFICES ASSUME NEW x \in deqPos'..(enqPos' - 1)
                 PROVE  /\ seq'[Slot(x)] \in {x, x + 1}
                        /\ seq'[Slot(x)] = x + 1 => event'[Slot(x)] = log'[x + 1]
      BY DEF FilledSlots
    <3>1. CASE x = enqPos
      BY <2>1, <2>2, <2>3, <3>1
    <3>2. CASE x \in deqPos..(enqPos - 1)
      BY <2>1, <2>2, <2>4, <3>2 DEF FilledSlots
    <3> QED BY <2>1, <2>2, <3>1, <3>2
  <2>8. \A t \in Threads : t # p => pc'[t] = pc[t]
    BY <2>1 DEF TypeOK
  <2>9. ASSUME NEW q \in Producers PROVE Pushing(q)'
    <3>1. CASE q = p
      BY <1>0, <1>2, <2>1, <2>2, <2>3, <2>4, <3>1, WindowApart
         DEF TypeOK, Pushing, PushStates, PushOwner
    <3>2. CASE q # p
      <4>1. q \in Threads /\ pos[q] \in Nat
        BY Typed DEF Threads
      <4>2. pc[q] \in PushOwner => log'[pos[q] + 1] = log[pos[q] + 1]
        BY <2>4, <4>1, WindowApart
      <4>3. pc'[q] = pc[q]
        BY <2>8, <3>2, <4>1
      <4> QED BY <2>1, <2>2, <4>1, <4>2, <4>3 DEF Pushing, PushOwner
    <3> QED BY <3>1, <3>2
  <2>10. ASSUME NEW c \in Consumers PROVE Popping(c)'
    <3>1. c \in Threads /\ c # p /\ pos[c] \in Nat /\ pc'[c] = pc[c]
      BY <1>0, <2>8, Typed DEF Threads
    <3>2. ASSUME pc[c] \in PopOwner PROVE enqPos + 1 <= pos[c] + Capacity /\ log'[pos[c] + 1] = log[pos[c] + 1]
      <4>1. pos[c] + Capacity # enqPos
        BY <2>2, <2>3, <3>1, <3>2, WindowApart, RingAssumption DEF Popping
      <4> QED BY <2>2, <2>4, <3>1, <3>2, <4>1, WindowApart, RingAssumption DEF Popping
    <3> QED BY <2>1, <3>1, <3>2 DEF Popping, PopOwner
  <2>11. Apart'
    <3>1. \A q \in Producers : pc[q] \in PushOwner => pos[q] # enqPos
      BY <2>2, WindowApart
    <3> QED BY <1>0, <1>2, <2>1, <2>8, <3>1 DEF Apart, Threads
  <2> QED BY <2>5, <2>6, <2>7, <2>9, <2>10, <2>11
<1> QED BY <1>1, <1>2

(* TryPush writes the payload into the slot it owns. *)
LEMMA InvPushWrite == ASSUME IInv, NEW p \in Producers, PushWrite(p) PROVE IInv'
<1> USE DEF IInv
<1>0. p \in Threads /\ p \notin Consumers
  BY RingAssumption DEF Threads
<1>1. /\ pc[p] = "pushWrite" /\ pc' = [pc EXCEPT ![p] = "pushPublish"]
      /\ event' = [event EXCEPT ![Slot(pos[p])] = item[p]]
      /\ UNCHANGED <<enqPos, deqPos, seq, pos, item, log>>
  BY DEF PushWrite, Goto
<1>2. /\ pos[p] \in Nat /\ Slot(pos[p]) \in Slots /\ item[p] \in Items
      /\ seq[Slot(pos[p])] = pos[p] /\ pos[p] \in deqPos..(deqPos + Capacity - 1)
  BY <1>1, SlotRange, WindowApart DEF Pushing, PushOwner
<1>3. TypeOK'
  BY <1>0, <1>1, <1>2 DEF TypeOK
<1>4. Window' /\ FreeSlots'
  BY <1>1 DEF Window, FreeSlots
<1>5. \A i \in Slots : i # Slot(pos[p]) => event'[i] = event[i]
  BY <1>1 DEF TypeOK
<1>6. FilledSlots'
  <2> SUFFICES ASSUME NEW x \in deqPos..(enqPos - 1)
               PROVE  /\ seq[Slot(x)] \in {x, x + 1}
                      /\ seq[Slot(x)] = x + 1 => event'[Slot(x)] = log[x + 1]
    BY <1>1 DEF FilledSlots
  <2>1. CASE x = pos[p]
    BY <1>2, <2>1
  <2>2. CASE x # pos[p]
    <3>1. x \in Nat /\ Slot(x) \in Slots /\ Slot(x) # Slot(pos[p])
      BY <1>2, <2>2, SlotRange, WindowApart, RingAssumption
    <3> QED BY <1>5, <3>1 DEF FilledSlots
  <2> QED BY <2>1, <2>2
<1>7. \A t \in Threads : t # p => pc'[t] = pc[t]
  BY <1>1 DEF TypeOK
<1>8. ASSUME NEW q \in Producers PROVE Pushing(q)'
  <2>1. CASE q = p
    BY <1>0, <1>1, <1>2, <2>1 DEF TypeOK, Pushing, PushStates, PushOwner
  <2>2. CASE q # p
    <3>1. pc'[q] = pc[q]
      BY <1>7, <2>2 DEF Threads
    <3>2. pc[q] = "pushPublish" => event'[Slot(pos[q])] = event[Slot(pos[q])]
      BY <1>1, <1>5, <2>2, OwnersApart, WindowApart, SlotRange DEF PushOwner
    <3> QED BY <1>1, <3>1, <3>2 DEF Pushing
  <2> QED BY <2>1, <2>2
<1>9. ASSUME NEW c \in Consumers PROVE Popping(c)'
  <2>1. pc'[c] = pc[c]
    BY <1>0, <1>7 DEF Threads
  <2>2. pc[c] = "popRead" => event'[Slot(pos[c])] = event[Slot(pos[c])]
    BY <1>1, <1>5, OwnersApart, WindowApart, SlotRange DEF PushOwner, PopOwner
  <2> QED BY <1>1, <2>1, <2>2 DEF Popping
<1>10. Apart'
  BY <1>0, <1>1, <1>7 DEF Apart, Threads, PushOwner
<1> QED BY <1>3, <1>4, <1>6, <1>8, <1>9, <1>10

(* TryPush publishes its slot. *)
LEMMA InvPushPublish == ASSUME IInv, NEW p \in Producers, PushPublish(p) PROVE IInv'
<1> USE DEF IInv
<1>0. p \in Threads /\ p \notin Consumers
  BY RingAssumption DEF Threads
<1>1. /\ pc[p] = "pushPublish" /\ pc' = [pc EXCEPT ![p] = "idle"]
      /\ pos' = [pos EXCEPT ![p] = 0] /\ item' = [item EXCEPT ![p] = Empty]
      /\ seq' = [seq EXCEPT ![Slot(pos[p])] = pos[p] + 1]
      /\ UNCHANGED <<enqPos, deqPos, event, log>>
  BY DEF PushPublish, Return, Goto
<1>2. /\ pos[p] \in Nat /\ Slot(pos[p]) \in Slots
      /\ seq[Slot(pos[p])] = pos[p] /\ event[Slot(pos[p])] = log[pos[p] + 1]
      /\ pos[p] \in deqPos..(deqPos + Capacity - 1) /\ pos[p] \in deqPos..(enqPos - 1)
  BY <1>1, SlotRange, WindowApart DEF Pushing, PushOwner
<1>3. TypeOK'
  BY <1>0, <1>1, <1>2, RingAssumption DEF TypeOK
<1>4. /\ \A i \in Slots : i # Slot(pos[p]) => seq'[i] = seq[i]
      /\ seq'[Slot(pos[p])] = pos[p] + 1
      /\ \A t \in Threads : t # p => pc'[t] = pc[t] /\ pos'[t] = pos[t] /\ item'[t] = item[t]
  BY <1>1, <1>2 DEF TypeOK
<1>5. ASSUME NEW x \in deqPos..(deqPos + Capacity - 1), x # pos[p] PROVE seq'[Slot(x)] = seq[Slot(x)]
  BY <1>2, <1>4, <1>5, WindowApart, SlotRange
<1>6. Window'
  BY <1>1 DEF Window
<1>7. FreeSlots'
  <2> SUFFICES ASSUME NEW x \in enqPos..(deqPos + Capacity - 1)
               PROVE  seq'[Slot(x)] \in {x, x - Capacity + 1}
    BY <1>1 DEF FreeSlots
  <2>1. x \in deqPos..(deqPos + Capacity - 1) /\ x # pos[p]
    BY <1>2, WindowApart, RingAssumption
  <2> QED BY <1>5, <2>1 DEF FreeSlots
<1>8. FilledSlots'
  <2> SUFFICES ASSUME NEW x \in deqPos..(enqPos - 1)
               PROVE  /\ seq'[Slot(x)] \in {x, x + 1}
                      /\ seq'[Slot(x)] = x + 1 => event[Slot(x)] = log[x + 1]
    BY <1>1 DEF FilledSlots
  <2>1. CASE x = pos[p]
    BY <1>2, <1>4, <2>1
  <2>2. CASE x # pos[p]
    <3>1. x \in deqPos..(deqPos + Capacity - 1)
      BY WindowApart, RingAssumption
    <3> QED BY <1>5, <2>2, <3>1 DEF FilledSlots
  <2> QED BY <2>1, <2>2
<1>9. ASSUME NEW q \in Producers PROVE Pushing(q)'
  <2>1. CASE q = p
    BY <1>0, <1>1, <2>1 DEF TypeOK, Pushing, PushStates, PushOwner
  <2>2. CASE q # p
    <3>1. /\ pc'[q] = pc[q] /\ pos'[q] = pos[q] /\ item'[q] = item[q]
      BY <1>4, <2>2 DEF Threads
    <3>2. pc[q] \in PushOwner => seq'[Slot(pos[q])] = seq[Slot(pos[q])]
      BY <1>1, <1>4, <2>2, OwnersApart, WindowApart, SlotRange DEF PushOwner
    <3>3. ASSUME pc[q] = "pushCAS", pos[q] = enqPos PROVE seq'[Slot(enqPos)] = seq[Slot(enqPos)]
      BY <1>2, <1>5, <3>3, RoomAtClaim, WindowApart, RingAssumption
    <3> QED BY <1>1, <3>1, <3>2, <3>3 DEF Pushing
  <2> QED BY <2>1, <2>2
<1>10. ASSUME NEW c \in Consumers PROVE Popping(c)'
  <2>1. c \in Threads /\ pc'[c] = pc[c] /\ pos'[c] = pos[c] /\ item'[c] = item[c]
    BY <1>0, <1>4 DEF Threads
  <2>2. pc[c] \in PopOwner => seq'[Slot(pos[c])] = seq[Slot(pos[c])]
    BY <1>1, <1>4, OwnersApart, WindowApart, SlotRange DEF PushOwner
  <2>3. ASSUME pc[c] = "popCAS", pos[c] = deqPos PROVE seq'[Slot(deqPos)] = seq[Slot(deqPos)]
    <3>1. deqPos # pos[p] /\ deqPos \in deqPos..(deqPos + Capacity - 1)
      BY <1>2, <2>3, ItemAtClaim, WindowApart, RingAssumption
    <3> QED BY <1>5, <3>1
  <2> QED BY <1>1, <2>1, <2>2, <2>3 DEF Popping
<1>11. Apart'
  BY <1>0, <1>1, <1>4 DEF TypeOK, Apart, Threads, PushOwner, PopOwner
<1> QED BY <1>3, <1>6, <1>7, <1>8, <1>9, <1>10, <1>11

(* Pop claims the position, or starts over. *)
LEMMA InvPopCAS == ASSUME IInv, NEW c \in Consumers, PopCAS(c) PROVE IInv'
<1> USE DEF IInv
<1>0. c \in Threads /\ c \notin Producers
  BY RingAssumption DEF Threads
<1>1. CASE deqPos # pos[c]
  <2>1. Local(c) /\ pc'[c] = "popRetry"
    BY <1>0, <1>1, Typed DEF PopCAS, Retry, Goto, Local, PopStates
  <2>2. Popping(c)'
    BY <2>1 DEF Popping, PopStates, PopOwner
  <2> QED BY <1>0, <2>1, <2>2, LocalStep DEF PushOwner, PopOwner
<1>2. CASE deqPos = pos[c]
  <2>1. /\ deqPos' = deqPos + 1 /\ pc' = [pc EXCEPT ![c] = "popRead"]
        /\ UNCHANGED <<enqPos, seq, event, pos, item, log>>
        /\ pc[c] = "popCAS"
    BY <1>2 DEF PopCAS, Goto
  <2>2. /\ enqPos \in Nat /\ deqPos \in Nat /\ enqPos \in 0..MaxPos
        /\ seq[Slot(deqPos)] = deqPos + 1 /\ deqPos < enqPos /\ enqPos <= deqPos + Capacity
        /\ event[Slot(deqPos)] = log[deqPos + 1]
    BY <1>0, <1>2, <2>1, ItemAtClaim, Typed DEF Window, FilledSlots
  <2>3. TypeOK'
    BY <1>0, <2>1, <2>2, RingAssumption DEF TypeOK
  <2>4. Window'
    BY <2>1, <2>2, RingAssumption DEF Window
  <2>5. FreeSlots'
    <3> SUFFICES ASSUME NEW x \in enqPos'..(deqPos' + Capacity - 1)
                 PROVE  seq'[Slot(x)] \in {x, x - Capacity + 1}
      BY DEF FreeSlots
    <3>1. CASE x = deqPos + Capacity
      BY <2>1, <2>2, <3>1, SlotLap, RingAssumption
    <3>2. CASE x \in enqPos..(deqPos + Capacity - 1)
      BY <2>1, <3>2 DEF FreeSlots
    <3> QED BY <2>1, <2>2, <3>1, <3>2, RingAssumption
  <2>6. FilledSlots'
    BY <2>1, <2>2 DEF FilledSlots
  <2>7. \A t \in Threads : t # c => pc'[t] = pc[t]
    BY <2>1 DEF TypeOK
  <2>8. ASSUME NEW p \in Producers PROVE Pushing(p)'
    <3>1. p \in Threads /\ pc'[p] = pc[p] /\ pos[p] \in Nat
      BY <1>0, <2>7, Typed DEF Threads
    <3>2. pc[p] \in PushOwner => pos[p] # deqPos
      BY <2>2, <3>1 DEF Pushing
    <3> QED BY <2>1, <2>2, <3>1, <3>2 DEF Pushing, PushOwner
  <2>9. ASSUME NEW d \in Consumers PROVE Popping(d)'
    <3>1. CASE d = c
      BY <1>0, <1>2, <2>1, <2>2, <3>1 DEF TypeOK, Popping, PopStates, PopOwner
    <3>2. CASE d # c
      <4>1. pc'[d] = pc[d] /\ pos[d] \in Nat
        BY <2>7, <3>2, Typed DEF Threads
      <4> QED BY <2>1, <2>2, <4>1 DEF Popping, PopOwner
    <3> QED BY <3>1, <3>2
  <2>10. Apart'
    <3>1. \A d \in Consumers : pc[d] \in PopOwner => pos[d] # deqPos
      BY <2>2, WindowApart DEF Popping
    <3> QED BY <1>0, <1>2, <2>1, <2>7, <3>1 DEF Apart, Threads
  <2> QED BY <2>3, <2>4, <2>5, <2>6, <2>8, <2>9, <2>10
<1> QED BY <1>1, <1>2

(* Pop reads the payload of the slot it owns. *)
LEMMA InvPopRead == ASSUME IInv, NEW c \in Consumers, PopRead(c) PROVE IInv'
<1> USE DEF IInv
<1>0. c \in Threads /\ c \notin Producers
  BY RingAssumption DEF Threads
<1>1. /\ pc[c] = "popRead" /\ pc' = [pc EXCEPT ![c] = "popRecycle"]
      /\ event' = [event EXCEPT ![Slot(pos[c])] = Empty]
      /\ item' = [item EXCEPT ![c] = event[Slot(pos[c])]]
      /\ UNCHANGED <<enqPos, deqPos, seq, pos, log>>
  BY DEF PopRead, Goto
<1>2. /\ pos[c] \in Nat /\ Slot(pos[c]) \in Slots
      /\ event[Slot(pos[c])] = log[pos[c] + 1]
      /\ pos[c] + Capacity \in enqPos..(deqPos + Capacity - 1)
      /\ pos[c] + Capacity \in deqPos..(deqPos + Capacity - 1)
      /\ Slot(pos[c] + Capacity) = Slot(pos[c])
  BY <1>1, SlotRange, WindowApart DEF Popping, PopOwner
<1>3. TypeOK'
  BY <1>0, <1>1, <1>2 DEF TypeOK
<1>4. Window' /\ FreeSlots'
  BY <1>1 DEF Window, FreeSlots
<1>5. /\ \A i \in Slots : i # Slot(pos[c]) => event'[i] = event[i]
      /\ \A t \in Threads : t # c => pc'[t] = pc[t] /\ item'[t] = item[t]
      /\ item'[c] = event[Slot(pos[c])]
  BY <1>0, <1>1 DEF TypeOK
<1>6. FilledSlots'
  <2> SUFFICES ASSUME NEW x \in deqPos..(enqPos - 1)
               PROVE  /\ seq[Slot(x)] \in {x, x + 1}
                      /\ seq[Slot(x)] = x + 1 => event'[Slot(x)] = log[x + 1]
    BY <1>1 DEF FilledSlots
  <2>1. x \in deqPos..(deqPos + Capacity - 1) /\ x # pos[c] + Capacity /\ x \in Nat
    BY <1>2, WindowApart, RingAssumption
  <2>2. Slot(x) \in Slots /\ Slot(x) # Slot(pos[c])
    BY <1>2, <2>1, SlotRange, WindowApart
  <2> QED BY <1>5, <2>2 DEF FilledSlots
<1>7. ASSUME NEW p \in Producers PROVE Pushing(p)'
  <2>1. pc'[p] = pc[p] /\ item'[p] = item[p]
    BY <1>0, <1>5 DEF Threads
  <2>2. pc[p] = "pushPublish" => event'[Slot(pos[p])] = event[Slot(pos[p])]
    BY <1>1, <1>5, OwnersApart, WindowApart, SlotRange DEF PushOwner, PopOwner
  <2> QED BY <1>1, <2>1, <2>2 DEF Pushing
<1>8. ASSUME NEW d \in Consumers PROVE Popping(d)'
  <2>1. CASE d = c
    BY <1>0, <1>1, <1>2, <1>5, <2>1 DEF TypeOK, Popping, PopStates, PopOwner
  <2>2. CASE d # c
    <3>1. pc'[d] = pc[d] /\ item'[d] = item[d]
      BY <1>5, <2>2 DEF Threads
    <3>2. pc[d] = "popRead" => event'[Slot(pos[d])] = event[Slot(pos[d])]
      BY <1>1, <1>5, <2>2, OwnersApart, WindowApart, SlotRange DEF PopOwner
    <3> QED BY <1>1, <3>1, <3>2 DEF Popping
  <2> QED BY <2>1, <2>2
<1>9. Apart'
  BY <1>0, <1>1, <1>5 DEF Apart, Threads, PopOwner
<1> QED BY <1>3, <1>4, <1>6, <1>7, <1>8, <1>9

(* Pop recycles its slot for the next lap. *)
LEMMA InvPopRecycle == ASSUME IInv, NEW c \in Consumers, PopRecycle(c) PROVE IInv'
<1> USE DEF IInv
<1>0. c \in Threads /\ c \notin Producers
  BY RingAssumption DEF Threads
<1>1. /\ pc[c] = "popRecycle" /\ pc' = [pc EXCEPT ![c] = "idle"]
      /\ pos' = [pos EXCEPT ![c] = 0] /\ item' = [item EXCEPT ![c] = Empty]
      /\ seq' = [seq EXCEPT ![Slot(pos[c])] = pos[c] + Capacity]
      /\ UNCHANGED <<enqPos, deqPos, event, log>>
  BY DEF PopRecycle, Return, Goto
<1>2. /\ pos[c] \in Nat /\ Slot(pos[c]) \in Slots
      /\ pos[c] + Capacity \in enqPos..(deqPos + Capacity - 1)
      /\ pos[c] + Capacity \in deqPos..(deqPos + Capacity - 1)
      /\ Slot(pos[c] + Capacity) = Slot(pos[c])
      /\ seq[Slot(pos[c])] = pos[c] + 1
  BY <1>1, SlotRange, WindowApart DEF Popping, PopOwner
<1>3. TypeOK'
  BY <1>0, <1>1, <1>2, RingAssumption DEF TypeOK
<1>4. /\ \A i \in Slots : i # Slot(pos[c]) => seq'[i] = seq[i]
      /\ seq'[Slot(pos[c])] = pos[c] + Capacity
      /\ \A t \in Threads : t # c => pc'[t] = pc[t] /\ pos'[t] = pos[t] /\ item'[t] = item[t]
  BY <1>1, <1>2 DEF TypeOK
<1>5. ASSUME NEW x \in deqPos..(deqPos + Capacity - 1), x # pos[c] + Capacity
      PROVE  seq'[Slot(x)] = seq[Slot(x)]
  BY <1>2, <1>4, <1>5, WindowApart, SlotRange
<1>6. Window'
  BY <1>1 DEF Window
<1>7. FreeSlots'
  <2> SUFFICES ASSUME NEW x \in enqPos..(deqPos + Capacity - 1)
               PROVE  seq'[Slot(x)] \in {x, x - Capacity + 1}
    BY <1>1 DEF FreeSlots
  <2>1. CASE x = pos[c] + Capacity
    BY <1>2, <1>4, <2>1
  <2>2. CASE x # pos[c] + Capacity
    <3>1. x \in deqPos..(deqPos + Capacity - 1)
      BY WindowApart, RingAssumption
    <3> QED BY <1>5, <2>2, <3>1 DEF FreeSlots
  <2> QED BY <2>1, <2>2
<1>8. FilledSlots'
  <2> SUFFICES ASSUME NEW x \in deqPos..(enqPos - 1)
               PROVE  /\ seq'[Slot(x)] \in {x, x + 1}
                      /\ seq'[Slot(x)] = x + 1 => event[Slot(x)] = log[x + 1]
    BY <1>1 DEF FilledSlots
  <2>1. x \in deqPos..(deqPos + Capacity - 1) /\ x # pos[c] + Capacity
    BY <1>2, WindowApart, RingAssumption
  <2> QED BY <1>5, <2>1 DEF FilledSlots
<1>9. ASSUME NEW p \in Producers PROVE Pushing(p)'
  <2>1. pc'[p] = pc[p] /\ pos'[p] = pos[p] /\ item'[p] = item[p]
    BY <1>0, <1>4 DEF Threads
  <2>2. pc[p] \in PushOwner => seq'[Slot(pos[p])] = seq[Slot(pos[p])]
    BY <1>1, <1>4, OwnersApart, WindowApart, SlotRange DEF PopOwner
  <2>3. ASSUME pc[p] = "pushCAS", pos[p] = enqPos PROVE seq'[Slot(enqPos)] = seq[Slot(enqPos)]
    <3>1. seq[Slot(enqPos)] = enqPos /\ enqPos \in deqPos..(deqPos + Capacity - 1)
      BY <2>3, RoomAtClaim, WindowApart, RingAssumption
    <3>2. enqPos # pos[c] + Capacity
      BY <1>2, <3>1, WindowApart, RingAssumption
    <3> QED BY <1>5, <3>1, <3>2
  <2> QED BY <1>1, <2>1, <2>2, <2>3 DEF Pushing
<1>10. ASSUME NEW d \in Consumers PROVE Popping(d)'
  <2>1. CASE d = c
    BY <1>0, <1>1, <2>1 DEF TypeOK, Popping, PopStates, PopOwner
  <2>2. CASE d # c
    <3>1. pc'[d] = pc[d] /\ pos'[d] = pos[d] /\ item'[d] = item[d]
      BY <1>4, <2>2 DEF Threads
    <3>2. pc[d] \in PopOwner => seq'[Slot(pos[d])] = seq[Slot(pos[d])]
      BY <1>1, <1>4, <2>2, OwnersApart, WindowApart, SlotRange DEF PopOwner
    <3>3. ASSUME pc[d] = "popCAS", pos[d] = deqPos PROVE seq'[Slot(deqPos)] = seq[Slot(deqPos)]
      <4>1. deqPos < enqPos /\ deqPos \in deqPos..(deqPos + Capacity - 1)
        BY <3>3, ItemAtClaim, WindowApart, RingAssumption
      <4>2. deqPos # pos[c] + Capacity
        BY <1>2, <4>1, WindowApart, RingAssumption
      <4> QED BY <1>5, <4>1, <4>2
    <3> QED BY <1>1, <3>1, <3>2, <3>3 DEF Popping
  <2> QED BY <2>1, <2>2
<1>11. Apart'
  BY <1>0, <1>1, <1>4 DEF TypeOK, Apart, Threads, PushOwner, PopOwner
<1> QED BY <1>3, <1>6, <1>7, <1>8, <1>9, <1>10, <1>11

(* Every access keeps the invariant. *)
LEMMA InvNext == IInv /\ [Next]_vars => IInv'
<1> SUFFICES ASSUME IInv, [Next]_vars PROVE IInv'
  OBVIOUS
<1>1. ASSUME NEW p \in Producers, TryPush(p) PROVE IInv'
  BY <1>1, InvPushLoadPos, InvPushLoadSeq, InvPushCAS, InvPushWrite, InvPushPublish DEF TryPush
<1>2. ASSUME NEW c \in Consumers, Pop(c) PROVE IInv'
  BY <1>2, InvPopLoadPos, InvPopLoadSeq, InvPopCAS, InvPopRead, InvPopRecycle DEF Pop
<1>3. CASE UNCHANGED vars
  BY <1>3 DEF vars, IInv, TypeOK, Window, FreeSlots, FilledSlots, Pushing, Popping, Apart
<1> QED BY <1>1, <1>2, <1>3 DEF Next

(* The invariant holds throughout. *)
LEMMA Invariance == Spec => []IInv
<1> QED BY InvInit, InvNext, PTL DEF Spec

-----------------------------------------------------------------------------
(* The theorems. *)

(* No two goroutines own one slot between their CAS and their last store,  *)
(* so the plain accesses to the payload (slot.event = e, e := slot.event)  *)
(* never race, however many goroutines push and pop.                       *)
THEOREM SlotsNeverRace == Spec => []NoDataRace
<1>1. IInv => NoDataRace
  <2> SUFFICES ASSUME IInv, NEW i \in Slots PROVE Cardinality(Owners(i)) <= 1
    BY DEF NoDataRace
  <2>1. ASSUME NEW t \in Threads, pc[t] \in PushOwner \cup PopOwner
        PROVE  \/ t \in Producers /\ pc[t] \in PushOwner
               \/ t \in Consumers /\ pc[t] \in PopOwner
    BY <2>1 DEF IInv, Pushing, Popping, PushStates, PopStates, PushOwner, PopOwner, Threads
  <2>2. ASSUME NEW t \in Owners(i), NEW u \in Owners(i) PROVE t = u
    <3>1. /\ t \in Threads /\ u \in Threads
          /\ pc[t] \in PushOwner \cup PopOwner /\ pc[u] \in PushOwner \cup PopOwner
          /\ Slot(pos[t]) = Slot(pos[u])
      BY DEF Owners, PushOwner, PopOwner
    <3> QED BY <2>1, <3>1, OwnersApart
  <2>3. CASE Owners(i) = {}
    BY <2>3, FS_EmptySet
  <2>4. ASSUME NEW t \in Owners(i) PROVE Cardinality(Owners(i)) <= 1
    <3>1. Owners(i) = {t}
      BY <2>2, <2>4
    <3>2. Cardinality({t}) = 1
      BY FS_Singleton
    <3> QED BY <3>1, <3>2
  <2> QED BY <2>3, <2>4
<1> QED BY <1>1, Invariance, PTL

(* A consumer that has claimed a position reads what was pushed there:     *)
(* never an unfilled slot, nor the payload of another lap.                 *)
THEOREM PopsAreExact == Spec => []PopsWhatWasPushed
<1>1. IInv => PopsWhatWasPushed
  BY DEF IInv, Popping, PopsWhatWasPushed
<1> QED BY <1>1, Invariance, PTL

(* Pushing at the end of the queue is appending at the end of the log. *)
LEMMA SubSeqAppend ==
    ASSUME NEW S, NEW s \in Seq(S), NEW e \in S, NEW m \in 1..(Len(s) + 1)
    PROVE  SubSeq(Append(s, e), m, Len(s) + 1) = Append(SubSeq(s, m, Len(s)), e)
<1> DEFINE a == Append(s, e)
           n == Len(s)
<1>1. /\ n \in Nat /\ a \in Seq(S) /\ Len(a) = n + 1 /\ a[n + 1] = e
      /\ \A i \in 1..n : a[i] = s[i]
  BY AppendProperties, LenProperties
<1> HIDE DEF a, n
<1> DEFINE f == SubSeq(a, m, n + 1)
           g == SubSeq(s, m, n)
<1>2. m \in Int /\ n + 1 \in Int /\ n \in Int /\ m <= n + 1 /\ m >= 1
  BY <1>1 DEF n
<1>3. /\ f \in Seq(S) /\ Len(f) = n + 1 - m + 1
      /\ \A i \in 1..(n + 1 - m + 1) : f[i] = a[m + i - 1]
  <2>1. \A i \in m..(n + 1) : a[i] \in S
    BY <1>1, <1>2, ElementOfSeq
  <2> QED BY <1>2, <2>1, SubSeqProperties
<1>4. /\ g \in Seq(S) /\ Len(g) = n - m + 1
      /\ \A i \in 1..(n - m + 1) : g[i] = s[m + i - 1]
  <2>1. \A i \in m..n : s[i] \in S
    BY <1>1, <1>2, ElementOfSeq DEF n
  <2> QED BY <1>1, <1>2, <2>1, SubSeqProperties
<1> HIDE DEF f, g
<1> DEFINE h == Append(g, e)
<1>5. /\ h \in Seq(S) /\ Len(h) = Len(g) + 1
      /\ \A i \in 1..Len(g) : h[i] = g[i]
      /\ h[Len(g) + 1] = e
  BY <1>4, AppendProperties
<1> HIDE DEF h
<1>6. ASSUME NEW i \in 1..Len(f) PROVE f[i] = h[i]
  <2>0. i \in 1..(n + 1 - m + 1)
    BY <1>3
  <2>1. f[i] = a[m + i - 1]
    BY <1>3, <2>0
  <2>2. CASE i = n - m + 2
    <3>1. m + i - 1 = n + 1 /\ i = Len(g) + 1
      BY <1>2, <1>4, <2>2
    <3> QED BY <1>1, <1>5, <2>1, <3>1
  <2>3. CASE i # n - m + 2
    <3>1. i \in 1..(n - m + 1)
      <4>1. i \in Int /\ 1 <= i /\ i <= n + 1 - m + 1
        BY <1>2, <2>0
      <4> QED BY <1>2, <2>3, <4>1
    <3>2. m + i - 1 \in 1..n
      BY <1>2, <3>1
    <3> QED BY <1>1, <1>4, <1>5, <2>1, <3>1, <3>2
  <2> QED BY <2>2, <2>3
<1>7. Len(f) = Len(h)
  BY <1>2, <1>3, <1>4, <1>5
<1>8. f = h
  BY <1>3, <1>5, <1>6, <1>7, SeqEqual
<1> QED BY <1>8 DEF f, g, h, a, n

(* The ring starts as the empty queue. *)
LEMMA QueueInit == Init => Queue!Init
<1> SUFFICES ASSUME Init PROVE Queue!Init
  OBVIOUS
<1>1. SubSeq(log, deqPos + 1, enqPos) = <<>>
  BY SubSeqEmpty DEF Init
<1> QED BY <1>1 DEF Init, Queue!Init, Queue!Nothing

(* A step that moves neither counter changes nothing in the queue. *)
LEMMA QueueStutter ==
    ASSUME UNCHANGED <<enqPos, deqPos, log>>
    PROVE  UNCHANGED <<SubSeq(log, deqPos + 1, enqPos), IF deqPos = 0 THEN "nothing" ELSE log[deqPos]>>
OBVIOUS

(* A push takes effect with its CAS. *)
LEMMA QueuePush ==
    ASSUME IInv, NEW p \in Producers, PushCAS(p)
    PROVE  [Queue!Next]_<<SubSeq(log, deqPos + 1, enqPos), IF deqPos = 0 THEN "nothing" ELSE log[deqPos]>>
<1>1. CASE enqPos # pos[p]
  BY <1>1, QueueStutter DEF PushCAS
<1>2. CASE enqPos = pos[p]
  <2>1. /\ enqPos' = enqPos + 1 /\ deqPos' = deqPos /\ log' = Append(log, item[p])
        /\ item[p] \in Items /\ log \in Seq(Items) /\ Len(log) = enqPos
        /\ enqPos \in Nat /\ deqPos \in Nat /\ deqPos <= enqPos
    BY <1>2, WindowApart DEF PushCAS, IInv, TypeOK, Pushing
  <2>2. enqPos < deqPos + Capacity
    BY <1>2, RoomAtClaim DEF PushCAS
  <2>3. SubSeq(log', deqPos' + 1, enqPos') = Append(SubSeq(log, deqPos + 1, enqPos), item[p])
    BY <2>1, SubSeqAppend
  <2>4. Len(SubSeq(log, deqPos + 1, enqPos)) < Capacity
    <3>1. \A i \in (deqPos + 1)..enqPos : log[i] \in Items
      BY <2>1
    <3>2. Len(SubSeq(log, deqPos + 1, enqPos)) = IF deqPos + 1 <= enqPos THEN enqPos - (deqPos + 1) + 1 ELSE 0
      BY <2>1, <3>1, SubSeqProperties
    <3> QED BY <2>1, <2>2, <3>2, RingAssumption
  <2>5. deqPos # 0 => log'[deqPos] = log[deqPos]
    BY <2>1
  <2> QED BY <2>1, <2>3, <2>4, <2>5 DEF Queue!Next, Queue!Push
<1> QED BY <1>1, <1>2

(* A pop takes effect with its CAS. *)
LEMMA QueuePop ==
    ASSUME IInv, NEW c \in Consumers, PopCAS(c)
    PROVE  [Queue!Next]_<<SubSeq(log, deqPos + 1, enqPos), IF deqPos = 0 THEN "nothing" ELSE log[deqPos]>>
<1>1. CASE deqPos # pos[c]
  BY <1>1, QueueStutter DEF PopCAS
<1>2. CASE deqPos = pos[c]
  <2>1. /\ enqPos' = enqPos /\ deqPos' = deqPos + 1 /\ log' = log
        /\ log \in Seq(Items) /\ Len(log) = enqPos
        /\ enqPos \in Nat /\ deqPos \in Nat
    BY <1>2, WindowApart DEF PopCAS, IInv, TypeOK
  <2>2. deqPos < enqPos
    BY <1>2, ItemAtClaim DEF PopCAS
  <2>3. /\ Head(SubSeq(log, deqPos + 1, enqPos)) = log[deqPos + 1]
        /\ Tail(SubSeq(log, deqPos + 1, enqPos)) = SubSeq(log, deqPos + 1 + 1, enqPos)
    BY <2>1, <2>2, HeadTailOfSubSeq
  <2>4. SubSeq(log, deqPos + 1, enqPos) # <<>>
    <3>1. \A i \in (deqPos + 1)..enqPos : log[i] \in Items
      BY <2>1
    <3>2. Len(SubSeq(log, deqPos + 1, enqPos)) = enqPos - (deqPos + 1) + 1
      BY <2>1, <2>2, <3>1, SubSeqProperties
    <3> QED BY <2>1, <2>2, <3>2
  <2> QED BY <2>1, <2>3, <2>4 DEF Queue!Next, Queue!Pop
<1> QED BY <1>1, <1>2

(* The ring implements a FIFO queue of at most Capacity items: every item  *)
(* that TryPush accepted is handed out once, in the order of acceptance,   *)
(* never more than Capacity are accepted and not handed out, and each call *)
(* takes effect at one of its steps, the CAS that succeeds.                *)
THEOREM RingIsQueue == Spec => ImplementsQueue
<1> DEFINE qvars == <<SubSeq(log, deqPos + 1, enqPos), IF deqPos = 0 THEN "nothing" ELSE log[deqPos]>>
<1>1. IInv /\ [Next]_vars => [Queue!Next]_qvars
  <2> SUFFICES ASSUME IInv, [Next]_vars PROVE [Queue!Next]_qvars
    OBVIOUS
  <2>1. ASSUME NEW p \in Producers, TryPush(p) PROVE [Queue!Next]_qvars
    BY <2>1, QueuePush, QueueStutter DEF TryPush, PushLoadPos, PushLoadSeq, PushWrite, PushPublish
  <2>2. ASSUME NEW c \in Consumers, Pop(c) PROVE [Queue!Next]_qvars
    BY <2>2, QueuePop, QueueStutter DEF Pop, PopLoadPos, PopLoadSeq, PopRead, PopRecycle
  <2>3. CASE UNCHANGED vars
    BY <2>3, QueueStutter DEF vars
  <2> QED BY <2>1, <2>2, <2>3 DEF Next
<1> QED BY <1>1, QueueInit, Invariance, PTL DEF Spec, ImplementsQueue, Queue!Spec
=============================================================================
