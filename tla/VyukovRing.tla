----------------------------- MODULE VyukovRing -----------------------------
(***************************************************************************)
(* The bounded lock-free ring that the gateway uses six times, always      *)
(* with Vyukov's sequence numbers:                                         *)
(*   - ingest.Ring (internal/ingest/ring.go), many producers and consumers;*)
(*   - scheduler.DispatchRing (internal/scheduler/dispatch_ring.go);       *)
(*   - a slot of scheduler.SchedulerWheel (internal/scheduler/wheel.go),   *)
(*     one consumer;                                                       *)
(*   - gatewaylog.Ring (internal/gatewaylog/ring.go), one consumer;        *)
(*   - the free indices and the recycled positions of the timer wheel      *)
(*     (internal/engine/steps/timer_wheel.go), see TimerWheel.             *)
(* They differ in names, in a spin limit that gives up a push, in a lone   *)
(* consumer that needs no CAS, and in ingest.Ring leaving the payload it   *)
(* popped in the slot, which nothing reads again.                          *)
(*                                                                         *)
(* Every goroutine stops before each of its accesses to shared memory: the *)
(* load of a position, the load of a slot's sequence number, the CAS that  *)
(* claims the position, the plain access to the payload and the store that *)
(* publishes or recycles the slot.  Positions are 64-bit counters that do  *)
(* not wrap in practice; MaxPos bounds them for model checking.            *)
(***************************************************************************)
EXTENDS Integers, Sequences, FiniteSets

CONSTANTS
    Producers, Consumers,
    Items,      \* the payloads
    Capacity,   \* number of slots, mask + 1
    MaxPos      \* bound on the number of successful pushes

(* A ring of one slot could not tell a filled slot from a recycled one     *)
(* (pos + 1 = pos + Capacity): ingest.NewRing makes two slots at least.    *)
ASSUME RingAssumption ==
    /\ Capacity \in Nat /\ Capacity >= 2
    /\ MaxPos \in Nat
    /\ Producers \cap Consumers = {}

VARIABLES
    enqPos, deqPos,  \* next position to fill, next position to empty
    seq,             \* seq[i]: sequence number of slot i
    event,           \* event[i]: payload of slot i
    pc,              \* next access of each goroutine
    pos,             \* the position the goroutine loaded
    item,            \* the payload the goroutine pushes or has popped
    log              \* history: payload pushed at each claimed position

vars == <<enqPos, deqPos, seq, event, pc, pos, item, log>>

Threads == Producers \cup Consumers
Slots == 0..Capacity - 1
Slot(x) == x % Capacity
Empty == "empty"

Goto(t, l) == pc' = [pc EXCEPT ![t] = l]

(* The call starts over, or returns: what it loaded is forgotten. *)
Retry(t, l) == Goto(t, l) /\ pos' = [pos EXCEPT ![t] = 0] /\ UNCHANGED item
Return(t) == Goto(t, "idle") /\ pos' = [pos EXCEPT ![t] = 0] /\ item' = [item EXCEPT ![t] = Empty]

(* NewRing: slot i is free for position i. *)
Init ==
    /\ enqPos = 0 /\ deqPos = 0
    /\ seq = [i \in Slots |-> i]
    /\ event = [i \in Slots |-> Empty]
    /\ pc = [t \in Threads |-> "idle"]
    /\ pos = [t \in Threads |-> 0]
    /\ item = [t \in Threads |-> Empty]
    /\ log = <<>>

-----------------------------------------------------------------------------
(* TryPush. *)

(* A call of TryPush starts with the load of enqPos; so does every retry. *)
PushLoadPos(p) ==
    /\ \/ /\ pc[p] = "idle"
          /\ \E v \in Items : item' = [item EXCEPT ![p] = v]
       \/ /\ pc[p] = "pushRetry"
          /\ UNCHANGED item
    /\ pos' = [pos EXCEPT ![p] = enqPos]
    /\ Goto(p, "pushSeq")
    /\ UNCHANGED <<enqPos, deqPos, seq, event, log>>

(* Faulty variant: a slot that still holds an item is taken for free. *)
PushLoadSeqNeverFull(p) ==
    /\ pc[p] = "pushSeq"
    /\ LET diff == seq[Slot(pos[p])] - pos[p] IN
         \/ diff <= 0 /\ Goto(p, "pushCAS") /\ UNCHANGED <<pos, item>>
         \/ diff > 0 /\ Retry(p, "pushRetry")
    /\ UNCHANGED <<enqPos, deqPos, seq, event, log>>

(* The slot's sequence number says free, full or overtaken. *)
PushLoadSeq(p) ==
    /\ pc[p] = "pushSeq"
    /\ LET diff == seq[Slot(pos[p])] - pos[p] IN
         \/ diff = 0 /\ Goto(p, "pushCAS") /\ UNCHANGED <<pos, item>>
         \/ diff < 0 /\ Return(p)
         \/ diff > 0 /\ Retry(p, "pushRetry")
    /\ UNCHANGED <<enqPos, deqPos, seq, event, log>>

(* Faulty variant: the position is claimed without checking it is current. *)
PushAdd(p) ==
    /\ pc[p] = "pushCAS"
    /\ enqPos < MaxPos
    /\ enqPos' = enqPos + 1
    /\ pos' = [pos EXCEPT ![p] = enqPos]
    /\ log' = Append(log, item[p])
    /\ Goto(p, "pushWrite")
    /\ UNCHANGED <<deqPos, seq, event, item>>

PushCAS(p) ==
    /\ pc[p] = "pushCAS"
    /\ enqPos < MaxPos
    /\ IF enqPos = pos[p]
         THEN /\ enqPos' = enqPos + 1
              /\ log' = Append(log, item[p])
              /\ Goto(p, "pushWrite")
              /\ UNCHANGED <<pos, item>>
         ELSE /\ Retry(p, "pushRetry")
              /\ UNCHANGED <<enqPos, log>>
    /\ UNCHANGED <<deqPos, seq, event>>

PushWrite(p) ==
    /\ pc[p] = "pushWrite"
    /\ event' = [event EXCEPT ![Slot(pos[p])] = item[p]]
    /\ Goto(p, "pushPublish")
    /\ UNCHANGED <<enqPos, deqPos, seq, pos, item, log>>

(* Faulty variant: the slot is never handed to the consumers. *)
PushUnpublished(p) ==
    /\ pc[p] = "pushPublish"
    /\ Return(p)
    /\ UNCHANGED <<enqPos, deqPos, seq, event, log>>

(* The store of pos + 1 hands the slot to the consumers; true is returned. *)
PushPublish(p) ==
    /\ pc[p] = "pushPublish"
    /\ seq' = [seq EXCEPT ![Slot(pos[p])] = pos[p] + 1]
    /\ Return(p)
    /\ UNCHANGED <<enqPos, deqPos, event, log>>

-----------------------------------------------------------------------------
(* Pop. *)

PopLoadPos(c) ==
    /\ pc[c] \in {"idle", "popRetry"}
    /\ pos' = [pos EXCEPT ![c] = deqPos]
    /\ Goto(c, "popSeq")
    /\ UNCHANGED <<enqPos, deqPos, seq, event, item, log>>

(* Faulty variant: a slot that is claimed but not published looks ready. *)
PopLoadSeqEarly(c) ==
    /\ pc[c] = "popSeq"
    /\ LET diff == seq[Slot(pos[c])] - pos[c] IN
         \/ diff \in {0, 1} /\ pos[c] < enqPos /\ Goto(c, "popCAS") /\ UNCHANGED <<pos, item>>
         \/ diff \in {0, 1} /\ pos[c] >= enqPos /\ Return(c)
         \/ diff < 0 /\ Return(c)
         \/ diff > 1 /\ Retry(c, "popRetry")
    /\ UNCHANGED <<enqPos, deqPos, seq, event, log>>

PopLoadSeq(c) ==
    /\ pc[c] = "popSeq"
    /\ LET diff == seq[Slot(pos[c])] - (pos[c] + 1) IN
         \/ diff = 0 /\ Goto(c, "popCAS") /\ UNCHANGED <<pos, item>>
         \/ diff < 0 /\ Return(c)
         \/ diff > 0 /\ Retry(c, "popRetry")
    /\ UNCHANGED <<enqPos, deqPos, seq, event, log>>

PopCAS(c) ==
    /\ pc[c] = "popCAS"
    /\ IF deqPos = pos[c]
         THEN deqPos' = deqPos + 1 /\ Goto(c, "popRead") /\ UNCHANGED <<pos, item>>
         ELSE Retry(c, "popRetry") /\ UNCHANGED deqPos
    /\ UNCHANGED <<enqPos, seq, event, log>>

(* The payload is read and the slot's pointer cleared. *)
PopRead(c) ==
    /\ pc[c] = "popRead"
    /\ item' = [item EXCEPT ![c] = event[Slot(pos[c])]]
    /\ event' = [event EXCEPT ![Slot(pos[c])] = Empty]
    /\ Goto(c, "popRecycle")
    /\ UNCHANGED <<enqPos, deqPos, seq, pos, log>>

PopRecycle(c) ==
    /\ pc[c] = "popRecycle"
    /\ seq' = [seq EXCEPT ![Slot(pos[c])] = pos[c] + Capacity]
    /\ Return(c)
    /\ UNCHANGED <<enqPos, deqPos, event, log>>

-----------------------------------------------------------------------------
TryPush(p) == PushLoadPos(p) \/ PushLoadSeq(p) \/ PushCAS(p) \/ PushWrite(p) \/ PushPublish(p)

Pop(c) == PopLoadPos(c) \/ PopLoadSeq(c) \/ PopCAS(c) \/ PopRead(c) \/ PopRecycle(c)

Next == (\E p \in Producers : TryPush(p)) \/ (\E c \in Consumers : Pop(c))

Spec == Init /\ [][Next]_vars

(* A goroutine that is inside a call gets to take its next step. *)
FairSpec ==
    /\ Spec
    /\ \A p \in Producers : WF_vars(pc[p] # "idle" /\ TryPush(p))
    /\ \A c \in Consumers : WF_vars(Pop(c))

-----------------------------------------------------------------------------
(* Properties. *)

TypeOK ==
    /\ enqPos \in 0..MaxPos /\ deqPos \in 0..MaxPos
    /\ seq \in [Slots -> Nat]
    /\ event \in [Slots -> Items \cup {Empty}]
    /\ pc \in [Threads -> {"idle", "pushRetry", "pushSeq", "pushCAS", "pushWrite",
                           "pushPublish", "popRetry", "popSeq", "popCAS", "popRead",
                           "popRecycle"}]
    /\ pos \in [Threads -> 0..MaxPos]
    /\ item \in [Threads -> Items \cup {Empty}]
    /\ log \in Seq(Items) /\ Len(log) = enqPos

(* The goroutines that own a slot between their CAS and their last store. *)
Owners(i) == {t \in Threads : /\ pc[t] \in {"pushWrite", "pushPublish", "popRead", "popRecycle"}
                              /\ Slot(pos[t]) = i}

(* The plain accesses to a slot's payload never race: between a claim and  *)
(* the store that hands the slot on, a slot has one owner.                 *)
NoDataRace == \A i \in Slots : Cardinality(Owners(i)) <= 1

(* A consumer never reads a slot that was not filled, or was filled for    *)
(* another position: what it pops is what was pushed at its position.      *)
PopsWhatWasPushed ==
    \A c \in Consumers : pc[c] = "popRecycle" => item[c] = log[pos[c] + 1]

(* The ring implements a bounded FIFO queue: a push takes effect at its    *)
(* CAS on enqPos and a pop at its CAS on deqPos.                           *)
Queue == INSTANCE BoundedQueue WITH
            q <- SubSeq(log, deqPos + 1, enqPos),
            handed <- IF deqPos = 0 THEN "nothing" ELSE log[deqPos]

ImplementsQueue == Queue!Spec

(* Everything published is consumed: with a consumer that keeps polling, a *)
(* ring with an item in it is eventually drained past that item, even when *)
(* producers are stopped inside TryPush for a while.                       *)
Drained == \A k \in 1..MaxPos : (enqPos >= k) ~> (deqPos >= k)
=============================================================================
