----------------------------- MODULE EventSlots -----------------------------
(***************************************************************************)
(* Which gateway instance runs an event listener (internal/events): the    *)
(* SlotRegistry's claims with a TTL in a shared key-value store            *)
(* (slot_registry.go), and the listener manager that starts a listener's   *)
(* consumers once the claim is won, tries again every 30 s and releases on *)
(* Stop (manager.go).  A claim is read and then written in two calls of    *)
(* the store.                                                              *)
(*                                                                         *)
(* One listener; every listener has a key of its own.  "past" is a claim   *)
(* whose ExpiresAt has gone by.                                            *)
(***************************************************************************)
EXTENDS Integers, FiniteSets, TLAPS

CONSTANTS
    Instances,
    MaxFaults       \* bound: crashes, stops and failed writes

SlotsAssumption == MaxFaults \in Nat /\ "none" \notin Instances    \* the owner of a free slot

VARIABLES
    store,          \* the claim in the store, or None
    expiring,       \* the store is an ExpiringStore
    up,             \* instances running
    owned,          \* ownedBy of each instance
    workers,        \* sets of consumers started and not cancelled: 0, 1 or more (2)
    pc, saw,        \* the listener manager's call, and the claim it read
    beat, beatSaw,  \* the same for the heartbeat
    faults,
    raced,          \* history: a write hit a claim that had changed hands since it was read
    lapsed          \* history: a claim expired under a live instance

vars == <<store, expiring, up, owned, workers, pc, saw, beat, beatSaw, faults, raced, lapsed>>

None == [owner |-> "none", past |-> FALSE]
ClaimOf(i) == [owner |-> i, past |-> FALSE]

Init ==
    /\ store = None /\ expiring \in BOOLEAN
    /\ up = Instances /\ owned = {}
    /\ workers = [i \in Instances |-> 0]
    /\ pc = [i \in Instances |-> "idle"] /\ saw = [i \in Instances |-> None]
    /\ beat = [i \in Instances |-> "idle"] /\ beatSaw = [i \in Instances |-> None]
    /\ faults = 0 /\ raced = FALSE /\ lapsed = FALSE

-----------------------------------------------------------------------------
(* TryClaim, called by Start and by the rebalancer for a listener not      *)
(* owned: the slot is free, already this instance's, or expired.           *)

(* Faulty variant: the slot is taken whoever has it. *)
ClaimableAlways(i) == TRUE

Claimable(i) == store = None \/ store.owner = i \/ store.past

TryClaim(i) ==
    /\ i \in up /\ pc[i] = "idle" /\ i \notin owned
    /\ IF Claimable(i)
         THEN pc' = [pc EXCEPT ![i] = "put"] /\ saw' = [saw EXCEPT ![i] = store]
         ELSE UNCHANGED <<pc, saw>>
    /\ UNCHANGED <<expiring, store, up, owned, workers, beat, beatSaw, faults, raced, lapsed>>

(* Taken from under the reader: the claim is now someone else's. *)
Overwritten(i, read) == store # read /\ store # None /\ store.owner # i /\ ~store.past

PersistClaim(i) ==
    /\ pc[i] = "put"
    /\ raced' = (raced \/ Overwritten(i, saw[i]))
    /\ store' = ClaimOf(i)
    /\ owned' = owned \cup {i}
    /\ workers' = [workers EXCEPT ![i] = IF @ = 2 THEN 2 ELSE @ + 1]
    /\ pc' = [pc EXCEPT ![i] = "idle"] /\ saw' = [saw EXCEPT ![i] = None]
    /\ UNCHANGED <<expiring, up, beat, beatSaw, faults, lapsed>>

PersistFails(i) ==
    /\ pc[i] = "put" /\ faults < MaxFaults
    /\ faults' = faults + 1
    /\ pc' = [pc EXCEPT ![i] = "idle"] /\ saw' = [saw EXCEPT ![i] = None]
    /\ UNCHANGED <<expiring, store, up, owned, workers, beat, beatSaw, raced, lapsed>>

-----------------------------------------------------------------------------
(* RenewAll, from the heartbeat: a claim still ours is written back with a *)
(* new expiry; otherwise the slot is no longer owned, and the consumers    *)
(* go on.                                                                  *)

RenewRead(i) ==
    /\ i \in up /\ beat[i] = "idle" /\ i \in owned
    /\ IF store.owner = i
         THEN /\ beat' = [beat EXCEPT ![i] = "put"] /\ beatSaw' = [beatSaw EXCEPT ![i] = store]
              /\ UNCHANGED owned
         ELSE owned' = owned \ {i} /\ UNCHANGED <<beat, beatSaw>>
    /\ UNCHANGED <<expiring, store, up, workers, pc, saw, faults, raced, lapsed>>

RenewWrite(i) ==
    /\ beat[i] = "put"
    /\ raced' = (raced \/ Overwritten(i, beatSaw[i]))
    /\ store' = ClaimOf(i)
    /\ beat' = [beat EXCEPT ![i] = "idle"] /\ beatSaw' = [beatSaw EXCEPT ![i] = None]
    /\ UNCHANGED <<expiring, up, owned, workers, pc, saw, faults, lapsed>>

RenewFails(i) ==
    /\ beat[i] = "put" /\ faults < MaxFaults
    /\ faults' = faults + 1
    /\ beat' = [beat EXCEPT ![i] = "idle"] /\ beatSaw' = [beatSaw EXCEPT ![i] = None]
    /\ UNCHANGED <<expiring, store, up, owned, workers, pc, saw, raced, lapsed>>

-----------------------------------------------------------------------------
(* Stop: the rebalancer has ended, the claim is deleted if this instance   *)
(* thinks it owns it, then the consumers are cancelled.                    *)

StopRelease(i) ==
    /\ i \in up /\ pc[i] = "idle" /\ faults < MaxFaults
    /\ faults' = faults + 1
    /\ \/ store' = (IF i \in owned THEN None ELSE store) /\ owned' = owned \ {i}
       \/ i \in owned /\ UNCHANGED <<store, owned>>    \* the delete failed
    /\ pc' = [pc EXCEPT ![i] = "cancel"]
    /\ UNCHANGED <<expiring, up, workers, saw, beat, beatSaw, raced, lapsed>>

Down(i) ==
    /\ up' = up \ {i} /\ owned' = owned \ {i}
    /\ workers' = [workers EXCEPT ![i] = 0]
    /\ pc' = [pc EXCEPT ![i] = "idle"] /\ saw' = [saw EXCEPT ![i] = None]
    /\ beat' = [beat EXCEPT ![i] = "idle"] /\ beatSaw' = [beatSaw EXCEPT ![i] = None]
    /\ UNCHANGED <<expiring, store, raced, lapsed>>

StopCancel(i) == pc[i] = "cancel" /\ Down(i) /\ UNCHANGED faults

Crash(i) == i \in up /\ faults < MaxFaults /\ faults' = faults + 1 /\ Down(i)

Boot(i) ==
    /\ i \notin up
    /\ up' = up \cup {i}
    /\ UNCHANGED <<expiring, store, owned, workers, pc, saw, beat, beatSaw, faults, raced, lapsed>>

(* The TTL of the claim runs out, in its text or in the store. *)
Expire ==
    /\ store # None
    /\ store' \in {[store EXCEPT !.past = TRUE]} \cup (IF expiring THEN {None} ELSE {})
    /\ lapsed' = (lapsed \/ workers[store.owner] > 0 \/ pc[store.owner] # "idle" \/ beat[store.owner] # "idle")
    /\ UNCHANGED <<expiring, up, owned, workers, pc, saw, beat, beatSaw, faults, raced>>

-----------------------------------------------------------------------------
Steps(i) ==
    \/ TryClaim(i) \/ PersistClaim(i) \/ PersistFails(i) \/ RenewRead(i) \/ RenewWrite(i) \/ RenewFails(i)
    \/ StopRelease(i) \/ StopCancel(i) \/ Crash(i) \/ Boot(i)

Next == Expire \/ \E i \in Instances : Steps(i)

(* The rebalancer's ticker, the calls under way and the clock go on. *)
Fairness ==
    /\ WF_vars(Expire)
    /\ \A i \in Instances : WF_vars(TryClaim(i)) /\ WF_vars(PersistClaim(i)) /\ WF_vars(StopCancel(i))

Spec == Init /\ [][Next]_vars /\ Fairness

-----------------------------------------------------------------------------
(* Properties. *)

Running == {i \in Instances : workers[i] > 0 /\ pc[i] # "cancel"}

(* As long as no claim runs out under a live instance and no read-to-write *)
(* window is crossed, one instance at most runs the listener, once, and    *)
(* the store says which: through crashes, stops and failed writes.         *)
OneRunner ==
    ~raced /\ ~lapsed =>
        /\ \A i, j \in Running : i = j
        /\ \A i \in Running : workers[i] = 1 /\ store.owner = i

(* "This allows recovery when another instance crashes or releases a       *)
(* slot": whatever happened, as long as an instance is up the listener     *)
(* comes to run again.                                                     *)
ListenerRuns == up = {} \/ \E j \in Instances : workers[j] > 0
Recovers == []<>ListenerRuns

-----------------------------------------------------------------------------
(* Proof of OneRunner, for any set of instances and any number of faults.  *)
(* Whoever runs the listener is named by a claim in force; whoever is      *)
(* about to write has read a claim that was free, its own or past.  So a   *)
(* write over a claim in force replaces one that was not there when it was *)
(* read, which is what raced records.                                      *)

Claims == [owner : Instances \cup {"none"}, past : BOOLEAN]

Shapes ==
    /\ store \in Claims /\ (store = None \/ store.owner \in Instances)
    /\ workers \in [Instances -> Nat]
    /\ pc \in [Instances -> {"idle", "put", "cancel"}] /\ saw \in [Instances -> Claims]
    /\ beat \in [Instances -> {"idle", "put"}] /\ beatSaw \in [Instances -> Claims]
    /\ raced \in BOOLEAN /\ lapsed \in BOOLEAN

(* What the two callers of the store have read. *)
Reads ==
    \A i \in Instances :
        /\ pc[i] = "put" => i \notin owned /\ (saw[i] = None \/ saw[i].owner = i \/ saw[i].past)
        /\ beat[i] = "put" => beatSaw[i].owner = i
        /\ i \in owned => workers[i] > 0

(* Who runs the listener is at rest, owns it, and has the claim. *)
Holds(i) == workers[i] = 1 /\ pc[i] = "idle" /\ i \in owned /\ store = ClaimOf(i)
Held == ~raced /\ ~lapsed => \A i \in Running : Holds(i)

SlotInv == Shapes /\ Reads /\ Held

(* Nobody runs the listener at the start. *)
LEMMA SlotInit == SlotsAssumption /\ Init => SlotInv
<1> SUFFICES ASSUME SlotsAssumption, Init PROVE SlotInv
  OBVIOUS
<1>1. None \in Claims
  BY DEF None, Claims
<1>2. Shapes
  BY <1>1 DEF Init, Shapes
<1>3. Reads
  BY DEF Init, Reads
<1>4. Held
  BY DEF Init, Held, Running
<1> QED
  BY <1>2, <1>3, <1>4 DEF SlotInv

(* A write over another instance's claim in force is a race, whether what  *)
(* it read was free, its own or past.                                      *)
LEMMA WritesRace ==
    ASSUME SlotsAssumption, NEW i \in Instances, NEW j \in Instances, i # j, store = ClaimOf(j),
           NEW read \in Claims, read = None \/ read.owner = i \/ read.past
    PROVE  Overwritten(i, read)
<1>1. store.owner = j /\ store.past = FALSE
  BY DEF ClaimOf
<1>2. store # None
  BY <1>1 DEF None, SlotsAssumption
<1>3. store # read
  BY <1>1, <1>2 DEF Claims
<1> QED
  BY <1>1, <1>2, <1>3 DEF Overwritten

(* TryClaim and its write. *)
LEMMA ClaimKeeps ==
    ASSUME SlotsAssumption, SlotInv, NEW i \in Instances, TryClaim(i) \/ PersistClaim(i) \/ PersistFails(i)
    PROVE  SlotInv'
<1>0. None \in Claims /\ ClaimOf(i) \in Claims /\ ClaimOf(i).owner = i
  BY DEF None, Claims, ClaimOf
<1>1. CASE TryClaim(i)
  <2>1. Shapes'
    BY <1>1 DEF TryClaim, SlotInv, Shapes
  <2>2. Reads'
    BY <1>1 DEF TryClaim, Claimable, SlotInv, Shapes, Reads
  <2>3. Held'
    <3> SUFFICES ASSUME ~raced, ~lapsed, NEW j \in Instances, workers[j] > 0, pc'[j] # "cancel" PROVE Holds(j)'
      BY <1>1 DEF Held, Running, TryClaim
    <3>1. pc[j] # "cancel"
      BY <1>1 DEF TryClaim, SlotInv, Shapes
    <3>2. Holds(j)
      BY <3>1 DEF SlotInv, Held, Running
    <3>3. pc'[j] = pc[j]
      BY <1>1, <3>2 DEF TryClaim, Holds, SlotInv, Shapes
    <3> QED
      BY <1>1, <3>2, <3>3 DEF Holds, TryClaim
  <2> QED
    BY <2>1, <2>2, <2>3 DEF SlotInv
<1>2. CASE PersistClaim(i)
  <2>1. Shapes'
    BY <1>0, <1>2 DEF PersistClaim, SlotInv, Shapes
  <2>2. Reads'
    BY <1>2 DEF PersistClaim, SlotInv, Shapes, Reads
  <2>3. Held'
    <3> SUFFICES ASSUME ~raced', ~lapsed', NEW j \in Instances, workers'[j] > 0, pc'[j] # "cancel" PROVE Holds(j)'
      BY DEF Held, Running
    <3>1. ~raced /\ ~lapsed /\ ~Overwritten(i, saw[i])
      BY <1>2 DEF PersistClaim
    <3>2. ASSUME NEW k \in Instances, workers[k] > 0, pc[k] # "cancel" PROVE FALSE
      <4>1. Holds(k)
        BY <3>1, <3>2 DEF SlotInv, Held, Running
      <4>2. k # i
        BY <1>2, <4>1 DEF Holds, PersistClaim
      <4>3. saw[i] \in Claims /\ (saw[i] = None \/ saw[i].owner = i \/ saw[i].past)
        BY <1>2 DEF PersistClaim, SlotInv, Shapes, Reads
      <4> QED
        BY <3>1, <4>1, <4>2, <4>3, WritesRace DEF Holds
    <3>3. workers[i] = 0
      BY <1>2, <3>2 DEF PersistClaim, SlotInv, Shapes
    <3>4. j = i
      BY <1>2, <3>2 DEF PersistClaim, SlotInv, Shapes
    <3> QED
      BY <1>2, <3>3, <3>4 DEF Holds, PersistClaim, SlotInv, Shapes
  <2> QED
    BY <2>1, <2>2, <2>3 DEF SlotInv
<1>3. CASE PersistFails(i)
  <2>1. Shapes'
    BY <1>0, <1>3 DEF PersistFails, SlotInv, Shapes
  <2>2. Reads'
    BY <1>3 DEF PersistFails, SlotInv, Shapes, Reads
  <2>3. Held'
    <3> SUFFICES ASSUME ~raced, ~lapsed, NEW j \in Instances, workers[j] > 0, pc'[j] # "cancel" PROVE Holds(j)'
      BY <1>3 DEF Held, Running, PersistFails
    <3>1. Holds(j)
      BY <1>3 DEF PersistFails, SlotInv, Held, Running, Shapes
    <3> QED
      BY <1>3, <3>1 DEF Holds, PersistFails, SlotInv, Shapes
  <2> QED
    BY <2>1, <2>2, <2>3 DEF SlotInv
<1> QED
  BY <1>1, <1>2, <1>3

(* The heartbeat: a runner's own claim is the one it reads and renews. *)
LEMMA RenewKeeps ==
    ASSUME SlotsAssumption, SlotInv, NEW i \in Instances, RenewRead(i) \/ RenewWrite(i) \/ RenewFails(i)
    PROVE  SlotInv'
<1>0. None \in Claims /\ ClaimOf(i) \in Claims /\ ClaimOf(i).owner = i
  BY DEF None, Claims, ClaimOf
<1>1. CASE RenewRead(i)
  <2>1. Shapes'
    BY <1>1 DEF RenewRead, SlotInv, Shapes
  <2>2. Reads'
    BY <1>1 DEF RenewRead, SlotInv, Shapes, Reads
  <2>3. Held'
    <3> SUFFICES ASSUME ~raced, ~lapsed, NEW j \in Instances, workers[j] > 0, pc[j] # "cancel" PROVE Holds(j)'
      BY <1>1 DEF Held, Running, RenewRead
    <3>1. Holds(j)
      BY DEF SlotInv, Held, Running
    <3>2. j \in owned'
      BY <1>1, <3>1 DEF RenewRead, Holds, ClaimOf
    <3> QED
      BY <1>1, <3>1, <3>2 DEF Holds, RenewRead
  <2> QED
    BY <2>1, <2>2, <2>3 DEF SlotInv
<1>2. CASE RenewWrite(i)
  <2>1. Shapes'
    BY <1>0, <1>2 DEF RenewWrite, SlotInv, Shapes
  <2>2. Reads'
    BY <1>2 DEF RenewWrite, SlotInv, Shapes, Reads
  <2>3. Held'
    <3> SUFFICES ASSUME ~raced', ~lapsed', NEW j \in Instances, workers[j] > 0, pc[j] # "cancel" PROVE Holds(j)'
      BY <1>2 DEF Held, Running, RenewWrite
    <3>1. ~raced /\ ~lapsed /\ ~Overwritten(i, beatSaw[i])
      BY <1>2 DEF RenewWrite
    <3>2. Holds(j)
      BY <3>1 DEF SlotInv, Held, Running
    <3>3. beatSaw[i] \in Claims /\ beatSaw[i].owner = i
      BY <1>2 DEF RenewWrite, SlotInv, Shapes, Reads
    <3>4. j = i
      BY <3>1, <3>2, <3>3, WritesRace DEF Holds
    <3> QED
      BY <1>2, <3>2, <3>4 DEF Holds, RenewWrite
  <2> QED
    BY <2>1, <2>2, <2>3 DEF SlotInv
<1>3. CASE RenewFails(i)
  <2>1. Shapes'
    BY <1>0, <1>3 DEF RenewFails, SlotInv, Shapes
  <2>2. Reads'
    BY <1>3 DEF RenewFails, SlotInv, Shapes, Reads
  <2>3. Held'
    BY <1>3 DEF RenewFails, SlotInv, Held, Running, Holds
  <2> QED
    BY <2>1, <2>2, <2>3 DEF SlotInv
<1> QED
  BY <1>1, <1>2, <1>3

(* Stop, crash and start: an instance deletes a claim only when it owns    *)
(* the slot and then runs the listener itself.                             *)
LEMMA StopKeeps ==
    ASSUME SlotsAssumption, SlotInv, NEW i \in Instances,
           StopRelease(i) \/ StopCancel(i) \/ Crash(i) \/ Boot(i)
    PROVE  SlotInv'
<1>0. None \in Claims
  BY DEF None, Claims
<1>1. CASE StopRelease(i)
  <2>1. Shapes'
    BY <1>0, <1>1 DEF StopRelease, SlotInv, Shapes
  <2>2. Reads'
    BY <1>1 DEF StopRelease, SlotInv, Shapes, Reads
  <2>3. Held'
    <3> SUFFICES ASSUME ~raced, ~lapsed, NEW j \in Instances, workers[j] > 0, pc'[j] # "cancel" PROVE Holds(j)'
      BY <1>1 DEF Held, Running, StopRelease
    <3>1. j # i /\ pc'[j] = pc[j]
      BY <1>1 DEF StopRelease, SlotInv, Shapes
    <3>2. Holds(j)
      BY <3>1 DEF SlotInv, Held, Running
    <3>3. i \notin owned
      <4> SUFFICES ASSUME i \in owned PROVE FALSE
        OBVIOUS
      <4>1. Holds(i)
        BY <1>1 DEF StopRelease, SlotInv, Held, Running, Reads
      <4> QED
        BY <3>1, <3>2, <4>1 DEF Holds, ClaimOf
    <3> QED
      BY <1>1, <3>1, <3>2, <3>3 DEF Holds, StopRelease
  <2> QED
    BY <2>1, <2>2, <2>3 DEF SlotInv
<1>2. CASE Down(i)
  <2>1. Shapes'
    BY <1>0, <1>2 DEF Down, SlotInv, Shapes
  <2>2. Reads'
    BY <1>2 DEF Down, SlotInv, Shapes, Reads
  <2>3. Held'
    <3> SUFFICES ASSUME ~raced, ~lapsed, NEW j \in Instances, workers'[j] > 0, pc'[j] # "cancel" PROVE Holds(j)'
      BY <1>2 DEF Held, Running, Down
    <3>1. j # i /\ pc'[j] = pc[j] /\ workers'[j] = workers[j]
      BY <1>2 DEF Down, SlotInv, Shapes
    <3>2. Holds(j)
      BY <3>1 DEF SlotInv, Held, Running
    <3> QED
      BY <1>2, <3>1, <3>2 DEF Holds, Down
  <2> QED
    BY <2>1, <2>2, <2>3 DEF SlotInv
<1>3. CASE Boot(i)
  <2>1. Shapes' /\ Reads'
    BY <1>3 DEF Boot, SlotInv, Shapes, Reads
  <2>2. Held'
    BY <1>3 DEF Boot, SlotInv, Held, Running, Holds
  <2> QED
    BY <2>1, <2>2 DEF SlotInv
<1> QED
  BY <1>1, <1>2, <1>3 DEF StopCancel, Crash

(* A claim that runs out under its runner is a lapse. *)
LEMMA ExpireKeeps ==
    ASSUME SlotsAssumption, SlotInv, Expire
    PROVE  SlotInv'
<1>1. None \in Claims /\ store \in Claims /\ store.owner \in Instances
  BY DEF None, Claims, Expire, SlotInv, Shapes
<1>2. store' = None \/ (store' = [store EXCEPT !.past = TRUE])
  BY DEF Expire
<1>3. store' \in Claims /\ (store' = None \/ store'.owner \in Instances)
  BY <1>1, <1>2 DEF Claims
<1>4. lapsed' \in BOOLEAN
  BY DEF Expire
<1>5. Shapes'
  BY <1>3, <1>4 DEF Expire, SlotInv, Shapes
<1>6. Reads'
  BY DEF Expire, SlotInv, Reads
<1>7. Held'
  <2> SUFFICES ASSUME ~raced, ~lapsed', NEW j \in Instances, workers[j] > 0, pc[j] # "cancel" PROVE FALSE
    BY DEF Held, Running, Expire
  <2>1. ~lapsed /\ ~(workers[store.owner] > 0)
    BY DEF Expire
  <2>2. Holds(j)
    BY <2>1 DEF SlotInv, Held, Running
  <2> QED
    BY <2>1, <2>2 DEF Holds, ClaimOf
<1> QED
  BY <1>5, <1>6, <1>7 DEF SlotInv

(* TryClaim, RenewAll, Stop and crashes leave one instance at most running *)
(* the listener, whatever their order, unless a claim lapsed or two        *)
(* crossed: for any number of instances.                                   *)
THEOREM RunnersExclude == ASSUME SlotsAssumption PROVE Spec => []OneRunner
<1>1. Init => SlotInv
  BY SlotInit
<1>2. SlotInv /\ [Next]_vars => SlotInv'
  <2> SUFFICES ASSUME SlotInv, [Next]_vars PROVE SlotInv'
    OBVIOUS
  <2>1. CASE Expire
    BY <2>1, ExpireKeeps
  <2>2. ASSUME NEW i \in Instances, Steps(i) PROVE SlotInv'
    BY <2>2, ClaimKeeps, RenewKeeps, StopKeeps DEF Steps
  <2>3. CASE UNCHANGED vars
    BY <2>3 DEF vars, SlotInv, Shapes, Reads, Held, Running, Holds
  <2> QED
    BY <2>1, <2>2, <2>3 DEF Next
<1>3. SlotInv => OneRunner
  BY DEF SlotInv, Held, Holds, Running, OneRunner, ClaimOf
<1> QED
  BY <1>1, <1>2, <1>3, PTL DEF Spec
=============================================================================
