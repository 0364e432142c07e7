---------------------------- MODULE EgressLimiter ---------------------------
(***************************************************************************)
(* The egress rate limit step (engine/egress_limiter.go) for one resource. *)
(* A call reads the clock, claims a slot of that window in the bucket      *)
(* (epoch, count) with one atomic operation at a time, and when the budget *)
(* is spent fails, falls back, or blocks on the gate: a channel shared by  *)
(* all waiters, closed by a timer at the end of the window or by the first *)
(* call of the next window.                                                *)
(***************************************************************************)
EXTENDS Integers, FiniteSets

CONSTANTS
    Calls,       \* goroutines executing the step
    Limit,       \* calls per window
    Window,      \* length of a window in ticks
    MaxWait,     \* longest wait in ticks
    Behaviors,   \* what the flows do when the budget is spent
    Straddle,    \* may a window end between a call's clock read and its claim?
    Start,       \* first tick
    MaxNow,      \* bound on the clock
    MaxGates,    \* bound on the channels alive at a time
    MaxRequests  \* bound on the requests served

EgressAssumption ==
    /\ IsFiniteSet(Calls)
    /\ Limit \in Nat \ {0} /\ Window \in Nat \ {0} /\ MaxWait \in Nat
    /\ Behaviors \subseteq {"fail", "fallback", "fallback_unset", "wait"}
    /\ Straddle \in BOOLEAN
    /\ Start \in Nat /\ MaxNow \in Nat /\ Start \in Window..MaxNow
    /\ MaxGates \in Nat \ {0} /\ MaxRequests \in Nat

None == 0
Gates == 1..MaxGates
Epochs == 0..MaxNow

VARIABLES
    now,
    epoch, count,   \* egressBucket.epoch, egressBucket.count
    gate,           \* egressBucket.gate: a channel or None
    mu,             \* egressBucket.mu: the goroutine holding it, or "free"
    closed,         \* channels that have been closed
    timer,          \* pending AfterFunc per channel: due tick, or None
    call,           \* local state per goroutine
    gone,           \* calls whose client has disconnected
    wired,          \* is a distributed counter wired?
    remote,         \* the distributed counter per window
    served,         \* requests finished
    granted,        \* history: calls let through per window
    panicked        \* history: a closed channel was closed again

bucket == <<epoch, count>>
vars == <<now, epoch, count, gate, mu, closed, timer, call, gone, wired, remote, served, granted, panicked>>

EpochOf(t) == t \div Window
Idle == [pc |-> "idle", epoch |-> 0, cur |-> 0, ch |-> None, deadline |-> None]
Final == {"allowed", "failed", "fallback", "unavailable", "cancelled"}
Claiming == {"load", "add", "cas", "store", "swap"}

TypeOK ==
    /\ now \in Start..MaxNow
    /\ epoch \in Epochs /\ count \in Nat
    /\ gate \in Gates \cup {None} /\ mu \in Calls \cup {"free"}
    /\ closed \subseteq Gates /\ timer \in [Gates -> 0..MaxNow]
    /\ call \in [Calls -> [pc : {"idle", "gate", "lock", "arm", "decide", "blocked"} \cup Claiming \cup Final,
                           epoch : Epochs, cur : Epochs, ch : Gates \cup {None}, deadline : 0..MaxNow + MaxWait]]
    /\ gone \subseteq Calls
    /\ wired \in BOOLEAN /\ remote \in [Epochs -> Nat] /\ granted \in [Epochs -> Nat] /\ served \in 0..MaxRequests
    /\ panicked \in BOOLEAN

(* The bucket is created zeroed by the first call. *)
Init ==
    /\ now = Start
    /\ epoch = 0 /\ count = 0
    /\ gate = None /\ mu = "free" /\ closed = {} /\ timer = [g \in Gates |-> None]
    /\ call = [p \in Calls |-> Idle] /\ gone = {}
    /\ wired \in BOOLEAN /\ remote = [e \in Epochs |-> 0]
    /\ granted = [e \in Epochs |-> 0] /\ served = 0
    /\ panicked = FALSE

Goto(p, pc) == call' = [call EXCEPT ![p].pc = pc]

(* The step returns. *)
Done(p, outcome) == call' = [call EXCEPT ![p] = [Idle EXCEPT !.pc = outcome]]

-----------------------------------------------------------------------------
(* The claim. *)

(* n is the slot number the claim returned: within the limit the step is   *)
(* passed, beyond it the call goes for the gate of its window.             *)
Claimed(p, n) ==
    IF n <= Limit
      THEN /\ Done(p, "allowed")
           /\ granted' = [granted EXCEPT ![call[p].epoch] = @ + 1]
      ELSE /\ call' = [call EXCEPT ![p].pc = "gate", ![p].cur = 0]
           /\ UNCHANGED granted

(* acquire: the window is taken from the clock.  A distributed counter     *)
(* decides by itself; the gate stays local.  (The bound on the clock keeps *)
(* the end of every window in which a call starts within reach.)           *)
Acquire(p) ==
    LET e == EpochOf(now) IN
    /\ call[p].pc = "idle"
    /\ (e + 1) * Window <= MaxNow
    /\ IF wired
         THEN /\ remote' = [remote EXCEPT ![e] = @ + 1]
              /\ IF remote[e] < Limit
                   THEN /\ granted' = [granted EXCEPT ![e] = @ + 1]
                        /\ Done(p, "allowed")
                   ELSE /\ call' = [call EXCEPT ![p].epoch = e, ![p].pc = "gate"]
                        /\ UNCHANGED granted
         ELSE /\ call' = [call EXCEPT ![p].epoch = e, ![p].pc = "load"]
              /\ UNCHANGED <<remote, granted>>
    /\ UNCHANGED <<now, wired, bucket, gate, mu, closed, timer, gone, served, panicked>>

(* countForEpoch, one action per atomic operation. *)
LoadEpoch(p) ==
    /\ call[p].pc = "load"
    /\ call' = [call EXCEPT ![p].cur = epoch, ![p].pc = IF epoch = call[p].epoch THEN "add" ELSE "cas"]
    /\ UNCHANGED <<now, wired, bucket, gate, mu, closed, timer, gone, remote, served, granted, panicked>>

AddCount(p) ==
    /\ call[p].pc = "add"
    /\ count' = count + 1
    /\ Claimed(p, count + 1)
    /\ UNCHANGED <<now, wired, epoch, gate, mu, closed, timer, gone, remote, served, panicked>>

SwapEpoch(p) ==
    /\ call[p].pc = "cas"
    /\ IF epoch = call[p].cur
         THEN epoch' = call[p].epoch /\ Goto(p, "store")
         ELSE Goto(p, "add") /\ UNCHANGED epoch
    /\ UNCHANGED <<now, wired, count, gate, mu, closed, timer, gone, remote, served, granted, panicked>>

(* Faulty variant: the resetter forgets its own call. *)
StoreZero(p) ==
    /\ call[p].pc = "store"
    /\ count' = 0
    /\ Goto(p, "swap")
    /\ UNCHANGED <<now, wired, epoch, gate, mu, closed, timer, gone, remote, served, granted, panicked>>

StoreCount(p) ==
    /\ call[p].pc = "store"
    /\ count' = 1
    /\ Goto(p, "swap")
    /\ UNCHANGED <<now, wired, epoch, gate, mu, closed, timer, gone, remote, served, granted, panicked>>

(* Closing a closed channel panics. *)
Close(g) ==
    /\ closed' = closed \cup {g}
    /\ panicked' = (panicked \/ g \in closed)

SwapGate(p) ==
    /\ call[p].pc = "swap"
    /\ IF gate # None THEN Close(gate) ELSE UNCHANGED <<closed, panicked>>
    /\ gate' = None
    /\ Claimed(p, 1)
    /\ UNCHANGED <<now, wired, bucket, mu, timer, gone, remote, served>>

-----------------------------------------------------------------------------
(* The gate. *)

(* waitChannel finds the gate of an earlier waiter. *)
LoadGate(p) ==
    /\ call[p].pc = "gate"
    /\ call' = [call EXCEPT ![p].ch = gate, ![p].pc = IF gate = None THEN "lock" ELSE "decide"]
    /\ UNCHANGED <<now, wired, bucket, gate, mu, closed, timer, gone, remote, served, granted, panicked>>

(* A channel nothing refers to any more: a new one may take its name. *)
Unused(g) == gate # g /\ timer[g] = None /\ \A p \in Calls : call[p].ch # g

(* Under the mutex the gate is looked at again and created. *)
MakeGate(p) ==
    /\ call[p].pc = "lock" /\ mu = "free"
    /\ IF gate # None
         THEN /\ call' = [call EXCEPT ![p].ch = gate, ![p].pc = "decide"]
              /\ UNCHANGED <<gate, mu, closed>>
         ELSE \E g \in Gates :
              /\ Unused(g) /\ \A x \in Gates : Unused(x) => g <= x
              /\ gate' = g /\ closed' = closed \ {g}
              /\ call' = [call EXCEPT ![p].ch = g, ![p].pc = "arm"]
              /\ mu' = p
    /\ UNCHANGED <<now, wired, bucket, timer, gone, remote, served, granted, panicked>>

(* Faulty variant: no timer when the window is already over. *)
ArmInTime(p) ==
    LET boundary == (call[p].epoch + 1) * Window IN
    /\ call[p].pc = "arm"
    /\ timer' = [timer EXCEPT ![call[p].ch] = IF boundary > now THEN boundary ELSE None]
    /\ mu' = "free"
    /\ Goto(p, "decide")
    /\ UNCHANGED <<now, wired, bucket, gate, closed, gone, remote, served, granted, panicked>>

(* The timer that closes it is due at the end of the window, at once when  *)
(* that has passed.                                                        *)
ArmTimer(p) ==
    LET boundary == (call[p].epoch + 1) * Window IN
    /\ call[p].pc = "arm"
    /\ timer' = [timer EXCEPT ![call[p].ch] = IF boundary > now THEN boundary ELSE now]
    /\ mu' = "free"
    /\ Goto(p, "decide")
    /\ UNCHANGED <<now, wired, bucket, gate, closed, gone, remote, served, granted, panicked>>

(* The AfterFunc callback: CompareAndSwap(gate, g, nil), then close. *)
Fire(g) ==
    /\ timer[g] # None /\ timer[g] <= now
    /\ timer' = [timer EXCEPT ![g] = None]
    /\ IF gate = g
         THEN Close(g) /\ gate' = None
         ELSE UNCHANGED <<gate, closed, panicked>>
    /\ UNCHANGED <<now, wired, bucket, mu, call, gone, remote, served, granted>>

-----------------------------------------------------------------------------
(* The step around the claim. *)

(* What the step does when the budget is spent; a call that has waited     *)
(* waits again, up to its deadline.                                        *)
Decide(p) ==
    LET deadline == IF call[p].deadline = None THEN now + MaxWait ELSE call[p].deadline IN
    /\ call[p].pc = "decide"
    /\ \E b \in IF call[p].deadline = None THEN Behaviors ELSE {"wait"} :
         \/ b = "fail" /\ Done(p, "failed")
         \/ b = "fallback" /\ Done(p, "fallback")
         \/ b = "fallback_unset" /\ Done(p, "unavailable")
         \/ b = "wait" /\ now >= deadline /\ Done(p, "unavailable")
         \/ b = "wait" /\ now < deadline /\ p \in gone /\ Done(p, "cancelled")
         \/ /\ b = "wait" /\ now < deadline /\ p \notin gone
            /\ call' = [call EXCEPT ![p] = [Idle EXCEPT !.pc = "blocked", !.ch = call[p].ch, !.deadline = deadline]]
    /\ UNCHANGED <<now, wired, bucket, gate, mu, closed, timer, gone, remote, served, granted, panicked>>

(* The select: the window has been reset, the deadline has passed, or the  *)
(* client is gone.                                                         *)
Wake(p) ==
    /\ call[p].pc = "blocked"
    /\ \/ /\ call[p].ch \in closed
          /\ call' = [call EXCEPT ![p].ch = None, ![p].pc = "idle"]
       \/ now >= call[p].deadline /\ Done(p, "unavailable")
       \/ p \in gone /\ Done(p, "cancelled")
    /\ UNCHANGED <<now, wired, bucket, gate, mu, closed, timer, gone, remote, served, granted, panicked>>

(* The client goes away.  Only a call that would wait looks, so an earlier *)
(* disconnection is no different from one just before it looks.            *)
Disconnect(p) ==
    /\ p \notin gone /\ call[p].pc \in {"decide", "blocked"}
    /\ gone' = gone \cup {p}
    /\ UNCHANGED <<now, wired, bucket, gate, mu, closed, timer, call, remote, served, granted, panicked>>

(* The goroutine goes on to serve another request. *)
NextRequest(p) ==
    /\ call[p].pc \in Final /\ served < MaxRequests
    /\ served' = served + 1
    /\ call' = [call EXCEPT ![p] = Idle]
    /\ gone' = gone \ {p}
    /\ UNCHANGED <<now, wired, bucket, gate, mu, closed, timer, remote, granted, panicked>>

Tick ==
    /\ now < MaxNow
    /\ (now + 1) % Window = 0 /\ ~Straddle => \A p \in Calls : call[p].pc \notin Claiming
    /\ now' = now + 1
    /\ UNCHANGED <<wired, bucket, gate, mu, closed, timer, call, gone, remote, served, granted, panicked>>

Step(p) ==
    \/ LoadEpoch(p) \/ AddCount(p) \/ SwapEpoch(p) \/ StoreCount(p) \/ SwapGate(p)
    \/ LoadGate(p) \/ MakeGate(p) \/ ArmTimer(p) \/ Decide(p) \/ Wake(p)

Next ==
    \/ Tick
    \/ \E p \in Calls : Acquire(p) \/ Step(p) \/ Disconnect(p) \/ NextRequest(p)
    \/ \E g \in Gates : Fire(g)

Spec == Init /\ [][Next]_vars

\* A goroutine, the clock or a timer goes on.
Proceed == Tick \/ (\E p \in Calls : Step(p)) \/ \E g \in Gates : Fire(g)

(* Goroutines are scheduled, time passes and timers fire.  No new request  *)
(* has to come.                                                            *)
FairSpec ==
    /\ Spec
    /\ \A p \in Calls : WF_vars(Step(p))
    /\ \A g \in Gates : WF_vars(Fire(g))
    /\ WF_vars(Tick)

-----------------------------------------------------------------------------
(* The budget of a window.  With a distributed counter a window lets at    *)
(* most Limit calls through.  With the local one, and no call outliving    *)
(* its window, it lets at most twice as many through: the calls counted    *)
(* between the resetter's swap of the epoch and its store of the count are *)
(* forgotten, once per window.                                             *)
BudgetKept == \A e \in Epochs : granted[e] <= IF wired THEN Limit ELSE 2 * Limit

(* The gate is closed by the timer or by the resetter, never by both.      *)
NoDoubleClose == ~panicked

(* No waiter is forgotten: its channel has been closed, or is the gate and *)
(* has a timer that is due by the end of the present window, or is about   *)
(* to get one, whichever of timer and resetter took which gate before.     *)
Opening(g) ==
    /\ gate = g
    /\ \/ timer[g] # None /\ timer[g] <= (EpochOf(now) + 1) * Window
       \/ \E q \in Calls : call[q].pc = "arm" /\ call[q].ch = g
WaitersReached == \A p \in Calls : call[p].pc = "blocked" => call[p].ch \in closed \/ Opening(call[p].ch)

(* No waiter is left behind: time and again no gate is set and every call  *)
(* that waits has been let go, by the timer of its window or by a call of  *)
(* a later one, even when the window ends while the gate is being made and *)
(* no further call comes.                                                  *)
NoneWaits == gate = None /\ \A p \in Calls : call[p].pc = "blocked" => call[p].ch \in closed
GateOpens == []<>NoneWaits
=============================================================================
