----------------------------- MODULE TimerWheel -----------------------------
(***************************************************************************)
(* The wheel of upstream timeouts (engine/steps/timer_wheel.go).  An HTTP  *)
(* step arms a timer (scheduleCtx, scheduleBody) by putting an entry index *)
(* into a position of the slot of a later second, makes its upstream call  *)
(* and cancels the timer.  A ticker goroutine fires what is left in the    *)
(* slot of each second.  Steps and ticker share no lock: every access to   *)
(* shared memory is a step of its own.  The rings of free indices and of   *)
(* recycled positions are VyukovRings, taken here as the queues they       *)
(* implement.  What a timer does when it fires (closing a body, cancelling *)
(* a context) is left out.                                                 *)
(***************************************************************************)
EXTENDS Naturals, Sequences, FiniteSets, SequencesExt

CONSTANTS
    Calls,       \* goroutines executing HTTP steps
    WheelSize,   \* wheelSize, one slot per second
    MaxPerSlot,  \* maxPerSlot
    Entries,     \* number of entry indices
    Durations,   \* timeouts in whole seconds
    Word,        \* values of a uint32
    MaxSecond,   \* bound on the clock
    MaxArms      \* bound on the timers armed

WheelAssumption ==
    /\ IsFiniteSet(Calls) /\ Durations \subseteq Nat
    /\ WheelSize \in Nat \ {0} /\ MaxPerSlot \in Nat \ {0} /\ Entries \in Nat
    /\ Word \in Nat /\ Word > MaxPerSlot + Cardinality(Calls)
    /\ MaxSecond \in Nat /\ MaxArms \in Nat

None == 0
Slots == 0..WheelSize - 1
Positions == 0..MaxPerSlot - 1
Indices == 1..Entries
Timers == 1..MaxArms

VARIABLES
    second,     \* the clock
    pending,    \* the tick waiting in ticker.C: its second plus one, or None
    wheelCurrent,
    writePos,   \* per slot, the next fresh position
    posRing,    \* per slot, the recycled positions
    buf,        \* per slot and position, the entry index or None
    fire,       \* wheelFire: per entry the timer to fire, or None
    cancelled,  \* wheelEntries: the cancelled flag per entry
    freeRing,   \* the free indices
    step,       \* local state per call
    ticker,     \* local state of the ticker goroutine
    panicked,   \* the ticker indexed past the end of buf
    calm,       \* is scheduling as wheelTick expects it, see below
    armed,      \* number of timers armed
    fate, due   \* history per timer: what became of it, and its due second

vars == <<second, pending, wheelCurrent, writePos, posRing, buf, fire, cancelled, freeRing,
          step, ticker, panicked, calm, armed, fate, due>>

slots == <<writePos, posRing, buf>>
entries == <<fire, cancelled, freeRing>>
clock == <<second, pending, wheelCurrent>>

NoHandle == [pc |-> "idle", idx |-> None, slot |-> 0, pos |-> 0, secs |-> 0, ref |-> None]
Asleep == [pc |-> "wait", slot |-> 0, count |-> 0, i |-> 0, idx |-> None, ref |-> None]

Arming == {"current", "pos", "fresh", "undo", "refuse", "flag", "ref", "buf"}
Cancelling == {"c_flag", "c_ref", "c_buf", "c_free"}
Fates == {"none", "armed", "refused", "fired", "silenced", "reclaimed"}

TypeOK ==
    /\ second \in 0..MaxSecond /\ pending \in 0..MaxSecond + 1 /\ wheelCurrent \in Slots
    /\ writePos \in [Slots -> 0..Word - 1]
    /\ \A s \in Slots : posRing[s] \in Seq(Positions) /\ Len(posRing[s]) <= MaxPerSlot
    /\ buf \in [Slots -> [Positions -> Indices \cup {None}]]
    /\ fire \in [Indices -> Timers \cup {None}] /\ cancelled \in [Indices -> BOOLEAN]
    /\ freeRing \in Seq(Indices)
    /\ \A c \in Calls :
         /\ step[c].pc \in {"idle", "call"} \cup Arming \cup Cancelling
         /\ step[c].idx \in Indices \cup {None} /\ step[c].ref \in Timers \cup {None}
         /\ step[c].slot \in Slots /\ step[c].pos \in 0..Word - 1
    /\ ticker.pc \in {"wait", "swap", "load", "ref", "flag", "free", "zero", "recycle"}
    /\ ticker.slot \in Slots /\ ticker.idx \in Indices \cup {None} /\ ticker.ref \in Timers \cup {None}
    /\ panicked \in BOOLEAN /\ calm \in BOOLEAN /\ armed \in 0..MaxArms
    /\ fate \in [Timers -> Fates] /\ due \in [Timers -> Nat]

(* StartTimerWheel.  The wheel stands at slot 0 until the first tick,      *)
(* whatever the second.                                                    *)
Init ==
    /\ calm \in BOOLEAN
    /\ second \in (IF calm THEN {0} ELSE Slots)
    /\ pending = None /\ wheelCurrent = 0
    /\ writePos = [s \in Slots |-> 0] /\ posRing = [s \in Slots |-> <<>>]
    /\ buf = [s \in Slots |-> [p \in Positions |-> None]]
    /\ fire = [x \in Indices |-> None] /\ cancelled = [x \in Indices |-> FALSE]
    /\ freeRing = [x \in Indices |-> x]
    /\ step = [c \in Calls |-> NoHandle] /\ ticker = Asleep
    /\ panicked = FALSE /\ armed = 0
    /\ fate = [t \in Timers |-> "none"] /\ due = [t \in Timers |-> 0]

-----------------------------------------------------------------------------
(* What wheelTick relies on ("temporal separation"), assumed when calm:    *)
(* nobody is arming a timer in the slot being ticked, the ticker keeps up  *)
(* with the clock, and the half million indices are enough for none to     *)
(* come round while a step or the ticker still refers to it.               *)

Ticking(s) == pending # None \/ (ticker.pc # "wait" /\ ticker.slot = s)

Target(c) == (wheelCurrent + step[c].secs) % WheelSize

Held(x) == ticker.idx = x \/ \E c \in Calls : step[c].idx = x

Go(c, pc) == step' = [step EXCEPT ![c].pc = pc]

-----------------------------------------------------------------------------
(* scheduleCtx and scheduleBody. *)

(* The entry pool may be exhausted: the step falls back to time.AfterFunc  *)
(* and its handle is zero.                                                 *)
Dequeue(c, d) ==
    /\ step[c].pc = "idle" /\ armed < MaxArms
    /\ armed' = armed + 1
    /\ IF freeRing = <<>>
         THEN /\ fate' = [fate EXCEPT ![armed'] = "refused"]
              /\ Go(c, "call")
              /\ UNCHANGED freeRing
         ELSE /\ calm => ~Held(Head(freeRing))
              /\ freeRing' = Tail(freeRing)
              /\ step' = [step EXCEPT ![c] = [NoHandle EXCEPT !.pc = "current", !.idx = Head(freeRing),
                                                              !.secs = d + 1, !.ref = armed']]
              /\ UNCHANGED fate
    /\ UNCHANGED <<clock, slots, fire, cancelled, ticker, panicked, calm, due>>

LoadCurrent(c) ==
    /\ step[c].pc = "current"
    /\ calm => ~Ticking(Target(c))
    /\ step' = [step EXCEPT ![c].slot = Target(c), ![c].pc = "pos"]
    /\ due' = [due EXCEPT ![step[c].ref] = second + step[c].secs - 1]
    /\ UNCHANGED <<clock, slots, entries, ticker, panicked, calm, armed, fate>>

TakeRecycled(c) ==
    LET s == step[c].slot IN
    /\ step[c].pc = "pos"
    /\ IF posRing[s] = <<>>
         THEN Go(c, "fresh") /\ UNCHANGED posRing
         ELSE /\ step' = [step EXCEPT ![c].pos = Head(posRing[s]), ![c].pc = "flag"]
              /\ posRing' = [posRing EXCEPT ![s] = Tail(@)]
    /\ UNCHANGED <<clock, writePos, buf, entries, ticker, panicked, calm, armed, fate, due>>

TakeFresh(c) ==
    LET s == step[c].slot IN
    /\ step[c].pc = "fresh"
    /\ writePos' = [writePos EXCEPT ![s] = (@ + 1) % Word]
    /\ step' = [step EXCEPT ![c].pos = writePos[s],
                            ![c].pc = IF writePos[s] >= MaxPerSlot THEN "undo" ELSE "flag"]
    /\ UNCHANGED <<clock, posRing, buf, entries, ticker, panicked, calm, armed, fate, due>>

(* The slot is full: writePos.Add(^uint32(0)). *)
Undo(c) ==
    LET s == step[c].slot IN
    /\ step[c].pc = "undo"
    /\ writePos' = [writePos EXCEPT ![s] = (@ + Word - 1) % Word]
    /\ Go(c, "refuse")
    /\ UNCHANGED <<clock, posRing, buf, entries, ticker, panicked, calm, armed, fate, due>>

Refuse(c) ==
    /\ step[c].pc = "refuse"
    /\ freeRing' = Append(freeRing, step[c].idx)
    /\ fate' = [fate EXCEPT ![step[c].ref] = "refused"]
    /\ step' = [step EXCEPT ![c] = [NoHandle EXCEPT !.pc = "call"]]
    /\ UNCHANGED <<clock, slots, fire, cancelled, ticker, panicked, calm, armed, due>>

ClearFlag(c) ==
    /\ step[c].pc = "flag"
    /\ cancelled' = [cancelled EXCEPT ![step[c].idx] = FALSE]
    /\ Go(c, "ref")
    /\ UNCHANGED <<clock, slots, fire, freeRing, ticker, panicked, calm, armed, fate, due>>

StoreRef(c) ==
    /\ step[c].pc = "ref"
    /\ fire' = [fire EXCEPT ![step[c].idx] = step[c].ref]
    /\ fate' = [fate EXCEPT ![step[c].ref] = "armed"]
    /\ Go(c, "buf")
    /\ UNCHANGED <<clock, slots, cancelled, freeRing, ticker, panicked, calm, armed, due>>

StoreBuf(c) ==
    /\ step[c].pc = "buf"
    /\ buf' = [buf EXCEPT ![step[c].slot][step[c].pos] = step[c].idx]
    /\ Go(c, "call")
    /\ UNCHANGED <<clock, writePos, posRing, entries, ticker, panicked, calm, armed, fate, due>>

-----------------------------------------------------------------------------
(* wheelHandle.cancel, when the upstream call has returned.                *)

SetFlag(c) ==
    /\ step[c].pc = "call"
    /\ IF step[c].idx = None
         THEN step' = [step EXCEPT ![c] = NoHandle] /\ UNCHANGED cancelled
         ELSE /\ cancelled' = [cancelled EXCEPT ![step[c].idx] = TRUE]
              /\ Go(c, "c_ref")
    /\ UNCHANGED <<clock, slots, fire, freeRing, ticker, panicked, calm, armed, fate, due>>

(* Faulty variant: the index is recycled even when the ticker took the     *)
(* reference.                                                              *)
ReclaimAlways(c) ==
    LET x == step[c].idx IN
    /\ step[c].pc = "c_ref"
    /\ fire' = [fire EXCEPT ![x] = None]
    /\ fate' = IF fire[x] = None THEN fate ELSE [fate EXCEPT ![fire[x]] = "reclaimed"]
    /\ Go(c, "c_buf")
    /\ UNCHANGED <<clock, slots, cancelled, freeRing, ticker, panicked, calm, armed, due>>

(* The Swap decides between cancel and tick. *)
Reclaim(c) ==
    LET x == step[c].idx IN
    /\ step[c].pc = "c_ref"
    /\ fire' = [fire EXCEPT ![x] = None]
    /\ IF fire[x] = None
         THEN step' = [step EXCEPT ![c] = NoHandle] /\ UNCHANGED fate
         ELSE /\ fate' = [fate EXCEPT ![fire[x]] = "reclaimed"]
              /\ Go(c, "c_buf")
    /\ UNCHANGED <<clock, slots, cancelled, freeRing, ticker, panicked, calm, armed, due>>

ZeroBuf(c) ==
    /\ step[c].pc = "c_buf"
    /\ buf' = [buf EXCEPT ![step[c].slot][step[c].pos] = None]
    /\ Go(c, "c_free")
    /\ UNCHANGED <<clock, writePos, posRing, entries, ticker, panicked, calm, armed, fate, due>>

FreeIndex(c) ==
    /\ step[c].pc = "c_free"
    /\ freeRing' = Append(freeRing, step[c].idx)
    /\ step' = [step EXCEPT ![c] = NoHandle]
    /\ UNCHANGED <<clock, slots, fire, cancelled, ticker, panicked, calm, armed, fate, due>>

-----------------------------------------------------------------------------
(* The ticker. *)

(* time.Ticker sends the second and drops a tick nobody has received.      *)
Second ==
    /\ second < MaxSecond
    /\ calm => pending = None /\ ticker.pc = "wait"
    /\ calm => \A c \in Calls : step[c].pc \in Arming \ {"current"} => step[c].slot # (second + 1) % WheelSize
    /\ second' = second + 1
    /\ pending' = IF pending = None THEN second' + 1 ELSE pending
    /\ UNCHANGED <<wheelCurrent, slots, entries, step, ticker, panicked, calm, armed, fate, due>>

Receive ==
    /\ ticker.pc = "wait" /\ pending # None /\ ~panicked
    /\ wheelCurrent' = (pending - 1) % WheelSize
    /\ pending' = None
    /\ ticker' = [Asleep EXCEPT !.pc = "swap", !.slot = wheelCurrent']
    /\ UNCHANGED <<second, slots, entries, step, panicked, calm, armed, fate, due>>

(* wheelTick: writePos.Swap(0), then the positions below the old value.    *)
SwapPos ==
    LET n == writePos[ticker.slot] IN
    /\ ticker.pc = "swap"
    /\ writePos' = [writePos EXCEPT ![ticker.slot] = 0]
    /\ ticker' = IF n = 0 THEN Asleep ELSE [ticker EXCEPT !.count = n, !.pc = "load"]
    /\ UNCHANGED <<clock, posRing, buf, entries, step, panicked, calm, armed, fate, due>>

LoadBuf ==
    /\ ticker.pc = "load"
    /\ IF ticker.i >= MaxPerSlot
         THEN panicked' = TRUE /\ ticker' = Asleep
         ELSE LET x == buf[ticker.slot][ticker.i] IN
              /\ ticker' = [ticker EXCEPT !.idx = x, !.pc = IF x = None THEN "recycle" ELSE "ref"]
              /\ UNCHANGED panicked
    /\ UNCHANGED <<clock, slots, entries, step, calm, armed, fate, due>>

TakeRef ==
    LET t == fire[ticker.idx] IN
    /\ ticker.pc = "ref"
    /\ fire' = [fire EXCEPT ![ticker.idx] = None]
    /\ ticker' = [ticker EXCEPT !.ref = t, !.pc = IF t = None THEN "recycle" ELSE "flag"]
    /\ UNCHANGED <<clock, slots, cancelled, freeRing, step, panicked, calm, armed, fate, due>>

(* The timer fires unless its entry has been flagged meanwhile. *)
Fire ==
    /\ ticker.pc = "flag"
    /\ fate' = [fate EXCEPT ![ticker.ref] = IF cancelled[ticker.idx] THEN "silenced" ELSE "fired"]
    /\ ticker' = [ticker EXCEPT !.pc = "free"]
    /\ UNCHANGED <<clock, slots, entries, step, panicked, calm, armed, due>>

FreeFired ==
    /\ ticker.pc = "free"
    /\ freeRing' = Append(freeRing, ticker.idx)
    /\ ticker' = [ticker EXCEPT !.pc = "zero"]
    /\ UNCHANGED <<clock, slots, fire, cancelled, step, panicked, calm, armed, fate, due>>

ZeroFired ==
    /\ ticker.pc = "zero"
    /\ buf' = [buf EXCEPT ![ticker.slot][ticker.i] = None]
    /\ ticker' = [ticker EXCEPT !.pc = "recycle"]
    /\ UNCHANGED <<clock, writePos, posRing, entries, step, panicked, calm, armed, fate, due>>

(* The position goes to the ring, unless that is full. *)
Recycle ==
    LET s == ticker.slot IN
    /\ ticker.pc = "recycle"
    /\ posRing' = [posRing EXCEPT ![s] = IF Len(@) < MaxPerSlot THEN Append(@, ticker.i) ELSE @]
    /\ ticker' = IF ticker.i + 1 = ticker.count
                   THEN Asleep
                   ELSE [ticker EXCEPT !.i = @ + 1, !.idx = None, !.ref = None, !.pc = "load"]
    /\ UNCHANGED <<clock, writePos, buf, entries, step, panicked, calm, armed, fate, due>>

-----------------------------------------------------------------------------
Arm(c) ==
    \/ \E d \in Durations : Dequeue(c, d)
    \/ LoadCurrent(c) \/ TakeRecycled(c) \/ TakeFresh(c) \/ Undo(c) \/ Refuse(c)
    \/ ClearFlag(c) \/ StoreRef(c) \/ StoreBuf(c)

Cancel(c) == SetFlag(c) \/ Reclaim(c) \/ ZeroBuf(c) \/ FreeIndex(c)

WheelTick == SwapPos \/ LoadBuf \/ TakeRef \/ Fire \/ FreeFired \/ ZeroFired \/ Recycle

Next ==
    \/ \E c \in Calls : Arm(c) \/ Cancel(c)
    \/ Second \/ Receive \/ WheelTick

Spec == Init /\ [][Next]_vars

-----------------------------------------------------------------------------
(* Properties. *)

(* Where an index is: in the free ring, with a step that has dequeued it   *)
(* and not yet stored its reference, in the wheel, with the step that has  *)
(* reclaimed it, or with the ticker that fires it.                         *)
Places(x) ==
      Cardinality({i \in DOMAIN freeRing : freeRing[i] = x})
    + Cardinality({c \in Calls : step[c].idx = x /\ step[c].pc \in (Arming \ {"buf"}) \cup {"c_buf", "c_free"}})
    + (IF fire[x] # None THEN 1 ELSE 0)
    + (IF ticker.idx = x /\ ticker.pc \in {"flag", "free"} THEN 1 ELSE 0)

(* No index is lost and none is handed out twice, whatever the overlap of  *)
(* arming, cancelling and firing, even when a late cancel hits an entry    *)
(* that another call uses by now (cancel and wheelTick agree by Swap).     *)
IndexInOnePlace == ~panicked => \A x \in Indices : Places(x) = 1

(* A timer is fired or reclaimed once: it never fires after a cancel has   *)
(* taken it, and is not reclaimed after it fired.                          *)
FateFinal == \A t \in Timers : fate[t] \notin {"none", "armed"} => fate'[t] = fate[t]

(* A timer does not fire before its time is up (it was armed some time     *)
(* within a second, so the second it is due in must be over): no position  *)
(* of the slot being ticked names an entry serving a timer of another.     *)
NotEarly == \A t \in Timers : calm /\ fate[t] = "armed" /\ fate'[t] = "fired" => second > due[t]

(* The ticker stays within the slot (the undone increment of writePos).    *)
SlotBounded == calm => ~panicked

(* Every tick is done, and the timer's was among them. *)
Overdue(t) ==
    fate[t] = "armed" /\ due[t] < second /\ pending = None /\ ticker.pc = "wait" /\ ~panicked

(* In the wheel's first turn, while every slot is ticked for the first     *)
(* time, the tick of its second fires or finds cancelled every timer.      *)
FirstTurnFires == calm => \A t \in Timers : due[t] + 1 < WheelSize => ~Overdue(t)

(* The same for every turn: "timer did not fire when expected" is the      *)
(* failure timer_wheel_test.go:131 looks for.                              *)
FiresOnTime == calm => \A t \in Timers : ~Overdue(t)
=============================================================================
