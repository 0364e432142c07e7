----------------------------- MODULE Scheduler ------------------------------
(***************************************************************************)
(* Scheduled flows (internal/scheduler): gateway instances that share a    *)
(* schedule store, each with a loader that arms upcoming events in a       *)
(* timing wheel, a ticker that moves due events to a dispatch ring, and    *)
(* workers that claim an event's schedule in the store, run its flow and   *)
(* record the next run.                                                    *)
(*                                                                         *)
(* Time.  now is the current second; the code's clock stands strictly      *)
(* inside it, while cron fire times are whole seconds.  So a fire time t   *)
(* is not before the clock iff t > now, and before the clock plus d        *)
(* seconds iff t <= now + d.                                               *)
(*                                                                         *)
(* Timeliness.  Work that only touches memory or makes one store query     *)
(* finishes within the second (Timely); a flow, its retries and the record *)
(* of its execution take at most MaxRun seconds.                           *)
(***************************************************************************)
EXTENDS Naturals, Sequences, FiniteSets

CONSTANTS
    Instances, Workers, Names,
    Backend,       \* "postgres", shared by the instances, or "memory"
    Operations,    \* subset of {"upsert", "delete", "crash", "storeError"}
    Period,        \* the cron expression: every multiple of Period
    Lookahead,     \* lookaheadSec
    MinInterval,   \* the loader waits at least this long, 5 seconds
    WheelSlots,    \* 3600 in the code
    SlotCap,       \* wheelSlotCap
    DispatchCap,   \* capacity of the dispatch ring
    CancelMargin,  \* a cancellation outlives the lookahead by 60 seconds
    ClaimTTL,      \* a claim lapses after 5 minutes
    Retries,       \* on_failure.retry_count
    MaxRun,        \* longest execution, in seconds
    MaxTime,       \* bound on now
    MaxInputs      \* bound on management calls and crashes

ASSUME SchedulerAssumption ==
    /\ Backend \in {"postgres", "memory"}
    /\ Operations \subseteq {"upsert", "delete", "crash", "storeError"}
    /\ Period \in Nat \ {0} /\ Lookahead \in Nat \ {0} /\ MinInterval \in Nat \ {0}
    /\ WheelSlots \in Nat \ {0} /\ SlotCap \in Nat /\ DispatchCap \in Nat
    /\ Retries \in Nat /\ MaxRun \in Nat /\ MaxTime \in Nat \ {0} /\ MaxInputs \in Nat /\ ClaimTTL \in Nat \ {0}
    /\ CancelMargin \in Nat \ {0}

VARIABLES
    now,
    row,        \* the store: one row per schedule name
    gen,        \* history: how often a schedule has been deleted
    up,         \* instances that are running
    armed,      \* Loader.armed: the fire time armed last, per name
    wheel,      \* SchedulerWheel: a queue of events per slot
    ticked,     \* the last second the ticker has handled
    loadAt,     \* when the loader runs next
    loading,    \* events listed by the loader and not yet armed
    dispatch,   \* the dispatch ring
    cancelled,  \* Scheduler.cancelled: expiry per deleted name
    wk,         \* the workers
    inputs,     \* management calls and crashes so far
    fired       \* history: executions started, per name and fire time

storeVars == <<row, gen>>
loaderVars == <<armed, loadAt, loading>>
wheelVars == <<wheel, ticked>>
vars == <<now, storeVars, up, loaderVars, wheelVars, dispatch, cancelled, wk, inputs, fired>>

None == 0      \* no time: NULL, a missing map entry
Slots == 0..WheelSlots - 1
Slot(t) == t % WheelSlots
Epoch(t) == t \div WheelSlots
Times == 0..(MaxTime + Period + Lookahead)
Events == [name : Names, at : Times, gen : Nat]
NoEvent == [name |-> None, at |-> None, gen |-> None]
Idle == [st |-> "idle", ev |-> NoEvent, since |-> None, left |-> 0, next |-> None]
EmptyWheel == [s \in Slots |-> <<>>]

(* cron.Schedule.Next: the first fire time strictly after t. *)
CronNext(t) == ((t \div Period) + 1) * Period

(* A fire time within the loader's window, by the code's two comparisons. *)
DueWithin(t) == now < t /\ t <= now + Lookahead

NoRow == [exists |-> FALSE, enabled |-> FALSE, next |-> None, until |-> None]

Init ==
    /\ now = 1
    /\ row = [n \in Names |-> NoRow]
    /\ gen = [n \in Names |-> 0]
    /\ up = Instances
    /\ armed = [i \in Instances |-> [n \in Names |-> None]]
    /\ wheel = [i \in Instances |-> EmptyWheel]
    /\ ticked = [i \in Instances |-> 1]
    /\ loadAt = [i \in Instances |-> 1]
    /\ loading = [i \in Instances |-> {}]
    /\ dispatch = [i \in Instances |-> <<>>]
    /\ cancelled = [i \in Instances |-> [n \in Names |-> None]]
    /\ wk = [i \in Instances |-> [w \in Workers |-> Idle]]
    /\ inputs = 0
    /\ fired = [n \in Names |-> [t \in Times |-> 0]]

-----------------------------------------------------------------------------
(* The store: MemoryStore and PostgresStore. *)

(* Upsert writes the definition and a new NextRunAt; the claim stays. *)
StoreUpsert(n, enabled) ==
    row' = [row EXCEPT ![n] = [exists |-> TRUE, enabled |-> enabled, next |-> CronNext(now), until |-> @.until]]

(* Delete removes the row, a live claim included. *)
StoreDelete(n) ==
    /\ row' = [row EXCEPT ![n] = NoRow]
    /\ gen' = [gen EXCEPT ![n] = @ + 1]

(* ListDueWithin: enabled schedules with a run ahead and in the window. *)
ListDueWithin ==
    {[name |-> n, at |-> row[n].next, gen |-> gen[n]] :
        n \in {m \in Names : row[m].exists /\ row[m].enabled /\ DueWithin(row[m].next)}}

(* RecordExecution advances NextRunAt and releases the claim, if the row   *)
(* still exists.                                                           *)
StoreRecord(n, next) ==
    row' = [row EXCEPT ![n] = IF @.exists THEN [@ EXCEPT !.next = next, !.until = None] ELSE @]

(* Faulty variant: the claim ignores the one another instance holds. *)
ClaimWinsAnyway(n) == {row[n].exists /\ row[n].enabled}

(* Whether a claim of n succeeds.  MemoryStore only asks whether the row   *)
(* exists; PostgresStore updates it if it is enabled and no claim is live. *)
(* In the second in which a claim lapses either may happen.                *)
ClaimWins(n) ==
    IF Backend = "memory" THEN {row[n].exists}
    ELSE IF ~row[n].exists \/ ~row[n].enabled \/ now < row[n].until THEN {FALSE}
    ELSE IF row[n].until # None /\ row[n].until = now THEN BOOLEAN
    ELSE {TRUE}

-----------------------------------------------------------------------------
(* The wheel. *)

SlotFull(i, t) == Len(wheel[i][Slot(t)]) >= SlotCap

(* SchedulerWheel.Schedule: the event joins its second's slot unless the   *)
(* slot is full.                                                           *)
Schedule(i, e) ==
    wheel' = [wheel EXCEPT ![i][Slot(e.at)] = IF SlotFull(i, e.at) THEN @ ELSE Append(@, e)]

(* SchedulerWheel.tick drains one slot: events of the current epoch go to  *)
(* the dispatch ring while there is room, the others are dropped.          *)
TickWheel(i) ==
    /\ i \in up
    /\ ticked[i] < now
    /\ LET due == SelectSeq(wheel[i][Slot(now)], LAMBDA e : Epoch(e.at) = Epoch(now))
           room == DispatchCap - Len(dispatch[i])
       IN dispatch' = [dispatch EXCEPT ![i] = @ \o SubSeq(due, 1, IF Len(due) < room THEN Len(due) ELSE room)]
    /\ wheel' = [wheel EXCEPT ![i][Slot(now)] = <<>>]
    /\ ticked' = [ticked EXCEPT ![i] = now]
    /\ UNCHANGED <<now, storeVars, up, loaderVars, cancelled, wk, inputs, fired>>

-----------------------------------------------------------------------------
(* The loader. *)

(* runLoader: half the lookahead, and no less than the minimum. *)
LoadInterval == IF Lookahead \div 2 < MinInterval THEN MinInterval ELSE Lookahead \div 2

(* LoadUpcoming lists the enabled schedules due within the lookahead; the  *)
(* ticker then waits for the next run.                                     *)
LoaderList(i) ==
    /\ i \in up
    /\ loadAt[i] <= now
    /\ loading' = [loading EXCEPT ![i] = ListDueWithin]
    /\ loadAt' = [loadAt EXCEPT ![i] = now + LoadInterval]
    /\ UNCHANGED <<now, storeVars, up, armed, wheelVars, dispatch, cancelled, wk, inputs, fired>>

(* Faulty variant: a schedule once armed is never armed again. *)
LoaderArmOnce(i) ==
    \E e \in loading[i] :
      /\ loading' = [loading EXCEPT ![i] = @ \ {e}]
      /\ IF armed[i][e.name] # None
           THEN UNCHANGED <<armed, wheel>>
           ELSE /\ Schedule(i, e)
                /\ armed' = [armed EXCEPT ![i][e.name] = IF SlotFull(i, e.at) THEN None ELSE e.at]
      /\ UNCHANGED <<now, storeVars, up, loadAt, ticked, dispatch, cancelled, wk, inputs, fired>>

(* The rest of LoadUpcoming, one listed event at a time: an event already  *)
(* armed for this fire time is skipped, and one that found its slot full   *)
(* is forgotten so that the next run retries it.                           *)
LoaderArm(i) ==
    \E e \in loading[i] :
      /\ loading' = [loading EXCEPT ![i] = @ \ {e}]
      /\ IF armed[i][e.name] = e.at
           THEN UNCHANGED <<armed, wheel>>
           ELSE /\ Schedule(i, e)
                /\ armed' = [armed EXCEPT ![i][e.name] = IF SlotFull(i, e.at) THEN None ELSE e.at]
      /\ UNCHANGED <<now, storeVars, up, loadAt, ticked, dispatch, cancelled, wk, inputs, fired>>

-----------------------------------------------------------------------------
(* The management operations, on one instance. *)

(* UpsertSchedule: the row is written with a new NextRunAt (the claim      *)
(* columns are left alone) and, when due within the lookahead, the event   *)
(* is armed in this instance's wheel at once.                              *)
UpsertSchedule(i, n, enabled) ==
    LET next == CronNext(now) IN
    /\ "upsert" \in Operations /\ i \in up
    /\ inputs < MaxInputs /\ inputs' = inputs + 1
    /\ StoreUpsert(n, enabled)
    /\ IF enabled /\ DueWithin(next)
         THEN Schedule(i, [name |-> n, at |-> next, gen |-> gen[n]])
         ELSE UNCHANGED wheel
    /\ UNCHANGED <<now, gen, up, loaderVars, ticked, dispatch, cancelled, wk, fired>>

(* DeleteSchedule: the name is marked cancelled for the lookahead and a    *)
(* minute more, and its row removed.  When the store reports an error (the *)
(* memory store does so for an unknown name) the mark is taken back.       *)
DeleteSchedule(i, n) ==
    /\ "delete" \in Operations /\ i \in up
    /\ inputs < MaxInputs /\ inputs' = inputs + 1
    /\ \/ /\ row[n].exists \/ Backend = "postgres"
          /\ StoreDelete(n)
          /\ cancelled' = [cancelled EXCEPT ![i][n] = now + Lookahead + CancelMargin]
       \/ /\ (~row[n].exists /\ Backend = "memory") \/ "storeError" \in Operations
          /\ cancelled' = [cancelled EXCEPT ![i][n] = None]
          /\ UNCHANGED storeVars
    /\ UNCHANGED <<now, up, loaderVars, wheelVars, dispatch, wk, fired>>

-----------------------------------------------------------------------------
(* The executor. *)

(* A worker pops an event and consults the cancelled map; an entry is used *)
(* up by the first event that meets it.                                    *)
PopEvent(i, w) ==
    LET e == Head(dispatch[i])
        exp == cancelled[i][e.name]
    IN /\ i \in up
       /\ wk[i][w].st = "idle" /\ dispatch[i] # <<>>
       /\ dispatch' = [dispatch EXCEPT ![i] = Tail(@)]
       /\ cancelled' = [cancelled EXCEPT ![i][e.name] = None]
       /\ wk' = IF exp # None /\ now < exp
                  THEN wk
                  ELSE [wk EXCEPT ![i][w] = [Idle EXCEPT !.st = "claim", !.ev = e]]
       /\ UNCHANGED <<now, storeVars, up, loaderVars, wheelVars, inputs, fired>>

(* A lost claim and a failed query both end the event. *)
Claim(i, w) ==
    LET e == wk[i][w].ev IN
    /\ i \in up
    /\ wk[i][w].st = "claim"
    /\ \/ /\ TRUE \in ClaimWins(e.name)
          /\ row' = [row EXCEPT ![e.name].until = IF Backend = "postgres" THEN now + ClaimTTL ELSE @]
          /\ wk' = [wk EXCEPT ![i][w] = [@ EXCEPT !.st = "run", !.since = now, !.left = Retries]]
          /\ fired' = [fired EXCEPT ![e.name][e.at] = @ + 1]
       \/ /\ FALSE \in ClaimWins(e.name) \/ "storeError" \in Operations
          /\ wk' = [wk EXCEPT ![i][w] = Idle]
          /\ UNCHANGED <<row, fired>>
    /\ UNCHANGED <<now, gen, up, loaderVars, wheelVars, dispatch, cancelled, inputs>>

(* runWithRetry: an attempt ends; a failure is retried while attempts are  *)
(* left, after the last one the dead-letter flow runs.  The next run is    *)
(* computed when the attempts are over.                                    *)
EndAttempt(i, w, ok) ==
    /\ i \in up
    /\ wk[i][w].st = "run"
    /\ wk' = IF ok \/ wk[i][w].left = 0
               THEN [wk EXCEPT ![i][w] = [@ EXCEPT !.st = "record", !.next = CronNext(now)]]
               ELSE [wk EXCEPT ![i][w].left = @ - 1]
    /\ UNCHANGED <<now, storeVars, up, loaderVars, wheelVars, dispatch, cancelled, inputs, fired>>

(* RecordExecution: history and, if the row still exists, NextRunAt; the   *)
(* claim is released.  On an error the row keeps its old NextRunAt.        *)
RecordExecution(i, w) ==
    LET n == wk[i][w].ev.name IN
    /\ i \in up
    /\ wk[i][w].st = "record"
    /\ \/ StoreRecord(n, wk[i][w].next)
       \/ "storeError" \in Operations /\ UNCHANGED row
    /\ wk' = [wk EXCEPT ![i][w] = Idle]
    /\ UNCHANGED <<now, gen, up, loaderVars, wheelVars, dispatch, cancelled, inputs, fired>>

-----------------------------------------------------------------------------
(* Crashes, and the passage of time. *)

Crash(i) ==
    /\ "crash" \in Operations /\ i \in up
    /\ inputs < MaxInputs /\ inputs' = inputs + 1
    /\ up' = up \ {i}
    /\ armed' = [armed EXCEPT ![i] = [n \in Names |-> None]]
    /\ wheel' = [wheel EXCEPT ![i] = EmptyWheel]
    /\ loading' = [loading EXCEPT ![i] = {}]
    /\ dispatch' = [dispatch EXCEPT ![i] = <<>>]
    /\ cancelled' = [cancelled EXCEPT ![i] = [n \in Names |-> None]]
    /\ wk' = [wk EXCEPT ![i] = [w \in Workers |-> Idle]]
    /\ UNCHANGED <<now, storeVars, ticked, loadAt, fired>>

(* Scheduler.Start: the ticker waits for the next second, the loader loads *)
(* at once.                                                                *)
Restart(i) ==
    /\ i \notin up
    /\ up' = up \cup {i}
    /\ ticked' = [ticked EXCEPT ![i] = now]
    /\ loadAt' = [loadAt EXCEPT ![i] = now]
    /\ UNCHANGED <<now, storeVars, armed, loading, wheel, dispatch, cancelled, wk, inputs, fired>>

Timely(i) ==
    /\ ticked[i] = now
    /\ loadAt[i] > now /\ loading[i] = {}
    /\ dispatch[i] # <<>> => \A w \in Workers : wk[i][w].st # "idle"
    /\ \A w \in Workers : /\ wk[i][w].st # "claim"
                          /\ wk[i][w].st \in {"run", "record"} => now < wk[i][w].since + MaxRun

Advance ==
    /\ now < MaxTime
    /\ \A i \in up : Timely(i)
    /\ now' = now + 1
    /\ UNCHANGED <<storeVars, up, loaderVars, wheelVars, dispatch, cancelled, wk, inputs, fired>>

Work(i, w) ==
    \/ PopEvent(i, w) \/ Claim(i, w) \/ RecordExecution(i, w)
    \/ \E ok \in BOOLEAN : EndAttempt(i, w, ok)

Next ==
    \/ \E i \in Instances :
         \/ TickWheel(i) \/ LoaderList(i) \/ LoaderArm(i) \/ Crash(i) \/ Restart(i)
         \/ \E w \in Workers : Work(i, w)
         \/ \E n \in Names : DeleteSchedule(i, n) \/ \E e \in BOOLEAN : UpsertSchedule(i, n, e)
    \/ Advance

Spec == Init /\ [][Next]_vars

-----------------------------------------------------------------------------
(* Properties. *)

TypeOK ==
    /\ now \in 1..MaxTime
    /\ row \in [Names -> [exists : BOOLEAN, enabled : BOOLEAN, next : Nat, until : Nat]]
    /\ gen \in [Names -> Nat]
    /\ up \subseteq Instances
    /\ armed \in [Instances -> [Names -> Nat]]
    /\ ticked \in [Instances -> Nat] /\ loadAt \in [Instances -> Nat]
    /\ \A i \in Instances :
         /\ loading[i] \subseteq Events
         /\ \A s \in Slots : wheel[i][s] \in Seq(Events) /\ Len(wheel[i][s]) <= SlotCap
         /\ dispatch[i] \in Seq(Events) /\ Len(dispatch[i]) <= DispatchCap
    /\ cancelled \in [Instances -> [Names -> Nat]]
    /\ \A i \in Instances, w \in Workers :
         /\ wk[i][w].st \in {"idle", "claim", "run", "record"}
         /\ wk[i][w].st # "idle" => wk[i][w].ev \in Events
         /\ wk[i][w].since \in Nat /\ wk[i][w].left \in 0..Retries /\ wk[i][w].next \in Nat
    /\ inputs \in 0..MaxInputs
    /\ fired \in [Names -> [Times -> Nat]]

InWheel(i) == UNION {{wheel[i][s][k] : k \in DOMAIN wheel[i][s]} : s \in Slots}

Executing(i, w, n) == wk[i][w].st \in {"run", "record"} /\ wk[i][w].ev.name = n

(* Claiming works across instances: while executions stay shorter than a   *)
(* claim lives (MaxRun < ClaimTTL), a schedule is never executed twice at  *)
(* the same time, through crashes, restarts and failed store calls.        *)
AtMostOneExecution ==
    \A n \in Names : \A i, j \in Instances : \A v, w \in Workers :
        Executing(i, v, n) /\ Executing(j, w, n) => i = j /\ v = w

(* The wheel keeps an event until its second has come: it neither fires    *)
(* early nor is dropped while it is still in the future.                   *)
KeepsFuture == \A i \in up : i \in up' => \A e \in InWheel(i) : e \notin InWheel(i)' => e.at <= now
WheelKeepsFuture == [][KeepsFuture]_vars

(* An enabled schedule that was never deleted is covered: its next run is  *)
(* still ahead, or some instance holds an event for it.  Otherwise nothing *)
(* fires it again, for the loader lists future runs only.                  *)
Holds(i, n) ==
    \/ \E e \in InWheel(i) \cup loading[i] : e.name = n
    \/ \E k \in DOMAIN dispatch[i] : dispatch[i][k].name = n
    \/ \E w \in Workers : wk[i][w].st # "idle" /\ wk[i][w].ev.name = n

Covered ==
    \A n \in Names : row[n].exists /\ row[n].enabled /\ gen[n] = 0
        => row[n].next > now \/ \E i \in up : Holds(i, n)

(* On the instance that deletes a schedule, the cancellation outlives      *)
(* every event armed before the deletion: no such event is popped from the *)
(* wheel after the entry has lapsed.                                       *)
CancelOutlivesArmed ==
    \A i \in up : \A e \in InWheel(i) :
        e.gen < gen[e.name] /\ cancelled[i][e.name] # None => e.at < cancelled[i][e.name]

(* README.md: "Distributed claiming - only one instance executes each      *)
(* event in a multi-gateway deployment".                                   *)
OneExecutionPerEvent == \A n \in Names : \A t \in Times : fired[n][t] <= 1
=============================================================================
