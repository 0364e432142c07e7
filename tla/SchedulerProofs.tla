--------------------------- MODULE SchedulerProofs --------------------------
(***************************************************************************)
(* Claiming excludes concurrent executions of a schedule, for any number   *)
(* of instances, workers and schedules, any cron period and any loader.    *)
(*                                                                         *)
(* The argument: whoever executes a schedule set its claim when it began,  *)
(* so the claim lapses ClaimTTL seconds after that, while the execution    *)
(* ends within MaxRun; a claim that succeeds therefore finds no execution  *)
(* under way.  It needs the row, and with it the claim, not to be deleted. *)
(*                                                                         *)
(* The second part shows that the timing wheel keeps an event until its    *)
(* second has come, if the loader looks ahead less than one turn.          *)
(***************************************************************************)
EXTENDS Scheduler, TLAPS

(* The setting: a shared Postgres store, executions shorter than a claim,  *)
(* and no deletes.                                                         *)
ClaimsHold == Backend = "postgres" /\ "delete" \notin Operations /\ MaxRun < ClaimTTL

WorkerShape(r) == DOMAIN r = {"st", "ev", "since", "left", "next"} /\ r.since \in Nat

(* The shapes of the records the argument looks into. *)
Shape ==
    /\ now \in Nat
    /\ DOMAIN row = Names
    /\ \A n \in Names : /\ DOMAIN row[n] = {"exists", "enabled", "next", "until"}
                        /\ row[n].until \in Nat
    /\ DOMAIN wk = Instances
    /\ \A i \in Instances : DOMAIN wk[i] = Workers
    /\ \A i \in Instances, w \in Workers : WorkerShape(wk[i][w])

(* An execution holds the claim it took when it began, and is not overdue. *)
HoldsClaim ==
    \A n \in Names : \A i \in Instances, w \in Workers :
        Executing(i, w, n) => /\ i \in up
                              /\ row[n].exists
                              /\ row[n].until = wk[i][w].since + ClaimTTL
                              /\ now <= wk[i][w].since + MaxRun

ClaimInv == Shape /\ HoldsClaim /\ AtMostOneExecution

(* Nobody executes anything at the start. *)
LEMMA ClaimInvInit == Init => ClaimInv
  BY DEF Init, ClaimInv, Shape, WorkerShape, HoldsClaim, AtMostOneExecution, Executing, Idle, NoRow, None

(* A worker that stays or becomes idle, and rows that keep their claim,    *)
(* disturb nothing.                                                        *)
LEMMA ClaimInvQuiet ==
  ASSUME ClaimInv, now' = now, up' = up, row' = row,
         Shape', \A n \in Names : \A i \in Instances, w \in Workers :
             Executing(i, w, n)' => Executing(i, w, n) /\ wk'[i][w].since = wk[i][w].since
  PROVE  ClaimInv'
  BY DEF ClaimInv, HoldsClaim, AtMostOneExecution

(* What an assignment to one worker does to the workers. *)
LEMMA UpdateWorker ==
  ASSUME Shape, NEW i \in Instances, NEW w \in Workers, NEW r, WorkerShape(r),
         wk' = [wk EXCEPT ![i][w] = r]
  PROVE  /\ DOMAIN wk' = Instances
         /\ \A j \in Instances : DOMAIN wk'[j] = Workers
         /\ wk'[i][w] = r
         /\ \A j \in Instances, v \in Workers : j # i \/ v # w => wk'[j][v] = wk[j][v]
         /\ \A j \in Instances, v \in Workers : WorkerShape(wk'[j][v])
  BY DEF Shape

(* An idle worker has the shape of a worker. *)
LEMMA IdleShape == WorkerShape(Idle) /\ Idle.st = "idle"
  BY DEF WorkerShape, Idle, None

(* Every step keeps the claims exclusive. *)
LEMMA ClaimInvNext == ASSUME SchedulerAssumption, ClaimsHold PROVE ClaimInv /\ [Next]_vars => ClaimInv'
<1> SUFFICES ASSUME ClaimInv, [Next]_vars PROVE ClaimInv'
  OBVIOUS
<1>s. Shape
  BY DEF ClaimInv
<1> USE SchedulerAssumption DEF SchedulerAssumption
<1>1. ASSUME NEW i \in Instances, TickWheel(i) \/ LoaderList(i) \/ LoaderArm(i) PROVE ClaimInv'
  <2>1. now' = now /\ up' = up /\ row' = row /\ wk' = wk
    BY <1>1 DEF TickWheel, LoaderList, LoaderArm, storeVars
  <2> QED BY <2>1 DEF ClaimInv, Shape, HoldsClaim, AtMostOneExecution, Executing
<1>2. ASSUME NEW i \in Instances, Crash(i) PROVE ClaimInv'
  <2>1. now' = now /\ row' = row /\ up' = up \ {i} /\ wk' = [wk EXCEPT ![i] = [w \in Workers |-> Idle]]
    BY <1>2 DEF Crash, storeVars
  <2>2. Shape'
    BY <2>1 DEF ClaimInv, Shape, WorkerShape, Idle, None
  <2>3. \A n \in Names : \A j \in Instances, w \in Workers :
          Executing(j, w, n)' => Executing(j, w, n) /\ wk'[j][w] = wk[j][w] /\ j # i
    BY <2>1 DEF ClaimInv, Shape, Executing, Idle
  <2> QED BY <2>1, <2>2, <2>3 DEF ClaimInv, HoldsClaim, AtMostOneExecution
<1>3. ASSUME NEW i \in Instances, Restart(i) PROVE ClaimInv'
  <2>1. now' = now /\ row' = row /\ up' = up \cup {i} /\ wk' = wk
    BY <1>3 DEF Restart, storeVars
  <2> QED BY <2>1 DEF ClaimInv, Shape, HoldsClaim, AtMostOneExecution, Executing
<1>4. ASSUME NEW i \in Instances, NEW w \in Workers, PopEvent(i, w) PROVE ClaimInv'
  <2>1. now' = now /\ row' = row /\ up' = up
    BY <1>4 DEF PopEvent, storeVars
  <2>2. CASE wk' = wk
    BY <2>1, <2>2 DEF ClaimInv, Shape, HoldsClaim, AtMostOneExecution, Executing
  <2>3. CASE wk' # wk
    <3> DEFINE r == [Idle EXCEPT !.st = "claim", !.ev = Head(dispatch[i])]
    <3>1. wk' = [wk EXCEPT ![i][w] = r]
      BY <1>4, <2>3 DEF PopEvent
    <3>2. WorkerShape(r) /\ r.st = "claim"
      BY DEF WorkerShape, Idle, None
    <3> HIDE DEF r
    <3> QED BY <2>1, <3>1, <3>2, UpdateWorker, ClaimInvQuiet DEF ClaimInv, Shape, Executing
  <2> QED BY <2>2, <2>3
<1>5. ASSUME NEW i \in Instances, NEW w \in Workers, Claim(i, w) PROVE ClaimInv'
  <2> DEFINE e == wk[i][w].ev
  <2>1. now' = now /\ up' = up /\ i \in up
    BY <1>5 DEF Claim
  <2>2. CASE /\ TRUE \in ClaimWins(e.name)
             /\ row' = [row EXCEPT ![e.name].until = IF Backend = "postgres" THEN now + ClaimTTL ELSE @]
             /\ wk' = [wk EXCEPT ![i][w] = [@ EXCEPT !.st = "run", !.since = now, !.left = Retries]]
    <3> DEFINE r == [wk[i][w] EXCEPT !.st = "run", !.since = now, !.left = Retries]
    <3>a. WorkerShape(r) /\ r.since = now /\ r.ev = e /\ r.st = "run"
      BY DEF WorkerShape, ClaimInv, Shape
    <3>b. wk' = [wk EXCEPT ![i][w] = r]
      BY <2>2
    <3> HIDE DEF r
    <3>c. /\ wk'[i][w] = r
          /\ \A j \in Instances, v \in Workers : j # i \/ v # w => wk'[j][v] = wk[j][v]
      BY <1>s, <3>b DEF Shape
    <3>1. row' = [row EXCEPT ![e.name].until = now + ClaimTTL]
      BY <2>2 DEF ClaimsHold
    <3>2. row[e.name].exists /\ ~(now < row[e.name].until)
      BY <2>2 DEF ClaimWins, ClaimsHold
    <3>3. Shape'
      <4>1. /\ DOMAIN row' = Names
            /\ \A n \in Names : /\ DOMAIN row'[n] = {"exists", "enabled", "next", "until"}
                                /\ row'[n].until \in Nat
        BY <3>1 DEF ClaimInv, Shape
      <4> QED BY <2>1, <3>a, <3>b, <4>1, UpdateWorker DEF ClaimInv, Shape
    <3>4. ASSUME NEW j \in Instances, NEW v \in Workers, e.name \in Names PROVE ~Executing(j, v, e.name)
      <4>1. SUFFICES ASSUME Executing(j, v, e.name) PROVE FALSE
        OBVIOUS
      <4>2. row[e.name].until = wk[j][v].since + ClaimTTL /\ now <= wk[j][v].since + MaxRun
        BY <3>4, <4>1 DEF ClaimInv, HoldsClaim
      <4>3. wk[j][v].since \in Nat /\ row[e.name].until \in Nat /\ now \in Nat
        BY <3>4, <1>s DEF Shape, WorkerShape
      <4> QED BY <3>2, <4>2, <4>3 DEF ClaimsHold
    <3>5. \A n \in Names, j \in Instances, v \in Workers :
            Executing(j, v, n)' => \/ j = i /\ v = w /\ n = e.name
                                   \/ /\ Executing(j, v, n) /\ n # e.name
                                      /\ wk'[j][v] = wk[j][v]
      BY <3>a, <3>c, <3>4 DEF Executing
    <3>6. /\ wk'[i][w].since = now
          /\ \A n \in Names : n # e.name => row'[n] = row[n]
          /\ e.name \in Names => row'[e.name].exists /\ row'[e.name].until = now + ClaimTTL
      BY <3>a, <3>c, <3>1, <3>2 DEF ClaimInv, Shape
    <3>7. HoldsClaim'
      BY <2>1, <3>3, <3>5, <3>6 DEF ClaimInv, Shape, HoldsClaim
    <3>8. AtMostOneExecution'
      BY <3>5 DEF ClaimInv, AtMostOneExecution
    <3> QED BY <3>3, <3>7, <3>8 DEF ClaimInv
  <2>3. CASE wk' = [wk EXCEPT ![i][w] = Idle] /\ row' = row
    BY <2>1, <2>3, IdleShape, UpdateWorker, ClaimInvQuiet DEF ClaimInv, Shape, Executing
  <2> QED BY <1>5, <2>2, <2>3 DEF Claim
<1>6. ASSUME NEW i \in Instances, NEW w \in Workers, NEW ok \in BOOLEAN, EndAttempt(i, w, ok) PROVE ClaimInv'
  <2>1. now' = now /\ up' = up /\ row' = row /\ wk[i][w].st = "run"
    BY <1>6 DEF EndAttempt, storeVars
  <2> DEFINE r == IF ok \/ wk[i][w].left = 0
                    THEN [wk[i][w] EXCEPT !.st = "record", !.next = CronNext(now)]
                    ELSE [wk[i][w] EXCEPT !.left = @ - 1]
  <2>2. wk' = [wk EXCEPT ![i][w] = r]
    BY <1>6 DEF EndAttempt, ClaimInv, Shape
  <2>3. WorkerShape(r) /\ r.since = wk[i][w].since /\ r.ev = wk[i][w].ev
    BY DEF WorkerShape, ClaimInv, Shape
  <2> HIDE DEF r
  <2> QED BY <2>1, <2>2, <2>3, UpdateWorker, ClaimInvQuiet DEF ClaimInv, Shape, Executing
<1>7. ASSUME NEW i \in Instances, NEW w \in Workers, RecordExecution(i, w) PROVE ClaimInv'
  <2> DEFINE n == wk[i][w].ev.name
  <2>1. now' = now /\ up' = up /\ wk[i][w].st = "record" /\ wk' = [wk EXCEPT ![i][w] = Idle]
    BY <1>7 DEF RecordExecution
  <2>2. \/ row' = row
        \/ row' = [row EXCEPT ![n] = IF @.exists THEN [@ EXCEPT !.next = wk[i][w].next, !.until = None] ELSE @]
    BY <1>7 DEF RecordExecution, StoreRecord
  <2>3. Shape'
    <3>1. /\ DOMAIN row' = Names
          /\ \A m \in Names : /\ DOMAIN row'[m] = {"exists", "enabled", "next", "until"}
                              /\ row'[m].until \in Nat
      <4>1. CASE row' = row
        BY <4>1 DEF ClaimInv, Shape
      <4>2. CASE n \in Names /\ row' = [row EXCEPT ![n] = [row[n] EXCEPT !.next = wk[i][w].next, !.until = None]]
        BY <4>2 DEF ClaimInv, Shape, None
      <4>3. \/ row' = row
            \/ row' = [row EXCEPT ![n] = [row[n] EXCEPT !.next = wk[i][w].next, !.until = None]]
            \/ row' = [row EXCEPT ![n] = row[n]]
        BY <2>2 DEF ClaimInv, Shape
      <4> QED BY <4>1, <4>2, <4>3 DEF ClaimInv, Shape
    <3> QED BY <2>1, <3>1, IdleShape, UpdateWorker DEF ClaimInv, Shape
  <2>4. \A m \in Names : \A j \in Instances, v \in Workers :
          Executing(j, v, m)' => Executing(j, v, m) /\ wk'[j][v] = wk[j][v] /\ (j # i \/ v # w)
    <3>1. /\ wk'[i][w] = Idle
          /\ \A j \in Instances, v \in Workers : j # i \/ v # w => wk'[j][v] = wk[j][v]
      BY <1>s, <2>1 DEF Shape
    <3> QED BY <3>1, IdleShape DEF Executing
  <2>5. \A m \in Names : \A j \in Instances, v \in Workers : Executing(j, v, m)' => m # n
    BY <2>1, <2>4 DEF ClaimInv, AtMostOneExecution, Executing
  <2>6. \A m \in Names : m # n => row'[m] = row[m]
    BY <2>2 DEF ClaimInv, Shape
  <2> QED BY <2>1, <2>3, <2>4, <2>5, <2>6 DEF ClaimInv, HoldsClaim, AtMostOneExecution
<1>8. ASSUME NEW i \in Instances, NEW n \in Names, NEW en \in BOOLEAN, UpsertSchedule(i, n, en) PROVE ClaimInv'
  <2>1. now' = now /\ up' = up /\ wk' = wk
    BY <1>8 DEF UpsertSchedule
  <2>2. row' = [row EXCEPT ![n] = [exists |-> TRUE, enabled |-> en, next |-> CronNext(now), until |-> @.until]]
    BY <1>8 DEF UpsertSchedule, StoreUpsert
  <2>3. \A m \in Names : row'[m].until = row[m].until /\ (row[m].exists => row'[m].exists)
    BY <2>2 DEF ClaimInv, Shape
  <2>4. Shape'
    BY <2>1, <2>2 DEF ClaimInv, Shape
  <2> QED BY <2>1, <2>3, <2>4 DEF ClaimInv, HoldsClaim, AtMostOneExecution, Executing
<1>9. ASSUME Advance PROVE ClaimInv'
  <2>1. now' = now + 1 /\ up' = up /\ row' = row /\ wk' = wk
    BY <1>9 DEF Advance, storeVars
  <2>2. \A i \in up, w \in Workers : wk[i][w].st \in {"run", "record"} => now < wk[i][w].since + MaxRun
    BY <1>9 DEF Advance, Timely
  <2>3. Shape'
    BY <2>1 DEF ClaimInv, Shape
  <2>4. HoldsClaim'
    BY <2>1, <2>2 DEF ClaimInv, Shape, WorkerShape, HoldsClaim, Executing
  <2> QED BY <2>1, <2>3, <2>4 DEF ClaimInv, AtMostOneExecution, Executing
<1>10. CASE UNCHANGED vars
  BY <1>10 DEF vars, storeVars, ClaimInv, Shape, HoldsClaim, AtMostOneExecution, Executing
<1>11. ~ \E i \in Instances, n \in Names : DeleteSchedule(i, n)
  BY DEF DeleteSchedule, ClaimsHold
<1> QED
  BY <1>1, <1>2, <1>3, <1>4, <1>5, <1>6, <1>7, <1>8, <1>9, <1>10, <1>11 DEF Next, Work

(* With a Postgres store, executions that finish before their claim lapses *)
(* and no deletes, no schedule is ever executed twice at the same time,    *)
(* whatever crashes, restarts, updates and store errors happen.            *)
THEOREM ClaimsExclude ==
  ASSUME SchedulerAssumption, ClaimsHold PROVE Spec => []AtMostOneExecution
<1>1. ClaimInv => AtMostOneExecution
  BY DEF ClaimInv
<1> QED BY <1>1, ClaimInvInit, ClaimInvNext, PTL DEF Spec

-----------------------------------------------------------------------------
(* The wheel keeps what is in the future, for any lookahead shorter than   *)
(* a turn.  A slot is shared by all seconds a whole number of turns apart. *)
(* An event is armed at most Lookahead seconds ahead, so when its slot is  *)
(* drained in another second than its own, that second has passed.         *)

Ev == [name : Names, at : Nat, gen : Nat]

RunShape(r) == DOMAIN r = {"st", "ev", "since", "left", "next"} /\ r.next \in Nat

WheelShape ==
    /\ now \in Nat /\ gen \in [Names -> Nat]
    /\ DOMAIN row = Names
    /\ \A n \in Names : DOMAIN row[n] = {"exists", "enabled", "next", "until"} /\ row[n].next \in Nat
    /\ DOMAIN wk = Instances
    /\ \A i \in Instances : DOMAIN wk[i] = Workers
    /\ \A i \in Instances, w \in Workers : RunShape(wk[i][w])
    /\ wheel \in [Instances -> [Slots -> Seq(Ev)]]
    /\ loading \in [Instances -> SUBSET Ev]

(* Events are in the slot of their second, and not further ahead than the  *)
(* loader looks.                                                           *)
Near(e) == e.at <= now + Lookahead
Placed ==
    \A i \in Instances, s \in Slots : \A k \in DOMAIN wheel[i][s] :
        Slot(wheel[i][s][k].at) = s /\ Near(wheel[i][s][k])
Listed == \A i \in Instances : \A e \in loading[i] : Near(e)

WheelInv == WheelShape /\ Placed /\ Listed

(* Quotient and rest. *)
LEMMA Division ==
  ASSUME NEW n \in Nat, NEW w \in Nat \ {0}
  PROVE  n = w * (n \div w) + (n % w) /\ n \div w \in Nat /\ n % w \in 0 .. w - 1
  OBVIOUS

(* Two seconds of one slot are the same or a turn apart. *)
LEMMA TurnApart ==
  ASSUME NEW w \in Nat \ {0}, NEW t \in Nat, NEW u \in Nat, t % w = u % w, u < t
  PROVE  t >= u + w
<1> DEFINE a == t \div w
           b == u \div w
           r == t % w
<1>1. t = w * a + r /\ u = w * b + r /\ a \in Nat /\ b \in Nat /\ r \in 0 .. w - 1
  BY Division
<1> HIDE DEF a, b, r
<1>2. w * (a - b) = t - u
  BY <1>1
<1>3. ASSUME a - b <= 0 PROVE FALSE
  <2>1. w * (a - b) <= 0
    BY <1>1, <1>3
  <2> QED BY <1>1, <1>2, <2>1
<1>4. a - b >= 1
  BY <1>1, <1>3
<1>5. w * (a - b) >= w
  BY <1>1, <1>4
<1> QED BY <1>1, <1>2, <1>5

(* Every second has a slot. *)
LEMMA SlotOfTime == ASSUME SchedulerAssumption, NEW t \in Nat PROVE Slot(t) \in Slots
  BY Division DEF SchedulerAssumption, Slot, Slots

(* The next fire time is a time. *)
LEMMA CronTime == ASSUME SchedulerAssumption, NEW t \in Nat PROVE CronNext(t) \in Nat
<1> DEFINE a == t \div Period
<1>1. a \in Nat /\ Period \in Nat
  BY Division DEF SchedulerAssumption
<1> HIDE DEF a
<1>2. (a + 1) * Period \in Nat
  BY <1>1
<1> QED BY <1>2 DEF a, CronNext

(* The wheel is empty at the start. *)
LEMMA WheelInit == ASSUME SchedulerAssumption, Init PROVE WheelInv
<1>1. RunShape(Idle) /\ DOMAIN NoRow = {"exists", "enabled", "next", "until"} /\ NoRow.next \in Nat
  BY DEF RunShape, Idle, NoRow, None
<1>2. <<>> \in Seq(Ev) /\ EmptyWheel \in [Slots -> Seq(Ev)]
  BY DEF EmptyWheel
<1>3. WheelShape
  BY <1>1, <1>2 DEF Init, WheelShape
<1>4. Placed /\ Listed
  BY DEF Init, Placed, Listed, EmptyWheel
<1> QED BY <1>3, <1>4 DEF WheelInv

(* An event within the lookahead that joins its slot. *)
LEMMA WheelJoin ==
  ASSUME SchedulerAssumption, WheelInv, NEW i \in Instances, NEW e \in Ev, Near(e), Schedule(i, e), now' = now
  PROVE  /\ wheel' \in [Instances -> [Slots -> Seq(Ev)]]
         /\ Placed'
         /\ \A j \in Instances, s \in Slots : \A k \in DOMAIN wheel[j][s] :
              k \in DOMAIN wheel'[j][s] /\ wheel'[j][s][k] = wheel[j][s][k]
<1> DEFINE s == Slot(e.at)
           old == wheel[i][s]
           new == IF SlotFull(i, e.at) THEN old ELSE Append(old, e)
<1>1. s \in Slots /\ wheel \in [Instances -> [Slots -> Seq(Ev)]] /\ old \in Seq(Ev)
  <2>1. e.at \in Nat
    BY DEF Ev
  <2>2. s \in Slots
    BY <2>1, SlotOfTime
  <2>3. wheel \in [Instances -> [Slots -> Seq(Ev)]]
    BY DEF WheelInv, WheelShape
  <2> HIDE DEF s
  <2> QED BY <2>2, <2>3
<1>2. wheel' = [wheel EXCEPT ![i][s] = new]
  BY DEF Schedule
<1>3. /\ new \in Seq(Ev) /\ DOMAIN old \subseteq DOMAIN new
      /\ \A k \in DOMAIN old : new[k] = old[k]
      /\ \A k \in DOMAIN new : k \in DOMAIN old \/ new[k] = e
  BY <1>1
<1> HIDE DEF new
<1>4. /\ wheel' \in [Instances -> [Slots -> Seq(Ev)]]
      /\ wheel'[i][s] = new
      /\ \A j \in Instances, t \in Slots : j # i \/ t # s => wheel'[j][t] = wheel[j][t]
  BY <1>1, <1>2, <1>3
<1>5. \A j \in Instances, t \in Slots : \A k \in DOMAIN wheel'[j][t] :
         \/ k \in DOMAIN wheel[j][t] /\ wheel'[j][t][k] = wheel[j][t][k]
         \/ t = s /\ wheel'[j][t][k] = e
  BY <1>3, <1>4
<1>6. Placed'
  BY <1>5 DEF WheelInv, Placed, Near
<1>7. \A j \in Instances, t \in Slots : \A k \in DOMAIN wheel[j][t] :
         k \in DOMAIN wheel'[j][t] /\ wheel'[j][t][k] = wheel[j][t][k]
  BY <1>3, <1>4
<1> QED BY <1>4, <1>6, <1>7

(* Nothing moves in the wheel. *)
Stays ==
    \A j \in Instances, s \in Slots : \A k \in DOMAIN wheel[j][s] :
        k \in DOMAIN wheel'[j][s] /\ wheel'[j][s][k] = wheel[j][s][k]

(* What stays in its slot stays in the wheel. *)
LEMMA StaysKept == ASSUME Stays, up \subseteq Instances PROVE KeepsFuture
  BY DEF Stays, KeepsFuture, InWheel

(* A step that leaves clock, wheel and listed events alone. *)
LEMMA WheelQuiet ==
  ASSUME WheelInv, up \subseteq Instances, UNCHANGED <<now, wheel, loading>>,
         gen' \in [Names -> Nat], DOMAIN row' = Names,
         \A n \in Names : DOMAIN row'[n] = {"exists", "enabled", "next", "until"} /\ row'[n].next \in Nat,
         DOMAIN wk' = Instances, \A i \in Instances : DOMAIN wk'[i] = Workers,
         \A i \in Instances, w \in Workers : RunShape(wk'[i][w])
  PROVE  WheelInv' /\ KeepsFuture
<1>1. WheelInv'
  BY DEF WheelInv, WheelShape, Placed, Listed, Near
<1>2. Stays
  BY DEF Stays
<1> QED BY <1>1, <1>2, StaysKept

(* The ticker drains the slot of the second that has come. *)
LEMMA WheelTick ==
  ASSUME SchedulerAssumption, Lookahead < WheelSlots, WheelInv, up \subseteq Instances,
         NEW i \in Instances, TickWheel(i)
  PROVE  WheelInv' /\ KeepsFuture
<1>1. /\ UNCHANGED <<now, row, gen, wk, loading>> /\ wheel' = [wheel EXCEPT ![i][Slot(now)] = <<>>]
      /\ now \in Nat /\ Slot(now) \in Slots /\ wheel \in [Instances -> [Slots -> Seq(Ev)]]
  BY SlotOfTime DEF TickWheel, storeVars, loaderVars, WheelInv, WheelShape
<1>2. /\ wheel' \in [Instances -> [Slots -> Seq(Ev)]]
      /\ wheel'[i][Slot(now)] = <<>>
      /\ \A j \in Instances, s \in Slots : j # i \/ s # Slot(now) => wheel'[j][s] = wheel[j][s]
  BY <1>1
<1>3. WheelInv'
  <2>1. WheelShape'
    BY <1>1, <1>2 DEF WheelInv, WheelShape
  <2>2. Placed'
    BY <1>1, <1>2 DEF WheelInv, Placed, Near
  <2>3. Listed'
    BY <1>1 DEF WheelInv, Listed, Near
  <2> QED BY <2>1, <2>2, <2>3 DEF WheelInv
<1>4. ASSUME NEW k \in DOMAIN wheel[i][Slot(now)] PROVE wheel[i][Slot(now)][k].at <= now
  <2> DEFINE t == wheel[i][Slot(now)][k].at
  <2>1. t \in Nat /\ Slot(t) = Slot(now) /\ t <= now + Lookahead
    <3>1. Slot(t) = Slot(now) /\ t <= now + Lookahead
      BY <1>1, <1>4 DEF WheelInv, Placed, Near
    <3>2. wheel[i][Slot(now)] \in Seq(Ev)
      BY <1>1
    <3>3. wheel[i][Slot(now)][k] \in Ev
      BY <1>4, <3>2
    <3>4. t \in Nat
      BY <3>3 DEF Ev
    <3> QED BY <3>1, <3>4
  <2> HIDE DEF t
  <2>2. ASSUME now < t PROVE FALSE
    <3>1. t >= now + WheelSlots
      BY <1>1, <2>1, <2>2, TurnApart DEF Slot, SchedulerAssumption
    <3> QED BY <1>1, <2>1, <3>1 DEF SchedulerAssumption
  <2>3. t <= now
    BY <1>1, <2>1, <2>2
  <2> QED BY <2>3 DEF t
<1>5. KeepsFuture
  <2> SUFFICES ASSUME NEW j \in up, NEW e \in InWheel(j), e \notin InWheel(j)' PROVE e.at <= now
    BY DEF KeepsFuture
  <2>1. PICK s \in Slots : \E k \in DOMAIN wheel[j][s] : e = wheel[j][s][k]
    BY DEF InWheel
  <2>2. PICK k \in DOMAIN wheel[j][s] : e = wheel[j][s][k]
    BY <2>1
  <2>3. j = i /\ s = Slot(now)
    BY <1>2, <2>2 DEF InWheel
  <2> QED BY <1>4, <2>2, <2>3
<1> QED BY <1>3, <1>5

(* The loader lists what is within the lookahead and arms it. *)
LEMMA WheelLoad ==
  ASSUME SchedulerAssumption, WheelInv, up \subseteq Instances, NEW i \in Instances, LoaderList(i) \/ LoaderArm(i)
  PROVE  WheelInv' /\ KeepsFuture
<1>1. UNCHANGED <<now, row, gen, wk>>
  BY DEF LoaderList, LoaderArm, storeVars
<1>2. CASE LoaderList(i)
  <2>1. loading' = [loading EXCEPT ![i] = ListDueWithin] /\ wheel' = wheel
    BY <1>2 DEF LoaderList, wheelVars
  <2>2. ASSUME NEW e \in ListDueWithin PROVE e \in Ev /\ Near(e)
    BY <2>2 DEF ListDueWithin, DueWithin, Ev, Near, WheelInv, WheelShape
  <2>3. /\ loading' \in [Instances -> SUBSET Ev]
        /\ \A j \in Instances : \A e \in loading'[j] : e \in ListDueWithin \/ e \in loading[j]
    BY <2>1, <2>2 DEF WheelInv, WheelShape
  <2>4. Listed'
    BY <1>1, <2>2, <2>3 DEF WheelInv, Listed, Near
  <2>5. WheelShape' /\ Placed' /\ Stays
    BY <1>1, <2>1, <2>3 DEF WheelInv, WheelShape, Placed, Near, Stays
  <2> QED BY <2>4, <2>5, StaysKept DEF WheelInv
<1>3. CASE LoaderArm(i)
  <2>1. PICK e \in loading[i] : /\ loading' = [loading EXCEPT ![i] = @ \ {e}]
                                /\ wheel' = wheel \/ Schedule(i, e)
    BY <1>3 DEF LoaderArm
  <2>2. e \in Ev /\ Near(e)
    BY DEF WheelInv, WheelShape, Listed
  <2>3. /\ loading' \in [Instances -> SUBSET Ev]
        /\ \A j \in Instances : loading'[j] \subseteq loading[j]
    BY <2>1 DEF WheelInv, WheelShape
  <2>4. Listed'
    BY <1>1, <2>3 DEF WheelInv, Listed, Near
  <2>5. wheel' \in [Instances -> [Slots -> Seq(Ev)]] /\ Placed' /\ Stays
    <3>1. CASE wheel' = wheel
      BY <1>1, <3>1 DEF WheelInv, WheelShape, Placed, Near, Stays
    <3>2. CASE Schedule(i, e)
      BY <1>1, <2>2, <3>2, WheelJoin DEF Stays
    <3> QED BY <2>1, <3>1, <3>2
  <2>6. WheelShape'
    BY <1>1, <2>3, <2>5 DEF WheelInv, WheelShape
  <2> QED BY <2>4, <2>5, <2>6, StaysKept DEF WheelInv
<1> QED BY <1>2, <1>3

(* UpsertSchedule arms the next run if it is within the lookahead. *)
LEMMA WheelUpsert ==
  ASSUME SchedulerAssumption, WheelInv, up \subseteq Instances, NEW i \in Instances, NEW n \in Names,
         NEW on \in BOOLEAN, UpsertSchedule(i, n, on)
  PROVE  WheelInv' /\ KeepsFuture
<1> DEFINE e == [name |-> n, at |-> CronNext(now), gen |-> gen[n]]
<1>1. UNCHANGED <<now, gen, wk, loading>>
  BY DEF UpsertSchedule, loaderVars
<1>2. now \in Nat /\ CronNext(now) \in Nat
  BY CronTime DEF WheelInv, WheelShape
<1>3. /\ DOMAIN row' = Names
      /\ \A m \in Names : DOMAIN row'[m] = {"exists", "enabled", "next", "until"} /\ row'[m].next \in Nat
  BY <1>2 DEF UpsertSchedule, StoreUpsert, WheelInv, WheelShape
<1>4. wheel' = wheel \/ (Schedule(i, e) /\ DueWithin(e.at))
  BY DEF UpsertSchedule
<1>5. wheel' \in [Instances -> [Slots -> Seq(Ev)]] /\ Placed' /\ Stays
  <2>1. CASE wheel' = wheel
    BY <1>1, <2>1 DEF WheelInv, WheelShape, Placed, Near, Stays
  <2>2. CASE Schedule(i, e) /\ DueWithin(e.at)
    <3>1. e \in Ev /\ Near(e)
      BY <1>2, <2>2 DEF Ev, Near, DueWithin, WheelInv, WheelShape
    <3> HIDE DEF e
    <3> QED BY <1>1, <2>2, <3>1, WheelJoin DEF Stays
  <2> QED BY <1>4, <2>1, <2>2
<1>6. WheelShape'
  BY <1>1, <1>3, <1>5 DEF WheelInv, WheelShape
<1>7. Listed'
  BY <1>1 DEF WheelInv, Listed, Near
<1> QED BY <1>5, <1>6, <1>7, StaysKept DEF WheelInv

(* The workers, the store and the cancellations do not touch the wheel. *)
LEMMA WheelWork ==
  ASSUME SchedulerAssumption, WheelInv, up \subseteq Instances, NEW i \in Instances, NEW w \in Workers, Work(i, w)
  PROVE  WheelInv' /\ KeepsFuture
<1>s. /\ RunShape(wk[i][w]) /\ RunShape(Idle) /\ now \in Nat /\ CronNext(now) \in Nat /\ None \in Nat
      /\ DOMAIN wk = Instances /\ \A j \in Instances : DOMAIN wk[j] = Workers
  BY CronTime DEF WheelInv, WheelShape, RunShape, Idle, None
<1>1. UNCHANGED <<now, wheel, loading, gen>>
  BY DEF Work, PopEvent, Claim, EndAttempt, RecordExecution, storeVars, loaderVars, wheelVars
<1>2. ASSUME NEW r, RunShape(r), wk' = [wk EXCEPT ![i][w] = r] \/ wk' = wk
      PROVE  /\ DOMAIN wk' = Instances /\ \A j \in Instances : DOMAIN wk'[j] = Workers
             /\ \A j \in Instances, v \in Workers : RunShape(wk'[j][v])
  <2>1. \A j \in Instances, v \in Workers : RunShape(wk[j][v])
    BY DEF WheelInv, WheelShape
  <2> QED BY <1>s, <1>2, <2>1
<1>3. PICK r : RunShape(r) /\ (wk' = [wk EXCEPT ![i][w] = r] \/ wk' = wk)
  <2>1. CASE PopEvent(i, w)
    <3> DEFINE r == [Idle EXCEPT !.st = "claim", !.ev = Head(dispatch[i])]
    <3>1. RunShape(r)
      BY <1>s DEF RunShape
    <3>2. wk' = [wk EXCEPT ![i][w] = r] \/ wk' = wk
      BY <2>1 DEF PopEvent
    <3> QED BY <3>1, <3>2
  <2>2. CASE Claim(i, w)
    <3> DEFINE r == [wk[i][w] EXCEPT !.st = "run", !.since = now, !.left = Retries]
    <3>1. RunShape(r)
      BY <1>s DEF RunShape
    <3>2. wk' = [wk EXCEPT ![i][w] = r] \/ wk' = [wk EXCEPT ![i][w] = Idle]
      BY <2>2 DEF Claim
    <3> QED BY <1>s, <3>1, <3>2
  <2>3. ASSUME NEW ok \in BOOLEAN, EndAttempt(i, w, ok)
        PROVE  \E r : RunShape(r) /\ (wk' = [wk EXCEPT ![i][w] = r] \/ wk' = wk)
    <3> DEFINE r == [wk[i][w] EXCEPT !.st = "record", !.next = CronNext(now)]
               q == [wk[i][w] EXCEPT !.left = @ - 1]
    <3>1. RunShape(r) /\ RunShape(q)
      BY <1>s DEF RunShape
    <3>2. wk' = [wk EXCEPT ![i][w] = r] \/ wk' = [wk EXCEPT ![i][w] = q]
      BY <1>s, <2>3 DEF EndAttempt, RunShape
    <3> HIDE DEF r, q
    <3> QED BY <3>1, <3>2
  <2>4. CASE RecordExecution(i, w)
    BY <1>s, <2>4 DEF RecordExecution
  <2> QED BY <2>1, <2>2, <2>3, <2>4 DEF Work
<1>4. /\ DOMAIN row' = Names
      /\ \A m \in Names : DOMAIN row'[m] = {"exists", "enabled", "next", "until"} /\ row'[m].next \in Nat
  <2>1. CASE row' = row
    BY <2>1 DEF WheelInv, WheelShape
  <2>2. CASE Claim(i, w)
    <3> DEFINE n == wk[i][w].ev.name
               u == IF Backend = "postgres" THEN now + ClaimTTL ELSE row[n].until
    <3>1. row' = row \/ row' = [row EXCEPT ![n].until = u]
      BY <2>2 DEF Claim
    <3> HIDE DEF n, u
    <3> DEFINE q == [row[n] EXCEPT !.until = u]
    <3>2. n \in Names => DOMAIN q = {"exists", "enabled", "next", "until"} /\ q.next \in Nat
      BY DEF WheelInv, WheelShape
    <3>3. /\ DOMAIN row = Names
          /\ \A m \in Names : DOMAIN row[m] = {"exists", "enabled", "next", "until"} /\ row[m].next \in Nat
      BY DEF WheelInv, WheelShape
    <3>4. DOMAIN row' = Names /\ \A m \in Names : row'[m] = row[m] \/ (m = n /\ row'[m] = q)
      BY <3>1, <3>3
    <3> HIDE DEF q
    <3> QED BY <3>2, <3>3, <3>4
  <2>3. CASE RecordExecution(i, w)
    <3> DEFINE n == wk[i][w].ev.name
               q == IF row[n].exists THEN [row[n] EXCEPT !.next = wk[i][w].next, !.until = None] ELSE row[n]
    <3>1. row' = row \/ row' = [row EXCEPT ![n] = q]
      BY <2>3 DEF RecordExecution, StoreRecord
    <3>2. n \in Names => DOMAIN q = {"exists", "enabled", "next", "until"} /\ q.next \in Nat
      BY <1>s DEF WheelInv, WheelShape, RunShape
    <3> HIDE DEF q
    <3> HIDE DEF n
    <3>3. /\ DOMAIN row = Names
          /\ \A m \in Names : DOMAIN row[m] = {"exists", "enabled", "next", "until"} /\ row[m].next \in Nat
      BY DEF WheelInv, WheelShape
    <3>4. DOMAIN row' = Names /\ \A m \in Names : row'[m] = row[m] \/ (m = n /\ row'[m] = q)
      BY <3>1, <3>3
    <3> QED BY <3>2, <3>3, <3>4
  <2> QED BY <2>1, <2>2, <2>3 DEF Work, PopEvent, EndAttempt, storeVars
<1>5. /\ DOMAIN wk' = Instances /\ \A j \in Instances : DOMAIN wk'[j] = Workers
      /\ \A j \in Instances, v \in Workers : RunShape(wk'[j][v])
  BY <1>2, <1>3
<1> QED BY <1>1, <1>4, <1>5, WheelQuiet DEF WheelInv, WheelShape

(* Every step keeps events near and drops none that is in the future. *)
LEMMA WheelNext ==
  ASSUME SchedulerAssumption, Lookahead < WheelSlots
  PROVE  WheelInv /\ up \subseteq Instances /\ [Next]_vars
         => WheelInv' /\ (up \subseteq Instances)' /\ [KeepsFuture]_vars
<1> SUFFICES ASSUME WheelInv, up \subseteq Instances, [Next]_vars
             PROVE  WheelInv' /\ (up \subseteq Instances)' /\ [KeepsFuture]_vars
  OBVIOUS
<1>0. (up \subseteq Instances)'
  <2>1. ASSUME NEW i \in Instances, NEW w \in Workers, Work(i, w) PROVE up' = up
    BY <2>1 DEF Work, PopEvent, Claim, EndAttempt, RecordExecution
  <2>2. ASSUME NEW i \in Instances, NEW n \in Names, NEW on \in BOOLEAN, DeleteSchedule(i, n) \/ UpsertSchedule(i, n, on)
        PROVE  up' = up
    BY <2>2 DEF DeleteSchedule, UpsertSchedule
  <2>3. ASSUME NEW i \in Instances, TickWheel(i) \/ LoaderList(i) \/ LoaderArm(i) \/ Crash(i) \/ Restart(i)
        PROVE  up' \subseteq Instances
    BY <2>3 DEF TickWheel, LoaderList, LoaderArm, Crash, Restart
  <2>4. Advance \/ UNCHANGED vars => up' = up
    BY DEF Advance, vars
  <2> QED BY <2>1, <2>2, <2>3, <2>4 DEF Next
<1>1. ASSUME NEW i \in Instances, TickWheel(i) \/ LoaderList(i) \/ LoaderArm(i) PROVE WheelInv' /\ KeepsFuture
  BY <1>1, WheelTick, WheelLoad
<1>2. ASSUME NEW i \in Instances, NEW w \in Workers, Work(i, w) PROVE WheelInv' /\ KeepsFuture
  BY <1>2, WheelWork
<1>3. ASSUME NEW i \in Instances, NEW n \in Names, NEW on \in BOOLEAN, UpsertSchedule(i, n, on)
      PROVE  WheelInv' /\ KeepsFuture
  BY <1>3, WheelUpsert
<1>4. ASSUME NEW i \in Instances, NEW n \in Names, DeleteSchedule(i, n) PROVE WheelInv' /\ KeepsFuture
  <2>1. UNCHANGED <<now, wheel, loading, wk>>
    BY <1>4 DEF DeleteSchedule, loaderVars, wheelVars
  <2>2. DOMAIN NoRow = {"exists", "enabled", "next", "until"} /\ NoRow.next \in Nat
    BY DEF NoRow, None
  <2>3. (row' = row /\ gen' = gen) \/ (row' = [row EXCEPT ![n] = NoRow] /\ gen' = [gen EXCEPT ![n] = @ + 1])
    BY <1>4, Zenon DEF DeleteSchedule, StoreDelete, storeVars
  <2>4. gen' \in [Names -> Nat]
    <3>1. gen \in [Names -> Nat] /\ (gen' = gen \/ gen' = [gen EXCEPT ![n] = @ + 1])
      BY <2>3, Zenon DEF WheelInv, WheelShape
    <3> QED BY <3>1
  <2>5. /\ DOMAIN row' = Names
        /\ \A m \in Names : DOMAIN row'[m] = {"exists", "enabled", "next", "until"} /\ row'[m].next \in Nat
    BY <2>2, <2>3 DEF WheelInv, WheelShape
  <2> QED BY <2>1, <2>4, <2>5, WheelQuiet DEF WheelInv, WheelShape
<1>5. ASSUME NEW i \in Instances, Restart(i) PROVE WheelInv' /\ KeepsFuture
  BY <1>5, WheelQuiet DEF Restart, storeVars, WheelInv, WheelShape
<1>6. ASSUME NEW i \in Instances, Crash(i) PROVE WheelInv' /\ KeepsFuture
  <2>1. /\ UNCHANGED <<now, row, gen>> /\ up' = up \ {i}
        /\ wheel' = [wheel EXCEPT ![i] = EmptyWheel] /\ loading' = [loading EXCEPT ![i] = {}]
        /\ wk' = [wk EXCEPT ![i] = [w \in Workers |-> Idle]]
    BY <1>6 DEF Crash, storeVars
  <2>2. RunShape(Idle) /\ EmptyWheel \in [Slots -> Seq(Ev)] /\ \A s \in Slots : EmptyWheel[s] = <<>>
    BY DEF RunShape, Idle, None, EmptyWheel
  <2>3. /\ wheel' \in [Instances -> [Slots -> Seq(Ev)]]
        /\ wheel'[i] = EmptyWheel /\ \A j \in Instances : j # i => wheel'[j] = wheel[j]
    BY <2>1, <2>2 DEF WheelInv, WheelShape
  <2>4. WheelShape'
    BY <2>1, <2>2, <2>3 DEF WheelInv, WheelShape
  <2>5. Placed' /\ Listed'
    BY <2>1, <2>2, <2>3 DEF WheelInv, WheelShape, Placed, Listed, Near
  <2>6. KeepsFuture
    BY <2>1, <2>3 DEF KeepsFuture, InWheel
  <2> QED BY <2>4, <2>5, <2>6 DEF WheelInv
<1>7. ASSUME Advance PROVE WheelInv' /\ KeepsFuture
  <2>1. now' = now + 1 /\ UNCHANGED <<row, gen, wk, wheel, loading>>
    BY <1>7 DEF Advance, storeVars, loaderVars, wheelVars
  <2>2. WheelShape' /\ Stays
    BY <2>1 DEF WheelInv, WheelShape, Stays
  <2>3. \A e \in Ev : Near(e) => Near(e)'
    BY <2>1 DEF Near, Ev, WheelInv, WheelShape, SchedulerAssumption
  <2>4. Placed' /\ Listed'
    BY <2>1, <2>3 DEF WheelInv, WheelShape, Placed, Listed
  <2> QED BY <2>2, <2>4, StaysKept DEF WheelInv
<1>8. CASE UNCHANGED vars
  BY <1>8 DEF vars, storeVars, loaderVars, wheelVars, WheelInv, WheelShape, Placed, Listed, Near
<1> QED BY <1>0, <1>1, <1>2, <1>3, <1>4, <1>5, <1>6, <1>7, <1>8 DEF Next

(* SchedulerWheel.tick and Schedule: as long as the loader looks ahead     *)
(* less than one turn of the wheel, no event leaves the wheel of a running *)
(* instance before its second has come.  The bound is sharp, and the       *)
(* default lookahead of 3600 s is one turn of the 3600 slots: an event     *)
(* armed exactly a turn ahead, before the tick of its second, is dropped.  *)
THEOREM FutureIsKept ==
  ASSUME SchedulerAssumption, Lookahead < WheelSlots PROVE Spec => WheelKeepsFuture
<1>1. Init => WheelInv /\ up \subseteq Instances
  BY WheelInit DEF Init
<1> QED BY <1>1, WheelNext, PTL DEF Spec, WheelKeepsFuture
=============================================================================
