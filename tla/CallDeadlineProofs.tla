-------------------------- MODULE CallDeadlineProofs --------------------------
(***************************************************************************)
(* A deadline hits the request it was armed in, the done channel is closed *)
(* once and tells the truth, for any number of requests, calls and timers, *)
(* as long as no Reset runs in the gap between a callback's comparison of  *)
(* the generation and the end of its Cancel.                               *)
(*                                                                         *)
(* The argument has two parts.  A timer of the current generation belongs  *)
(* to the request that has the context, or Reset is about to replace the   *)
(* generation: a context without a deadline (had) keeps its generation,    *)
(* but then no timer has it.  And outside the gap cancelOnce, state and    *)
(* channel move together: whoever is inside the Once is alone, finds the   *)
(* channel open, and no Reset is going on.                                 *)
(***************************************************************************)
EXTENDS CallDeadline, TLAPS

ReqPcs == {"idle", "flow", "do", "answered", "failed", "body", "ended"} \cup Resetting
TimerPcs == {"unused", "armed", "over"} \cup Firing

Inside == {"inside", "stored"}

Typed ==
    /\ ctx \in [gen : Nat, had : BOOLEAN, once : {"new", "busy", "done"}, state : {0, 1},
                chan : {"open", "closed"}, set : BOOLEAN]
    /\ req \in [pc : ReqPcs, n : Nat, need : BOOLEAN, call : Nat]
    /\ timer \in [Timers -> [pc : TimerPcs, kind : Kinds, gen : Nat, req : Nat]]
    /\ calls \in Nat
    /\ overtaken \in BOOLEAN
    /\ \A t \in Timers : t > calls => timer[t].pc = "unused"

(* The timers of the context's generation. *)
Current ==
    \A t \in Timers : timer[t].pc # "unused" =>
        /\ timer[t].gen <= ctx.gen
        /\ timer[t].gen = ctx.gen => req.pc = "gen" \/ (ctx.had /\ timer[t].req = req.n)

(* A callback past its check. *)
Apart ==
    \A t \in Timers : timer[t].pc \in Acting => timer[t].gen = ctx.gen /\ req.pc \notin Resetting

(* cancelOnce has one user. *)
OneInside ==
    /\ \A t, u \in Timers : timer[t].pc \in Inside /\ timer[u].pc \in Inside => t = u
    /\ ctx.once = "busy" <=> \E t \in Timers : timer[t].pc \in Inside

(* Once, state and channel agree; Reset replaces them one by one. *)
Agree ==
    /\ req.pc \notin {"state", "chan"} =>
         /\ ctx.chan = "closed" <=> ctx.once = "done"
         /\ ctx.once = "done" => ctx.state = 1
         /\ ctx.once = "new" => ctx.state = 0
         /\ \A t \in Timers : timer[t].pc = "inside" => ctx.state = 0
         /\ \A t \in Timers : timer[t].pc = "stored" => ctx.state = 1
    /\ req.pc \in {"gen", "once"} => (req.need <=> ctx.state = 1)
    /\ req.pc \in {"state", "chan"} => ctx.once = "new" /\ (ctx.chan = "closed" <=> req.need)
    /\ req.pc = "chan" => ctx.state = 0

DeadlineInv == Typed /\ Current /\ (~overtaken => Apart /\ OneInside /\ Agree /\ ~crashed)

Calm == Apart /\ OneInside /\ Agree /\ ~crashed

(* No timer at the start, and a fresh Once, state and channel. *)
LEMMA DeadlineInit == ASSUME DeadlineAssumption PROVE Init => DeadlineInv
<1> SUFFICES ASSUME Init PROVE DeadlineInv
  OBVIOUS
<1>1. Typed
  BY DEF Init, Typed, Unused, ReqPcs, TimerPcs, Kinds
<1>2. Current
  BY DEF Init, Current, Unused
<1>3. Apart /\ OneInside /\ Agree /\ ~crashed
  BY DEF Init, Apart, OneInside, Agree, Unused, Acting, Inside
<1> QED BY <1>1, <1>2, <1>3 DEF DeadlineInv

(* The context comes from the pool: outside the gap no callback is acting, *)
(* and one that is marks the gap.                                          *)
LEMMA InvTakeContext == ASSUME DeadlineAssumption, DeadlineInv, TakeContext PROVE DeadlineInv'
<1>s. Typed /\ Current
  BY DEF DeadlineInv
<1>1. /\ timer' = timer /\ calls' = calls /\ crashed' = crashed
      /\ req.pc = "idle" /\ req'.pc = (IF ctx.had THEN "gen" ELSE "flow")
      /\ req'.n = req.n + 1 /\ req'.need = (ctx.state # 0) /\ req'.call = req.call
      /\ ctx'.had = FALSE /\ ctx'.gen = ctx.gen /\ ctx'.once = ctx.once
      /\ ctx'.state = ctx.state /\ ctx'.chan = ctx.chan /\ ctx'.set = ctx.set
  BY <1>s DEF TakeContext, Typed
<1>o. overtaken' \in BOOLEAN
  BY DEF TakeContext
<1>c. ctx' \in [gen : Nat, had : BOOLEAN, once : {"new", "busy", "done"}, state : {0, 1},
                chan : {"open", "closed"}, set : BOOLEAN]
  BY <1>s DEF TakeContext, Typed
<1>b. ctx.state \in {0, 1}
  BY <1>s DEF Typed
<1>e. /\ ctx.state = 0 => req' = [req EXCEPT !.n = req.n + 1, !.need = FALSE, !.pc = IF ctx.had THEN "gen" ELSE "flow"]
      /\ ctx.state = 1 => req' = [req EXCEPT !.n = req.n + 1, !.need = TRUE, !.pc = IF ctx.had THEN "gen" ELSE "flow"]
  <2>1. ASSUME ctx.state = 0 PROVE (ctx.state # 0) = FALSE
    BY <2>1
  <2>2. ASSUME ctx.state = 1 PROVE (ctx.state # 0) = TRUE
    BY <2>2
  <2> QED BY <2>1, <2>2, Zenon DEF TakeContext
<1>r. req' \in [pc : ReqPcs, n : Nat, need : BOOLEAN, call : Nat]
  <2>1. PICK pc \in ReqPcs : pc = IF ctx.had THEN "gen" ELSE "flow"
    BY DEF ReqPcs, Resetting
  <2>n. PICK n \in Nat : n = req.n + 1
    BY <1>s DEF Typed
  <2>2. \/ req' = [req EXCEPT !.n = n, !.need = FALSE, !.pc = pc]
        \/ req' = [req EXCEPT !.n = n, !.need = TRUE, !.pc = pc]
    BY <1>b, <1>e, <2>1, <2>n
  <2>3. req \in [pc : ReqPcs, n : Nat, need : BOOLEAN, call : Nat]
    BY <1>s DEF Typed
  <2> QED BY <2>2, <2>3
<1>n. req'.need <=> ctx.state = 1
  BY <1>s, <1>b, <1>e DEF Typed
<1>2. Typed'
  BY <1>s, <1>1, <1>o, <1>c, <1>r DEF Typed
<1>3. Current'
  BY <1>s, <1>1 DEF Current
<1>4. ASSUME ~overtaken' PROVE Calm'
  <2>1. Calm /\ \A t \in Timers : timer[t].pc \notin Acting
    BY <1>4, <1>s DEF TakeContext, DeadlineInv, Calm, Typed
  <2>2. Apart' /\ OneInside'
    BY <1>1, <2>1 DEF Calm, Apart, OneInside
  <2>3. \A t \in Timers : timer[t].pc \notin Inside
    BY <2>1 DEF Acting, Inside
  <2>4. ctx.once \in {"new", "done"} /\ ctx.state \in {0, 1}
    BY <1>s, <2>1, <2>3 DEF Calm, OneInside, Typed
  <2>5. Agree'
    <3>1. req'.need <=> ctx.state = 1
      BY <1>n
    <3>2. /\ ctx.chan = "closed" <=> ctx.once = "done"
          /\ ctx.once = "done" => ctx.state = 1
          /\ ctx.once = "new" => ctx.state = 0
      BY <1>1, <2>1 DEF Calm, Agree
    <3> QED BY <1>1, <2>3, <3>1, <3>2 DEF Agree, Inside
  <2> QED BY <1>1, <2>1, <2>2, <2>5 DEF Calm
<1> QED BY <1>2, <1>3, <1>4 DEF DeadlineInv, Calm

(* Reset, one assignment after the other. *)
LEMMA InvReset ==
  ASSUME DeadlineAssumption, DeadlineInv, NextGeneration \/ NewOnce \/ ZeroState \/ NewChan
  PROVE  DeadlineInv'
<1>s. Typed /\ Current /\ (~overtaken => Calm)
  BY DEF DeadlineInv, Calm
<1>1. /\ timer' = timer /\ calls' = calls /\ overtaken' = overtaken /\ crashed' = crashed
      /\ req'.n = req.n /\ req'.need = req.need /\ req'.call = req.call
      /\ ctx'.had = ctx.had /\ req.pc \in Resetting
  BY <1>s DEF NextGeneration, NewOnce, ZeroState, NewChan, Go, Typed, Resetting
<1>t. ~overtaken => \A t \in Timers : timer[t].pc \notin Acting /\ timer[t].pc \notin Inside
  BY <1>s, <1>1 DEF Calm, Apart, Acting, Inside
<1>2. CASE NextGeneration
  <2>1. /\ req.pc = "gen" /\ req'.pc = "once" /\ ctx'.gen = ctx.gen + 1
        /\ ctx'.once = ctx.once /\ ctx'.state = ctx.state /\ ctx'.chan = ctx.chan
    BY <1>2, <1>s DEF NextGeneration, Go, Typed
  <2>2. Typed'
    BY <1>2, <1>s DEF NextGeneration, Go, Typed, ReqPcs, Resetting
  <2>3. Current'
    BY <1>1, <2>1, <1>s DEF Current, Typed
  <2>4. ~overtaken => Calm'
    BY <1>1, <1>t, <2>1, <1>s DEF Calm, Apart, OneInside, Agree
  <2> QED BY <1>1, <2>2, <2>3, <2>4 DEF DeadlineInv, Calm
<1>3. CASE NewOnce
  <2>1. /\ req.pc = "once" /\ req'.pc = "state" /\ ctx'.gen = ctx.gen
        /\ ctx'.once = "new" /\ ctx'.state = ctx.state /\ ctx'.chan = ctx.chan
    BY <1>3, <1>s DEF NewOnce, Go, Typed
  <2>2. Typed'
    BY <1>3, <1>s DEF NewOnce, Go, Typed, ReqPcs, Resetting
  <2>3. Current'
    BY <1>1, <2>1, <1>s DEF Current, Typed
  <2>4. ~overtaken => Calm'
    <3>1. ctx.once \in {"new", "busy", "done"}
      BY <1>s DEF Typed
    <3> QED BY <1>1, <1>t, <2>1, <1>s, <3>1 DEF Calm, Apart, OneInside, Agree
  <2> QED BY <1>1, <2>2, <2>3, <2>4 DEF DeadlineInv, Calm
<1>4. CASE ZeroState
  <2>1. /\ req.pc = "state" /\ req'.pc = "chan" /\ ctx'.gen = ctx.gen
        /\ ctx'.once = ctx.once /\ ctx'.state = 0 /\ ctx'.chan = ctx.chan
    BY <1>4, <1>s DEF ZeroState, Go, Typed
  <2>2. Typed'
    BY <1>4, <1>s DEF ZeroState, Go, Typed, ReqPcs, Resetting
  <2>3. Current'
    BY <1>1, <2>1, <1>s DEF Current, Typed
  <2>4. ~overtaken => Calm'
    BY <1>1, <1>t, <2>1, <1>s DEF Calm, Apart, OneInside, Agree
  <2> QED BY <1>1, <2>2, <2>3, <2>4 DEF DeadlineInv, Calm
<1>5. CASE NewChan
  <2>1. /\ req.pc = "chan" /\ req'.pc = "flow" /\ ctx'.gen = ctx.gen
        /\ ctx'.once = ctx.once /\ ctx'.state = ctx.state
        /\ ctx'.chan = (IF req.need THEN "open" ELSE ctx.chan)
        /\ ctx.chan \in {"open", "closed"} /\ req.need \in BOOLEAN
    BY <1>5, <1>s DEF NewChan, Go, Typed
  <2>2. Typed'
    BY <1>5, <1>s DEF NewChan, Go, Typed, ReqPcs, Resetting
  <2>3. Current'
    BY <1>1, <2>1, <1>s DEF Current, Typed
  <2>4. ~overtaken => Calm'
    BY <1>1, <1>t, <2>1, <1>s DEF Calm, Apart, OneInside, Agree, Resetting, Inside
  <2> QED BY <1>1, <2>2, <2>3, <2>4 DEF DeadlineInv, Calm
<1> QED BY <1>2, <1>3, <1>4, <1>5

(* A step that moves timers only among the states before the check, and    *)
(* leaves the context's cancellation and the request's number alone.       *)
LEMMA KeepDeadline ==
  ASSUME DeadlineInv, Typed', overtaken' = overtaken, crashed' = crashed,
         ctx'.gen = ctx.gen, ctx'.once = ctx.once, ctx'.state = ctx.state, ctx'.chan = ctx.chan,
         ctx'.had = ctx.had,
         req' = req \/ (req'.n = req.n /\ req.pc \notin Resetting /\ req'.pc \notin Resetting),
         \A t \in Timers : /\ timer'[t].gen = timer[t].gen /\ timer'[t].req = timer[t].req
                           /\ \/ timer'[t].pc = timer[t].pc
                              \/ /\ timer'[t].pc \notin Acting /\ timer[t].pc \notin Acting
                                 /\ timer[t].pc # "unused"
  PROVE  DeadlineInv'
<1>1. Current'
  BY DEF DeadlineInv, Current, Resetting
<1>2. Apart /\ OneInside /\ Agree => Apart' /\ OneInside' /\ Agree'
  <2> SUFFICES ASSUME Apart, OneInside, Agree PROVE Apart' /\ OneInside' /\ Agree'
    OBVIOUS
  <2>1. \A t \in Timers : /\ timer'[t].pc \in Acting <=> timer[t].pc \in Acting
                          /\ timer'[t].pc \in Inside <=> timer[t].pc \in Inside
                          /\ timer'[t].pc = "inside" <=> timer[t].pc = "inside"
                          /\ timer'[t].pc = "stored" <=> timer[t].pc = "stored"
    BY DEF Acting, Inside
  <2>2. Apart'
    BY <2>1 DEF Apart
  <2>3. OneInside'
    BY <2>1 DEF OneInside
  <2>4. Agree'
    BY <2>1 DEF Agree, Resetting
  <2> QED BY <2>2, <2>3, <2>4
<1> QED BY <1>1, <1>2 DEF DeadlineInv

(* A call is started: its timer is new, and of the current generation. *)
LEMMA InvStartCall ==
  ASSUME DeadlineAssumption, DeadlineInv, NEW kind \in Kinds, StartCall(kind) PROVE DeadlineInv'
<1> DEFINE c == calls + 1
<1>s. Typed /\ Current /\ (~overtaken => Calm)
  BY DEF DeadlineInv, Calm
<1>1. /\ calls' = c /\ overtaken' = overtaken /\ crashed' = crashed
      /\ c \in Timers /\ c \in Nat /\ c > calls /\ timer[c].pc = "unused"
      /\ req.pc \in {"flow", "ended"} /\ req'.pc = "do" /\ req'.n = req.n /\ req'.need = req.need
      /\ ctx'.had = TRUE /\ ctx'.gen = ctx.gen /\ ctx'.once = ctx.once
      /\ ctx'.state = ctx.state /\ ctx'.chan = ctx.chan
  BY <1>s DEF StartCall, Typed, Timers, DeadlineAssumption
<1>2. /\ timer' \in [Timers -> [pc : TimerPcs, kind : Kinds, gen : Nat, req : Nat]]
      /\ timer'[c].pc = "armed" /\ timer'[c].gen = ctx.gen /\ timer'[c].req = req.n
      /\ \A t \in Timers : t # c => timer'[t] = timer[t]
  <2>1. timer' = [timer EXCEPT ![c] = [pc |-> "armed", kind |-> kind, gen |-> ctx.gen, req |-> req.n]]
    BY <1>1 DEF StartCall
  <2>2. [pc |-> "armed", kind |-> kind, gen |-> ctx.gen, req |-> req.n]
          \in [pc : TimerPcs, kind : Kinds, gen : Nat, req : Nat]
    BY <1>s DEF Typed, TimerPcs
  <2> QED BY <1>s, <1>1, <2>1, <2>2 DEF Typed
<1>3. /\ ctx' \in [gen : Nat, had : BOOLEAN, once : {"new", "busy", "done"}, state : {0, 1},
                   chan : {"open", "closed"}, set : BOOLEAN]
      /\ req' \in [pc : ReqPcs, n : Nat, need : BOOLEAN, call : Nat]
  BY <1>s, <1>1 DEF StartCall, Typed, ReqPcs
<1> HIDE DEF c
<1>4. Typed'
  BY <1>s, <1>1, <1>2, <1>3 DEF Typed, Timers, DeadlineAssumption, c
<1>5. Current'
  <2> SUFFICES ASSUME NEW t \in Timers, timer'[t].pc # "unused"
               PROVE  /\ timer'[t].gen <= ctx.gen
                      /\ timer'[t].gen = ctx.gen => timer'[t].req = req.n
    BY <1>1 DEF Current
  <2>1. CASE t = c
    BY <1>2, <2>1, <1>s DEF Typed
  <2>2. CASE t # c
    BY <1>1, <1>2, <2>2, <1>s DEF Current
  <2> QED BY <2>1, <2>2
<1>6. ASSUME ~overtaken PROVE Calm'
  <2>1. \A t \in Timers : /\ timer'[t].pc \in Acting => timer[t].pc \in Acting /\ timer'[t] = timer[t]
                          /\ timer'[t].pc \in Inside <=> timer[t].pc \in Inside
                          /\ timer'[t].pc = "inside" <=> timer[t].pc = "inside"
                          /\ timer'[t].pc = "stored" <=> timer[t].pc = "stored"
    BY <1>1, <1>2 DEF Acting, Inside
  <2>2. Apart'
    BY <1>1, <1>6, <1>s, <2>1 DEF Calm, Apart, Resetting
  <2>3. OneInside'
    BY <1>1, <1>6, <1>s, <2>1 DEF Calm, OneInside
  <2>4. Agree'
    BY <1>1, <1>6, <1>s, <2>1 DEF Calm, Agree
  <2> QED BY <1>1, <1>6, <1>s, <2>2, <2>3, <2>4 DEF Calm
<1> QED BY <1>1, <1>4, <1>5, <1>6 DEF DeadlineInv, Calm

(* What a callback's step does to the timers. *)
LEMMA MoveTimer ==
  ASSUME Typed, NEW t \in Timers, timer[t].pc # "unused", NEW pc \in TimerPcs, Callback(t, pc), calls' = calls
  PROVE  /\ timer' \in [Timers -> [pc : TimerPcs, kind : Kinds, gen : Nat, req : Nat]]
         /\ timer'[t].pc = pc /\ timer'[t].gen = timer[t].gen /\ timer'[t].req = timer[t].req
         /\ \A u \in Timers : u # t => timer'[u] = timer[u]
         /\ \A u \in Timers : u > calls => timer'[u].pc = "unused"
<1>1. /\ timer' \in [Timers -> [pc : TimerPcs, kind : Kinds, gen : Nat, req : Nat]]
      /\ timer'[t].pc = pc /\ timer'[t].gen = timer[t].gen /\ timer'[t].req = timer[t].req
      /\ \A u \in Timers : u # t => timer'[u] = timer[u]
  BY DEF Typed, Callback
<1> QED BY <1>1 DEF Typed

(* The request's own steps that leave the timers alone. *)
LEMMA InvFlow ==
  ASSUME DeadlineInv,
         (\E answered \in BOOLEAN : DoReturns(answered)) \/ DoAborted \/ ReadBody \/ Finish
  PROVE  DeadlineInv'
<1>s. Typed
  BY DEF DeadlineInv
<1>1. /\ UNCHANGED <<ctx, timer, calls, overtaken, crashed>> /\ req.pc \in {"do", "body", "flow"}
      /\ \E pc \in {"answered", "failed", "ended", "idle"} : req' = [req EXCEPT !.pc = pc]
  BY DEF DoReturns, DoAborted, ReadBody, Finish, Go
<1>2. PICK pc \in {"answered", "failed", "ended", "idle"} : req' = [req EXCEPT !.pc = pc]
  BY <1>1
<1>3. /\ req' \in [pc : ReqPcs, n : Nat, need : BOOLEAN, call : Nat]
      /\ req'.n = req.n /\ req'.pc \notin Resetting
  BY <1>s, <1>2 DEF Typed, ReqPcs, Resetting
<1>4. Typed'
  BY <1>s, <1>1, <1>3 DEF Typed
<1>5. req.pc \notin Resetting
  BY <1>1 DEF Resetting
<1> QED BY <1>1, <1>3, <1>4, <1>5, KeepDeadline

(* The call's timer is stopped, or all the timers of the step are. *)
LEMMA InvStop == ASSUME DeadlineInv, StopTimer \/ StepReturns PROVE DeadlineInv'
<1>s. Typed
  BY DEF DeadlineInv
<1>1. /\ timer' \in [Timers -> [pc : TimerPcs, kind : Kinds, gen : Nat, req : Nat]]
      /\ \A t \in Timers : /\ timer'[t].gen = timer[t].gen /\ timer'[t].req = timer[t].req
                           /\ \/ timer'[t].pc = timer[t].pc
                              \/ timer'[t].pc = "over" /\ timer[t].pc \in {"armed", "taken"}
  <2>1. CASE StopTimer
    <3>1. PICK pc \in {"over", timer[req.call].pc} :
             /\ timer' = [timer EXCEPT ![req.call].pc = pc]
             /\ pc # timer[req.call].pc => pc = "over" /\ timer[req.call].pc \in {"armed", "taken"}
      BY <2>1 DEF StopTimer
    <3>2. CASE req.call \in Timers
      <4>1. pc \in TimerPcs
        BY <1>s, <3>2 DEF Typed, TimerPcs
      <4> QED BY <1>s, <3>1, <3>2, <4>1 DEF Typed
    <3>3. CASE req.call \notin Timers
      <4>1. timer' = timer
        BY <1>s, <3>1, <3>3 DEF Typed
      <4> QED BY <1>s, <4>1 DEF Typed
    <3> QED BY <3>2, <3>3
  <2>2. CASE StepReturns
    <3>1. timer' = [t \in Timers |-> IF timer[t].kind = "after" /\ timer[t].pc = "armed"
                                       THEN [timer[t] EXCEPT !.pc = "over"] ELSE timer[t]]
      BY <2>2 DEF StepReturns
    <3>2. "over" \in TimerPcs
      BY DEF TimerPcs
    <3> QED BY <1>s, <3>1, <3>2 DEF Typed
  <2> QED BY <2>1, <2>2
<1>2. /\ UNCHANGED <<calls, overtaken, crashed>> /\ req.pc \in {"answered", "failed", "ended"}
      /\ ctx' \in [gen : Nat, had : BOOLEAN, once : {"new", "busy", "done"}, state : {0, 1},
                   chan : {"open", "closed"}, set : BOOLEAN]
      /\ ctx'.gen = ctx.gen /\ ctx'.once = ctx.once /\ ctx'.state = ctx.state /\ ctx'.chan = ctx.chan
      /\ ctx'.had = ctx.had
  BY <1>s DEF StopTimer, StepReturns, Typed
<1>3. PICK pc \in {"body", "ended", "flow"} : req' = [req EXCEPT !.pc = pc]
  BY DEF StopTimer, StepReturns, Go
<1>4. /\ req' \in [pc : ReqPcs, n : Nat, need : BOOLEAN, call : Nat]
      /\ req'.n = req.n /\ req'.pc \notin Resetting /\ req.pc \notin Resetting
  BY <1>s, <1>2, <1>3 DEF Typed, ReqPcs, Resetting
<1>5. Typed'
  <2>1. \A t \in Timers : t > calls' => timer'[t].pc = "unused"
    BY <1>s, <1>1, <1>2 DEF Typed
  <2> QED BY <1>s, <1>1, <1>2, <1>4, <2>1 DEF Typed
<1>6. \A t \in Timers : /\ timer'[t].gen = timer[t].gen /\ timer'[t].req = timer[t].req
                        /\ \/ timer'[t].pc = timer[t].pc
                           \/ /\ timer'[t].pc \notin Acting /\ timer[t].pc \notin Acting
                              /\ timer[t].pc # "unused"
  BY <1>1 DEF Acting
<1> QED BY <1>2, <1>4, <1>5, <1>6, KeepDeadline

(* A timer fires; its callback looks at the flag. *)
LEMMA InvFire ==
  ASSUME DeadlineInv, NEW t \in Timers, Fire(t) \/ CheckFlag(t) PROVE DeadlineInv'
<1>s. Typed
  BY DEF DeadlineInv
<1>1. PICK pc \in {"taken", "run"} : Callback(t, pc)
  BY DEF Fire, CheckFlag
<1>2. /\ UNCHANGED <<ctx, req, calls, overtaken, crashed>> /\ timer[t].pc \in {"armed", "taken"}
      /\ pc \in TimerPcs /\ pc \notin Acting /\ timer[t].pc \notin Acting
  BY DEF Fire, CheckFlag, TimerPcs, Firing, Acting
<1>3. /\ timer' \in [Timers -> [pc : TimerPcs, kind : Kinds, gen : Nat, req : Nat]]
      /\ timer'[t].pc = pc /\ timer'[t].gen = timer[t].gen /\ timer'[t].req = timer[t].req
      /\ \A u \in Timers : u # t => timer'[u] = timer[u]
      /\ \A u \in Timers : u > calls => timer'[u].pc = "unused"
  BY <1>s, <1>1, <1>2, MoveTimer
<1>4. Typed'
  BY <1>s, <1>2, <1>3 DEF Typed
<1>5. \A u \in Timers : /\ timer'[u].gen = timer[u].gen /\ timer'[u].req = timer[u].req
                        /\ \/ timer'[u].pc = timer[u].pc
                           \/ /\ timer'[u].pc \notin Acting /\ timer[u].pc \notin Acting
                              /\ timer[u].pc # "unused"
  BY <1>2, <1>3
<1> QED BY <1>2, <1>4, <1>5, KeepDeadline

(* CancelIfGeneration: a callback of another generation is over; one that  *)
(* passes while Reset is at work marks the gap.                            *)
LEMMA InvCompare ==
  ASSUME DeadlineInv, NEW t \in Timers, CancelIfGeneration(t) PROVE DeadlineInv'
<1>s. Typed /\ Current /\ (~overtaken => Calm)
  BY DEF DeadlineInv, Calm
<1>1. PICK pc \in {"checked", "over"} :
        /\ Callback(t, pc)
        /\ pc = "checked" <=> timer[t].gen = ctx.gen
  BY DEF CancelIfGeneration
<1>2. /\ UNCHANGED <<ctx, req, calls, crashed>> /\ timer[t].pc = "run" /\ pc \in TimerPcs
      /\ overtaken' \in BOOLEAN
      /\ ~overtaken' => ~overtaken /\ (pc = "checked" => req.pc \notin Resetting)
  BY <1>1 DEF CancelIfGeneration, TimerPcs, Firing, Acting
<1>3. /\ timer' \in [Timers -> [pc : TimerPcs, kind : Kinds, gen : Nat, req : Nat]]
      /\ timer'[t].pc = pc /\ timer'[t].gen = timer[t].gen /\ timer'[t].req = timer[t].req
      /\ \A u \in Timers : u # t => timer'[u] = timer[u]
      /\ \A u \in Timers : u > calls => timer'[u].pc = "unused"
  BY <1>s, <1>1, <1>2, MoveTimer
<1>4. Typed'
  BY <1>s, <1>2, <1>3 DEF Typed
<1>5. Current'
  BY <1>s, <1>2, <1>3 DEF Current
<1>6. ASSUME ~overtaken' PROVE Calm'
  <2>1. \A u \in Timers : /\ timer'[u].pc \in Inside <=> timer[u].pc \in Inside
                          /\ timer'[u].pc = "inside" <=> timer[u].pc = "inside"
                          /\ timer'[u].pc = "stored" <=> timer[u].pc = "stored"
    BY <1>2, <1>3 DEF Inside
  <2>2. Calm
    BY <1>6, <1>2, <1>s
  <2>3. Apart'
    <3> SUFFICES ASSUME NEW u \in Timers, timer'[u].pc \in Acting
                 PROVE  timer'[u].gen = ctx.gen /\ req.pc \notin Resetting
      BY <1>2 DEF Apart
    <3>1. CASE u = t
      <4>1. pc = "checked"
        BY <3>1, <1>3 DEF Acting
      <4> QED BY <3>1, <4>1, <1>1, <1>2, <1>3, <1>6
    <3>2. CASE u # t
      BY <3>2, <1>3, <2>2 DEF Calm, Apart
    <3> QED BY <3>1, <3>2
  <2>4. OneInside'
    BY <1>2, <2>1, <2>2 DEF Calm, OneInside
  <2>5. Agree'
    BY <1>2, <2>1, <2>2 DEF Calm, Agree
  <2> QED BY <1>2, <2>2, <2>3, <2>4, <2>5 DEF Calm
<1> QED BY <1>4, <1>5, <1>6 DEF DeadlineInv, Calm

(* cancelOnce.Do lets one callback in. *)
LEMMA InvEnterOnce ==
  ASSUME DeadlineInv, NEW t \in Timers, EnterOnce(t) PROVE DeadlineInv'
<1>s. Typed /\ Current /\ (~overtaken => Calm)
  BY DEF DeadlineInv, Calm
<1>1. PICK pc \in {"inside", "over"} :
        /\ Callback(t, pc)
        /\ pc = "inside" <=> ctx.once = "new"
  BY DEF EnterOnce
<1>2. /\ UNCHANGED <<req, calls, overtaken, crashed>> /\ timer[t].pc = "checked" /\ pc \in TimerPcs
      /\ ctx' \in [gen : Nat, had : BOOLEAN, once : {"new", "busy", "done"}, state : {0, 1},
                   chan : {"open", "closed"}, set : BOOLEAN]
      /\ ctx'.gen = ctx.gen /\ ctx'.had = ctx.had /\ ctx'.state = ctx.state /\ ctx'.chan = ctx.chan
      /\ ctx.once \in {"new", "done"} /\ ctx'.once = (IF ctx.once = "new" THEN "busy" ELSE "done")
  BY <1>1, <1>s DEF EnterOnce, TimerPcs, Firing, Acting, Typed
<1>3. /\ timer' \in [Timers -> [pc : TimerPcs, kind : Kinds, gen : Nat, req : Nat]]
      /\ timer'[t].pc = pc /\ timer'[t].gen = timer[t].gen /\ timer'[t].req = timer[t].req
      /\ \A u \in Timers : u # t => timer'[u] = timer[u]
      /\ \A u \in Timers : u > calls => timer'[u].pc = "unused"
  BY <1>s, <1>1, <1>2, MoveTimer
<1>4. Typed'
  BY <1>s, <1>2, <1>3 DEF Typed
<1>5. Current'
  BY <1>s, <1>2, <1>3 DEF Current
<1>6. ASSUME ~overtaken PROVE Calm'
  <2>1. Calm
    BY <1>6, <1>s
  <2>2. \A u \in Timers : timer[u].pc \notin Inside
    BY <1>2, <2>1 DEF Calm, OneInside
  <2>3. req.pc \notin Resetting /\ timer[t].gen = ctx.gen
    BY <1>2, <2>1 DEF Calm, Apart, Acting
  <2>4. Apart'
    BY <1>2, <1>3, <2>1, <2>3 DEF Calm, Apart
  <2>5. OneInside'
    BY <1>1, <1>2, <1>3, <2>2 DEF OneInside, Inside
  <2>6. Agree'
    BY <1>1, <1>2, <1>3, <2>1, <2>2, <2>3 DEF Calm, Agree, Inside, Resetting
  <2> QED BY <1>2, <2>1, <2>4, <2>5, <2>6 DEF Calm
<1> QED BY <1>2, <1>4, <1>5, <1>6 DEF DeadlineInv, Calm

(* Inside the Once the error is stored. *)
LEMMA InvStoreState ==
  ASSUME DeadlineInv, NEW t \in Timers, StoreState(t) PROVE DeadlineInv'
<1>s. Typed /\ Current /\ (~overtaken => Calm)
  BY DEF DeadlineInv, Calm
<1>1. /\ UNCHANGED <<req, calls, overtaken, crashed>> /\ timer[t].pc = "inside"
      /\ Callback(t, "stored") /\ "stored" \in TimerPcs
      /\ ctx' \in [gen : Nat, had : BOOLEAN, once : {"new", "busy", "done"}, state : {0, 1},
                   chan : {"open", "closed"}, set : BOOLEAN]
      /\ ctx'.gen = ctx.gen /\ ctx'.had = ctx.had /\ ctx'.state = 1 /\ ctx'.chan = ctx.chan
      /\ ctx'.once = ctx.once
  BY <1>s DEF StoreState, TimerPcs, Firing, Acting, Typed
<1>2. /\ timer' \in [Timers -> [pc : TimerPcs, kind : Kinds, gen : Nat, req : Nat]]
      /\ timer'[t].pc = "stored" /\ timer'[t].gen = timer[t].gen /\ timer'[t].req = timer[t].req
      /\ \A u \in Timers : u # t => timer'[u] = timer[u]
      /\ \A u \in Timers : u > calls => timer'[u].pc = "unused"
  BY <1>s, <1>1, MoveTimer
<1>3. Typed'
  BY <1>s, <1>1, <1>2 DEF Typed
<1>4. Current'
  BY <1>s, <1>1, <1>2 DEF Current
<1>5. ASSUME ~overtaken PROVE Calm'
  <2>1. Calm
    BY <1>5, <1>s
  <2>2. req.pc \notin Resetting /\ timer[t].gen = ctx.gen
    BY <1>1, <2>1 DEF Calm, Apart, Acting
  <2>3. ctx.once = "busy" /\ \A u \in Timers : u # t => timer[u].pc \notin Inside
    BY <1>1, <2>1 DEF Calm, OneInside, Inside
  <2>4. Apart'
    BY <1>1, <1>2, <2>1, <2>2 DEF Calm, Apart
  <2>5. OneInside'
    BY <1>1, <1>2, <2>3 DEF OneInside, Inside
  <2>6. Agree'
    BY <1>1, <1>2, <2>1, <2>2, <2>3 DEF Calm, Agree, Inside, Resetting
  <2> QED BY <1>1, <2>1, <2>4, <2>5, <2>6 DEF Calm
<1> QED BY <1>1, <1>3, <1>4, <1>5 DEF DeadlineInv, Calm

(* The channel is closed, and nobody has closed it before. *)
LEMMA InvCloseDone ==
  ASSUME DeadlineInv, NEW t \in Timers, CloseDone(t) PROVE DeadlineInv'
<1>s. Typed /\ Current /\ (~overtaken => Calm)
  BY DEF DeadlineInv, Calm
<1>1. /\ UNCHANGED <<req, calls, overtaken>> /\ timer[t].pc = "stored"
      /\ crashed' <=> ctx.chan = "closed" \/ ctx.once # "busy"
      /\ Callback(t, "over") /\ "over" \in TimerPcs
      /\ ctx' \in [gen : Nat, had : BOOLEAN, once : {"new", "busy", "done"}, state : {0, 1},
                   chan : {"open", "closed"}, set : BOOLEAN]
      /\ ctx'.gen = ctx.gen /\ ctx'.had = ctx.had /\ ctx'.state = ctx.state /\ ctx'.chan = "closed"
      /\ ctx'.once = "done"
  BY <1>s DEF CloseDone, TimerPcs, Firing, Acting, Typed
<1>2. /\ timer' \in [Timers -> [pc : TimerPcs, kind : Kinds, gen : Nat, req : Nat]]
      /\ timer'[t].pc = "over" /\ timer'[t].gen = timer[t].gen /\ timer'[t].req = timer[t].req
      /\ \A u \in Timers : u # t => timer'[u] = timer[u]
      /\ \A u \in Timers : u > calls => timer'[u].pc = "unused"
  BY <1>s, <1>1, MoveTimer
<1>3. Typed'
  BY <1>s, <1>1, <1>2 DEF Typed
<1>4. Current'
  BY <1>s, <1>1, <1>2 DEF Current
<1>5. ASSUME ~overtaken PROVE Calm'
  <2>1. Calm
    BY <1>5, <1>s
  <2>2. req.pc \notin Resetting /\ timer[t].gen = ctx.gen
    BY <1>1, <2>1 DEF Calm, Apart, Acting
  <2>3. ctx.once = "busy" /\ \A u \in Timers : u # t => timer[u].pc \notin Inside
    BY <1>1, <2>1 DEF Calm, OneInside, Inside
  <2>4. ctx.chan # "closed" /\ ctx.state = 1
    BY <1>1, <2>1, <2>2, <2>3 DEF Calm, Agree, Resetting
  <2>5. Apart'
    BY <1>1, <1>2, <2>1, <2>2 DEF Calm, Apart, Acting
  <2>6. OneInside'
    BY <1>1, <1>2, <2>3 DEF OneInside, Inside
  <2>7. Agree'
    BY <1>1, <1>2, <2>2, <2>3, <2>4 DEF Agree, Inside, Resetting
  <2> QED BY <1>1, <2>3, <2>4, <2>5, <2>6, <2>7 DEF Calm
<1> QED BY <1>1, <1>3, <1>4, <1>5 DEF DeadlineInv, Calm

(* Every step keeps the invariant. *)
LEMMA DeadlineNext == ASSUME DeadlineAssumption PROVE DeadlineInv /\ [Next]_vars => DeadlineInv'
<1> SUFFICES ASSUME DeadlineInv, [Next]_vars PROVE DeadlineInv'
  OBVIOUS
<1>1. CASE UNCHANGED vars
  BY <1>1 DEF vars, DeadlineInv, Typed, Current, Apart, OneInside, Agree
<1>2. CASE Reset
  BY <1>2, InvTakeContext, InvReset DEF Reset
<1>3. CASE DoAborted \/ ReadBody \/ Finish \/ \E answered \in BOOLEAN : DoReturns(answered)
  BY <1>3, InvFlow
<1>4. CASE StopTimer \/ StepReturns
  BY <1>4, InvStop
<1>5. ASSUME NEW kind \in Kinds, StartCall(kind) PROVE DeadlineInv'
  BY <1>5, InvStartCall
<1>6. ASSUME NEW t \in Timers, Fire(t) \/ CheckFlag(t) \/ CancelIfGeneration(t) PROVE DeadlineInv'
  BY <1>6, InvFire, InvCompare
<1>7. ASSUME NEW t \in Timers, Cancel(t) PROVE DeadlineInv'
  BY <1>7, InvEnterOnce, InvStoreState, InvCloseDone DEF Cancel
<1> QED BY <1>1, <1>2, <1>3, <1>4, <1>5, <1>6, <1>7 DEF Next

(* A deadline hits the request it was armed in: a callback that comes when *)
(* the context serves a later request leaves it alone (CancelIfGeneration, *)
(* Reset), unless Reset ran between its comparison and its Cancel.         *)
THEOREM DeadlinesHitTheirOwn == ASSUME DeadlineAssumption PROVE Spec => [][HitsOwn]_vars
<1>1. DeadlineInv /\ [Next]_vars => [HitsOwn]_vars
  <2> SUFFICES ASSUME DeadlineInv, NEW t \in Timers, timer[t].pc = "inside", ~overtaken
               PROVE  timer[t].req = req.n
    BY DEF HitsOwn
  <2>1. timer[t].gen = ctx.gen /\ req.pc \notin Resetting
    BY DEF DeadlineInv, Apart, Acting
  <2> QED BY <2>1 DEF DeadlineInv, Current, Resetting
<1> QED BY <1>1, DeadlineInit, DeadlineNext, PTL DEF Spec

(* The done channel of a running request is closed only with an error to   *)
(* report, and an error is reported only by one who closes it (Cancel, Err *)
(* and Done of the context), outside the same gap.                         *)
THEOREM DoneHasError == ASSUME DeadlineAssumption PROVE Spec => []Consistent
<1>1. DeadlineInv => Consistent
  <2> SUFFICES ASSUME DeadlineInv, ~overtaken, req.pc \notin {"idle"} \cup Resetting
               PROVE  /\ ctx.chan = "closed" => ctx.state # 0
                      /\ ctx.state # 0 => ctx.chan = "closed" \/ \E t \in Timers : timer[t].pc = "stored"
    BY DEF Consistent
  <2>1. Typed /\ OneInside /\ Agree
    BY DEF DeadlineInv
  <2>2. ctx.chan = "closed" => ctx.state # 0
    BY <2>1 DEF Agree, Resetting
  <2>3. ASSUME ctx.state # 0, ctx.chan # "closed" PROVE \E t \in Timers : timer[t].pc = "stored"
    <3>1. ctx.once = "busy"
      BY <2>1, <2>3 DEF Agree, Resetting, Typed
    <3>2. PICK t \in Timers : timer[t].pc \in Inside
      BY <2>1, <3>1 DEF OneInside
    <3> QED BY <2>1, <2>3, <3>2 DEF Agree, Resetting, Inside
  <2> QED BY <2>2, <2>3
<1> QED BY <1>1, DeadlineInit, DeadlineNext, PTL DEF Spec

(* However many callbacks a request has, the done channel is closed once   *)
(* and the Once is not replaced under its user (Cancel), outside the gap.  *)
THEOREM ClosesOnce == ASSUME DeadlineAssumption PROVE Spec => []NoPanic
<1>1. DeadlineInv => NoPanic
  BY DEF DeadlineInv, NoPanic
<1> QED BY <1>1, DeadlineInit, DeadlineNext, PTL DEF Spec
=============================================================================
