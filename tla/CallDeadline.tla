---------------------------- MODULE CallDeadline ----------------------------
(***************************************************************************)
(* The deadline of an upstream call (rctx/context.go, engine/steps/http.go *)
(* and wheelTick of engine/steps/timer_wheel.go).  A request borrows a     *)
(* pooled context, resets it, and makes calls under it: each call arms a   *)
(* timer, either in the wheel or, when that is full, with time.AfterFunc,  *)
(* and the timer's callback cancels the context: the call in flight fails. *)
(* A callback that comes late must not hit whoever has the context by      *)
(* then, which the generation number is for.  Reset and the callbacks      *)
(* share no lock, so each of their accesses is a step.  How the wheel      *)
(* finds its timers is TimerWheel; what a call does with its answer is     *)
(* left out.  InitSlots allocates doneChan with the context, so it is      *)
(* never nil.                                                              *)
(***************************************************************************)
EXTENDS Naturals

CONSTANTS
    MaxRequests,  \* bound on the requests that use the context
    MaxCalls      \* bound on the upstream calls, over all requests

DeadlineAssumption == MaxRequests \in Nat /\ MaxCalls \in Nat

Timers == 1..MaxCalls
Kinds == {"wheel", "after"}

VARIABLES
    ctx,        \* the timeout fields of the context
    req,        \* the goroutine of the request that has the context
    timer,      \* per timer: its callback, and what it was armed for
    calls,      \* calls made
    overtaken,  \* Reset ran while a callback that had passed the generation check was at work
    crashed     \* the process ended: doneChan closed twice, or cancelOnce replaced under its user

vars == <<ctx, req, timer, calls, overtaken, crashed>>

(* A callback past its last check of the generation. *)
Acting == {"checked", "inside", "stored"}
Resetting == {"gen", "once", "state", "chan"}
Firing == {"taken", "run"} \cup Acting

Unused == [pc |-> "unused", kind |-> "wheel", gen |-> 0, req |-> 0]

Init ==
    /\ ctx = [gen |-> 0, had |-> FALSE, once |-> "new", state |-> 0, chan |-> "open", set |-> FALSE]
    /\ req = [pc |-> "idle", n |-> 0, need |-> FALSE, call |-> 0]
    /\ timer = [t \in Timers |-> Unused]
    /\ calls = 0 /\ overtaken = FALSE /\ crashed = FALSE

Go(pc) == req' = [req EXCEPT !.pc = pc]
Callback(t, pc) == timer' = [timer EXCEPT ![t].pc = pc]

-----------------------------------------------------------------------------
(* Reset, when the next request takes the context from the pool.           *)

(* Only a context some call armed a deadline on is cleaned up. *)
TakeContext ==
    /\ req.pc = "idle" /\ req.n < MaxRequests
    /\ req' = [req EXCEPT !.n = @ + 1, !.need = ctx.state # 0,
                          !.pc = IF ctx.had THEN "gen" ELSE "flow"]
    /\ ctx' = [ctx EXCEPT !.had = FALSE]
    /\ overtaken' = (overtaken \/ \E t \in Timers : timer[t].pc \in Acting)
    /\ UNCHANGED <<timer, calls, crashed>>

(* Faulty variant: the generation stays. *)
SameGeneration ==
    /\ req.pc = "gen"
    /\ Go("once")
    /\ UNCHANGED <<ctx, timer, calls, overtaken, crashed>>

NextGeneration ==
    /\ req.pc = "gen"
    /\ ctx' = [ctx EXCEPT !.gen = @ + 1]
    /\ Go("once")
    /\ UNCHANGED <<timer, calls, overtaken, crashed>>

NewOnce ==
    /\ req.pc = "once"
    /\ ctx' = [ctx EXCEPT !.set = FALSE, !.once = "new"]
    /\ Go("state")
    /\ UNCHANGED <<timer, calls, overtaken, crashed>>

ZeroState ==
    /\ req.pc = "state"
    /\ ctx' = [ctx EXCEPT !.state = 0]
    /\ Go("chan")
    /\ UNCHANGED <<timer, calls, overtaken, crashed>>

NewChan ==
    /\ req.pc = "chan"
    /\ ctx' = [ctx EXCEPT !.chan = IF req.need THEN "open" ELSE @]
    /\ Go("flow")
    /\ UNCHANGED <<timer, calls, overtaken, crashed>>

-----------------------------------------------------------------------------
(* The calls of the request. *)

(* SetUpstreamTimeout and the timer; "ended" is a retry within one step.   *)
StartCall(kind) ==
    /\ req.pc \in {"flow", "ended"} /\ calls < MaxCalls
    /\ calls' = calls + 1
    /\ ctx' = [ctx EXCEPT !.had = TRUE, !.set = TRUE]
    /\ timer' = [timer EXCEPT ![calls'] = [pc |-> "armed", kind |-> kind, gen |-> ctx.gen, req |-> req.n]]
    /\ req' = [req EXCEPT !.pc = "do", !.call = calls']
    /\ UNCHANGED <<overtaken, crashed>>

(* httpClient.Do returns with headers, or with an error of its own. *)
DoReturns(answered) ==
    /\ req.pc = "do"
    /\ Go(IF answered THEN "answered" ELSE "failed")
    /\ UNCHANGED <<ctx, timer, calls, overtaken, crashed>>

(* Do gives up because the context is done. *)
DoAborted ==
    /\ req.pc = "do" /\ ctx.set /\ ctx.chan = "closed"
    /\ Go("failed")
    /\ UNCHANGED <<ctx, timer, calls, overtaken, crashed>>

(* deadlineTimer.cancel stops a timer of the wheel unless its callback has *)
(* begun; one of time.AfterFunc is stopped when the step returns.  Then    *)
(* ClearUpstreamTimeout.                                                   *)
StopTimer ==
    LET t == req.call IN
    /\ req.pc \in {"answered", "failed"}
    /\ timer' = [timer EXCEPT ![t].pc = IF timer[t].kind = "wheel" /\ @ \in {"armed", "taken"} THEN "over" ELSE @]
    /\ ctx' = [ctx EXCEPT !.set = FALSE]
    /\ Go(IF req.pc = "answered" THEN "body" ELSE "ended")
    /\ UNCHANGED <<calls, overtaken, crashed>>

(* The body has been read, or its own timer closed it, or reading failed.  *)
ReadBody ==
    /\ req.pc = "body"
    /\ Go("ended")
    /\ UNCHANGED <<ctx, timer, calls, overtaken, crashed>>

(* The step returns, and the deferred calls of t.Stop run. *)
StepReturns ==
    /\ req.pc = "ended"
    /\ timer' = [t \in Timers |-> IF timer[t].kind = "after" /\ timer[t].pc = "armed"
                                    THEN [timer[t] EXCEPT !.pc = "over"] ELSE timer[t]]
    /\ Go("flow")
    /\ UNCHANGED <<ctx, calls, overtaken, crashed>>

(* ReturnContext. *)
Finish ==
    /\ req.pc = "flow"
    /\ Go("idle")
    /\ UNCHANGED <<ctx, timer, calls, overtaken, crashed>>

-----------------------------------------------------------------------------
(* The callback of a timer. *)

(* The one ticker of the wheel takes the reference, or a goroutine of      *)
(* time.AfterFunc starts.                                                  *)
Fire(t) ==
    /\ timer[t].pc = "armed"
    /\ timer[t].kind = "wheel" => \A u \in Timers : ~(timer[u].kind = "wheel" /\ timer[u].pc \in Firing)
    /\ Callback(t, IF timer[t].kind = "wheel" THEN "taken" ELSE "run")
    /\ UNCHANGED <<ctx, req, calls, overtaken, crashed>>

(* The entry has not been flagged. *)
CheckFlag(t) ==
    /\ timer[t].pc = "taken"
    /\ Callback(t, "run")
    /\ UNCHANGED <<ctx, req, calls, overtaken, crashed>>

CancelIfGeneration(t) ==
    LET same == timer[t].gen = ctx.gen IN
    /\ timer[t].pc = "run"
    /\ Callback(t, IF same THEN "checked" ELSE "over")
    /\ overtaken' = (overtaken \/ (same /\ req.pc \in Resetting))
    /\ UNCHANGED <<ctx, req, calls, crashed>>

(* cancelOnce.Do: the first runs, others wait for it and return. *)
EnterOnce(t) ==
    /\ timer[t].pc = "checked" /\ ctx.once # "busy"
    /\ ctx' = [ctx EXCEPT !.once = IF @ = "new" THEN "busy" ELSE @]
    /\ Callback(t, IF ctx.once = "new" THEN "inside" ELSE "over")
    /\ UNCHANGED <<req, calls, overtaken, crashed>>

StoreState(t) ==
    /\ timer[t].pc = "inside"
    /\ ctx' = [ctx EXCEPT !.state = 1]
    /\ Callback(t, "stored")
    /\ UNCHANGED <<req, calls, overtaken, crashed>>

(* Closing a closed channel panics, and so does unlocking a Once that has  *)
(* been replaced.                                                          *)
CloseDone(t) ==
    /\ timer[t].pc = "stored"
    /\ ctx' = [ctx EXCEPT !.chan = IF @ = "open" THEN "closed" ELSE @, !.once = "done"]
    /\ crashed' = (ctx.chan = "closed" \/ ctx.once # "busy")
    /\ Callback(t, "over")
    /\ UNCHANGED <<req, calls, overtaken>>

-----------------------------------------------------------------------------
Reset == TakeContext \/ NextGeneration \/ NewOnce \/ ZeroState \/ NewChan
Cancel(t) == EnterOnce(t) \/ StoreState(t) \/ CloseDone(t)

Next ==
    /\ ~crashed
    /\ \/ Reset \/ DoAborted \/ StopTimer \/ ReadBody \/ StepReturns \/ Finish
       \/ \E kind \in Kinds : StartCall(kind)
       \/ \E answered \in BOOLEAN : DoReturns(answered)
       \/ \E t \in Timers : Fire(t) \/ CheckFlag(t) \/ CancelIfGeneration(t) \/ Cancel(t)

(* What goes on by itself: a timer of time.AfterFunc fires, callbacks run, *)
(* and a call whose context is done returns.  That a timer of the wheel    *)
(* fires is not assumed (see TimerWheel), nor that an upstream answers.    *)
Proceed ==
    /\ ~crashed
    /\ \/ DoAborted
       \/ \E t \in Timers : timer[t].kind = "after" /\ Fire(t)
       \/ \E t \in Timers : CheckFlag(t) \/ CancelIfGeneration(t) \/ Cancel(t)

Spec == Init /\ [][Next]_vars /\ WF_vars(Proceed)

-----------------------------------------------------------------------------
(* Properties.  `overtaken` marks the gap between the comparison of the    *)
(* generation and Cancel: a Reset in it is seen by neither side.           *)

(* A deadline hits the request it was armed in: a callback that comes when *)
(* the context serves a later request leaves it alone (generation).        *)
HitsOwn ==
    \A t \in Timers : timer[t].pc = "inside" /\ timer'[t].pc = "stored" /\ ~overtaken => timer[t].req = req.n

(* While a request runs, a done channel that is closed has an error to     *)
(* report, as net/http requires of a context, and an error has closed it.  *)
Consistent ==
    ~overtaken /\ req.pc \notin {"idle"} \cup Resetting =>
      /\ ctx.chan = "closed" => ctx.state # 0
      /\ ctx.state # 0 => ctx.chan = "closed" \/ \E t \in Timers : timer[t].pc = "stored"

(* The channel is closed once, however many callbacks a request has. *)
NoPanic == ~overtaken => ~crashed

(* A call whose upstream never answers, under a timer of time.AfterFunc.   *)
Stalled == req.pc = "do" /\ timer[req.call].kind = "after"

(* It ends: Stalled ~> Released (in the gap, a callback may be lost). *)
Released == req.pc # "do" \/ overtaken

-----------------------------------------------------------------------------
(* Readings that do not hold. *)

(* A deadline hits the call it was armed for.  Not so: calls of a request  *)
(* share its generation, and a callback at work, or a timer of AfterFunc   *)
(* during a retry, outlives its call.                                      *)
HitsOwnCall ==
    \A t \in Timers : timer[t].pc = "inside" /\ timer'[t].pc = "stored" => req.pc = "do" /\ req.call = t

(* A retry can reach the upstream.  shouldRetryError retries a call that   *)
(* ran into its deadline, but the context stays done until Reset.          *)
RetryCanSucceed == req.pc = "do" => ctx.chan = "open"

(* A Reset in the gap is harmless. *)
GapHarmless == ~crashed /\ (req.pc = "flow" /\ ctx.state = 0 => ctx.chan # "closed")
=============================================================================
