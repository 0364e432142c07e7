--------------------------- MODULE IngestPipeline ---------------------------
(***************************************************************************)
(* The ingest pipeline (internal/ingest/pipeline.go), for one kind of      *)
(* event: Emit pushes into a ring, or past a full ring into an overflow    *)
(* channel; fanout goroutines move events on to the channel of every sink; *)
(* each sink has workers that batch and write, started by a monitor when   *)
(* the channel fills and leaving when it is light; Stop drains.            *)
(*                                                                         *)
(* The standard logger writes into the pipeline (log_writer.go), so an     *)
(* event of KindLog is emitted with the logger's mutex held, and what      *)
(* Emit itself logs needs that mutex again.                                *)
(***************************************************************************)
EXTENDS Integers, Sequences, FiniteSets, SequencesExt

CONSTANTS
    Events,        \* each emitted once, by a goroutine of its own
    Fanouts, Sinks,
    RingCap, OverCap, ChanCap,
    MaxItems,      \* of a batch
    MinWorkers, MaxWorkers,
    HighFill, MidFill, LowFill  \* percent of the channel: start a worker, start one if growing, leave

PipelineAssumption ==
    /\ {RingCap, OverCap, ChanCap, MaxItems, MinWorkers} \subseteq Nat \ {0}
    /\ MaxWorkers >= MinWorkers

Nothing == "nothing"
Logger == "none"

VARIABLES
    isLog,             \* configuration: the kind is KindLog
    logMu,             \* holder of the standard logger's mutex
    emitter,           \* per event: new, claimed, park, relog, sent, dropped
    ring,              \* events with whether they are published
    overflow,
    fan,               \* per fanout: pc, event in hand, sinks it still goes to
    ch,                \* per sink
    worker,            \* per sink and worker: on, may leave, batch
    flushed,           \* per sink and event: times it was in a batch handed to the sink
    lost,              \* per sink: events drainAll gave up
    stopping, closed   \* Stop: stopCh closed, sink channels closed

vars == <<isLog, logMu, emitter, ring, overflow, fan, ch, worker, flushed, lost, stopping, closed>>

front == <<logMu, emitter>>
back == <<worker, flushed>>
Workers == 1 .. MaxWorkers
Off == [on |-> FALSE, leave |-> FALSE, batch |-> <<>>]
On == [Off EXCEPT !.on = TRUE]

Init ==
    /\ isLog \in BOOLEAN
    /\ logMu = Logger
    /\ emitter = [e \in Events |-> "new"]
    /\ ring = <<>> /\ overflow = <<>>
    /\ fan = [f \in Fanouts |-> [pc |-> "ring", event |-> Nothing, to |-> {}, ret |-> "ring"]]
    /\ ch = [s \in Sinks |-> <<>>]
    /\ worker = [s \in Sinks |-> [w \in Workers |-> IF w <= MinWorkers THEN On ELSE Off]]
    /\ flushed = [s \in Sinks |-> [e \in Events |-> 0]] /\ lost = [s \in Sinks |-> {}]
    /\ stopping = FALSE /\ closed = FALSE

-----------------------------------------------------------------------------
(* Emit. *)

(* A log line is written with the logger's mutex held until Emit returns. *)
Enter(e) == IF isLog THEN logMu = Logger /\ logMu' = e ELSE UNCHANGED logMu
Leave(e) == IF isLog THEN logMu' = Logger ELSE UNCHANGED logMu

Claim(e) ==
    /\ emitter[e] = "new" /\ Len(ring) < RingCap
    /\ Enter(e)
    /\ ring' = Append(ring, [event |-> e, ready |-> FALSE])
    /\ emitter' = [emitter EXCEPT ![e] = "claimed"]
    /\ UNCHANGED <<isLog, overflow, fan, ch, back, lost, stopping, closed>>

Publish(e) ==
    /\ emitter[e] = "claimed"
    /\ ring' = [i \in DOMAIN ring |-> IF ring[i].event = e THEN [ring[i] EXCEPT !.ready = TRUE] ELSE ring[i]]
    /\ emitter' = [emitter EXCEPT ![e] = "sent"]
    /\ Leave(e)
    /\ UNCHANGED <<isLog, overflow, fan, ch, back, lost, stopping, closed>>

RingFull(e) ==
    /\ emitter[e] = "new" /\ Len(ring) = RingCap
    /\ Enter(e)
    /\ emitter' = [emitter EXCEPT ![e] = "park"]
    /\ UNCHANGED <<isLog, ring, overflow, fan, ch, back, lost, stopping, closed>>

Park(e) ==
    /\ emitter[e] = "park" /\ Len(overflow) < OverCap
    /\ overflow' = Append(overflow, e)
    /\ emitter' = [emitter EXCEPT ![e] = "sent"]
    /\ Leave(e)
    /\ UNCHANGED <<isLog, ring, fan, ch, back, lost, stopping, closed>>

(* At once when allowDrop, else when the timeout passes; and *)
(* log.Printf says so.                                                     *)
Drop(e) ==
    /\ emitter[e] = "park" /\ Len(overflow) = OverCap
    /\ emitter' = [emitter EXCEPT ![e] = "relog"]
    /\ UNCHANGED <<isLog, logMu, ring, overflow, fan, ch, back, lost, stopping, closed>>

Relog(e) ==
    /\ emitter[e] = "relog" /\ logMu = Logger
    /\ emitter' = [emitter EXCEPT ![e] = "dropped"]
    /\ UNCHANGED <<isLog, logMu, ring, overflow, fan, ch, back, lost, stopping, closed>>

-----------------------------------------------------------------------------
(* fanOut: the ring until Pop finds nothing ready, the overflow until it   *)
(* is empty, then stopCh.                                                  *)

Popped == ring # <<>> /\ Head(ring).ready

FanRing(f) ==
    /\ fan[f].pc = "ring"
    /\ IF Popped
         THEN /\ fan' = [fan EXCEPT ![f] = [pc |-> "send", event |-> Head(ring).event, to |-> Sinks, ret |-> "ring"]]
              /\ ring' = Tail(ring)
         ELSE fan' = [fan EXCEPT ![f].pc = "over"] /\ UNCHANGED ring
    /\ UNCHANGED <<isLog, front, overflow, ch, back, lost, stopping, closed>>

FanOver(f) ==
    /\ fan[f].pc = "over"
    /\ IF overflow # <<>>
         THEN /\ fan' = [fan EXCEPT ![f] = [pc |-> "send", event |-> Head(overflow), to |-> Sinks, ret |-> "over"]]
              /\ overflow' = Tail(overflow)
         ELSE fan' = [fan EXCEPT ![f].pc = IF stopping THEN "drain" ELSE "ring"] /\ UNCHANGED overflow
    /\ UNCHANGED <<isLog, front, ring, ch, back, lost, stopping, closed>>

FanSend(f, s) ==
    /\ fan[f].pc = "send" /\ s \in fan[f].to /\ Len(ch[s]) < ChanCap
    /\ ch' = [ch EXCEPT ![s] = Append(@, fan[f].event)]
    /\ fan' = [fan EXCEPT ![f].to = @ \ {s}]
    /\ UNCHANGED <<isLog, front, ring, overflow, back, lost, stopping, closed>>

FanSent(f) ==
    /\ fan[f].pc = "send" /\ fan[f].to = {}
    /\ fan' = [fan EXCEPT ![f].pc = fan[f].ret, ![f].event = Nothing]
    /\ UNCHANGED <<isLog, front, ring, overflow, ch, back, lost, stopping, closed>>

(* drainAll: the ring only, and past a full channel the event is given up. *)
Drain(f) ==
    /\ fan[f].pc = "drain"
    /\ IF Popped
         THEN LET full == {s \in Sinks : Len(ch[s]) = ChanCap} IN
              /\ ring' = Tail(ring)
              /\ ch' = [s \in Sinks |-> IF s \in full THEN ch[s] ELSE Append(ch[s], Head(ring).event)]
              /\ lost' = [s \in Sinks |-> IF s \in full THEN lost[s] \cup {Head(ring).event} ELSE lost[s]]
              /\ UNCHANGED fan
         ELSE fan' = [fan EXCEPT ![f].pc = "done"] /\ UNCHANGED <<ring, ch, lost>>
    /\ UNCHANGED <<isLog, front, overflow, back, stopping, closed>>

-----------------------------------------------------------------------------
(* runWorker and scaleMonitor. *)

Set(s, w, to) == worker' = [worker EXCEPT ![s][w] = to]

Take(s, w) ==
    /\ worker[s][w].on /\ ~worker[s][w].leave /\ ch[s] # <<>> /\ Len(worker[s][w].batch) < MaxItems
    /\ Set(s, w, [worker[s][w] EXCEPT !.batch = Append(@, Head(ch[s]))])
    /\ ch' = [ch EXCEPT ![s] = Tail(@)]
    /\ UNCHANGED <<isLog, front, ring, overflow, fan, flushed, lost, stopping, closed>>

Flushed(s, batch) ==
    flushed' = [flushed EXCEPT ![s] = [e \in Events |-> IF e \in ToSet(batch) THEN @[e] + 1 ELSE @[e]]]

(* Faulty variant: the batch is not emptied. *)
FlushKeeps(s, w) ==
    /\ worker[s][w].on /\ worker[s][w].batch # <<>>
    /\ Flushed(s, worker[s][w].batch)
    /\ UNCHANGED <<isLog, front, worker, ring, overflow, fan, ch, lost, stopping, closed>>

(* When the batch is full or the ticker fires; a batch that cannot be      *)
(* formatted or written is gone, and nothing else tells it apart.          *)
Flush(s, w) ==
    /\ worker[s][w].on /\ worker[s][w].batch # <<>>
    /\ Flushed(s, worker[s][w].batch)
    /\ Set(s, w, [worker[s][w] EXCEPT !.batch = <<>>])
    /\ UNCHANGED <<isLog, front, ring, overflow, fan, ch, lost, stopping, closed>>

Live(s) == {w \in Workers : worker[s][w].on}
Fill(s) == (Len(ch[s]) * 100) \div ChanCap

(* After a flush on the ticker: more workers than the minimum are counted  *)
(* and the channel is light; the worker is no longer counted once it left. *)
MayLeave(s, w) ==
    /\ worker[s][w].on /\ ~worker[s][w].leave /\ worker[s][w].batch = <<>> /\ ~closed
    /\ Cardinality(Live(s)) > MinWorkers /\ Fill(s) < LowFill
    /\ Set(s, w, [worker[s][w] EXCEPT !.leave = TRUE])
    /\ UNCHANGED <<isLog, front, ring, overflow, fan, ch, flushed, lost, stopping, closed>>

Left(s, w) ==
    /\ worker[s][w].leave \/ (closed /\ worker[s][w].on /\ ch[s] = <<>> /\ worker[s][w].batch = <<>>)
    /\ Set(s, w, Off)
    /\ UNCHANGED <<isLog, front, ring, overflow, fan, ch, flushed, lost, stopping, closed>>

(* Past HighFill always, past MidFill when the channel grew since the last *)
(* look; once more perhaps with stopCh closed, when the ticker is chosen.  *)
ScaleUp(s, w) ==
    /\ ~worker[s][w].on
    /\ Fill(s) > MidFill
    /\ Set(s, w, On)
    /\ UNCHANGED <<isLog, front, ring, overflow, fan, ch, flushed, lost, stopping, closed>>

-----------------------------------------------------------------------------
Stop ==
    /\ ~stopping
    /\ stopping' = TRUE
    /\ UNCHANGED <<isLog, front, ring, overflow, fan, ch, back, lost, closed>>

CloseSinks ==
    /\ stopping /\ ~closed /\ \A f \in Fanouts : fan[f].pc = "done"
    /\ closed' = TRUE
    /\ UNCHANGED <<isLog, front, ring, overflow, fan, ch, back, lost, stopping>>

Emitting(e) == Claim(e) \/ Publish(e) \/ RingFull(e) \/ Park(e) \/ Drop(e) \/ Relog(e)
Fanning(f) == FanRing(f) \/ FanOver(f) \/ FanSent(f) \/ Drain(f) \/ \E s \in Sinks : FanSend(f, s)
ScaleNeeded(s, w) == ~stopping /\ Fill(s) > HighFill /\ ScaleUp(s, w)
Working(s, w) == Take(s, w) \/ Flush(s, w) \/ Left(s, w)

Next ==
    \/ \E e \in Events : Emitting(e)
    \/ \E f \in Fanouts : Fanning(f)
    \/ \E s \in Sinks, w \in Workers : Working(s, w) \/ MayLeave(s, w) \/ ScaleUp(s, w)
    \/ Stop \/ CloseSinks

(* Goroutines run on, tickers and timers fire. *)
Fairness ==
    /\ \A e \in Events : WF_vars(Emitting(e))
    /\ \A f \in Fanouts : WF_vars(Fanning(f))
    /\ \A s \in Sinks, w \in Workers : WF_vars(Take(s, w)) /\ WF_vars(Flush(s, w)) /\ WF_vars(Left(s, w))
                                   /\ WF_vars(ScaleNeeded(s, w))
    /\ WF_vars(CloseSinks)

Spec == Init /\ [][Next]_vars /\ Fairness

-----------------------------------------------------------------------------
(* Properties. *)

InHand(e, s) == {f \in Fanouts : fan[f].event = e /\ s \in fan[f].to}
Batched(e, s) == {w \in Workers : e \in ToSet(worker[s][w].batch)}
Count(seq, e) == Cardinality({i \in DOMAIN seq : seq[i] = e})

(* An event Emit took is, for each sink, in exactly one place: waiting, in *)
(* a goroutine's hands, in the sink's channel, in a batch, flushed once or *)
(* given up by drainAll.                                                   *)
InOnePlace ==
    \A e \in Events, s \in Sinks :
        LET waiting == Cardinality({i \in DOMAIN ring : ring[i].event = e}) + Count(overflow, e)
            inside == Cardinality(InHand(e, s)) + Count(ch[s], e) + Cardinality(Batched(e, s))
            ended == flushed[s][e] + Cardinality({e} \cap lost[s])
        IN waiting + inside + ended = IF emitter[e] \in {"claimed", "sent"} THEN 1 ELSE 0

Short(s) == Cardinality({w \in Workers : worker[s][w].on /\ ~worker[s][w].leave}) < MinWorkers

(* Until Stop, what Emit took reaches every sink, unless its workers left  *)
(* together and there are fewer than MinWorkers.                           *)
AllArrived == stopping \/ \A e \in Events, s \in Sinks : emitter[e] = "sent" => flushed[s][e] > 0 \/ Short(s)
Reaches == []<>AllArrived

(* Stop gets past the fanouts, unless a sink is short of workers.          *)
StopEnded == stopping => closed \/ \E s \in Sinks : Short(s)
StopEnds == []<>StopEnded

(* Emit "Never blocks the caller."                                         *)
EmitReturns == \A e \in Events : (emitter[e] = "relog") ~> (emitter[e] = "dropped")

(* minWorkers is the "permanent goroutine count" of a sink.                *)
WorkersStay == ~stopping => \A s \in Sinks : ~Short(s)

(* Stop "drains remaining events".                                         *)
StopDrains == closed => overflow = <<>> /\ \A s \in Sinks : lost[s] = {}
=============================================================================
