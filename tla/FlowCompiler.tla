---------------------------- MODULE FlowCompiler ----------------------------
(***************************************************************************)
(* The flow compiler of control/compiler.go and the instruction loop of    *)
(* engine/executor.go.  A flow is a tree of steps; CompileExecutable        *)
(* flattens it into one table of instructions with absolute jumps, gives    *)
(* every variable name a slot, and frees a slot for reuse after the step    *)
(* that computeLastUse takes for the variable's last.  Execute then runs    *)
(* the table.                                                               *)
(*                                                                         *)
(* A step is a record: the action a, an id, a variable v, a second          *)
(* variable w (the source of a foreach, the traced variable of a leaf), a   *)
(* size n, the nested flows do and alt, and on_error as err.  Leaf actions  *)
(* stand for the ~300 of compileStep: "set" writes a variable, "use" reads  *)
(* one through a field that varRefsInStep lists, "post" reads one through   *)
(* a field it does not list (body_var, bind, response_header_vars, ...),    *)
(* and "exec" is a statement on a database that may fail.  The flows a      *)
(* step refers to by name are written in place: FragmentMap is only filled  *)
(* by BakeAll, which the gateway never calls, so a "call" is inlined.       *)
(*                                                                         *)
(* Values are sequences: empty for an unset slot, one element per element   *)
(* of a JSON array.  Instruction 1 is the stream flag, so that a handler     *)
(* address of 0 means none, as in the code (which counts from 0).           *)
(***************************************************************************)
EXTENDS Integers, Sequences, SequencesExt, FiniteSets, FiniteSetsExt, Functions, TLC

CONSTANTS
    Vars,       \* variable names
    ConstVar,   \* the route constant a flow may read
    Flows,      \* the flows that are compiled and run
    Failures,   \* sets of statement ids that fail
    MaxIter,    \* max_iter of a while
    MaxTxDepth, \* maxTxDepth
    MaxSlots    \* slots that are watched: above what any flow of Flows needs

FlowAssumption ==
    /\ ConstVar \in Vars
    /\ MaxIter \in Nat \ {0} /\ MaxTxDepth \in Nat \ {0} /\ MaxSlots \in Nat \ {0}

VARIABLES
    flow,    \* the flow
    order,   \* the order in which a Go map yields variable names
    routed,  \* how the route constant is bound: "none", "api", "endpoint"
    failing, \* the statements that fail in this run
    plan,    \* the compiled table
    m        \* the executing context and ExecutionState

vars == <<flow, order, routed, failing, plan, m>>

NoSlot == -1
Unset == <<>>
ConstValue == <<<<0, 0>>>>
Leaves == {"set", "use", "post", "exec"}
CommitOf(id) == id + 100     \* the id under which the COMMIT of transaction id may fail
CaseValue(c) == <<<<c, 1>>>> \* a switch case is taken on the value a set of that id writes
Written(s) == [i \in 1..s.n |-> <<s.id, i>>]

-----------------------------------------------------------------------------
(* Liveness: which references of a step the compiler knows of.             *)

(* varRefsInStep *)
Refs(s) == CASE s.a \in {"set", "use", "if", "switch", "while"} -> {s.v}
             [] s.a = "foreach" -> {s.v, s.w}
             [] OTHER -> {}

RECURSIVE FlowRefs(_)
(* varRefsInFlow follows Do, Then, Else and FlowName, not Cases or Branches. *)
FlowRefs(f) == UNION {Refs(f[i]) \cup (IF f[i].a \in {"if", "foreach", "while", "transaction", "call"}
                                       THEN FlowRefs(f[i].do) \cup FlowRefs(f[i].alt) ELSE {}) :
                        i \in 1..Len(f)}

(* computeLastUse looks into the branches of an if and the bodies of a     *)
(* foreach and a call; the bodies of a while, a transaction and a switch    *)
(* it does not follow.                                                      *)
Counted(s) == Refs(s) \cup (IF s.a \in {"if", "foreach", "call"}
                            THEN FlowRefs(s.do) \cup FlowRefs(s.alt) ELSE {})

(* Faulty variant: the branches of an if are not followed either. *)
LastUseFlat(f, v) == Max({0} \cup {i \in 1..Len(f) : v \in Refs(f[i])})
LastUse(f, v) == Max({0} \cup {i \in 1..Len(f) : v \in Counted(f[i])})

-----------------------------------------------------------------------------
(* The compiler: its state is the table, the slot map, the free list and    *)
(* the next slot.  An error ends compilation; the API is then not deployed. *)

NewCompiler == [table |-> <<>>, map |-> <<>>, free |-> <<>>, next |-> 0, err |-> FALSE]

Instr(op, id) == [op |-> op, id |-> id, s |-> NoSlot, x |-> NoSlot, iter |-> NoSlot,
                  t |-> 0, u |-> 0, val |-> <<>>, wrap |-> "", sub |-> <<>>]

Emit(c, i) == [c EXCEPT !.table = Append(@, i)]
PCof(c) == Len(c.table) + 1

GetSlot(c, v) ==
    IF v \in DOMAIN c.map THEN c
    ELSE IF c.free # <<>>
         THEN [c EXCEPT !.map = (v :> Last(c.free)) @@ @, !.free = Front(@)]
         ELSE [c EXCEPT !.map = (v :> c.next) @@ @, !.next = @ + 1]

(* releaseDeadSlots, for the variables in the order the map yields them. *)
ReleaseDeadSlots(c, dead) ==
    FoldLeft(LAMBDA acc, v : IF v \in dead \cap DOMAIN acc.map
                             THEN [acc EXCEPT !.free = Append(@, acc.map[v]),
                                              !.map = Restrict(@, DOMAIN @ \ {v})]
                             ELSE acc, c, order)

(* Every BREAK of the table, of an enclosing switch too, becomes a jump.   *)
LinkBreaks(c, exit) ==
    [c EXCEPT !.table = [i \in DOMAIN @ |-> IF @[i].op = "break"
                                            THEN [Instr("goto", 0) EXCEPT !.t = exit]
                                            ELSE @[i]]]

(* The on_error wrapper goes on the last instruction emitted.  A "jump" to a *)
(* flow that is not in FragmentMap is only recorded, for resolvePendingJumps, *)
(* which CompileExecutable does not call.                                    *)
OnError(c, s) == IF s.err \in {"continue", "status"} /\ c.table # <<>>
                 THEN [c EXCEPT !.table[Len(c.table)].wrap = s.err] ELSE c

(* The per-step hooks: a traced variable costs an instruction when it has   *)
(* a slot.                                                                  *)
TraceHook(c, s) == IF s.a \in Leaves /\ s.w \in DOMAIN c.map
                   THEN Emit(c, [Instr("trace", 0) EXCEPT !.s = c.map[s.w]]) ELSE c

RECURSIVE CompileStep(_, _)

BakeFlowRaw(f, c) == FoldLeft(LAMBDA acc, s : CompileStep(s, acc), c, f)

BakeFlow(f, c) ==
    FoldLeft(LAMBDA acc, i : ReleaseDeadSlots(CompileStep(f[i], acc),
                                              {v \in Vars : LastUse(f, v) = i}),
             c, [i \in 1..Len(f) |-> i])

(* The number of instructions a branch will take: it is compiled into a     *)
(* copy of the compiler.                                                    *)
SimulateBake(f, c) == Len(BakeFlowRaw(f, [c EXCEPT !.table = <<>>]).table)

(* An if: the gate, the then branch, a jump over the else branch.  Both     *)
(* lengths are taken before either branch is compiled.                      *)
CompileIf(s, c) ==
    LET then == PCof(c) + 1
        els == then + SimulateBake(s.do, c) + 1
        post == els + SimulateBake(s.alt, c)
        gate == [Instr("if", 0) EXCEPT !.s = IF s.v \in DOMAIN c.map THEN c.map[s.v] ELSE NoSlot,
                                       !.t = then, !.u = els]
    IN  BakeFlowRaw(s.alt, Emit(BakeFlowRaw(s.do, Emit(c, gate)), [Instr("goto", 0) EXCEPT !.t = post]))

(* A switch: each case is compiled with its own liveness pass. *)
CompileSwitch(s, c) ==
    LET c0 == GetSlot(c, s.v)
        at == PCof(c0)
        c1 == Emit(BakeFlow(s.do, Emit(c0, Instr("switch", 0))), Instr("break", 0))
        c2 == Emit(BakeFlow(s.alt, c1), Instr("break", 0))
        exit == PCof(c2)
    IN  LinkBreaks([c2 EXCEPT !.table[at] = [Instr("switch", 0) EXCEPT
                       !.s = c0.map[s.v], !.t = at + 1, !.u = PCof(c1), !.id = exit]], exit)

(* A foreach: two hidden slots, a gate that is filled in once the body is    *)
(* known, and LOOP_REPEAT.                                                  *)
CompileForeach(s, c) ==
    LET c0 == GetSlot([c EXCEPT !.next = @ + 2], s.v)
        at == PCof(c0)
        c1 == Emit(BakeFlowRaw(s.do, Emit(c0, Instr("loop", 0))),
                   [Instr("repeat", 0) EXCEPT !.t = at, !.iter = c.next])
    IN  [c1 EXCEPT !.table[at] = [Instr("loop", 0) EXCEPT
            !.s = IF s.w \in DOMAIN c1.map THEN c1.map[s.w] ELSE NoSlot,
            !.x = c0.map[s.v], !.iter = c.next, !.t = at + 1, !.u = PCof(c1)]]

(* A while: its condition must name a variable that has a slot. *)
CompileWhile(s, c) ==
    IF s.v \notin DOMAIN c.map THEN [c EXCEPT !.err = TRUE]
    ELSE LET c0 == [c EXCEPT !.next = @ + 1]
             at == PCof(c0)
             c1 == Emit(BakeFlowRaw(s.do, Emit(c0, Instr("while", 0))),
                        [Instr("goto", 0) EXCEPT !.t = at])
         IN  [c1 EXCEPT !.table[at] = [Instr("while", 0) EXCEPT
                 !.s = c.map[s.v], !.iter = c.next, !.t = at + 1, !.u = PCof(c1)]]

(* A transaction: BEGIN, the body, COMMIT, ROLLBACK, and the address of the *)
(* ROLLBACK patched into BEGIN.                                             *)
CompileTransaction(s, c) ==
    LET at == PCof(c)
        c1 == Emit(BakeFlowRaw(s.do, Emit(c, Instr("begin", s.id))), Instr("commit", CommitOf(s.id)))
    IN  [Emit(c1, Instr("rollback", 0)) EXCEPT !.table[at] = [Instr("begin", s.id) EXCEPT !.t = PCof(c1)]]

(* A parallel step: every branch is compiled with CompileExecutable, which  *)
(* starts a new table and new slots in the same compiler.                   *)
Fresh(c) == Emit([NewCompiler EXCEPT !.err = c.err], Instr("stream", 0))
CompileParallel(s, c) ==
    LET c1 == BakeFlow(s.do, Fresh(c))
        c2 == BakeFlow(s.alt, Fresh(c1))
    IN  Emit(c2, [Instr("parallel", 0) EXCEPT !.sub = <<c1.table, c2.table>>])

(* A leaf that writes or reads a variable, or runs a statement. *)
CompileLeaf(s, c) ==
    IF s.a = "exec" THEN Emit(c, Instr("exec", s.id))
    ELSE LET g == GetSlot(c, s.v)
             i == [Instr(IF s.a = "set" THEN "set" ELSE "use", s.id) EXCEPT !.s = g.map[s.v]]
         IN  Emit(g, IF s.a = "set" THEN [i EXCEPT !.val = Written(s)] ELSE i)

CompileCall(s, c) == BakeFlowRaw(s.do, c)

(* return, fail and capture_error. *)
CompileEnd(s, c) == Emit(c, Instr(s.a, s.id))

(* isControlFlowAction *)
ControlFlow == {"if", "switch", "call", "return", "fail", "capture"}

CompileStep(s, c) ==
    IF c.err THEN c
    ELSE LET c0 == CASE s.a \in Leaves -> CompileLeaf(s, c)
                     [] s.a = "if" -> CompileIf(s, c)
                     [] s.a = "switch" -> CompileSwitch(s, c)
                     [] s.a = "foreach" -> CompileForeach(s, c)
                     [] s.a = "while" -> CompileWhile(s, c)
                     [] s.a = "call" -> CompileCall(s, c)
                     [] s.a = "transaction" -> CompileTransaction(s, c)
                     [] s.a = "parallel" -> CompileParallel(s, c)
                     [] OTHER -> CompileEnd(s, c)
         IN  IF c0.err \/ s.a \in ControlFlow THEN c0 ELSE TraceHook(OnError(c0, s), s)

(* AllocConstantSlots, after compilation: at the API, or, for an endpoint,   *)
(* after RestoreSlots, which empties the free list.                          *)
ConstSlot(c) == GetSlot(IF routed = "endpoint" THEN [c EXCEPT !.free = <<>>] ELSE c, ConstVar).map[ConstVar]

-----------------------------------------------------------------------------
(* Execute *)

Stop == 0
Pending == -1   \* not compiled yet

Init ==
    /\ flow \in Flows
    /\ order \in SetToSeqs(Vars)
    /\ routed \in {"none", "api", "endpoint"}
    /\ failing \in Failures
    /\ plan = <<>>
    /\ m = [pc |-> Pending, slots |-> [s \in 0..MaxSlots |-> <<>>], ints |-> [s \in 0..MaxSlots |-> 0],
            failed |-> FALSE, handler |-> 0, depth |-> 0, db |-> {}, seen |-> <<>>]

fixed == <<flow, order, routed, failing>>

(* CompileExecutable, and the route constant written into its slot when a   *)
(* request comes in.                                                        *)
CompileExecutable ==
    /\ m.pc = Pending
    /\ LET c == BakeFlow(flow, Fresh(NewCompiler))
       IN  /\ plan' = IF c.err THEN <<>> ELSE c.table
           /\ m' = [m EXCEPT !.pc = IF c.err THEN Stop ELSE 1,
                             !.slots = IF routed = "none" THEN @ ELSE [@ EXCEPT ![ConstSlot(c)] = ConstValue]]
    /\ UNCHANGED fixed

Here == plan[m.pc]
At(op) == m.pc \in DOMAIN plan /\ Here.op = op

(* What an on_error wrapper makes of the outcome r of an instruction. *)
Wrapped(r) ==
    IF r.pc # Stop \/ ~r.failed \/ Here.wrap = "" THEN r
    ELSE [r EXCEPT !.failed = FALSE, !.pc = IF Here.wrap = "continue" THEN m.pc + 1 ELSE Stop]

(* A failed step goes to the error handler, if one is set. *)
Redirect(r) ==
    IF r.pc = Stop /\ r.failed /\ r.handler # 0 THEN [r EXCEPT !.pc = r.handler, !.handler = 0] ELSE r

Proceed(r) == m' = Redirect(Wrapped(r)) /\ UNCHANGED <<flow, order, routed, failing, plan>>
Go(pc) == [m EXCEPT !.pc = pc]
Fails(r) == [r EXCEPT !.pc = Stop, !.failed = TRUE]
Event(id, val) == <<id, val, m.depth>>

Skip == (At("stream") \/ At("trace")) /\ Proceed(Go(m.pc + 1))
Goto == At("goto") /\ Proceed(Go(Here.t))
SetStep == At("set") /\ Proceed([Go(m.pc + 1) EXCEPT !.slots[Here.s] = Here.val])
UseStep == At("use") /\ Proceed([Go(m.pc + 1) EXCEPT !.seen = Append(@, Event(Here.id, m.slots[Here.s]))])

(* db_exec runs on the pool of its data source. *)
DbExec ==
    /\ At("exec")
    /\ Proceed(IF Here.id \in failing THEN Fails(m)
               ELSE [Go(m.pc + 1) EXCEPT !.db = @ \cup {Here.id}, !.seen = Append(@, Event(Here.id, <<>>))])

IfGate == At("if") /\ Proceed(Go(IF Here.s # NoSlot /\ m.slots[Here.s] # <<>> THEN Here.t ELSE Here.u))

SwitchGate ==
    /\ At("switch")
    /\ Proceed(Go(CASE m.slots[Here.s] = CaseValue(1) -> Here.t
                    [] m.slots[Here.s] = CaseValue(2) -> Here.u
                    [] OTHER -> Here.id))

(* LoopGateSlot; without a slot for the source, LoopGate on a collection    *)
(* the request does not have.                                               *)
LoopGate ==
    /\ At("loop")
    /\ LET raw == IF Here.s = NoSlot THEN <<>> ELSE m.slots[Here.s]
           idx == m.ints[Here.iter]
       IN  Proceed(IF raw = <<>> THEN Go(Here.u)
                   ELSE IF idx >= Len(raw) THEN [Go(Here.u) EXCEPT !.ints[Here.iter] = 0]
                   ELSE [Go(Here.t) EXCEPT !.slots[Here.x] = <<raw[idx + 1]>>, !.ints[Here.iter] = idx + 1])

LoopRepeat == At("repeat") /\ Proceed([Go(Here.t) EXCEPT !.ints[Here.iter] = @ + 1])

WhileGate ==
    /\ At("while")
    /\ Proceed(IF m.slots[Here.s] = <<>> \/ m.ints[Here.iter] >= MaxIter
               THEN [Go(Here.u) EXCEPT !.ints[Here.iter] = 0]
               ELSE [Go(Here.t) EXCEPT !.ints[Here.iter] = @ + 1])

(* BeginTx: BEGIN at depth 0, a savepoint below maxTxDepth. *)
BeginTx ==
    /\ At("begin")
    /\ Proceed(IF Here.id \in failing \/ m.depth = MaxTxDepth THEN Fails(m)
               ELSE [Go(m.pc + 1) EXCEPT !.depth = @ + 1, !.handler = Here.t])

(* CommitTx: a no-op without a transaction; a failed commit rolls back. *)
CommitTx ==
    /\ At("commit")
    /\ LET r == [Go(m.pc + 1) EXCEPT !.handler = 0, !.depth = Max({0, @ - 1})]
       IN  Proceed(IF m.depth > 0 /\ Here.id \in failing THEN Fails(r) ELSE r)

RollbackTx ==
    /\ At("rollback")
    /\ Proceed([Go(m.pc + 1) EXCEPT !.handler = 0, !.depth = Max({0, @ - 1})])

(* ParallelStep: its branches run on contexts of their own. *)
Parallel ==
    /\ At("parallel")
    /\ LET execs == [b \in 1..2 |-> SelectSeq(Here.sub[b], LAMBDA i : i.op = "exec")]
           ran == execs[1] \o execs[2]
       IN  Proceed([Go(m.pc + 1) EXCEPT !.db = @ \cup {ran[i].id : i \in DOMAIN ran},
                                        !.seen = @ \o [i \in DOMAIN ran |-> Event(ran[i].id, <<>>)]])

EarlyReturn == At("return") /\ Proceed([Go(Stop) EXCEPT !.failed = FALSE])
Fail == At("fail") /\ Proceed(Fails(m))
CaptureError == At("capture") /\ Proceed([Go(m.pc + 1) EXCEPT !.failed = FALSE])

Next == \/ CompileExecutable
        \/ Skip \/ Goto \/ SetStep \/ UseStep \/ DbExec \/ IfGate \/ SwitchGate \/ LoopGate
        \/ LoopRepeat \/ WhileGate \/ BeginTx \/ CommitTx \/ RollbackTx \/ Parallel
        \/ EarlyReturn \/ Fail \/ CaptureError

Spec == Init /\ [][Next]_vars

-----------------------------------------------------------------------------
(* What a flow means: the steps run in order on variables of their own.  r  *)
(* holds the environment, whether the flow goes on ("run"), has ended       *)
(* ("halt") or is failing ("throw"), what was done, whether a variable was   *)
(* read before it was set (blind) and whether a foreach had more than one    *)
(* element (many).  undo says whether a transaction that does not commit     *)
(* takes its statements back.                                               *)

RECURSIVE RunStep(_, _, _)
RunFlow(f, r, undo) == FoldLeft(LAMBDA acc, s : IF acc.st = "run" THEN RunStep(s, acc, undo) ELSE acc, r, f)

RECURSIVE RunWhile(_, _, _, _)
RunWhile(s, r, n, undo) ==
    IF n = MaxIter \/ r.st # "run" \/ r.env[s.v] = <<>> THEN r
    ELSE RunWhile(s, RunFlow(s.do, r, undo), n + 1, undo)

Handled(s, r) ==
    CASE s.err = "continue" -> [r EXCEPT !.failed = FALSE]
      [] s.err = "status" -> [r EXCEPT !.failed = FALSE, !.st = "halt"]
      [] OTHER -> [r EXCEPT !.failed = TRUE, !.st = "throw"]

RunTransaction(s, r, undo) ==
    IF s.id \in failing \/ r.depth = MaxTxDepth THEN [r EXCEPT !.failed = TRUE, !.st = "throw"]
    ELSE LET b == RunFlow(s.do, [r EXCEPT !.depth = @ + 1], undo)
             out == [b EXCEPT !.depth = r.depth]
             undone == IF undo THEN [out EXCEPT !.db = r.db] ELSE out
         IN  CASE b.st = "throw" -> [undone EXCEPT !.st = "run"]
               [] b.st = "halt" -> [undone EXCEPT !.depth = b.depth]
               [] OTHER -> IF CommitOf(s.id) \in failing
                           THEN [undone EXCEPT !.failed = TRUE, !.st = "halt"] ELSE out

RunStep(s, r0, undo) ==
  LET r == [r0 EXCEPT !.blind = @ \/ (s.a \in {"use", "post", "if", "switch", "while"} /\ r0.env[s.v] = Unset)
                                 \/ (s.a = "foreach" /\ r0.env[s.w] = Unset),
                      !.many = @ \/ (s.a = "foreach" /\ Len(r0.env[s.w]) > 1)]
  IN
    CASE s.a = "set" -> [r EXCEPT !.env[s.v] = Written(s)]
      [] s.a \in {"use", "post"} -> [r EXCEPT !.seen = Append(@, <<s.id, r.env[s.v], r.depth>>)]
      [] s.a = "exec" -> IF s.id \in failing THEN Handled(s, r)
                         ELSE [r EXCEPT !.db = @ \cup {s.id}, !.seen = Append(@, <<s.id, <<>>, r.depth>>)]
      [] s.a = "if" -> RunFlow(IF r.env[s.v] # <<>> THEN s.do ELSE s.alt, r, undo)
      [] s.a = "switch" -> IF r.env[s.v] = CaseValue(1) THEN RunFlow(s.do, r, undo)
                           ELSE IF r.env[s.v] = CaseValue(2) THEN RunFlow(s.alt, r, undo) ELSE r
      [] s.a = "foreach" -> FoldLeft(LAMBDA acc, e : IF acc.st = "run"
                                                     THEN RunFlow(s.do, [acc EXCEPT !.env[s.v] = <<e>>], undo)
                                                     ELSE acc, r, r.env[s.w])
      [] s.a = "while" -> RunWhile(s, r, 0, undo)
      [] s.a = "call" -> RunFlow(s.do, r, undo)
      [] s.a = "transaction" -> RunTransaction(s, r, undo)
      [] s.a = "parallel" -> RunFlow(s.alt, RunFlow(s.do, r, undo), undo)
      [] s.a = "return" -> [r EXCEPT !.failed = FALSE, !.st = "halt"]
      [] s.a = "fail" -> [r EXCEPT !.failed = TRUE, !.st = "throw"]
      [] s.a = "capture" -> [r EXCEPT !.failed = FALSE]

Meaning(undo) ==
    RunFlow(flow, [env |-> [v \in Vars |-> IF v = ConstVar /\ routed # "none" THEN ConstValue ELSE <<>>],
                   st |-> "run", failed |-> FALSE, depth |-> 0, db |-> {}, seen |-> <<>>,
                   blind |-> FALSE, many |-> FALSE], undo)

-----------------------------------------------------------------------------
(* The flows the compiler handles.                                          *)

RECURSIVE Mentions(_)
(* The variables a flow really uses. *)
Mentions(f) == UNION {(IF f[i].a \in {"set", "use", "post", "if", "switch", "while", "foreach"} THEN {f[i].v} ELSE {})
                      \cup (IF f[i].a = "foreach" THEN {f[i].w} ELSE {})
                      \cup Mentions(f[i].do) \cup Mentions(f[i].alt) : i \in 1..Len(f)}

RECURSIVE Actions(_)
Actions(f) == UNION {{f[i].a} \cup Actions(f[i].do) \cup Actions(f[i].alt) : i \in 1..Len(f)}

RECURSIVE Sensitive(_)
(* The names whose having a slot changes the instructions of a flow. *)
Sensitive(f) == UNION {(IF f[i].a \in Leaves THEN {f[i].w} ELSE IF f[i].a = "while" THEN {f[i].v} ELSE {})
                       \cup Sensitive(f[i].do) \cup Sensitive(f[i].alt) : i \in 1..Len(f)}

(* computeLastUse sees every use. *)
Lively(f) == \A i \in 1..Len(f) : Mentions(<<f[i]>>) \subseteq UNION {Counted(f[j]) : j \in i..Len(f)}

RECURSIVE Sound(_, _)
(* Every step of f, where the variables of others are used outside f. *)
Sound(f, others) ==
    \A i \in 1..Len(f) :
        LET s == f[i]
            rest == others \cup UNION {Mentions(<<f[j]>>) : j \in 1..Len(f) \ {i}}
            named == Mentions(<<[s EXCEPT !.do = <<>>, !.alt = <<>>]>>)
            inDo == rest \cup named \cup Mentions(s.alt)
            inAlt == rest \cup named \cup Mentions(s.do)
        IN  /\ Sound(s.do, inDo) /\ Sound(s.alt, inAlt)
            /\ s.a = "if" => Sensitive(s.alt) \cap Mentions(s.do) = {}
            /\ s.a = "switch" => /\ Lively(s.do) /\ Mentions(s.do) \cap inDo = {}
                                /\ Lively(s.alt) /\ Mentions(s.alt) \cap inAlt = {}
                                /\ "switch" \notin Actions(s.do) \cup Actions(s.alt)
            /\ s.a = "transaction" => "transaction" \notin Actions(s.do)
            /\ s.a # "parallel"

Ended == m.pc # Pending /\ m.pc \notin DOMAIN plan
Deployed == Ended /\ plan # <<>>

(* A compiled flow does what the flow says.  When a request's plan has run,  *)
(* the statements it executed, in their order, at their transaction depth    *)
(* and with the values they read, and whether it failed, are those of the    *)
(* flow run step by step on named variables: however compileStep laid out    *)
(* branches, loops, cases and handlers, whichever variables shared a slot     *)
(* and in whatever order releaseDeadSlots met them.  The conditions are the   *)
(* ones under which this compiler is right: computeLastUse sees every use,    *)
(* a foreach has at most one element, transactions and switches do not nest, *)
(* no branch's length depends on its sibling, and no constant is routed in.   *)
FlowAsWritten ==
    (Deployed /\ Lively(flow) /\ Sound(flow, {}) /\ (routed = "none" \/ ConstVar \notin Mentions(flow))) =>
        LET r == Meaning(FALSE)
        IN  r.blind \/ r.many \/ (m.seen = r.seen /\ m.db = r.db /\ m.failed = r.failed)

(* foreach visits every element: logic.go says each iteration writes the raw *)
(* element, and the guide that the step iterates a collection.  The loop gate *)
(* and LOOP_REPEAT both advance the counter, so every second one is skipped.  *)
ForeachVisitsAll ==
    (Deployed /\ Lively(flow) /\ Sound(flow, {}) /\ routed = "none") =>
        LET r == Meaning(FALSE)
        IN  r.blind \/ m.seen = r.seen

(* A transaction that does not commit leaves nothing behind: the context says *)
(* that database steps go through the active transaction.  They take a pool  *)
(* connection instead, so what they wrote stays.                            *)
TransactionUndone ==
    (Deployed /\ Lively(flow) /\ Sound(flow, {}) /\ routed = "none") =>
        LET r == Meaning(TRUE)
        IN  r.blind \/ r.many \/ m.db = r.db

(* A route constant reaches the steps that name it, whether it is injected   *)
(* for the API or for an endpoint.                                          *)
ConstantReaches ==
    (Deployed /\ Lively(flow) /\ Sound(flow, {})) =>
        LET r == Meaning(FALSE)
        IN  r.blind \/ r.many \/ m.seen = r.seen

(* Execution stays on the plan, for every flow the compiler accepts: it never *)
(* meets a BREAK that linkBreaks left behind, which has no action to run, and  *)
(* it leaves the table only at its end, although the lengths of branches and   *)
(* the addresses of handlers are computed before what they measure exists.     *)
JumpsLand == m.pc > Stop => /\ m.pc <= Len(plan) + 1
                            /\ m.pc \in DOMAIN plan => Here.op # "break"
=============================================================================
