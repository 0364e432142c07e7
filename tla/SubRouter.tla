----------------------------- MODULE SubRouter ------------------------------
(***************************************************************************)
(* The router inside an API: BakeSubRouter lays the endpoints' paths out   *)
(* in a flat arena of nodes, one per segment (control/sub_compiler.go),    *)
(* and resolveSubPath walks it (engine/sub_router.go, engine/manager.go).  *)
(* A node's static children are found by the rank of their first character *)
(* among the node's mask, counted from the first child's index; the rest   *)
(* of a segment is not compared, its length is skipped.                    *)
(*                                                                         *)
(* A segment is a sequence of character codes, or Param for "{name}".      *)
(***************************************************************************)
EXTENDS Integers, Sequences, FiniteSets, SequencesExt

CONSTANTS
    Segs,           \* static segments: non-empty sequences of codes
    Values,         \* what a request may have in place of a parameter
    RouteMethods,   \* methods the definitions use
    MaxDepth,       \* bound: segments of a path
    MaxRoutes       \* bound: endpoints of the API

Slash == 47
Param == <<0>>
AnyMethod == "ANY"
MethodIdx == {"GET", "POST", "PUT", "DELETE", "OTHERS"}

RouterAssumption ==
    /\ \A s \in Segs \cup Values : Len(s) > 0 /\ \A i \in 1..Len(s) : s[i] \notin {0, Slash}
    /\ RouteMethods \subseteq MethodIdx \cup {AnyMethod}
    /\ MaxDepth \in Nat /\ MaxRoutes \in Nat

VARIABLES
    arena,          \* SubArena: node index i is arena[i + 1]
    routes,         \* the routes baked, the endpoint index is the position
    panicked,
    tried,          \* history: the definition baked last
    kids,           \* history: the static children made: parent, segment, node
    mistaken        \* history: a segment met another's node, or a parameter node was replaced

vars == <<arena, routes, panicked, tried, kids, mistaken>>

Paths == UNION {[1..n -> Segs \cup {Param}] : n \in 0..MaxDepth}

Node(len) == [mask |-> {}, child |-> 0, param |-> 0, len |-> len,
              endpoint |-> [m \in MethodIdx |-> 0], strict |-> {}]

Init == arena = <<>> /\ routes = <<>> /\ panicked = FALSE /\ tried = {} /\ kids = {} /\ mistaken = FALSE

-----------------------------------------------------------------------------
(* FindChildIdx: codes below 64 and the others have masks of their own and *)
(* share the base.                                                         *)
FindChildIdx(n, ch) ==
    LET half == {c \in n.mask : (c < 64) = (ch < 64)} IN
    IF ch \notin half THEN 0 ELSE n.child + Cardinality({c \in half : c < ch})

(* The state of one Bake: the arena so far, the node reached, a panic. *)
Outside(b) == b.at >= Len(b.arena)

(* Faulty variant: ANY leaves the last method out. *)
RegisterTerminalFour(b, r, ep) ==
    LET ms == IF r.method = AnyMethod THEN MethodIdx \ {"OTHERS"} ELSE {r.method}
        n == b.arena[b.at + 1]
    IN
    IF Outside(b) \/ \E m \in ms : n.endpoint[m] # 0
      THEN [b EXCEPT !.panic = TRUE]
      ELSE [b EXCEPT !.arena[b.at + 1] =
              [n EXCEPT !.endpoint = [m \in MethodIdx |-> IF m \in ms THEN ep ELSE @[m]],
                        !.strict = IF r.strict THEN @ \cup ms ELSE @]]

(* registerTerminal. *)
RegisterTerminal(b, r, ep) ==
    LET ms == IF r.method = AnyMethod THEN MethodIdx ELSE {r.method}
        n == b.arena[b.at + 1]
    IN
    IF Outside(b) \/ \E m \in ms : n.endpoint[m] # 0
      THEN [b EXCEPT !.panic = TRUE]
      ELSE [b EXCEPT !.arena[b.at + 1] =
              [n EXCEPT !.endpoint = [m \in MethodIdx |-> IF m \in ms THEN ep ELSE @[m]],
                        !.strict = IF r.strict THEN @ \cup ms ELSE @]]

(* A {param} segment always makes a node, which replaces the one before. *)
BakeParam(b) ==
    [b EXCEPT !.arena = Append([@ EXCEPT ![b.at + 1].param = Len(b.arena)], Node(1)),
              !.at = Len(b.arena),
              !.mistaken = @ \/ b.arena[b.at + 1].param # 0]

(* compileStaticSegment. *)
CompileStaticSegment(b, seg) ==
    LET n == b.arena[b.at + 1]
        found == FindChildIdx(n, seg[1])
        new == Len(b.arena)
    IN
    IF found # 0
      THEN [b EXCEPT !.at = found,
                     !.mistaken = @ \/ [parent |-> b.at, seg |-> seg, node |-> found] \notin b.kids]
    ELSE [b EXCEPT !.arena = Append([@ EXCEPT ![b.at + 1] =
                                [n EXCEPT !.mask = @ \cup {seg[1]},
                                          !.child = IF @ = 0 THEN new ELSE @]], Node(Len(seg))),
                   !.at = new,
                   !.kids = @ \cup {[parent |-> b.at, seg |-> seg, node |-> new]}]

BakeSegment(b, seg) ==
    IF b.panic THEN b
    ELSE IF Outside(b) THEN [b EXCEPT !.panic = TRUE]
    ELSE IF seg = Param THEN BakeParam(b)
    ELSE CompileStaticSegment(b, seg)

Baked(r) ==
    LET root == IF arena = <<>> THEN <<Node(0)>> ELSE arena
        b == FoldLeft(BakeSegment, [arena |-> root, at |-> 0, panic |-> FALSE, kids |-> kids,
                                    mistaken |-> mistaken], r.path)
    IN IF b.panic THEN b ELSE RegisterTerminal(b, r, Len(routes) + 1)

(* BakeSubRouter: a panic leaves the definition half-made and unused. *)
BakeSubRouter(r) ==
    LET b == Baked(r) IN
    /\ ~panicked /\ Len(routes) < MaxRoutes
    /\ panicked' = b.panic /\ mistaken' = b.mistaken /\ tried' = {r}
    /\ IF b.panic THEN UNCHANGED <<arena, routes, kids>>
       ELSE arena' = b.arena /\ routes' = Append(routes, r) /\ kids' = b.kids

Routes == [path : Paths, method : RouteMethods, strict : BOOLEAN]

Next == \E r \in Routes : BakeSubRouter(r)
Spec == Init /\ [][Next]_vars

-----------------------------------------------------------------------------
(* resolveSubPath.  A result is a status (200: found), an endpoint and the *)
(* parameters' values; "panic" when an index is outside the arena.         *)
Fail(status) == [status |-> status, ep |-> 0, params |-> <<>>]

SkipSlash(req, p) == IF p <= Len(req) /\ req[p] = Slash THEN p + 1 ELSE p

SegmentEnd(req, p) ==
    LET ends == {q \in p..Len(req) : req[q] = Slash} IN
    IF ends = {} THEN Len(req) + 1 ELSE CHOOSE q \in ends : \A x \in ends : q <= x

RECURSIVE Walk(_, _, _, _)
Walk(req, p, at, params) ==
    IF at >= Len(arena) THEN [status |-> "panic", at |-> at, params |-> params]
    ELSE IF p > Len(req) THEN [status |-> "end", at |-> at, params |-> params]
    ELSE LET n == arena[at + 1]
             next == FindChildIdx(n, req[p])
         IN
         IF next # 0
           THEN IF next >= Len(arena) THEN [status |-> "panic", at |-> at, params |-> params]
                ELSE Walk(req, SkipSlash(req, p + arena[next + 1].len), next, params)
         ELSE IF n.param # 0
           THEN LET e == SegmentEnd(req, p) IN
                Walk(req, SkipSlash(req, e), n.param, Append(params, SubSeq(req, p, e - 1)))
         ELSE [status |-> "lost", at |-> at, params |-> params]

ResolveSubPath(req, m) ==
    IF arena = <<>> THEN Fail(404)
    ELSE LET w == Walk(req, SkipSlash(req, 1), 0, <<>>)
             n == arena[w.at + 1]
         IN
         CASE w.status = "panic" -> Fail("panic")
           [] w.status = "lost" -> Fail(404)
           [] n.endpoint[m] = 0 -> Fail(405)
           [] m \in n.strict /\ req # <<>> /\ Last(req) = Slash -> Fail(404)
           [] OTHER -> [status |-> 200, ep |-> n.endpoint[m], params |-> w.params]

-----------------------------------------------------------------------------
(* Properties. *)

(* What a request for a route looks like, each parameter replaced. *)
ParamsUpTo(path, i) == Cardinality({j \in 1..i : path[j] = Param})
Filled(path, vals) ==
    [i \in 1..Len(path) |-> IF path[i] = Param THEN vals[ParamsUpTo(path, i)] ELSE path[i]]
Request(path, vals) == FoldLeft(LAMBDA acc, s : acc \o <<Slash>> \o s, <<>>, Filled(path, vals))
ValuesFor(path) == [1..ParamsUpTo(path, Len(path)) -> Values]

Methods(r) == IF r.method = AnyMethod THEN MethodIdx ELSE {r.method}
Clash(r, q) == r.path = q.path /\ Methods(r) \cap Methods(q) # {}

(* Every child is where its rank says it is. *)
InPlace == \A k \in kids : FindChildIdx(arena[k.parent + 1], k.seg[1]) = k.node

(* As long as the children of every node were laid out in the order of     *)
(* their first characters, one after the other (InPlace), and no segment   *)
(* was taken for another or parameter node replaced, every endpoint is     *)
(* reached by the requests for its path, under each method it serves, with *)
(* its parameters in order; every other method is answered 405 and a       *)
(* trailing slash is an error just for a strict endpoint.                  *)
RoutesServed ==
    InPlace /\ ~mistaken =>
        \A i \in DOMAIN routes : \A vals \in ValuesFor(routes[i].path) : \A m \in MethodIdx :
            LET r == routes[i]
                req == Request(r.path, vals)
                slashed == Append(req, Slash)
                found == [status |-> 200, ep |-> i, params |-> vals]
            IN
            /\ m \in Methods(r) => /\ ResolveSubPath(req, m) = found
                                   /\ ResolveSubPath(slashed, m) = IF r.strict THEN Fail(404) ELSE found
            /\ (\A q \in ToSet(routes) : q.path = r.path => m \notin Methods(q)) => ResolveSubPath(req, m) = Fail(405)

(* Under the same conditions a definition is refused when its path and     *)
(* method are taken, and only then.                                        *)
DuplicateRefused ==
    InPlace /\ ~mistaken =>
        /\ \A i, j \in DOMAIN routes : i # j => ~Clash(routes[i], routes[j])
        /\ panicked => \E r \in tried, i \in DOMAIN routes : Clash(r, routes[i])

(* FindChildIdx's comment says it returns the "Index of child node": the   *)
(* node made for that character under that parent.                         *)
ChildIsFound == InPlace
=============================================================================
