---------------------------- MODULE BoundedQueue ----------------------------
(***************************************************************************)
(* What a ring of the gateway promises: a FIFO queue of at most Capacity   *)
(* items, each handed out exactly once.  A push that finds it full and a   *)
(* pop that finds it empty change nothing.                                 *)
(***************************************************************************)
EXTENDS Naturals, Sequences

CONSTANTS Items, Capacity

VARIABLES
    q,       \* the items in the queue, oldest first
    handed   \* the item handed out by the last pop

Nothing == "nothing"

Init == q = <<>> /\ handed = Nothing

Push(v) ==
    /\ Len(q) < Capacity
    /\ q' = Append(q, v)
    /\ UNCHANGED handed

Pop ==
    /\ q # <<>>
    /\ handed' = Head(q)
    /\ q' = Tail(q)

Next == (\E v \in Items : Push(v)) \/ Pop

Spec == Init /\ [][Next]_<<q, handed>>
=============================================================================
