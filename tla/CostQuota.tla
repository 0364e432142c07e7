------------------------------ MODULE CostQuota ------------------------------
(***************************************************************************)
(* The spending quota of one tenant (quota/manager.go) and the two flow    *)
(* steps around an upstream call (engine/steps/cost_budget.go):            *)
(* enforce_cost_budget asks for the estimated cost before the call and     *)
(* record_cost adds the actual cost after it.  Each takes the manager's    *)
(* lock once, the call in between holds nothing, so requests that are      *)
(* under way together pass on the same remainder.  A request whose         *)
(* estimate is zero is not asked.                                          *)
(*                                                                         *)
(* A quota has windows, or else a daily and a monthly limit; the cost is   *)
(* added to all of them.  The manager's map is filled at start.            *)
(***************************************************************************)
EXTENDS Integers, Sequences, FiniteSets

CONSTANTS
    Requests,
    Windows,        \* a sequence of [length, limit]; empty for the legacy limits
    Daily, Monthly, \* the legacy limits, 0 for none
    Day,            \* length of a day
    Costs,          \* estimated and actual costs
    MaxNow, MaxCalls

VARIABLES
    clock,
    usage,      \* per window: [start, used]
    day, month, lastReset,  \* the legacy fields
    req,        \* per goroutine: where it is, and whether it was asked
    calls,
    unasked     \* what requests that were not asked have spent in each window, and in the day

vars == <<clock, usage, day, month, lastReset, req, calls, unasked>>

QuotaAssumption ==
    /\ \A i \in DOMAIN Windows : Windows[i].length \in Nat \ {0} /\ Windows[i].limit \in Nat
    /\ Daily \in Nat /\ Monthly \in Nat /\ Day \in Nat \ {0} /\ Costs \subseteq Nat

Idle == [pc |-> "idle", asked |-> FALSE]
Accounts == DOMAIN Windows \cup {0}   \* 0 is the day

TypeOK ==
    /\ clock \in 0 .. MaxNow
    /\ \A i \in DOMAIN Windows : usage[i].start \in 0 .. MaxNow /\ usage[i].used \in Nat
    /\ day \in Nat /\ month \in Nat /\ lastReset \in 0 .. MaxNow
    /\ req \in [Requests -> [pc : {"idle", "calling"}, asked : BOOLEAN]]
    /\ calls \in 0 .. MaxCalls
    /\ \A a \in Accounts : unasked[a] \in Nat

Init ==
    /\ clock = 0
    /\ usage = [i \in DOMAIN Windows |-> [start |-> 0, used |-> 0]]
    /\ day = 0 /\ month = 0 /\ lastReset = 0
    /\ req = [p \in Requests |-> Idle]
    /\ calls = 0
    /\ unasked = [a \in Accounts |-> 0]

-----------------------------------------------------------------------------
Elapsed(i) == clock - usage[i].start > Windows[i].length
DayElapsed == clock - lastReset > Day

\* A window whose time has passed starts again with nothing used.
Renewed == [i \in DOMAIN Windows |-> IF Elapsed(i) THEN [start |-> clock, used |-> 0] ELSE usage[i]]
DayUsed == IF DayElapsed THEN 0 ELSE day

\* Faulty variant: one window with room is enough.
AffordableInOne(est) ==
    IF Windows # <<>>
    THEN \E i \in DOMAIN Windows : Renewed[i].used + est <= Windows[i].limit
    ELSE /\ Daily > 0 => DayUsed + est <= Daily
         /\ Monthly > 0 => month + est <= Monthly

\* What CanAfford decides once it holds the lock.
Affordable(est) ==
    IF Windows # <<>>
    THEN \A i \in DOMAIN Windows : Renewed[i].used + est <= Windows[i].limit
    ELSE /\ Daily > 0 => DayUsed + est <= Daily
         /\ Monthly > 0 => month + est <= Monthly

Tick ==
    /\ clock < MaxNow
    /\ clock' = clock + 1
    /\ UNCHANGED <<usage, day, month, lastReset, req, calls, unasked>>

\* enforce_cost_budget: no estimate, no question.  CanAfford renews the
\* windows, or the day, whatever it answers.
Enforce(p) ==
    /\ req[p].pc = "idle" /\ calls < MaxCalls
    /\ calls' = calls + 1
    /\ \E est \in Costs :
          IF est = 0
          THEN /\ req' = [req EXCEPT ![p] = [pc |-> "calling", asked |-> FALSE]]
               /\ UNCHANGED <<usage, day, lastReset, unasked>>
          ELSE /\ req' = [req EXCEPT ![p] = IF Affordable(est) THEN [pc |-> "calling", asked |-> TRUE] ELSE Idle]
               /\ usage' = Renewed
               /\ day' = IF Windows = <<>> THEN DayUsed ELSE day
               /\ lastReset' = IF Windows = <<>> /\ DayElapsed THEN clock ELSE lastReset
               /\ unasked' = [a \in Accounts |->
                     IF IF a = 0 THEN Windows = <<>> /\ DayElapsed ELSE Elapsed(a) THEN 0 ELSE unasked[a]]
    /\ UNCHANGED <<clock, month>>

\* record_cost: the cost goes to every window and to the legacy fields.
Record(p) ==
    /\ req[p].pc = "calling"
    /\ \E cost \in Costs \ {0} :
          /\ usage' = [i \in DOMAIN Windows |-> [Renewed[i] EXCEPT !.used = @ + cost]]
          /\ day' = DayUsed + cost
          /\ lastReset' = IF DayElapsed THEN clock ELSE lastReset
          /\ month' = month + cost
          /\ unasked' = [a \in Accounts |->
                (IF IF a = 0 THEN DayElapsed ELSE Elapsed(a) THEN 0 ELSE unasked[a])
                + (IF req[p].asked THEN 0 ELSE cost)]
    /\ req' = [req EXCEPT ![p] = Idle]
    /\ UNCHANGED <<clock, calls>>

\* The call costs nothing, or fails, and the flow ends without record_cost.
Drop(p) ==
    /\ req[p].pc = "calling"
    /\ req' = [req EXCEPT ![p] = Idle]
    /\ UNCHANGED <<clock, usage, day, month, lastReset, calls, unasked>>

Next == Tick \/ \E p \in Requests : Enforce(p) \/ Record(p) \/ Drop(p)

Spec == Init /\ [][Next]_vars

-----------------------------------------------------------------------------
MaxCost == CHOOSE c \in Costs : \A d \in Costs : d <= c

\* Requests that pass on the same remainder overspend a window, or the day,
\* by no more than the most expensive call of each of them, whatever a
\* request that was not asked adds and however windows are renewed while
\* calls are under way (CanAfford, RecordCost).
OvershootBounded ==
    LET slack(a) == Cardinality(Requests) * MaxCost + unasked[a]
    IN /\ \A i \in DOMAIN Windows : usage[i].used <= Windows[i].limit + slack(i)
       /\ Windows = <<>> /\ Daily > 0 => day <= Daily + slack(0)
=============================================================================
