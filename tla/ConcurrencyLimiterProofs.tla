----------------------- MODULE ConcurrencyLimiterProofs -----------------------
(***************************************************************************)
(* The semaphore counts its holders and admits within the limits in force, *)
(* for any number of requests and administrators and any limits.           *)
(*                                                                         *)
(* The argument: a swap that succeeds finds the count it compared with the *)
(* limit it loaded, so the new holder's limit covers all holders, and with *)
(* them every set of holders it is in; a set it is not in was covered      *)
(* before.  A release only leaves smaller sets.                            *)
(*                                                                         *)
(* The second half follows the latency histogram through Rotate: what the  *)
(* controller reads of the frozen generation, and how far the buckets may  *)
(* lag behind the counts.  The last part bounds the limit it stores.       *)
(***************************************************************************)
EXTENDS ConcurrencyLimiter, FiniteSetTheorems, TLAPS

ReqShape(q) ==
    /\ DOMAIN q = {"pc", "cur", "lim", "gen", "speed"}
    /\ q.cur \in Nat /\ q.lim \in Int
    /\ q.pc = "swapping" => q.cur < q.lim
    /\ q.pc \in {"idle", "loading", "comparing"} => q.lim = 0

CtlShape(c) ==
    /\ DOMAIN c = {"pc", "fixed", "on", "cooldown", "total", "slow", "cur", "next", "evidence"}
    /\ c.cur \in Int /\ c.next \in Int

AdmShape(a) == DOMAIN a = {"pc", "field", "to", "cfg"} /\ a.to \in Int

ReqShapes == DOMAIN req = Requests /\ \A r \in Requests : ReqShape(req[r])
LimitShapes ==
    /\ limit \in Int
    /\ CtlShape(ctl)
    /\ DOMAIN adm = Admins /\ \A a \in Admins : AdmShape(adm[a])

HoldInv == ReqShapes /\ LimitShapes /\ ActiveIsHolders /\ AdmittedWithinLimit

Holding(q) == q.pc \in {"serving", "counting", "filing", "leaving"} /\ q.lim # 0

(* The constants as the proof needs them. *)
Setting == IsFiniteSet(Requests) /\ ConcurrencyAssumption

(* Finitely many requests hold the semaphore, so their number is a natural. *)
LEMMA HoldersFinite == ASSUME Setting PROVE IsFiniteSet(Holders) /\ Cardinality(Holders) \in Nat
<1>1. IsFiniteSet(Holders)
  BY FS_Subset DEF Setting, Holders
<1> QED BY <1>1, FS_CardinalityType

(* Nobody holds the semaphore at the start. *)
LEMMA HoldInvInit == ASSUME Setting PROVE Init => HoldInv
<1> SUFFICES ASSUME Init PROVE HoldInv
  OBVIOUS
<1>1. ReqShapes
  BY DEF Init, ReqShapes, ReqShape, IdleReq
<1>2. LimitShapes
  BY DEF Init, LimitShapes, CtlShape, AdmShape, Waiting, IdleAdm, Setting, ConcurrencyAssumption
<1>3. Holders = {}
  BY DEF Init, Holders, IdleReq
<1>4. ActiveIsHolders
  BY <1>3, FS_EmptySet DEF Init, ActiveIsHolders
<1>5. AdmittedWithinLimit
  BY <1>3 DEF AdmittedWithinLimit
<1> QED BY <1>1, <1>2, <1>4, <1>5 DEF HoldInv

(* What an assignment to one request does. *)
LEMMA UpdateReq ==
  ASSUME ReqShapes, NEW r \in Requests, NEW q, ReqShape(q), req' = [req EXCEPT ![r] = q]
  PROVE  ReqShapes' /\ req'[r] = q /\ \A s \in Requests : s # r => req'[s] = req[s]
  BY DEF ReqShapes

(* A request that keeps its hold, or goes without one, and its limit. *)
LEMMA KeepHold ==
  ASSUME Setting, HoldInv, NEW r \in Requests, NEW q, ReqShape(q),
         Holding(q) <=> Holding(req[r]), Holding(q) => q.lim = req[r].lim,
         req' = [req EXCEPT ![r] = q], active' = active, LimitShapes'
  PROVE  HoldInv'
<1>1. ReqShapes' /\ req'[r] = q /\ \A s \in Requests : s # r => req'[s] = req[s]
  BY UpdateReq DEF HoldInv
<1>2. Holders' = Holders /\ \A s \in Holders : req'[s].lim = req[s].lim
  BY <1>1 DEF Holders, Holding
<1> QED BY <1>1, <1>2 DEF HoldInv, ActiveIsHolders, AdmittedWithinLimit

(* A step that leaves the requests and the count alone. *)
LEMMA KeepReqs ==
  ASSUME HoldInv, req' = req, active' = active, LimitShapes'
  PROVE  HoldInv'
  BY DEF HoldInv, ReqShapes, ActiveIsHolders, AdmittedWithinLimit, Holders

(* The compare-and-swap of TryAcquire: lost, it holds nothing; won, the limit
   loaded before covers the count it was compared with and the new holder. *)
LEMMA HoldInvSwap ==
  ASSUME Setting, HoldInv, NEW r \in Requests, SwapActive(r) PROVE HoldInv'
<1>l. LimitShapes'
  BY DEF SwapActive, HoldInv, LimitShapes
<1>r. ReqShape(req[r]) /\ req[r].pc = "swapping"
  BY DEF HoldInv, ReqShapes, SwapActive
<1>1. CASE active # req[r].cur
  <2> DEFINE q == [req[r] EXCEPT !.pc = "loading", !.cur = 0, !.lim = 0]
  <2>1. req' = [req EXCEPT ![r] = q] /\ active' = active
    BY <1>1 DEF SwapActive
  <2>2. ReqShape(q) /\ ~Holding(q) /\ ~Holding(req[r])
    BY <1>r DEF ReqShape, Holding
  <2> HIDE DEF q
  <2> QED BY <1>l, <2>1, <2>2, KeepHold
<1>2. CASE active = req[r].cur
  <2> DEFINE q == [req[r] EXCEPT !.pc = "serving", !.cur = 0]
  <2>1. req' = [req EXCEPT ![r] = q] /\ active' = active + 1
    BY <1>2 DEF SwapActive
  <2>2. ReqShape(q) /\ Holding(q) /\ ~Holding(req[r]) /\ q.lim = req[r].lim
    BY <1>r DEF ReqShape, Holding
  <2>3. req[r].cur \in Nat /\ req[r].lim \in Int /\ req[r].cur < req[r].lim
    BY <1>r DEF ReqShape
  <2> HIDE DEF q
  <2>4. ReqShapes' /\ req'[r] = q /\ \A s \in Requests : s # r => req'[s] = req[s]
    BY <2>1, <2>2, UpdateReq DEF HoldInv
  <2>5. /\ r \notin Holders /\ Holders' = Holders \cup {r}
        /\ req'[r].lim = req[r].lim
        /\ \A s \in Holders : req'[s].lim = req[s].lim
    BY <2>2, <2>4 DEF Holders, Holding
  <2>6. /\ IsFiniteSet(Holders') /\ Cardinality(Holders') = Cardinality(Holders) + 1
        /\ Cardinality(Holders) \in Nat
    BY <2>5, HoldersFinite, FS_AddElement
  <2>7. ActiveIsHolders'
    BY <2>1, <2>6 DEF HoldInv, ActiveIsHolders
  <2>8. Cardinality(Holders') <= req[r].lim
    <3>1. Cardinality(Holders) = req[r].cur
      BY <1>2 DEF HoldInv, ActiveIsHolders
    <3>2. Cardinality(Holders') = req[r].cur + 1
      BY <2>6, <3>1
    <3> QED BY <2>3, <3>2
  <2>9. ASSUME NEW S \in SUBSET Holders', S # {} PROVE \E s \in S : Cardinality(S) <= req'[s].lim
    <3>1. CASE r \in S
      <4>1. Cardinality(S) <= Cardinality(Holders') /\ Cardinality(S) \in Nat
        BY <2>6, <2>9, FS_Subset, FS_CardinalityType
      <4>2. Cardinality(S) <= req'[r].lim
        BY <2>3, <2>5, <2>6, <2>8, <4>1
      <4> QED BY <3>1, <4>2
    <3>2. CASE r \notin S
      <4>1. S \in SUBSET Holders
        BY <2>5, <3>2
      <4>2. PICK s \in S : Cardinality(S) <= req[s].lim
        BY <2>9, <4>1 DEF HoldInv, AdmittedWithinLimit
      <4> QED BY <2>5, <4>1, <4>2
    <3> QED BY <3>1, <3>2
  <2> QED BY <1>l, <2>4, <2>7, <2>9 DEF HoldInv, AdmittedWithinLimit
<1> QED BY <1>1, <1>2

(* The deferred Release takes its own request out of the count. *)
LEMMA HoldInvLeave ==
  ASSUME Setting, HoldInv, NEW r \in Requests, Leave(r) PROVE HoldInv'
<1>l. LimitShapes'
  BY DEF Leave, HoldInv, LimitShapes
<1>1. req' = [req EXCEPT ![r] = IdleReq] /\ ReqShape(IdleReq) /\ ~Holding(IdleReq)
  BY DEF Leave, ReqShape, Holding, IdleReq
<1>2. ReqShapes' /\ req'[r] = IdleReq /\ \A s \in Requests : s # r => req'[s] = req[s]
  BY <1>1, UpdateReq DEF HoldInv
<1>3. Holders' = Holders \ {r} /\ \A s \in Holders' : req'[s].lim = req[s].lim
  BY <1>1, <1>2 DEF Holders, Holding
<1>4. AdmittedWithinLimit'
  BY <1>3 DEF HoldInv, AdmittedWithinLimit
<1>5. ActiveIsHolders'
  <2>1. CASE r \in Holders
    <3>1. Cardinality(Holders') = Cardinality(Holders) - 1 /\ active' = active - 1
      BY <1>3, <2>1, HoldersFinite, FS_RemoveElement DEF Leave
    <3> QED BY <3>1 DEF HoldInv, ActiveIsHolders
  <2>2. CASE r \notin Holders
    BY <1>3, <2>2 DEF Leave, HoldInv, ActiveIsHolders
  <2> QED BY <2>1, <2>2
<1> QED BY <1>l, <1>2, <1>4, <1>5 DEF HoldInv

(* The other steps of a request. *)
LEMMA HoldInvRequest ==
  ASSUME Setting, HoldInv, NEW r \in Requests,
         \/ CheckGate(r) \/ LoadActive(r) \/ LoadLimit(r)
         \/ \E s \in Speeds : LoadGeneration(r, s)
         \/ AddCount(r) \/ AddBucket(r)
  PROVE  HoldInv'
<1>l. LimitShapes' /\ active' = active
  BY DEF CheckGate, LoadActive, LoadLimit, LoadGeneration, AddCount, AddBucket, gate, hist, HoldInv, LimitShapes
<1>r. ReqShape(req[r]) /\ active \in Nat /\ limit \in Int
  BY HoldersFinite DEF HoldInv, ReqShapes, LimitShapes, ActiveIsHolders
<1> DEFINE Quiet(q) == /\ ReqShape(q) /\ req' = [req EXCEPT ![r] = q]
                       /\ (Holding(q) <=> Holding(req[r])) /\ (Holding(q) => q.lim = req[r].lim)
<1>q. SUFFICES \E q : Quiet(q)
  BY <1>l, KeepHold
<1>1. CASE CheckGate(r)
  <2> DEFINE q == [req[r] EXCEPT !.pc = IF enabled THEN "loading" ELSE "serving"]
  <2>1. Quiet(q)
    BY <1>1, <1>r DEF CheckGate, ReqShape, Holding
  <2> QED BY <2>1
<1>2. CASE LoadActive(r)
  <2> DEFINE q == [req[r] EXCEPT !.pc = "comparing", !.cur = active]
  <2>1. Quiet(q)
    BY <1>2, <1>r DEF LoadActive, ReqShape, Holding
  <2> QED BY <2>1
<1>3. CASE LoadLimit(r)
  <2>1. CASE req[r].cur >= limit
    <3>1. Quiet(IdleReq)
      BY <1>3, <2>1, <1>r DEF LoadLimit, ReqShape, Holding, IdleReq
    <3> QED BY <3>1
  <2>2. CASE ~(req[r].cur >= limit)
    <3> DEFINE q == [req[r] EXCEPT !.pc = "swapping", !.lim = limit]
    <3>1. req' = [req EXCEPT ![r] = q] /\ req[r].pc = "comparing"
      BY <1>3, <2>2 DEF LoadLimit
    <3>2. DOMAIN q = DOMAIN req[r] /\ q.pc = "swapping" /\ q.lim = limit /\ q.cur = req[r].cur
      BY <1>r DEF ReqShape
    <3>3. req[r].cur \in Nat /\ req[r].cur < limit
      BY <1>r, <2>2 DEF ReqShape
    <3> HIDE DEF q
    <3>4. ReqShape(q) /\ ~Holding(q) /\ ~Holding(req[r])
      BY <1>r, <3>1, <3>2, <3>3 DEF ReqShape, Holding
    <3>5. Quiet(q)
      BY <3>1, <3>4
    <3> QED BY <3>5
  <2> QED BY <2>1, <2>2
<1>4. CASE \E s \in Speeds : LoadGeneration(r, s)
  <2>1. PICK s \in Speeds : LoadGeneration(r, s)
    BY <1>4
  <2> DEFINE q == [req[r] EXCEPT !.pc = "counting", !.gen = current, !.speed = s]
  <2>2. Quiet(q)
    BY <2>1, <1>r DEF LoadGeneration, ReqShape, Holding
  <2> QED BY <2>2
<1>5. CASE AddCount(r)
  <2> DEFINE q == [req[r] EXCEPT !.pc = "filing"]
  <2>1. Quiet(q)
    BY <1>5, <1>r DEF AddCount, ReqShape, Holding
  <2> QED BY <2>1
<1>6. CASE AddBucket(r)
  <2> DEFINE q == [req[r] EXCEPT !.pc = "leaving", !.gen = 0, !.speed = "fast"]
  <2>1. Quiet(q)
    BY <1>6, <1>r DEF AddBucket, ReqShape, Holding
  <2> QED BY <2>1
<1> QED BY <1>1, <1>2, <1>3, <1>4, <1>5, <1>6

(* The controller moves the limit and nothing of the requests. *)
LEMMA HoldInvController ==
  ASSUME Setting, HoldInv,
         \/ Tick \/ LoadEnabled \/ ResetCount \/ Expose \/ LoadSamples \/ LoadTotal \/ LoadFast
         \/ ReadLimit \/ Decide \/ StoreLimit
         \/ \E s \in Speeds : ResetBucket(s)
  PROVE  HoldInv'
<1>1. req' = req /\ active' = active /\ adm' = adm
  BY DEF Tick, LoadEnabled, ResetCount, Expose, LoadSamples, LoadTotal, LoadFast, ReadLimit, Decide,
         StoreLimit, ResetBucket, gate, hist
<1>w. \A c : CtlShape(Waiting(c))
  BY DEF CtlShape, Waiting
<1>s. CtlShape(ctl) /\ limit \in Int /\ active \in Int
  BY HoldersFinite DEF HoldInv, LimitShapes, ActiveIsHolders
<1>2. CtlShape(ctl') /\ limit' \in Int
  <2>1. CASE Tick \/ LoadEnabled \/ ResetCount \/ Expose \/ LoadSamples \/ LoadTotal \/ LoadFast
             \/ ReadLimit \/ \E s \in Speeds : ResetBucket(s)
    BY <2>1, <1>w, <1>s DEF Tick, LoadEnabled, ResetCount, Expose, LoadSamples, LoadTotal, LoadFast,
       ReadLimit, ResetBucket, CtlShape, gate, hist
  <2>2. CASE Decide
    <3>1. CutTo(ctl.cur, active) \in Int
      BY <1>s DEF CutTo, Larger, CtlShape, Setting, ConcurrencyAssumption
    <3>2. GrowTo(ctl.cur) \in Int
      BY <1>s DEF GrowTo, Smaller, CtlShape, Setting, ConcurrencyAssumption
    <3> QED BY <2>2, <1>w, <1>s, <3>1, <3>2 DEF Decide, CtlShape, gate
  <2>3. CASE StoreLimit
    BY <2>3, <1>w, <1>s DEF StoreLimit, CtlShape
  <2> QED BY <2>1, <2>2, <2>3
<1>3. LimitShapes'
  BY <1>1, <1>2 DEF HoldInv, LimitShapes
<1> QED BY <1>1, <1>3, KeepReqs

(* The admin endpoint moves the limit and the switches, never a request. *)
LEMMA HoldInvAdmin ==
  ASSUME Setting, HoldInv,
         \/ \E a \in Admins :
               \/ \E f \in {"enabled", "fixed"}, x \in {0, 1} : LoadConfig(a, f, x)
               \/ \E x \in Overrides : LoadConfig(a, "limit", x)
               \/ StoreConfig(a) \/ StoreFlag(a) \/ SetLimit(a)
         \/ \E x \in Overrides : Post(x)
  PROVE  HoldInv'
<1>1. req' = req /\ active' = active /\ ctl' = ctl
  BY DEF LoadConfig, StoreConfig, StoreFlag, SetLimit, Post, gate
<1>s. limit \in Int /\ (\A a \in Admins : AdmShape(adm[a])) /\ DOMAIN adm = Admins /\ Overrides \subseteq Int
  BY DEF HoldInv, LimitShapes, Setting, ConcurrencyAssumption
<1>i. AdmShape(IdleAdm)
  BY DEF AdmShape, IdleAdm
<1>2. ASSUME NEW a \in Admins, NEW q, AdmShape(q), adm' = [adm EXCEPT ![a] = q]
      PROVE  DOMAIN adm' = Admins /\ \A b \in Admins : AdmShape(adm'[b])
  BY <1>2, <1>s
<1>3. (DOMAIN adm' = Admins /\ \A b \in Admins : AdmShape(adm'[b])) /\ limit' \in Int
  <2>1. ASSUME NEW a \in Admins, NEW f, NEW x \in Int, LoadConfig(a, f, x)
        PROVE  (DOMAIN adm' = Admins /\ \A b \in Admins : AdmShape(adm'[b])) /\ limit' \in Int
    <3> DEFINE q == [pc |-> "config", field |-> f, to |-> x,
                     cfg |-> IF f = "limit" THEN config ELSE [config EXCEPT ![f] = (x = 1)]]
    <3>1. AdmShape(q)
      BY DEF AdmShape
    <3>2. adm' = [adm EXCEPT ![a] = q] /\ limit' = limit
      BY <2>1 DEF LoadConfig, gate
    <3> HIDE DEF q
    <3> QED BY <3>1, <3>2, <1>2, <1>s
  <2>2. ASSUME NEW a \in Admins, StoreConfig(a)
        PROVE  (DOMAIN adm' = Admins /\ \A b \in Admins : AdmShape(adm'[b])) /\ limit' \in Int
    <3> DEFINE q == [adm[a] EXCEPT !.pc = "flag"]
    <3>1. AdmShape(q)
      BY <1>s DEF AdmShape
    <3>2. adm' = [adm EXCEPT ![a] = q] /\ limit' = limit
      BY <2>2 DEF StoreConfig
    <3> HIDE DEF q
    <3> QED BY <3>1, <3>2, <1>2, <1>s
  <2>3. ASSUME NEW a \in Admins, StoreFlag(a)
        PROVE  (DOMAIN adm' = Admins /\ \A b \in Admins : AdmShape(adm'[b])) /\ limit' \in Int
    <3> DEFINE q == IF adm[a].field = "limit" THEN [adm[a] EXCEPT !.pc = "limit"] ELSE IdleAdm
    <3>1. AdmShape(q)
      BY <1>s, <1>i DEF AdmShape
    <3>2. adm' = [adm EXCEPT ![a] = q] /\ limit' = limit
      BY <2>3, <1>s DEF StoreFlag
    <3> HIDE DEF q
    <3> QED BY <3>1, <3>2, <1>2, <1>s
  <2>4. ASSUME NEW a \in Admins, SetLimit(a)
        PROVE  (DOMAIN adm' = Admins /\ \A b \in Admins : AdmShape(adm'[b])) /\ limit' \in Int
    <3>1. adm' = [adm EXCEPT ![a] = IdleAdm] /\ limit' = adm[a].to /\ adm[a].to \in Int
      BY <2>4, <1>s DEF SetLimit, AdmShape
    <3> QED BY <3>1, <1>i, <1>2
  <2>5. ASSUME NEW x \in Overrides, Post(x)
        PROVE  (DOMAIN adm' = Admins /\ \A b \in Admins : AdmShape(adm'[b])) /\ limit' \in Int
    BY <2>5, <1>s DEF Post
  <2>6. {0, 1} \subseteq Int
    OBVIOUS
  <2> QED BY <1>s, <2>1, <2>2, <2>3, <2>4, <2>5, <2>6
<1>4. LimitShapes'
  BY <1>1, <1>3 DEF HoldInv, LimitShapes
<1> QED BY <1>1, <1>4, KeepReqs

(* Every step of the gate keeps the invariant. *)
LEMMA HoldInvNext == ASSUME Setting PROVE HoldInv /\ [Next]_vars => HoldInv'
<1> SUFFICES ASSUME HoldInv, [Next]_vars PROVE HoldInv'
  OBVIOUS
<1>1. CASE UNCHANGED vars
  <2>1. req' = req /\ active' = active /\ limit' = limit /\ ctl' = ctl /\ adm' = adm
    BY <1>1 DEF vars, gate
  <2>2. LimitShapes'
    BY <2>1 DEF HoldInv, LimitShapes
  <2> QED BY <2>1, <2>2, KeepReqs
<1>2. CASE Next
  BY <1>2, HoldInvRequest, HoldInvSwap, HoldInvLeave, HoldInvController, HoldInvAdmin DEF Next
<1> QED BY <1>1, <1>2

(* The semaphore counts exactly the requests that hold it, whatever the    *)
(* controller, the administrators and the switching of the gate do         *)
(* (TryAcquire and the deferred Release in ServeHTTP).                     *)
THEOREM SemaphoreExact == ASSUME Setting PROVE Spec => []ActiveIsHolders
<1>1. HoldInv => ActiveIsHolders
  BY DEF HoldInv
<1> QED BY <1>1, HoldInvInit, HoldInvNext, PTL DEF Spec

(* Requests are never admitted beyond a limit in force: among any requests *)
(* in flight one loaded a limit of at least their number (TryAcquire).     *)
THEOREM AdmissionBounded == ASSUME Setting PROVE Spec => []AdmittedWithinLimit
<1>1. HoldInv => AdmittedWithinLimit
  BY DEF HoldInv
<1> QED BY <1>1, HoldInvInit, HoldInvNext, PTL DEF Spec

-----------------------------------------------------------------------------
(* The histogram and the controller's verdict.  A sample is counted before *)
(* it is put into its bucket, so a generation's count is at most its       *)
(* buckets and the samples on their way, except while Rotate zeroes it,    *)
(* and Rotate zeroes the buckets before the count.                         *)

Filing(g) == {r \in Requests : req[r].pc = "filing" /\ req[r].gen = g}
OnItsWay(g) == Cardinality(Filing(g))

HistShapes ==
    /\ count \in [Gens -> Nat] /\ bucket \in [Gens -> [Speeds -> Nat]] /\ current \in Gens
    /\ \A r \in Requests : req[r].gen \in Gens /\ req[r].speed \in Speeds
    /\ ctl.total \in Nat /\ ctl.slow \in BOOLEAN /\ ctl.evidence \in BOOLEAN

Counted ==
    \A g \in Gens :
      \/ ctl.pc \in {"reset slow", "reset count"} /\ g = 1 - current
      \/ count[g] <= bucket[g]["fast"] + bucket[g]["slow"] + OnItsWay(g)

(* What the controller knows of the evidence as it goes through the buckets. *)
Judged ==
    /\ ctl.pc = "fast" /\ ~ctl.evidence => ctl.total <= bucket[1 - current]["fast"]
    /\ ctl.pc \in {"limit", "active"} /\ ctl.slow => ctl.evidence
    /\ ctl.pc = "cut" => ctl.evidence

HistInv == HistShapes /\ Counted /\ Judged

(* The samples on their way are finitely many. *)
LEMMA FilingFinite ==
  ASSUME Setting, NEW g PROVE IsFiniteSet(Filing(g)) /\ OnItsWay(g) \in Nat
<1>1. IsFiniteSet(Filing(g))
  BY FS_Subset DEF Setting, Filing
<1> QED BY <1>1, FS_CardinalityType DEF OnItsWay

(* The histogram starts empty. *)
LEMMA HistInvInit == ASSUME Setting PROVE Init => HistInv
<1> SUFFICES ASSUME Init PROVE HistInv
  OBVIOUS
<1>1. HistShapes
  BY DEF Init, HistShapes, Gens, Speeds, IdleReq, Waiting
<1>2. Counted
  <2> SUFFICES ASSUME NEW g \in Gens
               PROVE  count[g] <= bucket[g]["fast"] + bucket[g]["slow"] + OnItsWay(g)
    BY DEF Counted
  <2>1. count[g] = 0 /\ bucket[g]["fast"] = 0 /\ bucket[g]["slow"] = 0
    BY DEF Init, Speeds
  <2> QED BY <2>1, FilingFinite
<1>3. Judged
  BY DEF Init, Judged, Waiting
<1> QED BY <1>1, <1>2, <1>3 DEF HistInv

(* A step that leaves histogram and controller alone, and no sample on its *)
(* way.                                                                    *)
LEMMA KeepHist ==
  ASSUME HistInv, UNCHANGED <<hist, ctl>>, \A g \in Gens : Filing(g)' = Filing(g),
         \A r \in Requests : req'[r].gen \in Gens /\ req'[r].speed \in Speeds
  PROVE  HistInv'
<1>1. HistShapes'
  BY DEF HistInv, HistShapes, hist
<1>2. Counted'
  BY DEF HistInv, Counted, OnItsWay, hist
<1>3. Judged'
  BY DEF HistInv, Judged, hist
<1> QED BY <1>1, <1>2, <1>3 DEF HistInv

(* Steps of a request other than the recording of its latency. *)
LEMMA HistInvGate ==
  ASSUME HoldInv, HistInv, NEW r \in Requests,
         \/ CheckGate(r) \/ LoadActive(r) \/ LoadLimit(r) \/ SwapActive(r)
         \/ \E s \in Speeds : LoadGeneration(r, s)
         \/ Leave(r)
  PROVE  HistInv'
<1>s. ReqShapes /\ req[r].gen \in Gens /\ req[r].speed \in Speeds /\ current \in Gens
  BY DEF HoldInv, HistInv, HistShapes
<1>1. /\ UNCHANGED <<hist, ctl>>
      /\ \E q : /\ req' = [req EXCEPT ![r] = q]
                /\ req[r].pc # "filing" /\ q.pc # "filing" /\ q.gen \in Gens /\ q.speed \in Speeds
  <2>1. CASE CheckGate(r)
    <3> DEFINE q == [req[r] EXCEPT !.pc = IF enabled THEN "loading" ELSE "serving"]
    <3>1. q.pc # "filing" /\ q.gen \in Gens /\ q.speed \in Speeds
      BY <1>s DEF ReqShapes, ReqShape
    <3> QED BY <2>1, <3>1 DEF CheckGate
  <2>2. CASE LoadActive(r)
    <3> DEFINE q == [req[r] EXCEPT !.pc = "comparing", !.cur = active]
    <3>1. q.pc # "filing" /\ q.gen \in Gens /\ q.speed \in Speeds
      BY <1>s DEF ReqShapes, ReqShape
    <3> QED BY <2>2, <3>1 DEF LoadActive
  <2>3. CASE LoadLimit(r)
    <3> DEFINE q == IF req[r].cur >= limit THEN IdleReq ELSE [req[r] EXCEPT !.pc = "swapping", !.lim = limit]
    <3>1. q.pc # "filing" /\ q.gen \in Gens /\ q.speed \in Speeds
      BY <1>s DEF ReqShapes, ReqShape, IdleReq, Gens, Speeds
    <3>2. req' = [req EXCEPT ![r] = q]
      BY <2>3 DEF LoadLimit
    <3> QED BY <2>3, <3>1, <3>2 DEF LoadLimit
  <2>4. CASE SwapActive(r)
    <3> DEFINE q == IF active = req[r].cur THEN [req[r] EXCEPT !.pc = "serving", !.cur = 0]
                                           ELSE [req[r] EXCEPT !.pc = "loading", !.cur = 0, !.lim = 0]
    <3>1. q.pc # "filing" /\ q.gen \in Gens /\ q.speed \in Speeds
      BY <1>s DEF ReqShapes, ReqShape
    <3>2. req' = [req EXCEPT ![r] = q]
      BY <2>4 DEF SwapActive
    <3> QED BY <2>4, <3>1, <3>2 DEF SwapActive
  <2>5. CASE \E s \in Speeds : LoadGeneration(r, s)
    <3>1. PICK s \in Speeds : LoadGeneration(r, s)
      BY <2>5
    <3> DEFINE q == [req[r] EXCEPT !.pc = "counting", !.gen = current, !.speed = s]
    <3>2. q.pc # "filing" /\ q.gen \in Gens /\ q.speed \in Speeds
      BY <1>s DEF ReqShapes, ReqShape
    <3> QED BY <3>1, <3>2 DEF LoadGeneration
  <2>6. CASE Leave(r)
    <3>1. IdleReq.pc # "filing" /\ IdleReq.gen \in Gens /\ IdleReq.speed \in Speeds
      BY DEF IdleReq, Gens, Speeds
    <3> QED BY <2>6, <3>1 DEF Leave
  <2> QED BY <2>1, <2>2, <2>3, <2>4, <2>5, <2>6
<1>2. \A g \in Gens : Filing(g)' = Filing(g)
  BY <1>1, <1>s DEF Filing, ReqShapes
<1>3. \A x \in Requests : req'[x].gen \in Gens /\ req'[x].speed \in Speeds
  BY <1>1, <1>s DEF HistInv, HistShapes, ReqShapes
<1> QED BY <1>1, <1>2, <1>3, KeepHist

(* Record adds to the count, and its sample is on its way. *)
LEMMA HistInvCount ==
  ASSUME Setting, HoldInv, HistInv, NEW r \in Requests, AddCount(r) PROVE HistInv'
<1> DEFINE q == [req[r] EXCEPT !.pc = "filing"]
<1>s. ReqShapes /\ HistShapes
  BY DEF HoldInv, HistInv
<1>g. PICK g \in Gens : g = req[r].gen
  BY <1>s DEF HistShapes
<1>1. /\ req[r].pc = "counting" /\ req' = [req EXCEPT ![r] = q]
      /\ q.pc = "filing" /\ q.gen = g /\ q.speed = req[r].speed
      /\ UNCHANGED <<bucket, current, ctl>>
  BY <1>s, <1>g DEF AddCount, ReqShapes, ReqShape
<1>2. count'[g] = count[g] + 1 /\ count' \in [Gens -> Nat] /\ \A h \in Gens : h # g => count'[h] = count[h]
  BY <1>s, <1>g DEF AddCount, HistShapes
<1> HIDE DEF q
<1>3. req'[r] = q /\ \A x \in Requests : x # r => req'[x] = req[x]
  BY <1>1, <1>s DEF ReqShapes
<1>4. HistShapes'
  BY <1>1, <1>2, <1>3, <1>s DEF HistShapes
<1>5. Filing(g)' = Filing(g) \cup {r} /\ r \notin Filing(g)
  BY <1>1, <1>3, <1>g DEF Filing
<1>6. \A h \in Gens : h # g => OnItsWay(h)' = OnItsWay(h)
  BY <1>1, <1>3, <1>g DEF OnItsWay, Filing
<1>7. OnItsWay(g)' = OnItsWay(g) + 1
  BY <1>5, FilingFinite, FS_AddElement DEF OnItsWay
<1>8. Counted'
  <2>0. SUFFICES ASSUME NEW h \in Gens, ~(ctl.pc \in {"reset slow", "reset count"} /\ h = 1 - current)
                 PROVE  count'[h] <= bucket[h]["fast"] + bucket[h]["slow"] + OnItsWay(h)'
    BY <1>1 DEF Counted
  <2>1. /\ count[h] <= bucket[h]["fast"] + bucket[h]["slow"] + OnItsWay(h)
        /\ count[h] \in Nat /\ bucket[h]["fast"] \in Nat /\ bucket[h]["slow"] \in Nat
        /\ OnItsWay(h) \in Nat
    BY <1>s, <2>0, FilingFinite DEF HistInv, Counted, HistShapes, Speeds
  <2>2. CASE h = g
    BY <1>2, <1>7, <2>1, <2>2
  <2>3. CASE h # g
    BY <1>2, <1>6, <2>1, <2>3
  <2> QED BY <2>2, <2>3
<1>9. Judged'
  BY <1>1 DEF HistInv, Judged
<1> QED BY <1>4, <1>8, <1>9 DEF HistInv

(* The sample arrives in its bucket. *)
LEMMA HistInvBucket ==
  ASSUME Setting, HoldInv, HistInv, NEW r \in Requests, AddBucket(r) PROVE HistInv'
<1> DEFINE q == [req[r] EXCEPT !.pc = "leaving", !.gen = 0, !.speed = "fast"]
<1>s. ReqShapes /\ HistShapes
  BY DEF HoldInv, HistInv
<1>g. PICK g \in Gens, v \in Speeds : g = req[r].gen /\ v = req[r].speed
  BY <1>s DEF HistShapes
<1>1. /\ req[r].pc = "filing" /\ req' = [req EXCEPT ![r] = q]
      /\ q.pc = "leaving" /\ q.gen \in Gens /\ q.speed \in Speeds
      /\ UNCHANGED <<count, current, ctl>>
  BY <1>s DEF AddBucket, ReqShapes, ReqShape, Gens, Speeds
<1>2. /\ bucket' \in [Gens -> [Speeds -> Nat]]
      /\ bucket'[g]["fast"] + bucket'[g]["slow"] = bucket[g]["fast"] + bucket[g]["slow"] + 1
      /\ bucket'[g]["fast"] >= bucket[g]["fast"]
      /\ \A h \in Gens : h # g => bucket'[h] = bucket[h]
  <2>1. bucket' = [bucket EXCEPT ![g] = [bucket[g] EXCEPT ![v] = bucket[g][v] + 1]]
    BY <1>s, <1>g DEF AddBucket, HistShapes
  <2>2. bucket[g] \in [Speeds -> Nat] /\ bucket[g]["fast"] \in Nat /\ bucket[g]["slow"] \in Nat
    BY <1>s DEF HistShapes, Speeds
  <2>3. CASE v = "fast"
    BY <1>s, <2>1, <2>2, <2>3 DEF HistShapes, Speeds
  <2>4. CASE v = "slow"
    BY <1>s, <2>1, <2>2, <2>4 DEF HistShapes, Speeds
  <2> QED BY <1>s, <2>3, <2>4 DEF Speeds
<1> HIDE DEF q
<1>3. req'[r] = q /\ \A x \in Requests : x # r => req'[x] = req[x]
  BY <1>1, <1>s DEF ReqShapes
<1>4. HistShapes'
  BY <1>1, <1>2, <1>3, <1>s DEF HistShapes
<1>5. Filing(g)' = Filing(g) \ {r} /\ r \in Filing(g)
  BY <1>1, <1>3, <1>g DEF Filing
<1>6. \A h \in Gens : h # g => OnItsWay(h)' = OnItsWay(h)
  BY <1>1, <1>3, <1>g DEF OnItsWay, Filing
<1>7. OnItsWay(g)' = OnItsWay(g) - 1
  BY <1>5, FilingFinite, FS_RemoveElement DEF OnItsWay
<1>8. Counted'
  <2>0. SUFFICES ASSUME NEW h \in Gens, ~(ctl.pc \in {"reset slow", "reset count"} /\ h = 1 - current)
                 PROVE  count[h] <= bucket'[h]["fast"] + bucket'[h]["slow"] + OnItsWay(h)'
    BY <1>1 DEF Counted
  <2>1. /\ count[h] <= bucket[h]["fast"] + bucket[h]["slow"] + OnItsWay(h)
        /\ count[h] \in Nat /\ bucket[h]["fast"] \in Nat /\ bucket[h]["slow"] \in Nat
        /\ OnItsWay(h) \in Nat
    BY <1>s, <2>0, FilingFinite DEF HistInv, Counted, HistShapes, Speeds
  <2>2. CASE h = g
    BY <1>2, <1>7, <2>1, <2>2
  <2>3. CASE h # g
    BY <1>2, <1>6, <2>1, <2>3
  <2> QED BY <2>2, <2>3
<1>9. Judged'
  <2>1. /\ 1 - current \in Gens /\ bucket[1 - current]["fast"] \in Nat /\ bucket'[1 - current]["fast"] \in Nat
        /\ ctl.total \in Nat
    BY <1>2, <1>s DEF HistShapes, Gens, Speeds
  <2>2. bucket'[1 - current]["fast"] >= bucket[1 - current]["fast"]
    BY <1>2, <2>1
  <2>3. ctl.pc = "fast" /\ ~ctl.evidence => ctl.total <= bucket'[1 - current]["fast"]
    BY <2>1, <2>2 DEF HistInv, Judged
  <2> QED BY <1>1, <2>3 DEF HistInv, Judged
<1> QED BY <1>4, <1>8, <1>9 DEF HistInv

Verdict(c) == c.total \in Nat /\ c.slow \in BOOLEAN /\ c.evidence \in BOOLEAN

(* A step of the controller that leaves the histogram alone. *)
LEMMA KeepCounts ==
  ASSUME HistInv, UNCHANGED <<count, bucket, current, req>>,
         ctl.pc \notin {"reset slow", "reset count"}, Verdict(ctl'), Judged'
  PROVE  HistInv'
<1>1. HistShapes'
  BY DEF HistInv, HistShapes, Verdict
<1>2. Counted'
  BY DEF HistInv, Counted, OnItsWay, Filing
<1> QED BY <1>1, <1>2 DEF HistInv

(* Rotate zeroes the buckets of the generation it will expose, then its    *)
(* count, and exposes it.                                                  *)
LEMMA HistInvRotate ==
  ASSUME Setting, HoldInv, HistInv, (\E s \in Speeds : ResetBucket(s)) \/ ResetCount \/ Expose
  PROVE  HistInv'
<1>p. HistShapes /\ CtlShape(ctl) /\ 1 - current \in Gens
  BY DEF HoldInv, LimitShapes, HistInv, HistShapes, Gens
<1>q. HistShapes /\ CtlShape(ctl) /\ 1 - current \in Gens /\ req' = req
  BY <1>p DEF ResetBucket, ResetCount, Expose
<1>w. \A g \in Gens : OnItsWay(g) \in Nat
  BY FilingFinite
<1>v. \A g \in Gens : OnItsWay(g)' = OnItsWay(g)
  BY <1>q DEF OnItsWay, Filing
<1>s. /\ HistShapes /\ CtlShape(ctl) /\ 1 - current \in Gens /\ req' = req
      /\ \A g \in Gens : OnItsWay(g)' = OnItsWay(g) /\ OnItsWay(g) \in Nat
  BY <1>q, <1>w, <1>v
<1>1. ASSUME NEW s \in Speeds, ResetBucket(s) PROVE HistInv'
  <2>1. /\ count' = count /\ current' = current
        /\ ctl' = [ctl EXCEPT !.pc = IF s = "fast" THEN "reset slow" ELSE "reset count"]
        /\ bucket' = [bucket EXCEPT ![1 - current] = [bucket[1 - current] EXCEPT ![s] = 0]]
        /\ ctl.pc \in {"reset", "reset slow"}
    BY <1>1, <1>s DEF ResetBucket, HistShapes
  <2>2. /\ ctl'.pc \in {"reset slow", "reset count"}
        /\ ctl'.total = ctl.total /\ ctl'.slow = ctl.slow /\ ctl'.evidence = ctl.evidence
    BY <2>1, <1>s DEF CtlShape
  <2>3. /\ bucket' \in [Gens -> [Speeds -> Nat]]
        /\ \A g \in Gens : g # 1 - current => bucket'[g] = bucket[g]
    BY <2>1, <1>s DEF HistShapes
  <2>4. HistShapes'
    BY <2>1, <2>2, <2>3, <1>s DEF HistShapes
  <2>5. Counted'
    BY <2>1, <2>2, <2>3, <1>s DEF HistInv, Counted
  <2>6. Judged'
    BY <2>2 DEF Judged
  <2> QED BY <2>4, <2>5, <2>6 DEF HistInv
<1>2. CASE ResetCount
  <2>1. /\ bucket' = bucket /\ current' = current /\ ctl' = [ctl EXCEPT !.pc = "expose"]
        /\ count' \in [Gens -> Nat] /\ count'[1 - current] = 0
        /\ \A g \in Gens : g # 1 - current => count'[g] = count[g]
        /\ ctl.pc = "reset count"
    BY <1>2, <1>s DEF ResetCount, HistShapes
  <2>2. ctl'.pc = "expose" /\ ctl'.total = ctl.total /\ ctl'.slow = ctl.slow /\ ctl'.evidence = ctl.evidence
    BY <2>1, <1>s DEF CtlShape
  <2>3. HistShapes'
    BY <2>1, <2>2, <1>s DEF HistShapes
  <2>4. Counted'
    <3> SUFFICES ASSUME NEW g \in Gens
                 PROVE  count'[g] <= bucket[g]["fast"] + bucket[g]["slow"] + OnItsWay(g)'
      BY <2>1 DEF Counted
    <3>1. /\ bucket[g]["fast"] \in Nat /\ bucket[g]["slow"] \in Nat
          /\ OnItsWay(g) \in Nat /\ OnItsWay(g)' = OnItsWay(g)
      BY <1>s DEF HistShapes, Speeds
    <3>2. CASE g = 1 - current
      <4>1. count'[g] = 0
        BY <2>1, <3>2
      <4>2. 0 <= bucket[g]["fast"] + bucket[g]["slow"] + OnItsWay(g)'
        BY <3>1
      <4> QED BY <4>1, <4>2
    <3>3. CASE g # 1 - current
      <4>1. count[g] <= bucket[g]["fast"] + bucket[g]["slow"] + OnItsWay(g)
        BY <3>3 DEF HistInv, Counted
      <4> QED BY <2>1, <3>1, <3>3, <4>1
    <3> QED BY <3>2, <3>3
  <2>5. Judged'
    BY <2>2 DEF Judged
  <2> QED BY <2>3, <2>4, <2>5 DEF HistInv
<1>3. CASE Expose
  <2>1. count' = count /\ bucket' = bucket /\ current' \in Gens /\ ctl.pc = "expose"
    BY <1>3, <1>s DEF Expose
  <2>2. ctl'.pc \in {"waiting", "samples"} /\ Verdict(ctl')
    BY <1>3, <1>s DEF Expose, Waiting, Verdict, CtlShape, HistShapes
  <2>3. HistShapes'
    BY <2>1, <2>2, <1>s DEF HistShapes, Verdict
  <2>4. Counted'
    BY <2>1, <1>s DEF HistInv, Counted
  <2>5. Judged'
    BY <2>2 DEF Judged
  <2> QED BY <2>3, <2>4, <2>5 DEF HistInv
<1> QED BY <1>1, <1>2, <1>3

(* p99Ms: without a slow sample, and with none on its way, all samples of  *)
(* the frozen generation are in the fast bucket already.                   *)
LEMMA HistInvTotal ==
  ASSUME Setting, HoldInv, HistInv, LoadTotal PROVE HistInv'
<1> DEFINE F == 1 - current
<1>s. HistShapes /\ CtlShape(ctl) /\ F \in Gens
  BY DEF HoldInv, LimitShapes, HistInv, HistShapes, Gens
<1>1. /\ UNCHANGED <<count, bucket, current, req>> /\ ctl.pc = "total"
      /\ ctl'.pc = "fast" /\ ctl'.total = count[F] /\ ctl'.slow = ctl.slow
      /\ ctl'.evidence = (bucket[F]["slow"] > 0 \/ \E r \in Requests : req[r].pc = "filing" /\ req[r].gen = F)
  BY <1>s DEF LoadTotal, Frozen, CtlShape, hist
<1>2. ASSUME ~ctl'.evidence PROVE count[F] <= bucket[F]["fast"]
  <2>1. Filing(F) = {}
    BY <1>1, <1>2 DEF Filing
  <2>2. OnItsWay(F) = 0
    BY <2>1, FS_EmptySet DEF OnItsWay
  <2>3. bucket[F]["slow"] \in Nat /\ bucket[F]["fast"] \in Nat /\ count[F] \in Nat
    BY <1>s DEF HistShapes, Speeds
  <2>4. bucket[F]["slow"] = 0
    <3>1. ~(bucket[F]["slow"] > 0)
      BY <1>1, <1>2
    <3> QED BY <2>3, <3>1
  <2>5. count[F] <= bucket[F]["fast"] + bucket[F]["slow"] + OnItsWay(F)
    BY <1>1, <1>s DEF HistInv, Counted
  <2> QED BY <2>2, <2>3, <2>4, <2>5
<1>3. Verdict(ctl')
  BY <1>1, <1>s DEF HistShapes, Verdict
<1>4. Judged'
  BY <1>1, <1>2 DEF Judged
<1> QED BY <1>1, <1>3, <1>4, KeepCounts

(* The other steps of the controller: a verdict of slow without evidence   *)
(* would have found fewer fast samples than it counted.                    *)
LEMMA HistInvController ==
  ASSUME Setting, HoldInv, HistInv,
         Tick \/ LoadEnabled \/ LoadSamples \/ LoadFast \/ ReadLimit \/ Decide \/ StoreLimit
  PROVE  HistInv'
<1>s. HistShapes /\ CtlShape(ctl) /\ Judged
  BY DEF HoldInv, LimitShapes, HistInv
<1>1. UNCHANGED <<count, bucket, current, req>> /\ ctl.pc \notin {"reset slow", "reset count"}
  BY DEF Tick, LoadEnabled, LoadSamples, LoadFast, ReadLimit, Decide, StoreLimit, hist
<1>2. CASE Tick \/ LoadEnabled \/ LoadSamples \/ StoreLimit
  <2>w. \A c : Waiting(c).pc = "waiting" /\ Verdict(Waiting(c))
    BY DEF Waiting, Verdict
  <2>v. Verdict(ctl)
    BY <1>s DEF HistShapes, Verdict
  <2>t. Tick => ctl'.pc \in {"tick", "reset", "waiting", "total"} /\ Verdict(ctl')
    BY <2>v, <1>s DEF Tick, CtlShape, Verdict
  <2>e. LoadEnabled => ctl'.pc \in {"tick", "reset", "waiting", "total"} /\ Verdict(ctl')
    BY <2>v, <1>s DEF LoadEnabled, CtlShape, Verdict
  <2>c. LoadSamples => ctl'.pc \in {"tick", "reset", "waiting", "total"} /\ Verdict(ctl')
    BY <2>v, <2>w, <1>s DEF LoadSamples, CtlShape, Verdict
  <2>l. StoreLimit => ctl'.pc \in {"tick", "reset", "waiting", "total"} /\ Verdict(ctl')
    BY <2>w DEF StoreLimit
  <2>1. ctl'.pc \in {"tick", "reset", "waiting", "total"} /\ Verdict(ctl')
    BY <1>2, <2>t, <2>e, <2>c, <2>l
  <2>2. Judged'
    BY <2>1 DEF Judged
  <2> QED BY <1>1, <2>1, <2>2, KeepCounts
<1>3. CASE LoadFast
  <2>1. /\ ctl'.pc = "limit" /\ ctl'.evidence = ctl.evidence /\ ctl'.total = ctl.total
        /\ ctl'.slow = (bucket[1 - current]["fast"] < ctl.total) /\ ctl.pc = "fast"
    BY <1>3, <1>s DEF LoadFast, Frozen, CtlShape
  <2>2. bucket[1 - current]["fast"] \in Nat /\ ctl.total \in Nat /\ ctl.evidence \in BOOLEAN
    BY <1>s DEF HistShapes, Gens, Speeds
  <2>3. Verdict(ctl')
    BY <2>1, <2>2 DEF Verdict
  <2>4. ctl'.slow => ctl'.evidence
    BY <2>1, <2>2, <1>s DEF Judged
  <2>5. Judged'
    BY <2>1, <2>4 DEF Judged
  <2> QED BY <1>1, <2>3, <2>5, KeepCounts
<1>4. CASE ReadLimit
  <2>1. /\ ctl'.pc = "active" /\ ctl'.evidence = ctl.evidence /\ ctl'.total = ctl.total
        /\ ctl'.slow = ctl.slow /\ ctl.pc = "limit"
    BY <1>4, <1>s DEF ReadLimit, CtlShape
  <2>2. Verdict(ctl') /\ Judged'
    BY <2>1, <1>s DEF Verdict, Judged, HistShapes
  <2> QED BY <1>1, <2>2, KeepCounts
<1>5. CASE Decide
  <2>1. CASE ctl' = Waiting(ctl.cooldown)
    <3>1. Verdict(ctl') /\ Judged'
      BY <2>1 DEF Verdict, Judged, Waiting
    <3> QED BY <1>1, <3>1, KeepCounts
  <2>2. CASE ctl' # Waiting(ctl.cooldown)
    <3>1. /\ (ctl'.pc = "cut" /\ ctl.slow) \/ ctl'.pc = "grow"
          /\ ctl'.evidence = ctl.evidence /\ ctl'.total = ctl.total /\ ctl'.slow = ctl.slow
          /\ ctl.pc = "active"
      BY <1>5, <2>2, <1>s DEF Decide, CtlShape
    <3>2. Verdict(ctl') /\ Judged'
      BY <3>1, <1>s DEF Verdict, Judged, HistShapes
    <3> QED BY <1>1, <3>2, KeepCounts
  <2> QED BY <2>1, <2>2
<1> QED BY <1>2, <1>3, <1>4, <1>5

(* Every step keeps the invariant of the histogram. *)
LEMMA HistInvNext == ASSUME Setting, HoldInv, HistInv, [Next]_vars PROVE HistInv'
<1>1. ASSUME UNCHANGED <<hist, ctl, req>> PROVE HistInv'
  <2>1. /\ \A g \in Gens : Filing(g)' = Filing(g)
        /\ \A r \in Requests : req'[r].gen \in Gens /\ req'[r].speed \in Speeds
    BY <1>1 DEF Filing, HistInv, HistShapes
  <2> QED BY <1>1, <2>1, KeepHist
<1>2. CASE UNCHANGED vars
  BY <1>1, <1>2 DEF vars
<1>3. ASSUME NEW r \in Requests,
             CheckGate(r) \/ LoadActive(r) \/ LoadLimit(r) \/ SwapActive(r)
               \/ (\E s \in Speeds : LoadGeneration(r, s)) \/ Leave(r)
      PROVE  HistInv'
  BY <1>3, HistInvGate
<1>4. ASSUME NEW r \in Requests, AddCount(r) PROVE HistInv'
  BY <1>4, HistInvCount
<1>5. ASSUME NEW r \in Requests, AddBucket(r) PROVE HistInv'
  BY <1>5, HistInvBucket
<1>6. CASE (\E s \in Speeds : ResetBucket(s)) \/ ResetCount \/ Expose
  BY <1>6, HistInvRotate
<1>7. CASE LoadTotal
  BY <1>7, HistInvTotal
<1>8. CASE Tick \/ LoadEnabled \/ LoadSamples \/ LoadFast \/ ReadLimit \/ Decide \/ StoreLimit
  BY <1>8, HistInvController
<1>9. ASSUME NEW a \in Admins,
             \/ \E f \in {"enabled", "fixed"}, x \in {0, 1} : LoadConfig(a, f, x)
             \/ \E x \in Overrides : LoadConfig(a, "limit", x)
             \/ StoreConfig(a) \/ StoreFlag(a) \/ SetLimit(a)
      PROVE  HistInv'
  BY <1>1, <1>9 DEF LoadConfig, StoreConfig, StoreFlag, SetLimit
<1>10. ASSUME NEW x \in Overrides, Post(x) PROVE HistInv'
  BY <1>1, <1>10 DEF Post
<1> QED BY <1>2, <1>3, <1>4, <1>5, <1>6, <1>7, <1>8, <1>9, <1>10 DEF Next

(* The controller never cuts the limit without evidence: a slow sample in  *)
(* the frozen generation, or one whose count its Record had added and      *)
(* whose bucket it had not.  Stragglers of the generation that Rotate      *)
(* clears cannot be mistaken for it, as they add to a count before the     *)
(* bucket and Rotate clears in the other order.                            *)
THEOREM CutsAreFounded == ASSUME Setting PROVE Spec => []CutHasEvidence
<1>1. Init => HoldInv /\ HistInv
  BY HoldInvInit, HistInvInit
<1>2. HoldInv /\ HistInv /\ [Next]_vars => HoldInv' /\ HistInv'
  BY HoldInvNext, HistInvNext
<1>3. HistInv => CutHasEvidence
  BY DEF HistInv, Judged, CutHasEvidence
<1> QED BY <1>1, <1>2, <1>3, PTL DEF Spec

-----------------------------------------------------------------------------
(* The bounds of the limit.  A cut is raised to the active count, which is *)
(* read after the limit; it is within MaxLimit because some holder was     *)
(* admitted under a limit that covers all of them, and every limit loaded  *)
(* before an override is within MaxLimit.                                  *)

Bounded(x) == MinLimit <= x /\ x <= MaxLimit

BoundInv ==
    ~overridden =>
        /\ limit <= MaxLimit
        /\ \A r \in Requests : req[r].lim <= MaxLimit
        /\ ctl.pc # "never" => Bounded(limit)
        /\ ctl.pc = "active" => Bounded(ctl.cur)
        /\ ctl.pc \in {"cut", "grow"} => Bounded(ctl.next)

(* The limits of the configuration are positive integers in order. *)
LEMMA Constants ==
  ASSUME Setting
  PROVE  /\ MinLimit \in Nat /\ MaxLimit \in Nat /\ AddStep \in Nat /\ InitialLimit \in Nat
         /\ MinLimit <= InitialLimit /\ InitialLimit <= MaxLimit /\ MaxLimit > 0
         /\ CutPercent \in 1 .. 100
  BY DEF Setting, ConcurrencyAssumption

(* A percentage of a limit is not above it. *)
LEMMA CutShrinks ==
  ASSUME NEW c \in Nat, NEW p \in 1 .. 100 PROVE (c * p) \div 100 <= c
<1>1. c * p \in Nat /\ c * (100 - p) \in Nat /\ c * p + c * (100 - p) = 100 * c
  OBVIOUS
<1> DEFINE n == c * p
<1>2. n \in Nat /\ n <= 100 * c
  BY <1>1
<1> HIDE DEF n
<1>3. n \div 100 <= c
  BY <1>2
<1> QED BY <1>3 DEF n

(* The active count is within MaxLimit until the limit is overridden. *)
LEMMA ActiveBounded ==
  ASSUME Setting, HoldInv, BoundInv, ~overridden PROVE active \in Nat /\ active <= MaxLimit
<1>1. active = Cardinality(Holders) /\ Cardinality(Holders) \in Nat
  BY HoldersFinite DEF HoldInv, ActiveIsHolders
<1>2. CASE Holders = {}
  BY <1>1, <1>2, FS_EmptySet, Constants
<1>3. CASE Holders # {}
  <2>1. PICK r \in Holders : Cardinality(Holders) <= req[r].lim
    BY <1>3 DEF HoldInv, AdmittedWithinLimit
  <2>2. r \in Requests /\ req[r].lim \in Int
    BY DEF Holders, HoldInv, ReqShapes, ReqShape
  <2>3. req[r].lim <= MaxLimit
    BY <2>2 DEF BoundInv
  <2> QED BY <1>1, <2>1, <2>2, <2>3, Constants
<1> QED BY <1>2, <1>3

(* No limit is above MaxLimit at the start. *)
LEMMA BoundInit == ASSUME Setting PROVE Init => BoundInv
  BY Constants DEF Init, BoundInv, Bounded, IdleReq, Waiting

(* The requests: the limit one loads is the limit in force. *)
LEMMA BoundRequest ==
  ASSUME Setting, HoldInv, BoundInv, NEW r \in Requests,
         \/ CheckGate(r) \/ LoadActive(r) \/ LoadLimit(r) \/ SwapActive(r)
         \/ \E s \in Speeds : LoadGeneration(r, s)
         \/ AddCount(r) \/ AddBucket(r) \/ Leave(r)
  PROVE  BoundInv'
<1>1. limit' = limit /\ ctl' = ctl /\ overridden' = overridden
  BY DEF CheckGate, LoadActive, LoadLimit, SwapActive, LoadGeneration, AddCount, AddBucket, Leave, gate
<1>2. ReqShapes /\ ReqShape(req[r])
  BY DEF HoldInv, ReqShapes
<1>3. \A t \in Requests : req'[t].lim = req[t].lim \/ req'[t].lim = limit \/ req'[t].lim = 0
  <2>1. CASE CheckGate(r) \/ LoadActive(r)
    BY <1>2, <2>1 DEF CheckGate, LoadActive, ReqShapes, ReqShape
  <2>2. CASE LoadLimit(r) \/ Leave(r)
    BY <1>2, <2>2 DEF LoadLimit, Leave, ReqShapes, ReqShape, IdleReq
  <2>3. CASE SwapActive(r)
    BY <1>2, <2>3 DEF SwapActive, ReqShapes, ReqShape
  <2>4. ASSUME NEW s \in Speeds, LoadGeneration(r, s)
        PROVE  \A t \in Requests : req'[t].lim = req[t].lim
    BY <1>2, <2>4 DEF LoadGeneration, ReqShapes, ReqShape
  <2>5. CASE AddCount(r) \/ AddBucket(r)
    BY <1>2, <2>5 DEF AddCount, AddBucket, ReqShapes, ReqShape
  <2> QED BY <2>1, <2>2, <2>3, <2>4, <2>5
<1>4. 0 <= MaxLimit
  BY Constants
<1> QED BY <1>1, <1>3, <1>4 DEF BoundInv

(* The decision: a cut and a growth stay within the bounds. *)
LEMMA BoundDecide == ASSUME Setting, HoldInv, BoundInv, Decide PROVE BoundInv'
<1>1. limit' = limit /\ req' = req /\ overridden' = overridden /\ ctl.pc = "active" /\ CtlShape(ctl)
  BY DEF Decide, gate, HoldInv, LimitShapes
<1>0. SUFFICES ASSUME ~overridden PROVE BoundInv'
  BY <1>1 DEF BoundInv
<1>2. Bounded(ctl.cur) /\ ctl.cur \in Nat /\ Bounded(limit)
  BY <1>0, <1>1, Constants DEF BoundInv, CtlShape, Bounded
<1>3. active \in Nat /\ active <= MaxLimit
  BY <1>0, ActiveBounded
<1>4. Bounded(CutTo(ctl.cur, active))
  <2> DEFINE part == (ctl.cur * CutPercent) \div 100
  <2>1. part <= ctl.cur
    BY <1>2, CutShrinks, Constants
  <2>2. part \in Int
    BY <1>2, Constants
  <2> HIDE DEF part
  <2>3. Bounded(Larger(Larger(part, MinLimit), active))
    BY <1>2, <1>3, <2>1, <2>2, Constants DEF Larger, Bounded
  <2> QED BY <2>3 DEF part, CutTo
<1>5. Bounded(GrowTo(ctl.cur))
  BY <1>2, Constants DEF GrowTo, Smaller, Bounded
<1>w. Waiting(ctl.cooldown).pc = "waiting"
  BY DEF Waiting
<1>d. \/ ctl' = [ctl EXCEPT !.pc = "cut", !.next = CutTo(ctl.cur, active)]
      \/ ctl' = [ctl EXCEPT !.pc = "grow", !.next = GrowTo(ctl.cur)]
      \/ ctl' = Waiting(ctl.cooldown)
  BY DEF Decide
<1>6. ctl'.pc \in {"cut", "grow"} => Bounded(ctl'.next)
  BY <1>1, <1>4, <1>5, <1>d, <1>w DEF CtlShape
<1>7. ctl'.pc \in {"cut", "grow", "waiting"}
  BY <1>1, <1>d, <1>w DEF CtlShape
<1> QED BY <1>0, <1>1, <1>2, <1>6, <1>7 DEF BoundInv

(* The other steps of the controller. *)
LEMMA BoundController ==
  ASSUME Setting, HoldInv, BoundInv,
         \/ Tick \/ LoadEnabled \/ ResetCount \/ Expose \/ LoadSamples \/ LoadTotal \/ LoadFast
         \/ ReadLimit \/ StoreLimit \/ \E s \in Speeds : ResetBucket(s)
  PROVE  BoundInv'
<1>s. CtlShape(ctl) /\ \A c : Waiting(c).pc = "waiting"
  BY DEF HoldInv, LimitShapes, Waiting
<1>1. CASE ReadLimit
  <2>1. /\ limit' = limit /\ req' = req /\ overridden' = overridden
        /\ ctl'.pc = "active" /\ ctl'.cur = limit /\ ctl.pc = "limit"
    BY <1>1, <1>s DEF ReadLimit, gate, CtlShape
  <2> QED BY <2>1 DEF BoundInv
<1>2. CASE StoreLimit
  <2>1. /\ limit' = ctl.next /\ req' = req /\ overridden' = overridden
        /\ ctl'.pc = "waiting" /\ ctl.pc \in {"cut", "grow"}
    BY <1>2, <1>s DEF StoreLimit
  <2> QED BY <2>1 DEF BoundInv, Bounded
<1>3. ASSUME Tick \/ LoadEnabled \/ ResetCount \/ Expose \/ LoadSamples \/ LoadTotal \/ LoadFast
               \/ \E s \in Speeds : ResetBucket(s)
      PROVE  BoundInv'
  <2>1. /\ limit' = limit /\ req' = req /\ overridden' = overridden /\ ctl.pc # "never"
    BY <1>3 DEF Tick, LoadEnabled, ResetCount, Expose, LoadSamples, LoadTotal, LoadFast, ResetBucket, gate
  <2>2. CASE Tick \/ LoadEnabled \/ ResetCount
    BY <1>s, <2>1, <2>2 DEF Tick, LoadEnabled, ResetCount, CtlShape, BoundInv
  <2>3. CASE Expose
    BY <1>s, <2>1, <2>3 DEF Expose, CtlShape, BoundInv
  <2>4. CASE LoadSamples
    BY <1>s, <2>1, <2>4 DEF LoadSamples, CtlShape, BoundInv
  <2>5. CASE LoadTotal \/ LoadFast
    BY <1>s, <2>1, <2>5 DEF LoadTotal, LoadFast, CtlShape, BoundInv
  <2>6. ASSUME NEW s \in Speeds, ResetBucket(s) PROVE BoundInv'
    <3>1. ctl'.pc \in {"reset slow", "reset count"}
      BY <1>s, <2>6 DEF ResetBucket, CtlShape
    <3> QED BY <2>1, <3>1 DEF BoundInv
  <2> QED BY <1>3, <2>2, <2>3, <2>4, <2>5, <2>6
<1> QED BY <1>1, <1>2, <1>3

(* Every step keeps the bounds. *)
LEMMA BoundNext == ASSUME Setting, HoldInv, BoundInv, [Next]_vars PROVE BoundInv'
<1>1. ASSUME UNCHANGED <<limit, req, ctl, overridden>> PROVE BoundInv'
  BY <1>1 DEF BoundInv
<1>2. CASE UNCHANGED vars
  BY <1>1, <1>2 DEF vars, gate
<1>3. ASSUME NEW r \in Requests,
             \/ CheckGate(r) \/ LoadActive(r) \/ LoadLimit(r) \/ SwapActive(r)
             \/ \E s \in Speeds : LoadGeneration(r, s)
             \/ AddCount(r) \/ AddBucket(r) \/ Leave(r)
      PROVE  BoundInv'
  BY <1>3, BoundRequest
<1>4. CASE Decide
  BY <1>4, BoundDecide
<1>5. CASE \/ Tick \/ LoadEnabled \/ ResetCount \/ Expose \/ LoadSamples \/ LoadTotal \/ LoadFast
           \/ ReadLimit \/ StoreLimit \/ \E s \in Speeds : ResetBucket(s)
  BY <1>5, BoundController
<1>6. ASSUME NEW a \in Admins,
             \/ \E f \in {"enabled", "fixed"}, x \in {0, 1} : LoadConfig(a, f, x)
             \/ \E x \in Overrides : LoadConfig(a, "limit", x)
             \/ StoreConfig(a) \/ StoreFlag(a)
      PROVE  BoundInv'
  BY <1>1, <1>6 DEF LoadConfig, StoreConfig, StoreFlag, gate
<1>7. ASSUME NEW a \in Admins, SetLimit(a) PROVE BoundInv'
  BY <1>7 DEF SetLimit, BoundInv
<1>8. ASSUME NEW x \in Overrides, Post(x) PROVE BoundInv'
  BY <1>8 DEF Post, BoundInv
<1> QED BY <1>2, <1>3, <1>4, <1>5, <1>6, <1>7, <1>8 DEF Next

(* The limit stays between MinLimit and MaxLimit until somebody overrides   *)
(* it, although the controller raises a cut to an active count that moves  *)
(* while it decides.                                                       *)
THEOREM LimitBounded == ASSUME Setting PROVE Spec => []LimitInBounds
<1>1. Init => HoldInv /\ BoundInv
  BY HoldInvInit, BoundInit
<1>2. HoldInv /\ BoundInv /\ [Next]_vars => HoldInv' /\ BoundInv'
  BY HoldInvNext, BoundNext
<1>3. HoldInv /\ BoundInv => LimitInBounds
  BY Constants DEF HoldInv, LimitShapes, BoundInv, Bounded, LimitInBounds
<1> QED BY <1>1, <1>2, <1>3, PTL DEF Spec
=============================================================================
