----------------------------- MODULE MCTraffic ------------------------------
(*****************************************************************************)
(* The parts of the request path that bound a request or what it may spend,  *)
(* side by side: the concurrency gate, the multi-window rate limit, the      *)
(* timer wheel, the limits kept in one atomic word, the limit counted in     *)
(* Redis, the model calls with their circuits and spending windows, and the  *)
(* cost quotas. They share no state, so a behaviour is one of one of them    *)
(* (`unit`): the gate rests in an initial state while another part runs, and *)
(* the variables of the other parts are off.                                 *)
(*****************************************************************************)
EXTENDS ConcurrencyLimiter, TLC

CONSTANTS p1, p2, a1, k1, m1, m2

VARIABLES
    unit,     \* the part that runs
    now, reg, slot, asked, used, top,
    second, pending, wheelCurrent, writePos, posRing, buf, fire, cancelled, freeRing, step,
    ticker, panicked, calm, armed, fate, due,
    limiter, clock, words, wordsReq, calls, passed, setBack,
    call, result, queue, flusher, batch, counts, counter, life, stopped, remoteCalls, granted,
    modelsClock, circuit, window, modelsReq, started, held, raced, reacted,
    spendClock, usage, day, month, lastReset, spendReq, spendCalls, unasked,
    dailyClock, dailyUsage, dailyDay, dailyMonth, dailyLastReset, dailyReq, dailyCalls,
    dailyUnasked

TwoRequests == {p1, p2}
OneAdmin == {a1}
TwoModels == {m1, m2}

\* A short window inside a long one.
ShortInLong == <<[div |-> 1, limit |-> 2], [div |-> 2, limit |-> 3]>>
UpstreamWindows == <<[div |-> 1, limit |-> 1], [div |-> 2, limit |-> 2]>>
SpendWindows == <<[length |-> 1, limit |-> 2], [length |-> 3, limit |-> 4]>>

Plain == [tenant |-> "none", config |-> "none", tenantScale |-> 0, configScale |-> 0, limits |-> <<0, 0>>]

\* A tenant scaled up; a configuration with a limit and a scale of its own; a
\* configuration that is blocked, and a tenant without limits.
AllRegistries ==
    { [Plain EXCEPT !.tenantScale = 50],
      [Plain EXCEPT !.config = "override", !.limits = <<1, 0>>, !.configScale = -50, !.tenantScale = 50],
      [Plain EXCEPT !.config = "blocked"], [Plain EXCEPT !.tenant = "unlimited"] }

RequestSymmetry == Permutations(TwoRequests)

Limits == INSTANCE RateLimitV2 WITH Keys <- {k1}, TenantKey <- k1, EmptyKey <- "empty",
    OnEmpty <- "fail", Windows <- ShortInLong, Allocated <- 2, Deltas <- {0, 2},
    Registries <- AllRegistries, Nodes <- 1, Word <- 16, Straddle <- FALSE, MaxNow <- 2,
    req <- asked
Wheel == INSTANCE TimerWheel WITH Calls <- TwoRequests, WheelSize <- 2, MaxPerSlot <- 1,
    Entries <- 1, Durations <- {0, 1}, Word <- 16, MaxSecond <- 2, MaxArms <- 3
Local == INSTANCE LocalLimits WITH Interval <- 2, Windows <- UpstreamWindows, Rate <- 1,
    Burst <- 2, Wrap <- 16, Start <- 3, MaxNow <- 5, MaxCalls <- 6, gate <- limiter,
    req <- wordsReq
Remote == INSTANCE RemoteLimit WITH Callers <- TwoRequests, Limit <- 3, Delta <- 2,
    QueueCap <- 2, BatchMax <- 2, MaxCalls <- 4, MaxLives <- 1, calls <- remoteCalls
Models == INSTANCE ModelRouting WITH Models <- TwoModels, Baked <- m1, Fallback <- <<m2>>,
    Wired <- TRUE, Retries <- 1, Limit <- 2, Costs <- {0, 2}, Div <- 2, OpenFor <- 2,
    Overrides <- {1}, MaxNow <- 5, MaxSteps <- 4, clock <- modelsClock, req <- modelsReq
Spend == INSTANCE CostQuota WITH Windows <- SpendWindows, Daily <- 2, Monthly <- 6, Day <- 1,
    Costs <- {0, 1, 2}, MaxNow <- 4, MaxCalls <- 6, clock <- spendClock, req <- spendReq,
    calls <- spendCalls
Daily == INSTANCE CostQuota WITH Windows <- <<>>, Daily <- 2, Monthly <- 6, Day <- 1,
    Costs <- {0, 1, 2}, MaxNow <- 4, MaxCalls <- 6, clock <- dailyClock, usage <- dailyUsage,
    day <- dailyDay, month <- dailyMonth, lastReset <- dailyLastReset, req <- dailyReq,
    calls <- dailyCalls, unasked <- dailyUnasked

ASSUME ConcurrencyAssumption
ASSUME Limits!RateLimitAssumption
ASSUME Wheel!WheelAssumption
ASSUME Local!LocalAssumption
ASSUME Remote!RemoteAssumption
ASSUME Models!RoutingAssumption
ASSUME Spend!QuotaAssumption
ASSUME Daily!QuotaAssumption

windowsVars == <<now, reg, slot, asked, used, top>>
wheelVars == <<second, pending, wheelCurrent, writePos, posRing, buf, fire, cancelled, freeRing,
        step, ticker, panicked, calm, armed, fate, due>>
wordsVars == <<limiter, clock, words, wordsReq, calls, passed, setBack>>
remoteVars == <<call, result, queue, flusher, batch, counts, counter, life, stopped,
        remoteCalls, granted>>
modelsVars == <<modelsClock, circuit, window, modelsReq, started, held, raced, reacted>>
spendVars == <<spendClock, usage, day, month, lastReset, spendReq, spendCalls, unasked>>
dailyVars == <<dailyClock, dailyUsage, dailyDay, dailyMonth, dailyLastReset, dailyReq,
        dailyCalls, dailyUnasked>>
allVars == <<unit, vars, windowsVars, wheelVars, wordsVars, remoteVars, modelsVars, spendVars, dailyVars>>

Off == "off"
LimitsOff == now = Off /\ reg = Off /\ slot = Off /\ asked = Off /\ used = Off /\ top = Off
WheelOff == second = Off /\ pending = Off /\ wheelCurrent = Off /\ writePos = Off /\
        posRing = Off /\ buf = Off /\ fire = Off /\ cancelled = Off /\ freeRing = Off /\
        step = Off /\ ticker = Off /\ panicked = Off /\ calm = Off /\ armed = Off /\
        fate = Off /\ due = Off
LocalOff == limiter = Off /\ clock = Off /\ words = Off /\ wordsReq = Off /\ calls = Off /\
        passed = Off /\ setBack = Off
RemoteOff == call = Off /\ result = Off /\ queue = Off /\ flusher = Off /\ batch = Off /\
        counts = Off /\ counter = Off /\ life = Off /\ stopped = Off /\ remoteCalls = Off /\
        granted = Off
ModelsOff == modelsClock = Off /\ circuit = Off /\ window = Off /\ modelsReq = Off /\
        started = Off /\ held = Off /\ raced = Off /\ reacted = Off
SpendOff == spendClock = Off /\ usage = Off /\ day = Off /\ month = Off /\ lastReset = Off /\
        spendReq = Off /\ spendCalls = Off /\ unasked = Off
DailyOff == dailyClock = Off /\ dailyUsage = Off /\ dailyDay = Off /\ dailyMonth = Off /\
        dailyLastReset = Off /\ dailyReq = Off /\ dailyCalls = Off /\ dailyUnasked = Off
Rests == Init /\ enabled

TrafficInit ==
    \/ unit = "gate" /\ Init /\ LimitsOff /\ WheelOff /\ LocalOff /\ RemoteOff /\ ModelsOff /\ SpendOff /\ DailyOff
    \/ unit = "windows" /\ Limits!Init /\ Rests /\ WheelOff /\ LocalOff /\ RemoteOff /\ ModelsOff /\ SpendOff /\ DailyOff
    \/ unit = "wheel" /\ Wheel!Init /\ Rests /\ LimitsOff /\ LocalOff /\ RemoteOff /\ ModelsOff /\ SpendOff /\ DailyOff
    \/ unit = "words" /\ Local!Init /\ Rests /\ LimitsOff /\ WheelOff /\ RemoteOff /\ ModelsOff /\ SpendOff /\ DailyOff
    \/ unit = "remote" /\ Remote!Init /\ Rests /\ LimitsOff /\ WheelOff /\ LocalOff /\ ModelsOff /\ SpendOff /\ DailyOff
    \/ unit = "models" /\ Models!Init /\ Rests /\ LimitsOff /\ WheelOff /\ LocalOff /\ RemoteOff /\ SpendOff /\ DailyOff
    \/ unit = "spend" /\ Spend!Init /\ Rests /\ LimitsOff /\ WheelOff /\ LocalOff /\ RemoteOff /\ ModelsOff /\ DailyOff
    \/ unit = "daily" /\ Daily!Init /\ Rests /\ LimitsOff /\ WheelOff /\ LocalOff /\ RemoteOff /\ ModelsOff /\ SpendOff

TrafficNext ==
    \/ unit = "gate" /\ Next /\ UNCHANGED <<unit, windowsVars, wheelVars, wordsVars, remoteVars, modelsVars, spendVars, dailyVars>>
    \/ unit = "windows" /\ Limits!Next /\ UNCHANGED <<unit, vars, wheelVars, wordsVars, remoteVars, modelsVars, spendVars, dailyVars>>
    \/ unit = "wheel" /\ Wheel!Next /\ UNCHANGED <<unit, vars, windowsVars, wordsVars, remoteVars, modelsVars, spendVars, dailyVars>>
    \/ unit = "words" /\ Local!Next /\ UNCHANGED <<unit, vars, windowsVars, wheelVars, remoteVars, modelsVars, spendVars, dailyVars>>
    \/ unit = "remote" /\ Remote!Next /\ UNCHANGED <<unit, vars, windowsVars, wheelVars, wordsVars, modelsVars, spendVars, dailyVars>>
    \/ unit = "models" /\ Models!Next /\ UNCHANGED <<unit, vars, windowsVars, wheelVars, wordsVars, remoteVars, spendVars, dailyVars>>
    \/ unit = "spend" /\ Spend!Next /\ UNCHANGED <<unit, vars, windowsVars, wheelVars, wordsVars, remoteVars, modelsVars, dailyVars>>
    \/ unit = "daily" /\ Daily!Next /\ UNCHANGED <<unit, vars, windowsVars, wheelVars, wordsVars, remoteVars, modelsVars, spendVars>>

TrafficSpec == TrafficInit /\ [][TrafficNext]_allVars

\* No window admits more than its limit (counterEpochCASBy under concurrent
\* requests).
WithinLimit == unit = "windows" => Limits!WithinLimit

\* A request is denied only by a window that has no room for it: the loads and
\* swaps of others lose no count and add none (counterEpochCASBy).
DenialIsFull == [][unit = "windows" => Limits!DenialIsFull]_allVars

\* No entry index is lost or handed out twice (cancel against wheelTick).
IndexInOnePlace == unit = "wheel" => Wheel!IndexInOnePlace

\* A tripped circuit stays open for its duration through every check, unless it
\* is reset or a check had loaded the time of the trip before
\* (TripNamedCircuit, IsNamedCircuitOpen).
TripHolds == unit = "models" => Models!TripHolds

\* No limit that is kept in one atomic word, or counted in Redis, lets more
\* through than it says, whoever wins a swap and however late an answer comes
\* (SpikeArrestLimiter, upstreamEpochAllow, TokenBucket, executeDistributed).
RateKept ==
    /\ unit = "words" => Local!SpikesSpaced /\ Local!EpochWithinLimit /\ Local!BucketWithinRate
    /\ unit = "remote" => Remote!RemoteWithinLimit

\* Requests that pass on the same remainder overspend a window, or the day of a
\* tenant without windows, by no more than one call each (CanAfford,
\* RecordCost).
OvershootBounded ==
    /\ unit = "spend" => Spend!OvershootBounded
    /\ unit = "daily" => Daily!OvershootBounded
=============================================================================
