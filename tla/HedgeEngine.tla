----------------------------- MODULE HedgeEngine -----------------------------
(***************************************************************************)
(* The hedge engine, backend/hedge-engine: every poll interval a tick reads *)
(* the protocol's net exposure per symbol, reads the positions held at the *)
(* broker, and sends the orders that offset the difference, one at a time, *)
(* under trading caps and a kill switch.  Every await is a point where the *)
(* rest of the world moves: the chain, the operator, the clock, the broker, *)
(* a single-shot hedge (runOnce) and the process itself.                   *)
(***************************************************************************)
EXTENDS Integers, FiniteSets, Functions

CONSTANTS
    Symbols,
    Exposures,               \* net exposures a symbol can have
    Ticks,                   \* activations tick() can have at once
    Once,                    \* the activation of runOnce
    deltaThresholdUsd, deltaThresholdPct,
    maxOrderNotionalUsd, maxDailyNotionalUsd, maxOrdersPerCycle, maxOrdersPerDay,
    MaxEvents                \* bound on what the environment does

Activations == Ticks \cup {Once}

ASSUME HedgeConstants ==
    /\ IsFiniteSet(Symbols) /\ IsFiniteSet(Ticks)
    /\ Exposures \subseteq Int /\ 0 \in Exposures /\ Once \notin Ticks
    /\ {deltaThresholdUsd, deltaThresholdPct, maxOrderNotionalUsd, maxDailyNotionalUsd,
        maxOrdersPerCycle, maxOrdersPerDay, MaxEvents} \subseteq Nat

VARIABLES
    exposure,          \* symbol -> UnifiedRiskEngine.getNetExposure
    position,          \* symbol -> net position at the broker
    killFile,          \* does the kill-switch file exist?
    running,           \* is the interval timer set?
    tickInProgress,
    killSwitchEngaged, \* the engine's latch
    dailyNotionalUsd, dailyOrders, cycleOrders,
    newDay,            \* has UTC midnight passed since the counters' dayKey?
    act,               \* activation -> where it is and its local variables
    events,            \* bound: what the environment has done so far
    moved              \* history: symbols a runOnce has traded since a tick read the positions

capVars == <<dailyNotionalUsd, dailyOrders, cycleOrders, newDay>>
engineVars == <<running, tickInProgress, killSwitchEngaged>>
vars == <<exposure, position, killFile, engineVars, capVars, act, events, moved>>

Abs(n) == IF n < 0 THEN -n ELSE n

Idle == [pc |-> "idle", read |-> {}, seen |-> [s \in Symbols |-> 0],
         held |-> [s \in Symbols |-> 0], todo |-> {}, sent |-> {}, found |-> FALSE]

Activation ==
    [pc : {"idle", "reading", "fetching", "executing", "awaiting"},
     read : SUBSET Symbols, seen : [Symbols -> Exposures], held : [Symbols -> Int],
     todo : SUBSET Symbols, sent : SUBSET Symbols,
     found : BOOLEAN]   \* history: has it found the kill switch engaged?

TypeOK ==
    /\ exposure \in [Symbols -> Exposures]
    /\ position \in [Symbols -> Int]
    /\ {killFile, running, tickInProgress, killSwitchEngaged, newDay} \subseteq BOOLEAN
    /\ {dailyNotionalUsd, dailyOrders, cycleOrders} \subseteq Nat
    /\ act \in [Activations -> Activation]
    /\ events \in 0..MaxEvents
    /\ moved \subseteq Symbols

Init ==
    /\ exposure = [s \in Symbols |-> 0]
    /\ position = [s \in Symbols |-> 0]
    /\ killFile = FALSE
    /\ running = FALSE
    /\ tickInProgress = FALSE
    /\ killSwitchEngaged = FALSE
    /\ dailyNotionalUsd = 0 /\ dailyOrders = 0 /\ cycleOrders = 0
    /\ newDay = FALSE
    /\ act = [a \in Activations |-> Idle]
    /\ events = 0
    /\ moved = {}

-----------------------------------------------------------------------------
(* DeltaCalculator: what is left to offset, and whether it is worth an order. *)
Breaches(seen, held) ==
    LET residual == Abs(held + seen)
    IN  \/ residual >= deltaThresholdUsd
        \/ seen # 0 /\ residual * 100 >= deltaThresholdPct * Abs(seen)

DeltaToHedge(seen, held) == -(held + seen)
Notional(seen, held) == Abs(DeltaToHedge(seen, held))

(* CapEnforcer: the counters as they are after rolloverIfNewDay. *)
Today(counter) == IF newDay THEN 0 ELSE counter

(* Mutant: the order itself is left out of the daily notional. *)
ApprovedBefore(notional) ==
    /\ notional <= maxOrderNotionalUsd
    /\ Today(cycleOrders) < maxOrdersPerCycle
    /\ Today(dailyOrders) < maxOrdersPerDay
    /\ Today(dailyNotionalUsd) <= maxDailyNotionalUsd

Approved(notional) ==
    /\ notional <= maxOrderNotionalUsd
    /\ Today(cycleOrders) < maxOrdersPerCycle
    /\ Today(dailyOrders) < maxOrdersPerDay
    /\ Today(dailyNotionalUsd) + notional <= maxDailyNotionalUsd

RollOver ==
    /\ newDay' = FALSE
    /\ dailyNotionalUsd' = Today(dailyNotionalUsd)
    /\ dailyOrders' = Today(dailyOrders)
    /\ cycleOrders' = Today(cycleOrders)

StartCycle ==
    /\ newDay' = FALSE
    /\ dailyNotionalUsd' = Today(dailyNotionalUsd)
    /\ dailyOrders' = Today(dailyOrders)
    /\ cycleOrders' = 0

RecordFill(notional) ==
    /\ newDay' = FALSE
    /\ dailyNotionalUsd' = Today(dailyNotionalUsd) + notional
    /\ dailyOrders' = Today(dailyOrders) + 1
    /\ cycleOrders' = Today(cycleOrders) + 1

-----------------------------------------------------------------------------
(* What the environment does, MaxEvents times in all. *)
Event == events < MaxEvents /\ events' = events + 1

(* start; the initial tick is the timer's. *)
Start ==
    /\ ~running
    /\ running' = TRUE
    /\ UNCHANGED <<exposure, position, killFile, tickInProgress, killSwitchEngaged, capVars,
                   act, events, moved>>

(* Mutant: a tick does not look whether another is under way. *)
AnyTime == TRUE

NoTickUnderWay == ~tickInProgress

StartTick(a) ==
    /\ running
    /\ NoTickUnderWay
    /\ act[a].pc = "idle"
    /\ a = CHOOSE b \in Ticks : act[b].pc = "idle"
    /\ tickInProgress' = TRUE
    /\ act' = [act EXCEPT ![a].pc = "reading"]
    /\ UNCHANGED <<exposure, position, killFile, running, killSwitchEngaged, capVars, events, moved>>

StartRunOnce ==
    /\ Event
    /\ act[Once].pc = "idle"
    /\ act' = [act EXCEPT ![Once].pc = "reading"]
    /\ UNCHANGED <<exposure, position, killFile, engineVars, capVars, moved>>

(* getAllExposures leaves out the symbols whose read failed; runOnce reads one. *)
ReadExposures(a, read) ==
    /\ act[a].pc = "reading"
    /\ a = Once => Cardinality(read) = 1
    /\ IF a # Once /\ read # Symbols THEN Event ELSE UNCHANGED events
    /\ act' = [act EXCEPT ![a].pc = "fetching", ![a].read = read,
                   ![a].seen = [s \in Symbols |-> IF s \in read THEN exposure[s] ELSE 0]]
    /\ UNCHANGED <<exposure, position, killFile, engineVars, capVars, moved>>

(* The orders the positions just fetched lead to. *)
Due(a) == {s \in act[a].read : Breaches(act[a].seen[s], position[s])}

(* A tick with orders probes the switch before the first of them ... *)
FoundFirst(a) == a # Once /\ Due(a) # {} /\ killFile

(* fetchPositions, the orders it leads to, and the start of their cycle. *)
FetchPositions(a) ==
    /\ act[a].pc = "fetching"
    /\ act' = [act EXCEPT ![a].pc = "executing", ![a].read = {}, ![a].held = position,
                     ![a].todo = Due(a), ![a].found = FoundFirst(a)]
    /\ IF a # Once /\ Due(a) # {}
       THEN StartCycle /\ killSwitchEngaged' = killFile
       ELSE UNCHANGED <<capVars, killSwitchEngaged>>
    /\ moved' = IF a = Once THEN moved ELSE {}
    /\ UNCHANGED <<exposure, position, killFile, running, tickInProgress, events>>

(* Mutant: only a tick that ends well gives the lock back. *)
KeepOnError(a) == UNCHANGED tickInProgress

(* Mutant: runOnce gives back a lock it never took. *)
ReleasedByAll(a) == tickInProgress' = FALSE

(* The finally of tick; runOnce has no lock. *)
Release(a) == tickInProgress' = IF a = Once THEN tickInProgress ELSE FALSE

(* getPositions rejects, and with it the whole activation. *)
FetchFails(a) ==
    /\ Event
    /\ act[a].pc = "fetching"
    /\ act' = [act EXCEPT ![a] = Idle]
    /\ Release(a)
    /\ UNCHANGED <<exposure, position, killFile, running, killSwitchEngaged, capVars, moved>>

(* Mutant: the switch is probed for each order but never latched. *)
FileExists == killFile

Halted == killSwitchEngaged \/ killFile

(* ... and again between them. *)
FoundBetween(a) == act[a].found \/ Halted

Delta(a, s) == DeltaToHedge(act[a].seen[s], act[a].held[s])
OrderNotional(a, s) == Notional(act[a].seen[s], act[a].held[s])

(* An order of a tick that is rejected here never reaches the broker. *)
RejectOrder(a, s) ==
    /\ act[a].pc = "executing" /\ s \in act[a].todo /\ a # Once
    /\ \/ /\ Halted
          /\ killSwitchEngaged' = TRUE
          /\ UNCHANGED capVars
       \/ /\ ~Halted /\ ~Approved(OrderNotional(a, s))
          /\ RollOver
          /\ UNCHANGED killSwitchEngaged
    /\ act' = [act EXCEPT ![a].todo = @ \ {s}, ![a].found = FoundBetween(a)]
    /\ UNCHANGED <<exposure, position, killFile, running, tickInProgress, events, moved>>

(* execute: the order leaves for the broker. *)
SendOrder(a, s) ==
    /\ act[a].pc = "executing" /\ s \in act[a].todo
    /\ IF a = Once
       THEN UNCHANGED capVars
       ELSE ~Halted /\ Approved(OrderNotional(a, s)) /\ RollOver
    /\ act' = [act EXCEPT ![a].pc = "awaiting", ![a].todo = @ \ {s}, ![a].sent = {s}]
    /\ UNCHANGED <<exposure, position, killFile, engineVars, events, moved>>

Resume(a) == act' = [act EXCEPT ![a].pc = "executing", ![a].sent = {}]

Trade(a, s) ==
    /\ act[a].sent = {s}
    /\ position' = [position EXCEPT ![s] = @ + Delta(a, s)]
    /\ moved' = IF a = Once THEN moved \cup {s} ELSE moved
    /\ Resume(a)

(* The broker fills the order and says so. *)
OrderFilled(a, s) ==
    /\ Trade(a, s)
    /\ IF a = Once THEN UNCHANGED capVars ELSE RecordFill(OrderNotional(a, s))
    /\ UNCHANGED <<exposure, killFile, engineVars, events>>

(* The broker fills the order, but the call fails: it is not counted. *)
ReplyLost(a, s) ==
    /\ Event
    /\ Trade(a, s)
    /\ UNCHANGED <<exposure, killFile, engineVars, capVars>>

OrderRefused(a, s) ==
    /\ Event
    /\ act[a].sent = {s}
    /\ Resume(a)
    /\ UNCHANGED <<exposure, position, killFile, engineVars, capVars, moved>>

Finish(a) ==
    /\ act[a].pc = "executing" /\ act[a].todo = {}
    /\ act' = [act EXCEPT ![a] = Idle]
    /\ Release(a)
    /\ UNCHANGED <<exposure, position, killFile, running, killSwitchEngaged, capVars, events, moved>>

-----------------------------------------------------------------------------
MoveExposure(s, e) ==
    /\ Event
    /\ e # exposure[s]
    /\ exposure' = [exposure EXCEPT ![s] = e]
    /\ UNCHANGED <<position, killFile, engineVars, capVars, act, moved>>

ToggleKillFile ==
    /\ Event
    /\ killFile' = ~killFile
    /\ UNCHANGED <<exposure, position, engineVars, capVars, act, moved>>

Midnight ==
    /\ Event
    /\ newDay' = TRUE
    /\ UNCHANGED <<exposure, position, killFile, engineVars,
                   dailyNotionalUsd, dailyOrders, cycleOrders, act, moved>>

(* stop clears the timer; a tick that is under way goes on. *)
Stop ==
    /\ Event
    /\ running
    /\ running' = FALSE
    /\ UNCHANGED <<exposure, position, killFile, tickInProgress, killSwitchEngaged, capVars,
                   act, moved>>

(* The process dies with what it remembers; of the orders under way the    *)
(* broker has filled some.                                                 *)
Crash ==
    /\ Event
    /\ \E filled \in SUBSET {a \in Activations : act[a].pc = "awaiting"} :
          position' = [s \in Symbols |->
              LET hit == {a \in filled : s \in act[a].sent}
              IN  position[s] + SumFunctionOnSet([a \in hit |-> Delta(a, s)], hit)]
    /\ running' = FALSE /\ tickInProgress' = FALSE /\ killSwitchEngaged' = FALSE
    /\ dailyNotionalUsd' = 0 /\ dailyOrders' = 0 /\ cycleOrders' = 0 /\ newDay' = FALSE
    /\ act' = [a \in Activations |-> Idle]
    /\ UNCHANGED <<exposure, killFile, moved>>

Progress(a) ==
    \/ \E read \in SUBSET Symbols : ReadExposures(a, read)
    \/ FetchPositions(a)
    \/ \E s \in Symbols : SendOrder(a, s) \/ OrderFilled(a, s) \/ RejectOrder(a, s)
    \/ Finish(a)

Failure(a) ==
    \/ FetchFails(a)
    \/ \E s \in Symbols : ReplyLost(a, s) \/ OrderRefused(a, s)

Environment ==
    \/ \E s \in Symbols, e \in Exposures : MoveExposure(s, e)
    \/ StartRunOnce \/ ToggleKillFile \/ Midnight \/ Stop \/ Crash

Timer == \E a \in Ticks : StartTick(a)

Next ==
    \/ Start \/ Timer
    \/ \E a \in Activations : Progress(a) \/ Failure(a)
    \/ Environment

(* The timer keeps firing, awaits settle, and the process manager restarts *)
(* a process that has ended.                                               *)
Fairness ==
    /\ WF_vars(Start) /\ WF_vars(Timer)
    /\ \A a \in Activations : WF_vars(Progress(a))

Spec == Init /\ [][Next]_vars /\ Fairness

-----------------------------------------------------------------------------
(* "Caps enforced before a single order leaves the process": although an   *)
(* order is checked before an await and counted after it, the counters     *)
(* never pass the caps, across overlapping runOnce calls and midnight.     *)
CapsRespected ==
    /\ dailyNotionalUsd <= maxDailyNotionalUsd
    /\ dailyOrders <= maxOrdersPerDay
    /\ cycleOrders <= maxOrdersPerCycle

(* One tick at a time, and no lock without one: the flag is set exactly     *)
(* while one activation of tick is under way, through rejected reads,      *)
(* overlapping runOnce calls, stop and crashes (tick, tickInProgress).     *)
LockIsExact ==
    LET underWay == {a \in Ticks : act[a].pc # "idle"}
    IN  /\ tickInProgress <=> underWay # {}
        /\ \A a, b \in underWay : a = b

(* A tick that has once found the kill switch engaged, before its first     *)
(* order or between two of them, sends no order for the rest of that tick, *)
(* even if the file is removed meanwhile: nothing, neither a runOnce nor   *)
(* another tick, clears the latch under it (executeOrdersWithSafety).      *)
HaltsForTheTick ==
    [][\A a \in Ticks, s \in Symbols : SendOrder(a, s) => ~act[a].found]_vars

(* No double hedge: an order of a tick, computed from positions and        *)
(* exposures read several awaits ago, brings the position to exactly the   *)
(* opposite of the exposure it read, unless a runOnce has traded the symbol *)
(* since (tick, tickInProgress).                                           *)
NoDoubleHedge ==
    [][\A a \in Ticks, s \in Symbols :
          Trade(a, s) => position'[s] = -act[a].seen[s] \/ s \in moved]_vars

Blocked(s) ==
    \/ killFile
    \/ ~newDay /\ LET n == Notional(exposure[s], position[s])
                   IN  \/ n > maxOrderNotionalUsd
                       \/ dailyOrders >= maxOrdersPerDay
                       \/ dailyNotionalUsd + n > maxDailyNotionalUsd

(* Once the environment settles, every symbol ends up hedged to within the *)
(* thresholds for good, unless a cap or the kill switch holds the engine:  *)
(* failed reads, refused orders, lost replies, crashes and runOnce calls   *)
(* leave neither a stuck lock nor a lasting error (tick, finally).         *)
EventuallyHedged ==
    \A s \in Symbols : <>[](~Breaches(exposure[s], position[s]) \/ Blocked(s))
==============================================================================
