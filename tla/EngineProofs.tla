----------------------------- MODULE EngineProofs -----------------------------
(***************************************************************************)
(* What holds of the two engines of the backend, for any values of their   *)
(* constants. The hedge engine: its tick lock is exact, the caps are kept  *)
(* although an order is counted long after it was checked, a halted tick   *)
(* sends nothing, an order still fits the position it was computed from.   *)
(* The order book and the matching engine: the structures of the book      *)
(* agree, fills add up, the book is crossed only by a user's own orders,   *)
(* price-time priority is kept, each trade is settled once, and the smart  *)
(* order router leaves all of that as it is.                               *)
(***************************************************************************)
EXTENDS HedgeEngine, SmartOrderRouter, SumLemmas, SequenceTheorems

-----------------------------------------------------------------------------
(* The hedge engine.                                                       *)

(* Orders live between the fetch of the positions and the end of a tick; one *)
(* that has left is no longer to be sent.                                  *)
OrdersInHand ==
    \A a \in Activations :
        /\ act[a].pc = "awaiting" <=> act[a].sent # {}
        /\ act[a].todo # {} => act[a].pc \in {"executing", "awaiting"}
        /\ act[a].sent \cap act[a].todo = {}
        /\ act[a].found => act[a].pc \in {"executing", "awaiting"}

(* What a tick has found is latched until it ends: only the start of the   *)
(* next one, which the lock holds back, reads the switch anew.             *)
LatchHolds == \A a \in Ticks : act[a].found => killSwitchEngaged

(* The counters have room for the order of a tick that is under way, on    *)
(* this day and on the next.                                               *)
RoomLeft == \A a \in Ticks : \A s \in act[a].sent : Approved(OrderNotional(a, s))

(* The orders of a tick are computed from the present position, unless a   *)
(* runOnce has traded the symbol since.                                    *)
OrdersFit ==
    \A a \in Ticks : \A s \in act[a].todo \cup act[a].sent :
        position[s] = act[a].held[s] \/ s \in moved

IInv ==
    /\ TypeOK
    /\ OrdersInHand
    /\ LockIsExact
    /\ LatchHolds
    /\ CapsRespected
    /\ RoomLeft
    /\ OrdersFit

-----------------------------------------------------------------------------
(* Types. *)

LEMMA IdleType == Idle \in Activation
  BY HedgeConstants DEF Idle, Activation

(* The amount and the value of an order are an integer and a natural. *)
LEMMA OrderType ==
    ASSUME TypeOK, NEW a \in Activations, NEW s \in Symbols
    PROVE  Delta(a, s) \in Int /\ OrderNotional(a, s) \in Nat
  <1>1. act[a] \in Activation
    BY DEF TypeOK
  <1>2. act[a].seen[s] \in Int /\ act[a].held[s] \in Int
    BY <1>1, HedgeConstants DEF Activation
  <1> QED BY <1>2 DEF Delta, OrderNotional, Notional, DeltaToHedge, Abs

(* The counters of the day are naturals. *)
LEMMA TodayType ==
    ASSUME TypeOK
    PROVE  /\ dailyNotionalUsd \in Nat /\ dailyOrders \in Nat /\ cycleOrders \in Nat
           /\ Today(dailyNotionalUsd) \in Nat /\ Today(dailyOrders) \in Nat /\ Today(cycleOrders) \in Nat
           /\ Today(dailyNotionalUsd) <= dailyNotionalUsd
           /\ Today(dailyOrders) <= dailyOrders
           /\ Today(cycleOrders) <= cycleOrders
  BY DEF TypeOK, Today

CapsTyped ==
    dailyNotionalUsd \in Nat /\ dailyOrders \in Nat /\ cycleOrders \in Nat /\ newDay \in BOOLEAN

(* Every way the counters change keeps them naturals, and within the caps  *)
(* but for an order that was not approved.                                 *)
LEMMA CapsStep ==
    ASSUME TypeOK, CapsRespected, NEW n \in Nat,
           RollOver \/ StartCycle \/ (RecordFill(n) /\ Approved(n)) \/ UNCHANGED capVars
    PROVE  CapsTyped' /\ CapsRespected'
  <1>0. /\ dailyNotionalUsd \in Nat /\ dailyOrders \in Nat /\ cycleOrders \in Nat /\ newDay \in BOOLEAN
        /\ maxDailyNotionalUsd \in Nat /\ maxOrdersPerDay \in Nat /\ maxOrdersPerCycle \in Nat
    BY HedgeConstants DEF TypeOK
  <1> DEFINE n1 == Today(dailyNotionalUsd)
             n2 == Today(dailyOrders)
             n3 == Today(cycleOrders)
  <1>a. /\ n1 \in Nat /\ n2 \in Nat /\ n3 \in Nat
        /\ n1 <= dailyNotionalUsd /\ n2 <= dailyOrders /\ n3 <= cycleOrders
    BY TodayType
  <1>b. /\ dailyNotionalUsd <= maxDailyNotionalUsd /\ dailyOrders <= maxOrdersPerDay
        /\ cycleOrders <= maxOrdersPerCycle
    BY DEF CapsRespected
  <1>1. CASE RollOver
    <2>1. newDay' = FALSE /\ dailyNotionalUsd' = n1 /\ dailyOrders' = n2 /\ cycleOrders' = n3
      BY <1>1 DEF RollOver
    <2>2. newDay' \in BOOLEAN
      BY <2>1, Zenon
    <2> HIDE DEF n1, n2, n3
    <2> QED BY <1>0, <1>a, <1>b, <2>1, <2>2 DEF CapsTyped, CapsRespected
  <1>2. CASE StartCycle
    <2>1. newDay' = FALSE /\ dailyNotionalUsd' = n1 /\ dailyOrders' = n2 /\ cycleOrders' = 0
      BY <1>2 DEF StartCycle
    <2>2. newDay' \in BOOLEAN
      BY <2>1, Zenon
    <2> HIDE DEF n1, n2, n3
    <2> QED BY <1>0, <1>a, <1>b, <2>1, <2>2 DEF CapsTyped, CapsRespected
  <1>3. CASE RecordFill(n) /\ Approved(n)
    <2>1. /\ newDay' = FALSE /\ dailyNotionalUsd' = n1 + n /\ dailyOrders' = n2 + 1 /\ cycleOrders' = n3 + 1
          /\ n3 < maxOrdersPerCycle /\ n2 < maxOrdersPerDay /\ n1 + n <= maxDailyNotionalUsd
      BY <1>3 DEF RecordFill, Approved
    <2>2. newDay' \in BOOLEAN
      BY <2>1, Zenon
    <2> HIDE DEF n1, n2, n3
    <2> QED BY <1>0, <1>a, <1>b, <2>1, <2>2 DEF CapsTyped, CapsRespected
  <1>4. CASE UNCHANGED capVars
    BY <1>0, <1>4 DEF capVars, CapsTyped, CapsRespected
  <1> QED BY <1>1, <1>2, <1>3, <1>4

(* The process state of a step that leaves the counters typed. *)
LEMMA TypeFrom ==
    ASSUME exposure' \in [Symbols -> Exposures], position' \in [Symbols -> Int],
           {killFile', running', tickInProgress', killSwitchEngaged'} \subseteq BOOLEAN,
           CapsTyped', act' \in [Activations -> Activation],
           events' \in 0..MaxEvents, moved' \subseteq Symbols
    PROVE  TypeOK'
  BY DEF TypeOK, CapsTyped

-----------------------------------------------------------------------------
(* Steps of one activation. *)

InHand(r) ==
    /\ r.pc = "awaiting" <=> r.sent # {}
    /\ r.todo # {} => r.pc \in {"executing", "awaiting"}
    /\ r.sent \cap r.todo = {}
    /\ r.found => r.pc \in {"executing", "awaiting"}

(* One activation moves: the types and its orders. *)
LEMMA OneActs ==
    ASSUME TypeOK, OrdersInHand, NEW a \in Activations, NEW r \in Activation, InHand(r),
           act' = [act EXCEPT ![a] = r]
    PROVE  /\ act' \in [Activations -> Activation]
           /\ act'[a] = r
           /\ \A b \in Activations \ {a} : act'[b] = act[b]
           /\ OrdersInHand'
  <1>1. act \in [Activations -> Activation]
    BY DEF TypeOK
  <1>2. act'[a] = r /\ \A b \in Activations \ {a} : act'[b] = act[b]
    BY <1>1
  <1>3. act' \in [Activations -> Activation]
    BY <1>1
  <1>4. OrdersInHand'
    BY <1>2 DEF OrdersInHand, InHand
  <1> QED BY <1>2, <1>3, <1>4

(* While a tick is under way the other ticks are idle, without orders. *)
LEMMA OthersIdle ==
    ASSUME OrdersInHand, LockIsExact, NEW a \in Ticks, act[a].pc # "idle", NEW b \in Ticks, b # a
    PROVE  act[b].pc = "idle" /\ act[b].todo = {} /\ act[b].sent = {} /\ ~act[b].found
  <1>1. act[b].pc = "idle"
    BY DEF LockIsExact
  <1>2. b \in Activations
    BY DEF Activations
  <1>3. \A x \in Activations : /\ act[x].pc = "awaiting" <=> act[x].sent # {}
                               /\ act[x].todo # {} => act[x].pc \in {"executing", "awaiting"}
                               /\ act[x].found => act[x].pc \in {"executing", "awaiting"}
    BY DEF OrdersInHand
  <1>4. act[b].todo = {} /\ act[b].sent = {} /\ ~act[b].found
    BY <1>1, <1>2, <1>3
  <1> QED BY <1>1, <1>4

(* An activation under way stays so, or ends and gives the lock back if it *)
(* has taken it.                                                           *)
LEMMA LockKept ==
    ASSUME LockIsExact, NEW a \in Activations, act[a].pc # "idle",
           \A b \in Activations \ {a} : act'[b] = act[b],
           \/ act'[a].pc # "idle" /\ UNCHANGED tickInProgress
           \/ act'[a].pc = "idle" /\ Release(a)
    PROVE  LockIsExact'
  <1> DEFINE underWay == {b \in Ticks : act[b].pc # "idle"}
  <1>1. Ticks \subseteq Activations /\ Once \notin Ticks
    BY HedgeConstants DEF Activations
  <1>2. \A b \in Ticks \ {a} : act'[b] = act[b]
    BY <1>1
  <1>3. CASE act'[a].pc # "idle" /\ UNCHANGED tickInProgress
    <2>1. underWay' = underWay
      BY <1>2, <1>3
    <2> QED BY <1>3, <2>1 DEF LockIsExact
  <1>4. CASE act'[a].pc = "idle" /\ Release(a) /\ a = Once
    <2>1. underWay' = underWay /\ tickInProgress' = tickInProgress
      BY <1>1, <1>2, <1>4 DEF Release
    <2> QED BY <2>1 DEF LockIsExact
  <1>5. CASE act'[a].pc = "idle" /\ Release(a) /\ a # Once
    <2>1. a \in Ticks /\ tickInProgress' = FALSE
      BY <1>5 DEF Release, Activations
    <2>2. \A b \in Ticks : act'[b].pc = "idle"
      BY <1>2, <1>5, <2>1 DEF LockIsExact
    <2> QED BY <2>1, <2>2 DEF LockIsExact
  <1> QED BY <1>3, <1>4, <1>5

(* The latch stays, and no tick has found more than before. *)
LEMMA LatchKept ==
    ASSUME LatchHolds, UNCHANGED killSwitchEngaged,
           \A b \in Ticks : act'[b].found => act[b].found
    PROVE  LatchHolds'
  BY DEF LatchHolds

(* The orders of ticks that are still in hand fit as they did. *)
LEMMA FitKept ==
    ASSUME OrdersFit,
           \A b \in Ticks : \A s \in act'[b].todo \cup act'[b].sent :
               /\ s \in act[b].todo \cup act[b].sent
               /\ act'[b].held[s] = act[b].held[s]
               /\ position'[s] = position[s] \/ s \in moved',
           moved \subseteq moved'
    PROVE  OrdersFit'
  BY DEF OrdersFit

(* There is still room for the orders that still await their answer. *)
LEMMA RoomKept ==
    ASSUME RoomLeft, UNCHANGED capVars,
           \A b \in Ticks : \A s \in act'[b].sent :
               s \in act[b].sent /\ act'[b].seen = act[b].seen /\ act'[b].held = act[b].held
    PROVE  RoomLeft'
  <1> SUFFICES ASSUME NEW b \in Ticks, NEW s \in act'[b].sent
               PROVE  Approved(OrderNotional(b, s))'
    BY DEF RoomLeft
  <1>1. Approved(OrderNotional(b, s))
    BY DEF RoomLeft
  <1>2. OrderNotional(b, s)' = OrderNotional(b, s)
    BY DEF OrderNotional
  <1> QED BY <1>1, <1>2 DEF Approved, Today, capVars

(* Without an order under way nothing needs room. *)
LEMMA NoRoomNeeded ==
    ASSUME \A b \in Ticks : act'[b].sent = {}
    PROVE  RoomLeft'
  BY DEF RoomLeft

-----------------------------------------------------------------------------
(* The steps of a tick and of a runOnce. *)

(* What is used of the invariant in every step. *)
LEMMA ActFacts ==
    ASSUME IInv, NEW a \in Activations
    PROVE  /\ act \in [Activations -> Activation] /\ act[a] \in Activation /\ InHand(act[a])
           /\ Ticks \subseteq Activations /\ Once \notin Ticks
           /\ a # Once => a \in Ticks
           /\ act[a].pc # "awaiting" => act[a].sent = {}
           /\ act[a].pc \notin {"executing", "awaiting"} => act[a].todo = {} /\ ~act[a].found
  <1>1. act \in [Activations -> Activation]
    BY DEF IInv, TypeOK
  <1>2. InHand(act[a])
    BY DEF IInv, OrdersInHand, InHand
  <1> QED BY <1>1, <1>2, HedgeConstants DEF InHand, Activations

LEMMA StartTickSafe ==
    ASSUME IInv, NEW a \in Ticks, StartTick(a)
    PROVE  IInv'
  <1> DEFINE r == [act[a] EXCEPT !.pc = "reading"]
  <1>0. a \in Activations
    BY DEF Activations
  <1>1. /\ act[a] \in Activation /\ act[a].pc = "idle" /\ act[a].todo = {} /\ act[a].sent = {}
        /\ act \in [Activations -> Activation] /\ Ticks \subseteq Activations
    BY <1>0, ActFacts DEF StartTick
  <1>2. /\ r \in Activation /\ InHand(r) /\ r.sent = {} /\ r.todo = {} /\ r.pc # "idle"
        /\ r.found => act[a].found
    BY <1>0, <1>1, ActFacts DEF Activation, InHand
  <1>3. act' = [act EXCEPT ![a] = r]
    BY DEF StartTick
  <1> HIDE DEF r
  <1>4. /\ act' \in [Activations -> Activation] /\ act'[a] = r
        /\ \A b \in Activations \ {a} : act'[b] = act[b]
        /\ OrdersInHand'
    BY <1>0, <1>2, <1>3, OneActs DEF IInv
  <1>5. LockIsExact'
    <2>1. \A b \in Ticks : act[b].pc = "idle"
      BY DEF IInv, LockIsExact, StartTick, NoTickUnderWay
    <2>2. \A b \in Ticks : act'[b].pc # "idle" <=> b = a
      BY <1>1, <1>2, <1>4, <2>1
    <2>3. tickInProgress' = TRUE
      BY DEF StartTick
    <2> QED BY <2>2, <2>3 DEF LockIsExact
  <1>6. CapsTyped' /\ CapsRespected'
    BY CapsStep DEF IInv, StartTick
  <1>7. TypeOK'
    <2>1. tickInProgress' \in BOOLEAN
      BY Zenon DEF StartTick
    <2> QED BY <1>4, <1>6, <2>1, TypeFrom DEF IInv, TypeOK, StartTick
  <1>8. RoomLeft'
    <2>1. \A b \in Ticks : \A s \in act'[b].sent :
              s \in act[b].sent /\ act'[b].seen = act[b].seen /\ act'[b].held = act[b].held
      BY <1>1, <1>2, <1>4
    <2> QED BY <2>1, RoomKept DEF IInv, StartTick
  <1>9. OrdersFit'
    <2>1. \A b \in Ticks : \A s \in act'[b].todo \cup act'[b].sent :
              /\ s \in act[b].todo \cup act[b].sent
              /\ act'[b].held[s] = act[b].held[s]
              /\ position'[s] = position[s] \/ s \in moved'
      BY <1>1, <1>2, <1>4 DEF StartTick
    <2> QED BY <2>1, FitKept DEF IInv, StartTick
  <1>10. LatchHolds'
    <2>1. \A b \in Ticks : act'[b].found => act[b].found
      BY <1>1, <1>2, <1>4
    <2> QED BY <2>1, LatchKept DEF IInv, StartTick
  <1> QED BY <1>4, <1>5, <1>6, <1>7, <1>8, <1>9, <1>10 DEF IInv

(* An activation that goes on without a new order, or ends, while the      *)
(* counters and the positions stay.                                        *)
LEMMA QuietSafe ==
    ASSUME IInv, NEW a \in Activations, NEW r \in Activation, InHand(r),
           act' = [act EXCEPT ![a] = r],
           r.todo \subseteq act[a].todo, r.sent \subseteq act[a].sent, r.found => act[a].found,
           r.todo \cup r.sent # {} => r.seen = act[a].seen /\ r.held = act[a].held,
           UNCHANGED <<exposure, position, killFile, running, killSwitchEngaged, capVars, moved>>,
           events' \in 0..MaxEvents, LockIsExact', tickInProgress' \in BOOLEAN
    PROVE  IInv'
  <1>1. /\ act' \in [Activations -> Activation] /\ act'[a] = r
        /\ \A b \in Activations \ {a} : act'[b] = act[b]
        /\ OrdersInHand'
    BY OneActs DEF IInv
  <1>2. Ticks \subseteq Activations
    BY DEF Activations
  <1>3. CapsTyped' /\ CapsRespected'
    BY CapsStep DEF IInv
  <1>4. TypeOK'
    BY <1>1, <1>3, TypeFrom DEF IInv, TypeOK
  <1>5. RoomLeft'
    <2>1. \A b \in Ticks : \A s \in act'[b].sent :
              s \in act[b].sent /\ act'[b].seen = act[b].seen /\ act'[b].held = act[b].held
      BY <1>1, <1>2
    <2> QED BY <2>1, RoomKept DEF IInv
  <1>6. OrdersFit'
    <2>1. \A b \in Ticks : \A s \in act'[b].todo \cup act'[b].sent :
              /\ s \in act[b].todo \cup act[b].sent
              /\ act'[b].held[s] = act[b].held[s]
              /\ position'[s] = position[s] \/ s \in moved'
      BY <1>1, <1>2
    <2> QED BY <2>1, FitKept DEF IInv
  <1>7. LatchHolds'
    <2>1. \A b \in Ticks : act'[b].found => act[b].found
      BY <1>1, <1>2
    <2> QED BY <2>1, LatchKept DEF IInv
  <1> QED BY <1>1, <1>3, <1>4, <1>5, <1>6, <1>7 DEF IInv

LEMMA EventCounted ==
    ASSUME TypeOK, Event \/ UNCHANGED events
    PROVE  events' \in 0..MaxEvents
  BY HedgeConstants DEF TypeOK, Event

LEMMA StartRunOnceSafe ==
    ASSUME IInv, StartRunOnce
    PROVE  IInv'
  <1> DEFINE r == [act[Once] EXCEPT !.pc = "reading"]
  <1>0. Once \in Activations /\ Once \notin Ticks
    BY HedgeConstants DEF Activations
  <1>1. /\ act[Once] \in Activation /\ act[Once].pc = "idle"
        /\ act[Once].todo = {} /\ act[Once].sent = {} /\ act \in [Activations -> Activation]
    BY <1>0, ActFacts DEF StartRunOnce
  <1>2. r \in Activation /\ InHand(r) /\ r.sent = {} /\ r.todo = {} /\ ~r.found
    BY <1>0, <1>1, ActFacts DEF Activation, InHand
  <1>3. act' = [act EXCEPT ![Once] = r]
    BY DEF StartRunOnce
  <1> HIDE DEF r
  <1>4. LockIsExact'
    <2>1. \A b \in Ticks : act'[b] = act[b]
      BY <1>0, <1>1, <1>3 DEF Activations
    <2>2. tickInProgress' = tickInProgress
      BY DEF StartRunOnce, engineVars
    <2> QED BY <2>1, <2>2 DEF IInv, LockIsExact
  <1>5. events' \in 0..MaxEvents
    BY EventCounted DEF IInv, StartRunOnce
  <1>6. /\ UNCHANGED <<exposure, position, killFile, running, killSwitchEngaged, capVars, moved>>
        /\ tickInProgress' \in BOOLEAN
    BY DEF StartRunOnce, engineVars, IInv, TypeOK
  <1> QED BY <1>0, <1>2, <1>3, <1>4, <1>5, <1>6, QuietSafe

LEMMA ReadSafe ==
    ASSUME IInv, NEW a \in Activations, NEW read \in SUBSET Symbols, ReadExposures(a, read)
    PROVE  IInv'
  <1> DEFINE seen == [s \in Symbols |-> IF s \in read THEN exposure[s] ELSE 0]
             r == [act[a] EXCEPT !.pc = "fetching", !.read = read, !.seen = seen]
  <1>1. /\ act[a] \in Activation /\ act[a].pc = "reading" /\ act[a].todo = {} /\ act[a].sent = {}
        /\ act \in [Activations -> Activation]
    BY ActFacts DEF ReadExposures
  <1>2. r \in Activation /\ InHand(r) /\ r.sent = {} /\ r.todo = {} /\ r.pc # "idle" /\ ~r.found
    <2>1. ~act[a].found
      BY <1>1, ActFacts
    <2>2. /\ r.pc = "fetching" /\ r.todo = {} /\ r.sent = {} /\ r.found = act[a].found
      BY <1>1 DEF Activation
    <2>3. seen \in [Symbols -> Exposures]
      BY HedgeConstants DEF IInv, TypeOK
    <2> HIDE DEF seen
    <2>4. r \in Activation
      BY <1>1, <2>3 DEF Activation
    <2> HIDE DEF r
    <2> QED BY <2>1, <2>2, <2>4 DEF InHand
  <1>3. act' = [act EXCEPT ![a] = r]
    BY <1>1 DEF ReadExposures
  <1> HIDE DEF r
  <1>4. /\ UNCHANGED <<exposure, position, killFile, running, killSwitchEngaged, capVars, moved>>
        /\ tickInProgress' = tickInProgress /\ tickInProgress' \in BOOLEAN
    BY DEF ReadExposures, engineVars, IInv, TypeOK
  <1>5. LockIsExact'
    <2>1. act'[a].pc # "idle" /\ \A b \in Activations \ {a} : act'[b] = act[b]
      BY <1>1, <1>2, <1>3
    <2> QED BY <1>1, <1>4, <2>1, LockKept DEF IInv
  <1>6. events' \in 0..MaxEvents
    BY EventCounted DEF IInv, ReadExposures
  <1> QED BY <1>1, <1>2, <1>3, <1>4, <1>5, <1>6, QuietSafe

(* An activation that ends gives nothing but its lock. *)
LEMMA EndSafe ==
    ASSUME IInv, NEW a \in Activations, act[a].pc # "idle", act' = [act EXCEPT ![a] = Idle],
           Release(a), Event \/ UNCHANGED events,
           UNCHANGED <<exposure, position, killFile, running, killSwitchEngaged, capVars, moved>>
    PROVE  IInv'
  <1>1. /\ Idle \in Activation /\ InHand(Idle) /\ Idle.sent = {} /\ Idle.todo = {} /\ Idle.pc = "idle"
        /\ ~Idle.found
    BY IdleType DEF Idle, InHand
  <1>2. act \in [Activations -> Activation]
    BY ActFacts
  <1>3. LockIsExact'
    <2>1. act'[a].pc = "idle" /\ \A b \in Activations \ {a} : act'[b] = act[b]
      BY <1>1, <1>2
    <2> QED BY <2>1, LockKept DEF IInv
  <1>4. tickInProgress' \in BOOLEAN
    <2>1. CASE a = Once
      BY <2>1 DEF Release, IInv, TypeOK
    <2>2. CASE a # Once
      <3>1. tickInProgress' = FALSE
        BY <2>2 DEF Release
      <3> QED BY <3>1, Zenon
    <2> QED BY <2>1, <2>2
  <1>5. events' \in 0..MaxEvents
    BY EventCounted DEF IInv
  <1> QED BY <1>1, <1>3, <1>4, <1>5, QuietSafe

LEMMA FetchFailsSafe ==
    ASSUME IInv, NEW a \in Activations, FetchFails(a)
    PROVE  IInv'
  BY EndSafe DEF FetchFails

LEMMA FinishSafe ==
    ASSUME IInv, NEW a \in Activations, Finish(a)
    PROVE  IInv'
  BY EndSafe DEF Finish

LEMMA RefusedSafe ==
    ASSUME IInv, NEW a \in Activations, NEW s \in Symbols, OrderRefused(a, s)
    PROVE  IInv'
  <1> DEFINE r == [act[a] EXCEPT !.pc = "executing", !.sent = {}]
  <1>1. /\ act[a] \in Activation /\ act[a].pc = "awaiting" /\ InHand(act[a])
        /\ act \in [Activations -> Activation]
    BY ActFacts DEF OrderRefused, InHand
  <1>2. /\ r \in Activation /\ InHand(r) /\ r.sent = {} /\ r.todo = act[a].todo /\ r.pc # "idle"
        /\ r.seen = act[a].seen /\ r.held = act[a].held /\ r.found = act[a].found
    BY <1>1 DEF Activation, InHand
  <1>3. act' = [act EXCEPT ![a] = r]
    BY DEF OrderRefused, Resume
  <1> HIDE DEF r
  <1>4. /\ UNCHANGED <<exposure, position, killFile, running, killSwitchEngaged, capVars, moved>>
        /\ tickInProgress' = tickInProgress /\ tickInProgress' \in BOOLEAN
    BY DEF OrderRefused, engineVars, IInv, TypeOK
  <1>5. LockIsExact'
    <2>1. act'[a].pc # "idle" /\ \A b \in Activations \ {a} : act'[b] = act[b]
      BY <1>1, <1>2, <1>3
    <2> QED BY <1>1, <1>4, <2>1, LockKept DEF IInv
  <1>6. events' \in 0..MaxEvents
    BY EventCounted DEF IInv, OrderRefused
  <1> QED BY <1>1, <1>2, <1>3, <1>4, <1>5, <1>6, QuietSafe

(* fetchPositions makes the orders of a tick from the present positions. *)
LEMMA FetchSafe ==
    ASSUME IInv, NEW a \in Activations, FetchPositions(a)
    PROVE  IInv'
  <1> DEFINE todo == Due(a)
             found == FoundFirst(a)
             r == [act[a] EXCEPT !.pc = "executing", !.read = {}, !.held = position, !.todo = todo,
                                 !.found = found]
  <1>1. /\ act[a] \in Activation /\ act[a].pc = "fetching" /\ act[a].todo = {} /\ act[a].sent = {}
        /\ act \in [Activations -> Activation] /\ Ticks \subseteq Activations /\ Once \notin Ticks
        /\ a # Once => a \in Ticks
    BY ActFacts DEF FetchPositions
  <1>2. /\ r \in Activation /\ InHand(r) /\ r.sent = {} /\ r.pc # "idle" /\ r.held = position
        /\ r.found => found
    <2>1. todo \in SUBSET Symbols
      BY <1>1 DEF Activation, Due
    <2>2. found \in BOOLEAN
      BY Zenon DEF FoundFirst
    <2>3. position \in [Symbols -> Int]
      BY DEF IInv, TypeOK
    <2> HIDE DEF todo, found
    <2>4. /\ r.pc = "executing" /\ r.todo = todo /\ r.sent = {} /\ r.held = position
          /\ r.found = found
      BY <1>1 DEF Activation
    <2>5. r \in Activation
      BY <1>1, <2>1, <2>2, <2>3 DEF Activation
    <2> HIDE DEF r
    <2> QED BY <2>4, <2>5 DEF InHand
  <1>3. act' = [act EXCEPT ![a] = r]
    BY <1>1 DEF FetchPositions
  <1> HIDE DEF found
  <1> HIDE DEF r
  <1>4. /\ act' \in [Activations -> Activation] /\ act'[a] = r
        /\ \A b \in Activations \ {a} : act'[b] = act[b]
        /\ OrdersInHand'
    BY <1>2, <1>3, OneActs DEF IInv
  <1>5. LockIsExact'
    BY <1>1, <1>2, <1>4, LockKept DEF IInv, FetchPositions
  <1>6. CapsTyped' /\ CapsRespected'
    <2>1. StartCycle \/ UNCHANGED capVars
      BY DEF FetchPositions
    <2> QED BY <2>1, CapsStep DEF IInv
  <1>7. TypeOK'
    <2>1. {killFile', running', tickInProgress', killSwitchEngaged'} \subseteq BOOLEAN
      BY DEF FetchPositions, IInv, TypeOK
    <2>2. moved' \subseteq Symbols
      BY DEF FetchPositions, IInv, TypeOK
    <2> QED BY <1>4, <1>6, <2>1, <2>2, TypeFrom DEF IInv, TypeOK, FetchPositions
  <1>8. CASE a # Once
    <2>1. \A b \in Ticks \ {a} : act'[b].todo = {} /\ act'[b].sent = {}
      BY <1>1, <1>4, <1>8, OthersIdle DEF IInv
    <2>2. RoomLeft'
      BY <1>2, <1>4, <2>1, NoRoomNeeded
    <2>3. OrdersFit'
      <3>1. position' = position
        BY DEF FetchPositions
      <3>2. ASSUME NEW b \in Ticks, NEW s \in act'[b].todo \cup act'[b].sent
            PROVE  position'[s] = act'[b].held[s]
        <4>1. b = a
          BY <2>1, <3>2
        <4> QED BY <1>2, <1>4, <3>1, <4>1
      <3> QED BY <3>2 DEF OrdersFit
    <2>4. LatchHolds'
      <3>1. \A b \in Ticks \ {a} : ~act'[b].found
        BY <1>1, <1>4, <1>8, OthersIdle DEF IInv
      <3>2. ASSUME act'[a].found PROVE killSwitchEngaged'
        <4>1. FoundFirst(a)
          BY <1>2, <1>4, <3>2 DEF found
        <4>2. Due(a) # {} /\ killFile
          BY <4>1 DEF FoundFirst
        <4> QED BY <1>8, <4>2 DEF FetchPositions
      <3> QED BY <3>1, <3>2 DEF LatchHolds
    <2> QED BY <1>4, <1>5, <1>6, <1>7, <2>2, <2>3, <2>4 DEF IInv
  <1>9. CASE a = Once
    <2>1. \A b \in Ticks : act'[b] = act[b]
      BY <1>1, <1>4, <1>9
    <2>2. UNCHANGED capVars /\ moved' = moved /\ position' = position
      BY <1>9 DEF FetchPositions
    <2>3. RoomLeft'
      BY <2>1, <2>2, RoomKept DEF IInv
    <2>4. OrdersFit'
      BY <2>1, <2>2, FitKept DEF IInv
    <2>5. LatchHolds'
      <3>1. killSwitchEngaged' = killSwitchEngaged
        BY <1>9 DEF FetchPositions
      <3> QED BY <2>1, <3>1, LatchKept DEF IInv
    <2> QED BY <1>4, <1>5, <1>6, <1>7, <2>3, <2>4, <2>5 DEF IInv
  <1> QED BY <1>8, <1>9

(* A rejected order leaves the hand of its tick. *)
LEMMA RejectSafe ==
    ASSUME IInv, NEW a \in Activations, NEW s \in Symbols, RejectOrder(a, s)
    PROVE  IInv'
  <1> DEFINE found == FoundBetween(a)
             r == [act[a] EXCEPT !.todo = act[a].todo \ {s}, !.found = found]
  <1>1. /\ act[a] \in Activation /\ act[a].pc = "executing" /\ act[a].sent = {} /\ InHand(act[a])
        /\ act \in [Activations -> Activation] /\ Ticks \subseteq Activations
        /\ a \in Ticks
    BY ActFacts DEF RejectOrder
  <1>2. /\ r \in Activation /\ InHand(r) /\ r.sent = {} /\ r.pc # "idle" /\ r.todo \subseteq act[a].todo
        /\ r.held = act[a].held
        /\ r.found => found
    <2>1. found \in BOOLEAN
      BY Zenon DEF FoundBetween
    <2> HIDE DEF found
    <2>2. /\ r.pc = "executing" /\ r.todo = act[a].todo \ {s} /\ r.sent = {} /\ r.held = act[a].held
          /\ r.found = found
      BY <1>1 DEF Activation
    <2>3. r \in Activation
      BY <1>1, <2>1 DEF Activation
    <2> HIDE DEF r
    <2> QED BY <1>1, <2>2, <2>3 DEF InHand
  <1>3. act' = [act EXCEPT ![a] = r]
    BY <1>1 DEF RejectOrder
  <1> HIDE DEF found
  <1> HIDE DEF r
  <1>4. /\ act' \in [Activations -> Activation] /\ act'[a] = r
        /\ \A b \in Activations \ {a} : act'[b] = act[b]
        /\ OrdersInHand'
    BY <1>2, <1>3, OneActs DEF IInv
  <1>5. LockIsExact'
    BY <1>1, <1>2, <1>4, LockKept DEF IInv, RejectOrder
  <1>6. CapsTyped' /\ CapsRespected'
    <2>1. RollOver \/ UNCHANGED capVars
      BY DEF RejectOrder
    <2> QED BY <2>1, CapsStep DEF IInv
  <1>7. TypeOK'
    <2>1. killSwitchEngaged' \in BOOLEAN
      <3>1. killSwitchEngaged' = TRUE \/ killSwitchEngaged' = killSwitchEngaged
        BY DEF RejectOrder
      <3>2. CASE killSwitchEngaged' = TRUE
        BY <3>2, Zenon
      <3>3. CASE killSwitchEngaged' = killSwitchEngaged
        BY <3>3 DEF IInv, TypeOK
      <3> QED BY <3>1, <3>2, <3>3
    <2> QED BY <1>4, <1>6, <2>1, TypeFrom DEF IInv, TypeOK, RejectOrder
  <1>8. \A b \in Ticks \ {a} : act'[b].todo = {} /\ act'[b].sent = {}
    BY <1>1, <1>4, OthersIdle DEF IInv
  <1>9. RoomLeft'
    BY <1>2, <1>4, <1>8, NoRoomNeeded
  <1>10. OrdersFit'
    <2>1. \A b \in Ticks : \A x \in act'[b].todo \cup act'[b].sent :
              /\ x \in act[b].todo \cup act[b].sent
              /\ act'[b].held[x] = act[b].held[x]
              /\ position'[x] = position[x] \/ x \in moved'
      <3>1. position' = position
        BY DEF RejectOrder
      <3>2. ASSUME NEW b \in Ticks, NEW x \in act'[b].todo \cup act'[b].sent
            PROVE  b = a
        BY <1>8, <3>2
      <3>3. \A x \in act'[a].todo \cup act'[a].sent :
                x \in act[a].todo \cup act[a].sent /\ act'[a].held[x] = act[a].held[x]
        BY <1>2, <1>4
      <3> QED BY <3>1, <3>2, <3>3
    <2> QED BY <2>1, FitKept DEF IInv, RejectOrder
  <1>11. LatchHolds'
    <2>1. \A b \in Ticks \ {a} : ~act'[b].found
      BY <1>1, <1>4, OthersIdle DEF IInv
    <2>2. ASSUME act'[a].found PROVE killSwitchEngaged'
      <3>0. FoundBetween(a)
        <4>1. r.found
          BY <1>4, <2>2
        <4>2. found
          BY <1>2, <4>1, Zenon
        <4> QED BY <4>2, Zenon DEF found
      <3>1. act[a].found \/ Halted
        BY <3>0 DEF FoundBetween
      <3>2. CASE Halted
        BY <3>2 DEF RejectOrder
      <3>3. CASE act[a].found /\ ~Halted
        BY <1>1, <3>3 DEF IInv, LatchHolds, Halted
      <3> QED BY <3>1, <3>2, <3>3
    <2> QED BY <2>1, <2>2 DEF LatchHolds
  <1> QED BY <1>4, <1>5, <1>6, <1>7, <1>9, <1>10, <1>11 DEF IInv

(* An order of a tick that leaves for the broker has been approved, and no *)
(* other can take its room.                                                *)
LEMMA SendSafe ==
    ASSUME IInv, NEW a \in Activations, NEW s \in Symbols, SendOrder(a, s)
    PROVE  IInv'
  <1> DEFINE r == [act[a] EXCEPT !.pc = "awaiting", !.todo = act[a].todo \ {s}, !.sent = {s}]
  <1>1. /\ act[a] \in Activation /\ act[a].pc = "executing" /\ act[a].sent = {} /\ InHand(act[a])
        /\ act \in [Activations -> Activation] /\ Ticks \subseteq Activations
        /\ a # Once => a \in Ticks
        /\ Once \notin Ticks /\ s \in act[a].todo
    BY ActFacts DEF SendOrder
  <1>2. /\ r \in Activation /\ InHand(r) /\ r.sent = {s} /\ r.pc # "idle"
        /\ r.todo \cup r.sent \subseteq act[a].todo
        /\ r.held = act[a].held /\ r.seen = act[a].seen /\ r.found = act[a].found
    <2>1. /\ r.pc = "awaiting" /\ r.todo = act[a].todo \ {s} /\ r.sent = {s}
          /\ r.held = act[a].held /\ r.seen = act[a].seen /\ r.found = act[a].found
          /\ r \in Activation
      BY <1>1 DEF Activation
    <2> HIDE DEF r
    <2> QED BY <1>1, <2>1 DEF InHand
  <1>3. act' = [act EXCEPT ![a] = r]
    BY DEF SendOrder
  <1> HIDE DEF r
  <1>4. /\ act' \in [Activations -> Activation] /\ act'[a] = r
        /\ \A b \in Activations \ {a} : act'[b] = act[b]
        /\ OrdersInHand'
    BY <1>2, <1>3, OneActs DEF IInv
  <1>5. LockIsExact'
    BY <1>1, <1>2, <1>4, LockKept DEF IInv, SendOrder, engineVars
  <1>6. CapsTyped' /\ CapsRespected'
    <2>1. RollOver \/ UNCHANGED capVars
      BY DEF SendOrder
    <2> QED BY <2>1, CapsStep DEF IInv
  <1>7. TypeOK'
    BY <1>4, <1>6, TypeFrom DEF IInv, TypeOK, SendOrder, engineVars
  <1>8. OrdersFit'
    <2>1. \A b \in Ticks : \A x \in act'[b].todo \cup act'[b].sent :
              /\ x \in act[b].todo \cup act[b].sent
              /\ act'[b].held[x] = act[b].held[x]
              /\ position'[x] = position[x] \/ x \in moved'
      BY <1>1, <1>2, <1>4 DEF SendOrder
    <2> QED BY <2>1, FitKept DEF IInv, SendOrder
  <1>9. RoomLeft'
    <2>1. CASE a = Once
      <3>1. \A b \in Ticks : act'[b] = act[b]
        BY <1>1, <1>4, <2>1
      <3>2. UNCHANGED capVars
        BY <2>1 DEF SendOrder
      <3> QED BY <3>1, <3>2, RoomKept DEF IInv
    <2>2. CASE a # Once
      <3>1. \A b \in Ticks \ {a} : act'[b].sent = {}
        BY <1>1, <1>4, <2>2, OthersIdle DEF IInv
      <3>2. OrderNotional(a, s)' = OrderNotional(a, s)
        BY <1>2, <1>4 DEF OrderNotional
      <3>3. Approved(OrderNotional(a, s)) /\ RollOver
        BY <2>2 DEF SendOrder
      <3>4. Approved(OrderNotional(a, s))'
        BY <3>2, <3>3 DEF Approved, RollOver, Today
      <3> QED BY <1>2, <1>4, <3>1, <3>4 DEF RoomLeft
    <2> QED BY <2>1, <2>2
  <1>10. LatchHolds'
    <2>1. \A b \in Ticks : act'[b].found => act[b].found
      BY <1>1, <1>2, <1>4
    <2> QED BY <2>1, LatchKept DEF IInv, SendOrder, engineVars
  <1> QED BY <1>4, <1>5, <1>6, <1>7, <1>8, <1>9, <1>10 DEF IInv

(* A filled order brings the position where its tick wanted it, and is     *)
(* counted, or not if the reply is lost.                                   *)
LEMMA TradeSafe ==
    ASSUME IInv, NEW a \in Activations, NEW s \in Symbols, Trade(a, s),
           UNCHANGED <<exposure, killFile, engineVars>>, Event \/ UNCHANGED events,
           UNCHANGED capVars \/ (a # Once /\ RecordFill(OrderNotional(a, s)))
    PROVE  IInv'
  <1> DEFINE r == [act[a] EXCEPT !.pc = "executing", !.sent = {}]
  <1>1. /\ act[a] \in Activation /\ act[a].pc = "awaiting" /\ InHand(act[a]) /\ act[a].sent = {s}
        /\ act \in [Activations -> Activation] /\ Ticks \subseteq Activations
        /\ a # Once => a \in Ticks
        /\ Once \notin Ticks
    BY ActFacts DEF Trade, InHand
  <1>2. /\ r \in Activation /\ r.pc = "executing" /\ r.sent = {} /\ r.todo = act[a].todo
        /\ r.seen = act[a].seen /\ r.held = act[a].held /\ r.found = act[a].found
    BY <1>1 DEF Activation
  <1>3. act' = [act EXCEPT ![a] = r]
    BY DEF Trade, Resume
  <1> HIDE DEF r
  <1>4. InHand(r) /\ s \notin r.todo
    BY <1>1, <1>2 DEF InHand
  <1>5. /\ act' \in [Activations -> Activation] /\ act'[a] = r
        /\ \A b \in Activations \ {a} : act'[b] = act[b]
        /\ OrdersInHand'
    BY <1>2, <1>3, <1>4, OneActs DEF IInv
  <1>6. LockIsExact'
    BY <1>1, <1>2, <1>5, LockKept DEF IInv, engineVars
  <1>7. OrderNotional(a, s) \in Nat /\ Delta(a, s) \in Int
    BY OrderType DEF IInv
  <1>8. CapsTyped' /\ CapsRespected'
    <2>1. ASSUME a # Once PROVE Approved(OrderNotional(a, s))
      BY <1>1, <2>1 DEF IInv, RoomLeft
    <2> QED BY <1>7, <2>1, CapsStep DEF IInv
  <1>9. /\ position' \in [Symbols -> Int] /\ moved' \subseteq Symbols /\ moved \subseteq moved'
        /\ \A x \in Symbols \ {s} : position'[x] = position[x]
        /\ a = Once => s \in moved'
    BY <1>7 DEF Trade, IInv, TypeOK
  <1>10. TypeOK'
    <2>1. events' \in 0..MaxEvents
      BY EventCounted DEF IInv
    <2> QED BY <1>5, <1>8, <1>9, <2>1, TypeFrom DEF IInv, TypeOK, engineVars
  <1>11. ASSUME NEW b \in Ticks, b # a, a # Once PROVE act'[b].todo = {} /\ act'[b].sent = {}
    BY <1>1, <1>5, <1>11, OthersIdle DEF IInv
  <1>12. RoomLeft'
    <2>1. CASE a = Once
      BY <1>1, <1>2, <1>5, <2>1, RoomKept DEF IInv
    <2>2. CASE a # Once
      BY <1>2, <1>5, <1>11, <2>2, NoRoomNeeded
    <2> QED BY <2>1, <2>2
  <1>13. OrdersFit'
    <2>1. ASSUME NEW b \in Ticks, NEW x \in act'[b].todo \cup act'[b].sent
          PROVE  /\ x \in act[b].todo \cup act[b].sent
                 /\ act'[b].held[x] = act[b].held[x]
                 /\ position'[x] = position[x] \/ x \in moved'
      <3>0. x \in Symbols
        BY <1>1, <1>5, <2>1 DEF Activation
      <3>1. CASE a = Once
        BY <1>1, <1>5, <1>9, <2>1, <3>0, <3>1
      <3>2. CASE a # Once
        <4>1. b = a
          BY <1>11, <2>1, <3>2
        <4>2. x \in r.todo
          BY <1>2, <1>5, <2>1, <4>1
        <4> QED BY <1>2, <1>4, <1>5, <1>9, <3>0, <4>1, <4>2
      <3> QED BY <3>1, <3>2
    <2> QED BY <1>9, <2>1, FitKept DEF IInv
  <1>14. LatchHolds'
    <2>1. \A b \in Ticks : act'[b].found => act[b].found
      BY <1>1, <1>2, <1>5
    <2> QED BY <2>1, LatchKept DEF IInv, engineVars
  <1> QED BY <1>5, <1>6, <1>8, <1>10, <1>12, <1>13, <1>14 DEF IInv

LEMMA FilledSafe ==
    ASSUME IInv, NEW a \in Activations, NEW s \in Symbols, OrderFilled(a, s)
    PROVE  IInv'
  BY TradeSafe DEF OrderFilled

LEMMA ReplyLostSafe ==
    ASSUME IInv, NEW a \in Activations, NEW s \in Symbols, ReplyLost(a, s)
    PROVE  IInv'
  BY TradeSafe DEF ReplyLost

-----------------------------------------------------------------------------
(* What the environment does. *)

(* Nothing that the orders depend on changes, but perhaps the day. *)
LEMMA OutsideSafe ==
    ASSUME IInv, UNCHANGED <<position, tickInProgress, killSwitchEngaged, act, moved,
                             dailyNotionalUsd, dailyOrders, cycleOrders>>,
           exposure' \in [Symbols -> Exposures], Event \/ UNCHANGED events,
           {killFile', running'} \subseteq BOOLEAN,
           newDay' = newDay \/ newDay' = TRUE
    PROVE  IInv'
  <1>0. newDay' \in BOOLEAN
    <2>1. CASE newDay' = TRUE
      BY <2>1, Zenon
    <2> QED BY <2>1 DEF IInv, TypeOK
  <1>1. CapsTyped'
    BY <1>0 DEF IInv, TypeOK, CapsTyped
  <1>2. TypeOK'
    <2>1. events' \in 0..MaxEvents
      BY EventCounted DEF IInv
    <2> QED BY <1>1, <2>1, TypeFrom DEF IInv, TypeOK
  <1>3. OrdersInHand' /\ LockIsExact' /\ LatchHolds' /\ CapsRespected' /\ OrdersFit'
    BY DEF IInv, OrdersInHand, LockIsExact, LatchHolds, CapsRespected, OrdersFit
  <1>4. RoomLeft'
    <2> SUFFICES ASSUME NEW b \in Ticks, NEW s \in act[b].sent
                 PROVE  Approved(OrderNotional(b, s))'
      BY DEF RoomLeft
    <2> DEFINE n == OrderNotional(b, s)
    <2>1. Approved(n)
      BY DEF IInv, RoomLeft
    <2>2. n' = n
      BY DEF OrderNotional
    <2>3. /\ dailyNotionalUsd \in Nat /\ dailyOrders \in Nat /\ cycleOrders \in Nat
          /\ Today(dailyNotionalUsd) \in Nat /\ Today(dailyOrders) \in Nat /\ Today(cycleOrders) \in Nat
          /\ maxDailyNotionalUsd \in Nat /\ maxOrdersPerDay \in Nat /\ maxOrdersPerCycle \in Nat
      BY TodayType, HedgeConstants DEF IInv
    <2>4. n \in Nat
      <3>1. b \in Activations /\ s \in Symbols
        BY DEF IInv, TypeOK, Activations, Activation
      <3> QED BY <3>1, OrderType DEF IInv
    <2>5. /\ n <= maxOrderNotionalUsd /\ Today(cycleOrders) < maxOrdersPerCycle
          /\ Today(dailyOrders) < maxOrdersPerDay
          /\ Today(dailyNotionalUsd) + n <= maxDailyNotionalUsd
      BY <2>1 DEF Approved
    <2>6. CASE newDay' = newDay
      BY <2>1, <2>2, <2>6 DEF Approved, Today
    <2>7. CASE newDay' = TRUE
      <3>1. Today(cycleOrders)' = 0 /\ Today(dailyOrders)' = 0 /\ Today(dailyNotionalUsd)' = 0
        BY <2>7 DEF Today
      <3> HIDE DEF n
      <3>2. Approved(n)'
        BY <2>2, <2>3, <2>4, <2>5, <3>1 DEF Approved
      <3> QED BY <3>2 DEF n
    <2> QED BY <2>6, <2>7
  <1> QED BY <1>2, <1>3, <1>4 DEF IInv

(* A crash leaves idle activations and whatever position the broker has. *)
LEMMA CrashSafe ==
    ASSUME IInv, Crash
    PROVE  IInv'
  <1>1. /\ act' = [a \in Activations |-> Idle] /\ tickInProgress' = FALSE /\ newDay' = FALSE
        /\ running' = FALSE /\ killSwitchEngaged' = FALSE
        /\ dailyNotionalUsd' = 0 /\ dailyOrders' = 0 /\ cycleOrders' = 0
        /\ Ticks \subseteq Activations
    BY DEF Crash, Activations
  <1>2. /\ Idle \in Activation /\ Idle.pc = "idle" /\ Idle.todo = {} /\ Idle.sent = {}
        /\ ~Idle.found
    BY IdleType DEF Idle
  <1>3. act' \in [Activations -> Activation] /\ \A a \in Activations : act'[a] = Idle
    BY <1>1, <1>2
  <1>4. position' \in [Symbols -> Int]
    <2>1. PICK filled \in SUBSET {a \in Activations : act[a].pc = "awaiting"} :
              position' = [s \in Symbols |->
                  LET hit == {a \in filled : s \in act[a].sent}
                  IN  position[s] + SumFunctionOnSet([a \in hit |-> Delta(a, s)], hit)]
      BY DEF Crash
    <2>2. IsFiniteSet(Activations)
      <3>1. IsFiniteSet(Ticks \cup {Once})
        BY HedgeConstants, FS_AddElement
      <3> QED BY <3>1 DEF Activations
    <2>3. ASSUME NEW s \in Symbols
          PROVE  position'[s] \in Int
      <3> DEFINE hit == {a \in filled : s \in act[a].sent}
                 f == [a \in hit |-> Delta(a, s)]
      <3>1. hit \subseteq Activations /\ IsFiniteSet(hit)
        <4>1. hit \subseteq Activations
          OBVIOUS
        <4> QED BY <2>2, <4>1, FS_Subset
      <3>2. f \in [hit -> Int]
        BY <3>1, OrderType DEF IInv
      <3>3. SumFunctionOnSet(f, hit) \in Int
        <4> HIDE DEF f, hit
        <4> QED BY <3>1, <3>2, SumType
      <3>4. position[s] \in Int
        BY DEF IInv, TypeOK
      <3>5. position'[s] = position[s] + SumFunctionOnSet(f, hit)
        BY <2>1
      <3> HIDE DEF f, hit
      <3> QED BY <3>3, <3>4, <3>5
    <2>4. position' = [s \in Symbols |-> position'[s]]
      BY <2>1
    <2> QED BY <2>3, <2>4
  <1>5. /\ running' \in BOOLEAN /\ tickInProgress' \in BOOLEAN /\ killSwitchEngaged' \in BOOLEAN
        /\ newDay' \in BOOLEAN
    BY <1>1, Zenon
  <1>6. CapsTyped' /\ CapsRespected'
    BY <1>1, <1>5, HedgeConstants DEF CapsTyped, CapsRespected
  <1>7. TypeOK'
    <2>1. events' \in 0..MaxEvents
      BY EventCounted DEF IInv, Crash
    <2> QED BY <1>3, <1>4, <1>5, <1>6, <2>1, TypeFrom DEF IInv, TypeOK, Crash
  <1>8. OrdersInHand'
    BY <1>2, <1>3 DEF OrdersInHand
  <1>9. LockIsExact'
    BY <1>1, <1>2, <1>3 DEF LockIsExact
  <1>10. RoomLeft' /\ OrdersFit' /\ LatchHolds'
    BY <1>1, <1>2, <1>3 DEF RoomLeft, OrdersFit, LatchHolds
  <1> QED BY <1>6, <1>7, <1>8, <1>9, <1>10 DEF IInv

LEMMA EnvironmentSafe ==
    ASSUME IInv, Environment \/ Start \/ UNCHANGED vars
    PROVE  IInv'
  <1>0. exposure \in [Symbols -> Exposures] /\ {killFile, running} \subseteq BOOLEAN
    BY DEF IInv, TypeOK
  <1>1. ASSUME NEW s \in Symbols, NEW e \in Exposures, MoveExposure(s, e) PROVE IInv'
    BY <1>0, <1>1, OutsideSafe DEF MoveExposure, engineVars, capVars
  <1>2. CASE ToggleKillFile
    <2>1. killFile' \in BOOLEAN
      BY <1>2, Zenon DEF ToggleKillFile
    <2> QED BY <1>0, <1>2, <2>1, OutsideSafe DEF ToggleKillFile, engineVars, capVars
  <1>3. CASE Midnight
    BY <1>0, <1>3, OutsideSafe DEF Midnight, engineVars
  <1>4. CASE Stop
    <2>1. running' \in BOOLEAN
      BY <1>4, Zenon DEF Stop
    <2> QED BY <1>0, <1>4, <2>1, OutsideSafe DEF Stop, capVars
  <1>5. CASE Start
    <2>1. running' \in BOOLEAN
      BY <1>5, Zenon DEF Start
    <2> QED BY <1>0, <1>5, <2>1, OutsideSafe DEF Start, capVars
  <1>6. CASE UNCHANGED vars
    BY <1>0, <1>6, OutsideSafe DEF vars, engineVars, capVars
  <1> QED BY <1>1, <1>2, <1>3, <1>4, <1>5, <1>6, StartRunOnceSafe, CrashSafe DEF Environment

-----------------------------------------------------------------------------
LEMMA IInvInit == Init => IInv
  <1> SUFFICES ASSUME Init PROVE IInv
    OBVIOUS
  <1>1. /\ Idle \in Activation /\ Idle.pc = "idle" /\ Idle.todo = {} /\ Idle.sent = {}
        /\ ~Idle.found /\ Ticks \subseteq Activations
    BY IdleType DEF Idle, Activations
  <1>2. act \in [Activations -> Activation] /\ \A a \in Activations : act[a] = Idle
    BY <1>1 DEF Init
  <1>3. {killFile, running, tickInProgress, killSwitchEngaged, newDay} \subseteq BOOLEAN
    BY Zenon DEF Init
  <1>4. TypeOK
    BY <1>2, <1>3, HedgeConstants DEF Init, TypeOK
  <1>5. OrdersInHand /\ LockIsExact /\ LatchHolds /\ RoomLeft /\ OrdersFit
    BY <1>1, <1>2 DEF Init, OrdersInHand, LockIsExact, LatchHolds, RoomLeft, OrdersFit
  <1>6. CapsRespected
    BY HedgeConstants DEF Init, CapsRespected
  <1> QED BY <1>4, <1>5, <1>6 DEF IInv

LEMMA IInvStep ==
    ASSUME IInv, [Next]_vars
    PROVE  IInv'
  <1>1. ASSUME NEW a \in Activations, Progress(a) \/ Failure(a) PROVE IInv'
    BY <1>1, ReadSafe, FetchSafe, SendSafe, FilledSafe, RejectSafe, FinishSafe,
       FetchFailsSafe, ReplyLostSafe, RefusedSafe DEF Progress, Failure
  <1>2. ASSUME NEW a \in Ticks, StartTick(a) PROVE IInv'
    BY <1>2, StartTickSafe
  <1> QED BY <1>1, <1>2, EnvironmentSafe DEF Next, Timer

(* What the engine is built on, at every interleaving of ticks, runOnce    *)
(* calls, answers, failures and crashes.                                   *)
THEOREM HedgeInvariant == Spec => []IInv
  <1>1. IInv /\ [Next]_vars => IInv'
    BY IInvStep
  <1> QED BY IInvInit, <1>1, PTL DEF Spec

(* The tick lock is taken exactly while one tick is under way: neither an  *)
(* error, a stop, a runOnce nor a crash leaves it wrong.                   *)
THEOREM LockStaysExact == Spec => []LockIsExact
  <1>1. IInv => LockIsExact
    BY DEF IInv
  <1> QED BY HedgeInvariant, <1>1, PTL

(* Orders are checked before an await and counted after it, and still the  *)
(* counters never pass the caps, for any caps, orders and midnights.       *)
THEOREM CapsStayRespected == Spec => []CapsRespected
  <1>1. IInv => CapsRespected
    BY DEF IInv
  <1> QED BY HedgeInvariant, <1>1, PTL

(* HaltsForTheTick, of one step. *)
Halts == \A a \in Ticks, s \in Symbols : SendOrder(a, s) => ~act[a].found

(* A tick that has once found the kill switch engaged sends no order for   *)
(* the rest of that tick, whatever happens to the file: the latch is read  *)
(* anew only by the first check of a tick, and the lock lets no other tick *)
(* make one meanwhile.                                                     *)
THEOREM HaltedTicksSendNothing == Spec => HaltsForTheTick
  <1>1. IInv => Halts
    BY HedgeConstants DEF IInv, LatchHolds, Halts, SendOrder, Halted
  <1>2. [][Halts]_vars => HaltsForTheTick
    BY PTL DEF HaltsForTheTick, Halts
  <1> QED BY HedgeInvariant, <1>1, <1>2, PTL

(* NoDoubleHedge, of one step. *)
TradesOnce ==
    \A a \in Ticks, s \in Symbols :
        Trade(a, s) => position'[s] = -act[a].seen[s] \/ s \in moved

LEMMA TradeFits ==
    ASSUME IInv
    PROVE  TradesOnce
  <1> SUFFICES ASSUME NEW a \in Ticks, NEW s \in Symbols, Trade(a, s), s \notin moved
               PROVE  position'[s] = -act[a].seen[s]
    BY DEF TradesOnce
  <1>1. a \in Activations /\ act[a] \in Activation /\ s \in act[a].sent
    BY ActFacts DEF Activations, Trade
  <1>2. position[s] = act[a].held[s]
    BY <1>1 DEF IInv, OrdersFit
  <1>3. act[a].seen[s] \in Int /\ act[a].held[s] \in Int /\ position \in [Symbols -> Int]
    BY <1>1, HedgeConstants DEF Activation, IInv, TypeOK
  <1>4. position'[s] = position[s] + Delta(a, s)
    BY <1>3 DEF Trade
  <1> QED BY <1>2, <1>3, <1>4 DEF Delta, DeltaToHedge

(* An order of a tick, computed from what was read several awaits ago,     *)
(* brings the position to exactly the opposite of the exposure it read,    *)
(* unless a runOnce has traded the symbol since.                           *)
THEOREM NothingIsHedgedTwice == Spec => NoDoubleHedge
  <1>1. IInv => TradesOnce
    BY TradeFits
  <1>2. [][TradesOnce]_vars => NoDoubleHedge
    BY PTL DEF NoDoubleHedge, TradesOnce
  <1> QED BY HedgeInvariant, <1>1, <1>2, PTL

-----------------------------------------------------------------------------
(* The order book: how its levels are put together.                        *)

(* A function on 1..n is a sequence of length n.                             *)
LEMMA FunIsSeq ==
    ASSUME NEW n \in Nat, NEW S, NEW f \in [1..n -> S]
    PROVE  /\ f \in Seq(S)
           /\ Len(f) = n
           /\ DOMAIN f = 1..n
  <1>1. f \in Seq(S)
    BY SeqDef
  <1>2. Len(f) \in Nat /\ DOMAIN f = 1..Len(f)
    BY <1>1, LenProperties
  <1>3. 1..n = 1..Len(f)
    BY <1>2
  <1>4. n = Len(f)
    BY <1>2, <1>3
  <1> QED BY <1>1, <1>3, <1>4

(* R orders S strictly and totally. *)
IsOrder(S, R) ==
    /\ \A x \in S : <<x, x>> \notin R
    /\ \A x, y, z \in S : <<x, y>> \in R /\ <<y, z>> \in R => <<x, z>> \in R
    /\ \A x, y \in S : x = y \/ <<x, y>> \in R \/ <<y, x>> \in R

(* InOrder lists each member of a finite set once, smaller ones first.       *)
LEMMA InOrderFacts ==
    ASSUME NEW S, IsFiniteSet(S), NEW R, IsOrder(S, R)
    PROVE  /\ Cardinality(S) \in Nat
           /\ InOrder(S, R) \in [1..Cardinality(S) -> S]
           /\ \A x \in S : \E n \in 1..Cardinality(S) : InOrder(S, R)[n] = x
           /\ \A m, n \in 1..Cardinality(S) :
                m < n <=> <<InOrder(S, R)[m], InOrder(S, R)[n]>> \in R
  <1> DEFINE Below(x) == {y \in S : <<y, x>> \in R}
             c == Cardinality(S)
             rank == [x \in S |-> Cardinality(Below(x))]
  <1>1. c \in Nat
    BY FS_CardinalityType
  <1>2. ASSUME NEW x \in S PROVE rank[x] \in 0..(c - 1) /\ IsFiniteSet(Below(x))
    <2>1. Below(x) \in SUBSET S
      OBVIOUS
    <2>2. IsFiniteSet(Below(x)) /\ Cardinality(Below(x)) <= c /\ (c = Cardinality(Below(x)) => S = Below(x))
      BY <2>1, FS_Subset
    <2>3. Cardinality(Below(x)) \in Nat
      BY <2>2, FS_CardinalityType
    <2>4. x \notin Below(x)
      BY DEF IsOrder
    <2>5. Cardinality(Below(x)) < c
      BY <1>1, <2>2, <2>3, <2>4
    <2>6. Cardinality(Below(x)) \in 0..(c - 1)
      <3> HIDE DEF c, Below
      <3> QED BY <1>1, <2>3, <2>5
    <2> QED BY <2>2, <2>6
  <1>3. ASSUME NEW x \in S, NEW y \in S, <<x, y>> \in R PROVE rank[x] < rank[y]
    <2>1. Below(x) \in SUBSET Below(y)
      BY <1>3 DEF IsOrder
    <2>2. x \in Below(y) /\ x \notin Below(x)
      BY <1>3 DEF IsOrder
    <2>3. IsFiniteSet(Below(y))
      BY <1>2
    <2>4. Cardinality(Below(x)) <= Cardinality(Below(y))
          /\ (Cardinality(Below(y)) = Cardinality(Below(x)) => Below(y) = Below(x))
      BY <2>1, <2>3, FS_Subset
    <2>5. rank[x] <= rank[y] /\ rank[x] # rank[y]
      BY <2>2, <2>4
    <2>6. rank[x] \in Int /\ rank[y] \in Int
      <3>1. rank[x] \in 0..(c - 1) /\ rank[y] \in 0..(c - 1)
        BY <1>2
      <3> HIDE DEF rank, c
      <3> QED BY <3>1, <1>1
    <2> HIDE DEF rank
    <2> QED BY <2>5, <2>6
  <1> HIDE DEF rank, c, Below
  <1>10. \A x \in S : rank[x] \in Int /\ 0 <= rank[x] /\ rank[x] < c
    <2> SUFFICES ASSUME NEW x \in S PROVE rank[x] \in Int /\ 0 <= rank[x] /\ rank[x] < c
      OBVIOUS
    <2>1. rank[x] \in 0..(c - 1)
      BY <1>2
    <2> QED BY <1>1, <2>1
  <1>4. ASSUME NEW x \in S, NEW y \in S, x # y PROVE rank[x] # rank[y]
    <2>1. rank[x] \in Int /\ rank[y] \in Int
      BY <1>10
    <2>2. <<x, y>> \in R \/ <<y, x>> \in R
      BY <1>4 DEF IsOrder
    <2> QED BY <2>1, <2>2, <1>3
  <1>5. ASSUME NEW k \in 0..(c - 1) PROVE \E x \in S : rank[x] = k
    <2>1. SUFFICES ASSUME \A x \in S : rank[x] # k PROVE FALSE
      OBVIOUS
    <2> DEFINE T == (0..(c - 1)) \ {k}
    <2>2. IsFiniteSet(0..(c - 1)) /\ Cardinality(0..(c - 1)) = c
      BY <1>1, FS_Interval
    <2>3. IsFiniteSet(T) /\ Cardinality(T) = c - 1
      BY <2>2, FS_RemoveElement
    <2>4. rank \in [S -> T]
      BY <1>2, <2>1 DEF rank
    <2>5. Cardinality(T) < Cardinality(S)
      <3>1. c - 1 < c
        BY <1>1
      <3> QED BY <2>3, <3>1, Zenon DEF c
    <2>6. \E x, y \in S : x # y /\ rank[x] = rank[y]
      <3> HIDE DEF T
      <3> QED BY <2>3, <2>4, <2>5, FS_PigeonHole
    <2> QED BY <2>6, <1>4
  <1>6. ASSUME NEW n \in 1..c
        PROVE  InOrder(S, R)[n] \in S /\ rank[InOrder(S, R)[n]] = n - 1
    <2>1. n - 1 \in 0..(c - 1)
      BY <1>1
    <2>2. PICK x \in S : rank[x] = n - 1
      BY <2>1, <1>5
    <2>3. InOrder(S, R)[n] = CHOOSE z \in S : Cardinality(Below(z)) = n - 1
      BY DEF InOrder, c, Below
    <2>4. \A z \in S : rank[z] = Cardinality(Below(z))
      BY DEF rank
    <2> QED BY <2>2, <2>3, <2>4
  <1>7. InOrder(S, R) \in [1..c -> S]
    <2> DEFINE pick(n) == CHOOSE x \in S : Cardinality(Below(x)) = n - 1
    <2>1. InOrder(S, R) = [n \in 1..c |-> pick(n)]
      BY DEF InOrder, c, Below
    <2>2. \A n \in 1..c : InOrder(S, R)[n] \in S
      BY <1>6
    <2> HIDE DEF pick
    <2>3. \A n \in 1..c : pick(n) \in S
      BY <2>1, <2>2
    <2>4. [n \in 1..c |-> pick(n)] \in [1..c -> S]
      BY <2>3
    <2> QED BY <2>1, <2>4
  <1>8. ASSUME NEW x \in S PROVE \E n \in 1..c : InOrder(S, R)[n] = x
    <2>1. rank[x] + 1 \in 1..c /\ rank[x] \in Int
      BY <1>1, <1>10
    <2>2. rank[InOrder(S, R)[rank[x] + 1]] = rank[x] /\ InOrder(S, R)[rank[x] + 1] \in S
      BY <2>1, <1>6
    <2>3. InOrder(S, R)[rank[x] + 1] = x
      BY <2>2, <1>4
    <2> QED BY <2>1, <2>3
  <1>9. ASSUME NEW m \in 1..c, NEW n \in 1..c
        PROVE  m < n <=> <<InOrder(S, R)[m], InOrder(S, R)[n]>> \in R
    <2> DEFINE x == InOrder(S, R)[m]
               y == InOrder(S, R)[n]
    <2>1. x \in S /\ y \in S /\ rank[x] = m - 1 /\ rank[y] = n - 1
      BY <1>6
    <2>2. m \in Int /\ n \in Int
      BY <1>1
    <2> HIDE DEF x, y
    <2>3. ASSUME m < n PROVE <<x, y>> \in R
      <3>1. x # y
        BY <2>1, <2>2, <2>3
      <3>2. <<y, x>> \notin R
        BY <2>1, <2>2, <2>3, <1>3
      <3> QED BY <3>1, <3>2, <2>1 DEF IsOrder
    <2>4. ASSUME <<x, y>> \in R PROVE m < n
      <3>1. rank[x] < rank[y]
        BY <2>1, <2>4, <1>3
      <3> QED BY <3>1, <2>1, <2>2
    <2> QED BY <2>3, <2>4 DEF x, y
  <1> QED BY <1>1, <1>7, <1>8, <1>9 DEF c

(* The entries of s at the positions P, in the order of s. *)
LEMMA KeptAtFacts ==
    ASSUME NEW T, NEW s \in Seq(T), NEW P \in SUBSET (1..Len(s))
    PROVE  \E at \in [1..Cardinality(P) -> P] :
              /\ Cardinality(P) \in Nat
              /\ KeptAt(s, P) \in Seq(T)
              /\ Len(KeptAt(s, P)) = Cardinality(P)
              /\ \A n \in 1..Cardinality(P) : KeptAt(s, P)[n] = s[at[n]]
              /\ \A p \in P : \E n \in 1..Cardinality(P) : at[n] = p
              /\ \A m, n \in 1..Cardinality(P) : m < n <=> at[m] < at[n]
  <1> DEFINE R == {r \in P \X P : r[1] < r[2]}
             c == Cardinality(P)
             at == InOrder(P, R)
  <1>1. Len(s) \in Nat /\ s \in [1..Len(s) -> T]
    BY LenProperties
  <1>2. IsFiniteSet(P)
    <2>1. IsFiniteSet(1..Len(s))
      BY <1>1, FS_Interval
    <2> QED BY <2>1, FS_Subset
  <1>3. \A x, y \in P : <<x, y>> \in R <=> x < y
    OBVIOUS
  <1>4. \A x \in P : x \in Int
    BY <1>1
  <1>5. IsOrder(P, R)
    <2> HIDE DEF R
    <2> QED BY <1>3, <1>4 DEF IsOrder
  <1>6. /\ c \in Nat
        /\ at \in [1..c -> P]
        /\ \A x \in P : \E n \in 1..c : at[n] = x
        /\ \A m, n \in 1..c : m < n <=> <<at[m], at[n]>> \in R
    <2> HIDE DEF R
    <2> QED BY <1>2, <1>5, InOrderFacts
  <1>7. \A m, n \in 1..c : m < n <=> at[m] < at[n]
    <2> HIDE DEF R, at, c
    <2> QED BY <1>3, <1>6
  <1>8. KeptAt(s, P) = [n \in 1..c |-> s[at[n]]]
    <2>1. KeptAt(s, P) = [n \in DOMAIN at |-> s[at[n]]]
      BY DEF KeptAt
    <2>2. DOMAIN at = 1..c
      BY <1>6
    <2> HIDE DEF at, c
    <2> QED BY <2>1, <2>2
  <1> HIDE DEF at, c, R
  <1>9. [n \in 1..c |-> s[at[n]]] \in [1..c -> T]
    BY <1>1, <1>6
  <1>10. KeptAt(s, P) \in Seq(T) /\ Len(KeptAt(s, P)) = c
    BY <1>6, <1>8, <1>9, FunIsSeq
  <1>11. \A n \in 1..c : KeptAt(s, P)[n] = s[at[n]]
    BY <1>8
  <1> QED BY <1>6, <1>7, <1>10, <1>11 DEF c

(* Ids in a level grow: the oldest order comes first.                        *)
Increasing(ids) == \A j, k \in DOMAIN ids : j < k => ids[j] < ids[k]

(* The orders of a level: each at the level's price and spelling, with     *)
(* something left, oldest first; the total is what they have left.         *)
LevelHolds(l, side, book) ==
    /\ Increasing(l.ids)
    /\ \A id \in ToSet(l.ids) :
          /\ id \in DOMAIN book
          /\ book[id].side = side /\ book[id].price = l.price
          /\ book[id].spelling = l.spelling /\ book[id].remaining > 0
    /\ l.total = Total(ToSet(l.ids), book)

(* No two levels of a side have the same price and spelling.                *)
Distinct(ls) ==
    \A j, k \in DOMAIN ls : j < k =>
        (ls[k].price = ls[j].price => ls[k].spelling # ls[j].spelling)

(* The levels of a side have prices, and none is better than one before it. *)
Ordered(side, ls) ==
    /\ \A j \in DOMAIN ls : ls[j].price # NaN
    /\ \A j, k \in DOMAIN ls : j < k => ~Better(side, ls[k].price, ls[j].price)

(* One side of the book agrees with the orders, whatever the order of its   *)
(* levels.                                                                  *)
SideHolds(side, ls, book) ==
    /\ ls \in Seq(Level)
    /\ \A i \in DOMAIN ls : ls[i].ids # <<>> /\ LevelHolds(ls[i], side, book)
    /\ Distinct(ls)

(* An order is in one of the levels of a side.                               *)
OnSide(id, ls) == \E i \in DOMAIN ls : id \in ToSet(ls[i].ids)

-----------------------------------------------------------------------------
(* Keeping leaves exactly the wanted ids, in the order they were.            *)
LEMMA KeepingFacts ==
    ASSUME NEW T, NEW ids \in Seq(T), T \subseteq Int, Increasing(ids), NEW S
    PROVE  /\ Keeping(ids, S) \in Seq(T)
           /\ Increasing(Keeping(ids, S))
           /\ ToSet(Keeping(ids, S)) = ToSet(ids) \cap S
  <1> DEFINE P == {i \in DOMAIN ids : ids[i] \in S}
             k == Keeping(ids, S)
  <1>1. Len(ids) \in Nat /\ DOMAIN ids = 1..Len(ids) /\ \A i \in DOMAIN ids : ids[i] \in T
    BY LenProperties
  <1>2. P \in SUBSET (1..Len(ids)) /\ \A p \in P : p \in DOMAIN ids /\ ids[p] \in S
    BY <1>1
  <1>3. k = KeptAt(ids, P)
    BY DEF Keeping
  <1> HIDE DEF k
  <1>4. PICK at \in [1..Cardinality(P) -> P] :
              /\ Cardinality(P) \in Nat
              /\ k \in Seq(T)
              /\ Len(k) = Cardinality(P)
              /\ \A n \in 1..Cardinality(P) : k[n] = ids[at[n]]
              /\ \A p \in P : \E n \in 1..Cardinality(P) : at[n] = p
              /\ \A m, n \in 1..Cardinality(P) : m < n <=> at[m] < at[n]
    <2> HIDE DEF P
    <2> QED BY <1>2, <1>3, KeptAtFacts
  <1>5. DOMAIN k = 1..Cardinality(P)
    BY <1>4, LenProperties
  <1>6. Increasing(k)
    <2> SUFFICES ASSUME NEW m \in DOMAIN k, NEW n \in DOMAIN k, m < n PROVE k[m] < k[n]
      BY DEF Increasing
    <2>1. at[m] < at[n] /\ at[m] \in P /\ at[n] \in P
      BY <1>4, <1>5
    <2>2. ids[at[m]] < ids[at[n]]
      BY <2>1, <1>2 DEF Increasing
    <2> QED BY <2>2, <1>4, <1>5
  <1>7. ASSUME NEW x \in ToSet(k) PROVE x \in ToSet(ids) \cap S
    <2>1. PICK n \in DOMAIN k : x = k[n]
      BY DEF ToSet
    <2>2. x = ids[at[n]] /\ at[n] \in P
      BY <2>1, <1>4, <1>5
    <2> QED BY <2>2, <1>2 DEF ToSet
  <1>8. ASSUME NEW x \in ToSet(ids) \cap S PROVE x \in ToSet(k)
    <2>1. PICK p \in DOMAIN ids : x = ids[p]
      BY DEF ToSet
    <2>2. p \in P
      BY <2>1
    <2>3. PICK n \in 1..Cardinality(P) : at[n] = p
      BY <2>2, <1>4
    <2>4. x = k[n] /\ n \in DOMAIN k
      BY <2>1, <2>3, <1>4, <1>5
    <2> QED BY <2>4 DEF ToSet
  <1> QED BY <1>3, <1>4, <1>6, <1>7, <1>8 DEF k

(* Without its empty levels a side holds, and has the same orders.           *)
LEMMA WithIdsFacts ==
    ASSUME NEW side \in Sides, NEW book, NEW ls \in Seq(Level), Distinct(ls),
           \A i \in DOMAIN ls : LevelHolds(ls[i], side, book)
    PROVE  /\ SideHolds(side, WithIds(ls), book)
           /\ \A id : OnSide(id, WithIds(ls)) <=> OnSide(id, ls)
           /\ Ordered(side, ls) => Ordered(side, WithIds(ls))
  <1> DEFINE P == {i \in DOMAIN ls : ls[i].ids # <<>>}
             k == WithIds(ls)
  <1>1. Len(ls) \in Nat /\ DOMAIN ls = 1..Len(ls) /\ \A i \in DOMAIN ls : ls[i] \in Level
    BY LenProperties
  <1>2. P \in SUBSET (1..Len(ls)) /\ \A p \in P : p \in DOMAIN ls /\ ls[p].ids # <<>>
    BY <1>1
  <1>3. k = KeptAt(ls, P)
    BY DEF WithIds
  <1> HIDE DEF k
  <1>4. PICK at \in [1..Cardinality(P) -> P] :
              /\ Cardinality(P) \in Nat
              /\ k \in Seq(Level)
              /\ Len(k) = Cardinality(P)
              /\ \A n \in 1..Cardinality(P) : k[n] = ls[at[n]]
              /\ \A p \in P : \E n \in 1..Cardinality(P) : at[n] = p
              /\ \A m, n \in 1..Cardinality(P) : m < n <=> at[m] < at[n]
    <2> HIDE DEF P
    <2> QED BY <1>2, <1>3, KeptAtFacts
  <1>5. DOMAIN k = 1..Cardinality(P)
    BY <1>4, LenProperties
  <1>6. \A n \in DOMAIN k : k[n] = ls[at[n]] /\ at[n] \in P /\ at[n] \in DOMAIN ls /\ k[n].ids # <<>>
    BY <1>2, <1>4, <1>5
  <1>7. \A n \in DOMAIN k : LevelHolds(k[n], side, book)
    BY <1>6
  <1>8. Distinct(k)
    <2> SUFFICES ASSUME NEW m \in DOMAIN k, NEW n \in DOMAIN k, m < n, k[n].price = k[m].price
                 PROVE  k[n].spelling # k[m].spelling
      BY DEF Distinct
    <2>1. at[m] < at[n]
      BY <1>4, <1>5
    <2> QED BY <2>1, <1>6 DEF Distinct
  <1>11. ASSUME Ordered(side, ls) PROVE Ordered(side, k)
    <2>1. \A n \in DOMAIN k : k[n].price # NaN
      BY <1>6, <1>11 DEF Ordered
    <2>2. ASSUME NEW m \in DOMAIN k, NEW n \in DOMAIN k, m < n
          PROVE  ~Better(side, k[n].price, k[m].price)
      <3>1. at[m] < at[n]
        BY <2>2, <1>4, <1>5
      <3> QED BY <3>1, <1>6, <1>11 DEF Ordered
    <2> QED BY <2>1, <2>2 DEF Ordered
  <1>9. ASSUME NEW id PROVE OnSide(id, k) <=> OnSide(id, ls)
    <2>1. ASSUME OnSide(id, k) PROVE OnSide(id, ls)
      BY <2>1, <1>6 DEF OnSide
    <2>2. ASSUME OnSide(id, ls) PROVE OnSide(id, k)
      <3>1. PICK i \in DOMAIN ls : id \in ToSet(ls[i].ids)
        BY <2>2 DEF OnSide
      <3>2. ls[i].ids # <<>>
        <4>1. ToSet(<<>>) = {}
          BY DEF ToSet
        <4> QED BY <3>1, <4>1
      <3>3. i \in P
        BY <3>2
      <3>4. PICK n \in 1..Cardinality(P) : at[n] = i
        BY <3>3, <1>4
      <3> QED BY <3>1, <3>4, <1>5, <1>6 DEF OnSide
    <2> QED BY <2>1, <2>2
  <1>10. SideHolds(side, k, book)
    BY <1>4, <1>6, <1>7, <1>8 DEF SideHolds
  <1> QED BY <1>9, <1>10, <1>11 DEF k

(* Sets of ids are finite.                                                   *)
LEMMA IdsFinite ==
    ASSUME NEW S \in SUBSET Ids
    PROVE  IsFiniteSet(S)
  <1>1. IsFiniteSet(1..MaxOrders)
    BY BookConstants, FS_Interval
  <1> QED BY <1>1, FS_Subset DEF Ids

(* The members of a sequence of ids are ids.                                 *)
LEMMA ToSetIds ==
    ASSUME NEW T, NEW ids \in Seq(T)
    PROVE  ToSet(ids) \in SUBSET T
  <1>1. \A i \in DOMAIN ids : ids[i] \in T
    BY LenProperties
  <1> QED BY <1>1 DEF ToSet

(* A total is a natural.                                                     *)
LEMMA TotalType ==
    ASSUME NEW S \in SUBSET Ids, NEW book, \A id \in S : book[id].remaining \in Nat
    PROVE  Total(S, book) \in Nat
  <1> DEFINE f == [id \in S |-> book[id].remaining]
  <1>1. f \in [S -> Nat]
    OBVIOUS
  <1>2. SumFunctionOnSet(f, S) \in Nat
    <2> HIDE DEF f
    <2> QED BY <1>1, IdsFinite, SumOfNats
  <1> QED BY <1>2 DEF Total

(* A total depends on what the orders of the set have left and on nothing else. *)
LEMMA TotalAgree ==
    ASSUME NEW S, NEW b1, NEW b2, \A id \in S : b1[id].remaining = b2[id].remaining
    PROVE  Total(S, b1) = Total(S, b2)
  <1>1. [id \in S |-> b1[id].remaining] = [id \in S |-> b2[id].remaining]
    OBVIOUS
  <1> QED BY <1>1 DEF Total

(* What a part of the orders has left adds to what the others have left.     *)
LEMMA TotalSplit ==
    ASSUME NEW S \in SUBSET Ids, NEW A, NEW book, \A id \in S : book[id].remaining \in Nat
    PROVE  Total(S, book) = Total(S \cap A, book) + Total(S \ A, book)
  <1> DEFINE f == [id \in S |-> book[id].remaining]
             B == S \cap A
             C == S \ A
             g == [id \in B |-> book[id].remaining]
             h == [id \in C |-> book[id].remaining]
  <1>1. /\ f \in [S -> Int] /\ g \in [B -> Int] /\ h \in [C -> Int]
        /\ B \in SUBSET S /\ C \in SUBSET S /\ B \cap C = {} /\ B \cup C = S
        /\ (\A x \in B : f[x] = g[x]) /\ (\A x \in C : f[x] = h[x])
    OBVIOUS
  <1>2. IsFiniteSet(S)
    BY IdsFinite
  <1>3. SumFunctionOnSet(f, S) = SumFunctionOnSet(g, B) + SumFunctionOnSet(h, C)
    <2> HIDE DEF f, g, h, B, C
    <2> QED BY <1>1, <1>2, SumOfUnion
  <1> QED BY <1>3 DEF Total

(* One more order adds what it has left.                                     *)
LEMMA TotalAdd ==
    ASSUME NEW S \in SUBSET Ids, NEW x, x \notin S, NEW book, \A id \in S : book[id].remaining \in Nat,
           book[x].remaining \in Nat
    PROVE  Total(S \cup {x}, book) = Total(S, book) + book[x].remaining
  <1> DEFINE E == S \cup {x}
             f == [id \in E |-> book[id].remaining]
             g == [id \in S |-> book[id].remaining]
  <1>1. /\ f \in [E -> Int] /\ g \in [S -> Int] /\ E = S \cup {x} /\ f[x] = book[x].remaining
        /\ \A y \in S : f[y] = g[y]
    OBVIOUS
  <1>2. IsFiniteSet(S)
    BY IdsFinite
  <1>3. SumFunctionOnSet(f, E) = SumFunctionOnSet(g, S) + f[x]
    <2> HIDE DEF f, g, E
    <2> QED BY <1>1, <1>2, SumAddEntry
  <1> QED BY <1>1, <1>3 DEF Total

(* The facts about a book that its levels hold. *)
IsBook(book) == \A id \in DOMAIN book : id \in Ids /\ book[id].remaining \in Nat

(* Levels agree with a changed book if what they show of it is unchanged. *)
LEMMA LevelKeeps ==
    ASSUME NEW side, NEW b1, NEW b2, NEW l, LevelHolds(l, side, b1),
           \A id \in ToSet(l.ids) :
              /\ id \in DOMAIN b2
              /\ b2[id].side = b1[id].side /\ b2[id].price = b1[id].price
              /\ b2[id].spelling = b1[id].spelling /\ b2[id].remaining = b1[id].remaining
    PROVE  LevelHolds(l, side, b2)
  <1>1. Total(ToSet(l.ids), b1) = Total(ToSet(l.ids), b2)
    BY TotalAgree
  <1> QED BY <1>1 DEF LevelHolds

(* A side still holds when the orders in it have what they had.              *)
LEMMA SideKeeps ==
    ASSUME NEW side, NEW b1, NEW b2, NEW ls, SideHolds(side, ls, b1),
           \A id \in DOMAIN b1 : b1[id].side = side =>
              /\ id \in DOMAIN b2
              /\ b2[id].side = b1[id].side /\ b2[id].price = b1[id].price
              /\ b2[id].spelling = b1[id].spelling /\ b2[id].remaining = b1[id].remaining
    PROVE  SideHolds(side, ls, b2)
  <1>1. ASSUME NEW i \in DOMAIN ls PROVE LevelHolds(ls[i], side, b2)
    <2>1. LevelHolds(ls[i], side, b1)
      BY DEF SideHolds
    <2>2. \A id \in ToSet(ls[i].ids) :
              /\ id \in DOMAIN b2
              /\ b2[id].side = b1[id].side /\ b2[id].price = b1[id].price
              /\ b2[id].spelling = b1[id].spelling /\ b2[id].remaining = b1[id].remaining
      BY <2>1 DEF LevelHolds
    <2> QED BY <2>1, <2>2, LevelKeeps
  <1> QED BY <1>1 DEF SideHolds

(* A level loses some of its orders, and its total what they had left. *)
StrippedLevel(l, rm, b) ==
    [l EXCEPT !.ids = Keeping(@, ToSet(@) \ rm), !.total = @ - Total(ToSet(l.ids) \cap rm, b)]

(* A level without some of its orders, with what they had left subtracted.   *)
LEMMA StripHolds ==
    ASSUME NEW side, NEW b, NEW l \in Level, IsBook(b), LevelHolds(l, side, b), NEW rm
    PROVE  /\ StrippedLevel(l, rm, b) \in Level
           /\ LevelHolds(StrippedLevel(l, rm, b), side, b)
           /\ ToSet(StrippedLevel(l, rm, b).ids) = ToSet(l.ids) \ rm
           /\ StrippedLevel(l, rm, b).price = l.price
           /\ StrippedLevel(l, rm, b).spelling = l.spelling
  <1> DEFINE m == StrippedLevel(l, rm, b)
  <1>1. l.ids \in Seq(Ids) /\ l.price \in Prices /\ l.spelling \in Spellings /\ l.total \in Nat
    BY DEF Level
  <1> DEFINE S == ToSet(l.ids)
  <1>2. S \in SUBSET Ids
    BY <1>1, ToSetIds
  <1>3. \A id \in S : b[id].remaining \in Nat
    BY DEF LevelHolds, IsBook
  <1>4. /\ m.ids = Keeping(l.ids, S \ rm) /\ m.total = l.total - Total(S \cap rm, b)
        /\ m.price = l.price /\ m.spelling = l.spelling
    BY DEF Level, StrippedLevel
  <1>10. m = [price |-> l.price, spelling |-> l.spelling, ids |-> m.ids, total |-> m.total]
    <2> DEFINE k == Keeping(l.ids, ToSet(l.ids) \ rm)
               t == l.total - Total(ToSet(l.ids) \cap rm, b)
    <2>1. m = [l EXCEPT !.ids = k, !.total = t]
      BY DEF StrippedLevel
    <2> HIDE DEF k, t, m
    <2> QED BY <2>1 DEF Level
  <1> HIDE DEF S, m
  <1>5. Ids \subseteq Int
    BY BookConstants DEF Ids
  <1>6. m.ids \in Seq(Ids) /\ Increasing(m.ids) /\ ToSet(m.ids) = S \ rm
    <2>1. Increasing(l.ids)
      BY DEF LevelHolds
    <2>2. /\ Keeping(l.ids, S \ rm) \in Seq(Ids) /\ Increasing(Keeping(l.ids, S \ rm))
          /\ ToSet(Keeping(l.ids, S \ rm)) = ToSet(l.ids) \cap (S \ rm)
      BY <1>1, <1>5, <2>1, KeepingFacts, Zenon
    <2> QED BY <2>2, <1>4 DEF S
  <1>7. m.total = Total(S \ rm, b) /\ Total(S \ rm, b) \in Nat
    <2>1. Total(S, b) = Total(S \cap rm, b) + Total(S \ rm, b)
      BY <1>2, <1>3, TotalSplit
    <2>2. Total(S \cap rm, b) \in Nat /\ Total(S \ rm, b) \in Nat
      BY <1>2, <1>3, TotalType
    <2>3. l.total = Total(S, b)
      BY DEF LevelHolds, S
    <2> QED BY <1>4, <2>1, <2>2, <2>3
  <1>8. m \in Level
    <2> QED BY <1>10, <1>1, <1>6, <1>7 DEF Level
  <1>9. LevelHolds(m, side, b)
    <2>1. \A id \in S \ rm : /\ id \in DOMAIN b
          /\ b[id].side = side /\ b[id].price = l.price
          /\ b[id].spelling = l.spelling /\ b[id].remaining > 0
      BY DEF LevelHolds, S
    <2> QED BY <2>1, <1>4, <1>6, <1>7 DEF LevelHolds
  <1> QED BY <1>4, <1>6, <1>8, <1>9 DEF S, m

(* One side of the book when the orders rm leave it. *)
Stripped(ls, rm, b) ==
    [i \in DOMAIN ls |-> StrippedLevel(ls[i], rm, b)]

(* A side whose levels are replaced one by one by levels of the same price *)
(* and spelling stays as it is in these respects.                          *)
LEMMA SameLevels ==
    ASSUME NEW side, NEW ls, NEW ms, Distinct(ls), DOMAIN ms = DOMAIN ls,
           \A i \in DOMAIN ls : ms[i].price = ls[i].price /\ ms[i].spelling = ls[i].spelling
    PROVE  Distinct(ms) /\ (Ordered(side, ls) => Ordered(side, ms))
  BY DEF Distinct, Ordered

(* A side without some of its orders, and without the levels this empties.   *)
LEMMA RemoveHolds ==
    ASSUME NEW side \in Sides, NEW b, IsBook(b), NEW ls, SideHolds(side, ls, b), NEW rm
    PROVE  /\ SideHolds(side, WithIds(Stripped(ls, rm, b)), b)
           /\ \A id : OnSide(id, WithIds(Stripped(ls, rm, b))) <=> OnSide(id, ls) /\ id \notin rm
           /\ Ordered(side, ls) => Ordered(side, WithIds(Stripped(ls, rm, b)))
  <1> DEFINE ms == Stripped(ls, rm, b)
  <1>1. ls \in Seq(Level)
    BY DEF SideHolds
  <1>2. Len(ls) \in Nat /\ DOMAIN ls = 1..Len(ls) /\ \A i \in DOMAIN ls : ls[i] \in Level
    BY <1>1, LenProperties
  <1>3. DOMAIN ms = DOMAIN ls
    BY DEF Stripped
  <1>4. ASSUME NEW i \in DOMAIN ls
        PROVE  /\ ms[i] \in Level
               /\ LevelHolds(ms[i], side, b)
               /\ ToSet(ms[i].ids) = ToSet(ls[i].ids) \ rm
               /\ ms[i].price = ls[i].price /\ ms[i].spelling = ls[i].spelling
    <2>1. ms[i] = StrippedLevel(ls[i], rm, b)
      BY DEF Stripped
    <2>2. LevelHolds(ls[i], side, b) /\ ls[i] \in Level
      BY <1>2 DEF SideHolds
    <2> HIDE DEF ms
    <2> QED BY <2>1, <2>2, StripHolds
  <1>5. ms \in Seq(Level)
    <2>1. ms \in [1..Len(ls) -> Level]
      <3>1. \A i \in 1..Len(ls) : ms[i] \in Level
        BY <1>2, <1>4
      <3>2. ms = [i \in 1..Len(ls) |-> ms[i]]
        BY <1>2 DEF Stripped
      <3> HIDE DEF ms
      <3> QED BY <3>1, <3>2
    <2> HIDE DEF ms
    <2> QED BY <1>2, <2>1, FunIsSeq
  <1>6. Distinct(ms) /\ (Ordered(side, ls) => Ordered(side, ms))
    <2>1. Distinct(ls)
      BY DEF SideHolds
    <2>2. \A i \in DOMAIN ls : ms[i].price = ls[i].price /\ ms[i].spelling = ls[i].spelling
      BY <1>4
    <2> HIDE DEF ms
    <2> QED BY <1>3, <2>1, <2>2, SameLevels
  <1>7. \A id : OnSide(id, ms) <=> OnSide(id, ls) /\ id \notin rm
    <2>1. \A i \in DOMAIN ls : ToSet(ms[i].ids) = ToSet(ls[i].ids) \ rm
      BY <1>4
    <2> HIDE DEF ms
    <2> QED BY <1>3, <2>1 DEF OnSide
  <1>8. \A i \in DOMAIN ms : LevelHolds(ms[i], side, b)
    BY <1>3, <1>4
  <1> HIDE DEF ms
  <1>9. /\ SideHolds(side, WithIds(ms), b)
        /\ \A id : OnSide(id, WithIds(ms)) <=> OnSide(id, ms)
        /\ Ordered(side, ms) => Ordered(side, WithIds(ms))
    BY <1>5, <1>6, <1>8, WithIdsFacts
  <1> QED BY <1>6, <1>7, <1>9 DEF ms

(* What one side becomes in a match: see Swept. *)
SweptLevel(l, ts, after) ==
    IF \E i \in DOMAIN ts : ts[i].maker \in ToSet(l.ids)
    THEN [l EXCEPT !.ids = Keeping(l.ids, {id \in ToSet(l.ids) : after[id].remaining > 0}),
                   !.total = Total(ToSet(Keeping(l.ids, {id \in ToSet(l.ids) : after[id].remaining > 0})),
                                   after)]
    ELSE l

(* The levels of a side after trades.                                        *)
SweptLevels(ls, ts, after) == WithIds([i \in DOMAIN ls |-> SweptLevel(ls[i], ts, after)])

(* Swept, in these terms.                                                    *)
LEMMA SweptIs ==
    ASSUME NEW side, NEW ts
    PROVE  Swept(side, ts) = SweptLevels(levels[side], ts, Hit(ts))
  BY DEF Swept, SweptLevel, SweptLevels

(* The orders of a side that no trade has keep what they have left. *)
HitsOnlyMakers(side, ts, b, after) ==
    \A id \in DOMAIN b : b[id].side = side =>
        /\ id \in DOMAIN after
        /\ after[id].side = b[id].side /\ after[id].price = b[id].price
        /\ after[id].spelling = b[id].spelling
        /\ (\A i \in DOMAIN ts : ts[i].maker # id) => after[id].remaining = b[id].remaining

(* A level that has traded holds exactly its orders with something left.     *)
LEMMA SweptLevelHolds ==
    ASSUME NEW side, NEW b, NEW after, NEW l \in Level, IsBook(b), IsBook(after),
           LevelHolds(l, side, b), NEW ts,
           \A id \in ToSet(l.ids) :
              /\ id \in DOMAIN after
              /\ after[id].side = b[id].side /\ after[id].price = b[id].price
              /\ after[id].spelling = b[id].spelling
              /\ (\A i \in DOMAIN ts : ts[i].maker # id) => after[id].remaining = b[id].remaining
    PROVE  /\ SweptLevel(l, ts, after) \in Level
           /\ LevelHolds(SweptLevel(l, ts, after), side, after)
           /\ \A id : id \in ToSet(SweptLevel(l, ts, after).ids)
                        <=> id \in ToSet(l.ids) /\ after[id].remaining > 0
           /\ SweptLevel(l, ts, after).price = l.price
           /\ SweptLevel(l, ts, after).spelling = l.spelling
  <1>1. l.ids \in Seq(Ids) /\ l.price \in Prices /\ l.spelling \in Spellings /\ l.total \in Nat
    BY DEF Level
  <1>2. CASE \A i \in DOMAIN ts : ts[i].maker \notin ToSet(l.ids)
    <2>1. SweptLevel(l, ts, after) = l
      BY <1>2 DEF SweptLevel
    <2>2. \A id \in ToSet(l.ids) : after[id].remaining = b[id].remaining
      BY <1>2
    <2>3. LevelHolds(l, side, after)
      BY <2>2, LevelKeeps
    <2>4. \A id \in ToSet(l.ids) : after[id].remaining > 0
      BY <2>3 DEF LevelHolds
    <2> QED BY <2>1, <2>3, <2>4
  <1>3. CASE \E i \in DOMAIN ts : ts[i].maker \in ToSet(l.ids)
    <2> DEFINE O == {id \in ToSet(l.ids) : after[id].remaining > 0}
               k == Keeping(l.ids, O)
               m == SweptLevel(l, ts, after)
    <2>1. m = [l EXCEPT !.ids = k, !.total = Total(ToSet(k), after)]
      BY <1>3 DEF SweptLevel
    <2>2. m.ids = k /\ m.total = Total(ToSet(k), after) /\ m.price = l.price /\ m.spelling = l.spelling
      BY <2>1 DEF Level
    <2>3. k \in Seq(Ids) /\ Increasing(k) /\ ToSet(k) = ToSet(l.ids) \cap O
      <3>1. Ids \subseteq Int
        BY BookConstants DEF Ids
      <3>2. Increasing(l.ids)
        BY DEF LevelHolds
      <3> HIDE DEF O
      <3> QED BY <1>1, <3>1, <3>2, KeepingFacts, Zenon
    <2> HIDE DEF k, m
    <2>4. \A id : id \in ToSet(k) <=> id \in ToSet(l.ids) /\ after[id].remaining > 0
      BY <2>3
    <2>5. ToSet(k) \in SUBSET Ids /\ \A id \in ToSet(k) : after[id].remaining \in Nat
      <3>1. ToSet(k) \in SUBSET Ids
        BY <2>3, ToSetIds
      <3> QED BY <3>1, <2>4 DEF IsBook
    <2>6. Total(ToSet(k), after) \in Nat
      BY <2>5, TotalType
    <2>7. m \in Level
      <3>1. m = [price |-> l.price, spelling |-> l.spelling, ids |-> k, total |-> Total(ToSet(k), after)]
        BY <2>1 DEF Level
      <3> QED BY <3>1, <1>1, <2>3, <2>6 DEF Level
    <2>8. LevelHolds(m, side, after)
      <3>1. \A id \in ToSet(k) : /\ id \in DOMAIN after
              /\ after[id].side = side /\ after[id].price = l.price
              /\ after[id].spelling = l.spelling /\ after[id].remaining > 0
        BY <2>4 DEF LevelHolds
      <3> QED BY <3>1, <2>2, <2>3 DEF LevelHolds
    <2> QED BY <2>2, <2>4, <2>7, <2>8 DEF m
  <1> QED BY <1>2, <1>3

(* A swept side holds exactly its orders with something left.                *)
LEMMA SweptHolds ==
    ASSUME NEW side \in Sides, NEW b, NEW after, IsBook(b), IsBook(after),
           NEW ls, SideHolds(side, ls, b), NEW ts, HitsOnlyMakers(side, ts, b, after)
    PROVE  /\ SideHolds(side, SweptLevels(ls, ts, after), after)
           /\ \A id : OnSide(id, SweptLevels(ls, ts, after))
                        <=> OnSide(id, ls) /\ after[id].remaining > 0
           /\ Ordered(side, ls) => Ordered(side, SweptLevels(ls, ts, after))
  <1> DEFINE ms == [i \in DOMAIN ls |-> SweptLevel(ls[i], ts, after)]
  <1>1. ls \in Seq(Level)
    BY DEF SideHolds
  <1>2. Len(ls) \in Nat /\ DOMAIN ls = 1..Len(ls) /\ \A i \in DOMAIN ls : ls[i] \in Level
    BY <1>1, LenProperties
  <1>3. DOMAIN ms = DOMAIN ls /\ \A i \in DOMAIN ls : ms[i] = SweptLevel(ls[i], ts, after)
    OBVIOUS
  <1>4. ASSUME NEW i \in DOMAIN ls
        PROVE  /\ ms[i] \in Level
               /\ LevelHolds(ms[i], side, after)
               /\ \A id : id \in ToSet(ms[i].ids) <=> id \in ToSet(ls[i].ids) /\ after[id].remaining > 0
               /\ ms[i].price = ls[i].price /\ ms[i].spelling = ls[i].spelling
    <2>1. LevelHolds(ls[i], side, b) /\ ls[i] \in Level
      BY <1>2 DEF SideHolds
    <2>2. \A id \in ToSet(ls[i].ids) :
              /\ id \in DOMAIN after
              /\ after[id].side = b[id].side /\ after[id].price = b[id].price
              /\ after[id].spelling = b[id].spelling
              /\ (\A j \in DOMAIN ts : ts[j].maker # id) => after[id].remaining = b[id].remaining
      BY <2>1 DEF LevelHolds, HitsOnlyMakers
    <2> HIDE DEF ms
    <2> QED BY <1>3, <2>1, <2>2, SweptLevelHolds
  <1>5. ms \in Seq(Level)
    <2>1. ms \in [1..Len(ls) -> Level]
      <3>1. \A i \in 1..Len(ls) : ms[i] \in Level
        BY <1>2, <1>4
      <3>2. ms = [i \in 1..Len(ls) |-> ms[i]]
        BY <1>2
      <3> HIDE DEF ms
      <3> QED BY <3>1, <3>2
    <2> HIDE DEF ms
    <2> QED BY <1>2, <2>1, FunIsSeq
  <1> HIDE DEF ms
  <1>6. Distinct(ms) /\ (Ordered(side, ls) => Ordered(side, ms))
    <2>1. Distinct(ls)
      BY DEF SideHolds
    <2>2. \A i \in DOMAIN ls : ms[i].price = ls[i].price /\ ms[i].spelling = ls[i].spelling
      BY <1>4
    <2> QED BY <1>3, <2>1, <2>2, SameLevels
  <1>7. \A id : OnSide(id, ms) <=> OnSide(id, ls) /\ after[id].remaining > 0
    BY <1>3, <1>4 DEF OnSide
  <1>8. \A i \in DOMAIN ms : LevelHolds(ms[i], side, after)
    BY <1>3, <1>4
  <1>9. /\ SideHolds(side, WithIds(ms), after)
        /\ \A id : OnSide(id, WithIds(ms)) <=> OnSide(id, ms)
        /\ Ordered(side, ms) => Ordered(side, WithIds(ms))
    BY <1>5, <1>6, <1>8, WithIdsFacts
  <1> QED BY <1>6, <1>7, <1>9 DEF ms, SweptLevels

(* A set of naturals has its minimum.                                        *)
LEMMA MinOfNats ==
    ASSUME NEW S \in SUBSET Nat, S # {}
    PROVE  Min(S) \in S /\ \A x \in S : Min(S) <= x
  <1> DEFINE G == {n \in Nat : \A m \in S : m <= n => \E x \in S : \A y \in S : x <= y}
  <1>1. 0 \in G
    OBVIOUS
  <1>2. ASSUME NEW n \in Nat, n \in G PROVE n + 1 \in G
    <2> SUFFICES ASSUME NEW m \in S, m <= n + 1, ~ \E x \in S : \A y \in S : x <= y PROVE FALSE
      OBVIOUS
    <2>1. PICK y \in S : ~ m <= y
      OBVIOUS
    <2>2. y <= n
      <3>1. m \in Nat /\ y \in Nat
        OBVIOUS
      <3> QED BY <3>1, <2>1
    <2> QED BY <1>2, <2>2
  <1>3. \A n \in Nat : n \in G
    <2> HIDE DEF G
    <2> QED BY <1>1, <1>2, NatSetInduction
  <1>4. PICK m \in S : TRUE
    OBVIOUS
  <1>5. \E x \in S : \A y \in S : x <= y
    <2>1. m \in G /\ m <= m
      BY <1>3, <1>4
    <2> QED BY <2>1, <1>4
  <1> QED BY <1>5 DEF Min

(* What InsertAt puts where.                                                 *)
LEMMA InsertAtFacts ==
    ASSUME NEW T, NEW s \in Seq(T), NEW k \in 1..(Len(s) + 1), NEW e \in T
    PROVE  /\ InsertAt(s, k, e) \in Seq(T)
           /\ Len(InsertAt(s, k, e)) = Len(s) + 1
           /\ \A i \in 1..(Len(s) + 1) :
                InsertAt(s, k, e)[i] = IF i < k THEN s[i] ELSE IF i = k THEN e ELSE s[i - 1]
  <1> DEFINE n == Len(s)
             a == SubSeq(s, 1, k - 1)
             c == SubSeq(s, k, n)
  <1>1. n \in Nat /\ \A i \in 1..n : s[i] \in T
    BY LenProperties
  <1>2. k \in Int /\ k - 1 \in Int /\ 1 <= k /\ k <= n + 1
    BY <1>1
  <1>3. /\ a \in Seq(T) /\ Len(a) = k - 1
        /\ \A i \in 1..(k - 1) : a[i] = s[i]
    <2>1. \A i \in 1..(k - 1) : s[i] \in T
      BY <1>1, <1>2
    <2>2. /\ a \in Seq(T)
          /\ Len(a) = IF 1 <= k - 1 THEN (k - 1) - 1 + 1 ELSE 0
          /\ \A i \in 1..((k - 1) - 1 + 1) : a[i] = s[1 + i - 1]
      BY <2>1, <1>2, SubSeqProperties
    <2> HIDE DEF a
    <2>3. Len(a) = k - 1
      BY <2>2, <1>2
    <2>4. \A i \in 1..(k - 1) : a[i] = s[i]
      <3> SUFFICES ASSUME NEW i \in 1..(k - 1) PROVE a[i] = s[i]
        OBVIOUS
      <3>1. i \in 1..((k - 1) - 1 + 1) /\ 1 + i - 1 = i
        BY <1>2
      <3> QED BY <3>1, <2>2
    <2> QED BY <2>2, <2>3, <2>4
  <1>4. /\ c \in Seq(T) /\ Len(c) = n - k + 1
        /\ \A i \in 1..(n - k + 1) : c[i] = s[k + i - 1]
    <2>1. \A i \in k..n : s[i] \in T
      BY <1>1, <1>2
    <2>2. /\ c \in Seq(T)
          /\ Len(c) = IF k <= n THEN n - k + 1 ELSE 0
          /\ \A i \in 1..(n - k + 1) : c[i] = s[k + i - 1]
      <3> HIDE DEF n
      <3> QED BY <2>1, <1>1, <1>2, SubSeqProperties
    <2> HIDE DEF c, n
    <2>3. Len(c) = n - k + 1
      BY <2>2, <1>1, <1>2
    <2> QED BY <2>2, <2>3
  <1>5. <<e>> \in Seq(T) /\ Len(<<e>>) = 1 /\ <<e>>[1] = e
    OBVIOUS
  <1> DEFINE ae == a \o <<e>>
  <1> HIDE DEF a, c, n
  <1>6. /\ ae \in Seq(T) /\ Len(ae) = k
        /\ \A i \in 1..k : ae[i] = IF i < k THEN s[i] ELSE e
    <2>1. /\ ae \in Seq(T) /\ Len(ae) = Len(a) + Len(<<e>>)
          /\ \A i \in 1..(Len(a) + Len(<<e>>)) :
                ae[i] = IF i <= Len(a) THEN a[i] ELSE <<e>>[i - Len(a)]
      BY <1>3, <1>5, ConcatProperties
    <2> HIDE DEF ae
    <2>2. Len(a) + Len(<<e>>) = k
      BY <1>2, <1>3, <1>5
    <2>3. \A i \in 1..k : ae[i] = IF i < k THEN s[i] ELSE e
      <3> SUFFICES ASSUME NEW i \in 1..k PROVE ae[i] = IF i < k THEN s[i] ELSE e
        OBVIOUS
      <3>1. ae[i] = IF i <= k - 1 THEN a[i] ELSE <<e>>[i - (k - 1)]
        BY <2>1, <2>2, <1>3
      <3>2. CASE i < k
        BY <3>1, <3>2, <1>2, <1>3
      <3>3. CASE i = k
        <4>1. i - (k - 1) = 1 /\ ~(i <= k - 1)
          BY <3>3, <1>2
        <4> QED BY <3>1, <3>3, <4>1, <1>2, <1>5
      <3> QED BY <3>2, <3>3, <1>2
    <2> QED BY <2>1, <2>2, <2>3
  <1> DEFINE t == ae \o c
  <1>7. InsertAt(s, k, e) = t
    BY DEF InsertAt, a, c, n
  <1> HIDE DEF ae
  <1>8. /\ t \in Seq(T) /\ Len(t) = k + (n - k + 1)
        /\ \A i \in 1..(k + (n - k + 1)) :
              t[i] = IF i <= k THEN ae[i] ELSE c[i - k]
    <2>1. /\ t \in Seq(T) /\ Len(t) = Len(ae) + Len(c)
          /\ \A i \in 1..(Len(ae) + Len(c)) : t[i] = IF i <= Len(ae) THEN ae[i] ELSE c[i - Len(ae)]
      BY <1>4, <1>6, ConcatProperties
    <2> HIDE DEF t
    <2> QED BY <2>1, <1>4, <1>6
  <1> HIDE DEF t
  <1>9. k + (n - k + 1) = n + 1
    BY <1>1, <1>2
  <1>10. ASSUME NEW i \in 1..(n + 1)
         PROVE  t[i] = IF i < k THEN s[i] ELSE IF i = k THEN e ELSE s[i - 1]
    <2>1. t[i] = IF i <= k THEN ae[i] ELSE c[i - k]
      BY <1>8, <1>9
    <2>2. i \in Int
      BY <1>1
    <2>3. CASE i <= k
      <3>1. i \in 1..k
        BY <2>2, <2>3, <1>2
      <3> QED BY <3>1, <2>1, <2>2, <2>3, <1>2, <1>6
    <2>4. CASE i > k
      <3>1. i - k \in 1..(n - k + 1) /\ k + (i - k) - 1 = i - 1
        BY <2>2, <2>4, <1>1, <1>2
      <3>2. c[i - k] = s[i - 1]
        BY <3>1, <1>4
      <3> QED BY <3>2, <2>1, <2>2, <2>4, <1>2
    <2> QED BY <2>2, <2>3, <2>4, <1>2
  <1> QED BY <1>7, <1>8, <1>9, <1>10 DEF n

(* What Append puts where.                                                   *)
LEMMA AppendFacts ==
    ASSUME NEW T, NEW ids \in Seq(T), NEW id \in T
    PROVE  /\ Append(ids, id) \in Seq(T)
           /\ DOMAIN Append(ids, id) = 1..(Len(ids) + 1)
           /\ \A i \in DOMAIN ids : Append(ids, id)[i] = ids[i]
           /\ Append(ids, id)[Len(ids) + 1] = id
           /\ ToSet(Append(ids, id)) = ToSet(ids) \cup {id}
  <1>1. Len(ids) \in Nat /\ DOMAIN ids = 1..Len(ids)
    BY LenProperties
  <1>2. /\ Append(ids, id) \in Seq(T)
        /\ Len(Append(ids, id)) = Len(ids) + 1
        /\ \A i \in 1..Len(ids) : Append(ids, id)[i] = ids[i]
        /\ Append(ids, id)[Len(ids) + 1] = id
    BY AppendProperties
  <1>3. DOMAIN Append(ids, id) = 1..(Len(ids) + 1)
    BY <1>2, LenProperties
  <1>4. \A i \in 1..(Len(ids) + 1) : i \in 1..Len(ids) \/ i = Len(ids) + 1
    BY <1>1
  <1>5. 1..Len(ids) \subseteq 1..(Len(ids) + 1) /\ Len(ids) + 1 \in 1..(Len(ids) + 1)
    BY <1>1
  <1>6. ToSet(Append(ids, id)) = ToSet(ids) \cup {id}
    BY <1>1, <1>2, <1>3, <1>4, <1>5 DEF ToSet
  <1> QED BY <1>1, <1>2, <1>3, <1>6

(* An order newer than those of a level joins it. *)
GrownLevel(l, id, left) == [l EXCEPT !.ids = Append(l.ids, id), !.total = l.total + left]

(* An order is newer than those of a level, and is at its price and spelling. *)
BelongsTo(l, id, left, side, b) ==
    /\ \A x \in ToSet(l.ids) : x < id
    /\ id \in DOMAIN b
    /\ b[id].side = side /\ b[id].price = l.price /\ b[id].spelling = l.spelling
    /\ b[id].remaining = left

(* A level holds with one more order, newer than the ones it has.            *)
LEMMA LevelGrows ==
    ASSUME NEW side, NEW b, NEW l \in Level, IsBook(b), LevelHolds(l, side, b),
           NEW id \in Ids, NEW left \in Nat \ {0}, BelongsTo(l, id, left, side, b)
    PROVE  /\ GrownLevel(l, id, left) \in Level
           /\ LevelHolds(GrownLevel(l, id, left), side, b)
           /\ ToSet(GrownLevel(l, id, left).ids) = ToSet(l.ids) \cup {id}
           /\ GrownLevel(l, id, left).price = l.price
           /\ GrownLevel(l, id, left).spelling = l.spelling
           /\ GrownLevel(l, id, left).ids # <<>>
  <1> DEFINE m == GrownLevel(l, id, left)
             S == ToSet(l.ids)
             k == Append(l.ids, id)
  <1>0. /\ \A x \in S : x < id
        /\ id \in DOMAIN b
        /\ b[id].side = side /\ b[id].price = l.price /\ b[id].spelling = l.spelling
        /\ b[id].remaining = left
    BY DEF BelongsTo
  <1>1. l.ids \in Seq(Ids) /\ l.price \in Prices /\ l.spelling \in Spellings /\ l.total \in Nat
    BY DEF Level
  <1>2. /\ k \in Seq(Ids)
        /\ DOMAIN k = 1..(Len(l.ids) + 1)
        /\ \A i \in DOMAIN l.ids : k[i] = l.ids[i]
        /\ k[Len(l.ids) + 1] = id
        /\ ToSet(k) = S \cup {id}
    BY <1>1, AppendFacts
  <1>3. Len(l.ids) \in Nat /\ DOMAIN l.ids = 1..Len(l.ids)
    BY <1>1, LenProperties
  <1>4. m.ids = k /\ m.total = l.total + left /\ m.price = l.price /\ m.spelling = l.spelling
    BY DEF Level, GrownLevel
  <1>5. S \in SUBSET Ids
    BY <1>1, ToSetIds
  <1>6. Ids \subseteq Int
    BY BookConstants DEF Ids
  <1>7. \A x \in S : b[x].remaining \in Nat /\ x \in DOMAIN b
    BY DEF LevelHolds, IsBook
  <1>8. id \notin S
    BY <1>0, <1>5, <1>6
  <1>9. m = [price |-> l.price, spelling |-> l.spelling, ids |-> k, total |-> l.total + left]
    <2> HIDE DEF k
    <2>1. m = [l EXCEPT !.ids = k, !.total = l.total + left]
      BY DEF k, GrownLevel
    <2> QED BY <2>1 DEF Level
  <1> HIDE DEF k, m
  <1>10. Increasing(k)
    <2> SUFFICES ASSUME NEW i \in DOMAIN k, NEW j \in DOMAIN k, i < j PROVE k[i] < k[j]
      BY DEF Increasing
    <2>1. i \in DOMAIN l.ids /\ k[i] = l.ids[i]
      BY <1>2, <1>3
    <2>2. CASE j = Len(l.ids) + 1
      <3>1. k[i] \in S
        BY <2>1 DEF ToSet
      <3> QED BY <3>1, <2>2, <1>2, <1>0
    <2>3. CASE j # Len(l.ids) + 1
      <3>1. j \in DOMAIN l.ids /\ k[j] = l.ids[j]
        BY <2>3, <1>2, <1>3
      <3>2. Increasing(l.ids)
        BY DEF LevelHolds
      <3> QED BY <3>1, <3>2, <2>1 DEF Increasing
    <2> QED BY <2>2, <2>3
  <1>11. m.total = Total(ToSet(k), b) /\ m.total \in Nat
    <2>1. Total(S \cup {id}, b) = Total(S, b) + b[id].remaining
      BY <1>0, <1>5, <1>7, <1>8, TotalAdd
    <2>2. l.total = Total(S, b)
      BY DEF LevelHolds
    <2> QED BY <2>1, <2>2, <1>0, <1>1, <1>2, <1>4
  <1>12. m \in Level
    BY <1>1, <1>2, <1>4, <1>9, <1>11 DEF Level
  <1>13. LevelHolds(m, side, b)
    <2>1. \A x \in S : /\ x \in DOMAIN b /\ b[x].side = side /\ b[x].price = l.price
                       /\ b[x].spelling = l.spelling /\ b[x].remaining > 0
      BY DEF LevelHolds
    <2>2. \A x \in ToSet(k) : /\ x \in DOMAIN b /\ b[x].side = side /\ b[x].price = l.price
                       /\ b[x].spelling = l.spelling /\ b[x].remaining > 0
      BY <2>1, <1>0, <1>2
    <2> QED BY <2>2, <1>4, <1>10, <1>11 DEF LevelHolds
  <1>14. m.ids # <<>>
    BY <1>1, <1>4, AppendProperties DEF k
  <1> QED BY <1>2, <1>4, <1>12, <1>13, <1>14 DEF m

(* A level of the order alone. *)
NewLevel(price, spelling, id, left) ==
    [price |-> price, spelling |-> spelling, ids |-> <<id>>, total |-> left]

(* An order that can open a level of its own. *)
OpensLevel(price, spelling, id, left, side, b) ==
    /\ price \in Prices /\ spelling \in Spellings
    /\ id \in Ids /\ id \in DOMAIN b
    /\ b[id].side = side /\ b[id].price = price /\ b[id].spelling = spelling
    /\ left \in Nat \ {0} /\ b[id].remaining = left

HoldsOnly(l, id, side, b) ==
    l \in Level /\ LevelHolds(l, side, b) /\ ToSet(l.ids) = {id} /\ l.ids # <<>>

(* A level of one order.                                                     *)
LEMMA NewLevelHolds ==
    ASSUME NEW side, NEW b, NEW price, NEW spelling, NEW id, NEW left,
           IsBook(b), OpensLevel(price, spelling, id, left, side, b)
    PROVE  HoldsOnly(NewLevel(price, spelling, id, left), id, side, b)
  <1> USE DEF OpensLevel
  <1> DEFINE m == NewLevel(price, spelling, id, left)
  <1>1. m.ids = <<id>> /\ m.total = left /\ m.price = price /\ m.spelling = spelling
    BY DEF NewLevel
  <1>2. <<id>> \in Seq(Ids) /\ DOMAIN <<id>> = {1} /\ <<id>>[1] = id /\ <<id>> # <<>>
    OBVIOUS
  <1>3. ToSet(<<id>>) = {id}
    BY <1>2 DEF ToSet
  <1>4. Increasing(<<id>>)
    BY <1>2 DEF Increasing
  <1>5. Total({id}, b) = left
    <2> DEFINE f == [x \in {id} |-> b[x].remaining]
               g == [x \in {} |-> b[x].remaining]
    <2>1. /\ f \in [{id} -> Int] /\ g \in [{} -> Int] /\ f[id] = left /\ {id} = {} \cup {id}
          /\ (\A y \in {} : f[y] = g[y]) /\ (\A y \in {} : g[y] = 0) /\ id \notin {}
      OBVIOUS
    <2>2. IsFiniteSet({})
      BY FS_EmptySet
    <2> HIDE DEF f, g
    <2>3. SumFunctionOnSet(g, {}) = 0
      BY <2>1, <2>2, SumOfZeros
    <2> DEFINE D == {}
               E == {id}
    <2>4. SumFunctionOnSet(f, E) = SumFunctionOnSet(g, D) + f[id]
      <3>1. IsFiniteSet(D) /\ id \notin D /\ E = D \cup {id} /\ f \in [E -> Int] /\ g \in [D -> Int]
            /\ \A y \in D : f[y] = g[y]
        BY <2>1, <2>2
      <3> HIDE DEF D, E
      <3> QED BY <3>1, SumAddEntry
    <2> QED BY <2>1, <2>3, <2>4 DEF Total, f
  <1>6. m \in Level
    BY <1>2 DEF Level, NewLevel
  <1> HIDE DEF m
  <1>7. LevelHolds(m, side, b)
    BY <1>1, <1>3, <1>4, <1>5 DEF LevelHolds
  <1> QED BY <1>1, <1>2, <1>3, <1>6, <1>7 DEF m, HoldsOnly

(* Better is a strict order of the prices of a side.                         *)
LEMMA BetterOrder ==
    ASSUME NEW side, NEW p \in Prices, NEW q \in Prices, NEW r \in Prices,
           p # NaN, q # NaN, r # NaN
    PROVE  /\ Better(side, p, q) /\ ~Better(side, r, q) => ~Better(side, r, p) /\ p # r
           /\ ~Better(side, p, q) /\ ~Better(side, q, r) => ~Better(side, p, r)
           /\ ~Better(side, p, p)
           /\ Better(side, p, q) => ~Better(side, q, p)
  <1>1. p \in Int /\ q \in Int /\ r \in Int
    BY BookConstants DEF Prices
  <1> QED BY <1>1 DEF Better, Above

(* findInsertIndex halves its range through a recursive function. *)
IsSearch(f, side, price, n, rounds) ==
    f = [k \in 0..rounds |->
            IF k = 0 THEN [lo |-> 0, hi |-> n] ELSE Halved(side, price, f[k - 1])]

(* There is such a function for every number of rounds.                      *)
LEMMA SearchExists ==
    ASSUME NEW side, NEW price, NEW n, NEW rounds \in Nat
    PROVE  \E f : IsSearch(f, side, price, n, rounds)
  <1> DEFINE G == {k \in Nat : \E f : IsSearch(f, side, price, n, k)}
             all == [lo |-> 0, hi |-> n]
  <1>1. 0 \in G
    <2>1. IsSearch([i \in 0..0 |-> all], side, price, n, 0)
      BY DEF IsSearch
    <2> QED BY <2>1
  <1>2. ASSUME NEW k \in Nat, k \in G PROVE k + 1 \in G
    <2>1. PICK f : IsSearch(f, side, price, n, k)
      BY <1>2
    <2> DEFINE next(i) == IF i = 0 THEN all ELSE Halved(side, price, f[i - 1])
               g == [i \in 0..(k + 1) |-> next(i)]
    <2>2. \A i \in 0..k : f[i] = next(i)
      BY <2>1 DEF IsSearch
    <2>3. \A i \in 0..k : g[i] = f[i]
      BY <2>2
    <2>4. \A i \in 0..(k + 1) : i = 0 \/ i - 1 \in 0..k
      OBVIOUS
    <2>5. \A i \in 0..(k + 1) : g[i] = IF i = 0 THEN all ELSE Halved(side, price, g[i - 1])
      <3> SUFFICES ASSUME NEW i \in 0..(k + 1)
                   PROVE  g[i] = IF i = 0 THEN all ELSE Halved(side, price, g[i - 1])
        OBVIOUS
      <3>1. g[i] = next(i)
        OBVIOUS
      <3>2. i # 0 => g[i - 1] = f[i - 1]
        BY <2>3, <2>4
      <3> HIDE DEF g, all
      <3> QED BY <3>1, <3>2
    <2>6. g = [i \in 0..(k + 1) |-> g[i]]
      OBVIOUS
    <2> HIDE DEF g
    <2>7. IsSearch(g, side, price, n, k + 1)
      BY <2>5, <2>6 DEF IsSearch
    <2> QED BY <2>7
  <1>3. rounds \in G
    <2> HIDE DEF G
    <2> QED BY <1>1, <1>2, NatSetInduction
  <1> QED BY <1>3

(* After k rounds the level before the range is better than the price, the *)
(* level behind it is not, and the range is shorter by k at least.         *)
Narrowed(r, side, price, n, k) ==
    /\ r.lo \in 0..n /\ r.hi \in 0..n /\ r.lo <= r.hi /\ r.hi - r.lo <= n - k
    /\ r = [lo |-> r.lo, hi |-> r.hi]
    /\ r.lo = 0 \/ Better(side, levels[side][r.lo].price, price)
    /\ r.hi = n \/ ~Better(side, levels[side][r.hi + 1].price, price)

(* One more round.                                                           *)
LEMMA HalvedNarrows ==
    ASSUME NEW side, NEW price, NEW n \in Nat, NEW k \in Nat, k < n,
           NEW r, Narrowed(r, side, price, n, k)
    PROVE  Narrowed(Halved(side, price, r), side, price, n, k + 1)
  <1> DEFINE lo == r.lo
             hi == r.hi
             mid == (lo + hi) \div 2
             h == Halved(side, price, r)
             at == Better(side, levels[side][mid + 1].price, price)
  <1>1. /\ lo \in 0..n /\ hi \in 0..n /\ lo <= hi /\ hi - lo <= n - k
        /\ r = [lo |-> lo, hi |-> hi]
        /\ lo = 0 \/ Better(side, levels[side][lo].price, price)
        /\ hi = n \/ ~Better(side, levels[side][hi + 1].price, price)
    BY DEF Narrowed
  <1>2. lo < hi => mid \in Nat /\ lo <= mid /\ mid < hi
    <2>1. lo \in Nat /\ hi \in Nat
      BY <1>1
    <2> HIDE DEF lo, hi
    <2> QED BY <2>1
  <1>3. /\ lo = hi => h = r
        /\ lo # hi /\ at => h = [r EXCEPT !.lo = mid + 1]
        /\ lo # hi /\ ~at => h = [r EXCEPT !.hi = mid]
    BY DEF Halved
  <1> HIDE DEF lo, hi, mid, h, at
  <1>4. /\ lo = hi => h = [lo |-> lo, hi |-> hi]
        /\ lo # hi /\ at => h = [lo |-> mid + 1, hi |-> hi]
        /\ lo # hi /\ ~at => h = [lo |-> lo, hi |-> mid]
    BY <1>1, <1>3
  <1>5. CASE lo = hi
    <2>1. h.lo = lo /\ h.hi = hi /\ h = [lo |-> h.lo, hi |-> h.hi]
      BY <1>4, <1>5
    <2>2. hi - lo <= n - (k + 1)
      BY <1>1, <1>5
    <2> QED BY <2>1, <2>2, <1>1 DEF Narrowed, h
  <1>6. CASE lo # hi /\ at
    <2>1. h.lo = mid + 1 /\ h.hi = hi /\ h = [lo |-> h.lo, hi |-> h.hi]
      BY <1>4, <1>6
    <2>2. mid + 1 \in 0..n /\ mid + 1 <= hi /\ hi - (mid + 1) <= n - (k + 1)
      BY <1>1, <1>2, <1>6
    <2>3. Better(side, levels[side][mid + 1].price, price)
      BY <1>6 DEF at
    <2> QED BY <2>1, <2>2, <2>3, <1>1 DEF Narrowed, h
  <1>7. CASE lo # hi /\ ~at
    <2>1. h.lo = lo /\ h.hi = mid /\ h = [lo |-> h.lo, hi |-> h.hi]
      BY <1>4, <1>7
    <2>2. mid \in 0..n /\ lo <= mid /\ mid - lo <= n - (k + 1)
      BY <1>1, <1>2, <1>7
    <2>3. ~Better(side, levels[side][mid + 1].price, price)
      BY <1>7 DEF at
    <2> QED BY <2>1, <2>2, <2>3, <1>1 DEF Narrowed, h
  <1> QED BY <1>5, <1>6, <1>7

(* The place the search finds is behind a better level and before one that *)
(* is not better, whatever the order of the levels.                        *)
LEMMA InsertIndexFacts ==
    ASSUME NEW side, NEW price, NEW n \in Nat, Len(levels[side]) = n
    PROVE  /\ InsertIndex(side, price) \in 1..(n + 1)
           /\ \/ InsertIndex(side, price) = 1
              \/ Better(side, levels[side][InsertIndex(side, price) - 1].price, price)
           /\ \/ InsertIndex(side, price) = n + 1
              \/ ~Better(side, levels[side][InsertIndex(side, price)].price, price)
  <1> DEFINE f == CHOOSE f : IsSearch(f, side, price, n, n)
             G == {k \in Nat : k <= n => Narrowed(f[k], side, price, n, k)}
  <1>1. InsertIndex(side, price) = f[n].lo + 1
    BY DEF InsertIndex, IsSearch
  <1>2. IsSearch(f, side, price, n, n)
    <2>1. \E g : IsSearch(g, side, price, n, n)
      BY SearchExists
    <2> QED BY <2>1
  <1> HIDE DEF f
  <1>3. f[0] = [lo |-> 0, hi |-> n] /\ \A k \in 1..n : f[k] = Halved(side, price, f[k - 1])
    BY <1>2 DEF IsSearch
  <1>4. 0 \in G
    <2>1. f[0].lo = 0 /\ f[0].hi = n
      BY <1>3
    <2> QED BY <2>1, <1>3 DEF Narrowed
  <1>5. ASSUME NEW k \in Nat, k \in G PROVE k + 1 \in G
    <2> SUFFICES ASSUME k + 1 <= n PROVE Narrowed(f[k + 1], side, price, n, k + 1)
      OBVIOUS
    <2>1. k < n /\ k + 1 \in 1..n /\ (k + 1) - 1 = k /\ Narrowed(f[k], side, price, n, k)
      BY <1>5
    <2>2. f[k + 1] = Halved(side, price, f[k])
      BY <2>1, <1>3
    <2>3. Narrowed(Halved(side, price, f[k]), side, price, n, k + 1)
      BY <2>1, HalvedNarrows
    <2> QED BY <2>2, <2>3
  <1>6. n \in G
    <2> HIDE DEF G
    <2> QED BY <1>4, <1>5, NatSetInduction
  <1>7. Narrowed(f[n], side, price, n, n)
    BY <1>6
  <1> DEFINE i == f[n].lo
  <1>8. /\ i \in 0..n
        /\ i = 0 \/ Better(side, levels[side][i].price, price)
        /\ i = n \/ ~Better(side, levels[side][i + 1].price, price)
    <2>1. f[n].hi = f[n].lo
      BY <1>7 DEF Narrowed
    <2> QED BY <2>1, <1>7 DEF Narrowed
  <1> HIDE DEF i
  <1>9. InsertIndex(side, price) = i + 1
    BY <1>1 DEF i
  <1>10. i + 1 \in 1..(n + 1) /\ (i + 1) - 1 = i
    BY <1>8
  <1> QED BY <1>8, <1>9, <1>10

(* A new level is put somewhere into a side.                                *)
LEMMA InsertHolds ==
    ASSUME NEW side \in Sides, NEW b, NEW ls, SideHolds(side, ls, b),
           NEW l \in Level, LevelHolds(l, side, b), l.ids # <<>>,
           \A i \in DOMAIN ls : ls[i].price = l.price => ls[i].spelling # l.spelling,
           NEW k \in 1..(Len(ls) + 1)
    PROVE  /\ SideHolds(side, InsertAt(ls, k, l), b)
           /\ \A id : OnSide(id, InsertAt(ls, k, l)) <=> OnSide(id, ls) \/ id \in ToSet(l.ids)
  <1> DEFINE n == Len(ls)
             t == InsertAt(ls, k, l)
  <1>1. ls \in Seq(Level)
    BY DEF SideHolds
  <1>2. n \in Nat /\ DOMAIN ls = 1..n /\ \A i \in DOMAIN ls : ls[i] \in Level
    BY <1>1, LenProperties
  <1>5. k \in 1..(n + 1) /\ k \in Int
    BY <1>2
  <1>6. /\ t \in Seq(Level) /\ Len(t) = n + 1
        /\ \A i \in 1..(n + 1) : t[i] = IF i < k THEN ls[i] ELSE IF i = k THEN l ELSE ls[i - 1]
    <2>1. /\ InsertAt(ls, k, l) \in Seq(Level)
          /\ Len(InsertAt(ls, k, l)) = Len(ls) + 1
          /\ \A i \in 1..(Len(ls) + 1) :
                InsertAt(ls, k, l)[i] = IF i < k THEN ls[i] ELSE IF i = k THEN l ELSE ls[i - 1]
      BY <1>1, InsertAtFacts
    <2> QED BY <2>1
  <1> HIDE DEF t, n
  <1>7. DOMAIN t = 1..(n + 1)
    BY <1>6, LenProperties
  <1>12. ASSUME NEW i \in DOMAIN t
         PROVE  \/ i < k /\ i \in DOMAIN ls /\ t[i] = ls[i]
                \/ i = k /\ t[i] = l
                \/ k < i /\ i - 1 \in DOMAIN ls /\ k <= i - 1 /\ t[i] = ls[i - 1]
    BY <1>2, <1>5, <1>6, <1>7
  <1>13. ASSUME NEW i \in DOMAIN t PROVE t[i].ids # <<>> /\ LevelHolds(t[i], side, b)
    BY <1>12 DEF SideHolds
  <1>14. Distinct(t)
    <2> SUFFICES ASSUME NEW i \in DOMAIN t, NEW j \in DOMAIN t, i < j, t[j].price = t[i].price
                 PROVE  t[j].spelling # t[i].spelling
      BY DEF Distinct
    <2>1. i \in Int /\ j \in Int
      BY <1>7, <1>2
    <2>2. ASSUME NEW x \in DOMAIN ls, NEW y \in DOMAIN ls, x < y, ls[y].price = ls[x].price
          PROVE  ls[y].spelling # ls[x].spelling
      BY <2>2 DEF SideHolds, Distinct
    <2>3. CASE i # k /\ j # k
      <3>1. \E x, y \in DOMAIN ls : x < y /\ t[i] = ls[x] /\ t[j] = ls[y]
        BY <2>1, <2>3, <1>5, <1>12
      <3> QED BY <3>1, <2>2
    <2>4. CASE i = k
      <3>1. t[i] = l /\ t[j] = ls[j - 1] /\ j - 1 \in DOMAIN ls
        BY <2>1, <2>4, <1>5, <1>12
      <3> QED BY <3>1
    <2>5. CASE j = k
      <3>1. t[j] = l /\ t[i] = ls[i] /\ i \in DOMAIN ls
        BY <2>1, <2>5, <1>5, <1>12
      <3> QED BY <3>1
    <2> QED BY <2>3, <2>4, <2>5
  <1>15. ASSUME NEW id PROVE OnSide(id, t) <=> OnSide(id, ls) \/ id \in ToSet(l.ids)
    <2>1. ASSUME OnSide(id, t) PROVE OnSide(id, ls) \/ id \in ToSet(l.ids)
      <3>1. PICK i \in DOMAIN t : id \in ToSet(t[i].ids)
        BY <2>1 DEF OnSide
      <3> QED BY <3>1, <1>12 DEF OnSide
    <2>2. ASSUME OnSide(id, ls) PROVE OnSide(id, t)
      <3>1. PICK i \in DOMAIN ls : id \in ToSet(ls[i].ids)
        BY <2>2 DEF OnSide
      <3>2. CASE i < k
        <4>1. i \in DOMAIN t /\ t[i] = ls[i]
          BY <3>2, <1>2, <1>5, <1>6, <1>7
        <4> QED BY <4>1, <3>1 DEF OnSide
      <3>3. CASE k <= i
        <4>1. i + 1 \in DOMAIN t /\ t[i + 1] = ls[i]
          <5>1. i + 1 \in 1..(n + 1) /\ ~(i + 1 < k) /\ i + 1 # k /\ (i + 1) - 1 = i
            BY <3>3, <1>2, <1>5
          <5> QED BY <5>1, <1>6, <1>7
        <4> QED BY <4>1, <3>1 DEF OnSide
      <3> QED BY <3>2, <3>3, <1>2, <1>5
    <2>3. ASSUME id \in ToSet(l.ids) PROVE OnSide(id, t)
      <3>1. k \in DOMAIN t /\ t[k] = l
        BY <1>5, <1>6, <1>7
      <3> QED BY <2>3, <3>1 DEF OnSide
    <2> QED BY <2>1, <2>2, <2>3
  <1>16. SideHolds(side, t, b)
    BY <1>6, <1>13, <1>14 DEF SideHolds
  <1> QED BY <1>15, <1>16 DEF t

(* Into an ordered side a level goes where the levels before it are better, *)
(* and the one behind it is not.                                           *)
LEMMA InsertOrdered ==
    ASSUME NEW side, NEW ls \in Seq(Level), Ordered(side, ls), NEW l \in Level, l.price # NaN,
           NEW k \in 1..(Len(ls) + 1),
           k = 1 \/ Better(side, ls[k - 1].price, l.price),
           k = Len(ls) + 1 \/ ~Better(side, ls[k].price, l.price)
    PROVE  Ordered(side, InsertAt(ls, k, l))
  <1> DEFINE n == Len(ls)
             t == InsertAt(ls, k, l)
  <1>1. n \in Nat /\ DOMAIN ls = 1..n /\ \A i \in DOMAIN ls : ls[i] \in Level
    BY LenProperties
  <1>2. /\ t \in Seq(Level) /\ Len(t) = n + 1
        /\ \A i \in 1..(n + 1) : t[i] = IF i < k THEN ls[i] ELSE IF i = k THEN l ELSE ls[i - 1]
    <2>1. /\ InsertAt(ls, k, l) \in Seq(Level)
          /\ Len(InsertAt(ls, k, l)) = Len(ls) + 1
          /\ \A i \in 1..(Len(ls) + 1) :
                InsertAt(ls, k, l)[i] = IF i < k THEN ls[i] ELSE IF i = k THEN l ELSE ls[i - 1]
      BY InsertAtFacts
    <2> QED BY <2>1
  <1>3. k \in 1..(n + 1) /\ k \in Int
    BY <1>1
  <1>4. /\ k = 1 \/ Better(side, ls[k - 1].price, l.price)
        /\ k = n + 1 \/ ~Better(side, ls[k].price, l.price)
    OBVIOUS
  <1> HIDE DEF t, n
  <1>5. DOMAIN t = 1..(n + 1)
    BY <1>2, LenProperties
  <1>6. /\ \A i \in DOMAIN ls : ls[i].price \in Prices /\ ls[i].price # NaN
        /\ l.price \in Prices /\ l.price # NaN
    BY <1>1 DEF Ordered, Level
  <1>7. \A i, j \in DOMAIN ls : i < j => ~Better(side, ls[j].price, ls[i].price)
    BY DEF Ordered
  <1>8. ASSUME NEW i \in DOMAIN ls, i < k PROVE ~Better(side, l.price, ls[i].price)
    <2>1. k - 1 \in DOMAIN ls /\ Better(side, ls[k - 1].price, l.price)
          /\ (i < k - 1 \/ i = k - 1)
      BY <1>1, <1>3, <1>4, <1>8
    <2>2. ~Better(side, l.price, ls[k - 1].price)
      BY <2>1, <1>6, BetterOrder
    <2>3. i = k - 1 \/ ~Better(side, ls[k - 1].price, ls[i].price)
      BY <2>1, <1>7
    <2> DEFINE p == l.price
               q == ls[k - 1].price
               r == ls[i].price
    <2>4. ~Better(side, p, q) /\ (q = r \/ ~Better(side, q, r))
      BY <2>2, <2>3
    <2>5. p \in Prices /\ q \in Prices /\ r \in Prices /\ p # NaN /\ q # NaN /\ r # NaN
      BY <2>1, <1>6
    <2> HIDE DEF p, q, r
    <2>6. ~Better(side, p, r)
      BY <2>4, <2>5, BetterOrder
    <2> QED BY <2>6 DEF p, r
  <1>9. ASSUME NEW i \in DOMAIN ls, k <= i PROVE ~Better(side, ls[i].price, l.price)
    <2>1. k \in DOMAIN ls /\ ~Better(side, ls[k].price, l.price) /\ (k < i \/ k = i)
      BY <1>1, <1>3, <1>4, <1>9
    <2>2. k = i \/ ~Better(side, ls[i].price, ls[k].price)
      BY <2>1, <1>7
    <2> DEFINE p == ls[i].price
               q == ls[k].price
               r == l.price
    <2>3. ~Better(side, q, r) /\ (p = q \/ ~Better(side, p, q))
      BY <2>1, <2>2
    <2>4. p \in Prices /\ q \in Prices /\ r \in Prices /\ p # NaN /\ q # NaN /\ r # NaN
      BY <2>1, <1>6
    <2> HIDE DEF p, q, r
    <2>5. ~Better(side, p, r)
      BY <2>3, <2>4, BetterOrder
    <2> QED BY <2>5 DEF p, r
  <1>10. ASSUME NEW i \in DOMAIN t
         PROVE  \/ i < k /\ i \in DOMAIN ls /\ t[i] = ls[i]
                \/ i = k /\ t[i] = l
                \/ k < i /\ i - 1 \in DOMAIN ls /\ k <= i - 1 /\ t[i] = ls[i - 1]
    BY <1>1, <1>2, <1>3, <1>5
  <1>11. \A i \in DOMAIN t : t[i].price # NaN
    BY <1>6, <1>10
  <1>12. ASSUME NEW i \in DOMAIN t, NEW j \in DOMAIN t, i < j
         PROVE  ~Better(side, t[j].price, t[i].price)
    <2>1. i \in Int /\ j \in Int
      BY <1>1, <1>5
    <2>2. CASE i # k /\ j # k
      <3>1. \E x, y \in DOMAIN ls : x < y /\ t[i] = ls[x] /\ t[j] = ls[y]
        BY <2>1, <2>2, <1>3, <1>10, <1>12
      <3> QED BY <3>1, <1>7
    <2>3. CASE i = k
      <3>1. t[i] = l /\ t[j] = ls[j - 1] /\ j - 1 \in DOMAIN ls /\ k <= j - 1
        BY <2>1, <2>3, <1>3, <1>10, <1>12
      <3> QED BY <3>1, <1>9
    <2>4. CASE j = k
      <3>1. t[j] = l /\ t[i] = ls[i] /\ i \in DOMAIN ls /\ i < k
        BY <2>1, <2>4, <1>3, <1>10, <1>12
      <3> QED BY <3>1, <1>8
    <2> QED BY <2>2, <2>3, <2>4
  <1> QED BY <1>11, <1>12 DEF t, Ordered

(* The rest of a request joins its side of the book. *)
LEMMA JoinedHolds ==
    ASSUME NEW req, req.side \in Sides, req.price \in Prices, req.spelling \in Spellings,
           NEW b, IsBook(b), SideHolds(req.side, levels[req.side], b),
           NEW id \in Ids, id \in DOMAIN b, \A x \in DOMAIN b : OnSide(x, levels[req.side]) => x < id,
           b[id].side = req.side, b[id].price = req.price, b[id].spelling = req.spelling,
           NEW left \in Nat \ {0}, b[id].remaining = left
    PROVE  /\ SideHolds(req.side, Joined(req, id, left), b)
           /\ \A x : OnSide(x, Joined(req, id, left)) <=> OnSide(x, levels[req.side]) \/ x = id
           /\ Ordered(req.side, levels[req.side]) /\ req.price # NaN
                => Ordered(req.side, Joined(req, id, left))
  <1> DEFINE side == req.side
             ls == levels[req.side]
             own(l) == l.price = req.price /\ l.spelling = req.spelling
             t == Joined(req, id, left)
  <1>1. ls \in Seq(Level)
    BY DEF SideHolds
  <1>2. Len(ls) \in Nat /\ DOMAIN ls = 1..Len(ls) /\ \A i \in DOMAIN ls : ls[i] \in Level
    BY <1>1, LenProperties
  <1>3. \A i \in DOMAIN ls : \A x \in ToSet(ls[i].ids) : x \in DOMAIN b /\ x < id
    <2> SUFFICES ASSUME NEW i \in DOMAIN ls, NEW x \in ToSet(ls[i].ids) PROVE x \in DOMAIN b /\ x < id
      OBVIOUS
    <2>1. OnSide(x, ls)
      BY DEF OnSide
    <2>2. x \in DOMAIN b
      BY DEF SideHolds, LevelHolds
    <2> QED BY <2>1, <2>2
  <1>4. CASE \E i \in DOMAIN ls : own(ls[i])
    <2> DEFINE grown(l) == GrownLevel(l, id, left)
    <2>1. t = [i \in DOMAIN ls |-> IF own(ls[i]) THEN grown(ls[i]) ELSE ls[i]]
      BY <1>4 DEF Joined, GrownLevel
    <2> HIDE DEF t
    <2>2. DOMAIN t = DOMAIN ls
      BY <2>1
    <2>3. ASSUME NEW i \in DOMAIN ls, own(ls[i])
          PROVE  /\ t[i] \in Level
                 /\ LevelHolds(t[i], side, b)
                 /\ ToSet(t[i].ids) = ToSet(ls[i].ids) \cup {id}
                 /\ t[i].price = ls[i].price /\ t[i].spelling = ls[i].spelling
                 /\ t[i].ids # <<>>
      <3> DEFINE l == ls[i]
                 m == t[i]
      <3>1. m = GrownLevel(l, id, left)
        BY <2>1, <2>3
      <3>2. l \in Level /\ LevelHolds(l, side, b)
        BY <1>2 DEF SideHolds
      <3>3. BelongsTo(l, id, left, side, b)
        BY <1>3, <2>3 DEF BelongsTo
      <3> HIDE DEF l, m, side
      <3>4. /\ m \in Level /\ LevelHolds(m, side, b) /\ ToSet(m.ids) = ToSet(l.ids) \cup {id}
            /\ m.price = l.price /\ m.spelling = l.spelling /\ m.ids # <<>>
        <4> DEFINE big == GrownLevel(l, id, left)
        <4>1. /\ big \in Level /\ LevelHolds(big, side, b) /\ ToSet(big.ids) = ToSet(l.ids) \cup {id}
              /\ big.price = l.price /\ big.spelling = l.spelling /\ big.ids # <<>>
          BY <3>2, <3>3, LevelGrows
        <4> HIDE DEF big
        <4> QED BY <4>1, <3>1 DEF big
      <3> QED BY <3>4 DEF l, m, side
    <2>4. ASSUME NEW i \in DOMAIN ls, ~own(ls[i])
          PROVE  t[i] = ls[i] /\ ls[i] \in Level /\ LevelHolds(ls[i], side, b) /\ ls[i].ids # <<>>
      BY <2>1, <2>4, <1>2 DEF SideHolds
    <2> HIDE DEF grown
    <2>5. \A i \in DOMAIN ls :
             /\ t[i] \in Level /\ LevelHolds(t[i], side, b) /\ t[i].ids # <<>>
             /\ t[i].price = ls[i].price /\ t[i].spelling = ls[i].spelling
      BY <2>3, <2>4
    <2>6. t \in Seq(Level)
      <3>1. t = [i \in 1..Len(ls) |-> t[i]]
        BY <2>1, <1>2
      <3>2. \A i \in 1..Len(ls) : t[i] \in Level
        BY <2>5, <1>2
      <3>3. t \in [1..Len(ls) -> Level]
        BY <3>1, <3>2
      <3> QED BY <3>3, <1>2, FunIsSeq
    <2>7. Distinct(t) /\ (Ordered(side, ls) => Ordered(side, t))
      <3>1. Distinct(ls)
        BY DEF SideHolds
      <3>2. \A i \in DOMAIN ls : t[i].price = ls[i].price /\ t[i].spelling = ls[i].spelling
        BY <2>5
      <3> HIDE DEF side, ls
      <3> QED BY <2>2, <3>1, <3>2, SameLevels
    <2>8. SideHolds(side, t, b)
      BY <2>2, <2>5, <2>6, <2>7 DEF SideHolds
    <2>9. ASSUME NEW x PROVE OnSide(x, t) <=> OnSide(x, ls) \/ x = id
      <3>1. ASSUME OnSide(x, t) PROVE OnSide(x, ls) \/ x = id
        <4>1. PICK i \in DOMAIN t : x \in ToSet(t[i].ids)
          BY <3>1 DEF OnSide
        <4>2. x \in ToSet(ls[i].ids) \/ x = id
          BY <4>1, <2>2, <2>3, <2>4
        <4> QED BY <4>2, <2>2 DEF OnSide
      <3>2. ASSUME OnSide(x, ls) PROVE OnSide(x, t)
        <4>1. PICK i \in DOMAIN ls : x \in ToSet(ls[i].ids)
          BY <3>2 DEF OnSide
        <4>2. x \in ToSet(t[i].ids)
          BY <4>1, <2>3, <2>4
        <4> QED BY <4>2, <2>2 DEF OnSide
      <3>3. OnSide(id, t)
        <4>1. PICK i \in DOMAIN ls : own(ls[i])
          BY <1>4
        <4>2. id \in ToSet(t[i].ids)
          BY <4>1, <2>3
        <4> QED BY <4>2, <2>2 DEF OnSide
      <3> QED BY <3>1, <3>2, <3>3
    <2> QED BY <2>7, <2>8, <2>9 DEF t
  <1>5. CASE ~ \E i \in DOMAIN ls : own(ls[i])
    <2> DEFINE l == NewLevel(req.price, req.spelling, id, left)
               k == InsertIndex(side, req.price)
    <2>1. t = InsertAt(ls, k, l)
      BY <1>5 DEF Joined, NewLevel
    <2>2. l \in Level /\ LevelHolds(l, side, b) /\ ToSet(l.ids) = {id} /\ l.ids # <<>>
      <3> DEFINE p == req.price
                 w == req.spelling
      <3>1. OpensLevel(p, w, id, left, side, b)
        BY DEF OpensLevel
      <3> HIDE DEF side, p, w
      <3>2. HoldsOnly(NewLevel(p, w, id, left), id, side, b)
        BY <3>1, NewLevelHolds
      <3> QED BY <3>2 DEF p, w, HoldsOnly
    <2>3. l.price = req.price /\ l.spelling = req.spelling
      BY DEF NewLevel
    <2>4. /\ k \in 1..(Len(ls) + 1)
          /\ k = 1 \/ Better(side, ls[k - 1].price, req.price)
          /\ k = Len(ls) + 1 \/ ~Better(side, ls[k].price, req.price)
      <3> DEFINE n == Len(levels[req.side])
      <3>1. n \in Nat
        BY <1>2
      <3>2. /\ InsertIndex(req.side, req.price) \in 1..(n + 1)
            /\ \/ InsertIndex(req.side, req.price) = 1
               \/ Better(req.side, levels[req.side][InsertIndex(req.side, req.price) - 1].price, req.price)
            /\ \/ InsertIndex(req.side, req.price) = n + 1
               \/ ~Better(req.side, levels[req.side][InsertIndex(req.side, req.price)].price, req.price)
        BY <3>1, InsertIndexFacts
      <3> QED BY <3>2
    <2>5. \A i \in DOMAIN ls : ls[i].price = l.price => ls[i].spelling # l.spelling
      BY <1>5, <2>3
    <2>6. side \in Sides /\ SideHolds(side, ls, b)
      OBVIOUS
    <2> HIDE DEF t, l, k, side, ls
    <2>7. /\ k = 1 \/ Better(side, ls[k - 1].price, l.price)
          /\ k = Len(ls) + 1 \/ ~Better(side, ls[k].price, l.price)
      BY <2>3, <2>4
    <2>8. /\ SideHolds(side, InsertAt(ls, k, l), b)
          /\ \A x : OnSide(x, InsertAt(ls, k, l)) <=> OnSide(x, ls) \/ x \in ToSet(l.ids)
      BY <2>2, <2>4, <2>5, <2>6, InsertHolds
    <2>10. Ordered(side, ls) /\ req.price # NaN => Ordered(side, t)
      BY <1>1, <2>1, <2>2, <2>3, <2>4, <2>7, InsertOrdered
    <2>9. SideHolds(side, t, b) /\ \A x : OnSide(x, t) <=> OnSide(x, ls) \/ x = id
      BY <2>1, <2>2, <2>8
    <2> QED BY <2>9, <2>10 DEF t, side, ls
  <1> QED BY <1>4, <1>5

(* The order at a place.                                                     *)
IdAt(ls, p) == ls[p[1]].ids[p[2]]

(* A side holds each order at one place. *)
LEMMA PlaceFacts ==
    ASSUME NEW side \in Sides, NEW b, NEW ls, SideHolds(side, ls, b)
    PROVE  /\ \A p \in PlacesOf(ls) :
                 /\ p[1] \in DOMAIN ls /\ p[2] \in DOMAIN ls[p[1]].ids
                 /\ p = <<p[1], p[2]>> /\ p[1] \in Nat /\ p[2] \in Nat
                 /\ IdAt(ls, p) \in Ids /\ IdAt(ls, p) \in ToSet(ls[p[1]].ids)
                 /\ OnSide(IdAt(ls, p), ls)
                 /\ b[IdAt(ls, p)].price = ls[p[1]].price
                 /\ b[IdAt(ls, p)].spelling = ls[p[1]].spelling
           /\ \A id : OnSide(id, ls) => \E p \in PlacesOf(ls) : IdAt(ls, p) = id
           /\ \A p, q \in PlacesOf(ls) :
                 /\ p[1] = q[1] /\ p[2] < q[2] => IdAt(ls, p) < IdAt(ls, q)
                 /\ ls[p[1]].price = ls[q[1]].price /\ ls[p[1]].spelling = ls[q[1]].spelling
                      => p[1] = q[1]
                 /\ IdAt(ls, p) = IdAt(ls, q) => p = q
  <1>1. ls \in Seq(Level)
    BY DEF SideHolds
  <1>2. Len(ls) \in Nat /\ DOMAIN ls = 1..Len(ls) /\ \A i \in DOMAIN ls : ls[i] \in Level
    BY <1>1, LenProperties
  <1>3. ASSUME NEW i \in DOMAIN ls
        PROVE  /\ ls[i].ids \in Seq(Ids) /\ Len(ls[i].ids) \in Nat
               /\ DOMAIN ls[i].ids = 1..Len(ls[i].ids)
               /\ \A j \in DOMAIN ls[i].ids : ls[i].ids[j] \in Ids
    <2>1. ls[i].ids \in Seq(Ids)
      BY <1>2 DEF Level
    <2> QED BY <2>1, LenProperties
  <1>4. ASSUME NEW p \in PlacesOf(ls)
        PROVE  /\ p[1] \in DOMAIN ls /\ p[2] \in DOMAIN ls[p[1]].ids
               /\ p = <<p[1], p[2]>> /\ p[1] \in Nat /\ p[2] \in Nat
               /\ IdAt(ls, p) \in Ids /\ IdAt(ls, p) \in ToSet(ls[p[1]].ids)
               /\ OnSide(IdAt(ls, p), ls)
               /\ b[IdAt(ls, p)].price = ls[p[1]].price
               /\ b[IdAt(ls, p)].spelling = ls[p[1]].spelling
    <2>1. PICK i \in DOMAIN ls : p \in {i} \X DOMAIN ls[i].ids
      BY DEF PlacesOf
    <2>2. p[1] = i /\ p[2] \in DOMAIN ls[i].ids /\ p = <<p[1], p[2]>>
      BY <2>1
    <2>3. p[1] \in Nat /\ p[2] \in Nat
      BY <2>2, <1>2, <1>3
    <2>4. IdAt(ls, p) \in Ids /\ IdAt(ls, p) \in ToSet(ls[p[1]].ids)
      BY <2>2, <1>3 DEF IdAt, ToSet
    <2>5. OnSide(IdAt(ls, p), ls)
      BY <2>2, <2>4 DEF OnSide
    <2>6. b[IdAt(ls, p)].price = ls[p[1]].price /\ b[IdAt(ls, p)].spelling = ls[p[1]].spelling
      BY <2>2, <2>4 DEF SideHolds, LevelHolds
    <2> QED BY <2>2, <2>3, <2>4, <2>5, <2>6
  <1>5. ASSUME NEW id, OnSide(id, ls) PROVE \E p \in PlacesOf(ls) : IdAt(ls, p) = id
    <2>1. PICK i \in DOMAIN ls : id \in ToSet(ls[i].ids)
      BY <1>5 DEF OnSide
    <2>2. PICK j \in DOMAIN ls[i].ids : id = ls[i].ids[j]
      BY <2>1 DEF ToSet
    <2>3. <<i, j>> \in PlacesOf(ls)
      BY DEF PlacesOf
    <2>4. IdAt(ls, <<i, j>>) = id
      BY <2>2 DEF IdAt
    <2> QED BY <2>3, <2>4
  <1>6. ASSUME NEW p \in PlacesOf(ls), NEW q \in PlacesOf(ls), p[1] = q[1], p[2] < q[2]
        PROVE  IdAt(ls, p) < IdAt(ls, q)
    <2>1. Increasing(ls[p[1]].ids)
      BY <1>4 DEF SideHolds, LevelHolds
    <2> QED BY <2>1, <1>4, <1>6 DEF Increasing, IdAt
  <1>7. ASSUME NEW p \in PlacesOf(ls), NEW q \in PlacesOf(ls),
               ls[p[1]].price = ls[q[1]].price, ls[p[1]].spelling = ls[q[1]].spelling
        PROVE  p[1] = q[1]
    <2> DEFINE i == p[1]
               j == q[1]
    <2>1. i \in DOMAIN ls /\ j \in DOMAIN ls /\ i \in Nat /\ j \in Nat
      BY <1>4
    <2>2. ~(i < j) /\ ~(j < i)
      BY <2>1, <1>7 DEF SideHolds, Distinct
    <2> HIDE DEF i, j
    <2>3. i = j
      BY <2>1, <2>2
    <2> QED BY <2>3 DEF i, j
  <1>8. ASSUME NEW p \in PlacesOf(ls), NEW q \in PlacesOf(ls), IdAt(ls, p) = IdAt(ls, q)
        PROVE  p = q
    <2>1. p[1] = q[1]
      BY <1>4, <1>7, <1>8
    <2>2. ~(p[2] < q[2]) /\ ~(q[2] < p[2])
      <3>1. IdAt(ls, p) \in Int
        <4>1. Ids \subseteq Int
          BY BookConstants DEF Ids
        <4> QED BY <4>1, <1>4
      <3> QED BY <3>1, <2>1, <1>6, <1>8
    <2>3. p[2] = q[2]
      BY <2>2, <1>4
    <2> QED BY <2>1, <2>3, <1>4
  <1> QED BY <1>4, <1>5, <1>6, <1>7, <1>8

(* Ahead is a strict total order of places.                                  *)
LEMMA AheadOrder ==
    ASSUME NEW S, \A p \in S : p = <<p[1], p[2]>> /\ p[1] \in Nat /\ p[2] \in Nat
    PROVE  IsOrder(S, {r \in S \X S : Ahead(r[1], r[2])})
  <1> DEFINE R == {r \in S \X S : Ahead(r[1], r[2])}
  <1>1. \A p, q \in S : <<p, q>> \in R <=> p[1] < q[1] \/ (p[1] = q[1] /\ p[2] < q[2])
    BY DEF Ahead
  <1> HIDE DEF R
  <1>2. \A x \in S : <<x, x>> \notin R
    BY <1>1
  <1>3. \A x, y, z \in S : <<x, y>> \in R /\ <<y, z>> \in R => <<x, z>> \in R
    BY <1>1
  <1>4. ASSUME NEW x \in S, NEW y \in S PROVE x = y \/ <<x, y>> \in R \/ <<y, x>> \in R
    <2>1. x[1] = y[1] /\ x[2] = y[2] => x = y
      OBVIOUS
    <2> QED BY <2>1, <1>1
  <1>5. IsOrder(S, R)
    BY <1>2, <1>3, <1>4 DEF IsOrder
  <1> QED BY <1>5 DEF R

(* What crosses a price of a side also crosses all that are no worse.        *)
LEMMA CrossesBetter ==
    ASSUME NEW side \in Sides, NEW limit \in Prices, NEW q \in Prices, NEW r \in Prices,
           q # NaN, r # NaN, q = r \/ ~Better(Opposite(side), r, q), Crosses(side, limit, r)
    PROVE  Crosses(side, limit, q)
  <1>1. q \in Int /\ r \in Int /\ (limit # NaN => limit \in Int)
    BY BookConstants DEF Prices
  <1> QED BY <1>1 DEF Better, Crosses, Above, Opposite, Sides

(* A bid crosses what it reaches, and an ask what reaches it.                *)
LEMMA CrossesReached ==
    ASSUME NEW limit \in Prices, NEW price \in Prices
    PROVE  /\ limit >= price => Crosses("buy", limit, price)
           /\ price >= limit => Crosses("sell", limit, price)
  <1>1. \A p \in Prices : p # NaN => p \in Int
    BY DEF Prices
  <1>2. CASE limit = NaN \/ price = NaN
    BY <1>2 DEF Crosses, Above
  <1>3. CASE limit # NaN /\ price # NaN
    BY <1>1, <1>3 DEF Crosses, Above
  <1> QED BY <1>2, <1>3

(* A maker, and an order written at the same price. *)
SameLevel(id, maker) ==
    orders[id].price = orders[maker].price /\ orders[id].spelling = orders[maker].spelling

(* The makers of a request are orders it may trade with, each once, the     *)
(* older of a level first. In an ordered side they are all the orders it   *)
(* may trade with, the better ones first.                                  *)
LEMMA MakersFacts ==
    ASSUME NEW req, req.side \in Sides, req.price \in Prices,
           NEW side, side = Opposite(req.side), SideHolds(side, levels[side], orders)
    PROVE  /\ Makers(req) \in Seq(Ids)
           /\ \A k \in DOMAIN Makers(req) :
                 /\ OnSide(Makers(req)[k], levels[side])
                 /\ orders[Makers(req)[k]].user # req.user
                 /\ Crosses(req.side, req.price, orders[Makers(req)[k]].price)
           /\ \A id : /\ OnSide(id, levels[side]) /\ orders[id].user # req.user
                      /\ \/ Ordered(side, levels[side]) /\ Crosses(req.side, req.price, orders[id].price)
                         \/ \E k \in DOMAIN Makers(req) : SameLevel(id, Makers(req)[k])
                      => \E k \in DOMAIN Makers(req) : Makers(req)[k] = id
           /\ \A j, k \in DOMAIN Makers(req) :
                 /\ Makers(req)[j] = Makers(req)[k] => j = k
                 /\ \/ /\ Ordered(side, levels[side])
                       /\ Better(side, orders[Makers(req)[j]].price, orders[Makers(req)[k]].price)
                    \/ SameLevel(Makers(req)[j], Makers(req)[k]) /\ Makers(req)[j] < Makers(req)[k]
                    => j < k
  <1> DEFINE ls == levels[side]
             P == Places(req)
             R == {r \in P \X P : Ahead(r[1], r[2])}
             o == InOrder(P, R)
             M == Makers(req)
             c == Cardinality(P)
  <1>0. side \in Sides
    BY DEF Opposite, Sides
  <1>1. P = {p \in PlacesOf(ls) :
                /\ \A i \in 1..p[1] : Crosses(req.side, req.price, ls[i].price)
                /\ orders[IdAt(ls, p)].user # req.user}
    BY DEF Places, IdAt
  <1>2. M = [n \in DOMAIN o |-> IdAt(ls, o[n])]
    BY DEF Makers, IdAt
  <1> HIDE DEF P, M, ls
  <1>3. SideHolds(side, ls, orders)
    BY DEF ls
  <1>4. \A p \in PlacesOf(ls) :
                 /\ p[1] \in DOMAIN ls /\ p[2] \in DOMAIN ls[p[1]].ids
                 /\ p = <<p[1], p[2]>> /\ p[1] \in Nat /\ p[2] \in Nat
                 /\ IdAt(ls, p) \in Ids /\ IdAt(ls, p) \in ToSet(ls[p[1]].ids)
                 /\ OnSide(IdAt(ls, p), ls)
                 /\ orders[IdAt(ls, p)].price = ls[p[1]].price
                 /\ orders[IdAt(ls, p)].spelling = ls[p[1]].spelling
    BY <1>0, <1>3, PlaceFacts
  <1>5. \A id : OnSide(id, ls) => \E p \in PlacesOf(ls) : IdAt(ls, p) = id
    BY <1>0, <1>3, PlaceFacts
  <1>6. \A p, q \in PlacesOf(ls) :
                 /\ p[1] = q[1] /\ p[2] < q[2] => IdAt(ls, p) < IdAt(ls, q)
                 /\ ls[p[1]].price = ls[q[1]].price /\ ls[p[1]].spelling = ls[q[1]].spelling
                      => p[1] = q[1]
                 /\ IdAt(ls, p) = IdAt(ls, q) => p = q
    BY <1>0, <1>3, PlaceFacts
  <1>7. \A p \in P : p \in PlacesOf(ls) /\ p = <<p[1], p[2]>> /\ p[1] \in Nat /\ p[2] \in Nat
    BY <1>1, <1>4
  <1>8. IsFiniteSet(P)
    <2> DEFINE f == [p \in P |-> IdAt(ls, p)]
    <2>1. f \in [P -> Ids]
      BY <1>4, <1>7
    <2>2. \A p, q \in P : f[p] = f[q] => p = q
      BY <1>6, <1>7
    <2>3. f \in Injection(P, Ids)
      <3> HIDE DEF f
      <3> QED BY <2>1, <2>2 DEF Injection, IsInjective
    <2>4. IsFiniteSet(Ids)
      BY IdsFinite
    <2> HIDE DEF f
    <2> QED BY <2>3, <2>4, FS_Injection
  <1>9. IsOrder(P, R)
    BY <1>7, AheadOrder
  <1>10. /\ c \in Nat
         /\ o \in [1..c -> P]
         /\ \A x \in P : \E n \in 1..c : o[n] = x
         /\ \A m, n \in 1..c : m < n <=> <<o[m], o[n]>> \in R
    <2> HIDE DEF R
    <2> QED BY <1>8, <1>9, InOrderFacts
  <1>11. \A m, n \in 1..c : m < n <=> Ahead(o[m], o[n])
    <2>1. \A p, q \in P : <<p, q>> \in R <=> Ahead(p, q)
      OBVIOUS
    <2> HIDE DEF R, o, c
    <2> QED BY <2>1, <1>10
  <1> HIDE DEF R, o, c
  <1>12. M \in Seq(Ids) /\ DOMAIN M = 1..c /\ \A n \in 1..c : M[n] = IdAt(ls, o[n]) /\ o[n] \in P
    <2>1. M = [n \in 1..c |-> IdAt(ls, o[n])]
      BY <1>2, <1>10
    <2>2. M \in [1..c -> Ids]
      BY <2>1, <1>4, <1>7, <1>10
    <2> QED BY <2>1, <2>2, <1>10, FunIsSeq
  <1>13. ASSUME NEW k \in DOMAIN M
         PROVE  /\ OnSide(M[k], ls) /\ orders[M[k]].user # req.user
                /\ Crosses(req.side, req.price, orders[M[k]].price)
    <2> DEFINE p == o[k]
    <2>1. M[k] = IdAt(ls, p) /\ p \in P
      BY <1>12
    <2> HIDE DEF p
    <2>2. p \in PlacesOf(ls) /\ orders[IdAt(ls, p)].user # req.user
          /\ \A i \in 1..p[1] : Crosses(req.side, req.price, ls[i].price)
      BY <2>1, <1>1
    <2>3. p[1] \in 1..p[1]
      <3>1. p[1] \in DOMAIN ls /\ DOMAIN ls = 1..Len(ls) /\ Len(ls) \in Nat
        <4>1. ls \in Seq(Level)
          BY <1>3 DEF SideHolds
        <4> QED BY <4>1, <2>2, <1>4, LenProperties
      <3> QED BY <3>1
    <2> QED BY <2>1, <2>2, <2>3, <1>4
  <1>14. ASSUME NEW id, OnSide(id, ls), orders[id].user # req.user,
                \/ Ordered(side, ls) /\ Crosses(req.side, req.price, orders[id].price)
                \/ \E k \in DOMAIN M : SameLevel(id, M[k])
         PROVE  \E k \in DOMAIN M : M[k] = id
    <2>1. PICK p \in PlacesOf(ls) : IdAt(ls, p) = id
      BY <1>5, <1>14
    <2>2. ASSUME NEW i \in 1..p[1] PROVE Crosses(req.side, req.price, ls[i].price)
      <3>1. ls \in Seq(Level)
        BY <1>3 DEF SideHolds
      <3>2. DOMAIN ls = 1..Len(ls) /\ Len(ls) \in Nat /\ \A j \in DOMAIN ls : ls[j] \in Level
        BY <3>1, LenProperties
      <3>3. i \in DOMAIN ls /\ p[1] \in DOMAIN ls /\ (i < p[1] \/ i = p[1])
        BY <3>2, <2>1, <1>4
      <3>4. CASE Ordered(side, ls) /\ Crosses(req.side, req.price, orders[id].price)
        <4> DEFINE q == ls[i].price
                   r == ls[p[1]].price
        <4>1. Crosses(req.side, req.price, r)
          BY <2>1, <3>4, <1>4
        <4>2. q \in Prices /\ r \in Prices /\ q # NaN /\ r # NaN
          BY <3>2, <3>3, <3>4 DEF Level, Ordered
        <4>3. q = r \/ ~Better(side, r, q)
          BY <3>3, <3>4 DEF Ordered
        <4> HIDE DEF q, r
        <4>4. Crosses(req.side, req.price, q)
          BY <4>1, <4>2, <4>3, CrossesBetter
        <4> QED BY <4>4 DEF q
      <3>5. CASE \E k \in DOMAIN M : SameLevel(id, M[k])
        <4>1. PICK k \in DOMAIN M : SameLevel(id, M[k])
          BY <3>5
        <4> DEFINE o1 == o[k]
        <4>2. M[k] = IdAt(ls, o1) /\ o1 \in P
          BY <1>12
        <4> HIDE DEF o1
        <4>3. o1 \in PlacesOf(ls) /\ \A n \in 1..o1[1] : Crosses(req.side, req.price, ls[n].price)
          BY <4>2, <1>1
        <4>4. ls[p[1]].price = ls[o1[1]].price /\ ls[p[1]].spelling = ls[o1[1]].spelling
          BY <4>1, <4>2, <4>3, <2>1, <1>4 DEF SameLevel
        <4>5. p[1] = o1[1]
          BY <4>3, <4>4, <2>1, <1>6
        <4> QED BY <4>3, <4>5
      <3> QED BY <3>4, <3>5, <1>14
    <2>3. p \in P
      BY <2>1, <2>2, <1>1, <1>14
    <2>4. PICK n \in 1..c : o[n] = p
      BY <2>3, <1>10
    <2> QED BY <2>1, <2>4, <1>12
  <1>15. ASSUME NEW j \in DOMAIN M, NEW k \in DOMAIN M, M[j] = M[k] PROVE j = k
    <2>1. o[j] = o[k]
      BY <1>6, <1>7, <1>12, <1>15
    <2>2. j \in Int /\ k \in Int
      BY <1>10, <1>12
    <2>3. ~Ahead(o[j], o[k]) /\ ~Ahead(o[k], o[j])
      BY <2>1, <1>7, <1>12 DEF Ahead
    <2> QED BY <2>2, <2>3, <1>11, <1>12
  <1>16. ASSUME NEW j \in DOMAIN M, NEW k \in DOMAIN M,
                \/ Ordered(side, ls) /\ Better(side, orders[M[j]].price, orders[M[k]].price)
                \/ SameLevel(M[j], M[k]) /\ M[j] < M[k]
         PROVE  j < k
    <2> DEFINE p == o[j]
               q == o[k]
    <2>1. M[j] = IdAt(ls, p) /\ M[k] = IdAt(ls, q) /\ p \in PlacesOf(ls) /\ q \in PlacesOf(ls)
      BY <1>7, <1>12
    <2>2. Ahead(p, q) => j < k
      BY <1>11, <1>12
    <2> HIDE DEF p, q
    <2>3. /\ p[1] \in DOMAIN ls /\ q[1] \in DOMAIN ls /\ p[1] \in Nat /\ q[1] \in Nat
          /\ p[2] \in Nat /\ q[2] \in Nat
          /\ orders[M[j]].price = ls[p[1]].price /\ orders[M[k]].price = ls[q[1]].price
          /\ orders[M[j]].spelling = ls[p[1]].spelling /\ orders[M[k]].spelling = ls[q[1]].spelling
      BY <2>1, <1>4
    <2>4. CASE Ordered(side, ls) /\ Better(side, ls[p[1]].price, ls[q[1]].price)
      <3>1. ls[p[1]].price \in Prices /\ ls[p[1]].price # NaN
        <4>1. ls \in Seq(Level)
          BY <1>3 DEF SideHolds
        <4>2. \A i \in DOMAIN ls : ls[i] \in Level
          BY <4>1, LenProperties
        <4> QED BY <4>2, <2>3, <2>4 DEF Level, Ordered
      <3>2. p[1] # q[1]
        BY <3>1, <2>4, BetterOrder
      <3>3. ~(q[1] < p[1])
        BY <2>3, <2>4 DEF Ordered
      <3> QED BY <2>2, <2>3, <3>2, <3>3 DEF Ahead
    <2>5. CASE /\ ls[p[1]].price = ls[q[1]].price /\ ls[p[1]].spelling = ls[q[1]].spelling
               /\ M[j] < M[k]
      <3>1. p[1] = q[1]
        BY <2>1, <2>5, <1>6
      <3>2. IdAt(ls, p) \in Int /\ IdAt(ls, q) \in Int
        <4>1. Ids \subseteq Int
          BY BookConstants DEF Ids
        <4> QED BY <4>1, <2>1, <1>4
      <3>3. ~(q[2] < p[2])
        BY <3>1, <3>2, <2>1, <2>5, <1>6
      <3>4. p[2] # q[2]
        <4>1. p[2] = q[2] => p = q
          BY <3>1, <2>1, <1>4
        <4> QED BY <4>1, <3>2, <2>1, <2>5
      <3> QED BY <2>2, <2>3, <3>1, <3>3, <3>4 DEF Ahead
    <2> QED BY <2>3, <2>4, <2>5, <1>16 DEF SameLevel
  <1> QED BY <1>12, <1>13, <1>14, <1>15, <1>16 DEF M, ls

(* A sum with one term that is not zero is that term.                        *)
LEMMA SumOfOne ==
    ASSUME NEW D, IsFiniteSet(D), NEW f \in [D -> Int], NEW x \in D, \A y \in D \ {x} : f[y] = 0
    PROVE  SumFunctionOnSet(f, D) = f[x]
  <1> DEFINE z == [y \in D |-> 0]
  <1>1. z \in [D -> Int] /\ (\A y \in D : z[y] = 0) /\ (\A y \in D \ {x} : z[y] = f[y])
    OBVIOUS
  <1> HIDE DEF z
  <1>2. SumFunctionOnSet(z, D) = 0
    BY <1>1, SumOfZeros
  <1>3. SumFunctionOnSet(f, D) = SumFunctionOnSet(z, D) - z[x] + f[x]
    BY <1>1, SumUpdate
  <1>4. z[x] = 0 /\ f[x] \in Int
    BY <1>1
  <1> QED BY <1>2, <1>3, <1>4

(* The smaller of two integers.                                              *)
LEMMA MinOfTwo ==
    ASSUME NEW a \in Nat, NEW b \in Nat
    PROVE  Min({a, b}) = IF a <= b THEN a ELSE b
  <1> DEFINE S == {a, b}
  <1>1. S \in SUBSET Nat /\ S # {} /\ a \in S /\ b \in S /\ \A x \in S : x = a \/ x = b
    OBVIOUS
  <1> HIDE DEF S
  <1>2. Min(S) \in S /\ \A x \in S : Min(S) <= x
    BY <1>1, MinOfNats
  <1> DEFINE m == Min(S)
  <1>3. (m = a \/ m = b) /\ m <= a /\ m <= b
    BY <1>1, <1>2
  <1> HIDE DEF m
  <1>4. m = IF a <= b THEN a ELSE b
    BY <1>3
  <1> QED BY <1>4 DEF S, m

(* The first n makers take from a request what they have left, or what is  *)
(* left of it.                                                             *)
LEMMA LeftAfterFacts ==
    ASSUME NEW req, req.size \in Nat, NEW L \in Nat, NEW M,
           \A i \in 1..L : orders[M[i]].remaining \in Nat \ {0}
    PROVE  /\ LeftAfter(req, M, 0) = req.size
           /\ \A n \in 0..L : LeftAfter(req, M, n) \in 0..req.size
           /\ \A n \in 1..L :
                /\ TradeSize(LeftAfter(req, M, n - 1), M[n]) \in 0..orders[M[n]].remaining
                /\ TradeSize(LeftAfter(req, M, n - 1), M[n]) \in 0..req.size
                /\ LeftAfter(req, M, n)
                     = LeftAfter(req, M, n - 1) - TradeSize(LeftAfter(req, M, n - 1), M[n])
                /\ LeftAfter(req, M, n) > 0
                     => TradeSize(LeftAfter(req, M, n - 1), M[n]) = orders[M[n]].remaining
                /\ LeftAfter(req, M, n - 1) > 0
                     => TradeSize(LeftAfter(req, M, n - 1), M[n]) > 0
  <1> DEFINE f(n) == [i \in 1..n |-> orders[M[i]].remaining]
             offered(n) == SumFunctionOnSet(f(n), 1..n)
             left(n) == LeftAfter(req, M, n)
  <1>1. \A n \in 0..L : left(n) = IF offered(n) < req.size THEN req.size - offered(n) ELSE 0
    BY DEF LeftAfter
  <1>2. \A n \in 0..L : f(n) \in [1..n -> Nat] /\ f(n) \in [1..n -> Int] /\ n \in Nat
    OBVIOUS
  <1>3. \A n \in 0..L : offered(n) \in Nat
    <2> SUFFICES ASSUME NEW n \in 0..L PROVE offered(n) \in Nat
      OBVIOUS
    <2>1. IsFiniteSet(1..n)
      BY FS_Interval
    <2>2. f(n) \in [1..n -> Nat]
      BY <1>2
    <2> HIDE DEF f
    <2> QED BY <2>1, <2>2, SumOfNats
  <1>4. offered(0) = 0
    <2>1. IsFiniteSet(1..0)
      BY FS_Interval
    <2>2. f(0) \in [1..0 -> Int] /\ \A i \in 1..0 : f(0)[i] = 0
      OBVIOUS
    <2> HIDE DEF f
    <2> QED BY <2>1, <2>2, SumOfZeros
  <1>5. ASSUME NEW n \in 1..L
        PROVE  offered(n) = offered(n - 1) + orders[M[n]].remaining
    <2> DEFINE k == n - 1
    <2>1. k \in Nat /\ k + 1 = n /\ k \in 0..L
      OBVIOUS
    <2>2. f(n) \in [1..n -> Int] /\ f(k) \in [1..k -> Int] /\ (\A i \in 1..k : f(n)[i] = f(k)[i])
          /\ f(n)[n] = orders[M[n]].remaining
      BY <2>1
    <2> HIDE DEF f, k
    <2>3. f(n) \in [1..(k + 1) -> Int]
      BY <2>1, <2>2
    <2>4. SumFunctionOnSet(f(n), 1..(k + 1)) = SumFunctionOnSet(f(k), 1..k) + f(n)[k + 1]
      BY <2>1, <2>2, <2>3, SumOneMore
    <2> QED BY <2>1, <2>2, <2>4 DEF k
  <1> HIDE DEF offered, left, f
  <1>6. left(0) = req.size
    BY <1>1, <1>4
  <1>7. \A n \in 0..L : left(n) \in 0..req.size
    BY <1>1, <1>3
  <1>8. ASSUME NEW n \in 1..L
        PROVE  /\ TradeSize(left(n - 1), M[n]) \in 0..orders[M[n]].remaining
               /\ TradeSize(left(n - 1), M[n]) \in 0..req.size
               /\ left(n) = left(n - 1) - TradeSize(left(n - 1), M[n])
               /\ left(n) > 0 => TradeSize(left(n - 1), M[n]) = orders[M[n]].remaining
               /\ left(n - 1) > 0 => TradeSize(left(n - 1), M[n]) > 0
    <2> DEFINE l == left(n - 1)
               r == orders[M[n]].remaining
               o == offered(n - 1)
               s == TradeSize(l, M[n])
    <2>1. n - 1 \in 0..L /\ n \in 0..L
      OBVIOUS
    <2>2. l \in 0..req.size /\ r \in Nat \ {0} /\ o \in Nat
      BY <2>1, <1>3, <1>7
    <2>3. l = IF o < req.size THEN req.size - o ELSE 0
      BY <2>1, <1>1
    <2>4. left(n) = IF o + r < req.size THEN req.size - (o + r) ELSE 0
      BY <2>1, <1>1, <1>5
    <2> HIDE DEF l, r, o
    <2>5. s = IF l <= r THEN l ELSE r
      <3>1. l \in Nat
        BY <2>2
      <3>2. s = Min({l, r})
        BY DEF TradeSize, r
      <3> QED BY <3>1, <3>2, <2>2, MinOfTwo
    <2> HIDE DEF s
    <2>6. /\ s \in 0..r /\ s \in 0..req.size /\ left(n) = l - s
          /\ (left(n) > 0 => s = r) /\ (l > 0 => s > 0)
      BY <2>2, <2>3, <2>4, <2>5
    <2> QED BY <2>6 DEF s, l, r
  <1> QED BY <1>6, <1>7, <1>8 DEF left

(* The sizes of the first n trades are what the request has lost by then.    *)
LEMMA TradesAddUp ==
    ASSUME NEW req, req.size \in Nat, NEW L \in Nat, NEW M,
           \A i \in 1..L : orders[M[i]].remaining \in Nat \ {0}, NEW n \in 0..L
    PROVE  SumFunctionOnSet([i \in 1..n |-> TradeSize(LeftAfter(req, M, i - 1), M[i])], 1..n)
             = req.size - LeftAfter(req, M, n)
  <1> DEFINE left(k) == LeftAfter(req, M, k)
             size(k) == TradeSize(left(k - 1), M[k])
             f(k) == [i \in 1..k |-> size(i)]
             G == {k \in Nat : k <= L => SumFunctionOnSet(f(k), 1..k) = req.size - left(k)}
  <1>1. /\ left(0) = req.size
        /\ \A k \in 0..L : left(k) \in 0..req.size
        /\ \A k \in 1..L : size(k) \in 0..req.size /\ left(k) = left(k - 1) - size(k)
    <2>1. LeftAfter(req, M, 0) = req.size
      BY LeftAfterFacts
    <2>2. \A k \in 0..L : LeftAfter(req, M, k) \in 0..req.size
      BY LeftAfterFacts
    <2>3. \A k \in 1..L :
            /\ TradeSize(LeftAfter(req, M, k - 1), M[k]) \in 0..req.size
            /\ LeftAfter(req, M, k)
                 = LeftAfter(req, M, k - 1) - TradeSize(LeftAfter(req, M, k - 1), M[k])
      BY LeftAfterFacts
    <2> QED BY <2>1, <2>2, <2>3
  <1> HIDE DEF left, size
  <1>2. 0 \in G
    <2>1. IsFiniteSet(1..0)
      BY FS_Interval
    <2>2. f(0) \in [1..0 -> Int] /\ \A i \in 1..0 : f(0)[i] = 0
      OBVIOUS
    <2> HIDE DEF f
    <2>3. SumFunctionOnSet(f(0), 1..0) = 0
      BY <2>1, <2>2, SumOfZeros
    <2> QED BY <2>3, <1>1
  <1>3. ASSUME NEW k \in Nat, k \in G PROVE k + 1 \in G
    <2> SUFFICES ASSUME k + 1 <= L
                 PROVE  SumFunctionOnSet(f(k + 1), 1..(k + 1)) = req.size - left(k + 1)
      OBVIOUS
    <2>1. SumFunctionOnSet(f(k), 1..k) = req.size - left(k)
      BY <1>3
    <2>2. /\ f(k + 1) \in [1..(k + 1) -> Int] /\ f(k) \in [1..k -> Int]
          /\ (\A i \in 1..k : f(k + 1)[i] = f(k)[i]) /\ f(k + 1)[k + 1] = size(k + 1)
      BY <1>1
    <2>3. left(k + 1) = left(k) - size(k + 1) /\ left(k) \in 0..req.size /\ size(k + 1) \in 0..req.size
      <3>1. k + 1 \in 1..L /\ k \in 0..L /\ (k + 1) - 1 = k
        OBVIOUS
      <3> QED BY <3>1, <1>1
    <2> HIDE DEF f
    <2>4. SumFunctionOnSet(f(k + 1), 1..(k + 1)) = SumFunctionOnSet(f(k), 1..k) + f(k + 1)[k + 1]
      BY <2>2, SumOneMore
    <2> QED BY <2>1, <2>2, <2>3, <2>4
  <1>4. n \in G
    <2> HIDE DEF G
    <2> QED BY <1>2, <1>3, NatSetInduction
  <1> QED BY <1>4 DEF left, size

(* What every request has.                                                   *)
LEMMA RequestFacts ==
    ASSUME NEW req \in Requests
    PROVE  /\ req.user \in Users /\ req.side \in Sides /\ req.price \in Prices /\ req.size \in Sizes
           /\ req.kind \in {"gtc", "post_only", "ioc", "market"}
           /\ req.spelling \in Spellings \cup {""}
           /\ req.kind \notin {"ioc", "market"} => req.spelling \in Spellings
  <1> DEFINE MO == {MarketOrder(u, side, size) : u \in Users, side \in Sides, size \in Sizes}
  <1>1. CASE req \in Resting
    BY <1>1 DEF Resting
  <1>2. CASE req \in Immediate
    BY <1>2 DEF Immediate
  <1>3. CASE req \in MO
    <2>1. PICK u \in Users, side \in Sides, size \in Sizes : req = MarketOrder(u, side, size)
      BY <1>3
    <2>2. MarketBid \in Prices /\ 1 \in Prices
      BY BookConstants DEF Prices
    <2> QED BY <2>1, <2>2 DEF MarketOrder
  <1>4. Requests = Resting \cup Immediate \cup MO
    BY DEF Requests
  <1>5. req \in Resting \/ req \in Immediate \/ req \in MO
    <2> HIDE DEF MO
    <2> QED BY <1>4
  <1> HIDE DEF MO
  <1> QED BY <1>1, <1>2, <1>3, <1>5

(* What every order has.                                                     *)
LEMMA OrdersFacts ==
    ASSUME orders \in Seq(Order), Len(orders) <= MaxOrders
    PROVE  /\ Len(orders) \in Nat /\ DOMAIN orders = 1..Len(orders)
           /\ DOMAIN orders \subseteq Ids
           /\ \A id \in DOMAIN orders :
                /\ id \in Ids /\ id \in Nat
                /\ orders[id] \in Order
                /\ orders[id].user \in Users /\ orders[id].side \in Sides
                /\ orders[id].price \in Prices
                /\ orders[id].size \in Sizes /\ orders[id].size \in Nat
                /\ orders[id].remaining \in 0..MaxSize
                /\ orders[id].remaining \in Nat
           /\ IsBook(orders)
  <1>1. Len(orders) \in Nat /\ DOMAIN orders = 1..Len(orders) /\ \A id \in DOMAIN orders : orders[id] \in Order
    BY LenProperties
  <1>2. DOMAIN orders \subseteq Ids
    BY <1>1, BookConstants DEF Ids
  <1>3. Sizes \subseteq Nat /\ 0..MaxSize \subseteq Nat
    BY BookConstants DEF Sizes
  <1>5. \A id \in DOMAIN orders : id \in Nat
    BY <1>1
  <1>4. ASSUME NEW id \in DOMAIN orders
        PROVE /\ orders[id].user \in Users /\ orders[id].side \in Sides
              /\ orders[id].price \in Prices /\ orders[id].size \in Sizes
              /\ orders[id].remaining \in 0..MaxSize
    BY <1>1 DEF Order
  <1> QED BY <1>1, <1>2, <1>3, <1>4, <1>5 DEF IsBook

(* The orders a request may trade with. *)
Meets(req, id) ==
    /\ OnSide(id, levels[Opposite(req.side)])
    /\ orders[id].user # req.user
    /\ Crosses(req.side, req.price, orders[id].price)

(* Maker priority: the same level and older or, in an ordered side, a better *)
(* price.                                                                  *)
Before(side, id, maker) ==
    \/ Ordered(side, levels[side]) /\ Better(side, orders[id].price, orders[maker].price)
    \/ SameLevel(id, maker) /\ id < maker

(* A request with a price meets an ordered side. *)
Comparable(req) == req.price # NaN /\ Ordered(Opposite(req.side), levels[Opposite(req.side)])

(* What the matching of a request guarantees: it trades with orders it may  *)
(* trade with, at their price; what it has left and what it took are its   *)
(* size; it takes from each order at most what that has left; it takes the *)
(* whole of each order that comes before one it trades with and, if prices *)
(* can be compared and it has something left, of each it may trade with.   *)
MatchSound(req, m) ==
    /\ m.left \in 0..req.size
    /\ m.trades \in Seq(BookTrade)
    /\ \A i \in DOMAIN m.trades :
          /\ m.trades[i].taker = Len(orders) + 1
          /\ Meets(req, m.trades[i].maker)
          /\ m.trades[i].price = orders[m.trades[i].maker].price
    /\ TakenFrom(Len(orders) + 1, m.trades) = req.size - m.left
    /\ \A id \in DOMAIN orders :
          /\ TakenFrom(id, m.trades) \in 0..orders[id].remaining
          /\ (\A i \in DOMAIN m.trades : m.trades[i].maker # id) => TakenFrom(id, m.trades) = 0
    /\ \A id : Meets(req, id) =>
          /\ Comparable(req) /\ m.left > 0 => TakenFrom(id, m.trades) = orders[id].remaining
          /\ \A i \in DOMAIN m.trades :
               Before(Opposite(req.side), id, m.trades[i].maker)
                 => TakenFrom(id, m.trades) = orders[id].remaining

(* The orders on a side of the book. *)
LEMMA OnSideFacts ==
    ASSUME NEW side, NEW ls, NEW b, SideHolds(side, ls, b), NEW id, OnSide(id, ls)
    PROVE  /\ id \in DOMAIN b /\ b[id].side = side /\ b[id].remaining > 0
           /\ id \in Ids /\ b[id].price \in Prices
  <1>1. PICK i \in DOMAIN ls : id \in ToSet(ls[i].ids)
    BY DEF OnSide
  <1>2. ls \in Seq(Level) /\ LevelHolds(ls[i], side, b)
    BY DEF SideHolds
  <1>3. ls[i] \in Level
    BY <1>2, LenProperties
  <1>4. ls[i].ids \in Seq(Ids) /\ ls[i].price \in Prices
    BY <1>3 DEF Level
  <1>5. id \in Ids
    BY <1>1, <1>4, ToSetIds
  <1> QED BY <1>1, <1>2, <1>4, <1>5 DEF LevelHolds

(* What trades take from an order none of them has. *)
LEMMA TakenNothing ==
    ASSUME NEW T, NEW ts \in Seq(T), NEW id,
           \A i \in DOMAIN ts : ts[i].maker # id /\ ts[i].taker # id
    PROVE  TakenFrom(id, ts) = 0
  <1> DEFINE D == DOMAIN ts
             f == [i \in D |-> IF ts[i].maker = id \/ ts[i].taker = id THEN ts[i].size ELSE 0]
  <1>1. IsFiniteSet(D)
    <2>1. D = 1..Len(ts) /\ Len(ts) \in Nat
      BY LenProperties
    <2> HIDE DEF D
    <2> QED BY <2>1, FS_Interval
  <1>2. f \in [D -> Int] /\ \A i \in D : f[i] = 0
    OBVIOUS
  <1>3. SumFunctionOnSet(f, D) = 0
    <2> HIDE DEF f, D
    <2> QED BY <1>1, <1>2, SumOfZeros
  <1> QED BY <1>3 DEF TakenFrom

(* What trades take from an order that one of them has. *)
LEMMA TakenOnce ==
    ASSUME NEW T, NEW ts \in Seq(T), NEW id, NEW k \in DOMAIN ts, ts[k].maker = id,
           ts[k].size \in Int,
           \A i \in DOMAIN ts : (i # k => ts[i].maker # id) /\ ts[i].taker # id
    PROVE  TakenFrom(id, ts) = ts[k].size
  <1> DEFINE D == DOMAIN ts
             f == [i \in D |-> IF ts[i].maker = id \/ ts[i].taker = id THEN ts[i].size ELSE 0]
  <1>1. IsFiniteSet(D)
    <2>1. D = 1..Len(ts) /\ Len(ts) \in Nat
      BY LenProperties
    <2> HIDE DEF D, f
    <2>2. IsFiniteSet(1..Len(ts))
      BY <2>1, FS_Interval
    <2> QED BY <2>1, <2>2
  <1>2. f \in [D -> Int] /\ k \in D /\ f[k] = ts[k].size /\ \A i \in D \ {k} : f[i] = 0
    OBVIOUS
  <1>3. SumFunctionOnSet(f, D) = f[k]
    <2> HIDE DEF f, D
    <2> QED BY <1>1, <1>2, SumOfOne
  <1>4. TakenFrom(id, ts) = SumFunctionOnSet(f, D)
    BY DEF TakenFrom
  <1> QED BY <1>2, <1>3, <1>4

(* A PostOnly order that crosses nothing meets no maker, if prices can be   *)
(* compared.                                                               *)
LEMMA NothingIsSound ==
    ASSUME orders \in Seq(Order), Len(orders) <= MaxOrders, NEW req \in Requests, ~WouldCross(req),
           SideHolds(Opposite(req.side), levels[Opposite(req.side)], orders)
    PROVE  MatchSound(req, Nothing(req))
  <1> DEFINE side == Opposite(req.side)
             ls == levels[side]
  <1>1. req.side \in Sides /\ req.price \in Prices /\ req.size \in Nat \ {0}
    <2>1. req.side \in Sides /\ req.price \in Prices /\ req.size \in Sizes
      BY RequestFacts
    <2> QED BY <2>1, BookConstants DEF Sizes
  <1>2. ls \in Seq(Level) /\ SideHolds(side, ls, orders)
    BY DEF SideHolds
  <1>3. Len(ls) \in Nat /\ DOMAIN ls = 1..Len(ls) /\ \A i \in DOMAIN ls : ls[i] \in Level /\ ls[i].price \in Prices
    <2>1. Len(ls) \in Nat /\ DOMAIN ls = 1..Len(ls) /\ \A i \in DOMAIN ls : ls[i] \in Level
      BY <1>2, LenProperties
    <2> QED BY <2>1 DEF Level
  <1>4. ASSUME NEW id, Meets(req, id), Comparable(req) PROVE FALSE
    <2>9. req.price # NaN /\ Ordered(side, ls)
      BY <1>4 DEF Comparable
    <2>1. OnSide(id, ls) /\ Crosses(req.side, req.price, orders[id].price)
      BY <1>4 DEF Meets
    <2>2. PICK i \in DOMAIN ls : id \in ToSet(ls[i].ids)
      BY <2>1 DEF OnSide
    <2>3. orders[id].price = ls[i].price
      BY <1>2, <2>2 DEF SideHolds, LevelHolds
    <2>4. ls # <<>> /\ Head(ls) = ls[1] /\ 1 \in DOMAIN ls
      <3>1. i \in 1..Len(ls)
        BY <1>3
      <3>2. ls # <<>>
        <4>1. Len(<<>>) = 0
          OBVIOUS
        <4> QED BY <3>1, <4>1, <1>3
      <3> QED BY <3>1, <3>2, <1>2, <1>3, HeadTailProperties
    <2>5. ls[1].price # NaN /\ ls[i].price # NaN
      BY <2>4, <2>9 DEF Ordered
    <2>6. ~Crosses(req.side, req.price, ls[1].price)
      BY <2>4, <2>5, <2>9 DEF WouldCross
    <2>7. i = 1 \/ ~Better(side, ls[i].price, ls[1].price)
      <3>1. i = 1 \/ 1 < i
        BY <1>3
      <3> QED BY <3>1, <2>4, <2>9 DEF Ordered
    <2>8. Crosses(req.side, req.price, ls[i].price)
      BY <2>1, <2>3
    <2> DEFINE q == ls[1].price
               r == ls[i].price
    <2>10. q \in Prices /\ r \in Prices /\ q # NaN /\ r # NaN /\ Crosses(req.side, req.price, r)
           /\ (q = r \/ ~Better(side, r, q)) /\ ~Crosses(req.side, req.price, q)
      BY <1>3, <2>4, <2>5, <2>6, <2>7, <2>8
    <2> HIDE DEF q, r
    <2> QED BY <2>10, <1>1, CrossesBetter
  <1>5. <<>> \in Seq(BookTrade) /\ DOMAIN <<>> = {}
    OBVIOUS
  <1>6. \A id : TakenFrom(id, <<>>) = 0
    BY <1>5, TakenNothing
  <1>7. \A id \in DOMAIN orders : orders[id].remaining \in Nat
    BY OrdersFacts
  <1>8. req.size - req.size = 0 /\ req.size \in 0..req.size /\ \A id \in DOMAIN orders : 0 \in 0..orders[id].remaining
    BY <1>1, <1>7
  <1> DEFINE m == Nothing(req)
  <1>9. m.left = req.size /\ m.trades = <<>>
    BY DEF Nothing
  <1> HIDE DEF m
  <1>10. MatchSound(req, m)
    BY <1>4, <1>5, <1>6, <1>8, <1>9 DEF MatchSound
  <1> QED BY <1>10 DEF m

(* The matching of a request in terms of its makers. *)
LEMMA MatchingIs ==
    ASSUME NEW req, req.size \in Nat, Len(orders) \in Nat, NEW L \in Nat, Len(Makers(req)) = L,
           \A i \in 1..L : orders[Makers(req)[i]].remaining \in Nat \ {0}
    PROVE  \E met \in 0..L :
              /\ Matching(req).left = LeftAfter(req, Makers(req), met)
              /\ DOMAIN Matching(req).trades = 1..met
              /\ \A n \in 1..met :
                    Matching(req).trades[n] =
                      [maker |-> Makers(req)[n], taker |-> Len(orders) + 1,
                       price |-> orders[Makers(req)[n]].price,
                       size |-> TradeSize(LeftAfter(req, Makers(req), n - 1), Makers(req)[n])]
              /\ Matching(req).trades = [n \in 1..met |-> Matching(req).trades[n]]
              /\ met = L \/ LeftAfter(req, Makers(req), met) = 0
              /\ \A n \in 0..L : n < met => LeftAfter(req, Makers(req), n) > 0
  <1> DEFINE M == Makers(req)
             left(n) == LeftAfter(req, M, n)
             K == {n \in 0..Len(M) : n = Len(M) \/ left(n) = 0}
             met == Min(K)
             trade(n) == [maker |-> M[n], taker |-> Len(orders) + 1,
                          price |-> orders[M[n]].price,
                          size |-> TradeSize(left(n - 1), M[n])]
  <1>1. Matching(req) = [left |-> left(met), trades |-> [n \in 1..met |-> trade(n)]]
    BY DEF Matching
  <1>2. Len(M) = L
    OBVIOUS
  <1>3. \A n \in 0..L : left(n) \in Nat
    <2>1. \A i \in 1..L : orders[M[i]].remaining \in Nat \ {0}
      OBVIOUS
    <2>2. \A n \in 0..L : LeftAfter(req, M, n) \in 0..req.size
      <3> HIDE DEF M
      <3> QED BY <2>1, LeftAfterFacts
    <2> QED BY <2>2
  <1> HIDE DEF M, left
  <1>4. K \in SUBSET Nat /\ K # {}
    <2>1. L \in K
      BY <1>2
    <2>2. \A n \in K : n \in 0..L
      BY <1>2
    <2> HIDE DEF K
    <2> QED BY <2>1, <2>2
  <1>5. met \in K /\ \A x \in K : met <= x
    <2> HIDE DEF K
    <2> QED BY <1>4, MinOfNats
  <1>6. met \in 0..L /\ (met = L \/ left(met) = 0)
    <2> HIDE DEF met
    <2> QED BY <1>2, <1>5
  <1>7. \A n \in 0..L : n < met => left(n) > 0
    <2> SUFFICES ASSUME NEW n \in 0..L, n < met, ~(left(n) > 0) PROVE FALSE
      OBVIOUS
    <2>1. left(n) = 0
      BY <1>3
    <2>2. n \in K
      BY <2>1, <1>2
    <2> HIDE DEF K, met
    <2>3. met <= n /\ met \in Int
      BY <2>2, <1>5, <1>6
    <2> QED BY <2>3
  <1> HIDE DEF met, trade
  <1>8. /\ Matching(req).left = left(met)
        /\ Matching(req).trades = [n \in 1..met |-> trade(n)]
    BY <1>1
  <1>9. /\ DOMAIN Matching(req).trades = 1..met
        /\ \A n \in 1..met : Matching(req).trades[n] = trade(n)
        /\ Matching(req).trades = [n \in 1..met |-> Matching(req).trades[n]]
    BY <1>8
  <1> QED BY <1>6, <1>7, <1>8, <1>9 DEF M, left, trade

(* matchOrder keeps all the promises of MatchSound.                          *)
LEMMA MatchingIsSound ==
    ASSUME orders \in Seq(Order), Len(orders) < MaxOrders, NEW req \in Requests,
           SideHolds(Opposite(req.side), levels[Opposite(req.side)], orders)
    PROVE  MatchSound(req, Matching(req))
  <1> DEFINE side == Opposite(req.side)
             ls == levels[side]
             M == Makers(req)
             L == Len(M)
             left(n) == LeftAfter(req, M, n)
             size(n) == TradeSize(left(n - 1), M[n])
             m == Matching(req)
             id0 == Len(orders) + 1
  <1>1. req.side \in Sides /\ req.price \in Prices /\ req.size \in Nat \ {0} /\ req.size \in Sizes
    <2>1. req.side \in Sides /\ req.price \in Prices /\ req.size \in Sizes
      BY RequestFacts
    <2> QED BY <2>1, BookConstants DEF Sizes
  <1>2. /\ Len(orders) \in Nat /\ DOMAIN orders = 1..Len(orders)
        /\ \A id \in DOMAIN orders : /\ id \in Nat /\ id \in Ids
                                     /\ orders[id].price \in Prices
                                     /\ orders[id].remaining \in Nat
    <2>1. Len(orders) <= MaxOrders
      <3>1. Len(orders) \in Nat
        BY LenProperties
      <3> QED BY <3>1, BookConstants
    <2> QED BY <2>1, OrdersFacts
  <1>3. \A id : OnSide(id, ls) => id \in DOMAIN orders /\ orders[id].remaining > 0 /\ id \in Ids
    BY OnSideFacts
  <1>4. /\ M \in Seq(Ids)
        /\ \A k \in DOMAIN M : Meets(req, M[k])
        /\ \A id : Meets(req, id) /\ (Ordered(side, ls) \/ \E k \in DOMAIN M : SameLevel(id, M[k]))
                     => \E k \in DOMAIN M : M[k] = id
        /\ \A j, k \in DOMAIN M :
              /\ M[j] = M[k] => j = k
              /\ Before(side, M[j], M[k]) => j < k
    BY <1>1, MakersFacts DEF Meets, Before
  <1>5. L \in Nat /\ DOMAIN M = 1..L
    BY <1>4, LenProperties
  <1> HIDE DEF M, L
  <1>6. \A k \in 1..L : M[k] \in DOMAIN orders /\ orders[M[k]].remaining \in Nat \ {0} /\ M[k] \in Ids
    <2> SUFFICES ASSUME NEW k \in 1..L
                 PROVE  M[k] \in DOMAIN orders /\ orders[M[k]].remaining \in Nat \ {0} /\ M[k] \in Ids
      OBVIOUS
    <2>1. OnSide(M[k], ls)
      BY <1>4, <1>5 DEF Meets
    <2>2. M[k] \in DOMAIN orders /\ orders[M[k]].remaining > 0
      BY <2>1, <1>3
    <2> QED BY <2>2, <1>2
  <1>7. PICK met \in 0..L :
              /\ m.left = left(met)
              /\ DOMAIN m.trades = 1..met
              /\ \A n \in 1..met :
                    m.trades[n] = [maker |-> M[n], taker |-> id0,
                                   price |-> orders[M[n]].price, size |-> size(n)]
              /\ m.trades = [n \in 1..met |-> m.trades[n]]
              /\ met = L \/ left(met) = 0
              /\ \A n \in 0..L : n < met => left(n) > 0
    <2>1. \A i \in 1..L : orders[M[i]].remaining \in Nat \ {0}
      BY <1>6
    <2> HIDE DEF m
    <2> QED BY <2>1, <1>1, <1>2, <1>5, MatchingIs DEF M, L, m
  <1>8. /\ \A n \in 0..L : left(n) \in 0..req.size
        /\ \A n \in 1..L :
              /\ size(n) \in 0..orders[M[n]].remaining
              /\ size(n) \in 0..req.size
              /\ left(n) > 0 => size(n) = orders[M[n]].remaining
              /\ left(n - 1) > 0 => size(n) > 0
    <2>1. \A i \in 1..L : orders[M[i]].remaining \in Nat \ {0}
      BY <1>6
    <2>2. req.size \in Nat
      BY <1>1
    <2>3. /\ LeftAfter(req, M, 0) = req.size
          /\ \A n \in 0..L : LeftAfter(req, M, n) \in 0..req.size
          /\ \A n \in 1..L :
                /\ TradeSize(LeftAfter(req, M, n - 1), M[n]) \in 0..orders[M[n]].remaining
                /\ TradeSize(LeftAfter(req, M, n - 1), M[n]) \in 0..req.size
                /\ LeftAfter(req, M, n)
                     = LeftAfter(req, M, n - 1) - TradeSize(LeftAfter(req, M, n - 1), M[n])
                /\ LeftAfter(req, M, n) > 0
                     => TradeSize(LeftAfter(req, M, n - 1), M[n]) = orders[M[n]].remaining
                /\ LeftAfter(req, M, n - 1) > 0
                     => TradeSize(LeftAfter(req, M, n - 1), M[n]) > 0
      <3> HIDE DEF left, size
      <3> QED BY <2>1, <2>2, <1>5, LeftAfterFacts
    <2> QED BY <2>3
  <1>9. SumFunctionOnSet([i \in 1..met |-> size(i)], 1..met) = req.size - left(met)
    <2>1. \A i \in 1..L : orders[M[i]].remaining \in Nat \ {0}
      BY <1>6
    <2> QED BY <2>1, <1>1, <1>5, TradesAddUp
  <1> HIDE DEF m, left, size, id0
  <1>10. \A n \in 1..met : n \in 1..L /\ n - 1 \in 0..L /\ n - 1 < met
    BY <1>5
  <1>11. \A n \in 1..met : size(n) \in 1..req.size /\ size(n) \in Sizes
    <2> SUFFICES ASSUME NEW n \in 1..met PROVE size(n) \in 1..req.size /\ size(n) \in Sizes
      OBVIOUS
    <2>1. left(n - 1) > 0
      BY <1>7, <1>10
    <2>2. size(n) \in 0..req.size /\ size(n) > 0
      BY <2>1, <1>8, <1>10
    <2> QED BY <2>2, <1>1, BookConstants DEF Sizes
  <1>12. m.trades \in Seq(BookTrade)
    <2>1. id0 \in Ids
      BY <1>2, BookConstants DEF id0, Ids
    <2>2. ASSUME NEW n \in 1..met PROVE m.trades[n] \in BookTrade
      <3>1. M[n] \in Ids /\ orders[M[n]].price \in Prices /\ size(n) \in Sizes
        BY <1>2, <1>6, <1>10, <1>11
      <3>2. m.trades[n] = [maker |-> M[n], taker |-> id0,
                           price |-> orders[M[n]].price, size |-> size(n)]
        BY <1>7
      <3> QED BY <2>1, <3>1, <3>2 DEF BookTrade
    <2>3. m.trades \in [1..met -> BookTrade]
      BY <1>7, <2>2
    <2> QED BY <2>3, <1>5, FunIsSeq
  <1>13. \A n \in DOMAIN m.trades :
            /\ m.trades[n].maker = M[n] /\ m.trades[n].taker = id0
            /\ m.trades[n].price = orders[M[n]].price /\ m.trades[n].size = size(n)
            /\ n \in 1..met
    <2> SUFFICES ASSUME NEW n \in DOMAIN m.trades
                 PROVE  /\ m.trades[n].maker = M[n] /\ m.trades[n].taker = id0
                        /\ m.trades[n].price = orders[M[n]].price /\ m.trades[n].size = size(n)
                        /\ n \in 1..met
      OBVIOUS
    <2>1. n \in 1..met
      BY <1>7
    <2>2. m.trades[n] = [maker |-> M[n], taker |-> id0, price |-> orders[M[n]].price, size |-> size(n)]
      BY <2>1, <1>7
    <2> QED BY <2>1, <2>2
  <1>14. TakenFrom(id0, m.trades) = req.size - m.left
    <2> DEFINE f == [i \in DOMAIN m.trades |->
                       IF m.trades[i].maker = id0 \/ m.trades[i].taker = id0
                       THEN m.trades[i].size ELSE 0]
    <2>1. TakenFrom(id0, m.trades) = SumFunctionOnSet(f, DOMAIN m.trades)
      BY DEF TakenFrom
    <2>2. f = [i \in 1..met |-> size(i)]
      BY <1>7, <1>13
    <2> HIDE DEF f
    <2> QED BY <2>1, <2>2, <1>7, <1>9
  <1>15. id0 \notin DOMAIN orders
    BY <1>2 DEF id0
  <1>16. ASSUME NEW n \in 1..met PROVE TakenFrom(M[n], m.trades) = size(n)
    <2>1. M[n] # id0
      BY <1>6, <1>10, <1>15
    <2>2. \A i \in DOMAIN m.trades : (i # n => m.trades[i].maker # M[n]) /\ m.trades[i].taker # M[n]
      BY <2>1, <1>4, <1>5, <1>10, <1>13
    <2>3. n \in DOMAIN m.trades /\ m.trades[n].maker = M[n] /\ m.trades[n].size = size(n)
      BY <1>7, <1>13
    <2>4. m.trades[n].size \in Int
      BY <2>3, <1>1, <1>11
    <2>5. TakenFrom(M[n], m.trades) = m.trades[n].size
      BY <2>2, <2>3, <2>4, <1>12, TakenOnce
    <2> QED BY <2>3, <2>5
  <1>17. ASSUME NEW id \in DOMAIN orders
         PROVE  /\ TakenFrom(id, m.trades) \in 0..orders[id].remaining
                /\ (\A i \in DOMAIN m.trades : m.trades[i].maker # id) => TakenFrom(id, m.trades) = 0
    <2>1. CASE \A i \in DOMAIN m.trades : m.trades[i].maker # id
      <3>1. \A i \in DOMAIN m.trades : m.trades[i].taker # id
        BY <1>13, <1>15
      <3>2. TakenFrom(id, m.trades) = 0
        BY <2>1, <3>1, <1>12, TakenNothing
      <3> QED BY <3>2, <1>2
    <2>2. CASE \E i \in DOMAIN m.trades : m.trades[i].maker = id
      <3>1. PICK n \in DOMAIN m.trades : m.trades[n].maker = id
        BY <2>2
      <3>2. n \in 1..met /\ M[n] = id
        BY <3>1, <1>13
      <3>3. TakenFrom(id, m.trades) = size(n)
        BY <3>2, <1>16
      <3>4. size(n) \in 0..orders[id].remaining
        BY <3>2, <1>8, <1>10
      <3> QED BY <2>2, <3>3, <3>4
    <2> QED BY <2>1, <2>2
  <1>18. ASSUME NEW id, Meets(req, id), Comparable(req), m.left > 0
         PROVE  TakenFrom(id, m.trades) = orders[id].remaining
    <2>1. PICK k \in DOMAIN M : M[k] = id
      BY <1>4, <1>18 DEF Comparable
    <2>2. met = L /\ left(met) > 0
      BY <1>7, <1>8, <1>18
    <2>3. k \in 1..met /\ k \in 1..L /\ (k < met \/ k = met) /\ k \in 0..L
      BY <2>1, <2>2, <1>5
    <2>4. left(k) > 0
      BY <2>2, <2>3, <1>7
    <2>5. size(k) = orders[id].remaining
      BY <2>1, <2>3, <2>4, <1>8
    <2> QED BY <2>1, <2>3, <2>5, <1>16
  <1>19. ASSUME NEW id, Meets(req, id), NEW i \in DOMAIN m.trades, Before(side, id, m.trades[i].maker)
         PROVE  TakenFrom(id, m.trades) = orders[id].remaining
    <2>2. i \in 1..met /\ i \in DOMAIN M /\ m.trades[i].maker = M[i]
      BY <1>5, <1>10, <1>13
    <2>1. PICK k \in DOMAIN M : M[k] = id
      <3>1. Ordered(side, ls) \/ SameLevel(id, M[i])
        BY <2>2, <1>19 DEF Before
      <3> QED BY <3>1, <2>2, <1>4, <1>19
    <2>3. k < i
      BY <2>1, <2>2, <1>4, <1>19
    <2>4. k \in 1..met /\ k < met /\ k \in 0..L /\ k \in 1..L
      BY <2>2, <2>3, <1>5
    <2>5. left(k) > 0
      BY <2>4, <1>7
    <2>6. size(k) = orders[id].remaining
      BY <2>1, <2>4, <2>5, <1>8
    <2> QED BY <2>1, <2>4, <2>6, <1>16
  <1>20. m.left \in 0..req.size
    BY <1>7, <1>8
  <1>21. \A i \in DOMAIN m.trades :
            /\ m.trades[i].taker = id0
            /\ Meets(req, m.trades[i].maker)
            /\ m.trades[i].price = orders[m.trades[i].maker].price
    BY <1>4, <1>5, <1>10, <1>13
  <1>22. MatchSound(req, m)
    BY <1>12, <1>14, <1>17, <1>18, <1>19, <1>20, <1>21 DEF MatchSound, id0
  <1> QED BY <1>22 DEF m

(* The inductive invariant of the book: its structures agree, fills add up.  *)
BookInv ==
    /\ orders \in Seq(Order) /\ Len(orders) <= MaxOrders
    /\ ordersById \subseteq DOMAIN orders
    /\ ordersByUser \in [Users -> SUBSET Ids]
    /\ \A u \in Users : ordersByUser[u] = {id \in ordersById : orders[id].user = u}
    /\ \A id \in ordersById : orders[id].remaining > 0
                              /\ orders[id].status \in {"new", "partially_filled"}
    /\ levels \in [Sides -> Seq(Level)]
    /\ \A side \in Sides :
          /\ SideHolds(side, levels[side], orders)
          /\ \A id \in Ids : OnSide(id, levels[side]) <=> id \in ordersById /\ orders[id].side = side
    /\ PricedBook => \A side \in Sides : Ordered(side, levels[side])
    /\ trades \in Seq(BookTrade)
    /\ \A i \in DOMAIN trades : trades[i].maker \in DOMAIN orders /\ trades[i].taker \in DOMAIN orders
    /\ FillsAddUp
    /\ CrossedOnlyBySelf

(* The book after a step, and what its open orders were before it. *)
LEMMA TakenFromBoth ==
    ASSUME NEW T, NEW s \in Seq(T), NEW t \in Seq(T), NEW id, \A x \in T : x.size \in Int
    PROVE  /\ TakenFrom(id, s \o t) = TakenFrom(id, s) + TakenFrom(id, t)
           /\ TakenFrom(id, s) \in Int /\ TakenFrom(id, t) \in Int
  <1> DEFINE a == Len(s)
             b == Len(t)
             part(x) == IF x.maker = id \/ x.taker = id THEN x.size ELSE 0
             u == s \o t
             f == [i \in 1..(a + b) |-> part(u[i])]
             g == [i \in 1..a |-> part(s[i])]
             h == [i \in 1..b |-> part(t[i])]
  <1>1. /\ a \in Nat /\ DOMAIN s = 1..a /\ (\A i \in 1..a : s[i] \in T)
        /\ b \in Nat /\ DOMAIN t = 1..b /\ (\A i \in 1..b : t[i] \in T)
    BY LenProperties
  <1>2. /\ u \in Seq(T) /\ Len(u) = a + b
        /\ \A i \in 1..(a + b) : u[i] = IF i <= a THEN s[i] ELSE t[i - a]
    BY ConcatProperties
  <1> HIDE DEF u
  <1>3. DOMAIN u = 1..(a + b) /\ \A i \in 1..(a + b) : u[i] \in T
    BY <1>2, LenProperties
  <1>4. \A x \in T : part(x) \in Int
    OBVIOUS
  <1>5. /\ TakenFrom(id, u) = SumFunctionOnSet(f, 1..(a + b))
        /\ TakenFrom(id, s) = SumFunctionOnSet(g, 1..a)
        /\ TakenFrom(id, t) = SumFunctionOnSet(h, 1..b)
    BY <1>1, <1>3 DEF TakenFrom
  <1> HIDE DEF part, a, b
  <1>6. f \in [1..(a + b) -> Int] /\ g \in [1..a -> Int] /\ h \in [1..b -> Int]
    BY <1>1, <1>3, <1>4
  <1>7. \A i \in 1..a : f[i] = g[i]
    <2> SUFFICES ASSUME NEW i \in 1..a PROVE f[i] = g[i]
      OBVIOUS
    <2>1. i \in 1..(a + b) /\ i <= a
      BY <1>1
    <2> QED BY <2>1, <1>2
  <1>8. \A i \in 1..b : f[a + i] = h[i]
    <2> SUFFICES ASSUME NEW i \in 1..b PROVE f[a + i] = h[i]
      OBVIOUS
    <2>1. a + i \in 1..(a + b) /\ ~(a + i <= a) /\ (a + i) - a = i
      BY <1>1
    <2>2. u[a + i] = t[i]
      BY <2>1, <1>2
    <2> QED BY <2>1, <2>2
  <1> HIDE DEF f, g, h
  <1>9. SumFunctionOnSet(f, 1..(a + b)) = SumFunctionOnSet(g, 1..a) + SumFunctionOnSet(h, 1..b)
    <2>1. a \in Nat /\ b \in Nat
      BY <1>1
    <2>2. Joins(f, g, h, a, b)
      BY <1>6, <1>7, <1>8 DEF Joins
    <2> QED BY <2>1, <2>2, SumConcat
  <1>10. SumFunctionOnSet(g, 1..a) \in Int /\ SumFunctionOnSet(h, 1..b) \in Int
    <2>1. IsFiniteSet(1..a) /\ IsFiniteSet(1..b)
      <3>1. a \in Int /\ b \in Int /\ 1 \in Int
        BY <1>1
      <3> QED BY <3>1, FS_Interval
    <2> QED BY <2>1, <1>6, SumType
  <1> QED BY <1>5, <1>9, <1>10 DEF u

(* The orders after the trades of a sound match. *)
LEMMA HitFacts ==
    ASSUME orders \in Seq(Order), Len(orders) <= MaxOrders, NEW req, NEW m, MatchSound(req, m)
    PROVE  /\ DOMAIN Hit(m.trades) = DOMAIN orders
           /\ Hit(m.trades) \in Seq(Order) /\ Len(Hit(m.trades)) = Len(orders)
           /\ \A id \in DOMAIN orders :
                LET o == Hit(m.trades)[id] IN
                /\ o \in Order /\ o.remaining \in Nat
                /\ o.user = orders[id].user /\ o.side = orders[id].side
                /\ o.price = orders[id].price /\ o.spelling = orders[id].spelling
                /\ o.size = orders[id].size
                /\ o.remaining = orders[id].remaining - TakenFrom(id, m.trades)
                /\ (\A i \in DOMAIN m.trades : m.trades[i].maker # id) => o = orders[id]
                /\ o.remaining > 0 =>
                     o.status = orders[id].status \/ o.status = "partially_filled"
  <1> DEFINE ts == m.trades
             taken(id) == TakenFrom(id, ts)
             left(id) == orders[id].remaining - taken(id)
             st(id) == IF left(id) = 0 THEN "filled" ELSE "partially_filled"
             h(id) == IF taken(id) = 0 THEN orders[id]
                      ELSE [orders[id] EXCEPT !.remaining = left(id), !.status = st(id)]
  <1>1. Hit(ts) = [id \in DOMAIN orders |-> h(id)]
    BY DEF Hit
  <1>2. \A id \in DOMAIN orders :
          /\ taken(id) \in 0..orders[id].remaining
          /\ (\A i \in DOMAIN ts : ts[i].maker # id) => taken(id) = 0
    BY DEF MatchSound
  <1> HIDE DEF taken, ts
  <1>3. /\ Len(orders) \in Nat /\ DOMAIN orders = 1..Len(orders)
        /\ \A id \in DOMAIN orders : orders[id] \in Order /\ orders[id].remaining \in 0..MaxSize
    BY OrdersFacts
  <1>4. ASSUME NEW id \in DOMAIN orders
        PROVE  /\ h(id) \in Order /\ h(id).remaining \in Nat
               /\ h(id).user = orders[id].user /\ h(id).side = orders[id].side
               /\ h(id).price = orders[id].price /\ h(id).spelling = orders[id].spelling
               /\ h(id).size = orders[id].size
               /\ h(id).remaining = orders[id].remaining - taken(id)
               /\ (\A i \in DOMAIN ts : ts[i].maker # id) => h(id) = orders[id]
               /\ h(id).remaining > 0 =>
                    h(id).status = orders[id].status \/ h(id).status = "partially_filled"
    <2> DEFINE o == orders[id]
               k == taken(id)
    <2>1. o \in Order /\ o.remaining \in 0..MaxSize /\ k \in 0..o.remaining
      BY <1>2, <1>3
    <2>2. CASE k = 0
      <3>1. h(id) = o
        BY <2>2
      <3> HIDE DEF o, k, h
      <3>2. o.remaining \in Nat /\ o.remaining - k = o.remaining
        BY <2>1, <2>2
      <3> QED BY <2>1, <3>1, <3>2 DEF o, k
    <2>3. CASE k # 0
      <3> DEFINE l == left(id)
                 s == st(id)
      <3>1. h(id) = [o EXCEPT !.remaining = l, !.status = s]
        BY <2>3
      <3>2. l = o.remaining - k
        OBVIOUS
      <3>3. l > 0 => s = "partially_filled"
        OBVIOUS
      <3>4. s \in {"filled", "partially_filled"}
        OBVIOUS
      <3>5. (\A i \in DOMAIN ts : ts[i].maker # id) => k = 0
        BY <1>2
      <3> HIDE DEF o, k, h, l, s
      <3>6. l \in 0..MaxSize /\ l \in Nat
        BY <2>1, <3>2, BookConstants
      <3>7. /\ h(id) \in Order /\ h(id).remaining = l /\ h(id).status = s
            /\ h(id).user = o.user /\ h(id).side = o.side /\ h(id).price = o.price
            /\ h(id).spelling = o.spelling /\ h(id).size = o.size
        BY <2>1, <3>1, <3>4, <3>6 DEF Order
      <3> QED BY <2>3, <3>2, <3>3, <3>5, <3>6, <3>7 DEF o, k
    <2> QED BY <2>2, <2>3
  <1> HIDE DEF h
  <1>5. Hit(ts) \in [1..Len(orders) -> Order]
    BY <1>1, <1>3, <1>4
  <1>6. Hit(ts) \in Seq(Order) /\ Len(Hit(ts)) = Len(orders)
    BY <1>3, <1>5, FunIsSeq
  <1>7. \A id \in DOMAIN orders : Hit(ts)[id] = h(id)
    BY <1>1
  <1>8. DOMAIN Hit(ts) = DOMAIN orders
    BY <1>1
  <1> QED BY <1>4, <1>6, <1>7, <1>8 DEF taken, ts

(* A new order is added to a book. *)
LEMMA AppendBook ==
    ASSUME NEW b \in Seq(Order), NEW r \in Order, Len(b) < MaxOrders
    PROVE  /\ Append(b, r) \in Seq(Order)
           /\ Len(Append(b, r)) = Len(b) + 1 /\ Len(Append(b, r)) <= MaxOrders
           /\ Len(b) + 1 \in Ids /\ Len(b) + 1 \notin DOMAIN b
           /\ DOMAIN Append(b, r) = DOMAIN b \cup {Len(b) + 1}
           /\ \A id \in DOMAIN b : Append(b, r)[id] = b[id] /\ id < Len(b) + 1
           /\ Append(b, r)[Len(b) + 1] = r
           /\ IsBook(Append(b, r)) /\ IsBook(b)
  <1> DEFINE c == Append(b, r)
  <1>1. Len(b) \in Nat /\ DOMAIN b = 1..Len(b) /\ \A id \in DOMAIN b : b[id] \in Order
    BY LenProperties
  <1>2. c \in Seq(Order) /\ Len(c) = Len(b) + 1 /\ (\A i \in 1..Len(b) : c[i] = b[i]) /\ c[Len(b) + 1] = r
    BY AppendProperties
  <1> HIDE DEF c
  <1>3. DOMAIN c = 1..(Len(b) + 1) /\ \A id \in DOMAIN c : c[id] \in Order
    BY <1>2, LenProperties
  <1>4. Len(b) + 1 \in Ids /\ Len(c) <= MaxOrders /\ Len(b) + 1 \notin DOMAIN b
    BY <1>1, <1>2, BookConstants DEF Ids
  <1>5. DOMAIN c = DOMAIN b \cup {Len(b) + 1} /\ \A id \in DOMAIN b : id < Len(b) + 1
    BY <1>1, <1>3
  <1>6. \A id \in DOMAIN c : id \in Ids
    BY <1>1, <1>3, BookConstants DEF Ids
  <1>7. \A o \in Order : o.remaining \in Nat
    <2>1. \A o \in Order : o.remaining \in 0..MaxSize
      BY DEF Order
    <2> QED BY <2>1, BookConstants
  <1>8. IsBook(c) /\ IsBook(b)
    BY <1>1, <1>3, <1>5, <1>6, <1>7 DEF IsBook
  <1> QED BY <1>1, <1>2, <1>4, <1>5, <1>8 DEF c

(* The book that Accept leaves, before its levels: the orders and the sets *)
(* of open ids.                                                            *)
AcceptedBook(req, m) ==
    /\ orders' \in Seq(Order) /\ Len(orders') <= MaxOrders
    /\ Len(orders) + 1 \in Ids /\ Len(orders) + 1 \notin DOMAIN orders
    /\ DOMAIN orders' = DOMAIN orders \cup {Len(orders) + 1}
    /\ IsBook(orders) /\ IsBook(orders') /\ IsBook(Hit(m.trades))
    /\ orders'[Len(orders) + 1] = Record(req, m.left, StatusOf(req, m))
    /\ \A id \in DOMAIN orders :
          /\ orders'[id] = Hit(m.trades)[id] /\ id < Len(orders) + 1
          /\ id \in Ids
          /\ orders'[id].user = orders[id].user /\ orders'[id].side = orders[id].side
          /\ orders'[id].price = orders[id].price
          /\ orders'[id].spelling = orders[id].spelling
          /\ orders'[id].size = orders[id].size
          /\ orders'[id].remaining = orders[id].remaining - TakenFrom(id, m.trades)
          /\ orders[id].remaining \in Nat /\ orders'[id].remaining \in Nat
          /\ orders[id].side # Opposite(req.side) => orders'[id] = orders[id]
          /\ orders'[id].remaining > 0 =>
               orders'[id].status = orders[id].status
               \/ orders'[id].status = "partially_filled"
    /\ \A i \in DOMAIN m.trades :
          /\ m.trades[i].maker \in DOMAIN orders
          /\ orders[m.trades[i].maker].side = Opposite(req.side)
    /\ Closed(m) \subseteq ordersById
    /\ \A id \in ordersById : id \in Closed(m) <=> orders'[id].remaining = 0

(* Accept leaves such a book.                                                *)
LEMMA AcceptFacts ==
    ASSUME BookInv, NEW req \in Requests, NEW m, Len(orders) < MaxOrders,
           MatchSound(req, m), Accept(req, m)
    PROVE  AcceptedBook(req, m)
  <1> DEFINE n == Len(orders)
             h == Hit(m.trades)
             rec == Record(req, m.left, StatusOf(req, m))
             opp == Opposite(req.side)
  <1>1. orders' = Append(h, rec)
    BY DEF Accept
  <1>2. orders \in Seq(Order) /\ Len(orders) <= MaxOrders /\ n < MaxOrders
        /\ ordersById \subseteq DOMAIN orders
    BY DEF BookInv
  <1>3. n \in Nat /\ DOMAIN orders = 1..n /\ (\A id \in DOMAIN orders : orders[id].remaining \in Nat)
        /\ IsBook(orders)
    BY <1>2, OrdersFacts
  <1>4. /\ DOMAIN h = DOMAIN orders /\ h \in Seq(Order) /\ Len(h) = n
        /\ \A id \in DOMAIN orders :
             /\ h[id] \in Order /\ h[id].remaining \in Nat
             /\ h[id].user = orders[id].user /\ h[id].side = orders[id].side
             /\ h[id].price = orders[id].price /\ h[id].spelling = orders[id].spelling
             /\ h[id].size = orders[id].size
             /\ h[id].remaining = orders[id].remaining - TakenFrom(id, m.trades)
             /\ (\A i \in DOMAIN m.trades : m.trades[i].maker # id) => h[id] = orders[id]
             /\ h[id].remaining > 0 =>
                  h[id].status = orders[id].status \/ h[id].status = "partially_filled"
    BY <1>2, HitFacts
  <1> HIDE DEF h
  <1>6. rec \in Order
    <2>1. /\ req.user \in Users /\ req.side \in Sides /\ req.price \in Prices /\ req.size \in Sizes
          /\ req.kind \in {"gtc", "post_only", "ioc", "market"}
          /\ req.spelling \in Spellings \cup {""}
      BY RequestFacts
    <2>2. m.left \in 0..MaxSize
      <3>1. m.left \in 0..req.size
        BY DEF MatchSound
      <3>2. req.size \in Sizes
        BY <2>1
      <3> QED BY <3>1, <3>2, BookConstants DEF Sizes
    <2>3. StatusOf(req, m) \in {"new", "partially_filled", "filled", "canceled", "rejected"}
      BY DEF StatusOf
    <2> QED BY <2>1, <2>2, <2>3 DEF Record, Order
  <1> HIDE DEF rec
  <1>7. /\ orders' \in Seq(Order)
        /\ Len(orders') = n + 1 /\ Len(orders') <= MaxOrders
        /\ n + 1 \in Ids /\ n + 1 \notin DOMAIN h
        /\ DOMAIN orders' = DOMAIN h \cup {n + 1}
        /\ \A id \in DOMAIN h : orders'[id] = h[id] /\ id < n + 1
        /\ orders'[n + 1] = rec
        /\ IsBook(orders') /\ IsBook(h)
    BY <1>1, <1>2, <1>4, <1>6, AppendBook
  <1>8. ASSUME NEW i \in DOMAIN m.trades
        PROVE  m.trades[i].maker \in DOMAIN orders /\ orders[m.trades[i].maker].side = opp
    <2>1. OnSide(m.trades[i].maker, levels[opp])
      BY DEF MatchSound, Meets
    <2>2. SideHolds(opp, levels[opp], orders)
      BY DEF BookInv, Opposite, Sides
    <2> QED BY <2>1, <2>2, OnSideFacts
  <1>9. \A id \in DOMAIN orders : orders[id].side # opp => h[id] = orders[id]
    BY <1>4, <1>8
  <1>10. Closed(m) \subseteq ordersById /\ \A id \in ordersById : id \in Closed(m) <=> h[id].remaining = 0
    BY DEF Closed, h
  <1>11. \A id \in DOMAIN orders : id \in Ids
    BY <1>3 DEF IsBook
  <1>12. \A id \in ordersById : id \in DOMAIN h
    BY <1>2, <1>4
  <1> QED BY <1>2, <1>3, <1>4, <1>7, <1>8, <1>9, <1>10, <1>11, <1>12 DEF rec, h, AcceptedBook

(* Each side of the book holds after Accept.                                 *)
LEMMA AcceptSides ==
    ASSUME BookInv, NEW req \in Requests, NEW m, Len(orders) < MaxOrders,
           MatchSound(req, m), Accept(req, m), NEW side \in Sides
    PROVE  /\ SideHolds(side, levels'[side], orders')
           /\ \A id \in Ids : OnSide(id, levels'[side]) <=> id \in ordersById' /\ orders'[id].side = side
           /\ Ordered(side, levels[side]) /\ (req.spelling \in Spellings => req.price # NaN)
                => Ordered(side, levels'[side])
  <1> DEFINE id0 == Len(orders) + 1
             h == Hit(m.trades)
             rests == req.kind \notin {"ioc", "market"} /\ m.left > 0
             added == IF rests THEN {id0} ELSE {}
             opp == Opposite(req.side)
             ls == levels[side]
  <1>1. /\ ordersById' = (ordersById \ Closed(m)) \cup added
        /\ levels'[side] = IF side # req.side THEN Swept(side, m.trades)
                           ELSE IF rests THEN Joined(req, id0, m.left)
                           ELSE ls
    BY DEF Accept
  <1>2. /\ id0 \in Ids /\ id0 \notin DOMAIN orders
        /\ DOMAIN orders' = DOMAIN orders \cup {id0}
        /\ IsBook(orders) /\ IsBook(orders') /\ IsBook(h)
        /\ orders'[id0] = Record(req, m.left, StatusOf(req, m))
        /\ \A id \in DOMAIN orders :
              /\ orders'[id] = h[id] /\ id < id0
              /\ orders'[id].side = orders[id].side
              /\ orders'[id].price = orders[id].price
              /\ orders'[id].spelling = orders[id].spelling
              /\ orders'[id].remaining \in Nat
              /\ orders[id].side # opp => orders'[id] = orders[id]
        /\ Closed(m) \subseteq ordersById
        /\ \A id \in ordersById : id \in Closed(m) <=> orders'[id].remaining = 0
    <2>1. AcceptedBook(req, m)
      BY AcceptFacts
    <2> QED BY <2>1 DEF AcceptedBook
  <1>3. /\ ordersById \subseteq DOMAIN orders
        /\ SideHolds(side, ls, orders)
        /\ \A id \in Ids : OnSide(id, ls) <=> id \in ordersById /\ orders[id].side = side
        /\ \A id \in ordersById : orders[id].remaining > 0
        /\ orders \in Seq(Order) /\ Len(orders) <= MaxOrders
    BY DEF BookInv
  <1>4. req.side \in Sides /\ req.price \in Prices
        /\ (req.kind \notin {"ioc", "market"} => req.spelling \in Spellings)
    BY RequestFacts
  <1>5. orders'[id0].side = req.side /\ orders'[id0].price = req.price
        /\ orders'[id0].spelling = req.spelling /\ orders'[id0].remaining = m.left
    BY <1>2 DEF Record
  <1>6. m.left \in Nat
    <2>1. m.left \in 0..req.size
      BY DEF MatchSound
    <2> QED BY <2>1
  <1>7. /\ DOMAIN h = DOMAIN orders
        /\ \A id \in DOMAIN orders : (\A i \in DOMAIN m.trades : m.trades[i].maker # id) => h[id] = orders[id]
    BY <1>3, HitFacts
  <1> HIDE DEF id0, h
  <1>8. CASE side # req.side
    <2> DEFINE ts == m.trades
    <2>1. Swept(side, ts) = SweptLevels(ls, ts, h)
      BY SweptIs DEF h
    <2>2. HitsOnlyMakers(side, ts, orders, h)
      BY <1>2, <1>7 DEF HitsOnlyMakers
    <2> HIDE DEF ts
    <2>3. /\ SideHolds(side, SweptLevels(ls, ts, h), h)
          /\ \A id : OnSide(id, SweptLevels(ls, ts, h)) <=> OnSide(id, ls) /\ h[id].remaining > 0
          /\ Ordered(side, ls) => Ordered(side, SweptLevels(ls, ts, h))
      BY <1>2, <1>3, <2>2, SweptHolds
    <2>4. /\ SideHolds(side, Swept(side, ts), h)
          /\ \A id : OnSide(id, Swept(side, ts)) <=> OnSide(id, ls) /\ h[id].remaining > 0
          /\ (Ordered(side, ls) => Ordered(side, Swept(side, ts)))
      BY <2>1, <2>3
    <2>5. levels'[side] = Swept(side, ts)
      BY <1>1, <1>8 DEF ts
    <2>6. \A id \in DOMAIN h : h[id].side = side =>
              /\ id \in DOMAIN orders'
              /\ orders'[id].side = h[id].side /\ orders'[id].price = h[id].price
              /\ orders'[id].spelling = h[id].spelling /\ orders'[id].remaining = h[id].remaining
      BY <1>2, <1>7
    <2>7. SideHolds(side, levels'[side], orders')
      BY <2>4, <2>5, <2>6, SideKeeps
    <2>8. ASSUME NEW id \in Ids
          PROVE  OnSide(id, levels'[side]) <=> id \in ordersById' /\ orders'[id].side = side
      <3>1. CASE id = id0
        <4>1. ~OnSide(id, ls)
          BY <3>1, <1>2, <1>3
        <4> QED BY <3>1, <4>1, <2>4, <2>5, <1>5, <1>8
      <3>2. CASE id # id0 /\ id \in ordersById
        <4>1. id \in DOMAIN orders /\ orders'[id] = h[id] /\ orders'[id].side = orders[id].side
              /\ orders'[id].remaining \in Nat
          BY <3>2, <1>2, <1>3
        <4>2. id \in ordersById' <=> orders'[id].remaining # 0
          BY <3>2, <1>1, <1>2
        <4>3. OnSide(id, ls) <=> orders[id].side = side
          BY <3>2, <1>3
        <4>4. orders'[id].remaining # 0 <=> h[id].remaining > 0
          BY <4>1
        <4>5. OnSide(id, levels'[side]) <=> OnSide(id, ls) /\ h[id].remaining > 0
          BY <2>4, <2>5
        <4> QED BY <4>1, <4>2, <4>3, <4>4, <4>5
      <3>3. CASE id # id0 /\ id \notin ordersById
        <4>1. id \notin ordersById'
          BY <3>3, <1>1
        <4>2. ~OnSide(id, ls)
          BY <3>3, <1>3
        <4> QED BY <4>1, <4>2, <2>4, <2>5
      <3> QED BY <3>1, <3>2, <3>3
    <2>9. Ordered(side, ls) => Ordered(side, levels'[side])
      BY <2>4, <2>5
    <2> QED BY <2>7, <2>8, <2>9
  <1>9. CASE side = req.side
    <2>1. side # opp
      BY <1>4, <1>9 DEF Opposite, Sides
    <2>2. \A id \in DOMAIN orders : orders[id].side = side => orders'[id] = orders[id]
      BY <2>1, <1>2
    <2>3. \A id \in DOMAIN orders : orders[id].side = side =>
              /\ id \in DOMAIN orders'
              /\ orders'[id].side = orders[id].side /\ orders'[id].price = orders[id].price
              /\ orders'[id].spelling = orders[id].spelling /\ orders'[id].remaining = orders[id].remaining
      BY <2>2, <1>2
    <2>4. SideHolds(side, ls, orders')
      BY <2>3, <1>3, SideKeeps
    <2>5. \A id \in ordersById : orders[id].side = side => id \notin Closed(m)
      <3> SUFFICES ASSUME NEW id \in ordersById, orders[id].side = side PROVE id \notin Closed(m)
        OBVIOUS
      <3>1. id \in DOMAIN orders /\ orders[id].remaining > 0 /\ orders'[id] = orders[id]
        BY <1>3, <2>2
      <3> QED BY <3>1, <1>2
    <2>6. \A id \in Ids \ {id0} : id \in ordersById' /\ orders'[id].side = side
                                    <=> id \in ordersById /\ orders[id].side = side
      <3> SUFFICES ASSUME NEW id \in Ids \ {id0}
                   PROVE  id \in ordersById' /\ orders'[id].side = side
                            <=> id \in ordersById /\ orders[id].side = side
        OBVIOUS
      <3>1. id \in ordersById' <=> id \in ordersById /\ id \notin Closed(m)
        BY <1>1
      <3>2. id \in ordersById => orders'[id].side = orders[id].side
        BY <1>2, <1>3
      <3> QED BY <3>1, <3>2, <2>5
    <2>7. CASE rests
      <3>1. levels'[side] = Joined(req, id0, m.left)
        BY <1>1, <1>9, <2>7
      <3>2. m.left \in Nat \ {0} /\ req.spelling \in Spellings
        BY <1>4, <1>6, <2>7
      <3>3. \A x \in DOMAIN orders' : OnSide(x, levels[req.side]) => x < id0
        BY <1>2, <1>3, <1>9
      <3>4. SideHolds(req.side, levels[req.side], orders')
        BY <2>4, <1>9
      <3>5. id0 \in DOMAIN orders'
        BY <1>2
      <3>6. /\ SideHolds(req.side, Joined(req, id0, m.left), orders')
            /\ \A x : OnSide(x, Joined(req, id0, m.left)) <=> OnSide(x, levels[req.side]) \/ x = id0
            /\ Ordered(req.side, levels[req.side]) /\ req.price # NaN
                 => Ordered(req.side, Joined(req, id0, m.left))
        BY <1>2, <1>4, <1>5, <3>2, <3>3, <3>4, <3>5, JoinedHolds
      <3>7. \A id : OnSide(id, levels'[side]) <=> OnSide(id, ls) \/ id = id0
        BY <3>1, <3>6, <1>9
      <3>8. id0 \in ordersById' /\ orders'[id0].side = side
        BY <1>1, <1>5, <1>9, <2>7
      <3>9. ASSUME NEW id \in Ids
            PROVE OnSide(id, levels'[side]) <=> id \in ordersById' /\ orders'[id].side = side
        <4>1. CASE id = id0
          BY <4>1, <3>7, <3>8
        <4>2. CASE id # id0
          BY <4>2, <3>7, <2>6, <1>3
        <4> QED BY <4>1, <4>2
      <3> QED BY <3>1, <3>2, <3>6, <3>9, <1>9
    <2>8. CASE ~rests
      <3>1. levels'[side] = ls
        BY <1>1, <1>9, <2>8
      <3>2. id0 \notin ordersById' /\ ~OnSide(id0, ls)
        BY <1>1, <1>2, <1>3, <2>8
      <3>3. ASSUME NEW id \in Ids
            PROVE OnSide(id, levels'[side]) <=> id \in ordersById' /\ orders'[id].side = side
        <4>1. CASE id = id0
          BY <4>1, <3>1, <3>2
        <4>2. CASE id # id0
          BY <4>2, <3>1, <2>6, <1>3
        <4> QED BY <4>1, <4>2
      <3> QED BY <3>1, <3>3, <2>4
    <2> QED BY <2>7, <2>8
  <1> QED BY <1>8, <1>9

(* Sizes of trades are integers.                                             *)
LEMMA TradesSized ==
    \A x \in BookTrade : x.size \in Int
  <1>1. \A x \in BookTrade : x.size \in Sizes
    BY DEF BookTrade
  <1> QED BY <1>1, BookConstants DEF Sizes

(* Fills still add up after Accept.                                          *)
LEMMA AcceptFills ==
    ASSUME BookInv, NEW req \in Requests, NEW m, Len(orders) < MaxOrders,
           MatchSound(req, m), Accept(req, m)
    PROVE  /\ trades' \in Seq(BookTrade)
           /\ \A i \in DOMAIN trades' :
                 trades'[i].maker \in DOMAIN orders' /\ trades'[i].taker \in DOMAIN orders'
           /\ FillsAddUp'
  <1> DEFINE id0 == Len(orders) + 1
             ts == m.trades
             a == Len(trades)
  <1>1. AcceptedBook(req, m)
    BY AcceptFacts
  <1>2. trades' = trades \o ts
    BY DEF Accept
  <1>3. trades \in Seq(BookTrade) /\ ts \in Seq(BookTrade)
    BY DEF BookInv, MatchSound
  <1>4. /\ a \in Nat /\ DOMAIN trades = 1..a /\ Len(ts) \in Nat /\ DOMAIN ts = 1..Len(ts)
    BY <1>3, LenProperties
  <1>5. /\ trades' \in Seq(BookTrade) /\ Len(trades') = a + Len(ts)
        /\ \A i \in 1..(a + Len(ts)) : trades'[i] = IF i <= a THEN trades[i] ELSE ts[i - a]
    BY <1>2, <1>3, ConcatProperties
  <1>6. DOMAIN trades' = 1..(a + Len(ts))
    BY <1>5, LenProperties
  <1>7. ASSUME NEW i \in DOMAIN trades'
        PROVE  \/ i \in DOMAIN trades /\ trades'[i] = trades[i]
               \/ i - a \in DOMAIN ts /\ trades'[i] = ts[i - a]
    BY <1>4, <1>5, <1>6
  <1> HIDE DEF a, ts
  <1>8. /\ DOMAIN orders' = DOMAIN orders \cup {id0} /\ id0 \notin DOMAIN orders
        /\ orders'[id0] = Record(req, m.left, StatusOf(req, m))
        /\ \A id \in DOMAIN orders :
              /\ orders'[id].user = orders[id].user /\ orders'[id].side = orders[id].side
              /\ orders'[id].price = orders[id].price /\ orders'[id].size = orders[id].size
              /\ orders'[id].remaining = orders[id].remaining - TakenFrom(id, ts)
              /\ orders[id].remaining \in Nat
        /\ \A i \in DOMAIN ts : /\ ts[i].maker \in DOMAIN orders
                                /\ orders[ts[i].maker].side = Opposite(req.side)
    BY <1>1 DEF AcceptedBook, ts
  <1>9. /\ \A i \in DOMAIN ts :
             /\ ts[i].taker = id0 /\ Meets(req, ts[i].maker)
             /\ ts[i].price = orders[ts[i].maker].price
        /\ TakenFrom(id0, ts) = req.size - m.left
    BY DEF MatchSound, ts
  <1>10. /\ \A i \in DOMAIN trades : trades[i].maker \in DOMAIN orders /\ trades[i].taker \in DOMAIN orders
         /\ \A id \in DOMAIN orders : orders[id].size - orders[id].remaining = TakenFrom(id, trades)
         /\ \A i \in DOMAIN trades :
               /\ orders[trades[i].maker].user # orders[trades[i].taker].user
               /\ orders[trades[i].maker].side = Opposite(orders[trades[i].taker].side)
               /\ trades[i].price = orders[trades[i].maker].price
               /\ Crosses(orders[trades[i].taker].side, orders[trades[i].taker].price, trades[i].price)
    BY DEF BookInv, FillsAddUp
  <1> HIDE DEF id0
  <1>11. orders'[id0].user = req.user /\ orders'[id0].side = req.side /\ orders'[id0].price = req.price
         /\ orders'[id0].size = req.size /\ orders'[id0].remaining = m.left
    BY <1>8 DEF Record
  <1>12. ASSUME NEW i \in DOMAIN trades'
         PROVE  trades'[i].maker \in DOMAIN orders' /\ trades'[i].taker \in DOMAIN orders'
    BY <1>7, <1>8, <1>9, <1>10
  <1>13. \A id : /\ TakenFrom(id, trades') = TakenFrom(id, trades) + TakenFrom(id, ts)
                 /\ TakenFrom(id, trades) \in Int /\ TakenFrom(id, ts) \in Int
    BY <1>2, <1>3, TradesSized, TakenFromBoth
  <1>14. ASSUME NEW id \in DOMAIN orders'
         PROVE  orders'[id].size - orders'[id].remaining = TakenFrom(id, trades')
    <2>1. CASE id \in DOMAIN orders
      <3> DEFINE t == TakenFrom(id, trades)
                 k == TakenFrom(id, ts)
                 s == orders[id].size
                 r == orders[id].remaining
      <3>1. s - r = t /\ orders'[id].size = s /\ orders'[id].remaining = r - k /\ r \in Nat
        BY <2>1, <1>8, <1>10
      <3>2. TakenFrom(id, trades') = t + k /\ t \in Int /\ k \in Int
        BY <1>13
      <3>3. s \in Int
        <4>1. orders \in Seq(Order) /\ Len(orders) <= MaxOrders
          BY DEF BookInv
        <4>2. orders[id].size \in Nat
          BY <4>1, <2>1, OrdersFacts
        <4> QED BY <4>2
      <3> HIDE DEF t, k, s, r
      <3> QED BY <3>1, <3>2, <3>3
    <2>2. CASE id = id0
      <3>1. TakenFrom(id0, trades) = 0
        <4>1. \A i \in DOMAIN trades : trades[i].maker # id0 /\ trades[i].taker # id0
          BY <1>8, <1>10
        <4> QED BY <4>1, <1>3, TakenNothing
      <3>2. TakenFrom(id0, trades') = 0 + TakenFrom(id0, ts) /\ TakenFrom(id0, ts) \in Int
        BY <3>1, <1>13
      <3> QED BY <2>2, <3>2, <1>9, <1>11
    <2> QED BY <2>1, <2>2, <1>8
  <1>15. ASSUME NEW i \in DOMAIN trades'
         PROVE  /\ orders'[trades'[i].maker].user # orders'[trades'[i].taker].user
                /\ orders'[trades'[i].maker].side = Opposite(orders'[trades'[i].taker].side)
                /\ trades'[i].price = orders'[trades'[i].maker].price
                /\ Crosses(orders'[trades'[i].taker].side, orders'[trades'[i].taker].price, trades'[i].price)
    <2>1. CASE i \in DOMAIN trades /\ trades'[i] = trades[i]
      <3> DEFINE mk == trades[i].maker
                 tk == trades[i].taker
      <3>1. mk \in DOMAIN orders /\ tk \in DOMAIN orders
            /\ orders[mk].user # orders[tk].user /\ orders[mk].side = Opposite(orders[tk].side)
            /\ trades[i].price = orders[mk].price
            /\ Crosses(orders[tk].side, orders[tk].price, trades[i].price)
        BY <2>1, <1>10
      <3>2. orders'[mk].user = orders[mk].user /\ orders'[mk].side = orders[mk].side
            /\ orders'[mk].price = orders[mk].price
            /\ orders'[tk].user = orders[tk].user /\ orders'[tk].side = orders[tk].side
            /\ orders'[tk].price = orders[tk].price
        BY <3>1, <1>8
      <3> QED BY <2>1, <3>1, <3>2
    <2>2. CASE i - a \in DOMAIN ts /\ trades'[i] = ts[i - a]
      <3> DEFINE j == i - a
                 mk == ts[j].maker
      <3>1. j \in DOMAIN ts /\ trades'[i] = ts[j]
        BY <2>2
      <3> HIDE DEF j
      <3>2. mk \in DOMAIN orders /\ orders[mk].side = Opposite(req.side) /\ ts[j].taker = id0
            /\ Meets(req, mk) /\ ts[j].price = orders[mk].price
        BY <3>1, <1>8, <1>9
      <3>3. orders[mk].user # req.user /\ Crosses(req.side, req.price, orders[mk].price)
        BY <3>2 DEF Meets
      <3>4. orders'[mk].user = orders[mk].user /\ orders'[mk].side = orders[mk].side
            /\ orders'[mk].price = orders[mk].price
        BY <3>2, <1>8
      <3> QED BY <3>1, <3>2, <3>3, <3>4, <1>11
    <2> QED BY <2>1, <2>2, <1>7
  <1>16. FillsAddUp'
    BY <1>14, <1>15 DEF FillsAddUp
  <1> QED BY <1>5, <1>12, <1>16

(* Accept keeps the invariant.                                               *)
LEMMA AcceptHolds ==
    ASSUME BookInv, NEW req \in Requests, NEW m, Len(orders) < MaxOrders,
           MatchSound(req, m), Accept(req, m)
    PROVE  BookInv'
  <1> DEFINE id0 == Len(orders) + 1
             rests == req.kind \notin {"ioc", "market"} /\ m.left > 0
             added == IF rests THEN {id0} ELSE {}
             opp == Opposite(req.side)
  <1>1. AcceptedBook(req, m)
    BY AcceptFacts
  <1>2. /\ ordersById' = (ordersById \ Closed(m)) \cup added
        /\ ordersByUser' = [u \in Users |->
                (ordersByUser[u] \ Closed(m)) \cup (IF u = req.user THEN added ELSE {})]
        /\ levels' = [side \in Sides |-> levels'[side]]
    BY DEF Accept
  <1>3. /\ ordersById \subseteq DOMAIN orders
        /\ ordersByUser \in [Users -> SUBSET Ids]
        /\ \A u \in Users : ordersByUser[u] = {id \in ordersById : orders[id].user = u}
        /\ \A id \in ordersById : orders[id].remaining > 0
                                  /\ orders[id].status \in {"new", "partially_filled"}
    BY DEF BookInv
  <1>4. /\ orders' \in Seq(Order) /\ Len(orders') <= MaxOrders
        /\ DOMAIN orders' = DOMAIN orders \cup {id0} /\ id0 \notin DOMAIN orders /\ id0 \in Ids
        /\ orders'[id0] = Record(req, m.left, StatusOf(req, m))
        /\ \A id \in DOMAIN orders :
              /\ orders'[id].user = orders[id].user /\ orders'[id].side = orders[id].side
              /\ orders'[id].price = orders[id].price /\ id \in Ids
              /\ orders'[id].spelling = orders[id].spelling
              /\ orders'[id].remaining = orders[id].remaining - TakenFrom(id, m.trades)
              /\ orders[id].remaining \in Nat /\ orders'[id].remaining \in Nat
              /\ orders'[id].remaining > 0 =>
                   orders'[id].status = orders[id].status
                   \/ orders'[id].status = "partially_filled"
        /\ \A id \in ordersById : id \in Closed(m) <=> orders'[id].remaining = 0
        /\ Closed(m) \subseteq ordersById
    BY <1>1 DEF AcceptedBook
  <1> HIDE DEF id0
  <1>5. orders'[id0].user = req.user /\ orders'[id0].side = req.side /\ orders'[id0].price = req.price
        /\ orders'[id0].remaining = m.left /\ orders'[id0].status = StatusOf(req, m)
        /\ orders'[id0].spelling = req.spelling
    BY <1>4 DEF Record
  <1>6. req.user \in Users /\ req.side \in Sides /\ req.price \in Prices
        /\ (req.kind \notin {"ioc", "market"} => req.spelling \in Spellings)
    BY RequestFacts
  <1>7. \A id \in ordersById' :
           \/ /\ id \in ordersById /\ id \in DOMAIN orders /\ orders'[id].remaining > 0
              /\ id # id0
           \/ id = id0 /\ rests
    <2> SUFFICES ASSUME NEW id \in ordersById', ~(id = id0 /\ rests)
                 PROVE  id \in ordersById /\ id \in DOMAIN orders /\ orders'[id].remaining > 0 /\ id # id0
      OBVIOUS
    <2>1. id \in ordersById /\ id \notin Closed(m)
      BY <1>2
    <2>2. id \in DOMAIN orders /\ orders'[id].remaining # 0 /\ orders'[id].remaining \in Nat
      BY <2>1, <1>3, <1>4
    <2> QED BY <2>1, <2>2, <1>4
  <1>8. ordersById' \subseteq DOMAIN orders'
    BY <1>4, <1>7
  <1>9. \A id \in ordersById' : orders'[id].remaining > 0
                                /\ orders'[id].status \in {"new", "partially_filled"}
    <2> SUFFICES ASSUME NEW id \in ordersById'
                 PROVE  orders'[id].remaining > 0 /\ orders'[id].status \in {"new", "partially_filled"}
      OBVIOUS
    <2>1. CASE id \in ordersById /\ id \in DOMAIN orders /\ orders'[id].remaining > 0
      BY <2>1, <1>3, <1>4
    <2>2. CASE id = id0 /\ rests
      <3>1. m.left > 0 /\ req.kind \notin {"ioc", "market"}
        BY <2>2
      <3>2. m.left # 0
        <4>1. m.left \in 0..req.size
          BY DEF MatchSound
        <4> QED BY <3>1, <4>1
      <3>3. StatusOf(req, m) \in {"new", "partially_filled"}
        BY <3>1, <3>2 DEF StatusOf
      <3> QED BY <2>2, <3>1, <3>3, <1>5
    <2> QED BY <2>1, <2>2, <1>7
  <1>10. /\ ordersByUser' \in [Users -> SUBSET Ids]
         /\ \A u \in Users : ordersByUser'[u] = {id \in ordersById' : orders'[id].user = u}
    <2>1. ASSUME NEW u \in Users
          PROVE  ordersByUser'[u] = {id \in ordersById' : orders'[id].user = u}
      <3>1. ordersByUser'[u] = (ordersByUser[u] \ Closed(m)) \cup (IF u = req.user THEN added ELSE {})
        BY <1>2
      <3>2. ordersByUser[u] = {id \in ordersById : orders[id].user = u}
        BY <1>3
      <3>3. \A id \in ordersById : orders'[id].user = orders[id].user /\ id # id0
        BY <1>3, <1>4
      <3>4. \A id \in added : id = id0 /\ orders'[id].user = req.user
        BY <1>5
      <3> HIDE DEF added
      <3>5. ASSUME NEW id PROVE id \in ordersByUser'[u] <=> id \in ordersById' /\ orders'[id].user = u
        BY <3>1, <3>2, <3>3, <3>4, <1>2
      <3> QED BY <3>5
    <2>2. \A u \in Users : ordersByUser'[u] \in SUBSET Ids
      <3>1. \A id \in ordersById' : id \in Ids
        BY <1>4, <1>7
      <3> QED BY <3>1, <2>1
    <2>3. ordersByUser' \in [Users -> SUBSET Ids]
      <3>1. ordersByUser' = [u \in Users |-> ordersByUser'[u]]
        <4> DEFINE v(u) == (ordersByUser[u] \ Closed(m)) \cup (IF u = req.user THEN added ELSE {})
        <4>1. ordersByUser' = [u \in Users |-> v(u)]
          BY <1>2
        <4> HIDE DEF v
        <4> QED BY <4>1
      <3> QED BY <3>1, <2>2
    <2> QED BY <2>1, <2>3
  <1>11. \A side \in Sides :
          /\ SideHolds(side, levels'[side], orders')
          /\ \A id \in Ids : OnSide(id, levels'[side]) <=> id \in ordersById' /\ orders'[id].side = side
          /\ Ordered(side, levels[side]) /\ (req.spelling \in Spellings => req.price # NaN)
               => Ordered(side, levels'[side])
    BY AcceptSides
  <1>15. ASSUME PricedBook'
         PROVE  /\ PricedBook /\ (req.spelling \in Spellings => req.price # NaN)
                /\ \A side \in Sides : Ordered(side, levels[side]) /\ Ordered(side, levels'[side])
    <2>1. \A id \in DOMAIN orders' : orders'[id].spelling \in Spellings => orders'[id].price # NaN
      BY <1>15 DEF PricedBook
    <2>2. PricedBook
      BY <2>1, <1>4 DEF PricedBook
    <2>3. req.spelling \in Spellings => req.price # NaN
      BY <2>1, <1>4, <1>5
    <2>4. \A side \in Sides : Ordered(side, levels[side])
      BY <2>2 DEF BookInv
    <2> QED BY <2>2, <2>3, <2>4, <1>11
  <1>12. levels' \in [Sides -> Seq(Level)]
    <2>1. \A side \in Sides : levels'[side] \in Seq(Level)
      BY <1>11 DEF SideHolds
    <2> QED BY <2>1, <1>2
  <1>13. /\ trades' \in Seq(BookTrade)
         /\ \A i \in DOMAIN trades' :
                 trades'[i].maker \in DOMAIN orders' /\ trades'[i].taker \in DOMAIN orders'
         /\ FillsAddUp'
    BY AcceptFills
  <1>14. CrossedOnlyBySelf'
    <2> DEFINE Cross(b, a) == /\ orders'[b].side = "buy" /\ orders'[a].side = "sell"
                              /\ orders'[b].price >= orders'[a].price
                              /\ orders'[b].user # orders'[a].user
    <2>1. SUFFICES ASSUME PricedBook', NEW b \in ordersById', NEW a \in ordersById', Cross(b, a)
                   PROVE  FALSE
      BY DEF CrossedOnlyBySelf
    <2>2. ASSUME NEW x \in ordersById, x \in DOMAIN orders, x # id0, orders'[x].remaining > 0, rests,
                 orders'[x].side = opp, orders'[x].user # req.user,
                 Crosses(req.side, req.price, orders'[x].price)
          PROVE  FALSE
      <3>1. opp \in Sides
        BY DEF Opposite, Sides
      <3>2. orders[x].side = opp /\ orders[x].user # req.user
            /\ Crosses(req.side, req.price, orders[x].price) /\ x \in Ids
        BY <2>2, <1>4
      <3>3. OnSide(x, levels[opp])
        BY <3>1, <3>2 DEF BookInv
      <3>4. Meets(req, x)
        BY <3>2, <3>3 DEF Meets
      <3>7. Comparable(req)
        BY <2>1, <2>2, <3>1, <1>6, <1>15 DEF Comparable
      <3>5. TakenFrom(x, m.trades) = orders[x].remaining
        BY <2>2, <3>4, <3>7 DEF MatchSound
      <3>6. orders'[x].remaining = orders[x].remaining - orders[x].remaining /\ orders[x].remaining \in Nat
        BY <2>2, <3>5, <1>4
      <3> QED BY <2>2, <3>6
    <2>3. CASE a # id0 /\ b # id0
      <3>1. a \in ordersById /\ b \in ordersById /\ a \in DOMAIN orders /\ b \in DOMAIN orders
        BY <2>3, <1>7
      <3>2. /\ orders[b].side = "buy" /\ orders[a].side = "sell"
            /\ orders[b].price >= orders[a].price /\ orders[b].user # orders[a].user
        BY <2>1, <3>1, <1>4
      <3>3. PricedBook
        BY <2>1, <1>15
      <3> QED BY <3>1, <3>2, <3>3 DEF BookInv, CrossedOnlyBySelf
    <2>4. CASE b = id0
      <3>1. req.side = "buy" /\ orders'[a].side = "sell" /\ req.price >= orders'[a].price
            /\ orders'[a].user # req.user
        BY <2>1, <2>4, <1>5
      <3>2. a # id0
        BY <3>1, <1>5
      <3>3. a \in ordersById /\ a \in DOMAIN orders /\ orders'[a].remaining > 0 /\ rests
        BY <2>4, <3>2, <1>7, <1>4
      <3>4. orders'[a].price \in Prices
        <4>1. \A o \in Order : o.price \in Prices
          BY DEF Order
        <4>2. orders'[a] \in Order
          BY <1>4, <1>8, LenProperties
        <4> QED BY <4>1, <4>2
      <3>5. Crosses(req.side, req.price, orders'[a].price) /\ orders'[a].side = opp
        BY <3>1, <3>4, <1>6, CrossesReached DEF Opposite
      <3> QED BY <3>1, <3>2, <3>3, <3>5, <2>2
    <2>5. CASE a = id0
      <3>1. req.side = "sell" /\ orders'[b].side = "buy" /\ orders'[b].price >= req.price
            /\ orders'[b].user # req.user
        BY <2>1, <2>5, <1>5
      <3>2. b # id0
        BY <3>1, <1>5
      <3>3. b \in ordersById /\ b \in DOMAIN orders /\ orders'[b].remaining > 0 /\ rests
        BY <2>5, <3>2, <1>7, <1>4
      <3>4. orders'[b].price \in Prices
        <4>1. \A o \in Order : o.price \in Prices
          BY DEF Order
        <4>2. orders'[b] \in Order
          BY <1>4, <1>8, LenProperties
        <4> QED BY <4>1, <4>2
      <3>5. Crosses(req.side, req.price, orders'[b].price) /\ orders'[b].side = opp
        BY <3>1, <3>4, <1>6, CrossesReached DEF Opposite
      <3> QED BY <3>1, <3>2, <3>3, <3>5, <2>2
    <2> QED BY <2>3, <2>4, <2>5
  <1> QED BY <1>4, <1>8, <1>9, <1>10, <1>11, <1>12, <1>13, <1>14, <1>15 DEF BookInv

(* A refused order changes nothing but the list of orders.                   *)
LEMMA RejectHolds ==
    ASSUME BookInv, NEW req \in Requests, Len(orders) < MaxOrders, Reject(req)
    PROVE  BookInv'
  <1> DEFINE id0 == Len(orders) + 1
             rec == Record(req, req.size, "rejected")
  <1>1. orders' = Append(orders, rec) /\ levels' = levels /\ ordersById' = ordersById
        /\ ordersByUser' = ordersByUser /\ trades' = trades
    BY DEF Reject
  <1>2. req.user \in Users /\ req.side \in Sides /\ req.price \in Prices /\ req.size \in Sizes
        /\ req.kind \in {"gtc", "post_only", "ioc", "market"}
        /\ req.spelling \in Spellings \cup {""}
    BY RequestFacts
  <1>3. rec \in Order
    <2>1. req.size \in 0..MaxSize
      <3>1. req.size \in Sizes
        BY <1>2
      <3> QED BY <3>1, BookConstants DEF Sizes
    <2> QED BY <1>2, <2>1 DEF Record, Order
  <1>4. /\ rec.size = req.size /\ rec.remaining = req.size
    BY DEF Record
  <1> HIDE DEF rec
  <1>5. orders \in Seq(Order) /\ ordersById \subseteq DOMAIN orders
    BY DEF BookInv
  <1>6. /\ orders' \in Seq(Order) /\ Len(orders') <= MaxOrders
        /\ id0 \in Ids /\ id0 \notin DOMAIN orders
        /\ DOMAIN orders' = DOMAIN orders \cup {id0}
        /\ \A id \in DOMAIN orders : orders'[id] = orders[id]
        /\ orders'[id0] = rec
    BY <1>1, <1>3, <1>5, AppendBook
  <1> HIDE DEF id0
  <1>7. /\ ordersById' \subseteq DOMAIN orders'
        /\ ordersByUser' \in [Users -> SUBSET Ids]
        /\ levels' \in [Sides -> Seq(Level)]
        /\ trades' \in Seq(BookTrade)
        /\ \A i \in DOMAIN trades' : trades'[i].maker \in DOMAIN orders' /\ trades'[i].taker \in DOMAIN orders'
    BY <1>1, <1>6 DEF BookInv
  <1>8. \A u \in Users : ordersByUser'[u] = {id \in ordersById' : orders'[id].user = u}
    <2> SUFFICES ASSUME NEW u \in Users
                 PROVE  ordersByUser'[u] = {id \in ordersById' : orders'[id].user = u}
      OBVIOUS
    <2>1. ordersByUser[u] = {id \in ordersById : orders[id].user = u}
      BY DEF BookInv
    <2>2. \A id \in ordersById : orders'[id] = orders[id]
      BY <1>5, <1>6
    <2> QED BY <2>1, <2>2, <1>1
  <1>9. \A id \in ordersById' : orders'[id].remaining > 0
                                /\ orders'[id].status \in {"new", "partially_filled"}
    BY <1>1, <1>5, <1>6 DEF BookInv
  <1>10. ASSUME NEW side \in Sides
         PROVE  /\ SideHolds(side, levels'[side], orders')
                /\ \A id \in Ids : OnSide(id, levels'[side]) <=> id \in ordersById' /\ orders'[id].side = side
    <2>1. /\ SideHolds(side, levels[side], orders)
          /\ \A id \in Ids : OnSide(id, levels[side]) <=> id \in ordersById /\ orders[id].side = side
      BY DEF BookInv
    <2>2. \A id \in DOMAIN orders : orders[id].side = side =>
              /\ id \in DOMAIN orders'
              /\ orders'[id].side = orders[id].side /\ orders'[id].price = orders[id].price
              /\ orders'[id].spelling = orders[id].spelling /\ orders'[id].remaining = orders[id].remaining
      BY <1>6
    <2>3. SideHolds(side, levels[side], orders')
      BY <2>1, <2>2, SideKeeps
    <2>4. \A id \in ordersById : orders'[id].side = orders[id].side
      BY <1>5, <1>6
    <2> QED BY <2>1, <2>3, <2>4, <1>1
  <1>13. PricedBook' => PricedBook
    BY <1>6 DEF PricedBook
  <1>14. PricedBook' => \A side \in Sides : Ordered(side, levels'[side])
    BY <1>1, <1>13 DEF BookInv
  <1>11. CrossedOnlyBySelf'
    <2>1. \A id \in ordersById' : /\ id \in ordersById
                                   /\ orders'[id].side = orders[id].side
                                   /\ orders'[id].user = orders[id].user
                                   /\ orders'[id].price = orders[id].price
      BY <1>1, <1>5, <1>6
    <2>2. CrossedOnlyBySelf
      BY DEF BookInv
    <2> QED BY <2>1, <2>2, <1>13 DEF CrossedOnlyBySelf
  <1>12. FillsAddUp'
    <2>1. FillsAddUp /\ trades \in Seq(BookTrade)
          /\ \A i \in DOMAIN trades : trades[i].maker \in DOMAIN orders /\ trades[i].taker \in DOMAIN orders
      BY DEF BookInv
    <2>2. TakenFrom(id0, trades) = 0
      BY <2>1, <1>6, TakenNothing
    <2>3. ASSUME NEW id \in DOMAIN orders'
          PROVE  orders'[id].size - orders'[id].remaining = TakenFrom(id, trades')
      <3>1. CASE id \in DOMAIN orders
        BY <3>1, <2>1, <1>1, <1>6 DEF FillsAddUp
      <3>2. CASE id = id0
        <4>1. req.size - req.size = 0
          <5>1. req.size \in Sizes
            BY <1>2
          <5> QED BY <5>1, BookConstants DEF Sizes
        <4> QED BY <3>2, <4>1, <2>2, <1>1, <1>4, <1>6
      <3> QED BY <3>1, <3>2, <1>6
    <2>4. ASSUME NEW i \in DOMAIN trades'
          PROVE  /\ orders'[trades'[i].maker].user # orders'[trades'[i].taker].user
                 /\ orders'[trades'[i].maker].side = Opposite(orders'[trades'[i].taker].side)
                 /\ trades'[i].price = orders'[trades'[i].maker].price
                 /\ Crosses(orders'[trades'[i].taker].side, orders'[trades'[i].taker].price, trades'[i].price)
      <3>1. orders'[trades[i].maker] = orders[trades[i].maker]
            /\ orders'[trades[i].taker] = orders[trades[i].taker]
        BY <2>1, <1>1, <1>6
      <3> QED BY <3>1, <2>1, <1>1 DEF FillsAddUp
    <2> QED BY <2>3, <2>4 DEF FillsAddUp
  <1> QED BY <1>6, <1>7, <1>8, <1>9, <1>10, <1>11, <1>12, <1>14 DEF BookInv

(* removeFromBook keeps the invariant, for any set of open orders.           *)
LEMMA RemoveFromBookHolds ==
    ASSUME BookInv, NEW ids \in SUBSET ordersById, RemoveFromBook(ids)
    PROVE  BookInv'
  <1> DEFINE mark(id) == IF id \in ids THEN [orders[id] EXCEPT !.status = "canceled"] ELSE orders[id]
  <1>1. /\ levels' = [side \in Sides |-> WithIds(Stripped(levels[side], ids, orders))]
        /\ ordersById' = ordersById \ ids
        /\ ordersByUser' = [u \in Users |-> ordersByUser[u] \ ids]
        /\ orders' = [id \in DOMAIN orders |-> mark(id)]
        /\ trades' = trades
    BY DEF RemoveFromBook, Stripped, StrippedLevel
  <1>2. orders \in Seq(Order) /\ ordersById \subseteq DOMAIN orders /\ Len(orders) <= MaxOrders
    BY DEF BookInv
  <1>3. /\ Len(orders) \in Nat /\ DOMAIN orders = 1..Len(orders) /\ IsBook(orders)
        /\ \A id \in DOMAIN orders : orders[id] \in Order
    BY <1>2, OrdersFacts
  <1>4. ASSUME NEW id \in DOMAIN orders
        PROVE  /\ mark(id) \in Order
               /\ mark(id).user = orders[id].user /\ mark(id).side = orders[id].side
               /\ mark(id).price = orders[id].price /\ mark(id).size = orders[id].size
               /\ mark(id).spelling = orders[id].spelling
               /\ mark(id).remaining = orders[id].remaining
               /\ id \notin ids => mark(id) = orders[id]
    BY <1>3 DEF Order
  <1> HIDE DEF mark
  <1>5. orders' \in [1..Len(orders) -> Order]
    BY <1>1, <1>3, <1>4
  <1>6. /\ orders' \in Seq(Order) /\ Len(orders') = Len(orders) /\ DOMAIN orders' = DOMAIN orders
        /\ Len(orders') <= MaxOrders
    BY <1>2, <1>3, <1>5, FunIsSeq
  <1>7. \A id \in DOMAIN orders :
          /\ orders'[id].user = orders[id].user /\ orders'[id].side = orders[id].side
          /\ orders'[id].price = orders[id].price /\ orders'[id].size = orders[id].size
          /\ orders'[id].spelling = orders[id].spelling
          /\ orders'[id].remaining = orders[id].remaining
          /\ id \notin ids => orders'[id] = orders[id]
    BY <1>1, <1>4
  <1>8. ordersById' \subseteq DOMAIN orders'
    BY <1>1, <1>2, <1>6
  <1>9. /\ ordersByUser' \in [Users -> SUBSET Ids]
        /\ \A u \in Users : ordersByUser'[u] = {id \in ordersById' : orders'[id].user = u}
    <2>1. /\ ordersByUser \in [Users -> SUBSET Ids]
          /\ \A u \in Users : ordersByUser[u] = {id \in ordersById : orders[id].user = u}
      BY DEF BookInv
    <2>2. \A id \in ordersById : orders'[id].user = orders[id].user
      BY <1>2, <1>7
    <2>3. ordersByUser' \in [Users -> SUBSET Ids]
      BY <2>1, <1>1
    <2>4. ASSUME NEW u \in Users
          PROVE  ordersByUser'[u] = {id \in ordersById' : orders'[id].user = u}
      BY <2>1, <2>2, <1>1
    <2> QED BY <2>3, <2>4
  <1>10. \A id \in ordersById' : orders'[id].remaining > 0
                                /\ orders'[id].status \in {"new", "partially_filled"}
    <2>1. \A id \in ordersById : orders[id].remaining > 0
                                /\ orders[id].status \in {"new", "partially_filled"}
      BY DEF BookInv
    <2> QED BY <2>1, <1>1, <1>2, <1>7
  <1>11. ASSUME NEW side \in Sides
         PROVE  /\ SideHolds(side, levels'[side], orders')
                /\ \A id \in Ids : OnSide(id, levels'[side]) <=> id \in ordersById' /\ orders'[id].side = side
                /\ Ordered(side, levels[side]) => Ordered(side, levels'[side])
    <2> DEFINE ls == levels[side]
    <2>1. /\ SideHolds(side, ls, orders)
          /\ \A id \in Ids : OnSide(id, ls) <=> id \in ordersById /\ orders[id].side = side
      BY DEF BookInv
    <2>2. levels'[side] = WithIds(Stripped(ls, ids, orders))
      BY <1>1
    <2> HIDE DEF ls
    <2>3. /\ SideHolds(side, WithIds(Stripped(ls, ids, orders)), orders)
          /\ \A id : OnSide(id, WithIds(Stripped(ls, ids, orders))) <=> OnSide(id, ls) /\ id \notin ids
          /\ Ordered(side, ls) => Ordered(side, WithIds(Stripped(ls, ids, orders)))
      BY <2>1, <1>3, RemoveHolds
    <2>4. \A id \in DOMAIN orders : orders[id].side = side =>
              /\ id \in DOMAIN orders'
              /\ orders'[id].side = orders[id].side /\ orders'[id].price = orders[id].price
              /\ orders'[id].spelling = orders[id].spelling /\ orders'[id].remaining = orders[id].remaining
      BY <1>6, <1>7
    <2>5. SideHolds(side, levels'[side], orders')
      BY <2>2, <2>3, <2>4, SideKeeps
    <2>6. \A id \in ordersById : orders'[id].side = orders[id].side
      BY <1>2, <1>7
    <2> QED BY <2>1, <2>2, <2>3, <2>5, <2>6, <1>1 DEF ls
  <1>16. PricedBook' => PricedBook
    BY <1>6, <1>7 DEF PricedBook
  <1>17. PricedBook' => \A side \in Sides : Ordered(side, levels'[side])
    BY <1>11, <1>16 DEF BookInv
  <1>12. levels' \in [Sides -> Seq(Level)]
    <2>1. \A side \in Sides : levels'[side] \in Seq(Level)
      BY <1>11 DEF SideHolds
    <2>2. levels' = [side \in Sides |-> levels'[side]]
      BY <1>1
    <2> QED BY <2>1, <2>2
  <1>13. trades' \in Seq(BookTrade)
         /\ \A i \in DOMAIN trades' : trades'[i].maker \in DOMAIN orders' /\ trades'[i].taker \in DOMAIN orders'
    BY <1>1, <1>6 DEF BookInv
  <1>14. FillsAddUp'
    <2>1. FillsAddUp
          /\ \A i \in DOMAIN trades : trades[i].maker \in DOMAIN orders /\ trades[i].taker \in DOMAIN orders
      BY DEF BookInv
    <2>2. ASSUME NEW i \in DOMAIN trades'
          PROVE  /\ orders'[trades'[i].maker].user # orders'[trades'[i].taker].user
                 /\ orders'[trades'[i].maker].side = Opposite(orders'[trades'[i].taker].side)
                 /\ trades'[i].price = orders'[trades'[i].maker].price
                 /\ Crosses(orders'[trades'[i].taker].side, orders'[trades'[i].taker].price, trades'[i].price)
      BY <2>1, <1>1, <1>7 DEF FillsAddUp
    <2>3. ASSUME NEW id \in DOMAIN orders'
          PROVE  orders'[id].size - orders'[id].remaining = TakenFrom(id, trades')
      BY <2>1, <1>1, <1>6, <1>7 DEF FillsAddUp
    <2> QED BY <2>2, <2>3 DEF FillsAddUp
  <1>15. CrossedOnlyBySelf'
    <2>1. CrossedOnlyBySelf
      BY DEF BookInv
    <2>2. \A id \in ordersById' : id \in ordersById /\ id \in DOMAIN orders
      BY <1>1, <1>2
    <2> QED BY <2>1, <2>2, <1>7, <1>16 DEF CrossedOnlyBySelf
  <1> QED BY <1>6, <1>8, <1>9, <1>10, <1>11, <1>12, <1>13, <1>14, <1>15, <1>17 DEF BookInv

(* The empty book.                                                           *)
LEMMA BookInitHolds ==
    ASSUME BookInit
    PROVE  BookInv
  <1>1. /\ orders = <<>> /\ ordersById = {} /\ trades = <<>>
        /\ levels = [side \in Sides |-> <<>>] /\ ordersByUser = [u \in Users |-> {}]
    BY DEF BookInit
  <1>2. orders \in Seq(Order) /\ DOMAIN orders = {} /\ Len(orders) = 0
        /\ trades \in Seq(BookTrade) /\ DOMAIN trades = {}
    BY <1>1
  <1>3. 0 <= MaxOrders
    BY BookConstants
  <1>4. ASSUME NEW side \in Sides
        PROVE  /\ SideHolds(side, levels[side], orders) /\ \A id : ~OnSide(id, levels[side])
               /\ Ordered(side, levels[side])
    <2>1. levels[side] = <<>> /\ <<>> \in Seq(Level) /\ DOMAIN <<>> = {}
      BY <1>1
    <2> QED BY <2>1 DEF SideHolds, OnSide, Distinct, Ordered
  <1>5. levels \in [Sides -> Seq(Level)] /\ ordersByUser \in [Users -> SUBSET Ids]
    <2>1. <<>> \in Seq(Level)
      OBVIOUS
    <2> QED BY <2>1, <1>1
  <1>6. FillsAddUp /\ CrossedOnlyBySelf
    BY <1>1, <1>2 DEF FillsAddUp, CrossedOnlyBySelf
  <1> QED BY <1>1, <1>2, <1>3, <1>4, <1>5, <1>6 DEF BookInv

(* placeOrder refuses a request or accepts it with a sound match.            *)
LEMMA PlaceOrderMatches ==
    ASSUME BookInv, NEW req \in Requests, PlaceOrder(req)
    PROVE  /\ Len(orders) < MaxOrders
           /\ Reject(req) \/ \E m : MatchSound(req, m) /\ Accept(req, m)
  <1>1. Len(orders) < MaxOrders
    BY DEF PlaceOrder
  <1>2. orders \in Seq(Order) /\ Len(orders) <= MaxOrders
    BY DEF BookInv
  <1>3. SideHolds(Opposite(req.side), levels[Opposite(req.side)], orders)
    <2>1. Opposite(req.side) \in Sides
      BY DEF Opposite, Sides
    <2> QED BY <2>1 DEF BookInv
  <1>4. CASE Reject(req)
    BY <1>1, <1>4
  <1>5. CASE ~WouldCross(req) /\ Accept(req, Nothing(req))
    <2>1. MatchSound(req, Nothing(req))
      BY <1>2, <1>3, <1>5, NothingIsSound
    <2> QED BY <2>1, <1>1, <1>5
  <1>6. CASE Accept(req, Matching(req))
    <2>1. MatchSound(req, Matching(req))
      BY <1>1, <1>2, <1>3, MatchingIsSound
    <2> QED BY <2>1, <1>1, <1>6
  <1> QED BY <1>4, <1>5, <1>6 DEF PlaceOrder

(* placeOrder keeps the invariant.                                           *)
LEMMA PlaceOrderHolds ==
    ASSUME BookInv, NEW req \in Requests, PlaceOrder(req)
    PROVE  BookInv'
  BY PlaceOrderMatches, RejectHolds, AcceptHolds

(* cancelOrder keeps the invariant.                                          *)
LEMMA CancelHolds ==
    ASSUME BookInv, NEW user, NEW id, CancelOrder(user, id)
    PROVE  BookInv'
  <1>1. {id} \in SUBSET ordersById /\ RemoveFromBook({id})
    BY DEF CancelOrder
  <1> QED BY <1>1, RemoveFromBookHolds

(* cancelAllOrders keeps the invariant.                                      *)
LEMMA CancelAllHolds ==
    ASSUME BookInv, NEW user, CancelAllOrders(user)
    PROVE  BookInv'
  <1> DEFINE ids == {id \in ordersByUser[user] : id \in ordersById /\ orders[id].user = user}
  <1>1. ids \in SUBSET ordersById /\ RemoveFromBook(ids)
    BY DEF CancelAllOrders
  <1> HIDE DEF ids
  <1> QED BY <1>1, RemoveFromBookHolds

(* So does a step that leaves the book alone.                                *)
LEMMA BookStays ==
    ASSUME BookInv, UNCHANGED bookVars
    PROVE  BookInv'
  BY DEF BookInv, bookVars, FillsAddUp, CrossedOnlyBySelf, PricedBook

(* Strictly increasing ids are as many as they are long. *)
LEMMA IncreasingCount ==
    ASSUME NEW ids \in Seq(Ids), Increasing(ids)
    PROVE  Cardinality(ToSet(ids)) = Len(ids)
  <1>1. Len(ids) \in Nat /\ DOMAIN ids = 1..Len(ids) /\ ids \in [1..Len(ids) -> Ids]
    BY LenProperties
  <1>2. \A i \in DOMAIN ids : ids[i] \in Int
    BY <1>1, BookConstants DEF Ids
  <1>3. \A i, j \in 1..Len(ids) : ids[i] = ids[j] => i = j
    BY <1>1, <1>2 DEF Increasing
  <1>4. ToSet(ids) = {ids[i] : i \in 1..Len(ids)}
    BY <1>1 DEF ToSet
  <1>5. ids \in Bijection(1..Len(ids), ToSet(ids))
    <2>1. ids \in [1..Len(ids) -> ToSet(ids)]
      BY <1>1, <1>4
    <2>2. \A y \in ToSet(ids) : \E i \in 1..Len(ids) : ids[i] = y
      BY <1>4
    <2> QED BY <2>1, <2>2, <1>3 DEF Bijection, Injection, Surjection, IsInjective
  <1>6. IsFiniteSet(1..Len(ids)) /\ Cardinality(1..Len(ids)) = Len(ids)
    <2>1. IsFiniteSet(1..Len(ids)) /\ Cardinality(1..Len(ids)) = IF 1 > Len(ids) THEN 0 ELSE Len(ids) - 1 + 1
      BY <1>1, FS_Interval
    <2> QED BY <2>1, <1>1
  <1>7. ExistsBijection(1..Len(ids), ToSet(ids))
    BY <1>5 DEF ExistsBijection
  <1>8. Cardinality(ToSet(ids)) = Cardinality(1..Len(ids))
    <2> DEFINE S == 1..Len(ids)
    <2> HIDE DEF S
    <2> QED BY <1>6, <1>7, FS_Bijection DEF S
  <1> QED BY <1>6, <1>8

(* The invariant says that the structures of the book agree.                 *)
LEMMA BookInvAgrees ==
    ASSUME BookInv
    PROVE  BookAgrees
  <1>1. /\ \A u \in Users : ordersByUser[u] = {id \in ordersById : orders[id].user = u}
        /\ \A id \in ordersById : orders[id].remaining > 0
                              /\ orders[id].status \in {"new", "partially_filled"}
        /\ \A side \in Sides : SideHolds(side, levels[side], orders)
        /\ \A side \in Sides : \A id \in Ids :
              OnSide(id, levels[side]) <=> id \in ordersById /\ orders[id].side = side
        /\ orders \in Seq(Order) /\ Len(orders) <= MaxOrders /\ ordersById \subseteq DOMAIN orders
    BY DEF BookInv
  <1>2. \A id \in ordersById : id \in Ids /\ orders[id].side \in Sides
    BY <1>1, OrdersFacts
  <1>3. ASSUME NEW side \in Sides
        PROVE  /\ DOMAIN levels[side] = 1..Len(levels[side]) /\ Len(levels[side]) \in Nat
               /\ \A i \in DOMAIN levels[side] :
                    /\ levels[side][i] \in Level /\ levels[side][i].ids \in Seq(Ids)
                    /\ levels[side][i].ids # <<>>
                    /\ LevelHolds(levels[side][i], side, orders)
               /\ Distinct(levels[side])
               /\ PricedBook => Ordered(side, levels[side])
    <2>1. levels[side] \in Seq(Level) /\ SideHolds(side, levels[side], orders)
      BY <1>1 DEF SideHolds
    <2>2. DOMAIN levels[side] = 1..Len(levels[side]) /\ Len(levels[side]) \in Nat
          /\ \A i \in DOMAIN levels[side] : levels[side][i] \in Level
      BY <2>1, LenProperties
    <2>3. \A l \in Level : l.ids \in Seq(Ids)
      BY DEF Level
    <2>4. PricedBook => Ordered(side, levels[side])
      BY DEF BookInv
    <2> QED BY <2>1, <2>2, <2>3, <2>4 DEF SideHolds
  <1>4. ordersById = UNION {ToSet(l.ids) : l \in UNION {ToSet(levels[side]) : side \in Sides}}
    <2> DEFINE Ls == UNION {ToSet(levels[side]) : side \in Sides}
               U == UNION {ToSet(l.ids) : l \in Ls}
    <2>1. ASSUME NEW id \in ordersById PROVE id \in U
      <3> DEFINE side == orders[id].side
      <3>1. side \in Sides /\ OnSide(id, levels[side])
        BY <1>1, <1>2
      <3> HIDE DEF side
      <3>2. PICK i \in DOMAIN levels[side] : id \in ToSet(levels[side][i].ids)
        BY <3>1 DEF OnSide
      <3>3. levels[side][i] \in ToSet(levels[side])
        BY DEF ToSet
      <3>4. levels[side][i] \in Ls
        BY <3>1, <3>3
      <3> HIDE DEF Ls
      <3> QED BY <3>2, <3>4
    <2>2. ASSUME NEW id \in U PROVE id \in ordersById
      <3>1. PICK l \in Ls : id \in ToSet(l.ids)
        OBVIOUS
      <3>2. PICK side \in Sides : l \in ToSet(levels[side])
        BY <3>1
      <3>3. PICK i \in DOMAIN levels[side] : l = levels[side][i]
        BY <3>2 DEF ToSet
      <3>4. OnSide(id, levels[side])
        BY <3>1, <3>3 DEF OnSide
      <3>5. id \in Ids
        BY <3>1, <3>3, <1>3, ToSetIds
      <3> QED BY <3>4, <3>5, <1>1
    <2> HIDE DEF U, Ls
    <2>3. ordersById = U
      BY <2>1, <2>2
    <2> QED BY <2>3 DEF U, Ls
  <1>5. ASSUME NEW side \in Sides, NEW i \in DOMAIN levels[side]
        PROVE  LET l == levels[side][i]
               IN  /\ l.ids # <<>> /\ Cardinality(ToSet(l.ids)) = Len(l.ids)
                   /\ \A id \in ToSet(l.ids) :
                        orders[id].side = side /\ orders[id].price = l.price
                        /\ orders[id].spelling = l.spelling
                   /\ l.total = Total(ToSet(l.ids), orders)
                   /\ \A j \in 1..(i - 1) : /\ PricedBook => ~Better(side, l.price, levels[side][j].price)
                                            /\ l.price = levels[side][j].price
                                               => l.spelling # levels[side][j].spelling
    <2> DEFINE l == levels[side][i]
    <2>1. l.ids # <<>> /\ l.ids \in Seq(Ids) /\ LevelHolds(l, side, orders)
      BY <1>3
    <2>2. Cardinality(ToSet(l.ids)) = Len(l.ids)
      <3>1. Increasing(l.ids)
        BY <2>1 DEF LevelHolds
      <3> QED BY <2>1, <3>1, IncreasingCount
    <2>3. /\ \A id \in ToSet(l.ids) :
                        orders[id].side = side /\ orders[id].price = l.price
                        /\ orders[id].spelling = l.spelling
          /\ l.total = Total(ToSet(l.ids), orders)
      BY <2>1 DEF LevelHolds
    <2>4. ASSUME NEW j \in 1..(i - 1)
          PROVE  /\ PricedBook => ~Better(side, l.price, levels[side][j].price)
                 /\ l.price = levels[side][j].price => l.spelling # levels[side][j].spelling
      <3>1. j \in DOMAIN levels[side] /\ j < i
        BY <1>3
      <3> QED BY <3>1, <1>3 DEF Distinct, Ordered
    <2> QED BY <2>1, <2>2, <2>3, <2>4
  <1> QED BY <1>1, <1>4, <1>5 DEF BookAgrees

(* The invariant gives every variable of the book its type.                  *)
LEMMA BookInvTypes ==
    ASSUME BookInv
    PROVE  BookTypeOK
  <1>1. orders \in Seq(Order) /\ Len(orders) <= MaxOrders /\ ordersById \subseteq DOMAIN orders
    BY DEF BookInv
  <1>2. DOMAIN orders \subseteq Ids
    BY <1>1, OrdersFacts
  <1> QED BY <1>1, <1>2 DEF BookInv, BookTypeOK

(* A sound match passes over nobody.                                         *)
LEMMA AcceptKeepsPriority ==
    ASSUME BookInv, NEW req \in Requests, NEW m, Len(orders) < MaxOrders,
           MatchSound(req, m), Accept(req, m)
    PROVE  Priority
  <1> DEFINE opp == Opposite(req.side)
             a == Len(trades)
             ts == m.trades
  <1>1. SUFFICES ASSUME NEW i \in (a + 1)..Len(trades'), NEW id \in ordersById,
                        orders[id].side = orders[trades'[i].maker].side,
                        orders[id].user # orders'[trades'[i].taker].user,
                        \/ /\ PricedBook
                           /\ Better(orders[trades'[i].maker].side,
                                     orders[id].price, orders[trades'[i].maker].price)
                        \/ SameLevel(id, trades'[i].maker) /\ id < trades'[i].maker
                 PROVE  orders'[id].remaining = 0
    BY DEF Priority, SameLevel
  <1>2. AcceptedBook(req, m)
    BY AcceptFacts
  <1>3. trades' = trades \o ts /\ trades \in Seq(BookTrade) /\ ts \in Seq(BookTrade)
    BY DEF Accept, BookInv, MatchSound
  <1>4. a \in Nat /\ Len(ts) \in Nat /\ DOMAIN ts = 1..Len(ts)
    BY <1>3, LenProperties
  <1>5. /\ Len(trades') = a + Len(ts)
        /\ \A k \in 1..(a + Len(ts)) : trades'[k] = IF k <= a THEN trades[k] ELSE ts[k - a]
    BY <1>3, ConcatProperties
  <1> DEFINE j == i - a
             mk == ts[j].maker
  <1>6. j \in DOMAIN ts /\ trades'[i] = ts[j]
    BY <1>4, <1>5
  <1> HIDE DEF j, a
  <1>7. /\ mk \in DOMAIN orders /\ orders[mk].side = opp
        /\ orders'[Len(orders) + 1].user = req.user
        /\ id \in DOMAIN orders
        /\ orders'[id].remaining = orders[id].remaining - TakenFrom(id, ts)
        /\ orders[id].remaining \in Nat /\ id \in Ids
    <2>1. ordersById \subseteq DOMAIN orders
      BY DEF BookInv
    <2> QED BY <1>2, <1>6, <2>1 DEF AcceptedBook, Record
  <1>8. ts[j].taker = Len(orders) + 1 /\ Meets(req, mk)
    BY <1>6 DEF MatchSound
  <1>10. opp \in Sides /\ req.side \in Sides /\ req.price \in Prices
    BY RequestFacts DEF Opposite, Sides
  <1>9. orders[id].side = opp /\ orders[id].user # req.user /\ Before(opp, id, mk)
    <2>1. PricedBook => Ordered(opp, levels[opp])
      BY <1>10 DEF BookInv
    <2> QED BY <2>1, <1>1, <1>6, <1>7, <1>8 DEF Before
  <1>11. OnSide(id, levels[opp])
    BY <1>7, <1>9, <1>10 DEF BookInv
  <1>12. Crosses(req.side, req.price, orders[id].price)
    <2>1. Crosses(req.side, req.price, orders[mk].price)
      BY <1>8 DEF Meets
    <2> DEFINE q == orders[id].price
               r == orders[mk].price
    <2>2. q \in Prices /\ r \in Prices
      <3>1. orders \in Seq(Order) /\ Len(orders) <= MaxOrders
        BY DEF BookInv
      <3> QED BY <3>1, <1>7, OrdersFacts
    <2>3. q = r \/ (q # NaN /\ r # NaN /\ Better(opp, q, r))
      BY <1>9 DEF Before, SameLevel, Better, Above
    <2> HIDE DEF q, r
    <2>4. q = r \/ ~Better(opp, r, q)
      BY <2>2, <2>3, BetterOrder
    <2>5. Crosses(req.side, req.price, r)
      BY <2>1 DEF r
    <2>6. Crosses(req.side, req.price, q)
      BY <2>2, <2>3, <2>4, <2>5, <1>10, CrossesBetter
    <2> QED BY <2>6 DEF q
  <1>13. Meets(req, id)
    BY <1>9, <1>11, <1>12 DEF Meets
  <1>14. TakenFrom(id, ts) = orders[id].remaining
    BY <1>6, <1>9, <1>13 DEF MatchSound
  <1> QED BY <1>7, <1>14

(* Nor does a step without a trade.                                          *)
LEMMA QuietKeepsPriority ==
    ASSUME BookInv, trades' = trades
    PROVE  Priority
  <1>1. Len(trades) \in Nat /\ Len(trades') = Len(trades)
    BY LenProperties DEF BookInv
  <1> QED BY <1>1 DEF Priority

(* placeOrder respects price-time priority.                                  *)
LEMMA PlaceOrderKeepsPriority ==
    ASSUME BookInv, NEW req \in Requests, PlaceOrder(req)
    PROVE  Priority
  <1>1. CASE Reject(req)
    BY <1>1, QuietKeepsPriority DEF Reject
  <1>2. CASE \E m : MatchSound(req, m) /\ Accept(req, m)
    BY <1>2, PlaceOrderMatches, AcceptKeepsPriority
  <1> QED BY <1>1, <1>2, PlaceOrderMatches

(* FlattenSeq computes its value through a recursive function. *)
IsFlat(f, s, n) == f = [i \in 1..n |-> IF i = 1 THEN s[i] ELSE f[i - 1] \o s[i]]

(* There is such a function for every sequence of sequences.                 *)
LEMMA FlatExists ==
    ASSUME NEW s, NEW n \in Nat
    PROVE  \E f : IsFlat(f, s, n)
  <1> DEFINE G == {k \in Nat : \E f : IsFlat(f, s, k)}
  <1>1. 0 \in G
    <2>1. IsFlat([i \in 1..0 |-> s[i]], s, 0)
      BY DEF IsFlat
    <2> QED BY <2>1
  <1>2. ASSUME NEW k \in Nat, k \in G PROVE k + 1 \in G
    <2>1. PICK f : IsFlat(f, s, k)
      BY <1>2
    <2> DEFINE next(i) == IF i = 1 THEN s[i] ELSE f[i - 1] \o s[i]
               g == [i \in 1..(k + 1) |-> next(i)]
    <2>2. \A i \in 1..k : f[i] = next(i)
      BY <2>1 DEF IsFlat
    <2>3. \A i \in 1..k : g[i] = f[i]
      BY <2>2
    <2>4. \A i \in 1..(k + 1) : i = 1 \/ i - 1 \in 1..k
      OBVIOUS
    <2>5. \A i \in 1..(k + 1) : g[i] = IF i = 1 THEN s[i] ELSE g[i - 1] \o s[i]
      <3> SUFFICES ASSUME NEW i \in 1..(k + 1)
                   PROVE  g[i] = IF i = 1 THEN s[i] ELSE g[i - 1] \o s[i]
        OBVIOUS
      <3>1. g[i] = next(i)
        OBVIOUS
      <3>2. i # 1 => g[i - 1] = f[i - 1]
        BY <2>3, <2>4
      <3> HIDE DEF g
      <3> QED BY <3>1, <3>2
    <2>6. g = [i \in 1..(k + 1) |-> g[i]]
      OBVIOUS
    <2> HIDE DEF g
    <2>7. IsFlat(g, s, k + 1)
      BY <2>5, <2>6 DEF IsFlat
    <2> QED BY <2>7
  <1>3. n \in G
    <2> HIDE DEF G
    <2> QED BY <1>1, <1>2, NatSetInduction
  <1> QED BY <1>3

(* Two sequences begin alike.                                               *)
SameUpTo(s, t, n) == \A i \in 1..n : s[i] = t[i]

(* Two of these functions agree as far as their sequences do. *)
LEMMA FlatAgrees ==
    ASSUME NEW s, NEW t, NEW m \in Nat, NEW n \in Nat, m <= n,
           NEW f, IsFlat(f, s, m), NEW g, IsFlat(g, t, n), SameUpTo(s, t, m)
    PROVE  SameUpTo(f, g, m)
  <1> DEFINE G == {k \in Nat : \A i \in 1..m : i <= k => f[i] = g[i]}
  <1>1. 0 \in G
    OBVIOUS
  <1>2. ASSUME NEW k \in Nat, k \in G PROVE k + 1 \in G
    <2> SUFFICES ASSUME NEW i \in 1..m, i = k + 1 PROVE f[i] = g[i]
      BY <1>2
    <2>1. f[i] = IF i = 1 THEN s[i] ELSE f[i - 1] \o s[i]
      BY DEF IsFlat
    <2>2. g[i] = IF i = 1 THEN t[i] ELSE g[i - 1] \o t[i]
      <3>1. i \in 1..n
        OBVIOUS
      <3> QED BY <3>1 DEF IsFlat
    <2>3. i = 1 \/ f[i - 1] = g[i - 1]
      <3>1. i = 1 \/ (i - 1 \in 1..m /\ i - 1 <= k)
        OBVIOUS
      <3> QED BY <3>1, <1>2
    <2>4. s[i] = t[i]
      BY DEF SameUpTo
    <2> QED BY <2>1, <2>2, <2>3, <2>4
  <1>3. m \in G
    <2> HIDE DEF G
    <2> QED BY <1>1, <1>2, NatSetInduction
  <1> QED BY <1>3 DEF SameUpTo

(* FlattenSeq is the last value of such a function.                          *)
LEMMA FlattenIs ==
    ASSUME NEW T, NEW s \in Seq(T), s # <<>>
    PROVE  \E f : IsFlat(f, s, Len(s)) /\ FlattenSeq(s) = f[Len(s)] /\ Len(s) \in Nat \ {0}
  <1> DEFINE n == Len(s)
             f == CHOOSE f : f = [i \in 1..n |-> IF i = 1 THEN s[i] ELSE f[i - 1] \o s[i]]
  <1>1. n \in Nat \ {0}
    BY EmptySeq, LenProperties
  <1>2. FlattenSeq(s) = f[n]
    BY <1>1 DEF FlattenSeq
  <1>3. \E g : IsFlat(g, s, n)
    BY <1>1, FlatExists
  <1>4. IsFlat(f, s, n)
    BY <1>3 DEF IsFlat
  <1> QED BY <1>1, <1>2, <1>4

(* One more sequence comes behind the others.                                *)
LEMMA FlattenAppend ==
    ASSUME NEW T, NEW s \in Seq(Seq(T)), NEW x \in Seq(T)
    PROVE  FlattenSeq(Append(s, x)) = FlattenSeq(s) \o x
  <1> DEFINE t == Append(s, x)
             n == Len(s)
  <1>1. /\ t \in Seq(Seq(T)) /\ t # <<>> /\ Len(t) = n + 1
        /\ \A i \in 1..n : t[i] = s[i]
        /\ t[n + 1] = x
    BY AppendProperties
  <1>2. n \in Nat
    BY LenProperties
  <1> HIDE DEF t, n
  <1>3. PICK g : IsFlat(g, t, n + 1) /\ FlattenSeq(t) = g[n + 1]
    <2>1. PICK g : IsFlat(g, t, Len(t)) /\ FlattenSeq(t) = g[Len(t)]
      BY <1>1, FlattenIs
    <2> QED BY <2>1, <1>1
  <1>4. g[n + 1] = IF n + 1 = 1 THEN t[n + 1] ELSE g[(n + 1) - 1] \o t[n + 1]
    <2>1. n + 1 \in 1..(n + 1)
      BY <1>2
    <2> QED BY <2>1, <1>3 DEF IsFlat
  <1>5. CASE s = <<>>
    <2>1. n = 0
      BY <1>5 DEF n
    <2>2. FlattenSeq(s) = <<>>
      BY <1>5 DEF FlattenSeq
    <2>3. FlattenSeq(t) = x
      BY <2>1, <1>1, <1>3, <1>4
    <2>4. <<>> \o x = x
      BY ConcatEmptySeq
    <2> QED BY <2>2, <2>3, <2>4 DEF t
  <1>6. CASE s # <<>>
    <2>1. PICK f : IsFlat(f, s, n) /\ FlattenSeq(s) = f[n] /\ n \in Nat \ {0}
      BY <1>6, FlattenIs DEF n
    <2>2. \A i \in 1..n : f[i] = g[i]
      <3>1. /\ n \in Nat /\ n + 1 \in Nat /\ n <= n + 1
            /\ SameUpTo(s, t, n)
        BY <1>1, <1>2 DEF SameUpTo
      <3>2. IsFlat(f, s, n) /\ IsFlat(g, t, n + 1)
        BY <2>1, <1>3
      <3>3. SameUpTo(f, g, n)
        BY <3>1, <3>2, FlatAgrees
      <3> QED BY <3>3 DEF SameUpTo
    <2>3. n \in 1..n /\ (n + 1) - 1 = n /\ n + 1 # 1
      BY <2>1
    <2>4. FlattenSeq(t) = f[n] \o x
      BY <2>2, <2>3, <1>1, <1>3, <1>4
    <2> QED BY <2>1, <2>4 DEF t
  <1> QED BY <1>5, <1>6

(* What is flattened has the type of its parts.                              *)
LEMMA FlattenType ==
    ASSUME NEW T, NEW s \in Seq(Seq(T))
    PROVE  FlattenSeq(s) \in Seq(T)
  <1>1. CASE s = <<>>
    <2>1. FlattenSeq(s) = <<>>
      BY <1>1 DEF FlattenSeq
    <2> QED BY <2>1
  <1>2. CASE s # <<>>
    <2> DEFINE n == Len(s)
    <2>1. PICK f : IsFlat(f, s, n) /\ FlattenSeq(s) = f[n] /\ n \in Nat \ {0}
      BY <1>2, FlattenIs
    <2>2. \A i \in 1..n : s[i] \in Seq(T)
      BY ElementOfSeq
    <2> HIDE DEF n
    <2> DEFINE G == {k \in Nat : \A i \in 1..n : i <= k => f[i] \in Seq(T)}
    <2>3. 0 \in G
      BY <2>1
    <2>4. ASSUME NEW k \in Nat, k \in G PROVE k + 1 \in G
      <3> SUFFICES ASSUME NEW i \in 1..n, i = k + 1 PROVE f[i] \in Seq(T)
        BY <2>1, <2>4
      <3>1. f[i] = IF i = 1 THEN s[i] ELSE f[i - 1] \o s[i]
        BY <2>1 DEF IsFlat
      <3>2. i = 1 \/ f[i - 1] \in Seq(T)
        <4>1. i = 1 \/ (i - 1 \in 1..n /\ i - 1 <= k)
          BY <2>1
        <4> QED BY <4>1, <2>4
      <3>3. i # 1 => f[i - 1] \o s[i] \in Seq(T)
        BY <3>2, <2>2, ConcatProperties
      <3> QED BY <3>1, <3>3, <2>2
    <2>5. n \in G
      <3> HIDE DEF G
      <3> QED BY <2>1, <2>3, <2>4, NatSetInduction
    <2> QED BY <2>1, <2>5
  <1> QED BY <1>1, <1>2

-----------------------------------------------------------------------------
(* The matching engine: every trade of the book is in a batch or pending.  *)

(* The inductive invariant of the book and the engine together.              *)
EngineInv ==
    /\ BookInv
    /\ serving \in BOOLEAN
    /\ pendingSettlement \in Seq(ToSet(trades))
    /\ batches \in Seq(Seq(ToSet(trades)))
    /\ routed \in [Ids -> 0..MaxSize]
    /\ SettledOnce

(* A placed order adds trades behind those there were.                     *)
LEMMA PlaceOrderTrades ==
    ASSUME BookInv, NEW req \in Requests, PlaceOrder(req)
    PROVE  \E ts \in Seq(BookTrade) : trades' = trades \o ts
  <1>1. trades \in Seq(BookTrade)
    BY DEF BookInv
  <1>2. CASE Reject(req)
    <2>1. trades' = trades \o <<>> /\ <<>> \in Seq(BookTrade)
      BY <1>1, <1>2, ConcatEmptySeq DEF Reject
    <2> QED BY <2>1
  <1>3. CASE \E m : MatchSound(req, m) /\ Accept(req, m)
    BY <1>3 DEF MatchSound, Accept
  <1> QED BY <1>2, <1>3, PlaceOrderMatches

(* What follows the first part of a concatenation is its second part.      *)
LEMMA TailOfConcat ==
    ASSUME NEW T, NEW s \in Seq(T), NEW t \in Seq(T)
    PROVE  SubSeq(s \o t, Len(s) + 1, Len(s \o t)) = t
  <1> DEFINE u == s \o t
             a == Len(s)
             b == Len(t)
             v == SubSeq(u, a + 1, Len(u))
  <1>1. /\ a \in Nat /\ b \in Nat
    BY LenProperties
  <1>2. /\ u \in Seq(T) /\ Len(u) = a + b
        /\ \A i \in 1..(a + b) : u[i] = IF i <= a THEN s[i] ELSE t[i - a]
    BY ConcatProperties
  <1>3. \A i \in (a + 1)..Len(u) : u[i] \in T
    <2>1. \A i \in 1..Len(u) : u[i] \in T
      BY <1>2, ElementOfSeq
    <2> HIDE DEF u, a
    <2> QED BY <2>1, <1>1
  <1> HIDE DEF u, a, b
  <1>4. /\ v \in Seq(T)
        /\ Len(v) = IF a + 1 <= Len(u) THEN Len(u) - (a + 1) + 1 ELSE 0
        /\ \A i \in 1..(Len(u) - (a + 1) + 1) : v[i] = u[(a + 1) + i - 1]
    <2>1. a + 1 \in Int /\ Len(u) \in Int
      BY <1>1, <1>2
    <2> QED BY <2>1, <1>3, SubSeqProperties
  <1>5. Len(v) = b
    BY <1>1, <1>2, <1>4
  <1>6. \A i \in 1..b : v[i] = t[i]
    <2> SUFFICES ASSUME NEW i \in 1..b PROVE v[i] = t[i]
      OBVIOUS
    <2>1. i \in 1..(Len(u) - (a + 1) + 1) /\ (a + 1) + i - 1 = a + i /\ a + i \in 1..(a + b)
          /\ ~(a + i <= a) /\ (a + i) - a = i
      BY <1>1, <1>2
    <2> QED BY <2>1, <1>2, <1>4
  <1> HIDE DEF v
  <1>7. v = t
    BY <1>4, <1>5, <1>6, SeqEqual DEF b
  <1> QED BY <1>7 DEF v, u, a

(* A longer list of trades has the members of the shorter.                 *)
LEMMA LongerHasAll ==
    ASSUME NEW T, NEW s \in Seq(T), NEW t \in Seq(T)
    PROVE  /\ ToSet(s) \subseteq ToSet(s \o t) /\ ToSet(t) \subseteq ToSet(s \o t)
           /\ s \in Seq(ToSet(s)) /\ t \in Seq(ToSet(t))
  <1> DEFINE a == Len(s)
             b == Len(t)
             u == s \o t
  <1>1. a \in Nat /\ b \in Nat /\ DOMAIN s = 1..a /\ DOMAIN t = 1..b
    BY LenProperties
  <1>2. /\ u \in Seq(T) /\ Len(u) = a + b
        /\ \A i \in 1..(a + b) : u[i] = IF i <= a THEN s[i] ELSE t[i - a]
    BY ConcatProperties
  <1>3. DOMAIN u = 1..(a + b)
    BY <1>2, LenProperties
  <1>4. s \in Seq(ToSet(s)) /\ t \in Seq(ToSet(t))
    <2>1. s \in [1..a -> ToSet(s)]
      <3>1. s \in [1..a -> T]
        BY LenProperties
      <3> QED BY <3>1, <1>1 DEF ToSet
    <2>2. t \in [1..b -> ToSet(t)]
      <3>1. t \in [1..b -> T]
        BY LenProperties
      <3> QED BY <3>1, <1>1 DEF ToSet
    <2> HIDE DEF a, b
    <2> QED BY <2>1, <2>2, <1>1, FunIsSeq
  <1> HIDE DEF a, b, u
  <1>5. ASSUME NEW i \in 1..a PROVE s[i] \in ToSet(u)
    <2>1. i \in 1..(a + b) /\ i <= a
      BY <1>1
    <2> QED BY <2>1, <1>2, <1>3 DEF ToSet
  <1>6. ASSUME NEW i \in 1..b PROVE t[i] \in ToSet(u)
    <2>1. a + i \in 1..(a + b) /\ ~(a + i <= a) /\ (a + i) - a = i
      BY <1>1
    <2>2. u[a + i] = t[i]
      BY <2>1, <1>2
    <2> QED BY <2>1, <2>2, <1>3 DEF ToSet
  <1>7. ToSet(s) \subseteq ToSet(u) /\ ToSet(t) \subseteq ToSet(u)
    <2>1. ToSet(s) = {s[i] : i \in 1..a} /\ ToSet(t) = {t[i] : i \in 1..b}
      BY <1>1 DEF ToSet
    <2> QED BY <2>1, <1>5, <1>6
  <1> QED BY <1>4, <1>7 DEF u

(* The engine starts with nothing to settle.                                 *)
LEMMA EngineInitHolds ==
    ASSUME MatchingInit
    PROVE  EngineInv
  <1>1. BookInv /\ trades = <<>> /\ batches = <<>> /\ pendingSettlement = <<>> /\ serving = TRUE
        /\ routed = [id \in Ids |-> 0]
    BY BookInitHolds DEF MatchingInit, BookInit, EngineInit
  <1>2. FlattenSeq(batches) = <<>>
    BY <1>1 DEF FlattenSeq
  <1>3. <<>> \o <<>> = <<>>
    BY ConcatEmptySeq, EmptySeq
  <1>4. 0 \in 0..MaxSize
    BY BookConstants
  <1>5. pendingSettlement \in Seq(ToSet(trades)) /\ batches \in Seq(Seq(ToSet(trades)))
    BY <1>1
  <1>6. SettledOnce
    BY <1>1, <1>2, <1>3 DEF SettledOnce
  <1> QED BY <1>1, <1>4, <1>5, <1>6 DEF EngineInv

(* The trades of a step join the pending ones, so that all the trades are  *)
(* still the batches and then what is pending.                             *)
LEMMA SubmitOrderHolds ==
    ASSUME EngineInv, NEW req \in Requests, SubmitOrder(req)
    PROVE  EngineInv'
  <1>1. BookInv /\ BookInv' /\ PlaceOrder(req)
    BY PlaceOrderHolds DEF EngineInv, SubmitOrder
  <1>2. PICK ts \in Seq(BookTrade) : trades' = trades \o ts
    BY <1>1, PlaceOrderTrades
  <1>3. trades \in Seq(BookTrade)
    BY <1>1 DEF BookInv
  <1> DEFINE A == ToSet(trades)
             B == ToSet(trades')
             flat == FlattenSeq(batches)
  <1>4. A \subseteq B /\ ts \in Seq(B)
    <2>1. A \subseteq B /\ ToSet(ts) \subseteq B /\ ts \in Seq(ToSet(ts))
      BY <1>2, <1>3, LongerHasAll
    <2> QED BY <2>1, SeqMonotonic
  <1>5. /\ pendingSettlement \in Seq(A) /\ batches \in Seq(Seq(A))
        /\ routed \in [Ids -> 0..MaxSize] /\ serving \in BOOLEAN
        /\ trades = flat \o pendingSettlement
        /\ serving
    BY DEF EngineInv, SettledOnce, SubmitOrder
  <1>6. pendingSettlement' = pendingSettlement \o ts
    <2>1. SubSeq(trades', Len(trades) + 1, Len(trades')) = ts
      BY <1>2, <1>3, TailOfConcat
    <2> QED BY <2>1 DEF SubmitOrder, Queued
  <1>7. serving' = serving /\ batches' = batches
    BY DEF SubmitOrder
  <1>8. routed' \in [Ids -> 0..MaxSize]
    <2>1. Len(orders') \in DOMAIN orders' /\ orders'[Len(orders')].remaining \in 0..MaxSize
      <3>1. orders' \in Seq(Order) /\ Len(orders') <= MaxOrders
        BY <1>1 DEF BookInv
      <3>2. orders' # <<>>
        <4>1. CASE Reject(req)
          BY <4>1, <1>1 DEF Reject, BookInv
        <4>2. CASE \E m : MatchSound(req, m) /\ Accept(req, m)
          <5>1. PICK m : MatchSound(req, m) /\ Accept(req, m)
            BY <4>2
          <5>2. Len(orders) < MaxOrders
            BY <1>1, PlaceOrderMatches
          <5>3. AcceptedBook(req, m)
            BY <5>1, <5>2, <1>1, AcceptFacts
          <5> QED BY <5>3 DEF AcceptedBook
        <4> QED BY <4>1, <4>2, <1>1, PlaceOrderMatches
      <3>3. Len(orders') \in Nat \ {0} /\ DOMAIN orders' = 1..Len(orders')
        BY <3>1, <3>2, EmptySeq, LenProperties
      <3>4. \A o \in Order : o.remaining \in 0..MaxSize
        BY DEF Order
      <3>5. orders'[Len(orders')] \in Order
        BY <3>1, <3>3, ElementOfSeq
      <3> QED BY <3>3, <3>4, <3>5
    <2>2. 0 \in 0..MaxSize
      BY BookConstants
    <2> QED BY <2>1, <2>2, <1>5 DEF SubmitOrder
  <1> HIDE DEF A, B
  <1>9. pendingSettlement \in Seq(B) /\ batches \in Seq(Seq(B))
    <2>1. Seq(A) \subseteq Seq(B)
      BY <1>4, SeqMonotonic
    <2> QED BY <2>1, <1>5, SeqMonotonic
  <1>10. pendingSettlement \o ts \in Seq(B)
    BY <1>9, <1>4, ConcatProperties
  <1>11. flat \in Seq(B)
    BY <1>9, FlattenType
  <1> HIDE DEF flat
  <1>12. trades' = flat \o (pendingSettlement \o ts)
    BY <1>2, <1>5, <1>4, <1>9, <1>11, ConcatAssociative
  <1>13. SettledOnce'
    BY <1>12, <1>6, <1>7, <1>5 DEF SettledOnce, flat
  <1> QED BY <1>1, <1>5, <1>6, <1>7, <1>8, <1>9, <1>10, <1>13 DEF EngineInv, B

(* A batch takes all that is pending, and in its order.                    *)
LEMMA FlushHolds ==
    ASSUME EngineInv, Flushed, UNCHANGED <<bookVars, routed>>, serving' \in BOOLEAN
    PROVE  EngineInv'
  <1>1. BookInv' /\ trades' = trades
    BY BookStays DEF EngineInv, bookVars
  <1> DEFINE A == ToSet(trades)
  <1>2. /\ pendingSettlement \in Seq(A) /\ batches \in Seq(Seq(A))
        /\ routed' \in [Ids -> 0..MaxSize]
        /\ trades = FlattenSeq(batches) \o pendingSettlement
    BY DEF EngineInv, SettledOnce
  <1> HIDE DEF A
  <1>3. pendingSettlement' = <<>>
    BY DEF Flushed
  <1>4. batches' \in Seq(Seq(A)) /\ trades = FlattenSeq(batches')
    <2>1. CASE pendingSettlement = <<>>
      <3>1. batches' = batches
        BY <2>1 DEF Flushed
      <3>2. FlattenSeq(batches) \in Seq(A)
        BY <1>2, FlattenType
      <3>3. FlattenSeq(batches) \o <<>> = FlattenSeq(batches)
        BY <3>2, ConcatEmptySeq
      <3> QED BY <2>1, <3>1, <3>3, <1>2
    <2>2. CASE pendingSettlement # <<>>
      <3>1. batches' = Append(batches, pendingSettlement)
        BY <2>2 DEF Flushed
      <3>2. Append(batches, pendingSettlement) \in Seq(Seq(A))
        BY <1>2, AppendProperties
      <3>3. FlattenSeq(Append(batches, pendingSettlement)) = FlattenSeq(batches) \o pendingSettlement
        BY <1>2, FlattenAppend
      <3> QED BY <3>1, <3>2, <3>3, <1>2
    <2> QED BY <2>1, <2>2
  <1>5. FlattenSeq(batches') \o <<>> = FlattenSeq(batches')
    <2>1. FlattenSeq(batches') \in Seq(A)
      BY <1>4, FlattenType
    <2> QED BY <2>1, ConcatEmptySeq
  <1>6. SettledOnce'
    BY <1>1, <1>3, <1>4, <1>5 DEF SettledOnce
  <1>7. ToSet(trades') = A /\ <<>> \in Seq(A)
    BY <1>1 DEF A
  <1> QED BY <1>1, <1>2, <1>3, <1>4, <1>6, <1>7 DEF EngineInv

(* Taking orders out of the book makes no trade.                           *)
LEMMA RemovingTradesNothing ==
    ASSUME NEW ids, RemoveFromBook(ids)
    PROVE  trades' = trades
  BY DEF RemoveFromBook

(* Cancelling leaves the settlement queue alone.                             *)
LEMMA CancelsHold ==
    ASSUME EngineInv, NEW user, (\E id : Cancel(user, id)) \/ CancelAll(user)
    PROVE  EngineInv'
  <1>1. BookInv
    BY DEF EngineInv
  <1>2. BookInv' /\ trades' = trades /\ UNCHANGED settlementVars
    <2>1. ASSUME NEW id, Cancel(user, id)
          PROVE  BookInv' /\ trades' = trades /\ UNCHANGED settlementVars
      <3>1. CancelOrder(user, id) /\ UNCHANGED settlementVars
        BY <2>1 DEF Cancel
      <3>2. trades' = trades
        <4>1. RemoveFromBook({id})
          BY <3>1 DEF CancelOrder
        <4> QED BY <4>1, RemovingTradesNothing
      <3> QED BY <3>1, <3>2, <1>1, CancelHolds
    <2>2. CASE CancelAll(user)
      <3>1. CancelAllOrders(user) /\ UNCHANGED settlementVars
        BY <2>2 DEF CancelAll
      <3>2. trades' = trades
        BY <3>1, RemovingTradesNothing DEF CancelAllOrders
      <3> QED BY <3>1, <3>2, <1>1, CancelAllHolds
    <2> QED BY <2>1, <2>2
  <1> QED BY <1>2 DEF EngineInv, settlementVars, SettledOnce

(* Every step keeps the invariant.                                           *)
LEMMA MatchingNextHolds ==
    ASSUME EngineInv, [MatchingNext]_matchingVars
    PROVE  EngineInv'
  <1>1. CASE ClientStep
    BY <1>1, SubmitOrderHolds, CancelsHold DEF ClientStep
  <1>2. CASE FlushSettlement
    <2>1. serving' \in BOOLEAN
      BY <1>2 DEF FlushSettlement
    <2> QED BY <1>2, <2>1, FlushHolds DEF FlushSettlement
  <1>3. CASE StopEngine
    BY <1>3, FlushHolds DEF StopEngine
  <1>4. CASE UNCHANGED matchingVars
    <2>1. BookInv' /\ trades' = trades /\ UNCHANGED settlementVars
      BY <1>4, BookStays DEF matchingVars, EngineInv, bookVars
    <2> QED BY <2>1 DEF EngineInv, settlementVars, SettledOnce
  <1> QED BY <1>1, <1>2, <1>3, <1>4 DEF MatchingNext

(* The inductive invariant of the order book and the matching engine.      *)
THEOREM MatchingInvariant == MatchingSpec => []EngineInv
  <1>1. MatchingInit => EngineInv
    BY EngineInitHolds
  <1>2. EngineInv /\ [MatchingNext]_matchingVars => EngineInv'
    BY MatchingNextHolds
  <1> QED BY <1>1, <1>2, PTL DEF MatchingSpec

(* The book, the settlement queue and the batches are of their types.      *)
THEOREM MatchingTypeCorrect == MatchingSpec => []MatchingTypeOK
  <1>1. EngineInv => MatchingTypeOK
    BY BookInvTypes DEF EngineInv, MatchingTypeOK
  <1> QED BY <1>1, MatchingInvariant, PTL

(* The levels, their totals, ordersById and ordersByUser agree through     *)
(* every placing and cancelling.                                           *)
THEOREM BookStaysInAgreement == MatchingSpec => []BookAgrees
  <1>1. EngineInv => BookAgrees
    BY BookInvAgrees DEF EngineInv
  <1> QED BY <1>1, MatchingInvariant, PTL

(* What an order has traded is what it no longer has left, at the prices   *)
(* its makers asked and never beyond its limit (matchOrder), in unsorted   *)
(* books with unpriced levels too.                                         *)
THEOREM FillsAlwaysAddUp == MatchingSpec => []FillsAddUp
  <1>1. EngineInv => FillsAddUp
    BY DEF EngineInv, BookInv
  <1> QED BY <1>1, MatchingInvariant, PTL

(* While no order that may rest has come without a price, only one user's  *)
(* own orders ever cross each other in the book.                           *)
THEOREM NeverCrossedByOthers == MatchingSpec => []CrossedOnlyBySelf
  <1>1. EngineInv => CrossedOnlyBySelf
    BY DEF EngineInv, BookInv
  <1> QED BY <1>1, MatchingInvariant, PTL

(* Each trade is in exactly one batch or pending, in the order of matching. *)
THEOREM EachTradeSettledOnce == MatchingSpec => []SettledOnce
  <1>1. EngineInv => SettledOnce
    BY DEF EngineInv
  <1> QED BY <1>1, MatchingInvariant, PTL

(* A trade passes over no other user's older order at the same price and    *)
(* spelling that is still open afterwards, nor in a priced book a better one. *)
THEOREM PriceTimePriorityHolds == MatchingSpec => PriceTimePriority
  <1>1. EngineInv /\ [MatchingNext]_matchingVars => [Priority]_bookVars
    <2> SUFFICES ASSUME EngineInv, [MatchingNext]_matchingVars PROVE [Priority]_bookVars
      OBVIOUS
    <2>1. BookInv
      BY DEF EngineInv
    <2>2. ASSUME NEW req \in Requests, SubmitOrder(req) PROVE Priority
      BY <2>1, <2>2, PlaceOrderKeepsPriority DEF SubmitOrder
    <2>3. ASSUME NEW user, (\E id : Cancel(user, id)) \/ CancelAll(user) PROVE Priority
      <3>1. trades' = trades
        BY <2>3, RemovingTradesNothing DEF Cancel, CancelAll, CancelOrder, CancelAllOrders
      <3> QED BY <2>1, <3>1, QuietKeepsPriority
    <2>4. CASE ClientStep
      BY <2>4, <2>2, <2>3 DEF ClientStep
    <2>5. CASE FlushSettlement \/ StopEngine \/ UNCHANGED matchingVars
      BY <2>5 DEF FlushSettlement, StopEngine, matchingVars
    <2> QED BY <2>4, <2>5 DEF MatchingNext
  <1> QED BY <1>1, MatchingInvariant, PTL DEF MatchingSpec, PriceTimePriority

-----------------------------------------------------------------------------
(* The smart order router over the engine.                                 *)

(* What simulateInternalFill finds is a natural, and no more than asked for. *)
LEMMA InternalAvailableType ==
    ASSUME BookInv, NEW side \in Sides, NEW size \in Sizes
    PROVE  InternalAvailable(side, size) \in 0..size
  <1> DEFINE ls == levels[Opposite(side)]
             f == [i \in DOMAIN ls |-> ls[i].total]
             n == SumFunctionOnSet(f, DOMAIN ls)
  <1>1. ls \in Seq(Level)
    <2>1. Opposite(side) \in Sides
      BY DEF Opposite, Sides
    <2> QED BY <2>1 DEF BookInv
  <1>2. \A l \in Level : l.total \in Nat
    BY DEF Level
  <1>3. Len(ls) \in Nat /\ DOMAIN ls = 1..Len(ls) /\ \A i \in DOMAIN ls : ls[i] \in Level
    <2> HIDE DEF ls
    <2> QED BY <1>1, LenProperties, ElementOfSeq
  <1>4. IsFiniteSet(DOMAIN ls)
    <2> HIDE DEF ls
    <2> QED BY <1>3, FS_Interval
  <1>5. f \in [DOMAIN ls -> Nat]
    BY <1>2, <1>3
  <1>6. n \in Nat
    <2> HIDE DEF ls, f
    <2> QED BY <1>4, <1>5, SumOfNats DEF n
  <1>7. InternalAvailable(side, size) = Min({size, n})
    BY DEF InternalAvailable
  <1>8. size \in Nat
    BY BookConstants DEF Sizes
  <1> HIDE DEF n
  <1>9. Min({size, n}) = IF size <= n THEN size ELSE n
    BY <1>6, <1>8, MinOfTwo
  <1> QED BY <1>6, <1>7, <1>8, <1>9

(* Whatever executeOrder submits is a request the engine can get.          *)
LEMMA ExecuteOrderSubmits ==
    ASSUME BookInv, NEW user \in Users, NEW side \in Sides, NEW size \in Sizes,
           NEW external, NEW better, ExecuteOrder(user, side, size, external, better)
    PROVE  (\E req \in Requests : SubmitOrder(req)) \/ UNCHANGED matchingVars
  <1> DEFINE internal == InternalAvailable(side, size)
             route == BestRoute(size, internal, external, better)
             part == IF route = "internal" THEN size ELSE internal
             req == MarketOrder(user, side, part)
  <1>1. internal \in 0..size
    BY InternalAvailableType
  <1>2. UNCHANGED matchingVars \/ (part > 0 /\ SubmitOrder(req))
    BY DEF ExecuteOrder
  <1> HIDE DEF internal, route
  <1>3. part \in 0..size /\ size \in 1..MaxSize
    BY <1>1, BookConstants DEF Sizes
  <1> HIDE DEF part
  <1>4. part > 0 => part \in Sizes
    BY <1>3, BookConstants DEF Sizes
  <1>5. part > 0 => req \in Requests
    BY <1>4 DEF Requests
  <1> QED BY <1>2, <1>5

(* A step of the router is a step of the engine or leaves it alone.        *)
LEMMA RouterStepIsEngineStep ==
    ASSUME EngineInv, [SORNext]_<<matchingVars, sorVars>>
    PROVE  [MatchingNext]_matchingVars
  <1>1. CASE MatchingNext \/ UNCHANGED <<matchingVars, sorVars>>
    BY <1>1
  <1>2. ASSUME NEW user \in Users, NEW side \in Sides, NEW size \in Sizes,
               NEW external, NEW better, ExecuteOrder(user, side, size, external, better)
        PROVE  [MatchingNext]_matchingVars
    <2>1. (\E req \in Requests : SubmitOrder(req)) \/ UNCHANGED matchingVars
      BY <1>2, ExecuteOrderSubmits DEF EngineInv
    <2> QED BY <2>1 DEF MatchingNext, ClientStep
  <1>3. CASE \/ \E k \in DOMAIN executions, available \in Sizes, ok \in BOOLEAN :
                  RouteRemainder(k, available, ok)
             \/ \E id \in Ids, ok \in BOOLEAN : ServeRouteExternal(id, ok)
    BY <1>3 DEF RouteRemainder, ServeRouteExternal
  <1> QED BY <1>1, <1>2, <1>3 DEF SORNext, RouterStep

(* The router implements the engine: through its calls and awaits the book *)
(* and the settlement queue take steps of their own specification only, so *)
(* that all that is proved of the engine holds under the router.           *)
THEOREM RouterImplementsEngine == SORSpec => MatchingSpec
  <1>1. SORInit => MatchingInit /\ EngineInv
    BY EngineInitHolds DEF SORInit
  <1>2. EngineInv /\ [SORNext]_<<matchingVars, sorVars>> => [MatchingNext]_matchingVars
    BY RouterStepIsEngineStep
  <1>3. EngineInv /\ [MatchingNext]_matchingVars => EngineInv'
    BY MatchingNextHolds
  <1> QED BY <1>1, <1>2, <1>3, PTL DEF SORSpec, MatchingSpec
===============================================================================
