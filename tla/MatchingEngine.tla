----------------------------- MODULE MatchingEngine -----------------------------
(***************************************************************************)
(* The matching engine around the order book                               *)
(* (backend/perps/src/orderbook/MatchingEngine.ts): trades wait in         *)
(* pendingSettlement for the settlement timer, and what a market order     *)
(* leaves unfilled is handed to the external venue. After stop() the       *)
(* process exits in the same tick (index.ts, shutdown).                    *)
(***************************************************************************)
EXTENDS OrderBook

VARIABLES
    serving,             \* FALSE once stop() has run
    pendingSettlement,   \* trades not yet in a batch
    batches,             \* the settlement batches emitted, oldest first
    routed               \* order id -> size emitted as routeExternal

settlementVars == <<serving, pendingSettlement, batches, routed>>
matchingVars == <<bookVars, settlementVars>>

EngineInit ==
    /\ serving = TRUE
    /\ pendingSettlement = <<>>
    /\ batches = <<>>
    /\ routed = [id \in Ids |-> 0]

MatchingInit == BookInit /\ EngineInit

-----------------------------------------------------------------------------
(* Mutant: a partially filled order's trades replace the pending ones. *)
OnlyNew(new) == IF new # <<>> THEN new ELSE pendingSettlement

Queued(new) == pendingSettlement \o new

(* submitOrder: the book's step, its trades queued for settlement, and the *)
(* rest of a market order routed externally.                               *)
SubmitOrder(req) ==
    /\ serving
    /\ PlaceOrder(req)
    /\ LET id == Len(orders')
           order == orders'[id]
       IN  /\ pendingSettlement' = Queued(SubSeq(trades', Len(trades) + 1, Len(trades')))
           /\ routed' = [routed EXCEPT ![id] = IF req.kind = "market" THEN order.remaining ELSE 0]
    /\ UNCHANGED <<serving, batches>>

Cancel(user, id) == serving /\ CancelOrder(user, id) /\ UNCHANGED settlementVars
CancelAll(user) == serving /\ CancelAllOrders(user) /\ UNCHANGED settlementVars

(* flushSettlement. *)
Flushed ==
    /\ pendingSettlement' = <<>>
    /\ batches' = IF pendingSettlement = <<>> THEN batches ELSE Append(batches, pendingSettlement)

(* The settlement timer fires. *)
FlushSettlement ==
    /\ serving
    /\ pendingSettlement # <<>>
    /\ Flushed
    /\ UNCHANGED <<bookVars, serving, routed>>

StopEngine ==
    /\ serving
    /\ serving' = FALSE
    /\ Flushed
    /\ UNCHANGED <<bookVars, routed>>

ClientStep ==
    \/ \E req \in Requests : SubmitOrder(req)
    \/ \E user \in Users : CancelAll(user) \/ \E id \in Ids : Cancel(user, id)

MatchingNext == ClientStep \/ FlushSettlement \/ StopEngine

MatchingSpec == MatchingInit /\ [][MatchingNext]_matchingVars

-----------------------------------------------------------------------------
MatchingTypeOK ==
    /\ BookTypeOK
    /\ serving \in BOOLEAN
    /\ pendingSettlement \in Seq(ToSet(trades))
    /\ batches \in Seq(Seq(ToSet(trades)))
    /\ routed \in [Ids -> 0..MaxSize]

(* Each trade is put in exactly one settlement batch, in the order of      *)
(* matching, however submissions and the timer interleave, and none is     *)
(* left behind by stop() (submitOrder, flushSettlement, stop).             *)
SettledOnce ==
    /\ trades = FlattenSeq(batches) \o pendingSettlement
    /\ ~serving => pendingSettlement = <<>>
===============================================================================
