---------------------------- MODULE SmartOrderRouter ----------------------------
(***************************************************************************)
(* The smart order router over the matching engine                         *)
(* (backend/perps/src/router/SmartOrderRouter.ts), with the external       *)
(* router both of them call (HyperliquidRouter.ts: a request is filled     *)
(* whole or not at all). executeOrder reads the book, submits the internal *)
(* part and only then awaits the venues; the engine's routeExternal event  *)
(* is served on its own by index.ts.                                       *)
(***************************************************************************)
EXTENDS MatchingEngine

CONSTANT MaxExecutions   \* bound on the calls of executeOrder

VARIABLES
    executions,    \* the calls of executeOrder, oldest first
    served         \* order id -> "no", "filled" or "failed": the routeExternal event of an order

sorVars == <<executions, served>>

SORInit ==
    /\ MatchingInit
    /\ executions = <<>>
    /\ served = [id \in Ids |-> "no"]

-----------------------------------------------------------------------------
(* simulateInternalFill, over the totals of the L2 book. *)
InternalAvailable(side, size) ==
    LET ls == levels[Opposite(side)]
    IN  Min({size, SumFunctionOnSet([i \in DOMAIN ls |-> ls[i].total], DOMAIN ls)})

(* getQuote: better says that the external price beats the internal one by *)
(* the minimum improvement.                                                *)
BestRoute(size, internal, external, better) ==
    IF internal >= size THEN IF better /\ external >= size THEN "external" ELSE "internal"
    ELSE IF external >= size THEN IF internal > 0 THEN "split" ELSE "external"
    ELSE IF internal + external >= size THEN "split"
    ELSE IF internal >= external THEN "internal" ELSE "external"

Execution(user, side, size, route, order, remainder) ==
    [user |-> user, side |-> side, size |-> size, order |-> order,
     remainder |-> remainder, external |-> 0,
     awaiting |-> remainder > 0 /\ route # "internal"]

(* executeOrder up to its first await: quote, and the internal part. *)
ExecuteOrder(user, side, size, external, better) ==
    LET internal == InternalAvailable(side, size)
        route == BestRoute(size, internal, external, better)
        part == IF route = "internal" THEN size ELSE internal
        done(order, left) ==
            executions' = Append(executions, Execution(user, side, size, route, order, left))
    IN  /\ serving
        /\ Len(executions) < MaxExecutions
        /\ \/ /\ route # "external" /\ part > 0
              /\ SubmitOrder(MarketOrder(user, side, part))
              /\ done(Len(orders'), size - part + orders'[Len(orders')].remaining)
           \/ /\ route = "external" \/ part = 0
              /\ done(0, size)
              /\ UNCHANGED matchingVars
        /\ UNCHANGED served

(* The rest of executeOrder: the venue is asked for the remainder, and     *)
(* fills what it has or fails.                                             *)
RouteRemainder(k, available, ok) ==
    LET x == executions[k]
        fill == IF ok THEN Min({x.remainder, available}) ELSE 0
    IN  /\ serving
        /\ x.awaiting
        /\ executions' = [executions EXCEPT
               ![k] = [x EXCEPT !.awaiting = FALSE, !.external = fill, !.remainder = @ - fill]]
        /\ UNCHANGED <<matchingVars, served>>

(* index.ts serves the routeExternal event of an order. *)
ServeRouteExternal(id, ok) ==
    /\ serving
    /\ routed[id] > 0 /\ served[id] = "no"
    /\ served' = [served EXCEPT ![id] = IF ok THEN "filled" ELSE "failed"]
    /\ UNCHANGED <<matchingVars, executions>>

RouterStep ==
    \/ \E user \in Users, side \in Sides, size \in Sizes, external \in 0..MaxSize, better \in BOOLEAN :
          ExecuteOrder(user, side, size, external, better)
    \/ \E k \in DOMAIN executions, available \in Sizes, ok \in BOOLEAN :
          RouteRemainder(k, available, ok)
    \/ \E id \in Ids, ok \in BOOLEAN : ServeRouteExternal(id, ok)

SORNext == (MatchingNext /\ UNCHANGED sorVars) \/ RouterStep

SORSpec == SORInit /\ [][SORNext]_<<matchingVars, sorVars>>

-----------------------------------------------------------------------------
Internally(x) == IF x.order = 0 THEN 0 ELSE TakenFrom(x.order, trades)

ByEngine(x) ==
    IF x.order # 0 /\ served[x.order] = "filled" THEN routed[x.order] ELSE 0

(* "The SOR replaces the simple 'route remainder' logic in MatchingEngine":  *)
(* what executeOrder fills on the book, on the venues and through the      *)
(* engine's own route is together never more than what was asked for.      *)
NeverOverfilled ==
    \A k \in DOMAIN executions :
        LET x == executions[k]
        IN  Internally(x) + x.external + ByEngine(x) <= x.size
===============================================================================
