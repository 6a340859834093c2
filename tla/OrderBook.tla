------------------------------- MODULE OrderBook -------------------------------
(***************************************************************************)
(* The central limit order book of one perpetuals market                   *)
(* (backend/perps/src/orderbook/OrderBook.ts). Node runs each call to its  *)
(* end, so a call is one step. A price arrives as a string and the book    *)
(* keys its levels by that string: "100" and "100.0" are two levels with   *)
(* the same value. A price is therefore a value and a spelling. Only limit *)
(* orders have their price checked: the price of a stop or take-profit     *)
(* order may be missing or no number, and is then NaN.                     *)
(***************************************************************************)
EXTENDS Integers, SequencesExt

CONSTANTS
    Users,
    Spellings,    \* the ways a client may write one price
    MaxPrice,     \* prices, in ascending order, are 0..MaxPrice
    MarketBid,    \* the place of '999999999', the price of a market buy, among them
    NaN,          \* the value of a price that is no number
    MaxSize,      \* sizes are 1..MaxSize lots
    MaxOrders     \* bound on the orders ever submitted

ASSUME BookConstants ==
    /\ MaxPrice \in Nat \ {0} /\ MarketBid \in 1..MaxPrice /\ NaN \notin Nat
    /\ MaxSize \in Nat /\ MaxOrders \in Nat

Sides == {"buy", "sell"}
Opposite(side) == IF side = "buy" THEN "sell" ELSE "buy"
Prices == 0..MaxPrice \cup {NaN}
Sizes == 1..MaxSize
Ids == 1..MaxOrders

(* GTC and PostOnly orders may rest. "ioc" stands for IOC and FOK, which   *)
(* take the same branch of placeOrder. The prices of limit orders are among *)
(* 1..MaxPrice; those of stop and take-profit orders, which validateOrder  *)
(* does not look at and placeOrder does not tell apart, among all Prices.  *)
Resting == [user : Users, side : Sides, kind : {"gtc", "post_only"},
            price : Prices, spelling : Spellings, size : Sizes]
Immediate == [user : Users, side : Sides, kind : {"ioc"},
              price : Prices, spelling : {""}, size : Sizes]

(* A market order gets an aggressive price: 1 is the place of '0.000001',   *)
(* and 0 that of all that lies below it.                                   *)
MarketOrder(user, side, size) ==
    [user |-> user, side |-> side, kind |-> "market", size |-> size,
     price |-> IF side = "buy" THEN MarketBid ELSE 1, spelling |-> ""]

Requests == Resting \cup Immediate
            \cup {MarketOrder(u, side, size) : u \in Users, side \in Sides, size \in Sizes}

VARIABLES
    orders,        \* every order ever submitted, in that order; its index is its id
    levels,        \* side -> the price levels of that side, best first
    ordersById,    \* the ids the book knows as open
    ordersByUser,  \* user -> ids
    trades         \* every trade, in the order of matching

bookVars == <<orders, levels, ordersById, ordersByUser, trades>>

BookInit ==
    /\ orders = <<>>
    /\ levels = [side \in Sides |-> <<>>]
    /\ ordersById = {}
    /\ ordersByUser = [u \in Users |-> {}]
    /\ trades = <<>>

-----------------------------------------------------------------------------
(* No comparison with NaN is true. *)
Above(p, q) == NaN \notin {p, q} /\ p > q
Better(side, p, q) == IF side = "buy" THEN Above(p, q) ELSE Above(q, p)

(* matchOrder stops at a level beyond the limit: NaN is beyond nothing, and *)
(* nothing beyond NaN.                                                     *)
Crosses(side, limit, price) == IF side = "buy" THEN ~Above(price, limit) ELSE ~Above(limit, price)

(* The members of a finite set S in the strict total order R. *)
InOrder(S, R) ==
    [n \in 1..Cardinality(S) |->
        CHOOSE x \in S : Cardinality({y \in S : <<y, x>> \in R}) = n - 1]

(* What is left of a sequence when the entries at the positions P stay: the *)
(* closed form of SelectSeq, which a proof can reason about.               *)
KeptAt(s, P) ==
    LET kept == InOrder(P, {r \in P \X P : r[1] < r[2]})
    IN  [n \in DOMAIN kept |-> s[kept[n]]]

(* The ids of a level that are in S, and the levels that have ids. *)
Keeping(ids, S) == KeptAt(ids, {i \in DOMAIN ids : ids[i] \in S})
WithIds(ls) == KeptAt(ls, {i \in DOMAIN ls : ls[i].ids # <<>>})

(* A place in the book is a level and a position in it; matchOrder goes    *)
(* through the places level by level, and oldest first within a level.     *)
Ahead(p, q) == p[1] < q[1] \/ (p[1] = q[1] /\ p[2] < q[2])

PlacesOf(ls) == UNION {{i} \X DOMAIN ls[i].ids : i \in DOMAIN ls}

(* Mutant: orders of the taker itself are not skipped. *)
AnyPlace(req) ==
    {p \in PlacesOf(levels[Opposite(req.side)]) :
        \A i \in 1..p[1] : Crosses(req.side, req.price, levels[Opposite(req.side)][i].price)}

(* The places opposite to a request where it may trade: up to the first    *)
(* level that does not cross, and never with its own user.                 *)
Places(req) ==
    LET opposite == levels[Opposite(req.side)]
    IN  {p \in PlacesOf(opposite) :
            /\ \A i \in 1..p[1] : Crosses(req.side, req.price, opposite[i].price)
            /\ orders[opposite[p[1]].ids[p[2]]].user # req.user}

(* The orders a request can trade with, in the order it meets them. *)
Makers(req) ==
    LET opposite == levels[Opposite(req.side)]
        order == InOrder(Places(req), {r \in Places(req) \X Places(req) : Ahead(r[1], r[2])})
    IN  [n \in DOMAIN order |-> opposite[order[n][1]].ids[order[n][2]]]

TradeSize(left, maker) == Min({left, orders[maker].remaining})

(* What is left of a request that has met the first n of its makers. *)
LeftAfter(req, makers, n) ==
    LET offered == SumFunctionOnSet([i \in 1..n |-> orders[makers[i]].remaining], 1..n)
    IN  IF offered < req.size THEN req.size - offered ELSE 0

(* matchOrder: the unfilled rest of a request and the trades it makes, one *)
(* with each maker until nothing is left or there are no more makers.      *)
Matching(req) ==
    LET makers == Makers(req)
        left(n) == LeftAfter(req, makers, n)
        met == Min({n \in 0..Len(makers) : n = Len(makers) \/ left(n) = 0})
    IN  [left |-> left(met),
         trades |-> [n \in 1..met |->
                        [maker |-> makers[n], taker |-> Len(orders) + 1,
                         price |-> orders[makers[n]].price,
                         size |-> TradeSize(left(n - 1), makers[n])]]]

Nothing(req) == [left |-> req.size, trades |-> <<>>]

(* What a sequence of trades takes from an order. *)
TakenFrom(id, ts) ==
    SumFunctionOnSet([i \in DOMAIN ts |->
                        IF ts[i].maker = id \/ ts[i].taker = id THEN ts[i].size ELSE 0],
                     DOMAIN ts)

(* The orders after the trades of a match. *)
Hit(ts) ==
    [id \in DOMAIN orders |->
        LET taken == TakenFrom(id, ts)
            left == orders[id].remaining - taken
        IN  IF taken = 0 THEN orders[id]
            ELSE [orders[id] EXCEPT !.remaining = left,
                                    !.status = IF left = 0 THEN "filled" ELSE "partially_filled"]]

(* What the orders of a set have left. *)
Total(ids, book) == SumFunctionOnSet([id \in ids |-> book[id].remaining], ids)

(* The levels of one side once the ids no longer open are gone. The totals  *)
(* of the levels that traded are computed anew; empty levels are removed.  *)
Swept(side, ts) ==
    LET after == Hit(ts)
        sweep(l) ==
            LET open == Keeping(l.ids, {id \in ToSet(l.ids) : after[id].remaining > 0})
            IN  IF \E i \in DOMAIN ts : ts[i].maker \in ToSet(l.ids)
                THEN [l EXCEPT !.ids = open, !.total = Total(ToSet(open), after)]
                ELSE l
    IN  WithIds([i \in DOMAIN levels[side] |-> sweep(levels[side][i])])

(* Mutant: a new level goes behind all the others. *)
LastIndex(side, price) == Len(levels[side]) + 1

(* findInsertIndex halves the range where the price belongs. *)
Halved(side, price, range) ==
    LET mid == (range.lo + range.hi) \div 2
    IN  IF range.lo = range.hi THEN range
        ELSE IF Better(side, levels[side][mid + 1].price, price)
             THEN [range EXCEPT !.lo = mid + 1]
             ELSE [range EXCEPT !.hi = mid]

(* A range of n levels is empty after n rounds at the latest. *)
InsertIndex(side, price) ==
    LET n == Len(levels[side])
        range[k \in 0..n] ==
            IF k = 0 THEN [lo |-> 0, hi |-> n] ELSE Halved(side, price, range[k - 1])
    IN  range[n].lo + 1

(* addToBook: the levels of the side of a request once its rest has joined. *)
Joined(req, id, left) ==
    LET ls == levels[req.side]
        own(l) == l.price = req.price /\ l.spelling = req.spelling
    IN  IF \E i \in DOMAIN ls : own(ls[i])
        THEN [i \in DOMAIN ls |->
                IF own(ls[i])
                THEN [ls[i] EXCEPT !.ids = Append(@, id), !.total = @ + left]
                ELSE ls[i]]
        ELSE InsertAt(ls, InsertIndex(req.side, req.price),
                      [price |-> req.price, spelling |-> req.spelling,
                       ids |-> <<id>>, total |-> left])

-----------------------------------------------------------------------------
Record(req, left, status) ==
    [user |-> req.user, side |-> req.side, price |-> req.price, spelling |-> req.spelling,
     size |-> req.size, remaining |-> left, status |-> status]

StatusOf(req, m) ==
    IF m.left = 0 THEN "filled"
    ELSE IF m.trades # <<>> THEN "partially_filled"
    ELSE IF req.kind \in {"ioc", "market"} THEN "canceled" ELSE "new"

(* Mutant: filled makers stay open. *)
StillOpen(m) == {}

Closed(m) == {id \in ordersById : Hit(m.trades)[id].remaining = 0}

(* A request is matched as m says, and its rest joins the book if it may. *)
Accept(req, m) ==
    LET id == Len(orders) + 1
        rests == req.kind \notin {"ioc", "market"} /\ m.left > 0
        added == IF rests THEN {id} ELSE {}
    IN  /\ orders' = Append(Hit(m.trades), Record(req, m.left, StatusOf(req, m)))
        /\ trades' = trades \o m.trades
        /\ levels' = [side \in Sides |->
                        IF side # req.side THEN Swept(side, m.trades)
                        ELSE IF rests THEN Joined(req, id, m.left)
                        ELSE levels[side]]
        /\ ordersById' = (ordersById \ Closed(m)) \cup added
        /\ ordersByUser' = [u \in Users |->
                (ordersByUser[u] \ Closed(m)) \cup (IF u = req.user THEN added ELSE {})]

(* Mutant: an order at the best opposite price is let through. *)
PassesThrough(req) ==
    /\ levels[Opposite(req.side)] # <<>>
    /\ Better(req.side, req.price, Head(levels[Opposite(req.side)]).price)

(* A PostOnly order is refused if the best opposite price crosses its own; *)
(* nothing is at least or at most NaN.                                     *)
WouldCross(req) ==
    /\ levels[Opposite(req.side)] # <<>>
    /\ LET best == Head(levels[Opposite(req.side)]).price
       IN  NaN \notin {best, req.price} /\ Crosses(req.side, req.price, best)

Reject(req) ==
    /\ orders' = Append(orders, Record(req, req.size, "rejected"))
    /\ UNCHANGED <<levels, ordersById, ordersByUser, trades>>

(* placeOrder, for a request that passes validateOrder. *)
PlaceOrder(req) ==
    /\ Len(orders) < MaxOrders
    /\ \/ req.kind = "post_only" /\ WouldCross(req) /\ Reject(req)
       \/ req.kind = "post_only" /\ ~WouldCross(req) /\ Accept(req, Nothing(req))
       \/ req.kind # "post_only" /\ Accept(req, Matching(req))

(* removeFromBook, for each of a set of open orders. *)
RemoveFromBook(ids) ==
    LET strip(l) == [l EXCEPT !.ids = Keeping(@, ToSet(@) \ ids),
                              !.total = @ - Total(ToSet(l.ids) \cap ids, orders)]
    IN  /\ levels' = [side \in Sides |->
                WithIds([i \in DOMAIN levels[side] |-> strip(levels[side][i])])]
        /\ ordersById' = ordersById \ ids
        /\ ordersByUser' = [u \in Users |-> ordersByUser[u] \ ids]
        /\ orders' = [id \in DOMAIN orders |->
                IF id \in ids THEN [orders[id] EXCEPT !.status = "canceled"] ELSE orders[id]]
        /\ UNCHANGED trades

CancelOrder(user, id) ==
    /\ id \in ordersById
    /\ orders[id].user = user
    /\ RemoveFromBook({id})

CancelAllOrders(user) ==
    /\ ordersByUser[user] # {}
    /\ RemoveFromBook({id \in ordersByUser[user] : id \in ordersById /\ orders[id].user = user})

-----------------------------------------------------------------------------
Order == [user : Users, side : Sides, price : Prices, size : Sizes,
          spelling : Spellings \cup {""}, remaining : 0..MaxSize,
          status : {"new", "partially_filled", "filled", "canceled", "rejected"}]

Level == [price : Prices, spelling : Spellings, ids : Seq(Ids), total : Nat]

BookTrade == [maker : Ids, taker : Ids, price : Prices, size : Sizes]

BookTypeOK ==
    /\ orders \in Seq(Order)
    /\ levels \in [Sides -> Seq(Level)]
    /\ ordersById \in SUBSET Ids
    /\ ordersByUser \in [Users -> SUBSET Ids]
    /\ trades \in Seq(BookTrade)

(* No order that may rest, and so needs a spelling, has come without a price. *)
PricedBook ==
    \A id \in DOMAIN orders : orders[id].spelling \in Spellings => orders[id].price # NaN

(* The four structures of the book tell the same story through fills,      *)
(* sweeps, partial cancels and cancelAll: the levels hold each open order  *)
(* once, at its own price and spelling, on its own side and with something *)
(* left; a level's total is what its orders have left. The levels are      *)
(* sorted if the book is priced: the search for the place of a level       *)
(* (findInsertIndex) loses its way at the first NaN, which a stop order    *)
(* without a price leaves behind.                                          *)
BookAgrees ==
    /\ \A u \in Users : ordersByUser[u] = {id \in ordersById : orders[id].user = u}
    /\ \A id \in ordersById : orders[id].remaining > 0
                              /\ orders[id].status \in {"new", "partially_filled"}
    /\ ordersById = UNION {ToSet(l.ids) : l \in UNION {ToSet(levels[side]) : side \in Sides}}
    /\ \A side \in Sides : \A i \in DOMAIN levels[side] :
          LET l == levels[side][i]
          IN  /\ l.ids # <<>> /\ Cardinality(ToSet(l.ids)) = Len(l.ids)
              /\ \A id \in ToSet(l.ids) :
                    orders[id].side = side /\ orders[id].price = l.price
                    /\ orders[id].spelling = l.spelling
              /\ l.total = Total(ToSet(l.ids), orders)
              /\ \A j \in 1..(i - 1) : /\ PricedBook => ~Better(side, l.price, levels[side][j].price)
                                       /\ l.price = levels[side][j].price
                                          => l.spelling # levels[side][j].spelling

(* Trades keep to the orders they fill (matchOrder): what an order has     *)
(* traded over its life, as taker and then as maker, is what it no longer  *)
(* has left; a trade has the maker's price, on opposite sides, and between *)
(* two users; it never lies beyond the taker's limit. (Nothing lies beyond *)
(* a limit or a price that is NaN: such an order trades at any price.)     *)
FillsAddUp ==
    /\ \A id \in DOMAIN orders :
          orders[id].size - orders[id].remaining = TakenFrom(id, trades)
    /\ \A i \in DOMAIN trades :
          LET maker == orders[trades[i].maker]
              taker == orders[trades[i].taker]
          IN  /\ maker.user # taker.user /\ maker.side = Opposite(taker.side)
              /\ trades[i].price = maker.price
              /\ Crosses(taker.side, taker.price, trades[i].price)

(* A priced book is never crossed, except by one user's own orders, which   *)
(* the self-trade prevention of matchOrder leaves standing. (Behind a level *)
(* that a NaN has put out of order, matchOrder does not look further.)     *)
CrossedOnlyBySelf ==
    PricedBook =>
        \A b, a \in ordersById :
            /\ orders[b].side = "buy" /\ orders[a].side = "sell"
            /\ orders[b].price >= orders[a].price
            => orders[b].user = orders[a].user

(* "Price-time priority": a trade passes over no older open order of        *)
(* another user with the same price written the same way and, in a priced  *)
(* book, over none with a better price. (An older one written differently  *)
(* may be passed over: the level of the new spelling is put before the one *)
(* that was there.)                                                        *)
Priority ==
    \A i \in (Len(trades) + 1)..Len(trades') :
        LET maker == orders[trades'[i].maker]
            taker == orders'[trades'[i].taker]
        IN  \A id \in ordersById :
              /\ orders[id].side = maker.side
              /\ orders[id].user # taker.user
              /\ \/ PricedBook /\ Better(maker.side, orders[id].price, maker.price)
                 \/ orders[id].price = maker.price /\ orders[id].spelling = maker.spelling
                    /\ id < trades'[i].maker
              => orders'[id].remaining = 0

PriceTimePriority == [][Priority]_bookVars
================================================================================
