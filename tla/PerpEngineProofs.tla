--------------------------- MODULE PerpEngineProofs ---------------------------
(***************************************************************************)
(* The vault of the perpetuals backs what it owes and its totals agree, for *)
(* any traders, markets, prices, fees and funding rates, and a trader never *)
(* loses more than the margin posted.                                      *)
(***************************************************************************)
EXTENDS PerpEngine, SumLemmas

Position == [isOpen : BOOLEAN, isLong : BOOLEAN, size : Nat,
             entryPrice : Nat, margin : Nat, entryFundingIdx : Int]

(* An open position has a price to compare with, a closed one no margin. *)
PositionsSound ==
    \A u \in Users, m \in Markets :
        IF positions[u][m].isOpen THEN positions[u][m].entryPrice # 0
                                  ELSE positions[u][m].margin = 0

IInv == TypeOK /\ PositionsSound /\ TotalsAgree /\ Backed

-----------------------------------------------------------------------------
(* Arithmetic. *)

(* Solidity's quotient of integers is an integer. *)
LEMMA QuotientInt ==
    ASSUME NEW a \in Int, NEW b \in Nat \ {0}
    PROVE  Quotient(a, b) \in Int
  <1>1. a \div b \in Int /\ (-a) \div b \in Int /\ -a \in Int
    OBVIOUS
  <1> QED BY <1>1 DEF Quotient

(* Products of integers are integers. *)
LEMMA TimesInt ==
    ASSUME NEW a \in Int, NEW b \in Int
    PROVE  a * b \in Int
  OBVIOUS

(* A funding rate is an integer, whatever the prices. *)
LEMMA RateInt ==
    ASSUME NEW p \in Prices, NEW q \in Prices
    PROVE  Rate(p, q) \in Int
  <1>1. p \in Int /\ q \in Nat \ {0} /\ RateScale \in Int /\ MaxFundingRate \in Int
    BY EngineConstants, FundingConstants
  <1>2. (p - q) * RateScale \in Int
    BY <1>1, TimesInt
  <1>3. Quotient((p - q) * RateScale, q) \in Int
    BY <1>1, <1>2, QuotientInt
  <1> QED BY <1>1, <1>3 DEF Rate, Clamp

(* A share of at most BPS of an amount is part of it. *)
LEMMA ShareBounded ==
    ASSUME NEW x \in Nat, NEW k \in 0..BPS
    PROVE  /\ (x * k) \div BPS \in Nat
           /\ (x * k) \div BPS <= x
  <1>1. BPS \in Nat \ {0} /\ k \in Nat /\ k <= BPS
    BY EngineConstants
  <1>2. x * k \in Nat /\ x * BPS \in Nat /\ x * k <= x * BPS
    BY <1>1
  <1>3. (x * k) \div BPS \in Nat
    BY <1>1, <1>2
  <1>4. BPS * ((x * k) \div BPS) <= x * k
    BY <1>1, <1>2
  <1>5. ASSUME (x * k) \div BPS >= x + 1 PROVE FALSE
    <2>1. BPS * ((x * k) \div BPS) >= BPS * (x + 1)
      BY <1>1, <1>3, <1>5
    <2>2. BPS * (x + 1) = x * BPS + BPS
      BY <1>1
    <2> QED BY <1>1, <1>2, <1>4, <2>1, <2>2
  <1> QED BY <1>3, <1>5

(* Closing a position pays its trader a natural amount. *)
LEMMA PayoutNat ==
    ASSUME TypeOK, PositionsSound, NEW u \in Users, NEW m \in Markets, positions[u][m].isOpen,
           NEW price \in Prices, NEW idx \in Int
    PROVE  /\ NetPnL(positions[u][m], price, idx) \in Int
           /\ Payout(positions[u][m], NetPnL(positions[u][m], price, idx)) \in Nat
  <1> DEFINE pos == positions[u][m]
  <1>1. pos \in Position /\ pos.entryPrice # 0
    BY DEF TypeOK, PositionsSound, Position
  <1>2. /\ pos.size \in Nat /\ pos.size \in Int /\ -pos.size \in Int
        /\ pos.entryPrice \in Nat \ {0} /\ pos.margin \in Nat
        /\ pos.entryFundingIdx \in Int /\ pos.isLong \in BOOLEAN
    BY <1>1 DEF Position
  <1> HIDE DEF pos
  <1>3. price \in Int /\ RateScale \in Nat \ {0}
    BY EngineConstants, FundingConstants
  <1>4. pos.size * (price - pos.entryPrice) \in Int
    BY <1>2, <1>3, TimesInt
  <1>5. PnL(pos, price) \in Int
    BY <1>2, <1>4, QuotientInt DEF PnL
  <1>6. ASSUME NEW size \in Int PROVE AccruedFunding(size, pos.entryFundingIdx, idx) \in Int
    <2>1. idx - pos.entryFundingIdx \in Int
      BY <1>2
    <2>2. size * (idx - pos.entryFundingIdx) \in Int
      BY <2>1, TimesInt
    <2> QED BY <1>3, <2>2, QuotientInt DEF AccruedFunding
  <1>7. AccruedFunding(IF pos.isLong THEN pos.size ELSE -pos.size, pos.entryFundingIdx, idx) \in Int
    BY <1>2, <1>6
  <1>8. NetPnL(pos, price, idx) \in Int
    BY <1>5, <1>7 DEF NetPnL
  <1>9. Payout(pos, NetPnL(pos, price, idx)) \in Nat
    BY <1>2, <1>8 DEF Payout
  <1> QED BY <1>8, <1>9 DEF pos

-----------------------------------------------------------------------------
(* What the handlers have in common. *)

(* Settling an interval keeps the clock's types. *)
LEMMA FundingSound ==
    ASSUME TypeOK, NEW m \in Markets, NEW p \in Prices, NEW q \in Prices, ApplyFunding(m, p, q)
    PROVE  /\ now' \in Nat
           /\ lastFundingTime' \in [Markets -> Nat]
           /\ cumulativeFundingIndex' \in [Markets -> Int]
           /\ cumulativeFundingIndex'[m] \in Int
  <1>1. Rate(p, q) \in Int
    BY RateInt
  <1>2. now \in Nat /\ lastFundingTime \in [Markets -> Nat] /\ cumulativeFundingIndex \in [Markets -> Int]
    BY DEF TypeOK
  <1>3. now' = now
    BY DEF ApplyFunding
  <1>4. CASE now - lastFundingTime[m] < 1
    <2>1. lastFundingTime' = lastFundingTime /\ cumulativeFundingIndex' = cumulativeFundingIndex
      BY <1>4 DEF ApplyFunding
    <2> QED BY <2>1, <1>2, <1>3
  <1>5. CASE ~(now - lastFundingTime[m] < 1)
    <2>1. /\ lastFundingTime' = [lastFundingTime EXCEPT ![m] = @ + 1]
          /\ cumulativeFundingIndex' = [cumulativeFundingIndex EXCEPT ![m] = @ + Rate(p, q)]
      BY <1>5 DEF ApplyFunding
    <2> QED BY <2>1, <1>1, <1>2, <1>3
  <1> QED BY <1>4, <1>5

(* A debit or credit that the balance covers keeps the vault's total the   *)
(* sum of its balances.                                                    *)
LEMMA SettleSound ==
    ASSUME TypeOK, TotalsAgree, NEW u \in Users, NEW d \in Int, balances[u] + d \in Nat,
           Settle(u, d)
    PROVE  /\ balances' \in [Users -> Nat]
           /\ balances'[u] = balances[u] + d
           /\ \A w \in Users \ {u} : balances'[w] = balances[w]
           /\ totalDeposited' \in Nat
           /\ totalDeposited' = totalDeposited + d
           /\ totalDeposited' = SumFunctionOnSet(balances', Users)
  <1>1. /\ balances \in [Users -> Nat] /\ balances \in [Users -> Int] /\ balances[u] \in Int
        /\ totalDeposited \in Int /\ totalDeposited = SumFunctionOnSet(balances, Users)
    BY DEF TypeOK, TotalsAgree
  <1>2. /\ balances' \in [Users -> Nat] /\ balances' \in [Users -> Int]
        /\ balances'[u] = balances[u] + d
        /\ \A w \in Users \ {u} : balances'[w] = balances[w]
    BY <1>1 DEF Settle
  <1>3. SumFunctionOnSet(balances', Users) =
           SumFunctionOnSet(balances, Users) - balances[u] + balances'[u]
    BY <1>1, <1>2, VaultConstants, SumUpdate
  <1>4. totalDeposited' = totalDeposited + d
    BY DEF Settle
  <1>5. SumFunctionOnSet(balances', Users) = totalDeposited + d
    BY <1>1, <1>2, <1>3
  <1>6. SumFunctionOnSet(balances', Users) \in Nat
    BY <1>2, VaultConstants, SumOfNats
  <1> QED BY <1>2, <1>4, <1>5, <1>6

(* The margins of all open positions. *)
Collateral == SumFunctionOnSet([u \in Users |-> MarginOf(u)], Users)

(* The margins of one trader add up to a natural number. *)
LEMMA MarginOfNat ==
    ASSUME positions \in [Users -> [Markets -> Position]], NEW u \in Users
    PROVE  MarginOf(u) \in Nat
  <1>1. [m \in Markets |-> positions[u][m].margin] \in [Markets -> Nat]
    BY DEF Position
  <1> QED BY <1>1, FundingConstants, SumOfNats DEF MarginOf

(* Replacing one position moves the collateral by the difference of the    *)
(* two margins.                                                            *)
LEMMA PositionReplaced ==
    ASSUME TypeOK, NEW u \in Users, NEW m \in Markets, NEW p \in Position,
           positions' = [positions EXCEPT ![u][m] = p]
    PROVE  /\ Collateral \in Int
           /\ Collateral' = Collateral - positions[u][m].margin + p.margin
  <1>1. positions \in [Users -> [Markets -> Position]]
    BY DEF TypeOK, Position
  <1>2. /\ positions' \in [Users -> [Markets -> Position]]
        /\ positions'[u][m] = p
        /\ \A n \in Markets \ {m} : positions'[u][n] = positions[u][n]
    BY <1>1
  <1>3. \A w \in Users : MarginOf(w) \in Nat /\ MarginOf(w) \in Int
    BY <1>1, MarginOfNat
  <1>4. \A w \in Users \ {u} : MarginOf(w)' = MarginOf(w)
    <2> SUFFICES ASSUME NEW w \in Users \ {u} PROVE MarginOf(w)' = MarginOf(w)
      OBVIOUS
    <2>1. positions'[w] = positions[w]
      BY <1>1
    <2> QED BY <2>1 DEF MarginOf
  <1>5. MarginOf(u)' = MarginOf(u) - positions[u][m].margin + p.margin
    <2> DEFINE f == [n \in Markets |-> positions[u][n].margin]
               g == [n \in Markets |-> positions'[u][n].margin]
    <2>1. f \in [Markets -> Int] /\ g \in [Markets -> Int]
      BY <1>1, <1>2 DEF Position
    <2>2. \A n \in Markets \ {m} : f[n] = g[n]
      BY <1>2
    <2>3. f[m] = positions[u][m].margin /\ g[m] = p.margin
      BY <1>2
    <2>4. MarginOf(u)' = SumFunctionOnSet(g, Markets) /\ MarginOf(u) = SumFunctionOnSet(f, Markets)
      BY DEF MarginOf
    <2>5. IsFiniteSet(Markets)
      BY FundingConstants
    <2> HIDE DEF f, g
    <2>6. SumFunctionOnSet(g, Markets) = SumFunctionOnSet(f, Markets) - f[m] + g[m]
      BY <2>1, <2>2, <2>5, SumUpdate
    <2> QED BY <2>3, <2>4, <2>6
  <1>6. MarginOf(u)' \in Int
    <2>1. positions[u][m].margin \in Int /\ p.margin \in Int /\ MarginOf(u) \in Int
      BY <1>1, <1>3 DEF Position
    <2> QED BY <1>5, <2>1
  <1>7. Collateral \in Int /\ Collateral' = Collateral - positions[u][m].margin + p.margin
    <2> DEFINE f == [w \in Users |-> MarginOf(w)]
               g == [w \in Users |-> MarginOf(w)']
    <2>1. f \in [Users -> Int] /\ g \in [Users -> Int]
      <3>1. \A w \in Users : MarginOf(w)' \in Int
        BY <1>3, <1>4, <1>6
      <3> QED BY <1>3, <3>1
    <2>2. \A w \in Users \ {u} : f[w] = g[w]
      BY <1>4
    <2>3. f[u] = MarginOf(u) /\ g[u] = MarginOf(u)'
      OBVIOUS
    <2>4. Collateral' = SumFunctionOnSet(g, Users) /\ Collateral = SumFunctionOnSet(f, Users)
      BY DEF Collateral
    <2>5. IsFiniteSet(Users)
      BY VaultConstants
    <2>6. positions[u][m].margin \in Int /\ p.margin \in Int /\ MarginOf(u) \in Int
      BY <1>1, <1>3 DEF Position
    <2> HIDE DEF f, g
    <2>7. SumFunctionOnSet(g, Users) = SumFunctionOnSet(f, Users) - f[u] + g[u]
      BY <2>1, <2>2, <2>5, SumUpdate
    <2>8. SumFunctionOnSet(f, Users) \in Int
      BY <2>1, <2>5, SumType
    <2> QED BY <2>3, <2>4, <2>6, <2>7, <2>8, <1>5
  <1> QED BY <1>7

(* Replacing one position moves the notional of a side by the difference   *)
(* of the two sizes.                                                       *)
LEMMA InterestReplaced ==
    ASSUME TypeOK, NEW u \in Users, NEW m \in Markets, NEW p \in Position,
           positions' = [positions EXCEPT ![u][m] = p],
           NEW n \in Markets, NEW long \in BOOLEAN
    PROVE  /\ SumFunctionOnSet([w \in Users |-> SizeOn(w, n, long)], Users) \in Nat
           /\ SizeOn(u, n, long) \in Nat
           /\ SizeOn(u, n, long) <= SumFunctionOnSet([w \in Users |-> SizeOn(w, n, long)], Users)
           /\ SumFunctionOnSet([w \in Users |-> SizeOn(w, n, long)], Users)' =
                 SumFunctionOnSet([w \in Users |-> SizeOn(w, n, long)], Users)
                    - SizeOn(u, n, long) + SizeOn(u, n, long)'
  <1>1. positions \in [Users -> [Markets -> Position]]
    BY DEF TypeOK, Position
  <1>2. positions' \in [Users -> [Markets -> Position]]
    BY <1>1
  <1> DEFINE f == [w \in Users |-> SizeOn(w, n, long)]
             g == [w \in Users |-> SizeOn(w, n, long)']
  <1>3. f \in [Users -> Nat] /\ f \in [Users -> Int] /\ g \in [Users -> Int]
    <2>1. \A w \in Users : SizeOn(w, n, long) \in Nat /\ SizeOn(w, n, long)' \in Nat
      BY <1>1, <1>2 DEF SizeOn, Position
    <2> QED BY <2>1
  <1>4. \A w \in Users \ {u} : f[w] = g[w]
    <2>1. \A w \in Users \ {u} : positions'[w][n] = positions[w][n]
      BY <1>1
    <2> QED BY <2>1 DEF SizeOn
  <1>5. f[u] = SizeOn(u, n, long) /\ g[u] = SizeOn(u, n, long)'
    OBVIOUS
  <1>6. /\ SumFunctionOnSet([w \in Users |-> SizeOn(w, n, long)], Users)' = SumFunctionOnSet(g, Users)
        /\ SumFunctionOnSet([w \in Users |-> SizeOn(w, n, long)], Users) = SumFunctionOnSet(f, Users)
    OBVIOUS
  <1>7. IsFiniteSet(Users)
    BY VaultConstants
  <1>8. SizeOn(u, n, long) \in Nat
    BY <1>3, <1>5
  <1> HIDE DEF f, g
  <1>9. SumFunctionOnSet(g, Users) = SumFunctionOnSet(f, Users) - f[u] + g[u]
    BY <1>3, <1>4, <1>7, SumUpdate
  <1>10. SumFunctionOnSet(f, Users) \in Nat /\ f[u] <= SumFunctionOnSet(f, Users)
    BY <1>3, <1>7, SumOfNats
  <1> QED BY <1>5, <1>6, <1>8, <1>9, <1>10

(* Steps that leave the positions alone leave what is computed from them.  *)
LEMMA PositionsKept ==
    ASSUME positions' = positions
    PROVE  /\ Collateral' = Collateral
           /\ PositionsSound => PositionsSound'
           /\ \A n \in Markets, long \in BOOLEAN :
                 SumFunctionOnSet([w \in Users |-> SizeOn(w, n, long)], Users)' =
                     SumFunctionOnSet([w \in Users |-> SizeOn(w, n, long)], Users)
  <1>1. \A w \in Users : MarginOf(w)' = MarginOf(w)
    BY DEF MarginOf
  <1>2. Collateral' = Collateral
    <2>1. [w \in Users |-> MarginOf(w)'] = [w \in Users |-> MarginOf(w)]
      BY <1>1
    <2> QED BY <2>1 DEF Collateral
  <1>3. ASSUME NEW n \in Markets, NEW long \in BOOLEAN
        PROVE  SumFunctionOnSet([w \in Users |-> SizeOn(w, n, long)], Users)' =
                   SumFunctionOnSet([w \in Users |-> SizeOn(w, n, long)], Users)
    <2>1. \A w \in Users : SizeOn(w, n, long)' = SizeOn(w, n, long)
      BY DEF SizeOn
    <2>2. [w \in Users |-> SizeOn(w, n, long)'] = [w \in Users |-> SizeOn(w, n, long)]
      BY <2>1
    <2> QED BY <2>2
  <1>4. PositionsSound => PositionsSound'
    BY DEF PositionsSound
  <1> QED BY <1>2, <1>3, <1>4

-----------------------------------------------------------------------------
(* The handlers. *)

(* Opening a position moves its margin from the balance to the collateral  *)
(* and its fee out of the vault.                                           *)
LEMMA OpenPositionSound ==
    ASSUME IInv, NEW u \in Users, NEW m \in Markets, NEW size \in Sizes, NEW isLong \in BOOLEAN,
           NEW margin \in Margins, OpenPosition(u, m, size, isLong, margin)
    PROVE  /\ IInv'
           /\ \A w \in Users \ {u} : balances'[w] = balances[w]
           /\ ~positions[u][m].isOpen /\ positions'[u][m].isOpen
  <1> DEFINE p == [isOpen |-> TRUE, isLong |-> isLong, size |-> size, entryPrice |-> mark[m],
                   margin |-> margin, entryFundingIdx |-> cumulativeFundingIndex'[m]]
             d == -(margin + Fee(size))
  <1>1. TypeOK /\ PositionsSound /\ TotalsAgree /\ Backed
    BY DEF IInv
  <1>2. size \in Nat /\ size \in Int /\ margin \in Nat /\ margin \in Int
    BY EngineConstants
  <1>3. Fee(size) \in Nat
    <2>1. TRADE_FEE_BPS \in Nat /\ BPS \in Nat \ {0}
      BY EngineConstants
    <2>2. size * TRADE_FEE_BPS \in Nat
      BY <1>2, <2>1
    <2> QED BY <2>1, <2>2 DEF Fee
  <1>4. mark[m] \in Prices /\ index[m] \in Prices /\ mark[m] \in Nat /\ mark[m] # 0
    BY <1>1, EngineConstants DEF TypeOK
  <1>5. /\ now' \in Nat
        /\ lastFundingTime' \in [Markets -> Nat]
        /\ cumulativeFundingIndex' \in [Markets -> Int]
        /\ cumulativeFundingIndex'[m] \in Int
    <2>1. ApplyFunding(m, mark[m], index[m])
      BY DEF OpenPosition
    <2> QED BY <1>1, <1>4, <2>1, FundingSound
  <1>6. p \in Position
    BY <1>2, <1>4, <1>5 DEF Position
  <1>7. /\ positions' = [positions EXCEPT ![u][m] = p]
        /\ ~positions[u][m].isOpen
        /\ balances[u] >= margin + Fee(size)
        /\ Settle(u, d)
        /\ FlushFee(Fee(size))
        /\ openInterest' = [openInterest EXCEPT ![m][isLong] = @ + size]
        /\ opens' = opens + 1 /\ gains' = gains
        /\ fresh' = [fresh EXCEPT ![u][m] = (lastFundingTime'[m] = now)]
        /\ active' = active /\ mark' = mark /\ index' = index /\ paused' = paused
    BY DEF OpenPosition, marketVars
  <1>8. balances[u] \in Nat /\ d \in Int /\ balances[u] + d \in Nat
    BY <1>1, <1>2, <1>3, <1>7 DEF TypeOK
  <1>9. p.isOpen /\ p.isLong = isLong /\ p.size = size /\ p.margin = margin /\ p.entryPrice = mark[m]
    OBVIOUS
  <1> HIDE DEF p
  <1>10. /\ balances' \in [Users -> Nat]
         /\ \A w \in Users \ {u} : balances'[w] = balances[w]
         /\ totalDeposited' \in Nat
         /\ totalDeposited' = totalDeposited + d
         /\ totalDeposited' = SumFunctionOnSet(balances', Users)
    <2> HIDE DEF d
    <2> QED BY <1>1, <1>7, <1>8, SettleSound
  <1>11. /\ positions' \in [Users -> [Markets -> Position]]
         /\ positions'[u][m] = p
         /\ \A w \in Users, n \in Markets :
               w # u \/ n # m => positions'[w][n] = positions[w][n]
         /\ Collateral \in Int
         /\ Collateral' = Collateral - positions[u][m].margin + p.margin
    <2>1. TypeOK
      BY <1>1
    <2>2. positions' = [positions EXCEPT ![u][m] = p]
      BY <1>7
    <2>3. p \in Position
      BY <1>6
    <2>4. positions \in [Users -> [Markets -> Position]]
      BY <1>1 DEF TypeOK, Position
    <2>5. /\ Collateral \in Int
          /\ Collateral' = Collateral - positions[u][m].margin + p.margin
      BY <2>1, <2>2, <2>3, PositionReplaced
    <2> QED BY <2>2, <2>3, <2>4, <2>5
  <1>12. \A n \in Markets, long \in BOOLEAN :
            /\ SumFunctionOnSet([w \in Users |-> SizeOn(w, n, long)], Users) \in Nat
            /\ SizeOn(u, n, long) \in Nat
            /\ SizeOn(u, n, long) <= SumFunctionOnSet([w \in Users |-> SizeOn(w, n, long)], Users)
            /\ SumFunctionOnSet([w \in Users |-> SizeOn(w, n, long)], Users)' =
                   SumFunctionOnSet([w \in Users |-> SizeOn(w, n, long)], Users)
                      - SizeOn(u, n, long) + SizeOn(u, n, long)'
    <2>1. TypeOK
      BY <1>1
    <2>2. positions' = [positions EXCEPT ![u][m] = p]
      BY <1>7
    <2>3. p \in Position
      BY <1>6
    <2> QED BY <2>1, <2>2, <2>3, InterestReplaced
  <1>13. TypeOK'
    <2>1. held' \in Nat /\ wallet' \in [Users -> Nat]
      BY <1>1, <1>3, <1>7 DEF FlushFee, TypeOK
    <2>2. openInterest' \in [Markets -> [BOOLEAN -> Nat]]
      BY <1>1, <1>2, <1>7 DEF TypeOK
    <2>3. opens' \in Nat /\ gains' \in Int
      BY <1>1, <1>7 DEF TypeOK
    <2>4. fresh' \in [Users -> [Markets -> BOOLEAN]]
      <3>1. (lastFundingTime'[m] = now) \in BOOLEAN
        OBVIOUS
      <3> QED BY <1>1, <1>7, <3>1 DEF TypeOK
    <2>5. /\ active' \in SUBSET Markets /\ mark' \in [Markets -> Prices]
          /\ index' \in [Markets -> Prices] /\ paused' \in BOOLEAN
      BY <1>1, <1>7 DEF TypeOK
    <2> QED BY <1>5, <1>10, <1>11, <2>1, <2>2, <2>3, <2>4, <2>5 DEF TypeOK, Position
  <1>14. PositionsSound'
    BY <1>1, <1>4, <1>9, <1>11 DEF PositionsSound
  <1>15. TotalsAgree'
    <2>1. ASSUME NEW n \in Markets, NEW long \in BOOLEAN
          PROVE  openInterest'[n][long] =
                     SumFunctionOnSet([w \in Users |-> SizeOn(w, n, long)], Users)'
      <3>1. openInterest[n][long] =
                SumFunctionOnSet([w \in Users |-> SizeOn(w, n, long)], Users)
        BY <1>1 DEF TotalsAgree
      <3>2. openInterest \in [Markets -> [BOOLEAN -> Nat]]
        BY <1>1 DEF TypeOK
      <3>3. /\ SumFunctionOnSet([w \in Users |-> SizeOn(w, n, long)], Users) \in Nat
            /\ SumFunctionOnSet([w \in Users |-> SizeOn(w, n, long)], Users)' =
                   SumFunctionOnSet([w \in Users |-> SizeOn(w, n, long)], Users)
                      - SizeOn(u, n, long) + SizeOn(u, n, long)'
        BY <1>12
      <3>4. CASE n = m /\ long = isLong
        <4>1. SizeOn(u, n, long) = 0 /\ SizeOn(u, n, long)' = size
          BY <3>4, <1>7, <1>9, <1>11 DEF SizeOn
        <4>2. openInterest'[n][long] = openInterest[n][long] + size
          BY <3>2, <3>4, <1>7
        <4> QED BY <3>1, <3>3, <4>1, <4>2, <1>2
      <3>5. CASE ~(n = m /\ long = isLong)
        <4>1. SizeOn(u, n, long) = SizeOn(u, n, long)' /\ SizeOn(u, n, long) \in Nat
          <5>1. SizeOn(u, n, long) \in Nat
            BY <1>1 DEF SizeOn, TypeOK
          <5>2. CASE n = m
            BY <5>1, <5>2, <3>5, <1>7, <1>9, <1>11 DEF SizeOn
          <5>3. CASE n # m
            <6>1. positions'[u][n] = positions[u][n]
              BY <5>3, <1>11
            <6> QED BY <6>1, <5>1 DEF SizeOn
          <5> QED BY <5>2, <5>3
        <4>2. openInterest'[n][long] = openInterest[n][long]
          BY <3>2, <3>5, <1>7
        <4> QED BY <3>1, <3>3, <4>1, <4>2
      <3> QED BY <3>4, <3>5
    <2> QED BY <2>1, <1>10 DEF TotalsAgree
  <1>16. Backed'
    <2>1. held + gains = totalDeposited + Collateral
      BY <1>1 DEF Backed, Collateral
    <2>2. held \in Int /\ gains \in Int /\ totalDeposited \in Int
      BY <1>1 DEF TypeOK
    <2>3. held' = held - Fee(size)
      BY <1>7 DEF FlushFee
    <2>4. positions[u][m].margin = 0
      BY <1>1, <1>7 DEF PositionsSound
    <2>5. gains' = gains /\ totalDeposited' = totalDeposited - (margin + Fee(size))
      BY <1>7, <1>10
    <2>6. Collateral \in Int /\ Collateral' = Collateral + margin
      BY <2>4, <1>2, <1>9, <1>11
    <2>7. held' + gains' = totalDeposited' + Collateral'
      BY <2>1, <2>2, <2>3, <2>5, <2>6, <1>2, <1>3
    <2> QED BY <2>7 DEF Backed, Collateral
  <1> QED BY <1>7, <1>9, <1>10, <1>11, <1>13, <1>14, <1>15, <1>16 DEF IInv

(* Closing a position returns its margin to the balance, with what it won  *)
(* or less what it lost, and never takes from the balance.                 *)
LEMMA ClosePositionOfSound ==
    ASSUME IInv, NEW u \in Users, NEW m \in Markets, positions[u][m].isOpen, NEW net \in Int,
           NEW bonus \in Nat, Payout(positions[u][m], net) \in Nat,
           bonus <= Payout(positions[u][m], net),
           now' \in Nat, lastFundingTime' \in [Markets -> Nat],
           cumulativeFundingIndex' \in [Markets -> Int],
           ClosePositionOf(u, m, net, bonus)
    PROVE  /\ IInv'
           /\ \A w \in Users : ~(balances'[w] < balances[w])
  <1> DEFINE pos == positions[u][m]
             paid == Payout(pos, net)
             d == paid - bonus
  <1>1. TypeOK /\ PositionsSound /\ TotalsAgree /\ Backed
    BY DEF IInv
  <1>2. /\ positions' = [positions EXCEPT ![u][m] = Empty]
        /\ Settle(u, d)
        /\ FlushFee(bonus)
        /\ openInterest' = [openInterest EXCEPT ![m][pos.isLong] = @ - pos.size]
        /\ opens' = opens
        /\ gains' = gains + paid - pos.margin
        /\ fresh' = [fresh EXCEPT ![u][m] = FALSE]
        /\ active' = active /\ mark' = mark /\ index' = index /\ paused' = paused
    BY DEF ClosePositionOf, LowerInterest, marketVars
  <1>3. /\ pos.size \in Nat /\ pos.isLong \in BOOLEAN /\ pos.margin \in Nat
    BY <1>1 DEF TypeOK
  <1>4. paid \in Nat /\ bonus <= paid /\ pos.isOpen
    OBVIOUS
  <1>5. Empty \in Position /\ ~Empty.isOpen /\ Empty.margin = 0
    BY DEF Empty, Position
  <1> HIDE DEF pos, paid
  <1>6. d \in Int /\ d \in Nat /\ balances[u] \in Nat /\ balances[u] + d \in Nat
    BY <1>1, <1>4 DEF TypeOK
  <1>7. /\ balances' \in [Users -> Nat]
        /\ balances'[u] = balances[u] + d
        /\ \A w \in Users \ {u} : balances'[w] = balances[w]
        /\ totalDeposited' \in Nat
        /\ totalDeposited' = totalDeposited + d
        /\ totalDeposited' = SumFunctionOnSet(balances', Users)
    <2> HIDE DEF d
    <2> QED BY <1>1, <1>2, <1>6, SettleSound
  <1>8. /\ positions' \in [Users -> [Markets -> Position]]
        /\ positions'[u][m] = Empty
        /\ \A w \in Users, n \in Markets :
               w # u \/ n # m => positions'[w][n] = positions[w][n]
        /\ Collateral \in Int
        /\ Collateral' = Collateral - positions[u][m].margin + Empty.margin
    <2>1. TypeOK
      BY <1>1
    <2>2. positions' = [positions EXCEPT ![u][m] = Empty]
      BY <1>2
    <2>3. Empty \in Position
      BY <1>5
    <2>4. positions \in [Users -> [Markets -> Position]]
      BY <1>1 DEF TypeOK, Position
    <2>5. /\ Collateral \in Int
          /\ Collateral' = Collateral - positions[u][m].margin + Empty.margin
      BY <2>1, <2>2, <2>3, PositionReplaced
    <2> QED BY <2>2, <2>3, <2>4, <2>5
  <1>9. \A n \in Markets, long \in BOOLEAN :
            /\ SumFunctionOnSet([w \in Users |-> SizeOn(w, n, long)], Users) \in Nat
            /\ SizeOn(u, n, long) \in Nat
            /\ SizeOn(u, n, long) <= SumFunctionOnSet([w \in Users |-> SizeOn(w, n, long)], Users)
            /\ SumFunctionOnSet([w \in Users |-> SizeOn(w, n, long)], Users)' =
                   SumFunctionOnSet([w \in Users |-> SizeOn(w, n, long)], Users)
                      - SizeOn(u, n, long) + SizeOn(u, n, long)'
    <2>1. TypeOK
      BY <1>1
    <2>2. positions' = [positions EXCEPT ![u][m] = Empty]
      BY <1>2
    <2>3. Empty \in Position
      BY <1>5
    <2> QED BY <2>1, <2>2, <2>3, InterestReplaced
  <1>10. \A n \in Markets, long \in BOOLEAN :
            openInterest[n][long] = SumFunctionOnSet([w \in Users |-> SizeOn(w, n, long)], Users)
    BY <1>1 DEF TotalsAgree
  <1>11. openInterest \in [Markets -> [BOOLEAN -> Nat]]
    BY <1>1 DEF TypeOK
  <1>12. SizeOn(u, m, pos.isLong) = pos.size
    BY <1>4 DEF SizeOn, pos
  <1>13. openInterest[m][pos.isLong] - pos.size \in Nat
    <2>1. /\ SizeOn(u, m, pos.isLong) <=
                SumFunctionOnSet([w \in Users |-> SizeOn(w, m, pos.isLong)], Users)
          /\ openInterest[m][pos.isLong] =
                SumFunctionOnSet([w \in Users |-> SizeOn(w, m, pos.isLong)], Users)
      BY <1>3, <1>9, <1>10
    <2>2. openInterest[m][pos.isLong] \in Nat
      BY <1>3, <1>11
    <2> QED BY <2>1, <2>2, <1>3, <1>12
  <1>14. TypeOK'
    <2>1. held' \in Nat /\ wallet' \in [Users -> Nat]
      BY <1>1, <1>2 DEF FlushFee, TypeOK
    <2>2. openInterest' \in [Markets -> [BOOLEAN -> Nat]]
      BY <1>2, <1>3, <1>11, <1>13
    <2>3. opens' \in Nat /\ gains' \in Int
      BY <1>1, <1>2, <1>3, <1>4 DEF TypeOK
    <2>4. fresh' \in [Users -> [Markets -> BOOLEAN]]
      BY <1>1, <1>2 DEF TypeOK
    <2>5. /\ active' \in SUBSET Markets /\ mark' \in [Markets -> Prices]
          /\ index' \in [Markets -> Prices] /\ paused' \in BOOLEAN
      BY <1>1, <1>2 DEF TypeOK
    <2> QED BY <1>7, <1>8, <2>1, <2>2, <2>3, <2>4, <2>5 DEF TypeOK, Position
  <1>15. PositionsSound'
    BY <1>1, <1>5, <1>8 DEF PositionsSound
  <1>16. TotalsAgree'
    <2>1. ASSUME NEW n \in Markets, NEW long \in BOOLEAN
          PROVE  openInterest'[n][long] =
                     SumFunctionOnSet([w \in Users |-> SizeOn(w, n, long)], Users)'
      <3>1. openInterest[n][long] =
                SumFunctionOnSet([w \in Users |-> SizeOn(w, n, long)], Users)
        BY <1>10
      <3>2. /\ SumFunctionOnSet([w \in Users |-> SizeOn(w, n, long)], Users) \in Nat
            /\ SizeOn(u, n, long) \in Nat
            /\ SumFunctionOnSet([w \in Users |-> SizeOn(w, n, long)], Users)' =
                   SumFunctionOnSet([w \in Users |-> SizeOn(w, n, long)], Users)
                      - SizeOn(u, n, long) + SizeOn(u, n, long)'
        BY <1>9
      <3>3. CASE n = m /\ long = pos.isLong
        <4>1. SizeOn(u, n, long)' = 0
          BY <3>3, <1>5, <1>8 DEF SizeOn
        <4>2. openInterest'[n][long] = openInterest[n][long] - pos.size
          BY <3>3, <1>2, <1>11
        <4>3. SizeOn(u, n, long) = pos.size
          BY <3>3, <1>12
        <4> QED BY <3>1, <3>2, <4>1, <4>2, <4>3
      <3>4. CASE ~(n = m /\ long = pos.isLong)
        <4>1. SizeOn(u, n, long)' = SizeOn(u, n, long)
          <5>1. CASE n = m
            <6>1. SizeOn(u, n, long) = 0
              BY <5>1, <3>4 DEF SizeOn, pos
            <6>2. SizeOn(u, n, long)' = 0
              BY <5>1, <1>5, <1>8 DEF SizeOn
            <6> QED BY <6>1, <6>2
          <5>2. CASE n # m
            <6>1. positions'[u][n] = positions[u][n]
              BY <5>2, <1>8
            <6> QED BY <6>1 DEF SizeOn
          <5> QED BY <5>1, <5>2
        <4>2. openInterest'[n][long] = openInterest[n][long]
          BY <3>4, <1>2, <1>3, <1>11
        <4> QED BY <3>1, <3>2, <4>1, <4>2
      <3> QED BY <3>3, <3>4
    <2> QED BY <2>1, <1>7 DEF TotalsAgree
  <1>17. Backed'
    <2>1. held + gains = totalDeposited + Collateral
      BY <1>1 DEF Backed, Collateral
    <2>2. held \in Int /\ gains \in Int /\ totalDeposited \in Int
      BY <1>1 DEF TypeOK
    <2>3. held' = held - bonus
      BY <1>2 DEF FlushFee
    <2>4. Collateral' = Collateral - pos.margin + 0
      BY <1>5, <1>8 DEF pos
    <2>5. gains' = gains + paid - pos.margin /\ totalDeposited' = totalDeposited + (paid - bonus)
      BY <1>2, <1>7
    <2>6. Collateral \in Int
      BY <1>8
    <2>7. held' + gains' = totalDeposited' + Collateral'
      BY <2>1, <2>2, <2>3, <2>4, <2>5, <2>6, <1>3, <1>4
    <2> QED BY <2>7 DEF Backed, Collateral
  <1>18. \A w \in Users : ~(balances'[w] < balances[w])
    <2>1. balances \in [Users -> Nat]
      BY <1>1 DEF TypeOK
    <2> QED BY <2>1, <1>6, <1>7
  <1> QED BY <1>14, <1>15, <1>16, <1>17, <1>18 DEF IInv

(* Closing a position settles an interval first and takes no bonus. *)
LEMMA ClosePositionSound ==
    ASSUME IInv, NEW u \in Users, NEW m \in Markets, ClosePosition(u, m)
    PROVE  IInv' /\ \A w \in Users : ~(balances'[w] < balances[w])
  <1> DEFINE net == NetPnL(positions[u][m], mark[m], cumulativeFundingIndex'[m])
  <1>1. TypeOK /\ PositionsSound
    BY DEF IInv
  <1>2. mark[m] \in Prices /\ index[m] \in Prices
    BY <1>1 DEF TypeOK
  <1>3. positions[u][m].isOpen /\ ClosePositionOf(u, m, net, 0)
    BY DEF ClosePosition
  <1>4. /\ now' \in Nat /\ lastFundingTime' \in [Markets -> Nat]
        /\ cumulativeFundingIndex' \in [Markets -> Int] /\ cumulativeFundingIndex'[m] \in Int
    <2>1. ApplyFunding(m, mark[m], index[m])
      BY DEF ClosePosition
    <2> QED BY <1>1, <1>2, <2>1, FundingSound
  <1>5. net \in Int /\ Payout(positions[u][m], net) \in Nat
    BY <1>1, <1>2, <1>3, <1>4, PayoutNat
  <1> HIDE DEF net
  <1>6. 0 \in Nat /\ 0 <= Payout(positions[u][m], net)
    BY <1>5
  <1> QED BY <1>3, <1>4, <1>5, <1>6, ClosePositionOfSound

(* Liquidating pays the liquidator a share of what the trader is left with. *)
LEMMA LiquidateSound ==
    ASSUME IInv, NEW u \in Users, NEW m \in Markets, Liquidate(u, m)
    PROVE  IInv' /\ \A w \in Users : ~(balances'[w] < balances[w])
  <1> DEFINE net == NetPnL(positions[u][m], mark[m], cumulativeFundingIndex'[m])
             bonus == Bonus(positions[u][m], net)
  <1>1. TypeOK /\ PositionsSound
    BY DEF IInv
  <1>2. mark[m] \in Prices /\ index[m] \in Prices
    BY <1>1 DEF TypeOK
  <1>3. positions[u][m].isOpen /\ ClosePositionOf(u, m, net, bonus)
    BY DEF Liquidate
  <1>4. /\ now' \in Nat /\ lastFundingTime' \in [Markets -> Nat]
        /\ cumulativeFundingIndex' \in [Markets -> Int] /\ cumulativeFundingIndex'[m] \in Int
    <2>1. ApplyFunding(m, mark[m], index[m])
      BY DEF Liquidate
    <2> QED BY <1>1, <1>2, <2>1, FundingSound
  <1>5. net \in Int /\ Payout(positions[u][m], net) \in Nat
    BY <1>1, <1>2, <1>3, <1>4, PayoutNat
  <1> HIDE DEF net
  <1>6. bonus \in Nat /\ bonus <= Payout(positions[u][m], net)
    <2>1. LIQUIDATION_BONUS_BPS \in 0..BPS
      BY EngineConstants
    <2> DEFINE paid == Payout(positions[u][m], net)
    <2>2. paid \in Nat /\ bonus = (paid * LIQUIDATION_BONUS_BPS) \div BPS
      BY <1>5 DEF Bonus
    <2> HIDE DEF paid, bonus
    <2>3. bonus \in Nat /\ bonus <= paid
      BY <2>1, <2>2, ShareBounded
    <2> QED BY <2>3 DEF paid
  <1> HIDE DEF bonus
  <1> QED BY <1>3, <1>4, <1>5, <1>6, ClosePositionOfSound

(* A deposit or withdrawal moves the tokens with the balance. *)
LEMMA VaultStepSound ==
    ASSUME IInv, NEW u \in Users, VaultStep(u)
    PROVE  /\ IInv'
           /\ \A w \in Users : balances'[w] < balances[w] => wallet'[w] > wallet[w]
  <1>1. TypeOK /\ PositionsSound /\ TotalsAgree /\ Backed
    BY DEF IInv
  <1>2. PICK amount \in Amounts : Deposit(u, amount) \/ Withdraw(u, amount)
    BY DEF VaultStep
  <1>3. /\ positions' = positions /\ openInterest' = openInterest /\ gains' = gains
        /\ now' = now /\ lastFundingTime' = lastFundingTime
        /\ cumulativeFundingIndex' = cumulativeFundingIndex
        /\ active' = active /\ mark' = mark /\ index' = index /\ paused' = paused
        /\ opens' = opens /\ fresh' = fresh
    BY DEF VaultStep, fundingVars, marketVars
  <1>4. amount \in Nat /\ amount \in Int /\ amount > 0 /\ -amount \in Int
    BY VaultConstants
  <1>5. /\ balances \in [Users -> Nat] /\ wallet \in [Users -> Nat]
        /\ held \in Nat /\ totalDeposited \in Nat /\ balances[u] \in Nat /\ wallet[u] \in Nat
    BY <1>1 DEF TypeOK
  <1>6. PICK d \in {amount, -amount} :
            /\ Settle(u, d) /\ balances[u] + d \in Nat /\ held' = held + d /\ held' \in Nat
            /\ wallet' = [wallet EXCEPT ![u] = @ - d] /\ wallet' \in [Users -> Nat]
    <2>1. CASE Deposit(u, amount)
      <3>1. /\ Settle(u, amount) /\ balances[u] + amount \in Nat
            /\ held' = held + amount /\ held' \in Nat
        BY <2>1, <1>4, <1>5 DEF Deposit, Settle
      <3>2. wallet' = [wallet EXCEPT ![u] = @ - amount] /\ wallet' \in [Users -> Nat]
        BY <2>1, <1>4, <1>5 DEF Deposit
      <3> QED BY <3>1, <3>2
    <2>2. CASE Withdraw(u, amount)
      <3>1. balances[u] + (-amount) \in Nat /\ held' = held + (-amount) /\ held' \in Nat
        BY <2>2, <1>4, <1>5 DEF Withdraw
      <3>2. Settle(u, -amount)
        BY <2>2, <1>4, <1>5 DEF Withdraw, Settle
      <3>3. wallet' = [wallet EXCEPT ![u] = @ - (-amount)] /\ wallet' \in [Users -> Nat]
        <4>1. wallet' = [wallet EXCEPT ![u] = wallet[u] + amount]
          BY <2>2 DEF Withdraw
        <4>2. wallet[u] + amount = wallet[u] - (-amount) /\ wallet[u] + amount \in Nat
          BY <1>4, <1>5
        <4> QED BY <4>1, <4>2, <1>5
      <3> QED BY <3>1, <3>2, <3>3
    <2> QED BY <1>2, <2>1, <2>2
  <1>7. d \in Int
    BY <1>4, <1>6
  <1>8. /\ balances' \in [Users -> Nat]
        /\ balances'[u] = balances[u] + d
        /\ \A w \in Users \ {u} : balances'[w] = balances[w]
        /\ totalDeposited' \in Nat
        /\ totalDeposited' = totalDeposited + d
        /\ totalDeposited' = SumFunctionOnSet(balances', Users)
    BY <1>1, <1>6, <1>7, SettleSound
  <1>9. TypeOK'
    <2>1. balances' \in [Users -> Nat] /\ totalDeposited' \in Nat
      BY <1>8
    <2>2. held' \in Nat /\ wallet' \in [Users -> Nat]
      BY <1>6
    <2> QED BY <1>1, <1>3, <2>1, <2>2 DEF TypeOK
  <1>10. /\ Collateral' = Collateral
         /\ PositionsSound'
         /\ \A n \in Markets, long \in BOOLEAN :
                SumFunctionOnSet([w \in Users |-> SizeOn(w, n, long)], Users)' =
                    SumFunctionOnSet([w \in Users |-> SizeOn(w, n, long)], Users)
    <2>1. positions' = positions
      BY <1>3
    <2>2. PositionsSound
      BY <1>1
    <2> QED BY <2>1, <2>2, PositionsKept
  <1>11. TotalsAgree'
    <2>1. \A n \in Markets, long \in BOOLEAN : openInterest'[n][long] = openInterest[n][long]
      BY <1>3
    <2> QED BY <1>1, <1>8, <1>10, <2>1 DEF TotalsAgree
  <1>12. Backed'
    <2>1. held + gains = totalDeposited + Collateral
      BY <1>1 DEF Backed, Collateral
    <2>2. gains \in Int /\ positions \in [Users -> [Markets -> Position]]
      BY <1>1 DEF TypeOK, Position
    <2>3. Collateral \in Int
      <3>1. [w \in Users |-> MarginOf(w)] \in [Users -> Int]
        BY <2>2, MarginOfNat
      <3> QED BY <3>1, VaultConstants, SumType DEF Collateral
    <2>4. held' = held + d /\ totalDeposited' = totalDeposited + d /\ gains' = gains /\ Collateral' = Collateral
      BY <1>3, <1>6, <1>8, <1>10
    <2>5. held' + gains' = totalDeposited' + Collateral'
      BY <2>1, <2>2, <2>3, <2>4, <1>5, <1>7
    <2> QED BY <2>5 DEF Backed, Collateral
  <1>13. ASSUME NEW w \in Users, balances'[w] < balances[w] PROVE wallet'[w] > wallet[w]
    <2>1. w = u /\ d < 0
      BY <1>5, <1>7, <1>8, <1>13
    <2>2. wallet'[u] = wallet[u] - d
      BY <1>5, <1>6
    <2> QED BY <2>1, <2>2, <1>5, <1>7
  <1> QED BY <1>9, <1>10, <1>11, <1>12, <1>13 DEF IInv

(* The other steps move neither tokens nor positions. *)
LEMMA LedgersKept ==
    ASSUME IInv, UNCHANGED <<balances, totalDeposited, held, gains, positions, openInterest>>
    PROVE  PositionsSound' /\ TotalsAgree' /\ Backed'
  <1>1. PositionsSound /\ TotalsAgree /\ Backed
    BY DEF IInv
  <1>2. positions' = positions
    OBVIOUS
  <1>3. /\ Collateral' = Collateral
        /\ PositionsSound'
        /\ \A n \in Markets, long \in BOOLEAN :
               SumFunctionOnSet([w \in Users |-> SizeOn(w, n, long)], Users)' =
                   SumFunctionOnSet([w \in Users |-> SizeOn(w, n, long)], Users)
    BY <1>1, <1>2, PositionsKept
  <1>4. TotalsAgree'
    <2>1. \A n \in Markets, long \in BOOLEAN : openInterest'[n][long] = openInterest[n][long]
      OBVIOUS
    <2>2. totalDeposited' = SumFunctionOnSet(balances', Users)
      BY <1>1 DEF TotalsAgree
    <2> QED BY <1>1, <1>3, <2>1, <2>2 DEF TotalsAgree
  <1>5. Backed'
    <2>1. held + gains = totalDeposited + Collateral
      BY <1>1 DEF Backed, Collateral
    <2>2. held' + gains' = totalDeposited' + Collateral'
      BY <2>1, <1>3
    <2> QED BY <2>2 DEF Backed, Collateral
  <1> QED BY <1>3, <1>4, <1>5

(* The clock, the oracle, the admins: the types survive them. *)
LEMMA OtherStepSound ==
    ASSUME IInv,
           \/ \E m \in Markets : CreateMarket(m) \/ AdminInitMarket(m)
           \/ \E m \in Markets, p, q \in Prices : AdminFunding(m, p, q) \/ OracleMoves(m, p, q)
           \/ SetPaused
           \/ TimePasses
           \/ UNCHANGED vars
    PROVE  IInv' /\ balances' = balances
  <1>1. TypeOK
    BY DEF IInv
  <1>2. UNCHANGED <<balances, totalDeposited, held, gains, positions, openInterest>>
    BY DEF CreateMarket, AdminInitMarket, AdminFunding, OracleMoves, SetPaused, TimePasses, vars, vaultVars
  <1>3. PositionsSound' /\ TotalsAgree' /\ Backed'
    BY <1>2, LedgersKept
  <1>4. ASSUME NEW m \in Markets, CreateMarket(m) PROVE TypeOK'
    BY <1>1, <1>4 DEF TypeOK, CreateMarket, InitMarket, vaultVars
  <1>5. ASSUME NEW m \in Markets, NEW p \in Prices, NEW q \in Prices, AdminFunding(m, p, q)
        PROVE  TypeOK'
    <2>1. ApplyFunding(m, p, q)
      BY <1>5 DEF AdminFunding
    <2>2. /\ now' \in Nat
          /\ lastFundingTime' \in [Markets -> Nat]
          /\ cumulativeFundingIndex' \in [Markets -> Int]
      BY <1>1, <2>1, FundingSound
    <2>3. UNCHANGED <<vaultVars, positions, openInterest, marketVars, opens, gains, fresh>>
      BY <1>5 DEF AdminFunding
    <2> QED BY <1>1, <2>2, <2>3 DEF TypeOK, vaultVars, marketVars
  <1>6. ASSUME NEW m \in Markets, NEW p \in Prices, NEW q \in Prices, OracleMoves(m, p, q)
        PROVE  TypeOK'
    BY <1>1, <1>6 DEF TypeOK, OracleMoves, vaultVars, fundingVars
  <1>7. ASSUME SetPaused PROVE TypeOK'
    BY <1>1, <1>7 DEF TypeOK, SetPaused, vaultVars, fundingVars
  <1>8. ASSUME TimePasses PROVE TypeOK'
    BY <1>1, <1>8 DEF TypeOK, TimePasses, IntervalPasses, vaultVars, marketVars
  <1>9. ASSUME UNCHANGED vars PROVE TypeOK'
    BY <1>1, <1>9 DEF TypeOK, vars, vaultVars, fundingVars, marketVars
  <1>10. ASSUME NEW m \in Markets, AdminInitMarket(m) PROVE TypeOK'
    BY <1>1, <1>10 DEF TypeOK, AdminInitMarket, InitMarket, vaultVars, marketVars
  <1>11. TypeOK'
    BY <1>4, <1>5, <1>6, <1>7, <1>8, <1>9, <1>10
  <1> QED BY <1>2, <1>3, <1>11 DEF IInv

-----------------------------------------------------------------------------
(* The initial states, and every step. *)

(* Nothing is held and nothing owed at the start. *)
LEMMA InitInv == Init => IInv
  <1> SUFFICES ASSUME Init PROVE IInv
    OBVIOUS
  <1>1. TypeOK
    <2>1. /\ balances \in [Users -> Nat] /\ totalDeposited \in Nat /\ held \in Nat
          /\ wallet \in [Users -> Nat]
      BY VaultConstants DEF Init, VaultInit
    <2>2. /\ now \in Nat /\ lastFundingTime \in [Markets -> Nat]
          /\ cumulativeFundingIndex \in [Markets -> Int]
      BY DEF Init, FundingInit
    <2>3. Empty \in Position
      BY DEF Empty, Position
    <2>4. positions \in [Users -> [Markets -> Position]]
      BY <2>3 DEF Init
    <2>5. /\ active \in SUBSET Markets
          /\ mark \in [Markets -> Prices] /\ index \in [Markets -> Prices]
          /\ paused \in BOOLEAN /\ opens \in Nat /\ gains \in Int
      <3>1. /\ active = {} /\ paused = FALSE /\ opens = 0 /\ gains = 0
            /\ mark \in [Markets -> Prices] /\ index \in [Markets -> Prices]
        BY Zenon DEF Init
      <3>2. paused \in BOOLEAN
        BY <3>1, Zenon
      <3>3. active \in SUBSET Markets /\ opens \in Nat /\ gains \in Int
        <4>1. active = {} /\ opens = 0 /\ gains = 0
          BY <3>1
        <4> QED BY <4>1
      <3> QED BY <3>1, <3>2, <3>3
    <2>6. openInterest \in [Markets -> [BOOLEAN -> Nat]]
      <3>1. [long \in BOOLEAN |-> 0] \in [BOOLEAN -> Nat]
        OBVIOUS
      <3> QED BY <3>1 DEF Init
    <2>7. fresh \in [Users -> [Markets -> BOOLEAN]]
      BY DEF Init
    <2> QED BY <2>1, <2>2, <2>4, <2>5, <2>6, <2>7 DEF TypeOK, Position
  <1>2. PositionsSound
    BY DEF Init, PositionsSound, Empty
  <1>3. \A u \in Users, m \in Markets : ~positions[u][m].isOpen /\ positions[u][m].margin = 0
    BY DEF Init, Empty
  <1>4. balances \in [Users -> Int] /\ \A u \in Users : balances[u] = 0
    BY DEF Init, VaultInit
  <1>5. TotalsAgree
    <2>1. totalDeposited = SumFunctionOnSet(balances, Users)
      <3>1. SumFunctionOnSet(balances, Users) = 0
        BY <1>4, VaultConstants, SumOfZeros
      <3> QED BY <3>1 DEF Init, VaultInit
    <2>2. ASSUME NEW m \in Markets, NEW long \in BOOLEAN
          PROVE  openInterest[m][long] = SumFunctionOnSet([u \in Users |-> SizeOn(u, m, long)], Users)
      <3> DEFINE f == [u \in Users |-> SizeOn(u, m, long)]
      <3>1. f \in [Users -> Int] /\ \A u \in Users : f[u] = 0
        BY <1>3 DEF SizeOn
      <3>2. SumFunctionOnSet(f, Users) = 0
        <4> HIDE DEF f
        <4> QED BY <3>1, VaultConstants, SumOfZeros
      <3> QED BY <3>2 DEF Init
    <2> QED BY <2>1, <2>2 DEF TotalsAgree
  <1>6. Backed
    <2>1. ASSUME NEW u \in Users PROVE MarginOf(u) = 0
      <3> DEFINE f == [m \in Markets |-> positions[u][m].margin]
      <3>1. f \in [Markets -> Int] /\ \A m \in Markets : f[m] = 0
        BY <1>3
      <3>2. SumFunctionOnSet(f, Markets) = 0
        <4> HIDE DEF f
        <4> QED BY <3>1, FundingConstants, SumOfZeros
      <3> QED BY <3>2 DEF MarginOf
    <2> DEFINE g == [u \in Users |-> MarginOf(u)]
    <2>2. g \in [Users -> Int] /\ \A u \in Users : g[u] = 0
      BY <2>1
    <2>3. SumFunctionOnSet(g, Users) = 0
      <3> HIDE DEF g
      <3> QED BY <2>2, VaultConstants, SumOfZeros
    <2>4. held = 0 /\ gains = 0 /\ totalDeposited = 0
      BY DEF Init, VaultInit
    <2> QED BY <2>3, <2>4 DEF Backed
  <1> QED BY <1>1, <1>2, <1>5, <1>6 DEF IInv

(* LossLimitedToMargin, of one step. *)
OnlyOwnSteps ==
    \A u \in Users :
        balances'[u] < balances[u] =>
            \/ wallet'[u] > wallet[u]
            \/ \E m \in Markets : ~positions[u][m].isOpen /\ positions'[u][m].isOpen

(* Every step keeps the invariant, and lowers a balance only by the user's *)
(* own withdrawal or new position.                                         *)
LEMMA StepSound ==
    ASSUME IInv, [Next]_vars
    PROVE  IInv' /\ OnlyOwnSteps
  <1>1. balances \in [Users -> Nat]
    BY DEF IInv, TypeOK
  <1>2. ASSUME \A w \in Users : ~(balances'[w] < balances[w]) PROVE OnlyOwnSteps
    BY <1>2 DEF OnlyOwnSteps
  <1>3. ASSUME NEW u \in Users, VaultStep(u) PROVE IInv' /\ OnlyOwnSteps
    BY <1>3, VaultStepSound DEF OnlyOwnSteps
  <1>4. ASSUME NEW u \in Users, NEW m \in Markets, ClosePosition(u, m) PROVE IInv' /\ OnlyOwnSteps
    BY <1>2, <1>4, ClosePositionSound
  <1>5. ASSUME NEW u \in Users, NEW m \in Markets, Liquidate(u, m) PROVE IInv' /\ OnlyOwnSteps
    BY <1>2, <1>5, LiquidateSound
  <1>6. ASSUME NEW u \in Users, NEW m \in Markets, NEW size \in Sizes, NEW isLong \in BOOLEAN,
               NEW margin \in Margins, OpenPosition(u, m, size, isLong, margin)
        PROVE  IInv' /\ OnlyOwnSteps
    <2>1. /\ IInv'
          /\ \A w \in Users \ {u} : balances'[w] = balances[w]
          /\ ~positions[u][m].isOpen /\ positions'[u][m].isOpen
      BY <1>6, OpenPositionSound
    <2>2. ASSUME NEW w \in Users, balances'[w] < balances[w] PROVE w = u
      <3>1. balances[w] \in Nat
        BY <1>1
      <3> QED BY <2>1, <2>2, <3>1
    <2> QED BY <2>1, <2>2 DEF OnlyOwnSteps
  <1>7. ASSUME \/ \E m \in Markets : CreateMarket(m) \/ AdminInitMarket(m)
               \/ \E m \in Markets, p, q \in Prices : AdminFunding(m, p, q) \/ OracleMoves(m, p, q)
               \/ SetPaused
               \/ TimePasses
               \/ UNCHANGED vars
        PROVE  IInv' /\ OnlyOwnSteps
    <2>1. IInv' /\ balances' = balances
      BY <1>7, OtherStepSound
    <2>2. \A w \in Users : ~(balances'[w] < balances[w])
      BY <1>1, <2>1
    <2> QED BY <1>2, <2>1, <2>2
  <1> QED BY <1>3, <1>4, <1>5, <1>6, <1>7 DEF Next

-----------------------------------------------------------------------------
(* The theorems. *)

(* The inductive invariant holds in every reachable state. *)
THEOREM PerpInvariant == Spec => []IInv
  <1>1. IInv /\ [Next]_vars => IInv'
    BY StepSound
  <1> QED BY InitInv, <1>1, PTL DEF Spec

(* The state stays well typed: no payout or release underflows.            *)
THEOREM PerpIsTyped == Spec => []TypeOK
  <1>1. IInv => TypeOK
    BY DEF IInv
  <1> QED BY PerpInvariant, <1>1, PTL

(* Open interest and the vault's total always agree with the positions and *)
(* the balances they summarise (openPosition, _closePosition).             *)
THEOREM TotalsAlwaysAgree == Spec => []TotalsAgree
  <1>1. IInv => TotalsAgree
    BY DEF IInv
  <1> QED BY PerpInvariant, <1>1, PTL

(* The G$ in the vault always backs balances and margins, but for what     *)
(* traders as a whole have won (deposit, withdraw, debit, credit, flushFee). *)
THEOREM VaultIsBacked == Spec => []Backed
  <1>1. IInv => Backed
    BY DEF IInv
  <1> QED BY PerpInvariant, <1>1, PTL

(* A balance only sinks by the user's own withdrawal or new position, so a *)
(* closing or liquidation costs the margin at most (_closePosition).       *)
THEOREM LossIsLimited == Spec => LossLimitedToMargin
  <1>1. IInv /\ [Next]_vars => [OnlyOwnSteps]_vars
    BY StepSound
  <1>2. [][OnlyOwnSteps]_vars => LossLimitedToMargin
    BY PTL DEF LossLimitedToMargin, OnlyOwnSteps
  <1> QED BY PerpInvariant, <1>1, <1>2, PTL DEF Spec

-----------------------------------------------------------------------------
(* Positions that were just opened. *)

(* The largest leverage a market allows leaves the maintenance margin: the *)
(* deployed 50x and 200 basis points do, createMarket does not enforce it. *)
LeverageLeavesMaintenance == MAINTENANCE_MARGIN_BPS * MaxLeverage <= BPS

(* A fresh position was opened at the market's present price and index, on *)
(* a market whose intervals are all settled, within the leverage allowed.  *)
FreshAtMarket(u, m) ==
    /\ m \in active
    /\ lastFundingTime[m] = now
    /\ positions[u][m].size # 0 /\ positions[u][m].margin # 0
    /\ positions[u][m].size <= positions[u][m].margin * MaxLeverage
    /\ positions[u][m].entryPrice = mark[m]
    /\ positions[u][m].entryFundingIdx = cumulativeFundingIndex[m]

FreshInv == \A u \in Users, m \in Markets : fresh[u][m] => FreshAtMarket(u, m)

(* At the price and the index it was opened with, a position has neither   *)
(* gained nor lost anything.                                               *)
LEMMA NothingGainedYet ==
    ASSUME NEW pos \in Position, pos.entryPrice # 0
    PROVE  NetPnL(pos, pos.entryPrice, pos.entryFundingIdx) = 0
  <1>1. pos.size \in Nat /\ pos.entryPrice \in Nat \ {0} /\ pos.entryFundingIdx \in Int
        /\ pos.isLong \in BOOLEAN
    BY DEF Position
  <1>2. RateScale \in Nat \ {0}
    BY FundingConstants
  <1>3. ASSUME NEW b \in Nat \ {0} PROVE Quotient(0, b) = 0
    BY <1>3 DEF Quotient
  <1>4. PnL(pos, pos.entryPrice) = 0
    <2>1. pos.size * (pos.entryPrice - pos.entryPrice) = 0
      BY <1>1
    <2> QED BY <1>1, <1>3, <2>1 DEF PnL
  <1>5. ASSUME NEW size \in Int
        PROVE  AccruedFunding(size, pos.entryFundingIdx, pos.entryFundingIdx) = 0
    <2>1. size * (pos.entryFundingIdx - pos.entryFundingIdx) = 0
      BY <1>1
    <2> QED BY <1>2, <1>3, <2>1 DEF AccruedFunding
  <1>6. pos.size \in Int /\ -pos.size \in Int
    BY <1>1
  <1>7. AccruedFunding(IF pos.isLong THEN pos.size ELSE -pos.size,
                       pos.entryFundingIdx, pos.entryFundingIdx) = 0
    BY <1>5, <1>6
  <1> QED BY <1>4, <1>7 DEF NetPnL

(* Such a position is beyond the liquidator's reach. *)
LEMMA FreshIsHealthy ==
    ASSUME TypeOK, PositionsSound, FreshInv, LeverageLeavesMaintenance
    PROVE  FreshPositionHealthy
  <1> SUFFICES ASSUME NEW u \in Users, NEW m \in Markets, fresh[u][m]
               PROVE  ~Unhealthy(positions[u][m],
                                 NetPnL(positions[u][m], mark[m], NextFundingIndex(m)))
    BY DEF FreshPositionHealthy
  <1> DEFINE pos == positions[u][m]
  <1>1. FreshAtMarket(u, m)
    BY DEF FreshInv
  <1>2. pos \in Position
    BY DEF TypeOK, Position
  <1>3. mark[m] \in Nat \ {0} /\ now \in Nat
    BY EngineConstants DEF TypeOK
  <1>4. NextFundingIndex(m) = pos.entryFundingIdx
    BY <1>1, <1>3 DEF FreshAtMarket, NextFundingIndex
  <1>5. /\ pos.size \in Nat \ {0} /\ pos.margin \in Nat \ {0}
        /\ pos.size <= pos.margin * MaxLeverage
        /\ mark[m] = pos.entryPrice
    BY <1>1, <1>2 DEF FreshAtMarket, Position
  <1> HIDE DEF pos
  <1>6. NetPnL(pos, mark[m], NextFundingIndex(m)) = 0
    BY <1>2, <1>3, <1>4, <1>5, NothingGainedYet
  <1>7. Payout(pos, 0) = pos.margin
    BY <1>5 DEF Payout
  <1>8. MAINTENANCE_MARGIN_BPS * pos.size <= pos.margin * BPS
    <2>1. /\ MAINTENANCE_MARGIN_BPS \in Nat /\ MaxLeverage \in Nat /\ BPS \in Nat \ {0}
          /\ MAINTENANCE_MARGIN_BPS * MaxLeverage <= BPS
      BY EngineConstants DEF LeverageLeavesMaintenance
    <2>2. MAINTENANCE_MARGIN_BPS * pos.size <= MAINTENANCE_MARGIN_BPS * (pos.margin * MaxLeverage)
      BY <1>5, <2>1
    <2>3. MAINTENANCE_MARGIN_BPS * (pos.margin * MaxLeverage)
             = pos.margin * (MAINTENANCE_MARGIN_BPS * MaxLeverage)
      BY <1>5, <2>1
    <2>4. pos.margin * (MAINTENANCE_MARGIN_BPS * MaxLeverage) <= pos.margin * BPS
      BY <1>5, <2>1
    <2>5. /\ MAINTENANCE_MARGIN_BPS * pos.size \in Nat /\ pos.margin * BPS \in Nat
          /\ MAINTENANCE_MARGIN_BPS * (pos.margin * MaxLeverage) \in Nat
      BY <1>5, <2>1
    <2> QED BY <2>2, <2>3, <2>4, <2>5
  <1>9. (pos.margin * BPS) \div pos.size >= MAINTENANCE_MARGIN_BPS
    <2>1. MAINTENANCE_MARGIN_BPS \in Nat /\ pos.margin * BPS \in Nat
      BY <1>5, EngineConstants
    <2> QED BY <1>5, <1>8, <2>1, QuotientAtLeast
  <1>10. (pos.margin * BPS) \div pos.size \in Int
    <2>1. pos.margin * BPS \in Int
      BY <1>5, EngineConstants
    <2> QED BY <1>5, <2>1
  <1>11. ~Unhealthy(pos, 0)
    BY <1>7, <1>9, <1>10, EngineConstants DEF Unhealthy
  <1> QED BY <1>6, <1>11 DEF pos

(* Settling a market whose intervals are all settled changes nothing, and  *)
(* settling another one nothing of this market.                            *)
LEMMA FundingKeepsFresh ==
    ASSUME TypeOK, NEW m \in Markets, NEW p, NEW q, ApplyFunding(m, p, q),
           NEW n \in Markets, n # m \/ lastFundingTime[n] = now
    PROVE  /\ now' = now
           /\ lastFundingTime'[n] = lastFundingTime[n]
           /\ cumulativeFundingIndex'[n] = cumulativeFundingIndex[n]
  <1>1. now \in Nat /\ lastFundingTime \in [Markets -> Nat] /\ cumulativeFundingIndex \in [Markets -> Int]
    BY DEF TypeOK
  <1>2. now' = now
    BY DEF ApplyFunding
  <1>3. CASE now - lastFundingTime[m] < 1
    BY <1>2, <1>3 DEF ApplyFunding
  <1>4. CASE ~(now - lastFundingTime[m] < 1)
    <2>1. n # m
      BY <1>1, <1>4
    <2>2. /\ lastFundingTime' = [lastFundingTime EXCEPT ![m] = @ + 1]
          /\ cumulativeFundingIndex' = [cumulativeFundingIndex EXCEPT ![m] = @ + Rate(p, q)]
      BY <1>4 DEF ApplyFunding
    <2> QED BY <1>1, <1>2, <2>1, <2>2
  <1> QED BY <1>3, <1>4

(* A position that was fresh before a step that changes neither it, nor    *)
(* the oracle, nor its market's clock, is at the market after it.          *)
LEMMA FreshKept ==
    ASSUME NEW u \in Users, NEW m \in Markets, FreshAtMarket(u, m),
           active \subseteq active', mark'[m] = mark[m], now' = now,
           lastFundingTime'[m] = lastFundingTime[m],
           cumulativeFundingIndex'[m] = cumulativeFundingIndex[m],
           positions'[u][m] = positions[u][m]
    PROVE  FreshAtMarket(u, m)'
  BY DEF FreshAtMarket

(* A closing leaves the position it closes no longer fresh, and the others *)
(* as they were.                                                           *)
LEMMA FreshSurvivesClosing ==
    ASSUME TypeOK, FreshInv, NEW u \in Users, NEW m \in Markets, NEW net, NEW bonus, NEW p, NEW q,
           ApplyFunding(m, p, q), ClosePositionOf(u, m, net, bonus)
    PROVE  FreshInv'
  <1> SUFFICES ASSUME NEW w \in Users, NEW n \in Markets, fresh'[w][n]
               PROVE  FreshAtMarket(w, n)'
    BY DEF FreshInv
  <1>1. /\ positions' = [positions EXCEPT ![u][m] = Empty]
        /\ fresh' = [fresh EXCEPT ![u][m] = FALSE]
        /\ active' = active /\ mark' = mark
    BY DEF ClosePositionOf, marketVars
  <1>2. (w # u \/ n # m) /\ fresh[w][n]
    BY <1>1 DEF TypeOK
  <1>3. positions'[w][n] = positions[w][n]
    BY <1>1, <1>2 DEF TypeOK
  <1>4. FreshAtMarket(w, n)
    BY <1>2 DEF FreshInv
  <1>5. lastFundingTime[n] = now
    BY <1>4 DEF FreshAtMarket
  <1>6. /\ now' = now /\ lastFundingTime'[n] = lastFundingTime[n]
        /\ cumulativeFundingIndex'[n] = cumulativeFundingIndex[n]
    BY <1>5, FundingKeepsFresh
  <1> QED BY <1>1, <1>3, <1>4, <1>6, FreshKept

(* An opening is fresh at the price it was opened at; another trader's     *)
(* fresh position on the market finds no interval to settle.               *)
LEMMA FreshSurvivesOpening ==
    ASSUME TypeOK, FreshInv, NEW u \in Users, NEW m \in Markets, NEW size \in Sizes,
           NEW isLong \in BOOLEAN, NEW margin \in Margins,
           OpenPosition(u, m, size, isLong, margin)
    PROVE  FreshInv'
  <1> DEFINE p == [isOpen |-> TRUE, isLong |-> isLong, size |-> size, entryPrice |-> mark[m],
                   margin |-> margin, entryFundingIdx |-> cumulativeFundingIndex'[m]]
  <1>1. /\ positions' = [positions EXCEPT ![u][m] = p]
        /\ fresh' = [fresh EXCEPT ![u][m] = (lastFundingTime'[m] = now)]
        /\ active' = active /\ mark' = mark /\ m \in active
        /\ size <= margin * MaxLeverage
        /\ ApplyFunding(m, mark[m], index[m])
    BY DEF OpenPosition, marketVars, LeverageAllowed
  <1>2. size # 0 /\ margin # 0
    BY EngineConstants
  <1>3. /\ p.size = size /\ p.margin = margin /\ p.entryPrice = mark[m]
        /\ p.entryFundingIdx = cumulativeFundingIndex'[m]
    OBVIOUS
  <1>4. /\ positions \in [Users -> [Markets -> Position]]
        /\ fresh \in [Users -> [Markets -> BOOLEAN]]
    BY DEF TypeOK, Position
  <1>5. positions'[u][m] = p /\ (fresh'[u][m] <=> lastFundingTime'[m] = now)
    BY <1>1, <1>4
  <1> HIDE DEF p
  <1> SUFFICES ASSUME NEW w \in Users, NEW n \in Markets, fresh'[w][n]
               PROVE  FreshAtMarket(w, n)'
    BY DEF FreshInv
  <1>6. CASE w = u /\ n = m
    <2>1. now' = now
      BY <1>1 DEF ApplyFunding
    <2>2. lastFundingTime'[m] = now'
      BY <1>5, <1>6, <2>1
    <2> QED BY <1>1, <1>2, <1>3, <1>5, <1>6, <2>2 DEF FreshAtMarket
  <1>7. CASE w # u \/ n # m
    <2>1. fresh[w][n] /\ positions'[w][n] = positions[w][n]
      BY <1>1, <1>4, <1>7
    <2>2. FreshAtMarket(w, n)
      BY <2>1 DEF FreshInv
    <2>3. lastFundingTime[n] = now
      BY <2>2 DEF FreshAtMarket
    <2>4. /\ now' = now /\ lastFundingTime'[n] = lastFundingTime[n]
          /\ cumulativeFundingIndex'[n] = cumulativeFundingIndex[n]
      BY <1>1, <2>3, FundingKeepsFresh
    <2> QED BY <1>1, <2>1, <2>2, <2>4, FreshKept
  <1> QED BY <1>6, <1>7

(* Every step keeps fresh positions at their market. *)
LEMMA FreshInvStep ==
    ASSUME TypeOK, FreshInv, [Next]_vars
    PROVE  FreshInv'
  <1>1. ASSUME NEW u \in Users, NEW m \in Markets, ClosePosition(u, m) PROVE FreshInv'
    <2>1. /\ ApplyFunding(m, mark[m], index[m])
          /\ ClosePositionOf(u, m, NetPnL(positions[u][m], mark[m], cumulativeFundingIndex'[m]), 0)
      BY <1>1 DEF ClosePosition
    <2> QED BY <2>1, FreshSurvivesClosing
  <1>2. ASSUME NEW u \in Users, NEW m \in Markets, Liquidate(u, m) PROVE FreshInv'
    <2> DEFINE net == NetPnL(positions[u][m], mark[m], cumulativeFundingIndex'[m])
    <2>1. /\ ApplyFunding(m, mark[m], index[m])
          /\ ClosePositionOf(u, m, net, Bonus(positions[u][m], net))
      BY <1>2 DEF Liquidate
    <2> HIDE DEF net
    <2> QED BY <2>1, FreshSurvivesClosing
  <1>3. ASSUME NEW u \in Users, NEW m \in Markets, NEW size \in Sizes, NEW isLong \in BOOLEAN,
               NEW margin \in Margins, OpenPosition(u, m, size, isLong, margin)
        PROVE  FreshInv'
    BY <1>3, FreshSurvivesOpening
  <1>4. ASSUME NEW m \in Markets, CreateMarket(m) PROVE FreshInv'
    <2> SUFFICES ASSUME NEW w \in Users, NEW n \in Markets, fresh'[w][n]
                 PROVE  FreshAtMarket(w, n)'
      BY DEF FreshInv
    <2>1. /\ fresh' = fresh /\ positions' = positions /\ mark' = mark /\ active \subseteq active'
          /\ m \notin active /\ InitMarket(m)
      BY <1>4 DEF CreateMarket
    <2>2. FreshAtMarket(w, n)
      BY <2>1 DEF FreshInv
    <2>3. n # m
      BY <2>1, <2>2 DEF FreshAtMarket
    <2>4. /\ now' = now /\ lastFundingTime'[n] = lastFundingTime[n]
          /\ cumulativeFundingIndex'[n] = cumulativeFundingIndex[n]
      BY <2>1, <2>3 DEF InitMarket, TypeOK
    <2> QED BY <2>1, <2>2, <2>4, FreshKept
  <1>5. ASSUME NEW m \in Markets, NEW p \in Prices, NEW q \in Prices, AdminFunding(m, p, q)
        PROVE  FreshInv'
    <2> SUFFICES ASSUME NEW w \in Users, NEW n \in Markets, fresh'[w][n]
                 PROVE  FreshAtMarket(w, n)'
      BY DEF FreshInv
    <2>1. /\ fresh' = fresh /\ positions' = positions /\ mark' = mark /\ active' = active
          /\ ApplyFunding(m, p, q)
      BY <1>5 DEF AdminFunding, marketVars
    <2>2. FreshAtMarket(w, n)
      BY <2>1 DEF FreshInv
    <2>3. /\ now' = now /\ lastFundingTime'[n] = lastFundingTime[n]
          /\ cumulativeFundingIndex'[n] = cumulativeFundingIndex[n]
      <3>1. lastFundingTime[n] = now
        BY <2>2 DEF FreshAtMarket
      <3> QED BY <2>1, <3>1, FundingKeepsFresh
    <2> QED BY <2>1, <2>2, <2>3, FreshKept
  <1>6. ASSUME NEW m \in Markets, NEW p \in Prices, NEW q \in Prices, OracleMoves(m, p, q)
        PROVE  FreshInv'
    <2> SUFFICES ASSUME NEW w \in Users, NEW n \in Markets, fresh'[w][n]
                 PROVE  FreshAtMarket(w, n)'
      BY DEF FreshInv
    <2>1. /\ fresh' = [u \in Users |-> [fresh[u] EXCEPT ![m] = FALSE]]
          /\ positions' = positions /\ active' = active
          /\ mark' = [mark EXCEPT ![m] = p]
          /\ UNCHANGED fundingVars
      BY <1>6 DEF OracleMoves
    <2>2. n # m /\ fresh[w][n]
      BY <2>1 DEF TypeOK
    <2>3. mark'[n] = mark[n]
      BY <2>1, <2>2 DEF TypeOK
    <2>4. FreshAtMarket(w, n)
      BY <2>2 DEF FreshInv
    <2> QED BY <2>1, <2>3, <2>4, FreshKept DEF fundingVars
  <1>7. ASSUME \/ \E u \in Users : VaultStep(u)
               \/ SetPaused
               \/ UNCHANGED vars
        PROVE  FreshInv'
    <2>1. UNCHANGED <<fresh, positions, mark, active, now, lastFundingTime, cumulativeFundingIndex>>
      BY <1>7 DEF VaultStep, SetPaused, vars, fundingVars, marketVars
    <2> QED BY <2>1 DEF FreshInv, FreshAtMarket
  <1>8. ASSUME TimePasses PROVE FreshInv'
    BY <1>8 DEF TimePasses, FreshInv
  <1>9. ASSUME NEW m \in Markets, AdminInitMarket(m) PROVE FreshInv'
    <2> SUFFICES ASSUME NEW w \in Users, NEW n \in Markets, fresh'[w][n]
                 PROVE  FreshAtMarket(w, n)'
      BY DEF FreshInv
    <2>1. /\ fresh' = [u \in Users |-> [fresh[u] EXCEPT ![m] = FALSE]]
          /\ positions' = positions /\ mark' = mark /\ active' = active
          /\ InitMarket(m)
      BY <1>9 DEF AdminInitMarket, marketVars
    <2>2. n # m /\ fresh[w][n]
      BY <2>1 DEF TypeOK
    <2>3. FreshAtMarket(w, n)
      BY <2>2 DEF FreshInv
    <2>4. /\ now' = now /\ lastFundingTime'[n] = lastFundingTime[n]
          /\ cumulativeFundingIndex'[n] = cumulativeFundingIndex[n]
      BY <2>1, <2>2 DEF InitMarket, TypeOK
    <2> QED BY <2>1, <2>3, <2>4, FreshKept
  <1> QED BY <1>1, <1>2, <1>3, <1>4, <1>5, <1>6, <1>7, <1>8, <1>9 DEF Next

(* A position that was allowed to open can not be liquidated before prices *)
(* move or time passes, where the market's leverage leaves the maintenance *)
(* margin (openPosition, liquidate, createMarket).                         *)
THEOREM FreshPositionsAreHealthy ==
    ASSUME LeverageLeavesMaintenance
    PROVE  Spec => []FreshPositionHealthy
  <1>1. Init => FreshInv
    BY DEF Init, FreshInv
  <1>2. IInv /\ FreshInv /\ [Next]_vars => FreshInv'
    BY FreshInvStep DEF IInv
  <1>3. IInv /\ FreshInv => FreshPositionHealthy
    BY FreshIsHealthy DEF IInv
  <1> QED BY PerpInvariant, <1>1, <1>2, <1>3, PTL DEF Spec
===============================================================================
