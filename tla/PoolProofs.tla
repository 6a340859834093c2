------------------------------ MODULE PoolProofs ------------------------------
(***************************************************************************)
(* Proofs about the two pools that owe their depositors shares, for any     *)
(* parties, assets and units.                                              *)
(*                                                                         *)
(* The stability pool: nothing underflows, the deposits are covered by the *)
(* pool's gUSD, a new stake has no claim on the past, and the lazy ledger  *)
(* implements the eager one of Backstop.                                   *)
(*                                                                         *)
(* The lending pool: the totals are the sums of the balances, the indexes   *)
(* never fall below 1.0, and a healthy account is not made liquidatable by *)
(* anybody's call except the admin's or its own gift of deposits.          *)
(***************************************************************************)
EXTENDS StabilityPool, GoodLendPool, SumLemmas, SequenceTheorems

(* A quotient does not exceed x when the dividend does not exceed b * x. *)
LEMMA DivAtMost ==
    ASSUME NEW a \in Nat, NEW b \in Nat, b > 0, NEW x \in Nat, a <= b * x
    PROVE  a \div b <= x
  OBVIOUS

(* A product with a smaller factor is smaller. *)
LEMMA TimesAtMost ==
    ASSUME NEW s \in Nat, NEW r \in Nat, NEW t \in Nat, r <= t
    PROVE  s * r \in Nat /\ s * r <= t * s
  OBVIOUS

(* Materialising a deposit (_settleGains) yields naturals: the scale it uses *)
(* and the snapshot it divides by are positive.                            *)
LEMMA SettledTypes ==
    ASSUME TypeOK, NEW u \in Depositors
    PROVE  /\ EffectiveScale(u) \in 1..PRECISION
           /\ OrPrecision(depositScaleSnapshot[u]) \in Nat \ {0}
           /\ SettledDeposit(u) \in Nat
           /\ SettledSnapshot(u) \in Nat
           /\ Withdrawable(u) \in Nat
  <1>1. EffectiveScale(u) \in 1..PRECISION
    <2>1. CASE IsStale(u)
      <3>1. depositEpoch[u] + 1 \in 1..Len(epochBoundaryScaleIndex)
        BY <2>1 DEF TypeOK, IsStale, drainEpoch
      <3>2. epochBoundaryScaleIndex[depositEpoch[u] + 1] \in 0..PRECISION
        <4>1. epochBoundaryScaleIndex \in Seq(0..PRECISION)
          BY DEF TypeOK
        <4> QED BY <3>1, <4>1, ElementOfSeq
      <3> QED BY <2>1, <3>2, PoolConstants DEF EffectiveScale, OrPrecision
    <2>2. CASE ~IsStale(u)
      BY <2>2, PoolConstants DEF EffectiveScale, OrPrecision, TypeOK
    <2> QED BY <2>1, <2>2
  <1>2. OrPrecision(depositScaleSnapshot[u]) \in Nat \ {0}
    BY PoolConstants DEF OrPrecision, TypeOK
  <1>3. SettledDeposit(u) \in Nat
    <2>1. deposits[u] * EffectiveScale(u) \in Nat
      BY <1>1, PoolConstants DEF TypeOK
    <2> QED BY <1>2, <2>1, DivNat DEF SettledDeposit
  <1>4. SettledSnapshot(u) \in Nat
    BY <1>1, PoolConstants DEF SettledSnapshot, TypeOK
  <1> QED BY <1>1, <1>2, <1>3, <1>4 DEF Withdrawable

(* Depositing keeps the ledger typed. *)
LEMMA DepositType ==
    ASSUME TypeOK, NEW u \in Depositors, NEW amount \in Nat, Deposit(u, amount)
    PROVE  TypeOK'
  <1>1. Withdrawable(u) + amount \in Nat
    BY SettledTypes
  <1>2. FreshSnapshots(u) \in [Ilks -> Nat]
    BY DEF FreshSnapshots, TypeOK
  <1>3. drainEpoch \in Nat /\ drainEpoch' = drainEpoch
    BY DEF TypeOK, Deposit, drainEpoch
  <1>4. gainSnapshots' \in [Depositors -> [Ilks -> Nat]]
    BY <1>2 DEF TypeOK, Deposit
  <1>5. depositEpoch' \in [Depositors -> Nat] /\ \A v \in Depositors : depositEpoch'[v] <= drainEpoch'
    BY <1>3 DEF TypeOK, Deposit
  <1> QED BY <1>1, <1>4, <1>5 DEF TypeOK, Deposit

(* Withdrawing keeps the ledger typed: it takes at most what is left. *)
LEMMA WithdrawType ==
    ASSUME TypeOK, NEW u \in Depositors, NEW amount \in Nat, Withdraw(u, amount)
    PROVE  TypeOK'
  <1>1. SettledDeposit(u) \in Nat /\ SettledSnapshot(u) \in Nat
    BY SettledTypes
  <1>2. drainEpoch' = drainEpoch
    BY DEF Withdraw, drainEpoch
  <1>3. SettledDeposit(u) - amount \in Nat
    BY <1>1 DEF Withdraw, HasDeposit
  <1>4. deposits' \in [Depositors -> Nat] /\ depositScaleSnapshot' \in [Depositors -> Nat]
    BY <1>1, <1>3 DEF TypeOK, Withdraw
  <1> QED BY <1>2, <1>4 DEF TypeOK, Withdraw

(* A gain is a natural when the snapshot is not ahead of the pool. *)
LEMMA PendingType ==
    ASSUME TypeOK, SnapshotsBehind, NEW u \in Depositors, NEW i \in Ilks
    PROVE  PendingGain(u, i) \in Nat
  <1>1. SettledDeposit(u) \in Nat
    BY SettledTypes
  <1>2. cumulativeGainPerGUSD[i] - gainSnapshots[u][i] \in Nat
    BY DEF TypeOK, SnapshotsBehind
  <1>3. SettledDeposit(u) * (cumulativeGainPerGUSD[i] - gainSnapshots[u][i]) \in Nat
    BY <1>1, <1>2
  <1> QED BY <1>3, PoolConstants, DivNat DEF PendingGain

(* Claiming pays a natural that the pool holds. *)
LEMMA ClaimType ==
    ASSUME TypeOK, SnapshotsBehind, NEW u \in Depositors, NEW i \in Ilks, ClaimCollateral(u, i)
    PROVE  TypeOK'
  <1>1. SettledDeposit(u) \in Nat /\ SettledSnapshot(u) \in Nat /\ PendingGain(u, i) \in Nat
    BY SettledTypes, PendingType
  <1>2. drainEpoch' = drainEpoch
    BY DEF ClaimCollateral, poolVars, drainEpoch
  <1>3. deposits' \in [Depositors -> Nat] /\ depositScaleSnapshot' \in [Depositors -> Nat]
    BY <1>1 DEF TypeOK, ClaimCollateral
  <1>4. gainSnapshots' \in [Depositors -> [Ilks -> Nat]]
    BY DEF TypeOK, ClaimCollateral
  <1>5. collateralTokens[i] \in Tokens
    BY DEF TypeOK, ClaimCollateral, IsRegistered
  <1>6. poolColl' \in [Tokens -> Nat]
    BY <1>1, <1>5 DEF TypeOK, ClaimCollateral
  <1> QED BY <1>2, <1>3, <1>4, <1>6 DEF TypeOK, ClaimCollateral, poolVars

(* An offset keeps the totals, the scale and the gains naturals. *)
LEMMA OffsetType ==
    ASSUME TypeOK, NEW debt \in Nat, NEW i \in Ilks, NEW coll \in Nat, Offset(debt, i, coll)
    PROVE  TypeOK'
  <1> DEFINE remaining == totalDeposits - debt
  <1>1. totalDeposits \in Nat \ {0} /\ remaining \in Nat /\ remaining <= totalDeposits
    BY DEF TypeOK, Offset
  <1>2. cumulativeGainPerGUSD' \in [Ilks -> Nat]
    <2>1. coll * PRECISION \in Nat
      BY PoolConstants
    <2>2. (coll * PRECISION) \div totalDeposits \in Nat
      BY <1>1, <2>1, DivNat
    <2>3. cumulativeGainPerGUSD' = [cumulativeGainPerGUSD EXCEPT
                ![i] = CumulativeGainAfter(i, coll)]
      BY DEF Offset
    <2>4. cumulativeGainPerGUSD \in [Ilks -> Nat]
      BY DEF TypeOK
    <2>5. cumulativeGainPerGUSD[i] + (coll * PRECISION) \div totalDeposits \in Nat
      BY <2>2, <2>4
    <2> QED BY <2>3, <2>4, <2>5 DEF CumulativeGainAfter
  <1>3. scaleIndex' \in 0..PRECISION
    <2>1. scaleIndex * remaining \in Nat /\ scaleIndex * remaining <= totalDeposits * scaleIndex
      BY <1>1, PoolConstants, TimesAtMost DEF TypeOK
    <2>2. (scaleIndex * remaining) \div totalDeposits \in Nat
      BY <1>1, <2>1, DivNat
    <2>3. (scaleIndex * remaining) \div totalDeposits <= scaleIndex
      <3>1. scaleIndex \in Nat /\ totalDeposits \in Nat /\ totalDeposits > 0
        BY <1>1, PoolConstants DEF TypeOK
      <3> HIDE DEF remaining
      <3> QED BY <3>1, <2>1, DivAtMost
    <2> QED BY <2>2, <2>3, PoolConstants DEF TypeOK, Offset
  <1>4. epochBoundaryScaleIndex' \in Seq(0..PRECISION) /\ drainEpoch' >= drainEpoch /\ drainEpoch \in Nat
        /\ drainEpoch' \in Nat
    <2>1. CASE remaining > 0
      BY <2>1 DEF TypeOK, Offset, drainEpoch
    <2>2. CASE ~(remaining > 0)
      <3>1. epochBoundaryScaleIndex' = Append(epochBoundaryScaleIndex, scaleIndex)
        BY <2>2 DEF Offset
      <3>2. scaleIndex \in 0..PRECISION /\ epochBoundaryScaleIndex \in Seq(0..PRECISION)
        BY DEF TypeOK
      <3>3. epochBoundaryScaleIndex' \in Seq(0..PRECISION)
            /\ Len(epochBoundaryScaleIndex') = Len(epochBoundaryScaleIndex) + 1
        BY <3>1, <3>2, AppendProperties
      <3> QED BY <3>2, <3>3 DEF drainEpoch
    <2> QED BY <2>1, <2>2
  <1>5. \A u \in Depositors : depositEpoch'[u] <= drainEpoch'
    BY <1>4 DEF TypeOK, Offset, userVars
  <1>6. collateralTokens[i] \in Tokens
    BY DEF TypeOK, Offset, IsRegistered
  <1>7. poolColl' \in [Tokens -> Nat] /\ seized' \in [Tokens -> Nat] /\ poolGUSD' \in Nat
    BY <1>6 DEF TypeOK, Offset
  <1> QED BY <1>1, <1>2, <1>3, <1>4, <1>5, <1>7 DEF TypeOK, Offset, userVars

(* Registering a collateral type changes the set of types only. *)
LEMMA RegisterType ==
    ASSUME TypeOK, NEW i \in Ilks, NEW t \in Tokens, RegisterCollateralToken(i, t)
    PROVE  TypeOK'
  BY DEF TypeOK, RegisterCollateralToken, poolVars, userVars, drainEpoch

-----------------------------------------------------------------------------
(* The inductive invariant: the types alone do not survive a claim, whose  *)
(* payout is a natural only because no snapshot is ahead of the gains.     *)

(* A step is one of the operations, its amounts being some naturals. *)
LEMMA NextBounds ==
    ASSUME TypeOK, Next
    PROVE  \/ \E u \in Depositors, amount \in Nat : Deposit(u, amount)
           \/ \E u \in Depositors, amount \in Nat : Withdraw(u, amount)
           \/ \E u \in Depositors, i \in Ilks : ClaimCollateral(u, i)
           \/ \E debt \in Nat, i \in Ilks, coll \in Nat : Offset(debt, i, coll)
           \/ \E i \in Ilks, t \in Tokens : RegisterCollateralToken(i, t)
  BY PoolConstants DEF TypeOK, Next, UserStep, LiquidationStep

(* No step moves a snapshot ahead of the gains, which never decrease. *)
LEMMA SnapshotsStep ==
    ASSUME TypeOK, SnapshotsBehind, [Next]_vars
    PROVE  SnapshotsBehind'
  <1> SUFFICES ASSUME NEW v \in Depositors, NEW j \in Ilks
               PROVE  gainSnapshots'[v][j] <= cumulativeGainPerGUSD'[j]
    BY DEF SnapshotsBehind
  <1>0. gainSnapshots[v][j] <= cumulativeGainPerGUSD[j] /\ cumulativeGainPerGUSD[j] \in Nat
    BY DEF SnapshotsBehind, TypeOK
  <1>1. ASSUME NEW u \in Depositors, NEW amount \in Nat, Deposit(u, amount)
        PROVE  gainSnapshots'[v][j] <= cumulativeGainPerGUSD'[j]
    BY <1>0, <1>1 DEF Deposit, FreshSnapshots, TypeOK
  <1>2. ASSUME NEW u \in Depositors, NEW amount \in Nat, Withdraw(u, amount)
        PROVE  gainSnapshots'[v][j] <= cumulativeGainPerGUSD'[j]
    BY <1>0, <1>2 DEF Withdraw
  <1>3. ASSUME NEW u \in Depositors, NEW i \in Ilks, ClaimCollateral(u, i)
        PROVE  gainSnapshots'[v][j] <= cumulativeGainPerGUSD'[j]
    BY <1>0, <1>3 DEF ClaimCollateral, poolVars, TypeOK
  <1>4. ASSUME NEW debt \in Nat, NEW i \in Ilks, NEW coll \in Nat, Offset(debt, i, coll)
        PROVE  gainSnapshots'[v][j] <= cumulativeGainPerGUSD'[j]
    <2>1. totalDeposits \in Nat /\ totalDeposits > 0 /\ coll * PRECISION \in Nat
      BY <1>4, PoolConstants DEF Offset, TypeOK
    <2>2. (coll * PRECISION) \div totalDeposits \in Nat
      BY <2>1, DivNat
    <2>3. cumulativeGainPerGUSD'[j] >= cumulativeGainPerGUSD[j] /\ cumulativeGainPerGUSD'[j] \in Nat
      BY <1>4, <2>2 DEF Offset, TypeOK, CumulativeGainAfter
    <2>4. gainSnapshots'[v][j] = gainSnapshots[v][j] /\ gainSnapshots[v][j] \in Nat
      BY <1>4 DEF Offset, TypeOK
    <2> QED BY <1>0, <2>3, <2>4
  <1>5. CASE UNCHANGED vars
    BY <1>0, <1>5 DEF vars, poolVars
  <1>6. ASSUME NEW i \in Ilks, NEW t \in Tokens, RegisterCollateralToken(i, t)
        PROVE  gainSnapshots'[v][j] <= cumulativeGainPerGUSD'[j]
    BY <1>0, <1>6 DEF RegisterCollateralToken, poolVars
  <1> QED BY <1>1, <1>2, <1>3, <1>4, <1>5, <1>6, NextBounds

(* Every reachable state is well typed and no claim can underflow.         *)
THEOREM PoolInvariant == Spec => [](TypeOK /\ SnapshotsBehind)
  <1>1. Init => TypeOK /\ SnapshotsBehind
    BY PoolConstants DEF Init, TypeOK, SnapshotsBehind, drainEpoch
  <1>2. TypeOK /\ SnapshotsBehind /\ [Next]_vars => (TypeOK /\ SnapshotsBehind)'
    <2> SUFFICES ASSUME TypeOK, SnapshotsBehind, [Next]_vars
                 PROVE  (TypeOK /\ SnapshotsBehind)'
      OBVIOUS
    <2>1. CASE UNCHANGED vars
      BY <2>1 DEF vars, poolVars, userVars, TypeOK, SnapshotsBehind, drainEpoch
    <2>2. CASE Next
      BY <2>2, NextBounds, DepositType, WithdrawType, ClaimType, OffsetType, RegisterType, SnapshotsStep
    <2> QED BY <2>1, <2>2
  <1> QED BY <1>1, <1>2, PTL DEF Spec

(* The state stays well typed: no withdrawal, claim or offset underflows.  *)
THEOREM PoolIsTyped == Spec => []TypeOK
  <1> QED BY PoolInvariant, PTL

(* No snapshot is ahead of the cumulative gain: _claimIlk cannot revert.   *)
THEOREM SnapshotsStayBehind == Spec => []SnapshotsBehind
  <1> QED BY PoolInvariant, PTL

-----------------------------------------------------------------------------
(* Arithmetic of shares. *)

(* A rounded fraction r / t of x is at most that fraction of what bounds x. *)
LEMMA FractionOfBounded ==
    ASSUME NEW x \in Nat, NEW r \in Nat, NEW t \in Nat \ {0}, NEW k \in Nat, NEW y \in Nat,
           x * k <= t * y
    PROVE  /\ (x * r) \div t \in Nat
           /\ ((x * r) \div t) * k <= r * y
  <1> DEFINE f == (x * r) \div t
  <1>1. x * r \in Nat
    OBVIOUS
  <1>2. f \in Nat /\ t * f <= x * r
    <2> DEFINE a == x * r
    <2> HIDE DEF a
    <2>1. a \in Nat
      BY <1>1 DEF a
    <2>2. a \div t \in Nat /\ t * (a \div t) <= a
      BY <2>1, QuotientBounds
    <2> QED BY <2>2 DEF a
  <1> HIDE DEF f
  <1>3. (t * f) * k <= (x * r) * k
    <2>1. t * f \in Nat
      BY <1>2
    <2> QED BY <1>1, <1>2, <2>1, TimesMonotone
  <1>4. (x * r) * k = (x * k) * r
    OBVIOUS
  <1>5. (x * k) * r <= (t * y) * r
    <2>1. x * k \in Nat /\ t * y \in Nat
      OBVIOUS
    <2> QED BY <2>1, TimesMonotone
  <1>6. (t * f) * k = t * (f * k) /\ (t * y) * r = t * (r * y)
    BY <1>2
  <1>7. /\ f * k \in Nat /\ r * y \in Nat
        /\ t * (f * k) \in Nat /\ (x * r) * k \in Nat /\ t * (r * y) \in Nat
    BY <1>1, <1>2
  <1>8. t * (f * k) <= t * (r * y)
    <2>1. t * (f * k) <= (x * k) * r /\ (x * k) * r <= t * (r * y) /\ (x * k) * r \in Nat
      BY <1>3, <1>4, <1>5, <1>6, <1>7
    <2> QED BY <1>7, <2>1
  <1>9. f * k <= r * y
    BY <1>7, <1>8, CancelFactor
  <1> QED BY <1>2, <1>9 DEF f

-----------------------------------------------------------------------------
(* The deposits are covered.  Each depositor's share of the pool is        *)
(* deposits / depositScaleSnapshot, and scaleIndex times the sum of the    *)
(* shares never exceeds the pool.  Shares are fractions: the weights w are *)
(* upper bounds of them over a common denominator q, which grows with each *)
(* operation.                                                              *)

CoveredBy(q, w) ==
    /\ \A u \in Depositors :
          ~IsStale(u) => deposits[u] * q <= OrPrecision(depositScaleSnapshot[u]) * w[u]
    /\ scaleIndex * SumFunctionOnSet(w, Depositors) <= totalDeposits * q

SharesCovered ==
    scaleIndex > 0 => \E q \in Nat \ {0}, w \in [Depositors -> Nat] : CoveredBy(q, w)

CoverInv == poolGUSD = totalDeposits /\ SharesCovered

(* A weight covers what its depositor may withdraw. *)
LEMMA WeightCovers ==
    ASSUME TypeOK, scaleIndex > 0, NEW q \in Nat, NEW w \in [Depositors -> Nat],
           CoveredBy(q, w), NEW u \in Depositors
    PROVE  Withdrawable(u) * q <= scaleIndex * w[u]
  <1>1. scaleIndex \in Nat /\ w[u] \in Nat /\ deposits[u] \in Nat
    BY PoolConstants DEF TypeOK
  <1>2. CASE IsStale(u)
    <2>1. Withdrawable(u) = 0
      BY <1>2 DEF Withdrawable
    <2>2. 0 * q = 0 /\ scaleIndex * w[u] \in Nat
      BY <1>1
    <2> QED BY <2>1, <2>2
  <1>3. CASE ~IsStale(u)
    <2> DEFINE snapshot == OrPrecision(depositScaleSnapshot[u])
    <2>1. snapshot \in Nat \ {0}
      BY SettledTypes
    <2>2. deposits[u] * q <= snapshot * w[u]
      BY <1>3 DEF CoveredBy
    <2>3. Withdrawable(u) = (deposits[u] * scaleIndex) \div snapshot
      BY <1>1, <1>3 DEF Withdrawable, SettledDeposit, EffectiveScale, OrPrecision
    <2> HIDE DEF snapshot
    <2> QED BY <1>1, <2>1, <2>2, <2>3, FractionOfBounded
  <1> QED BY <1>2, <1>3

(* Covered shares make covered deposits. *)
LEMMA SharesCoverDeposits ==
    ASSUME TypeOK, SharesCovered, scaleIndex > 0
    PROVE  SumFunctionOnSet(Stakes, Depositors) <= totalDeposits
  <1>1. PICK q \in Nat \ {0}, w \in [Depositors -> Nat] : CoveredBy(q, w)
    BY DEF SharesCovered
  <1>2. Stakes \in [Depositors -> Nat] /\ Stakes \in [Depositors -> Int]
    BY SettledTypes DEF Stakes
  <1> DEFINE g == [u \in Depositors |-> q * Stakes[u]]
             h == [u \in Depositors |-> scaleIndex * w[u]]
             stakes == SumFunctionOnSet(Stakes, Depositors)
             weights == SumFunctionOnSet(w, Depositors)
  <1>3. scaleIndex \in Nat /\ totalDeposits \in Nat /\ IsFiniteSet(Depositors)
    BY PoolConstants DEF TypeOK
  <1>4. stakes \in Nat /\ weights \in Nat /\ w \in [Depositors -> Int]
    <2>1. w \in [Depositors -> Int]
      OBVIOUS
    <2> QED BY <1>2, <1>3, <2>1, SumOfNats
  <1>5. g \in [Depositors -> Int] /\ h \in [Depositors -> Int]
    BY <1>2, <1>3
  <1>6. \A u \in Depositors : g[u] <= h[u]
    <2> SUFFICES ASSUME NEW u \in Depositors PROVE q * Stakes[u] <= scaleIndex * w[u]
      OBVIOUS
    <2>1. Withdrawable(u) * q <= scaleIndex * w[u]
      BY <1>1, WeightCovers
    <2>2. Stakes[u] = Withdrawable(u) /\ Stakes[u] \in Nat
      BY <1>2 DEF Stakes
    <2>3. q * Stakes[u] = Stakes[u] * q
      BY <2>2
    <2> QED BY <2>1, <2>2, <2>3
  <1>7. SumFunctionOnSet(g, Depositors) = q * stakes
    <2>1. q \in Int /\ \A u \in Depositors : g[u] = q * Stakes[u]
      OBVIOUS
    <2> HIDE DEF g
    <2> QED BY <1>2, <1>3, <1>5, <2>1, SumScaled
  <1>8. SumFunctionOnSet(h, Depositors) = scaleIndex * weights
    <2>1. scaleIndex \in Int /\ \A u \in Depositors : h[u] = scaleIndex * w[u]
      BY <1>3
    <2> HIDE DEF h
    <2> QED BY <1>3, <1>4, <1>5, <2>1, SumScaled
  <1>9. SumFunctionOnSet(g, Depositors) <= SumFunctionOnSet(h, Depositors)
    <2> HIDE DEF g, h
    <2> QED BY <1>3, <1>5, <1>6, SumMonotone
  <1>10. scaleIndex * weights <= totalDeposits * q
    BY <1>1 DEF CoveredBy
  <1> HIDE DEF stakes, weights, g, h
  <1>11. q * stakes <= q * totalDeposits
    <2>1. q * stakes \in Nat /\ scaleIndex * weights \in Nat /\ totalDeposits * q \in Nat
          /\ totalDeposits * q = q * totalDeposits
      BY <1>3, <1>4
    <2> QED BY <1>7, <1>8, <1>9, <1>10, <2>1
  <1>12. stakes <= totalDeposits
    BY <1>3, <1>4, <1>11, CancelFactor
  <1> QED BY <1>12 DEF stakes

(* Before a drain, a depositor that is not stale has its snapshot brought  *)
(* to the current scale by every operation, unless it has nothing.         *)
LEMMA SettledAtScale ==
    ASSUME TypeOK, scaleIndex > 0, NEW u \in Depositors, ~IsStale(u)
    PROVE  /\ Withdrawable(u) = SettledDeposit(u)
           /\ SettledDeposit(u) = 0 \/ OrPrecision(SettledSnapshot(u)) = scaleIndex
  <1>1. EffectiveScale(u) = scaleIndex /\ scaleIndex # 0
    BY PoolConstants DEF EffectiveScale, OrPrecision, TypeOK
  <1>2. CASE deposits[u] = 0
    <2>1. 0 * EffectiveScale(u) = 0
      BY SettledTypes
    <2>2. OrPrecision(depositScaleSnapshot[u]) \in Nat \ {0}
      BY SettledTypes
    <2>3. SettledDeposit(u) = 0
      BY <1>2, <2>1, <2>2 DEF SettledDeposit
    <2> QED BY <2>3 DEF Withdrawable
  <1>3. CASE deposits[u] # 0
    <2>1. OrPrecision(SettledSnapshot(u)) = scaleIndex
      BY <1>1, <1>3 DEF SettledSnapshot, OrPrecision
    <2> QED BY <2>1 DEF Withdrawable
  <1> QED BY <1>2, <1>3

(* One depositor's stake becomes d, recorded at the current scale, and the *)
(* pool changes by as much: everybody stays covered.                       *)
LEMMA StakeMoved ==
    ASSUME TypeOK, SharesCovered, NEW u \in Depositors, NEW d \in Nat, NEW x \in Nat,
           deposits' = [deposits EXCEPT ![u] = d],
           depositScaleSnapshot' = [depositScaleSnapshot EXCEPT ![u] = x],
           scaleIndex > 0 => d = 0 \/ OrPrecision(x) = scaleIndex,
           scaleIndex' = scaleIndex, epochBoundaryScaleIndex' = epochBoundaryScaleIndex,
           \A v \in Depositors \ {u} : depositEpoch'[v] = depositEpoch[v],
           totalDeposits' = totalDeposits + d - Withdrawable(u), totalDeposits' \in Nat
    PROVE  SharesCovered'
  <1> SUFFICES ASSUME scaleIndex > 0
               PROVE  \E q \in Nat \ {0}, w \in [Depositors -> Nat] : CoveredBy(q, w)'
    BY DEF SharesCovered
  <1>1. PICK q \in Nat \ {0}, w \in [Depositors -> Nat] : CoveredBy(q, w)
    BY DEF SharesCovered
  <1>0. PICK k \in Nat \ {0} : k = scaleIndex
    BY PoolConstants DEF TypeOK
  <1>2. /\ totalDeposits \in Nat /\ IsFiniteSet(Depositors)
        /\ deposits \in [Depositors -> Nat] /\ depositScaleSnapshot \in [Depositors -> Nat]
        /\ Withdrawable(u) \in Nat
    <2>1. Withdrawable(u) \in Nat
      BY SettledTypes
    <2> QED BY <2>1, PoolConstants DEF TypeOK
  <1> DEFINE w1 == [v \in Depositors |-> k * w[v]]
             w2 == [w1 EXCEPT ![u] = d * q]
             before == SumFunctionOnSet(w, Depositors)
             scaled == SumFunctionOnSet(w1, Depositors)
             after == SumFunctionOnSet(w2, Depositors)
  <1>3. w1 \in [Depositors -> Nat] /\ w1 \in [Depositors -> Int] /\ d * q \in Nat
    BY <1>2
  <1>4. w2 \in [Depositors -> Nat] /\ w2 \in [Depositors -> Int]
    BY <1>3
  <1>5. w2[u] = d * q /\ \A v \in Depositors \ {u} : w2[v] = k * w[v]
    BY <1>3
  <1>6. before \in Nat
    BY <1>2, SumOfNats
  <1>7. scaled = k * before
    <2>1. /\ w \in [Depositors -> Int] /\ k \in Int
          /\ \A v \in Depositors : w1[v] = k * w[v]
      BY <1>2
    <2> HIDE DEF w1
    <2> QED BY <1>2, <1>3, <2>1, SumScaled
  <1>8. after = scaled - k * w[u] + d * q
    <2>1. w1[u] = k * w[u] /\ \A v \in Depositors \ {u} : w1[v] = w2[v]
      BY <1>3
    <2>2. SumFunctionOnSet(w2, Depositors) = SumFunctionOnSet(w1, Depositors) - w1[u] + w2[u]
      <3> HIDE DEF w1, w2
      <3> QED BY <1>2, <1>3, <1>4, <2>1, SumUpdate
    <2> QED BY <1>5, <2>1, <2>2
  <1>9. after \in Nat
    BY <1>2, <1>4, SumOfNats
  <1> HIDE DEF before, scaled, after, w1, w2
  <1>10. after <= totalDeposits' * q
    <2> DEFINE kept == Withdrawable(u)
    <2>1. kept * q <= k * w[u]
      BY <1>0, <1>1, WeightCovers
    <2>2. k * before <= totalDeposits * q
      BY <1>0, <1>1 DEF CoveredBy, before
    <2>3. kept \in Nat
      BY <1>2
    <2> HIDE DEF kept
    <2>4. (totalDeposits + d - kept) * q = totalDeposits * q + d * q - kept * q
      BY <1>2, <2>3
    <2>5. /\ kept * q \in Int /\ k * w[u] \in Int /\ k * before \in Int
          /\ totalDeposits * q \in Int /\ d * q \in Int
      BY <1>2, <1>6, <2>3
    <2>6. after <= totalDeposits * q + d * q - kept * q
      BY <1>7, <1>8, <2>1, <2>2, <2>5
    <2> QED BY <2>4, <2>6 DEF kept
  <1>11. scaleIndex' * after <= totalDeposits' * (q * k)
    <2>1. totalDeposits' * q \in Nat
      OBVIOUS
    <2>2. after * k <= (totalDeposits' * q) * k
      BY <1>2, <1>9, <1>10, <2>1, TimesMonotone
    <2>3. after * k = k * after
          /\ (totalDeposits' * q) * k = totalDeposits' * (q * k)
      BY <1>2, <1>9
    <2> QED BY <1>0, <2>2, <2>3
  <1>12. ASSUME NEW v \in Depositors, ~IsStale(v)'
         PROVE  deposits'[v] * (q * k) <= OrPrecision(depositScaleSnapshot'[v]) * w2[v]
    <2>1. CASE v = u
      <3>1. deposits'[u] = d /\ depositScaleSnapshot'[u] = x
        BY <1>2
      <3>2. OrPrecision(x) \in Nat
        BY PoolConstants DEF OrPrecision
      <3>3. d * (q * k) = k * (d * q)
        BY <1>2
      <3>4. d * (q * k) <= OrPrecision(x) * (d * q)
        <4>1. CASE d = 0
          BY <4>1, <1>2, <3>2
        <4>2. CASE d # 0
          <5>1. OrPrecision(x) = k
            BY <1>0, <4>2
          <5>2. k * (d * q) \in Nat
            BY <1>2
          <5> QED BY <3>3, <5>1, <5>2
        <4> QED BY <4>1, <4>2
      <3> QED BY <1>5, <2>1, <3>1, <3>4
    <2>2. CASE v # u
      <3>1. /\ deposits'[v] = deposits[v] /\ depositScaleSnapshot'[v] = depositScaleSnapshot[v]
            /\ depositEpoch'[v] = depositEpoch[v]
        BY <1>2, <2>2
      <3>2. ~IsStale(v)
        BY <1>12, <3>1 DEF IsStale, drainEpoch
      <3> DEFINE n == OrPrecision(depositScaleSnapshot[v])
      <3>3. n \in Nat /\ deposits[v] \in Nat /\ w[v] \in Nat
        BY <1>2, SettledTypes
      <3>4. deposits[v] * q <= n * w[v]
        BY <1>1, <3>2 DEF CoveredBy
      <3> HIDE DEF n
      <3>5. deposits[v] * q \in Nat /\ n * w[v] \in Nat
        BY <3>3
      <3>6. (deposits[v] * q) * k <= (n * w[v]) * k
        BY <1>2, <3>4, <3>5, TimesMonotone
      <3>7. (deposits[v] * q) * k = deposits[v] * (q * k)
            /\ (n * w[v]) * k = n * (k * w[v])
        BY <1>2, <3>3
      <3>8. w2[v] = k * w[v]
        BY <1>5, <2>2
      <3> QED BY <3>1, <3>6, <3>7, <3>8 DEF n
    <2> QED BY <2>1, <2>2
  <1>13. q * k \in Nat \ {0}
    BY <1>2
  <1>14. CoveredBy(q * k, w2)'
    BY <1>11, <1>12 DEF CoveredBy, after
  <1> QED BY <1>4, <1>13, <1>14

(* A claim from an earlier epoch moves nothing that still counts. *)
LEMMA StaleClaim ==
    ASSUME SharesCovered, NEW u \in Depositors, IsStale(u), TypeOK,
           \A v \in Depositors \ {u} :
               deposits'[v] = deposits[v] /\ depositScaleSnapshot'[v] = depositScaleSnapshot[v],
           UNCHANGED <<depositEpoch, poolVars>>
    PROVE  SharesCovered'
  <1> SUFFICES ASSUME scaleIndex > 0
               PROVE  \E q \in Nat \ {0}, w \in [Depositors -> Nat] : CoveredBy(q, w)'
    BY DEF SharesCovered, poolVars
  <1>1. PICK q \in Nat \ {0}, w \in [Depositors -> Nat] : CoveredBy(q, w)
    BY DEF SharesCovered
  <1>2. \A v \in Depositors : IsStale(v)' <=> IsStale(v)
    BY DEF IsStale, drainEpoch, poolVars
  <1>3. \A v \in Depositors :
            ~IsStale(v)' => deposits'[v] * q <= OrPrecision(depositScaleSnapshot'[v]) * w[v]
    BY <1>1, <1>2 DEF CoveredBy
  <1>4. CoveredBy(q, w)'
    BY <1>1, <1>3 DEF CoveredBy, poolVars
  <1> QED BY <1>4

(* An offset burns from every share alike; a drain leaves no share at all. *)
LEMMA OffsetCovered ==
    ASSUME TypeOK, SharesCovered, NEW debt \in Nat, NEW i \in Ilks, NEW coll \in Nat,
           Offset(debt, i, coll)
    PROVE  SharesCovered'
  <1> DEFINE remaining == totalDeposits - debt
  <1>1. /\ totalDeposits \in Nat \ {0} /\ remaining \in Nat /\ totalDeposits' = remaining
        /\ UNCHANGED userVars /\ IsFiniteSet(Depositors)
    BY PoolConstants DEF TypeOK, Offset
  <1>2. CASE remaining > 0
    <2> SUFFICES ASSUME scaleIndex' > 0
                 PROVE  \E q \in Nat \ {0}, w \in [Depositors -> Nat] : CoveredBy(q, w)'
      BY DEF SharesCovered
    <2>1. /\ scaleIndex' = (scaleIndex * remaining) \div totalDeposits
          /\ epochBoundaryScaleIndex' = epochBoundaryScaleIndex
      BY <1>2 DEF Offset
    <2>2. scaleIndex \in Nat
      BY PoolConstants DEF TypeOK
    <2>3. scaleIndex > 0
      <3>1. ASSUME scaleIndex = 0 PROVE FALSE
        <4>1. 0 * remaining = 0 /\ 0 \div totalDeposits = 0
          BY <1>1
        <4> QED BY <2>1, <3>1, <4>1
      <3> QED BY <2>2, <3>1
    <2>4. PICK q \in Nat \ {0}, w \in [Depositors -> Nat] : CoveredBy(q, w)
      BY <2>3 DEF SharesCovered
    <2> DEFINE weights == SumFunctionOnSet(w, Depositors)
    <2>5. weights \in Nat
      BY <1>1, SumOfNats
    <2>6. scaleIndex * weights <= totalDeposits * q
      BY <2>4 DEF CoveredBy
    <2> HIDE DEF weights, remaining
    <2>7. ((scaleIndex * remaining) \div totalDeposits) * weights <= remaining * q
      BY <1>1, <2>2, <2>5, <2>6, FractionOfBounded
    <2>8. scaleIndex' * weights <= totalDeposits' * q
      BY <1>1, <2>1, <2>7
    <2>9. \A v \in Depositors : IsStale(v)' <=> IsStale(v)
      BY <1>1, <2>1 DEF IsStale, drainEpoch, userVars
    <2>10. CoveredBy(q, w)'
      BY <1>1, <2>4, <2>8, <2>9 DEF CoveredBy, userVars, weights
    <2> QED BY <2>10
  <1>3. CASE ~(remaining > 0)
    <2>1. epochBoundaryScaleIndex' = Append(epochBoundaryScaleIndex, scaleIndex) /\ totalDeposits' = 0
      BY <1>1, <1>3 DEF Offset
    <2>2. scaleIndex' = PRECISION /\ PRECISION \in Nat
      BY <1>3, PoolConstants DEF Offset
    <2>3. drainEpoch \in Nat /\ drainEpoch' = drainEpoch + 1
      <3>1. epochBoundaryScaleIndex \in Seq(0..PRECISION) /\ scaleIndex \in 0..PRECISION
        BY DEF TypeOK
      <3> QED BY <2>1, <3>1, AppendProperties DEF drainEpoch
    <2>4. \A v \in Depositors : IsStale(v)'
      <3> SUFFICES ASSUME NEW v \in Depositors PROVE depositEpoch'[v] < drainEpoch'
        BY DEF IsStale
      <3>1. depositEpoch'[v] = depositEpoch[v] /\ depositEpoch[v] \in Nat /\ depositEpoch[v] <= drainEpoch
        BY <1>1 DEF TypeOK, userVars
      <3> QED BY <2>3, <3>1
    <2> DEFINE Zero == [v \in Depositors |-> 0]
    <2>5. Zero \in [Depositors -> Nat] /\ Zero \in [Depositors -> Int]
          /\ \A v \in Depositors : Zero[v] = 0
      OBVIOUS
    <2> HIDE DEF Zero
    <2>6. SumFunctionOnSet(Zero, Depositors) = 0
      BY <1>1, <2>5, SumOfZeros
    <2>7. scaleIndex' * SumFunctionOnSet(Zero, Depositors) <= totalDeposits' * 1
      BY <2>1, <2>2, <2>6
    <2>8. CoveredBy(1, Zero)'
      BY <2>4, <2>7 DEF CoveredBy
    <2> QED BY <2>5, <2>8 DEF SharesCovered
  <1> QED BY <1>2, <1>3

(* Every step keeps the pool's gUSD and the shares together. *)
LEMMA CoverStep ==
    ASSUME TypeOK, CoverInv, [Next]_vars
    PROVE  CoverInv'
  <1>0. poolGUSD = totalDeposits /\ SharesCovered /\ totalDeposits \in Nat
    BY DEF CoverInv, TypeOK
  <1>1. ASSUME NEW u \in Depositors, NEW amount \in Nat, Deposit(u, amount) PROVE CoverInv'
    <2> DEFINE d == Withdrawable(u) + amount
    <2>1. Withdrawable(u) \in Nat /\ scaleIndex \in Nat
      BY SettledTypes, PoolConstants DEF TypeOK
    <2>2. /\ deposits' = [deposits EXCEPT ![u] = d]
          /\ depositScaleSnapshot' = [depositScaleSnapshot EXCEPT ![u] = scaleIndex]
          /\ scaleIndex' = scaleIndex /\ epochBoundaryScaleIndex' = epochBoundaryScaleIndex
          /\ totalDeposits' = totalDeposits + amount /\ poolGUSD' = poolGUSD + amount
      BY <1>1 DEF Deposit
    <2>3. \A v \in Depositors \ {u} : depositEpoch'[v] = depositEpoch[v]
      BY <1>1 DEF Deposit, TypeOK
    <2>4. /\ d \in Nat /\ totalDeposits' \in Nat
          /\ totalDeposits' = totalDeposits + d - Withdrawable(u)
      BY <1>0, <2>1, <2>2
    <2>5. scaleIndex > 0 => d = 0 \/ OrPrecision(scaleIndex) = scaleIndex
      BY <2>1 DEF OrPrecision
    <2> HIDE DEF d
    <2>6. SharesCovered'
      BY <1>0, <2>1, <2>2, <2>3, <2>4, <2>5, StakeMoved
    <2> QED BY <1>0, <2>2, <2>6 DEF CoverInv
  <1>2. ASSUME NEW u \in Depositors, NEW amount \in Nat, Withdraw(u, amount) PROVE CoverInv'
    <2> DEFINE d == SettledDeposit(u) - amount
    <2>1. SettledDeposit(u) \in Nat /\ SettledSnapshot(u) \in Nat
      BY SettledTypes
    <2>2. /\ deposits' = [deposits EXCEPT ![u] = d]
          /\ depositScaleSnapshot' = [depositScaleSnapshot EXCEPT ![u] = SettledSnapshot(u)]
          /\ scaleIndex' = scaleIndex /\ epochBoundaryScaleIndex' = epochBoundaryScaleIndex
          /\ totalDeposits' = totalDeposits - amount /\ poolGUSD' = poolGUSD - amount
          /\ totalDeposits >= amount /\ SettledDeposit(u) >= amount /\ ~IsStale(u)
          /\ depositEpoch' = depositEpoch
      BY <1>2 DEF Withdraw, HasDeposit
    <2>3. Withdrawable(u) = SettledDeposit(u)
      BY <2>2 DEF Withdrawable
    <2>4. /\ d \in Nat /\ totalDeposits' \in Nat
          /\ totalDeposits' = totalDeposits + d - Withdrawable(u)
      BY <1>0, <2>1, <2>2, <2>3
    <2>5. scaleIndex > 0 => d = 0 \/ OrPrecision(SettledSnapshot(u)) = scaleIndex
      BY <2>1, <2>2, SettledAtScale
    <2> HIDE DEF d
    <2>6. SharesCovered'
      BY <1>0, <2>1, <2>2, <2>4, <2>5, StakeMoved
    <2> QED BY <1>0, <2>2, <2>6 DEF CoverInv
  <1>3. ASSUME NEW u \in Depositors, NEW i \in Ilks, ClaimCollateral(u, i) PROVE CoverInv'
    <2>1. SettledDeposit(u) \in Nat /\ SettledSnapshot(u) \in Nat
      BY SettledTypes
    <2>2. /\ deposits' = [deposits EXCEPT ![u] = SettledDeposit(u)]
          /\ depositScaleSnapshot' = [depositScaleSnapshot EXCEPT ![u] = SettledSnapshot(u)]
          /\ UNCHANGED <<poolVars, depositEpoch, poolGUSD>>
      BY <1>3 DEF ClaimCollateral
    <2>3. /\ scaleIndex' = scaleIndex /\ epochBoundaryScaleIndex' = epochBoundaryScaleIndex
          /\ totalDeposits' = totalDeposits
      BY <2>2 DEF poolVars
    <2>4. SharesCovered'
      <3>1. CASE IsStale(u)
        <4>1. \A v \in Depositors \ {u} :
                  deposits'[v] = deposits[v] /\ depositScaleSnapshot'[v] = depositScaleSnapshot[v]
          BY <2>2 DEF TypeOK
        <4> QED BY <1>0, <2>2, <3>1, <4>1, StaleClaim
      <3>2. CASE ~IsStale(u)
        <4>1. Withdrawable(u) = SettledDeposit(u)
          BY <3>2 DEF Withdrawable
        <4>2. totalDeposits' = totalDeposits + SettledDeposit(u) - Withdrawable(u)
              /\ totalDeposits' \in Nat
          BY <1>0, <2>1, <2>3, <4>1
        <4>3. scaleIndex > 0 =>
                  SettledDeposit(u) = 0 \/ OrPrecision(SettledSnapshot(u)) = scaleIndex
          BY <3>2, SettledAtScale
        <4> QED BY <1>0, <2>1, <2>2, <2>3, <4>2, <4>3, StakeMoved
      <3> QED BY <3>1, <3>2
    <2> QED BY <1>0, <2>2, <2>3, <2>4 DEF CoverInv
  <1>4. ASSUME NEW debt \in Nat, NEW i \in Ilks, NEW coll \in Nat, Offset(debt, i, coll)
        PROVE  CoverInv'
    <2>1. SharesCovered'
      BY <1>0, <1>4, OffsetCovered
    <2>2. poolGUSD' = totalDeposits'
      BY <1>0, <1>4 DEF Offset
    <2> QED BY <2>1, <2>2 DEF CoverInv
  <1>5. ASSUME \/ \E i \in Ilks, t \in Tokens : RegisterCollateralToken(i, t)
               \/ UNCHANGED vars
        PROVE  CoverInv'
    <2>1. UNCHANGED <<poolVars, userVars, poolGUSD>>
      BY <1>5 DEF RegisterCollateralToken, vars
    <2> QED BY <2>1 DEF CoverInv, SharesCovered, CoveredBy, IsStale, drainEpoch, poolVars, userVars
  <1> QED BY <1>1, <1>2, <1>3, <1>4, <1>5, NextBounds

(* Nobody has a share before the first deposit. *)
LEMMA CoverInit == Init => CoverInv
  <1> SUFFICES ASSUME Init PROVE CoverInv
    OBVIOUS
  <1> DEFINE Zero == [v \in Depositors |-> 0]
  <1>1. Zero \in [Depositors -> Nat] /\ Zero \in [Depositors -> Int]
        /\ \A v \in Depositors : Zero[v] = 0
    OBVIOUS
  <1>2. /\ deposits = Zero /\ depositScaleSnapshot = Zero /\ totalDeposits = 0 /\ poolGUSD = 0
        /\ scaleIndex = PRECISION /\ PRECISION \in Nat
    BY PoolConstants DEF Init
  <1> HIDE DEF Zero
  <1>3. SumFunctionOnSet(Zero, Depositors) = 0
    BY <1>1, PoolConstants, SumOfZeros
  <1>4. scaleIndex * SumFunctionOnSet(Zero, Depositors) <= totalDeposits * 1
    BY <1>2, <1>3
  <1>5. ASSUME NEW v \in Depositors
        PROVE  deposits[v] * 1 <= OrPrecision(depositScaleSnapshot[v]) * Zero[v]
    <2>1. OrPrecision(0) \in Nat
      BY PoolConstants DEF OrPrecision
    <2> QED BY <1>1, <1>2, <2>1
  <1>6. CoveredBy(1, Zero)
    BY <1>4, <1>5 DEF CoveredBy
  <1> QED BY <1>1, <1>2, <1>6 DEF CoverInv, SharesCovered

LEMMA CoverInvariant == Spec => [](TypeOK /\ CoverInv)
  <1>1. TypeOK /\ CoverInv /\ [Next]_vars => CoverInv'
    BY CoverStep
  <1> QED BY CoverInit, <1>1, PoolInvariant, PTL DEF Spec

(* What withdraw would honour never adds up to more than the pool accounts *)
(* for, and the pool holds that much gUSD, through any mix of partial      *)
(* offsets, drains and rounding, while the scale is positive.              *)
THEOREM DepositsStayCovered == Spec => []DepositsCovered
  <1>1. TypeOK /\ CoverInv => DepositsCovered
    BY SharesCoverDeposits DEF CoverInv, DepositsCovered
  <1> QED BY CoverInvariant, <1>1, PTL

-----------------------------------------------------------------------------
(* New stakes. *)

(* NoRetroactiveGains, of one step. *)
StartsWithoutClaims ==
    \A u \in Depositors :
        wallet'[u] < wallet[u] /\ Withdrawable(u) = 0
        => \A i \in Ilks : IsRegistered(i) => PendingGain(u, i)' = 0

(* A snapshot at the present gain leaves nothing to claim. *)
LEMMA NothingPending ==
    ASSUME TypeOK, NEW u \in Depositors, NEW i \in Ilks,
           gainSnapshots[u][i] = cumulativeGainPerGUSD[i]
    PROVE  PendingGain(u, i) = 0
  <1>1. SettledDeposit(u) \in Nat /\ cumulativeGainPerGUSD[i] \in Nat
    BY SettledTypes DEF TypeOK
  <1>2. SettledDeposit(u) * (cumulativeGainPerGUSD[i] - gainSnapshots[u][i]) = 0
    BY <1>1
  <1> QED BY <1>2, PoolConstants DEF PendingGain

LEMMA NothingPendingAfter ==
    ASSUME NEW u \in Depositors, NEW i \in Ilks
    PROVE  (TypeOK /\ gainSnapshots[u][i] = cumulativeGainPerGUSD[i] => PendingGain(u, i) = 0)'
  <1>1. TypeOK /\ gainSnapshots[u][i] = cumulativeGainPerGUSD[i] => PendingGain(u, i) = 0
    BY NothingPending
  <1> QED BY <1>1, PTL

(* Only a deposit takes gUSD from a wallet, and it takes the snapshots. *)
LEMMA ClaimsStep ==
    ASSUME TypeOK, TypeOK', [Next]_vars
    PROVE  StartsWithoutClaims
  <1> SUFFICES ASSUME NEW v \in Depositors, wallet'[v] < wallet[v], Withdrawable(v) = 0,
                      NEW j \in Ilks, IsRegistered(j)
               PROVE  PendingGain(v, j)' = 0
    BY DEF StartsWithoutClaims
  <1>0. wallet \in [Depositors -> Nat]
    BY DEF TypeOK
  <1>1. ASSUME NEW u \in Depositors, NEW amount \in Nat, Deposit(u, amount)
        PROVE  PendingGain(v, j)' = 0
    <2>1. v = u
      <3>1. wallet' = [wallet EXCEPT ![u] = @ - amount]
        BY <1>1 DEF Deposit
      <3> QED BY <1>0, <3>1
    <2>2. /\ gainSnapshots' = [gainSnapshots EXCEPT ![v] = FreshSnapshots(v)]
          /\ cumulativeGainPerGUSD' = cumulativeGainPerGUSD
      BY <1>1, <2>1 DEF Deposit
    <2>3. gainSnapshots'[v][j] = cumulativeGainPerGUSD'[j]
      BY <2>2 DEF FreshSnapshots, TypeOK
    <2> QED BY <2>3, NothingPendingAfter
  <1>2. ASSUME NEW u \in Depositors, NEW amount \in Nat, Withdraw(u, amount) PROVE FALSE
    <2>1. wallet' = [wallet EXCEPT ![u] = @ + amount]
      BY <1>2 DEF Withdraw
    <2> QED BY <1>0, <2>1
  <1>3. ASSUME \/ \E u \in Depositors, i \in Ilks : ClaimCollateral(u, i)
               \/ \E debt \in Nat, i \in Ilks, coll \in Nat : Offset(debt, i, coll)
               \/ \E i \in Ilks, t \in Tokens : RegisterCollateralToken(i, t)
               \/ UNCHANGED vars
        PROVE  FALSE
    <2>1. wallet' = wallet
      BY <1>3 DEF ClaimCollateral, Offset, RegisterCollateralToken, vars
    <2> QED BY <1>0, <2>1
  <1> QED BY <1>1, <1>2, <1>3, NextBounds

(* A deposit made by an account without a stake starts with no claim on    *)
(* the collateral of earlier liquidations (deposit, GOO-367, GOO-369).     *)
THEOREM NewStakesClaimNothing == Spec => NoRetroactiveGains
  <1>1. TypeOK /\ TypeOK' /\ [Next]_vars => [StartsWithoutClaims]_vars
    BY ClaimsStep
  <1>2. [][StartsWithoutClaims]_vars => NoRetroactiveGains
    BY PTL DEF NoRetroactiveGains, StartsWithoutClaims
  <1> QED BY PoolIsTyped, <1>1, <1>2, PTL DEF Spec

-----------------------------------------------------------------------------
(* The refinement of Backstop. *)

(* The sum of the instance is the sum. *)
LEMMA PromiseSum ==
    ASSUME NEW f, NEW D
    PROVE  Promise!SumFunctionOnSet(f, D) = SumFunctionOnSet(f, D)
  BY DEF SumFunctionOnSet, FoldFunctionOnSet, MapThenFoldSet,
         Promise!SumFunctionOnSet, Promise!FoldFunctionOnSet, Promise!MapThenFoldSet

(* What is left of a stake of d parts at scale x, when the scale x becomes *)
(* y by an offset that leaves r of t: at most its share, and at least its  *)
(* share but for what the rounding of y and of the stake cost.             *)
LEMMA ShareAfterOffset ==
    ASSUME NEW d \in Nat, NEW n \in Nat \ {0}, NEW x \in Nat, NEW t \in Nat \ {0}, NEW r \in Nat \ {0},
           r <= t, d <= (Dust - 1) * n
    PROVE  LET y == (x * r) \div t
               before == (d * x) \div n
               after == (d * y) \div n
           IN  /\ before \in Nat /\ after \in Nat
               /\ after <= before
               /\ after * t < (before + 1) * r
               /\ (after + Dust) * t > before * r
  <1> DEFINE y == (x * r) \div t
             before == (d * x) \div n
             after == (d * y) \div n
  <1>0. Dust \in Nat \ {0}
    BY PoolConstants
  <1>1. x * r \in Nat /\ d * x \in Nat
    OBVIOUS
  <1>2. y \in Nat /\ t * y <= x * r /\ x * r < t * (y + 1)
    <2> DEFINE a == x * r
    <2>1. a \in Nat
      BY <1>1
    <2> HIDE DEF a
    <2>2. a \div t \in Nat /\ t * (a \div t) <= a /\ a < t * (a \div t + 1)
      BY <2>1, QuotientBounds
    <2> QED BY <2>2 DEF a
  <1> HIDE DEF y
  <1>3. before \in Nat /\ n * before <= d * x /\ d * x < n * (before + 1)
    <2> DEFINE a == d * x
    <2>1. a \in Nat
      BY <1>1
    <2> HIDE DEF a
    <2>2. a \div n \in Nat /\ n * (a \div n) <= a /\ a < n * (a \div n + 1)
      BY <2>1, QuotientBounds
    <2> QED BY <2>2 DEF a
  <1>4. after \in Nat /\ n * after <= d * y /\ d * y < n * (after + 1)
    <2> DEFINE a == d * y
    <2>1. a \in Nat
      BY <1>2
    <2> HIDE DEF a
    <2>2. a \div n \in Nat /\ n * (a \div n) <= a /\ a < n * (a \div n + 1)
      BY <2>1, QuotientBounds
    <2> QED BY <2>2 DEF a
  <1> HIDE DEF before, after
  <1>5. d * (t * y) <= d * (x * r)
    <2>1. t * y \in Nat
      BY <1>2
    <2>2. (t * y) * d <= (x * r) * d
      BY <1>1, <1>2, <2>1, TimesMonotone
    <2> QED BY <1>1, <2>1, <2>2
  <1>6. (n * after) * t <= (d * y) * t
    <2>1. n * after \in Nat /\ d * y \in Nat
      BY <1>2, <1>4
    <2> QED BY <1>4, <2>1, TimesMonotone
  <1>7. after * t < (before + 1) * r
    <2>1. ASSUME (before + 1) * r <= after * t PROVE FALSE
      <3>1. ((before + 1) * r) * n <= (after * t) * n
        <4>1. (before + 1) * r \in Nat /\ after * t \in Nat
          BY <1>3, <1>4
        <4> QED BY <2>1, <4>1, TimesMonotone
      <3>2. (after * t) * n = (n * after) * t /\ (d * y) * t = d * (t * y)
        BY <1>2, <1>4
      <3>3. (d * x + 1) * r <= (n * (before + 1)) * r
        <4>1. d * x + 1 \in Nat /\ n * (before + 1) \in Nat /\ d * x + 1 <= n * (before + 1)
          BY <1>1, <1>3
        <4> QED BY <4>1, TimesMonotone
      <3>4. (d * x + 1) * r = d * (x * r) + r
        OBVIOUS
      <3>5. (n * (before + 1)) * r = ((before + 1) * r) * n
        BY <1>3
      <3>6. /\ (after * t) * n \in Nat /\ d * (x * r) \in Nat /\ d * (t * y) \in Nat
            /\ ((before + 1) * r) * n \in Nat
        BY <1>1, <1>2, <1>3, <1>4
      <3> QED BY <1>5, <1>6, <3>1, <3>2, <3>3, <3>4, <3>5, <3>6
    <2>2. after * t \in Nat /\ (before + 1) * r \in Nat
      BY <1>3, <1>4
    <2> QED BY <2>1, <2>2
  <1>8. after <= before
    <2>1. y <= x
      <3>1. x * r <= t * x
        BY TimesAtMost
      <3>2. t * y <= t * x
        <4>1. t * y \in Nat /\ t * x \in Nat
          BY <1>2
        <4> QED BY <1>1, <1>2, <3>1, <4>1
      <3> QED BY <1>2, <3>2, CancelFactor
    <2>2. y * d <= x * d /\ y * d = d * y /\ x * d = d * x
      BY <1>2, <2>1, TimesMonotone
    <2>3. n * after < n * (before + 1)
      <3>1. /\ n * after \in Nat /\ n * (before + 1) \in Nat /\ d * y \in Nat /\ d * x \in Nat
        BY <1>2, <1>3, <1>4
      <3> QED BY <1>3, <1>4, <2>2, <3>1
    <2>4. ASSUME before + 1 <= after PROVE FALSE
      <3>1. (before + 1) * n <= after * n /\ (before + 1) * n = n * (before + 1)
            /\ after * n = n * after
        BY <1>3, <1>4, <2>4, TimesMonotone
      <3> QED BY <1>3, <1>4, <2>3, <3>1
    <2> QED BY <1>3, <1>4, <2>4
  <1>9. (after + Dust) * t > before * r
    <2>1. ASSUME (after + Dust) * t <= before * r PROVE FALSE
      <3>1. ((after + Dust) * t) * n <= (before * r) * n
        <4>1. (after + Dust) * t \in Nat /\ before * r \in Nat
          BY <1>0, <1>3, <1>4
        <4> QED BY <2>1, <4>1, TimesMonotone
      <3>2. (before * r) * n <= d * (x * r)
        <4>1. (n * before) * r <= (d * x) * r
          <5>1. n * before \in Nat
            BY <1>3
          <5> QED BY <1>1, <1>3, <5>1, TimesMonotone
        <4>2. (n * before) * r = (before * r) * n /\ (d * x) * r = d * (x * r)
          BY <1>3
        <4> QED BY <4>1, <4>2
      <3>3. d * (x * r) <= t * (d * y) + t * d
        <4>1. (x * r) * d <= (t * (y + 1)) * d
          <5>1. t * (y + 1) \in Nat
            BY <1>2
          <5> QED BY <1>1, <1>2, <5>1, TimesMonotone
        <4>2. (t * (y + 1)) * d = t * (d * y) + t * d /\ (x * r) * d = d * (x * r)
          BY <1>2
        <4> QED BY <4>1, <4>2
      <3>4. (d * y + 1) * t <= (n * (after + 1)) * t
        <4>1. d * y + 1 \in Nat /\ n * (after + 1) \in Nat /\ d * y + 1 <= n * (after + 1)
          BY <1>2, <1>4
        <4> QED BY <4>1, TimesMonotone
      <3>5. (d * y + 1) * t = t * (d * y) + t
        BY <1>2
      <3>6. d * t <= ((Dust - 1) * n) * t
        <4>1. (Dust - 1) * n \in Nat
          BY <1>0
        <4> QED BY <4>1, TimesMonotone
      <3>7. (n * (after + 1)) * t + ((Dust - 1) * n) * t = ((after + Dust) * t) * n
        <4>1. n * (after + 1) + (Dust - 1) * n = (after + Dust) * n
          BY <1>0, <1>4
        <4>2. /\ n * (after + 1) \in Nat /\ (Dust - 1) * n \in Nat /\ (after + Dust) * n \in Nat
          BY <1>0, <1>4
        <4>3. (n * (after + 1)) * t + ((Dust - 1) * n) * t = ((after + Dust) * n) * t
          BY <4>1, <4>2
        <4>4. ((after + Dust) * n) * t = ((after + Dust) * t) * n
          BY <1>0, <1>4
        <4> QED BY <4>3, <4>4
      <3>8. /\ ((after + Dust) * t) * n \in Nat /\ (before * r) * n \in Nat
            /\ d * (x * r) \in Nat /\ t * (d * y) \in Nat /\ t * d \in Nat /\ t * d = d * t
            /\ (n * (after + 1)) * t \in Nat /\ ((Dust - 1) * n) * t \in Nat
        <4>1. /\ after + Dust \in Nat /\ Dust - 1 \in Nat /\ before * r \in Nat /\ d * y \in Nat
              /\ n * (after + 1) \in Nat
          BY <1>0, <1>2, <1>3, <1>4
        <4> QED BY <1>1, <4>1
      <3> QED BY <3>1, <3>2, <3>3, <3>4, <3>5, <3>6, <3>7, <3>8
    <2>2. (after + Dust) * t \in Nat /\ before * r \in Nat
      BY <1>0, <1>3, <1>4
    <2> QED BY <2>1, <2>2
  <1> QED BY <1>3, <1>4, <1>7, <1>8, <1>9 DEF before, after, y

(* Every stake is a natural. *)
LEMMA StakesType ==
    /\ TypeOK => Stakes \in [Depositors -> Nat]
    /\ (TypeOK => Stakes \in [Depositors -> Nat])'
  <1>1. TypeOK => Stakes \in [Depositors -> Nat]
    BY SettledTypes DEF Stakes
  <1> QED BY <1>1, PTL

(* A stake whose terms stay is the same. *)
LEMMA StakeKept ==
    ASSUME NEW v \in Depositors,
           deposits'[v] = deposits[v], depositScaleSnapshot'[v] = depositScaleSnapshot[v],
           depositEpoch'[v] = depositEpoch[v],
           scaleIndex' = scaleIndex, epochBoundaryScaleIndex' = epochBoundaryScaleIndex
    PROVE  Withdrawable(v)' = Withdrawable(v)
  BY DEF Withdrawable, SettledDeposit, EffectiveScale, IsStale, drainEpoch

(* A stake recorded at the current scale is its deposit. *)
LEMMA StakeRecorded ==
    ASSUME NEW u \in Depositors, NEW d \in Nat, TypeOK, scaleIndex > 0, ~IsStale(u)',
           deposits'[u] = d, scaleIndex' = scaleIndex,
           depositScaleSnapshot'[u] \in Nat,
           d = 0 \/ OrPrecision(depositScaleSnapshot'[u]) = scaleIndex
    PROVE  Withdrawable(u)' = d
  <1> DEFINE n == OrPrecision(depositScaleSnapshot'[u])
  <1>1. scaleIndex \in Nat \ {0} /\ n \in Nat \ {0}
    BY PoolConstants DEF TypeOK, OrPrecision
  <1>2. Withdrawable(u)' = (d * scaleIndex) \div n
    BY <1>1 DEF Withdrawable, SettledDeposit, EffectiveScale, OrPrecision
  <1> HIDE DEF n
  <1>3. CASE d = 0
    <2>1. 0 * scaleIndex = 0 /\ 0 \div n = 0
      BY <1>1
    <2> QED BY <1>2, <1>3, <2>1
  <1>4. CASE d # 0
    <2>1. n = scaleIndex
      BY <1>4 DEF n
    <2> DEFINE q == (d * scaleIndex) \div scaleIndex
    <2>2. d * scaleIndex \in Nat
      BY <1>1
    <2>3. q \in Nat /\ scaleIndex * q <= d * scaleIndex /\ d * scaleIndex < scaleIndex * (q + 1)
      <3> DEFINE a == d * scaleIndex
      <3>1. a \in Nat
        BY <2>2
      <3> HIDE DEF a
      <3>2. a \div scaleIndex \in Nat /\ scaleIndex * (a \div scaleIndex) <= a
            /\ a < scaleIndex * (a \div scaleIndex + 1)
        BY <1>1, <3>1, QuotientBounds
      <3> QED BY <3>2 DEF a
    <2> HIDE DEF q
    <2>4. d * scaleIndex = scaleIndex * d /\ scaleIndex * d \in Nat
      BY <1>1
    <2>5. q <= d
      BY <1>1, <2>3, <2>4, CancelFactor
    <2>6. d <= q
      <3>1. ASSUME q + 1 <= d PROVE FALSE
        <4>1. (q + 1) * scaleIndex <= d * scaleIndex
          BY <1>1, <2>3, <3>1, TimesMonotone
        <4>2. (q + 1) * scaleIndex = scaleIndex * (q + 1) /\ scaleIndex * (q + 1) \in Nat
          BY <1>1, <2>3
        <4> QED BY <2>2, <2>3, <4>1, <4>2
      <3> QED BY <2>3, <3>1
    <2>7. q = d
      BY <2>3, <2>5, <2>6
    <2> QED BY <1>2, <2>1, <2>7 DEF q
  <1> QED BY <1>3, <1>4

(* One stake becomes d, the others stay. *)
LEMMA OneStakeMoves ==
    ASSUME NEW u \in Depositors, NEW d, Withdrawable(u)' = d,
           \A v \in Depositors \ {u} : Withdrawable(v)' = Withdrawable(v)
    PROVE  Stakes' = [Stakes EXCEPT ![u] = d]
  <1>1. Stakes' = [v \in Depositors |-> Withdrawable(v)']
    BY DEF Stakes
  <1>2. [Stakes EXCEPT ![u] = d] = [v \in Depositors |-> IF v = u THEN d ELSE Withdrawable(v)]
    BY DEF Stakes
  <1> QED BY <1>1, <1>2

(* A deposit provides the amount. *)
LEMMA DepositProvides ==
    ASSUME TypeOK, TypeOK', scaleIndex > 0, NEW u \in Depositors, NEW amount \in Nat,
           Deposit(u, amount)
    PROVE  Promise!Next
  <1>1. Withdrawable(u) \in Nat /\ totalDeposits \in Nat /\ scaleIndex \in Nat
    <2>1. Withdrawable(u) \in Nat
      BY SettledTypes
    <2> QED BY <2>1, PoolConstants DEF TypeOK
  <1>2. ~IsStale(u)'
    <2>1. depositEpoch'[u] = drainEpoch /\ drainEpoch' = drainEpoch
      BY DEF Deposit, TypeOK, drainEpoch
    <2>2. drainEpoch \in Nat
      BY DEF TypeOK, drainEpoch
    <2> QED BY <2>1, <2>2 DEF IsStale
  <1>3. /\ deposits'[u] = Withdrawable(u) + amount /\ depositScaleSnapshot'[u] = scaleIndex
        /\ scaleIndex' = scaleIndex /\ epochBoundaryScaleIndex' = epochBoundaryScaleIndex
        /\ totalDeposits' = totalDeposits + amount /\ amount > 0
    BY DEF Deposit, TypeOK
  <1>4. Withdrawable(u)' = Withdrawable(u) + amount
    <2>1. OrPrecision(scaleIndex) = scaleIndex
      BY <1>1 DEF OrPrecision
    <2>2. Withdrawable(u) + amount \in Nat
      BY <1>1
    <2> QED BY <1>1, <1>2, <1>3, <2>1, <2>2, StakeRecorded
  <1>5. \A v \in Depositors \ {u} : Withdrawable(v)' = Withdrawable(v)
    <2> SUFFICES ASSUME NEW v \in Depositors \ {u} PROVE Withdrawable(v)' = Withdrawable(v)
      OBVIOUS
    <2>1. /\ deposits'[v] = deposits[v] /\ depositScaleSnapshot'[v] = depositScaleSnapshot[v]
          /\ depositEpoch'[v] = depositEpoch[v]
      BY DEF Deposit, TypeOK
    <2> QED BY <1>3, <2>1, StakeKept
  <1>6. Stakes' = [Stakes EXCEPT ![u] = Withdrawable(u) + amount]
    BY <1>4, <1>5, OneStakeMoves
  <1>7. Stakes[u] = Withdrawable(u)
    BY DEF Stakes
  <1>8. Promise!Provide(u, amount)
    BY <1>3, <1>6, <1>7 DEF Promise!Provide
  <1>9. amount \in 1..(totalDeposits' - totalDeposits)
    BY <1>1, <1>3
  <1> QED BY <1>8, <1>9 DEF Promise!Next

(* A withdrawal takes the amount. *)
LEMMA WithdrawTakes ==
    ASSUME TypeOK, TypeOK', scaleIndex > 0, NEW u \in Depositors, NEW amount \in Nat,
           Withdraw(u, amount)
    PROVE  Promise!Next
  <1>1. SettledDeposit(u) \in Nat /\ SettledSnapshot(u) \in Nat /\ totalDeposits \in Nat
    BY SettledTypes DEF TypeOK
  <1> DEFINE d == SettledDeposit(u) - amount
  <1>2. /\ deposits'[u] = d /\ depositScaleSnapshot'[u] = SettledSnapshot(u)
        /\ depositEpoch' = depositEpoch
        /\ scaleIndex' = scaleIndex /\ epochBoundaryScaleIndex' = epochBoundaryScaleIndex
        /\ totalDeposits' = totalDeposits - amount /\ amount > 0
        /\ SettledDeposit(u) >= amount /\ ~IsStale(u)
    BY DEF Withdraw, HasDeposit, TypeOK
  <1>3. ~IsStale(u)'
    BY <1>2 DEF IsStale, drainEpoch
  <1>4. Withdrawable(u) = SettledDeposit(u) /\ d \in Nat
    BY <1>1, <1>2 DEF Withdrawable
  <1>5. d = 0 \/ OrPrecision(SettledSnapshot(u)) = scaleIndex
    BY <1>1, <1>2, SettledAtScale
  <1> HIDE DEF d
  <1>6. Withdrawable(u)' = d
    BY <1>1, <1>2, <1>3, <1>4, <1>5, StakeRecorded
  <1>7. \A v \in Depositors \ {u} : Withdrawable(v)' = Withdrawable(v)
    <2> SUFFICES ASSUME NEW v \in Depositors \ {u} PROVE Withdrawable(v)' = Withdrawable(v)
      OBVIOUS
    <2>1. deposits'[v] = deposits[v] /\ depositScaleSnapshot'[v] = depositScaleSnapshot[v]
      BY DEF Withdraw, TypeOK
    <2> QED BY <1>2, <2>1, StakeKept
  <1>8. Stakes' = [Stakes EXCEPT ![u] = d]
    BY <1>6, <1>7, OneStakeMoves
  <1>9. Stakes[u] = SettledDeposit(u)
    BY <1>4 DEF Stakes
  <1>10. amount \in 1..Stakes[u] /\ 0 < amount /\ amount <= Stakes[u]
    BY <1>1, <1>2, <1>9
  <1>11. Promise!Take(u, amount)
    BY <1>2, <1>8, <1>9, <1>10 DEF Promise!Take, d
  <1> QED BY <1>10, <1>11 DEF Promise!Next

(* A claim settles a deposit: nobody's stake moves. *)
LEMMA ClaimStutters ==
    ASSUME TypeOK, TypeOK', scaleIndex > 0, NEW u \in Depositors, NEW i \in Ilks,
           ClaimCollateral(u, i)
    PROVE  UNCHANGED <<totalDeposits, Stakes>>
  <1>1. SettledDeposit(u) \in Nat /\ SettledSnapshot(u) \in Nat
    BY SettledTypes
  <1>2. /\ deposits'[u] = SettledDeposit(u) /\ depositScaleSnapshot'[u] = SettledSnapshot(u)
        /\ depositEpoch' = depositEpoch /\ totalDeposits' = totalDeposits
        /\ scaleIndex' = scaleIndex /\ epochBoundaryScaleIndex' = epochBoundaryScaleIndex
    BY DEF ClaimCollateral, TypeOK, poolVars
  <1>3. IsStale(u)' <=> IsStale(u)
    BY <1>2 DEF IsStale, drainEpoch
  <1>4. Withdrawable(u)' = Withdrawable(u)
    <2>1. CASE IsStale(u)
      BY <1>3, <2>1 DEF Withdrawable
    <2>2. CASE ~IsStale(u)
      BY <1>1, <1>2, <1>3, <2>2, SettledAtScale, StakeRecorded
    <2> QED BY <2>1, <2>2
  <1>5. ASSUME NEW v \in Depositors \ {u} PROVE Withdrawable(v)' = Withdrawable(v)
    <2>1. deposits'[v] = deposits[v] /\ depositScaleSnapshot'[v] = depositScaleSnapshot[v]
      BY DEF ClaimCollateral, TypeOK
    <2> QED BY <1>2, <2>1, StakeKept
  <1>6. \A v \in Depositors : Withdrawable(v)' = Withdrawable(v)
    BY <1>4, <1>5
  <1>7. Stakes' = Stakes
    BY <1>6 DEF Stakes
  <1> QED BY <1>2, <1>7

(* An offset absorbs the debt from every stake alike. *)
LEMMA OffsetAbsorbs ==
    ASSUME TypeOK, TypeOK', scaleIndex > 0, scaleIndex' > 0, PrecisionHolds, DepositsCovered',
           NEW debt \in Nat, NEW i \in Ilks, NEW coll \in Nat, Offset(debt, i, coll)
    PROVE  Promise!Next
  <1> DEFINE remaining == totalDeposits - debt
  <1>1. /\ totalDeposits \in Nat \ {0} /\ remaining \in Nat /\ totalDeposits' = remaining
        /\ 0 < debt /\ debt <= totalDeposits /\ debt \in 1..totalDeposits
        /\ UNCHANGED userVars
    BY DEF TypeOK, Offset
  <1>2. Stakes \in [Depositors -> Nat] /\ Stakes' \in [Depositors -> Nat]
    BY StakesType
  <1>3. \A v \in Depositors : Stakes[v] = Withdrawable(v) /\ Stakes'[v] = Withdrawable(v)'
    BY DEF Stakes
  <1>4. Promise!SumFunctionOnSet(Stakes', Depositors) <= remaining
    <2>1. SumFunctionOnSet(Stakes', Depositors) <= totalDeposits'
      BY DEF DepositsCovered
    <2> QED BY <1>1, <2>1, PromiseSum
  <1>5. CASE remaining > 0
    <2>1. /\ scaleIndex' = (scaleIndex * remaining) \div totalDeposits
          /\ epochBoundaryScaleIndex' = epochBoundaryScaleIndex
      BY <1>5 DEF Offset
    <2>2. ASSUME NEW v \in Depositors
          PROVE  /\ Stakes'[v] <= Stakes[v]
                 /\ Stakes'[v] * totalDeposits < (Stakes[v] + 1) * remaining \/ Stakes'[v] = 0
                 /\ (Stakes'[v] + Dust) * totalDeposits > Stakes[v] * remaining
      <3>1. IsStale(v)' <=> IsStale(v)
        BY <1>1, <2>1 DEF IsStale, drainEpoch, userVars
      <3>2. CASE IsStale(v)
        <4>1. Stakes[v] = 0 /\ Stakes'[v] = 0
          BY <1>3, <3>1, <3>2 DEF Withdrawable
        <4>2. (0 + Dust) * totalDeposits > 0 * remaining
          <5>1. Dust \in Nat \ {0}
            BY PoolConstants
          <5> QED BY <1>1, <5>1
        <4> QED BY <4>1, <4>2
      <3>3. CASE ~IsStale(v)
        <4> DEFINE d == deposits[v]
                   n == OrPrecision(depositScaleSnapshot[v])
        <4>1. d \in Nat /\ n \in Nat \ {0}
          BY PoolConstants DEF TypeOK, OrPrecision
        <4>2. d <= (Dust - 1) * n
          BY <3>3 DEF PrecisionHolds
        <4>3. scaleIndex \in Nat /\ scaleIndex' \in Nat /\ scaleIndex # 0 /\ scaleIndex' # 0
          <5>1. PRECISION \in Nat
            BY PoolConstants
          <5>2. scaleIndex \in 0..PRECISION /\ scaleIndex' \in 0..PRECISION
            BY DEF TypeOK
          <5> QED BY <5>1, <5>2
        <4>4. Stakes[v] = (d * scaleIndex) \div n
          BY <1>3, <3>3, <4>3 DEF Withdrawable, SettledDeposit, EffectiveScale, OrPrecision
        <4>5. Stakes'[v] = (d * scaleIndex') \div n
          <5>1. deposits' = deposits /\ depositScaleSnapshot' = depositScaleSnapshot
            BY <1>1 DEF userVars
          <5> QED BY <1>3, <3>1, <3>3, <4>3, <5>1
                  DEF Withdrawable, SettledDeposit, EffectiveScale, OrPrecision
        <4>6. remaining \in Nat \ {0} /\ remaining <= totalDeposits
          BY <1>1, <1>5
        <4> HIDE DEF d, n, remaining
        <4>7. LET y == (scaleIndex * remaining) \div totalDeposits
                  before == (d * scaleIndex) \div n
                  after == (d * y) \div n
              IN  /\ after <= before
                  /\ after * totalDeposits < (before + 1) * remaining
                  /\ (after + Dust) * totalDeposits > before * remaining
          BY <1>1, <4>1, <4>2, <4>3, <4>6, ShareAfterOffset
        <4> QED BY <2>1, <4>4, <4>5, <4>7
      <3> QED BY <3>2, <3>3
    <2>3. Promise!Absorb(debt)
      BY <1>1, <1>2, <1>4, <1>5, <2>2 DEF Promise!Absorb
    <2> QED BY <1>1, <2>3 DEF Promise!Next
  <1>6. CASE ~(remaining > 0)
    <2>1. remaining = 0 /\ totalDeposits' = 0
      BY <1>1, <1>6
    <2>2. epochBoundaryScaleIndex' = Append(epochBoundaryScaleIndex, scaleIndex)
      BY <1>6 DEF Offset
    <2>3. drainEpoch \in Nat /\ drainEpoch' = drainEpoch + 1
      <3>1. epochBoundaryScaleIndex \in Seq(0..PRECISION) /\ scaleIndex \in 0..PRECISION
        BY DEF TypeOK
      <3> QED BY <2>2, <3>1, AppendProperties DEF drainEpoch
    <2>4. \A v \in Depositors : Stakes'[v] = 0
      <3> SUFFICES ASSUME NEW v \in Depositors PROVE Stakes'[v] = 0
        OBVIOUS
      <3>1. depositEpoch'[v] = depositEpoch[v] /\ depositEpoch[v] \in Nat /\ depositEpoch[v] <= drainEpoch
        BY <1>1 DEF TypeOK, userVars
      <3>2. IsStale(v)'
        BY <2>3, <3>1 DEF IsStale
      <3> QED BY <1>3, <3>2 DEF Withdrawable
    <2>5. ASSUME NEW v \in Depositors
          PROVE  /\ Stakes'[v] <= Stakes[v]
                 /\ Stakes'[v] * totalDeposits < (Stakes[v] + 1) * remaining \/ Stakes'[v] = 0
                 /\ (Stakes'[v] + Dust) * totalDeposits > Stakes[v] * remaining
      <3>1. Stakes[v] \in Nat /\ Stakes'[v] = 0
        BY <1>2, <2>4
      <3>2. Stakes[v] * 0 = 0 /\ (0 + Dust) * totalDeposits > 0
        <4>1. Dust \in Nat \ {0}
          BY PoolConstants
        <4> QED BY <1>1, <3>1, <4>1
      <3> HIDE DEF remaining
      <3> QED BY <2>1, <3>1, <3>2
    <2>6. Promise!Absorb(debt)
      BY <1>1, <1>2, <1>4, <2>4, <2>5 DEF Promise!Absorb
    <2> QED BY <1>1, <2>6 DEF Promise!Next
  <1> QED BY <1>5, <1>6

(* Every call on the pool is a step of Backstop or changes no stake. *)
LEMMA BackstopStep ==
    ASSUME TypeOK, TypeOK', PrecisionHolds, PrecisionHolds', DepositsCovered', [Next]_vars
    PROVE  [Promise!Next]_<<totalDeposits, Stakes>>
  <1>0. scaleIndex > 0 /\ scaleIndex' > 0
    BY DEF PrecisionHolds
  <1>1. ASSUME \/ \E i \in Ilks, t \in Tokens : RegisterCollateralToken(i, t)
               \/ UNCHANGED vars
        PROVE  UNCHANGED <<totalDeposits, Stakes>>
    <2>1. UNCHANGED <<poolVars, userVars>>
      BY <1>1 DEF RegisterCollateralToken, vars
    <2> QED BY <2>1 DEF Stakes, Withdrawable, SettledDeposit, EffectiveScale, IsStale, drainEpoch,
                        poolVars, userVars
  <1> QED BY <1>0, <1>1, NextBounds, DepositProvides, WithdrawTakes, ClaimStutters, OffsetAbsorbs

(* Nobody has a stake at first. *)
LEMMA BackstopInit == Init => Promise!Init
  <1> SUFFICES ASSUME Init PROVE Promise!Init
    OBVIOUS
  <1>1. Stakes = [u \in Depositors |-> 0]
    <2> SUFFICES ASSUME NEW u \in Depositors PROVE Withdrawable(u) = 0
      BY DEF Stakes
    <2>1. /\ deposits[u] = 0 /\ OrPrecision(depositScaleSnapshot[u]) = PRECISION
          /\ scaleIndex = PRECISION /\ PRECISION \in Nat \ {0} /\ drainEpoch = 0 /\ depositEpoch[u] = 0
      BY PoolConstants DEF Init, OrPrecision, drainEpoch
    <2>2. SettledDeposit(u) = (0 * PRECISION) \div PRECISION
      BY <2>1 DEF SettledDeposit, EffectiveScale, IsStale, OrPrecision
    <2>3. 0 * PRECISION = 0 /\ 0 \div PRECISION = 0
      BY <2>1
    <2> QED BY <2>2, <2>3 DEF Withdrawable
  <1> QED BY <1>1 DEF Init, Promise!Init

(* While the scale keeps its precision, the lazily scaled ledger implements *)
(* the eager one: every deposit, withdrawal and offset is the Backstop's    *)
(* step of that name on the stakes, and a claim changes no stake.          *)
THEOREM PoolImplementsBackstop == Spec /\ []PrecisionHolds => ImplementsBackstop
  <1>1. /\ TypeOK /\ TypeOK' /\ PrecisionHolds /\ PrecisionHolds' /\ DepositsCovered' /\ [Next]_vars
        => [Promise!Next]_<<totalDeposits, Stakes>>
    BY BackstopStep
  <1> QED BY PoolIsTyped, DepositsStayCovered, BackstopInit, <1>1, PTL
          DEF Spec, ImplementsBackstop, Promise!Spec

-----------------------------------------------------------------------------
(* The lending pool.                                                       *)
-----------------------------------------------------------------------------

(* A reserve: its indexes never fall below 1.0, it was last updated in the *)
(* past, and without debt its suppliers earn nothing.                      *)
ReserveSound(r, debt) ==
    /\ r \in ReserveData
    /\ r.liquidityIndex >= RAY /\ r.borrowIndex >= RAY
    /\ r.lastUpdate <= now
    /\ debt = 0 => r.supplyRate = 0

(* The balances of a token, by asset, and their totals. *)
TokenSound(balance, total, holders) ==
    /\ balance \in [Assets -> [holders -> Nat]]
    /\ total \in [Assets -> Nat]
    /\ \A a \in Assets : total[a] = SumFunctionOnSet(balance[a], holders)

LendInv ==
    /\ now \in Nat
    /\ reserve \in [Assets -> ReserveData]
    /\ \A a \in Assets : ReserveSound(reserve[a], debtSupply[a])
    /\ TokenSound(gToken, gSupply, Holders)
    /\ TokenSound(debtToken, debtSupply, Users)
    /\ cash \in [Assets -> Nat]
    /\ price \in [Assets -> Prices]
    /\ calls \in [{"user", "admin"} -> Nat]

-----------------------------------------------------------------------------
(* Scaling. *)

LEMMA UnscaledNat ==
    ASSUME NEW n \in Nat, NEW i \in Nat
    PROVE  Unscaled(n, i) \in Nat
  <1>1. n * i \in Nat
    BY TimesNat
  <1> QED BY <1>1, RateConstants, DivNat DEF Unscaled

(* Indexes of at least 1.0 make no scaled amount disappear. *)
LEMMA UnscaledAtLeast ==
    ASSUME NEW n \in Nat, NEW i \in Nat, i >= RAY
    PROVE  Unscaled(n, i) >= n
  BY RateConstants, ScaleUp DEF Unscaled

(* Larger amounts and indexes are worth more. *)
LEMMA UnscaledMonotone ==
    ASSUME NEW m \in Nat, NEW n \in Nat, NEW i \in Nat, NEW j \in Nat, m <= n, i <= j
    PROVE  Unscaled(m, i) <= Unscaled(n, j)
  <1>1. m * i <= n * i /\ m * i \in Nat /\ n * i \in Nat
    BY TimesMonotone
  <1>2. n * i <= n * j /\ n * j \in Nat
    BY TimesMonotone
  <1>3. m * i <= n * j
    BY <1>1, <1>2
  <1> QED BY <1>1, <1>2, <1>3, RateConstants, DivMonotone DEF Unscaled

(* Scaled amounts are naturals, however they are rounded. *)
LEMMA ScaledNat ==
    ASSUME NEW n \in Nat, NEW i \in Nat, i >= RAY
    PROVE  ScaledDown(n, i) \in Nat /\ ScaledUp(n, i) \in Nat
  <1>1. RAY \in Nat /\ i > 0 /\ n * RAY \in Nat
    BY RateConstants, TimesNat
  <1>2. n * RAY + i - 1 \in Nat
    BY <1>1
  <1> QED BY <1>1, <1>2, DivNat DEF ScaledDown, ScaledUp

(* Interest only adds to an index, and none without a rate or a time. *)
LEMMA GrownSound ==
    ASSUME NEW i \in Nat, NEW rate \in Nat, NEW time \in Nat
    PROVE  /\ Grown(i, rate, time) \in Nat /\ Grown(i, rate, time) >= i
           /\ Grown(i, rate, 0) = i /\ Grown(i, 0, time) = i
  <1>1. RAY \in Nat /\ RAY > 0 /\ 0 \div RAY = 0
    BY RateConstants
  <1>2. i * rate \in Nat
    BY TimesNat
  <1>3. (i * rate) * time \in Nat
    BY <1>2, TimesNat
  <1>4. ((i * rate) * time) \div RAY \in Nat
    BY <1>1, <1>3, DivNat
  <1>5. (i * rate) * 0 = 0 /\ (i * 0) * time = 0
    BY <1>2
  <1> QED BY <1>1, <1>4, <1>5 DEF Grown

(* Interest on an index, seen from a larger index, is larger. *)
LEMMA GrownMonotone ==
    ASSUME NEW i \in Nat, NEW j \in Nat, i <= j, NEW rate \in Nat, NEW time \in Nat
    PROVE  Grown(i, rate, time) <= Grown(j, rate, time)
  <1>1. RAY \in Nat \ {0}
    BY RateConstants
  <1>2. i * rate \in Nat /\ j * rate \in Nat /\ i * rate <= j * rate
    BY TimesMonotone
  <1>3. (i * rate) * time \in Nat /\ (j * rate) * time \in Nat /\ (i * rate) * time <= (j * rate) * time
    BY <1>2, TimesMonotone
  <1>4. ((i * rate) * time) \div RAY <= ((j * rate) * time) \div RAY
    BY <1>1, <1>3, DivMonotone
  <1>5. ((i * rate) * time) \div RAY \in Nat /\ ((j * rate) * time) \div RAY \in Nat
    BY <1>1, <1>3, DivNat
  <1> QED BY <1>4, <1>5 DEF Grown

-----------------------------------------------------------------------------
(* Rates (InterestRateModel). *)

LEMMA UtilizationSound ==
    ASSUME NEW lent \in Nat, NEW borrows \in Nat
    PROVE  Utilization(lent, borrows) \in 0..RAY /\ Utilization(lent, 0) = 0
  <1>1. RAY \in Nat /\ RAY > 0 /\ borrows * RAY \in Nat /\ 0 * RAY = 0
    BY RateConstants, TimesNat
  <1>2. CASE lent = 0
    BY <1>1, <1>2 DEF Utilization
  <1>3. CASE lent > 0
    <2>1. (borrows * RAY) \div lent \in Nat
      BY <1>1, <1>3, DivNat
    <2>2. 0 \div lent = 0
      BY <1>3
    <2> QED BY <1>1, <1>3, <2>1, <2>2 DEF Utilization
  <1> QED BY <1>2, <1>3

LEMMA BorrowRateNat ==
    ASSUME NEW u \in 0..RAY
    PROVE  BorrowRate(u) \in Nat
  <1>1. /\ RAY \in Nat /\ Optimal \in Nat /\ Optimal > 0 /\ Optimal < RAY
        /\ BaseRate \in Nat /\ Slope1 \in Nat /\ Slope2 \in Nat /\ u \in Nat /\ u <= RAY
    BY RateConstants
  <1>2. CASE u <= Optimal
    <2>1. Slope1 * u \in Nat
      BY <1>1, TimesNat
    <2>2. (Slope1 * u) \div Optimal \in Nat
      BY <1>1, <2>1, DivNat
    <2> QED BY <1>1, <1>2, <2>2 DEF BorrowRate
  <1>3. CASE ~(u <= Optimal)
    <2>1. u - Optimal \in Nat /\ RAY - Optimal \in Nat /\ RAY - Optimal > 0
      BY <1>1, <1>3
    <2>2. Slope2 * (u - Optimal) \in Nat
      BY <1>1, <2>1, TimesNat
    <2>3. (Slope2 * (u - Optimal)) \div (RAY - Optimal) \in Nat
      BY <2>1, <2>2, DivNat
    <2> QED BY <1>1, <1>3, <2>3 DEF BorrowRate
  <1> QED BY <1>2, <1>3

LEMMA SupplyRateSound ==
    ASSUME NEW u \in 0..RAY, NEW factor \in Nat, factor <= 10000
    PROVE  SupplyRate(u, factor) \in Nat /\ SupplyRate(0, factor) = 0
  <1>1. RAY \in Nat /\ RAY > 0 /\ u \in Nat /\ factor \in Nat /\ factor <= 10000 /\ 0 \in 0..RAY
    BY RateConstants
  <1>2. BorrowRate(u) \in Nat /\ BorrowRate(0) \in Nat
    BY <1>1, BorrowRateNat
  <1> DEFINE kept == RAY - (factor * RAY) \div 10000
             part == (BorrowRate(u) * u) \div RAY
  <1>3. kept \in Nat
    <2>1. factor * RAY \in Nat /\ 10000 * RAY \in Nat /\ factor * RAY <= 10000 * RAY
      BY <1>1, TimesMonotone
    <2>2. (factor * RAY) \div 10000 \in Nat
      BY <2>1, DivNat
    <2>3. (factor * RAY) \div 10000 <= (10000 * RAY) \div 10000
      BY <2>1, DivMonotone
    <2>4. (10000 * RAY) \div 10000 = RAY
      BY <1>1
    <2> QED BY <1>1, <2>2, <2>3, <2>4
  <1>4. part \in Nat
    BY <1>1, <1>2, TimesNat, DivNat
  <1> HIDE DEF kept, part
  <1>5. (part * kept) \div RAY \in Nat
    BY <1>1, <1>3, <1>4, TimesNat, DivNat
  <1>6. SupplyRate(u, factor) \in Nat
    BY <1>5 DEF SupplyRate, kept, part
  <1>7. SupplyRate(0, factor) = 0
    <2>1. BorrowRate(0) * 0 = 0 /\ 0 \div RAY = 0 /\ 0 * kept = 0
      BY <1>1, <1>2, <1>3
    <2> QED BY <2>1 DEF SupplyRate, kept
  <1> QED BY <1>6, <1>7

-----------------------------------------------------------------------------
(* Reserves. *)

(* The constants the pool computes with. *)
LEMMA ConstantTypes ==
    /\ Threshold \in Nat /\ Bonus \in Nat /\ PREMIUM_BPS \in Nat
    /\ Prices \subseteq Nat /\ Amounts \subseteq Nat /\ Caps \subseteq Nat
  <1>1. Threshold \in 0..10000
    BY LendConstants
  <1>2. Threshold \in Nat
    BY <1>1
  <1>3. Bonus \in Nat /\ PREMIUM_BPS \in Nat
    BY LendConstants
  <1>4. Prices \subseteq Nat
    BY LendConstants
  <1>5. Amounts \subseteq Nat
    BY LendConstants
  <1>6. Caps \subseteq Nat
    BY LendConstants
  <1> QED BY <1>2, <1>3, <1>4, <1>5, <1>6

(* The fields of a reserve. *)
LEMMA FieldTypes ==
    ASSUME NEW r \in ReserveData
    PROVE  /\ r.isActive \in BOOLEAN /\ r.borrowingEnabled \in BOOLEAN
           /\ r.factor \in Nat /\ r.factor <= 10000 /\ r.factor \in Factors
           /\ r.liquidityIndex \in Nat /\ r.borrowIndex \in Nat
           /\ r.supplyRate \in Nat /\ r.borrowRate \in Nat
           /\ r.lastUpdate \in Nat /\ r.accruedToTreasury \in Nat
  <1>1. r.isActive \in BOOLEAN /\ r.borrowingEnabled \in BOOLEAN
    BY DEF ReserveData
  <1>2. /\ r.liquidityIndex \in Nat /\ r.borrowIndex \in Nat
        /\ r.supplyRate \in Nat /\ r.borrowRate \in Nat
        /\ r.lastUpdate \in Nat /\ r.accruedToTreasury \in Nat
    BY DEF ReserveData
  <1> DEFINE f == r.factor
  <1>3. f \in Factors
    BY DEF ReserveData
  <1> HIDE DEF f
  <1>4. f \in Nat /\ f <= 10000 /\ f \in Factors
    BY <1>3, LendConstants
  <1> QED BY <1>1, <1>2, <1>4 DEF f

LEMMA ReserveFacts ==
    ASSUME LendInv, NEW a \in Assets
    PROVE  /\ ReserveSound(reserve[a], debtSupply[a])
           /\ debtSupply[a] \in Nat /\ gSupply[a] \in Nat
           /\ now \in Nat /\ now - reserve[a].lastUpdate \in Nat
  <1>1. reserve[a] \in ReserveData /\ reserve[a].lastUpdate <= now /\ now \in Nat
    BY DEF LendInv, ReserveSound
  <1>2. reserve[a].lastUpdate \in Nat
    BY <1>1, FieldTypes
  <1> QED BY <1>1, <1>2 DEF LendInv, TokenSound

(* Booking the interest keeps a reserve sound, and brings its indexes to    *)
(* where the pending ones are: where it does not, because nothing is owed, *)
(* the suppliers have earned nothing and nobody's debt is affected.        *)
LEMMA UpdatedSound ==
    ASSUME LendInv, NEW a \in Assets
    PROVE  /\ ReserveSound(Updated(a), debtSupply[a])
           /\ Updated(a).isActive = reserve[a].isActive
           /\ reserve[a].isActive =>
                /\ Updated(a).lastUpdate = now
                /\ Updated(a).liquidityIndex = LiquidityIndex(a)
                /\ debtSupply[a] = 0 \/ Updated(a).borrowIndex = BorrowIndex(a)
  <1> DEFINE r == reserve[a]
             time == now - r.lastUpdate
             owed == Unscaled(debtSupply[a], r.borrowIndex)
             interest == (owed * r.borrowRate * time) \div RAY
  <1>1. /\ r \in ReserveData /\ r.liquidityIndex >= RAY /\ r.borrowIndex >= RAY
        /\ r.lastUpdate <= now /\ (debtSupply[a] = 0 => r.supplyRate = 0)
        /\ debtSupply[a] \in Nat /\ now \in Nat /\ time \in Nat
    BY ReserveFacts DEF ReserveSound
  <1>2. /\ r.liquidityIndex \in Nat /\ r.borrowIndex \in Nat /\ r.supplyRate \in Nat
        /\ r.borrowRate \in Nat /\ r.lastUpdate \in Nat /\ r.factor \in Nat
        /\ r.accruedToTreasury \in Nat /\ r.isActive \in BOOLEAN
    BY <1>1, FieldTypes
  <1> HIDE DEF r
  <1>3. RAY \in Nat /\ RAY > 0
    BY RateConstants
  <1>4. owed \in Nat /\ owed >= debtSupply[a]
    BY <1>1, <1>2, UnscaledNat, UnscaledAtLeast
  <1>5. interest \in Nat
    <2>1. owed * r.borrowRate \in Nat
      BY <1>2, <1>4, TimesNat
    <2>2. owed * r.borrowRate * time \in Nat
      BY <1>1, <2>1, TimesNat
    <2> QED BY <1>3, <2>2, DivNat
  <1>6. (interest * r.factor) \div 10000 \in Nat
    BY <1>2, <1>5, TimesNat, DivNat
  <1>7. /\ Grown(r.liquidityIndex, r.supplyRate, time) \in Nat
        /\ Grown(r.liquidityIndex, r.supplyRate, time) >= RAY
        /\ Grown(r.borrowIndex, r.borrowRate, time) \in Nat
        /\ Grown(r.borrowIndex, r.borrowRate, time) >= RAY
        /\ time = 0 => /\ Grown(r.liquidityIndex, r.supplyRate, time) = r.liquidityIndex
                       /\ Grown(r.borrowIndex, r.borrowRate, time) = r.borrowIndex
        /\ debtSupply[a] = 0 =>
             Grown(r.liquidityIndex, r.supplyRate, time) = r.liquidityIndex
    <2> DEFINE i == r.liquidityIndex
               j == r.borrowIndex
    <2>1. /\ i \in Nat /\ i >= RAY /\ j \in Nat /\ j >= RAY
          /\ r.supplyRate \in Nat /\ r.borrowRate \in Nat /\ time \in Nat
      BY <1>1, <1>2
    <2> HIDE DEF time, i, j
    <2>2. /\ Grown(i, r.supplyRate, time) \in Nat /\ Grown(i, r.supplyRate, time) >= i
          /\ Grown(j, r.borrowRate, time) \in Nat /\ Grown(j, r.borrowRate, time) >= j
          /\ Grown(i, r.supplyRate, 0) = i /\ Grown(j, r.borrowRate, 0) = j
          /\ Grown(i, 0, time) = i
      BY <2>1, GrownSound
    <2>3. debtSupply[a] = 0 => r.supplyRate = 0
      BY <1>1
    <2>4. RAY \in Nat
      BY <1>3
    <2>5. Grown(i, r.supplyRate, time) >= RAY /\ Grown(j, r.borrowRate, time) >= RAY
      BY <2>1, <2>2, <2>4
    <2> QED BY <2>2, <2>3, <2>5 DEF i, j
  <1>8. r.isActive =>
          /\ LiquidityIndex(a) = Grown(r.liquidityIndex, r.supplyRate, time)
          /\ BorrowIndex(a) = Grown(r.borrowIndex, r.borrowRate, time)
    BY DEF LiquidityIndex, BorrowIndex, r
  <1>9. CASE ~r.isActive
    <2>1. Updated(a) = r
      BY <1>9 DEF Updated, r
    <2> QED BY <1>1, <1>9, <2>1 DEF ReserveSound, r
  <1>10. CASE r.isActive /\ time = 0
    <2>1. Updated(a) = r /\ r.lastUpdate = now
      BY <1>1, <1>2, <1>10 DEF Updated, r
    <2> QED BY <1>1, <1>7, <1>8, <1>10, <2>1 DEF ReserveSound, r
  <1>11. CASE r.isActive /\ time # 0 /\ owed = 0
    <2>1. Updated(a) = [r EXCEPT !.lastUpdate = now]
      BY <1>11 DEF Updated, r
    <2>2. debtSupply[a] = 0
      BY <1>1, <1>4, <1>11
    <2>3. /\ Updated(a) \in ReserveData /\ Updated(a).lastUpdate = now
          /\ Updated(a).isActive = r.isActive /\ Updated(a).supplyRate = r.supplyRate
          /\ Updated(a).liquidityIndex = r.liquidityIndex
          /\ Updated(a).borrowIndex = r.borrowIndex
      BY <1>1, <2>1 DEF ReserveData
    <2> QED BY <1>1, <1>7, <1>8, <1>11, <2>2, <2>3 DEF ReserveSound, r
  <1>12. CASE r.isActive /\ time # 0 /\ owed # 0
    <2> DEFINE li == Grown(r.liquidityIndex, r.supplyRate, time)
               bi == Grown(r.borrowIndex, r.borrowRate, time)
               acc == r.accruedToTreasury + (interest * r.factor) \div 10000
    <2>1. Updated(a) = [r EXCEPT !.lastUpdate = now, !.borrowIndex = bi,
                                 !.liquidityIndex = li, !.accruedToTreasury = acc]
      BY <1>12 DEF Updated, r
    <2>2. li \in Nat /\ bi \in Nat /\ acc \in Nat /\ li >= RAY /\ bi >= RAY
      BY <1>2, <1>6, <1>7
    <2> HIDE DEF li, bi, acc
    <2>3. /\ Updated(a) \in ReserveData /\ Updated(a).lastUpdate = now
          /\ Updated(a).isActive = r.isActive /\ Updated(a).supplyRate = r.supplyRate
          /\ Updated(a).liquidityIndex = li /\ Updated(a).borrowIndex = bi
      BY <1>1, <2>1, <2>2 DEF ReserveData
    <2>4. li = LiquidityIndex(a) /\ bi = BorrowIndex(a)
      BY <1>8, <1>12 DEF li, bi
    <2> QED BY <1>1, <2>2, <2>3, <2>4 DEF ReserveSound, r
  <1> QED BY <1>9, <1>10, <1>11, <1>12

(* Setting the rates keeps a reserve sound, for the new totals. *)
LEMMA WithRatesSound ==
    ASSUME NEW r \in ReserveData, NEW debt, ReserveSound(r, debt),
           NEW lent \in Nat, NEW borrows \in Nat
    PROVE  /\ ReserveSound(WithRates(r, lent, borrows), borrows)
           /\ WithRates(r, lent, borrows).isActive = r.isActive
           /\ WithRates(r, lent, borrows).lastUpdate = r.lastUpdate
           /\ WithRates(r, lent, borrows).liquidityIndex = r.liquidityIndex
           /\ WithRates(r, lent, borrows).borrowIndex = r.borrowIndex
  <1> DEFINE u == Utilization(Unscaled(lent, r.liquidityIndex),
                              Unscaled(borrows, r.borrowIndex))
             br == BorrowRate(u)
             sr == SupplyRate(u, r.factor)
  <1>1. /\ r.liquidityIndex \in Nat /\ r.borrowIndex \in Nat
        /\ r.factor \in Nat /\ r.factor <= 10000
    BY FieldTypes
  <1>2. /\ Unscaled(lent, r.liquidityIndex) \in Nat
        /\ Unscaled(borrows, r.borrowIndex) \in Nat
    <2> DEFINE i == r.liquidityIndex
               j == r.borrowIndex
    <2>1. i \in Nat /\ j \in Nat
      BY <1>1
    <2> HIDE DEF i, j
    <2>2. Unscaled(lent, i) \in Nat /\ Unscaled(borrows, j) \in Nat
      BY <2>1, UnscaledNat
    <2> QED BY <2>2 DEF i, j
  <1>3. u \in 0..RAY
    BY <1>2, UtilizationSound
  <1>4. borrows = 0 => u = 0
    <2> SUFFICES ASSUME borrows = 0 PROVE u = 0
      OBVIOUS
    <2>1. 0 * r.borrowIndex = 0 /\ 0 \div RAY = 0
      BY <1>1, RateConstants
    <2>2. Unscaled(borrows, r.borrowIndex) = 0
      BY <2>1 DEF Unscaled
    <2> QED BY <1>2, <2>2, UtilizationSound
  <1> HIDE DEF u
  <1>5. br \in Nat /\ sr \in Nat /\ (borrows = 0 => sr = 0)
    BY <1>1, <1>3, <1>4, BorrowRateNat, SupplyRateSound
  <1>6. WithRates(r, lent, borrows) = [r EXCEPT !.borrowRate = br, !.supplyRate = sr]
    BY DEF WithRates, u
  <1> HIDE DEF br, sr
  <1>7. /\ WithRates(r, lent, borrows) \in ReserveData
        /\ WithRates(r, lent, borrows).supplyRate = sr
        /\ WithRates(r, lent, borrows).isActive = r.isActive
        /\ WithRates(r, lent, borrows).lastUpdate = r.lastUpdate
        /\ WithRates(r, lent, borrows).liquidityIndex = r.liquidityIndex
        /\ WithRates(r, lent, borrows).borrowIndex = r.borrowIndex
    BY <1>5, <1>6 DEF ReserveData
  <1> QED BY <1>5, <1>7 DEF ReserveSound

(* What no call but a switch of the admin does to the pending indexes of a  *)
(* reserve: lower that of the suppliers, or raise that of a debt.          *)
IndexKept(a) ==
    /\ reserve'[a].isActive = reserve[a].isActive
    /\ reserve[a].isActive =>
         /\ LiquidityIndex(a) \in Nat /\ LiquidityIndex(a)' \in Nat
         /\ BorrowIndex(a) \in Nat /\ BorrowIndex(a)' \in Nat
         /\ LiquidityIndex(a) <= LiquidityIndex(a)'
         /\ debtSupply[a] = 0 \/ BorrowIndex(a)' <= BorrowIndex(a)

ReservesMove ==
    /\ reserve' \in [Assets -> ReserveData]
    /\ \A a \in Assets : ReserveSound(reserve[a], debtSupply[a])' /\ IndexKept(a)

(* The pending indexes are naturals. *)
LEMMA IndexNat ==
    ASSUME LendInv, NEW a \in Assets
    PROVE  LiquidityIndex(a) \in Nat /\ BorrowIndex(a) \in Nat
  <1>1. /\ reserve[a] \in ReserveData /\ now - reserve[a].lastUpdate \in Nat /\ RAY \in Nat
    BY ReserveFacts, RateConstants DEF ReserveSound
  <1>2. /\ reserve[a].liquidityIndex \in Nat /\ reserve[a].borrowIndex \in Nat
        /\ reserve[a].supplyRate \in Nat /\ reserve[a].borrowRate \in Nat
    BY <1>1, FieldTypes
  <1> QED BY <1>1, <1>2, GrownSound DEF LiquidityIndex, BorrowIndex

(* A reserve whose interest is booked. *)
LEMMA IndexBooked ==
    ASSUME LendInv, NEW a \in Assets, now' = now,
           reserve'[a] \in ReserveData, reserve'[a].isActive = reserve[a].isActive,
           reserve[a].isActive => /\ reserve'[a].lastUpdate = now
                                  /\ reserve'[a].liquidityIndex = Updated(a).liquidityIndex
                                  /\ reserve'[a].borrowIndex = Updated(a).borrowIndex
    PROVE  IndexKept(a)
  <1>1. CASE ~reserve[a].isActive
    BY <1>1 DEF IndexKept
  <1>2. CASE reserve[a].isActive
    <2>1. now \in Nat /\ now' - reserve'[a].lastUpdate = 0
      BY <1>2 DEF LendInv
    <2>2. /\ reserve'[a].liquidityIndex \in Nat /\ reserve'[a].supplyRate \in Nat
          /\ reserve'[a].borrowIndex \in Nat /\ reserve'[a].borrowRate \in Nat
      BY FieldTypes
    <2>3. /\ LiquidityIndex(a)' = reserve'[a].liquidityIndex
          /\ BorrowIndex(a)' = reserve'[a].borrowIndex
      <3> DEFINE i == reserve'[a].liquidityIndex
                 j == reserve'[a].borrowIndex
      <3>1. Grown(i, reserve'[a].supplyRate, 0) = i /\ Grown(j, reserve'[a].borrowRate, 0) = j
        BY <2>2, GrownSound, Zenon
      <3>2. /\ LiquidityIndex(a)' = Grown(i, reserve'[a].supplyRate, now' - reserve'[a].lastUpdate)
            /\ BorrowIndex(a)' = Grown(j, reserve'[a].borrowRate, now' - reserve'[a].lastUpdate)
        BY <1>2 DEF LiquidityIndex, BorrowIndex
      <3> QED BY <2>1, <3>1, <3>2
    <2>4. /\ LiquidityIndex(a)' = LiquidityIndex(a)
          /\ debtSupply[a] = 0 \/ BorrowIndex(a)' = BorrowIndex(a)
      BY <1>2, <2>3, UpdatedSound
    <2>5. LiquidityIndex(a) \in Nat /\ BorrowIndex(a) \in Nat
      BY IndexNat
    <2> QED BY <1>2, <2>2, <2>3, <2>4, <2>5 DEF IndexKept
  <1> QED BY <1>1, <1>2

(* A reserve whose interest is booked and whose rates are set anew. *)
LEMMA OneRefreshed ==
    ASSUME LendInv, NEW a \in Assets, now' = now,
           NEW r \in ReserveData, ReserveSound(r, debtSupply[a]),
           NEW lent \in Nat, debtSupply'[a] \in Nat,
           reserve'[a] = WithRates(r, lent, debtSupply'[a]),
           r.isActive = reserve[a].isActive,
           r.isActive => /\ r.lastUpdate = now /\ r.liquidityIndex = Updated(a).liquidityIndex
                         /\ r.borrowIndex = Updated(a).borrowIndex
    PROVE  reserve'[a] \in ReserveData /\ ReserveSound(reserve[a], debtSupply[a])' /\ IndexKept(a)
  <1>1. /\ ReserveSound(reserve'[a], debtSupply'[a])
        /\ reserve'[a].isActive = r.isActive /\ reserve'[a].lastUpdate = r.lastUpdate
        /\ reserve'[a].liquidityIndex = r.liquidityIndex
        /\ reserve'[a].borrowIndex = r.borrowIndex
    BY WithRatesSound
  <1>2. reserve'[a] \in ReserveData /\ ReserveSound(reserve[a], debtSupply[a])'
    BY <1>1 DEF ReserveSound
  <1> QED BY <1>1, <1>2, IndexBooked

(* A reserve that a step leaves alone. *)
LEMMA OneUntouched ==
    ASSUME LendInv, NEW a \in Assets, now' = now, reserve'[a] = reserve[a],
           debtSupply'[a] = debtSupply[a]
    PROVE  reserve'[a] \in ReserveData /\ ReserveSound(reserve[a], debtSupply[a])' /\ IndexKept(a)
  <1>1. ReserveSound(reserve[a], debtSupply[a])
    BY ReserveFacts
  <1>2. LiquidityIndex(a)' = LiquidityIndex(a) /\ BorrowIndex(a)' = BorrowIndex(a)
    BY DEF LiquidityIndex, BorrowIndex
  <1>3. LiquidityIndex(a) \in Nat /\ BorrowIndex(a) \in Nat
    BY IndexNat
  <1> QED BY <1>1, <1>2, <1>3 DEF ReserveSound, IndexKept

LEMMA Refreshed ==
    ASSUME LendInv, now' = now, NEW touched, Refresh(touched),
           gSupply' \in [Assets -> Nat], debtSupply' \in [Assets -> Nat],
           \A a \in Assets \ touched : debtSupply'[a] = debtSupply[a]
    PROVE  ReservesMove
  <1>1. reserve' = [a \in Assets |-> IF a \in touched
                                     THEN WithRates(Updated(a), gSupply'[a], debtSupply'[a])
                                     ELSE reserve[a]]
    BY DEF Refresh
  <1>2. ASSUME NEW a \in Assets
        PROVE  /\ reserve'[a] \in ReserveData
               /\ ReserveSound(reserve[a], debtSupply[a])' /\ IndexKept(a)
    <2>1. CASE a \in touched
      <3>1. reserve'[a] = WithRates(Updated(a), gSupply'[a], debtSupply'[a])
        BY <1>1, <2>1
      <3>2. gSupply'[a] \in Nat /\ debtSupply'[a] \in Nat
        OBVIOUS
      <3>3. /\ ReserveSound(Updated(a), debtSupply[a])
            /\ Updated(a).isActive = reserve[a].isActive
            /\ reserve[a].isActive => Updated(a).lastUpdate = now
        BY UpdatedSound
      <3>4. Updated(a) \in ReserveData
        BY <3>3 DEF ReserveSound
      <3> QED BY <3>1, <3>2, <3>3, <3>4, OneRefreshed
    <2>2. CASE a \notin touched
      <3>1. reserve'[a] = reserve[a]
        BY <1>1, <2>2
      <3> QED BY <2>2, <3>1, OneUntouched
    <2> QED BY <2>1, <2>2
  <1> QED BY <1>1, <1>2 DEF ReservesMove

-----------------------------------------------------------------------------
(* Tokens. *)

(* A balance and the total that move by as much still agree. *)
LEMMA BalanceMoves ==
    ASSUME NEW holders, IsFiniteSet(holders), NEW f, NEW s, TokenSound(f, s, holders),
           NEW a \in Assets, NEW h \in holders, NEW x \in Nat, NEW y, y = s[a] - f[a][h] + x
    PROVE  /\ TokenSound([f EXCEPT ![a][h] = x], [s EXCEPT ![a] = y], holders)
           /\ y \in Nat
  <1> DEFINE g == [f EXCEPT ![a][h] = x]
             t == [s EXCEPT ![a] = y]
  <1>1. /\ f \in [Assets -> [holders -> Nat]] /\ s \in [Assets -> Nat]
        /\ \A b \in Assets : s[b] = SumFunctionOnSet(f[b], holders)
    BY DEF TokenSound
  <1>2. /\ f[a] \in [holders -> Nat] /\ f[a] \in [holders -> Int]
        /\ f[a][h] \in Nat /\ s[a] \in Nat
    BY <1>1
  <1>3. f[a][h] <= s[a]
    BY <1>1, <1>2, SumOfNats
  <1>4. y \in Nat
    BY <1>2, <1>3
  <1>5. g \in [Assets -> [holders -> Nat]] /\ t \in [Assets -> Nat]
    BY <1>1, <1>4
  <1>6. ASSUME NEW b \in Assets PROVE t[b] = SumFunctionOnSet(g[b], holders)
    <2>1. CASE b = a
      <3>1. g[a] = [f[a] EXCEPT ![h] = x] /\ t[a] = y
        BY <1>1
      <3>2. /\ g[a] \in [holders -> Int] /\ g[a][h] = x
            /\ \A k \in holders \ {h} : f[a][k] = g[a][k]
        BY <1>2, <3>1
      <3> HIDE DEF g, t
      <3>3. SumFunctionOnSet(g[a], holders) = SumFunctionOnSet(f[a], holders) - f[a][h] + x
        BY <1>2, <3>2, SumUpdate
      <3> QED BY <1>1, <2>1, <3>1, <3>3
    <2>2. CASE b # a
      <3>1. g[b] = f[b] /\ t[b] = s[b]
        BY <1>1, <2>2
      <3> QED BY <1>1, <3>1
    <2> QED BY <2>1, <2>2
  <1> QED BY <1>4, <1>5, <1>6 DEF TokenSound

(* A balance of a token is a natural that its total covers. *)
LEMMA BalanceFacts ==
    ASSUME NEW holders, NEW f, NEW s, TokenSound(f, s, holders), IsFiniteSet(holders),
           NEW a \in Assets, NEW h \in holders
    PROVE  f[a][h] \in Nat /\ s[a] \in Nat /\ f[a][h] <= s[a]
  <1>1. /\ f[a] \in [holders -> Nat] /\ s[a] \in Nat
        /\ s[a] = SumFunctionOnSet(f[a], holders)
    BY DEF TokenSound
  <1> QED BY <1>1, SumOfNats

LEMMA HoldersFinite == IsFiniteSet(Holders) /\ IsFiniteSet(Users) /\ IsFiniteSet(Assets)
                       /\ Users \subseteq Holders /\ Treasury \in Holders
  <1>1. IsFiniteSet(Users) /\ IsFiniteSet(Assets)
    BY LendConstants
  <1>2. IsFiniteSet({Treasury})
    BY FS_Singleton
  <1>3. IsFiniteSet(Users \cup {Treasury})
    BY <1>1, <1>2, FS_Union
  <1> QED BY <1>1, <1>3 DEF Holders

(* The indexes a mint or a burn divides by. *)
LEMMA UpdatedIndexes ==
    ASSUME LendInv, NEW a \in Assets
    PROVE  /\ Updated(a).liquidityIndex \in Nat /\ Updated(a).liquidityIndex >= RAY
           /\ Updated(a).borrowIndex \in Nat /\ Updated(a).borrowIndex >= RAY
           /\ Updated(a).accruedToTreasury \in Nat
  <1>1. /\ Updated(a) \in ReserveData
        /\ Updated(a).liquidityIndex >= RAY /\ Updated(a).borrowIndex >= RAY
    BY UpdatedSound DEF ReserveSound
  <1> QED BY <1>1, FieldTypes

LEMMA MintGSound ==
    ASSUME LendInv, NEW h \in Holders, NEW a \in Assets, NEW amount \in Nat, MintG(h, a, amount)
    PROVE  /\ TokenSound(gToken', gSupply', Holders)
           /\ \A b \in Assets, k \in Holders : gToken[b][k] <= gToken'[b][k]
  <1> DEFINE x == ScaledDown(amount, Updated(a).liquidityIndex)
  <1>1. x \in Nat
    <2> DEFINE i == Updated(a).liquidityIndex
    <2>1. i \in Nat /\ i >= RAY
      BY UpdatedIndexes
    <2> HIDE DEF i
    <2>2. ScaledDown(amount, i) \in Nat
      BY <2>1, ScaledNat
    <2> QED BY <2>2 DEF i
  <1>2. /\ gToken' = [gToken EXCEPT ![a][h] = gToken[a][h] + x]
        /\ gSupply' = [gSupply EXCEPT ![a] = gSupply[a] + x]
    BY DEF MintG
  <1> HIDE DEF x
  <1>3. TokenSound(gToken, gSupply, Holders) /\ gToken \in [Assets -> [Holders -> Nat]]
    BY DEF LendInv, TokenSound
  <1>4. gToken[a][h] \in Nat /\ gSupply[a] \in Nat
    BY <1>3, BalanceFacts, HoldersFinite
  <1>5. /\ gToken[a][h] + x \in Nat
        /\ gSupply[a] + x = gSupply[a] - gToken[a][h] + (gToken[a][h] + x)
    BY <1>1, <1>4
  <1>6. TokenSound(gToken', gSupply', Holders)
    BY <1>2, <1>3, <1>5, BalanceMoves, HoldersFinite
  <1>7. \A b \in Assets, k \in Holders : gToken[b][k] <= gToken'[b][k]
    BY <1>1, <1>2, <1>3
  <1> QED BY <1>6, <1>7

LEMMA BurnGSound ==
    ASSUME LendInv, NEW u \in Users, NEW a \in Assets, NEW amount \in Nat, BurnG(u, a, amount)
    PROVE  /\ TokenSound(gToken', gSupply', Holders)
           /\ \A b \in Assets, k \in Holders : k # u => gToken'[b][k] = gToken[b][k]
  <1> DEFINE x == ScaledUp(amount, Updated(a).liquidityIndex)
  <1>1. x \in Nat
    <2> DEFINE i == Updated(a).liquidityIndex
    <2>1. i \in Nat /\ i >= RAY
      BY UpdatedIndexes
    <2> HIDE DEF i
    <2>2. ScaledUp(amount, i) \in Nat
      BY <2>1, ScaledNat
    <2> QED BY <2>2 DEF i
  <1>2. /\ gToken' = [gToken EXCEPT ![a][u] = gToken[a][u] - x]
        /\ gSupply' = [gSupply EXCEPT ![a] = gSupply[a] - x]
        /\ gToken[a][u] >= x
    BY DEF BurnG
  <1> HIDE DEF x
  <1>3. TokenSound(gToken, gSupply, Holders) /\ gToken \in [Assets -> [Holders -> Nat]]
    BY DEF LendInv, TokenSound
  <1>4. gToken[a][u] \in Nat /\ gSupply[a] \in Nat /\ u \in Holders
    BY <1>3, BalanceFacts, HoldersFinite
  <1>5. /\ gToken[a][u] - x \in Nat
        /\ gSupply[a] - x = gSupply[a] - gToken[a][u] + (gToken[a][u] - x)
    BY <1>1, <1>2, <1>4
  <1>6. TokenSound(gToken', gSupply', Holders)
    BY <1>2, <1>3, <1>4, <1>5, BalanceMoves, HoldersFinite
  <1>7. \A b \in Assets, k \in Holders : k # u => gToken'[b][k] = gToken[b][k]
    BY <1>2, <1>3
  <1> QED BY <1>6, <1>7

LEMMA MintDebtSound ==
    ASSUME LendInv, NEW u \in Users, NEW a \in Assets, NEW amount \in Nat, MintDebt(u, a, amount)
    PROVE  /\ TokenSound(debtToken', debtSupply', Users)
           /\ \A b \in Assets, k \in Users : k # u => debtToken'[b][k] = debtToken[b][k]
           /\ \A b \in Assets \ {a} : debtSupply'[b] = debtSupply[b]
  <1> DEFINE x == ScaledDown(amount, Updated(a).borrowIndex)
  <1>1. x \in Nat
    <2> DEFINE i == Updated(a).borrowIndex
    <2>1. i \in Nat /\ i >= RAY
      BY UpdatedIndexes
    <2> HIDE DEF i
    <2>2. ScaledDown(amount, i) \in Nat
      BY <2>1, ScaledNat
    <2> QED BY <2>2 DEF i
  <1>2. /\ debtToken' = [debtToken EXCEPT ![a][u] = debtToken[a][u] + x]
        /\ debtSupply' = [debtSupply EXCEPT ![a] = debtSupply[a] + x]
    BY DEF MintDebt
  <1> HIDE DEF x
  <1>3. /\ TokenSound(debtToken, debtSupply, Users)
        /\ debtToken \in [Assets -> [Users -> Nat]] /\ debtSupply \in [Assets -> Nat]
    BY DEF LendInv, TokenSound
  <1>4. debtToken[a][u] \in Nat /\ debtSupply[a] \in Nat
    BY <1>3, BalanceFacts, HoldersFinite
  <1>5. /\ debtToken[a][u] + x \in Nat
        /\ debtSupply[a] + x = debtSupply[a] - debtToken[a][u] + (debtToken[a][u] + x)
    BY <1>1, <1>4
  <1>6. TokenSound(debtToken', debtSupply', Users)
    BY <1>2, <1>3, <1>5, BalanceMoves, HoldersFinite
  <1>7. /\ \A b \in Assets, k \in Users : k # u => debtToken'[b][k] = debtToken[b][k]
        /\ \A b \in Assets \ {a} : debtSupply'[b] = debtSupply[b]
    BY <1>2, <1>3
  <1> QED BY <1>6, <1>7

LEMMA BurnDebtSound ==
    ASSUME LendInv, NEW u \in Users, NEW a \in Assets, NEW amount \in Nat, BurnDebt(u, a, amount)
    PROVE  /\ TokenSound(debtToken', debtSupply', Users)
           /\ \A b \in Assets, k \in Users : debtToken'[b][k] <= debtToken[b][k]
           /\ \A b \in Assets \ {a} : debtSupply'[b] = debtSupply[b]
  <1> DEFINE asked == ScaledUp(amount, Updated(a).borrowIndex)
             x == IF asked > debtToken[a][u] THEN debtToken[a][u] ELSE asked
  <1>1. asked \in Nat
    <2> DEFINE i == Updated(a).borrowIndex
    <2>1. i \in Nat /\ i >= RAY
      BY UpdatedIndexes
    <2> HIDE DEF i
    <2>2. ScaledUp(amount, i) \in Nat
      BY <2>1, ScaledNat
    <2> QED BY <2>2 DEF i
  <1>2. /\ debtToken' = [debtToken EXCEPT ![a][u] = debtToken[a][u] - x]
        /\ debtSupply' = [debtSupply EXCEPT ![a] = debtSupply[a] - x]
    BY DEF BurnDebt
  <1> HIDE DEF asked
  <1>3. /\ TokenSound(debtToken, debtSupply, Users)
        /\ debtToken \in [Assets -> [Users -> Nat]] /\ debtSupply \in [Assets -> Nat]
    BY DEF LendInv, TokenSound
  <1>4. debtToken[a][u] \in Nat /\ debtSupply[a] \in Nat
    BY <1>3, BalanceFacts, HoldersFinite
  <1>5. x \in Nat /\ x <= debtToken[a][u]
    BY <1>1, <1>4
  <1> HIDE DEF x
  <1>6. /\ debtToken[a][u] - x \in Nat
        /\ debtSupply[a] - x = debtSupply[a] - debtToken[a][u] + (debtToken[a][u] - x)
    BY <1>4, <1>5
  <1>7. TokenSound(debtToken', debtSupply', Users)
    BY <1>2, <1>3, <1>6, BalanceMoves, HoldersFinite
  <1>8. /\ \A b \in Assets, k \in Users : debtToken'[b][k] <= debtToken[b][k]
        /\ \A b \in Assets \ {a} : debtSupply'[b] = debtSupply[b]
    BY <1>2, <1>3, <1>5
  <1> QED BY <1>7, <1>8

-----------------------------------------------------------------------------
(* Health. *)

(* A larger divisor makes a quotient no larger. *)
LEMMA DivAntitone ==
    ASSUME NEW n \in Nat, NEW c \in Nat \ {0}, NEW d \in Nat \ {0}, c <= d
    PROVE  n \div d <= n \div c
  <1> DEFINE q == n \div d
  <1>1. q \in Nat /\ d * q <= n
    BY QuotientBounds
  <1> HIDE DEF q
  <1>2. c * q \in Nat /\ d * q \in Nat /\ c * q <= d * q
    BY <1>1, TimesMonotone
  <1>3. c * q <= n
    BY <1>1, <1>2
  <1>4. q <= n \div c
    BY <1>1, <1>3, QuotientAtLeast
  <1> QED BY <1>4 DEF q

(* Everything but the clock and the bound on calls. *)
BooksSound ==
    /\ reserve \in [Assets -> ReserveData]
    /\ \A a \in Assets : ReserveSound(reserve[a], debtSupply[a])
    /\ TokenSound(gToken, gSupply, Holders)
    /\ TokenSound(debtToken, debtSupply, Users)
    /\ cash \in [Assets -> Nat]
    /\ price \in [Assets -> Prices]

(* What a scaled debt is worth, and what a scaled deposit secures. *)
Worth(n, i, p) == Unscaled(n, i) * p
Secures(n, i, p) == (Unscaled(n, i) * p * Threshold) \div 10000

LEMMA ValuesNat ==
    ASSUME NEW n \in Nat, NEW i \in Nat, NEW p \in Nat
    PROVE  Worth(n, i, p) \in Nat /\ Secures(n, i, p) \in Nat
  <1>1. Unscaled(n, i) \in Nat /\ Threshold \in Nat
    BY UnscaledNat, ConstantTypes
  <1>2. Unscaled(n, i) * p \in Nat
    BY <1>1, TimesNat
  <1>3. Unscaled(n, i) * p * Threshold \in Nat
    BY <1>1, <1>2, TimesNat
  <1>4. (Unscaled(n, i) * p * Threshold) \div 10000 \in Nat
    BY <1>3, DivNat
  <1> QED BY <1>2, <1>4 DEF Worth, Secures

LEMMA ValuesMonotone ==
    ASSUME NEW m \in Nat, NEW n \in Nat, NEW i \in Nat, NEW j \in Nat, NEW p \in Nat,
           Unscaled(m, i) <= Unscaled(n, j)
    PROVE  Worth(m, i, p) <= Worth(n, j, p) /\ Secures(m, i, p) <= Secures(n, j, p)
  <1> DEFINE x == Unscaled(m, i)
             y == Unscaled(n, j)
  <1>1. x \in Nat /\ y \in Nat /\ x <= y /\ Threshold \in Nat
    BY UnscaledNat, ConstantTypes
  <1> HIDE DEF x, y
  <1>2. x * p \in Nat /\ y * p \in Nat /\ x * p <= y * p
    BY <1>1, TimesMonotone
  <1>3. x * p * Threshold \in Nat /\ y * p * Threshold \in Nat /\ x * p * Threshold <= y * p * Threshold
    BY <1>1, <1>2, TimesMonotone
  <1>4. (x * p * Threshold) \div 10000 <= (y * p * Threshold) \div 10000
    BY <1>3, DivMonotone
  <1> QED BY <1>2, <1>4 DEF x, y, Worth, Secures

LEMMA UnscaledZero ==
    ASSUME NEW i \in Nat
    PROVE  Unscaled(0, i) = 0
  <1>1. 0 * i = 0 /\ 0 \div RAY = 0
    BY RateConstants
  <1> QED BY <1>1 DEF Unscaled

(* A ratio of at least t stays one when the collateral grows and the debt   *)
(* shrinks.                                                                *)
LEMMA RatioMonotone ==
    ASSUME NEW c \in Nat, NEW d \in Nat, NEW e \in Nat, NEW f \in Nat, c <= e, f <= d, NEW t \in Nat,
           d = 0 \/ (c * RAY) \div d >= t
    PROVE  f = 0 \/ (e * RAY) \div f >= t
  <1> SUFFICES ASSUME f # 0 PROVE (e * RAY) \div f >= t
    OBVIOUS
  <1>1. RAY \in Nat /\ d # 0 /\ d \in Nat \ {0} /\ f \in Nat \ {0}
    BY RateConstants
  <1> DEFINE x == c * RAY
             y == e * RAY
  <1>2. x \in Nat /\ y \in Nat /\ x <= y
    BY <1>1, TimesMonotone
  <1>3. x \div d >= t
    BY <1>1
  <1> HIDE DEF x, y
  <1>4. x \div d <= x \div f /\ x \div f <= y \div f
    BY <1>1, <1>2, DivAntitone, DivMonotone
  <1>5. x \div d \in Nat /\ x \div f \in Nat /\ y \div f \in Nat
    BY <1>1, <1>2, DivNat
  <1>6. y \div f >= t
    BY <1>3, <1>4, <1>5
  <1> QED BY <1>6 DEF y

(* The value of what an account has in a reserve does not fall, and that of *)
(* what it owes does not rise.                                             *)
LEMMA ReserveValues ==
    ASSUME LendInv, BooksSound', now' = now, price' = price, NEW u \in Users, NEW a \in Assets,
           IndexKept(a), gToken[a][u] <= gToken'[a][u], debtToken'[a][u] <= debtToken[a][u]
    PROVE  /\ CollateralValue(u, a) \in Nat /\ CollateralValue(u, a)' \in Nat
           /\ CollateralValue(u, a) <= CollateralValue(u, a)'
           /\ DebtValue(u, a) \in Nat /\ DebtValue(u, a)' \in Nat
           /\ DebtValue(u, a)' <= DebtValue(u, a)
  <1>1. /\ gToken[a][u] \in Nat /\ debtToken[a][u] \in Nat
        /\ debtSupply[a] = 0 => debtToken[a][u] = 0
    <2>1. TokenSound(gToken, gSupply, Holders) /\ TokenSound(debtToken, debtSupply, Users)
      BY DEF LendInv
    <2>2. u \in Holders
      BY HoldersFinite
    <2>3. debtToken[a][u] \in Nat /\ debtSupply[a] \in Nat /\ debtToken[a][u] <= debtSupply[a]
      BY <2>1, BalanceFacts, HoldersFinite
    <2> QED BY <2>1, <2>2, <2>3, BalanceFacts, HoldersFinite
  <1>2. gToken'[a][u] \in Nat /\ debtToken'[a][u] \in Nat
    <2>1. TokenSound(gToken', gSupply', Holders) /\ TokenSound(debtToken', debtSupply', Users)
      BY DEF BooksSound, TokenSound
    <2>2. u \in Holders
      BY HoldersFinite
    <2> QED BY <2>1, <2>2 DEF TokenSound
  <1>3. price[a] \in Nat
    BY ConstantTypes DEF LendInv
  <1>4. Counted(a)' <=> Counted(a)
    BY DEF Counted, IndexKept
  <1>5. CASE ~Counted(a)
    BY <1>4, <1>5 DEF CollateralValue, DebtValue
  <1>6. CASE Counted(a)
    <2> DEFINE li == LiquidityIndex(a)
               lj == LiquidityIndex(a)'
               bi == BorrowIndex(a)
               bj == BorrowIndex(a)'
               p == price[a]
               g == gToken[a][u]
               h == gToken'[a][u]
               m == debtToken[a][u]
               n == debtToken'[a][u]
    <2>1. /\ li \in Nat /\ lj \in Nat /\ bi \in Nat /\ bj \in Nat /\ p \in Nat
          /\ li <= lj /\ (debtSupply[a] = 0 \/ bj <= bi)
      BY <1>3, <1>6 DEF Counted, IndexKept
    <2>0. /\ g \in Nat /\ h \in Nat /\ g <= h /\ m \in Nat /\ n \in Nat /\ n <= m
          /\ (debtSupply[a] = 0 => m = 0)
      BY <1>1, <1>2
    <2>2. /\ CollateralValue(u, a) = Secures(g, li, p) /\ CollateralValue(u, a)' = Secures(h, lj, p)
          /\ DebtValue(u, a) = Worth(m, bi, p) /\ DebtValue(u, a)' = Worth(n, bj, p)
      BY <1>4, <1>6 DEF CollateralValue, DebtValue, Secures, Worth
    <2> HIDE DEF li, lj, bi, bj, p, g, h, m, n
    <2>3. Unscaled(g, li) <= Unscaled(h, lj)
      BY <2>0, <2>1, UnscaledMonotone
    <2>4. Unscaled(n, bj) <= Unscaled(m, bi)
      <3>1. CASE debtSupply[a] = 0
        <4>1. m = 0 /\ n = 0
          BY <2>0, <3>1
        <4> QED BY <2>1, <4>1, UnscaledZero
      <3>2. CASE debtSupply[a] # 0
        BY <2>0, <2>1, <3>2, UnscaledMonotone
      <3> QED BY <3>1, <3>2
    <2>5. /\ Secures(g, li, p) \in Nat /\ Secures(h, lj, p) \in Nat
          /\ Worth(m, bi, p) \in Nat /\ Worth(n, bj, p) \in Nat
      BY <2>0, <2>1, ValuesNat
    <2>6. Secures(g, li, p) <= Secures(h, lj, p) /\ Worth(n, bj, p) <= Worth(m, bi, p)
      BY <2>0, <2>1, <2>3, <2>4, ValuesMonotone
    <2> QED BY <2>2, <2>5, <2>6
  <1> QED BY <1>5, <1>6

(* An account whose balances do not fall and whose debts do not rise stays  *)
(* healthy.                                                                *)
LEMMA HealthMonotone ==
    ASSUME LendInv, BooksSound', now' = now, price' = price, NEW u \in Users,
           \A a \in Assets : IndexKept(a),
           \A a \in Assets : gToken[a][u] <= gToken'[a][u] /\ debtToken'[a][u] <= debtToken[a][u],
           Healthy(u)
    PROVE  Healthy(u)'
  <1> DEFINE cv == [a \in Assets |-> CollateralValue(u, a)]
             cw == [a \in Assets |-> CollateralValue(u, a)']
             dv == [a \in Assets |-> DebtValue(u, a)]
             dw == [a \in Assets |-> DebtValue(u, a)']
  <1>1. \A a \in Assets :
           /\ CollateralValue(u, a) \in Nat /\ CollateralValue(u, a)' \in Nat
           /\ CollateralValue(u, a) <= CollateralValue(u, a)'
           /\ DebtValue(u, a) \in Nat /\ DebtValue(u, a)' \in Nat
           /\ DebtValue(u, a)' <= DebtValue(u, a)
    BY ReserveValues
  <1>2. /\ Collateral(u) = SumFunctionOnSet(cv, Assets)
        /\ Collateral(u)' = SumFunctionOnSet(cw, Assets)
        /\ Debt(u) = SumFunctionOnSet(dv, Assets)
        /\ Debt(u)' = SumFunctionOnSet(dw, Assets)
    BY DEF Collateral, Debt
  <1>3. /\ cv \in [Assets -> Nat] /\ cw \in [Assets -> Nat]
        /\ dv \in [Assets -> Nat] /\ dw \in [Assets -> Nat]
        /\ \A a \in Assets : cv[a] <= cw[a] /\ dw[a] <= dv[a]
    BY <1>1
  <1> HIDE DEF cv, cw, dv, dw
  <1>4. /\ cv \in [Assets -> Int] /\ cw \in [Assets -> Int]
        /\ dv \in [Assets -> Int] /\ dw \in [Assets -> Int]
    BY <1>3
  <1>5. /\ SumFunctionOnSet(cv, Assets) <= SumFunctionOnSet(cw, Assets)
        /\ SumFunctionOnSet(dw, Assets) <= SumFunctionOnSet(dv, Assets)
    BY <1>3, <1>4, SumMonotone, HoldersFinite
  <1>6. /\ SumFunctionOnSet(cv, Assets) \in Nat /\ SumFunctionOnSet(cw, Assets) \in Nat
        /\ SumFunctionOnSet(dv, Assets) \in Nat /\ SumFunctionOnSet(dw, Assets) \in Nat
    BY <1>3, SumOfNats, HoldersFinite
  <1> DEFINE t == (RAY * 100) \div 100
  <1>7. t \in Nat
    <2>1. RAY * 100 \in Nat
      BY RateConstants
    <2> QED BY <2>1, DivNat
  <1> HIDE DEF t
  <1>8. Debt(u) = 0 \/ (Collateral(u) * RAY) \div Debt(u) >= t
    BY DEF Healthy, HealthAtLeast, t
  <1>9. Debt(u)' = 0 \/ (Collateral(u)' * RAY) \div Debt(u)' >= t
    BY <1>2, <1>5, <1>6, <1>7, <1>8, RatioMonotone
  <1> QED BY <1>9 DEF Healthy, HealthAtLeast, t

-----------------------------------------------------------------------------
(* Steps. *)

GaveAway(u) == gSupply' = gSupply /\ \E b \in Assets : gToken'[b][u] < gToken[b][u]

(* HealthLostOnlyToMarket, of a step that leaves the clock alone. *)
HealthKept ==
    \/ price' # price
    \/ \E a \in Assets : reserve'[a].isActive # reserve[a].isActive
    \/ \A u \in Users : Healthy(u) => Healthy(u)' \/ GaveAway(u)

(* A step that moves reserves and tokens soundly keeps the health of those  *)
(* whose balances do not fall and whose debts do not rise.                 *)
LEMMA StepConcludes ==
    ASSUME LendInv, now' = now, ReservesMove, price' = price,
           TokenSound(gToken', gSupply', Holders), TokenSound(debtToken', debtSupply', Users),
           cash' \in [Assets -> Nat],
           \A u \in Users : Healthy(u) =>
              \/ Healthy(u)'
              \/ GaveAway(u)
              \/ \A a \in Assets : /\ gToken[a][u] <= gToken'[a][u]
                                   /\ debtToken'[a][u] <= debtToken[a][u]
    PROVE  BooksSound' /\ HealthKept
  <1>1. price' \in [Assets -> Prices]
    BY DEF LendInv
  <1>2. reserve' \in [Assets -> ReserveData] /\ \A a \in Assets : IndexKept(a)
    BY DEF ReservesMove
  <1>3. \A a \in Assets : ReserveSound(reserve[a], debtSupply[a])'
    BY DEF ReservesMove
  <1>4. BooksSound'
    BY <1>1, <1>2, <1>3 DEF BooksSound, TokenSound
  <1>5. ASSUME NEW u \in Users, Healthy(u) PROVE Healthy(u)' \/ GaveAway(u)
    BY <1>2, <1>4, <1>5, HealthMonotone
  <1> QED BY <1>4, <1>5 DEF HealthKept

(* Balances that do not move. *)
LEMMA Unmoved ==
    ASSUME LendInv
    PROVE  /\ TokenSound(gToken, gSupply, Holders) /\ TokenSound(debtToken, debtSupply, Users)
           /\ \A b \in Assets, k \in Holders : gToken[b][k] \in Nat /\ gToken[b][k] <= gToken[b][k]
           /\ \A b \in Assets, k \in Users : debtToken[b][k] \in Nat /\ debtToken[b][k] <= debtToken[b][k]
           /\ gSupply \in [Assets -> Nat] /\ debtSupply \in [Assets -> Nat]
           /\ cash \in [Assets -> Nat]
  <1>1. TokenSound(gToken, gSupply, Holders) /\ TokenSound(debtToken, debtSupply, Users)
    BY DEF LendInv
  <1>2. /\ \A b \in Assets, k \in Holders : gToken[b][k] \in Nat
        /\ \A b \in Assets, k \in Users : debtToken[b][k] \in Nat
    BY <1>1 DEF TokenSound
  <1> QED BY <1>1, <1>2 DEF TokenSound, LendInv

LEMMA SupplySafe ==
    ASSUME LendInv, now' = now, NEW u \in Users, NEW a \in Assets, NEW amount \in Amounts,
           Supply(u, a, amount)
    PROVE  BooksSound' /\ HealthKept
  <1>1. /\ MintG(u, a, amount) /\ Refresh({a}) /\ price' = price
        /\ debtToken' = debtToken /\ debtSupply' = debtSupply
        /\ cash' = [cash EXCEPT ![a] = cash[a] + amount]
    BY DEF Supply, PayIn
  <1>2. amount \in Nat /\ u \in Holders /\ Users \subseteq Holders
    BY ConstantTypes, HoldersFinite
  <1>3. /\ TokenSound(gToken', gSupply', Holders)
        /\ \A b \in Assets, k \in Holders : gToken[b][k] <= gToken'[b][k]
    BY <1>1, <1>2, MintGSound
  <1>4. gSupply' \in [Assets -> Nat] /\ debtSupply' \in [Assets -> Nat]
    BY <1>1, <1>3, Unmoved DEF TokenSound
  <1>5. ReservesMove
    BY <1>1, <1>4, Refreshed
  <1>6. cash' \in [Assets -> Nat]
    BY <1>1, <1>2, Unmoved DEF Refresh
  <1>7. \A v \in Users, b \in Assets : /\ gToken[b][v] <= gToken'[b][v]
                                       /\ debtToken'[b][v] <= debtToken[b][v]
    BY <1>1, <1>2, <1>3, Unmoved
  <1> QED BY <1>1, <1>3, <1>5, <1>6, <1>7, Unmoved, StepConcludes

LEMMA WithdrawSafe ==
    ASSUME LendInv, now' = now, NEW u \in Users, NEW a \in Assets, NEW amount \in Nat,
           WithdrawSupply(u, a, amount)
    PROVE  BooksSound' /\ HealthKept
  <1>1. /\ BurnG(u, a, amount) /\ Refresh({a}) /\ price' = price
        /\ debtToken' = debtToken /\ debtSupply' = debtSupply /\ Healthy(u)'
        /\ cash' = [cash EXCEPT ![a] = cash[a] - amount] /\ cash[a] >= amount
    BY DEF WithdrawSupply, PayOut, CheckedAfter
  <1>2. Users \subseteq Holders
    BY HoldersFinite
  <1>3. /\ TokenSound(gToken', gSupply', Holders)
        /\ \A b \in Assets, k \in Holders : k # u => gToken'[b][k] = gToken[b][k]
    BY <1>1, BurnGSound
  <1>4. gSupply' \in [Assets -> Nat] /\ debtSupply' \in [Assets -> Nat]
    BY <1>1, <1>3, Unmoved DEF TokenSound
  <1>5. ReservesMove
    BY <1>1, <1>4, Refreshed
  <1>6. cash' \in [Assets -> Nat]
    BY <1>1, Unmoved DEF Refresh
  <1>7. ASSUME NEW v \in Users, v # u, NEW b \in Assets
        PROVE  gToken[b][v] <= gToken'[b][v] /\ debtToken'[b][v] <= debtToken[b][v]
    <2>1. v \in Holders /\ gToken'[b][v] = gToken[b][v] /\ debtToken' = debtToken
      BY <1>1, <1>2, <1>3, <1>7
    <2> QED BY <2>1, Unmoved
  <1> QED BY <1>1, <1>3, <1>5, <1>6, <1>7, Unmoved, StepConcludes

LEMMA BorrowSafe ==
    ASSUME LendInv, now' = now, NEW u \in Users, NEW a \in Assets, NEW amount \in Amounts,
           Borrow(u, a, amount)
    PROVE  BooksSound' /\ HealthKept
  <1>1. /\ MintDebt(u, a, amount) /\ Refresh({a}) /\ price' = price
        /\ gToken' = gToken /\ gSupply' = gSupply /\ Healthy(u)'
        /\ cash' = [cash EXCEPT ![a] = cash[a] - amount] /\ cash[a] >= amount
    BY DEF Borrow, PayOut, CheckedAfter
  <1>2. amount \in Nat /\ Users \subseteq Holders
    BY ConstantTypes, HoldersFinite
  <1>3. /\ TokenSound(debtToken', debtSupply', Users)
        /\ \A b \in Assets, k \in Users : k # u => debtToken'[b][k] = debtToken[b][k]
        /\ \A b \in Assets \ {a} : debtSupply'[b] = debtSupply[b]
    BY <1>1, <1>2, MintDebtSound
  <1>4. gSupply' \in [Assets -> Nat] /\ debtSupply' \in [Assets -> Nat]
    BY <1>1, <1>3, Unmoved DEF TokenSound
  <1>5. ReservesMove
    BY <1>1, <1>3, <1>4, Refreshed
  <1>6. cash' \in [Assets -> Nat]
    BY <1>1, <1>2, Unmoved DEF Refresh
  <1>7. ASSUME NEW v \in Users, v # u, NEW b \in Assets
        PROVE  gToken[b][v] <= gToken'[b][v] /\ debtToken'[b][v] <= debtToken[b][v]
    <2>1. v \in Holders /\ debtToken'[b][v] = debtToken[b][v] /\ gToken' = gToken
      BY <1>1, <1>2, <1>3, <1>7
    <2> QED BY <2>1, Unmoved
  <1> QED BY <1>1, <1>3, <1>5, <1>6, <1>7, Unmoved, StepConcludes

LEMMA RepaySafe ==
    ASSUME LendInv, now' = now, NEW u \in Users, NEW a \in Assets, NEW amount \in Amounts,
           Repay(u, a, amount)
    PROVE  BooksSound' /\ HealthKept
  <1> DEFINE debt == Unscaled(debtToken[a][u], Updated(a).borrowIndex)
             paid == IF amount > debt THEN debt ELSE amount
  <1>1. /\ BurnDebt(u, a, paid) /\ Refresh({a}) /\ price' = price
        /\ gToken' = gToken /\ gSupply' = gSupply
        /\ cash' = [cash EXCEPT ![a] = cash[a] + paid]
    BY DEF Repay, PayIn
  <1>2. paid \in Nat /\ Users \subseteq Holders
    <2>1. amount \in Nat /\ debtToken[a][u] \in Nat
      BY ConstantTypes, Unmoved
    <2> DEFINE i == Updated(a).borrowIndex
    <2>2. i \in Nat
      BY UpdatedIndexes
    <2> HIDE DEF i
    <2>3. Unscaled(debtToken[a][u], i) \in Nat
      BY <2>1, <2>2, UnscaledNat
    <2>4. debt \in Nat
      BY <2>3 DEF i
    <2> QED BY <2>1, <2>4, HoldersFinite
  <1> HIDE DEF paid
  <1>3. /\ TokenSound(debtToken', debtSupply', Users)
        /\ \A b \in Assets, k \in Users : debtToken'[b][k] <= debtToken[b][k]
        /\ \A b \in Assets \ {a} : debtSupply'[b] = debtSupply[b]
    BY <1>1, <1>2, BurnDebtSound
  <1>4. gSupply' \in [Assets -> Nat] /\ debtSupply' \in [Assets -> Nat]
    BY <1>1, <1>3, Unmoved DEF TokenSound
  <1>5. ReservesMove
    BY <1>1, <1>3, <1>4, Refreshed
  <1>6. cash' \in [Assets -> Nat]
    BY <1>1, <1>2, Unmoved DEF Refresh
  <1>7. \A v \in Users, b \in Assets : /\ gToken[b][v] <= gToken'[b][v]
                                       /\ debtToken'[b][v] <= debtToken[b][v]
    BY <1>1, <1>2, <1>3, Unmoved
  <1> QED BY <1>1, <1>3, <1>5, <1>6, <1>7, Unmoved, StepConcludes

(* What a liquidation repays and seizes are natural amounts. *)
LEMMA LiquidateAmounts ==
    ASSUME LendInv, NEW u \in Users, NEW c \in Assets, NEW d \in Assets,
           NEW amount \in Amounts, Liquidate(u, c, d, amount)
    PROVE  \E covered \in Nat, taking \in Nat :
              /\ ~Healthy(u) /\ price' = price
              /\ cash[c] + (IF c = d THEN covered ELSE 0) >= taking
              /\ cash' = [a \in Assets |-> cash[a] + (IF a = d THEN covered ELSE 0)
                                                  - (IF a = c THEN taking ELSE 0)]
              /\ BurnDebt(u, d, covered) /\ BurnG(u, c, taking) /\ Refresh({c, d})
  <1> DEFINE debt == Unscaled(debtToken[d][u], Updated(d).borrowIndex)
             covered == LesserOf(amount, IF HealthAtLeast(u, 95) THEN debt \div 2 ELSE debt)
             held == Unscaled(gToken[c][u], Updated(c).liquidityIndex)
             taking == LesserOf(ToSeize(covered, d, c), held)
  <1>1. /\ ~Healthy(u) /\ covered > 0 /\ price[c] > 0 /\ price' = price
        /\ cash[c] + (IF c = d THEN covered ELSE 0) >= taking
        /\ cash' = [a \in Assets |-> cash[a] + (IF a = d THEN covered ELSE 0)
                                            - (IF a = c THEN taking ELSE 0)]
        /\ BurnDebt(u, d, covered) /\ BurnG(u, c, taking) /\ Refresh({c, d})
    BY DEF Liquidate
  <1>2. debt \in Nat /\ held \in Nat
    <2> DEFINE i == Updated(c).liquidityIndex
               j == Updated(d).borrowIndex
    <2>1. i \in Nat /\ j \in Nat
      BY UpdatedIndexes
    <2>2. gToken[c][u] \in Nat /\ debtToken[d][u] \in Nat
      BY Unmoved, HoldersFinite
    <2> HIDE DEF i, j
    <2>3. Unscaled(gToken[c][u], i) \in Nat /\ Unscaled(debtToken[d][u], j) \in Nat
      BY <2>1, <2>2, UnscaledNat
    <2> QED BY <2>3 DEF i, j
  <1> HIDE DEF debt, held
  <1>3. covered \in Nat
    <2>1. debt \div 2 \in Nat /\ amount \in Nat
      BY <1>2, DivNat, ConstantTypes
    <2> QED BY <1>2, <2>1 DEF LesserOf
  <1> HIDE DEF covered
  <1>4. taking \in Nat
    <2>1. price[c] \in Nat \ {0} /\ price[d] \in Nat /\ Bonus \in Nat
      <3>1. price[c] \in Nat /\ price[d] \in Nat
        BY ConstantTypes DEF LendInv
      <3> QED BY <1>1, <3>1, ConstantTypes
    <2>2. covered * price[d] \in Nat
      BY <1>3, <2>1, TimesNat
    <2>3. (covered * price[d]) * Bonus \in Nat
      BY <2>1, <2>2, TimesNat
    <2>4. ((covered * price[d]) * Bonus) \div 10000 \in Nat
      BY <2>3, DivNat
    <2>5. (((covered * price[d]) * Bonus) \div 10000) \div price[c] \in Nat
      BY <2>1, <2>4, DivNat
    <2>6. ToSeize(covered, d, c) \in Nat
      BY <2>5 DEF ToSeize
    <2> QED BY <1>2, <2>6 DEF LesserOf
  <1> HIDE DEF taking
  <1> QED BY <1>1, <1>3, <1>4

LEMMA LiquidateSafe ==
    ASSUME LendInv, now' = now, NEW u \in Users, NEW c \in Assets, NEW d \in Assets,
           NEW amount \in Amounts, Liquidate(u, c, d, amount)
    PROVE  BooksSound' /\ HealthKept
  <1>1. PICK covered \in Nat, taking \in Nat :
              /\ ~Healthy(u) /\ price' = price
              /\ cash[c] + (IF c = d THEN covered ELSE 0) >= taking
              /\ cash' = [a \in Assets |-> cash[a] + (IF a = d THEN covered ELSE 0)
                                                  - (IF a = c THEN taking ELSE 0)]
              /\ BurnDebt(u, d, covered) /\ BurnG(u, c, taking) /\ Refresh({c, d})
    BY LiquidateAmounts
  <1>2. /\ TokenSound(gToken', gSupply', Holders)
        /\ \A b \in Assets, k \in Holders : k # u => gToken'[b][k] = gToken[b][k]
    BY <1>1, BurnGSound
  <1>3. /\ TokenSound(debtToken', debtSupply', Users)
        /\ \A b \in Assets, k \in Users : debtToken'[b][k] <= debtToken[b][k]
        /\ \A b \in Assets \ {d} : debtSupply'[b] = debtSupply[b]
    BY <1>1, BurnDebtSound
  <1>4. gSupply' \in [Assets -> Nat] /\ debtSupply' \in [Assets -> Nat]
    BY <1>2, <1>3 DEF TokenSound
  <1>5. ReservesMove
    BY <1>1, <1>3, <1>4, Refreshed
  <1>6. cash' \in [Assets -> Nat]
    <2>1. cash \in [Assets -> Nat] /\ cash[c] \in Nat /\ cash[d] \in Nat
      BY Unmoved
    <2>2. ASSUME NEW a \in Assets
          PROVE  cash[a] + (IF a = d THEN covered ELSE 0) - (IF a = c THEN taking ELSE 0) \in Nat
      BY <1>1, <2>1
    <2> QED BY <1>1, <2>2
  <1>7. ASSUME NEW v \in Users, Healthy(v), NEW b \in Assets
         PROVE  gToken[b][v] <= gToken'[b][v] /\ debtToken'[b][v] <= debtToken[b][v]
    <2>1. v # u /\ v \in Holders /\ gToken'[b][v] = gToken[b][v]
      BY <1>1, <1>2, <1>7, HoldersFinite
    <2> QED BY <1>3, <2>1, Unmoved
  <1> QED BY <1>1, <1>2, <1>3, <1>5, <1>6, <1>7, StepConcludes

(* A flash loan's premium only adds to the index of the suppliers. *)
LEMMA FlashLoanSafe ==
    ASSUME LendInv, now' = now, NEW a \in Assets, NEW amount \in Amounts, FlashLoan(a, amount)
    PROVE  BooksSound' /\ HealthKept
  <1> DEFINE r == reserve[a]
             premium == (amount * PREMIUM_BPS) \div 10000
             lent == Unscaled(gSupply[a], r.liquidityIndex)
             share == premium - premium \div 3
             gain == IF lent > 0 THEN (share * RAY) \div lent ELSE 0
             acc == r.accruedToTreasury + premium \div 3
             li == r.liquidityIndex + gain
  <1>1. /\ reserve' = [reserve EXCEPT ![a].accruedToTreasury = acc, ![a].liquidityIndex = li]
        /\ cash' = [cash EXCEPT ![a] = cash[a] + premium]
        /\ gToken' = gToken /\ gSupply' = gSupply /\ debtToken' = debtToken
        /\ debtSupply' = debtSupply /\ price' = price
    BY DEF FlashLoan, PayIn
  <1>2. premium \in Nat
    <2>1. amount \in Nat /\ PREMIUM_BPS \in Nat
      BY ConstantTypes
    <2>2. amount * PREMIUM_BPS \in Nat
      BY <2>1, TimesNat
    <2> QED BY <2>2, DivNat
  <1> HIDE DEF premium
  <1>3. premium \div 3 \in Nat /\ share \in Nat
    <2>1. premium \div 3 \in Nat /\ premium \div 3 <= premium
      BY <1>2
    <2> QED BY <1>2, <2>1
  <1>4. /\ r \in ReserveData /\ ReserveSound(r, debtSupply[a]) /\ gSupply[a] \in Nat
        /\ r.liquidityIndex >= RAY /\ r.borrowIndex >= RAY /\ r.lastUpdate <= now
        /\ (debtSupply[a] = 0 => r.supplyRate = 0) /\ now - r.lastUpdate \in Nat
    BY ReserveFacts DEF ReserveSound
  <1>5. /\ r.liquidityIndex \in Nat /\ r.accruedToTreasury \in Nat
        /\ r.borrowIndex \in Nat /\ r.supplyRate \in Nat /\ RAY \in Nat
    BY <1>4, FieldTypes, RateConstants
  <1>6. lent \in Nat
    <2> DEFINE i == r.liquidityIndex
    <2>1. i \in Nat
      BY <1>5
    <2> HIDE DEF i
    <2>2. Unscaled(gSupply[a], i) \in Nat
      BY <1>4, <2>1, UnscaledNat
    <2> QED BY <2>2 DEF i
  <1> HIDE DEF lent, share
  <1>7. gain \in Nat
    <2>1. share * RAY \in Nat
      BY <1>3, <1>5, TimesNat
    <2> QED BY <1>6, <2>1, DivNat
  <1> HIDE DEF gain
  <1>8. acc \in Nat /\ li \in Nat /\ li >= r.liquidityIndex /\ li >= RAY
    BY <1>3, <1>4, <1>5, <1>7
  <1> HIDE DEF acc, li
  <1>9. reserve \in [Assets -> ReserveData]
    BY DEF LendInv
  <1>10. /\ reserve'[a] = [r EXCEPT !.accruedToTreasury = acc, !.liquidityIndex = li]
         /\ reserve' \in [Assets -> ReserveData]
         /\ \A b \in Assets \ {a} : reserve'[b] = reserve[b]
    <2>1. [r EXCEPT !.accruedToTreasury = acc, !.liquidityIndex = li] \in ReserveData
      BY <1>4, <1>8 DEF ReserveData
    <2>2. reserve' = [reserve EXCEPT ![a] = [r EXCEPT !.accruedToTreasury = acc, !.liquidityIndex = li]]
      BY <1>1, <1>9
    <2> QED BY <1>9, <2>1, <2>2
  <1>11. /\ reserve'[a].liquidityIndex = li /\ reserve'[a].borrowIndex = r.borrowIndex
         /\ reserve'[a].isActive = r.isActive /\ reserve'[a].lastUpdate = r.lastUpdate
         /\ reserve'[a].supplyRate = r.supplyRate /\ reserve'[a].borrowRate = r.borrowRate
    BY <1>4, <1>10 DEF ReserveData
  <1>12. ReserveSound(reserve[a], debtSupply[a])'
    BY <1>1, <1>4, <1>8, <1>10, <1>11 DEF ReserveSound
  <1>13. IndexKept(a)
    <2>1. CASE ~r.isActive
      BY <1>11, <2>1 DEF IndexKept
    <2>2. CASE r.isActive
      <3> DEFINE i == r.liquidityIndex
                 time == now - r.lastUpdate
      <3>1. /\ LiquidityIndex(a) = Grown(i, r.supplyRate, time)
            /\ LiquidityIndex(a)' = Grown(li, r.supplyRate, time)
            /\ BorrowIndex(a)' = BorrowIndex(a)
        BY <1>11, <2>2 DEF LiquidityIndex, BorrowIndex
      <3>2. i \in Nat /\ i <= li /\ time \in Nat
        BY <1>4, <1>5, <1>8
      <3> HIDE DEF i, time, r
      <3>3. Grown(i, r.supplyRate, time) <= Grown(li, r.supplyRate, time)
        BY <1>5, <1>8, <3>2, GrownMonotone
      <3>4. Grown(li, r.supplyRate, time) \in Nat
        BY <1>5, <1>8, <3>2, GrownSound
      <3>5. LiquidityIndex(a) \in Nat /\ BorrowIndex(a) \in Nat
        BY IndexNat
      <3> QED BY <1>11, <3>1, <3>3, <3>4, <3>5 DEF IndexKept, r
    <2> QED BY <2>1, <2>2
  <1>14. \A b \in Assets \ {a} : ReserveSound(reserve[b], debtSupply[b])' /\ IndexKept(b)
    BY <1>1, <1>10, OneUntouched
  <1>15. ReservesMove
    BY <1>10, <1>12, <1>13, <1>14 DEF ReservesMove
  <1>16. cash' \in [Assets -> Nat]
    BY <1>1, <1>2, Unmoved
  <1>17. \A v \in Users, b \in Assets : /\ gToken[b][v] <= gToken'[b][v]
                                        /\ debtToken'[b][v] <= debtToken[b][v]
    BY <1>1, Unmoved, HoldersFinite
  <1>18. TokenSound(gToken', gSupply', Holders) /\ TokenSound(debtToken', debtSupply', Users)
    BY <1>1, Unmoved
  <1> QED BY <1>1, <1>15, <1>16, <1>17, <1>18, StepConcludes

LEMMA MintToTreasurySafe ==
    ASSUME LendInv, now' = now, NEW a \in Assets, MintToTreasury(a)
    PROVE  BooksSound' /\ HealthKept
  <1> DEFINE r == Updated(a)
             x == ScaledDown(r.accruedToTreasury, r.liquidityIndex)
  <1>1. /\ reserve' = [reserve EXCEPT ![a] = [r EXCEPT !.accruedToTreasury = 0]]
        /\ gToken' = [gToken EXCEPT ![a][Treasury] = gToken[a][Treasury] + x]
        /\ gSupply' = [gSupply EXCEPT ![a] = gSupply[a] + x]
        /\ debtToken' = debtToken /\ debtSupply' = debtSupply
        /\ cash' = cash /\ price' = price
    BY DEF MintToTreasury
  <1>2. /\ ReserveSound(r, debtSupply[a]) /\ r.isActive = reserve[a].isActive
        /\ (reserve[a].isActive => r.lastUpdate = now)
    BY UpdatedSound
  <1>3. x \in Nat
    <2> DEFINE i == Updated(a).liquidityIndex
               n == Updated(a).accruedToTreasury
    <2>1. i \in Nat /\ i >= RAY /\ n \in Nat
      BY UpdatedIndexes
    <2> HIDE DEF i, n
    <2>2. ScaledDown(n, i) \in Nat
      BY <2>1, ScaledNat
    <2> QED BY <2>2 DEF i, n
  <1> HIDE DEF x
  <1>4. TokenSound(gToken, gSupply, Holders) /\ gToken \in [Assets -> [Holders -> Nat]]
    BY DEF LendInv, TokenSound
  <1>5. gToken[a][Treasury] \in Nat /\ gSupply[a] \in Nat
    BY <1>4, BalanceFacts, HoldersFinite
  <1>6. /\ gToken[a][Treasury] + x \in Nat
        /\ gSupply[a] + x = gSupply[a] - gToken[a][Treasury] + (gToken[a][Treasury] + x)
    BY <1>3, <1>5
  <1>7. TokenSound(gToken', gSupply', Holders)
    BY <1>1, <1>4, <1>6, BalanceMoves, HoldersFinite
  <1>8. \A b \in Assets, k \in Users : gToken[b][k] <= gToken'[b][k]
    <2>1. \A b \in Assets, k \in Holders : gToken[b][k] <= gToken'[b][k]
      BY <1>1, <1>3, <1>4
    <2> QED BY <2>1, HoldersFinite
  <1>9. reserve \in [Assets -> ReserveData] /\ r \in ReserveData
    BY <1>2 DEF LendInv, ReserveSound
  <1> HIDE DEF r
  <1>10. /\ reserve'[a] = [r EXCEPT !.accruedToTreasury = 0]
         /\ reserve' \in [Assets -> ReserveData]
         /\ \A b \in Assets \ {a} : reserve'[b] = reserve[b]
    <2>1. [r EXCEPT !.accruedToTreasury = 0] \in ReserveData
      BY <1>9 DEF ReserveData
    <2> QED BY <1>1, <1>9, <2>1
  <1>11. /\ reserve'[a].liquidityIndex = r.liquidityIndex
         /\ reserve'[a].borrowIndex = r.borrowIndex
         /\ reserve'[a].isActive = r.isActive /\ reserve'[a].lastUpdate = r.lastUpdate
         /\ reserve'[a].supplyRate = r.supplyRate
    BY <1>9, <1>10 DEF ReserveData
  <1>12. ReserveSound(reserve[a], debtSupply[a])'
    BY <1>1, <1>2, <1>10, <1>11 DEF ReserveSound
  <1>13. IndexKept(a)
    BY <1>2, <1>10, <1>11, IndexBooked DEF r
  <1>14. \A b \in Assets \ {a} : ReserveSound(reserve[b], debtSupply[b])' /\ IndexKept(b)
    BY <1>1, <1>10, OneUntouched
  <1>15. ReservesMove
    BY <1>10, <1>12, <1>13, <1>14 DEF ReservesMove
  <1>16. cash' \in [Assets -> Nat]
    BY <1>1, Unmoved
  <1>17. TokenSound(debtToken', debtSupply', Users)
    BY <1>1, Unmoved
  <1>18. \A v \in Users, b \in Assets : /\ gToken[b][v] <= gToken'[b][v]
                                        /\ debtToken'[b][v] <= debtToken[b][v]
    BY <1>1, <1>8, Unmoved
  <1> QED BY <1>1, <1>7, <1>15, <1>16, <1>17, <1>18, StepConcludes

(* A transfer of gTokens moves them within their total. *)
LEMMA TransferGSafe ==
    ASSUME LendInv, now' = now, NEW u \in Users, NEW v \in Users, NEW a \in Assets,
           NEW amount \in Amounts, TransferG(u, a, v, amount)
    PROVE  BooksSound' /\ HealthKept
  <1> DEFINE x == ScaledDown(amount, LiquidityIndex(a))
             taken == [gToken EXCEPT ![a][u] = gToken[a][u] - x]
             between == [gSupply EXCEPT ![a] = gSupply[a] - x]
  <1>1. /\ gToken[a][u] >= x
        /\ gToken' = [taken EXCEPT ![a][v] = taken[a][v] + x]
        /\ reserve' = reserve /\ gSupply' = gSupply /\ debtToken' = debtToken
        /\ debtSupply' = debtSupply /\ cash' = cash /\ price' = price
    BY DEF TransferG
  <1>2. x \in Nat
    <2>1. amount \in Nat
      BY ConstantTypes
    <2> DEFINE i == LiquidityIndex(a)
    <2>2. i \in Nat /\ i >= RAY
      <3>1. CASE ~reserve[a].isActive
        BY <3>1, RateConstants DEF LiquidityIndex
      <3>2. CASE reserve[a].isActive
        BY <3>2, UpdatedSound, UpdatedIndexes
      <3> QED BY <3>1, <3>2
    <2> HIDE DEF i
    <2>3. ScaledDown(amount, i) \in Nat
      BY <2>1, <2>2, ScaledNat
    <2> QED BY <2>3 DEF i
  <1> HIDE DEF x
  <1>3. TokenSound(gToken, gSupply, Holders) /\ gToken \in [Assets -> [Holders -> Nat]]
    BY DEF LendInv, TokenSound
  <1>4. u \in Holders /\ v \in Holders /\ gToken[a][u] \in Nat /\ gSupply[a] \in Nat
    BY <1>3, BalanceFacts, HoldersFinite
  <1>5. /\ gToken[a][u] - x \in Nat
        /\ gSupply[a] - x = gSupply[a] - gToken[a][u] + (gToken[a][u] - x)
    BY <1>1, <1>2, <1>4
  <1>6. TokenSound(taken, between, Holders) /\ gSupply[a] - x \in Nat
    BY <1>3, <1>4, <1>5, BalanceMoves, HoldersFinite
  <1>7. between[a] = gSupply[a] - x /\ [between EXCEPT ![a] = gSupply[a]] = gSupply
    BY <1>3 DEF TokenSound
  <1>8. ASSUME NEW b \in Assets, NEW k \in Holders
        PROVE  /\ taken[b][k] \in Nat /\ taken \in [Assets -> [Holders -> Nat]]
               /\ k # u => gToken[b][k] <= taken[b][k]
               /\ taken[b][k] <= gToken'[b][k]
               /\ (u # v /\ x > 0) => gToken'[a][u] < gToken[a][u]
               /\ (u = v \/ x = 0) => gToken[b][k] <= gToken'[b][k]
    <2>1. taken \in [Assets -> [Holders -> Nat]]
      BY <1>3, <1>5
    <2> QED BY <1>1, <1>2, <1>3, <1>4, <1>5, <2>1
  <1>9. TokenSound(gToken', gSupply', Holders)
    <2>1. taken[a][v] \in Nat
      BY <1>4, <1>8
    <2>2. /\ taken[a][v] + x \in Nat
          /\ gSupply[a] = between[a] - taken[a][v] + (taken[a][v] + x)
      BY <1>2, <1>4, <1>7, <2>1
    <2> HIDE DEF taken, between
    <2>3. TokenSound([taken EXCEPT ![a][v] = taken[a][v] + x], [between EXCEPT ![a] = gSupply[a]], Holders)
      BY <1>4, <1>6, <2>2, BalanceMoves, HoldersFinite
    <2> QED BY <1>1, <1>7, <2>3
  <1>10. ReservesMove
    <2>1. \A b \in Assets : /\ reserve'[b] \in ReserveData
                            /\ ReserveSound(reserve[b], debtSupply[b])' /\ IndexKept(b)
      BY <1>1, OneUntouched
    <2>2. reserve' \in [Assets -> ReserveData]
      BY <1>1 DEF LendInv
    <2> QED BY <2>1, <2>2 DEF ReservesMove
  <1>11. /\ TokenSound(debtToken', debtSupply', Users)
         /\ cash' \in [Assets -> Nat]
    BY <1>1, Unmoved
  <1>12. ASSUME NEW w \in Users
         PROVE  \/ GaveAway(w)
                \/ \A b \in Assets : /\ gToken[b][w] <= gToken'[b][w]
                                     /\ debtToken'[b][w] <= debtToken[b][w]
    <2>1. w \in Holders /\ \A b \in Assets : debtToken'[b][w] <= debtToken[b][w]
      BY <1>1, Unmoved, HoldersFinite
    <2>2. CASE w = u /\ u # v /\ x > 0
      <3>1. gToken'[a][u] < gToken[a][u]
        BY <1>8, <2>1, <2>2
      <3> QED BY <1>1, <2>2, <3>1 DEF GaveAway
    <2>3. CASE w # u
      <3>1. ASSUME NEW b \in Assets PROVE gToken[b][w] <= gToken'[b][w]
        <4>1. gToken[b][w] \in Nat /\ taken[b][w] \in Nat /\ gToken[b][w] <= taken[b][w]
              /\ taken[b][w] <= gToken'[b][w]
          BY <1>8, <2>1, <2>3, Unmoved
        <4>2. gToken'[b][w] \in Nat
          BY <1>9, <2>1, BalanceFacts, HoldersFinite
        <4> HIDE DEF taken
        <4> QED BY <4>1, <4>2
      <3> QED BY <2>1, <3>1
    <2>4. CASE w = u /\ (u = v \/ x = 0)
      BY <1>8, <2>1, <2>4
    <2> QED BY <1>2, <2>2, <2>3, <2>4
  <1> QED BY <1>1, <1>9, <1>10, <1>11, <1>12, StepConcludes

-----------------------------------------------------------------------------
(* The admin's steps. *)

(* A setter of one reserve that does not touch the tokens or the price. *)
LEMMA SetterConcludes ==
    ASSUME LendInv, now' = now, NEW a \in Assets, UNCHANGED <<tokenVars, price>>,
           reserve' = [reserve EXCEPT ![a] = reserve'[a]], reserve'[a] \in ReserveData,
           ReserveSound(reserve[a], debtSupply[a])',
           IndexKept(a) \/ reserve'[a].isActive # reserve[a].isActive
    PROVE  BooksSound' /\ HealthKept
  <1>0. /\ gToken' = gToken /\ gSupply' = gSupply /\ debtToken' = debtToken
        /\ debtSupply' = debtSupply /\ cash' = cash /\ price' = price
    BY DEF tokenVars
  <1>1. reserve \in [Assets -> ReserveData]
    BY DEF LendInv
  <1>2. reserve' \in [Assets -> ReserveData] /\ \A b \in Assets \ {a} : reserve'[b] = reserve[b]
    BY <1>1
  <1>3. \A b \in Assets \ {a} : ReserveSound(reserve[b], debtSupply[b])' /\ IndexKept(b)
    BY <1>0, <1>2, OneUntouched
  <1>4. /\ TokenSound(gToken', gSupply', Holders) /\ TokenSound(debtToken', debtSupply', Users)
        /\ cash' \in [Assets -> Nat] /\ price' \in [Assets -> Prices]
    BY <1>0 DEF LendInv
  <1>5. CASE reserve'[a].isActive # reserve[a].isActive
    <2>1. \A b \in Assets : ReserveSound(reserve[b], debtSupply[b])'
      BY <1>3
    <2>2. BooksSound'
      BY <1>2, <1>4, <2>1 DEF BooksSound, TokenSound
    <2> QED BY <1>5, <2>2 DEF HealthKept
  <1>6. CASE IndexKept(a)
    <2>1. ReservesMove
      BY <1>2, <1>3, <1>6 DEF ReservesMove
    <2>2. \A v \in Users, b \in Assets : /\ gToken[b][v] <= gToken'[b][v]
                                         /\ debtToken'[b][v] <= debtToken[b][v]
      BY <1>0, Unmoved, HoldersFinite
    <2> QED BY <1>0, <1>4, <2>1, <2>2, StepConcludes
  <1> QED BY <1>5, <1>6

(* A setter of fields that the indexes and the rates do not show. *)
LEMMA FieldSetterConcludes ==
    ASSUME LendInv, now' = now, NEW a \in Assets, UNCHANGED <<tokenVars, price, history>>,
           reserve' = [reserve EXCEPT ![a] = reserve'[a]], reserve'[a] \in ReserveData,
           reserve'[a].liquidityIndex = reserve[a].liquidityIndex,
           reserve'[a].borrowIndex = reserve[a].borrowIndex,
           reserve'[a].supplyRate = reserve[a].supplyRate,
           reserve'[a].borrowRate = reserve[a].borrowRate,
           reserve'[a].lastUpdate = reserve[a].lastUpdate
    PROVE  BooksSound' /\ HealthKept
  <1>1. debtSupply' = debtSupply
    BY DEF LendInv, tokenVars
  <1>2. ReserveSound(reserve[a], debtSupply[a])
    BY ReserveFacts
  <1>3. ReserveSound(reserve[a], debtSupply[a])'
    BY <1>1, <1>2 DEF ReserveSound
  <1>4. IndexKept(a) \/ reserve'[a].isActive # reserve[a].isActive
    <2> SUFFICES ASSUME reserve'[a].isActive = reserve[a].isActive PROVE IndexKept(a)
      OBVIOUS
    <2>1. LiquidityIndex(a)' = LiquidityIndex(a) /\ BorrowIndex(a)' = BorrowIndex(a)
      BY DEF LiquidityIndex, BorrowIndex
    <2>2. LiquidityIndex(a) \in Nat /\ BorrowIndex(a) \in Nat
      BY IndexNat
    <2> QED BY <2>1, <2>2 DEF IndexKept
  <1> QED BY <1>1, <1>3, <1>4, SetterConcludes

LEMMA SettersSafe ==
    ASSUME LendInv, now' = now, NEW a \in Assets,
           \/ \E b \in BOOLEAN : SetReserveActive(a, b) \/ SetBorrowingEnabled(a, b)
           \/ \E supplyCap, borrowCap \in Caps : SetCaps(a, supplyCap, borrowCap)
    PROVE  BooksSound' /\ HealthKept
  <1> DEFINE r == reserve[a]
  <1>1. reserve \in [Assets -> ReserveData] /\ r \in ReserveData
    BY DEF LendInv
  <1>2. CASE \E b \in BOOLEAN : SetReserveActive(a, b)
    <2>1. PICK b \in BOOLEAN : SetReserveActive(a, b)
      BY <1>2
    <2>2. reserve' = [reserve EXCEPT ![a].isActive = b] /\ UNCHANGED <<tokenVars, price, history>>
      BY <2>1 DEF SetReserveActive
    <2>3. reserve'[a] = [r EXCEPT !.isActive = b] /\ reserve' = [reserve EXCEPT ![a] = reserve'[a]]
      BY <1>1, <2>2
    <2> HIDE DEF r
    <2>4. /\ reserve'[a] \in ReserveData
          /\ reserve'[a].liquidityIndex = r.liquidityIndex /\ reserve'[a].borrowIndex = r.borrowIndex
          /\ reserve'[a].supplyRate = r.supplyRate /\ reserve'[a].borrowRate = r.borrowRate
          /\ reserve'[a].lastUpdate = r.lastUpdate
      BY <1>1, <2>3 DEF ReserveData
    <2> QED BY <2>2, <2>3, <2>4, FieldSetterConcludes DEF r
  <1>3. CASE \E b \in BOOLEAN : SetBorrowingEnabled(a, b)
    <2>1. PICK b \in BOOLEAN : SetBorrowingEnabled(a, b)
      BY <1>3
    <2>2. reserve' = [reserve EXCEPT ![a].borrowingEnabled = b] /\ UNCHANGED <<tokenVars, price, history>>
      BY <2>1 DEF SetBorrowingEnabled
    <2>3. /\ reserve'[a] = [r EXCEPT !.borrowingEnabled = b]
          /\ reserve' = [reserve EXCEPT ![a] = reserve'[a]]
      BY <1>1, <2>2
    <2> HIDE DEF r
    <2>4. /\ reserve'[a] \in ReserveData
          /\ reserve'[a].liquidityIndex = r.liquidityIndex /\ reserve'[a].borrowIndex = r.borrowIndex
          /\ reserve'[a].supplyRate = r.supplyRate /\ reserve'[a].borrowRate = r.borrowRate
          /\ reserve'[a].lastUpdate = r.lastUpdate
      BY <1>1, <2>3 DEF ReserveData
    <2> QED BY <2>2, <2>3, <2>4, FieldSetterConcludes DEF r
  <1>4. CASE \E supplyCap, borrowCap \in Caps : SetCaps(a, supplyCap, borrowCap)
    <2>1. PICK sc \in Caps, bc \in Caps : SetCaps(a, sc, bc)
      BY <1>4
    <2>2. /\ reserve' = [reserve EXCEPT ![a].supplyCap = sc, ![a].borrowCap = bc]
          /\ UNCHANGED <<tokenVars, price, history>> /\ sc \in Nat /\ bc \in Nat
      BY <2>1, ConstantTypes DEF SetCaps
    <2>3. /\ reserve'[a] = [r EXCEPT !.supplyCap = sc, !.borrowCap = bc]
          /\ reserve' = [reserve EXCEPT ![a] = reserve'[a]]
      BY <1>1, <2>2
    <2> HIDE DEF r
    <2>4. /\ reserve'[a] \in ReserveData
          /\ reserve'[a].liquidityIndex = r.liquidityIndex /\ reserve'[a].borrowIndex = r.borrowIndex
          /\ reserve'[a].supplyRate = r.supplyRate /\ reserve'[a].borrowRate = r.borrowRate
          /\ reserve'[a].lastUpdate = r.lastUpdate
      BY <1>1, <2>2, <2>3 DEF ReserveData
    <2> QED BY <2>2, <2>3, <2>4, FieldSetterConcludes DEF r
  <1> QED BY <1>2, <1>3, <1>4

(* A new reserve factor is set with the interest booked under the old one. *)
LEMMA SetReserveFactorSafe ==
    ASSUME LendInv, now' = now, NEW a \in Assets, NEW factor \in Factors, SetReserveFactor(a, factor)
    PROVE  BooksSound' /\ HealthKept
  <1> DEFINE u == Updated(a)
             r == [u EXCEPT !.factor = factor]
  <1>1. /\ reserve' = [reserve EXCEPT ![a] = WithRates(r, gSupply[a], debtSupply[a])]
        /\ UNCHANGED <<tokenVars, price>>
    BY DEF SetReserveFactor
  <1>2. /\ reserve \in [Assets -> ReserveData]
        /\ debtSupply' = debtSupply /\ gSupply[a] \in Nat /\ debtSupply[a] \in Nat
    BY <1>1, ReserveFacts DEF LendInv, tokenVars
  <1>3. /\ u \in ReserveData /\ ReserveSound(u, debtSupply[a])
        /\ u.isActive = reserve[a].isActive /\ (reserve[a].isActive => u.lastUpdate = now)
    BY UpdatedSound DEF ReserveSound
  <1> HIDE DEF u
  <1>4. /\ r \in ReserveData /\ r.isActive = u.isActive /\ r.lastUpdate = u.lastUpdate
        /\ r.liquidityIndex = u.liquidityIndex /\ r.borrowIndex = u.borrowIndex
        /\ r.supplyRate = u.supplyRate
    BY <1>3 DEF ReserveData
  <1>5. reserve'[a] = WithRates(r, gSupply[a], debtSupply[a])
    BY <1>1, <1>2
  <1> HIDE DEF r
  <1>6. ReserveSound(r, debtSupply[a])
    BY <1>3, <1>4 DEF ReserveSound
  <1>7. /\ r.isActive = reserve[a].isActive
        /\ r.isActive => /\ r.lastUpdate = now /\ r.liquidityIndex = Updated(a).liquidityIndex
                         /\ r.borrowIndex = Updated(a).borrowIndex
    BY <1>3, <1>4 DEF u
  <1>8. /\ reserve'[a] \in ReserveData /\ ReserveSound(reserve[a], debtSupply[a])' /\ IndexKept(a)
    BY <1>2, <1>4, <1>5, <1>6, <1>7, OneRefreshed
  <1>9. reserve' = [reserve EXCEPT ![a] = reserve'[a]]
    BY <1>1, <1>2
  <1> QED BY <1>1, <1>2, <1>8, <1>9, SetterConcludes

LEMMA SetAssetPriceSafe ==
    ASSUME LendInv, now' = now, NEW a \in Assets, NEW p \in Prices, SetAssetPrice(a, p)
    PROVE  BooksSound' /\ HealthKept
  <1>1. /\ price' = [price EXCEPT ![a] = p] /\ reserve' = reserve
        /\ gToken' = gToken /\ gSupply' = gSupply /\ debtToken' = debtToken
        /\ debtSupply' = debtSupply /\ cash' = cash
    BY DEF SetAssetPrice, tokenVars
  <1>2. BooksSound'
    <2>1. \A b \in Assets : ReserveSound(reserve[b], debtSupply[b])'
      BY <1>1, OneUntouched
    <2>2. price' \in [Assets -> Prices]
      BY <1>1 DEF LendInv
    <2> QED BY <1>1, <2>1, <2>2 DEF BooksSound, LendInv, TokenSound
  <1>3. CASE price' # price
    BY <1>2, <1>3 DEF HealthKept
  <1>4. CASE price' = price
    <2>1. ReservesMove
      BY <1>1, OneUntouched DEF ReservesMove, LendInv
    <2>2. \A v \in Users, b \in Assets : /\ gToken[b][v] <= gToken'[b][v]
                                         /\ debtToken'[b][v] <= debtToken[b][v]
      BY <1>1, Unmoved, HoldersFinite
    <2>3. /\ TokenSound(gToken', gSupply', Holders) /\ TokenSound(debtToken', debtSupply', Users)
          /\ cash' \in [Assets -> Nat]
      BY <1>1, Unmoved
    <2> QED BY <1>4, <2>1, <2>2, <2>3, StepConcludes
  <1> QED BY <1>3, <1>4

-----------------------------------------------------------------------------
(* The specification. *)

lendingVars == <<now, lendVars, calls, history>>

LEMMA LendInitial == LendInit => LendInv
  <1> SUFFICES ASSUME LendInit PROVE LendInv
    OBVIOUS
  <1> DEFINE fresh(f) ==
         [isActive |-> TRUE, borrowingEnabled |-> TRUE, factor |-> f, supplyCap |-> 0,
          borrowCap |-> 0, liquidityIndex |-> RAY, borrowIndex |-> RAY, borrowRate |-> 0,
          supplyRate |-> 0, lastUpdate |-> 0, accruedToTreasury |-> 0]
  <1>1. PICK f \in Factors : reserve = [a \in Assets |-> fresh(f)]
    BY DEF LendInit
  <1>2. RAY \in Nat
    BY RateConstants
  <1>3. fresh(f) \in ReserveData
    BY <1>2 DEF ReserveData
  <1>4. now = 0 /\ now \in Nat
    BY DEF LendInit
  <1>5. ASSUME NEW a \in Assets PROVE ReserveSound(reserve[a], debtSupply[a])
    <2>1. /\ reserve[a] \in ReserveData
          /\ reserve[a].liquidityIndex = RAY /\ reserve[a].borrowIndex = RAY
          /\ reserve[a].lastUpdate = 0 /\ reserve[a].supplyRate = 0
      BY <1>1, <1>3
    <2> QED BY <1>2, <1>4, <2>1 DEF ReserveSound
  <1>6. reserve \in [Assets -> ReserveData]
    BY <1>1, <1>3
  <1>7. TokenSound(gToken, gSupply, Holders)
    <2>1. gToken = [a \in Assets |-> [h \in Holders |-> 0]] /\ gSupply = [a \in Assets |-> 0]
      BY DEF LendInit
    <2>2. SumFunctionOnSet([h \in Holders |-> 0], Holders) = 0
      BY SumOfZeros, HoldersFinite
    <2> QED BY <2>1, <2>2 DEF TokenSound
  <1>8. TokenSound(debtToken, debtSupply, Users)
    <2>1. debtToken = [a \in Assets |-> [u \in Users |-> 0]] /\ debtSupply = [a \in Assets |-> 0]
      BY DEF LendInit
    <2>2. SumFunctionOnSet([u \in Users |-> 0], Users) = 0
      BY SumOfZeros, HoldersFinite
    <2> QED BY <2>1, <2>2 DEF TokenSound
  <1>9. cash \in [Assets -> Nat] /\ calls \in [{"user", "admin"} -> Nat]
    BY DEF LendInit
  <1>10. price \in [Assets -> Prices]
    <2>1. InitialPrice \in [Assets -> Prices]
      BY LendConstants
    <2> QED BY <2>1 DEF LendInit
  <1> QED BY <1>4, <1>5, <1>6, <1>7, <1>8, <1>9, <1>10 DEF LendInv

(* A withdrawal of the whole balance asks for a natural amount, too. *)
LEMMA HolderStepSafe ==
    ASSUME LendInv, now' = now, NEW u \in Users, NEW a \in Assets, HolderStep(u, a)
    PROVE  BooksSound' /\ HealthKept
  <1>1. CASE \E amount \in Amounts : Supply(u, a, amount) \/ Borrow(u, a, amount) \/ Repay(u, a, amount)
    BY <1>1, SupplySafe, BorrowSafe, RepaySafe
  <1>2. CASE \E amount \in Amounts \cup {Unscaled(gToken[a][u], Updated(a).liquidityIndex)} :
                WithdrawSupply(u, a, amount)
    <2> DEFINE i == Updated(a).liquidityIndex
    <2>1. i \in Nat /\ gToken[a][u] \in Nat
      BY UpdatedIndexes, Unmoved, HoldersFinite
    <2> HIDE DEF i
    <2>2. Unscaled(gToken[a][u], i) \in Nat
      BY <2>1, UnscaledNat
    <2>3. Amounts \cup {Unscaled(gToken[a][u], i)} \subseteq Nat
      BY <2>2, ConstantTypes
    <2>4. PICK amount \in Amounts \cup {Unscaled(gToken[a][u], i)} : WithdrawSupply(u, a, amount)
      BY <1>2 DEF i
    <2> QED BY <2>3, <2>4, WithdrawSafe
  <1>3. CASE \E amount \in Amounts, d \in Assets : Liquidate(u, a, d, amount)
    BY <1>3, LiquidateSafe
  <1>4. CASE \E amount \in Amounts, v \in Users : TransferG(u, a, v, amount)
    BY <1>4, TransferGSafe
  <1> QED BY <1>1, <1>2, <1>3, <1>4 DEF HolderStep

LEMMA AdminStepSafe ==
    ASSUME LendInv, now' = now, NEW a \in Assets, AdminStep(a)
    PROVE  BooksSound' /\ HealthKept
  BY SettersSafe, SetReserveFactorSafe, SetAssetPriceSafe DEF AdminStep

(* A call, of whoever makes it. *)
LEMMA CallSafe ==
    ASSUME LendInv, NEW kind \in {"user", "admin"}, NEW a \in Assets, Call(kind, a)
    PROVE  LendInv' /\ HealthKept
  <1>1. now' = now /\ Tally(kind)
    BY DEF Call
  <1>2. BooksSound' /\ HealthKept
    <2>1. CASE kind = "admin"
      <3>1. AdminStep(a)
        BY <2>1 DEF Call
      <3> QED BY <1>1, <3>1, AdminStepSafe
    <2>2. CASE kind = "user"
      <3>1. AnyonesStep(a) \/ \E u \in Users : HolderStep(u, a)
        BY <2>2 DEF Call
      <3> QED BY <1>1, <3>1, FlashLoanSafe, MintToTreasurySafe, HolderStepSafe DEF AnyonesStep
    <2> QED BY <2>1, <2>2
  <1>3. calls' \in [{"user", "admin"} -> Nat]
    <2>1. calls \in [{"user", "admin"} -> Nat]
      BY DEF LendInv
    <2>2. calls' = calls \/ calls' = [calls EXCEPT ![kind] = calls[kind] + 1]
      BY <1>1 DEF Tally
    <2> QED BY <2>1, <2>2
  <1>4. now' \in Nat
    BY <1>1 DEF LendInv
  <1>5. LendInv'
    BY <1>2, <1>3, <1>4 DEF LendInv, BooksSound, TokenSound
  <1> QED BY <1>2, <1>5

(* Time does not touch the books. *)
LEMMA UntouchedBooks ==
    ASSUME LendInv, UNCHANGED <<lendVars, calls, history>>, now' \in Nat, now' >= now
    PROVE  LendInv'
  <1>1. /\ reserve' = reserve /\ gToken' = gToken /\ gSupply' = gSupply /\ debtToken' = debtToken
        /\ debtSupply' = debtSupply /\ cash' = cash /\ price' = price
        /\ calls' = calls
    BY DEF lendVars, tokenVars
  <1>2. ASSUME NEW a \in Assets PROVE ReserveSound(reserve[a], debtSupply[a])'
    <2>1. ReserveSound(reserve[a], debtSupply[a]) /\ reserve[a].lastUpdate \in Nat /\ now \in Nat
      BY ReserveFacts, FieldTypes DEF ReserveSound
    <2>2. reserve[a].lastUpdate <= now'
      BY <2>1 DEF ReserveSound
    <2> QED BY <1>1, <2>1, <2>2 DEF ReserveSound
  <1>3. TokenSound(gToken, gSupply, Holders)' /\ TokenSound(debtToken, debtSupply, Users)'
    BY <1>1 DEF LendInv, TokenSound
  <1> QED BY <1>1, <1>2, <1>3 DEF LendInv

(* A step that does not pass time. *)
LEMMA TimelessStep ==
    ASSUME LendInv, [LendNext]_lendingVars, now' = now
    PROVE  LendInv' /\ HealthKept
  <1>1. CASE \E a \in Assets : Call("user", a) \/ Call("admin", a)
    BY <1>1, CallSafe
  <1>2. CASE Tick /\ UNCHANGED <<lendVars, calls, history>>
    BY <1>2 DEF Tick, LendInv
  <1>3. CASE UNCHANGED lendingVars
    <2>1. UNCHANGED <<lendVars, calls, history>> /\ now' \in Nat /\ now' >= now
      BY <1>3 DEF lendingVars, LendInv
    <2>2. LendInv'
      BY <2>1, UntouchedBooks
    <2>3. /\ reserve' = reserve /\ gToken' = gToken /\ debtToken' = debtToken /\ price' = price
      BY <1>3 DEF lendingVars, lendVars, tokenVars
    <2>4. \A u \in Users : Healthy(u)' <=> Healthy(u)
      BY <1>3, <2>3 DEF lendingVars, Healthy, HealthAtLeast, Collateral, Debt, CollateralValue, DebtValue,
             Counted, LiquidityIndex, BorrowIndex
    <2> QED BY <2>2, <2>4 DEF HealthKept
  <1> QED BY <1>1, <1>2, <1>3 DEF LendNext

LEMMA LendStep == LendInv /\ [LendNext]_lendingVars => LendInv'
  <1> SUFFICES ASSUME LendInv, [LendNext]_lendingVars PROVE LendInv'
    OBVIOUS
  <1>1. CASE now' = now
    BY <1>1, TimelessStep
  <1>2. CASE now' # now
    <2>1. Tick /\ UNCHANGED <<lendVars, calls, history>>
      BY <1>2 DEF LendNext, Call, lendingVars
    <2>2. now' \in Nat /\ now' >= now
      BY <2>1 DEF Tick, LendInv
    <2> QED BY <2>1, <2>2, UntouchedBooks
  <1> QED BY <1>1, <1>2

(* At every time the indexes of a reserve are at least 1.0, nobody's        *)
(* deposit earns what nobody owes, and every total is the sum of its        *)
(* balances.                                                               *)
THEOREM LendingInvariant == LendSpec => []LendInv
  <1> QED BY LendInitial, LendStep, PTL DEF LendSpec, lendingVars

(* The scaled supplies that the rates and the caps are computed from are    *)
(* the sums of the balances, however burns, mints and repayments round.    *)
THEOREM SuppliesStaySums == LendSpec => []SuppliesAreSums
  <1>1. LendInv => SuppliesAreSums
    BY DEF LendInv, SuppliesAreSums, TokenSound
  <1> QED BY <1>1, LendingInvariant, PTL

(* A healthy account becomes liquidatable only through time, a price, a     *)
(* switch of the admin or its own gift of gTokens: never through a loan, a *)
(* withdrawal, a flash loan, or what others do.                            *)
THEOREM LendHealthIsLostOnlyToMarket == LendSpec => HealthLostOnlyToMarket
  <1> DEFINE Kept == \/ now' # now
                     \/ price' # price
                     \/ \E a \in Assets : reserve'[a].isActive # reserve[a].isActive
                     \/ \A u \in Users : Healthy(u) =>
                           \/ Healthy(u)'
                           \/ gSupply' = gSupply /\ \E b \in Assets : gToken'[b][u] < gToken[b][u]
  <1>1. LendInv /\ [LendNext]_lendingVars => [Kept]_lendingVars
    <2>1. HealthKept => Kept
      BY DEF HealthKept, GaveAway
    <2> QED BY <2>1, TimelessStep
  <1>2. [][Kept]_lendingVars => HealthLostOnlyToMarket
    BY PTL DEF HealthLostOnlyToMarket, lendingVars
  <1> QED BY LendingInvariant, <1>1, <1>2, PTL DEF LendSpec, lendingVars
-----------------------------------------------------------------------------
(* Solvency of the lending pool.  Claims and means are compared in units of *)
(* 1/RAY of the underlying, so that only the quotients round.              *)

(* What suppliers and treasury have, for scaled deposits and their index,   *)
(* is covered by the cash and the debts, to within a cost.                 *)
Covers(lent, i, accrued, held, owed, j, cost) ==
    lent * i + RAY * accrued <= RAY * held + owed * j + cost

(* The part of the interest that a reserve factor leaves to the suppliers. *)
Kept(factor) == RAY - (factor * RAY) \div 10000

(* The rate of the suppliers promises, on the deposits it was set for, no   *)
(* more than the borrowers pay.                                            *)
Fair(rate, known, paying, debt, factor) == RAY * (rate * known) <= (paying * debt) * Kept(factor)

(* The treasury's part of the interest on a debt. *)
TreasuryPart(debt, rate, time, factor) == (((debt * rate * time) \div RAY) * factor) \div 10000

(* The factors of a product in another order. *)
LEMMA TimesOrder ==
    ASSUME NEW a \in Nat, NEW b \in Nat, NEW c \in Nat
    PROVE  /\ (a * b) * c = a * (b * c) /\ a * (b * c) = b * (a * c) /\ (a * b) * c = (a * c) * b
           /\ a * b = b * a /\ a * b \in Nat /\ (a * b) * c \in Nat
  OBVIOUS

(* What is left after a reserve factor, in basis points: no rounding. *)
LEMMA KeptExact ==
    ASSUME NEW f \in Factors
    PROVE  /\ f \in Nat /\ f <= 10000 /\ 10000 - f \in Nat
           /\ Kept(f) \in Nat /\ 10000 * Kept(f) = RAY * (10000 - f)
  <1>1. f \in Nat /\ f <= 10000 /\ (f * RAY) % 10000 = 0 /\ RAY \in Nat
    <2>1. \A g \in Factors : (g * RAY) % 10000 = 0
      BY LendConstants
    <2>2. f \in 0..10000
      BY LendConstants
    <2> QED BY <2>1, <2>2, RateConstants
  <1> DEFINE n == f * RAY
             q == n \div 10000
  <1>2. n \in Nat /\ n <= 10000 * RAY /\ RAY * (10000 - f) = 10000 * RAY - n
    BY <1>1
  <1>3. n % 10000 = 0
    BY <1>1
  <1>4. q \in Nat /\ n = 10000 * q
    <2> HIDE DEF n
    <2> QED BY <1>2, <1>3
  <1> HIDE DEF n, q
  <1>5. Kept(f) = RAY - q
    BY DEF Kept, n, q
  <1> QED BY <1>1, <1>2, <1>4, <1>5

(* The interest that a growing index pays is no more than that on the       *)
(* amounts it unscales, one unit more.                                     *)
LEMMA SuppliersGain ==
    ASSUME NEW lent \in Nat, NEW i \in Nat, NEW rate \in Nat, NEW time \in Nat
    PROVE  lent * Grown(i, rate, time) <= lent * i + (Unscaled(lent, i) + 1) * (rate * time)
  <1> DEFINE x == rate * time
             n == i * x
             gain == n \div RAY
             s == Unscaled(lent, i)
  <1>1. RAY \in Nat \ {0} /\ x \in Nat /\ n \in Nat /\ i * rate * time = n
    BY RateConstants, TimesOrder
  <1>2. Grown(i, rate, time) = i + gain
    BY <1>1 DEF Grown
  <1>3. lent * i \in Nat /\ s \in Nat /\ lent * i < RAY * (s + 1)
    BY <1>1, TimesNat, QuotientBounds DEF Unscaled
  <1> HIDE DEF s
  <1>4. lent * n <= RAY * ((s + 1) * x)
    <2>1. lent * n = (lent * i) * x
      BY <1>1, TimesOrder
    <2>2. RAY * (s + 1) \in Nat /\ s + 1 \in Nat
      BY <1>1, <1>3
    <2>3. (lent * i) * x <= (RAY * (s + 1)) * x
      BY <1>1, <1>3, <2>2, TimesMonotone
    <2>4. (RAY * (s + 1)) * x = RAY * ((s + 1) * x)
      BY <1>1, <2>2, TimesOrder
    <2> QED BY <2>1, <2>3, <2>4
  <1> HIDE DEF x, n
  <1>5. gain \in Nat /\ RAY * gain <= n
    BY <1>1, QuotientBounds
  <1> HIDE DEF gain
  <1>6. lent * gain <= (s + 1) * x
    <2>1. RAY * gain \in Nat /\ lent * (RAY * gain) <= lent * n
      BY <1>1, <1>5, TimesMonotone
    <2>2. lent * (RAY * gain) = RAY * (lent * gain) /\ lent * gain \in Nat
      BY <1>1, <1>5, TimesOrder
    <2>3. (s + 1) * x \in Nat /\ RAY * ((s + 1) * x) \in Nat /\ lent * n \in Nat
           /\ RAY * (lent * gain) \in Nat
      BY <1>1, <1>3, <2>2, TimesNat
    <2>4. RAY * (lent * gain) <= RAY * ((s + 1) * x)
      BY <1>4, <2>1, <2>2, <2>3
    <2> QED BY <1>1, <2>2, <2>3, <2>4, CancelFactor
  <1>7. lent * (i + gain) = lent * i + lent * gain
    BY <1>5
  <1>8. lent * gain \in Nat /\ (s + 1) * x \in Nat
    BY <1>1, <1>3, <1>5, TimesNat
  <1> QED BY <1>2, <1>3, <1>6, <1>7, <1>8 DEF s, x

(* The interest that borrowers are charged is no less than that on their    *)
(* debt, but for under one unit per scaled one.                            *)
LEMMA BorrowersPay ==
    ASSUME NEW owed \in Nat, NEW j \in Nat, NEW rate \in Nat, NEW time \in Nat
    PROVE  owed * j + Unscaled(owed, j) * (rate * time) <= owed * Grown(j, rate, time) + owed
  <1> DEFINE x == rate * time
             n == j * x
             gain == n \div RAY
             w == Unscaled(owed, j)
  <1>1. RAY \in Nat \ {0} /\ x \in Nat /\ n \in Nat /\ j * rate * time = n
    BY RateConstants, TimesOrder
  <1>2. Grown(j, rate, time) = j + gain
    BY <1>1 DEF Grown
  <1>3. owed * j \in Nat /\ w \in Nat /\ RAY * w <= owed * j
    BY <1>1, TimesNat, QuotientBounds DEF Unscaled
  <1> HIDE DEF w
  <1>4. RAY * (w * x) <= owed * n
    <2>1. RAY * w \in Nat /\ (RAY * w) * x <= (owed * j) * x
      BY <1>1, <1>3, TimesMonotone
    <2>2. (RAY * w) * x = RAY * (w * x) /\ (owed * j) * x = owed * n
      BY <1>1, <1>3, TimesOrder
    <2> QED BY <2>1, <2>2
  <1> HIDE DEF x, n
  <1>5. gain \in Nat /\ n < RAY * (gain + 1)
    BY <1>1, QuotientBounds
  <1> HIDE DEF gain
  <1>6. w * x <= owed * (gain + 1)
    <2>1. gain + 1 \in Nat /\ RAY * (gain + 1) \in Nat /\ n <= RAY * (gain + 1)
      BY <1>1, <1>5
    <2>2. owed * n <= owed * (RAY * (gain + 1))
      BY <1>1, <2>1, TimesMonotone
    <2>3. owed * (RAY * (gain + 1)) = RAY * (owed * (gain + 1))
      BY <1>1, <2>1, TimesOrder
    <2>4. w * x \in Nat /\ owed * (gain + 1) \in Nat /\ owed * n \in Nat
      BY <1>1, <1>3, <2>1, TimesNat
    <2>5. RAY * (w * x) \in Nat /\ RAY * (owed * (gain + 1)) \in Nat
      BY <1>1, <2>4, TimesNat
    <2>6. RAY * (w * x) <= RAY * (owed * (gain + 1))
      BY <1>4, <2>2, <2>3, <2>4, <2>5
    <2> QED BY <1>1, <2>4, <2>6, CancelFactor
  <1>7. owed * (j + gain) = owed * j + owed * gain /\ owed * (gain + 1) = owed * gain + owed
    BY <1>5
  <1>8. owed * gain \in Nat /\ w * x \in Nat
    BY <1>1, <1>3, <1>5, TimesNat
  <1> QED BY <1>2, <1>3, <1>6, <1>7, <1>8 DEF w, x

(* The treasury takes no more than its factor of the interest. *)
LEMMA TreasuryTakes ==
    ASSUME NEW debt \in Nat, NEW rate \in Nat, NEW time \in Nat, NEW f \in Nat,
           NEW y, y = debt * (rate * time), NEW share, share = TreasuryPart(debt, rate, time, f)
    PROVE  share \in Nat /\ 10000 * (RAY * share) <= y * f
  <1> DEFINE n == y \div RAY
             m == n * f
             part == m \div 10000
  <1>1. RAY \in Nat \ {0} /\ rate * time \in Nat
    BY RateConstants, TimesNat
  <1>2. y \in Nat /\ debt * rate * time = y
    BY <1>1, TimesOrder
  <1>3. share = part
    BY <1>2 DEF TreasuryPart
  <1>4. n \in Nat /\ RAY * n <= y
    BY <1>1, <1>2, QuotientBounds
  <1> HIDE DEF n
  <1>5. m \in Nat
    BY <1>4, TimesNat
  <1>6. RAY * m <= y * f
    <2>1. RAY * n \in Nat /\ (RAY * n) * f <= y * f
      BY <1>1, <1>2, <1>4, TimesMonotone
    <2>2. (RAY * n) * f = RAY * m
      BY <1>1, <1>4, TimesOrder
    <2> QED BY <2>1, <2>2
  <1> HIDE DEF m
  <1>7. part \in Nat /\ 10000 * part <= m
    BY <1>5, QuotientBounds
  <1> HIDE DEF part
  <1>8. 10000 * (RAY * part) <= RAY * m
    <2>1. 10000 * part \in Nat /\ RAY * (10000 * part) <= RAY * m
      BY <1>1, <1>5, <1>7, TimesMonotone
    <2>2. RAY * (10000 * part) = 10000 * (RAY * part)
      BY <1>1, <1>7, TimesOrder
    <2> QED BY <2>1, <2>2
  <1>9. RAY * m \in Nat /\ y * f \in Nat /\ 10000 * (RAY * part) \in Nat
    BY <1>1, <1>2, <1>5, <1>7, TimesNat
  <1>10. 10000 * (RAY * part) <= y * f
    BY <1>6, <1>8, <1>9
  <1> QED BY <1>3, <1>7, <1>10

(* Fair rates: what suppliers and treasury are promised of the interest is  *)
(* covered by what the borrowers pay, but for the rounding and the rate on  *)
(* the deposits that the rates were not set for.                           *)
LEMMA InterestShared ==
    ASSUME NEW debt \in Nat, NEW rate \in Nat, NEW known \in Nat, NEW paying \in Nat,
           NEW time \in Nat, NEW f \in Factors, Fair(rate, known, paying, debt, f)
    PROVE  /\ TreasuryPart(debt, paying, time, f) \in Nat
           /\ known * (rate * time) + RAY * TreasuryPart(debt, paying, time, f)
                <= debt * (paying * time)
  <1> DEFINE part == TreasuryPart(debt, paying, time, f)
             y == debt * (paying * time)
             promised == rate * known
             income == paying * debt
             left == 10000 - f
  <1>1. /\ RAY \in Nat \ {0} /\ f \in Nat /\ left \in Nat /\ Kept(f) \in Nat
        /\ 10000 * Kept(f) = RAY * left
    BY RateConstants, KeptExact
  <1>2. /\ promised \in Nat /\ income \in Nat /\ y \in Nat
        /\ income * time = y /\ promised * time = known * (rate * time)
    <2>1. rate * known = known * rate /\ paying * debt = debt * paying
      OBVIOUS
    <2> QED BY <2>1, TimesOrder, TimesNat
  <1>3. RAY * promised <= income * Kept(f)
    BY DEF Fair
  <1>4. part \in Nat /\ 10000 * (RAY * part) <= y * f
    <2> DEFINE g == f
    <2>1. g \in Nat /\ y = debt * (paying * time) /\ part = TreasuryPart(debt, paying, time, g)
      BY <1>1
    <2> HIDE DEF g, part, y
    <2>2. part \in Nat /\ 10000 * (RAY * part) <= y * g
      BY <2>1, TreasuryTakes
    <2> QED BY <2>2 DEF g
  <1> HIDE DEF part, y, promised, income
  <1>5. 10000 * promised <= income * left
    <2>1. RAY * promised \in Nat /\ income * Kept(f) \in Nat
      BY <1>1, <1>2, TimesNat
    <2>2. 10000 * (RAY * promised) <= 10000 * (income * Kept(f))
      BY <1>3, <2>1
    <2>3. 10000 * (RAY * promised) = RAY * (10000 * promised)
      BY <1>1, <1>2, TimesOrder
    <2>4. 10000 * (income * Kept(f)) = income * (10000 * Kept(f))
      BY <1>1, <1>2, TimesOrder
    <2>5. income * (RAY * left) = RAY * (income * left)
      BY <1>1, <1>2, TimesOrder
    <2>6. RAY * (10000 * promised) <= RAY * (income * left)
      BY <1>1, <2>2, <2>3, <2>4, <2>5
    <2>7. 10000 * promised \in Nat /\ income * left \in Nat
      BY <1>1, <1>2, TimesNat
    <2> QED BY <1>1, <2>6, <2>7, CancelFactor
  <1>6. 10000 * (promised * time) <= y * left
    <2>1. 10000 * promised \in Nat /\ income * left \in Nat
      BY <1>1, <1>2, TimesNat
    <2>2. (10000 * promised) * time <= (income * left) * time
      BY <1>5, <2>1, TimesMonotone
    <2>3. (10000 * promised) * time = 10000 * (promised * time)
      BY <1>2, TimesOrder
    <2>4. (income * left) * time = (income * time) * left
      BY <1>1, <1>2, TimesOrder
    <2> QED BY <1>2, <2>2, <2>3, <2>4
  <1>7. y * left + y * f = 10000 * y
    BY <1>1, <1>2
  <1>8. promised * time \in Nat /\ RAY * part \in Nat /\ y * left \in Nat /\ y * f \in Nat
    BY <1>1, <1>2, <1>4, TimesNat
  <1> HIDE DEF left
  <1>9. promised * time + RAY * part <= y
    BY <1>2, <1>4, <1>6, <1>7, <1>8
  <1> QED BY <1>2, <1>4, <1>9 DEF part, y

(* Booking fair interest costs the pool no more than BookingCost says. *)
LEMMA BookingCovered ==
    ASSUME NEW lent \in Nat, NEW i \in Nat, NEW accrued \in Nat, NEW held \in Nat,
           NEW owed \in Nat, NEW j \in Nat, NEW cost \in Nat, NEW rate \in Nat,
           NEW paying \in Nat, NEW known \in Nat, NEW time \in Nat, NEW f \in Factors,
           known <= Unscaled(lent, i), Fair(rate, known, paying, Unscaled(owed, j), f),
           Covers(lent, i, accrued, held, owed, j, cost)
    PROVE  Covers(lent, Grown(i, rate, time),
                  accrued + TreasuryPart(Unscaled(owed, j), paying, time, f), held,
                  owed, Grown(j, paying, time),
                  cost + (owed + rate * time * (Unscaled(lent, i) - known + 1)))
  <1> DEFINE s == Unscaled(lent, i)
             w == Unscaled(owed, j)
             x == rate * time
             part == TreasuryPart(w, paying, time, f)
             i2 == Grown(i, rate, time)
             j2 == Grown(j, paying, time)
             y == w * (paying * time)
  <1>1. /\ RAY \in Nat /\ s \in Nat /\ w \in Nat /\ x \in Nat /\ i2 \in Nat /\ j2 \in Nat
    BY RateConstants, UnscaledNat, TimesNat, GrownSound
  <1>2. lent * i2 <= lent * i + (s + 1) * x
    BY SuppliersGain
  <1>3. owed * j + y <= owed * j2 + owed
    BY BorrowersPay
  <1>4. part \in Nat /\ known * x + RAY * part <= y
    BY <1>1, InterestShared
  <1>5. y \in Nat
    BY <1>1, TimesNat
  <1>6. lent * i + RAY * accrued <= RAY * held + owed * j + cost
    BY DEF Covers
  <1> HIDE DEF s, w, x, part, i2, j2, y
  <1>7. s - known \in Nat
    BY <1>1 DEF s
  <1>8. (s + 1) * x = known * x + x * (s - known + 1)
    BY <1>1
  <1>9. RAY * (accrued + part) = RAY * accrued + RAY * part
    BY <1>1, <1>4
  <1>10. /\ lent * i2 \in Nat /\ lent * i \in Nat /\ owed * j \in Nat /\ owed * j2 \in Nat
         /\ RAY * accrued \in Nat /\ RAY * part \in Nat /\ RAY * held \in Nat
         /\ known * x \in Nat /\ x * (s - known + 1) \in Nat /\ (s + 1) * x \in Nat
    BY <1>1, <1>4, <1>7, TimesNat
  <1>11. lent * i2 + RAY * (accrued + part)
           <= RAY * held + owed * j2 + (cost + (owed + x * (s - known + 1)))
    BY <1>2, <1>3, <1>4, <1>5, <1>6, <1>8, <1>9, <1>10
  <1> QED BY <1>11 DEF Covers, s, w, x, part, i2, j2

(* The rates of InterestRateModel are fair to the deposits and debts they   *)
(* are set for.                                                            *)
LEMMA RatesFair ==
    ASSUME NEW s \in Nat, NEW w \in Nat, NEW f \in Factors, NEW u, u = Utilization(s, w)
    PROVE  Fair(SupplyRate(u, f), s, BorrowRate(u), w, f)
  <1> DEFINE br == BorrowRate(u)
             used == br * u
             part == used \div RAY
             k == Kept(f)
             n == part * k
             sr == n \div RAY
  <1>1. RAY \in Nat \ {0} /\ k \in Nat
    BY RateConstants, KeptExact
  <1>2. u \in 0..RAY /\ u \in Nat
    BY <1>1, UtilizationSound
  <1>3. u * s <= w * RAY
    <2>1. CASE s = 0
      BY <1>1, <1>2, <2>1
    <2>2. CASE s > 0
      <3> DEFINE p == w * RAY
                 q == p \div s
      <3>1. p \in Nat
        BY <1>1, TimesNat
      <3>2. u <= q
        BY <1>1, <2>2 DEF Utilization
      <3> HIDE DEF p
      <3>3. q \in Nat /\ s * q <= p
        BY <2>2, <3>1, QuotientBounds
      <3> HIDE DEF q
      <3>4. s * u <= s * q /\ s * u \in Nat /\ s * q \in Nat /\ u * s = s * u
        BY <1>2, <3>2, <3>3, TimesMonotone
      <3>5. u * s <= p
        BY <3>1, <3>3, <3>4
      <3> QED BY <3>5 DEF p
    <2> QED BY <2>1, <2>2
  <1>4. br \in Nat /\ SupplyRate(u, f) = sr
    BY <1>2, BorrowRateNat DEF SupplyRate, Kept
  <1> HIDE DEF br, k
  <1>5. used \in Nat
    BY <1>2, <1>4, TimesNat
  <1>6. used * s <= RAY * (br * w)
    <2>1. u * s \in Nat /\ w * RAY \in Nat /\ br * (u * s) <= br * (w * RAY)
      BY <1>1, <1>2, <1>3, <1>4, TimesNat, TimesMonotone
    <2>2. used * s = br * (u * s) /\ w * RAY = RAY * w /\ br * (RAY * w) = RAY * (br * w)
      BY <1>1, <1>2, <1>4, TimesOrder
    <2> QED BY <2>1, <2>2
  <1> HIDE DEF used
  <1>7. part \in Nat /\ RAY * part <= used
    BY <1>1, <1>5, QuotientBounds
  <1> HIDE DEF part
  <1>8. part * s <= br * w
    <2>1. RAY * part \in Nat /\ (RAY * part) * s <= used * s
      BY <1>1, <1>5, <1>7, TimesMonotone
    <2>2. (RAY * part) * s = RAY * (part * s)
      BY <1>1, <1>7, TimesOrder
    <2>3. part * s \in Nat /\ br * w \in Nat /\ used * s \in Nat
      BY <1>4, <1>5, <1>7, TimesNat
    <2>4. RAY * (part * s) \in Nat /\ RAY * (br * w) \in Nat
      BY <1>1, <2>3, TimesNat
    <2>5. RAY * (part * s) <= RAY * (br * w)
      BY <1>6, <2>1, <2>2, <2>3, <2>4
    <2> QED BY <1>1, <2>3, <2>5, CancelFactor
  <1>9. n \in Nat
    BY <1>1, <1>7, TimesNat
  <1>10. n * s <= (br * w) * k
    <2>1. n * s = (part * s) * k
      BY <1>1, <1>7, TimesOrder
    <2>2. part * s \in Nat /\ br * w \in Nat
      BY <1>4, <1>7, TimesNat
    <2> QED BY <1>1, <1>8, <2>1, <2>2, TimesMonotone
  <1> HIDE DEF n
  <1>11. sr \in Nat /\ RAY * sr <= n
    BY <1>1, <1>9, QuotientBounds
  <1> HIDE DEF sr
  <1>12. RAY * (sr * s) <= (br * w) * k
    <2>1. RAY * sr \in Nat /\ (RAY * sr) * s <= n * s
      BY <1>1, <1>9, <1>11, TimesMonotone
    <2>2. (RAY * sr) * s = RAY * (sr * s)
      BY <1>1, <1>11, TimesOrder
    <2>3. n * s \in Nat /\ (br * w) * k \in Nat /\ (RAY * sr) * s \in Nat
      BY <1>1, <1>4, <1>9, <2>1, TimesNat
    <2> QED BY <1>10, <2>1, <2>2, <2>3
  <1> QED BY <1>4, <1>12 DEF Fair, br, k

(* Larger debts make the rates no less fair. *)
LEMMA FairMonotone ==
    ASSUME NEW rate \in Nat, NEW known \in Nat, NEW paying \in Nat, NEW w \in Nat, NEW v \in Nat,
           w <= v, NEW f \in Factors, Fair(rate, known, paying, w, f)
    PROVE  Fair(rate, known, paying, v, f)
  <1> DEFINE k == Kept(f)
             x == RAY * (rate * known)
  <1>1. k \in Nat /\ x \in Nat
    BY RateConstants, KeptExact, TimesNat
  <1>2. x <= (paying * w) * k
    BY DEF Fair
  <1> HIDE DEF k, x
  <1>3. paying * w \in Nat /\ paying * v \in Nat /\ paying * w <= paying * v
    BY TimesMonotone
  <1>4. (paying * w) * k <= (paying * v) * k /\ (paying * w) * k \in Nat /\ (paying * v) * k \in Nat
    BY <1>1, <1>3, TimesMonotone
  <1>5. x <= (paying * v) * k
    BY <1>1, <1>2, <1>4
  <1> QED BY <1>5 DEF Fair, k, x

(* What the tokens move.  Amounts are in the underlying; mints of deposits  *)
(* are rounded down and burns up, so neither costs the pool anything.      *)

LEMMA ScaledBounds ==
    ASSUME NEW n \in Nat, NEW i \in Nat, i >= RAY
    PROVE  /\ ScaledDown(n, i) \in Nat /\ ScaledUp(n, i) \in Nat
           /\ ScaledDown(n, i) * i <= n * RAY /\ n * RAY <= (ScaledDown(n, i) + 1) * i
           /\ n * RAY <= ScaledUp(n, i) * i /\ ScaledUp(n, i) * i <= n * RAY + i
  <1> DEFINE m == n * RAY
             down == m \div i
             p == m + i - 1
             up == p \div i
  <1>1. i \in Nat \ {0} /\ m \in Nat
    BY RateConstants, TimesNat
  <1>2. ScaledDown(n, i) = down /\ ScaledUp(n, i) = up
    BY DEF ScaledDown, ScaledUp
  <1> HIDE DEF m
  <1>3. p \in Nat
    BY <1>1
  <1>4. down \in Nat /\ i * down <= m /\ m < i * (down + 1)
    BY <1>1, QuotientBounds
  <1>5. up \in Nat /\ i * up <= p /\ p < i * (up + 1)
    BY <1>1, <1>3, QuotientBounds
  <1> HIDE DEF down, up
  <1>6. i * (down + 1) = (down + 1) * i /\ i * down = down * i /\ i * up = up * i
        /\ i * (up + 1) = up * i + i /\ up * i \in Nat /\ (down + 1) * i \in Nat
    BY <1>1, <1>4, <1>5
  <1>7. down * i <= m /\ m <= (down + 1) * i /\ m <= up * i /\ up * i <= m + i
    BY <1>1, <1>4, <1>5, <1>6
  <1> QED BY <1>2, <1>4, <1>5, <1>7 DEF m

(* The books that the following lemmas move. *)
BooksOf(lent, i, accrued, held, owed, j, cost) ==
    /\ lent \in Nat /\ i \in Nat /\ i >= RAY /\ accrued \in Nat /\ held \in Nat
    /\ owed \in Nat /\ j \in Nat /\ j >= RAY /\ cost \in Nat
    /\ Covers(lent, i, accrued, held, owed, j, cost)

LEMMA DepositCovered ==
    ASSUME NEW lent, NEW i, NEW accrued, NEW held, NEW owed, NEW j, NEW cost,
           BooksOf(lent, i, accrued, held, owed, j, cost), NEW amount \in Nat
    PROVE  Covers(lent + ScaledDown(amount, i), i, accrued, held + amount, owed, j, cost)
  <1> DEFINE x == ScaledDown(amount, i)
  <1>1. /\ lent \in Nat /\ i \in Nat /\ i >= RAY /\ accrued \in Nat /\ held \in Nat /\ owed \in Nat
        /\ j \in Nat /\ cost \in Nat /\ RAY \in Nat
        /\ lent * i + RAY * accrued <= RAY * held + owed * j + cost
    BY RateConstants DEF BooksOf, Covers
  <1>2. x \in Nat /\ x * i <= amount * RAY
    BY <1>1, ScaledBounds
  <1> HIDE DEF x
  <1>3. (lent + x) * i = lent * i + x * i /\ RAY * (held + amount) = RAY * held + amount * RAY
    BY <1>1, <1>2
  <1>4. /\ lent * i \in Nat /\ x * i \in Nat /\ RAY * held \in Nat /\ amount * RAY \in Nat
        /\ RAY * accrued \in Nat /\ owed * j \in Nat
    BY <1>1, <1>2, TimesNat
  <1>5. (lent + x) * i + RAY * accrued <= RAY * (held + amount) + owed * j + cost
    BY <1>1, <1>2, <1>3, <1>4
  <1> QED BY <1>5 DEF Covers, x

LEMMA WithdrawalCovered ==
    ASSUME NEW lent, NEW i, NEW accrued, NEW held, NEW owed, NEW j, NEW cost,
           BooksOf(lent, i, accrued, held, owed, j, cost), NEW amount \in Nat, amount <= held,
           ScaledUp(amount, i) <= lent
    PROVE  Covers(lent - ScaledUp(amount, i), i, accrued, held - amount, owed, j, cost)
  <1> DEFINE x == ScaledUp(amount, i)
  <1>1. /\ lent \in Nat /\ i \in Nat /\ i >= RAY /\ accrued \in Nat /\ held \in Nat /\ owed \in Nat
        /\ j \in Nat /\ cost \in Nat /\ RAY \in Nat
        /\ lent * i + RAY * accrued <= RAY * held + owed * j + cost
    BY RateConstants DEF BooksOf, Covers
  <1>2. x \in Nat /\ amount * RAY <= x * i
    BY <1>1, ScaledBounds
  <1> HIDE DEF x
  <1>3. (lent - x) * i = lent * i - x * i /\ RAY * (held - amount) = RAY * held - amount * RAY
    BY <1>1, <1>2
  <1>4. /\ lent * i \in Nat /\ x * i \in Nat /\ RAY * held \in Nat /\ amount * RAY \in Nat
        /\ RAY * accrued \in Nat /\ owed * j \in Nat
    BY <1>1, <1>2, TimesNat
  <1>5. (lent - x) * i + RAY * accrued <= RAY * (held - amount) + owed * j + cost
    BY <1>1, <1>2, <1>3, <1>4
  <1> QED BY <1>5 DEF Covers, x

(* A loan is rounded down: under one scaled unit is not owed. *)
LEMMA LoanCovered ==
    ASSUME NEW lent, NEW i, NEW accrued, NEW held, NEW owed, NEW j, NEW cost,
           BooksOf(lent, i, accrued, held, owed, j, cost), NEW amount \in Nat, amount <= held
    PROVE  Covers(lent, i, accrued, held - amount, owed + ScaledDown(amount, j), j, cost + j)
  <1> DEFINE x == ScaledDown(amount, j)
  <1>1. /\ lent \in Nat /\ i \in Nat /\ j >= RAY /\ accrued \in Nat /\ held \in Nat /\ owed \in Nat
        /\ j \in Nat /\ cost \in Nat /\ RAY \in Nat
        /\ lent * i + RAY * accrued <= RAY * held + owed * j + cost
    BY RateConstants DEF BooksOf, Covers
  <1>2. x \in Nat /\ amount * RAY <= (x + 1) * j
    BY <1>1, ScaledBounds
  <1> HIDE DEF x
  <1>3. /\ (owed + x) * j = owed * j + x * j /\ RAY * (held - amount) = RAY * held - amount * RAY
        /\ (x + 1) * j = x * j + j
    BY <1>1, <1>2
  <1>4. /\ lent * i \in Nat /\ x * j \in Nat /\ RAY * held \in Nat /\ amount * RAY \in Nat
        /\ RAY * accrued \in Nat /\ owed * j \in Nat
    BY <1>1, <1>2, TimesNat
  <1>5. lent * i + RAY * accrued <= RAY * (held - amount) + (owed + x) * j + (cost + j)
    BY <1>1, <1>2, <1>3, <1>4
  <1> QED BY <1>5 DEF Covers, x

(* A repayment is rounded up: under one scaled unit of debt is forgiven. *)
LEMMA RepaymentCovered ==
    ASSUME NEW lent, NEW i, NEW accrued, NEW held, NEW owed, NEW j, NEW cost,
           BooksOf(lent, i, accrued, held, owed, j, cost), NEW amount \in Nat,
           NEW x \in Nat, x <= owed, x <= ScaledUp(amount, j)
    PROVE  Covers(lent, i, accrued, held + amount, owed - x, j, cost + IF x = 0 THEN 0 ELSE j)
  <1> DEFINE y == ScaledUp(amount, j)
  <1>1. /\ lent \in Nat /\ i \in Nat /\ j >= RAY /\ accrued \in Nat /\ held \in Nat /\ owed \in Nat
        /\ j \in Nat /\ cost \in Nat /\ RAY \in Nat
        /\ lent * i + RAY * accrued <= RAY * held + owed * j + cost
    BY RateConstants DEF BooksOf, Covers
  <1>2. y \in Nat /\ y * j <= amount * RAY + j
    BY <1>1, ScaledBounds
  <1>3. x <= y
    OBVIOUS
  <1> HIDE DEF y
  <1>4. x * j <= y * j /\ x * j \in Nat /\ y * j \in Nat
    BY <1>1, <1>2, <1>3, TimesMonotone
  <1>5. (owed - x) * j = owed * j - x * j /\ RAY * (held + amount) = RAY * held + amount * RAY
        /\ (x = 0 => x * j = 0)
    BY <1>1
  <1>6. /\ lent * i \in Nat /\ RAY * held \in Nat /\ amount * RAY \in Nat
        /\ RAY * accrued \in Nat /\ owed * j \in Nat
    BY <1>1, TimesNat
  <1>7. lent * i + RAY * accrued
          <= RAY * (held + amount) + (owed - x) * j + (cost + IF x = 0 THEN 0 ELSE j)
    BY <1>1, <1>2, <1>4, <1>5, <1>6
  <1> QED BY <1>7 DEF Covers

(* What has accrued to the treasury is minted, rounded down. *)
LEMMA TreasuryCovered ==
    ASSUME NEW lent, NEW i, NEW accrued, NEW held, NEW owed, NEW j, NEW cost,
           BooksOf(lent, i, accrued, held, owed, j, cost)
    PROVE  Covers(lent + ScaledDown(accrued, i), i, 0, held, owed, j, cost)
  <1> DEFINE x == ScaledDown(accrued, i)
  <1>1. /\ lent \in Nat /\ i \in Nat /\ i >= RAY /\ accrued \in Nat /\ held \in Nat /\ owed \in Nat
        /\ j \in Nat /\ cost \in Nat /\ RAY \in Nat
        /\ lent * i + RAY * accrued <= RAY * held + owed * j + cost
    BY RateConstants DEF BooksOf, Covers
  <1>2. x \in Nat /\ x * i <= accrued * RAY
    BY <1>1, ScaledBounds
  <1> HIDE DEF x
  <1>3. (lent + x) * i = lent * i + x * i /\ accrued * RAY = RAY * accrued /\ RAY * 0 = 0
    BY <1>1, <1>2
  <1>4. /\ lent * i \in Nat /\ x * i \in Nat /\ RAY * held \in Nat
        /\ RAY * accrued \in Nat /\ owed * j \in Nat
    BY <1>1, <1>2, TimesNat
  <1>5. (lent + x) * i + RAY * 0 <= RAY * held + owed * j + cost
    BY <1>1, <1>2, <1>3, <1>4
  <1> QED BY <1>5 DEF Covers, x

(* What a share of a premium adds to the index of these deposits. *)
Gain(share, lent) == IF lent > 0 THEN (share * RAY) \div lent ELSE 0

(* A premium is shared out: the index of the suppliers, rounded down, gains *)
(* them no more than their share.                                          *)
LEMMA PremiumCovered ==
    ASSUME NEW lent, NEW i, NEW accrued, NEW held, NEW owed, NEW j, NEW cost,
           BooksOf(lent, i, accrued, held, owed, j, cost),
           NEW part \in Nat, NEW share \in Nat
    PROVE  /\ Gain(share, Unscaled(lent, i)) \in Nat
           /\ Covers(lent, i + Gain(share, Unscaled(lent, i)), accrued + part,
                     held + (part + share), owed, j, cost)
  <1> DEFINE s == Unscaled(lent, i)
             gain == Gain(share, s)
             n == share * RAY
             q == n \div s
  <1>1. /\ lent \in Nat /\ i \in Nat /\ i >= RAY /\ accrued \in Nat /\ held \in Nat /\ owed \in Nat
        /\ j \in Nat /\ cost \in Nat /\ RAY \in Nat
        /\ lent * i + RAY * accrued <= RAY * held + owed * j + cost
    BY RateConstants DEF BooksOf, Covers
  <1>2. s \in Nat /\ s >= lent /\ n \in Nat
    BY <1>1, UnscaledNat, UnscaledAtLeast, TimesNat
  <1>3. gain = IF s > 0 THEN q ELSE 0
    BY DEF Gain
  <1> HIDE DEF s, n, gain
  <1>4. gain \in Nat /\ lent * gain <= n
    <2>1. CASE s = 0
      <3>1. gain = 0
        BY <1>3, <2>1
      <3> QED BY <1>1, <1>2, <3>1
    <2>2. CASE s > 0
      <3>1. q \in Nat /\ s * q <= n /\ gain = q
        BY <1>2, <1>3, <2>2, QuotientBounds
      <3> HIDE DEF q
      <3>2. lent * q <= s * q /\ lent * q \in Nat /\ s * q \in Nat
        BY <1>1, <1>2, <3>1, TimesMonotone
      <3> QED BY <1>2, <3>1, <3>2
    <2> QED BY <1>2, <2>1, <2>2
  <1>5. /\ lent * (i + gain) = lent * i + lent * gain /\ RAY * (accrued + part) = RAY * accrued + RAY * part
        /\ RAY * (held + (part + share)) = RAY * held + RAY * part + share * RAY
    BY <1>1, <1>4
  <1>6. /\ lent * i \in Nat /\ lent * gain \in Nat /\ RAY * held \in Nat /\ RAY * part \in Nat
        /\ RAY * accrued \in Nat /\ owed * j \in Nat /\ share * RAY \in Nat /\ n = share * RAY
    BY <1>1, <1>4, TimesNat DEF n
  <1>7. lent * (i + gain) + RAY * (accrued + part)
          <= RAY * (held + (part + share)) + owed * j + cost
    BY <1>1, <1>4, <1>5, <1>6
  <1> QED BY <1>4, <1>7 DEF Covers, gain, s

-----------------------------------------------------------------------------
(* The solvency of a reserve, step by step. *)

(* With the interest it has booked, a reserve is covered, and its rates are *)
(* fair to the deposits it knew when they were set, which have only grown. *)
SolventAt(a) ==
    /\ rated[a] \in Nat /\ unbacked[a] \in Nat
    /\ Covers(gSupply[a], reserve[a].liquidityIndex, reserve[a].accruedToTreasury, cash[a],
              debtSupply[a], reserve[a].borrowIndex, unbacked[a])
    /\ rated[a] <= Unscaled(gSupply[a], reserve[a].liquidityIndex)
    /\ Fair(reserve[a].supplyRate, rated[a], reserve[a].borrowRate,
            Unscaled(debtSupply[a], reserve[a].borrowIndex), reserve[a].factor)

(* The histories are functions of the assets. *)
HistoryShape ==
    /\ rated = [a \in Assets |-> rated[a]]
    /\ unbacked = [a \in Assets |-> unbacked[a]]

SolvencyInv == LendInv /\ HistoryShape /\ \A a \in Assets : SolventAt(a)

(* The same with the interest since then, which is not booked yet. *)
BookedSolvent(a) ==
    /\ Updated(a) \in ReserveData /\ Unbacked(a) \in Nat /\ rated[a] \in Nat
    /\ BooksOf(gSupply[a], Updated(a).liquidityIndex, Updated(a).accruedToTreasury, cash[a],
               debtSupply[a], Updated(a).borrowIndex, Unbacked(a))
    /\ rated[a] <= Unscaled(gSupply[a], Updated(a).liquidityIndex)
    /\ Fair(Updated(a).supplyRate, rated[a], Updated(a).borrowRate,
            Unscaled(debtSupply[a], Updated(a).borrowIndex), Updated(a).factor)

(* The interest that Updated books, in the terms of the lemmas above. *)
LEMMA UpdatedFields ==
    ASSUME NEW a \in Assets, reserve[a] \in ReserveData,
           NEW w, w = Unscaled(debtSupply[a], reserve[a].borrowIndex),
           NEW time, time = now - reserve[a].lastUpdate,
           NEW idle, idle = (~reserve[a].isActive \/ time = 0 \/ w = 0)
    PROVE  /\ Updated(a).supplyRate = reserve[a].supplyRate
           /\ Updated(a).borrowRate = reserve[a].borrowRate
           /\ Updated(a).factor = reserve[a].factor
           /\ idle => /\ Updated(a).liquidityIndex = reserve[a].liquidityIndex
                      /\ Updated(a).borrowIndex = reserve[a].borrowIndex
                      /\ Updated(a).accruedToTreasury = reserve[a].accruedToTreasury
                      /\ BookingCost(a) = 0
           /\ ~idle => /\ Updated(a).liquidityIndex
                            = Grown(reserve[a].liquidityIndex, reserve[a].supplyRate, time)
                       /\ Updated(a).borrowIndex
                            = Grown(reserve[a].borrowIndex, reserve[a].borrowRate, time)
                       /\ Updated(a).accruedToTreasury = reserve[a].accruedToTreasury
                            + TreasuryPart(w, reserve[a].borrowRate, time, reserve[a].factor)
                       /\ BookingCost(a) = debtSupply[a] + reserve[a].supplyRate * time
                            * (Unscaled(gSupply[a], reserve[a].liquidityIndex) - rated[a] + 1)
  <1> DEFINE r == reserve[a]
             li == Grown(r.liquidityIndex, r.supplyRate, time)
             bi == Grown(r.borrowIndex, r.borrowRate, time)
             acc == r.accruedToTreasury + TreasuryPart(w, r.borrowRate, time, r.factor)
  <1>1. r \in ReserveData
    OBVIOUS
  <1>2. Updated(a) = IF ~r.isActive \/ time = 0 THEN r
                     ELSE IF w = 0 THEN [r EXCEPT !.lastUpdate = now]
                     ELSE [r EXCEPT !.lastUpdate = now, !.borrowIndex = bi,
                                    !.liquidityIndex = li, !.accruedToTreasury = acc]
    BY DEF Updated, TreasuryPart
  <1>3. BookingCost(a) = IF idle THEN 0 ELSE debtSupply[a] + r.supplyRate * time
                            * (Unscaled(gSupply[a], r.liquidityIndex) - rated[a] + 1)
    BY DEF BookingCost
  <1>0. idle <=> (~r.isActive \/ time = 0 \/ w = 0)
    OBVIOUS
  <1> HIDE DEF r, li, bi, acc
  <1>4. CASE idle
    <2>1. Updated(a) = r \/ Updated(a) = [r EXCEPT !.lastUpdate = now]
      <3>1. CASE ~r.isActive \/ time = 0
        BY <1>2, <3>1
      <3>2. CASE ~(~r.isActive \/ time = 0)
        BY <1>0, <1>2, <1>4, <3>2
      <3> QED BY <3>1, <3>2
    <2>2. /\ Updated(a).liquidityIndex = r.liquidityIndex /\ Updated(a).borrowIndex = r.borrowIndex
          /\ Updated(a).accruedToTreasury = r.accruedToTreasury /\ Updated(a).factor = r.factor
          /\ Updated(a).supplyRate = r.supplyRate /\ Updated(a).borrowRate = r.borrowRate
      BY <1>1, <2>1 DEF ReserveData
    <2> QED BY <1>3, <1>4, <2>2 DEF r
  <1>5. CASE ~idle
    <2>1. Updated(a) = [r EXCEPT !.lastUpdate = now, !.borrowIndex = bi,
                                 !.liquidityIndex = li, !.accruedToTreasury = acc]
      BY <1>0, <1>2, <1>5
    <2>2. /\ Updated(a).liquidityIndex = li /\ Updated(a).borrowIndex = bi
          /\ Updated(a).accruedToTreasury = acc /\ Updated(a).factor = r.factor
          /\ Updated(a).supplyRate = r.supplyRate /\ Updated(a).borrowRate = r.borrowRate
      BY <1>1, <2>1 DEF ReserveData
    <2>3. BookingCost(a) = debtSupply[a] + r.supplyRate * time
                            * (Unscaled(gSupply[a], r.liquidityIndex) - rated[a] + 1)
      BY <1>3, <1>5
    <2> QED BY <1>5, <2>2, <2>3 DEF r, li, bi, acc
  <1> QED BY <1>4, <1>5

(* Booking the interest leaves a reserve covered, at BookingCost. *)
LEMMA BookingSolvent ==
    ASSUME LendInv, NEW a \in Assets, SolventAt(a)
    PROVE  BookedSolvent(a)
  <1> DEFINE i == reserve[a].liquidityIndex
             j == reserve[a].borrowIndex
             sr == reserve[a].supplyRate
             br == reserve[a].borrowRate
             acc == reserve[a].accruedToTreasury
             f == reserve[a].factor
             lent == gSupply[a]
             owed == debtSupply[a]
             held == cash[a]
             known == rated[a]
             cost == unbacked[a]
             s == Unscaled(lent, i)
             w == Unscaled(owed, j)
             time == now - reserve[a].lastUpdate
             idle == ~reserve[a].isActive \/ time = 0 \/ w = 0
  <1>1. /\ reserve[a] \in ReserveData /\ lent \in Nat /\ owed \in Nat /\ held \in Nat /\ time \in Nat
    BY ReserveFacts, Unmoved DEF ReserveSound
  <1>2. /\ i \in Nat /\ j \in Nat /\ sr \in Nat /\ br \in Nat /\ acc \in Nat /\ f \in Factors
    BY <1>1, FieldTypes
  <1>3. /\ known \in Nat /\ cost \in Nat /\ Covers(lent, i, acc, held, owed, j, cost)
        /\ known <= s /\ Fair(sr, known, br, w, f)
    BY DEF SolventAt
  <1>4. /\ Updated(a).liquidityIndex \in Nat /\ Updated(a).liquidityIndex >= RAY
        /\ Updated(a).borrowIndex \in Nat /\ Updated(a).borrowIndex >= RAY
        /\ Updated(a).accruedToTreasury \in Nat /\ Updated(a) \in ReserveData
    BY UpdatedIndexes, UpdatedSound DEF ReserveSound
  <1>5. /\ Updated(a).supplyRate = sr /\ Updated(a).borrowRate = br /\ Updated(a).factor = f
        /\ idle => /\ Updated(a).liquidityIndex = i /\ Updated(a).borrowIndex = j
                   /\ Updated(a).accruedToTreasury = acc /\ BookingCost(a) = 0
        /\ ~idle => /\ Updated(a).liquidityIndex = Grown(i, sr, time)
                    /\ Updated(a).borrowIndex = Grown(j, br, time)
                    /\ Updated(a).accruedToTreasury = acc + TreasuryPart(w, br, time, f)
                    /\ BookingCost(a) = owed + sr * time * (s - known + 1)
    BY <1>1, UpdatedFields, Zenon
  <1>6. Unbacked(a) = cost + BookingCost(a)
    BY DEF Unbacked
  <1> HIDE DEF i, j, sr, br, acc, f, lent, owed, held, known, cost, time, idle
  <1>7. s \in Nat /\ w \in Nat
    BY <1>1, <1>2, UnscaledNat
  <1>8. CASE idle
    <2>1. Unbacked(a) = cost
      BY <1>3, <1>5, <1>6, <1>8
    <2>2. BooksOf(lent, Updated(a).liquidityIndex, Updated(a).accruedToTreasury, held, owed,
                  Updated(a).borrowIndex, Unbacked(a))
      BY <1>1, <1>3, <1>4, <1>5, <1>8, <2>1 DEF BooksOf
    <2>3. /\ known <= Unscaled(lent, Updated(a).liquidityIndex)
          /\ Fair(Updated(a).supplyRate, known, Updated(a).borrowRate,
                  Unscaled(owed, Updated(a).borrowIndex), Updated(a).factor)
      BY <1>3, <1>5, <1>8
    <2> QED BY <1>3, <1>4, <2>1, <2>2, <2>3 DEF BookedSolvent, lent, owed, held, known
  <1>9. CASE ~idle
    <2> DEFINE i2 == Grown(i, sr, time)
               j2 == Grown(j, br, time)
               acc2 == acc + TreasuryPart(w, br, time, f)
               extra == owed + sr * time * (s - known + 1)
    <2>1. Covers(lent, i2, acc2, held, owed, j2, cost + extra)
      BY <1>1, <1>2, <1>3, BookingCovered
    <2>2. extra \in Nat
      <3>1. s - known + 1 \in Nat /\ sr * time \in Nat
        BY <1>1, <1>2, <1>3, <1>7, TimesNat
      <3> HIDE DEF s
      <3>2. sr * time * (s - known + 1) \in Nat
        BY <3>1, TimesNat
      <3> QED BY <1>1, <3>2
    <2>3. i2 \in Nat /\ i2 >= i /\ j2 \in Nat /\ j2 >= j
      BY <1>1, <1>2, GrownSound
    <2>4. /\ Updated(a).liquidityIndex = i2 /\ Updated(a).borrowIndex = j2
          /\ Updated(a).accruedToTreasury = acc2 /\ Unbacked(a) = cost + extra
      BY <1>5, <1>6, <1>9
    <2> HIDE DEF i2, j2, acc2, extra
    <2>5. cost + extra \in Nat
      BY <1>3, <2>2
    <2>6. BooksOf(lent, Updated(a).liquidityIndex, Updated(a).accruedToTreasury, held, owed,
                  Updated(a).borrowIndex, Unbacked(a))
      BY <1>1, <1>4, <2>1, <2>4, <2>5 DEF BooksOf
    <2>7. s <= Unscaled(lent, i2) /\ w <= Unscaled(owed, j2)
          /\ Unscaled(lent, i2) \in Nat /\ Unscaled(owed, j2) \in Nat
      <3>1. lent <= lent /\ owed <= owed /\ i <= i2 /\ j <= j2
        BY <1>1, <1>2, <2>3
      <3>2. Unscaled(lent, i) <= Unscaled(lent, i2)
        BY <1>1, <1>2, <2>3, <3>1, UnscaledMonotone
      <3>3. Unscaled(owed, j) <= Unscaled(owed, j2)
        BY <1>1, <1>2, <2>3, <3>1, UnscaledMonotone
      <3> QED BY <1>1, <2>3, <3>2, <3>3, UnscaledNat
    <2> HIDE DEF s, w
    <2>8. known <= Unscaled(lent, i2)
      BY <1>3, <1>7, <2>7
    <2>9. Fair(sr, known, br, Unscaled(owed, j2), f)
      BY <1>2, <1>3, <1>7, <2>7, FairMonotone
    <2> QED BY <1>3, <1>4, <1>5, <2>4, <2>5, <2>6, <2>8, <2>9 DEF BookedSolvent, lent, owed, held, known
  <1> QED BY <1>8, <1>9

(* A reserve that a step leaves alone stays solvent. *)
LEMMA SolventUntouched ==
    ASSUME NEW a \in Assets, SolventAt(a), reserve'[a] = reserve[a], gSupply'[a] = gSupply[a],
           debtSupply'[a] = debtSupply[a], cash'[a] = cash[a],
           rated'[a] = rated[a], unbacked'[a] = unbacked[a]
    PROVE  SolventAt(a)'
  BY DEF SolventAt

(* A reserve that is covered is solvent with new rates for its deposits. *)
LEMMA SolventRated ==
    ASSUME NEW a \in Assets, NEW r \in ReserveData,
           gSupply'[a] \in Nat, debtSupply'[a] \in Nat,
           reserve'[a] = WithRates(r, gSupply'[a], debtSupply'[a]),
           rated'[a] = Unscaled(gSupply'[a], r.liquidityIndex), unbacked'[a] \in Nat,
           Covers(gSupply'[a], r.liquidityIndex, r.accruedToTreasury, cash'[a],
                  debtSupply'[a], r.borrowIndex, unbacked'[a])
    PROVE  SolventAt(a)'
  <1> DEFINE i == r.liquidityIndex
             j == r.borrowIndex
             f == r.factor
             s == Unscaled(gSupply'[a], i)
             w == Unscaled(debtSupply'[a], j)
             u == Utilization(s, w)
             br == BorrowRate(u)
             sr == SupplyRate(u, f)
  <1>1. i \in Nat /\ j \in Nat /\ f \in Factors
    BY FieldTypes
  <1>2. reserve'[a] = [r EXCEPT !.borrowRate = br, !.supplyRate = sr]
    BY DEF WithRates
  <1> HIDE DEF br, sr
  <1>3. /\ reserve'[a].liquidityIndex = i /\ reserve'[a].borrowIndex = j
        /\ reserve'[a].factor = f /\ reserve'[a].accruedToTreasury = r.accruedToTreasury
        /\ reserve'[a].borrowRate = br /\ reserve'[a].supplyRate = sr
    BY <1>2 DEF ReserveData
  <1>4. Covers(gSupply'[a], i, r.accruedToTreasury, cash'[a], debtSupply'[a], j, unbacked'[a])
    OBVIOUS
  <1> HIDE DEF i, j, f
  <1>5. s \in Nat /\ w \in Nat /\ rated'[a] = s
    <2>1. rated'[a] = s
      BY DEF i
    <2> QED BY <1>1, <2>1, UnscaledNat
  <1> HIDE DEF s, w
  <1>6. Fair(sr, s, br, w, f)
    BY <1>1, <1>5, RatesFair DEF br, sr
  <1>7. /\ rated'[a] \in Nat /\ rated'[a] <= s /\ Fair(sr, rated'[a], br, w, f)
    BY <1>5, <1>6
  <1> QED BY <1>3, <1>4, <1>7 DEF SolventAt, s, w

(* A call that covers the reserves it touches, and sets their rates. *)
CoveredAfter(a) ==
    Covers(gSupply'[a], Updated(a).liquidityIndex, Updated(a).accruedToTreasury, cash'[a],
           debtSupply'[a], Updated(a).borrowIndex,
           Unbacked(a) + IF debtSupply'[a] = debtSupply[a] THEN 0 ELSE Updated(a).borrowIndex)

LEMMA RefreshSolvent ==
    ASSUME SolvencyInv, NEW touched, Refresh(touched),
           gSupply' \in [Assets -> Nat], debtSupply' \in [Assets -> Nat],
           \A a \in Assets : a \in touched => CoveredAfter(a),
           \A a \in Assets : a \notin touched => /\ gSupply'[a] = gSupply[a]
                                                 /\ debtSupply'[a] = debtSupply[a]
                                                 /\ cash'[a] = cash[a]
    PROVE  HistoryShape' /\ \A a \in Assets : SolventAt(a)'
  <1>1. HistoryShape'
    <2>1. /\ rated' = [a \in Assets |-> rated'[a]]
          /\ unbacked' = [a \in Assets |-> unbacked'[a]]
      BY DEF Refresh
    <2> QED BY <2>1 DEF HistoryShape
  <1>2. ASSUME NEW a \in Assets, a \notin touched PROVE SolventAt(a)'
    <2>1. reserve'[a] = reserve[a] /\ rated'[a] = rated[a] /\ unbacked'[a] = unbacked[a]
      BY <1>2 DEF Refresh
    <2> QED BY <1>2, <2>1, SolventUntouched DEF SolvencyInv
  <1>3. ASSUME NEW a \in Assets, a \in touched PROVE SolventAt(a)'
    <2> DEFINE r == Updated(a)
               cost == Unbacked(a) + IF debtSupply'[a] = debtSupply[a] THEN 0 ELSE r.borrowIndex
    <2>1. BookedSolvent(a)
      BY BookingSolvent DEF SolvencyInv
    <2>2. r \in ReserveData /\ Unbacked(a) \in Nat /\ r.borrowIndex \in Nat
      BY <2>1 DEF BookedSolvent, BooksOf
    <2>3. cost \in Nat
      BY <2>2
    <2>4. /\ reserve'[a] = WithRates(r, gSupply'[a], debtSupply'[a])
          /\ rated'[a] = Unscaled(gSupply'[a], r.liquidityIndex) /\ unbacked'[a] = cost
      BY <1>3 DEF Refresh
    <2>5. Covers(gSupply'[a], r.liquidityIndex, r.accruedToTreasury, cash'[a],
                 debtSupply'[a], r.borrowIndex, cost)
      BY <1>3 DEF CoveredAfter
    <2> HIDE DEF r, cost
    <2>6. gSupply'[a] \in Nat /\ debtSupply'[a] \in Nat
      OBVIOUS
    <2> QED BY <2>2, <2>3, <2>4, <2>5, <2>6, SolventRated
  <1> QED BY <1>1, <1>2, <1>3

(* The books of a reserve at a call, and the types of the amounts in it. *)
LEMMA BooksAt ==
    ASSUME SolvencyInv, NEW a \in Assets
    PROVE  /\ BooksOf(gSupply[a], Updated(a).liquidityIndex, Updated(a).accruedToTreasury, cash[a],
                      debtSupply[a], Updated(a).borrowIndex, Unbacked(a))
           /\ gSupply[a] \in Nat /\ debtSupply[a] \in Nat /\ cash[a] \in Nat /\ Unbacked(a) \in Nat
           /\ Updated(a).liquidityIndex \in Nat /\ Updated(a).liquidityIndex >= RAY
           /\ Updated(a).borrowIndex \in Nat /\ Updated(a).borrowIndex >= RAY
           /\ gSupply \in [Assets -> Nat] /\ debtSupply \in [Assets -> Nat]
           /\ cash \in [Assets -> Nat]
           /\ \A u \in Users : /\ gToken[a][u] \in Nat /\ gToken[a][u] <= gSupply[a]
                               /\ debtToken[a][u] \in Nat /\ debtToken[a][u] <= debtSupply[a]
  <1>1. LendInv /\ SolventAt(a)
    BY DEF SolvencyInv
  <1>2. BookedSolvent(a)
    BY <1>1, BookingSolvent
  <1>3. /\ gSupply \in [Assets -> Nat] /\ debtSupply \in [Assets -> Nat] /\ cash \in [Assets -> Nat]
    BY <1>1, Unmoved
  <1>4. ASSUME NEW u \in Users
        PROVE  /\ gToken[a][u] \in Nat /\ gToken[a][u] <= gSupply[a]
               /\ debtToken[a][u] \in Nat /\ debtToken[a][u] <= debtSupply[a]
    BY <1>1, BalanceFacts, HoldersFinite DEF LendInv
  <1> QED BY <1>2, <1>3, <1>4 DEF BookedSolvent, BooksOf

(* One entry of a ledger moves. *)
LEMMA EntryMoves ==
    ASSUME NEW f, NEW S, f \in [Assets -> S], NEW a \in Assets, NEW x
    PROVE  /\ [f EXCEPT ![a] = x][a] = x
           /\ \A b \in Assets : b \notin {a} => [f EXCEPT ![a] = x][b] = f[b]
  OBVIOUS

LEMMA SupplySolvent ==
    ASSUME SolvencyInv, LendInv', NEW u \in Users, NEW a \in Assets, NEW amount \in Amounts,
           Supply(u, a, amount)
    PROVE  HistoryShape' /\ \A b \in Assets : SolventAt(b)'
  <1> DEFINE x == ScaledDown(amount, Updated(a).liquidityIndex)
  <1>1. /\ Refresh({a}) /\ debtSupply' = debtSupply
        /\ cash' = [cash EXCEPT ![a] = cash[a] + amount]
        /\ gSupply' = [gSupply EXCEPT ![a] = gSupply[a] + x]
    BY DEF Supply, PayIn, MintG
  <1>2. /\ gSupply'[a] = gSupply[a] + x /\ cash'[a] = cash[a] + amount
        /\ \A b \in Assets : b \notin {a} => gSupply'[b] = gSupply[b] /\ cash'[b] = cash[b]
    BY <1>1, BooksAt, EntryMoves
  <1>3. amount \in Nat
    BY ConstantTypes
  <1>4. Covers(gSupply[a] + x, Updated(a).liquidityIndex, Updated(a).accruedToTreasury,
               cash[a] + amount, debtSupply[a], Updated(a).borrowIndex, Unbacked(a))
    BY <1>3, BooksAt, DepositCovered, Zenon
  <1> HIDE DEF x
  <1>5. CoveredAfter(a)
    <2>1. Unbacked(a) + 0 = Unbacked(a)
      BY BooksAt
    <2> QED BY <1>1, <1>2, <1>4, <2>1 DEF CoveredAfter
  <1>6. gSupply' \in [Assets -> Nat] /\ debtSupply' \in [Assets -> Nat]
    BY DEF LendInv, TokenSound
  <1> QED BY <1>1, <1>2, <1>5, <1>6, RefreshSolvent

LEMMA WithdrawSolvent ==
    ASSUME SolvencyInv, LendInv', NEW u \in Users, NEW a \in Assets, NEW amount \in Nat,
           WithdrawSupply(u, a, amount)
    PROVE  HistoryShape' /\ \A b \in Assets : SolventAt(b)'
  <1> DEFINE x == ScaledUp(amount, Updated(a).liquidityIndex)
  <1>1. /\ Refresh({a}) /\ debtSupply' = debtSupply
        /\ cash' = [cash EXCEPT ![a] = cash[a] - amount] /\ cash[a] >= amount
        /\ gSupply' = [gSupply EXCEPT ![a] = gSupply[a] - x] /\ gToken[a][u] >= x
    BY DEF WithdrawSupply, PayOut, BurnG
  <1>2. /\ gSupply'[a] = gSupply[a] - x /\ cash'[a] = cash[a] - amount
        /\ \A b \in Assets : b \notin {a} => gSupply'[b] = gSupply[b] /\ cash'[b] = cash[b]
    BY <1>1, BooksAt, EntryMoves
  <1>3. amount <= cash[a] /\ x <= gSupply[a]
    <2>1. x \in Nat
      BY BooksAt, ScaledBounds
    <2> HIDE DEF x
    <2> QED BY <1>1, <2>1, BooksAt
  <1>4. Covers(gSupply[a] - x, Updated(a).liquidityIndex, Updated(a).accruedToTreasury,
               cash[a] - amount, debtSupply[a], Updated(a).borrowIndex, Unbacked(a))
    BY <1>3, BooksAt, WithdrawalCovered, Zenon
  <1> HIDE DEF x
  <1>5. CoveredAfter(a)
    <2>1. Unbacked(a) + 0 = Unbacked(a)
      BY BooksAt
    <2> QED BY <1>1, <1>2, <1>4, <2>1 DEF CoveredAfter
  <1>6. gSupply' \in [Assets -> Nat] /\ debtSupply' \in [Assets -> Nat]
    BY DEF LendInv, TokenSound
  <1> QED BY <1>1, <1>2, <1>5, <1>6, RefreshSolvent

LEMMA BorrowSolvent ==
    ASSUME SolvencyInv, LendInv', NEW u \in Users, NEW a \in Assets, NEW amount \in Amounts,
           Borrow(u, a, amount)
    PROVE  HistoryShape' /\ \A b \in Assets : SolventAt(b)'
  <1> DEFINE x == ScaledDown(amount, Updated(a).borrowIndex)
  <1>1. /\ Refresh({a}) /\ gSupply' = gSupply /\ x > 0
        /\ cash' = [cash EXCEPT ![a] = cash[a] - amount] /\ cash[a] >= amount
        /\ debtSupply' = [debtSupply EXCEPT ![a] = debtSupply[a] + x]
    BY DEF Borrow, PayOut, MintDebt
  <1>2. /\ debtSupply'[a] = debtSupply[a] + x /\ cash'[a] = cash[a] - amount
        /\ \A b \in Assets : b \notin {a} => debtSupply'[b] = debtSupply[b] /\ cash'[b] = cash[b]
    BY <1>1, BooksAt, EntryMoves
  <1>3. amount \in Nat
    BY ConstantTypes
  <1>4. amount <= cash[a] /\ debtSupply'[a] # debtSupply[a]
    <2>1. x \in Nat
      BY <1>3, BooksAt, ScaledBounds
    <2> HIDE DEF x
    <2> QED BY <1>1, <1>2, <1>3, <2>1, BooksAt
  <1>5. Covers(gSupply[a], Updated(a).liquidityIndex, Updated(a).accruedToTreasury,
               cash[a] - amount, debtSupply[a] + x, Updated(a).borrowIndex,
               Unbacked(a) + Updated(a).borrowIndex)
    BY <1>3, <1>4, BooksAt, LoanCovered, Zenon
  <1> HIDE DEF x
  <1>6. CoveredAfter(a)
    BY <1>1, <1>2, <1>4, <1>5 DEF CoveredAfter
  <1>7. gSupply' \in [Assets -> Nat] /\ debtSupply' \in [Assets -> Nat]
    BY DEF LendInv, TokenSound
  <1> QED BY <1>1, <1>2, <1>6, <1>7, RefreshSolvent

(* What a burn of debt takes from the total. *)
LEMMA DebtBurnt ==
    ASSUME SolvencyInv, NEW u \in Users, NEW a \in Assets, NEW amount \in Nat, BurnDebt(u, a, amount)
    PROVE  \E x \in Nat : /\ x <= debtSupply[a] /\ x <= ScaledUp(amount, Updated(a).borrowIndex)
                          /\ debtSupply'[a] = debtSupply[a] - x
                          /\ (debtSupply'[a] = debtSupply[a] <=> x = 0)
                          /\ \A b \in Assets : b \notin {a} => debtSupply'[b] = debtSupply[b]
  <1> DEFINE asked == ScaledUp(amount, Updated(a).borrowIndex)
             x == IF asked > debtToken[a][u] THEN debtToken[a][u] ELSE asked
  <1>1. debtSupply' = [debtSupply EXCEPT ![a] = debtSupply[a] - x]
    BY DEF BurnDebt
  <1>2. asked \in Nat
    BY BooksAt, ScaledBounds
  <1> HIDE DEF asked
  <1>3. x \in Nat /\ x <= debtSupply[a] /\ x <= asked
    BY <1>2, BooksAt
  <1> HIDE DEF x
  <1>4. /\ debtSupply'[a] = debtSupply[a] - x
        /\ \A b \in Assets : b \notin {a} => debtSupply'[b] = debtSupply[b]
    BY <1>1, BooksAt, EntryMoves
  <1>5. debtSupply'[a] = debtSupply[a] <=> x = 0
    BY <1>3, <1>4, BooksAt
  <1> QED BY <1>3, <1>4, <1>5 DEF asked

LEMMA RepaySolvent ==
    ASSUME SolvencyInv, LendInv', NEW u \in Users, NEW a \in Assets, NEW amount \in Amounts,
           Repay(u, a, amount)
    PROVE  HistoryShape' /\ \A b \in Assets : SolventAt(b)'
  <1> DEFINE debt == Unscaled(debtToken[a][u], Updated(a).borrowIndex)
             paid == IF amount > debt THEN debt ELSE amount
  <1>1. /\ Refresh({a}) /\ gSupply' = gSupply /\ BurnDebt(u, a, paid)
        /\ cash' = [cash EXCEPT ![a] = cash[a] + paid]
    BY DEF Repay, PayIn
  <1>2. paid \in Nat
    <2>1. amount \in Nat /\ debtToken[a][u] \in Nat
      BY ConstantTypes, BooksAt
    <2>2. debt \in Nat
      BY <2>1, BooksAt, UnscaledNat
    <2> HIDE DEF debt
    <2> QED BY <2>1, <2>2
  <1> HIDE DEF paid
  <1>3. /\ cash'[a] = cash[a] + paid
        /\ \A b \in Assets : b \notin {a} => cash'[b] = cash[b]
    BY <1>1, BooksAt, EntryMoves
  <1>4. PICK x \in Nat : /\ x <= debtSupply[a] /\ x <= ScaledUp(paid, Updated(a).borrowIndex)
                         /\ debtSupply'[a] = debtSupply[a] - x
                         /\ (debtSupply'[a] = debtSupply[a] <=> x = 0)
                         /\ \A b \in Assets : b \notin {a} => debtSupply'[b] = debtSupply[b]
    BY <1>1, <1>2, DebtBurnt
  <1>5. Covers(gSupply[a], Updated(a).liquidityIndex, Updated(a).accruedToTreasury,
               cash[a] + paid, debtSupply[a] - x, Updated(a).borrowIndex,
               Unbacked(a) + IF x = 0 THEN 0 ELSE Updated(a).borrowIndex)
    BY <1>2, <1>4, BooksAt, RepaymentCovered, Zenon
  <1>6. CoveredAfter(a)
    BY <1>1, <1>3, <1>4, <1>5 DEF CoveredAfter
  <1>7. gSupply' \in [Assets -> Nat] /\ debtSupply' \in [Assets -> Nat]
    BY DEF LendInv, TokenSound
  <1> QED BY <1>1, <1>3, <1>4, <1>6, <1>7, RefreshSolvent

(* A liquidation repays the debt in one reserve and withdraws the deposit   *)
(* from another, or from the same one.                                     *)
LEMMA LiquidateSolvent ==
    ASSUME SolvencyInv, LendInv', NEW u \in Users, NEW c \in Assets, NEW d \in Assets,
           NEW amount \in Amounts, Liquidate(u, c, d, amount)
    PROVE  HistoryShape' /\ \A b \in Assets : SolventAt(b)'
  <1>1. PICK covered \in Nat, taking \in Nat :
           /\ cash[c] + (IF c = d THEN covered ELSE 0) >= taking
           /\ cash' = [a \in Assets |-> cash[a] + (IF a = d THEN covered ELSE 0)
                                               - (IF a = c THEN taking ELSE 0)]
           /\ BurnDebt(u, d, covered) /\ BurnG(u, c, taking) /\ Refresh({c, d})
    BY LiquidateAmounts DEF SolvencyInv
  <1>2. PICK x \in Nat : /\ x <= debtSupply[d] /\ x <= ScaledUp(covered, Updated(d).borrowIndex)
                         /\ debtSupply'[d] = debtSupply[d] - x
                         /\ (debtSupply'[d] = debtSupply[d] <=> x = 0)
                         /\ \A b \in Assets : b \notin {d} => debtSupply'[b] = debtSupply[b]
    BY <1>1, DebtBurnt
  <1> DEFINE y == ScaledUp(taking, Updated(c).liquidityIndex)
  <1>3. y \in Nat
    BY BooksAt, ScaledBounds
  <1>4. /\ gSupply' = [gSupply EXCEPT ![c] = gSupply[c] - y] /\ gToken[c][u] >= y
    BY <1>1 DEF BurnG
  <1>5. y <= gSupply[c]
    <2> HIDE DEF y
    <2> QED BY <1>3, <1>4, BooksAt
  <1>6. /\ gSupply'[c] = gSupply[c] - y
        /\ \A b \in Assets : b \notin {c} => gSupply'[b] = gSupply[b]
    BY <1>4, BooksAt, EntryMoves
  <1>7. Covers(gSupply[d], Updated(d).liquidityIndex, Updated(d).accruedToTreasury,
               cash[d] + covered, debtSupply[d] - x, Updated(d).borrowIndex,
               Unbacked(d) + IF x = 0 THEN 0 ELSE Updated(d).borrowIndex)
    BY <1>2, BooksAt, RepaymentCovered, Zenon
  <1>8. \A a \in Assets : cash[a] \in Nat
    BY BooksAt
  <1>9. CASE c = d
    <2> DEFINE cost == Unbacked(d) + IF x = 0 THEN 0 ELSE Updated(d).borrowIndex
               held == cash[d] + covered
               owed == debtSupply[d] - x
    <2>1. cash'[d] = held - taking /\ taking <= held /\ held \in Nat
      BY <1>1, <1>8, <1>9
    <2>2. cost \in Nat /\ owed \in Nat
      BY <1>2, BooksAt
    <2>3. BooksOf(gSupply[d], Updated(d).liquidityIndex, Updated(d).accruedToTreasury, held,
                  owed, Updated(d).borrowIndex, cost)
      <3>1. Covers(gSupply[d], Updated(d).liquidityIndex, Updated(d).accruedToTreasury, held,
                   owed, Updated(d).borrowIndex, cost)
        BY <1>7
      <3> HIDE DEF held, owed, cost
      <3> QED BY <2>1, <2>2, <3>1, BooksAt DEF BooksOf
    <2>4. y = ScaledUp(taking, Updated(d).liquidityIndex) /\ y <= gSupply[d]
      BY <1>5, <1>9
    <2> HIDE DEF y, held, owed, cost
    <2>5. Covers(gSupply[d] - y, Updated(d).liquidityIndex, Updated(d).accruedToTreasury,
                 held - taking, owed, Updated(d).borrowIndex, cost)
      <3>1. ScaledUp(taking, Updated(d).liquidityIndex) <= gSupply[d] /\ taking <= held
        BY <2>1, <2>4
      <3>2. Covers(gSupply[d] - ScaledUp(taking, Updated(d).liquidityIndex),
                   Updated(d).liquidityIndex, Updated(d).accruedToTreasury,
                   held - taking, owed, Updated(d).borrowIndex, cost)
        BY <2>3, <3>1, WithdrawalCovered, Zenon
      <3> QED BY <2>4, <3>2
    <2>6. gSupply'[d] = gSupply[d] - y
      BY <1>6, <1>9
    <2>7. CoveredAfter(d)
      BY <1>2, <2>1, <2>5, <2>6 DEF CoveredAfter, cost, owed
    <2>8. \A b \in Assets : b \in {c, d} => CoveredAfter(b)
      BY <1>9, <2>7
    <2>9. \A b \in Assets : b \notin {c, d} => /\ gSupply'[b] = gSupply[b]
                                               /\ debtSupply'[b] = debtSupply[b]
                                               /\ cash'[b] = cash[b]
      BY <1>1, <1>2, <1>6, <1>8
    <2>10. gSupply' \in [Assets -> Nat] /\ debtSupply' \in [Assets -> Nat]
      BY DEF LendInv, TokenSound
    <2> QED BY <1>1, <2>8, <2>9, <2>10, RefreshSolvent
  <1>10. CASE c # d
    <2>1. /\ cash'[d] = cash[d] + covered /\ cash'[c] = cash[c] - taking /\ taking <= cash[c]
          /\ gSupply'[d] = gSupply[d] /\ debtSupply'[c] = debtSupply[c]
      BY <1>1, <1>2, <1>6, <1>8, <1>10
    <2>2. CoveredAfter(d)
      BY <1>2, <1>7, <2>1 DEF CoveredAfter
    <2>3. Covers(gSupply[c] - y, Updated(c).liquidityIndex, Updated(c).accruedToTreasury,
                 cash[c] - taking, debtSupply[c], Updated(c).borrowIndex, Unbacked(c))
      BY <1>5, <2>1, BooksAt, WithdrawalCovered, Zenon
    <2> HIDE DEF y
    <2>4. CoveredAfter(c)
      <3>1. Unbacked(c) + 0 = Unbacked(c)
        BY BooksAt
      <3> QED BY <1>6, <2>1, <2>3, <3>1 DEF CoveredAfter
    <2>5. \A b \in Assets : b \in {c, d} => CoveredAfter(b)
      BY <2>2, <2>4
    <2>6. \A b \in Assets : b \notin {c, d} => /\ gSupply'[b] = gSupply[b]
                                               /\ debtSupply'[b] = debtSupply[b]
                                               /\ cash'[b] = cash[b]
      BY <1>1, <1>2, <1>6, <1>8
    <2>7. gSupply' \in [Assets -> Nat] /\ debtSupply' \in [Assets -> Nat]
      BY DEF LendInv, TokenSound
    <2> QED BY <1>1, <2>5, <2>6, <2>7, RefreshSolvent
  <1> QED BY <1>9, <1>10

(* One reserve moves, and the histories keep their shape. *)
LEMMA OneSolvent ==
    ASSUME SolvencyInv, NEW a \in Assets, SolventAt(a)', HistoryShape',
           \A b \in Assets : b \notin {a} =>
              /\ reserve'[b] = reserve[b] /\ gSupply'[b] = gSupply[b]
              /\ debtSupply'[b] = debtSupply[b] /\ cash'[b] = cash[b]
              /\ rated'[b] = rated[b] /\ unbacked'[b] = unbacked[b]
    PROVE  HistoryShape' /\ \A b \in Assets : SolventAt(b)'
  <1>1. ASSUME NEW b \in Assets, b \notin {a} PROVE SolventAt(b)'
    <2>1. SolventAt(b)
      BY DEF SolvencyInv
    <2> QED BY <1>1, <2>1, SolventUntouched
  <1> QED BY <1>1

LEMMA HistoryUntouched ==
    ASSUME SolvencyInv, UNCHANGED history
    PROVE  HistoryShape' /\ rated' = rated /\ unbacked' = unbacked
  BY DEF SolvencyInv, HistoryShape, history

(* A flash loan, whose premium is shared out at the indexes that are booked. *)
LEMMA FlashLoanSolvent ==
    ASSUME SolvencyInv, NEW a \in Assets, NEW amount \in Amounts, FlashLoan(a, amount)
    PROVE  HistoryShape' /\ \A b \in Assets : SolventAt(b)'
  <1> DEFINE r == reserve[a]
             i == r.liquidityIndex
             acc == r.accruedToTreasury
             premium == (amount * PREMIUM_BPS) \div 10000
             part == premium \div 3
             share == premium - part
             gain == Gain(share, Unscaled(gSupply[a], i))
  <1>1. /\ reserve' = [reserve EXCEPT ![a].accruedToTreasury = acc + part,
                                      ![a].liquidityIndex = i + gain]
        /\ cash' = [cash EXCEPT ![a] = cash[a] + premium]
        /\ gSupply' = gSupply /\ debtSupply' = debtSupply /\ UNCHANGED history
    BY DEF FlashLoan, PayIn, Gain
  <1>2. premium \in Nat
    <2>1. amount * PREMIUM_BPS \in Nat
      BY ConstantTypes, TimesNat
    <2> QED BY <2>1, DivNat
  <1> HIDE DEF premium
  <1>3. part \in Nat /\ share \in Nat /\ part + share = premium
    <2>1. part \in Nat /\ part <= premium
      BY <1>2
    <2> HIDE DEF part
    <2> QED BY <1>2, <2>1
  <1> HIDE DEF part, share
  <1>4. LendInv /\ SolventAt(a) /\ r \in ReserveData /\ reserve \in [Assets -> ReserveData]
    BY DEF SolvencyInv, LendInv
  <1>5. /\ gSupply[a] \in Nat /\ debtSupply[a] \in Nat /\ cash[a] \in Nat /\ cash \in [Assets -> Nat]
        /\ i \in Nat /\ i >= RAY /\ acc \in Nat /\ r.borrowIndex \in Nat /\ r.borrowIndex >= RAY
    BY <1>4, ReserveFacts, FieldTypes, Unmoved DEF ReserveSound
  <1>6. /\ BooksOf(gSupply[a], i, acc, cash[a], debtSupply[a], r.borrowIndex, unbacked[a])
        /\ rated[a] \in Nat /\ unbacked[a] \in Nat /\ rated[a] <= Unscaled(gSupply[a], i)
    BY <1>4, <1>5 DEF SolventAt, BooksOf
  <1> HIDE DEF i, acc
  <1>7. /\ gain \in Nat
        /\ Covers(gSupply[a], i + gain, acc + part, cash[a] + (part + share), debtSupply[a],
                  r.borrowIndex, unbacked[a])
    BY <1>3, <1>6, PremiumCovered, Zenon
  <1> HIDE DEF gain
  <1>8. /\ reserve'[a] = [r EXCEPT !.accruedToTreasury = acc + part, !.liquidityIndex = i + gain]
        /\ cash'[a] = cash[a] + (part + share)
        /\ \A b \in Assets : b \notin {a} => reserve'[b] = reserve[b] /\ cash'[b] = cash[b]
    BY <1>1, <1>3, <1>4, <1>5
  <1>9. /\ reserve'[a].liquidityIndex = i + gain /\ reserve'[a].accruedToTreasury = acc + part
         /\ reserve'[a].borrowIndex = r.borrowIndex /\ reserve'[a].factor = r.factor
         /\ reserve'[a].supplyRate = r.supplyRate /\ reserve'[a].borrowRate = r.borrowRate
    BY <1>4, <1>8 DEF ReserveData
  <1>10. rated[a] <= Unscaled(gSupply[a], i + gain)
    <2> DEFINE n == i + gain
    <2>1. n \in Nat /\ i <= n
      BY <1>5, <1>7
    <2> HIDE DEF n
    <2>2. /\ Unscaled(gSupply[a], i) <= Unscaled(gSupply[a], n)
          /\ Unscaled(gSupply[a], i) \in Nat /\ Unscaled(gSupply[a], n) \in Nat
      <3>1. gSupply[a] <= gSupply[a]
        BY <1>5
      <3> QED BY <1>5, <2>1, <3>1, UnscaledMonotone, UnscaledNat
    <2>3. rated[a] <= Unscaled(gSupply[a], n)
      BY <1>6, <2>2
    <2> QED BY <2>3 DEF n
  <1>11. Fair(r.supplyRate, rated[a], r.borrowRate, Unscaled(debtSupply[a], r.borrowIndex), r.factor)
    BY <1>4 DEF SolventAt
  <1>12. HistoryShape' /\ rated' = rated /\ unbacked' = unbacked
    BY <1>1, HistoryUntouched
  <1>13. SolventAt(a)'
    BY <1>1, <1>6, <1>7, <1>8, <1>9, <1>10, <1>11, <1>12 DEF SolventAt
  <1> QED BY <1>1, <1>8, <1>12, <1>13, OneSolvent

(* mintToTreasury books the interest, and keeps the rates. *)
LEMMA MintToTreasurySolvent ==
    ASSUME SolvencyInv, NEW a \in Assets, MintToTreasury(a)
    PROVE  HistoryShape' /\ \A b \in Assets : SolventAt(b)'
  <1> DEFINE r == Updated(a)
             x == ScaledDown(r.accruedToTreasury, r.liquidityIndex)
  <1>1. /\ reserve' = [reserve EXCEPT ![a] = [r EXCEPT !.accruedToTreasury = 0]]
        /\ gSupply' = [gSupply EXCEPT ![a] = gSupply[a] + x]
        /\ unbacked' = [unbacked EXCEPT ![a] = Unbacked(a)]
        /\ debtSupply' = debtSupply /\ cash' = cash /\ rated' = rated
    BY DEF MintToTreasury
  <1>2. LendInv /\ BookedSolvent(a) /\ reserve \in [Assets -> ReserveData] /\ HistoryShape
    BY BookingSolvent DEF SolvencyInv, LendInv
  <1>3. /\ r \in ReserveData /\ r.liquidityIndex \in Nat /\ r.liquidityIndex >= RAY
        /\ r.accruedToTreasury \in Nat /\ gSupply[a] \in Nat /\ gSupply \in [Assets -> Nat]
        /\ Unbacked(a) \in Nat /\ rated[a] \in Nat
        /\ rated[a] <= Unscaled(gSupply[a], r.liquidityIndex)
    BY <1>2, Unmoved DEF BookedSolvent, BooksOf
  <1>4. Covers(gSupply[a] + x, r.liquidityIndex, 0, cash[a], debtSupply[a], r.borrowIndex, Unbacked(a))
    <2>1. BooksOf(gSupply[a], r.liquidityIndex, r.accruedToTreasury, cash[a], debtSupply[a],
                  r.borrowIndex, Unbacked(a))
      BY <1>2 DEF BookedSolvent
    <2> QED BY <2>1, TreasuryCovered, Zenon
  <1>5. Fair(r.supplyRate, rated[a], r.borrowRate, Unscaled(debtSupply[a], r.borrowIndex), r.factor)
    BY <1>2 DEF BookedSolvent
  <1>6. x \in Nat
    <2> DEFINE i == r.liquidityIndex
               n == r.accruedToTreasury
    <2>1. i \in Nat /\ i >= RAY /\ n \in Nat
      BY <1>3
    <2> HIDE DEF i, n
    <2>2. ScaledDown(n, i) \in Nat
      BY <2>1, ScaledBounds
    <2> QED BY <2>2 DEF i, n
  <1> HIDE DEF x, r
  <1>7. rated[a] <= Unscaled(gSupply[a] + x, r.liquidityIndex)
    <2> DEFINE n == gSupply[a] + x
               i == r.liquidityIndex
    <2>1. n \in Nat /\ gSupply[a] <= n /\ i \in Nat /\ i <= i
      BY <1>3, <1>6
    <2>2. rated[a] <= Unscaled(gSupply[a], i)
      BY <1>3
    <2> HIDE DEF n, i
    <2>3. /\ Unscaled(gSupply[a], i) <= Unscaled(n, i)
          /\ Unscaled(gSupply[a], i) \in Nat /\ Unscaled(n, i) \in Nat
      BY <1>3, <2>1, UnscaledMonotone, UnscaledNat
    <2>4. rated[a] <= Unscaled(n, i)
      BY <1>3, <2>2, <2>3
    <2> QED BY <2>4 DEF n, i
  <1>8. /\ reserve'[a] = [r EXCEPT !.accruedToTreasury = 0] /\ gSupply'[a] = gSupply[a] + x
        /\ \A b \in Assets : b \notin {a} => reserve'[b] = reserve[b] /\ gSupply'[b] = gSupply[b]
    BY <1>1, <1>2, <1>3
  <1>9. /\ unbacked'[a] = Unbacked(a) /\ HistoryShape'
        /\ \A b \in Assets : b \notin {a} => unbacked'[b] = unbacked[b]
    BY <1>1, <1>2 DEF HistoryShape
  <1>10. /\ reserve'[a].liquidityIndex = r.liquidityIndex /\ reserve'[a].accruedToTreasury = 0
         /\ reserve'[a].borrowIndex = r.borrowIndex /\ reserve'[a].factor = r.factor
         /\ reserve'[a].supplyRate = r.supplyRate /\ reserve'[a].borrowRate = r.borrowRate
    BY <1>3, <1>8 DEF ReserveData
  <1>11. SolventAt(a)'
    BY <1>1, <1>3, <1>4, <1>5, <1>7, <1>8, <1>9, <1>10 DEF SolventAt
  <1> QED BY <1>1, <1>8, <1>9, <1>11, OneSolvent

(* A step that leaves alone all that the solvency of the reserves is about. *)
LEMMA SolventFields ==
    ASSUME SolvencyInv, UNCHANGED history,
           gSupply' = gSupply, debtSupply' = debtSupply, cash' = cash,
           \A b \in Assets : /\ reserve'[b].liquidityIndex = reserve[b].liquidityIndex
                             /\ reserve'[b].borrowIndex = reserve[b].borrowIndex
                             /\ reserve'[b].accruedToTreasury = reserve[b].accruedToTreasury
                             /\ reserve'[b].supplyRate = reserve[b].supplyRate
                             /\ reserve'[b].borrowRate = reserve[b].borrowRate
                             /\ reserve'[b].factor = reserve[b].factor
    PROVE  HistoryShape' /\ \A b \in Assets : SolventAt(b)'
  <1>1. HistoryShape' /\ rated' = rated /\ unbacked' = unbacked
    BY HistoryUntouched
  <1>2. ASSUME NEW b \in Assets PROVE SolventAt(b)'
    <2>1. SolventAt(b)
      BY DEF SolvencyInv
    <2> QED BY <1>1, <2>1 DEF SolventAt
  <1> QED BY <1>1, <1>2

(* One reserve is switched or capped. *)
SameBooks(r, s) ==
    /\ s.liquidityIndex = r.liquidityIndex /\ s.borrowIndex = r.borrowIndex
    /\ s.accruedToTreasury = r.accruedToTreasury /\ s.factor = r.factor
    /\ s.supplyRate = r.supplyRate /\ s.borrowRate = r.borrowRate

LEMMA SetterSolvent ==
    ASSUME SolvencyInv, NEW a \in Assets, NEW s, reserve' = [reserve EXCEPT ![a] = s],
           SameBooks(reserve[a], s), UNCHANGED tokenVars, UNCHANGED history
    PROVE  HistoryShape' /\ \A b \in Assets : SolventAt(b)'
  <1>1. reserve \in [Assets -> ReserveData]
    BY DEF SolvencyInv, LendInv
  <1>2. reserve'[a] = s /\ \A b \in Assets : b # a => reserve'[b] = reserve[b]
    BY <1>1
  <1>3. \A b \in Assets : SameBooks(reserve[b], reserve'[b])
    BY <1>2 DEF SameBooks
  <1>4. gSupply' = gSupply /\ debtSupply' = debtSupply /\ cash' = cash
    BY DEF tokenVars
  <1> QED BY <1>3, <1>4, SolventFields DEF SameBooks

LEMMA SettersSolvent ==
    ASSUME SolvencyInv, NEW a \in Assets,
           \/ \E b \in BOOLEAN : SetReserveActive(a, b) \/ SetBorrowingEnabled(a, b)
           \/ \E supplyCap, borrowCap \in Caps : SetCaps(a, supplyCap, borrowCap)
    PROVE  HistoryShape' /\ \A b \in Assets : SolventAt(b)'
  <1> DEFINE r == reserve[a]
  <1>1. reserve \in [Assets -> ReserveData] /\ r \in ReserveData
    BY DEF SolvencyInv, LendInv
  <1>2. CASE \E b \in BOOLEAN : SetReserveActive(a, b)
    <2>1. PICK b \in BOOLEAN : SetReserveActive(a, b)
      BY <1>2
    <2> DEFINE s == [r EXCEPT !.isActive = b]
    <2>2. reserve' = [reserve EXCEPT ![a] = s] /\ UNCHANGED tokenVars /\ UNCHANGED history
      BY <2>1 DEF SetReserveActive
    <2>3. SameBooks(r, s)
      <3> HIDE DEF r
      <3> QED BY <1>1 DEF SameBooks, ReserveData
    <2> HIDE DEF s
    <2> QED BY <2>2, <2>3, SetterSolvent
  <1>3. CASE \E b \in BOOLEAN : SetBorrowingEnabled(a, b)
    <2>1. PICK b \in BOOLEAN : SetBorrowingEnabled(a, b)
      BY <1>3
    <2> DEFINE s == [r EXCEPT !.borrowingEnabled = b]
    <2>2. reserve' = [reserve EXCEPT ![a] = s] /\ UNCHANGED tokenVars /\ UNCHANGED history
      BY <2>1 DEF SetBorrowingEnabled
    <2>3. SameBooks(r, s)
      <3> HIDE DEF r
      <3> QED BY <1>1 DEF SameBooks, ReserveData
    <2> HIDE DEF s
    <2> QED BY <2>2, <2>3, SetterSolvent
  <1>4. CASE \E supplyCap, borrowCap \in Caps : SetCaps(a, supplyCap, borrowCap)
    <2>1. PICK sc \in Caps, bc \in Caps : SetCaps(a, sc, bc)
      BY <1>4
    <2> DEFINE s == [r EXCEPT !.supplyCap = sc, !.borrowCap = bc]
    <2>2. /\ reserve' = [reserve EXCEPT ![a].supplyCap = sc, ![a].borrowCap = bc]
          /\ UNCHANGED tokenVars /\ UNCHANGED history
      BY <2>1 DEF SetCaps
    <2>3. reserve' = [reserve EXCEPT ![a] = s]
      BY <1>1, <2>2
    <2>4. SameBooks(r, s)
      <3> HIDE DEF r
      <3> QED BY <1>1 DEF SameBooks, ReserveData
    <2> HIDE DEF s
    <2> QED BY <2>2, <2>3, <2>4, SetterSolvent
  <1> QED BY <1>2, <1>3, <1>4

(* Neither prices nor who holds the gTokens matter to solvency. *)
LEMMA OthersSolvent ==
    ASSUME SolvencyInv, NEW a \in Assets,
           \/ \E p \in Prices : SetAssetPrice(a, p)
           \/ \E u, v \in Users, amount \in Amounts : TransferG(u, a, v, amount)
    PROVE  HistoryShape' /\ \A b \in Assets : SolventAt(b)'
  <1>1. /\ UNCHANGED history /\ reserve' = reserve
        /\ gSupply' = gSupply /\ debtSupply' = debtSupply /\ cash' = cash
    BY DEF SetAssetPrice, TransferG, tokenVars
  <1> QED BY <1>1, SolventFields

(* A new reserve factor comes with rates of its own. *)
LEMMA SetReserveFactorSolvent ==
    ASSUME SolvencyInv, NEW a \in Assets, NEW factor \in Factors, SetReserveFactor(a, factor)
    PROVE  HistoryShape' /\ \A b \in Assets : SolventAt(b)'
  <1> DEFINE u == Updated(a)
             r == [u EXCEPT !.factor = factor]
  <1>1. /\ reserve' = [reserve EXCEPT ![a] = WithRates(r, gSupply[a], debtSupply[a])]
        /\ rated' = [rated EXCEPT ![a] = Unscaled(gSupply[a], u.liquidityIndex)]
        /\ unbacked' = [unbacked EXCEPT ![a] = Unbacked(a)]
        /\ gSupply' = gSupply /\ debtSupply' = debtSupply /\ cash' = cash
    BY DEF SetReserveFactor, tokenVars
  <1>2. /\ LendInv /\ BookedSolvent(a) /\ reserve \in [Assets -> ReserveData] /\ HistoryShape
        /\ gSupply[a] \in Nat /\ debtSupply[a] \in Nat
    BY BookingSolvent, ReserveFacts DEF SolvencyInv, LendInv
  <1>3. u \in ReserveData /\ Unbacked(a) \in Nat
    BY <1>2 DEF BookedSolvent
  <1>4. Covers(gSupply[a], u.liquidityIndex, u.accruedToTreasury, cash[a], debtSupply[a],
               u.borrowIndex, Unbacked(a))
    BY <1>2 DEF BookedSolvent, BooksOf
  <1> HIDE DEF u
  <1>5. /\ r \in ReserveData /\ r.liquidityIndex = u.liquidityIndex
        /\ r.borrowIndex = u.borrowIndex /\ r.accruedToTreasury = u.accruedToTreasury
    BY <1>3 DEF ReserveData
  <1>6. /\ reserve'[a] = WithRates(r, gSupply[a], debtSupply[a])
        /\ \A b \in Assets : b \notin {a} => reserve'[b] = reserve[b]
    BY <1>1, <1>2
  <1>7. /\ rated'[a] = Unscaled(gSupply[a], u.liquidityIndex) /\ unbacked'[a] = Unbacked(a)
        /\ \A b \in Assets : b \notin {a} => rated'[b] = rated[b] /\ unbacked'[b] = unbacked[b]
        /\ HistoryShape'
    BY <1>1, <1>2 DEF HistoryShape
  <1> HIDE DEF r
  <1>8. /\ gSupply'[a] \in Nat /\ debtSupply'[a] \in Nat /\ unbacked'[a] \in Nat
        /\ reserve'[a] = WithRates(r, gSupply'[a], debtSupply'[a])
        /\ rated'[a] = Unscaled(gSupply'[a], r.liquidityIndex)
        /\ Covers(gSupply'[a], r.liquidityIndex, r.accruedToTreasury, cash'[a],
                  debtSupply'[a], r.borrowIndex, unbacked'[a])
    BY <1>1, <1>2, <1>3, <1>4, <1>5, <1>6, <1>7
  <1>9. SolventAt(a)'
    BY <1>5, <1>8, SolventRated
  <1> QED BY <1>1, <1>6, <1>7, <1>9, OneSolvent

(* A call, of whoever makes it. *)
LEMMA HolderStepSolvent ==
    ASSUME SolvencyInv, LendInv', NEW u \in Users, NEW a \in Assets, HolderStep(u, a)
    PROVE  HistoryShape' /\ \A b \in Assets : SolventAt(b)'
  <1>1. CASE \E amount \in Amounts : Supply(u, a, amount) \/ Borrow(u, a, amount) \/ Repay(u, a, amount)
    BY <1>1, SupplySolvent, BorrowSolvent, RepaySolvent
  <1>2. CASE \E amount \in Amounts \cup {Unscaled(gToken[a][u], Updated(a).liquidityIndex)} :
                WithdrawSupply(u, a, amount)
    <2> DEFINE i == Updated(a).liquidityIndex
    <2>1. i \in Nat /\ gToken[a][u] \in Nat
      BY BooksAt
    <2> HIDE DEF i
    <2>2. Unscaled(gToken[a][u], i) \in Nat
      BY <2>1, UnscaledNat
    <2>3. Amounts \cup {Unscaled(gToken[a][u], i)} \subseteq Nat
      BY <2>2, ConstantTypes
    <2>4. PICK amount \in Amounts \cup {Unscaled(gToken[a][u], i)} : WithdrawSupply(u, a, amount)
      BY <1>2 DEF i
    <2> QED BY <2>3, <2>4, WithdrawSolvent
  <1>3. CASE \E amount \in Amounts, d \in Assets : Liquidate(u, a, d, amount)
    BY <1>3, LiquidateSolvent
  <1>4. CASE \E amount \in Amounts, v \in Users : TransferG(u, a, v, amount)
    BY <1>4, OthersSolvent
  <1> QED BY <1>1, <1>2, <1>3, <1>4 DEF HolderStep

LEMMA CallSolvent ==
    ASSUME SolvencyInv, LendInv', NEW kind \in {"user", "admin"}, NEW a \in Assets, Call(kind, a)
    PROVE  HistoryShape' /\ \A b \in Assets : SolventAt(b)'
  <1>1. CASE kind = "admin"
    <2>1. AdminStep(a)
      BY <1>1 DEF Call
    <2> QED BY <2>1, SettersSolvent, SetReserveFactorSolvent, OthersSolvent DEF AdminStep
  <1>2. CASE kind = "user"
    <2>1. AnyonesStep(a) \/ \E u \in Users : HolderStep(u, a)
      BY <1>2 DEF Call
    <2> QED BY <2>1, FlashLoanSolvent, MintToTreasurySolvent, HolderStepSolvent DEF AnyonesStep
  <1> QED BY <1>1, <1>2

LEMMA SolvencyInitial == LendInit => SolvencyInv
  <1> SUFFICES ASSUME LendInit PROVE SolvencyInv
    OBVIOUS
  <1>1. LendInv
    BY LendInitial
  <1>2. /\ rated = [a \in Assets |-> 0] /\ unbacked = [a \in Assets |-> 0]
        /\ gSupply = [a \in Assets |-> 0] /\ debtSupply = [a \in Assets |-> 0]
        /\ cash = [a \in Assets |-> 0]
    BY DEF LendInit
  <1>3. HistoryShape
    BY <1>2 DEF HistoryShape
  <1>4. ASSUME NEW a \in Assets PROVE SolventAt(a)
    <2>1. /\ reserve[a].liquidityIndex = RAY /\ reserve[a].borrowIndex = RAY
          /\ reserve[a].accruedToTreasury = 0 /\ reserve[a].supplyRate = 0
          /\ reserve[a].borrowRate = 0 /\ reserve[a].factor \in Factors
      BY DEF LendInit
    <2>2. /\ rated[a] = 0 /\ unbacked[a] = 0 /\ gSupply[a] = 0 /\ debtSupply[a] = 0 /\ cash[a] = 0
      BY <1>2
    <2>3. RAY \in Nat
      BY RateConstants
    <2>4. Covers(0, RAY, 0, 0, 0, RAY, 0)
      BY <2>3 DEF Covers
    <2>5. 0 <= Unscaled(0, RAY) /\ Unscaled(0, RAY) \in Nat
      BY <2>3, UnscaledNat
    <2>6. Fair(0, 0, 0, Unscaled(0, RAY), reserve[a].factor)
      <3> DEFINE w == Unscaled(0, RAY)
                 k == Kept(reserve[a].factor)
      <3>1. k \in Nat
        BY <2>1, KeptExact
      <3>2. w \in Nat
        BY <2>5
      <3> HIDE DEF k, w
      <3>3. RAY * (0 * 0) <= (0 * w) * k
        BY <2>3, <3>1, <3>2
      <3> QED BY <3>3 DEF Fair, k, w
    <2> QED BY <2>1, <2>2, <2>4, <2>5, <2>6 DEF SolventAt
  <1> QED BY <1>1, <1>3, <1>4 DEF SolvencyInv

LEMMA SolvencyStep == SolvencyInv /\ [LendNext]_lendingVars => SolvencyInv'
  <1> SUFFICES ASSUME SolvencyInv, [LendNext]_lendingVars PROVE SolvencyInv'
    OBVIOUS
  <1>1. LendInv'
    BY LendStep DEF SolvencyInv
  <1>2. CASE \E a \in Assets : Call("user", a) \/ Call("admin", a)
    BY <1>1, <1>2, CallSolvent DEF SolvencyInv
  <1>3. CASE UNCHANGED <<lendVars, history>>
    <2>1. /\ UNCHANGED history /\ reserve' = reserve
          /\ gSupply' = gSupply /\ debtSupply' = debtSupply /\ cash' = cash
      BY <1>3 DEF lendVars, tokenVars
    <2>2. HistoryShape' /\ \A b \in Assets : SolventAt(b)'
      BY <2>1, SolventFields
    <2> QED BY <1>1, <2>2 DEF SolvencyInv
  <1> QED BY <1>2, <1>3 DEF LendNext, lendingVars

(* A reserve is covered at the indexes it has booked, but for what its      *)
(* interest and its debts have cost it, and its rates promise suppliers and *)
(* treasury no more than the borrowers pay on the deposits they were set    *)
(* for (_updateState, _updateRates, flashLoan, mintToTreasury, the tokens). *)
THEOREM SolvencyInvariant == LendSpec => []SolvencyInv
  <1> QED BY SolvencyInitial, SolvencyStep, PTL DEF LendSpec, lendingVars

(* The lending pool keeps its types (GoodLendPool.sol and its tokens). *)
THEOREM LendTypeCorrect == LendSpec => []LendTypeOK
  <1>1. SolvencyInv => LendTypeOK
    <2> SUFFICES ASSUME SolvencyInv PROVE LendTypeOK
      OBVIOUS
    <2>1. LendInv /\ HistoryShape /\ \A a \in Assets : rated[a] \in Nat /\ unbacked[a] \in Nat
      BY DEF SolvencyInv, SolventAt
    <2>2. rated \in [Assets -> Nat] /\ unbacked \in [Assets -> Nat]
      BY <2>1 DEF HistoryShape
    <2> QED BY <2>1, <2>2 DEF LendInv, LendTypeOK, TokenSound
  <1> QED BY <1>1, SolvencyInvariant, PTL

(* Suppliers and treasury are owed no more than the cash of the pool and    *)
(* the debts to it, at every time, for every amount, price, factor and      *)
(* schedule of calls: flash loans, mintToTreasury and switched-off reserves *)
(* are no exception (GoodLendPool.sol).                                     *)
THEOREM LendStaysSolvent == LendSpec => []Solvent
  <1>1. SolvencyInv => Solvent
    <2> SUFFICES ASSUME SolvencyInv, NEW a \in Assets
                 PROVE  gSupply[a] * Updated(a).liquidityIndex + RAY * Updated(a).accruedToTreasury
                          <= RAY * cash[a] + debtSupply[a] * Updated(a).borrowIndex + Unbacked(a)
      BY DEF Solvent
    <2>1. BookedSolvent(a)
      BY BookingSolvent DEF SolvencyInv
    <2> QED BY <2>1 DEF BookedSolvent, BooksOf, Covers
  <1> QED BY <1>1, SolvencyInvariant, PTL
=============================================================================
