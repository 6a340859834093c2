------------------------- MODULE VaultManagerProofs -------------------------
(***************************************************************************)
(* The ledgers of the CDP engine agree, for any number of vaults, ilks and *)
(* any fixed point units: the total debt is the sum of the vaults, the     *)
(* tokens held are the sum of the collateral, the gUSD supply is the sum of *)
(* the balances, and a vault without collateral owes nothing.  The running *)
(* total of debt never runs ahead, and no operation makes a vault          *)
(* liquidatable.                                                           *)
(***************************************************************************)
EXTENDS VaultManager, SumLemmas

IInv ==
    /\ TypeOK
    /\ AccumulatorsSound
    /\ TotalIsSum
    /\ CollateralHeld
    /\ SupplyIsSum
    /\ NoUnsecuredDebt

-----------------------------------------------------------------------------
(* Arithmetic. *)

(* An amount is owed in full once chi is at least 1.0. *)
LEMMA OwedAtLeast ==
    ASSUME NEW n \in Nat, NEW c \in Nat, c >= RAY
    PROVE  Owed(n, c) \in Nat /\ Owed(n, c) >= n
  <1>1. n * c \in Nat
    BY TimesNat
  <1> QED BY <1>1, VaultConstants, DivNat, ScaleUp DEF Owed

(* A larger debt owes more. *)
LEMMA OwedMonotone ==
    ASSUME NEW m \in Nat, NEW n \in Nat, NEW c \in Nat, m <= n
    PROVE  Owed(m, c) \in Nat /\ Owed(n, c) \in Nat /\ Owed(m, c) <= Owed(n, c)
  <1>1. m * c \in Nat /\ n * c \in Nat /\ m * c <= n * c
    BY TimesMonotone
  <1> QED BY <1>1, VaultConstants, DivNat, DivMonotone DEF Owed

-----------------------------------------------------------------------------
(* Accruing. *)

(* drip never lowers the accumulator and keeps it at least 1.0. *)
LEMMA NewChiSound ==
    ASSUME TypeOK, AccumulatorsSound, NEW i \in Ilks
    PROVE  /\ NewChi(i) \in Nat /\ NewChi(i) >= RAY
           /\ Fee(i) \in Nat
  <1>1. chi[i] \in Nat /\ (chi[i] = 0 \/ chi[i] >= RAY) /\ RAY \in Nat \ {0}
    BY VaultConstants DEF TypeOK, AccumulatorsSound
  <1>2. Grown(i) \in Nat
    <2>1. CASE Elapsed(i) = 0
      BY <1>1, <2>1 DEF Grown
    <2>2. CASE Elapsed(i) # 0
      <3>1. Elapsed(i) \in 1..MaxTime
        BY <2>2, VaultConstants DEF Elapsed, TypeOK, AccumulatorsSound
      <3>2. config[i].rate \in Rates
        BY DEF TypeOK, Configs
      <3>3. Growth[config[i].rate][Elapsed(i)] \in Nat
        BY <3>1, <3>2, VaultConstants
      <3>4. chi[i] * Growth[config[i].rate][Elapsed(i)] \in Nat
        BY <1>1, <3>3, TimesNat
      <3> QED BY <2>2, <3>4, <1>1, DivNat DEF Grown
    <2> QED BY <2>1, <2>2
  <1>3. NewChi(i) \in Nat /\ NewChi(i) >= RAY /\ (chi[i] # 0 => NewChi(i) >= chi[i])
    BY <1>1, <1>2 DEF NewChi
  <1>4. Fee(i) \in Nat
    <2>1. CASE chi[i] = 0
      BY <2>1 DEF Fee
    <2>2. CASE chi[i] # 0
      <3>1. NewChi(i) - chi[i] \in Nat /\ totalNormalizedDebt[i] \in Nat
        BY <1>1, <1>3, <2>2 DEF TypeOK
      <3>2. totalNormalizedDebt[i] * (NewChi(i) - chi[i]) \in Nat
        BY <3>1, TimesNat
      <3> QED BY <2>2, <3>2, <1>1, DivNat DEF Fee
    <2> QED BY <2>1, <2>2
  <1> QED BY <1>3, <1>4

(* An accrual keeps the accumulators sound. *)
LEMMA AccrueSound ==
    ASSUME TypeOK, AccumulatorsSound, NEW i \in Ilks, Accrue(i), UNCHANGED now
    PROVE  /\ chi' \in [Ilks -> Nat] /\ lastDrip' \in [Ilks -> Nat]
           /\ AccumulatorsSound'
           /\ feeSink' \in Nat /\ feeSink' = feeSink + Fee(i) /\ Fee(i) \in Nat
  BY NewChiSound DEF Accrue, TypeOK, AccumulatorsSound

-----------------------------------------------------------------------------
(* One entry of a ledger changes. *)

(* Replacing one entry of a table keeps its domain and the other entries. *)
LEMMA EntryReplaced ==
    ASSUME NEW f \in [Users -> Int], NEW u \in Users, NEW v \in Int
    PROVE  SumFunctionOnSet([f EXCEPT ![u] = v], Users) = SumFunctionOnSet(f, Users) - f[u] + v
  <1> DEFINE g == [f EXCEPT ![u] = v]
  <1>1. g \in [Users -> Int] /\ g[u] = v /\ \A w \in Users \ {u} : f[w] = g[w]
    OBVIOUS
  <1> HIDE DEF g
  <1>2. SumFunctionOnSet(g, Users) = SumFunctionOnSet(f, Users) - f[u] + v
    BY <1>1, VaultConstants, SumUpdate
  <1> QED BY <1>2 DEF g

(* A new debt in one vault, added to the total, keeps the total the sum. *)
LEMMA VaultDebtSound ==
    ASSUME TypeOK, AccumulatorsSound, TotalIsSum,
           NEW i \in Ilks, NEW u \in Users, NEW n \in Nat, SetVaultDebt(i, u, n)
    PROVE  /\ normalizedDebt' = [normalizedDebt EXCEPT ![i][u] = n]
           /\ normalizedDebt' \in [Ilks -> [Users -> Nat]]
           /\ totalNormalizedDebt' \in [Ilks -> Nat]
           /\ ilkDebt' \in [Ilks -> Nat]
           /\ TotalIsSum'
  <1> DEFINE total == totalNormalizedDebt[i] - normalizedDebt[i][u] + n
  <1>1. normalizedDebt[i] \in [Users -> Nat] /\ normalizedDebt[i] \in [Users -> Int]
    BY DEF TypeOK
  <1>2. normalizedDebt[i][u] <= totalNormalizedDebt[i]
    BY <1>1, SumOfNats, VaultConstants DEF TotalIsSum
  <1>3. total \in Nat
    BY <1>1, <1>2 DEF TypeOK
  <1>4. normalizedDebt' = [normalizedDebt EXCEPT ![i][u] = n]
        /\ totalNormalizedDebt' = [totalNormalizedDebt EXCEPT ![i] = total]
        /\ ilkDebt' = [ilkDebt EXCEPT ![i] = Owed(total, NewChi(i))]
    BY DEF SetVaultDebt
  <1>5. Owed(total, NewChi(i)) \in Nat
    BY <1>3, NewChiSound, OwedAtLeast
  <1>6. SumFunctionOnSet([normalizedDebt[i] EXCEPT ![u] = n], Users) = total
    BY <1>1, EntryReplaced DEF TotalIsSum
  <1>7. TotalIsSum'
    <2> SUFFICES ASSUME NEW j \in Ilks
                 PROVE  totalNormalizedDebt'[j] = SumFunctionOnSet(normalizedDebt'[j], Users)
      BY DEF TotalIsSum
    <2>1. CASE j = i
      <3>1. normalizedDebt'[i] = [normalizedDebt[i] EXCEPT ![u] = n]
        BY <1>4 DEF TypeOK
      <3>2. totalNormalizedDebt'[i] = total
        BY <1>4 DEF TypeOK
      <3> QED BY <2>1, <3>1, <3>2, <1>6
    <2>2. CASE j # i
      <3>1. normalizedDebt'[j] = normalizedDebt[j] /\ totalNormalizedDebt'[j] = totalNormalizedDebt[j]
        BY <1>4, <2>2 DEF TypeOK
      <3> QED BY <3>1 DEF TotalIsSum
    <2> QED BY <2>1, <2>2
  <1> HIDE DEF total
  <1>8. normalizedDebt' \in [Ilks -> [Users -> Nat]] /\ totalNormalizedDebt' \in [Ilks -> Nat]
        /\ ilkDebt' \in [Ilks -> Nat]
    BY <1>3, <1>4, <1>5 DEF TypeOK
  <1> QED BY <1>4, <1>7, <1>8

(* New collateral in one vault, moved to or from the contract, keeps the *)
(* contract's balance the sum. *)
LEMMA CollateralSound ==
    ASSUME TypeOK, CollateralHeld, NEW i \in Ilks, NEW u \in Users, NEW c \in Nat,
           collateral' = [collateral EXCEPT ![i][u] = c],
           held' = [held EXCEPT ![i] = held[i] - collateral[i][u] + c]
    PROVE  /\ collateral' \in [Ilks -> [Users -> Nat]]
           /\ held' \in [Ilks -> Nat]
           /\ CollateralHeld'
  <1> DEFINE total == held[i] - collateral[i][u] + c
  <1>1. collateral[i] \in [Users -> Nat] /\ collateral[i] \in [Users -> Int]
    BY DEF TypeOK
  <1>2. collateral[i][u] <= held[i]
    BY <1>1, SumOfNats, VaultConstants DEF CollateralHeld
  <1>3. total \in Nat
    BY <1>1, <1>2 DEF TypeOK
  <1>4. SumFunctionOnSet([collateral[i] EXCEPT ![u] = c], Users) = total
    BY <1>1, EntryReplaced DEF CollateralHeld
  <1>5. CollateralHeld'
    <2> SUFFICES ASSUME NEW j \in Ilks
                 PROVE  held'[j] = SumFunctionOnSet(collateral'[j], Users)
      BY DEF CollateralHeld
    <2>1. CASE j = i
      <3>1. collateral'[i] = [collateral[i] EXCEPT ![u] = c] /\ held'[i] = total
        BY DEF TypeOK
      <3> QED BY <2>1, <3>1, <1>4
    <2>2. CASE j # i
      <3>1. collateral'[j] = collateral[j] /\ held'[j] = held[j]
        BY <2>2 DEF TypeOK
      <3> QED BY <3>1 DEF CollateralHeld
    <2> QED BY <2>1, <2>2
  <1>6. collateral' \in [Ilks -> [Users -> Nat]] /\ held' \in [Ilks -> Nat]
    BY <1>3 DEF TypeOK
  <1> QED BY <1>5, <1>6

(* The sum of the balances after one of them is replaced. *)
LEMMA BalanceUpdate ==
    ASSUME TypeOK, NEW u \in Users, NEW b \in Nat
    PROVE  /\ [balance EXCEPT ![u] = b] \in [Users -> Nat]
           /\ SumFunctionOnSet([balance EXCEPT ![u] = b], Users)
                = SumFunctionOnSet(balance, Users) - balance[u] + b
           /\ SumFunctionOnSet([balance EXCEPT ![u] = b], Users) \in Nat
           /\ SumFunctionOnSet(balance, Users) \in Int
  <1>1. balance \in [Users -> Int] /\ IsFiniteSet(Users) /\ b \in Int
    BY VaultConstants DEF TypeOK
  <1>2. [balance EXCEPT ![u] = b] \in [Users -> Nat]
    BY DEF TypeOK
  <1>3. SumFunctionOnSet([balance EXCEPT ![u] = b], Users)
          = SumFunctionOnSet(balance, Users) - balance[u] + b
    BY <1>1, EntryReplaced
  <1>4. SumFunctionOnSet([balance EXCEPT ![u] = b], Users) \in Nat
    BY <1>1, <1>2, SumOfNats
  <1>5. SumFunctionOnSet(balance, Users) \in Int
    BY <1>1, SumType
  <1> QED BY <1>2, <1>3, <1>4, <1>5

(* A user's balance and the other holders change by amounts that add up to *)
(* the change of the supply.                                               *)
LEMMA SupplySound ==
    ASSUME TypeOK, SupplyIsSum, NEW u \in Users, NEW b \in Nat,
           balance' = [balance EXCEPT ![u] = b],
           feeSink' \in Nat, poolGUSD' \in Nat,
           totalSupply' = totalSupply + (b - balance[u]) + (feeSink' - feeSink)
                                      + (poolGUSD' - poolGUSD)
    PROVE  balance' \in [Users -> Nat] /\ totalSupply' \in Nat /\ SupplyIsSum'
  <1> DEFINE before == SumFunctionOnSet(balance, Users)
             after == SumFunctionOnSet([balance EXCEPT ![u] = b], Users)
  <1>1. before \in Int /\ after \in Nat /\ after = before - balance[u] + b
    BY BalanceUpdate
  <1>2. totalSupply = before + feeSink + poolGUSD
    BY DEF SupplyIsSum
  <1>3. SumFunctionOnSet(balance', Users) = after
    OBVIOUS
  <1>4. balance' \in [Users -> Nat]
    BY BalanceUpdate
  <1> HIDE DEF before, after
  <1>5. totalSupply' = after + feeSink' + poolGUSD'
    BY <1>1, <1>2 DEF TypeOK
  <1>6. totalSupply' \in Nat
    BY <1>1, <1>5
  <1> QED BY <1>3, <1>4, <1>5, <1>6 DEF SupplyIsSum
------------------------------------------------------------------------------

(* Minting the fee keeps the supply equal to what the holders have. *)
LEMMA FeeMinted ==
    ASSUME TypeOK, AccumulatorsSound, SupplyIsSum, NEW i \in Ilks, Accrue(i),
           UNCHANGED <<now, balance, poolGUSD>>,
           ilkDebt' = [ilkDebt EXCEPT ![i] = @ + Fee(i)],
           totalSupply' = totalSupply + Fee(i)
    PROVE  /\ ilkDebt' \in [Ilks -> Nat]
           /\ totalSupply' \in Nat
           /\ SupplyIsSum'
  <1>1. feeSink' = feeSink + Fee(i) /\ Fee(i) \in Nat
    BY AccrueSound
  <1>2. ilkDebt' \in [Ilks -> Nat] /\ totalSupply' \in Nat
    BY <1>1 DEF TypeOK
  <1> DEFINE sum == SumFunctionOnSet(balance, Users)
  <1>3. sum \in Int
    <2>1. balance \in [Users -> Int]
      BY DEF TypeOK
    <2> QED BY <2>1, SumType, VaultConstants
  <1>4. totalSupply = sum + feeSink + poolGUSD
    BY DEF SupplyIsSum
  <1>5. SupplyIsSum' <=> totalSupply' = sum + feeSink' + poolGUSD'
    BY DEF SupplyIsSum
  <1> HIDE DEF sum
  <1>6. totalSupply' = sum + feeSink' + poolGUSD'
    BY <1>1, <1>3, <1>4 DEF TypeOK
  <1> QED BY <1>2, <1>5, <1>6

-----------------------------------------------------------------------------
(* A vault without collateral is healthy only if it owes nothing: the      *)
(* required value is at least the debt, and the debt at least its          *)
(* normalized amount.                                                      *)
LEMMA UnsecuredIsUnhealthy ==
    ASSUME TypeOK, AccumulatorsSound, NEW i \in Ilks, NEW n \in Nat, Healthy(i, n, 0)
    PROVE  n = 0
  <1> DEFINE owed == Owed(n, NewChi(i))
             ratio == config[i].ratio
             required == (owed * ratio) \div WAD
  <1>1. owed \in Nat /\ owed >= n
    BY NewChiSound, OwedAtLeast
  <1>2. ratio \in Nat /\ ratio >= WAD /\ WAD \in Nat \ {0}
    BY VaultConstants DEF TypeOK, Configs
  <1>3. required >= owed
    <2> HIDE DEF owed, ratio
    <2> QED BY <1>1, <1>2, ScaleUp
  <1>4. n = 0 \/ required = 0 \/ 0 * price[i] >= required
    BY DEF Healthy
  <1>5. price[i] \in Nat
    BY VaultConstants DEF TypeOK
  <1>6. required \in Nat
    <2> HIDE DEF owed, ratio
    <2> QED BY <1>1, <1>2, DivNat, TimesNat
  <1> HIDE DEF owed, required
  <1> QED BY <1>1, <1>3, <1>4, <1>5, <1>6

(* One vault's debt and collateral change: the others keep theirs. *)
LEMMA SecuredAfter ==
    ASSUME TypeOK, NoUnsecuredDebt, NEW i \in Ilks, NEW u \in Users,
           NEW n \in Nat, NEW c \in Nat, c = 0 => n = 0,
           normalizedDebt' = [normalizedDebt EXCEPT ![i][u] = n],
           collateral' = [collateral EXCEPT ![i][u] = c]
    PROVE  NoUnsecuredDebt'
  BY DEF TypeOK, NoUnsecuredDebt

-----------------------------------------------------------------------------
(* Each operation preserves the invariant. *)

LEMMA DripInv ==
    ASSUME IInv, NEW i \in Ilks, Drip(i)
    PROVE  IInv'
  <1>1. /\ UNCHANGED <<envVars, totalNormalizedDebt, normalizedDebt, collVars, balance, poolGUSD>>
        /\ Accrue(i)
        /\ ilkDebt' = [ilkDebt EXCEPT ![i] = @ + Fee(i)]
        /\ totalSupply' = totalSupply + Fee(i)
    BY DEF Drip
  <1>2. UNCHANGED <<now, balance, poolGUSD>>
    BY <1>1 DEF envVars
  <1>3. ilkDebt' \in [Ilks -> Nat] /\ totalSupply' \in Nat /\ SupplyIsSum'
    BY <1>1, <1>2, FeeMinted DEF IInv
  <1>4. /\ chi' \in [Ilks -> Nat] /\ lastDrip' \in [Ilks -> Nat]
        /\ AccumulatorsSound' /\ feeSink' \in Nat
    BY <1>1, <1>2, AccrueSound DEF IInv
  <1>5. TypeOK'
    BY <1>1, <1>3, <1>4 DEF IInv, TypeOK, envVars, collVars
  <1>6. TotalIsSum' /\ CollateralHeld' /\ NoUnsecuredDebt'
    BY <1>1 DEF IInv, TotalIsSum, CollateralHeld, NoUnsecuredDebt, collVars
  <1> QED BY <1>3, <1>4, <1>5, <1>6 DEF IInv

(* Deposits and withdrawals: the collateral of one vault becomes c. *)
LEMMA CollateralMoveInv ==
    ASSUME IInv, NEW i \in Ilks, NEW u \in Users, NEW c \in Nat,
           c = 0 => normalizedDebt[i][u] = 0,
           UNCHANGED <<envVars, totalNormalizedDebt, normalizedDebt, balance, poolGUSD>>,
           Accrue(i),
           ilkDebt' = [ilkDebt EXCEPT ![i] = @ + Fee(i)],
           totalSupply' = totalSupply + Fee(i),
           collateral' = [collateral EXCEPT ![i][u] = c],
           held' = [held EXCEPT ![i] = held[i] - collateral[i][u] + c]
    PROVE  IInv'
  <1>1. UNCHANGED <<now, balance, poolGUSD>>
    BY DEF envVars
  <1>2. ilkDebt' \in [Ilks -> Nat] /\ totalSupply' \in Nat /\ SupplyIsSum'
    BY <1>1, FeeMinted DEF IInv
  <1>3. /\ chi' \in [Ilks -> Nat] /\ lastDrip' \in [Ilks -> Nat]
        /\ AccumulatorsSound' /\ feeSink' \in Nat
    BY <1>1, AccrueSound DEF IInv
  <1>4. collateral' \in [Ilks -> [Users -> Nat]] /\ held' \in [Ilks -> Nat] /\ CollateralHeld'
    BY CollateralSound DEF IInv
  <1>5. TypeOK'
    BY <1>2, <1>3, <1>4 DEF IInv, TypeOK, envVars
  <1>6. TotalIsSum'
    BY DEF IInv, TotalIsSum
  <1>7. NoUnsecuredDebt'
    BY DEF IInv, NoUnsecuredDebt, TypeOK
  <1> QED BY <1>2, <1>3, <1>4, <1>5, <1>6, <1>7 DEF IInv

(* depositCollateral preserves the invariant. *)
LEMMA DepositInv ==
    ASSUME IInv, NEW i \in Ilks, NEW u \in Users, NEW amount \in 1..MaxCollateral,
           DepositCollateral(i, u, amount)
    PROVE  IInv'
  <1> DEFINE c == collateral[i][u] + amount
  <1>1. collateral[i][u] \in Nat /\ held[i] \in Nat /\ amount \in Nat /\ amount > 0
    BY VaultConstants DEF IInv, TypeOK
  <1>2. c \in Nat /\ c # 0
    BY <1>1
  <1>3. held[i] + amount = held[i] - collateral[i][u] + c
    BY <1>1
  <1>4. collateral' = [collateral EXCEPT ![i][u] = c]
    BY DEF DepositCollateral
  <1>5. held' = [held EXCEPT ![i] = held[i] - collateral[i][u] + c]
    BY <1>3 DEF DepositCollateral
  <1> HIDE DEF c
  <1> QED BY <1>2, <1>4, <1>5, CollateralMoveInv DEF DepositCollateral

(* withdrawCollateral preserves the invariant. *)
LEMMA WithdrawInv ==
    ASSUME IInv, NEW i \in Ilks, NEW u \in Users, NEW amount \in 1..collateral[i][u],
           WithdrawCollateral(i, u, amount)
    PROVE  IInv'
  <1> DEFINE c == collateral[i][u] - amount
  <1>1. collateral[i][u] \in Nat /\ held[i] \in Nat /\ amount \in Nat /\ amount <= collateral[i][u]
    BY DEF IInv, TypeOK
  <1>2. c \in Nat
    BY <1>1
  <1>3. held[i] - amount = held[i] - collateral[i][u] + c
    BY <1>1
  <1>4. collateral' = [collateral EXCEPT ![i][u] = c]
    BY DEF WithdrawCollateral
  <1>5. held' = [held EXCEPT ![i] = held[i] - collateral[i][u] + c]
    BY <1>3 DEF WithdrawCollateral
  <1>6. Healthy(i, normalizedDebt[i][u], c)
    BY DEF WithdrawCollateral, HealthyAfter
  <1>7. normalizedDebt[i][u] \in Nat
    BY DEF IInv, TypeOK
  <1> HIDE DEF c
  <1>8. c = 0 => normalizedDebt[i][u] = 0
    BY <1>6, <1>7, UnsecuredIsUnhealthy DEF IInv
  <1> QED BY <1>2, <1>4, <1>5, <1>8, CollateralMoveInv DEF WithdrawCollateral

(* The debt and the collateral of one vault change, a user pays or is paid, *)
(* and the pool may burn: mint, repay, close and liquidate.                *)
LEMMA VaultMoveInv ==
    ASSUME IInv, NEW i \in Ilks, NEW u \in Users, NEW w \in Users,
           NEW n \in Nat, NEW c \in Nat, NEW b \in Nat, c = 0 => n = 0,
           UNCHANGED envVars,
           Accrue(i),
           SetVaultDebt(i, u, n),
           collateral' = [collateral EXCEPT ![i][u] = c],
           held' = [held EXCEPT ![i] = held[i] - collateral[i][u] + c],
           balance' = [balance EXCEPT ![w] = b],
           poolGUSD' \in Nat,
           totalSupply' = totalSupply + Fee(i) + (b - balance[w]) + (poolGUSD' - poolGUSD)
    PROVE  IInv'
  <1>1. UNCHANGED now
    BY DEF envVars
  <1>2. /\ chi' \in [Ilks -> Nat] /\ lastDrip' \in [Ilks -> Nat]
        /\ AccumulatorsSound' /\ feeSink' \in Nat
        /\ feeSink' = feeSink + Fee(i) /\ Fee(i) \in Nat
    BY <1>1, AccrueSound DEF IInv
  <1>3. /\ normalizedDebt' = [normalizedDebt EXCEPT ![i][u] = n]
        /\ normalizedDebt' \in [Ilks -> [Users -> Nat]]
        /\ totalNormalizedDebt' \in [Ilks -> Nat]
        /\ ilkDebt' \in [Ilks -> Nat]
        /\ TotalIsSum'
    BY VaultDebtSound DEF IInv
  <1>4. collateral' \in [Ilks -> [Users -> Nat]] /\ held' \in [Ilks -> Nat] /\ CollateralHeld'
    BY CollateralSound DEF IInv
  <1>5. totalSupply' = totalSupply + (b - balance[w]) + (feeSink' - feeSink)
                                   + (poolGUSD' - poolGUSD)
    BY <1>2 DEF IInv, TypeOK
  <1>6. balance' \in [Users -> Nat] /\ totalSupply' \in Nat /\ SupplyIsSum'
    BY <1>2, <1>5, SupplySound DEF IInv
  <1>7. NoUnsecuredDebt'
    BY <1>3, SecuredAfter DEF IInv
  <1>8. TypeOK'
    BY <1>2, <1>3, <1>4, <1>6 DEF IInv, TypeOK, envVars
  <1> QED BY <1>2, <1>3, <1>4, <1>6, <1>7, <1>8 DEF IInv

(* Keeping the collateral is replacing it by itself. *)
LEMMA CollateralKept ==
    ASSUME TypeOK, NEW i \in Ilks, NEW u \in Users, UNCHANGED collVars
    PROVE  /\ collateral' = [collateral EXCEPT ![i][u] = collateral[i][u]]
           /\ held' = [held EXCEPT ![i] = held[i] - collateral[i][u] + collateral[i][u]]
  <1>1. held[i] - collateral[i][u] + collateral[i][u] = held[i]
    BY DEF TypeOK
  <1> QED BY <1>1 DEF TypeOK, collVars

(* mintGUSD preserves the invariant: the debt it adds is checked for health. *)
LEMMA MintInv ==
    ASSUME IInv, NEW i \in Ilks, NEW u \in Users, NEW amount \in 1..MaxSupply,
           MintGUSD(i, u, amount)
    PROVE  IInv'
  <1> DEFINE minted == (amount * RAY) \div NewChi(i)
             n == normalizedDebt[i][u] + minted
             b == balance[u] + amount
  <1>1. /\ amount \in Nat /\ RAY \in Nat \ {0} /\ amount * RAY \in Nat
        /\ NewChi(i) \in Nat /\ NewChi(i) >= RAY
        /\ normalizedDebt[i][u] \in Nat /\ collateral[i][u] \in Nat /\ balance[u] \in Nat
        /\ Fee(i) \in Nat /\ totalSupply \in Nat /\ poolGUSD \in Nat
    BY VaultConstants, NewChiSound, TimesNat DEF IInv, TypeOK
  <1>2. minted \in Nat
    BY <1>1, DivNat
  <1>3. n \in Nat /\ b \in Nat
    BY <1>1, <1>2
  <1>4. /\ Healthy(i, n, collateral[i][u])
        /\ SetVaultDebt(i, u, n)
        /\ balance' = [balance EXCEPT ![u] = b]
        /\ totalSupply' = totalSupply + Fee(i) + amount
        /\ UNCHANGED <<envVars, collVars, poolGUSD>>
        /\ Accrue(i)
    BY DEF MintGUSD
  <1>5. /\ totalSupply' = totalSupply + Fee(i) + (b - balance[u]) + (poolGUSD' - poolGUSD)
        /\ poolGUSD' \in Nat
    BY <1>1, <1>4
  <1> HIDE DEF n, b
  <1>6. collateral[i][u] = 0 => n = 0
    BY <1>3, <1>4, UnsecuredIsUnhealthy DEF IInv
  <1>7. /\ collateral' = [collateral EXCEPT ![i][u] = collateral[i][u]]
        /\ held' = [held EXCEPT ![i] = held[i] - collateral[i][u] + collateral[i][u]]
    BY <1>4, CollateralKept DEF IInv
  <1> QED BY <1>1, <1>3, <1>4, <1>5, <1>6, <1>7, VaultMoveInv

(* repayGUSD preserves the invariant. *)
LEMMA RepayInv ==
    ASSUME IInv, NEW i \in Ilks, NEW u \in Users, NEW asked \in 1..MaxSupply,
           RepayGUSD(i, u, asked)
    PROVE  IInv'
  <1> DEFINE amount == IF asked > Debt(i, u) THEN Debt(i, u) ELSE asked
             repaid == (amount * RAY) \div NewChi(i)
             n == IF repaid > normalizedDebt[i][u] THEN 0 ELSE normalizedDebt[i][u] - repaid
             b == balance[u] - amount
  <1>1. /\ RAY \in Nat \ {0}
        /\ NewChi(i) \in Nat /\ NewChi(i) >= RAY
        /\ normalizedDebt[i][u] \in Nat /\ collateral[i][u] \in Nat /\ balance[u] \in Nat
        /\ Fee(i) \in Nat /\ totalSupply \in Nat /\ poolGUSD \in Nat
    BY VaultConstants, NewChiSound DEF IInv, TypeOK
  <1>2. amount \in Nat /\ amount <= balance[u]
    <2>1. Debt(i, u) \in Nat
      BY <1>1, OwedAtLeast DEF Debt
    <2>2. amount <= balance[u]
      BY DEF RepayGUSD
    <2> QED BY <2>1, <2>2, VaultConstants
  <1>3. /\ SetVaultDebt(i, u, n)
        /\ balance' = [balance EXCEPT ![u] = b]
        /\ totalSupply' = totalSupply + Fee(i) - amount
        /\ UNCHANGED <<envVars, collVars, poolGUSD>>
        /\ Accrue(i)
    BY DEF RepayGUSD
  <1> HIDE DEF amount
  <1>4. repaid \in Nat
    <2>1. amount * RAY \in Nat
      BY <1>1, <1>2, TimesNat
    <2> QED BY <1>1, <2>1, DivNat
  <1> HIDE DEF repaid
  <1>5. n \in Nat /\ n <= normalizedDebt[i][u] /\ b \in Nat
    BY <1>1, <1>2, <1>4
  <1>6. /\ totalSupply' = totalSupply + Fee(i) + (b - balance[u]) + (poolGUSD' - poolGUSD)
        /\ poolGUSD' \in Nat
    BY <1>1, <1>2, <1>3
  <1> HIDE DEF n, b
  <1>7. collateral[i][u] = 0 => n = 0
    BY <1>1, <1>5 DEF IInv, NoUnsecuredDebt
  <1>8. /\ collateral' = [collateral EXCEPT ![i][u] = collateral[i][u]]
        /\ held' = [held EXCEPT ![i] = held[i] - collateral[i][u] + collateral[i][u]]
    BY <1>3, CollateralKept DEF IInv
  <1> QED BY <1>1, <1>3, <1>5, <1>6, <1>7, <1>8, VaultMoveInv

(* A vault that is emptied gives back all its collateral. *)
LEMMA CollateralEmptied ==
    ASSUME TypeOK, NEW i \in Ilks, NEW u \in Users,
           held' = [held EXCEPT ![i] = @ - collateral[i][u]]
    PROVE  held' = [held EXCEPT ![i] = held[i] - collateral[i][u] + 0]
  <1>1. held[i] - collateral[i][u] = held[i] - collateral[i][u] + 0
    BY DEF TypeOK
  <1> QED BY <1>1

(* closeVault preserves the invariant: it clears the debt with the vault. *)
LEMMA CloseInv ==
    ASSUME IInv, NEW i \in Ilks, NEW u \in Users, CloseVault(i, u)
    PROVE  IInv'
  <1> DEFINE debt == Debt(i, u)
             b == balance[u] - debt
  <1>1. /\ debt \in Nat /\ debt >= normalizedDebt[i][u]
        /\ normalizedDebt[i][u] \in Nat /\ balance[u] \in Nat
        /\ Fee(i) \in Nat /\ totalSupply \in Nat /\ poolGUSD \in Nat
    BY NewChiSound, OwedAtLeast DEF IInv, TypeOK, Debt
  <1>2. /\ debt <= balance[u]
        /\ Accrue(i)
        /\ balance' = [balance EXCEPT ![u] = b]
        /\ totalSupply' = totalSupply + Fee(i) - debt
        /\ collateral' = [collateral EXCEPT ![i][u] = 0]
        /\ held' = [held EXCEPT ![i] = @ - collateral[i][u]]
        /\ UNCHANGED <<envVars, poolGUSD>>
    BY <1>1 DEF CloseVault
  <1>3. b \in Nat
    BY <1>1, <1>2
  <1>4. /\ totalSupply' = totalSupply + Fee(i) + (b - balance[u]) + (poolGUSD' - poolGUSD)
        /\ poolGUSD' \in Nat
    BY <1>1, <1>2
  <1>5. held' = [held EXCEPT ![i] = held[i] - collateral[i][u] + 0]
    BY <1>2, CollateralEmptied DEF IInv
  <1>6. CASE debt > 0
    <2>1. SetVaultDebt(i, u, 0)
      BY <1>6 DEF CloseVault
    <2> HIDE DEF b
    <2> QED BY <1>2, <1>3, <1>4, <1>5, <2>1, VaultMoveInv
  <1>7. CASE ~(debt > 0)
    <2>1. /\ ilkDebt' = [ilkDebt EXCEPT ![i] = @ + Fee(i)]
          /\ UNCHANGED <<totalNormalizedDebt, normalizedDebt>>
      BY <1>7 DEF CloseVault
    <2>2. debt = 0 /\ normalizedDebt[i][u] = 0
      BY <1>1, <1>7
    <2>3. b = balance[u] /\ totalSupply' = totalSupply + Fee(i)
      BY <1>1, <1>2, <2>2
    <2>4. balance' = balance
      BY <1>2, <2>3 DEF IInv, TypeOK
    <2>5. UNCHANGED <<envVars, totalNormalizedDebt, normalizedDebt, balance, poolGUSD>>
      BY <1>2, <2>1, <2>4
    <2>6. Accrue(i) /\ collateral' = [collateral EXCEPT ![i][u] = 0]
      BY <1>2
    <2>7. /\ ilkDebt' = [ilkDebt EXCEPT ![i] = @ + Fee(i)]
          /\ totalSupply' = totalSupply + Fee(i)
          /\ 0 \in Nat /\ 0 = 0 => normalizedDebt[i][u] = 0
      BY <2>1, <2>2, <2>3
    <2> HIDE DEF debt, b
    <2> QED BY <1>5, <2>5, <2>6, <2>7, CollateralMoveInv
  <1> QED BY <1>6, <1>7

(* liquidate preserves the invariant: debt and collateral go together. *)
LEMMA LiquidateInv ==
    ASSUME IInv, NEW i \in Ilks, NEW owner \in Users, NEW liquidator \in Users,
           Liquidate(i, owner, liquidator)
    PROVE  IInv'
  <1> DEFINE debt == Debt(i, owner)
             remaining == debt - PoolDebt(debt)
             burn == PoolBurn(i, owner, debt)
             b == balance[liquidator] - remaining
             share == PoolCollateral(i, owner, debt)
  <1>1. /\ debt \in Nat /\ debt >= normalizedDebt[i][owner] /\ normalizedDebt[i][owner] \in Nat /\ balance[liquidator] \in Nat
        /\ Fee(i) \in Nat /\ totalSupply \in Nat /\ poolGUSD \in Nat
    BY NewChiSound, OwedAtLeast DEF IInv, TypeOK, Debt
  <1>2. /\ Accrue(i)
        /\ SetVaultDebt(i, owner, 0)
        /\ balance[liquidator] >= remaining
        /\ balance' = [balance EXCEPT ![liquidator] = b]
        /\ poolGUSD' = poolGUSD - burn
        /\ totalSupply' = totalSupply + Fee(i) - burn - remaining
        /\ collateral' = [collateral EXCEPT ![i][owner] = 0]
        /\ held' = [held EXCEPT ![i] = held[i] - share - (collateral[i][owner] - share)]
        /\ UNCHANGED envVars
        /\ normalizedDebt[i][owner] > 0
    BY DEF Liquidate, LiquidatorCollateral
  <1>0. debt > 0
    BY <1>1, <1>2
  <1> HIDE DEF debt
  <1>3. PoolDebt(debt) \in Nat /\ PoolDebt(debt) <= debt /\ PoolDebt(debt) <= poolGUSD
    BY <1>1 DEF PoolDebt
  <1>4. burn \in Nat /\ burn <= poolGUSD
    BY <1>1, <1>3 DEF PoolBurn
  <1>5. remaining \in Nat
    BY <1>1, <1>3
  <1> HIDE DEF burn, remaining
  <1>6. b \in Nat /\ poolGUSD' \in Nat
    BY <1>1, <1>2, <1>4, <1>5
  <1>7. totalSupply' = totalSupply + Fee(i) + (b - balance[liquidator]) + (poolGUSD' - poolGUSD)
    BY <1>1, <1>2, <1>4, <1>5
  <1>8. held' = [held EXCEPT ![i] = held[i] - collateral[i][owner] + 0]
    <2>1. collateral[i][owner] \in Nat /\ held[i] \in Nat
      BY DEF IInv, TypeOK
    <2>2. share \in Nat
      BY <2>1, <1>0, <1>1, <1>3, TimesNat, DivNat DEF PoolCollateral
    <2> HIDE DEF share
    <2>3. held[i] - share - (collateral[i][owner] - share) = held[i] - collateral[i][owner] + 0
      BY <2>1, <2>2
    <2> QED BY <1>2, <2>3
  <1> HIDE DEF b
  <1> QED BY <1>2, <1>6, <1>7, <1>8, VaultMoveInv

(* Moving gUSD between users, or between a user and the pool. *)

(* A step that only moves gUSD and keeps its sum preserves the invariant. *)
LEMMA GUSDOnlyInv ==
    ASSUME IInv, UNCHANGED <<envVars, accVars, debtVars, collVars, feeSink, totalSupply>>,
           balance' \in [Users -> Nat], poolGUSD' \in Nat, SupplyIsSum'
    PROVE  IInv'
  BY DEF IInv, TypeOK, AccumulatorsSound, TotalIsSum, CollateralHeld, NoUnsecuredDebt,
         envVars, accVars, debtVars, collVars

(* A transfer of gUSD between users preserves the invariant. *)
LEMMA TransferInv ==
    ASSUME IInv, NEW u \in Users, NEW v \in Users, NEW amount \in 1..MaxSupply,
           Transfer(u, v, amount)
    PROVE  IInv'
  <1> DEFINE mid == [balance EXCEPT ![u] = balance[u] - amount]
             end == [mid EXCEPT ![v] = mid[v] + amount]
             before == SumFunctionOnSet(balance, Users)
             middle == SumFunctionOnSet(mid, Users)
             after == SumFunctionOnSet(end, Users)
  <1>1. /\ balance \in [Users -> Nat] /\ amount \in Nat /\ amount <= balance[u] /\ u # v
        /\ balance' = [balance EXCEPT ![u] = @ - amount, ![v] = @ + amount]
        /\ UNCHANGED <<envVars, accVars, debtVars, collVars, feeSink, poolGUSD, totalSupply>>
    BY VaultConstants DEF Transfer, IInv, TypeOK
  <1>2. balance' = end
    BY <1>1
  <1>3. mid \in [Users -> Nat] /\ mid[u] = balance[u] - amount
    BY <1>1
  <1>4. end \in [Users -> Nat] /\ end[v] = mid[v] + amount
    BY <1>1, <1>3
  <1>5. middle = before - balance[u] + (balance[u] - amount)
    <2>1. balance \in [Users -> Int] /\ balance[u] - amount \in Int
      BY <1>1
    <2> QED BY <2>1, EntryReplaced
  <1> HIDE DEF mid
  <1>6. /\ mid \in [Users -> Int] /\ balance \in [Users -> Int]
        /\ mid[v] \in Int /\ balance[u] \in Int
    <2>1. mid \in [Users -> Int]
      BY <1>3
    <2>2. balance \in [Users -> Int]
      BY <1>1
    <2> QED BY <2>1, <2>2
  <1>7. after = middle - mid[v] + (mid[v] + amount)
    <2>1. mid[v] + amount \in Int
      BY <1>1, <1>6
    <2> QED BY <1>6, <2>1, EntryReplaced
  <1>8. before \in Int /\ middle \in Int
    BY <1>6, SumType, VaultConstants
  <1>9. SumFunctionOnSet(balance', Users) = after
    BY <1>2
  <1> HIDE DEF middle, after, end
  <1>10. after = before
    <2> HIDE DEF before
    <2> QED BY <1>1, <1>5, <1>6, <1>7, <1>8
  <1>11. SupplyIsSum'
    BY <1>1, <1>9, <1>10 DEF IInv, SupplyIsSum
  <1>12. balance' \in [Users -> Nat] /\ poolGUSD' \in Nat
    BY <1>1, <1>2, <1>4 DEF IInv, TypeOK
  <1> QED BY <1>1, <1>11, <1>12, GUSDOnlyInv

(* A user moves amount into the pool, or, if it is negative, out of it. *)
LEMMA PoolMoveInv ==
    ASSUME IInv, NEW u \in Users, NEW b \in Nat,
           balance' = [balance EXCEPT ![u] = b],
           poolGUSD' \in Nat, poolGUSD' + b = poolGUSD + balance[u],
           UNCHANGED <<envVars, accVars, debtVars, collVars, feeSink, totalSupply>>
    PROVE  IInv'
  <1>1. /\ feeSink \in Nat /\ totalSupply \in Nat /\ poolGUSD \in Nat /\ balance[u] \in Nat
        /\ feeSink' = feeSink /\ totalSupply' = totalSupply
    BY DEF IInv, TypeOK
  <1>2. totalSupply' = totalSupply + (b - balance[u]) + (feeSink' - feeSink)
                                   + (poolGUSD' - poolGUSD)
    <2>1. b - balance[u] = poolGUSD - poolGUSD'
      BY <1>1
    <2>2. feeSink' - feeSink = 0
      BY <1>1
    <2> QED BY <1>1, <2>1, <2>2
  <1>3. balance' \in [Users -> Nat] /\ SupplyIsSum'
    BY <1>1, <1>2, SupplySound DEF IInv
  <1> QED BY <1>3, GUSDOnlyInv

(* A deposit into the stability pool preserves the invariant. *)
LEMMA ProvideInv ==
    ASSUME IInv, NEW u \in Users, NEW amount \in 1..MaxSupply, ProvideToPool(u, amount)
    PROVE  IInv'
  <1> DEFINE b == balance[u] - amount
  <1>1. b \in Nat /\ poolGUSD' \in Nat /\ poolGUSD' + b = poolGUSD + balance[u]
    BY VaultConstants DEF ProvideToPool, IInv, TypeOK
  <1>2. /\ balance' = [balance EXCEPT ![u] = b]
        /\ UNCHANGED <<envVars, accVars, debtVars, collVars, feeSink, totalSupply>>
    BY DEF ProvideToPool
  <1> HIDE DEF b
  <1> QED BY <1>1, <1>2, PoolMoveInv

(* A withdrawal from the stability pool preserves the invariant. *)
LEMMA TakeInv ==
    ASSUME IInv, NEW u \in Users, NEW amount \in 1..MaxSupply, TakeFromPool(u, amount)
    PROVE  IInv'
  <1> DEFINE b == balance[u] + amount
  <1>1. b \in Nat /\ poolGUSD' \in Nat /\ poolGUSD' + b = poolGUSD + balance[u]
    BY VaultConstants DEF TakeFromPool, IInv, TypeOK
  <1>2. /\ balance' = [balance EXCEPT ![u] = b]
        /\ UNCHANGED <<envVars, accVars, debtVars, collVars, feeSink, totalSupply>>
    BY DEF TakeFromPool
  <1> HIDE DEF b
  <1> QED BY <1>1, <1>2, PoolMoveInv

(* Time, prices and parameters touch no ledger. *)
LEMMA EnvInv ==
    ASSUME IInv, EnvStep
    PROVE  IInv'
  <1>1. UNCHANGED ledgerVars
    BY DEF EnvStep, Tick, SetPaused, SetPrice, SetConfig
  <1> DEFINE EnvOK == /\ now' \in Nat /\ now <= now' /\ now' <= MaxTime
                      /\ paused' \in BOOLEAN
                      /\ config' \in [Ilks -> Configs]
                      /\ price' \in [Ilks -> Prices]
  <1>2. CASE Tick
    <2>1. EnvOK
      BY <1>2, VaultConstants DEF Tick, IInv, TypeOK, AccumulatorsSound
    <2> QED BY <1>1, <2>1 DEF IInv, TypeOK, AccumulatorsSound, TotalIsSum, CollateralHeld,
            SupplyIsSum, NoUnsecuredDebt, ledgerVars, accVars, debtVars, collVars
  <1>3. ASSUME NEW b \in BOOLEAN, SetPaused(b)
        PROVE  IInv'
    <2>1. EnvOK
      BY <1>3 DEF SetPaused, IInv, TypeOK, AccumulatorsSound
    <2> QED BY <1>1, <2>1 DEF IInv, TypeOK, AccumulatorsSound, TotalIsSum, CollateralHeld,
            SupplyIsSum, NoUnsecuredDebt, ledgerVars, accVars, debtVars, collVars
  <1>4. ASSUME NEW i \in Ilks, NEW p \in Prices, SetPrice(i, p)
        PROVE  IInv'
    <2>1. EnvOK
      BY <1>4 DEF SetPrice, IInv, TypeOK, AccumulatorsSound
    <2> QED BY <1>1, <2>1 DEF IInv, TypeOK, AccumulatorsSound, TotalIsSum, CollateralHeld,
            SupplyIsSum, NoUnsecuredDebt, ledgerVars, accVars, debtVars, collVars
  <1>5. ASSUME NEW i \in Ilks, NEW c \in Configs, SetConfig(i, c)
        PROVE  IInv'
    <2>1. EnvOK
      BY <1>5 DEF SetConfig, IInv, TypeOK, AccumulatorsSound
    <2> QED BY <1>1, <2>1 DEF IInv, TypeOK, AccumulatorsSound, TotalIsSum, CollateralHeld,
            SupplyIsSum, NoUnsecuredDebt, ledgerVars, accVars, debtVars, collVars
  <1> QED BY <1>2, <1>3, <1>4, <1>5 DEF EnvStep

(* A step that changes nothing preserves the invariant. *)
LEMMA StutterInv ==
    ASSUME IInv, UNCHANGED vars
    PROVE  IInv'
  BY DEF IInv, TypeOK, AccumulatorsSound, TotalIsSum, CollateralHeld, SupplyIsSum,
         NoUnsecuredDebt, vars, envVars, accVars, debtVars, collVars

-----------------------------------------------------------------------------
(* The freshly deployed contracts satisfy the invariant. *)
LEMMA InitInv == Init => IInv
  <1> SUFFICES ASSUME Init PROVE IInv
    OBVIOUS
  <1>1. TypeOK
    BY VaultConstants DEF Init, TypeOK
  <1>2. AccumulatorsSound /\ NoUnsecuredDebt
    BY VaultConstants DEF Init, AccumulatorsSound, NoUnsecuredDebt
  <1> DEFINE Zero == [u \in Users |-> 0]
  <1>3. SumFunctionOnSet(Zero, Users) = 0
    <2>1. Zero \in [Users -> Int] /\ \A u \in Users : Zero[u] = 0
      OBVIOUS
    <2> HIDE DEF Zero
    <2> QED BY <2>1, SumOfZeros, VaultConstants
  <1>4. /\ \A i \in Ilks : normalizedDebt[i] = Zero /\ collateral[i] = Zero
        /\ balance = Zero
        /\ \A i \in Ilks : totalNormalizedDebt[i] = 0 /\ held[i] = 0
        /\ totalSupply = 0 /\ feeSink = 0 /\ poolGUSD = 0
    BY DEF Init
  <1> HIDE DEF Zero
  <1>5. TotalIsSum /\ CollateralHeld /\ SupplyIsSum
    BY <1>3, <1>4 DEF TotalIsSum, CollateralHeld, SupplyIsSum
  <1> QED BY <1>1, <1>2, <1>5 DEF IInv

(* Every reachable state of the CDP engine has sound accumulators, ledgers *)
(* that agree with each other and no debt without collateral.              *)
THEOREM LedgerInvariant == Spec => []IInv
  <1>1. Init => IInv
    BY InitInv
  <1>2. IInv /\ [Next]_vars => IInv'
    <2> SUFFICES ASSUME IInv, [Next]_vars PROVE IInv'
      OBVIOUS
    <2>1. ASSUME NEW i \in Ilks, Drip(i) PROVE IInv'
      BY <2>1, DripInv
    <2>2. ASSUME NEW i \in Ilks, NEW u \in Users, VaultStep(i, u) PROVE IInv'
      BY <2>2, DepositInv, WithdrawInv, MintInv, RepayInv, CloseInv, LiquidateInv DEF VaultStep
    <2>3. ASSUME NEW u \in Users, GUSDStep(u) PROVE IInv'
      BY <2>3, TransferInv, ProvideInv, TakeInv DEF GUSDStep
    <2>4. CASE EnvStep
      BY <2>4, EnvInv
    <2>5. CASE UNCHANGED vars
      BY <2>5, StutterInv
    <2> QED BY <2>1, <2>2, <2>3, <2>4, <2>5 DEF Next
  <1> QED BY <1>1, <1>2, PTL DEF Spec

(* The state stays well typed: no subtraction of the ledgers underflows.  *)
THEOREM LedgersAreTyped == Spec => []TypeOK
  <1>1. IInv => TypeOK
    BY DEF IInv
  <1> QED BY <1>1, LedgerInvariant, PTL

(* The totals, the collateral and the gUSD supply always agree with the    *)
(* vaults and the holders (drip and every vault operation).                *)
THEOREM LedgersAlwaysAgree == Spec => []LedgersAgree
  <1>1. IInv => LedgersAgree
    BY DEF IInv, LedgersAgree
  <1> QED BY <1>1, LedgerInvariant, PTL

(* No operation leaves debt in a vault it has emptied of collateral. *)
THEOREM DebtIsSecured == Spec => []NoUnsecuredDebt
  <1>1. IInv => NoUnsecuredDebt
    BY DEF IInv
  <1> QED BY <1>1, LedgerInvariant, PTL

-----------------------------------------------------------------------------
(* The code's running total of debt. *)

(* drip adds a rounded fee to the running total and the unrounded growth   *)
(* to what the accumulator implies.                                        *)
LEMMA FeeNotAhead ==
    ASSUME IInv, IlkDebtNotAhead, NEW i \in Ilks, Accrue(i), UNCHANGED totalNormalizedDebt,
           ilkDebt' = [ilkDebt EXCEPT ![i] = @ + Fee(i)]
    PROVE  IlkDebtNotAhead'
  <1>1. /\ NewChi(i) \in Nat /\ NewChi(i) >= RAY /\ Fee(i) \in Nat
        /\ chi[i] \in Nat /\ totalNormalizedDebt[i] \in Nat /\ ilkDebt[i] \in Nat
        /\ RAY \in Nat \ {0}
    BY NewChiSound, VaultConstants DEF IInv, TypeOK
  <1>2. ilkDebt[i] <= Owed(totalNormalizedDebt[i], chi[i])
    BY DEF IlkDebtNotAhead
  <1>3. ilkDebt[i] + Fee(i) <= Owed(totalNormalizedDebt[i], NewChi(i))
    <2>1. CASE chi[i] = 0
      <3>1. Owed(totalNormalizedDebt[i], chi[i]) = 0 /\ Fee(i) = 0
        BY <1>1, <2>1 DEF Owed, Fee
      <3>2. Owed(totalNormalizedDebt[i], NewChi(i)) \in Nat
        BY <1>1, OwedAtLeast
      <3> QED BY <1>1, <1>2, <3>1, <3>2
    <2>2. CASE chi[i] # 0
      <3> DEFINE total == totalNormalizedDebt[i]
                 before == total * chi[i]
                 growth == total * (NewChi(i) - chi[i])
      <3>1. NewChi(i) >= chi[i]
        BY <1>1, <2>2 DEF NewChi
      <3>2. before \in Nat /\ growth \in Nat
        <4>1. NewChi(i) - chi[i] \in Nat
          BY <1>1, <3>1
        <4> QED BY <1>1, <4>1, TimesNat
      <3>3. before + growth = total * NewChi(i)
        BY <1>1
      <3> HIDE DEF before, growth
      <3>4. (before \div RAY) + (growth \div RAY) <= (before + growth) \div RAY
        BY <1>1, <3>2, DivOfSum
      <3>5. /\ Fee(i) = growth \div RAY
            /\ Owed(totalNormalizedDebt[i], chi[i]) = before \div RAY
            /\ Owed(totalNormalizedDebt[i], NewChi(i)) = (before + growth) \div RAY
        BY <2>2, <3>3 DEF Fee, Owed, before, growth
      <3>6. /\ before \div RAY \in Nat /\ growth \div RAY \in Nat
            /\ (before + growth) \div RAY \in Nat
        BY <1>1, <3>2, DivNat
      <3> QED BY <1>1, <1>2, <3>4, <3>5, <3>6
    <2> QED BY <2>1, <2>2
  <1>4. /\ chi' = [chi EXCEPT ![i] = NewChi(i)]
        /\ ilkDebt' = [ilkDebt EXCEPT ![i] = ilkDebt[i] + Fee(i)]
    BY DEF Accrue
  <1> SUFFICES ASSUME NEW j \in Ilks
               PROVE  ilkDebt'[j] <= Owed(totalNormalizedDebt'[j], chi'[j])
    BY DEF IlkDebtNotAhead
  <1>5. CASE j = i
    <2>1. ilkDebt'[i] = ilkDebt[i] + Fee(i) /\ chi'[i] = NewChi(i)
      BY <1>4 DEF IInv, TypeOK
    <2> QED BY <1>3, <1>5, <2>1
  <1>6. CASE j # i
    <2>1. ilkDebt'[j] = ilkDebt[j] /\ chi'[j] = chi[j]
      BY <1>4, <1>6 DEF IInv, TypeOK
    <2> QED BY <2>1 DEF IlkDebtNotAhead
  <1> QED BY <1>5, <1>6

(* A new debt resets the running total to what the accumulator implies. *)
LEMMA DebtSetNotAhead ==
    ASSUME IInv, IlkDebtNotAhead, NEW i \in Ilks, NEW u \in Users, NEW n \in Nat,
           Accrue(i), SetVaultDebt(i, u, n)
    PROVE  IlkDebtNotAhead'
  <1> DEFINE total == totalNormalizedDebt[i] - normalizedDebt[i][u] + n
  <1>1. /\ totalNormalizedDebt' = [totalNormalizedDebt EXCEPT ![i] = total]
        /\ ilkDebt' = [ilkDebt EXCEPT ![i] = Owed(total, NewChi(i))]
        /\ chi' = [chi EXCEPT ![i] = NewChi(i)]
    BY DEF SetVaultDebt, Accrue
  <1>2. totalNormalizedDebt' \in [Ilks -> Nat]
    BY VaultDebtSound DEF IInv
  <1> HIDE DEF total
  <1> SUFFICES ASSUME NEW j \in Ilks
               PROVE  ilkDebt'[j] <= Owed(totalNormalizedDebt'[j], chi'[j])
    BY DEF IlkDebtNotAhead
  <1>3. CASE j = i
    <2>1. /\ totalNormalizedDebt'[i] = total
          /\ ilkDebt'[i] = Owed(total, NewChi(i)) /\ chi'[i] = NewChi(i)
      BY <1>1 DEF IInv, TypeOK
    <2>2. Owed(total, NewChi(i)) \in Nat
      BY <1>2, <2>1, NewChiSound, OwedAtLeast DEF IInv
    <2> QED BY <1>3, <2>1, <2>2
  <1>4. CASE j # i
    <2>1. /\ totalNormalizedDebt'[j] = totalNormalizedDebt[j]
          /\ ilkDebt'[j] = ilkDebt[j] /\ chi'[j] = chi[j]
      BY <1>1, <1>4 DEF IInv, TypeOK
    <2> QED BY <2>1 DEF IlkDebtNotAhead
  <1> QED BY <1>3, <1>4

(* The debt a repayment leaves, as repayGUSD computes it. *)
LEMMA RepaidDebt ==
    ASSUME IInv, NEW i \in Ilks, NEW u \in Users, NEW asked \in 1..MaxSupply,
           RepayGUSD(i, u, asked)
    PROVE  \E n \in Nat : n <= normalizedDebt[i][u] /\ SetVaultDebt(i, u, n)
  <1> DEFINE amount == IF asked > Debt(i, u) THEN Debt(i, u) ELSE asked
             repaid == (amount * RAY) \div NewChi(i)
             n == IF repaid > normalizedDebt[i][u] THEN 0 ELSE normalizedDebt[i][u] - repaid
  <1>1. /\ RAY \in Nat \ {0} /\ NewChi(i) \in Nat /\ NewChi(i) >= RAY
        /\ normalizedDebt[i][u] \in Nat
    BY VaultConstants, NewChiSound DEF IInv, TypeOK
  <1>2. amount \in Nat
    <2>1. Debt(i, u) \in Nat
      BY <1>1, OwedAtLeast DEF Debt
    <2> QED BY <2>1, VaultConstants
  <1>3. SetVaultDebt(i, u, n)
    BY DEF RepayGUSD
  <1> HIDE DEF amount
  <1>4. repaid \in Nat
    <2>1. amount * RAY \in Nat
      BY <1>1, <1>2, TimesNat
    <2> QED BY <1>1, <2>1, DivNat
  <1> HIDE DEF repaid
  <1>5. n \in Nat /\ n <= normalizedDebt[i][u]
    BY <1>1, <1>4
  <1> HIDE DEF n
  <1> QED BY <1>3, <1>5

(* The debt a mint leaves, as mintGUSD computes it and checks it. *)
LEMMA MintedDebt ==
    ASSUME IInv, NEW i \in Ilks, NEW u \in Users, NEW amount \in 1..MaxSupply,
           MintGUSD(i, u, amount)
    PROVE  \E n \in Nat : Healthy(i, n, collateral[i][u]) /\ SetVaultDebt(i, u, n)
  <1> DEFINE minted == (amount * RAY) \div NewChi(i)
             n == normalizedDebt[i][u] + minted
  <1>1. /\ amount \in Nat /\ RAY \in Nat \ {0} /\ NewChi(i) \in Nat /\ NewChi(i) >= RAY
        /\ normalizedDebt[i][u] \in Nat
    BY VaultConstants, NewChiSound DEF IInv, TypeOK
  <1>2. minted \in Nat
    <2>1. amount * RAY \in Nat
      BY <1>1, TimesNat
    <2> QED BY <1>1, <2>1, DivNat
  <1>3. Healthy(i, n, collateral[i][u]) /\ SetVaultDebt(i, u, n)
    BY DEF MintGUSD
  <1>4. n \in Nat
    BY <1>1, <1>2
  <1> HIDE DEF n
  <1> QED BY <1>3, <1>4

(* Every step keeps the running total from running ahead. *)
LEMMA NotAheadStep ==
    ASSUME IInv, IlkDebtNotAhead, [Next]_vars
    PROVE  IlkDebtNotAhead'
  <1>1. ASSUME NEW i \in Ilks, Drip(i) PROVE IlkDebtNotAhead'
    BY <1>1, FeeNotAhead DEF Drip
  <1>2. ASSUME NEW i \in Ilks, NEW u \in Users, VaultStep(i, u) PROVE IlkDebtNotAhead'
    <2>1. ASSUME NEW amount, DepositCollateral(i, u, amount) PROVE IlkDebtNotAhead'
      BY <2>1, FeeNotAhead DEF DepositCollateral
    <2>2. ASSUME NEW amount, WithdrawCollateral(i, u, amount) PROVE IlkDebtNotAhead'
      BY <2>2, FeeNotAhead DEF WithdrawCollateral
    <2>3. ASSUME NEW amount \in 1..MaxSupply, MintGUSD(i, u, amount) PROVE IlkDebtNotAhead'
      <3>1. Accrue(i)
        BY <2>3 DEF MintGUSD
      <3> QED BY <2>3, <3>1, MintedDebt, DebtSetNotAhead
    <2>4. ASSUME NEW asked \in 1..MaxSupply, RepayGUSD(i, u, asked) PROVE IlkDebtNotAhead'
      <3>1. Accrue(i)
        BY <2>4 DEF RepayGUSD
      <3> QED BY <2>4, <3>1, RepaidDebt, DebtSetNotAhead
    <2>5. ASSUME CloseVault(i, u) PROVE IlkDebtNotAhead'
      <3>1. Accrue(i)
        BY <2>5 DEF CloseVault
      <3>2. CASE Debt(i, u) > 0
        <4>1. SetVaultDebt(i, u, 0)
          BY <2>5, <3>2 DEF CloseVault
        <4> QED BY <3>1, <4>1, DebtSetNotAhead
      <3>3. CASE ~(Debt(i, u) > 0)
        <4>1. ilkDebt' = [ilkDebt EXCEPT ![i] = @ + Fee(i)] /\ UNCHANGED totalNormalizedDebt
          BY <2>5, <3>3 DEF CloseVault
        <4> QED BY <3>1, <4>1, FeeNotAhead
      <3> QED BY <3>2, <3>3
    <2>6. ASSUME NEW owner \in Users, Liquidate(i, owner, u) PROVE IlkDebtNotAhead'
      <3>1. Accrue(i) /\ SetVaultDebt(i, owner, 0)
        BY <2>6 DEF Liquidate
      <3> QED BY <3>1, DebtSetNotAhead
    <2> QED BY <1>2, <2>1, <2>2, <2>3, <2>4, <2>5, <2>6 DEF VaultStep
  <1>3. ASSUME \/ \E u \in Users : GUSDStep(u)
               \/ EnvStep
               \/ UNCHANGED vars
        PROVE  IlkDebtNotAhead'
    <2>1. UNCHANGED <<ilkDebt, totalNormalizedDebt, chi>>
      BY <1>3 DEF GUSDStep, Transfer, ProvideToPool, TakeFromPool, EnvStep, Tick, SetPaused,
                  SetPrice, SetConfig, vars, ledgerVars, accVars, debtVars
    <2> QED BY <2>1 DEF IlkDebtNotAhead
  <1> QED BY <1>1, <1>2, <1>3 DEF Next

(* The debt the fees and the ceiling are computed from never runs ahead of *)
(* the debt that the accumulator implies (drip, mintGUSD, repayGUSD).      *)
THEOREM IlkDebtStaysBehind == Spec => []IlkDebtNotAhead
  <1>1. Init => IlkDebtNotAhead
    <2> SUFFICES ASSUME Init, NEW i \in Ilks
                 PROVE  ilkDebt[i] <= Owed(totalNormalizedDebt[i], chi[i])
      BY DEF IlkDebtNotAhead
    <2>1. ilkDebt[i] = 0 /\ totalNormalizedDebt[i] = 0 /\ chi[i] = 0
      BY DEF Init
    <2> QED BY <2>1, VaultConstants DEF Owed
  <1>2. IInv /\ IlkDebtNotAhead /\ [Next]_vars => IlkDebtNotAhead'
    BY NotAheadStep
  <1> QED BY <1>1, <1>2, LedgerInvariant, PTL DEF Spec

-----------------------------------------------------------------------------
(* Health. *)

(* HealthLostOnlyToMarket, of one step. *)
HealthKept ==
    \A i \in Ilks, u \in Users :
        Healthy(i, normalizedDebt[i][u], collateral[i][u])
        => Healthy(i, normalizedDebt[i][u], collateral[i][u])'

(* Less debt and more collateral are no less healthy. *)
LEMMA HealthMonotone ==
    ASSUME IInv, NEW i \in Ilks, NEW m \in Nat, NEW n \in Nat, NEW c \in Nat, NEW d \in Nat,
           n <= m, c <= d, Healthy(i, m, c)
    PROVE  Healthy(i, n, d)
  <1> DEFINE ratio == config[i].ratio
             less == Owed(n, NewChi(i))
             more == Owed(m, NewChi(i))
             required == (less * ratio) \div WAD
             before == (more * ratio) \div WAD
  <1>1. /\ ratio \in Nat /\ WAD \in Nat \ {0} /\ NewChi(i) \in Nat
        /\ price[i] \in Nat
    BY VaultConstants, NewChiSound DEF IInv, TypeOK, Configs
  <1>2. less \in Nat /\ more \in Nat /\ less <= more
    BY <1>1, OwedMonotone
  <1> HIDE DEF less, more
  <1>3. required \in Nat /\ before \in Nat /\ required <= before
    <2>1. less * ratio \in Nat /\ more * ratio \in Nat /\ less * ratio <= more * ratio
      BY <1>1, <1>2, TimesMonotone
    <2> QED BY <1>1, <2>1, DivNat, DivMonotone
  <1>4. c * price[i] \in Nat /\ d * price[i] \in Nat /\ c * price[i] <= d * price[i]
    BY <1>1, TimesMonotone
  <1>5. m = 0 \/ before = 0 \/ c * price[i] >= before
    BY DEF Healthy, more
  <1> HIDE DEF required, before
  <1>6. n = 0 \/ required = 0 \/ d * price[i] >= required
    BY <1>3, <1>4, <1>5
  <1> QED BY <1>6 DEF Healthy, required, less

(* Dripping brings the accumulator where the health check had already      *)
(* assumed it, and is not felt a second time.                              *)
LEMMA SameTerms ==
    ASSUME IInv, NEW i \in Ilks, UNCHANGED envVars, Accrue(i), NEW j \in Ilks
    PROVE  NewChi(j)' = NewChi(j)
  <1>1. /\ now' = now /\ config' = config
        /\ chi' = [chi EXCEPT ![i] = NewChi(i)]
        /\ lastDrip' = [lastDrip EXCEPT ![i] = now]
    BY DEF envVars, Accrue
  <1>2. CASE j = i
    <2>1. chi'[i] = NewChi(i) /\ lastDrip'[i] = now /\ now \in Nat
      BY <1>1 DEF IInv, TypeOK
    <2>2. NewChi(i) \in Nat /\ NewChi(i) # 0
      BY NewChiSound, VaultConstants DEF IInv
    <2>3. Elapsed(i)' = 0
      BY <1>1, <2>1 DEF Elapsed
    <2>4. Grown(i)' = chi'[i]
      BY <2>3 DEF Grown
    <2>5. NewChi(i)' = chi'[i]
      BY <2>1, <2>2, <2>4 DEF NewChi
    <2> QED BY <1>2, <2>1, <2>5
  <1>3. CASE j # i
    <2>1. chi'[j] = chi[j] /\ lastDrip'[j] = lastDrip[j]
      BY <1>1, <1>3 DEF IInv, TypeOK
    <2>2. Elapsed(j)' = Elapsed(j)
      BY <1>1, <2>1 DEF Elapsed
    <2>3. Grown(j)' = Grown(j)
      BY <1>1, <2>1, <2>2 DEF Grown
    <2> QED BY <2>1, <2>3 DEF NewChi
  <1> QED BY <1>2, <1>3

(* An operation on one vault that leaves it healthy if it was leaves every *)
(* vault so.                                                               *)
LEMMA OneVaultMoves ==
    ASSUME IInv, NEW i \in Ilks, NEW u \in Users, NEW n, NEW c, UNCHANGED envVars, Accrue(i),
           normalizedDebt' = [normalizedDebt EXCEPT ![i][u] = n],
           collateral' = [collateral EXCEPT ![i][u] = c],
           Healthy(i, normalizedDebt[i][u], collateral[i][u]) => Healthy(i, n, c)
    PROVE  HealthKept
  <1> SUFFICES ASSUME NEW j \in Ilks, NEW v \in Users,
                      Healthy(j, normalizedDebt[j][v], collateral[j][v])
               PROVE  Healthy(j, normalizedDebt[j][v], collateral[j][v])'
    BY DEF HealthKept
  <1>1. NewChi(j)' = NewChi(j) /\ config' = config /\ price' = price
    BY SameTerms DEF envVars
  <1>2. Healthy(j, normalizedDebt'[j][v], collateral'[j][v])
    <2>1. CASE j = i /\ v = u
      <3>1. normalizedDebt'[i][u] = n /\ collateral'[i][u] = c
        BY DEF IInv, TypeOK
      <3> QED BY <2>1, <3>1
    <2>2. CASE ~(j = i /\ v = u)
      <3>1. normalizedDebt'[j][v] = normalizedDebt[j][v] /\ collateral'[j][v] = collateral[j][v]
        BY <2>2 DEF IInv, TypeOK
      <3> QED BY <3>1
    <2> QED BY <2>1, <2>2
  <1> QED BY <1>1, <1>2 DEF Healthy

(* An operation that changes only the collateral replaces the debt by      *)
(* itself, and the other way round.                                        *)
LEMMA ReplacedByItself ==
    ASSUME NEW f, NEW i \in Ilks, NEW u \in Users, f \in [Ilks -> [Users -> Nat]]
    PROVE  f = [f EXCEPT ![i][u] = f[i][u]]
  OBVIOUS

(* No operation on a vault makes a vault unhealthy. *)
LEMMA VaultStepKeepsHealth ==
    ASSUME IInv, NEW i \in Ilks, NEW u \in Users, VaultStep(i, u), UNCHANGED envVars
    PROVE  HealthKept
  <1>1. /\ normalizedDebt \in [Ilks -> [Users -> Nat]]
        /\ collateral \in [Ilks -> [Users -> Nat]]
    BY DEF IInv, TypeOK
  <1>2. ASSUME NEW amount \in 1..MaxCollateral, DepositCollateral(i, u, amount) PROVE HealthKept
    <2> DEFINE c == collateral[i][u] + amount
    <2>1. /\ Accrue(i) /\ collateral' = [collateral EXCEPT ![i][u] = c]
          /\ normalizedDebt' = [normalizedDebt EXCEPT ![i][u] = normalizedDebt[i][u]]
      BY <1>1, <1>2, ReplacedByItself DEF DepositCollateral
    <2>2. /\ c \in Nat /\ collateral[i][u] <= c /\ collateral[i][u] \in Nat
          /\ normalizedDebt[i][u] \in Nat
      BY <1>1, VaultConstants
    <2> HIDE DEF c
    <2>3. Healthy(i, normalizedDebt[i][u], collateral[i][u]) => Healthy(i, normalizedDebt[i][u], c)
      BY <2>2, HealthMonotone
    <2> QED BY <2>1, <2>3, OneVaultMoves
  <1>3. ASSUME NEW amount, WithdrawCollateral(i, u, amount) PROVE HealthKept
    <2> DEFINE c == collateral[i][u] - amount
    <2>1. /\ Accrue(i) /\ collateral' = [collateral EXCEPT ![i][u] = c]
          /\ normalizedDebt' = [normalizedDebt EXCEPT ![i][u] = normalizedDebt[i][u]]
          /\ Healthy(i, normalizedDebt[i][u], c)
      BY <1>1, <1>3, ReplacedByItself DEF WithdrawCollateral, HealthyAfter
    <2> HIDE DEF c
    <2> QED BY <2>1, OneVaultMoves
  <1>4. ASSUME NEW amount \in 1..MaxSupply, MintGUSD(i, u, amount) PROVE HealthKept
    <2>1. PICK n \in Nat : Healthy(i, n, collateral[i][u]) /\ SetVaultDebt(i, u, n)
      BY <1>4, MintedDebt
    <2>2. /\ Accrue(i) /\ normalizedDebt' = [normalizedDebt EXCEPT ![i][u] = n]
          /\ collateral' = [collateral EXCEPT ![i][u] = collateral[i][u]]
      <3>1. Accrue(i) /\ collateral' = collateral
        BY <1>4 DEF MintGUSD, collVars
      <3>2. normalizedDebt' = [normalizedDebt EXCEPT ![i][u] = n]
        BY <2>1 DEF SetVaultDebt
      <3> QED BY <1>1, <3>1, <3>2, ReplacedByItself
    <2> QED BY <2>1, <2>2, OneVaultMoves
  <1>5. ASSUME NEW asked \in 1..MaxSupply, RepayGUSD(i, u, asked) PROVE HealthKept
    <2>1. PICK n \in Nat : n <= normalizedDebt[i][u] /\ SetVaultDebt(i, u, n)
      BY <1>5, RepaidDebt
    <2>2. /\ Accrue(i) /\ normalizedDebt' = [normalizedDebt EXCEPT ![i][u] = n]
          /\ collateral' = [collateral EXCEPT ![i][u] = collateral[i][u]]
      <3>1. Accrue(i) /\ collateral' = collateral
        BY <1>5 DEF RepayGUSD, collVars
      <3>2. normalizedDebt' = [normalizedDebt EXCEPT ![i][u] = n]
        BY <2>1 DEF SetVaultDebt
      <3> QED BY <1>1, <3>1, <3>2, ReplacedByItself
    <2>3. collateral[i][u] \in Nat /\ normalizedDebt[i][u] \in Nat
      BY <1>1
    <2>4. Healthy(i, normalizedDebt[i][u], collateral[i][u]) => Healthy(i, n, collateral[i][u])
      BY <2>1, <2>3, HealthMonotone
    <2> QED BY <2>2, <2>4, OneVaultMoves
  <1>6. ASSUME CloseVault(i, u) PROVE HealthKept
    <2>1. Accrue(i) /\ collateral' = [collateral EXCEPT ![i][u] = 0]
      BY <1>6 DEF CloseVault
    <2>2. CASE Debt(i, u) > 0
      <3>1. normalizedDebt' = [normalizedDebt EXCEPT ![i][u] = 0]
        BY <1>6, <2>2 DEF CloseVault, SetVaultDebt
      <3>2. Healthy(i, 0, 0)
        BY DEF Healthy
      <3> QED BY <2>1, <3>1, <3>2, OneVaultMoves
    <2>3. CASE ~(Debt(i, u) > 0)
      <3>1. normalizedDebt' = [normalizedDebt EXCEPT ![i][u] = normalizedDebt[i][u]]
        BY <1>1, <1>6, <2>3, ReplacedByItself DEF CloseVault
      <3>2. Debt(i, u) \in Nat /\ Debt(i, u) >= normalizedDebt[i][u] /\ normalizedDebt[i][u] \in Nat
        BY <1>1, NewChiSound, OwedAtLeast DEF IInv, Debt
      <3>3. normalizedDebt[i][u] = 0
        BY <2>3, <3>2
      <3>4. Healthy(i, normalizedDebt[i][u], 0)
        BY <3>3 DEF Healthy
      <3> QED BY <2>1, <3>1, <3>4, OneVaultMoves
    <2> QED BY <2>2, <2>3
  <1>7. ASSUME NEW owner \in Users, Liquidate(i, owner, u) PROVE HealthKept
    <2>1. /\ Accrue(i) /\ collateral' = [collateral EXCEPT ![i][owner] = 0]
          /\ normalizedDebt' = [normalizedDebt EXCEPT ![i][owner] = 0]
      BY <1>7 DEF Liquidate, SetVaultDebt
    <2>2. Healthy(i, 0, 0)
      BY DEF Healthy
    <2> QED BY <2>1, <2>2, OneVaultMoves
  <1> QED BY <1>2, <1>3, <1>4, <1>5, <1>6, <1>7 DEF VaultStep

(* No step that leaves the market alone makes a vault unhealthy. *)
LEMMA HealthStep ==
    ASSUME IInv, [Next]_vars, UNCHANGED envVars
    PROVE  HealthKept
  <1>1. ASSUME NEW i \in Ilks, Drip(i) PROVE HealthKept
    <2>1. Accrue(i) /\ normalizedDebt' = normalizedDebt /\ collateral' = collateral
      BY <1>1 DEF Drip, collVars
    <2> SUFFICES ASSUME NEW j \in Ilks, NEW v \in Users,
                        Healthy(j, normalizedDebt[j][v], collateral[j][v])
                 PROVE  Healthy(j, normalizedDebt[j][v], collateral[j][v])'
      BY DEF HealthKept
    <2>2. NewChi(j)' = NewChi(j)
      BY <2>1, SameTerms
    <2> QED BY <2>1, <2>2 DEF Healthy, envVars
  <1>2. ASSUME NEW i \in Ilks, NEW u \in Users, VaultStep(i, u) PROVE HealthKept
    BY <1>2, VaultStepKeepsHealth
  <1>3. ASSUME \/ \E u \in Users : GUSDStep(u)
               \/ EnvStep
               \/ UNCHANGED vars
        PROVE  HealthKept
    <2>1. UNCHANGED <<chi, lastDrip, normalizedDebt, collateral>>
      BY <1>3 DEF GUSDStep, Transfer, ProvideToPool, TakeFromPool, EnvStep, Tick, SetPaused,
                  SetPrice, SetConfig, vars, ledgerVars, accVars, debtVars, collVars
    <2>2. now' = now /\ config' = config /\ price' = price
      BY DEF envVars
    <2> SUFFICES ASSUME NEW j \in Ilks, NEW v \in Users,
                        Healthy(j, normalizedDebt[j][v], collateral[j][v])
                 PROVE  Healthy(j, normalizedDebt[j][v], collateral[j][v])'
      BY DEF HealthKept
    <2>3. Elapsed(j)' = Elapsed(j)
      BY <2>1, <2>2 DEF Elapsed
    <2>4. Grown(j)' = Grown(j)
      BY <2>1, <2>2, <2>3 DEF Grown
    <2>5. NewChi(j)' = NewChi(j)
      BY <2>1, <2>4 DEF NewChi
    <2> QED BY <2>1, <2>2, <2>5 DEF Healthy
  <1> QED BY <1>1, <1>2, <1>3 DEF Next

(* A healthy vault turns unhealthy only through the price, the passing of  *)
(* time or an admin: never by a drip or anybody's operation on a vault.    *)
THEOREM HealthIsLostOnlyToMarket == Spec => HealthLostOnlyToMarket
  <1> DEFINE Kept == UNCHANGED envVars => HealthKept
  <1>1. IInv /\ [Next]_vars => [Kept]_vars
    BY HealthStep
  <1>2. [][Kept]_vars => HealthLostOnlyToMarket
    BY PTL DEF HealthLostOnlyToMarket, HealthKept
  <1> QED BY LedgerInvariant, <1>1, <1>2, PTL DEF Spec
=============================================================================
