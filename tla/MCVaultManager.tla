--------------------------- MODULE MCVaultManager ---------------------------
(* Small instances of the CDP engine.  RAY = 2 makes every rate step and   *)
(* every division round, which 1e27 does only in the last digit.           *)
EXTENDS VaultManager, TLC

Math == INSTANCE RayMath WITH RAY <- RAY

MCGrowth == [r \in Rates |-> [n \in 1..MaxTime |-> Math!RPow(r, n)]]

(* Over bounded inputs _rpow is the power x^n / RAY^(n-1) up to the half    *)
(* units its n - 1 roundings may add, each grown by the remaining factors. *)
Decimal == INSTANCE RayMath WITH RAY <- 10

Distance(a, b) == IF a > b THEN a - b ELSE b - a

ASSUME RPowApproximatesPower ==
    \A x \in 10..14, n \in 2..6 :
        Distance(Decimal!RPow(x, n) * 10^(n - 1), x^n) * 2 <= (n - 1) * 10 * x^(n - 2)

Symmetry == Permutations(Users)
=============================================================================
