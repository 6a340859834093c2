------------------------------ MODULE RayMath ------------------------------
(***************************************************************************)
(* VaultManager._rpow: exponentiation by squaring in fixed point, rounding *)
(* to nearest after every multiplication.                                  *)
(***************************************************************************)
EXTENDS Integers

CONSTANT RAY    \* 1.0 in fixed point

RayProduct(x, y) == (x * y + RAY \div 2) \div RAY

(* The loop of _rpow: x is squared for every further bit of the exponent n *)
(* and multiplied into the result z for the bits that are set.             *)
RPowLoop[n \in Nat, x \in Nat, z \in Nat] ==
    IF n = 0 THEN z
    ELSE LET square == RayProduct(x, x)
         IN  RPowLoop[n \div 2, square, IF n % 2 = 1 THEN RayProduct(z, square) ELSE z]

RPow(x, n) ==
    IF x = 0 THEN (IF n = 0 THEN RAY ELSE 0)
    ELSE RPowLoop[n \div 2, x, IF n % 2 = 1 THEN x ELSE RAY]
=============================================================================
