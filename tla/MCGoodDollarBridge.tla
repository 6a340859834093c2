-------------------------- MODULE MCGoodDollarBridge --------------------------
(* Small instances of the bridge. *)
EXTENDS GoodDollarBridge, TLC

CONSTANTS alice, bob, GD, USDC

(* One user brings tokens, the other ETH; they meet on L2. *)
MCEndowment == [a \in Assets |-> [u \in Users |->
                   CASE a = GD /\ u = alice -> 2 [] a = USDC /\ u = alice -> 1
                     [] a = ETH /\ u = bob -> 1 [] OTHER -> 0]]
MCNativeETH == [u \in Users |-> 0]

Symmetry == Permutations(L2Tokens)
===============================================================================
