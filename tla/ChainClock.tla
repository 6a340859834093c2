------------------------------ MODULE ChainClock ------------------------------
(***************************************************************************)
(* Block time: transactions of one block share a timestamp, and the next    *)
(* block may come any time later.                                           *)
(***************************************************************************)
EXTENDS Integers

CONSTANT MaxTime     \* bound on block.timestamp

ASSUME ClockConstants == MaxTime \in Nat

VARIABLE now

Tick ==
    /\ now < MaxTime
    /\ now' = now + 1
===============================================================================
