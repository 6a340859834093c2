--------------------------- MODULE GoodDollarBridge ---------------------------
(***************************************************************************)
(* The canonical bridge: GoodDollarBridgeL1.sol locks G$, USDC and ETH on  *)
(* L1 and GoodDollarBridgeL2.sol mints or pays them out on L2, and back.   *)
(* The two contracts share no state: each sends messages to the other      *)
(* through the OP Stack messengers, which the module models from how the   *)
(* bridges use them: a message is delivered at most once, in any order,    *)
(* after any delay, and one whose handler reverts can be tried again.      *)
(***************************************************************************)
EXTENDS Integers, Functions, FiniteSets

CONSTANTS
    Users,
    Tokens,          \* the ERC-20 assets on L1, G$ and USDC
    L2Tokens,        \* their representations on L2, which only the bridge mints and burns
    ETH,
    Unmapped,        \* address(0) in l1ToL2Token
    Endowment,       \* the L1 wallets at the start: asset -> user -> balance
    NativeETH,       \* the ETH of the users on L2 from the start
    Prefund,         \* ETH sent to the L2 bridge through receive()
    MaxAmount        \* bound on the amount of one transfer

Assets == Tokens \cup {ETH}
L2Assets == L2Tokens \cup {ETH}
Amounts == 1..MaxAmount
Messages == [toward : {"L1", "L2"}, asset : Assets, to : Users, amount : Amounts]

ASSUME BridgeConstants ==
    /\ IsFiniteSet(Users) /\ IsFiniteSet(Tokens) /\ IsFiniteSet(L2Tokens)
    /\ ETH \notin Tokens \cup L2Tokens /\ Unmapped \notin L2Tokens
    /\ Endowment \in [Assets -> [Users -> Nat]] /\ NativeETH \in [Users -> Nat]
    /\ Prefund \in Nat /\ MaxAmount \in Nat

VARIABLES
    paused,       \* layer -> BOOLEAN
    peer,         \* layer -> is the other bridge's address configured?
    l1Wallet,     \* asset -> user -> balance on L1
    l2Wallet,     \* representation or ETH -> user -> balance on L2
    locked,       \* asset -> totalGDollarLocked, totalUSDCLocked, totalETHLocked
    mapped,       \* l1ToL2Token: token -> its representation on L2
    routes,       \* history: the pairs that mapToken has ever connected
    minted,       \* token -> totalMinted
    l2Held,       \* ETH in the L2 bridge
    pendingETH,   \* pendingETHWithdrawalTotal
    inFlight,     \* message -> copies sent and not yet delivered
    crossed       \* history: has a withdrawal ever named another token than its own?

configVars == <<paused, peer, mapped, routes>>
walletVars == <<l1Wallet, l2Wallet>>
ethVars == <<l2Held, pendingETH>>
vars == <<configVars, walletVars, locked, minted, ethVars, inFlight, crossed>>

TypeOK ==
    /\ paused \in [{"L1", "L2"} -> BOOLEAN]
    /\ peer \in [{"L1", "L2"} -> BOOLEAN]
    /\ l1Wallet \in [Assets -> [Users -> Nat]]
    /\ l2Wallet \in [L2Assets -> [Users -> Nat]]
    /\ locked \in [Assets -> Nat]
    /\ mapped \in [Tokens -> L2Tokens \cup {Unmapped}]
    /\ routes \in SUBSET (Tokens \X L2Tokens)
    /\ minted \in [Tokens -> Nat]
    /\ l2Held \in Nat
    /\ pendingETH \in Nat
    /\ inFlight \in [Messages -> Nat]
    /\ crossed \in BOOLEAN

Init ==
    /\ paused = [l \in {"L1", "L2"} |-> FALSE]
    /\ peer = [l \in {"L1", "L2"} |-> FALSE]
    /\ l1Wallet = Endowment
    /\ l2Wallet = [a \in L2Assets |-> [u \in Users |-> IF a = ETH THEN NativeETH[u] ELSE 0]]
    /\ locked = [a \in Assets |-> 0]
    /\ mapped = [t \in Tokens |-> Unmapped]
    /\ routes = {}
    /\ minted = [t \in Tokens |-> 0]
    /\ l2Held = Prefund
    /\ pendingETH = 0
    /\ inFlight = [m \in Messages |-> 0]
    /\ crossed = FALSE

-----------------------------------------------------------------------------
Send(toward, asset, to, amount) ==
    LET m == [toward |-> toward, asset |-> asset, to |-> to, amount |-> amount]
    IN  inFlight' = [inFlight EXCEPT ![m] = @ + 1]

(* Mutant: a relayed message can be relayed again. *)
Replay(m) ==
    /\ inFlight[m] > 0
    /\ UNCHANGED inFlight

Receive(m) ==
    /\ inFlight[m] > 0
    /\ inFlight' = [inFlight EXCEPT ![m] = @ - 1]

(* onlyFromL1Bridge and onlyFromL2Bridge. *)
FromPeer(m) == peer[m.toward]

MayInitiate(layer) == ~paused[layer] /\ peer[layer]

(* depositGDollar, depositUSDC and depositETH. *)
Deposit(u, asset, to, amount) ==
    /\ MayInitiate("L1")
    /\ l1Wallet[asset][u] >= amount
    /\ l1Wallet' = [l1Wallet EXCEPT ![asset][u] = @ - amount]
    /\ locked' = [locked EXCEPT ![asset] = @ + amount]
    /\ Send("L2", asset, to, amount)
    /\ UNCHANGED <<configVars, l2Wallet, minted, ethVars, crossed>>

(* finalizeDeposit. *)
FinalizeDeposit(m) ==
    /\ m.toward = "L2"
    /\ FromPeer(m)
    /\ m.asset \in Tokens /\ mapped[m.asset] # Unmapped
    /\ Receive(m)
    /\ l2Wallet' = [l2Wallet EXCEPT ![mapped[m.asset]][m.to] = @ + m.amount]
    /\ minted' = [minted EXCEPT ![m.asset] = @ + m.amount]
    /\ UNCHANGED <<configVars, l1Wallet, locked, ethVars, crossed>>

(* Mutant: all the ETH of the bridge is free for deposits. *)
AllETH == l2Held

FreeETH == l2Held - pendingETH

FinalizeETHDeposit(m) ==
    /\ m.toward = "L2"
    /\ FromPeer(m)
    /\ m.asset = ETH
    /\ FreeETH >= m.amount
    /\ Receive(m)
    /\ l2Held' = l2Held - m.amount
    /\ l2Wallet' = [l2Wallet EXCEPT ![ETH][m.to] = @ + m.amount]
    /\ UNCHANGED <<configVars, l1Wallet, locked, minted, pendingETH, crossed>>

(* Mutant: what is burned stays counted as minted. *)
KeepMinted(token, amount) == UNCHANGED minted

Burned(token, amount) == minted' = [minted EXCEPT ![token] = @ - amount]

(* withdrawGDollar and withdrawUSDC: released names the asset of the entry *)
(* point, token is the l1Token argument, which any mapped token will do for. *)
Withdraw(u, released, token, to, amount) ==
    /\ MayInitiate("L2")
    /\ mapped[token] # Unmapped
    /\ l2Wallet[mapped[token]][u] >= amount
    /\ amount <= minted[token]
    /\ l2Wallet' = [l2Wallet EXCEPT ![mapped[token]][u] = @ - amount]
    /\ Burned(token, amount)
    /\ Send("L1", released, to, amount)
    /\ crossed' = (crossed \/ released # token)
    /\ UNCHANGED <<configVars, l1Wallet, locked, ethVars>>

WithdrawETH(u, to, amount) ==
    /\ MayInitiate("L2")
    /\ l2Wallet[ETH][u] >= amount
    /\ l2Wallet' = [l2Wallet EXCEPT ![ETH][u] = @ - amount]
    /\ l2Held' = l2Held + amount
    /\ pendingETH' = pendingETH + amount
    /\ Send("L1", ETH, to, amount)
    /\ UNCHANGED <<configVars, l1Wallet, locked, minted, crossed>>

Unlockable(m) == m.amount <= locked[m.asset]

(* finalizeGDollarWithdrawal, finalizeUSDCWithdrawal, finalizeETHWithdrawal. *)
FinalizeWithdrawal(m) ==
    /\ m.toward = "L1"
    /\ FromPeer(m)
    /\ Unlockable(m)
    /\ Receive(m)
    /\ locked' = [locked EXCEPT ![m.asset] = @ - m.amount]
    /\ l1Wallet' = [l1Wallet EXCEPT ![m.asset][m.to] = @ + m.amount]
    /\ UNCHANGED <<configVars, l2Wallet, minted, ethVars, crossed>>

-----------------------------------------------------------------------------
SetPaused(layer) ==
    /\ paused' = [paused EXCEPT ![layer] = ~@]
    /\ UNCHANGED <<peer, mapped, routes, walletVars, locked, minted, ethVars, inFlight, crossed>>

SetPeer(layer) ==
    /\ ~peer[layer]
    /\ peer' = [peer EXCEPT ![layer] = TRUE]
    /\ UNCHANGED <<paused, mapped, routes, walletVars, locked, minted, ethVars, inFlight, crossed>>

(* mapToken: the administrator may map a token again, elsewhere or to the  *)
(* representation of another token.                                        *)
MapToken(t, x) ==
    /\ mapped' = [mapped EXCEPT ![t] = x]
    /\ routes' = routes \cup {<<t, x>>}
    /\ UNCHANGED <<paused, peer, walletVars, locked, minted, ethVars, inFlight, crossed>>

(* The transfer of the representation, an ERC-20 token. *)
Transfer(u, x, to, amount) ==
    /\ l2Wallet[x][u] >= amount /\ to # u
    /\ l2Wallet' = [l2Wallet EXCEPT ![x][u] = @ - amount, ![x][to] = @ + amount]
    /\ UNCHANGED <<configVars, l1Wallet, locked, minted, ethVars, inFlight, crossed>>

UserStep(u) ==
    \E to \in Users, amount \in Amounts :
        \/ \E a \in Assets : Deposit(u, a, to, amount)
        \/ \E released \in Tokens, token \in Tokens : Withdraw(u, released, token, to, amount)
        \/ WithdrawETH(u, to, amount)
        \/ \E x \in L2Tokens : Transfer(u, x, to, amount)

Relay(m) == FinalizeDeposit(m) \/ FinalizeETHDeposit(m) \/ FinalizeWithdrawal(m)

AdminStep ==
    \/ \E layer \in {"L1", "L2"} : SetPaused(layer) \/ SetPeer(layer)
    \/ \E t \in Tokens, x \in L2Tokens : MapToken(t, x)

Next ==
    \/ \E u \in Users : UserStep(u)
    \/ \E m \in Messages : Relay(m)
    \/ AdminStep

Spec == Init /\ [][Next]_vars

-----------------------------------------------------------------------------
(* What the messages under way toward a layer carry of an asset. *)
Carried(m, toward, asset) ==
    IF m.toward = toward /\ m.asset = asset THEN inFlight[m] * m.amount ELSE 0

UnderWay(toward, asset) ==
    SumFunctionOnSet([m \in Messages |-> Carried(m, toward, asset)], Messages)

(* Lock and mint, burn and unlock: every unit of a token locked on L1 is   *)
(* exactly once on its way to L2, minted there, or on its way back, through *)
(* any order, delay and retry of the messages and across pauses, as long   *)
(* as no withdrawal has named a token other than that of its entry point.  *)
TokenConserved ==
    ~crossed => \A t \in Tokens :
        locked[t] = UnderWay("L2", t) + minted[t] + UnderWay("L1", t)

MintedOf(T) == SumFunctionOnSet([t \in T |-> minted[t]], T)

HeldOf(X) == SumFunctionOnSet([p \in X \X Users |-> l2Wallet[p[1]][p[2]]], X \X Users)

(* No mapping has ever connected these tokens and representations with others. *)
Apart(T, X) == \A r \in routes : r[1] \in T <=> r[2] \in X

(* totalMinted follows the holders, although they transfer freely: tokens and *)
(* representations that no mapping has connected with others have counted as *)
(* minted exactly what all wallets hold. So the check that a burn does not   *)
(* exceed totalMinted never refuses a holder of a representation that has   *)
(* stood for one token, itself never mapped elsewhere (withdrawGDollar,     *)
(* withdrawUSDC). Once mapToken has moved or shared a mapping, only the     *)
(* total over all that it connected agrees, and the check can refuse.       *)
MintedIsHeld ==
    \A T \in SUBSET Tokens, X \in SUBSET L2Tokens :
        Apart(T, X) => MintedOf(T) = HeldOf(X)

(* ETH is neither created nor lost between the two layers. *)
ETHConserved ==
    locked[ETH] + l2Held = Prefund + UnderWay("L2", ETH) + UnderWay("L1", ETH)

(* "This ETH must NOT be used to fund finalizeETHDeposit payouts": the L2   *)
(* bridge keeps the ETH it took for withdrawals.                           *)
ReservedETHHeld == l2Held >= pendingETH
===============================================================================
