------------------------ MODULE GoodDollarBridgeProofs ------------------------
(***************************************************************************)
(* Tokens and ETH are conserved across the two layers, for any users and   *)
(* amounts: messages may be delayed, reordered and retried for ever.       *)
(***************************************************************************)
EXTENDS GoodDollarBridge, SumLemmas

(* What is mapped now has been mapped at some time. *)
RoutesKnown == \A t \in Tokens : mapped[t] # Unmapped => <<t, mapped[t]>> \in routes

(* The inductive invariant: the conserved sums need the types, that the ETH *)
(* held stays a natural needs that what is reserved is held, and minting on *)
(* a token's representation needs that the two are connected.               *)
IInv ==
    /\ TypeOK
    /\ RoutesKnown
    /\ TokenConserved
    /\ MintedIsHeld
    /\ ETHConserved
    /\ ReservedETHHeld

Layers == {"L1", "L2"}

-----------------------------------------------------------------------------
(* There are finitely many different messages. *)
LEMMA MessagesFinite == IsFiniteSet(Messages)
  <1> DEFINE D1 == Layers \X Assets
             D2 == D1 \X Users
             D3 == D2 \X Amounts
             f == [p \in D3 |-> [toward |-> p[1][1][1], asset |-> p[1][1][2],
                                 to |-> p[1][2], amount |-> p[2]]]
  <1>1. IsFiniteSet(Layers)
    <2>1. IsFiniteSet({"L1"}) /\ IsFiniteSet({"L2"})
      BY FS_Singleton
    <2>2. Layers = {"L1"} \cup {"L2"}
      BY DEF Layers
    <2> QED BY <2>1, <2>2, FS_Union
  <1>2. IsFiniteSet(Assets)
    BY BridgeConstants, FS_Singleton, FS_Union DEF Assets
  <1>3. IsFiniteSet(Amounts)
    BY BridgeConstants, FS_Interval DEF Amounts
  <1>4. IsFiniteSet(D1)
    BY <1>1, <1>2, FS_Product
  <1>5. IsFiniteSet(D2)
    <2> HIDE DEF D1
    <2> QED BY <1>4, BridgeConstants, FS_Product
  <1>6. IsFiniteSet(D3)
    <2> HIDE DEF D2
    <2> QED BY <1>5, <1>3, FS_Product
  <1>7. f \in [D3 -> Messages]
    BY DEF Messages, Layers
  <1>8. ASSUME NEW m \in Messages PROVE \E p \in D3 : f[p] = m
    <2> DEFINE q == << << <<m.toward, m.asset>>, m.to >>, m.amount >>
    <2>1. q \in D3
      BY DEF Messages, Layers
    <2>2. f[q] = m
      BY <2>1 DEF Messages
    <2> QED BY <2>1, <2>2
  <1>9. f \in Surjection(D3, Messages)
    <2> HIDE DEF D3, f
    <2> QED BY <1>7, <1>8 DEF Surjection
  <1> HIDE DEF D3, f
  <1> QED BY <1>6, <1>9, FS_Surjection

(* Adding d copies of a message raises what is under way of its asset in its *)
(* direction by d times its amount, and nothing else.                       *)
LEMMA CopiesMove ==
    ASSUME TypeOK, NEW m \in Messages, NEW d \in Int, inFlight[m] + d \in Nat,
           inFlight' = [inFlight EXCEPT ![m] = inFlight[m] + d],
           NEW l \in Layers, NEW a \in Assets
    PROVE  /\ inFlight' \in [Messages -> Nat]
           /\ UnderWay(l, a) \in Int
           /\ UnderWay(l, a)' = UnderWay(l, a)
                  + (IF m.toward = l /\ m.asset = a THEN d * m.amount ELSE 0)
  <1> DEFINE f == [n \in Messages |-> IF n.toward = l /\ n.asset = a
                                       THEN inFlight[n] * n.amount ELSE 0]
             g == [n \in Messages |-> IF n.toward = l /\ n.asset = a
                                       THEN inFlight'[n] * n.amount ELSE 0]
  <1>1. inFlight \in [Messages -> Nat] /\ inFlight' \in [Messages -> Nat]
    BY DEF TypeOK
  <1>0. \A n \in Messages : n.amount \in Int
    BY BridgeConstants DEF Messages, Amounts
  <1>2. f \in [Messages -> Int]
    BY <1>0, <1>1
  <1>3. g \in [Messages -> Int]
    <2>1. \A n \in Messages : inFlight'[n] \in Int /\ inFlight'[n] * n.amount \in Int
      BY <1>0, <1>1
    <2> QED BY <2>1
  <1>4. \A n \in Messages \ {m} : f[n] = g[n]
    BY DEF TypeOK
  <1>5. g[m] = f[m] + (IF m.toward = l /\ m.asset = a THEN d * m.amount ELSE 0)
    <2>1. inFlight'[m] = inFlight[m] + d /\ inFlight[m] \in Int /\ m.amount \in Int
      BY <1>0, <1>1
    <2>2. (inFlight[m] + d) * m.amount = inFlight[m] * m.amount + d * m.amount
      BY <2>1
    <2> QED BY <2>1, <2>2
  <1>6. UnderWay(l, a) = SumFunctionOnSet(f, Messages)
    BY DEF UnderWay, Carried
  <1>7. UnderWay(l, a)' = SumFunctionOnSet(g, Messages)
    BY DEF UnderWay, Carried
  <1>8. f[m] \in Int /\ d * m.amount \in Int
    BY <1>0, <1>2
  <1> HIDE DEF f, g
  <1>9. SumFunctionOnSet(f, Messages) \in Int
    BY <1>2, MessagesFinite, SumType
  <1>10. SumFunctionOnSet(g, Messages) = SumFunctionOnSet(f, Messages) - f[m] + g[m]
    BY <1>2, <1>3, <1>4, MessagesFinite, SumUpdate
  <1> QED BY <1>1, <1>5, <1>6, <1>7, <1>8, <1>9, <1>10

(* Sending puts the amount under way. *)
LEMMA SendMoves ==
    ASSUME TypeOK, NEW toward \in Layers, NEW asset \in Assets, NEW to \in Users,
           NEW amount \in Amounts, Send(toward, asset, to, amount),
           NEW l \in Layers, NEW a \in Assets
    PROVE  /\ inFlight' \in [Messages -> Nat]
           /\ UnderWay(l, a) \in Int
           /\ UnderWay(l, a)' = UnderWay(l, a) + (IF toward = l /\ asset = a THEN amount ELSE 0)
  <1>1. PICK m \in Messages : /\ m.toward = toward /\ m.asset = asset /\ m.amount = amount
                             /\ inFlight' = [inFlight EXCEPT ![m] = inFlight[m] + 1]
    <2>1. [toward |-> toward, asset |-> asset, to |-> to, amount |-> amount] \in Messages
      BY DEF Messages, Layers
    <2> QED BY <2>1 DEF Send
  <1>2. inFlight' = [inFlight EXCEPT ![m] = inFlight[m] + 1]
    BY <1>1
  <1>3. inFlight[m] + 1 \in Nat /\ 1 \in Int
    BY DEF TypeOK
  <1>4. amount \in Int /\ 1 * amount = amount
    BY DEF Amounts
  <1>5. /\ inFlight' \in [Messages -> Nat]
        /\ UnderWay(l, a) \in Int
        /\ UnderWay(l, a)' = UnderWay(l, a)
                  + (IF m.toward = l /\ m.asset = a THEN 1 * m.amount ELSE 0)
    BY <1>2, <1>3, CopiesMove
  <1> QED BY <1>1, <1>4, <1>5

(* Receiving takes the amount off the way. *)
LEMMA ReceiveMoves ==
    ASSUME TypeOK, NEW m \in Messages, Receive(m), NEW l \in Layers, NEW a \in Assets
    PROVE  /\ inFlight' \in [Messages -> Nat]
           /\ UnderWay(l, a) \in Int
           /\ UnderWay(l, a)' = UnderWay(l, a)
                  - (IF m.toward = l /\ m.asset = a THEN m.amount ELSE 0)
  <1>0. -1 \in Int
    OBVIOUS
  <1>1. inFlight' = [inFlight EXCEPT ![m] = inFlight[m] + (-1)]
    BY DEF Receive, TypeOK
  <1>2. inFlight[m] + (-1) \in Nat
    BY DEF Receive, TypeOK
  <1>3. m.amount \in Int /\ (-1) * m.amount = -m.amount
    BY BridgeConstants DEF Messages, Amounts
  <1>4. /\ inFlight' \in [Messages -> Nat]
        /\ UnderWay(l, a) \in Int
        /\ UnderWay(l, a)' = UnderWay(l, a)
                  + (IF m.toward = l /\ m.asset = a THEN (-1) * m.amount ELSE 0)
    BY <1>0, <1>1, <1>2, CopiesMove
  <1> QED BY <1>3, <1>4

(* Without a message sent or received, nothing moves. *)
LEMMA NothingMoves ==
    ASSUME UNCHANGED inFlight, NEW l, NEW a
    PROVE  UnderWay(l, a)' = UnderWay(l, a)
  BY DEF UnderWay, Carried

-----------------------------------------------------------------------------
(* The wallets of a set of representations, as one function. *)
Holdings(X) == [p \in X \X Users |-> l2Wallet[p[1]][p[2]]]

LEMMA HoldingsType ==
    ASSUME TypeOK, NEW X \in SUBSET L2Tokens
    PROVE  /\ IsFiniteSet(X \X Users)
           /\ Holdings(X) \in [X \X Users -> Int]
           /\ HeldOf(X) = SumFunctionOnSet(Holdings(X), X \X Users)
           /\ HeldOf(X) \in Int
  <1>1. IsFiniteSet(X)
    BY BridgeConstants, FS_Subset
  <1>2. IsFiniteSet(X \X Users)
    BY <1>1, BridgeConstants, FS_Product
  <1>3. Holdings(X) \in [X \X Users -> Int]
    <2>1. ASSUME NEW x \in X, NEW u \in Users PROVE l2Wallet[x][u] \in Int
      BY DEF TypeOK, L2Assets
    <2> QED BY <2>1 DEF Holdings
  <1>4. HeldOf(X) = SumFunctionOnSet(Holdings(X), X \X Users)
    BY DEF HeldOf, Holdings
  <1> QED BY <1>2, <1>3, <1>4, SumType

(* One wallet changes by d: so does what the wallets hold of any set of     *)
(* representations it is one of.                                           *)
LEMMA HoldingMoves ==
    ASSUME TypeOK, NEW x \in L2Assets, NEW u \in Users, NEW d \in Int,
           l2Wallet[x][u] + d \in Nat,
           l2Wallet' = [l2Wallet EXCEPT ![x][u] = l2Wallet[x][u] + d]
    PROVE  /\ l2Wallet' \in [L2Assets -> [Users -> Nat]]
           /\ \A X \in SUBSET L2Tokens :
                /\ HeldOf(X) \in Int
                /\ HeldOf(X)' = HeldOf(X) + (IF x \in X THEN d ELSE 0)
  <1>1. l2Wallet \in [L2Assets -> [Users -> Nat]]
    BY DEF TypeOK
  <1>2. l2Wallet' \in [L2Assets -> [Users -> Nat]]
    BY <1>1
  <1> SUFFICES ASSUME NEW X \in SUBSET L2Tokens
               PROVE  /\ HeldOf(X) \in Int
                      /\ HeldOf(X)' = HeldOf(X) + (IF x \in X THEN d ELSE 0)
    BY <1>2
  <1> DEFINE D == X \X Users
             f == Holdings(X)
             g == [p \in D |-> l2Wallet'[p[1]][p[2]]]
             q == <<x, u>>
  <1>3. IsFiniteSet(D) /\ f \in [D -> Int] /\ HeldOf(X) = SumFunctionOnSet(f, D) /\ HeldOf(X) \in Int
    BY HoldingsType
  <1>4. HeldOf(X)' = SumFunctionOnSet(g, D)
    BY DEF HeldOf
  <1>5. g \in [D -> Int]
    <2>1. ASSUME NEW y \in X, NEW v \in Users PROVE l2Wallet'[y][v] \in Int
      BY <1>2 DEF L2Assets
    <2> QED BY <2>1
  <1>6. ASSUME NEW y \in X, NEW v \in Users
        PROVE  /\ f[<<y, v>>] = l2Wallet[y][v]
               /\ g[<<y, v>>] = IF y = x /\ v = u THEN l2Wallet[y][v] + d ELSE l2Wallet[y][v]
    BY <1>1 DEF Holdings, L2Assets
  <1>9. \A p \in D : \E y \in X, v \in Users : p = <<y, v>>
    OBVIOUS
  <1> HIDE DEF f, g
  <1>7. CASE x \in X
    <2>1. q \in D /\ g[q] = f[q] + d
      BY <1>6, <1>7
    <2>2. ASSUME NEW p \in D \ {q} PROVE f[p] = g[p]
      <3>1. PICK y \in X, v \in Users : p = <<y, v>>
        BY <1>9
      <3>2. ~(y = x /\ v = u)
        BY <3>1
      <3> QED BY <1>6, <3>1, <3>2
    <2>3. f[q] \in Int
      BY <1>3, <2>1
    <2> HIDE DEF D, q
    <2>4. SumFunctionOnSet(g, D) = SumFunctionOnSet(f, D) - f[q] + g[q]
      BY <1>3, <1>5, <2>1, <2>2, SumUpdate
    <2> QED BY <1>3, <1>4, <1>7, <2>1, <2>3, <2>4
  <1>8. CASE x \notin X
    <2>1. ASSUME NEW p \in D PROVE f[p] = g[p]
      <3>1. PICK y \in X, v \in Users : p = <<y, v>>
        BY <1>9
      <3> QED BY <1>6, <1>8, <3>1
    <2> HIDE DEF D
    <2>2. f = g
      BY <1>3, <1>5, <2>1
    <2> QED BY <1>3, <1>4, <1>8, <2>2
  <1> QED BY <1>7, <1>8

(* A transfer moves nothing in all. *)
LEMMA TransferMoves ==
    ASSUME TypeOK, NEW x \in L2Tokens, NEW u \in Users, NEW to \in Users, NEW amount \in Amounts,
           l2Wallet[x][u] >= amount, to # u,
           l2Wallet' = [l2Wallet EXCEPT ![x][u] = @ - amount, ![x][to] = @ + amount],
           NEW X \in SUBSET L2Tokens
    PROVE  /\ l2Wallet' \in [L2Assets -> [Users -> Nat]]
           /\ HeldOf(X)' = HeldOf(X)
  <1>1. l2Wallet \in [L2Assets -> [Users -> Nat]] /\ x \in L2Assets /\ amount \in Nat
    BY BridgeConstants DEF TypeOK, L2Assets, Amounts
  <1>2. /\ \A y \in L2Assets \ {x} : l2Wallet'[y] = l2Wallet[y]
        /\ \A v \in Users \ {u, to} : l2Wallet'[x][v] = l2Wallet[x][v]
        /\ l2Wallet'[x][u] = l2Wallet[x][u] - amount
        /\ l2Wallet'[x][to] = l2Wallet[x][to] + amount
    BY <1>1
  <1>3. l2Wallet' \in [L2Assets -> [Users -> Nat]]
    <2>1. l2Wallet[x][u] \in Nat /\ l2Wallet[x][u] - amount \in Nat
      BY <1>1
    <2>2. l2Wallet[x][to] \in Nat /\ l2Wallet[x][to] + amount \in Nat
      BY <1>1
    <2> QED BY <1>1, <2>1, <2>2
  <1> DEFINE D == X \X Users
             f == Holdings(X)
             g == [p \in D |-> l2Wallet'[p[1]][p[2]]]
             q == <<x, u>>
             r == <<x, to>>
             h == [f EXCEPT ![q] = f[q] - amount]
  <1>4. IsFiniteSet(D) /\ f \in [D -> Int] /\ HeldOf(X) = SumFunctionOnSet(f, D)
    BY HoldingsType
  <1>5. HeldOf(X)' = SumFunctionOnSet(g, D)
    BY DEF HeldOf
  <1>6. g \in [D -> Int]
    <2>1. ASSUME NEW y \in X, NEW v \in Users PROVE l2Wallet'[y][v] \in Int
      BY <1>3 DEF L2Assets
    <2> QED BY <2>1
  <1>7. ASSUME NEW y \in X, NEW v \in Users
        PROVE  f[<<y, v>>] = l2Wallet[y][v] /\ g[<<y, v>>] = l2Wallet'[y][v]
    BY DEF Holdings
  <1>8. ASSUME NEW y \in X, NEW v \in Users, ~(y = x /\ v \in {u, to})
        PROVE  f[<<y, v>>] = g[<<y, v>>]
    <2>1. y \in L2Assets
      BY DEF L2Assets
    <2>2. l2Wallet'[y][v] = l2Wallet[y][v]
      BY <1>2, <1>8, <2>1
    <2> QED BY <1>7, <2>2
  <1>11. \A p \in D : \E y \in X, v \in Users : p = <<y, v>>
    OBVIOUS
  <1> HIDE DEF f, g
  <1>9. CASE x \in X
    <2>1. q \in D /\ r \in D /\ q # r
      BY <1>9
    <2>2. g[q] = f[q] - amount /\ g[r] = f[r] + amount
      BY <1>2, <1>7, <1>9
    <2>3. ASSUME NEW p \in D \ {q, r} PROVE f[p] = g[p]
      <3>1. PICK y \in X, v \in Users : p = <<y, v>>
        BY <1>11
      <3>2. ~(y = x /\ v \in {u, to})
        BY <3>1
      <3> QED BY <1>8, <3>1, <3>2
    <2>4. f[q] \in Int /\ f[r] \in Int /\ amount \in Int
      BY <1>1, <1>4, <2>1
    <2> HIDE DEF D, q, r
    <2>5. h \in [D -> Int] /\ h[q] = f[q] - amount /\ h[r] = f[r] /\ \A p \in D \ {q} : f[p] = h[p]
      BY <1>4, <2>1, <2>4
    <2>6. \A p \in D \ {r} : h[p] = g[p]
      BY <2>1, <2>2, <2>3, <2>5
    <2> HIDE DEF h
    <2>7. SumFunctionOnSet(h, D) = SumFunctionOnSet(f, D) - f[q] + h[q]
      BY <1>4, <2>1, <2>5, SumUpdate
    <2>8. SumFunctionOnSet(g, D) = SumFunctionOnSet(h, D) - h[r] + g[r]
      BY <1>4, <1>6, <2>1, <2>5, <2>6, SumUpdate
    <2>9. SumFunctionOnSet(f, D) \in Int
      BY <1>4, SumType
    <2> QED BY <1>3, <1>4, <1>5, <2>2, <2>4, <2>5, <2>7, <2>8, <2>9
  <1>10. CASE x \notin X
    <2>1. ASSUME NEW p \in D PROVE f[p] = g[p]
      <3>1. PICK y \in X, v \in Users : p = <<y, v>>
        BY <1>11
      <3>2. ~(y = x /\ v \in {u, to})
        BY <1>10
      <3> QED BY <1>8, <3>1, <3>2
    <2> HIDE DEF D
    <2>2. f = g
      BY <1>4, <1>6, <2>1
    <2> QED BY <1>3, <1>4, <1>5, <2>2
  <1> QED BY <1>9, <1>10

(* The count of one token changes by d: so does the total of any set of     *)
(* tokens it is one of.                                                    *)
LEMMA MintedMoves ==
    ASSUME TypeOK, NEW t \in Tokens, NEW d \in Int, minted[t] + d \in Nat,
           minted' = [minted EXCEPT ![t] = minted[t] + d], NEW T \in SUBSET Tokens
    PROVE  /\ MintedOf(T) \in Int
           /\ MintedOf(T)' = MintedOf(T) + (IF t \in T THEN d ELSE 0)
  <1> DEFINE f == [s \in T |-> minted[s]]
             g == [s \in T |-> minted'[s]]
  <1>1. minted \in [Tokens -> Nat] /\ minted' \in [Tokens -> Nat]
    BY DEF TypeOK
  <1>2. IsFiniteSet(T)
    BY BridgeConstants, FS_Subset
  <1>3. f \in [T -> Int] /\ g \in [T -> Int]
    BY <1>1
  <1>4. MintedOf(T) = SumFunctionOnSet(f, T)
    BY DEF MintedOf
  <1>5. MintedOf(T)' = SumFunctionOnSet(g, T)
    BY DEF MintedOf
  <1>6. \A s \in T \ {t} : f[s] = g[s]
    BY <1>1
  <1>7. t \in T => g[t] = f[t] + d /\ f[t] \in Int
    BY <1>1
  <1> HIDE DEF f, g
  <1>8. SumFunctionOnSet(f, T) \in Int
    BY <1>2, <1>3, SumType
  <1>9. CASE t \in T
    <2>1. SumFunctionOnSet(g, T) = SumFunctionOnSet(f, T) - f[t] + g[t]
      BY <1>2, <1>3, <1>6, <1>9, SumUpdate
    <2> QED BY <1>4, <1>5, <1>7, <1>8, <1>9, <2>1
  <1>10. CASE t \notin T
    <2>1. f = g
      BY <1>3, <1>6, <1>10
    <2> QED BY <1>4, <1>5, <1>8, <1>10, <2>1
  <1> QED BY <1>9, <1>10

(* A token is minted or burned on a representation it has been connected    *)
(* with: both sides of every group that is apart move alike.               *)
LEMMA MintedFollows ==
    ASSUME TypeOK, MintedIsHeld, NEW t \in Tokens, NEW x \in L2Tokens, <<t, x>> \in routes,
           NEW u \in Users, NEW d \in Int, UNCHANGED routes,
           minted[t] + d \in Nat, minted' = [minted EXCEPT ![t] = minted[t] + d],
           l2Wallet[x][u] + d \in Nat,
           l2Wallet' = [l2Wallet EXCEPT ![x][u] = l2Wallet[x][u] + d]
    PROVE  MintedIsHeld'
  <1> SUFFICES ASSUME NEW T \in SUBSET Tokens, NEW X \in SUBSET L2Tokens, Apart(T, X)'
               PROVE  MintedOf(T)' = HeldOf(X)'
    BY DEF MintedIsHeld
  <1>1. Apart(T, X)
    BY DEF Apart
  <1>2. MintedOf(T) = HeldOf(X)
    BY <1>1 DEF MintedIsHeld
  <1>3. t \in T <=> x \in X
    BY <1>1 DEF Apart
  <1>4. MintedOf(T) \in Int /\ MintedOf(T)' = MintedOf(T) + (IF t \in T THEN d ELSE 0)
    BY MintedMoves
  <1>5. x \in L2Assets
    BY DEF L2Assets
  <1>6. HeldOf(X)' = HeldOf(X) + (IF x \in X THEN d ELSE 0)
    BY <1>5, HoldingMoves
  <1> QED BY <1>2, <1>3, <1>4, <1>6

(* Nothing is minted or burned, and what the wallets hold in all stays. *)
LEMMA MintedStays ==
    ASSUME MintedIsHeld, UNCHANGED minted, routes \subseteq routes',
           \A X \in SUBSET L2Tokens : HeldOf(X)' = HeldOf(X)
    PROVE  MintedIsHeld'
  <1> SUFFICES ASSUME NEW T \in SUBSET Tokens, NEW X \in SUBSET L2Tokens, Apart(T, X)'
               PROVE  MintedOf(T)' = HeldOf(X)'
    BY DEF MintedIsHeld
  <1>1. Apart(T, X)
    BY DEF Apart
  <1>2. MintedOf(T) = HeldOf(X)
    BY <1>1 DEF MintedIsHeld
  <1>3. MintedOf(T)' = MintedOf(T)
    BY DEF MintedOf
  <1> QED BY <1>2, <1>3

LEMMA WalletsStay ==
    ASSUME UNCHANGED l2Wallet, NEW X
    PROVE  HeldOf(X)' = HeldOf(X)
  BY DEF HeldOf

(* ETH is no representation of a token. *)
LEMMA ETHMoves ==
    ASSUME TypeOK, NEW u \in Users, NEW d \in Int, l2Wallet[ETH][u] + d \in Nat,
           l2Wallet' = [l2Wallet EXCEPT ![ETH][u] = l2Wallet[ETH][u] + d]
    PROVE  /\ l2Wallet' \in [L2Assets -> [Users -> Nat]]
           /\ \A X \in SUBSET L2Tokens : HeldOf(X)' = HeldOf(X)
  <1>1. ETH \in L2Assets /\ \A X \in SUBSET L2Tokens : ETH \notin X
    BY BridgeConstants DEF L2Assets
  <1>2. /\ l2Wallet' \in [L2Assets -> [Users -> Nat]]
        /\ \A X \in SUBSET L2Tokens :
              /\ HeldOf(X) \in Int
              /\ HeldOf(X)' = HeldOf(X) + (IF ETH \in X THEN d ELSE 0)
    BY <1>1, HoldingMoves
  <1> QED BY <1>1, <1>2

-----------------------------------------------------------------------------
(* Conservation: one asset b moves, and what leaves a place arrives at      *)
(* another.                                                                *)
Moves(b, x1, x2, y, z, w) ==
    /\ \A a \in Assets :
          /\ UnderWay("L1", a) \in Int /\ UnderWay("L2", a) \in Int
          /\ UnderWay("L1", a)' = UnderWay("L1", a) + (IF b = a THEN x1 ELSE 0)
          /\ UnderWay("L2", a)' = UnderWay("L2", a) + (IF b = a THEN x2 ELSE 0)
          /\ locked'[a] = locked[a] + (IF b = a THEN y ELSE 0)
    /\ \A t \in Tokens : minted'[t] = minted[t] + (IF b = t THEN z ELSE 0)
    /\ l2Held' = l2Held + w
    /\ crossed' = crossed

LEMMA Conservation ==
    ASSUME TypeOK, TokenConserved, ETHConserved, NEW b \in Assets,
           NEW x1 \in Int, NEW x2 \in Int, NEW y \in Int, NEW z \in Int, NEW w \in Int,
           Moves(b, x1, x2, y, z, w),
           IF b = ETH THEN y + w = x1 + x2 ELSE y = x1 + x2 + z /\ w = 0
    PROVE  TokenConserved' /\ ETHConserved'
  <1>1. ETH \in Assets /\ \A t \in Tokens : t \in Assets /\ t # ETH
    BY BridgeConstants DEF Assets
  <1>2. ASSUME NEW t \in Tokens, ~crossed
        PROVE  locked'[t] = UnderWay("L2", t)' + minted'[t] + UnderWay("L1", t)'
    <2>1. locked[t] = UnderWay("L2", t) + minted[t] + UnderWay("L1", t)
      BY <1>2 DEF TokenConserved
    <2>2. locked[t] \in Int /\ minted[t] \in Int
      BY <1>1 DEF TypeOK
    <2>3. /\ UnderWay("L1", t) \in Int /\ UnderWay("L2", t) \in Int
          /\ UnderWay("L1", t)' = UnderWay("L1", t) + (IF b = t THEN x1 ELSE 0)
          /\ UnderWay("L2", t)' = UnderWay("L2", t) + (IF b = t THEN x2 ELSE 0)
          /\ locked'[t] = locked[t] + (IF b = t THEN y ELSE 0)
          /\ minted'[t] = minted[t] + (IF b = t THEN z ELSE 0)
      BY <1>1 DEF Moves
    <2> QED BY <1>1, <2>1, <2>2, <2>3
  <1>3. ETHConserved'
    <2>1. locked[ETH] + l2Held = Prefund + UnderWay("L2", ETH) + UnderWay("L1", ETH)
      BY DEF ETHConserved
    <2>2. locked[ETH] \in Int /\ l2Held \in Int /\ Prefund \in Int
      BY <1>1, BridgeConstants DEF TypeOK
    <2>3. /\ UnderWay("L1", ETH) \in Int /\ UnderWay("L2", ETH) \in Int
          /\ UnderWay("L1", ETH)' = UnderWay("L1", ETH) + (IF b = ETH THEN x1 ELSE 0)
          /\ UnderWay("L2", ETH)' = UnderWay("L2", ETH) + (IF b = ETH THEN x2 ELSE 0)
          /\ locked'[ETH] = locked[ETH] + (IF b = ETH THEN y ELSE 0)
          /\ l2Held' = l2Held + w
      BY <1>1 DEF Moves
    <2>4. locked'[ETH] + l2Held' = Prefund + UnderWay("L2", ETH)' + UnderWay("L1", ETH)'
      BY <2>1, <2>2, <2>3
    <2> QED BY <2>4 DEF ETHConserved
  <1>4. crossed' = crossed
    BY DEF Moves
  <1> QED BY <1>2, <1>3, <1>4 DEF TokenConserved

-----------------------------------------------------------------------------
(* Each step preserves the invariant. *)

(* A deposit moves the amount from the L1 wallet into the lock and, as a    *)
(* message, toward L2.                                                     *)
LEMMA DepositInv ==
    ASSUME IInv, NEW u \in Users, NEW asset \in Assets, NEW to \in Users,
           NEW amount \in Amounts, Deposit(u, asset, to, amount)
    PROVE  IInv'
  <1>0. TypeOK /\ RoutesKnown /\ TokenConserved /\ MintedIsHeld /\ ETHConserved /\ ReservedETHHeld
    BY DEF IInv
  <1>1. amount \in Nat /\ -amount \in Int /\ 0 \in Int /\ "L1" \in Layers /\ "L2" \in Layers
    BY DEF Amounts, Layers
  <1>2. l1Wallet' = [l1Wallet EXCEPT ![asset][u] = l1Wallet[asset][u] + (-amount)]
    BY <1>0, <1>1 DEF Deposit, TypeOK
  <1>3. l1Wallet[asset][u] + (-amount) \in Nat
    <2>1. l1Wallet[asset][u] \in Nat
      BY <1>0 DEF TypeOK
    <2>2. l1Wallet[asset][u] >= amount
      BY DEF Deposit
    <2> QED BY <1>1, <2>1, <2>2
  <1>4. l1Wallet' \in [Assets -> [Users -> Nat]]
    BY <1>0, <1>1, <1>2, <1>3 DEF TypeOK
  <1>5. \A l \in Layers, a \in Assets :
            /\ inFlight' \in [Messages -> Nat]
            /\ UnderWay(l, a) \in Int
            /\ UnderWay(l, a)' = UnderWay(l, a) + (IF "L2" = l /\ asset = a THEN amount ELSE 0)
    BY <1>0, <1>1, SendMoves DEF Deposit
  <1>6. locked' = [locked EXCEPT ![asset] = locked[asset] + amount] /\ locked \in [Assets -> Nat]
    BY <1>0 DEF Deposit, TypeOK
  <1>7. UNCHANGED <<l2Wallet, paused, peer, mapped, routes, minted, l2Held, pendingETH, crossed>>
    BY DEF Deposit, configVars, ethVars
  <1>8. TypeOK'
    BY <1>0, <1>1, <1>4, <1>5, <1>6, <1>7 DEF TypeOK
  <1>9. Moves(asset, 0, amount, amount, 0, 0)
    BY <1>0, <1>1, <1>5, <1>6, <1>7 DEF TypeOK, Moves
  <1>10. TokenConserved' /\ ETHConserved'
    BY <1>0, <1>1, <1>9, Conservation
  <1>11. MintedIsHeld'
    BY <1>0, <1>7, WalletsStay, MintedStays
  <1>12. ReservedETHHeld'
    BY <1>0, <1>7 DEF ReservedETHHeld
  <1>13. RoutesKnown'
    BY <1>0, <1>7 DEF RoutesKnown
  <1> QED BY <1>8, <1>10, <1>11, <1>12, <1>13 DEF IInv

(* A finalized deposit turns the message into minted tokens that a user     *)
(* holds.                                                                  *)
LEMMA FinalizeDepositInv ==
    ASSUME IInv, NEW m \in Messages, FinalizeDeposit(m)
    PROVE  IInv'
  <1>0. TypeOK /\ RoutesKnown /\ TokenConserved /\ MintedIsHeld /\ ETHConserved /\ ReservedETHHeld
    BY DEF IInv
  <1>1. /\ m.asset \in Assets /\ m.to \in Users /\ m.amount \in Nat /\ m.amount \in Int /\ -m.amount \in Int
        /\ 0 \in Int /\ "L1" \in Layers /\ "L2" \in Layers
    BY DEF Messages, Amounts, Layers
  <1>14. /\ m.asset \in Tokens /\ mapped[m.asset] \in L2Tokens /\ mapped[m.asset] \in L2Assets
         /\ <<m.asset, mapped[m.asset]>> \in routes
    BY <1>0 DEF FinalizeDeposit, TypeOK, RoutesKnown, L2Assets
  <1>2. l2Wallet' = [l2Wallet EXCEPT ![mapped[m.asset]][m.to] =
                                    l2Wallet[mapped[m.asset]][m.to] + m.amount]
    BY <1>0, <1>1, <1>14 DEF FinalizeDeposit, TypeOK
  <1>3. l2Wallet[mapped[m.asset]][m.to] + m.amount \in Nat
    <2>1. l2Wallet[mapped[m.asset]][m.to] \in Nat
      BY <1>0, <1>1, <1>14 DEF TypeOK
    <2> QED BY <1>1, <2>1
  <1>4. l2Wallet' \in [L2Assets -> [Users -> Nat]]
    BY <1>0, <1>1, <1>2, <1>3, <1>14, HoldingMoves
  <1>5. \A l \in Layers, a \in Assets :
            /\ inFlight' \in [Messages -> Nat]
            /\ UnderWay(l, a) \in Int
            /\ UnderWay(l, a)' = UnderWay(l, a)
                   - (IF m.toward = l /\ m.asset = a THEN m.amount ELSE 0)
    BY <1>0, ReceiveMoves DEF FinalizeDeposit
  <1>6. /\ minted' = [minted EXCEPT ![m.asset] = minted[m.asset] + m.amount]
        /\ minted \in [Tokens -> Nat] /\ m.asset \in Tokens /\ m.toward = "L2"
    BY <1>0 DEF FinalizeDeposit, TypeOK
  <1>7. UNCHANGED <<l1Wallet, paused, peer, mapped, routes, locked, l2Held, pendingETH, crossed>>
    BY DEF FinalizeDeposit, configVars, ethVars
  <1>8. TypeOK'
    BY <1>0, <1>1, <1>4, <1>5, <1>6, <1>7 DEF TypeOK
  <1>9. Moves(m.asset, 0, -m.amount, 0, m.amount, 0)
    BY <1>0, <1>1, <1>5, <1>6, <1>7 DEF TypeOK, Moves
  <1>10. TokenConserved' /\ ETHConserved'
    BY <1>0, <1>1, <1>6, <1>9, BridgeConstants, Conservation
  <1>11. MintedIsHeld'
    <2>1. minted' = [minted EXCEPT ![m.asset] = minted[m.asset] + m.amount] /\ minted[m.asset] + m.amount \in Nat
      BY <1>1, <1>6, <1>14
    <2> QED BY <1>0, <1>1, <1>2, <1>3, <1>7, <1>14, <2>1, MintedFollows
  <1>12. ReservedETHHeld'
    BY <1>0, <1>7 DEF ReservedETHHeld
  <1>13. RoutesKnown'
    BY <1>0, <1>7 DEF RoutesKnown
  <1> QED BY <1>8, <1>10, <1>11, <1>12, <1>13 DEF IInv

(* An ETH deposit is paid out of the ETH that no withdrawal has reserved.   *)
LEMMA FinalizeETHDepositInv ==
    ASSUME IInv, NEW m \in Messages, FinalizeETHDeposit(m)
    PROVE  IInv'
  <1>0. TypeOK /\ RoutesKnown /\ TokenConserved /\ MintedIsHeld /\ ETHConserved /\ ReservedETHHeld
    BY DEF IInv
  <1>1. /\ m.asset \in Assets /\ m.to \in Users /\ m.amount \in Nat /\ m.amount \in Int /\ -m.amount \in Int
        /\ 0 \in Int /\ "L1" \in Layers /\ "L2" \in Layers
    BY DEF Messages, Amounts, Layers
  <1>2. l2Wallet' = [l2Wallet EXCEPT ![ETH][m.to] = l2Wallet[ETH][m.to] + m.amount]
    BY <1>0, <1>1 DEF FinalizeETHDeposit, TypeOK
  <1>3. l2Wallet[ETH][m.to] + m.amount \in Nat
    <2>1. l2Wallet[ETH][m.to] \in Nat
      BY <1>0, <1>1 DEF TypeOK, L2Assets
    <2> QED BY <1>1, <2>1
  <1>4. /\ l2Wallet' \in [L2Assets -> [Users -> Nat]]
        /\ \A X \in SUBSET L2Tokens : HeldOf(X)' = HeldOf(X)
    BY <1>0, <1>1, <1>2, <1>3, ETHMoves
  <1>5. \A l \in Layers, a \in Assets :
            /\ inFlight' \in [Messages -> Nat]
            /\ UnderWay(l, a) \in Int
            /\ UnderWay(l, a)' = UnderWay(l, a)
                   - (IF m.toward = l /\ m.asset = a THEN m.amount ELSE 0)
    BY <1>0, ReceiveMoves DEF FinalizeETHDeposit
  <1>6. /\ l2Held' = l2Held - m.amount /\ l2Held - pendingETH >= m.amount
        /\ m.asset = ETH /\ m.toward = "L2"
        /\ l2Held \in Nat /\ pendingETH \in Nat
    BY <1>0 DEF FinalizeETHDeposit, FreeETH, TypeOK
  <1>7. UNCHANGED <<l1Wallet, paused, peer, mapped, routes, locked, minted, pendingETH, crossed>>
    BY DEF FinalizeETHDeposit, configVars
  <1>8. TypeOK'
    BY <1>0, <1>1, <1>4, <1>5, <1>6, <1>7 DEF TypeOK
  <1>9. Moves(m.asset, 0, -m.amount, 0, 0, -m.amount)
    BY <1>0, <1>1, <1>5, <1>6, <1>7 DEF TypeOK, Moves
  <1>10. TokenConserved' /\ ETHConserved'
    BY <1>0, <1>1, <1>6, <1>9, Conservation
  <1>11. MintedIsHeld'
    BY <1>0, <1>4, <1>7, MintedStays
  <1>12. ReservedETHHeld'
    BY <1>1, <1>6, <1>7 DEF ReservedETHHeld
  <1>13. RoutesKnown'
    BY <1>0, <1>7 DEF RoutesKnown
  <1> QED BY <1>8, <1>10, <1>11, <1>12, <1>13 DEF IInv

(* A finalized withdrawal unlocks what the message carries. *)
LEMMA FinalizeWithdrawalInv ==
    ASSUME IInv, NEW m \in Messages, FinalizeWithdrawal(m)
    PROVE  IInv'
  <1>0. TypeOK /\ RoutesKnown /\ TokenConserved /\ MintedIsHeld /\ ETHConserved /\ ReservedETHHeld
    BY DEF IInv
  <1>1. /\ m.asset \in Assets /\ m.to \in Users /\ m.amount \in Nat /\ m.amount \in Int /\ -m.amount \in Int
        /\ 0 \in Int /\ "L1" \in Layers /\ "L2" \in Layers
    BY DEF Messages, Amounts, Layers
  <1>2. l1Wallet' = [l1Wallet EXCEPT ![m.asset][m.to] = l1Wallet[m.asset][m.to] + m.amount]
    BY <1>0, <1>1 DEF FinalizeWithdrawal, TypeOK
  <1>3. l1Wallet[m.asset][m.to] + m.amount \in Nat
    <2>1. l1Wallet[m.asset][m.to] \in Nat
      BY <1>0, <1>1 DEF TypeOK
    <2> QED BY <1>1, <2>1
  <1>4. l1Wallet' \in [Assets -> [Users -> Nat]]
    BY <1>0, <1>1, <1>2, <1>3 DEF TypeOK
  <1>5. \A l \in Layers, a \in Assets :
            /\ inFlight' \in [Messages -> Nat]
            /\ UnderWay(l, a) \in Int
            /\ UnderWay(l, a)' = UnderWay(l, a)
                   - (IF m.toward = l /\ m.asset = a THEN m.amount ELSE 0)
    BY <1>0, ReceiveMoves DEF FinalizeWithdrawal
  <1>6. /\ locked' = [locked EXCEPT ![m.asset] = locked[m.asset] - m.amount]
        /\ locked \in [Assets -> Nat] /\ m.amount <= locked[m.asset] /\ m.toward = "L1"
    BY <1>0 DEF FinalizeWithdrawal, Unlockable, TypeOK
  <1>7. UNCHANGED <<l2Wallet, paused, peer, mapped, routes, minted, l2Held, pendingETH, crossed>>
    BY DEF FinalizeWithdrawal, configVars, ethVars
  <1>8. TypeOK'
    BY <1>0, <1>1, <1>4, <1>5, <1>6, <1>7 DEF TypeOK
  <1>9. Moves(m.asset, -m.amount, 0, -m.amount, 0, 0)
    <2>1. ASSUME NEW a \in Assets
          PROVE  /\ UnderWay("L1", a) \in Int /\ UnderWay("L2", a) \in Int
                 /\ UnderWay("L1", a)' = UnderWay("L1", a) + (IF m.asset = a THEN -m.amount ELSE 0)
                 /\ UnderWay("L2", a)' = UnderWay("L2", a) + (IF m.asset = a THEN 0 ELSE 0)
      BY <1>1, <1>5, <1>6
    <2>2. ASSUME NEW a \in Assets
          PROVE  locked'[a] = locked[a] + (IF m.asset = a THEN -m.amount ELSE 0)
      BY <1>1, <1>6
    <2>3. /\ \A t \in Tokens : minted'[t] = minted[t] + (IF m.asset = t THEN 0 ELSE 0)
          /\ l2Held' = l2Held + 0
          /\ crossed' = crossed
      BY <1>0, <1>7 DEF TypeOK
    <2> QED BY <2>1, <2>2, <2>3 DEF Moves
  <1>10. TokenConserved' /\ ETHConserved'
    BY <1>0, <1>1, <1>9, Conservation
  <1>11. MintedIsHeld'
    BY <1>0, <1>7, WalletsStay, MintedStays
  <1>12. ReservedETHHeld'
    BY <1>0, <1>7 DEF ReservedETHHeld
  <1>13. RoutesKnown'
    BY <1>0, <1>7 DEF RoutesKnown
  <1> QED BY <1>8, <1>10, <1>11, <1>12, <1>13 DEF IInv

(* An ETH withdrawal adds to the ETH held on L2 and to what is reserved. *)
LEMMA WithdrawETHInv ==
    ASSUME IInv, NEW u \in Users, NEW to \in Users, NEW amount \in Amounts,
           WithdrawETH(u, to, amount)
    PROVE  IInv'
  <1>0. TypeOK /\ RoutesKnown /\ TokenConserved /\ MintedIsHeld /\ ETHConserved /\ ReservedETHHeld
    BY DEF IInv
  <1>1. /\ amount \in Nat /\ -amount \in Int
        /\ 0 \in Int /\ "L1" \in Layers /\ "L2" \in Layers
        /\ ETH \in Assets
    BY DEF Amounts, Layers, Assets
  <1>2. l2Wallet' = [l2Wallet EXCEPT ![ETH][u] = l2Wallet[ETH][u] + (-amount)]
    BY <1>0, <1>1 DEF WithdrawETH, TypeOK
  <1>3. l2Wallet[ETH][u] + (-amount) \in Nat
    <2>1. l2Wallet[ETH][u] \in Nat
      BY <1>0, <1>1 DEF TypeOK, L2Assets
    <2>2. l2Wallet[ETH][u] >= amount
      BY DEF WithdrawETH
    <2> QED BY <1>1, <2>1, <2>2
  <1>4. /\ l2Wallet' \in [L2Assets -> [Users -> Nat]]
        /\ \A X \in SUBSET L2Tokens : HeldOf(X)' = HeldOf(X)
    BY <1>0, <1>1, <1>2, <1>3, ETHMoves
  <1>5. \A l \in Layers, a \in Assets :
            /\ inFlight' \in [Messages -> Nat]
            /\ UnderWay(l, a) \in Int
            /\ UnderWay(l, a)' = UnderWay(l, a) + (IF "L1" = l /\ ETH = a THEN amount ELSE 0)
    BY <1>0, <1>1, SendMoves DEF WithdrawETH
  <1>6. /\ l2Held' = l2Held + amount /\ pendingETH' = pendingETH + amount
        /\ l2Held \in Nat /\ pendingETH \in Nat
    BY <1>0 DEF WithdrawETH, TypeOK
  <1>7. UNCHANGED <<l1Wallet, paused, peer, mapped, routes, locked, minted, crossed>>
    BY DEF WithdrawETH, configVars
  <1>8. TypeOK'
    BY <1>0, <1>1, <1>4, <1>5, <1>6, <1>7 DEF TypeOK
  <1>9. Moves(ETH, amount, 0, 0, 0, amount)
    BY <1>0, <1>1, <1>5, <1>6, <1>7 DEF TypeOK, Moves
  <1>10. TokenConserved' /\ ETHConserved'
    BY <1>0, <1>1, <1>9, Conservation
  <1>11. MintedIsHeld'
    BY <1>0, <1>4, <1>7, MintedStays
  <1>12. ReservedETHHeld'
    BY <1>0, <1>1, <1>6 DEF ReservedETHHeld
  <1>13. RoutesKnown'
    BY <1>0, <1>7 DEF RoutesKnown
  <1> QED BY <1>8, <1>10, <1>11, <1>12, <1>13 DEF IInv

(* A withdrawal burns the amount and sends it toward L1. If it names another *)
(* token than its entry point's, only the tokens are no longer conserved.   *)
LEMMA WithdrawInv ==
    ASSUME IInv, NEW u \in Users, NEW released \in Tokens, NEW token \in Tokens,
           NEW to \in Users, NEW amount \in Amounts, Withdraw(u, released, token, to, amount)
    PROVE  IInv'
  <1>0. TypeOK /\ RoutesKnown /\ TokenConserved /\ MintedIsHeld /\ ETHConserved /\ ReservedETHHeld
    BY DEF IInv
  <1>1. /\ amount \in Nat /\ -amount \in Int
        /\ 0 \in Int /\ "L1" \in Layers /\ "L2" \in Layers
        /\ token \in Assets /\ released \in Assets
    BY DEF Amounts, Layers, Assets
  <1>14. /\ token \in Tokens /\ mapped[token] \in L2Tokens /\ mapped[token] \in L2Assets
         /\ <<token, mapped[token]>> \in routes
    BY <1>0 DEF Withdraw, TypeOK, RoutesKnown, L2Assets
  <1>2. l2Wallet' = [l2Wallet EXCEPT ![mapped[token]][u] = l2Wallet[mapped[token]][u] + (-amount)]
    BY <1>0, <1>1, <1>14 DEF Withdraw, TypeOK
  <1>3. l2Wallet[mapped[token]][u] + (-amount) \in Nat
    <2>1. l2Wallet[mapped[token]][u] \in Nat
      BY <1>0, <1>1, <1>14 DEF TypeOK
    <2>2. l2Wallet[mapped[token]][u] >= amount
      BY DEF Withdraw
    <2> QED BY <1>1, <2>1, <2>2
  <1>4. l2Wallet' \in [L2Assets -> [Users -> Nat]]
    BY <1>0, <1>1, <1>2, <1>3, <1>14, HoldingMoves
  <1>5. \A l \in Layers, a \in Assets :
            /\ inFlight' \in [Messages -> Nat]
            /\ UnderWay(l, a) \in Int
            /\ UnderWay(l, a)' = UnderWay(l, a) + (IF "L1" = l /\ released = a THEN amount ELSE 0)
    BY <1>0, <1>1, SendMoves DEF Withdraw
  <1>6. /\ minted' = [minted EXCEPT ![token] = minted[token] - amount]
        /\ minted \in [Tokens -> Nat] /\ amount <= minted[token]
        /\ crossed \in BOOLEAN /\ crossed' = (crossed \/ released # token)
    BY <1>0 DEF Withdraw, Burned, TypeOK
  <1>7. UNCHANGED <<l1Wallet, paused, peer, mapped, routes, locked, l2Held, pendingETH>>
    BY DEF Withdraw, configVars, ethVars
  <1>8. TypeOK'
    BY <1>0, <1>1, <1>4, <1>5, <1>6, <1>7 DEF TypeOK
  <1>9. ASSUME released = token PROVE TokenConserved' /\ ETHConserved'
    <2>1. Moves(token, amount, 0, 0, -amount, 0)
      BY <1>0, <1>1, <1>5, <1>6, <1>7, <1>9 DEF TypeOK, Moves
    <2>2. token # ETH /\ 0 = amount + 0 + (-amount)
      BY <1>1, BridgeConstants
    <2>3. TokenConserved' /\ ETHConserved'
      BY <1>0, <1>1, <2>1, <2>2, Conservation
    <2> QED BY <2>3
  <1>10. ASSUME released # token PROVE TokenConserved' /\ ETHConserved'
    <2>1. TokenConserved'
      BY <1>6, <1>10 DEF TokenConserved
    <2>2. ETH \in Assets /\ released # ETH
      BY BridgeConstants DEF Assets
    <2>3. /\ UnderWay("L1", ETH)' = UnderWay("L1", ETH) + 0 /\ UnderWay("L1", ETH) \in Int
          /\ UnderWay("L2", ETH)' = UnderWay("L2", ETH) + 0 /\ UnderWay("L2", ETH) \in Int
      BY <1>1, <1>5, <2>2
    <2>4. ETHConserved'
      BY <1>0, <1>7, <2>3 DEF ETHConserved
    <2> QED BY <2>1, <2>4
  <1>11. MintedIsHeld'
    <2>1. minted[token] \in Nat /\ minted[token] - amount = minted[token] + (-amount)
      BY <1>1, <1>6, <1>14
    <2>2. minted[token] + (-amount) \in Nat
      BY <1>1, <1>6, <2>1
    <2>3. minted' = [minted EXCEPT ![token] = minted[token] + (-amount)]
      BY <1>6, <2>1
    <2> QED BY <1>0, <1>1, <1>2, <1>3, <1>7, <1>14, <2>2, <2>3, MintedFollows
  <1>12. ReservedETHHeld'
    BY <1>0, <1>7 DEF ReservedETHHeld
  <1>13. RoutesKnown'
    BY <1>0, <1>7 DEF RoutesKnown
  <1> QED BY <1>8, <1>9, <1>10, <1>11, <1>12, <1>13 DEF IInv

(* Pausing, configuring, mapping and transfers move nothing between the     *)
(* layers, and no group of representations gains or loses by them.          *)
LEMMA StillInv ==
    ASSUME IInv, UNCHANGED <<locked, minted, ethVars, inFlight, crossed>>, TypeOK', RoutesKnown',
           routes \subseteq routes', \A X \in SUBSET L2Tokens : HeldOf(X)' = HeldOf(X)
    PROVE  IInv'
  <1>1. \A l \in Layers, a \in Assets : UnderWay(l, a)' = UnderWay(l, a)
    BY NothingMoves
  <1>2. "L1" \in Layers /\ "L2" \in Layers /\ ETH \in Assets /\ Tokens \subseteq Assets
    BY DEF Layers, Assets
  <1>3. TokenConserved' /\ ETHConserved'
    BY <1>1, <1>2 DEF IInv, TokenConserved, ETHConserved, ethVars
  <1>4. MintedIsHeld'
    BY MintedStays DEF IInv
  <1> QED BY <1>3, <1>4 DEF IInv, ReservedETHHeld, ethVars

LEMMA TransferInv ==
    ASSUME IInv, NEW u \in Users, NEW x \in L2Tokens, NEW to \in Users, NEW amount \in Amounts,
           Transfer(u, x, to, amount)
    PROVE  IInv'
  <1>1. TypeOK
    BY DEF IInv
  <1>2. l2Wallet' \in [L2Assets -> [Users -> Nat]] /\ \A X \in SUBSET L2Tokens : HeldOf(X)' = HeldOf(X)
    BY <1>1, TransferMoves DEF Transfer
  <1>3. UNCHANGED <<configVars, l1Wallet, locked, minted, ethVars, inFlight, crossed>>
    BY DEF Transfer
  <1>4. TypeOK'
    BY <1>1, <1>2, <1>3 DEF TypeOK, configVars, ethVars
  <1>5. RoutesKnown' /\ routes \subseteq routes'
    BY <1>3 DEF IInv, RoutesKnown, configVars
  <1> QED BY <1>2, <1>3, <1>4, <1>5, StillInv

LEMMA MapTokenInv ==
    ASSUME IInv, NEW t \in Tokens, NEW x \in L2Tokens, MapToken(t, x)
    PROVE  IInv'
  <1>1. TypeOK /\ RoutesKnown
    BY DEF IInv
  <1>2. UNCHANGED <<paused, peer, walletVars, locked, minted, ethVars, inFlight, crossed>>
    BY DEF MapToken
  <1>3. mapped' = [mapped EXCEPT ![t] = x] /\ routes' = routes \cup {<<t, x>>}
    BY DEF MapToken
  <1>4. mapped' \in [Tokens -> L2Tokens \cup {Unmapped}] /\ routes' \in SUBSET (Tokens \X L2Tokens)
    BY <1>1, <1>3 DEF TypeOK
  <1>5. TypeOK'
    BY <1>1, <1>2, <1>4 DEF TypeOK, walletVars, ethVars
  <1>6. RoutesKnown'
    BY <1>1, <1>3 DEF TypeOK, RoutesKnown
  <1>7. \A X : HeldOf(X)' = HeldOf(X)
    BY <1>2, WalletsStay DEF walletVars
  <1> QED BY <1>2, <1>3, <1>5, <1>6, <1>7, StillInv

-----------------------------------------------------------------------------
(* Before any message nothing is locked, minted or under way. *)
LEMMA InitInv == Init => IInv
  <1> SUFFICES ASSUME Init PROVE IInv
    OBVIOUS
  <1>1. TypeOK
    BY BridgeConstants DEF Init, TypeOK, Assets
  <1>2. \A l, a : UnderWay(l, a) = 0
    <2> SUFFICES ASSUME NEW l, NEW a PROVE UnderWay(l, a) = 0
      OBVIOUS
    <2> DEFINE f == [m \in Messages |-> Carried(m, l, a)]
    <2>1. \A m \in Messages : m.amount \in Int /\ inFlight[m] = 0
      BY BridgeConstants DEF Init, Messages, Amounts
    <2>2. f \in [Messages -> Int] /\ \A m \in Messages : f[m] = 0
      BY <2>1 DEF Carried
    <2>3. UnderWay(l, a) = SumFunctionOnSet(f, Messages)
      BY DEF UnderWay
    <2> HIDE DEF f
    <2> QED BY <2>2, <2>3, MessagesFinite, SumOfZeros
  <1>3. TokenConserved /\ ETHConserved
    BY <1>2, BridgeConstants DEF Init, TokenConserved, ETHConserved, Assets
  <1>4. MintedIsHeld
    <2> SUFFICES ASSUME NEW T \in SUBSET Tokens, NEW X \in SUBSET L2Tokens
                 PROVE  MintedOf(T) = HeldOf(X)
      BY DEF MintedIsHeld
    <2>1. /\ IsFiniteSet(X \X Users)
          /\ Holdings(X) \in [X \X Users -> Int]
          /\ HeldOf(X) = SumFunctionOnSet(Holdings(X), X \X Users)
      BY <1>1, HoldingsType
    <2>2. \A p \in X \X Users : Holdings(X)[p] = 0
      BY BridgeConstants DEF Init, Holdings, L2Assets
    <2>3. HeldOf(X) = 0
      BY <2>1, <2>2, SumOfZeros
    <2> DEFINE f == [t \in T |-> minted[t]]
    <2>4. f \in [T -> Int] /\ \A t \in T : f[t] = 0
      BY DEF Init
    <2>5. IsFiniteSet(T)
      BY BridgeConstants, FS_Subset
    <2>6. MintedOf(T) = SumFunctionOnSet(f, T)
      BY DEF MintedOf
    <2> HIDE DEF f
    <2>7. MintedOf(T) = 0
      BY <2>4, <2>5, <2>6, SumOfZeros
    <2> QED BY <2>3, <2>7
  <1>5. ReservedETHHeld
    BY BridgeConstants DEF Init, ReservedETHHeld
  <1>6. RoutesKnown
    BY DEF Init, RoutesKnown
  <1> QED BY <1>1, <1>3, <1>4, <1>5, <1>6 DEF IInv

(* In every reachable state both layers and the messages between them hold  *)
(* all the tokens and ETH there are.                                       *)
THEOREM BridgeInvariant == Spec => []IInv
  <1>1. ASSUME IInv, Next PROVE IInv'
    <2>1. CASE \E u \in Users : UserStep(u)
      BY <1>1, <2>1, DepositInv, WithdrawInv, WithdrawETHInv, TransferInv DEF UserStep
    <2>2. CASE \E m \in Messages : Relay(m)
      BY <1>1, <2>2, FinalizeDepositInv, FinalizeETHDepositInv, FinalizeWithdrawalInv DEF Relay
    <2>3. CASE AdminStep
      <3>1. CASE \E layer \in {"L1", "L2"} : SetPaused(layer) \/ SetPeer(layer)
        <4>1. UNCHANGED <<mapped, routes, walletVars, locked, minted, ethVars, inFlight, crossed>>
          BY <3>1 DEF SetPaused, SetPeer
        <4>2. TypeOK'
          BY <1>1, <3>1, <4>1 DEF IInv, TypeOK, SetPaused, SetPeer, walletVars, ethVars
        <4>3. RoutesKnown' /\ routes \subseteq routes'
          BY <1>1, <4>1 DEF IInv, RoutesKnown
        <4>4. \A X : HeldOf(X)' = HeldOf(X)
          BY <4>1, WalletsStay DEF walletVars
        <4> QED BY <1>1, <4>1, <4>2, <4>3, <4>4, StillInv
      <3>2. CASE \E t \in Tokens, x \in L2Tokens : MapToken(t, x)
        BY <1>1, <3>2, MapTokenInv
      <3> QED BY <2>3, <3>1, <3>2 DEF AdminStep
    <2> QED BY <1>1, <2>1, <2>2, <2>3 DEF Next
  <1>2. ASSUME IInv, UNCHANGED vars PROVE IInv'
    <2>1. /\ UNCHANGED <<mapped, routes, l2Wallet, locked, minted, ethVars, inFlight, crossed>>
          /\ TypeOK'
      BY <1>2 DEF IInv, TypeOK, vars, configVars, walletVars, ethVars
    <2>2. RoutesKnown' /\ routes \subseteq routes'
      BY <1>2, <2>1 DEF IInv, RoutesKnown
    <2>3. \A X : HeldOf(X)' = HeldOf(X)
      BY <2>1, WalletsStay
    <2> QED BY <1>2, <2>1, <2>2, <2>3, StillInv
  <1>3. IInv /\ [Next]_vars => IInv'
    BY <1>1, <1>2
  <1> QED BY <1>3, InitInv, PTL DEF Spec

(* Every unit of a token locked on L1 is exactly once under way or minted,  *)
(* as long as no withdrawal names another token than its entry point's.     *)
THEOREM TokensAreConserved == Spec => []TokenConserved
  <1>1. IInv => TokenConserved
    BY DEF IInv
  <1> QED BY <1>1, BridgeInvariant, PTL

(* totalMinted follows the holders through transfers and mappings: what has *)
(* been connected has minted what the wallets hold.                        *)
THEOREM MintedTokensAreHeld == Spec => []MintedIsHeld
  <1>1. IInv => MintedIsHeld
    BY DEF IInv
  <1> QED BY <1>1, BridgeInvariant, PTL

(* ETH is neither created nor lost between the layers. *)
THEOREM ETHIsConserved == Spec => []ETHConserved
  <1>1. IInv => ETHConserved
    BY DEF IInv
  <1> QED BY <1>1, BridgeInvariant, PTL

(* Deposits never use the ETH that withdrawals have reserved. *)
THEOREM ReservedETHIsHeld == Spec => []ReservedETHHeld
  <1>1. IInv => ReservedETHHeld
    BY DEF IInv
  <1> QED BY <1>1, BridgeInvariant, PTL
===============================================================================
