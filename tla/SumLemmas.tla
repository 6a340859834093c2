----------------------------- MODULE SumLemmas -----------------------------
(***************************************************************************)
(* Facts about SumFunctionOnSet over finite sets, used by the proofs that  *)
(* a ledger's total equals the sum of its entries, and about the products  *)
(* and rounded quotients of fixed-point arithmetic.  Induction on finite   *)
(* sets is stated with a set of sets G instead of a predicate.             *)
(***************************************************************************)
EXTENDS Integers, Functions, FiniteSetTheorems, TLAPS

(* Induction over the subsets of a finite set, for a family of sets instead *)
(* of a predicate: G holds a set once it holds the sets with a member less. *)
LEMMA FiniteSetInduction ==
    ASSUME NEW D, IsFiniteSet(D), NEW G,
           \A U \in SUBSET D : (\A x \in U : U \ {x} \in G) => U \in G
    PROVE  \A U \in SUBSET D : U \in G
  <1> DEFINE Bad == (SUBSET D) \ G
  <1>1. SUFFICES ASSUME Bad # {} PROVE FALSE
    OBVIOUS
  <1>2. Bad \subseteq FiniteSubsetsOf(D)
    BY FS_FiniteSubsetsOfFinite
  <1>3. PICK U \in Bad : \A V \in Bad : <<V, U>> \notin StrictSubsetOrdering(D)
    <2> HIDE DEF Bad
    <2> QED BY <1>1, <1>2, FS_StrictSubsetOrderingWellFounded, WFMin
  <1>4. \A x \in U : U \ {x} \in G
    <2> SUFFICES ASSUME NEW x \in U PROVE U \ {x} \in G
      OBVIOUS
    <2>1. <<U \ {x}, U>> \in StrictSubsetOrdering(D)
      BY DEF StrictSubsetOrdering
    <2> QED BY <1>3, <2>1
  <1> QED BY <1>4

(* Induction over the naturals, for a set instead of a predicate. *)
LEMMA NatSetInduction ==
    ASSUME NEW G, 0 \in G, \A n \in Nat : n \in G => n + 1 \in G
    PROVE  \A n \in Nat : n \in G
  <1>1. SUFFICES ASSUME NEW n \in Nat, n \notin G PROVE FALSE
    OBVIOUS
  <1> DEFINE HasMin == {U \in SUBSET (0..n) : U = {} \/ \E m \in U : \A k \in U : m <= k}
  <1>2. IsFiniteSet(0..n)
    BY FS_Interval
  <1>3. \A U \in SUBSET (0..n) : U \in HasMin
    <2>1. ASSUME NEW U \in SUBSET (0..n), \A x \in U : U \ {x} \in HasMin
          PROVE  U \in HasMin
      <3>1. CASE U = {}
        BY <3>1
      <3>2. CASE U # {}
        <4>1. PICK x \in U : TRUE
          BY <3>2
        <4>2. CASE U \ {x} = {}
          BY <4>1, <4>2
        <4>3. CASE \E m \in U \ {x} : \A k \in U \ {x} : m <= k
          <5>1. PICK m \in U \ {x} : \A k \in U \ {x} : m <= k
            BY <4>3
          <5>2. CASE m <= x
            BY <5>1, <5>2
          <5>3. CASE x < m
            <6>1. \A k \in U : x <= k
              BY <5>1, <5>3, <4>1
            <6> QED BY <6>1, <4>1
          <5> QED BY <5>1, <5>2, <5>3, <4>1
        <4> QED BY <2>1, <4>1, <4>2, <4>3
      <3> QED BY <3>1, <3>2
    <2> HIDE DEF HasMin
    <2> QED BY <2>1, <1>2, FiniteSetInduction
  <1> DEFINE Bad == {k \in 0..n : k \notin G}
  <1>4. Bad \in SUBSET (0..n) /\ n \in Bad
    BY <1>1
  <1>5. PICK m \in Bad : \A k \in Bad : m <= k
    BY <1>3, <1>4
  <1>6. m # 0 /\ m - 1 \in Nat /\ m - 1 \notin Bad /\ m - 1 \in 0..n
    BY <1>5
  <1> QED BY <1>6, <1>5

-----------------------------------------------------------------------------
(* The table of partial sums behind SumFunctionOnSet: the sum of a nonempty *)
(* set is that of one of its members and of the others.                    *)

Pick(s) == CHOOSE x \in s : TRUE

IsSumTable(t, f, D) ==
    t = [s \in SUBSET D |-> IF s = {} THEN 0 ELSE f[Pick(s)] + t[s \ {Pick(s)}]]

SumTable(f, D) == CHOOSE t : IsSumTable(t, f, D)

(* The sum is the fold's table read at the whole set. *)
LEMMA SumIsTable ==
    ASSUME NEW f, NEW D
    PROVE  SumFunctionOnSet(f, D) = SumTable(f, D)[D]
  BY DEF SumFunctionOnSet, FoldFunctionOnSet, MapThenFoldSet, SumTable, IsSumTable, Pick

(* Subsets of a finite set, and they without a member, are finite. *)
LEMMA SubsetFinite ==
    ASSUME NEW D, IsFiniteSet(D), NEW s \in SUBSET D
    PROVE  /\ IsFiniteSet(s)
           /\ Cardinality(s) \in Nat
           /\ Cardinality(s) <= Cardinality(D)
           /\ s # {} => Pick(s) \in s
           /\ \A x \in s : s \ {x} \in SUBSET D /\ Cardinality(s \ {x}) = Cardinality(s) - 1
           /\ Cardinality(s) = 0 => s = {}
  <1>1. IsFiniteSet(s) /\ Cardinality(s) <= Cardinality(D)
    BY FS_Subset
  <1>2. Cardinality(s) \in Nat
    BY <1>1, FS_CardinalityType
  <1>3. \A x \in s : s \ {x} \in SUBSET D /\ Cardinality(s \ {x}) = Cardinality(s) - 1
    BY <1>1, FS_RemoveElement
  <1>4. s # {} => Pick(s) \in s
    BY DEF Pick
  <1>5. Cardinality(s) = 0 => s = {}
    BY <1>1, FS_EmptySet
  <1> QED BY <1>1, <1>2, <1>3, <1>4, <1>5

(* The table exists: it is built for the sets of at most n members, n by n. *)
LEMMA SumTableExists ==
    ASSUME NEW D, IsFiniteSet(D), NEW f \in [D -> Int]
    PROVE  /\ IsSumTable(SumTable(f, D), f, D)
           /\ SumTable(f, D) \in [SUBSET D -> Int]
  <1> DEFINE Layer(n) == {s \in SUBSET D : Cardinality(s) <= n}
             Entry(t, s) == IF s = {} THEN 0 ELSE f[Pick(s)] + t[s \ {Pick(s)}]
             G == {n \in Nat : \E t \in [Layer(n) -> Int] : \A s \in Layer(n) : t[s] = Entry(t, s)}
  <1>1. 0 \in G
    <2> DEFINE t == [s \in Layer(0) |-> 0]
    <2>1. \A s \in Layer(0) : s = {}
      BY SubsetFinite
    <2>2. t \in [Layer(0) -> Int] /\ \A s \in Layer(0) : t[s] = Entry(t, s)
      BY <2>1
    <2> QED BY <2>2
  <1>2. ASSUME NEW n \in Nat, n \in G PROVE n + 1 \in G
    <2>1. PICK t \in [Layer(n) -> Int] : \A s \in Layer(n) : t[s] = Entry(t, s)
      BY <1>2
    <2> DEFINE u == [s \in Layer(n + 1) |-> Entry(t, s)]
    <2>2. ASSUME NEW s \in Layer(n + 1), s # {}
          PROVE  Pick(s) \in D /\ s \ {Pick(s)} \in Layer(n)
      BY <2>2, SubsetFinite
    <2>3. u \in [Layer(n + 1) -> Int]
      BY <2>1, <2>2
    <2>4. \A s \in Layer(n) : u[s] = t[s]
      BY <2>1, SubsetFinite
    <2>5. ASSUME NEW s \in Layer(n + 1) PROVE u[s] = Entry(u, s)
      BY <2>2, <2>4
    <2>6. \E w \in [Layer(n + 1) -> Int] : \A s \in Layer(n + 1) : w[s] = Entry(w, s)
      <3> HIDE DEF u, Layer, Entry
      <3> QED BY <2>3, <2>5
    <2> HIDE DEF Layer, Entry
    <2> QED BY <2>6
  <1>3. Cardinality(D) \in Nat
    BY FS_CardinalityType
  <1>4. Cardinality(D) \in G
    <2> HIDE DEF G
    <2> QED BY <1>1, <1>2, <1>3, NatSetInduction
  <1>5. Layer(Cardinality(D)) = SUBSET D
    BY SubsetFinite
  <1>6. PICK t \in [SUBSET D -> Int] : \A s \in SUBSET D : t[s] = Entry(t, s)
    BY <1>4, <1>5
  <1>7. IsSumTable(t, f, D)
    BY <1>6 DEF IsSumTable
  <1>8. IsSumTable(SumTable(f, D), f, D)
    BY <1>7 DEF SumTable
  <1> DEFINE T == SumTable(f, D)
             H == {s \in SUBSET D : T[s] \in Int}
  <1>9. \A s \in SUBSET D : T[s] = Entry(T, s)
    <2> HIDE DEF T
    <2> QED BY <1>8 DEF IsSumTable, T
  <1>10. ASSUME NEW s \in SUBSET D, \A x \in s : s \ {x} \in H PROVE s \in H
    <2>1. CASE s = {}
      BY <1>9, <2>1
    <2>2. CASE s # {}
      <3>1. Pick(s) \in s
        BY <2>2, SubsetFinite
      <3>2. T[s] = f[Pick(s)] + T[s \ {Pick(s)}]
        BY <1>9, <2>2
      <3>3. f[Pick(s)] \in Int /\ T[s \ {Pick(s)}] \in Int
        BY <3>1, <1>10
      <3>4. T[s] \in Int
        <4> HIDE DEF T
        <4> QED BY <3>2, <3>3
      <3> QED BY <3>4
    <2> QED BY <2>1, <2>2
  <1>11. \A s \in SUBSET D : s \in H
    <2> HIDE DEF H
    <2> QED BY <1>10, FiniteSetInduction
  <1>12. T = [s \in SUBSET D |-> Entry(T, s)]
    <2> HIDE DEF T
    <2> QED BY <1>8 DEF IsSumTable, T
  <1> QED BY <1>8, <1>11, <1>12

(* The two equations by which sums are computed: the empty sum, and the    *)
(* sum of a set with a member singled out, whichever member it is.         *)
LEMMA SumOfEntry ==
    ASSUME NEW D, IsFiniteSet(D), NEW f \in [D -> Int]
    PROVE  /\ SumTable(f, D)[{}] = 0
           /\ \A s \in SUBSET D : \A x \in s :
                SumTable(f, D)[s] = f[x] + SumTable(f, D)[s \ {x}]
  <1> DEFINE T == SumTable(f, D)
             G == {s \in SUBSET D : \A x \in s : T[s] = f[x] + T[s \ {x}]}
  <1>1. T \in [SUBSET D -> Int]
    BY SumTableExists
  <1>2. \A s \in SUBSET D : T[s] = IF s = {} THEN 0 ELSE f[Pick(s)] + T[s \ {Pick(s)}]
    <2>1. IsSumTable(T, f, D)
      BY SumTableExists
    <2> HIDE DEF T
    <2> QED BY <2>1 DEF IsSumTable
  <1> HIDE DEF T
  <1>3. ASSUME NEW s \in SUBSET D, \A x \in s : s \ {x} \in G PROVE s \in G
    <2> SUFFICES ASSUME NEW x \in s PROVE T[s] = f[x] + T[s \ {x}]
      OBVIOUS
    <2>1. T[s] = f[Pick(s)] + T[s \ {Pick(s)}] /\ Pick(s) \in s
      BY <1>2, SubsetFinite
    <2>2. CASE x = Pick(s)
      BY <2>1, <2>2
    <2>3. CASE x # Pick(s)
      <3> DEFINE c == Pick(s)
      <3>1. x \in s \ {c} /\ c \in s \ {x} /\ c \in s
        BY <2>1, <2>3
      <3> HIDE DEF c
      <3>2. T[s \ {c}] = f[x] + T[(s \ {c}) \ {x}]
        BY <1>3, <3>1
      <3>3. T[s \ {x}] = f[c] + T[(s \ {x}) \ {c}]
        BY <1>3, <3>1
      <3>4. T[(s \ {c}) \ {x}] = T[(s \ {x}) \ {c}]
        <4>1. (s \ {c}) \ {x} = (s \ {x}) \ {c}
          OBVIOUS
        <4> QED BY <4>1, Zenon
      <3>5. f[x] \in Int /\ f[c] \in Int /\ T[(s \ {x}) \ {c}] \in Int
        BY <1>1, <3>1
      <3>6. T[s] = f[c] + T[s \ {c}]
        BY <2>1 DEF c
      <3> QED BY <3>2, <3>3, <3>4, <3>5, <3>6
    <2> QED BY <2>2, <2>3
  <1>4. \A s \in SUBSET D : s \in G
    <2> HIDE DEF G
    <2> QED BY <1>3, FiniteSetInduction
  <1> QED BY <1>2, <1>4 DEF T

(* Two ledgers that agree on a set have the same sum over it. *)
LEMMA SumAgree ==
    ASSUME NEW D, IsFiniteSet(D), NEW f \in [D -> Int], NEW g \in [D -> Int],
           NEW S \in SUBSET D, \A x \in S : f[x] = g[x]
    PROVE  SumTable(f, D)[S] = SumTable(g, D)[S]
  <1> DEFINE F == SumTable(f, D)
             H == SumTable(g, D)
             G == {s \in SUBSET D : s \subseteq S => F[s] = H[s]}
  <1>1. ASSUME NEW s \in SUBSET D, \A x \in s : s \ {x} \in G PROVE s \in G
    <2>1. CASE s = {}
      BY <2>1, SumOfEntry
    <2>2. CASE s # {} /\ s \subseteq S
      <3>1. PICK x \in s : TRUE
        BY <2>2
      <3>2. F[s] = f[x] + F[s \ {x}] /\ H[s] = g[x] + H[s \ {x}]
        BY SumOfEntry
      <3>3. F[s \ {x}] = H[s \ {x}] /\ f[x] = g[x]
        BY <1>1, <2>2
      <3> QED BY <3>2, <3>3
    <2> QED BY <2>1, <2>2
  <1>2. \A s \in SUBSET D : s \in G
    <2> HIDE DEF G
    <2> QED BY <1>1, FiniteSetInduction
  <1> QED BY <1>2

-----------------------------------------------------------------------------
(* What the proofs about ledgers cite. *)

(* A sum of integers is an integer. *)
THEOREM SumType ==
    ASSUME NEW D, IsFiniteSet(D), NEW f \in [D -> Int]
    PROVE  SumFunctionOnSet(f, D) \in Int
  <1>1. SumTable(f, D) \in [SUBSET D -> Int]
    BY SumTableExists
  <1>2. SumTable(f, D)[D] \in Int
    BY <1>1
  <1> QED BY <1>2, SumIsTable

(* A ledger of zeros adds up to zero. *)
THEOREM SumOfZeros ==
    ASSUME NEW D, IsFiniteSet(D), NEW f \in [D -> Int], \A x \in D : f[x] = 0
    PROVE  SumFunctionOnSet(f, D) = 0
  <1> DEFINE F == SumTable(f, D)
             G == {s \in SUBSET D : F[s] = 0}
  <1>1. ASSUME NEW s \in SUBSET D, \A x \in s : s \ {x} \in G PROVE s \in G
    <2>1. CASE s = {}
      BY <2>1, SumOfEntry
    <2>2. CASE s # {}
      <3>1. PICK x \in s : TRUE
        BY <2>2
      <3>2. F[s] = f[x] + F[s \ {x}]
        BY SumOfEntry
      <3>3. F[s \ {x}] = 0 /\ f[x] = 0
        BY <1>1
      <3> QED BY <3>2, <3>3
    <2> QED BY <2>1, <2>2
  <1>2. \A s \in SUBSET D : s \in G
    <2> HIDE DEF G
    <2> QED BY <1>1, FiniteSetInduction
  <1> QED BY <1>2, SumIsTable

(* Two tables that differ in one entry have sums that differ by as much.   *)
THEOREM SumUpdate ==
    ASSUME NEW D, IsFiniteSet(D), NEW f \in [D -> Int], NEW g \in [D -> Int],
           NEW x \in D, \A y \in D \ {x} : f[y] = g[y]
    PROVE  SumFunctionOnSet(g, D) = SumFunctionOnSet(f, D) - f[x] + g[x]
  <1> DEFINE F == SumTable(f, D)
             H == SumTable(g, D)
  <1>2. F[D] = f[x] + F[D \ {x}]
    <2>1. \A s \in SUBSET D : \A y \in s : SumTable(f, D)[s] = f[y] + SumTable(f, D)[s \ {y}]
      BY SumOfEntry
    <2> QED BY <2>1
  <1>3. H[D] = g[x] + H[D \ {x}]
    <2>1. \A s \in SUBSET D : \A y \in s : SumTable(g, D)[s] = g[y] + SumTable(g, D)[s \ {y}]
      BY SumOfEntry
    <2> QED BY <2>1
  <1>4. F[D \ {x}] = H[D \ {x}]
    BY SumAgree
  <1>5. F[D \ {x}] \in Int /\ H[D \ {x}] \in Int /\ F[D] \in Int
    <2>1. SumTable(f, D) \in [SUBSET D -> Int] /\ SumTable(g, D) \in [SUBSET D -> Int]
      BY SumTableExists
    <2> QED BY <2>1
  <1>6. H[D] = F[D] - f[x] + g[x]
    <2> HIDE DEF F, H
    <2> QED BY <1>2, <1>3, <1>4, <1>5
  <1> QED BY <1>6, SumIsTable

(* Sums are monotone. *)
THEOREM SumMonotone ==
    ASSUME NEW D, IsFiniteSet(D), NEW f \in [D -> Int], NEW g \in [D -> Int],
           \A x \in D : f[x] <= g[x]
    PROVE  SumFunctionOnSet(f, D) <= SumFunctionOnSet(g, D)
  <1> DEFINE F == SumTable(f, D)
             H == SumTable(g, D)
             G == {s \in SUBSET D : F[s] <= H[s]}
  <1>1. ASSUME NEW s \in SUBSET D, \A x \in s : s \ {x} \in G PROVE s \in G
    <2>1. CASE s = {}
      BY <2>1, SumOfEntry
    <2>2. CASE s # {}
      <3>1. PICK x \in s : TRUE
        BY <2>2
      <3>2. F[s] = f[x] + F[s \ {x}] /\ H[s] = g[x] + H[s \ {x}]
        BY SumOfEntry
      <3>3. F[s \ {x}] \in Int /\ H[s \ {x}] \in Int /\ f[x] \in Int /\ g[x] \in Int
        <4>1. SumTable(f, D) \in [SUBSET D -> Int] /\ SumTable(g, D) \in [SUBSET D -> Int]
          BY SumTableExists
        <4> QED BY <4>1
      <3>4. F[s \ {x}] <= H[s \ {x}] /\ f[x] <= g[x]
        BY <1>1
      <3>5. F[s] <= H[s]
        <4> HIDE DEF F, H
        <4> QED BY <3>2, <3>3, <3>4
      <3> QED BY <3>5
    <2> QED BY <2>1, <2>2
  <1>2. \A s \in SUBSET D : s \in G
    <2> HIDE DEF G
    <2> QED BY <1>1, FiniteSetInduction
  <1> QED BY <1>2, SumIsTable

(* The sum of naturals is a natural that no entry exceeds. *)
THEOREM SumOfNats ==
    ASSUME NEW D, IsFiniteSet(D), NEW f \in [D -> Nat]
    PROVE  /\ SumFunctionOnSet(f, D) \in Nat
           /\ \A x \in D : f[x] <= SumFunctionOnSet(f, D)
  <1> DEFINE Zero == [x \in D |-> 0]
  <1>0. f \in [D -> Int]
    OBVIOUS
  <1>1. SumFunctionOnSet(Zero, D) = 0
    BY SumOfZeros
  <1>2. SumFunctionOnSet(f, D) \in Int /\ SumFunctionOnSet(f, D) >= 0
    <2>1. SumFunctionOnSet(Zero, D) <= SumFunctionOnSet(f, D)
      BY <1>0, SumMonotone
    <2> QED BY <2>1, <1>0, <1>1, SumType
  <1>3. ASSUME NEW x \in D PROVE f[x] <= SumFunctionOnSet(f, D)
    <2> DEFINE only == [Zero EXCEPT ![x] = f[x]]
    <2>1. only \in [D -> Int] /\ \A y \in D : only[y] <= f[y]
      OBVIOUS
    <2>2. SumFunctionOnSet(only, D) = SumFunctionOnSet(Zero, D) - Zero[x] + f[x]
      BY SumUpdate
    <2>3. SumFunctionOnSet(only, D) <= SumFunctionOnSet(f, D)
      <3> HIDE DEF only
      <3> QED BY <2>1, <1>0, SumMonotone
    <2> QED BY <2>2, <2>3, <1>1, <1>2
  <1> QED BY <1>2, <1>3

(* A table multiplied by a number has a sum multiplied by it. *)
THEOREM SumScaled ==
    ASSUME NEW D, IsFiniteSet(D), NEW f \in [D -> Int], NEW g \in [D -> Int], NEW k \in Int,
           \A x \in D : g[x] = k * f[x]
    PROVE  SumFunctionOnSet(g, D) = k * SumFunctionOnSet(f, D)
  <1> DEFINE F == SumTable(f, D)
             H == SumTable(g, D)
             G == {s \in SUBSET D : H[s] = k * F[s]}
  <1>1. ASSUME NEW s \in SUBSET D, \A x \in s : s \ {x} \in G PROVE s \in G
    <2>1. CASE s = {}
      BY <2>1, SumOfEntry
    <2>2. CASE s # {}
      <3>1. PICK x \in s : TRUE
        BY <2>2
      <3>2. F[s] = f[x] + F[s \ {x}] /\ H[s] = g[x] + H[s \ {x}]
        BY SumOfEntry
      <3>3. F[s \ {x}] \in Int /\ f[x] \in Int
        <4>1. SumTable(f, D) \in [SUBSET D -> Int]
          BY SumTableExists
        <4> QED BY <4>1
      <3>4. H[s \ {x}] = k * F[s \ {x}] /\ g[x] = k * f[x]
        BY <1>1
      <3>5. H[s] = k * F[s]
        <4> HIDE DEF F, H
        <4>1. k * (f[x] + F[s \ {x}]) = k * f[x] + k * F[s \ {x}]
          BY <3>3
        <4> QED BY <3>2, <3>4, <4>1
      <3> QED BY <3>5
    <2> QED BY <2>1, <2>2
  <1>2. \A s \in SUBSET D : s \in G
    <2> HIDE DEF G
    <2> QED BY <1>1, FiniteSetInduction
  <1> QED BY <1>2, SumIsTable

(* The sum over a part of a table is the sum of that part on its own. *)
LEMMA SumRestrict ==
    ASSUME NEW D, IsFiniteSet(D), NEW f \in [D -> Int], NEW S \in SUBSET D,
           NEW g \in [S -> Int], \A x \in S : f[x] = g[x]
    PROVE  SumTable(f, D)[S] = SumFunctionOnSet(g, S)
  <1> DEFINE F == SumTable(f, D)
             H == SumTable(g, S)
             G == {s \in SUBSET D : s \subseteq S => F[s] = H[s]}
  <1>0. IsFiniteSet(S)
    BY FS_Subset
  <1>1. ASSUME NEW s \in SUBSET D, \A x \in s : s \ {x} \in G PROVE s \in G
    <2>1. CASE s = {}
      BY <2>1, <1>0, SumOfEntry
    <2>2. CASE s # {} /\ s \subseteq S
      <3>1. PICK x \in s : TRUE
        BY <2>2
      <3>2. F[s] = f[x] + F[s \ {x}]
        BY SumOfEntry
      <3>4. H[s] = g[x] + H[s \ {x}]
        BY <1>0, <2>2, SumOfEntry
      <3>3. F[s \ {x}] = H[s \ {x}] /\ f[x] = g[x]
        BY <1>1, <2>2
      <3> QED BY <3>2, <3>3, <3>4
    <2> QED BY <2>1, <2>2
  <1>2. \A s \in SUBSET D : s \in G
    <2> HIDE DEF G
    <2> QED BY <1>1, FiniteSetInduction
  <1>3. F[S] = H[S]
    BY <1>2
  <1> QED BY <1>0, <1>3, SumIsTable

(* A table without one of its entries has a sum that is less by that entry. *)
LEMMA SumDropEntry ==
    ASSUME NEW E, IsFiniteSet(E), NEW x \in E, NEW f \in [E -> Int],
           NEW g \in [E \ {x} -> Int], \A y \in E \ {x} : f[y] = g[y]
    PROVE  SumFunctionOnSet(f, E) = SumFunctionOnSet(g, E \ {x}) + f[x]
  <1> DEFINE F == SumTable(f, E)
             R == E \ {x}
  <1>1. \A s \in SUBSET E : \A y \in s : F[s] = f[y] + F[s \ {y}]
    BY SumOfEntry
  <1>2. F \in [SUBSET E -> Int]
    BY SumTableExists
  <1>3. F[R] = SumFunctionOnSet(g, R)
    <2>1. R \in SUBSET E /\ (\A y \in R : f[y] = g[y]) /\ g \in [R -> Int]
      OBVIOUS
    <2> HIDE DEF R
    <2> QED BY <2>1, SumRestrict
  <1>4. SumFunctionOnSet(f, E) = F[E]
    BY SumIsTable
  <1> HIDE DEF F
  <1>5. F[E] = f[x] + F[R]
    BY <1>1
  <1>6. f[x] \in Int /\ F[R] \in Int
    BY <1>2
  <1> HIDE DEF R
  <1>7. SumFunctionOnSet(f, E) = SumFunctionOnSet(g, R) + f[x]
    BY <1>3, <1>4, <1>5, <1>6
  <1> QED BY <1>7 DEF R

(* A table with one more entry has a sum that is larger by that entry. *)
THEOREM SumAddEntry ==
    ASSUME NEW D, IsFiniteSet(D), NEW x, x \notin D, NEW E, E = D \cup {x},
           NEW f \in [E -> Int], NEW g \in [D -> Int], \A y \in D : f[y] = g[y]
    PROVE  SumFunctionOnSet(f, E) = SumFunctionOnSet(g, D) + f[x]
  <1>1. IsFiniteSet(E)
    BY FS_AddElement
  <1>2. x \in E /\ E \ {x} = D
    OBVIOUS
  <1>3. g \in [E \ {x} -> Int] /\ \A y \in E \ {x} : f[y] = g[y]
    BY <1>2
  <1>4. SumFunctionOnSet(f, E) = SumFunctionOnSet(g, E \ {x}) + f[x]
    BY <1>1, <1>2, <1>3, SumDropEntry
  <1> QED BY <1>2, <1>4

(* Within one table, the sum over two disjoint sets is the sum of the two. *)
LEMMA SumOfParts ==
    ASSUME NEW E, IsFiniteSet(E), NEW f \in [E -> Int],
           NEW A \in SUBSET E, NEW B \in SUBSET E, A \cap B = {}
    PROVE  SumTable(f, E)[A \cup B] = SumTable(f, E)[A] + SumTable(f, E)[B]
  <1> DEFINE F == SumTable(f, E)
             G == {s \in SUBSET E : s \subseteq B => F[A \cup s] = F[A] + F[s]}
  <1>1. \A s \in SUBSET E : \A y \in s : F[s] = f[y] + F[s \ {y}]
    BY SumOfEntry
  <1>2. F \in [SUBSET E -> Int]
    BY SumTableExists
  <1>3. F[{}] = 0
    BY SumOfEntry
  <1> HIDE DEF F
  <1>4. ASSUME NEW s \in SUBSET E, \A x \in s : s \ {x} \in G PROVE s \in G
    <2>1. CASE s = {}
      <3>1. A \cup s = A
        BY <2>1
      <3>2. F[A] \in Int
        BY <1>2
      <3> QED BY <3>1, <3>2, <2>1, <1>3
    <2>2. CASE s # {} /\ s \subseteq B
      <3>1. PICK x \in s : TRUE
        BY <2>2
      <3> DEFINE u == A \cup s
                 v == A \cup (s \ {x})
                 w == s \ {x}
      <3>2. u \in SUBSET E /\ x \in u /\ u \ {x} = v /\ v \in SUBSET E
        BY <2>2
      <3>3. F[u] = f[x] + F[u \ {x}]
        BY <3>2, <1>1
      <3>4. F[s] = f[x] + F[w]
        BY <1>1
      <3>5. F[v] = F[A] + F[w]
        BY <1>4, <2>2
      <3>6. f[x] \in Int /\ F[A] \in Int /\ F[w] \in Int /\ F[v] \in Int
        BY <1>2, <3>2
      <3> HIDE DEF u, v, w
      <3>8. F[u] = f[x] + F[v]
        BY <3>2, <3>3
      <3>7. F[u] = F[A] + F[s]
        BY <3>4, <3>5, <3>6, <3>8
      <3> QED BY <3>7 DEF u
    <2> QED BY <2>1, <2>2
  <1>5. \A s \in SUBSET E : s \in G
    <2> HIDE DEF G
    <2> QED BY <1>4, FiniteSetInduction
  <1>6. F[A \cup B] = F[A] + F[B]
    BY <1>5
  <1> QED BY <1>6 DEF F

(* The sum over two disjoint sets is the sum of the two sums. *)
THEOREM SumOfUnion ==
    ASSUME NEW E, IsFiniteSet(E), NEW f \in [E -> Int], NEW A \in SUBSET E, NEW B \in SUBSET E,
           A \cap B = {}, A \cup B = E, NEW g \in [A -> Int], NEW h \in [B -> Int],
           \A x \in A : f[x] = g[x], \A x \in B : f[x] = h[x]
    PROVE  SumFunctionOnSet(f, E) = SumFunctionOnSet(g, A) + SumFunctionOnSet(h, B)
  <1> DEFINE F == SumTable(f, E)
  <1>1. F[A \cup B] = F[A] + F[B]
    BY SumOfParts
  <1>2. F[A] = SumFunctionOnSet(g, A)
    BY SumRestrict
  <1>3. F[B] = SumFunctionOnSet(h, B)
    BY SumRestrict
  <1>4. SumFunctionOnSet(f, E) = F[E]
    BY SumIsTable
  <1> QED BY <1>1, <1>2, <1>3, <1>4

(* The sum over a sequence that is one longer. *)
THEOREM SumOneMore ==
    ASSUME NEW n \in Nat, NEW f \in [1..(n + 1) -> Int], NEW g \in [1..n -> Int],
           \A i \in 1..n : f[i] = g[i]
    PROVE  SumFunctionOnSet(f, 1..(n + 1)) = SumFunctionOnSet(g, 1..n) + f[n + 1]
  <1> DEFINE E == 1..(n + 1)
             x == n + 1
  <1>1. x \in E /\ E \ {x} = 1..n
    OBVIOUS
  <1>2. IsFiniteSet(E)
    BY FS_Interval
  <1>3. f \in [E -> Int] /\ g \in [E \ {x} -> Int] /\ \A y \in E \ {x} : f[y] = g[y]
    BY <1>1
  <1> HIDE DEF E, x
  <1>4. SumFunctionOnSet(f, E) = SumFunctionOnSet(g, E \ {x}) + f[x]
    BY <1>1, <1>2, <1>3, SumDropEntry
  <1> QED BY <1>1, <1>4 DEF E, x

(* The sum over a sequence put after another is the sum of the two sums. *)
Joins(f, g, h, a, b) ==
    /\ f \in [1..(a + b) -> Int] /\ g \in [1..a -> Int] /\ h \in [1..b -> Int]
    /\ (\A i \in 1..a : f[i] = g[i]) /\ (\A i \in 1..b : f[a + i] = h[i])

THEOREM SumConcat ==
    ASSUME NEW a \in Nat, NEW b \in Nat, NEW f, NEW g, NEW h, Joins(f, g, h, a, b)
    PROVE  SumFunctionOnSet(f, 1..(a + b)) = SumFunctionOnSet(g, 1..a) + SumFunctionOnSet(h, 1..b)
  <1> DEFINE ff(n) == [i \in 1..(a + n) |-> f[i]]
             hh(n) == [i \in 1..n |-> h[i]]
             G == {n \in Nat : n <= b =>
                     SumFunctionOnSet(ff(n), 1..(a + n))
                       = SumFunctionOnSet(g, 1..a) + SumFunctionOnSet(hh(n), 1..n)}
  <1>6. f \in [1..(a + b) -> Int] /\ g \in [1..a -> Int] /\ h \in [1..b -> Int]
        /\ (\A i \in 1..a : f[i] = g[i]) /\ (\A i \in 1..b : f[a + i] = h[i])
    BY DEF Joins
  <1>1. SumFunctionOnSet(g, 1..a) \in Int
    <2>1. IsFiniteSet(1..a)
      BY FS_Interval
    <2> QED BY <2>1, <1>6, SumType
  <1>2. 0 \in G
    <2>1. SumFunctionOnSet(hh(0), 1..0) = 0
      <3>1. hh(0) \in [1..0 -> Int] /\ \A x \in 1..0 : hh(0)[x] = 0
        OBVIOUS
      <3>2. IsFiniteSet(1..0)
        <4>1. 1..0 = {}
          OBVIOUS
        <4> QED BY <4>1, FS_EmptySet
      <3> HIDE DEF hh
      <3> QED BY <3>1, <3>2, SumOfZeros
    <2>2. ff(0) = g /\ a + 0 = a
      <3>1. a + 0 = a
        OBVIOUS
      <3>2. [i \in 1..a |-> f[i]] = [i \in 1..a |-> g[i]]
        BY <1>6
      <3> QED BY <3>1, <3>2, <1>6
    <2> HIDE DEF ff, hh
    <2> QED BY <1>1, <2>1, <2>2
  <1>3. ASSUME NEW n \in Nat, n \in G PROVE n + 1 \in G
    <2>1. SUFFICES ASSUME n + 1 <= b
                   PROVE  SumFunctionOnSet(ff(n + 1), 1..(a + (n + 1)))
                            = SumFunctionOnSet(g, 1..a) + SumFunctionOnSet(hh(n + 1), 1..(n + 1))
      OBVIOUS
    <2>2. SumFunctionOnSet(ff(n), 1..(a + n))
            = SumFunctionOnSet(g, 1..a) + SumFunctionOnSet(hh(n), 1..n)
      BY <1>3, <2>1
    <2> DEFINE k == a + n
    <2>13. k \in Nat /\ a + (n + 1) = k + 1
      OBVIOUS
    <2>3. IsFiniteSet(1..n) /\ IsFiniteSet(1..k)
      <3> HIDE DEF k
      <3>1. IsFiniteSet(1..n)
        BY FS_Interval
      <3>2. IsFiniteSet(1..k)
        BY <2>13, FS_Interval
      <3> QED BY <3>1, <3>2
    <2>4. 1..(n + 1) = (1..n) \cup {n + 1} /\ n + 1 \notin 1..n
      OBVIOUS
    <2>5. 1..(a + (n + 1)) = (1..k) \cup {k + 1} /\ k + 1 \notin 1..k
      <3> HIDE DEF k
      <3>1. 1..(k + 1) = (1..k) \cup {k + 1} /\ k + 1 \notin 1..k
        BY <2>13
      <3> QED BY <3>1, <2>13
    <2>6. /\ ff(n + 1) \in [1..(a + (n + 1)) -> Int] /\ ff(n) \in [1..(a + n) -> Int]
          /\ \A y \in 1..(a + n) : ff(n + 1)[y] = ff(n)[y]
          /\ ff(n + 1)[a + (n + 1)] = h[n + 1]
      BY <2>1, <1>6
    <2>7. /\ hh(n + 1) \in [1..(n + 1) -> Int] /\ hh(n) \in [1..n -> Int]
          /\ \A y \in 1..n : hh(n + 1)[y] = hh(n)[y]
          /\ hh(n + 1)[n + 1] = h[n + 1]
      BY <2>1, <1>6
    <2>8. h[n + 1] \in Int
      BY <2>1, <1>6
    <2> DEFINE fs == ff(n + 1)
               hs == hh(n + 1)
               ft == ff(n)
               ht == hh(n)
    <2>9. SumFunctionOnSet(fs, 1..(a + (n + 1))) = SumFunctionOnSet(ft, 1..(a + n)) + h[n + 1]
      <3>1. fs \in [1..(a + (n + 1)) -> Int] /\ ft \in [1..k -> Int]
            /\ (\A y \in 1..k : fs[y] = ft[y]) /\ fs[k + 1] = h[n + 1]
        <4> HIDE DEF ff
        <4> QED BY <2>5, <2>6, <2>13
      <3> HIDE DEF fs, ft, k
      <3>2. SumFunctionOnSet(fs, 1..(a + (n + 1))) = SumFunctionOnSet(ft, 1..k) + fs[k + 1]
        <4>1. k \in Nat /\ fs \in [1..(k + 1) -> Int]
          BY <3>1, <2>13
        <4>2. SumFunctionOnSet(fs, 1..(k + 1)) = SumFunctionOnSet(ft, 1..k) + fs[k + 1]
          BY <3>1, <4>1, SumOneMore
        <4> QED BY <4>2, <2>13
      <3> QED BY <3>1, <3>2, <2>5 DEF k
    <2>10. SumFunctionOnSet(hs, 1..(n + 1)) = SumFunctionOnSet(ht, 1..n) + h[n + 1]
      <3>1. hs \in [1..(n + 1) -> Int] /\ ht \in [1..n -> Int]
            /\ (\A y \in 1..n : hs[y] = ht[y]) /\ hs[n + 1] = h[n + 1]
        <4> HIDE DEF hh
        <4> QED BY <2>4, <2>7
      <3> HIDE DEF hs, ht
      <3>2. SumFunctionOnSet(hs, 1..(n + 1)) = SumFunctionOnSet(ht, 1..n) + hs[n + 1]
        BY <3>1, SumOneMore
      <3> QED BY <3>1, <3>2, <2>4
    <2> HIDE DEF ff, hh
    <2>11. SumFunctionOnSet(hh(n), 1..n) \in Int
      BY <2>3, <2>7, SumType
    <2> QED BY <1>1, <2>2, <2>8, <2>9, <2>10, <2>11
  <1>4. b \in G
    <2> HIDE DEF G
    <2> QED BY <1>2, <1>3, NatSetInduction
  <1>5. ff(b) = f /\ hh(b) = h
    BY <1>6
  <1> HIDE DEF ff, hh
  <1> QED BY <1>4, <1>5

-----------------------------------------------------------------------------
(* Products and quotients of naturals. *)

(* A quotient of naturals is a natural. *)
LEMMA DivNat ==
    ASSUME NEW a \in Nat, NEW b \in Nat, b > 0
    PROVE  a \div b \in Nat
  OBVIOUS

(* A product of naturals is a natural. *)
LEMMA TimesNat ==
    ASSUME NEW a \in Nat, NEW b \in Nat
    PROVE  a * b \in Nat
  OBVIOUS

(* Products grow with a factor. *)
LEMMA TimesMonotone ==
    ASSUME NEW a \in Nat, NEW b \in Nat, NEW c \in Nat, b <= c
    PROVE  /\ a * b \in Nat /\ a * c \in Nat /\ a * b <= a * c
           /\ b * a \in Nat /\ c * a \in Nat /\ b * a <= c * a
  OBVIOUS

(* A common factor cancels. *)
LEMMA CancelFactor ==
    ASSUME NEW a \in Nat, NEW b \in Nat, NEW c \in Nat \ {0}, c * a <= c * b
    PROVE  a <= b
  <1>1. ASSUME b + 1 <= a PROVE FALSE
    <2>1. c * (b + 1) <= c * a /\ c * (b + 1) = c * b + c
      BY <1>1
    <2>2. c * a \in Nat /\ c * b \in Nat
      OBVIOUS
    <2> QED BY <2>1, <2>2
  <1> QED BY <1>1

(* The quotient's bounds, as products. *)
LEMMA QuotientBounds ==
    ASSUME NEW a \in Nat, NEW n \in Nat \ {0}
    PROVE  /\ a \div n \in Nat
           /\ n * (a \div n) <= a
           /\ a < n * (a \div n + 1)
  <1> DEFINE q == a \div n
             r == a % n
  <1>1. q \in Nat /\ r \in Nat /\ r < n /\ a = n * q + r
    OBVIOUS
  <1> HIDE DEF q, r
  <1>2. n * (q + 1) = n * q + n /\ n * q \in Nat
    BY <1>1
  <1>3. q \in Nat /\ n * q <= a /\ a < n * (q + 1)
    BY <1>1, <1>2
  <1> QED BY <1>3 DEF q

(* A quotient is at least q when the dividend is at least q times the      *)
(* divisor.                                                                *)
LEMMA QuotientAtLeast ==
    ASSUME NEW a \in Nat, NEW d \in Nat \ {0}, NEW q \in Nat, d * q <= a
    PROVE  q <= a \div d
  <1> DEFINE f == a \div d
             r == a % d
  <1>1. f \in Nat /\ r \in Nat /\ r < d /\ a = d * f + r
    OBVIOUS
  <1> HIDE DEF f, r
  <1>2. ASSUME f + 1 <= q PROVE FALSE
    <2>1. d * (f + 1) <= d * q
      BY <1>1, <1>2
    <2>2. d * (f + 1) = d * f + d
      BY <1>1
    <2> QED BY <1>1, <2>1, <2>2
  <1>3. q <= f
    BY <1>1, <1>2
  <1> QED BY <1>3 DEF f

(* Scaling by a factor of at least 1.0 does not lose anything. *)
LEMMA ScaleUp ==
    ASSUME NEW a \in Nat, NEW b \in Nat, NEW c \in Nat \ {0}, b >= c
    PROVE  (a * b) \div c >= a
  <1>1. a * b >= c * a
    OBVIOUS
  <1>2. a * b \in Nat /\ c * a \in Nat
    OBVIOUS
  <1> DEFINE p == a * b
  <1>3. \A q \in Nat : q >= c * a => q \div c >= a
    OBVIOUS
  <1> HIDE DEF p
  <1>4. p \div c >= a
    BY <1>1, <1>2, <1>3 DEF p
  <1> QED BY <1>4 DEF p

(* Rounding down is monotone. *)
LEMMA DivMonotone ==
    ASSUME NEW a \in Nat, NEW b \in Nat, NEW d \in Nat \ {0}, a <= b
    PROVE  a \div d <= b \div d
  <1> DEFINE f == a \div d
  <1>1. f \in Nat /\ d * f <= a
    BY QuotientBounds
  <1> HIDE DEF f
  <1>2. d * f <= b
    <2>1. d * f \in Nat
      BY <1>1
    <2> QED BY <1>1, <2>1
  <1>3. f <= b \div d
    BY <1>1, <1>2, QuotientAtLeast
  <1> QED BY <1>3 DEF f

(* The parts, rounded down, make no more than the whole, rounded down. *)
LEMMA DivOfSum ==
    ASSUME NEW a \in Nat, NEW b \in Nat, NEW d \in Nat \ {0}
    PROVE  (a \div d) + (b \div d) <= (a + b) \div d
  <1> DEFINE f == a \div d
             g == b \div d
  <1>1. f \in Nat /\ g \in Nat /\ d * f <= a /\ d * g <= b
    BY QuotientBounds
  <1> HIDE DEF f, g
  <1>2. d * (f + g) = d * f + d * g /\ d * f \in Nat /\ d * g \in Nat
    BY <1>1
  <1>3. d * (f + g) <= a + b
    BY <1>1, <1>2
  <1>4. f + g <= (a + b) \div d
    BY <1>1, <1>3, QuotientAtLeast
  <1> QED BY <1>4 DEF f, g
=============================================================================
