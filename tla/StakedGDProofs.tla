---------------------------- MODULE StakedGDProofs ----------------------------
(***************************************************************************)
(* What holds of the contracts that lock G$, for any users, amounts, times  *)
(* and rates.  The vote escrow and the DAO: locks are paid for, the votes   *)
(* of a delegate cover the power delegated to it, votes stay within the     *)
(* total at every time that can be looked up, and a verdict turns only with *)
(* it.  Validator staking: the roll of validators is exact, the stakes are  *)
(* held, and rewards grow with time alone.                                 *)
(***************************************************************************)
EXTENDS GoodDAO, ValidatorStaking, SumLemmas, SequenceTheorems

-----------------------------------------------------------------------------
(* The vote escrow and the DAO. *)

Locked == [amount : Nat, end : Nat]
Entries == [timestamp : Nat, votes : Nat]

(* No checkpoint lies in the future. *)
Past(history) == \A i \in 1..Len(history) : history[i].timestamp <= now

HistoriesPast ==
    /\ \A d \in Delegatees : Past(checkpoints[d])
    /\ Past(totalSupplyCheckpoints)

(* The votes that delegates hold now. *)
VotesOf(cp) == [d \in Users |-> Latest(cp[d])]
UserVotes(cp) == SumFunctionOnSet(VotesOf(cp), Users)

(* VotesWithinTotal is inductive only with the power that was delegated to  *)
(* nobody: whoever takes it back must find it in the total.                *)
TotalCovers ==
    UserVotes(checkpoints) + PowerDelegatedTo(Nobody) <= Latest(totalSupplyCheckpoints)

IInv ==
    /\ EscrowTypeOK
    /\ HistoriesPast
    /\ LocksHeld
    /\ VotesCoverPower
    /\ TotalCovers
    /\ VotesWithinTotal

-----------------------------------------------------------------------------
(* Arithmetic. *)

Part(x, k) == (x * k) \div 10000

(* A part of at most 10000 of 10000 of an amount does not exceed it. *)
LEMMA PartBounded ==
    ASSUME NEW x \in Nat, NEW k \in Nat, k <= 10000
    PROVE  Part(x, k) \in Nat /\ Part(x, k) <= x
  <1>1. x * k \in Nat /\ x * k <= x * 10000
    BY TimesMonotone
  <1> DEFINE p == x * k
  <1>2. p \in Nat /\ p <= x * 10000
    BY <1>1
  <1> HIDE DEF p
  <1>3. p \div 10000 \in Nat /\ p \div 10000 <= x
    BY <1>2
  <1> QED BY <1>3 DEF p, Part

(* The voting power of a lock is a natural. *)
LEMMA PowerNat ==
    ASSUME now \in Nat, NEW l \in Locked
    PROVE  PowerOf(l) \in Nat
  <1>1. CASE now >= l.end
    BY <1>1 DEF PowerOf
  <1>2. CASE now < l.end
    <2>1. l.amount \in Nat /\ l.end - now \in Nat
      BY <1>2 DEF Locked
    <2>2. l.amount * (l.end - now) \in Nat
      BY <2>1, TimesMonotone
    <2> QED BY <1>2, <2>2, VoteEscrowConstants, DivNat DEF PowerOf
  <1> QED BY <1>1, <1>2 DEF Locked

(* It only decays with time. *)
LEMMA PowerDecays ==
    ASSUME now \in Nat, now' = now + 1, NEW l \in Locked
    PROVE  PowerOf(l)' <= PowerOf(l)
  <1>1. l.amount \in Nat /\ l.end \in Nat
    BY DEF Locked
  <1>2. PowerOf(l) \in Nat
    BY PowerNat
  <1>3. CASE now' >= l.end
    BY <1>2, <1>3 DEF PowerOf
  <1>4. CASE now' < l.end
    <2>1. l.end - now \in Nat /\ l.end - now' \in Nat /\ l.end - now' <= l.end - now
      BY <1>1, <1>4
    <2>2. /\ l.amount * (l.end - now') \in Nat /\ l.amount * (l.end - now) \in Nat
          /\ l.amount * (l.end - now') <= l.amount * (l.end - now)
      BY <1>1, <2>1, TimesMonotone
    <2>3. (l.amount * (l.end - now')) \div MAX_LOCK <= (l.amount * (l.end - now)) \div MAX_LOCK
      BY <2>2, VoteEscrowConstants, DivMonotone
    <2>4. ~(now' >= l.end) /\ ~(now >= l.end)
      BY <1>1, <1>4
    <2> QED BY <2>3, <2>4 DEF PowerOf
  <1> QED BY <1>1, <1>3, <1>4

-----------------------------------------------------------------------------
(* Checkpoints. *)

(* A nonempty set of positions in a sequence has a last one. *)
LEMMA LastPosition ==
    ASSUME NEW n \in Nat, NEW U \in SUBSET (1..n), U # {}
    PROVE  Max(U) \in U /\ \A k \in U : Max(U) >= k
  <1> DEFINE G == {S \in SUBSET (1..n) : S # {} => \E x \in S : \A y \in S : x >= y}
  <1>1. IsFiniteSet(1..n)
    BY FS_Interval
  <1>2. ASSUME NEW S \in SUBSET (1..n), \A x \in S : S \ {x} \in G PROVE S \in G
    <2>1. SUFFICES ASSUME S # {} PROVE \E x \in S : \A y \in S : x >= y
      OBVIOUS
    <2>2. PICK x \in S : TRUE
      BY <2>1
    <2>3. CASE S \ {x} = {}
      BY <2>2, <2>3
    <2>4. CASE S \ {x} # {}
      <3>1. PICK z \in S \ {x} : \A y \in S \ {x} : z >= y
        BY <1>2, <2>2, <2>4
      <3>2. CASE z >= x
        BY <3>1, <3>2, <2>2
      <3>3. CASE x > z
        <4>1. \A y \in S : x >= y
          BY <3>1, <3>3, <2>2
        <4> QED BY <4>1, <2>2
      <3> QED BY <3>1, <3>2, <3>3, <2>2
    <2> QED BY <2>3, <2>4
  <1>3. \A S \in SUBSET (1..n) : S \in G
    <2> HIDE DEF G
    <2> QED BY <1>1, <1>2, FiniteSetInduction
  <1>4. \E x \in U : \A y \in U : x >= y
    BY <1>3
  <1> QED BY <1>4 DEF Max

(* Votes looked up are naturals, and looked up for now they are the latest. *)
LEMMA LookupNat ==
    ASSUME NEW h \in Histories, NEW t \in Int
    PROVE  Latest(h) \in Nat /\ PastVotes(h, t) \in Nat
  <1>0. h \in Seq(Entries)
    BY DEF Histories, Entries
  <1>1. Len(h) \in Nat /\ \A i \in 1..Len(h) : h[i] \in Entries
    BY <1>0
  <1>2. Latest(h) \in Nat
    BY <1>0, <1>1 DEF Latest, Entries
  <1> DEFINE past == {i \in 1..Len(h) : h[i].timestamp <= t}
  <1>3. past \in SUBSET (1..Len(h))
    OBVIOUS
  <1>4. ASSUME past # {} PROVE h[Max(past)].votes \in Nat
    <2>1. Max(past) \in 1..Len(h)
      <3> HIDE DEF past
      <3> QED BY <1>1, <1>3, <1>4, LastPosition
    <2> QED BY <1>1, <2>1 DEF Entries
  <1> QED BY <1>2, <1>4 DEF PastVotes

LEMMA LookupNow ==
    ASSUME NEW h \in Histories, NEW n \in Nat, \A i \in 1..Len(h) : h[i].timestamp <= n
    PROVE  PastVotes(h, n) = Latest(h)
  <1> DEFINE past == {i \in 1..Len(h) : h[i].timestamp <= n}
  <1>1. past = 1..Len(h) /\ Len(h) \in Nat
    BY DEF Histories
  <1>2. CASE h = <<>>
    BY <1>2 DEF PastVotes, Latest
  <1>3. CASE h # <<>>
    <2>1. Len(h) \in past /\ past # {} /\ past \in SUBSET (1..Len(h))
      BY <1>1, <1>3 DEF Histories
    <2>2. Max(past) \in 1..Len(h) /\ Max(past) >= Len(h)
      <3> HIDE DEF past
      <3> QED BY <1>1, <2>1, LastPosition
    <2>3. Max(past) = Len(h)
      BY <1>1, <2>2
    <2> QED BY <1>3, <2>1, <2>3 DEF PastVotes, Latest
  <1> QED BY <1>2, <1>3

(* Writing changes the votes from now on and nothing that lies before. *)
LEMMA Written ==
    ASSUME NEW h \in Histories, NEW c \in Int, now \in Nat, Past(h)
    PROVE  /\ WriteCheckpoint(h, c) \in Histories
           /\ Past(WriteCheckpoint(h, c))
           /\ Latest(WriteCheckpoint(h, c)) = IF Latest(h) + c > 0 THEN Latest(h) + c ELSE 0
           /\ \A t \in Int : t < now => PastVotes(WriteCheckpoint(h, c), t) = PastVotes(h, t)
  <1> DEFINE votes == Latest(h) + c
             entry == [timestamp |-> now, votes |-> IF votes > 0 THEN votes ELSE 0]
             w == WriteCheckpoint(h, c)
  <1>1. Latest(h) \in Nat
    BY LookupNat, 0 \in Int
  <1>2. entry \in Entries /\ entry.timestamp = now
        /\ entry.votes = IF Latest(h) + c > 0 THEN Latest(h) + c ELSE 0
    BY <1>1 DEF Entries
  <1>3. h \in Seq(Entries)
    BY DEF Histories, Entries
  <1>4. w = IF h # <<>> /\ h[Len(h)].timestamp = now
            THEN [h EXCEPT ![Len(h)] = entry] ELSE Append(h, entry)
    BY DEF WriteCheckpoint
  <1> HIDE DEF entry, w
  <1>5. CASE h # <<>> /\ h[Len(h)].timestamp = now
    <2>1. w = [h EXCEPT ![Len(h)] = entry]
      BY <1>4, <1>5
    <2>2. Len(h) \in Nat /\ Len(h) \in 1..Len(h)
      BY <1>3, <1>5
    <2>3. w \in Seq(Entries) /\ Len(w) = Len(h)
      BY <1>2, <1>3, <2>1, <2>2
    <2>4. w[Len(h)] = entry /\ \A i \in 1..Len(h) : i # Len(h) => w[i] = h[i]
      BY <1>3, <2>1, <2>2
    <2>5. Past(w)
      BY <1>2, <2>3, <2>4 DEF Past
    <2>6. w # <<>>
      BY <2>2, <2>3
    <2>7. Latest(w) = entry.votes
      BY <2>3, <2>4, <2>6 DEF Latest
    <2>8. ASSUME NEW t \in Int, t < now PROVE PastVotes(w, t) = PastVotes(h, t)
      <3> DEFINE pw == {i \in 1..Len(w) : w[i].timestamp <= t}
                 ph == {i \in 1..Len(h) : h[i].timestamp <= t}
      <3>1. Len(h) \notin ph /\ Len(h) \notin pw
        BY <1>2, <1>5, <2>4, <2>8
      <3>2. pw = ph
        BY <2>3, <2>4, <3>1
      <3>3. ASSUME ph # {} PROVE w[Max(ph)] = h[Max(ph)]
        <4>1. ph \in SUBSET (1..Len(h))
          OBVIOUS
        <4>2. Max(ph) \in ph
          <5> HIDE DEF ph
          <5> QED BY <2>2, <3>3, <4>1, LastPosition
        <4> QED BY <2>4, <3>1, <4>2
      <3>4. PastVotes(w, t) = IF pw = {} THEN 0 ELSE w[Max(pw)].votes
        BY DEF PastVotes
      <3>5. PastVotes(h, t) = IF ph = {} THEN 0 ELSE h[Max(ph)].votes
        BY DEF PastVotes
      <3> HIDE DEF pw, ph
      <3> QED BY <3>2, <3>3, <3>4, <3>5
    <2> QED BY <1>2, <2>3, <2>5, <2>7, <2>8 DEF w, Histories, Entries
  <1>6. CASE ~(h # <<>> /\ h[Len(h)].timestamp = now)
    <2>1. w = Append(h, entry)
      BY <1>4, <1>6
    <2>2. Len(h) \in Nat
      BY <1>3
    <2>3. w \in Seq(Entries) /\ Len(w) = Len(h) + 1
      BY <1>2, <1>3, <2>1
    <2>4. w[Len(h) + 1] = entry /\ \A i \in 1..Len(h) : w[i] = h[i]
      BY <1>2, <1>3, <2>1
    <2>5. Past(w)
      <3> SUFFICES ASSUME NEW i \in 1..Len(w) PROVE w[i].timestamp <= now
        BY DEF Past
      <3>1. i \in 1..Len(h) \/ i = Len(h) + 1
        BY <2>2, <2>3
      <3> QED BY <1>2, <2>4, <3>1 DEF Past
    <2>6. w # <<>>
      BY <2>2, <2>3
    <2>7. Latest(w) = entry.votes
      BY <2>3, <2>4, <2>6 DEF Latest
    <2>8. ASSUME NEW t \in Int, t < now PROVE PastVotes(w, t) = PastVotes(h, t)
      <3> DEFINE pw == {i \in 1..Len(w) : w[i].timestamp <= t}
                 ph == {i \in 1..Len(h) : h[i].timestamp <= t}
      <3>1. Len(h) + 1 \notin pw
        BY <1>2, <2>4, <2>8
      <3>2. pw = ph
        BY <2>2, <2>3, <2>4, <3>1
      <3>3. ASSUME ph # {} PROVE w[Max(ph)] = h[Max(ph)]
        <4>1. ph \in SUBSET (1..Len(h))
          OBVIOUS
        <4>2. Max(ph) \in ph
          <5> HIDE DEF ph
          <5> QED BY <2>2, <3>3, <4>1, LastPosition
        <4> QED BY <2>4, <4>2
      <3>4. PastVotes(w, t) = IF pw = {} THEN 0 ELSE w[Max(pw)].votes
        BY DEF PastVotes
      <3>5. PastVotes(h, t) = IF ph = {} THEN 0 ELSE h[Max(ph)].votes
        BY DEF PastVotes
      <3> HIDE DEF pw, ph
      <3> QED BY <3>2, <3>3, <3>4, <3>5
    <2> QED BY <1>2, <2>3, <2>5, <2>7, <2>8 DEF w, Histories, Entries
  <1> QED BY <1>5, <1>6

WrittenTo(cp, d, c) == [cp EXCEPT ![d] = WriteCheckpoint(cp[d], c)]

(* One history written: the votes of its holder change, nobody else's do,  *)
(* and what was looked up before stays as it was.                          *)
LEMMA OneWritten ==
    ASSUME NEW cp \in [Delegatees -> Histories], now \in Nat, \A e \in Delegatees : Past(cp[e]),
           NEW d \in Delegatees, NEW c \in Int, d \in Users => Latest(cp[d]) + c >= 0,
           NEW cq, cq = WrittenTo(cp, d, c)
    PROVE  /\ cq \in [Delegatees -> Histories]
           /\ \A e \in Delegatees : Past(cq[e])
           /\ d \in Users => Latest(cq[d]) = Latest(cp[d]) + c
           /\ \A e \in Users \ {d} : Latest(cq[e]) = Latest(cp[e])
           /\ \A e \in Delegatees, t \in Int : t < now => PastVotes(cq[e], t) = PastVotes(cp[e], t)
           /\ UserVotes(cp) \in Int
           /\ d \in Users => UserVotes(cq) = UserVotes(cp) + c
           /\ d \notin Users => UserVotes(cq) = UserVotes(cp)
  <1> DEFINE w == WriteCheckpoint(cp[d], c)
  <1>1. cp[d] \in Histories /\ Past(cp[d])
    OBVIOUS
  <1>2. /\ w \in Histories
        /\ Past(w)
        /\ Latest(w) = IF Latest(cp[d]) + c > 0 THEN Latest(cp[d]) + c ELSE 0
        /\ \A t \in Int : t < now => PastVotes(w, t) = PastVotes(cp[d], t)
    BY <1>1, Written
  <1> HIDE DEF w
  <1>3. cq = [cp EXCEPT ![d] = w]
    BY DEF w, WrittenTo
  <1>4. cq[d] = w /\ \A e \in Delegatees : e # d => cq[e] = cp[e]
    BY <1>3
  <1>5. cq \in [Delegatees -> Histories]
    BY <1>2, <1>3
  <1>6. \A e \in Delegatees : Past(cq[e])
    BY <1>2, <1>4
  <1>7. \A e \in Delegatees : Latest(cp[e]) \in Nat
    <2>1. 0 \in Int
      OBVIOUS
    <2> QED BY <2>1, LookupNat
  <1>8. /\ d \in Users => Latest(cq[d]) = Latest(cp[d]) + c
        /\ \A e \in Users \ {d} : Latest(cq[e]) = Latest(cp[e])
    <2>1. CASE d \in Users
      <3>1. Latest(cp[d]) + c >= 0 /\ cq[d] = w /\ Latest(cp[d]) \in Nat
        BY <1>4, <1>7, <2>1
      <3>2. Latest(w) = Latest(cp[d]) + c
        BY <1>2, <3>1
      <3> QED BY <1>4, <3>1, <3>2 DEF Delegatees
    <2>2. CASE d \notin Users
      BY <1>4, <2>2 DEF Delegatees
    <2> QED BY <2>1, <2>2
  <1>9. \A e \in Delegatees, t \in Int : t < now => PastVotes(cq[e], t) = PastVotes(cp[e], t)
    BY <1>2, <1>4
  <1>10. VotesOf(cp) \in [Users -> Int] /\ VotesOf(cq) \in [Users -> Int]
    <2>1. \A e \in Delegatees : Latest(cq[e]) \in Nat
      <3>1. 0 \in Int
        OBVIOUS
      <3> QED BY <1>5, <3>1, LookupNat
    <2> QED BY <1>7, <2>1 DEF VotesOf, Delegatees
  <1>11. UserVotes(cp) \in Int
    BY <1>10, VoteEscrowConstants, SumType DEF UserVotes
  <1>12. CASE d \in Users
    <2>1. \A e \in Users \ {d} : VotesOf(cp)[e] = VotesOf(cq)[e]
      BY <1>8 DEF VotesOf
    <2>2. VotesOf(cq)[d] = VotesOf(cp)[d] + c
      BY <1>8, <1>12 DEF VotesOf
    <2>3. UserVotes(cq) = UserVotes(cp) - VotesOf(cp)[d] + VotesOf(cq)[d]
      <3> DEFINE f == VotesOf(cp)
                 g == VotesOf(cq)
      <3>1. f \in [Users -> Int] /\ g \in [Users -> Int]
        BY <1>10
      <3>2. \A e \in Users \ {d} : f[e] = g[e]
        BY <2>1
      <3>3. IsFiniteSet(Users)
        BY VoteEscrowConstants
      <3> HIDE DEF f, g
      <3>4. SumFunctionOnSet(g, Users) = SumFunctionOnSet(f, Users) - f[d] + g[d]
        BY <1>12, <3>1, <3>2, <3>3, SumUpdate
      <3> QED BY <3>4 DEF UserVotes, f, g
    <2>4. VotesOf(cp)[d] \in Int
      BY <1>10, <1>12
    <2>5. UserVotes(cq) = UserVotes(cp) + c
      BY <1>11, <2>2, <2>3, <2>4
    <2> QED BY <1>12, <2>5, <1>5, <1>6, <1>8, <1>9, <1>11
  <1>13. CASE d \notin Users
    <2>1. VotesOf(cq) = VotesOf(cp)
      BY <1>4, <1>13 DEF VotesOf, Delegatees
    <2>2. UserVotes(cq) = UserVotes(cp)
      BY <2>1 DEF UserVotes
    <2> QED BY <1>13, <2>2, <1>5, <1>6, <1>8, <1>9, <1>11
  <1> QED BY <1>12, <1>13

-----------------------------------------------------------------------------
(* Power. *)

Share(u, d) == IF delegates[u] = d THEN PowerOf(locks[u]) ELSE 0
Shares(d) == [u \in Users |-> Share(u, d)]

LEMMA PowerIsSum ==
    ASSUME NEW d
    PROVE  PowerDelegatedTo(d) = SumFunctionOnSet(Shares(d), Users)
  BY DEF PowerDelegatedTo, Shares, Share

(* The power delegated to somebody is a natural no single share exceeds. *)
LEMMA ShareOfPower ==
    ASSUME EscrowTypeOK, NEW u \in Users, NEW d \in Delegatees
    PROVE  /\ Shares(d) \in [Users -> Nat]
           /\ Share(u, d) \in Nat
           /\ PowerDelegatedTo(d) \in Nat
           /\ Share(u, d) <= PowerDelegatedTo(d)
  <1>1. \A v \in Users : Share(v, d) \in Nat
    <2> SUFFICES ASSUME NEW v \in Users PROVE Share(v, d) \in Nat
      OBVIOUS
    <2>1. locks[v] \in Locked /\ now \in Nat
      BY DEF EscrowTypeOK, Locked
    <2>2. PowerOf(locks[v]) \in Nat
      BY <2>1, PowerNat
    <2> QED BY <2>2 DEF Share
  <1>2. Shares(d) \in [Users -> Nat] /\ Shares(d)[u] = Share(u, d)
    BY <1>1 DEF Shares
  <1>3. /\ SumFunctionOnSet(Shares(d), Users) \in Nat
        /\ \A v \in Users : Shares(d)[v] <= SumFunctionOnSet(Shares(d), Users)
    BY <1>2, VoteEscrowConstants, SumOfNats
  <1> QED BY <1>1, <1>2, <1>3, PowerIsSum

(* When one user's lock or delegation changes, so does what it delegates.  *)
LEMMA OneMoves ==
    ASSUME EscrowTypeOK, EscrowTypeOK', now' = now, NEW u \in Users, NEW d \in Delegatees,
           \A v \in Users \ {u} : locks'[v] = locks[v] /\ delegates'[v] = delegates[v]
    PROVE  PowerDelegatedTo(d)' = PowerDelegatedTo(d) - Share(u, d) + Share(u, d)'
  <1>1. Shares(d) \in [Users -> Nat]
    BY ShareOfPower
  <1>2. \A v \in Users : Share(v, d)' \in Nat
    <2> SUFFICES ASSUME NEW v \in Users PROVE Share(v, d)' \in Nat
      OBVIOUS
    <2>1. locks'[v] \in Locked /\ now \in Nat
      BY DEF EscrowTypeOK, Locked
    <2>2. PowerOf(locks'[v]) \in Nat
      BY <2>1, PowerNat
    <2>3. PowerOf(locks[v])' = PowerOf(locks'[v])
      BY DEF PowerOf
    <2> QED BY <2>2, <2>3 DEF Share
  <1>3. Shares(d)' \in [Users -> Nat]
    BY <1>2 DEF Shares
  <1>4. \A v \in Users \ {u} : Shares(d)[v] = Shares(d)'[v]
    <2> SUFFICES ASSUME NEW v \in Users \ {u} PROVE Shares(d)[v] = Shares(d)'[v]
      OBVIOUS
    <2>1. Share(v, d)' = Share(v, d)
      BY DEF Share, PowerOf
    <2> QED BY <2>1 DEF Shares
  <1>5. Shares(d)[u] = Share(u, d) /\ Shares(d)'[u] = Share(u, d)'
    BY DEF Shares
  <1> DEFINE f == Shares(d)
             g == Shares(d)'
  <1>6. f \in [Users -> Int] /\ g \in [Users -> Int]
    BY <1>1, <1>3
  <1> HIDE DEF f, g
  <1>7. SumFunctionOnSet(g, Users) = SumFunctionOnSet(f, Users) - f[u] + g[u]
    <2>1. \A v \in Users \ {u} : f[v] = g[v]
      BY <1>4 DEF f, g
    <2> QED BY <1>6, <2>1, VoteEscrowConstants, SumUpdate
  <1>8. PowerDelegatedTo(d) = SumFunctionOnSet(f, Users)
    BY PowerIsSum DEF f
  <1>9. PowerDelegatedTo(d)' = SumFunctionOnSet(g, Users)
    BY DEF g, PowerDelegatedTo, Shares, Share
  <1> QED BY <1>5, <1>7, <1>8, <1>9 DEF f, g

-----------------------------------------------------------------------------
(* Steps of one user at one time. *)

OnlyOf(u) ==
    /\ now' = now
    /\ \A v \in Users \ {u} : locks'[v] = locks[v] /\ delegates'[v] = delegates[v]

(* A step of u keeps the invariant about votes if the votes follow what u  *)
(* delegates, and what was looked up before stays as it was.               *)
LEMMA VotesFollow ==
    ASSUME EscrowTypeOK, VotesCoverPower, TotalCovers, VotesWithinTotal,
           EscrowTypeOK', HistoriesPast', NEW u \in Users, OnlyOf(u),
           \A d \in Users : Latest(checkpoints'[d]) - Latest(checkpoints[d]) >= Share(u, d)' - Share(u, d),
           UserVotes(checkpoints') - UserVotes(checkpoints) + Share(u, Nobody)' - Share(u, Nobody)
                <= Latest(totalSupplyCheckpoints') - Latest(totalSupplyCheckpoints),
           UserVotes(checkpoints) \in Int, UserVotes(checkpoints') \in Int,
           \A d \in Delegatees, t \in Int :
                t < now => PastVotes(checkpoints'[d], t) = PastVotes(checkpoints[d], t),
           \A t \in Int :
                t < now => PastVotes(totalSupplyCheckpoints', t) = PastVotes(totalSupplyCheckpoints, t)
    PROVE  VotesCoverPower' /\ TotalCovers' /\ VotesWithinTotal'
  <1>1. ASSUME NEW d \in Delegatees
        PROVE  /\ PowerDelegatedTo(d)' = PowerDelegatedTo(d) - Share(u, d) + Share(u, d)'
               /\ PowerDelegatedTo(d) \in Nat /\ Share(u, d) \in Nat
               /\ PowerDelegatedTo(d)' \in Nat /\ Share(u, d)' \in Nat
    <2>1. PowerDelegatedTo(d)' = PowerDelegatedTo(d) - Share(u, d) + Share(u, d)'
      BY OneMoves DEF OnlyOf
    <2>2. PowerDelegatedTo(d) \in Nat /\ Share(u, d) \in Nat
      BY ShareOfPower
    <2>3. Share(u, d)' \in Nat
      <3>1. locks'[u] \in Locked /\ now \in Nat
        BY DEF EscrowTypeOK, Locked
      <3>2. PowerOf(locks'[u]) \in Nat
        BY <3>1, PowerNat
      <3> QED BY <3>2 DEF Share, PowerOf, OnlyOf
    <2>4. Share(u, d) <= PowerDelegatedTo(d)
      BY ShareOfPower
    <2> QED BY <2>1, <2>2, <2>3, <2>4
  <1>2. \A d \in Delegatees : Latest(checkpoints[d]) \in Nat /\ Latest(checkpoints'[d]) \in Nat
    <2> SUFFICES ASSUME NEW d \in Delegatees
                 PROVE  Latest(checkpoints[d]) \in Nat /\ Latest(checkpoints'[d]) \in Nat
      OBVIOUS
    <2>1. checkpoints[d] \in Histories /\ checkpoints'[d] \in Histories /\ 0 \in Int
      BY DEF EscrowTypeOK
    <2> QED BY <2>1, LookupNat
  <1>3. Latest(totalSupplyCheckpoints) \in Nat /\ Latest(totalSupplyCheckpoints') \in Nat
    <2>1. totalSupplyCheckpoints \in Histories /\ totalSupplyCheckpoints' \in Histories /\ 0 \in Int
      BY DEF EscrowTypeOK
    <2> QED BY <2>1, LookupNat
  <1>4. VotesCoverPower'
    <2> SUFFICES ASSUME NEW d \in Users
                 PROVE  Latest(checkpoints'[d]) >= PowerDelegatedTo(d)'
      BY DEF VotesCoverPower, Latest
    <2>1. d \in Delegatees /\ Latest(checkpoints[d]) >= PowerDelegatedTo(d)
      BY DEF Delegatees, VotesCoverPower
    <2> QED BY <1>1, <1>2, <2>1
  <1>5. UserVotes(checkpoints') + PowerDelegatedTo(Nobody)' <= Latest(totalSupplyCheckpoints')
    <2>1. Nobody \in Delegatees
      BY DEF Delegatees
    <2>2. UserVotes(checkpoints) + PowerDelegatedTo(Nobody) <= Latest(totalSupplyCheckpoints)
      BY DEF TotalCovers
    <2> QED BY <1>1, <1>3, <2>1, <2>2
  <1>6. TotalCovers'
    BY <1>5 DEF TotalCovers, UserVotes, VotesOf, Latest
  <1>7. VotesWithinTotal'
    <2> SUFFICES ASSUME NEW t \in 0..now
                 PROVE  SumFunctionOnSet([d \in Users |-> PastVotes(checkpoints'[d], t)], Users)
                            <= PastVotes(totalSupplyCheckpoints', t)
      BY DEF VotesWithinTotal, OnlyOf, PastVotes
    <2>0. now \in Nat
      BY DEF EscrowTypeOK
    <2>1. CASE t < now
      <3>1. [d \in Users |-> PastVotes(checkpoints'[d], t)] = [d \in Users |-> PastVotes(checkpoints[d], t)]
        BY <2>0, <2>1 DEF Delegatees
      <3>2. PastVotes(totalSupplyCheckpoints', t) = PastVotes(totalSupplyCheckpoints, t)
        BY <2>0, <2>1
      <3>3. SumFunctionOnSet([d \in Users |-> PastVotes(checkpoints[d], t)], Users)
                <= PastVotes(totalSupplyCheckpoints, t)
        BY DEF VotesWithinTotal
      <3> QED BY <3>1, <3>2, <3>3
    <2>2. CASE t = now
      <3>1. \A d \in Delegatees : PastVotes(checkpoints'[d], now) = Latest(checkpoints'[d])
        <4> SUFFICES ASSUME NEW d \in Delegatees
                     PROVE  PastVotes(checkpoints'[d], now) = Latest(checkpoints'[d])
          OBVIOUS
        <4>1. checkpoints'[d] \in Histories
          BY DEF EscrowTypeOK
        <4>2. \A i \in 1..Len(checkpoints'[d]) : checkpoints'[d][i].timestamp <= now
          BY DEF HistoriesPast, Past, OnlyOf
        <4> QED BY <2>0, <4>1, <4>2, LookupNow
      <3>2. PastVotes(totalSupplyCheckpoints', now) = Latest(totalSupplyCheckpoints')
        <4>1. totalSupplyCheckpoints' \in Histories
          BY DEF EscrowTypeOK
        <4>2. \A i \in 1..Len(totalSupplyCheckpoints') : totalSupplyCheckpoints'[i].timestamp <= now
          BY DEF HistoriesPast, Past, OnlyOf
        <4> QED BY <2>0, <4>1, <4>2, LookupNow
      <3>3. [d \in Users |-> PastVotes(checkpoints'[d], now)] = VotesOf(checkpoints')
        BY <3>1 DEF VotesOf, Delegatees
      <3>4. PowerDelegatedTo(Nobody)' \in Nat
        BY <1>1 DEF Delegatees
      <3>5. UserVotes(checkpoints') <= Latest(totalSupplyCheckpoints')
        BY <1>3, <1>5, <3>4
      <3> QED BY <2>2, <3>2, <3>3, <3>5 DEF UserVotes
    <2> QED BY <2>0, <2>1, <2>2
  <1> QED BY <1>4, <1>6, <1>7

(* A step of u that changes nobody's votes and no power delegated.         *)
LEMMA Unvoted ==
    ASSUME IInv, EscrowTypeOK', HistoriesPast', NEW u \in Users, OnlyOf(u),
           UNCHANGED <<checkpoints, totalSupplyCheckpoints>>,
           \A e \in Delegatees : Share(u, e)' = Share(u, e) /\ Share(u, e) \in Nat
    PROVE  VotesCoverPower' /\ TotalCovers' /\ VotesWithinTotal'
  <1>1. EscrowTypeOK /\ VotesCoverPower /\ TotalCovers /\ VotesWithinTotal
    BY DEF IInv
  <1>2. \A d \in Delegatees : Latest(checkpoints[d]) \in Nat
    <2> SUFFICES ASSUME NEW d \in Delegatees PROVE Latest(checkpoints[d]) \in Nat
      OBVIOUS
    <2>1. checkpoints[d] \in Histories /\ 0 \in Int
      BY <1>1 DEF EscrowTypeOK
    <2> QED BY <2>1, LookupNat
  <1>3. Latest(totalSupplyCheckpoints) \in Nat
    <2>1. totalSupplyCheckpoints \in Histories /\ 0 \in Int
      BY <1>1 DEF EscrowTypeOK
    <2> QED BY <2>1, LookupNat
  <1>4. UserVotes(checkpoints) \in Int
    <2> DEFINE f == VotesOf(checkpoints)
    <2>1. f \in [Users -> Int] /\ IsFiniteSet(Users)
      BY <1>2, VoteEscrowConstants DEF VotesOf, Delegatees
    <2> HIDE DEF f
    <2>2. SumFunctionOnSet(f, Users) \in Int
      BY <2>1, SumType
    <2> QED BY <2>2 DEF UserVotes, f
  <1>5. \A d \in Users : Latest(checkpoints'[d]) - Latest(checkpoints[d]) >= Share(u, d)' - Share(u, d)
    BY <1>2 DEF Delegatees
  <1>6. UserVotes(checkpoints') - UserVotes(checkpoints) + Share(u, Nobody)' - Share(u, Nobody)
            <= Latest(totalSupplyCheckpoints') - Latest(totalSupplyCheckpoints)
    BY <1>3, <1>4 DEF Delegatees
  <1>7. UserVotes(checkpoints') \in Int
    BY <1>4
  <1>8. \A d \in Delegatees, t \in Int :
            t < now => PastVotes(checkpoints'[d], t) = PastVotes(checkpoints[d], t)
    OBVIOUS
  <1>9. \A t \in Int : t < now => PastVotes(totalSupplyCheckpoints', t) = PastVotes(totalSupplyCheckpoints, t)
    OBVIOUS
  <1> QED BY <1>1, <1>4, <1>5, <1>6, <1>7, <1>8, <1>9, VotesFollow

(* The power of u's lock is counted for its delegate and in the total.     *)
LEMMA RecountSound ==
    ASSUME IInv, EscrowTypeOK', NEW u \in Users, OnlyOf(u), NEW c \in Int,
           NEW d \in Delegatees, Recount(d, c),
           Share(u, d)' = Share(u, d) + c,
           \A e \in Delegatees \ {d} : Share(u, e)' = Share(u, e)
    PROVE  HistoriesPast' /\ VotesCoverPower' /\ TotalCovers' /\ VotesWithinTotal'
  <1> DEFINE total == totalSupplyCheckpoints
  <1>1. checkpoints \in [Delegatees -> Histories] /\ total \in Histories /\ now \in Nat
    BY DEF IInv, EscrowTypeOK
  <1>2. (\A e \in Delegatees : Past(checkpoints[e])) /\ Past(total)
    BY DEF IInv, HistoriesPast
  <1>3. Share(u, d) \in Nat /\ PowerDelegatedTo(d) \in Nat /\ Share(u, d) <= PowerDelegatedTo(d)
    BY ShareOfPower DEF IInv
  <1>4. Share(u, d)' >= 0
    <2>1. locks'[u] \in Locked
      BY DEF EscrowTypeOK, Locked
    <2>2. PowerOf(locks'[u]) \in Nat
      BY <1>1, <2>1, PowerNat
    <2> QED BY <2>2 DEF Share, PowerOf, OnlyOf
  <1>5. d \in Users => Latest(checkpoints[d]) + c >= 0
    <2>1. d \in Users => Latest(checkpoints[d]) >= PowerDelegatedTo(d)
      BY DEF IInv, VotesCoverPower
    <2>2. checkpoints[d] \in Histories /\ 0 \in Int
      BY <1>1
    <2>3. Latest(checkpoints[d]) \in Nat
      BY <2>2, LookupNat
    <2> QED BY <1>3, <1>4, <2>1, <2>3
  <1>6. checkpoints' = [checkpoints EXCEPT ![d] = WriteCheckpoint(checkpoints[d], c)]
    BY <1>1 DEF Recount
  <1>7. /\ \A e \in Delegatees : Past(checkpoints'[e])
        /\ d \in Users => Latest(checkpoints'[d]) = Latest(checkpoints[d]) + c
        /\ \A e \in Users \ {d} : Latest(checkpoints'[e]) = Latest(checkpoints[e])
        /\ \A e \in Delegatees, t \in Int : t < now => PastVotes(checkpoints'[e], t) = PastVotes(checkpoints[e], t)
        /\ UserVotes(checkpoints) \in Int
        /\ d \in Users => UserVotes(checkpoints') = UserVotes(checkpoints) + c
        /\ d \notin Users => UserVotes(checkpoints') = UserVotes(checkpoints)
    <2> DEFINE cp == checkpoints
               cq == checkpoints'
    <2>1. cp \in [Delegatees -> Histories] /\ now \in Nat
      BY <1>1
    <2>2. \A e \in Delegatees : Past(cp[e])
      BY <1>2
    <2>3. d \in Users => Latest(cp[d]) + c >= 0
      BY <1>5
    <2>4. cq = WrittenTo(cp, d, c)
      BY <1>6 DEF WrittenTo
    <2> HIDE DEF cp, cq
    <2>5. \A e \in Delegatees : Past(cq[e])
      BY <2>1, <2>2, <2>3, <2>4, OneWritten
    <2>6. d \in Users => Latest(cq[d]) = Latest(cp[d]) + c
      BY <2>1, <2>2, <2>3, <2>4, OneWritten
    <2>7. \A e \in Users \ {d} : Latest(cq[e]) = Latest(cp[e])
      BY <2>1, <2>2, <2>3, <2>4, OneWritten
    <2>8. \A e \in Delegatees, t \in Int : t < now => PastVotes(cq[e], t) = PastVotes(cp[e], t)
      BY <2>1, <2>2, <2>3, <2>4, OneWritten
    <2>9. UserVotes(cp) \in Int
      BY <2>1, <2>2, <2>3, <2>4, OneWritten
    <2>10. d \in Users => UserVotes(cq) = UserVotes(cp) + c
      BY <2>1, <2>2, <2>3, <2>4, OneWritten
    <2>11. d \notin Users => UserVotes(cq) = UserVotes(cp)
      BY <2>1, <2>2, <2>3, <2>4, OneWritten
    <2> QED BY <2>5, <2>6, <2>7, <2>8, <2>9, <2>10, <2>11 DEF cp, cq
  <1>8. total' = WriteCheckpoint(total, c)
    BY DEF Recount
  <1>9. /\ Past(total')
        /\ Latest(total') = IF Latest(total) + c > 0 THEN Latest(total) + c ELSE 0
        /\ \A t \in Int : t < now => PastVotes(total', t) = PastVotes(total, t)
    BY <1>1, <1>2, <1>8, Written
  <1>10. HistoriesPast'
    BY <1>7, <1>9 DEF HistoriesPast, Past, OnlyOf
  <1>11. Latest(total) \in Nat
    <2>1. 0 \in Int
      OBVIOUS
    <2> QED BY <1>1, <2>1, LookupNat
  <1>12. \A e \in Users : Latest(checkpoints'[e]) - Latest(checkpoints[e]) >= Share(u, e)' - Share(u, e)
    <2> SUFFICES ASSUME NEW e \in Users
                 PROVE  Latest(checkpoints'[e]) - Latest(checkpoints[e]) >= Share(u, e)' - Share(u, e)
      OBVIOUS
    <2>1. e \in Delegatees /\ checkpoints[e] \in Histories /\ 0 \in Int
      BY <1>1 DEF Delegatees
    <2>2. Latest(checkpoints[e]) \in Nat /\ Share(u, e) \in Nat
      BY <2>1, LookupNat, ShareOfPower DEF IInv
    <2>3. CASE e = d
      BY <1>3, <1>7, <2>2, <2>3
    <2>4. CASE e # d
      BY <1>7, <2>1, <2>2, <2>4
    <2> QED BY <2>3, <2>4
  <1>13. UserVotes(checkpoints') - UserVotes(checkpoints) + Share(u, Nobody)' - Share(u, Nobody)
            <= Latest(total') - Latest(total)
    <2>0. Nobody \in Delegatees /\ Nobody \notin Users
      BY VoteEscrowConstants DEF Delegatees
    <2>1. Share(u, Nobody) \in Nat
      BY <2>0, ShareOfPower DEF IInv
    <2>2. CASE d \in Users
      <3>1. Share(u, Nobody)' = Share(u, Nobody)
        BY <2>0, <2>2
      <3> QED BY <1>7, <1>9, <1>11, <2>1, <2>2, <3>1
    <2>3. CASE d \notin Users
      <3>1. d = Nobody
        BY <2>3 DEF Delegatees
      <3>2. Share(u, Nobody)' = Share(u, Nobody) + c
        BY <3>1
      <3> QED BY <1>7, <1>9, <1>11, <2>1, <2>3, <3>2
    <2> QED BY <2>2, <2>3
  <1>14. UserVotes(checkpoints') \in Int
    BY <1>7
  <1>15. EscrowTypeOK /\ VotesCoverPower /\ TotalCovers /\ VotesWithinTotal
    BY DEF IInv
  <1> HIDE DEF total
  <1>16. VotesCoverPower' /\ TotalCovers' /\ VotesWithinTotal'
    BY <1>7, <1>9, <1>10, <1>12, <1>13, <1>14, <1>15, VotesFollow DEF total
  <1> QED BY <1>10, <1>16
-----------------------------------------------------------------------------
(* Locks. *)

AmountsOf(ls) == [u \in Users |-> ls[u].amount]

(* What is locked follows the lock that changes. *)
LEMMA OneRelocked ==
    ASSUME NEW ls \in [Users -> Locked], NEW u \in Users, NEW l \in Locked,
           NEW lq, lq = [ls EXCEPT ![u] = l]
    PROVE  /\ SumFunctionOnSet(AmountsOf(ls), Users) \in Nat
           /\ ls[u].amount <= SumFunctionOnSet(AmountsOf(ls), Users)
           /\ SumFunctionOnSet(AmountsOf(lq), Users)
                = SumFunctionOnSet(AmountsOf(ls), Users) - ls[u].amount + l.amount
  <1> DEFINE f == AmountsOf(ls)
             g == AmountsOf(lq)
  <1>1. lq \in [Users -> Locked] /\ lq[u] = l /\ \A v \in Users \ {u} : lq[v] = ls[v]
    OBVIOUS
  <1>2. f \in [Users -> Nat] /\ g \in [Users -> Nat] /\ f[u] = ls[u].amount /\ g[u] = l.amount
    BY <1>1 DEF AmountsOf, Locked
  <1>3. \A v \in Users \ {u} : f[v] = g[v]
    BY <1>1 DEF AmountsOf
  <1>4. IsFiniteSet(Users)
    BY VoteEscrowConstants
  <1>6. f \in [Users -> Int] /\ g \in [Users -> Int]
    BY <1>1 DEF AmountsOf, Locked
  <1> HIDE DEF f, g
  <1>5. SumFunctionOnSet(f, Users) \in Nat /\ \A v \in Users : f[v] <= SumFunctionOnSet(f, Users)
    <2>1. f \in [Users -> Nat]
      BY <1>2
    <2> QED BY <1>4, <2>1, SumOfNats
  <1>7. SumFunctionOnSet(g, Users) = SumFunctionOnSet(f, Users) - f[u] + g[u]
    BY <1>3, <1>4, <1>6, SumUpdate
  <1> QED BY <1>2, <1>5, <1>7 DEF f, g

(* A step that replaces one lock, and counts and pays the difference.      *)
LEMMA StillHeld ==
    ASSUME IInv, NEW u \in Users, NEW l \in Locked, NEW kept \in Nat,
           locks' = [locks EXCEPT ![u] = l],
           totalLocked' = totalLocked - locks[u].amount + l.amount,
           held' = held - locks[u].amount + l.amount + kept
    PROVE  LocksHeld' /\ totalLocked' \in Nat /\ held' \in Nat /\ locks' \in [Users -> Locked]
  <1>1. locks \in [Users -> Locked] /\ totalLocked \in Nat /\ held \in Nat
    BY DEF IInv, EscrowTypeOK, Locked
  <1>2. totalLocked = SumFunctionOnSet(AmountsOf(locks), Users) /\ held >= totalLocked
    BY DEF IInv, LocksHeld, AmountsOf
  <1>3. locks[u].amount \in Nat /\ l.amount \in Nat
    BY <1>1 DEF Locked
  <1> DEFINE lq == locks'
  <1>4. lq = [locks EXCEPT ![u] = l]
    OBVIOUS
  <1> HIDE DEF lq
  <1>5. /\ locks[u].amount <= SumFunctionOnSet(AmountsOf(locks), Users)
        /\ SumFunctionOnSet(AmountsOf(lq), Users)
             = SumFunctionOnSet(AmountsOf(locks), Users) - locks[u].amount + l.amount
    BY <1>1, <1>4, OneRelocked
  <1>6. totalLocked' = SumFunctionOnSet(AmountsOf(locks'), Users)
    BY <1>2, <1>5 DEF lq
  <1>7. held' >= totalLocked' /\ totalLocked' \in Nat /\ held' \in Nat
    BY <1>1, <1>2, <1>3, <1>5
  <1>8. LocksHeld'
    BY <1>6, <1>7 DEF LocksHeld, AmountsOf
  <1>9. locks' \in [Users -> Locked]
    BY <1>1
  <1> QED BY <1>7, <1>8, <1>9

(* Counting votes keeps histories well-formed. *)
LEMMA RecountTyped ==
    ASSUME EscrowTypeOK, HistoriesPast, NEW d \in Delegatees, NEW c \in Int, Recount(d, c)
    PROVE  checkpoints' \in [Delegatees -> Histories] /\ totalSupplyCheckpoints' \in Histories
  <1>1. /\ checkpoints \in [Delegatees -> Histories] /\ checkpoints[d] \in Histories
        /\ totalSupplyCheckpoints \in Histories /\ now \in Nat
    BY DEF EscrowTypeOK
  <1>2. Past(checkpoints[d]) /\ Past(totalSupplyCheckpoints)
    BY DEF HistoriesPast
  <1>3. WriteCheckpoint(checkpoints[d], c) \in Histories
    BY <1>1, <1>2, Written
  <1>4. WriteCheckpoint(totalSupplyCheckpoints, c) \in Histories
    BY <1>1, <1>2, Written
  <1>5. checkpoints' = [checkpoints EXCEPT ![d] = WriteCheckpoint(checkpoints[d], c)]
    BY <1>1 DEF Recount
  <1>6. totalSupplyCheckpoints' = WriteCheckpoint(totalSupplyCheckpoints, c)
    BY DEF Recount
  <1> QED BY <1>1, <1>3, <1>4, <1>5, <1>6

(* An empty lock has no power. *)
LEMMA NoAmountNoPower ==
    ASSUME now \in Nat, NEW l \in Locked, l.amount = 0
    PROVE  PowerOf(l) = 0
  <1>1. l.end \in Nat
    BY DEF Locked
  <1>2. CASE now >= l.end
    BY <1>2 DEF PowerOf
  <1>3. CASE now < l.end
    <2>1. 0 * (l.end - now) = 0
      BY <1>1
    <2>2. 0 \div MAX_LOCK = 0
      BY VoteEscrowConstants
    <2> QED BY <1>1, <1>3, <2>1, <2>2 DEF PowerOf
  <1> QED BY <1>1, <1>2, <1>3

-----------------------------------------------------------------------------
(* The steps. *)

LEMMA LockSafe ==
    ASSUME IInv, NEW u \in Users, NEW amount \in Amounts, NEW duration \in MIN_LOCK..MAX_LOCK,
           Lock(u, amount, duration), UNCHANGED now
    PROVE  IInv'
  <1> DEFINE l == [amount |-> amount, end |-> now + duration]
  <1>0. now \in Nat /\ locks \in [Users -> Locked] /\ delegates \in [Users -> Delegatees]
        /\ wallet \in [Users \cup Treasuries -> Nat] /\ ubiTreasury \in Treasuries
        /\ totalLocked \in Nat /\ held \in Nat
    BY DEF IInv, EscrowTypeOK, Locked
  <1>1. amount \in Nat /\ duration \in Nat /\ l \in Locked
    BY <1>0, VoteEscrowConstants DEF Locked
  <1>2. PICK c \in Nat : c = PowerOf(l)
    BY <1>0, <1>1, PowerNat
  <1>3. locks[u].amount = 0 /\ PowerOf(locks[u]) = 0
    <2>1. locks[u].amount = 0 /\ locks[u] \in Locked
      BY <1>0 DEF Lock
    <2> QED BY <1>0, <2>1, NoAmountNoPower
  <1>4. /\ delegates' = [delegates EXCEPT ![u] = IF @ = Nobody THEN u ELSE @]
        /\ locks' = [locks EXCEPT ![u] = l] /\ Recount(delegates'[u], PowerOf(l)) /\ ubiTreasury' = ubiTreasury
        /\ wallet[u] >= amount /\ wallet' = [wallet EXCEPT ![u] = @ - amount]
        /\ held' = held + amount /\ totalLocked' = totalLocked + amount
    BY DEF Lock, Deposit
  <1>5. delegates' \in [Users -> Delegatees]
    BY <1>0, <1>4 DEF Delegatees
  <1>d. PICK d \in Delegatees : d = delegates'[u]
    BY <1>5
  <1>6. EscrowTypeOK /\ HistoriesPast
    BY DEF IInv
  <1>r. Recount(d, c)
    BY <1>2, <1>4, <1>d
  <1>7. checkpoints' \in [Delegatees -> Histories] /\ totalSupplyCheckpoints' \in Histories
    <2>1. c \in Int
      OBVIOUS
    <2> QED BY <1>6, <1>r, <2>1, RecountTyped
  <1>8. LocksHeld' /\ totalLocked' \in Nat /\ held' \in Nat /\ locks' \in [Users -> Locked]
    <2>1. /\ l.amount = amount /\ 0 \in Nat
          /\ totalLocked' = totalLocked - locks[u].amount + l.amount
          /\ held' = held - locks[u].amount + l.amount + 0
      BY <1>0, <1>1, <1>3, <1>4
    <2> HIDE DEF l
    <2> QED BY <1>1, <1>4, <2>1, StillHeld
  <1>9. wallet' \in [Users \cup Treasuries -> Nat]
    BY <1>0, <1>1, <1>4
  <1>10. EscrowTypeOK'
    BY <1>0, <1>4, <1>5, <1>7, <1>8, <1>9 DEF EscrowTypeOK, Locked
  <1> HIDE DEF l
  <1>11. OnlyOf(u)
    BY <1>0, <1>4 DEF OnlyOf
  <1>12. PowerOf(locks[u])' = c
    BY <1>0, <1>2, <1>4 DEF PowerOf
  <1>13. Share(u, d)' = Share(u, d) + c
    BY <1>3, <1>12, <1>d DEF Share
  <1>14. \A e \in Delegatees \ {d} : Share(u, e)' = Share(u, e)
    BY <1>3, <1>d DEF Share
  <1>15. HistoriesPast' /\ VotesCoverPower' /\ TotalCovers' /\ VotesWithinTotal'
    <2>1. c \in Int
      OBVIOUS
    <2> QED BY <1>r, <1>10, <1>11, <1>13, <1>14, <2>1, RecountSound
  <1> QED BY <1>8, <1>10, <1>15 DEF IInv

(* A step of u that changes its lock, whose power is counted anew.         *)
LEMMA RelockSafe ==
    ASSUME IInv, NEW u \in Users, NEW l \in Locked, NEW kept \in Nat, NEW c \in Int,
           UNCHANGED <<now, delegates>>,
           locks' = [locks EXCEPT ![u] = l],
           c = PowerOf(l) - PowerOf(locks[u]),
           IF c # 0 THEN Recount(delegates[u], c)
                    ELSE UNCHANGED <<checkpoints, totalSupplyCheckpoints>> \/ Recount(delegates[u], c),
           totalLocked' = totalLocked - locks[u].amount + l.amount,
           held' = held - locks[u].amount + l.amount + kept,
           wallet' \in [Users \cup Treasuries -> Nat],
           ubiTreasury' \in Treasuries
    PROVE  IInv'
  <1>0. now \in Nat /\ locks \in [Users -> Locked] /\ delegates \in [Users -> Delegatees]
        /\ checkpoints \in [Delegatees -> Histories]
        /\ totalSupplyCheckpoints \in Histories
    BY DEF IInv, EscrowTypeOK, Locked
  <1>d. PICK d \in Delegatees : d = delegates[u]
    BY <1>0
  <1>1. EscrowTypeOK /\ HistoriesPast
    BY DEF IInv
  <1>2. LocksHeld' /\ totalLocked' \in Nat /\ held' \in Nat /\ locks' \in [Users -> Locked]
    BY StillHeld
  <1>3. PowerOf(l) \in Nat /\ PowerOf(locks[u]) \in Nat
    <2>1. locks[u] \in Locked
      BY <1>0
    <2> QED BY <1>0, <2>1, PowerNat
  <1>4. PowerOf(locks[u])' = PowerOf(l)
    BY <1>0 DEF PowerOf
  <1>5. Share(u, d)' = Share(u, d) + c
    BY <1>3, <1>4, <1>d DEF Share
  <1>6. \A e \in Delegatees \ {d} : Share(u, e)' = Share(u, e)
    BY <1>d DEF Share
  <1>7. OnlyOf(u)
    BY <1>0 DEF OnlyOf
  <1>8. CASE Recount(d, c)
    <2>1. checkpoints' \in [Delegatees -> Histories] /\ totalSupplyCheckpoints' \in Histories
      BY <1>0, <1>1, <1>8, RecountTyped
    <2>2. EscrowTypeOK'
      BY <1>0, <1>2, <2>1 DEF EscrowTypeOK, Locked
    <2>3. HistoriesPast' /\ VotesCoverPower' /\ TotalCovers' /\ VotesWithinTotal'
      BY <1>0, <1>5, <1>6, <1>7, <1>8, <2>2, RecountSound
    <2> QED BY <1>2, <2>2, <2>3 DEF IInv
  <1>9. CASE c = 0 /\ UNCHANGED <<checkpoints, totalSupplyCheckpoints>>
    <2>1. EscrowTypeOK'
      BY <1>0, <1>2, <1>9 DEF EscrowTypeOK, Locked
    <2>2. HistoriesPast'
      BY <1>1, <1>9 DEF HistoriesPast, Past
    <2>3. \A e \in Delegatees : Share(u, e)' = Share(u, e) /\ Share(u, e) \in Nat
      <3> SUFFICES ASSUME NEW e \in Delegatees PROVE Share(u, e)' = Share(u, e) /\ Share(u, e) \in Nat
        OBVIOUS
      <3>1. Share(u, e) \in Nat
        BY <1>1, ShareOfPower
      <3> QED BY <1>5, <1>6, <1>9, <3>1
    <2>4. VotesCoverPower' /\ TotalCovers' /\ VotesWithinTotal'
      BY <1>7, <1>9, <2>1, <2>2, <2>3, Unvoted
    <2> QED BY <1>2, <2>1, <2>2, <2>4 DEF IInv
  <1> QED BY <1>8, <1>9, <1>d

LEMMA IncreaseSafe ==
    ASSUME IInv, NEW u \in Users, NEW added \in Amounts, IncreaseLock(u, added), UNCHANGED now
    PROVE  IInv'
  <1> DEFINE l == [locks[u] EXCEPT !.amount = @ + added]
  <1>0. /\ now \in Nat /\ locks \in [Users -> Locked] /\ added \in Nat
        /\ wallet \in [Users \cup Treasuries -> Nat] /\ ubiTreasury \in Treasuries
        /\ totalLocked \in Nat /\ held \in Nat
    BY VoteEscrowConstants DEF IInv, EscrowTypeOK, Locked
  <1>1. l \in Locked /\ l.amount = locks[u].amount + added /\ locks[u].amount \in Nat
    BY <1>0 DEF Locked
  <1>2. /\ locks' = [locks EXCEPT ![u] = l] /\ UNCHANGED <<now, delegates, ubiTreasury>>
        /\ Recount(delegates[u], PowerOf(l) - PowerOf(locks[u]))
        /\ wallet[u] >= added /\ wallet' = [wallet EXCEPT ![u] = @ - added]
        /\ held' = held + added /\ totalLocked' = totalLocked + added
    BY DEF IncreaseLock, Deposit
  <1> HIDE DEF l
  <1>3. wallet' \in [Users \cup Treasuries -> Nat] /\ ubiTreasury' \in Treasuries
    BY <1>0, <1>2
  <1>4. PowerOf(l) \in Nat /\ PowerOf(locks[u]) \in Nat
    <2>1. locks[u] \in Locked
      BY <1>0
    <2> QED BY <1>0, <1>1, <2>1, PowerNat
  <1>5. PICK c \in Int : c = PowerOf(l) - PowerOf(locks[u])
    BY <1>4
  <1>6. Recount(delegates[u], c)
    BY <1>2, <1>5
  <1>7. /\ totalLocked' = totalLocked - locks[u].amount + l.amount
        /\ held' = held - locks[u].amount + l.amount + 0 /\ 0 \in Nat
    BY <1>0, <1>1, <1>2
  <1> QED BY <1>1, <1>2, <1>3, <1>5, <1>6, <1>7, RelockSafe

(* The power of a lock does not shrink when its end moves away. *)
LEMMA LongerIsMore ==
    ASSUME now \in Nat, NEW l \in Locked, NEW m \in Locked,
           m.amount = l.amount, m.end >= l.end
    PROVE  PowerOf(l) <= PowerOf(m)
  <1>1. l.amount \in Nat /\ l.end \in Nat /\ m.end \in Nat
    BY DEF Locked
  <1>2. CASE now >= l.end
    BY <1>2, PowerNat DEF PowerOf
  <1>3. CASE now < l.end
    <2>1. l.end - now \in Nat /\ m.end - now \in Nat /\ l.end - now <= m.end - now
      BY <1>1, <1>3
    <2>2. /\ l.amount * (l.end - now) \in Nat /\ l.amount * (m.end - now) \in Nat
          /\ l.amount * (l.end - now) <= l.amount * (m.end - now)
      BY <1>1, <2>1, TimesMonotone
    <2>3. (l.amount * (l.end - now)) \div MAX_LOCK <= (l.amount * (m.end - now)) \div MAX_LOCK
      BY <2>2, VoteEscrowConstants, DivMonotone
    <2>4. ~(now >= m.end) /\ ~(now >= l.end)
      BY <1>1, <1>3
    <2> QED BY <2>3, <2>4 DEF PowerOf
  <1> QED BY <1>1, <1>2, <1>3

LEMMA ExtendSafe ==
    ASSUME IInv, NEW u \in Users, NEW newEnd \in Nat, ExtendLock(u, newEnd), UNCHANGED now
    PROVE  IInv'
  <1> DEFINE l == [locks[u] EXCEPT !.end = newEnd]
  <1>0. /\ now \in Nat /\ locks \in [Users -> Locked] /\ locks[u] \in Locked
        /\ wallet \in [Users \cup Treasuries -> Nat] /\ ubiTreasury \in Treasuries
        /\ totalLocked \in Nat /\ held \in Nat
    BY DEF IInv, EscrowTypeOK, Locked
  <1>1. /\ newEnd > locks[u].end /\ locks' = [locks EXCEPT ![u] = l]
        /\ UNCHANGED <<now, delegates, totalLocked, wallet, held, ubiTreasury>>
        /\ IF PowerOf(l) - PowerOf(locks[u]) > 0
           THEN Recount(delegates[u], PowerOf(l) - PowerOf(locks[u]))
           ELSE UNCHANGED <<checkpoints, totalSupplyCheckpoints>>
    BY DEF ExtendLock
  <1>2. /\ l \in Locked /\ l.amount = locks[u].amount /\ l.end >= locks[u].end
        /\ locks[u].amount \in Nat
    BY <1>0, <1>1 DEF Locked
  <1> HIDE DEF l
  <1>3. PowerOf(l) \in Nat /\ PowerOf(locks[u]) \in Nat /\ PowerOf(locks[u]) <= PowerOf(l)
    BY <1>0, <1>2, PowerNat, LongerIsMore
  <1>4. PICK c \in Nat : c = PowerOf(l) - PowerOf(locks[u])
    BY <1>3
  <1>5. IF c # 0 THEN Recount(delegates[u], c)
                 ELSE UNCHANGED <<checkpoints, totalSupplyCheckpoints>> \/ Recount(delegates[u], c)
    <2>1. CASE c > 0
      BY <1>1, <1>4, <2>1
    <2>2. CASE c = 0
      BY <1>1, <1>4, <2>2
    <2> QED BY <2>1, <2>2
  <1>6. /\ totalLocked' = totalLocked - locks[u].amount + l.amount
        /\ held' = held - locks[u].amount + l.amount + 0 /\ 0 \in Nat /\ c \in Int
    BY <1>0, <1>1, <1>2
  <1>7. wallet' \in [Users \cup Treasuries -> Nat] /\ ubiTreasury' \in Treasuries
    BY <1>0, <1>1
  <1> QED BY <1>1, <1>2, <1>4, <1>5, <1>6, <1>7, RelockSafe

(* The penalty is part of the amount, and the treasury's of the penalty.    *)
LEMMA PenaltyParts ==
    ASSUME NEW a \in Nat
    PROVE  /\ Penalty(a) \in Nat /\ Penalty(a) <= a
           /\ ToUBI(a) \in Nat /\ ToUBI(a) <= Penalty(a)
  <1>1. /\ PENALTY_BPS \in Nat /\ PENALTY_BPS <= 10000
        /\ UBI_SHARE_BPS \in Nat /\ UBI_SHARE_BPS <= 10000
    BY VoteEscrowConstants
  <1>2. Penalty(a) = Part(a, PENALTY_BPS) /\ ToUBI(a) = Part(Penalty(a), UBI_SHARE_BPS)
    BY DEF Penalty, ToUBI, Part
  <1>3. Part(a, PENALTY_BPS) \in Nat /\ Part(a, PENALTY_BPS) <= a
    BY <1>1, PartBounded
  <1>4. Penalty(a) \in Nat
    BY <1>2, <1>3
  <1>5. Part(Penalty(a), UBI_SHARE_BPS) \in Nat /\ Part(Penalty(a), UBI_SHARE_BPS) <= Penalty(a)
    BY <1>1, <1>4, PartBounded
  <1> QED BY <1>2, <1>3, <1>5

LEMMA EarlyUnlockSafe ==
    ASSUME IInv, NEW u \in Users, EarlyUnlock(u), UNCHANGED now
    PROVE  IInv'
  <1> DEFINE amount == locks[u].amount
             pay == Received(amount)
             ubi == ToUBI(amount)
  <1>0. /\ now \in Nat /\ locks \in [Users -> Locked] /\ locks[u] \in Locked /\ amount \in Nat
        /\ wallet \in [Users \cup Treasuries -> Nat] /\ ubiTreasury \in Treasuries
        /\ totalLocked \in Nat /\ held \in Nat
    BY DEF IInv, EscrowTypeOK, Locked
  <1>1. /\ Penalty(locks[u].amount) \in Nat /\ Penalty(locks[u].amount) <= locks[u].amount
        /\ ToUBI(locks[u].amount) \in Nat /\ ToUBI(locks[u].amount) <= Penalty(locks[u].amount)
    BY <1>0, PenaltyParts
  <1>2. Penalty(amount) \in Nat /\ Penalty(amount) <= amount /\ ubi \in Nat /\ ubi <= Penalty(amount)
    BY <1>1
  <1>3. pay \in Nat /\ pay = amount - Penalty(amount)
    BY <1>0, <1>2 DEF Received
  <1>4. PICK kept \in Nat : kept = amount - pay - ubi
    BY <1>0, <1>1, <1>2, <1>3
  <1>5. /\ locks' = [locks EXCEPT ![u] = NoLock] /\ UNCHANGED <<now, delegates, ubiTreasury>>
        /\ totalLocked' = totalLocked - amount /\ held' = held - pay - ubi
        /\ wallet' = [wallet EXCEPT ![u] = @ + pay, ![ubiTreasury] = @ + ubi]
        /\ IF PowerOf(locks[u]) > 0 THEN Recount(delegates[u], -PowerOf(locks[u]))
           ELSE UNCHANGED <<checkpoints, totalSupplyCheckpoints>>
    BY DEF EarlyUnlock
  <1> HIDE DEF amount, pay, ubi
  <1>6. wallet' \in [Users \cup Treasuries -> Nat] /\ ubiTreasury' \in Treasuries
    BY <1>0, <1>2, <1>3, <1>5
  <1>7. NoLock \in Locked /\ NoLock.amount = 0 /\ PowerOf(NoLock) = 0
    <2>1. NoLock \in Locked /\ NoLock.amount = 0
      BY DEF NoLock, Locked
    <2> QED BY <1>0, <2>1, NoAmountNoPower
  <1>8. PowerOf(locks[u]) \in Nat
    BY <1>0, PowerNat
  <1>9. PICK c \in Int : c = -PowerOf(locks[u]) /\ c = PowerOf(NoLock) - PowerOf(locks[u])
    BY <1>7, <1>8
  <1>10. IF c # 0 THEN Recount(delegates[u], c)
                  ELSE UNCHANGED <<checkpoints, totalSupplyCheckpoints>> \/ Recount(delegates[u], c)
    <2>1. CASE PowerOf(locks[u]) > 0
      <3>1. Recount(delegates[u], -PowerOf(locks[u]))
        BY <1>5, <2>1
      <3>2. c = -PowerOf(locks[u])
        BY <1>9
      <3>3. Recount(delegates[u], c)
        BY <3>1, <3>2
      <3> QED BY <3>3
    <2>2. CASE PowerOf(locks[u]) = 0
      <3>1. ~(PowerOf(locks[u]) > 0)
        BY <2>2
      <3>2. c = 0 - 0
        BY <1>7, <1>9, <2>2
      <3>3. UNCHANGED <<checkpoints, totalSupplyCheckpoints>>
        BY <1>5, <3>1
      <3> QED BY <3>2, <3>3
    <2> QED BY <1>8, <2>1, <2>2
  <1>11. /\ totalLocked' = totalLocked - amount + NoLock.amount
         /\ held' = held - amount + NoLock.amount + kept
    BY <1>0, <1>2, <1>3, <1>4, <1>5, <1>7
  <1>12. /\ totalLocked' = totalLocked - locks[u].amount + NoLock.amount
         /\ held' = held - locks[u].amount + NoLock.amount + kept
    BY <1>11 DEF amount
  <1>13. NoLock \in Locked /\ c = PowerOf(NoLock) - PowerOf(locks[u])
    BY <1>7, <1>9
  <1> QED BY <1>5, <1>6, <1>10, <1>12, <1>13, RelockSafe

LEMMA WithdrawSafe ==
    ASSUME IInv, NEW u \in Users, Withdraw(u), UNCHANGED now
    PROVE  IInv'
  <1>0. /\ now \in Nat /\ locks \in [Users -> Locked] /\ locks[u] \in Locked
        /\ locks[u].amount \in Nat /\ locks[u].end \in Nat
        /\ wallet \in [Users \cup Treasuries -> Nat] /\ ubiTreasury \in Treasuries
        /\ totalLocked \in Nat /\ held \in Nat /\ delegates \in [Users -> Delegatees]
        /\ checkpoints \in [Delegatees -> Histories] /\ totalSupplyCheckpoints \in Histories
    BY DEF IInv, EscrowTypeOK, Locked
  <1>1. /\ now >= locks[u].end /\ locks' = [locks EXCEPT ![u] = NoLock]
        /\ UNCHANGED <<now, delegates, totalSupplyCheckpoints, ubiTreasury>>
        /\ checkpoints' = [checkpoints EXCEPT ![delegates[u]] = WriteCheckpoint(@, 0)]
        /\ totalLocked' = totalLocked - locks[u].amount /\ held' = held - locks[u].amount
        /\ wallet' = [wallet EXCEPT ![u] = @ + locks[u].amount]
    BY DEF Withdraw
  <1>2. PICK d \in Delegatees : d = delegates[u]
    BY <1>0
  <1>3. NoLock \in Locked /\ NoLock.amount = 0 /\ PowerOf(NoLock) = 0 /\ PowerOf(locks[u]) = 0
    <2>1. NoLock \in Locked /\ NoLock.amount = 0
      BY DEF NoLock, Locked
    <2>2. PowerOf(locks[u]) = 0
      BY <1>1 DEF PowerOf
    <2> QED BY <1>0, <2>1, <2>2, NoAmountNoPower
  <1>4. LocksHeld' /\ totalLocked' \in Nat /\ held' \in Nat /\ locks' \in [Users -> Locked]
    <2>1. /\ totalLocked' = totalLocked - locks[u].amount + NoLock.amount
          /\ held' = held - locks[u].amount + NoLock.amount + 0 /\ 0 \in Nat
      BY <1>0, <1>1, <1>3
    <2> QED BY <1>1, <1>3, <2>1, StillHeld
  <1>5. \A e \in Delegatees : Past(checkpoints[e])
    BY DEF IInv, HistoriesPast
  <1>6. \A e \in Delegatees : Latest(checkpoints[e]) \in Nat
    <2>1. 0 \in Int
      OBVIOUS
    <2> QED BY <1>0, <2>1, LookupNat
  <1> DEFINE cp == checkpoints
             cq == checkpoints'
  <1>7. /\ cp \in [Delegatees -> Histories] /\ cq = WrittenTo(cp, d, 0) /\ 0 \in Int
        /\ d \in Users => Latest(cp[d]) + 0 >= 0
    BY <1>0, <1>1, <1>2, <1>6 DEF WrittenTo
  <1>8. \A e \in Delegatees : Past(cp[e])
    BY <1>5
  <1> HIDE DEF cp, cq
  <1>9. /\ cq \in [Delegatees -> Histories]
        /\ \A e \in Delegatees : Past(cq[e])
        /\ d \in Users => Latest(cq[d]) = Latest(cp[d]) + 0
        /\ \A e \in Users \ {d} : Latest(cq[e]) = Latest(cp[e])
    BY <1>0, <1>7, <1>8, OneWritten
  <1>10. /\ \A e \in Delegatees, t \in Int : t < now => PastVotes(cq[e], t) = PastVotes(cp[e], t)
         /\ UserVotes(cp) \in Int
         /\ d \in Users => UserVotes(cq) = UserVotes(cp) + 0
         /\ d \notin Users => UserVotes(cq) = UserVotes(cp)
    BY <1>0, <1>7, <1>8, OneWritten
  <1> USE DEF cp, cq
  <1>11. wallet' \in [Users \cup Treasuries -> Nat]
    BY <1>0, <1>1
  <1>12. EscrowTypeOK'
    BY <1>0, <1>1, <1>4, <1>9, <1>11 DEF EscrowTypeOK, Locked
  <1>13. HistoriesPast'
    BY <1>1, <1>9 DEF HistoriesPast, Past, IInv
  <1>14. OnlyOf(u)
    BY <1>0, <1>1 DEF OnlyOf
  <1>15. \A e \in Delegatees : Share(u, e)' = 0 /\ Share(u, e) = 0
    <2>1. PowerOf(locks[u])' = PowerOf(NoLock)
      BY <1>0, <1>1 DEF PowerOf
    <2> QED BY <1>3, <2>1 DEF Share
  <1>16. \A e \in Users : Latest(checkpoints'[e]) - Latest(checkpoints[e]) >= Share(u, e)' - Share(u, e)
    <2> SUFFICES ASSUME NEW e \in Users
                 PROVE  Latest(checkpoints'[e]) - Latest(checkpoints[e]) >= Share(u, e)' - Share(u, e)
      OBVIOUS
    <2>1. Latest(checkpoints'[e]) = Latest(checkpoints[e]) /\ e \in Delegatees
      BY <1>6, <1>9 DEF Delegatees
    <2> QED BY <1>6, <1>15, <2>1
  <1>17. UserVotes(checkpoints') = UserVotes(checkpoints) /\ UserVotes(checkpoints) \in Int
    BY <1>10
  <1>18. UserVotes(checkpoints') - UserVotes(checkpoints) + Share(u, Nobody)' - Share(u, Nobody)
            <= Latest(totalSupplyCheckpoints') - Latest(totalSupplyCheckpoints)
    <2>1. Latest(totalSupplyCheckpoints) \in Nat
      <3>1. 0 \in Int
        OBVIOUS
      <3> QED BY <1>0, <3>1, LookupNat
    <2>2. Nobody \in Delegatees
      BY DEF Delegatees
    <2> QED BY <1>1, <1>15, <1>17, <2>1, <2>2
  <1>19. UserVotes(checkpoints') \in Int
    BY <1>17
  <1>20. \A e \in Delegatees, t \in Int :
            t < now => PastVotes(checkpoints'[e], t) = PastVotes(checkpoints[e], t)
    BY <1>10
  <1>21. \A t \in Int : t < now => PastVotes(totalSupplyCheckpoints', t) = PastVotes(totalSupplyCheckpoints, t)
    BY <1>1
  <1>22. EscrowTypeOK /\ VotesCoverPower /\ TotalCovers /\ VotesWithinTotal
    BY DEF IInv
  <1>23. VotesCoverPower' /\ TotalCovers' /\ VotesWithinTotal'
    BY <1>12, <1>13, <1>14, <1>16, <1>17, <1>18, <1>19, <1>20, <1>21, <1>22, VotesFollow
  <1> QED BY <1>4, <1>12, <1>13, <1>23 DEF IInv

(* Votes that move from one delegate to another, either of whom may be      *)
(* nobody, whose history only counts what comes in.                        *)
LEMMA VotesMoved ==
    ASSUME NEW cp \in [Delegatees -> Histories], now \in Nat, \A e \in Delegatees : Past(cp[e]),
           NEW old \in Delegatees, NEW new \in Delegatees, NEW p \in Nat,
           old \in Users => Latest(cp[old]) >= p,
           NEW mid, mid = IF old = Nobody THEN cp ELSE WrittenTo(cp, old, -p),
           NEW cq, cq = WrittenTo(mid, new, p)
    PROVE  /\ cq \in [Delegatees -> Histories]
           /\ \A e \in Delegatees : Past(cq[e])
           /\ \A e \in Delegatees, t \in Int : t < now => PastVotes(cq[e], t) = PastVotes(cp[e], t)
           /\ \A e \in Users : /\ (e = old /\ e # new) => Latest(cq[e]) = Latest(cp[e]) - p
                               /\ (e # old /\ e = new) => Latest(cq[e]) = Latest(cp[e]) + p
                               /\ ((e = old) <=> (e = new)) => Latest(cq[e]) = Latest(cp[e])
           /\ UserVotes(cp) \in Int /\ UserVotes(cq) \in Int
           /\ old \in Users => UserVotes(mid) = UserVotes(cp) - p
           /\ old \notin Users => UserVotes(mid) = UserVotes(cp)
           /\ new \in Users => UserVotes(cq) = UserVotes(mid) + p
           /\ new \notin Users => UserVotes(cq) = UserVotes(mid)
  <1>0. /\ Nobody \notin Users /\ -p \in Int /\ p \in Int
        /\ \A h \in Histories : Latest(h) \in Nat
    <2>1. 0 \in Int
      OBVIOUS
    <2> QED BY <2>1, LookupNat, VoteEscrowConstants
  <1>1. /\ mid \in [Delegatees -> Histories]
        /\ \A e \in Delegatees : Past(mid[e])
        /\ \A e \in Delegatees, t \in Int : t < now => PastVotes(mid[e], t) = PastVotes(cp[e], t)
        /\ old \in Users => Latest(mid[old]) = Latest(cp[old]) - p
        /\ \A e \in Users \ {old} : Latest(mid[e]) = Latest(cp[e])
        /\ UserVotes(cp) \in Int
        /\ old \in Users => UserVotes(mid) = UserVotes(cp) - p
        /\ old \notin Users => UserVotes(mid) = UserVotes(cp)
    <2>1. CASE old \in Users
      <3>1. mid = WrittenTo(cp, old, -p)
        BY <1>0, <2>1
      <3>2. Latest(cp[old]) \in Nat /\ Latest(cp[old]) >= p
        BY <1>0, <2>1
      <3>3. old \in Users => Latest(cp[old]) + (-p) >= 0
        BY <3>2
      <3>4. /\ mid \in [Delegatees -> Histories]
            /\ \A e \in Delegatees : Past(mid[e])
            /\ \A e \in Delegatees, t \in Int : t < now => PastVotes(mid[e], t) = PastVotes(cp[e], t)
            /\ old \in Users => Latest(mid[old]) = Latest(cp[old]) + (-p)
            /\ \A e \in Users \ {old} : Latest(mid[e]) = Latest(cp[e])
            /\ UserVotes(cp) \in Int
            /\ old \in Users => UserVotes(mid) = UserVotes(cp) + (-p)
        BY <1>0, <3>1, <3>3, OneWritten
      <3>5. Latest(mid[old]) = Latest(cp[old]) - p
        BY <2>1, <3>2, <3>4
      <3>6. UserVotes(mid) = UserVotes(cp) - p
        BY <2>1, <3>4
      <3> QED BY <2>1, <3>4, <3>5, <3>6
    <2>2. CASE old \notin Users
      <3>1. mid = cp
        BY <2>2 DEF Delegatees
      <3>2. UserVotes(cp) \in Int
        <4> DEFINE f == VotesOf(cp)
        <4>1. f \in [Users -> Int] /\ IsFiniteSet(Users)
          BY <1>0, VoteEscrowConstants DEF VotesOf, Delegatees
        <4> HIDE DEF f
        <4>2. SumFunctionOnSet(f, Users) \in Int
          BY <4>1, SumType
        <4> QED BY <4>2 DEF UserVotes, f
      <3> QED BY <2>2, <3>1, <3>2
    <2> QED BY <2>1, <2>2
  <1>2. new \in Users => Latest(mid[new]) + p >= 0
    <2>1. Latest(mid[new]) \in Nat
      BY <1>0, <1>1
    <2> QED BY <2>1
  <1>3. /\ cq \in [Delegatees -> Histories]
        /\ \A e \in Delegatees : Past(cq[e])
        /\ \A e \in Delegatees, t \in Int : t < now => PastVotes(cq[e], t) = PastVotes(mid[e], t)
        /\ new \in Users => Latest(cq[new]) = Latest(mid[new]) + p
        /\ \A e \in Users \ {new} : Latest(cq[e]) = Latest(mid[e])
        /\ UserVotes(mid) \in Int
        /\ new \in Users => UserVotes(cq) = UserVotes(mid) + p
        /\ new \notin Users => UserVotes(cq) = UserVotes(mid)
    BY <1>0, <1>1, <1>2, OneWritten
  <1>4. \A e \in Delegatees, t \in Int : t < now => PastVotes(cq[e], t) = PastVotes(cp[e], t)
    BY <1>1, <1>3
  <1>5. \A e \in Users : Latest(cp[e]) \in Nat
    BY <1>0 DEF Delegatees
  <1>6. ASSUME NEW e \in Users
        PROVE  /\ (e = old /\ e # new) => Latest(cq[e]) = Latest(cp[e]) - p
               /\ (e # old /\ e = new) => Latest(cq[e]) = Latest(cp[e]) + p
               /\ ((e = old) <=> (e = new)) => Latest(cq[e]) = Latest(cp[e])
    <2>1. CASE e = old /\ e # new
      BY <1>1, <1>3, <2>1
    <2>2. CASE e # old /\ e = new
      BY <1>1, <1>3, <2>2
    <2>3. CASE e = old /\ e = new
      <3>1. Latest(cq[e]) = Latest(mid[e]) + p /\ Latest(mid[e]) = Latest(cp[e]) - p
        BY <1>1, <1>3, <2>3
      <3> QED BY <1>5, <2>3, <3>1
    <2>4. CASE e # old /\ e # new
      BY <1>1, <1>3, <2>4
    <2> QED BY <2>1, <2>2, <2>3, <2>4
  <1>7. UserVotes(cq) \in Int
    BY <1>3
  <1> QED BY <1>1, <1>3, <1>4, <1>6, <1>7

LEMMA DelegateSafe ==
    ASSUME IInv, NEW u \in Users, NEW new \in Delegatees, Delegate(u, new), UNCHANGED now
    PROVE  IInv'
  <1>0. /\ now \in Nat /\ locks \in [Users -> Locked] /\ delegates \in [Users -> Delegatees]
        /\ checkpoints \in [Delegatees -> Histories] /\ totalSupplyCheckpoints \in Histories
    BY DEF IInv, EscrowTypeOK, Locked
  <1>1. /\ delegates' = [delegates EXCEPT ![u] = new]
        /\ UNCHANGED <<now, locks, totalLocked, wallet, held, totalSupplyCheckpoints, ubiTreasury>>
        /\ IF PowerOf(locks[u]) > 0 THEN MoveVotes(delegates[u], new, PowerOf(locks[u]))
                                    ELSE UNCHANGED checkpoints
    BY DEF Delegate, lockVars
  <1>2. PICK old \in Delegatees : old = delegates[u]
    BY <1>0
  <1>3. PICK p \in Nat : p = PowerOf(locks[u])
    <2>1. locks[u] \in Locked
      BY <1>0
    <2> QED BY <1>0, <2>1, PowerNat
  <1>4. delegates' \in [Users -> Delegatees] /\ delegates'[u] = new
    BY <1>0, <1>1
  <1>5. EscrowTypeOK /\ HistoriesPast /\ LocksHeld /\ VotesCoverPower /\ TotalCovers /\ VotesWithinTotal
    BY DEF IInv
  <1>6. LocksHeld'
    BY <1>1, <1>5 DEF LocksHeld
  <1>7. OnlyOf(u)
    BY <1>0, <1>1 DEF OnlyOf
  <1>8. PowerOf(locks[u])' = p
    BY <1>1, <1>3 DEF PowerOf
  <1>9. \A e \in Delegatees : /\ e = old => Share(u, e) = p
                              /\ e # old => Share(u, e) = 0
                              /\ e = new => Share(u, e)' = p
                              /\ e # new => Share(u, e)' = 0
    BY <1>2, <1>3, <1>4, <1>8 DEF Share
  <1>10. CASE p = 0
    <2>1. checkpoints' = checkpoints
      BY <1>1, <1>3, <1>10
    <2>2. EscrowTypeOK'
      BY <1>1, <1>4, <1>5, <2>1 DEF EscrowTypeOK
    <2>3. HistoriesPast'
      BY <1>1, <1>5, <2>1 DEF HistoriesPast, Past
    <2>4. \A e \in Delegatees : Share(u, e)' = Share(u, e) /\ Share(u, e) \in Nat
      BY <1>9, <1>10
    <2>5. UNCHANGED <<checkpoints, totalSupplyCheckpoints>>
      BY <1>1, <2>1
    <2>6. VotesCoverPower' /\ TotalCovers' /\ VotesWithinTotal'
      BY <1>7, <2>2, <2>3, <2>4, <2>5, Unvoted
    <2> QED BY <1>6, <2>2, <2>3, <2>6 DEF IInv
  <1>11. CASE p > 0
    <2> DEFINE cp == checkpoints
               cq == checkpoints'
               mid == IF old = Nobody THEN cp ELSE WrittenTo(cp, old, -p)
    <2>1. MoveVotes(old, new, p)
      BY <1>1, <1>2, <1>3, <1>11
    <2>2. cq = WrittenTo(mid, new, p)
      BY <2>1 DEF MoveVotes, WrittenTo
    <2>3. cp \in [Delegatees -> Histories] /\ \A e \in Delegatees : Past(cp[e])
      BY <1>0, <1>5 DEF HistoriesPast
    <2>4. old \in Users => Latest(cp[old]) >= p
      <3>1. SUFFICES ASSUME old \in Users PROVE Latest(checkpoints[old]) >= p
        OBVIOUS
      <3>2. Latest(checkpoints[old]) >= PowerDelegatedTo(old)
        BY <1>5, <3>1 DEF VotesCoverPower
      <3>3. Share(u, old) <= PowerDelegatedTo(old) /\ PowerDelegatedTo(old) \in Nat
        BY <1>5, ShareOfPower
      <3>4. Latest(checkpoints[old]) \in Nat
        <4>1. 0 \in Int /\ checkpoints[old] \in Histories
          BY <1>0
        <4> QED BY <4>1, LookupNat
      <3> QED BY <1>9, <3>2, <3>3, <3>4
    <2>5. mid = IF old = Nobody THEN cp ELSE WrittenTo(cp, old, -p)
      OBVIOUS
    <2> HIDE DEF cp, cq, mid
    <2>6. /\ cq \in [Delegatees -> Histories]
          /\ \A e \in Delegatees : Past(cq[e])
          /\ \A e \in Delegatees, t \in Int : t < now => PastVotes(cq[e], t) = PastVotes(cp[e], t)
      BY <1>0, <2>2, <2>3, <2>4, <2>5, VotesMoved
    <2>7. \A e \in Users : /\ (e = old /\ e # new) => Latest(cq[e]) = Latest(cp[e]) - p
                           /\ (e # old /\ e = new) => Latest(cq[e]) = Latest(cp[e]) + p
                           /\ ((e = old) <=> (e = new)) => Latest(cq[e]) = Latest(cp[e])
      BY <1>0, <2>2, <2>3, <2>4, <2>5, VotesMoved
    <2>8. /\ UserVotes(cp) \in Int /\ UserVotes(cq) \in Int
          /\ old \in Users => UserVotes(mid) = UserVotes(cp) - p
          /\ old \notin Users => UserVotes(mid) = UserVotes(cp)
          /\ new \in Users => UserVotes(cq) = UserVotes(mid) + p
          /\ new \notin Users => UserVotes(cq) = UserVotes(mid)
      BY <1>0, <2>2, <2>3, <2>4, <2>5, VotesMoved
    <2>9. \A e \in Users : Latest(cp[e]) \in Nat
      <3>1. 0 \in Int
        OBVIOUS
      <3> QED BY <2>3, <3>1, LookupNat DEF Delegatees
    <2>10. \A e \in Users : Latest(cq[e]) - Latest(cp[e]) >= Share(u, e)' - Share(u, e)
      <3> SUFFICES ASSUME NEW e \in Users
                   PROVE  Latest(cq[e]) - Latest(cp[e]) >= Share(u, e)' - Share(u, e)
        OBVIOUS
      <3>0. e \in Delegatees /\ Latest(cp[e]) \in Nat
        BY <2>9 DEF Delegatees
      <3>1. CASE e = old /\ e # new
        BY <1>9, <2>7, <3>0, <3>1
      <3>2. CASE e # old /\ e = new
        BY <1>9, <2>7, <3>0, <3>2
      <3>3. CASE e = old /\ e = new
        BY <1>9, <2>7, <3>0, <3>3
      <3>4. CASE e # old /\ e # new
        BY <1>9, <2>7, <3>0, <3>4
      <3> QED BY <3>1, <3>2, <3>3, <3>4
    <2>11. UserVotes(cq) - UserVotes(cp) + Share(u, Nobody)' - Share(u, Nobody)
                <= Latest(totalSupplyCheckpoints') - Latest(totalSupplyCheckpoints)
      <3>0. Nobody \in Delegatees /\ Nobody \notin Users
        BY VoteEscrowConstants DEF Delegatees
      <3>1. Latest(totalSupplyCheckpoints) \in Nat
        <4>1. 0 \in Int
          OBVIOUS
        <4> QED BY <1>0, <4>1, LookupNat
      <3>2. \A e \in Delegatees : e \in Users <=> e # Nobody
        BY <3>0 DEF Delegatees
      <3>3. CASE old = Nobody /\ new = Nobody
        BY <1>1, <1>9, <2>8, <3>0, <3>1, <3>3
      <3>4. CASE old = Nobody /\ new # Nobody
        BY <1>1, <1>9, <2>8, <3>0, <3>1, <3>2, <3>4
      <3>5. CASE old # Nobody /\ new = Nobody
        BY <1>1, <1>9, <2>8, <3>0, <3>1, <3>2, <3>5
      <3>6. CASE old # Nobody /\ new # Nobody
        BY <1>1, <1>9, <2>8, <3>0, <3>1, <3>2, <3>6
      <3> QED BY <3>3, <3>4, <3>5, <3>6
    <2> USE DEF cp, cq
    <2>12. EscrowTypeOK'
      BY <1>1, <1>4, <1>5, <2>6 DEF EscrowTypeOK
    <2>13. HistoriesPast'
      BY <1>1, <1>5, <2>6 DEF HistoriesPast, Past
    <2>14. \A t \in Int : t < now => PastVotes(totalSupplyCheckpoints', t) = PastVotes(totalSupplyCheckpoints, t)
      BY <1>1
    <2>15. UserVotes(checkpoints) \in Int /\ UserVotes(checkpoints') \in Int
      BY <2>8
    <2>16. \A e \in Delegatees, t \in Int :
              t < now => PastVotes(checkpoints'[e], t) = PastVotes(checkpoints[e], t)
      BY <2>6
    <2>17. \A e \in Users : Latest(checkpoints'[e]) - Latest(checkpoints[e]) >= Share(u, e)' - Share(u, e)
      BY <2>10
    <2>18. UserVotes(checkpoints') - UserVotes(checkpoints) + Share(u, Nobody)' - Share(u, Nobody)
              <= Latest(totalSupplyCheckpoints') - Latest(totalSupplyCheckpoints)
      BY <2>11
    <2>19. VotesCoverPower' /\ TotalCovers' /\ VotesWithinTotal'
      BY <1>5, <1>7, <2>12, <2>13, <2>14, <2>15, <2>16, <2>17, <2>18, VotesFollow
    <2> QED BY <1>6, <2>12, <2>13, <2>19 DEF IInv
  <1> QED BY <1>10, <1>11

(* Time only takes power away. *)
LEMMA TickSafe ==
    ASSUME IInv, Tick, UNCHANGED escrowVars
    PROVE  IInv'
  <1>0. /\ now \in Nat /\ locks \in [Users -> Locked] /\ now' = now + 1
        /\ checkpoints \in [Delegatees -> Histories] /\ totalSupplyCheckpoints \in Histories
    BY DEF IInv, EscrowTypeOK, Locked, Tick
  <1>1. UNCHANGED <<locks, totalLocked, wallet, held, delegates, checkpoints,
                    totalSupplyCheckpoints, ubiTreasury>>
    BY DEF escrowVars, lockVars, voteVars
  <1>2. EscrowTypeOK'
    BY <1>0, <1>1 DEF IInv, EscrowTypeOK
  <1>3. HistoriesPast'
    <2>1. \A d \in Delegatees : \A i \in 1..Len(checkpoints[d]) :
             checkpoints[d][i].timestamp \in Nat /\ checkpoints[d][i].timestamp <= now
      <3> SUFFICES ASSUME NEW d \in Delegatees, NEW i \in 1..Len(checkpoints[d])
                   PROVE  checkpoints[d][i].timestamp \in Nat /\ checkpoints[d][i].timestamp <= now
        OBVIOUS
      <3>1. checkpoints[d] \in Seq(Entries)
        BY <1>0 DEF Histories, Entries
      <3>2. checkpoints[d][i] \in Entries
        BY <3>1
      <3> QED BY <3>2 DEF IInv, HistoriesPast, Past, Entries
    <2>2. \A i \in 1..Len(totalSupplyCheckpoints) :
             /\ totalSupplyCheckpoints[i].timestamp \in Nat
             /\ totalSupplyCheckpoints[i].timestamp <= now
      <3> SUFFICES ASSUME NEW i \in 1..Len(totalSupplyCheckpoints)
                   PROVE  /\ totalSupplyCheckpoints[i].timestamp \in Nat
                          /\ totalSupplyCheckpoints[i].timestamp <= now
        OBVIOUS
      <3>1. totalSupplyCheckpoints \in Seq(Entries)
        BY <1>0 DEF Histories, Entries
      <3>2. totalSupplyCheckpoints[i] \in Entries
        BY <3>1
      <3> QED BY <3>2 DEF IInv, HistoriesPast, Past, Entries
    <2>3. \A d \in Delegatees : \A i \in 1..Len(checkpoints[d]) : checkpoints[d][i].timestamp <= now + 1
      BY <1>0, <2>1
    <2>4. \A i \in 1..Len(totalSupplyCheckpoints) : totalSupplyCheckpoints[i].timestamp <= now + 1
      BY <1>0, <2>2
    <2> QED BY <1>0, <1>1, <2>3, <2>4 DEF HistoriesPast, Past
  <1>4. LocksHeld'
    BY <1>1 DEF IInv, LocksHeld
  <1>5. EscrowTypeOK /\ VotesCoverPower /\ TotalCovers /\ VotesWithinTotal
    BY DEF IInv
  <1>6. ASSUME NEW d \in Delegatees
        PROVE  /\ PowerDelegatedTo(d)' <= PowerDelegatedTo(d)
               /\ PowerDelegatedTo(d)' \in Int /\ PowerDelegatedTo(d) \in Int
    <2> DEFINE f == Shares(d)
               g == Shares(d)'
    <2>1. \A v \in Users : /\ Share(v, d) \in Nat /\ Share(v, d)' \in Nat
                           /\ Share(v, d)' <= Share(v, d)
      <3> SUFFICES ASSUME NEW v \in Users
                   PROVE  /\ Share(v, d) \in Nat /\ Share(v, d)' \in Nat
                          /\ Share(v, d)' <= Share(v, d)
        OBVIOUS
      <3>1. locks[v] \in Locked
        BY <1>0
      <3>2. PICK l \in Locked : l = locks[v]
        BY <3>1
      <3>3. PowerOf(l) \in Nat /\ PowerOf(l)' <= PowerOf(l)
        BY <1>0, PowerNat, PowerDecays
      <3>4. PowerOf(l)' \in Nat
        <4>1. now' \in Nat
          BY <1>0
        <4>2. l.amount \in Nat /\ l.end \in Nat
          BY DEF Locked
        <4>3. CASE now' >= l.end
          BY <4>3 DEF PowerOf
        <4>4. CASE now' < l.end
          <5>1. l.end - now' \in Nat
            BY <4>1, <4>2, <4>4
          <5>2. l.amount * (l.end - now') \in Nat
            BY <4>2, <5>1, TimesMonotone
          <5>3. (l.amount * (l.end - now')) \div MAX_LOCK \in Nat
            BY <5>2, VoteEscrowConstants, DivNat
          <5> QED BY <4>1, <4>2, <4>4, <5>3 DEF PowerOf
        <4> QED BY <4>1, <4>2, <4>3, <4>4
      <3>5. PowerOf(locks[v]) = PowerOf(l) /\ PowerOf(locks[v])' = PowerOf(l)'
        BY <1>1, <3>2
      <3>6. delegates'[v] = delegates[v]
        BY <1>1
      <3>7. CASE delegates[v] = d
        BY <3>3, <3>4, <3>5, <3>6, <3>7 DEF Share
      <3>8. CASE delegates[v] # d
        BY <3>6, <3>8 DEF Share
      <3> QED BY <3>7, <3>8
    <2>2. f \in [Users -> Int] /\ g \in [Users -> Int]
      BY <2>1 DEF Shares
    <2>3. \A v \in Users : g[v] <= f[v]
      BY <2>1 DEF Shares
    <2>4. IsFiniteSet(Users)
      BY VoteEscrowConstants
    <2>5. PowerDelegatedTo(d) = SumFunctionOnSet(f, Users)
      BY PowerIsSum
    <2>6. PowerDelegatedTo(d)' = SumFunctionOnSet(g, Users)
      BY DEF PowerDelegatedTo, Shares, Share
    <2> HIDE DEF f, g
    <2>7. SumFunctionOnSet(g, Users) <= SumFunctionOnSet(f, Users)
      BY <2>2, <2>3, <2>4, SumMonotone
    <2>8. SumFunctionOnSet(f, Users) \in Int /\ SumFunctionOnSet(g, Users) \in Int
      BY <2>2, <2>4, SumType
    <2> QED BY <2>5, <2>6, <2>7, <2>8
  <1>7. VotesCoverPower'
    <2> SUFFICES ASSUME NEW d \in Users
                 PROVE  Latest(checkpoints'[d]) >= PowerDelegatedTo(d)'
      BY DEF VotesCoverPower, Latest
    <2>1. /\ d \in Delegatees /\ checkpoints'[d] = checkpoints[d] /\ checkpoints[d] \in Histories
          /\ Latest(checkpoints[d]) >= PowerDelegatedTo(d) /\ 0 \in Int
      BY <1>0, <1>1, <1>5 DEF VotesCoverPower, Delegatees
    <2>2. Latest(checkpoints[d]) \in Nat
      BY <2>1, LookupNat
    <2> QED BY <1>6, <2>1, <2>2
  <1>8. UserVotes(checkpoints) \in Int /\ Latest(totalSupplyCheckpoints) \in Nat
        /\ \A d \in Users : Latest(checkpoints[d]) \in Nat
    <2>1. 0 \in Int
      OBVIOUS
    <2>2. \A d \in Users : Latest(checkpoints[d]) \in Nat
      BY <1>0, <2>1, LookupNat DEF Delegatees
    <2>3. Latest(totalSupplyCheckpoints) \in Nat
      BY <1>0, <2>1, LookupNat
    <2> DEFINE f == VotesOf(checkpoints)
    <2>4. f \in [Users -> Int] /\ IsFiniteSet(Users)
      BY <2>2, VoteEscrowConstants DEF VotesOf
    <2> HIDE DEF f
    <2>5. SumFunctionOnSet(f, Users) \in Int
      BY <2>4, SumType
    <2> QED BY <2>2, <2>3, <2>5 DEF UserVotes, f
  <1>9. Nobody \in Delegatees
    BY DEF Delegatees
  <1>10. TotalCovers'
    <2>1. UserVotes(checkpoints) + PowerDelegatedTo(Nobody) <= Latest(totalSupplyCheckpoints)
      BY <1>5 DEF TotalCovers
    <2>2. UserVotes(checkpoints) + PowerDelegatedTo(Nobody)' <= Latest(totalSupplyCheckpoints)
      BY <1>6, <1>8, <1>9, <2>1
    <2> QED BY <1>1, <2>2 DEF TotalCovers, UserVotes, VotesOf, Latest
  <1>11. UserVotes(checkpoints) <= Latest(totalSupplyCheckpoints)
    <2>1. UserVotes(checkpoints) + PowerDelegatedTo(Nobody) <= Latest(totalSupplyCheckpoints)
      BY <1>5 DEF TotalCovers
    <2>3. PowerDelegatedTo(Nobody) \in Nat
      <3> DEFINE f == Shares(Nobody)
      <3>1. f \in [Users -> Nat]
        <4>1. \A v \in Users : Share(v, Nobody) \in Nat
          <5> SUFFICES ASSUME NEW v \in Users PROVE Share(v, Nobody) \in Nat
            OBVIOUS
          <5> QED BY <1>5, <1>9, ShareOfPower
        <4> QED BY <4>1 DEF Shares
      <3>2. PowerDelegatedTo(Nobody) = SumFunctionOnSet(f, Users)
        BY PowerIsSum
      <3>3. IsFiniteSet(Users)
        BY VoteEscrowConstants
      <3> HIDE DEF f
      <3> QED BY <3>1, <3>2, <3>3, SumOfNats
    <2> QED BY <1>8, <2>1, <2>3
  <1>12. VotesWithinTotal'
    <2> SUFFICES ASSUME NEW t \in 0..now + 1
                 PROVE  SumFunctionOnSet([d \in Users |-> PastVotes(checkpoints[d], t)], Users)
                            <= PastVotes(totalSupplyCheckpoints, t)
      BY <1>0, <1>1 DEF VotesWithinTotal, PastVotes
    <2>1. CASE t \in 0..now
      BY <1>5, <2>1 DEF VotesWithinTotal
    <2>2. CASE t = now + 1
      <3>0. t \in Nat
        BY <1>0
      <3>1. ASSUME NEW h \in Histories, Past(h) PROVE PastVotes(h, t) = Latest(h)
        <4>1. h \in Seq(Entries)
          BY DEF Histories, Entries
        <4>2. \A i \in 1..Len(h) : h[i] \in Entries
          BY <4>1
        <4>3. \A i \in 1..Len(h) : h[i].timestamp <= t
          BY <1>0, <2>2, <3>1, <4>2 DEF Past, Entries
        <4> QED BY <3>0, <4>3, LookupNow
      <3>2. \A d \in Users : PastVotes(checkpoints[d], t) = Latest(checkpoints[d])
        BY <1>0, <3>1 DEF IInv, HistoriesPast, Delegatees
      <3>3. PastVotes(totalSupplyCheckpoints, t) = Latest(totalSupplyCheckpoints)
        BY <1>0, <3>1 DEF IInv, HistoriesPast
      <3>4. [d \in Users |-> PastVotes(checkpoints[d], t)] = VotesOf(checkpoints)
        BY <3>2 DEF VotesOf
      <3> QED BY <1>11, <3>3, <3>4 DEF UserVotes
    <2> QED BY <1>0, <2>1, <2>2
  <1> QED BY <1>2, <1>3, <1>4, <1>7, <1>10, <1>12 DEF IInv

(* Steps that leave locks and votes alone. *)
LEMMA NothingMoves ==
    ASSUME IInv, UNCHANGED <<now, lockVars, voteVars>>, ubiTreasury' \in Treasuries
    PROVE  IInv'
  <1>1. UNCHANGED <<now, locks, totalLocked, wallet, held, delegates, checkpoints, totalSupplyCheckpoints>>
    BY DEF lockVars, voteVars
  <1>2. EscrowTypeOK'
    BY <1>1 DEF IInv, EscrowTypeOK
  <1>3. HistoriesPast'
    BY <1>1 DEF IInv, HistoriesPast, Past
  <1>4. LocksHeld'
    BY <1>1 DEF IInv, LocksHeld
  <1>5. VotesCoverPower'
    BY <1>1 DEF IInv, VotesCoverPower, PowerDelegatedTo, PowerOf, Latest
  <1>6. TotalCovers'
    BY <1>1 DEF IInv, TotalCovers, UserVotes, VotesOf, PowerDelegatedTo, PowerOf, Latest
  <1>7. VotesWithinTotal'
    BY <1>1 DEF IInv, VotesWithinTotal, PastVotes
  <1> QED BY <1>2, <1>3, <1>4, <1>5, <1>6, <1>7 DEF IInv

LEMMA EscrowSafe ==
    ASSUME IInv, EscrowStep, UNCHANGED now
    PROVE  IInv'
  <1>1. ASSUME NEW u \in Users, NEW amount \in Amounts, NEW duration \in MIN_LOCK..MAX_LOCK,
               Lock(u, amount, duration)
        PROVE  IInv'
    BY <1>1, LockSafe
  <1>2. ASSUME NEW u \in Users, NEW amount \in Amounts, IncreaseLock(u, amount)
        PROVE  IInv'
    BY <1>2, IncreaseSafe
  <1>3. ASSUME NEW u \in Users, NEW newEnd \in 1..now + MAX_LOCK, ExtendLock(u, newEnd)
        PROVE  IInv'
    <2>1. newEnd \in Nat
      BY VoteEscrowConstants DEF IInv, EscrowTypeOK
    <2> QED BY <1>3, <2>1, ExtendSafe
  <1>4. ASSUME NEW u \in Users, Withdraw(u) PROVE IInv'
    BY <1>4, WithdrawSafe
  <1>5. ASSUME NEW u \in Users, EarlyUnlock(u) PROVE IInv'
    BY <1>5, EarlyUnlockSafe
  <1>6. ASSUME NEW u \in Users, NEW d \in Delegatees, Delegate(u, d) PROVE IInv'
    BY <1>6, DelegateSafe
  <1>7. ASSUME NEW treasury \in Treasuries, SetUbiTreasury(treasury) PROVE IInv'
    <2>1. UNCHANGED <<now, lockVars, voteVars>> /\ ubiTreasury' \in Treasuries
      BY <1>7 DEF SetUbiTreasury
    <2> QED BY <2>1, NothingMoves
  <1> QED BY <1>1, <1>2, <1>3, <1>4, <1>5, <1>6, <1>7 DEF EscrowStep

-----------------------------------------------------------------------------
(* The DAO. *)

LEMMA InitSafe ==
    Init => IInv /\ TypeOK
  <1> SUFFICES ASSUME Init PROVE IInv /\ TypeOK
    OBVIOUS
  <1>1. EscrowTypeOK
    <2>1. <<>> \in Histories
      BY DEF Histories
    <2>2. NoLock \in [amount : Nat, end : Nat] /\ Endowment \in Nat
      BY VoteEscrowConstants DEF NoLock
    <2> QED BY <2>1, <2>2 DEF Init, EscrowInit, EscrowTypeOK, Delegatees
  <1>2. Len(<<>>) = 0 /\ Latest(<<>>) = 0
    BY DEF Latest
  <1>3. HistoriesPast
    BY <1>2 DEF Init, EscrowInit, HistoriesPast, Past
  <1>4. IsFiniteSet(Users)
    BY VoteEscrowConstants
  <1>5. LocksHeld
    <2> DEFINE f == AmountsOf(locks)
    <2>1. f \in [Users -> Int] /\ \A u \in Users : f[u] = 0
      BY DEF Init, EscrowInit, NoLock, AmountsOf
    <2> HIDE DEF f
    <2>2. SumFunctionOnSet(f, Users) = 0
      BY <1>4, <2>1, SumOfZeros
    <2>3. totalLocked = 0 /\ held = 0
      BY DEF Init, EscrowInit
    <2> QED BY <2>2, <2>3 DEF f, LocksHeld, AmountsOf
  <1>6. \A d \in Delegatees : PowerDelegatedTo(d) = 0
    <2> SUFFICES ASSUME NEW d \in Delegatees PROVE PowerDelegatedTo(d) = 0
      OBVIOUS
    <2> DEFINE f == Shares(d)
    <2>1. \A u \in Users : Share(u, d) = 0
      <3>1. \A u \in Users : PowerOf(locks[u]) = 0
        BY DEF Init, EscrowInit, NoLock, PowerOf
      <3> QED BY <3>1 DEF Share
    <2>2. f \in [Users -> Int] /\ \A u \in Users : f[u] = 0
      BY <2>1 DEF Shares
    <2>3. PowerDelegatedTo(d) = SumFunctionOnSet(f, Users)
      BY PowerIsSum
    <2> HIDE DEF f
    <2>4. SumFunctionOnSet(f, Users) = 0
      BY <1>4, <2>2, SumOfZeros
    <2> QED BY <2>3, <2>4
  <1>7. \A d \in Delegatees : checkpoints[d] = <<>>
    BY DEF Init, EscrowInit
  <1>8. VotesCoverPower
    BY <1>2, <1>6, <1>7 DEF VotesCoverPower, Delegatees
  <1>9. UserVotes(checkpoints) = 0
    <2> DEFINE f == VotesOf(checkpoints)
    <2>1. f \in [Users -> Int] /\ \A u \in Users : f[u] = 0
      BY <1>2, <1>7 DEF VotesOf, Delegatees
    <2> HIDE DEF f
    <2>2. SumFunctionOnSet(f, Users) = 0
      BY <1>4, <2>1, SumOfZeros
    <2> QED BY <2>2 DEF UserVotes, f
  <1>10. totalSupplyCheckpoints = <<>>
    BY DEF Init, EscrowInit
  <1>11. TotalCovers
    <2>1. PowerDelegatedTo(Nobody) = 0
      BY <1>6 DEF Delegatees
    <2> QED BY <1>2, <1>9, <1>10, <2>1 DEF TotalCovers
  <1>12. VotesWithinTotal
    <2> SUFFICES ASSUME NEW t \in 0..now
                 PROVE  SumFunctionOnSet([d \in Users |-> PastVotes(checkpoints[d], t)], Users)
                            <= PastVotes(totalSupplyCheckpoints, t)
      BY DEF VotesWithinTotal
    <2>1. PastVotes(<<>>, t) = 0
      BY <1>2 DEF PastVotes
    <2> DEFINE f == [d \in Users |-> PastVotes(checkpoints[d], t)]
    <2>2. f \in [Users -> Int] /\ \A u \in Users : f[u] = 0
      BY <1>7, <2>1 DEF Delegatees
    <2> HIDE DEF f
    <2>3. SumFunctionOnSet(f, Users) = 0
      BY <1>4, <2>2, SumOfZeros
    <2> QED BY <1>10, <2>1, <2>3 DEF f
  <1>13. TypeOK
    BY <1>1, DAOConstants, VoteEscrowConstants
    DEF Init, TypeOK, Blank, NotVoted, VoteType, Delegatees, ProposalIds
  <1> QED BY <1>1, <1>3, <1>5, <1>8, <1>11, <1>12, <1>13 DEF IInv

(* A step of the DAO keeps its own state well-formed. *)
LEMMA DAOStepTyped ==
    ASSUME IInv, TypeOK, DAOStep, UNCHANGED <<now, escrowVars>>, calls' \in 0..MaxCalls
    PROVE  TypeOK'
  <1> DEFINE Proposal == [proposer : Delegatees, startTime : Nat, endTime : Nat,
                          executionTime : Nat, tally : [VoteType -> Nat],
                          canceled : BOOLEAN, executed : BOOLEAN]
             Receipt == [hasVoted : BOOLEAN, support : VoteType, votes : Nat]
  <1>1. /\ proposalCount \in Nat /\ proposalCount <= MaxProposals
        /\ proposals \in [ProposalIds -> Proposal]
        /\ receipts \in [ProposalIds -> [Users -> Receipt]] /\ guardian \in Delegatees
        /\ now \in Nat /\ MaxProposals \in Nat
    BY DAOConstants DEF TypeOK, EscrowTypeOK
  <1>2. EscrowTypeOK'
    <2>1. UNCHANGED <<now, locks, totalLocked, wallet, held, delegates, checkpoints,
                      totalSupplyCheckpoints, ubiTreasury>>
      BY DEF escrowVars, lockVars, voteVars
    <2> QED BY <2>1 DEF TypeOK, EscrowTypeOK
  <1> HIDE DEF Proposal, Receipt
  <1>3. SUFFICES /\ proposalCount' \in 0..MaxProposals
                 /\ proposals' \in [ProposalIds -> Proposal]
                 /\ receipts' \in [ProposalIds -> [Users -> Receipt]] /\ guardian' \in Delegatees
    BY <1>2 DEF TypeOK, Proposal, Receipt
  <1>4. ASSUME NEW u \in Users, Propose(u)
        PROVE  /\ proposalCount' \in 0..MaxProposals
               /\ proposals' \in [ProposalIds -> Proposal]
               /\ receipts' = receipts /\ guardian' = guardian
    <2>1. /\ proposalCount < MaxProposals /\ proposalCount' = proposalCount + 1
          /\ proposals' = [proposals EXCEPT ![proposalCount'] =
                [@ EXCEPT !.proposer = u, !.startTime = now + VOTING_DELAY,
                          !.endTime = now + VOTING_DELAY + VOTING_PERIOD]]
          /\ receipts' = receipts /\ guardian' = guardian
      BY <1>4 DEF Propose
    <2>2. proposalCount' \in ProposalIds
      BY <1>1, <2>1 DEF ProposalIds
    <2>3. [proposals[proposalCount'] EXCEPT !.proposer = u, !.startTime = now + VOTING_DELAY,
              !.endTime = now + VOTING_DELAY + VOTING_PERIOD] \in Proposal
      <3>1. proposals[proposalCount'] \in Proposal
        BY <1>1, <2>2
      <3>2. u \in Delegatees /\ now + VOTING_DELAY \in Nat /\ now + VOTING_DELAY + VOTING_PERIOD \in Nat
        BY <1>1, DAOConstants DEF Delegatees
      <3> QED BY <3>1, <3>2 DEF Proposal
    <2> QED BY <1>1, <2>1, <2>2, <2>3
  <1>5. ASSUME NEW u \in Users, NEW id \in ProposalIds, NEW support \in VoteType, CastVote(u, id, support)
        PROVE  /\ proposalCount' = proposalCount /\ guardian' = guardian
               /\ proposals' \in [ProposalIds -> Proposal]
               /\ receipts' \in [ProposalIds -> [Users -> Receipt]]
    <2>0. proposals[id] \in Proposal
      BY <1>1
    <2>1. proposals[id].startTime \in Int /\ checkpoints[u] \in Histories
      BY <2>0 DEF Proposal, IInv, EscrowTypeOK, Delegatees
    <2>2. PICK v \in Nat : v = PastVotes(checkpoints[u], proposals[id].startTime)
      BY <2>1, LookupNat
    <2>3. /\ receipts' = [receipts EXCEPT ![id][u] = [hasVoted |-> TRUE, support |-> support, votes |-> v]]
          /\ proposals' = [proposals EXCEPT ![id].tally[support] = @ + v]
          /\ proposalCount' = proposalCount /\ guardian' = guardian
      BY <1>5, <2>2 DEF CastVote
    <2>4. [proposals[id] EXCEPT !.tally[support] = @ + v] \in Proposal
      BY <2>0 DEF Proposal
    <2>5. [hasVoted |-> TRUE, support |-> support, votes |-> v] \in Receipt
      BY DEF Receipt
    <2>6. proposals' = [proposals EXCEPT ![id] = [proposals[id] EXCEPT !.tally[support] = @ + v]]
      BY <2>3
    <2> QED BY <1>1, <2>3, <2>4, <2>5, <2>6
  <1>6. ASSUME NEW u \in Users, NEW id \in ProposalIds, CancelProposal(u, id)
        PROVE  /\ proposalCount' = proposalCount /\ guardian' = guardian /\ receipts' = receipts
               /\ proposals' \in [ProposalIds -> Proposal]
    <2>1. [proposals[id] EXCEPT !.canceled = TRUE] \in Proposal
      <3>1. proposals[id] \in Proposal
        BY <1>1
      <3> QED BY <3>1 DEF Proposal
    <2> QED BY <1>1, <1>6, <2>1 DEF CancelProposal
  <1>7. ASSUME NEW id \in ProposalIds, Queue(id)
        PROVE  /\ proposalCount' = proposalCount /\ guardian' = guardian /\ receipts' = receipts
               /\ proposals' \in [ProposalIds -> Proposal]
    <2>1. now + TIMELOCK_DELAY \in Nat
      BY <1>1, DAOConstants
    <2>2. [proposals[id] EXCEPT !.executionTime = now + TIMELOCK_DELAY] \in Proposal
      <3>1. proposals[id] \in Proposal
        BY <1>1
      <3> QED BY <2>1, <3>1 DEF Proposal
    <2> QED BY <1>1, <1>7, <2>2 DEF Queue
  <1>8. ASSUME NEW id \in ProposalIds, Execute(id)
        PROVE  /\ proposalCount' = proposalCount /\ guardian' = guardian /\ receipts' = receipts
               /\ proposals' \in [ProposalIds -> Proposal]
    <2>1. [proposals[id] EXCEPT !.executed = TRUE] \in Proposal
      <3>1. proposals[id] \in Proposal
        BY <1>1
      <3> QED BY <3>1 DEF Proposal
    <2> QED BY <1>1, <1>8, <2>1 DEF Execute
  <1>9. ASSUME NEW new \in Delegatees, TransferGuardian(new)
        PROVE  /\ proposalCount' = proposalCount /\ guardian' \in Delegatees
               /\ receipts' = receipts /\ proposals' = proposals
    BY <1>9 DEF TransferGuardian
  <1>10. proposalCount \in 0..MaxProposals
    BY <1>1
  <1> QED BY <1>1, <1>4, <1>5, <1>6, <1>7, <1>8, <1>9, <1>10 DEF DAOStep

LEMMA NextSafe ==
    ASSUME IInv, TypeOK, [Next]_vars
    PROVE  IInv' /\ TypeOK'
  <1>1. calls \in 0..MaxCalls /\ MaxCalls \in Nat
    BY DAOConstants DEF TypeOK
  <1>2. CASE HasRoom /\ EscrowStep /\ UNCHANGED <<now, daoVars>> /\ Tally
    <2>1. IInv'
      BY <1>2, EscrowSafe
    <2>2. calls' \in 0..MaxCalls
      BY <1>1, <1>2 DEF HasRoom, Tally
    <2> QED BY <1>2, <2>1, <2>2 DEF IInv, TypeOK, daoVars
  <1>3. CASE HasRoom /\ DAOStep /\ UNCHANGED <<now, escrowVars>> /\ Tally
    <2>1. calls' \in 0..MaxCalls
      BY <1>1, <1>3 DEF HasRoom, Tally
    <2>2. UNCHANGED <<now, lockVars, voteVars>> /\ ubiTreasury' \in Treasuries
      BY <1>3 DEF escrowVars, IInv, EscrowTypeOK
    <2>3. IInv'
      BY <2>2, NothingMoves
    <2> QED BY <1>3, <2>1, <2>3, DAOStepTyped
  <1>4. CASE Tick /\ UNCHANGED <<contractVars, calls>>
    <2>1. UNCHANGED escrowVars /\ UNCHANGED daoVars /\ UNCHANGED calls
      BY <1>4 DEF contractVars
    <2>2. IInv'
      BY <1>4, <2>1, TickSafe
    <2> QED BY <2>1, <2>2 DEF IInv, TypeOK, daoVars
  <1>5. CASE UNCHANGED vars
    <2>1. UNCHANGED <<now, lockVars, voteVars>> /\ ubiTreasury' \in Treasuries
      BY <1>5 DEF vars, contractVars, escrowVars, IInv, EscrowTypeOK
    <2>2. IInv'
      BY <2>1, NothingMoves
    <2> QED BY <1>5, <2>2 DEF IInv, TypeOK, vars, contractVars, daoVars
  <1> QED BY <1>2, <1>3, <1>4, <1>5 DEF Next

(* Every state the contracts can reach satisfies the strengthened invariant *)
(* and is well-formed.                                                     *)
THEOREM GovernanceInvariant == Spec => [](IInv /\ TypeOK)
  <1>1. IInv /\ TypeOK /\ [Next]_vars => IInv' /\ TypeOK'
    BY NextSafe
  <1> QED BY <1>1, InitSafe, PTL DEF Spec

(* Every lock can be paid out at its end: withdraw and earlyUnlock never    *)
(* take from the locks of others, whatever penalty stays in the contract.   *)
THEOREM LocksAreHeld == Spec => []LocksHeld
  <1>1. IInv /\ TypeOK => LocksHeld
    BY DEF IInv
  <1> QED BY <1>1, GovernanceInvariant, PTL

(* The votes of a delegate cover what is delegated to it, so that what _sub *)
(* takes away was always there.                                            *)
THEOREM VotesAlwaysCoverPower == Spec => []VotesCoverPower
  <1>1. IInv /\ TypeOK => VotesCoverPower
    BY DEF IInv
  <1> QED BY <1>1, GovernanceInvariant, PTL

(* The votes castVote can read of all accounts, at any time, are within the *)
(* total that propose and state take their shares of at that time.         *)
THEOREM VotesStayWithinTotal == Spec => []VotesWithinTotal
  <1>1. IInv /\ TypeOK => VotesWithinTotal
    BY DEF IInv
  <1> QED BY <1>1, GovernanceInvariant, PTL

(* state() turns the verdict of a closed vote only when the total voting    *)
(* power moves.                                                            *)
THEOREM VerdictNeedsSupply == Spec => VerdictTurnsOnlyWithSupply
  <1> DEFINE Kept == \A id \in ProposalIds :
                LET p == proposals[id] IN
                (Closed(p) /\ (Passed(p) # Passed(p)')) => TotalPower' # TotalPower
  <1>1. ASSUME TypeOK, [Next]_vars PROVE [Kept]_vars
    <2> SUFFICES ASSUME NEW id \in ProposalIds, Closed(proposals[id]), TotalPower' = TotalPower
                 PROVE  Passed(proposals[id]) = Passed(proposals[id])'
      OBVIOUS
    <2>1. SUFFICES proposals'[id].tally = proposals[id].tally
      BY DEF Passed, Quorum
    <2>2. /\ proposals[id].startTime \in Nat /\ proposals[id].endTime \in Nat /\ now \in Nat
          /\ proposals \in [ProposalIds -> [proposer : Delegatees, startTime : Nat, endTime : Nat,
               executionTime : Nat, tally : [VoteType -> Nat], canceled : BOOLEAN, executed : BOOLEAN]]
          /\ proposalCount \in Nat
      BY <1>1 DEF TypeOK, EscrowTypeOK
    <2>3. CASE proposals' = proposals
      BY <2>3
    <2>4. ASSUME NEW u \in Users, Propose(u) PROVE proposals'[id].tally = proposals[id].tally
      BY <2>2, <2>4 DEF Propose
    <2>5. ASSUME NEW u \in Users, NEW k \in ProposalIds, NEW support \in VoteType, CastVote(u, k, support)
          PROVE  proposals'[id].tally = proposals[id].tally
      <3>1. k # id
        BY <2>2, <2>5 DEF CastVote, Voting, Closed
      <3>2. proposals'[id] = proposals[id]
        BY <2>2, <2>5, <3>1 DEF CastVote
      <3> QED BY <3>2
    <2>6. ASSUME NEW u \in Users, NEW k \in ProposalIds, CancelProposal(u, k)
          PROVE  proposals'[id].tally = proposals[id].tally
      BY <2>2, <2>6 DEF CancelProposal
    <2>7. ASSUME NEW k \in ProposalIds, Queue(k) PROVE proposals'[id].tally = proposals[id].tally
      BY <2>2, <2>7 DEF Queue
    <2>8. ASSUME NEW k \in ProposalIds, Execute(k) PROVE proposals'[id].tally = proposals[id].tally
      BY <2>2, <2>8 DEF Execute
    <2>9. ASSUME NEW new \in Delegatees, TransferGuardian(new) PROVE proposals' = proposals
      BY <2>9 DEF TransferGuardian
    <2>10. CASE DAOStep
      BY <2>4, <2>5, <2>6, <2>7, <2>8, <2>9, <2>10 DEF DAOStep
    <2>11. CASE ~DAOStep
      <3>1. proposals' = proposals
        BY <1>1, <2>11 DEF Next, vars, contractVars, daoVars
      <3> QED BY <3>1
    <2> QED BY <2>10, <2>11
  <1>2. VerdictTurnsOnlyWithSupply <=> [][Kept]_vars
    BY DEF VerdictTurnsOnlyWithSupply
  <1> QED BY <1>1, <1>2, GovernanceInvariant, PTL DEF Spec

-----------------------------------------------------------------------------
(* Validator staking. *)

(* The list l with its index ix holds exactly the members of E, each once.  *)
ListedAs(l, ix, E) ==
    /\ E \in SUBSET Stakers
    /\ l \in Seq(Stakers)
    /\ ix \in [Stakers -> Nat]
    /\ Len(l) = Cardinality(E)
    /\ \A u \in Stakers : ix[u] \in 0..Len(l) /\ (ix[u] # 0 <=> u \in E)
    /\ \A u \in E : l[ix[u]] = u
    /\ \A i \in 1..Len(l) : ix[l[i]] = i

RollInv ==
    /\ ListedAs(validatorList, listIndex, Exposed)
    /\ activeCount = Cardinality(ActiveUsers)
    /\ \A u \in ActiveUsers : validators[u].staked >= MIN_STAKE

StakedInPast == \A u \in Stakers : validators[u].lastStakeTime <= now

StakingIInv ==
    /\ StakingTypeOK
    /\ RollInv
    /\ StakedInPast
    /\ PrincipalHeld

-----------------------------------------------------------------------------
(* What a stake of s earns in t. *)
Earned(s, t) == (((s * rewardRateBPS) \div 10000) * t) \div YEAR

LEMMA EarnedMonotone ==
    ASSUME NEW s \in Nat, NEW r \in Nat, NEW t \in Nat, s <= r
    PROVE  Earned(s, t) \in Nat /\ Earned(r, t) \in Nat /\ Earned(s, t) <= Earned(r, t)
  <1>0. rewardRateBPS \in Nat /\ YEAR \in Nat \ {0}
    BY StakingConstants
  <1> DEFINE a == s * rewardRateBPS
             b == r * rewardRateBPS
             c == a \div 10000
             d == b \div 10000
             e == c * t
             f == d * t
  <1>1. a \in Nat /\ b \in Nat /\ a <= b
    BY <1>0, TimesMonotone
  <1> HIDE DEF a, b
  <1>2. c \in Nat /\ d \in Nat
    BY <1>1
  <1>3. c <= d
    BY <1>1, DivMonotone
  <1> HIDE DEF c, d
  <1>4. e \in Nat /\ f \in Nat /\ e <= f
    BY <1>2, <1>3, TimesMonotone
  <1> HIDE DEF e, f
  <1>5. e \div YEAR \in Nat /\ f \div YEAR \in Nat
    BY <1>0, <1>4, DivNat
  <1>6. e \div YEAR <= f \div YEAR
    BY <1>0, <1>4, DivMonotone
  <1> QED BY <1>5, <1>6 DEF Earned, e, f, c, d, a, b

(* Nothing is earned in no time. *)
LEMMA EarnedAtOnce ==
    ASSUME NEW s \in Nat
    PROVE  Earned(s, 0) = 0
  <1>0. rewardRateBPS \in Nat /\ YEAR \in Nat \ {0}
    BY StakingConstants
  <1> DEFINE c == (s * rewardRateBPS) \div 10000
  <1>1. s * rewardRateBPS \in Nat
    BY <1>0
  <1>2. c \in Nat
    BY <1>1
  <1> HIDE DEF c
  <1>3. c * 0 = 0
    BY <1>2
  <1>4. 0 \div YEAR = 0
    BY <1>0
  <1> QED BY <1>3, <1>4 DEF Earned, c

-----------------------------------------------------------------------------
(* The roll: what the two list operations do. *)

LEMMA OneJoins ==
    ASSUME NEW E \in SUBSET Stakers, NEW u \in Stakers, u \notin E
    PROVE  Cardinality(E) \in Nat /\ Cardinality(E \cup {u}) = Cardinality(E) + 1
  <1>1. IsFiniteSet(Stakers)
    BY StakingConstants
  <1>2. IsFiniteSet(E)
    BY <1>1, FS_Subset
  <1> QED BY <1>2, FS_AddElement, FS_CardinalityType

LEMMA OneLeaves ==
    ASSUME NEW E \in SUBSET Stakers, NEW u \in E
    PROVE  Cardinality(E) \in Nat /\ Cardinality(E \ {u}) = Cardinality(E) - 1
  <1>1. IsFiniteSet(Stakers)
    BY StakingConstants
  <1>2. IsFiniteSet(E)
    BY <1>1, FS_Subset
  <1> QED BY <1>2, FS_RemoveElement, FS_CardinalityType

LEMMA ListGrows ==
    ASSUME NEW l, NEW ix, NEW E, ListedAs(l, ix, E), NEW u \in Stakers, u \notin E
    PROVE  ListedAs(Append(l, u), [ix EXCEPT ![u] = Len(l) + 1], E \cup {u})
  <1>0. /\ E \in SUBSET Stakers /\ l \in Seq(Stakers) /\ ix \in [Stakers -> Nat]
        /\ Len(l) = Cardinality(E)
        /\ \A v \in Stakers : ix[v] \in 0..Len(l) /\ (ix[v] # 0 <=> v \in E)
        /\ \A v \in E : l[ix[v]] = v
        /\ \A i \in 1..Len(l) : ix[l[i]] = i
    BY DEF ListedAs
  <1> DEFINE k == Append(l, u)
             n == Len(l)
             jx == [ix EXCEPT ![u] = n + 1]
  <1>1. n \in Nat /\ l \in [1..n -> Stakers]
    BY <1>0, LenProperties
  <1>2. /\ k \in Seq(Stakers) /\ Len(k) = n + 1
        /\ \A i \in 1..n : k[i] = l[i]
        /\ k[n + 1] = u
    BY <1>0, AppendProperties
  <1> HIDE DEF k, n
  <1>3. jx \in [Stakers -> Nat] /\ jx[u] = n + 1 /\ \A v \in Stakers \ {u} : jx[v] = ix[v]
    BY <1>0, <1>1
  <1> HIDE DEF jx
  <1>4. E \cup {u} \in SUBSET Stakers /\ Len(k) = Cardinality(E \cup {u})
    BY <1>0, <1>2, OneJoins DEF n
  <1>5. \A v \in Stakers : ix[v] \in 0..n /\ (ix[v] # 0 <=> v \in E)
    BY <1>0 DEF n
  <1>6. \A v \in Stakers : jx[v] \in 0..Len(k) /\ (jx[v] # 0 <=> v \in E \cup {u})
    BY <1>1, <1>2, <1>3, <1>5
  <1>7. ASSUME NEW v \in E \cup {u} PROVE k[jx[v]] = v
    <2>1. CASE v = u
      BY <1>2, <1>3, <2>1
    <2>2. CASE v # u
      <3>1. v \in E /\ v \in Stakers /\ jx[v] = ix[v]
        BY <1>0, <1>3, <1>7, <2>2
      <3>2. ix[v] \in 1..n
        BY <1>1, <1>5, <3>1
      <3> QED BY <1>0, <1>2, <3>1, <3>2
    <2> QED BY <2>1, <2>2
  <1>8. ASSUME NEW i \in 1..Len(k) PROVE jx[k[i]] = i
    <2>1. CASE i = n + 1
      BY <1>2, <1>3, <2>1
    <2>2. CASE i # n + 1
      <3>1. i \in 1..n
        BY <1>1, <1>2, <1>8, <2>2
      <3>2. k[i] = l[i] /\ l[i] \in Stakers /\ ix[l[i]] = i
        BY <1>0, <1>1, <1>2, <3>1 DEF n
      <3>3. l[i] # u
        BY <1>5, <3>1, <3>2
      <3> QED BY <1>3, <3>2, <3>3
    <2> QED BY <2>1, <2>2
  <1>9. ListedAs(k, jx, E \cup {u})
    BY <1>2, <1>3, <1>4, <1>6, <1>7, <1>8 DEF ListedAs
  <1> QED BY <1>9 DEF k, jx, n

LEMMA ListShrinks ==
    ASSUME NEW l, NEW ix, NEW E, ListedAs(l, ix, E), NEW u \in E
    PROVE  LET last == l[Len(l)]
           IN  ListedAs(SubSeq([l EXCEPT ![ix[u]] = last], 1, Len(l) - 1),
                        [ix EXCEPT ![last] = ix[u], ![u] = 0], E \ {u})
  <1>0. /\ E \in SUBSET Stakers /\ l \in Seq(Stakers) /\ ix \in [Stakers -> Nat]
        /\ Len(l) = Cardinality(E)
        /\ \A v \in Stakers : ix[v] \in 0..Len(l) /\ (ix[v] # 0 <=> v \in E)
        /\ \A v \in E : l[ix[v]] = v
        /\ \A i \in 1..Len(l) : ix[l[i]] = i
    BY DEF ListedAs
  <1> DEFINE n == Len(l)
             last == l[n]
             at == ix[u]
             m == [l EXCEPT ![at] = last]
             k == SubSeq(m, 1, n - 1)
             jx == [ix EXCEPT ![last] = at, ![u] = 0]
  <1>1. n \in Nat /\ l \in [1..n -> Stakers]
    BY <1>0, LenProperties
  <1>2. \A v \in Stakers : ix[v] \in 0..n /\ (ix[v] # 0 <=> v \in E)
    BY <1>0 DEF n
  <1>3. \A i \in 1..n : ix[l[i]] = i
    BY <1>0 DEF n
  <1>4. u \in Stakers /\ at \in 1..n /\ l[at] = u
    BY <1>0, <1>1, <1>2
  <1>5. n \in 1..n /\ last \in Stakers /\ ix[last] = n
    BY <1>1, <1>3, <1>4
  <1> HIDE DEF n, last, at
  <1>6. /\ m \in Seq(Stakers) /\ Len(m) = n
        /\ \A i \in 1..n : m[i] = IF i = at THEN last ELSE l[i]
    BY <1>0, <1>4, <1>5, ExceptSeq DEF n
  <1> HIDE DEF m
  <1>7. \A i \in 1..(n - 1) : m[i] \in Stakers
    BY <1>1, <1>5, <1>6
  <1>8. /\ k \in Seq(Stakers) /\ Len(k) = n - 1
        /\ \A i \in 1..(n - 1) : k[i] = m[i]
    <2>1. n - 1 \in Int /\ 1 \in Int
      BY <1>1
    <2>2. /\ SubSeq(m, 1, n - 1) \in Seq(Stakers)
          /\ Len(SubSeq(m, 1, n - 1)) = IF 1 <= n - 1 THEN n - 1 - 1 + 1 ELSE 0
          /\ \A i \in 1..(n - 1) - 1 + 1 : SubSeq(m, 1, n - 1)[i] = m[1 + i - 1]
      BY <1>7, <2>1, SubSeqProperties
    <2>3. (n - 1) - 1 + 1 = n - 1 /\ \A i \in 1..(n - 1) : 1 + i - 1 = i
      BY <1>1
    <2>4. Len(SubSeq(m, 1, n - 1)) = n - 1
      BY <1>1, <1>5, <2>2
    <2> QED BY <2>2, <2>3, <2>4
  <1> HIDE DEF k
  <1>9. /\ jx \in [Stakers -> Nat] /\ jx[u] = 0
        /\ last # u => jx[last] = at
        /\ \A v \in Stakers : v # u /\ v # last => jx[v] = ix[v]
    BY <1>0, <1>4, <1>5
  <1> HIDE DEF jx
  <1>10. E \ {u} \in SUBSET Stakers /\ Len(k) = Cardinality(E \ {u})
    BY <1>0, <1>8, OneLeaves DEF n
  <1>11. ASSUME NEW v \in Stakers, v # u, v # last PROVE ix[v] # n /\ ix[v] # at
    <2>1. ASSUME ix[v] \in 1..n PROVE l[ix[v]] = v
      BY <1>0, <1>2, <2>1
    <2> QED BY <1>4, <1>5, <1>11, <2>1 DEF last
  <1>12. last # u => at # n
    BY <1>4 DEF last
  <1>13. ASSUME NEW v \in Stakers
         PROVE  jx[v] \in 0..Len(k) /\ (jx[v] # 0 <=> v \in E \ {u})
    <2>1. CASE v = u
      BY <1>1, <1>5, <1>8, <1>9, <2>1
    <2>2. CASE v # u /\ v = last
      <3>1. at \in 1..(n - 1)
        BY <1>1, <1>4, <1>12, <2>2
      <3>2. last \in E
        BY <1>2, <1>5
      <3> QED BY <1>8, <1>9, <2>2, <3>1, <3>2
    <2>3. CASE v # u /\ v # last
      <3>1. ix[v] # n /\ ix[v] \in 0..n /\ jx[v] = ix[v]
        BY <1>2, <1>9, <1>11, <2>3
      <3> QED BY <1>1, <1>2, <1>8, <2>3, <3>1
    <2> QED BY <2>1, <2>2, <2>3
  <1>14. ASSUME NEW v \in E \ {u} PROVE k[jx[v]] = v
    <2>0. v \in Stakers /\ v # u /\ ix[v] \in 1..n /\ l[ix[v]] = v
      BY <1>0, <1>1, <1>2
    <2>1. CASE v = last
      <3>1. at \in 1..(n - 1) /\ jx[v] = at
        BY <1>1, <1>4, <1>9, <1>12, <2>0, <2>1
      <3> QED BY <1>4, <1>6, <1>8, <2>1, <3>1
    <2>2. CASE v # last
      <3>1. ix[v] \in 1..(n - 1) /\ ix[v] # at /\ jx[v] = ix[v]
        BY <1>1, <1>9, <1>11, <2>0, <2>2
      <3> QED BY <1>6, <1>8, <2>0, <3>1
    <2> QED BY <2>1, <2>2
  <1>15. ASSUME NEW i \in 1..Len(k) PROVE jx[k[i]] = i
    <2>0. i \in 1..(n - 1) /\ i \in 1..n /\ i # n
      BY <1>1, <1>8
    <2>1. CASE i = at
      <3>1. k[i] = last /\ last # u
        <4>1. k[i] = last
          BY <1>6, <1>8, <2>0, <2>1
        <4>2. last # u
          BY <1>5, <2>0, <2>1 DEF at
        <4> QED BY <4>1, <4>2
      <3> QED BY <1>9, <2>1, <3>1
    <2>2. CASE i # at
      <3>1. k[i] = l[i] /\ l[i] \in Stakers /\ ix[l[i]] = i
        BY <1>1, <1>3, <1>6, <1>8, <2>0, <2>2
      <3>2. l[i] # u /\ l[i] # last
        BY <1>5, <2>0, <2>2, <3>1 DEF at
      <3> QED BY <1>9, <3>1, <3>2
    <2> QED BY <2>1, <2>2
  <1>16. ListedAs(k, jx, E \ {u})
    BY <1>8, <1>9, <1>10, <1>13, <1>14, <1>15 DEF ListedAs
  <1> QED BY <1>16 DEF k, jx, m, at, last, n


-----------------------------------------------------------------------------
(* A step that replaces the entry of one validator. *)

(* What u has at stake or unbonding, out of which it is listed. *)
Principal(v) == v.staked + v.unbonding.amount

ExposedAfter(u, w) == IF Principal(w) > 0 THEN Exposed \cup {u} ELSE Exposed \ {u}

LEMMA EntryFacts ==
    ASSUME NEW v \in Validator
    PROVE  /\ v.staked \in Nat /\ v.rewardDebt \in Nat /\ v.lastStakeTime \in Nat
           /\ v.isActive \in BOOLEAN
           /\ v.unbonding.amount \in Nat /\ v.unbonding.unbondAt \in Nat
           /\ Principal(v) \in Nat
  <1>1. /\ v.staked \in Nat /\ v.rewardDebt \in Nat /\ v.lastStakeTime \in Nat
        /\ v.isActive \in BOOLEAN
    BY DEF Validator
  <1>2. v.unbonding \in [amount : Nat, unbondAt : Nat]
    BY DEF Validator
  <1>3. v.unbonding.amount \in Nat /\ v.unbonding.unbondAt \in Nat
    BY <1>2
  <1> QED BY <1>1, <1>3 DEF Principal

(* Two tables of naturals that differ in one entry. *)
LEMMA OneReplaced ==
    ASSUME NEW f \in [Stakers -> Nat], NEW g \in [Stakers -> Nat],
           NEW u \in Stakers, \A y \in Stakers \ {u} : f[y] = g[y]
    PROVE  /\ SumFunctionOnSet(f, Stakers) \in Nat /\ SumFunctionOnSet(g, Stakers) \in Nat
           /\ SumFunctionOnSet(g, Stakers) = SumFunctionOnSet(f, Stakers) - f[u] + g[u]
  <1>0. IsFiniteSet(Stakers)
    BY StakingConstants
  <1>1. f \in [Stakers -> Int] /\ g \in [Stakers -> Int]
    OBVIOUS
  <1>2. SumFunctionOnSet(g, Stakers) = SumFunctionOnSet(f, Stakers) - f[u] + g[u]
    BY <1>0, <1>1, SumUpdate
  <1>3. SumFunctionOnSet(f, Stakers) \in Nat
    BY <1>0, SumOfNats
  <1>4. SumFunctionOnSet(g, Stakers) \in Nat
    BY <1>0, SumOfNats
  <1> QED BY <1>2, <1>3, <1>4

LEMMA SumsMove ==
    ASSUME validators \in [Stakers -> Validator], NEW u \in Stakers, NEW w \in Validator,
           validators' = [validators EXCEPT ![u] = w]
    PROVE  /\ Total(Stakes) \in Nat /\ Total(Unbonding) \in Nat
           /\ Total(Stakes)' \in Nat /\ Total(Unbonding)' \in Nat
           /\ Total(Stakes)' = Total(Stakes) - validators[u].staked + w.staked
           /\ Total(Unbonding)' = Total(Unbonding) - validators[u].unbonding.amount
                                    + w.unbonding.amount
  <1>1. \A x \in Stakers : validators[x] \in Validator
    OBVIOUS
  <1>2. validators' \in [Stakers -> Validator] /\ validators'[u] = w
        /\ \A x \in Stakers \ {u} : validators'[x] = validators[x]
    OBVIOUS
  <1>a. \A x \in Stakers : validators[x].staked \in Nat /\ validators[x].unbonding.amount \in Nat
    BY <1>1, EntryFacts
  <1>b. \A x \in Stakers : validators'[x] \in Validator
    BY <1>2
  <1>c. \A x \in Stakers : validators'[x].staked \in Nat /\ validators'[x].unbonding.amount \in Nat
    BY <1>b, EntryFacts
  <1>3. PICK f \in [Stakers -> Nat] : f = Stakes
    BY <1>a DEF Stakes
  <1>4. PICK g \in [Stakers -> Nat] : g = [x \in Stakers |-> validators'[x].staked]
    BY <1>c
  <1>5. PICK a \in [Stakers -> Nat] : a = Unbonding
    BY <1>a DEF Unbonding
  <1>6. PICK b \in [Stakers -> Nat] : b = [x \in Stakers |-> validators'[x].unbonding.amount]
    BY <1>c
  <1>7. /\ f[u] = validators[u].staked /\ g[u] = w.staked
        /\ \A y \in Stakers \ {u} : f[y] = g[y]
    BY <1>2, <1>3, <1>4 DEF Stakes
  <1>8. /\ a[u] = validators[u].unbonding.amount /\ b[u] = w.unbonding.amount
        /\ \A y \in Stakers \ {u} : a[y] = b[y]
    BY <1>2, <1>5, <1>6 DEF Unbonding
  <1>9. \A y \in Stakers \ {u} : f[y] = g[y]
    BY <1>7
  <1>10. \A y \in Stakers \ {u} : a[y] = b[y]
    BY <1>8
  <1>11. /\ SumFunctionOnSet(f, Stakers) \in Nat /\ SumFunctionOnSet(g, Stakers) \in Nat
         /\ SumFunctionOnSet(g, Stakers) = SumFunctionOnSet(f, Stakers) - f[u] + g[u]
    BY <1>9, OneReplaced
  <1>12. /\ SumFunctionOnSet(a, Stakers) \in Nat /\ SumFunctionOnSet(b, Stakers) \in Nat
         /\ SumFunctionOnSet(b, Stakers) = SumFunctionOnSet(a, Stakers) - a[u] + b[u]
    BY <1>10, OneReplaced
  <1>13. /\ Total(Stakes) = SumFunctionOnSet(f, Stakers)
         /\ Total(Unbonding) = SumFunctionOnSet(a, Stakers)
    BY <1>3, <1>5 DEF Total
  <1>14. /\ Total(Stakes)' = SumFunctionOnSet(g, Stakers)
         /\ Total(Unbonding)' = SumFunctionOnSet(b, Stakers)
    BY <1>4, <1>6 DEF Total, Stakes, Unbonding
  <1> QED BY <1>7, <1>8, <1>11, <1>12, <1>13, <1>14

(* The count of active validators follows the one that changes. *)
CountFollows(was, is) ==
    /\ was = is => activeCount' = activeCount
    /\ ~was /\ is => activeCount' = activeCount + 1
    /\ was /\ ~is => activeCount' = activeCount - 1

LEMMA EntryMoves ==
    ASSUME StakingIInv, NEW u \in Stakers, NEW w \in Validator,
           validators' = [validators EXCEPT ![u] = w], now' = now,
           w.lastStakeTime <= now,
           w.isActive => w.staked >= MIN_STAKE,
           CountFollows(validators[u].isActive, w.isActive),
           ListedAs(validatorList', listIndex', ExposedAfter(u, w)),
           totalStaked' = totalStaked - validators[u].staked + w.staked,
           stakerWallet' \in [Stakers -> Nat], stakesHeld' \in Nat, ubiPool' \in Nat, drawn' \in Nat,
           stakesHeld' + drawn' >= Total(Stakes) + Total(Unbonding)
                               - Principal(validators[u]) + Principal(w)
    PROVE  StakingIInv'
  <1>0. /\ StakingTypeOK /\ RollInv /\ StakedInPast /\ PrincipalHeld
        /\ validators \in [Stakers -> Validator] /\ now \in Nat
    BY DEF StakingIInv, StakingTypeOK
  <1>1. validators' \in [Stakers -> Validator] /\ validators'[u] = w
        /\ \A x \in Stakers \ {u} : validators'[x] = validators[x]
    BY <1>0
  <1>2. /\ validators[u] \in Validator
        /\ validators[u].isActive \in BOOLEAN /\ w.isActive \in BOOLEAN
        /\ validators[u].staked \in Nat /\ validators[u].unbonding.amount \in Nat
        /\ w.staked \in Nat /\ w.unbonding.amount \in Nat
    BY <1>0, EntryFacts
  <1>3. /\ Total(Stakes) \in Nat /\ Total(Unbonding) \in Nat
        /\ Total(Stakes)' \in Nat /\ Total(Unbonding)' \in Nat
        /\ Total(Stakes)' = Total(Stakes) - validators[u].staked + w.staked
        /\ Total(Unbonding)' = Total(Unbonding) - validators[u].unbonding.amount + w.unbonding.amount
    BY <1>0, SumsMove
  <1>4. totalStaked = Total(Stakes)
    BY <1>0 DEF PrincipalHeld, StakedIsSum
  <1>5. totalStaked' = Total(Stakes)' /\ totalStaked' \in Nat
    BY <1>3, <1>4
  <1>6. PrincipalHeld'
    <2>1. stakesHeld' + drawn' >= Total(Stakes)' + Total(Unbonding)'
      BY <1>2, <1>3 DEF Principal
    <2> QED BY <1>5, <2>1 DEF PrincipalHeld, StakedIsSum
  <1>7. StakedInPast'
    BY <1>0, <1>1 DEF StakedInPast
  <1>8. Exposed' = ExposedAfter(u, w)
    <2>1. Exposed' = {x \in Stakers : Principal(validators'[x]) > 0}
      BY DEF Exposed, Principal
    <2>2. Exposed = {x \in Stakers : Principal(validators[x]) > 0}
      BY DEF Exposed, Principal
    <2> QED BY <1>1, <2>1, <2>2 DEF ExposedAfter
  <1>9. activeCount' = Cardinality(ActiveUsers')
    <2>1. activeCount = Cardinality(ActiveUsers) /\ ActiveUsers \in SUBSET Stakers
      BY <1>0 DEF RollInv, ActiveUsers
    <2>2. CASE validators[u].isActive = w.isActive
      <3>1. ActiveUsers' = ActiveUsers
        BY <1>1, <2>2 DEF ActiveUsers
      <3> QED BY <2>1, <2>2, <3>1 DEF CountFollows
    <2>3. CASE ~validators[u].isActive /\ w.isActive
      <3>1. ActiveUsers' = ActiveUsers \cup {u} /\ u \notin ActiveUsers
        BY <1>1, <2>3 DEF ActiveUsers
      <3>2. Cardinality(ActiveUsers \cup {u}) = Cardinality(ActiveUsers) + 1
        BY <2>1, <3>1, OneJoins
      <3> QED BY <2>1, <2>3, <3>1, <3>2 DEF CountFollows
    <2>4. CASE validators[u].isActive /\ ~w.isActive
      <3>1. ActiveUsers' = ActiveUsers \ {u} /\ u \in ActiveUsers
        BY <1>1, <2>4 DEF ActiveUsers
      <3>2. Cardinality(ActiveUsers \ {u}) = Cardinality(ActiveUsers) - 1
        BY <2>1, <3>1, OneLeaves
      <3> QED BY <2>1, <2>4, <3>1, <3>2 DEF CountFollows
    <2> QED BY <1>2, <2>2, <2>3, <2>4
  <1>10. \A x \in ActiveUsers' : validators'[x].staked >= MIN_STAKE
    <2> SUFFICES ASSUME NEW x \in Stakers, validators'[x].isActive
                 PROVE  validators'[x].staked >= MIN_STAKE
      BY DEF ActiveUsers
    <2>1. CASE x = u
      BY <1>1, <2>1
    <2>2. CASE x # u
      BY <1>0, <1>1, <2>2 DEF RollInv, ActiveUsers
    <2> QED BY <2>1, <2>2
  <1>11. RollInv'
    BY <1>8, <1>9, <1>10 DEF RollInv
  <1>12. activeCount' \in Nat
    <2>1. IsFiniteSet(Stakers) /\ ActiveUsers' \in SUBSET Stakers
      BY StakingConstants DEF ActiveUsers
    <2>2. IsFiniteSet(ActiveUsers')
      BY <2>1, FS_Subset
    <2>3. Cardinality(ActiveUsers') \in Nat
      BY <2>2, FS_CardinalityType
    <2> QED BY <1>9, <2>3
  <1>13. validatorList' \in Seq(Stakers) /\ listIndex' \in [Stakers -> Nat]
    BY DEF ListedAs
  <1>14. StakingTypeOK'
    BY <1>0, <1>1, <1>5, <1>12, <1>13 DEF StakingTypeOK
  <1> QED BY <1>6, <1>7, <1>11, <1>14 DEF StakingIInv

(* The two list operations under the invariant. *)
LEMMA Enlisted ==
    ASSUME StakingIInv, NEW u \in Stakers, Enlist(u)
    PROVE  ListedAs(validatorList', listIndex', Exposed \cup {u})
  <1>0. ListedAs(validatorList, listIndex, Exposed)
    BY DEF StakingIInv, RollInv
  <1>1. listIndex[u] # 0 <=> u \in Exposed
    BY <1>0 DEF ListedAs
  <1>2. CASE listIndex[u] = 0
    <2>1. /\ validatorList' = Append(validatorList, u)
          /\ listIndex' = [listIndex EXCEPT ![u] = Len(validatorList) + 1]
      BY <1>2 DEF Enlist
    <2>2. u \notin Exposed
      BY <1>1, <1>2
    <2> QED BY <1>0, <2>1, <2>2, ListGrows
  <1>3. CASE listIndex[u] # 0
    <2>1. UNCHANGED <<validatorList, listIndex>>
      BY <1>3 DEF Enlist, listVars
    <2>2. Exposed \cup {u} = Exposed
      BY <1>1, <1>3
    <2> QED BY <1>0, <2>1, <2>2
  <1> QED BY <1>2, <1>3

LEMMA Delisted ==
    ASSUME StakingIInv, NEW u \in Stakers, Delist(u)
    PROVE  ListedAs(validatorList', listIndex', Exposed \ {u})
  <1>0. ListedAs(validatorList, listIndex, Exposed)
    BY DEF StakingIInv, RollInv
  <1>1. listIndex[u] # 0 <=> u \in Exposed
    BY <1>0 DEF ListedAs
  <1>2. CASE listIndex[u] = 0
    <2>1. UNCHANGED <<validatorList, listIndex>>
      BY <1>2 DEF Delist, listVars
    <2>2. Exposed \ {u} = Exposed
      BY <1>1, <1>2
    <2> QED BY <1>0, <2>1, <2>2
  <1>3. CASE listIndex[u] # 0
    <2> DEFINE last == validatorList[Len(validatorList)]
    <2>1. /\ validatorList' = SubSeq([validatorList EXCEPT ![listIndex[u]] = last], 1, Len(validatorList) - 1)
          /\ listIndex' = [listIndex EXCEPT ![last] = listIndex[u], ![u] = 0]
      BY <1>3 DEF Delist
    <2>2. u \in Exposed
      BY <1>1, <1>3
    <2>3. ListedAs(SubSeq([validatorList EXCEPT ![listIndex[u]] = last], 1, Len(validatorList) - 1),
                   [listIndex EXCEPT ![last] = listIndex[u], ![u] = 0], Exposed \ {u})
      BY <1>0, <2>2, ListShrinks
    <2> QED BY <2>1, <2>3
  <1> QED BY <1>2, <1>3

(* A step that leaves the list alone keeps it when u goes on being listed.  *)
LEMMA ListKept ==
    ASSUME StakingIInv, NEW u \in Stakers, NEW w \in Validator, UNCHANGED listVars,
           Principal(w) > 0 <=> Principal(validators[u]) > 0
    PROVE  ListedAs(validatorList', listIndex', ExposedAfter(u, w))
  <1>0. ListedAs(validatorList, listIndex, Exposed)
    BY DEF StakingIInv, RollInv
  <1>1. u \in Exposed <=> Principal(validators[u]) > 0
    BY DEF Exposed, Principal
  <1>2. ExposedAfter(u, w) = Exposed
    BY <1>1 DEF ExposedAfter
  <1> QED BY <1>0, <1>2 DEF listVars


-----------------------------------------------------------------------------
(* Rewards. *)

PendingOf(v) ==
    IF ~v.isActive \/ v.staked = 0 THEN 0
    ELSE v.rewardDebt + Earned(v.staked, now - v.lastStakeTime)

NoGain ==
    \A u \in Stakers :
        (now' = now /\ validators[u].isActive /\ validators[u].rewardDebt = 0) =>
            PendingRewards(u)' <= PendingRewards(u)

LEMMA PendingIs ==
    ASSUME NEW u \in Stakers
    PROVE  PendingRewards(u) = PendingOf(validators[u])
  BY DEF PendingRewards, PendingOf, Earned

LEMMA PendingNat ==
    ASSUME NEW v \in Validator, now \in Nat, v.lastStakeTime <= now
    PROVE  PendingOf(v) \in Nat
  <1>1. v.staked \in Nat /\ v.rewardDebt \in Nat /\ v.lastStakeTime \in Nat
    BY EntryFacts
  <1>2. now - v.lastStakeTime \in Nat /\ v.staked <= v.staked
    BY <1>1
  <1>3. Earned(v.staked, now - v.lastStakeTime) \in Nat
    BY <1>1, <1>2, EarnedMonotone
  <1> QED BY <1>1, <1>3 DEF PendingOf

LEMMA OnlyOneGains ==
    ASSUME StakingIInv, NEW u \in Stakers, NEW w \in Validator,
           validators' = [validators EXCEPT ![u] = w], now' = now,
           (validators[u].isActive /\ validators[u].rewardDebt = 0) =>
               PendingOf(w) <= PendingOf(validators[u])
    PROVE  NoGain
  <1>0. validators \in [Stakers -> Validator] /\ now \in Nat
        /\ \A x \in Stakers : validators[x].lastStakeTime <= now
    BY DEF StakingIInv, StakingTypeOK, StakedInPast
  <1>1. SUFFICES ASSUME NEW x \in Stakers, validators[x].isActive, validators[x].rewardDebt = 0
                 PROVE  PendingRewards(x)' <= PendingRewards(x)
    BY DEF NoGain
  <1>2. PendingRewards(x) = PendingOf(validators[x])
    BY PendingIs
  <1>3. PendingRewards(x)' = PendingOf(validators'[x])
    BY DEF PendingRewards, PendingOf, Earned
  <1>4. CASE x = u
    <2>1. validators'[x] = w
      BY <1>0, <1>4
    <2> QED BY <1>1, <1>2, <1>3, <1>4, <2>1
  <1>5. CASE x # u
    <2>1. validators'[x] = validators[x]
      BY <1>0, <1>5
    <2>2. validators[x] \in Validator /\ validators[x].lastStakeTime <= now
      BY <1>0
    <2>3. PendingOf(validators[x]) \in Nat
      BY <1>0, <2>2, PendingNat
    <2> QED BY <1>2, <1>3, <2>1, <2>3
  <1> QED BY <1>4, <1>5

(* The facts a step of u starts from. *)
LEMMA StepFacts ==
    ASSUME StakingIInv, NEW u \in Stakers
    PROVE  /\ validators \in [Stakers -> Validator] /\ validators[u] \in Validator
           /\ validators[u].staked \in Nat /\ validators[u].rewardDebt \in Nat
           /\ validators[u].lastStakeTime \in Nat /\ validators[u].lastStakeTime <= now
           /\ validators[u].isActive \in BOOLEAN
           /\ validators[u].unbonding \in [amount : Nat, unbondAt : Nat]
           /\ validators[u].unbonding.amount \in Nat
           /\ Principal(validators[u]) \in Nat
           /\ Principal(validators[u]) = validators[u].staked + validators[u].unbonding.amount
           /\ now \in Nat /\ stakerWallet \in [Stakers -> Nat]
           /\ stakesHeld \in Nat /\ ubiPool \in Nat /\ drawn \in Nat /\ totalStaked \in Nat
           /\ activeCount \in Nat
           /\ totalStaked = Total(Stakes)
           /\ stakesHeld + drawn >= Total(Stakes) + Total(Unbonding)
           /\ Total(Stakes) \in Nat /\ Total(Unbonding) \in Nat
           /\ validators[u].isActive => validators[u].staked >= MIN_STAKE
           /\ MIN_STAKE \in Nat /\ MIN_STAKE > 0
  <1>1. /\ validators \in [Stakers -> Validator] /\ validators[u] \in Validator
        /\ now \in Nat /\ stakerWallet \in [Stakers -> Nat]
        /\ stakesHeld \in Nat /\ ubiPool \in Nat /\ drawn \in Nat /\ totalStaked \in Nat
        /\ activeCount \in Nat
    BY DEF StakingIInv, StakingTypeOK
  <1>2. /\ validators[u].staked \in Nat /\ validators[u].rewardDebt \in Nat
        /\ validators[u].lastStakeTime \in Nat /\ validators[u].isActive \in BOOLEAN
        /\ validators[u].unbonding.amount \in Nat /\ Principal(validators[u]) \in Nat
    BY <1>1, EntryFacts
  <1>3. validators[u].unbonding \in [amount : Nat, unbondAt : Nat]
    BY <1>1 DEF Validator
  <1>4. validators[u].lastStakeTime <= now
    BY DEF StakingIInv, StakedInPast
  <1>5. totalStaked = Total(Stakes) /\ stakesHeld + drawn >= Total(Stakes) + Total(Unbonding)
    BY DEF StakingIInv, PrincipalHeld, StakedIsSum
  <1>6. validators[u].isActive => validators[u].staked >= MIN_STAKE
    BY DEF StakingIInv, RollInv, ActiveUsers
  <1>7. Total(Stakes) \in Nat /\ Total(Unbonding) \in Nat
    <2>1. \A x \in Stakers : validators[x] \in Validator
      BY <1>1
    <2>2. \A x \in Stakers : validators[x].staked \in Nat /\ validators[x].unbonding.amount \in Nat
      BY <2>1, EntryFacts
    <2>3. Stakes \in [Stakers -> Nat] /\ Unbonding \in [Stakers -> Nat]
      BY <2>2 DEF Stakes, Unbonding
    <2>4. IsFiniteSet(Stakers)
      BY StakingConstants
    <2>5. SumFunctionOnSet(Stakes, Stakers) \in Nat
      BY <2>3, <2>4, SumOfNats
    <2>6. SumFunctionOnSet(Unbonding, Stakers) \in Nat
      BY <2>3, <2>4, SumOfNats
    <2> QED BY <2>5, <2>6 DEF Total
  <1>8. MIN_STAKE \in Nat /\ MIN_STAKE > 0
    BY StakingConstants
  <1> QED BY <1>1, <1>2, <1>3, <1>4, <1>5, <1>6, <1>7, <1>8 DEF Principal

-----------------------------------------------------------------------------
(* Every operation. *)

LEMMA StakeSafe ==
    ASSUME StakingIInv, NEW u \in Stakers, NEW amount \in StakeAmounts, Stake(u, amount), now' = now
    PROVE  StakingIInv' /\ NoGain
  <1> DEFINE v == validators[u]
             p == PendingRewards(u)
             x == IF v.isActive THEN SetAside(v, p)
                                ELSE [v EXCEPT !.isActive = TRUE, !.lastStakeTime = now]
             y == [x EXCEPT !.staked = @ + amount]
  <1>0. /\ validators \in [Stakers -> Validator] /\ v \in Validator
        /\ v.staked \in Nat /\ v.rewardDebt \in Nat /\ v.lastStakeTime <= now
        /\ v.isActive \in BOOLEAN /\ v.unbonding \in [amount : Nat, unbondAt : Nat]
        /\ v.unbonding.amount \in Nat /\ Principal(v) = v.staked + v.unbonding.amount
        /\ now \in Nat /\ stakerWallet \in [Stakers -> Nat]
        /\ stakesHeld \in Nat /\ ubiPool \in Nat /\ drawn \in Nat /\ totalStaked \in Nat
        /\ stakesHeld + drawn >= Total(Stakes) + Total(Unbonding)
        /\ Total(Stakes) \in Nat /\ Total(Unbonding) \in Nat
        /\ v.isActive => v.staked >= MIN_STAKE
        /\ MIN_STAKE \in Nat /\ MIN_STAKE > 0
    BY StepFacts
  <1>1. amount \in Nat /\ amount >= MIN_STAKE
    BY StakingConstants DEF Stake
  <1>2. p \in Nat /\ p = PendingOf(v)
    BY <1>0, PendingIs, PendingNat
  <1> HIDE DEF p
  <1>3. x \in Validator /\ x.staked = v.staked /\ x.unbonding = v.unbonding /\ x.isActive = TRUE
        /\ x.lastStakeTime = now /\ x.rewardDebt = IF v.isActive THEN v.rewardDebt + p ELSE v.rewardDebt
    <2>1. CASE v.isActive
      <3>1. x = [v EXCEPT !.rewardDebt = @ + p, !.lastStakeTime = now]
        BY <2>1 DEF SetAside
      <3>2. v.rewardDebt + p \in Nat
        BY <1>0, <1>2
      <3> QED BY <1>0, <2>1, <3>1, <3>2 DEF Validator
    <2>2. CASE ~v.isActive
      <3>1. x = [v EXCEPT !.isActive = TRUE, !.lastStakeTime = now]
        BY <2>2
      <3> QED BY <1>0, <2>2, <3>1 DEF Validator
    <2> QED BY <1>0, <2>1, <2>2
  <1>4. /\ validators' = [validators EXCEPT ![u] = y]
        /\ PayIn(u, amount)
        /\ totalStaked' = totalStaked + amount
        /\ UNCHANGED <<ubiPool, drawn>>
    BY DEF Stake, p
  <1>5. v.isActive => UNCHANGED <<listVars, activeCount>>
    BY DEF Stake
  <1>6. ~v.isActive => Enlist(u) /\ activeCount' = activeCount + 1
    BY DEF Stake
  <1> HIDE DEF x
  <1>7. y \in Validator /\ y.staked = v.staked + amount /\ y.unbonding = v.unbonding
        /\ y.isActive = TRUE /\ y.lastStakeTime = now
        /\ y.rewardDebt = IF v.isActive THEN v.rewardDebt + p ELSE v.rewardDebt
    <2>1. x.staked + amount \in Nat
      BY <1>0, <1>1, <1>3
    <2> QED BY <1>3, <2>1 DEF Validator
  <1> HIDE DEF y
  <1>8. PICK w \in Validator : w = y
    BY <1>7
  <1>9. Principal(w) = Principal(v) + amount /\ Principal(w) > 0
    BY <1>0, <1>1, <1>7, <1>8 DEF Principal
  <1>10. ListedAs(validatorList', listIndex', ExposedAfter(u, w))
    <2>1. CASE v.isActive
      <3>1. Principal(v) > 0
        BY <1>0, <2>1
      <3> QED BY <1>5, <1>9, <2>1, <3>1, ListKept
    <2>2. CASE ~v.isActive
      <3>1. ListedAs(validatorList', listIndex', Exposed \cup {u})
        BY <1>6, <2>2, Enlisted
      <3> QED BY <1>9, <3>1 DEF ExposedAfter
    <2> QED BY <2>1, <2>2
  <1>11. CountFollows(v.isActive, w.isActive)
    BY <1>0, <1>5, <1>6, <1>7, <1>8 DEF CountFollows
  <1>12. /\ stakerWallet[u] >= amount /\ stakerWallet' = [stakerWallet EXCEPT ![u] = @ - amount]
         /\ stakesHeld' = stakesHeld + amount
    BY <1>4 DEF PayIn
  <1>13. stakerWallet' \in [Stakers -> Nat] /\ stakesHeld' \in Nat
    BY <1>0, <1>1, <1>12
  <1>14. stakesHeld' + drawn' >= Total(Stakes) + Total(Unbonding) - Principal(v) + Principal(w)
    BY <1>0, <1>1, <1>4, <1>9, <1>12
  <1>15. totalStaked' = totalStaked - v.staked + w.staked
    BY <1>0, <1>1, <1>4, <1>7, <1>8
  <1>16. /\ validators' = [validators EXCEPT ![u] = w] /\ w.lastStakeTime <= now
         /\ (w.isActive => w.staked >= MIN_STAKE)
         /\ ubiPool' \in Nat /\ drawn' \in Nat
    BY <1>0, <1>1, <1>4, <1>7, <1>8
  <1>17. StakingIInv'
    BY <1>10, <1>11, <1>13, <1>14, <1>15, <1>16, EntryMoves
  <1>18. ASSUME v.isActive, v.rewardDebt = 0 PROVE PendingOf(w) <= PendingOf(v)
    <2>1. w.rewardDebt = p /\ w.lastStakeTime = now /\ w.staked \in Nat
      BY <1>0, <1>1, <1>2, <1>7, <1>8, <1>18
    <2>2. now - w.lastStakeTime = 0 /\ Earned(w.staked, 0) = 0
      BY <1>0, <2>1, EarnedAtOnce
    <2>3. PendingOf(w) \in {0, p}
      BY <1>2, <2>1, <2>2 DEF PendingOf
    <2> QED BY <1>2, <2>3
  <1>19. NoGain
    BY <1>16, <1>18, OnlyOneGains
  <1> QED BY <1>17, <1>19

LEMMA InitiateUnstakeSafe ==
    ASSUME StakingIInv, NEW u \in Stakers, NEW amount \in Nat, InitiateUnstake(u, amount), now' = now
    PROVE  StakingIInv' /\ NoGain
  <1> DEFINE v == validators[u]
             request == [amount |-> amount, unbondAt |-> now + UNBONDING_PERIOD]
             y == [v EXCEPT !.staked = @ - amount, !.unbonding = request,
                            !.isActive = v.staked - amount >= MIN_STAKE]
  <1>0. /\ validators \in [Stakers -> Validator] /\ v \in Validator
        /\ v.staked \in Nat /\ v.rewardDebt \in Nat /\ v.lastStakeTime \in Nat /\ v.lastStakeTime <= now
        /\ v.unbonding.amount \in Nat /\ Principal(v) = v.staked + v.unbonding.amount
        /\ now \in Nat /\ stakerWallet \in [Stakers -> Nat]
        /\ stakesHeld \in Nat /\ ubiPool \in Nat /\ drawn \in Nat /\ totalStaked \in Nat
        /\ stakesHeld + drawn >= Total(Stakes) + Total(Unbonding)
        /\ Total(Stakes) \in Nat /\ Total(Unbonding) \in Nat
        /\ MIN_STAKE \in Nat /\ MIN_STAKE > 0
    BY StepFacts
  <1>1. /\ v.isActive /\ v.staked >= amount /\ v.unbonding.amount = 0
        /\ totalStaked' = totalStaked - amount
        /\ activeCount' = IF v.staked - amount < MIN_STAKE THEN activeCount - 1 ELSE activeCount
        /\ UNCHANGED <<listVars, moneyVars>>
    BY DEF InitiateUnstake
  <1>2. validators' = [validators EXCEPT ![u] = y]
    BY DEF InitiateUnstake
  <1>3. request \in [amount : Nat, unbondAt : Nat] /\ request.amount = amount
    BY <1>0, StakingConstants
  <1> HIDE DEF request
  <1>4. v.staked - amount \in Nat /\ (v.staked - amount >= MIN_STAKE) \in BOOLEAN
    BY <1>0, <1>1
  <1>5. y \in Validator /\ y.staked = v.staked - amount /\ y.unbonding = request
        /\ y.isActive = (v.staked - amount >= MIN_STAKE) /\ y.lastStakeTime = v.lastStakeTime
        /\ y.rewardDebt = v.rewardDebt
    BY <1>0, <1>3, <1>4 DEF Validator
  <1> HIDE DEF y
  <1>6. PICK w \in Validator : w = y
    BY <1>5
  <1>7. Principal(w) = Principal(v)
    BY <1>0, <1>1, <1>3, <1>5, <1>6 DEF Principal
  <1>8. ListedAs(validatorList', listIndex', ExposedAfter(u, w))
    BY <1>1, <1>7, ListKept
  <1>9. CountFollows(v.isActive, w.isActive)
    <2>1. CASE v.staked - amount >= MIN_STAKE
      <3>1. activeCount' = activeCount
        BY <1>0, <1>1, <1>4, <2>1
      <3>2. w.isActive = TRUE
        <4> DEFINE flag == v.staked - amount >= MIN_STAKE
        <4>1. w.isActive = flag /\ flag
          BY <1>5, <1>6, <2>1
        <4> HIDE DEF flag
        <4> QED BY Zenon, <4>1
      <3> QED BY <1>1, <3>1, <3>2 DEF CountFollows
    <2>2. CASE v.staked - amount < MIN_STAKE
      <3>1. activeCount' = activeCount - 1
        BY <1>1, <2>2
      <3>2. w.isActive = FALSE
        <4> DEFINE flag == v.staked - amount >= MIN_STAKE
        <4>1. ~flag
          BY <1>0, <1>4, <2>2
        <4>2. w.isActive = flag
          BY <1>5, <1>6
        <4>3. flag \in BOOLEAN
          BY <1>4
        <4> HIDE DEF flag
        <4>4. flag = FALSE
          BY <4>1, <4>3
        <4> QED BY Zenon, <4>2, <4>4
      <3> QED BY <1>1, <3>1, <3>2 DEF CountFollows
    <2> QED BY <1>0, <1>4, <2>1, <2>2
  <1>10. stakerWallet' \in [Stakers -> Nat] /\ stakesHeld' \in Nat /\ ubiPool' \in Nat /\ drawn' \in Nat
    BY <1>0, <1>1 DEF moneyVars
  <1>11. stakesHeld' + drawn' >= Total(Stakes) + Total(Unbonding) - Principal(v) + Principal(w)
    BY <1>0, <1>1, <1>7 DEF moneyVars
  <1>12. totalStaked' = totalStaked - v.staked + w.staked
    BY <1>0, <1>1, <1>5, <1>6
  <1>13. /\ validators' = [validators EXCEPT ![u] = w] /\ w.lastStakeTime <= now
         /\ (w.isActive => w.staked >= MIN_STAKE)
    BY <1>0, <1>2, <1>5, <1>6
  <1>14. StakingIInv'
    BY <1>8, <1>9, <1>10, <1>11, <1>12, <1>13, EntryMoves
  <1>15. PendingOf(w) <= PendingOf(v)
    <2>1. v.staked \in Nat /\ w.staked \in Nat /\ w.staked <= v.staked /\ now - v.lastStakeTime \in Nat
      BY <1>0, <1>1, <1>4, <1>5, <1>6
    <2>2. /\ Earned(w.staked, now - v.lastStakeTime) \in Nat
          /\ Earned(v.staked, now - v.lastStakeTime) \in Nat
          /\ Earned(w.staked, now - v.lastStakeTime) <= Earned(v.staked, now - v.lastStakeTime)
      BY <2>1, EarnedMonotone
    <2>3. w.lastStakeTime = v.lastStakeTime /\ w.rewardDebt = v.rewardDebt
      BY <1>5, <1>6
    <2> QED BY <1>0, <1>1, <2>1, <2>2, <2>3 DEF PendingOf
  <1>16. NoGain
    BY <1>13, <1>15, OnlyOneGains
  <1> QED BY <1>14, <1>16

LEMMA CompleteUnstakeSafe ==
    ASSUME StakingIInv, NEW u \in Stakers, CompleteUnstake(u), now' = now
    PROVE  StakingIInv' /\ NoGain
  <1> DEFINE v == validators[u]
             amount == v.unbonding.amount
             y == [v EXCEPT !.unbonding = NoRequest]
  <1>0. /\ validators \in [Stakers -> Validator] /\ v \in Validator
        /\ v.staked \in Nat /\ v.rewardDebt \in Nat /\ v.lastStakeTime \in Nat /\ v.lastStakeTime <= now
        /\ v.isActive \in BOOLEAN
        /\ amount \in Nat /\ Principal(v) = v.staked + amount
        /\ now \in Nat /\ stakerWallet \in [Stakers -> Nat]
        /\ stakesHeld \in Nat /\ ubiPool \in Nat /\ drawn \in Nat /\ totalStaked \in Nat
        /\ stakesHeld + drawn >= Total(Stakes) + Total(Unbonding)
        /\ Total(Stakes) \in Nat /\ Total(Unbonding) \in Nat
        /\ v.isActive => v.staked >= MIN_STAKE
    BY StepFacts
  <1>1. /\ amount > 0 /\ stakesHeld >= amount
        /\ stakerWallet' = [stakerWallet EXCEPT ![u] = @ + amount] /\ stakesHeld' = stakesHeld - amount
        /\ UNCHANGED <<totalStaked, activeCount, ubiPool, drawn>>
    BY DEF CompleteUnstake, PayOut
  <1>a. v.staked = 0 => Delist(u)
    BY DEF CompleteUnstake
  <1>b. v.staked # 0 => UNCHANGED listVars
    BY DEF CompleteUnstake
  <1>2. validators' = [validators EXCEPT ![u] = y]
    BY <1>0 DEF CompleteUnstake
  <1>3. NoRequest \in [amount : Nat, unbondAt : Nat] /\ NoRequest.amount = 0
    BY DEF NoRequest
  <1>4. y \in Validator /\ y.staked = v.staked /\ y.unbonding = NoRequest
        /\ y.isActive = v.isActive /\ y.lastStakeTime = v.lastStakeTime /\ y.rewardDebt = v.rewardDebt
    BY <1>0, <1>3 DEF Validator
  <1> HIDE DEF y
  <1>5. PICK w \in Validator : w = y
    BY <1>4
  <1>6. Principal(w) = v.staked
    BY <1>0, <1>3, <1>4, <1>5 DEF Principal
  <1>7. ListedAs(validatorList', listIndex', ExposedAfter(u, w))
    <2>1. CASE v.staked = 0
      <3>1. ListedAs(validatorList', listIndex', Exposed \ {u})
        BY <1>a, <2>1, Delisted
      <3> QED BY <1>6, <2>1, <3>1 DEF ExposedAfter
    <2>2. CASE v.staked # 0
      <3>1. Principal(w) > 0 /\ Principal(v) > 0
        BY <1>0, <1>6, <2>2
      <3> QED BY <1>b, <2>2, <3>1, ListKept
    <2> QED BY <2>1, <2>2
  <1>8. CountFollows(v.isActive, w.isActive)
    BY <1>1, <1>4, <1>5 DEF CountFollows
  <1>9. stakerWallet' \in [Stakers -> Nat] /\ stakesHeld' \in Nat /\ ubiPool' \in Nat /\ drawn' \in Nat
    BY <1>0, <1>1
  <1>10. stakesHeld' + drawn' >= Total(Stakes) + Total(Unbonding) - Principal(v) + Principal(w)
    BY <1>0, <1>1, <1>6
  <1>11. totalStaked' = totalStaked - v.staked + w.staked
    BY <1>0, <1>1, <1>4, <1>5
  <1>12. /\ validators' = [validators EXCEPT ![u] = w] /\ w.lastStakeTime <= now
         /\ (w.isActive => w.staked >= MIN_STAKE)
    BY <1>0, <1>2, <1>4, <1>5
  <1>13. StakingIInv'
    BY <1>7, <1>8, <1>9, <1>10, <1>11, <1>12, EntryMoves
  <1>14. PendingOf(v) \in Nat /\ PendingOf(w) = PendingOf(v)
    <2>1. PendingOf(v) \in Nat
      BY <1>0, PendingNat
    <2>2. PendingOf(w) = PendingOf(v)
      BY <1>4, <1>5 DEF PendingOf
    <2> QED BY <2>1, <2>2
  <1>15. PendingOf(w) <= PendingOf(v)
    BY <1>14
  <1>16. NoGain
    BY <1>12, <1>15, OnlyOneGains
  <1> QED BY <1>13, <1>16

Requests == [amount : Nat, unbondAt : Nat]

LEMMA RequestReduced ==
    ASSUME NEW q \in Requests, NEW rest \in Nat, NEW b, b = [q EXCEPT !.amount = rest]
    PROVE  b \in Requests /\ b.amount = rest
  BY DEF Requests

StakeLost(a, b) == [a EXCEPT !.staked = 0, !.unbonding = b]

LEMMA StakeGone ==
    ASSUME NEW a \in Validator, NEW b \in Requests, NEW z, z = StakeLost(a, b)
    PROVE  /\ z \in Validator /\ z.staked = 0 /\ z.unbonding = b
           /\ z.isActive = a.isActive /\ z.lastStakeTime = a.lastStakeTime
           /\ z.rewardDebt = a.rewardDebt
  <1>1. b \in [amount : Nat, unbondAt : Nat]
    BY DEF Requests
  <1>2. z \in Validator
    BY <1>1 DEF Validator, StakeLost
  <1>3. z.staked = 0 /\ z.unbonding = b
    BY DEF Validator, StakeLost
  <1>4. /\ z.isActive = a.isActive /\ z.lastStakeTime = a.lastStakeTime
        /\ z.rewardDebt = a.rewardDebt
    BY DEF Validator, StakeLost
  <1> QED BY <1>2, <1>3, <1>4

LEMMA SlashSafe ==
    ASSUME StakingIInv, NEW u \in Stakers, Slash(u), now' = now
    PROVE  StakingIInv' /\ NoGain
  <1> DEFINE v == validators[u]
             amount == ((v.staked + v.unbonding.amount) * slashBPS) \div 10000
             x == Slashed(v, amount)
             y == [x EXCEPT !.isActive = @ /\ x.staked >= MIN_STAKE]
  <1>0. /\ validators \in [Stakers -> Validator] /\ v \in Validator
        /\ v.staked \in Nat /\ v.rewardDebt \in Nat /\ v.lastStakeTime \in Nat /\ v.lastStakeTime <= now
        /\ v.isActive \in BOOLEAN /\ v.unbonding \in [amount : Nat, unbondAt : Nat]
        /\ v.unbonding.amount \in Nat
        /\ Principal(v) \in Nat /\ Principal(v) = v.staked + v.unbonding.amount
        /\ now \in Nat /\ stakerWallet \in [Stakers -> Nat]
        /\ stakesHeld \in Nat /\ ubiPool \in Nat /\ drawn \in Nat /\ totalStaked \in Nat
        /\ stakesHeld + drawn >= Total(Stakes) + Total(Unbonding)
        /\ Total(Stakes) \in Nat /\ Total(Unbonding) \in Nat
        /\ v.isActive => v.staked >= MIN_STAKE
        /\ MIN_STAKE \in Nat /\ MIN_STAKE > 0
    BY StepFacts
  <1>1. amount = Part(Principal(v), slashBPS)
    BY <1>0 DEF Part
  <1>2. slashBPS \in Nat /\ slashBPS <= 10000
    BY StakingConstants
  <1>3. amount \in Nat /\ amount <= Principal(v)
    <2>1. Part(Principal(v), slashBPS) \in Nat /\ Part(Principal(v), slashBPS) <= Principal(v)
      BY <1>0, <1>2, PartBounded
    <2> QED BY <1>1, <2>1
  <1>4. /\ v.isActive \/ v.unbonding.amount > 0
        /\ validators' = [validators EXCEPT ![u] = y]
        /\ totalStaked' = totalStaked - (v.staked - x.staked)
        /\ activeCount' = IF x.staked < MIN_STAKE /\ v.isActive THEN activeCount - 1 ELSE activeCount
        /\ stakesHeld >= amount /\ stakesHeld' = stakesHeld - amount /\ ubiPool' = ubiPool + amount
        /\ UNCHANGED <<stakerWallet, drawn>>
    BY DEF Slash
  <1>5. /\ (x.staked = 0 /\ x.unbonding.amount = 0) => Delist(u)
        /\ ~(x.staked = 0 /\ x.unbonding.amount = 0) => UNCHANGED listVars
    BY DEF Slash
  <1> HIDE DEF amount
  <1>6. /\ x \in Validator /\ x.staked \in Nat /\ x.staked <= v.staked
        /\ x.unbonding.amount \in Nat
        /\ x.staked + x.unbonding.amount = Principal(v) - amount
        /\ x.isActive = v.isActive /\ x.lastStakeTime = v.lastStakeTime /\ x.rewardDebt = v.rewardDebt
    <2>1. CASE amount <= v.staked
      <3>1. x = [v EXCEPT !.staked = @ - amount]
        BY <2>1 DEF Slashed
      <3>2. v.staked - amount \in Nat
        BY <1>0, <1>3, <2>1
      <3>3. x \in Validator /\ x.staked = v.staked - amount /\ x.unbonding = v.unbonding
            /\ x.isActive = v.isActive /\ x.lastStakeTime = v.lastStakeTime /\ x.rewardDebt = v.rewardDebt
        BY <1>0, <3>1, <3>2 DEF Validator
      <3> HIDE DEF x
      <3> QED BY <1>0, <1>3, <2>1, <3>2, <3>3
    <2>2. CASE amount > v.staked
      <3>1. x = [v EXCEPT !.staked = 0,
                          !.unbonding = [v.unbonding EXCEPT !.amount = @ - (amount - v.staked)]]
        <4>1. ~(amount <= v.staked)
          BY <1>0, <1>3, <2>2
        <4> QED BY <4>1 DEF Slashed
      <3>2. PICK rest \in Nat : rest = v.unbonding.amount - (amount - v.staked)
        BY <1>0, <1>3, <2>2
      <3>3. PICK q \in Requests : q = v.unbonding
        BY <1>0 DEF Requests
      <3>a. PICK b : b = [q EXCEPT !.amount = rest]
        OBVIOUS
      <3>4. b \in Requests /\ b.amount = rest
        BY <3>a, RequestReduced
      <3>5. x = StakeLost(v, b)
        BY <3>1, <3>2, <3>3, <3>a DEF StakeLost
      <3>6. x \in Validator /\ x.staked = 0 /\ x.unbonding = b
            /\ x.isActive = v.isActive /\ x.lastStakeTime = v.lastStakeTime /\ x.rewardDebt = v.rewardDebt
        <4> HIDE DEF x
        <4> QED BY <1>0, <3>4, <3>5, StakeGone
      <3> HIDE DEF x
      <3> QED BY <1>0, <1>3, <2>2, <3>2, <3>4, <3>6
    <2> QED BY <1>0, <1>3, <2>1, <2>2
  <1> HIDE DEF x
  <1>7. PICK flag \in BOOLEAN : flag = (x.isActive /\ x.staked >= MIN_STAKE)
    OBVIOUS
  <1>8. y = [x EXCEPT !.isActive = flag]
    BY <1>6, <1>7 DEF Validator
  <1>9. /\ y \in Validator /\ y.staked = x.staked /\ y.unbonding = x.unbonding
        /\ y.isActive = flag /\ y.lastStakeTime = v.lastStakeTime /\ y.rewardDebt = v.rewardDebt
    BY <1>6, <1>8 DEF Validator
  <1> HIDE DEF y
  <1>10. PICK w \in Validator : w = y
    BY <1>9
  <1>11. Principal(w) = Principal(v) - amount /\ w.staked \in Nat /\ w.staked <= v.staked
    BY <1>6, <1>9, <1>10 DEF Principal
  <1>12. Principal(v) > 0
    BY <1>0, <1>4
  <1>13. ListedAs(validatorList', listIndex', ExposedAfter(u, w))
    <2>1. CASE x.staked = 0 /\ x.unbonding.amount = 0
      <3>1. ListedAs(validatorList', listIndex', Exposed \ {u})
        BY <1>5, <2>1, Delisted
      <3>2. ~(Principal(w) > 0)
        BY <1>6, <1>11, <2>1
      <3> QED BY <3>1, <3>2 DEF ExposedAfter
    <2>2. CASE ~(x.staked = 0 /\ x.unbonding.amount = 0)
      <3>1. Principal(w) > 0
        BY <1>6, <1>11, <2>2
      <3> QED BY <1>5, <1>12, <2>2, <3>1, ListKept
    <2> QED BY <2>1, <2>2
  <1>14. flag = TRUE \/ flag = FALSE
    OBVIOUS
  <1>15. flag = TRUE => x.isActive = TRUE /\ x.staked >= MIN_STAKE
    <2>1. x.isActive \in BOOLEAN
      BY <1>0, <1>6
    <2> QED BY <1>7, <2>1
  <1>16. flag = FALSE => v.isActive = FALSE \/ x.staked < MIN_STAKE
    BY <1>0, <1>6, <1>7
  <1>17. CountFollows(v.isActive, w.isActive)
    <2>1. w.isActive = flag
      BY <1>9, <1>10
    <2>2. CASE flag = TRUE
      <3>1. v.isActive = TRUE /\ activeCount' = activeCount
        BY <1>0, <1>4, <1>6, <1>15, <2>2
      <3> QED BY <2>1, <2>2, <3>1 DEF CountFollows
    <2>3. CASE flag = FALSE /\ v.isActive = FALSE
      <3>1. activeCount' = activeCount
        BY <1>4, <2>3
      <3> QED BY <2>1, <2>3, <3>1 DEF CountFollows
    <2>4. CASE flag = FALSE /\ v.isActive = TRUE
      <3>1. activeCount' = activeCount - 1
        BY <1>4, <1>16, <2>4
      <3> QED BY <2>1, <2>4, <3>1 DEF CountFollows
    <2> QED BY <1>0, <1>14, <2>2, <2>3, <2>4
  <1>18. stakerWallet' \in [Stakers -> Nat] /\ stakesHeld' \in Nat /\ ubiPool' \in Nat /\ drawn' \in Nat
    BY <1>0, <1>3, <1>4
  <1>19. stakesHeld' + drawn' >= Total(Stakes) + Total(Unbonding) - Principal(v) + Principal(w)
    BY <1>0, <1>3, <1>4, <1>11
  <1>20. totalStaked' = totalStaked - v.staked + w.staked
    BY <1>0, <1>4, <1>6, <1>9, <1>10
  <1>21. /\ validators' = [validators EXCEPT ![u] = w] /\ w.lastStakeTime <= now
         /\ (w.isActive => w.staked >= MIN_STAKE)
    BY <1>0, <1>4, <1>9, <1>10, <1>14, <1>15
  <1>22. StakingIInv'
    BY <1>13, <1>17, <1>18, <1>19, <1>20, <1>21, EntryMoves
  <1>23. ASSUME v.isActive PROVE PendingOf(w) <= PendingOf(v)
    <2>1. now - v.lastStakeTime \in Nat
      BY <1>0
    <2>2. /\ Earned(w.staked, now - v.lastStakeTime) \in Nat
          /\ Earned(v.staked, now - v.lastStakeTime) \in Nat
          /\ Earned(w.staked, now - v.lastStakeTime) <= Earned(v.staked, now - v.lastStakeTime)
      BY <1>0, <1>11, <2>1, EarnedMonotone
    <2>3. w.lastStakeTime = v.lastStakeTime /\ w.rewardDebt = v.rewardDebt
      BY <1>9, <1>10
    <2>4. v.staked # 0
      BY <1>0, <1>23
    <2> QED BY <1>0, <1>23, <2>2, <2>3, <2>4 DEF PendingOf
  <1>24. NoGain
    BY <1>21, <1>23, OnlyOneGains
  <1> QED BY <1>22, <1>24

LEMMA ClaimRewardsSafe ==
    ASSUME StakingIInv, NEW u \in Stakers, ClaimRewards(u), now' = now
    PROVE  StakingIInv' /\ NoGain
  <1> DEFINE v == validators[u]
             rewards == PendingRewards(u)
             free == stakesHeld - Total(Stakes) - Total(Unbonding)
             y == [v EXCEPT !.lastStakeTime = now, !.rewardDebt = 0]
  <1>0. /\ validators \in [Stakers -> Validator] /\ v \in Validator
        /\ v.staked \in Nat /\ v.lastStakeTime \in Nat /\ v.lastStakeTime <= now
        /\ v.isActive \in BOOLEAN
        /\ v.unbonding.amount \in Nat
        /\ Principal(v) \in Nat /\ Principal(v) = v.staked + v.unbonding.amount
        /\ now \in Nat /\ stakerWallet \in [Stakers -> Nat]
        /\ stakesHeld \in Nat /\ ubiPool \in Nat /\ drawn \in Nat /\ totalStaked \in Nat
        /\ stakesHeld + drawn >= Total(Stakes) + Total(Unbonding)
        /\ Total(Stakes) \in Nat /\ Total(Unbonding) \in Nat
        /\ v.isActive => v.staked >= MIN_STAKE
    BY StepFacts
  <1>1. rewards \in Nat /\ rewards = PendingOf(v)
    BY <1>0, PendingIs, PendingNat
  <1>2. /\ v.isActive /\ stakesHeld >= rewards
        /\ stakerWallet' = [stakerWallet EXCEPT ![u] = @ + rewards] /\ stakesHeld' = stakesHeld - rewards
        /\ drawn' = IF rewards <= free THEN drawn
                    ELSE drawn + rewards - (IF free > 0 THEN free ELSE 0)
        /\ UNCHANGED <<listVars, totalStaked, activeCount, ubiPool>>
    BY DEF ClaimRewards, PayOut
  <1>3. validators' = [validators EXCEPT ![u] = y]
    <2>1. validators' = [validators EXCEPT ![u].lastStakeTime = now, ![u].rewardDebt = 0]
      BY DEF ClaimRewards
    <2> QED BY <1>0, <2>1
  <1> HIDE DEF rewards
  <1>4. PICK s \in Nat : s = Total(Stakes) + Total(Unbonding)
    BY <1>0
  <1>5. free = stakesHeld - s /\ stakesHeld + drawn >= s
    BY <1>0, <1>4
  <1> HIDE DEF free
  <1>6. free \in Int /\ stakerWallet' \in [Stakers -> Nat] /\ stakesHeld' \in Nat
    BY <1>0, <1>1, <1>2, <1>5
  <1>7. drawn' \in Nat /\ stakesHeld' + drawn' >= s
    <2>1. CASE rewards <= free
      BY <1>0, <1>1, <1>2, <1>5, <1>6, <2>1
    <2>2. CASE rewards > free /\ free > 0
      <3>1. drawn' = drawn + rewards - free
        BY <1>1, <1>2, <1>6, <2>2
      <3> QED BY <1>0, <1>1, <1>2, <1>5, <1>6, <2>2, <3>1
    <2>3. CASE rewards > free /\ free <= 0
      <3>1. drawn' = drawn + rewards - 0
        BY <1>1, <1>2, <1>6, <2>3
      <3> QED BY <1>0, <1>1, <1>2, <1>5, <1>6, <2>3, <3>1
    <2> QED BY <1>1, <1>6, <2>1, <2>2, <2>3
  <1>8. y \in Validator /\ y.staked = v.staked /\ y.unbonding = v.unbonding
        /\ y.isActive = v.isActive /\ y.lastStakeTime = now /\ y.rewardDebt = 0
    BY <1>0 DEF Validator
  <1> HIDE DEF y
  <1>9. PICK w \in Validator : w = y
    BY <1>8
  <1>10. Principal(w) = Principal(v)
    BY <1>8, <1>9 DEF Principal
  <1>11. ListedAs(validatorList', listIndex', ExposedAfter(u, w))
    BY <1>2, <1>10, ListKept
  <1>12. CountFollows(v.isActive, w.isActive)
    BY <1>2, <1>8, <1>9 DEF CountFollows
  <1>13. stakesHeld' + drawn' >= Total(Stakes) + Total(Unbonding) - Principal(v) + Principal(w)
    BY <1>0, <1>4, <1>6, <1>7, <1>10
  <1>14. totalStaked' = totalStaked - v.staked + w.staked
    BY <1>0, <1>2, <1>8, <1>9
  <1>15. /\ validators' = [validators EXCEPT ![u] = w] /\ w.lastStakeTime <= now
         /\ (w.isActive => w.staked >= MIN_STAKE)
         /\ ubiPool' \in Nat
    BY <1>0, <1>2, <1>3, <1>8, <1>9
  <1>16. StakingIInv'
    BY <1>6, <1>7, <1>11, <1>12, <1>13, <1>14, <1>15, EntryMoves
  <1>17. PendingOf(w) <= PendingOf(v)
    <2>1. now - w.lastStakeTime = 0 /\ Earned(w.staked, 0) = 0
      BY <1>0, <1>8, <1>9, EarnedAtOnce
    <2>2. PendingOf(w) = 0
      BY <1>8, <1>9, <2>1 DEF PendingOf
    <2> QED BY <1>1, <2>2
  <1>18. NoGain
    BY <1>15, <1>17, OnlyOneGains
  <1> QED BY <1>16, <1>18

LEMMA FundSafe ==
    ASSUME StakingIInv, NEW u \in Stakers, NEW amount \in StakeAmounts, Fund(u, amount), now' = now
    PROVE  StakingIInv' /\ NoGain
  <1> DEFINE v == validators[u]
  <1>0. /\ validators \in [Stakers -> Validator] /\ v \in Validator
        /\ v.staked \in Nat /\ v.rewardDebt \in Nat /\ v.lastStakeTime \in Nat /\ v.lastStakeTime <= now
        /\ Principal(v) \in Nat
        /\ now \in Nat /\ stakerWallet \in [Stakers -> Nat]
        /\ stakesHeld \in Nat /\ ubiPool \in Nat /\ drawn \in Nat /\ totalStaked \in Nat
        /\ stakesHeld + drawn >= Total(Stakes) + Total(Unbonding)
        /\ Total(Stakes) \in Nat /\ Total(Unbonding) \in Nat
        /\ v.isActive => v.staked >= MIN_STAKE
    BY StepFacts
  <1>1. amount \in Nat
    BY StakingConstants
  <1>2. /\ stakerWallet[u] >= amount /\ stakerWallet' = [stakerWallet EXCEPT ![u] = @ - amount] /\ stakesHeld' = stakesHeld + amount
        /\ UNCHANGED <<validators, listVars, totalStaked, activeCount, ubiPool, drawn>>
    BY DEF Fund, PayIn
  <1>3. validators' = [validators EXCEPT ![u] = v]
    BY <1>0, <1>2
  <1>4. stakerWallet' \in [Stakers -> Nat] /\ stakesHeld' \in Nat /\ ubiPool' \in Nat /\ drawn' \in Nat
    BY <1>0, <1>1, <1>2
  <1>5. ListedAs(validatorList', listIndex', ExposedAfter(u, v))
    BY <1>0, <1>2, ListKept
  <1>6. CountFollows(v.isActive, v.isActive)
    BY <1>2 DEF CountFollows
  <1>7. stakesHeld' + drawn' >= Total(Stakes) + Total(Unbonding) - Principal(v) + Principal(v)
    BY <1>0, <1>1, <1>2
  <1>8. totalStaked' = totalStaked - v.staked + v.staked
    BY <1>0, <1>2
  <1>9. StakingIInv'
    BY <1>0, <1>3, <1>4, <1>5, <1>6, <1>7, <1>8, EntryMoves
  <1>10. PendingOf(v) <= PendingOf(v)
    BY <1>0, PendingNat
  <1>11. NoGain
    BY <1>0, <1>3, <1>10, OnlyOneGains
  <1> QED BY <1>9, <1>11

-----------------------------------------------------------------------------
LEMMA StakingInitSafe ==
    ASSUME StakingInit
    PROVE  StakingIInv
  <1>0. /\ IsFiniteSet(Stakers) /\ StakerEndowment \in Nat
    BY StakingConstants
  <1>1. \A u \in Stakers : /\ validators[u].staked = 0 /\ validators[u].lastStakeTime = 0
                         /\ validators[u].isActive = FALSE /\ validators[u].unbonding.amount = 0
    BY DEF StakingInit, NoRequest
  <1>2. NoRequest \in [amount : Nat, unbondAt : Nat]
    BY DEF NoRequest
  <1>3. validators \in [Stakers -> Validator]
    BY <1>2 DEF StakingInit, Validator
  <1>4. validatorList = <<>> /\ validatorList \in Seq(Stakers) /\ Len(validatorList) = 0
    BY EmptySeq DEF StakingInit
  <1>5. StakingTypeOK
    BY <1>0, <1>3, <1>4 DEF StakingInit, StakingTypeOK
  <1>6. Exposed = {} /\ ActiveUsers = {} /\ Cardinality({}) = 0
    BY <1>1, FS_EmptySet DEF Exposed, ActiveUsers
  <1>7. ListedAs(validatorList, listIndex, Exposed)
    <2>1. listIndex \in [Stakers -> Nat] /\ \A u \in Stakers : listIndex[u] = 0
      BY DEF StakingInit
    <2> QED BY <1>4, <1>6, <2>1 DEF ListedAs
  <1>8. RollInv
    BY <1>6, <1>7 DEF RollInv, StakingInit
  <1>9. StakedInPast
    BY <1>1 DEF StakedInPast, StakingInit
  <1>10. PrincipalHeld
    <2>1. Stakes \in [Stakers -> Int] /\ \A u \in Stakers : Stakes[u] = 0
      BY <1>1 DEF Stakes
    <2>2. Unbonding \in [Stakers -> Int] /\ \A u \in Stakers : Unbonding[u] = 0
      BY <1>1 DEF Unbonding
    <2>3. Total(Stakes) = 0
      BY <1>0, <2>1, SumOfZeros DEF Total
    <2>4. Total(Unbonding) = 0
      BY <1>0, <2>2, SumOfZeros DEF Total
    <2> QED BY <2>3, <2>4 DEF PrincipalHeld, StakedIsSum, StakingInit
  <1> QED BY <1>5, <1>8, <1>9, <1>10 DEF StakingIInv

LEMMA TimePasses ==
    ASSUME StakingIInv, UNCHANGED stakingVars, now' \in Nat, now <= now'
    PROVE  StakingIInv'
  <1>0. /\ StakingTypeOK /\ RollInv /\ StakedInPast /\ PrincipalHeld
        /\ UNCHANGED <<validators, validatorList, listIndex, totalStaked, activeCount,
                       stakerWallet, stakesHeld, ubiPool, drawn>>
    BY DEF StakingIInv, stakingVars, listVars, moneyVars
  <1>1. StakingTypeOK'
    BY <1>0 DEF StakingTypeOK
  <1>2. RollInv'
    <2>1. Exposed' = Exposed /\ ActiveUsers' = ActiveUsers
      BY <1>0 DEF Exposed, ActiveUsers
    <2> QED BY <1>0, <2>1 DEF RollInv
  <1>3. StakedInPast'
    <2>1. \A u \in Stakers : validators[u] \in Validator /\ now \in Nat
      BY <1>0 DEF StakingTypeOK
    <2>2. \A u \in Stakers : validators[u].lastStakeTime \in Nat
      BY <2>1, EntryFacts
    <2>3. \A u \in Stakers : validators[u].lastStakeTime <= now
      BY <1>0 DEF StakedInPast
    <2>4. \A u \in Stakers : validators'[u].lastStakeTime <= now'
      BY <1>0, <2>1, <2>2, <2>3
    <2> QED BY <2>4 DEF StakedInPast
  <1>4. PrincipalHeld'
    <2>1. Total(Stakes)' = Total(Stakes) /\ Total(Unbonding)' = Total(Unbonding)
      BY <1>0 DEF Total, Stakes, Unbonding
    <2> QED BY <1>0, <2>1 DEF PrincipalHeld, StakedIsSum
  <1> QED BY <1>1, <1>2, <1>3, <1>4 DEF StakingIInv

LEMMA StakingNextSafe ==
    ASSUME StakingIInv, [StakingNext]_<<now, stakingVars>>
    PROVE  StakingIInv' /\ (StakingNext => NoGain)
  <1>0. now \in Nat /\ validators \in [Stakers -> Validator]
    BY DEF StakingIInv, StakingTypeOK
  <1>1. ASSUME NEW u \in Stakers, UserStep(u) \/ Slash(u), now' = now PROVE StakingIInv' /\ NoGain
    <2>1. ASSUME NEW amount \in StakeAmounts, Stake(u, amount) PROVE StakingIInv' /\ NoGain
      BY <1>1, <2>1, StakeSafe
    <2>2. ASSUME NEW amount \in StakeAmounts, InitiateUnstake(u, amount) PROVE StakingIInv' /\ NoGain
      <3>1. amount \in Nat
        BY StakingConstants
      <3> QED BY <1>1, <2>2, <3>1, InitiateUnstakeSafe
    <2>3. ASSUME NEW amount \in StakeAmounts, Fund(u, amount) PROVE StakingIInv' /\ NoGain
      BY <1>1, <2>3, FundSafe
    <2>4. ASSUME InitiateUnstake(u, validators[u].staked) PROVE StakingIInv' /\ NoGain
      <3>1. validators[u].staked \in Nat
        BY StepFacts
      <3> QED BY <1>1, <2>4, <3>1, InitiateUnstakeSafe
    <2>5. ASSUME CompleteUnstake(u) PROVE StakingIInv' /\ NoGain
      BY <1>1, <2>5, CompleteUnstakeSafe
    <2>6. ASSUME ClaimRewards(u) PROVE StakingIInv' /\ NoGain
      BY <1>1, <2>6, ClaimRewardsSafe
    <2>7. ASSUME Slash(u) PROVE StakingIInv' /\ NoGain
      BY <1>1, <2>7, SlashSafe
    <2> QED BY <1>1, <2>1, <2>2, <2>3, <2>4, <2>5, <2>6, <2>7 DEF UserStep
  <1>2. ASSUME Tick, UNCHANGED stakingVars PROVE StakingIInv' /\ NoGain
    <2>1. now' = now + 1
      BY <1>2 DEF Tick
    <2>2. now' \in Nat /\ now <= now' /\ now' # now
      BY <1>0, <2>1
    <2>3. StakingIInv'
      BY <1>2, <2>2, TimePasses
    <2>4. NoGain
      BY <2>2 DEF NoGain
    <2> QED BY <2>3, <2>4
  <1>3. CASE StakingNext
    BY <1>1, <1>2, <1>3 DEF StakingNext
  <1>4. CASE UNCHANGED <<now, stakingVars>>
    <2>1. UNCHANGED stakingVars /\ now' = now /\ now' \in Nat /\ now <= now'
      BY <1>0, <1>4
    <2>2. StakingIInv'
      BY <2>1, TimePasses
    <2>3. ASSUME StakingNext PROVE NoGain
      BY <1>3, <2>3
    <2> QED BY <2>2, <2>3
  <1> QED BY <1>3, <1>4

-----------------------------------------------------------------------------
(* The invariant holds in every state, for any users, amounts, rates, slash *)
(* part, minimum and unbonding period (ValidatorStaking.sol).              *)
THEOREM StakingInvariant == StakingSpec => []StakingIInv
  <1>1. StakingInit => StakingIInv
    BY StakingInitSafe
  <1>2. StakingIInv /\ [StakingNext]_<<now, stakingVars>> => StakingIInv'
    BY StakingNextSafe
  <1> QED BY <1>1, <1>2, PTL DEF StakingSpec

(* Every variable keeps its type: no stake, request or balance goes below   *)
(* zero through any order of unstaking and slashing.                       *)
THEOREM StakingIsTyped == StakingSpec => []StakingTypeOK
  BY StakingInvariant, PTL DEF StakingIInv

(* The four structures of the roll agree with each other and with the       *)
(* stakes (stake, completeUnstake, slash, _removeFromValidatorList).       *)
THEOREM RollStaysExact == StakingSpec => []RollIsExact
  <1>1. StakingIInv => RollIsExact
    <2> SUFFICES ASSUME StakingIInv PROVE RollIsExact
      OBVIOUS
    <2>1. /\ ListedAs(validatorList, listIndex, Exposed)
          /\ activeCount = Cardinality(ActiveUsers)
          /\ \A u \in ActiveUsers : validators[u].staked >= MIN_STAKE
      BY DEF StakingIInv, RollInv
    <2>2. Len(validatorList) = Cardinality(Exposed)
          /\ \A u \in Exposed : validatorList[listIndex[u]] = u
      BY <2>1 DEF ListedAs
    <2>3. validatorList \in Seq(Stakers)
      BY <2>1 DEF ListedAs
    <2>4. Len(validatorList) \in Nat
      BY <2>3, LenProperties
    <2>5. ASSUME NEW u \in Exposed PROVE listIndex[u] \in 1..Len(validatorList)
      <3>1. listIndex[u] \in 0..Len(validatorList) /\ listIndex[u] # 0
        BY <2>1 DEF ListedAs
      <3> QED BY <2>4, <3>1
    <2> QED BY <2>1, <2>2, <2>5 DEF RollIsExact
  <1> QED BY <1>1, StakingInvariant, PTL

(* The contract holds the stakes and what is unbonding, but for rewards     *)
(* drawn on the unbonding part (slash, completeUnstake, claimRewards).     *)
THEOREM PrincipalStaysHeld == StakingSpec => []PrincipalHeld
  BY StakingInvariant, PTL DEF StakingIInv

(* Without time passing nobody's reward grows, but for a rewardDebt that a  *)
(* top-up left (stake, initiateUnstake, slash, claimRewards).              *)
THEOREM OnlyTimeEarns == StakingSpec => EarnedOnlyWithTime
  <1>1. StakingIInv /\ [StakingNext]_<<now, stakingVars>> => [NoGain]_<<now, stakingVars>>
    BY StakingNextSafe
  <1>2. EarnedOnlyWithTime <=> [][NoGain]_<<now, stakingVars>>
    BY DEF EarnedOnlyWithTime, NoGain
  <1> QED BY <1>1, <1>2, StakingInvariant, PTL DEF StakingSpec
===============================================================================
