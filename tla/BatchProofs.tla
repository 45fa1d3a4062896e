---------------------------- MODULE BatchProofs ----------------------------
(***************************************************************************)
(* Proofs about RewardPool.tla and CommutativeBatch.tla for every set of   *)
(* operators, signals, pools and threads and any amounts.                  *)
(***************************************************************************)
EXTENDS CommutativeBatch, FiniteSums

(* What a thread brings is a signal.                                       *)
LEMMA ArrivingSignals == \A th \in Thread : Arriving[th] \subseteq Signal
BY BatchAssumption

-----------------------------------------------------------------------------
(* Claims in progress *)

(* A claim handler has at most two amounts to seed; the first one and the  *)
(* rest make up their total.                                               *)
LEMMA ShortSum ==
    ASSUME NEW s \in Seq(Nat), Len(s) <= 2
    PROVE  /\ SumFunction(s) \in Nat
           /\ s = <<>> => SumFunction(s) = 0
           /\ s # <<>> => /\ Head(s) \in Nat /\ Tail(s) \in Seq(Nat)
                          /\ Len(Tail(s)) <= 2
                          /\ SumFunction(Tail(s)) \in Nat
                          /\ SumFunction(s) = Head(s) + SumFunction(Tail(s))
<1>1. ASSUME NEW u \in Seq(Nat)
      PROVE  /\ Len(u) \in Nat /\ u \in [1..Len(u) -> Nat]
             /\ SumFunction(u) = SumFunctionOnSet(u, 1..Len(u))
  BY DEF SumFunction
<1>2. ASSUME NEW u \in Seq(Nat), Len(u) = 0
      PROVE  SumFunction(u) = 0
  <2>1. 1..0 = {}
    OBVIOUS
  <2>2. SumFunction(u) = SumFunctionOnSet(u, 1..0)
    BY <1>1, <1>2
  <2> QED
    BY <2>1, <2>2, SumEmpty
<1>3. ASSUME NEW u \in Seq(Nat), Len(u) = 1
      PROVE  u[1] \in Nat /\ SumFunction(u) = u[1]
  <2>1. 1..1 = {1} /\ {1} \ {1} = {}
    OBVIOUS
  <2>2. u \in [1..1 -> Nat] /\ SumFunction(u) = SumFunctionOnSet(u, 1..1)
    BY <1>1, <1>3
  <2>6. u[1] \in Nat /\ u[1] \in Int
    BY <2>1, <2>2
  <2>3. IsFiniteSet({1})
    BY FS_Singleton
  <2>4. SumFunctionOnSet(u, {1}) = u[1] + SumFunctionOnSet(u, {1} \ {1})
    BY <2>3, <2>6, SumRemove
  <2>5. SumFunctionOnSet(u, {1}) = u[1] + 0
    BY <2>1, <2>4, SumEmpty
  <2> QED
    BY <2>1, <2>2, <2>5, <2>6
<1>4. ASSUME NEW u \in Seq(Nat), Len(u) = 2
      PROVE  u[1] \in Nat /\ u[2] \in Nat /\ SumFunction(u) = u[1] + u[2]
  <2>1. 1..2 = {1, 2}
    OBVIOUS
  <2>2. u \in [1..2 -> Nat] /\ SumFunction(u) = SumFunctionOnSet(u, 1..2)
    BY <1>1, <1>4
  <2>3. u[1] \in Nat /\ u[2] \in Nat /\ u[1] \in Int /\ u[2] \in Int /\ 1 # 2
    BY <2>1, <2>2
  <2>4. SumFunctionOnSet(u, {1, 2}) = u[1] + u[2]
    BY <2>3, SumPair
  <2> QED
    BY <2>1, <2>2, <2>3, <2>4
<1>5. s = <<>> <=> Len(s) = 0
  OBVIOUS
<1>6. CASE Len(s) = 0
  <2>1. s = <<>> /\ SumFunction(s) = 0 /\ 0 \in Nat
    BY <1>2, <1>5, <1>6
  <2> QED
    BY <2>1, Zenon
<1>7. CASE Len(s) = 1
  <2>1. /\ Head(s) = s[1] /\ Tail(s) \in Seq(Nat) /\ Len(Tail(s)) = 0
    BY <1>5, <1>7
  <2>2. SumFunction(Tail(s)) = 0
    BY <2>1, <1>2
  <2>3. SumFunction(s) = s[1] /\ s[1] \in Nat
    BY <1>3, <1>7
  <2> QED
    <3>1. s # <<>> /\ Head(s) \in Nat /\ Tail(s) \in Seq(Nat)
      BY <1>5, <1>7, <2>1, <2>3
    <3>2. Len(Tail(s)) <= 2 /\ SumFunction(Tail(s)) \in Nat
      BY <2>1, <2>2
    <3>3. SumFunction(s) \in Nat /\ SumFunction(s) = Head(s) + SumFunction(Tail(s))
      BY <2>1, <2>2, <2>3
    <3> QED
      BY <3>1, <3>2, <3>3, Zenon
<1>8. CASE Len(s) = 2
  <2>1. /\ Head(s) = s[1] /\ Tail(s) \in Seq(Nat) /\ Len(Tail(s)) = 1
        /\ Tail(s)[1] = s[2]
    BY <1>5, <1>8
  <2>2. SumFunction(Tail(s)) = s[2]
    BY <2>1, <1>3
  <2>3. SumFunction(s) = s[1] + s[2] /\ s[1] \in Nat /\ s[2] \in Nat
    BY <1>4, <1>8
  <2> QED
    <3>1. s # <<>> /\ Head(s) \in Nat /\ Tail(s) \in Seq(Nat)
      BY <1>5, <1>8, <2>1, <2>3
    <3>2. Len(Tail(s)) <= 2 /\ SumFunction(Tail(s)) \in Nat
      BY <2>1, <2>2, <2>3
    <3>3. SumFunction(s) \in Nat /\ SumFunction(s) = Head(s) + SumFunction(Tail(s))
      BY <2>1, <2>2, <2>3
    <3> QED
      BY <3>1, <3>2, <3>3, Zenon
<1>9. Len(s) = 0 \/ Len(s) = 1 \/ Len(s) = 2
  <2>1. \A n \in Nat : n <= 2 => n = 0 \/ n = 1 \/ n = 2
    OBVIOUS
  <2> QED
    BY <1>1, <2>1
<1> QED
  BY <1>6, <1>7, <1>8, <1>9

(* The amounts of one claim.                                               *)
LEMMA SumOfAmounts ==
    ASSUME NEW n \in Nat, NEW m \in Nat
    PROVE  /\ <<n>> \in Seq(Nat) /\ Len(<<n>>) <= 2
           /\ SumFunction(<<n>>) = n
           /\ <<n, m>> \in Seq(Nat) /\ Len(<<n, m>>) <= 2
           /\ SumFunction(<<n, m>>) = n + m
<1>1. <<>> \in Seq(Nat) /\ Len(<<>>) <= 2
  OBVIOUS
<1>2. SumFunction(<<>>) = 0
  BY <1>1, ShortSum
<1>3. ASSUME NEW k \in Nat
      PROVE  <<k>> \in Seq(Nat) /\ Len(<<k>>) <= 2 /\ SumFunction(<<k>>) = k
  <2>1. /\ <<k>> \in Seq(Nat) /\ Len(<<k>>) <= 2 /\ <<k>> # <<>>
    OBVIOUS
  <2>2. Head(<<k>>) = k /\ Tail(<<k>>) = <<>>
    OBVIOUS
  <2>3. SumFunction(<<k>>) = Head(<<k>>) + SumFunction(Tail(<<k>>))
    BY <2>1, ShortSum
  <2> QED
    BY <1>2, <2>1, <2>2, <2>3
<1>4. /\ <<n, m>> \in Seq(Nat) /\ Len(<<n, m>>) <= 2 /\ <<n, m>> # <<>>
  OBVIOUS
<1>5. Head(<<n, m>>) = n /\ Tail(<<n, m>>) = <<m>>
  OBVIOUS
<1>6. SumFunction(<<n, m>>) = Head(<<n, m>>) + SumFunction(Tail(<<n, m>>))
  BY <1>4, ShortSum
<1> QED
  BY <1>3, <1>4, <1>5, <1>6

(* What the two claim handlers have still to seed.                         *)
Claimed(c) == SumFunction([x \in Claim |-> SumFunction(c[x])])

ShortClaims(c) == c \in [Claim -> Seq(Nat)] /\ \A x \in Claim : Len(c[x]) <= 2

(* The amounts of the two handlers add up.                                 *)
LEMMA ClaimedIsSum ==
    ASSUME NEW c, ShortClaims(c)
    PROVE  /\ Claimed(c) \in Nat
           /\ Claimed(c) = SumFunction(c["operator"]) + SumFunction(c["lp"])
<1> DEFINE f == [x \in Claim |-> SumFunction(c[x])]
<1>1. \A x \in Claim : SumFunction(c[x]) \in Nat
  BY ShortSum DEF ShortClaims
<1>2. /\ f["operator"] = SumFunction(c["operator"]) /\ f["operator"] \in Nat
      /\ f["lp"] = SumFunction(c["lp"]) /\ f["lp"] \in Nat
      /\ DOMAIN f = {"operator", "lp"}
  BY <1>1 DEF Claim
<1> HIDE DEF f
<1>3. SumFunctionOnSet(f, {"operator", "lp"}) = f["operator"] + f["lp"]
  BY <1>2, SumPair
<1>4. Claimed(c) = SumFunctionOnSet(f, {"operator", "lp"})
  BY <1>2 DEF Claimed, SumFunction, f
<1> QED
  BY <1>2, <1>3, <1>4

(* Changing what one handler has still to seed changes the total by the    *)
(* difference.                                                             *)
LEMMA ClaimedExcept ==
    ASSUME NEW c, ShortClaims(c), NEW x \in Claim, NEW s \in Seq(Nat),
           Len(s) <= 2
    PROVE  LET d == [c EXCEPT ![x] = s] IN
           /\ ShortClaims(d)
           /\ Claimed(d) + SumFunction(c[x]) = Claimed(c) + SumFunction(s)
<1> DEFINE d == [c EXCEPT ![x] = s]
<1>1. ShortClaims(d)
  BY DEF ShortClaims
<1>2. /\ Claimed(d) = SumFunction(d["operator"]) + SumFunction(d["lp"])
      /\ Claimed(c) = SumFunction(c["operator"]) + SumFunction(c["lp"])
  BY <1>1, ClaimedIsSum
<1>3. /\ SumFunction(c["operator"]) \in Nat /\ SumFunction(c["lp"]) \in Nat
      /\ SumFunction(s) \in Nat
  BY ShortSum DEF ShortClaims, Claim
<1>4. CASE x = "operator"
  <2>1. d["operator"] = s /\ d["lp"] = c["lp"]
    BY <1>4 DEF ShortClaims, Claim
  <2> QED
    BY <1>1, <1>2, <1>3, <1>4, <2>1
<1>5. CASE x = "lp"
  <2>1. d["lp"] = s /\ d["operator"] = c["operator"]
    BY <1>5 DEF ShortClaims, Claim
  <2> QED
    BY <1>1, <1>2, <1>3, <1>5, <2>1
<1> QED
  BY <1>4, <1>5 DEF Claim

-----------------------------------------------------------------------------
(* distribute *)

(* Half of an amount, rounded down.                                        *)
LEMMA HalfIsHalf ==
    ASSUME NEW n \in Nat
    PROVE  /\ Half(n) \in Nat
           /\ n - 2 * Half(n) \in {0, 1}
BY DEF Half

(* A distribution of n units gives half to the DEX pool and, in proportion *)
(* to their stakes, at most the other half to the operators: got.  What    *)
(* meets no staked operator is idle; at most one unit per operator is      *)
(* left over.                                                              *)
LEMMA DistributeSplits ==
    ASSUME RewardTypeOK, NEW n \in Nat, distribute(n)
    PROVE  /\ IsMap(rewards', Operator, Nat)
           /\ lp_rewards' = lp_rewards + Half(n) /\ handed' = handed + n
           /\ \E got, idle, left \in Nat :
                 /\ SumFunction(rewards') = SumFunction(rewards) + got
                 /\ unstaked' = unstaked + idle
                 /\ n = ((Half(n) + got) + idle) + left
                 /\ n = 0 => rounds' = rounds /\ left = 0
                 /\ n > 0 => /\ rounds' = rounds + 1
                             /\ left <= Cardinality(Operator)
<1> DEFINE h == Half(n)
           T == StakeOf(staked_operators)
           S == staked_operators
           g == [o \in Operator |-> Share(n, o)]
           E == IF T = 0 THEN {} ELSE {o \in S : Share(n, o) > 0}
           raised == [o \in E |-> Get(rewards, o) + Share(n, o)]
<1>1. /\ h \in Nat /\ n - 2 * h \in {0, 1}
      /\ S \subseteq Operator /\ IsFiniteSet(S) /\ E \subseteq S
      /\ \A o \in S : stakes[o] \in Nat
  BY HalfIsHalf, RewardAssumption, FS_Subset DEF RewardTypeOK, staked_operators
<1>2. T \in Nat
  BY <1>1, SumNat DEF StakeOf
<1>3. /\ Cardinality(Operator) \in Nat /\ Cardinality(Operator) >= 1
      /\ Cardinality(S) \in Nat /\ Cardinality(S) <= Cardinality(Operator)
  <2>1. Operator # {} /\ IsFiniteSet(Operator)
    BY RewardAssumption
  <2> HIDE DEF S
  <2> QED
    BY <1>1, <2>1, FS_CardinalityType, FS_EmptySet, FS_Subset
<1>4. /\ lp_rewards' = lp_rewards + h /\ handed' = handed + n
      /\ rewards' = Overwrite(rewards, raised)
      /\ rounds' = IF n > 0 THEN rounds + 1 ELSE rounds
      /\ unstaked' = IF T = 0 THEN unstaked + h ELSE unstaked
  BY DEF distribute
<1>5. IsMap(rewards, Operator, Nat) /\ unstaked \in Nat
  BY DEF RewardTypeOK
<1>6. CASE T = 0
  <2>1. E = {}
    BY <1>6
  <2>2. raised = [o \in {} |-> Get(rewards, o) + Share(n, o)]
    BY <2>1
  <2>3. rewards' = rewards
    BY <1>4, <1>5, <2>2 DEF Overwrite, IsMap
  <2>4. SumFunction(rewards) \in Nat
    BY <1>5, RewardAssumption, SumOfMapType
  <2>5. SumFunction(rewards') = SumFunction(rewards) + 0
    BY <2>3, <2>4
  <2>6. n - 2 * h \in Nat /\ 0 \in Nat
    BY <1>1
  <2> HIDE DEF h, T
  <2>7. /\ unstaked' = unstaked + h /\ n = ((h + 0) + h) + (n - 2 * h)
        /\ n = 0 => rounds' = rounds /\ n - 2 * h = 0
        /\ n > 0 => rounds' = rounds + 1 /\ n - 2 * h <= Cardinality(Operator)
    <3>1. PICK c \in Nat : c = Cardinality(Operator) /\ c >= 1
      BY <1>3
    <3>2. n - 2 * h <= c
      BY <1>1, <3>1
    <3>3. n = 0 => n - 2 * h = 0
      BY <1>1
    <3> QED
      BY <1>1, <1>4, <1>6, <3>1, <3>2, <3>3
  <2>8. \E got, idle, left \in Nat :
           /\ SumFunction(rewards') = SumFunction(rewards) + got
           /\ unstaked' = unstaked + idle
           /\ n = ((h + got) + idle) + left
           /\ n = 0 => rounds' = rounds /\ left = 0
           /\ n > 0 => rounds' = rounds + 1 /\ left <= Cardinality(Operator)
    BY <1>1, <2>5, <2>6, <2>7
  <2> QED
    BY <1>4, <1>5, <2>3, <2>8 DEF h
<1>7. CASE T # 0
  <2>1. /\ \A o \in S : g[o] = (h * stakes[o]) \div T
        /\ T > 0 /\ T = SumFunctionOnSet(stakes, S)
    BY <1>1, <1>2, <1>7 DEF Share, StakeOf
  <2>2. /\ \A o \in S : g[o] \in Nat
        /\ SumFunctionOnSet(g, S) \in 0..h
        /\ h < SumFunctionOnSet(g, S) + Cardinality(S)
    <3> HIDE DEF g, h, T, S
    <3> QED
      BY <1>1, <1>2, <2>1, ProportionalShares
  <2>3. /\ E = {o \in S : Share(n, o) > 0}
        /\ \A o \in S : g[o] = Share(n, o)
    BY <1>1, <1>7
  <2>4. \A o \in S \ E : g[o] = 0
    BY <2>2, <2>3
  <2>5. IsFiniteSet(E) /\ IsFiniteSet(S \ E) /\ E \cup (S \ E) = S
        /\ E \cap (S \ E) = {}
    BY <1>1, FS_Subset
  <2>6. raised = [o \in E |-> Get(rewards, o) + g[o]]
    BY <1>1, <2>3
  <2> HIDE DEF g, E, S, T, h, raised
  <2>7. SumFunctionOnSet(g, S) = SumFunctionOnSet(g, E)
    <3>1. SumFunctionOnSet(g, E \cup (S \ E))
             = SumFunctionOnSet(g, E) + SumFunctionOnSet(g, S \ E)
      BY <1>1, <2>2, <2>5, SumUnion
    <3>2. SumFunctionOnSet(g, S \ E) = 0
      BY <2>4, <2>5, SumNat
    <3>3. SumFunctionOnSet(g, E) \in Nat
      BY <1>1, <2>2, <2>5, SumNat
    <3> QED
      BY <2>5, <3>1, <3>2, <3>3
  <2>8. /\ IsMap(rewards', Operator, Nat)
        /\ SumFunction(rewards') = SumFunction(rewards) + SumFunctionOnSet(g, E)
    <3>1. E \subseteq Operator /\ \A o \in E : g[o] \in Nat
      BY <1>1, <2>2
    <3> QED
      BY <1>4, <1>5, <2>6, <3>1, RewardAssumption, SumAdd
  <2>9. PICK q \in Nat : q = SumFunctionOnSet(g, E) /\ q <= h /\ h < q + Cardinality(S)
    BY <1>1, <2>2, <2>7
  <2>10. PICK c \in Nat : c = Cardinality(Operator) /\ c >= 1
    BY <1>3
  <2>11. PICK k \in Nat : k = Cardinality(S) /\ k <= c
    BY <1>3, <2>10
  <2>12. /\ n - (h + q) \in Nat /\ n = ((h + q) + 0) + (n - (h + q))
         /\ n = 0 => n - (h + q) = 0
         /\ n - (h + q) <= c
    BY <1>1, <2>9, <2>11
  <2>13. \E got, idle, left \in Nat :
           /\ SumFunction(rewards') = SumFunction(rewards) + got
           /\ unstaked' = unstaked + idle
           /\ n = ((h + got) + idle) + left
           /\ n = 0 => rounds' = rounds /\ left = 0
           /\ n > 0 => rounds' = rounds + 1 /\ left <= Cardinality(Operator)
    <3> DEFINE left == n - (h + q)
    <3>1. left \in Nat /\ 0 \in Nat
      BY <2>12
    <3>2. /\ SumFunction(rewards') = SumFunction(rewards) + q
          /\ unstaked' = unstaked + 0
          /\ n = ((h + q) + 0) + left
      BY <1>4, <1>5, <1>7, <2>8, <2>9, <2>12
    <3>3. /\ n = 0 => rounds' = rounds /\ left = 0
          /\ n > 0 => rounds' = rounds + 1 /\ left <= Cardinality(Operator)
      BY <1>4, <2>10, <2>12
    <3> HIDE DEF left
    <3> QED
      BY <3>1, <3>2, <3>3
  <2> QED
    BY <1>4, <2>8, <2>13 DEF h
<1> QED
  BY <1>6, <1>7

-----------------------------------------------------------------------------
(* Types *)

(* What is burned leaves the circulating supply at 0 or more.              *)
LEMMA MaxZero ==
    ASSUME NEW x \in Int
    PROVE  Max({0, x}) \in Nat
<1>1. \E m \in {0, x} : \A y \in {0, x} : m >= y
  OBVIOUS
<1>2. /\ Max({0, x}) \in {0, x}
      /\ \A y \in {0, x} : Max({0, x}) >= y
  BY <1>1, Zenon DEF Max
<1>3. PICK m \in {0, x} : m = Max({0, x}) /\ m >= 0
  BY <1>2
<1> QED
  BY <1>3

(* The reward pool is typed, and a claim handler has at most two amounts   *)
(* to seed.                                                                *)
RewardInv == RewardTypeOK /\ ShortClaims(claiming)

(* The loss of a pool is a number.                                         *)
LEMMA LossType ==
    ASSUME IsMap(pools, Pool, Nat), NEW loss \in [DOMAIN pools -> 0..MaxLoss]
    PROVE  /\ SumFunction(loss) \in Nat
           /\ \A p : Get(loss, p) \in Nat
<1>1. IsFiniteSet(DOMAIN pools) /\ \A p \in DOMAIN pools : loss[p] \in Nat
  BY BatchAssumption, FS_Subset DEF IsMap
<1>2. SumFunctionOnSet(loss, DOMAIN pools) \in Nat
  BY <1>1, SumNat
<1> QED
  BY <1>1, <1>2 DEF SumFunction, Get

(* What decays, less the quarter that is burned, is an amount.             *)
LEMMA DecayAmount ==
    ASSUME NEW n \in Nat
    PROVE  /\ (n * 2500) \div 10000 \in Nat
           /\ n - (n * 2500) \div 10000 \in Nat
OBVIOUS

(* A distribution keeps the types of what it changes.                      *)
LEMMA DistributeTyped ==
    ASSUME RewardTypeOK, NEW n \in Nat, distribute(n)
    PROVE  /\ IsMap(rewards', Operator, Nat) /\ lp_rewards' \in Nat
           /\ handed' \in Nat /\ rounds' \in Nat /\ unstaked' \in Nat
<1>1. /\ lp_rewards \in Nat /\ handed \in Nat /\ rounds \in Nat
      /\ unstaked \in Nat
  BY DEF RewardTypeOK
<1>2. PICK idle \in Nat, left \in Nat :
          /\ unstaked' = unstaked + idle
          /\ rounds' = rounds \/ rounds' = rounds + 1
  <2>1. n = 0 \/ n > 0
    OBVIOUS
  <2> QED
    BY <2>1, DistributeSplits
<1>3. PICK h \in Nat : h = Half(n)
  BY HalfIsHalf
<1>4. /\ IsMap(rewards', Operator, Nat)
      /\ lp_rewards' = lp_rewards + h /\ handed' = handed + n
  BY <1>3, DistributeSplits
<1> QED
  BY <1>1, <1>2, <1>4

(* Every step of the system keeps the reward pool typed.                   *)
LEMMA RewardInvStep ==
    ASSUME RewardInv, IsMap(pools, Pool, Nat), [Next]_vars
    PROVE  RewardInv'
<1> USE DEF RewardInv
<1>0. /\ IsMap(rewards, Operator, Nat) /\ lp_rewards \in Nat
      /\ stakes \in [Operator -> Nat] /\ restakes \in 0..MaxRestakes
      /\ claiming \in [Claim -> Seq(Nat)]
      /\ circulating \in Nat /\ handed \in Nat /\ rounds \in Nat
      /\ unstaked \in Nat /\ paid \in Nat /\ refused \in Nat
  BY DEF RewardTypeOK
<1>1. CASE UNCHANGED rewardVars
  BY <1>1 DEF rewardVars, RewardTypeOK, ShortClaims
<1>2. CASE Decay
  <2>1. PICK loss \in [DOMAIN pools -> 0..MaxLoss], accounts \in AccountLoss :
           LoseAndDistribute(loss, accounts)
    BY <1>2 DEF Decay
  <2>2. PICK n \in Nat : n = accounts + SumFunction(loss)
    BY LossType, BatchAssumption
  <2>3. PICK b \in Nat : b = (n * 2500) \div 10000 /\ n - b \in Nat
    BY DecayAmount
  <2>4. circulating' = Max({0, circulating - b}) /\ distribute(n - b)
    BY <2>1, <2>2, <2>3 DEF LoseAndDistribute
  <2>5. circulating' \in Nat
    BY <1>0, <2>4, MaxZero
  <2>6. /\ stakes' = stakes /\ restakes' = restakes /\ claiming' = claiming
        /\ paid' = paid /\ refused' = refused
    BY <1>2 DEF Decay
  <2>7. PICK m \in Nat : m = n - b
    BY <2>3
  <2> QED
    BY <1>0, <2>4, <2>5, <2>6, <2>7, DistributeTyped DEF RewardTypeOK, ShortClaims
<1>3. CASE Fees
  <2>1. PICK n \in Nat : distribute(n)
    BY <1>3, BatchAssumption DEF Fees
  <2>2. /\ stakes' = stakes /\ restakes' = restakes /\ claiming' = claiming
        /\ paid' = paid /\ refused' = refused /\ circulating' = circulating
    BY <1>3 DEF Fees
  <2> QED
    BY <1>0, <2>1, <2>2, DistributeTyped DEF RewardTypeOK, ShortClaims
<1>4. CASE ClaimOperatorRewards
  <2> DEFINE s == <<rewards[Self]>>
  <2>1. Self \in DOMAIN rewards /\ rewards[Self] \in Nat
    BY <1>0, <1>4 DEF ClaimOperatorRewards, Get, IsMap
  <2>2. s \in Seq(Nat) /\ Len(s) <= 2 /\ "operator" \in Claim
    BY <2>1 DEF Claim
  <2>3. claiming' = [claiming EXCEPT !["operator"] = s]
    BY <1>4 DEF ClaimOperatorRewards
  <2>4. ShortClaims(claiming')
    <3> HIDE DEF s
    <3> QED
      BY <2>2, <2>3, ClaimedExcept
  <2>5. IsMap(rewards', Operator, Nat)
    BY <1>0, <1>4 DEF ClaimOperatorRewards, IsMap
  <2> QED
    BY <1>0, <1>4, <2>4, <2>5 DEF ClaimOperatorRewards, RewardTypeOK, ShortClaims
<1>5. CASE ClaimLpRewards
  <2> DEFINE s == <<lp_rewards \div 2, lp_rewards - lp_rewards \div 2>>
  <2>1. lp_rewards \div 2 \in Nat /\ lp_rewards - lp_rewards \div 2 \in Nat
    BY <1>0
  <2>2. s \in Seq(Nat) /\ Len(s) <= 2 /\ "lp" \in Claim
    BY <2>1 DEF Claim
  <2>3. claiming' = [claiming EXCEPT !["lp"] = s]
    BY <1>5 DEF ClaimLpRewards
  <2>4. ShortClaims(claiming')
    <3> HIDE DEF s
    <3> QED
      BY <2>2, <2>3, ClaimedExcept
  <2> QED
    BY <1>0, <1>5, <2>4 DEF ClaimLpRewards, RewardTypeOK, ShortClaims
<1>6. ASSUME NEW c \in Claim, SeedClaimed(c)
      PROVE  RewardInv'
  <2>1. claiming[c] \in Seq(Nat) /\ Len(claiming[c]) <= 2 /\ claiming[c] # <<>>
    BY <1>6 DEF ShortClaims, SeedClaimed
  <2>2. PICK s \in Seq(Nat) : s = Tail(claiming[c]) /\ Len(s) <= 2
    BY <2>1, ShortSum
  <2>3. PICK n \in Nat : n = Head(claiming[c])
    BY <2>1, ShortSum
  <2>4. claiming' = [claiming EXCEPT ![c] = s]
    BY <1>6, <2>2 DEF SeedClaimed
  <2>5. ShortClaims(claiming')
    BY <2>2, <2>4, ClaimedExcept
  <2>6. circulating' \in Nat /\ paid' \in Nat /\ refused' \in Nat
    <3>1. /\ circulating' = IF circulating + n <= Supply THEN circulating + n
                           ELSE circulating
          /\ paid' = IF circulating + n <= Supply THEN paid + n ELSE paid
          /\ refused' = IF circulating + n <= Supply THEN refused
                       ELSE refused + n
      BY <1>6, <2>3 DEF SeedClaimed
    <3> QED
      BY <1>0, <3>1
  <2> QED
    BY <1>0, <1>6, <2>5, <2>6 DEF SeedClaimed, RewardTypeOK, ShortClaims
<1>7. ASSUME NEW o \in Operator, NEW n \in StakeChoices, SetStake(o, n)
      PROVE  RewardInv'
  <2>1. stakes' \in [Operator -> Nat] /\ restakes' \in 0..MaxRestakes
    BY <1>0, <1>7, RewardAssumption DEF SetStake
  <2> QED
    BY <1>0, <1>7, <2>1 DEF SetStake, RewardTypeOK, ShortClaims
<1>8. ASSUME NEW th \in Thread, RecordSignature(th) \/ PushSignal(th)
      PROVE  UNCHANGED rewardVars
  BY <1>8 DEF RecordSignature, PushSignal
<1>9. ASSUME NEW th \in Thread, NEW s \in Signal, CheckSignal(th, s)
      PROVE  UNCHANGED rewardVars
  BY <1>9 DEF CheckSignal
<1>10. ASSUME NEW d \in Commutative, SynthesizeDomain(d)
       PROVE  UNCHANGED rewardVars
  BY <1>10 DEF SynthesizeDomain
<1>11. ASSUME Drain \/ BoundReached \/ UNCHANGED vars
       PROVE  UNCHANGED rewardVars
  BY <1>11 DEF Drain, BoundReached, vars
<1> QED
  BY <1>1, <1>2, <1>3, <1>4, <1>5, <1>6, <1>7, <1>8, <1>9, <1>10, <1>11,
     ArrivingSignals DEF Next, Cycle, RewardStep

-----------------------------------------------------------------------------
(* Rewards *)

(* The rewards that are accounted for, by part.                            *)
LEMMA AccountedParts ==
    ASSUME RewardInv
    PROVE  /\ SumFunction(rewards) \in Nat /\ Claimed(claiming) \in Nat
           /\ Accounted = (((SumFunction(rewards) + lp_rewards)
                            + Claimed(claiming)) + paid) + refused
<1>1. SumFunction(rewards) \in Nat
  BY SumOfMapType, RewardAssumption DEF RewardInv, RewardTypeOK
<1>2. Claimed(claiming) \in Nat
  BY ClaimedIsSum DEF RewardInv
<1> QED
  BY <1>1, <1>2 DEF Accounted, Claimed

(* A step that hands out n units, of which left are not allocated, keeps   *)
(* the bound on what is unallocated.                                       *)
LEMMA DistributeConserves ==
    ASSUME RewardInv, RewardInv', RewardsConserved, NEW n \in Nat,
           distribute(n), claiming' = claiming, paid' = paid,
           refused' = refused
    PROVE  RewardsConserved'
<1>1. PICK got \in Nat, idle \in Nat, left \in Nat :
          /\ SumFunction(rewards') = SumFunction(rewards) + got
          /\ unstaked' = unstaked + idle
          /\ n = ((Half(n) + got) + idle) + left
          /\ n = 0 => rounds' = rounds /\ left = 0
          /\ n > 0 => rounds' = rounds + 1 /\ left <= Cardinality(Operator)
  BY DistributeSplits DEF RewardInv
<1>2. lp_rewards' = lp_rewards + Half(n) /\ handed' = handed + n
  BY DistributeSplits DEF RewardInv
<1>3. PICK h \in Nat : h = Half(n)
  BY HalfIsHalf
<1>4. /\ handed \in Nat /\ unstaked \in Nat /\ rounds \in Nat
      /\ lp_rewards \in Nat /\ paid \in Nat /\ refused \in Nat
  BY DEF RewardInv, RewardTypeOK
<1>5. PICK k \in Nat : k = Cardinality(Operator)
  BY RewardAssumption, FS_CardinalityType
<1>6. PICK s \in Nat : s = SumFunction(rewards)
  BY AccountedParts
<1>7. PICK c \in Nat : c = Claimed(claiming)
  BY AccountedParts
<1>8. PICK acc \in Nat : acc = Accounted /\ acc = (((s + lp_rewards) + c) + paid) + refused
  BY <1>4, <1>6, <1>7, AccountedParts
<1>9. Accounted' = ((((s + got) + (lp_rewards + h)) + c) + paid) + refused
  <2>1. Accounted' = (((SumFunction(rewards)' + lp_rewards')
                          + Claimed(claiming')) + paid') + refused'
    BY DEF Accounted, Claimed
  <2> QED
    BY <1>1, <1>2, <1>3, <1>6, <1>7, <2>1
<1>10. Accounted' = (acc + got) + h
  BY <1>4, <1>8, <1>9
<1>11. PICK b \in Nat : b = rounds * k
  BY <1>4
<1>12. (handed - unstaked) - acc \in 0..b
  BY <1>5, <1>8, <1>11 DEF RewardsConserved
<1>13. CASE n = 0
  <2>1. rounds' * k = b
    BY <1>1, <1>11, <1>13
  <2>2. (handed' - unstaked') - Accounted' = (handed - unstaked) - acc
    <3>1. h + got + idle = 0
      BY <1>1, <1>3, <1>13
    <3>2. h = 0 /\ got = 0 /\ idle = 0
      BY <3>1
    <3> QED
      BY <1>1, <1>2, <1>4, <1>8, <1>10, <1>13, <3>2
  <2> QED
    BY <1>5, <1>12, <2>1, <2>2 DEF RewardsConserved
<1>14. CASE n > 0
  <2>1. rounds' * k = b + k
    <3>1. rounds' = rounds + 1
      BY <1>1, <1>14
    <3>2. (rounds + 1) * k = rounds * k + k
      BY <1>4
    <3> QED
      BY <1>11, <3>1, <3>2
  <2>2. (handed' - unstaked') - Accounted' = ((handed - unstaked) - acc) + left
    BY <1>1, <1>2, <1>3, <1>4, <1>10
  <2>3. left <= k
    BY <1>1, <1>5, <1>14
  <2>4. ((handed - unstaked) - acc) + left \in 0..(b + k)
    BY <1>4, <1>12, <2>3
  <2> QED
    BY <1>5, <2>1, <2>2, <2>4 DEF RewardsConserved
<1> QED
  BY <1>13, <1>14

(* What a claim takes out of the pool is what it has to seed, and what it  *)
(* seeds is paid or refused.                                               *)
LEMMA ClaimConserves ==
    ASSUME RewardInv, RewardInv', RewardsConserved, RewardStep
    PROVE  RewardsConserved'
<1>0. /\ IsMap(rewards, Operator, Nat) /\ ShortClaims(claiming)
      /\ lp_rewards \in Nat /\ paid \in Nat /\ refused \in Nat
      /\ circulating \in Nat
  BY DEF RewardInv, RewardTypeOK
<1>1. SUFFICES /\ Accounted' = Accounted
               /\ handed' = handed /\ unstaked' = unstaked /\ rounds' = rounds
  BY DEF RewardsConserved
<1>2. PICK c \in Nat : c = Claimed(claiming)
  BY AccountedParts
<1>3. PICK s \in Nat : s = SumFunction(rewards)
  BY AccountedParts
<1>4. /\ Accounted = (((s + lp_rewards) + c) + paid) + refused
      /\ Accounted' = (((SumFunction(rewards)' + lp_rewards')
                          + Claimed(claiming')) + paid') + refused'
  <2>1. Accounted = (((s + lp_rewards) + c) + paid) + refused
    BY <1>2, <1>3, AccountedParts
  <2>2. Accounted' = (((SumFunction(rewards)' + lp_rewards')
                          + Claimed(claiming')) + paid') + refused'
    BY DEF Accounted, Claimed
  <2> QED
    BY <2>1, <2>2
<1>5. CASE ClaimOperatorRewards
  <2>1. PICK n \in Nat : n = rewards[Self] /\ Self \in DOMAIN rewards
    BY <1>0, <1>5 DEF ClaimOperatorRewards, Get, IsMap
  <2>2. s = n + SumFunction(rewards')
    <3>1. /\ rewards' = [o \in DOMAIN rewards \ {Self} |-> rewards[o]]
      BY <1>5 DEF ClaimOperatorRewards
    <3>2. IsFiniteSet(DOMAIN rewards')
      BY <1>0, <3>1, RewardAssumption, FS_Subset DEF IsMap
    <3>3. /\ Self \notin DOMAIN rewards'
          /\ DOMAIN rewards = DOMAIN rewards' \cup {Self}
          /\ \A o \in DOMAIN rewards' : rewards'[o] = rewards[o]
      BY <2>1, <3>1
    <3>4. \A o \in DOMAIN rewards : rewards[o] \in Int
      BY <1>0 DEF IsMap
    <3> QED
      BY <1>3, <2>1, <3>2, <3>3, <3>4, SumExtend
  <2>3. PICK u \in Seq(Nat) : u = <<n>> /\ Len(u) <= 2 /\ SumFunction(u) = n
    BY SumOfAmounts
  <2>4. Len(u) <= 2 /\ SumFunction(u) = n
    BY <2>3
  <2>5. claiming' = [claiming EXCEPT !["operator"] = u]
    BY <1>5, <2>1, <2>3 DEF ClaimOperatorRewards
  <2>6. "operator" \in Claim /\ SumFunction(claiming["operator"]) = 0
    <3>1. claiming["operator"] = <<>> /\ claiming["operator"] \in Seq(Nat)
          /\ Len(claiming["operator"]) <= 2
      BY <1>0, <1>5 DEF ClaimOperatorRewards, ShortClaims, Claim
    <3> QED
      BY <3>1, ShortSum DEF Claim
  <2>7. Claimed(claiming') + 0 = c + n
    <3>1. Claimed([claiming EXCEPT !["operator"] = u])
             + SumFunction(claiming["operator"])
             = Claimed(claiming) + SumFunction(u)
      BY <1>0, <2>4, <2>6, ClaimedExcept
    <3> QED
      BY <1>2, <2>4, <2>5, <2>6, <3>1
  <2>8. PICK r \in Nat : r = SumFunction(rewards')
    <3>1. IsMap(rewards', Operator, Nat)
      BY DEF RewardInv, RewardTypeOK
    <3> QED
      BY <3>1, RewardAssumption, SumOfMapType
  <2>9. PICK d \in Nat : d = Claimed(claiming')
    BY ClaimedIsSum DEF RewardInv
  <2>10. /\ lp_rewards' = lp_rewards /\ paid' = paid /\ refused' = refused
         /\ handed' = handed /\ unstaked' = unstaked /\ rounds' = rounds
    BY <1>5 DEF ClaimOperatorRewards
  <2>11. s = n + r /\ d + 0 = c + n
    BY <2>2, <2>7, <2>8, <2>9
  <2>12. Accounted' = (((r + lp_rewards) + d) + paid) + refused
    BY <1>4, <2>8, <2>9, <2>10
  <2>13. Accounted' = Accounted
    BY <1>0, <1>4, <2>11, <2>12
  <2> QED
    BY <2>10, <2>13
<1>6. CASE ClaimLpRewards
  <2>1. PICK n \in Nat, m \in Nat :
           n = lp_rewards \div 2 /\ m = lp_rewards - lp_rewards \div 2
    BY <1>0
  <2>2. n + m = lp_rewards
    BY <1>0, <2>1
  <2>3. PICK u \in Seq(Nat) :
           u = <<n, m>> /\ Len(u) <= 2 /\ SumFunction(u) = n + m
    BY SumOfAmounts
  <2>4. Len(u) <= 2 /\ SumFunction(u) = n + m
    BY <2>3
  <2>5. claiming' = [claiming EXCEPT !["lp"] = u]
    BY <1>6, <2>1, <2>3 DEF ClaimLpRewards
  <2>6. "lp" \in Claim /\ SumFunction(claiming["lp"]) = 0
    <3>1. claiming["lp"] = <<>> /\ claiming["lp"] \in Seq(Nat)
          /\ Len(claiming["lp"]) <= 2
      BY <1>0, <1>6 DEF ClaimLpRewards, ShortClaims, Claim
    <3> QED
      BY <3>1, ShortSum DEF Claim
  <2>7. Claimed(claiming') + 0 = c + (n + m)
    <3>1. Claimed([claiming EXCEPT !["lp"] = u]) + SumFunction(claiming["lp"])
             = Claimed(claiming) + SumFunction(u)
      BY <1>0, <2>4, <2>6, ClaimedExcept
    <3> QED
      BY <1>2, <2>4, <2>5, <2>6, <3>1
  <2>8. PICK d \in Nat : d = Claimed(claiming')
    BY ClaimedIsSum DEF RewardInv
  <2>9. /\ rewards' = rewards /\ lp_rewards' = 0 /\ paid' = paid
        /\ refused' = refused
        /\ handed' = handed /\ unstaked' = unstaked /\ rounds' = rounds
    BY <1>6 DEF ClaimLpRewards
  <2>10. /\ Accounted = (((s + lp_rewards) + c) + paid) + refused
         /\ Accounted' = (((s + 0) + d) + paid) + refused
         /\ d + 0 = c + (n + m)
    BY <1>3, <1>4, <2>7, <2>8, <2>9
  <2> QED
    BY <1>0, <2>2, <2>9, <2>10
<1>7. ASSUME NEW x \in Claim, SeedClaimed(x)
      PROVE  /\ Accounted' = Accounted
             /\ handed' = handed /\ unstaked' = unstaked /\ rounds' = rounds
  <2>1. claiming[x] \in Seq(Nat) /\ Len(claiming[x]) <= 2 /\ claiming[x] # <<>>
    BY <1>0, <1>7 DEF ShortClaims, SeedClaimed
  <2>2. PICK u \in Seq(Nat) : u = Tail(claiming[x]) /\ Len(u) <= 2
    BY <2>1, ShortSum
  <2>3. PICK n \in Nat : n = Head(claiming[x])
    BY <2>1, ShortSum
  <2>4. PICK t \in Nat : t = SumFunction(u)
    BY <2>2, ShortSum
  <2>5. SumFunction(claiming[x]) = n + t
    BY <2>1, <2>2, <2>3, <2>4, ShortSum
  <2>6. claiming' = [claiming EXCEPT ![x] = u]
    BY <1>7, <2>2 DEF SeedClaimed
  <2>7. Claimed(claiming') + (n + t) = c + t
    BY <1>0, <1>2, <2>2, <2>4, <2>5, <2>6, ClaimedExcept
  <2>8. PICK d \in Nat : d = Claimed(claiming')
    BY ClaimedIsSum DEF RewardInv
  <2>9. /\ rewards' = rewards /\ lp_rewards' = lp_rewards
        /\ handed' = handed /\ unstaked' = unstaked /\ rounds' = rounds
    BY <1>7 DEF SeedClaimed
  <2>10. \/ paid' = paid + n /\ refused' = refused
         \/ paid' = paid /\ refused' = refused + n
    BY <1>7, <2>3 DEF SeedClaimed
  <2>11. /\ Accounted = (((s + lp_rewards) + c) + paid) + refused
         /\ Accounted' = (((s + lp_rewards) + d) + paid') + refused'
         /\ d + (n + t) = c + t
    BY <1>3, <1>4, <2>7, <2>8, <2>9
  <2>12. Accounted' = Accounted
    <3>1. CASE paid' = paid + n /\ refused' = refused
      BY <1>0, <2>11, <3>1
    <3>2. CASE paid' = paid /\ refused' = refused + n
      BY <1>0, <2>11, <3>2
    <3> QED
      BY <2>10, <3>1, <3>2
  <2> QED
    BY <2>9, <2>12
<1>8. ASSUME NEW o \in Operator, NEW n \in StakeChoices, SetStake(o, n)
      PROVE  /\ Accounted' = Accounted
             /\ handed' = handed /\ unstaked' = unstaked /\ rounds' = rounds
  BY <1>8 DEF SetStake, Accounted
<1> QED
  BY <1>5, <1>6, <1>7, <1>8 DEF RewardStep

-----------------------------------------------------------------------------
(* Batches *)

(* The pools that a batch names.                                           *)
BatchPools(d) == {Content[s].pool : s \in Batch(d)}

(* The sum of the deltas of some drained signals is a number.              *)
LEMMA SumOfType ==
    ASSUME drained \in [Signal -> Nat], NEW S, S \subseteq Signal
    PROVE  SumOf(S) \in Int
<1> DEFINE f == [s \in Signal |-> drained[s] * Content[s].delta]
<1>1. \A s \in S : f[s] \in Int
  BY BatchAssumption
<1>2. IsFiniteSet(S)
  BY BatchAssumption, FS_Subset
<1> HIDE DEF f
<1>3. SumFunctionOnSet(f, S) \in Int
  BY <1>1, <1>2, SumInt
<1> QED
  BY <1>3 DEF SumOf, f

(* The aggregate of a pool is a number, and the pools are known.           *)
LEMMA AggregateType ==
    ASSUME drained \in [Signal -> Nat], NEW d
    PROVE  /\ \A p : Aggregate(d, p) \in Int
           /\ BatchPools(d) \subseteq Pool
<1>1. ASSUME NEW p PROVE Aggregate(d, p) \in Int
  BY SumOfType DEF Aggregate, Batch
<1>2. BatchPools(d) \subseteq Pool
  BY BatchAssumption DEF BatchPools, Batch
<1> QED
  BY <1>1, <1>2

(* Updating pools that stay non-negative keeps the map typed, and adds     *)
(* their aggregates.                                                       *)
LEMMA UpdatedType ==
    ASSUME IsMap(pools, Pool, Nat), drained \in [Signal -> Nat], NEW d,
           NEW P, P \subseteq BatchPools(d), P \cap Short(d) = {}
    PROVE  /\ IsMap(Updated(d, P), Pool, Nat)
           /\ \A p : Get(Updated(d, P), p)
                        = IF p \in P THEN Get(pools, p) + Aggregate(d, p)
                          ELSE Get(pools, p)
<1> DEFINE f == [p \in P |-> Get(pools, p) + Aggregate(d, p)]
<1>1. ASSUME NEW p \in P PROVE Get(pools, p) + Aggregate(d, p) \in Nat
  <2>1. p \in BatchPools(d) /\ p \notin Short(d)
    OBVIOUS
  <2>2. ~(Get(pools, p) + Aggregate(d, p) < 0)
    BY <2>1 DEF Short, BatchPools
  <2>3. Get(pools, p) \in Nat /\ Aggregate(d, p) \in Int
    BY GetType, AggregateType
  <2> QED
    BY <2>2, <2>3
<1>2. P \subseteq Pool
  BY AggregateType
<1>3. IsMap(f, Pool, Nat)
  BY <1>1, <1>2 DEF IsMap
<1>4. Updated(d, P) = Overwrite(pools, f)
  BY DEF Updated
<1>5. \A p : Get(Overwrite(pools, f), p)
               = IF p \in P THEN Get(pools, p) + Aggregate(d, p)
                 ELSE Get(pools, p)
  BY DEF Get, Overwrite
<1> HIDE DEF f
<1> QED
  BY <1>3, <1>4, <1>5, OverwriteType

(* What one batch does to the pools, whether it succeeds or fails: the     *)
(* pools of a set P take their aggregates, and nothing else changes.       *)
LEMMA BatchUpdates ==
    ASSUME IsMap(pools, Pool, Nat), drained \in [Signal -> Nat], NEW d,
           SynthesizeDomain(d)
    PROVE  /\ IsMap(pools', Pool, Nat)
           /\ \/ /\ ApplyBatch(d)
                 /\ \A p : Get(pools', p)
                            = IF p \in BatchPools(d)
                              THEN Get(pools, p) + Aggregate(d, p)
                              ELSE Get(pools, p)
              \/ /\ FailBatch(d)
                 /\ spoiled \subseteq spoiled'
                 /\ \A p : p \notin spoiled' => Get(pools', p) = Get(pools, p)
<1>1. CASE ApplyBatch(d) /\ Short(d) = {}
  <2>1. pools' = Updated(d, BatchPools(d))
    BY <1>1 DEF ApplyBatch, BatchPools
  <2>2. BatchPools(d) \cap Short(d) = {}
    BY <1>1
  <2>3. BatchPools(d) \subseteq BatchPools(d)
    OBVIOUS
  <2> QED
    BY <1>1, <2>1, <2>2, <2>3, UpdatedType
<1>2. CASE FailBatch(d) /\ pools' = pools /\ spoiled' = spoiled
  BY <1>2
<1>3. ASSUME FailBatch(d),
             NEW P \in SUBSET (BatchPools(d) \ Short(d)), NEW q \in Short(d),
             pools' = Put(Updated(d, P), q, Get(pools, q)),
             spoiled' = spoiled \cup P
      PROVE  /\ IsMap(pools', Pool, Nat)
             /\ spoiled \subseteq spoiled'
             /\ \A p : p \notin spoiled' => Get(pools', p) = Get(pools, p)
  <2>1. /\ IsMap(Updated(d, P), Pool, Nat)
        /\ \A p : p \notin P => Get(Updated(d, P), p) = Get(pools, p)
    BY <1>3, UpdatedType
  <2>2. q \in Pool /\ Get(pools, q) \in Nat
    BY AggregateType, GetType DEF Short, BatchPools
  <2>3. IsMap(pools', Pool, Nat)
    BY <1>3, <2>1, <2>2, PutType
  <2>4. \A p : p \notin P => Get(pools', p) = Get(pools, p)
    BY <1>3, <2>1, GetPut
  <2> QED
    BY <1>3, <2>3, <2>4
<1>4. \/ ApplyBatch(d) /\ Short(d) = {}
      \/ FailBatch(d)
  BY DEF SynthesizeDomain
<1>5. ASSUME FailBatch(d)
      PROVE  \/ pools' = pools /\ spoiled' = spoiled
             \/ \E P \in SUBSET (BatchPools(d) \ Short(d)), q \in Short(d) :
                   /\ pools' = Put(Updated(d, P), q, Get(pools, q))
                   /\ spoiled' = spoiled \cup P
  BY <1>5 DEF FailBatch, BatchPools
<1> QED
  BY <1>1, <1>2, <1>3, <1>4, <1>5

-----------------------------------------------------------------------------
(* The control of a cycle *)

(* A drained signal that is still to be synthesized in this cycle.         *)
Active(s) == drained[s] > 0 /\ Content[s].domain \in todo

(* Signals are drained only while batches are synthesized, and what is     *)
(* being ingested or queued belongs to a commutative domain, so that no    *)
(* signal is dropped when the queue is grouped by domain.                  *)
CycleInv ==
    /\ settled \subseteq Signal /\ lost \in [Pool -> Nat]
    /\ pc # "batch" => drained = None /\ todo = {}
    /\ \A s \in Signal : queued[s] > 0 => Content[s].domain \in Commutative
    /\ \A th \in Thread : ingesting[th] # NoSignal =>
                             Content[ingesting[th]].domain \in Commutative
    /\ \A th \in Thread : pushing[th] # NoSignal =>
          Content[pushing[th]].domain \in Commutative /\ ingesting[th] = NoSignal

TypeInv == TypeOK /\ ShortClaims(claiming) /\ CycleInv

(* A signal of a batch that is being synthesized has a positive count, and *)
(* the whole batch is active.                                              *)
LEMMA BatchActive ==
    ASSUME NEW d \in todo
    PROVE  \A s \in Batch(d) : s \in Signal /\ Active(s)
BY DEF Batch, Active

(* A step of the reward pool alone leaves the batches unchanged.           *)
LEMMA RewardStepUnchanged ==
    ASSUME UNCHANGED batchVars
    PROVE  /\ seen_signatures' = seen_signatures /\ ingesting' = ingesting
           /\ queued' = queued /\ drained' = drained /\ todo' = todo
           /\ pools' = pools /\ tick' = tick /\ pc' = pc /\ lost' = lost
           /\ settled' = settled /\ raced' = raced
           /\ spoiled' = spoiled /\ pushing' = pushing
BY DEF batchVars

(* The initial state is typed.                                             *)
LEMMA TypeInvInit == Init => TypeInv
<1> SUFFICES ASSUME Init PROVE TypeInv
  OBVIOUS
<1>1. RewardTypeOK
  <2>1. claiming \in [Claim -> Seq(Nat)]
    BY DEF Init, RewardInit
  <2>2. IsMap(rewards, Operator, Nat) /\ circulating \in Nat
    BY RewardAssumption DEF Init, RewardInit, IsMap
  <2>3. /\ lp_rewards = 0 /\ restakes = 0 /\ handed = 0 /\ rounds = 0
        /\ unstaked = 0 /\ paid = 0 /\ refused = 0 /\ stakes = GenesisStakes
    BY DEF Init, RewardInit
  <2> QED
    BY <2>1, <2>2, <2>3, RewardAssumption DEF RewardTypeOK
<1>2. ShortClaims(claiming)
  BY DEF Init, RewardInit, ShortClaims, Claim
<1>3. TypeOK
  <2>1. /\ IsMap(pools, Pool, Nat) /\ ingesting \in [Thread -> Signal \cup {NoSignal}]
        /\ pushing \in [Thread -> Signal \cup {NoSignal}]
    BY DEF Init, IsMap
  <2>2. queued \in [Signal -> Nat] /\ drained \in [Signal -> Nat]
    BY DEF Init, None
  <2> QED
    BY <1>1, <2>1, <2>2, BatchAssumption DEF Init, TypeOK
<1>4. CycleInv
  BY DEF Init, CycleInv, None
<1> QED
  BY <1>2, <1>3, <1>4 DEF TypeInv

(* Every step keeps the state typed: no pool goes negative, no count does, *)
(* and nothing outside a commutative domain is queued.                     *)
LEMMA TypeInvStep == TypeInv /\ [Next]_vars => TypeInv'
<1> SUFFICES ASSUME TypeInv, [Next]_vars PROVE TypeInv'
  OBVIOUS
<1>1. /\ RewardTypeOK /\ ShortClaims(claiming)
      /\ IsMap(pools, Pool, Nat)
      /\ ingesting \in [Thread -> Signal \cup {NoSignal}]
      /\ pushing \in [Thread -> Signal \cup {NoSignal}]
      /\ queued \in [Signal -> Nat] /\ drained \in [Signal -> Nat]
      /\ todo \subseteq Commutative /\ pc \in {"idle", "drain", "batch"}
      /\ tick \in 0..MaxTick
  BY DEF TypeInv, TypeOK
<1>2. /\ settled \subseteq Signal /\ lost \in [Pool -> Nat]
      /\ pc # "batch" => drained = None /\ todo = {}
      /\ \A s \in Signal : queued[s] > 0 => Content[s].domain \in Commutative
      /\ \A th \in Thread : ingesting[th] # NoSignal =>
                               Content[ingesting[th]].domain \in Commutative
      /\ \A th \in Thread : pushing[th] # NoSignal =>
            Content[pushing[th]].domain \in Commutative /\ ingesting[th] = NoSignal
  BY DEF TypeInv, CycleInv
<1>3. RewardTypeOK' /\ ShortClaims(claiming')
  <2>1. RewardInv'
    BY <1>1, RewardInvStep DEF RewardInv
  <2> QED
    BY <2>1 DEF RewardInv
<1>4. SUFFICES /\ IsMap(pools', Pool, Nat)
               /\ ingesting' \in [Thread -> Signal \cup {NoSignal}]
               /\ pushing' \in [Thread -> Signal \cup {NoSignal}]
               /\ queued' \in [Signal -> Nat] /\ drained' \in [Signal -> Nat]
               /\ todo' \subseteq Commutative /\ pc' \in {"idle", "drain", "batch"}
               /\ tick' \in 0..MaxTick
               /\ CycleInv'
  BY <1>3 DEF TypeInv, TypeOK
<1>5. CASE UNCHANGED batchVars
  BY <1>1, <1>2, <1>5, RewardStepUnchanged DEF CycleInv
<1>6. CASE Decay
  <2>1. PICK loss \in [DOMAIN pools -> 0..MaxLoss], accounts \in AccountLoss :
           /\ \A p \in DOMAIN pools : loss[p] <= pools[p]
           /\ LoseAndDistribute(loss, accounts)
    BY <1>6 DEF Decay
  <2>2. /\ pools' = [p \in DOMAIN pools |-> pools[p] - loss[p]]
        /\ lost' = [p \in Pool |-> lost[p] + Get(loss, p)]
    BY <2>1 DEF LoseAndDistribute
  <2>3. IsMap(pools', Pool, Nat)
    <3>1. \A p \in DOMAIN pools : pools[p] - loss[p] \in Nat
      BY <1>1, <2>1, BatchAssumption DEF IsMap
    <3> QED
      BY <1>1, <2>2, <3>1 DEF IsMap
  <2>4. lost' \in [Pool -> Nat]
    BY <1>1, <1>2, <2>2, LossType
  <2>5. /\ pc = "idle" /\ tick < MaxTick /\ tick' = tick + 1 /\ pc' = "drain"
        /\ ingesting' = ingesting /\ pushing' = pushing /\ queued' = queued /\ drained' = drained
        /\ todo' = todo /\ settled' = settled
    BY <1>6 DEF Decay
  <2>6. tick' \in 0..MaxTick
    BY <1>1, <2>5, BatchAssumption
  <2>7. CycleInv'
    BY <1>2, <2>4, <2>5 DEF CycleInv
  <2> QED
    BY <1>1, <2>3, <2>5, <2>6, <2>7
<1>7. CASE Drain
  <2>1. /\ pc = "drain" /\ drained' = queued /\ queued' = None /\ pc' = "batch"
        /\ todo' \subseteq Commutative
        /\ ingesting' = ingesting /\ pushing' = pushing /\ pools' = pools /\ tick' = tick
        /\ lost' = lost /\ settled' = settled
    BY <1>7 DEF Drain
  <2>2. queued' \in [Signal -> Nat] /\ \A s \in Signal : queued'[s] = 0
    BY <2>1 DEF None
  <2>3. CycleInv'
    BY <1>2, <2>1, <2>2 DEF CycleInv
  <2> QED
    BY <1>1, <2>1, <2>2, <2>3
<1>8. ASSUME NEW d \in Commutative, SynthesizeDomain(d)
      PROVE  /\ IsMap(pools', Pool, Nat)
             /\ ingesting' \in [Thread -> Signal \cup {NoSignal}]
             /\ pushing' \in [Thread -> Signal \cup {NoSignal}]
             /\ queued' \in [Signal -> Nat] /\ drained' \in [Signal -> Nat]
             /\ todo' \subseteq Commutative /\ pc' \in {"idle", "drain", "batch"}
             /\ tick' \in 0..MaxTick
             /\ CycleInv'
  <2>1. /\ pc = "batch" /\ todo' = todo \ {d} /\ pc' = pc
        /\ ingesting' = ingesting /\ pushing' = pushing /\ drained' = drained /\ tick' = tick
        /\ lost' = lost
    BY <1>8 DEF SynthesizeDomain
  <2>2. IsMap(pools', Pool, Nat) /\ (ApplyBatch(d) \/ FailBatch(d))
    BY <1>1, <1>8, BatchUpdates
  <2>3. ASSUME ApplyBatch(d)
        PROVE  queued' = queued /\ settled' \subseteq Signal
    BY <1>2, <2>3 DEF ApplyBatch, Batch
  <2>4. ASSUME FailBatch(d)
        PROVE  /\ queued' = [s \in Signal |-> IF s \in Batch(d)
                                               THEN queued[s] + drained[s]
                                               ELSE queued[s]]
               /\ settled' = settled
    BY <2>4 DEF FailBatch
  <2>5. queued' \in [Signal -> Nat] /\ settled' \subseteq Signal
    BY <1>1, <1>2, <2>2, <2>3, <2>4
  <2>6. \A s \in Signal : queued'[s] > 0 => Content[s].domain \in Commutative
    <3>1. \A s \in Signal : s \in Batch(d) => Content[s].domain \in Commutative
      BY <1>8 DEF Batch
    <3> QED
      BY <1>1, <1>2, <2>2, <2>3, <2>4, <3>1
  <2>7. CycleInv'
    BY <1>2, <2>1, <2>5, <2>6 DEF CycleInv
  <2> QED
    BY <1>1, <2>1, <2>2, <2>5, <2>7
<1>9. CASE Fees
  <2>1. /\ pc = "batch" /\ todo = {} /\ drained' = None /\ pc' = "idle"
        /\ ingesting' = ingesting /\ pushing' = pushing /\ queued' = queued /\ todo' = todo
        /\ pools' = pools /\ tick' = tick /\ lost' = lost
        /\ settled' = settled
    BY <1>9 DEF Fees
  <2>2. drained' \in [Signal -> Nat]
    BY <2>1 DEF None
  <2>3. CycleInv'
    BY <1>2, <2>1 DEF CycleInv
  <2> QED
    BY <1>1, <2>1, <2>2, <2>3
<1>10. ASSUME NEW th \in Thread, PushSignal(th)
       PROVE  /\ IsMap(pools', Pool, Nat)
              /\ ingesting' \in [Thread -> Signal \cup {NoSignal}]
              /\ pushing' \in [Thread -> Signal \cup {NoSignal}]
              /\ queued' \in [Signal -> Nat] /\ drained' \in [Signal -> Nat]
              /\ todo' \subseteq Commutative /\ pc' \in {"idle", "drain", "batch"}
              /\ tick' \in 0..MaxTick
              /\ CycleInv'
  <2>1. PICK s \in Signal : s = pushing[th] /\ s # NoSignal
    BY <1>1, <1>10 DEF PushSignal
  <2>2. /\ queued' = [queued EXCEPT ![s] = @ + 1]
        /\ pushing' = [pushing EXCEPT ![th] = NoSignal]
        /\ ingesting' = ingesting
        /\ drained' = drained /\ todo' = todo /\ pools' = pools /\ tick' = tick
        /\ pc' = pc /\ lost' = lost /\ settled' = settled
    BY <1>10, <2>1 DEF PushSignal
  <2>3. Content[s].domain \in Commutative
    BY <1>2, <2>1
  <2>4. queued' \in [Signal -> Nat]
    BY <1>1, <2>2
  <2>5. \A r \in Signal : queued'[r] > 0 => Content[r].domain \in Commutative
    BY <1>1, <1>2, <2>2, <2>3
  <2>6. /\ pushing' \in [Thread -> Signal \cup {NoSignal}]
        /\ \A u \in Thread : pushing'[u] # NoSignal =>
              Content[pushing'[u]].domain \in Commutative /\ ingesting'[u] = NoSignal
    BY <1>1, <1>2, <2>2
  <2>7. CycleInv'
    BY <1>2, <2>2, <2>5, <2>6 DEF CycleInv
  <2> QED
    BY <1>1, <2>2, <2>4, <2>6, <2>7
<1>13. ASSUME NEW th \in Thread, RecordSignature(th)
       PROVE  /\ IsMap(pools', Pool, Nat)
              /\ ingesting' \in [Thread -> Signal \cup {NoSignal}]
              /\ pushing' \in [Thread -> Signal \cup {NoSignal}]
              /\ queued' \in [Signal -> Nat] /\ drained' \in [Signal -> Nat]
              /\ todo' \subseteq Commutative /\ pc' \in {"idle", "drain", "batch"}
              /\ tick' \in 0..MaxTick
              /\ CycleInv'
  <2>1. PICK s \in Signal : s = ingesting[th] /\ s # NoSignal
    BY <1>1, <1>13 DEF RecordSignature
  <2>2. /\ ingesting' = [ingesting EXCEPT ![th] = NoSignal]
        /\ pushing' = [pushing EXCEPT ![th] = s]
        /\ queued' = queued
        /\ drained' = drained /\ todo' = todo /\ pools' = pools /\ tick' = tick
        /\ pc' = pc /\ lost' = lost /\ settled' = settled
    BY <1>13, <2>1 DEF RecordSignature
  <2>3. Content[s].domain \in Commutative
    BY <1>2, <2>1
  <2>4. /\ ingesting' \in [Thread -> Signal \cup {NoSignal}]
        /\ pushing' \in [Thread -> Signal \cup {NoSignal}]
    BY <1>1, <2>2
  <2>5. /\ \A u \in Thread : ingesting'[u] # NoSignal =>
              Content[ingesting'[u]].domain \in Commutative
        /\ \A u \in Thread : pushing'[u] # NoSignal =>
              Content[pushing'[u]].domain \in Commutative /\ ingesting'[u] = NoSignal
    BY <1>1, <1>2, <2>2, <2>3
  <2>6. CycleInv'
    BY <1>2, <2>2, <2>5 DEF CycleInv
  <2> QED
    BY <1>1, <2>2, <2>4, <2>6
<1>11. ASSUME NEW th \in Thread, NEW s \in Signal, CheckSignal(th, s)
       PROVE  /\ IsMap(pools', Pool, Nat)
              /\ ingesting' \in [Thread -> Signal \cup {NoSignal}]
              /\ pushing' \in [Thread -> Signal \cup {NoSignal}]
              /\ queued' \in [Signal -> Nat] /\ drained' \in [Signal -> Nat]
              /\ todo' \subseteq Commutative /\ pc' \in {"idle", "drain", "batch"}
              /\ tick' \in 0..MaxTick
              /\ CycleInv'
  <2>1. /\ Content[s].domain \in Commutative
        /\ pushing[th] = NoSignal /\ pushing' = pushing
        /\ ingesting' = [ingesting EXCEPT ![th] = s]
        /\ queued' = queued /\ drained' = drained /\ todo' = todo
        /\ pools' = pools /\ tick' = tick /\ pc' = pc /\ lost' = lost
        /\ settled' = settled
    BY <1>11 DEF CheckSignal
  <2>2. /\ ingesting' \in [Thread -> Signal \cup {NoSignal}]
        /\ \A u \in Thread : ingesting'[u] # NoSignal =>
                                 Content[ingesting'[u]].domain \in Commutative
        /\ \A u \in Thread : pushing'[u] # NoSignal =>
              Content[pushing'[u]].domain \in Commutative /\ ingesting'[u] = NoSignal
    BY <1>1, <1>2, <2>1
  <2>3. CycleInv'
    BY <1>2, <2>1, <2>2 DEF CycleInv
  <2> QED
    BY <1>1, <2>1, <2>2, <2>3
<1>12. ASSUME BoundReached \/ UNCHANGED vars PROVE UNCHANGED batchVars
  BY <1>12 DEF BoundReached, vars
<1> QED
  BY <1>5, <1>6, <1>7, <1>8, <1>9, <1>10, <1>11, <1>12, <1>13,
     ArrivingSignals DEF Next, Cycle

(* Every reachable state is typed; in particular no commutative batch,     *)
(* whether it succeeds, fails or fails half-way, leaves a pool of the      *)
(* wave-field negative, and no reward account goes below zero.             *)
THEOREM TypeCorrect == Spec => []TypeOK
<1>1. TypeInv => TypeOK
  BY DEF TypeInv
<1> QED
  BY <1>1, TypeInvInit, TypeInvStep, PTL DEF Spec

(* TypeInv always holds.                                                   *)
LEMMA TypeInvAlways == Spec => []TypeInv
BY TypeInvInit, TypeInvStep, PTL DEF Spec

(* At the start nothing was handed out.                                    *)
LEMMA RewardsInit == Init => RewardsConserved
<1> SUFFICES ASSUME Init PROVE RewardsConserved
  OBVIOUS
<1>1. RewardInv
  BY TypeInvInit DEF TypeInv, TypeOK, RewardInv
<1>2. /\ lp_rewards = 0 /\ handed = 0 /\ rounds = 0 /\ unstaked = 0
      /\ paid = 0 /\ refused = 0
      /\ rewards = [o \in {} |-> 0] /\ claiming = [c \in Claim |-> <<>>]
  BY DEF Init, RewardInit
<1>3. SumFunction(rewards) = 0
  <2>1. DOMAIN rewards = {}
    BY <1>2
  <2> QED
    BY <2>1, SumEmpty DEF SumFunction
<1>4. Claimed(claiming) = 0
  <2>1. /\ claiming["operator"] = <<>> /\ claiming["lp"] = <<>>
        /\ <<>> \in Seq(Nat) /\ Len(<<>>) <= 2
    BY <1>2 DEF Claim
  <2>2. SumFunction(<<>>) = 0
    BY <2>1, ShortSum
  <2>3. Claimed(claiming) = SumFunction(claiming["operator"])
                               + SumFunction(claiming["lp"])
    BY <1>1, ClaimedIsSum DEF RewardInv
  <2> QED
    BY <2>1, <2>2, <2>3
<1>5. Accounted = 0
  BY <1>1, <1>2, <1>3, <1>4, AccountedParts
<1>6. rounds * Cardinality(Operator) = 0
  BY <1>2, RewardAssumption, FS_CardinalityType
<1> QED
  BY <1>2, <1>5, <1>6 DEF RewardsConserved

(* Every step keeps the rewards accounted for.                             *)
LEMMA RewardsStep ==
    TypeInv /\ TypeInv' /\ RewardsConserved /\ [Next]_vars => RewardsConserved'
<1> SUFFICES ASSUME TypeInv, TypeInv', RewardsConserved, [Next]_vars
             PROVE  RewardsConserved'
  OBVIOUS
<1>1. RewardInv /\ RewardInv' /\ IsMap(pools, Pool, Nat)
  BY DEF TypeInv, TypeOK, RewardInv
<1>2. CASE UNCHANGED rewardVars
  BY <1>2 DEF rewardVars, RewardsConserved, Accounted
<1>3. CASE Decay
  <2>1. PICK loss \in [DOMAIN pools -> 0..MaxLoss], accounts \in AccountLoss :
           LoseAndDistribute(loss, accounts)
    BY <1>3 DEF Decay
  <2>2. PICK n \in Nat : n = accounts + SumFunction(loss)
    BY <1>1, LossType, BatchAssumption
  <2>3. PICK b \in Nat : b = (n * 2500) \div 10000 /\ n - b \in Nat
    BY DecayAmount
  <2>4. distribute(n - b)
    BY <2>1, <2>2, <2>3 DEF LoseAndDistribute
  <2>5. PICK m \in Nat : m = n - b
    BY <2>3
  <2>6. claiming' = claiming /\ paid' = paid /\ refused' = refused
    BY <1>3 DEF Decay
  <2> QED
    BY <1>1, <2>4, <2>5, <2>6, DistributeConserves
<1>4. CASE Fees
  <2>1. PICK n \in Nat : distribute(n)
    BY <1>4, BatchAssumption DEF Fees
  <2>2. claiming' = claiming /\ paid' = paid /\ refused' = refused
    BY <1>4 DEF Fees
  <2> QED
    BY <1>1, <2>1, <2>2, DistributeConserves
<1>5. CASE RewardStep
  BY <1>1, <1>5, ClaimConserves
<1>6. ASSUME NEW th \in Thread, RecordSignature(th) \/ PushSignal(th)
      PROVE  UNCHANGED rewardVars
  BY <1>6 DEF RecordSignature, PushSignal
<1>7. ASSUME NEW th \in Thread, NEW s \in Signal, CheckSignal(th, s)
      PROVE  UNCHANGED rewardVars
  BY <1>7 DEF CheckSignal
<1>8. ASSUME NEW d \in Commutative, SynthesizeDomain(d)
      PROVE  UNCHANGED rewardVars
  BY <1>8 DEF SynthesizeDomain
<1>9. ASSUME Drain \/ BoundReached \/ UNCHANGED vars
      PROVE  UNCHANGED rewardVars
  BY <1>9 DEF Drain, BoundReached, vars
<1> QED
  BY <1>2, <1>3, <1>4, <1>5, <1>6, <1>7, <1>8, <1>9, ArrivingSignals DEF Next, Cycle

(* Of everything that was handed to RewardPool::distribute, what did not   *)
(* meet an unstaked network is accrued, being claimed, paid or refused,    *)
(* once, up to one unit of rounding per operator and round: for any        *)
(* stakes and their changes, any amounts, and claims at any time.          *)
THEOREM RewardsAccountedFor == Spec => []RewardsConserved
BY RewardsInit, RewardsStep, TypeInvAlways, PTL DEF Spec

-----------------------------------------------------------------------------
(* No signal is forgotten *)

(* A recorded signature has a signal in the queue, one still to be         *)
(* synthesized in this cycle, or one that was settled.                     *)
Held(r) == queued[r] > 0 \/ Active(r) \/ r \in settled

(* Some thread has recorded the signature of r and has yet to push it.     *)
InHand(r) == \E th \in Thread : pushing[th] = r

HeldInv ==
    \A x \in seen_signatures :
        \E r \in Signal : Content[r].signature = x /\ (Held(r) \/ InHand(r))

(* A held signal stays held: a failed batch goes back to the queue before  *)
(* its domain is taken off the list, and a drained one is in a domain of   *)
(* the list.                                                               *)
LEMMA HeldStays ==
    ASSUME TypeInv, [Next]_vars, NEW r \in Signal, Held(r)
    PROVE  Held(r)'
<1>1. /\ queued \in [Signal -> Nat] /\ drained \in [Signal -> Nat]
      /\ pc # "batch" => drained = None /\ todo = {}
      /\ pushing \in [Thread -> Signal \cup {NoSignal}]
      /\ queued[r] > 0 => Content[r].domain \in Commutative
      /\ IsMap(pools, Pool, Nat)
  BY DEF TypeInv, TypeOK, CycleInv
<1>2. CASE UNCHANGED batchVars
  BY <1>2, RewardStepUnchanged DEF Held, Active
<1>3. CASE Decay
  BY <1>3 DEF Decay, Held, Active
<1>4. CASE Drain
  <2>1. /\ pc = "drain" /\ drained' = queued /\ settled' = settled
        /\ todo' = {Content[s].domain : s \in {s \in Signal : queued[s] > 0}}
                      \cap Commutative
    BY <1>4 DEF Drain
  <2>2. ~Active(r)
    BY <1>1, <2>1 DEF Active
  <2>3. queued[r] > 0 => drained'[r] > 0 /\ Content[r].domain \in todo'
    BY <1>1, <2>1
  <2> QED
    BY <2>1, <2>2, <2>3 DEF Held, Active
<1>5. ASSUME NEW d \in Commutative, SynthesizeDomain(d)
      PROVE  Held(r)'
  <2>1. todo' = todo \ {d} /\ drained' = drained
    BY <1>5 DEF SynthesizeDomain
  <2>2. ApplyBatch(d) \/ FailBatch(d)
    BY <1>5 DEF SynthesizeDomain
  <2>3. CASE ApplyBatch(d)
    <3>1. queued' = queued /\ settled' = settled \cup Batch(d)
      BY <2>3 DEF ApplyBatch
    <3> QED
      BY <2>1, <3>1 DEF Held, Active, Batch
  <2>4. CASE FailBatch(d)
    <3>1. /\ queued' = [s \in Signal |-> IF s \in Batch(d) THEN queued[s] + drained[s]
                                        ELSE queued[s]]
          /\ settled' = settled
      BY <2>4 DEF FailBatch
    <3>2. /\ r \in Batch(d) => drained[r] > 0 /\ queued'[r] = queued[r] + drained[r]
          /\ r \notin Batch(d) => queued'[r] = queued[r]
      BY <3>1 DEF Batch
    <3>3. queued[r] \in Nat /\ drained[r] \in Nat
      BY <1>1
    <3>4. CASE r \in Batch(d)
      BY <3>2, <3>3, <3>4 DEF Held
    <3>5. CASE r \notin Batch(d)
      <4>1. Active(r) => Content[r].domain # d
        BY <3>5 DEF Active, Batch
      <4> QED
        BY <2>1, <3>1, <3>2, <3>5, <4>1 DEF Held, Active
    <3> QED
      BY <3>4, <3>5
  <2> QED
    BY <2>2, <2>3, <2>4
<1>6. CASE Fees
  <2>1. todo = {} /\ queued' = queued /\ settled' = settled
    BY <1>6 DEF Fees
  <2> QED
    BY <2>1 DEF Held, Active
<1>10. ASSUME NEW th \in Thread, RecordSignature(th)
       PROVE  Held(r)'
  BY <1>10 DEF RecordSignature, Held, Active
<1>7. ASSUME NEW th \in Thread, PushSignal(th)
      PROVE  Held(r)'
  <2>1. PICK s \in Signal : s = pushing[th]
    BY <1>1, <1>7 DEF PushSignal
  <2>2. /\ queued' = [queued EXCEPT ![s] = @ + 1]
        /\ drained' = drained /\ todo' = todo /\ settled' = settled
    BY <1>7, <2>1 DEF PushSignal
  <2>3. queued'[r] >= queued[r] /\ queued[r] \in Nat /\ queued'[r] \in Nat
    BY <1>1, <2>2
  <2>4. queued[r] > 0 => queued'[r] > 0
    BY <2>3
  <2> QED
    BY <2>2, <2>4 DEF Held, Active
<1>8. ASSUME NEW th \in Thread, NEW s \in Signal, CheckSignal(th, s)
      PROVE  Held(r)'
  BY <1>8 DEF CheckSignal, Held, Active
<1>9. ASSUME BoundReached \/ UNCHANGED vars PROVE UNCHANGED batchVars
  BY <1>9 DEF BoundReached, vars
<1> QED
  BY <1>2, <1>3, <1>4, <1>5, <1>6, <1>7, <1>8, <1>9, <1>10, ArrivingSignals DEF Next, Cycle

(* Apart from the two last steps of ingestion, no step records a           *)
(* signature, changes what a thread has in hand or lets a new signal in.   *)
LEMMA CycleLetsNothingIn ==
    ASSUME TypeInv, [Next]_vars
    PROVE  \/ \E th \in Thread : RecordSignature(th) \/ PushSignal(th)
           \/ /\ pushing' = pushing /\ seen_signatures' = seen_signatures
              /\ raced \subseteq raced'
              /\ \A r \in Signal : Held(r)' => Held(r)
<1> DEFINE Quiet == /\ pushing' = pushing /\ seen_signatures' = seen_signatures
                    /\ raced \subseteq raced'
                    /\ \A r \in Signal : Held(r)' => Held(r)
<1>1. /\ queued \in [Signal -> Nat] /\ drained \in [Signal -> Nat]
      /\ pc # "batch" => drained = None /\ todo = {}
  BY DEF TypeInv, TypeOK, CycleInv
<1>2. ASSUME UNCHANGED batchVars
      PROVE  Quiet
  BY <1>2, RewardStepUnchanged DEF Held, Active
<1>3. ASSUME Decay
      PROVE  Quiet
  BY <1>3 DEF Decay, Held, Active
<1>4. ASSUME Drain
      PROVE  Quiet
  <2>1. /\ pushing' = pushing /\ seen_signatures' = seen_signatures
        /\ raced' = raced /\ settled' = settled /\ drained' = queued
        /\ queued' = None
    BY <1>4 DEF Drain
  <2>2. ASSUME NEW r \in Signal PROVE Held(r)' => Held(r)
    <3>1. queued'[r] = 0
      BY <2>1 DEF None
    <3> QED
      BY <2>1, <3>1 DEF Held, Active
  <2> QED
    BY <2>1, <2>2
<1>5. ASSUME NEW d \in Commutative, SynthesizeDomain(d)
      PROVE  Quiet
  <2>1. /\ d \in todo /\ todo' = todo \ {d} /\ drained' = drained
        /\ pushing' = pushing /\ seen_signatures' = seen_signatures
        /\ raced' = raced
    BY <1>5 DEF SynthesizeDomain
  <2>2. ApplyBatch(d) \/ FailBatch(d)
    BY <1>5 DEF SynthesizeDomain
  <2>3. ASSUME NEW r \in Signal PROVE Held(r)' => Held(r)
    <3>1. r \in Batch(d) => Active(r)
      BY <2>1 DEF Active, Batch
    <3>2. Active(r)' => Active(r)
      BY <2>1 DEF Active
    <3>3. CASE ApplyBatch(d)
      <4>1. queued' = queued /\ settled' = settled \cup Batch(d)
        BY <3>3 DEF ApplyBatch
      <4> QED
        BY <3>1, <3>2, <4>1 DEF Held
    <3>4. CASE FailBatch(d)
      <4>1. settled' = settled /\ (r \notin Batch(d) => queued'[r] = queued[r])
        BY <3>4 DEF FailBatch
      <4> QED
        BY <3>1, <3>2, <4>1 DEF Held
    <3> QED
      BY <2>2, <3>3, <3>4
  <2> QED
    BY <2>1, <2>3
<1>6. ASSUME Fees
      PROVE  Quiet
  <2>1. /\ pushing' = pushing /\ seen_signatures' = seen_signatures
        /\ raced' = raced /\ settled' = settled /\ queued' = queued
        /\ todo = {} /\ todo' = {}
    BY <1>6 DEF Fees
  <2> QED
    BY <2>1 DEF Held, Active
<1>7. ASSUME NEW th \in Thread, NEW s \in Signal, CheckSignal(th, s)
      PROVE  Quiet
  BY <1>7 DEF CheckSignal, Held, Active
<1>8. ASSUME BoundReached \/ UNCHANGED vars PROVE UNCHANGED batchVars
  BY <1>8 DEF BoundReached, vars
<1> HIDE DEF Quiet
<1>9. (\E th \in Thread : RecordSignature(th) \/ PushSignal(th)) \/ Quiet
  BY <1>2, <1>3, <1>4, <1>5, <1>6, <1>7, <1>8, ArrivingSignals DEF Next, Cycle
<1> QED
  BY <1>9 DEF Quiet

(* A signal in a thread's hand stays there or is pushed.                   *)
LEMMA InHandStays ==
    ASSUME TypeInv, [Next]_vars, NEW r \in Signal, InHand(r)
    PROVE  Held(r)' \/ InHand(r)'
<1>1. /\ queued \in [Signal -> Nat]
      /\ pushing \in [Thread -> Signal \cup {NoSignal}]
      /\ \A u \in Thread : pushing[u] # NoSignal => ingesting[u] = NoSignal
  BY DEF TypeInv, TypeOK, CycleInv
<1>2. PICK v \in Thread : pushing[v] = r
  BY DEF InHand
<1>3. r # NoSignal
  BY BatchAssumption
<1>4. ASSUME NEW th \in Thread, RecordSignature(th)
      PROVE  InHand(r)'
  <2>1. /\ ingesting[th] # NoSignal
        /\ pushing' = [pushing EXCEPT ![th] = ingesting[th]]
    BY <1>4 DEF RecordSignature
  <2>2. v # th
    BY <1>1, <1>2, <1>3, <2>1
  <2>3. pushing'[v] = r
    BY <1>1, <1>2, <2>1, <2>2
  <2> QED
    BY <2>3 DEF InHand
<1>5. ASSUME NEW th \in Thread, PushSignal(th)
      PROVE  Held(r)' \/ InHand(r)'
  <2>1. /\ pushing' = [pushing EXCEPT ![th] = NoSignal]
        /\ queued' = [queued EXCEPT ![pushing[th]] = @ + 1]
    BY <1>5 DEF PushSignal
  <2>2. CASE v = th
    <3>1. queued'[r] = queued[r] + 1 /\ queued[r] \in Nat
      BY <1>1, <1>2, <2>1, <2>2
    <3>2. queued'[r] > 0
      BY <3>1
    <3> QED
      BY <3>2 DEF Held
  <2>3. CASE v # th
    <3>1. pushing'[v] = r
      BY <1>1, <1>2, <2>1, <2>3
    <3> QED
      BY <3>1 DEF InHand
  <2> QED
    BY <2>2, <2>3
<1>6. ASSUME pushing' = pushing
      PROVE  InHand(r)'
  BY <1>2, <1>6 DEF InHand
<1> QED
  BY <1>4, <1>5, <1>6, CycleLetsNothingIn

(* Only RecordSignature records a signature, and then the thread has the   *)
(* signal in hand.                                                         *)
LEMMA RecordedIsHeld ==
    ASSUME TypeInv, [Next]_vars, NEW x \in seen_signatures',
           x \notin seen_signatures
    PROVE  \E r \in Signal : Content[r].signature = x /\ InHand(r)'
<1>1. /\ pushing \in [Thread -> Signal \cup {NoSignal}]
      /\ ingesting \in [Thread -> Signal \cup {NoSignal}]
  BY DEF TypeInv, TypeOK
<1>2. ASSUME NEW th \in Thread, RecordSignature(th)
      PROVE  \E r \in Signal : Content[r].signature = x /\ InHand(r)'
  <2>1. PICK s \in Signal : s = ingesting[th]
    BY <1>1, <1>2 DEF RecordSignature
  <2>2. /\ pushing' = [pushing EXCEPT ![th] = s]
        /\ seen_signatures' = seen_signatures \cup {Content[s].signature}
    BY <1>2, <2>1 DEF RecordSignature
  <2>3. Content[s].signature = x /\ pushing'[th] = s
    BY <1>1, <2>2
  <2> QED
    BY <2>3 DEF InHand
<1>3. ASSUME NEW th \in Thread, PushSignal(th)
      PROVE  seen_signatures' = seen_signatures
  BY <1>3 DEF PushSignal
<1> QED
  BY <1>2, <1>3, CycleLetsNothingIn

(* The invariant behind NothingForgotten is preserved.                     *)
LEMMA HeldStep == TypeInv /\ HeldInv /\ [Next]_vars => HeldInv'
<1> SUFFICES ASSUME TypeInv, HeldInv, [Next]_vars, NEW x \in seen_signatures'
             PROVE  \E r \in Signal : /\ Content[r].signature = x
                                      /\ Held(r)' \/ InHand(r)'
  BY DEF HeldInv
<1>1. CASE x \in seen_signatures
  <2>1. PICK r \in Signal : Content[r].signature = x /\ (Held(r) \/ InHand(r))
    BY <1>1 DEF HeldInv
  <2>2. Held(r)' \/ InHand(r)'
    BY <2>1, HeldStays, InHandStays
  <2> QED
    BY <2>1, <2>2
<1>2. CASE x \notin seen_signatures
  BY <1>2, RecordedIsHeld
<1> QED
  BY <1>1, <1>2

(* A signal whose signature ingest_commutative recorded is never           *)
(* forgotten, although the check, the recording, the draining of the queue *)
(* and the synthesis of a batch are separate steps and batches may fail.   *)
THEOREM SignalsAreKept == Spec => []NothingForgotten
<1>1. Init => HeldInv
  BY DEF Init, HeldInv
<1>2. HeldInv => NothingForgotten
  BY DEF HeldInv, NothingForgotten, Held, InHand, Active
<1> QED
  BY <1>1, <1>2, HeldStep, TypeInvAlways, PTL DEF Spec

-----------------------------------------------------------------------------
(* Every signal counts once *)

(* Two threads that ingest one signature were noticed, and a signature     *)
(* that only one thread ingests is not recorded yet.                       *)
RaceInv ==
    /\ \A th, u \in Thread :
          (/\ th # u /\ ingesting[th] # NoSignal /\ ingesting[u] # NoSignal
           /\ Content[ingesting[th]].signature = Content[ingesting[u]].signature)
          => Content[ingesting[th]].signature \in raced
    /\ \A th \in Thread :
          (ingesting[th] # NoSignal /\ Content[ingesting[th]].signature \notin raced)
          => Content[ingesting[th]].signature \notin seen_signatures

(* How often a signal waits to be synthesized.                             *)
Copies(s) == queued[s] + (IF Active(s) THEN drained[s] ELSE 0)

(* A signal that was not let in twice waits once at most, not at all once  *)
(* it is settled, and was recorded.                                        *)
OnceInv ==
    \A s \in Signal : Content[s].signature \notin raced =>
        /\ Copies(s) <= 1
        /\ s \in settled => Copies(s) = 0
        /\ Held(s) => Content[s].signature \in seen_signatures

(* A signal that was not let in twice is in one thread's hand at most; its *)
(* signature is recorded, and it is in no other place.                     *)
HandInv ==
    \A s \in Signal, th \in Thread :
        pushing[th] = s /\ Content[s].signature \notin raced =>
            /\ Content[s].signature \in seen_signatures /\ ~Held(s)
            /\ \A u \in Thread : pushing[u] = s => u = th

(* A signal in no place has no copies.                                     *)
LEMMA CopiesType ==
    ASSUME TypeInv, NEW s \in Signal
    PROVE  /\ Copies(s) \in Nat /\ queued[s] \in Nat /\ drained[s] \in Nat
           /\ ~Held(s) => Copies(s) = 0 /\ s \notin settled
<1>1. queued[s] \in Nat /\ drained[s] \in Nat
  BY DEF TypeInv, TypeOK
<1> QED
  BY <1>1 DEF Copies, Held

(* Checks and recordings keep RaceInv.                                     *)
LEMMA RaceStep == TypeInv /\ RaceInv /\ [Next]_vars => RaceInv'
<1> SUFFICES ASSUME TypeInv, RaceInv, [Next]_vars PROVE RaceInv'
  OBVIOUS
<1>1. ingesting \in [Thread -> Signal \cup {NoSignal}]
  BY DEF TypeInv, TypeOK
<1>2. CASE /\ ingesting' = ingesting /\ raced' = raced
           /\ seen_signatures' = seen_signatures
  BY <1>2 DEF RaceInv
<1>3. ASSUME NEW th \in Thread, RecordSignature(th)
      PROVE  RaceInv'
  <2>1. PICK s \in Signal : s = ingesting[th] /\ s # NoSignal
    BY <1>1, <1>3 DEF RecordSignature
  <2>2. /\ ingesting' = [ingesting EXCEPT ![th] = NoSignal] /\ raced' = raced
        /\ seen_signatures' = seen_signatures \cup {Content[s].signature}
    BY <1>3, <2>1 DEF RecordSignature
  <2>3. /\ ingesting'[th] = NoSignal
        /\ \A u \in Thread : u # th => ingesting'[u] = ingesting[u]
    BY <1>1, <2>2
  <2>4. \A u \in Thread :
           (/\ u # th /\ ingesting[u] # NoSignal
            /\ Content[ingesting[u]].signature = Content[s].signature)
           => Content[s].signature \in raced
    BY <2>1 DEF RaceInv
  <2>5. \A v, u \in Thread :
          (/\ v # u /\ ingesting'[v] # NoSignal /\ ingesting'[u] # NoSignal
           /\ Content[ingesting'[v]].signature = Content[ingesting'[u]].signature)
          => Content[ingesting'[v]].signature \in raced'
    BY <2>2, <2>3 DEF RaceInv
  <2>6. \A u \in Thread :
          (ingesting'[u] # NoSignal /\ Content[ingesting'[u]].signature \notin raced')
          => Content[ingesting'[u]].signature \notin seen_signatures'
    BY <2>2, <2>3, <2>4 DEF RaceInv
  <2> QED
    BY <2>5, <2>6 DEF RaceInv
<1>4. ASSUME NEW th \in Thread, NEW s \in Signal, CheckSignal(th, s)
      PROVE  RaceInv'
  <2>1. /\ ingesting[th] = NoSignal
        /\ Content[s].signature \notin seen_signatures
        /\ ingesting' = [ingesting EXCEPT ![th] = s]
        /\ seen_signatures' = seen_signatures
    BY <1>4 DEF CheckSignal
  <2>2. /\ raced \subseteq raced'
        /\ (\E u \in Thread : /\ ingesting[u] # NoSignal
                               /\ Content[ingesting[u]].signature
                                     = Content[s].signature)
             => Content[s].signature \in raced'
    BY <1>4 DEF CheckSignal
  <2>3. /\ ingesting'[th] = s
        /\ \A u \in Thread : u # th => ingesting'[u] = ingesting[u]
    BY <1>1, <2>1
  <2>4. ASSUME NEW v \in Thread, NEW u \in Thread, v # u,
               ingesting'[v] # NoSignal, ingesting'[u] # NoSignal,
               Content[ingesting'[v]].signature = Content[ingesting'[u]].signature
        PROVE  Content[ingesting'[v]].signature \in raced'
    <3>1. CASE v = th
      <4>1. ingesting'[v] = s /\ ingesting'[u] = ingesting[u]
        BY <2>3, <2>4, <3>1
      <4> QED
        BY <2>2, <2>4, <4>1
    <3>2. CASE u = th
      <4>1. ingesting'[u] = s /\ ingesting'[v] = ingesting[v]
        BY <2>3, <2>4, <3>2
      <4> QED
        BY <2>2, <2>4, <4>1
    <3>3. CASE v # th /\ u # th
      <4>1. ingesting'[u] = ingesting[u] /\ ingesting'[v] = ingesting[v]
        BY <2>3, <3>3
      <4> QED
        BY <2>2, <2>4, <4>1 DEF RaceInv
    <3> QED
      BY <3>1, <3>2, <3>3
  <2>5. \A u \in Thread :
          (ingesting'[u] # NoSignal /\ Content[ingesting'[u]].signature \notin raced')
          => Content[ingesting'[u]].signature \notin seen_signatures'
    BY <2>1, <2>2, <2>3 DEF RaceInv
  <2> QED
    BY <2>4, <2>5 DEF RaceInv
<1>5. ASSUME NEW d \in Commutative, SynthesizeDomain(d)
      PROVE  /\ ingesting' = ingesting /\ raced' = raced
             /\ seen_signatures' = seen_signatures
  BY <1>5 DEF SynthesizeDomain
<1>6. ASSUME Decay \/ Drain \/ Fees
      PROVE  /\ ingesting' = ingesting /\ raced' = raced
             /\ seen_signatures' = seen_signatures
  BY <1>6 DEF Decay, Drain, Fees
<1>8. ASSUME NEW th \in Thread, PushSignal(th)
      PROVE  /\ ingesting' = ingesting /\ raced' = raced
             /\ seen_signatures' = seen_signatures
  BY <1>8 DEF PushSignal
<1>7. ASSUME BoundReached \/ UNCHANGED batchVars \/ UNCHANGED vars
      PROVE  /\ ingesting' = ingesting /\ raced' = raced
             /\ seen_signatures' = seen_signatures
  BY <1>7 DEF BoundReached, vars, batchVars
<1> QED
  BY <1>2, <1>3, <1>4, <1>5, <1>6, <1>7, <1>8, ArrivingSignals DEF Next, Cycle

(* No step lets a signal wait twice, unless its signature was raced.       *)
LEMMA OnceStep ==
    TypeInv /\ TypeInv' /\ HandInv /\ OnceInv /\ [Next]_vars => OnceInv'
<1> SUFFICES ASSUME TypeInv, TypeInv', HandInv, OnceInv, [Next]_vars,
                    NEW s \in Signal, Content[s].signature \notin raced'
             PROVE  /\ Copies(s)' <= 1
                    /\ s \in settled' => Copies(s)' = 0
                    /\ Held(s)' => Content[s].signature \in seen_signatures'
  BY DEF OnceInv
<1> DEFINE Goal == /\ Copies(s)' <= 1
                   /\ s \in settled' => Copies(s)' = 0
                   /\ Held(s)' => Content[s].signature \in seen_signatures'
<1>1. /\ queued \in [Signal -> Nat] /\ drained \in [Signal -> Nat]
      /\ pc # "batch" => drained = None /\ todo = {}
      /\ pushing \in [Thread -> Signal \cup {NoSignal}]
      /\ queued[s] > 0 => Content[s].domain \in Commutative
  BY DEF TypeInv, TypeOK, CycleInv
<1>2. Copies(s) \in Nat /\ queued[s] \in Nat /\ drained[s] \in Nat
  BY CopiesType
<1>3. Content[s].signature \notin raced =>
         /\ Copies(s) <= 1
         /\ s \in settled => Copies(s) = 0
         /\ Held(s) => Content[s].signature \in seen_signatures
  BY DEF OnceInv
<1>4. ASSUME queued' = queued, settled' = settled,
             Active(s)' = Active(s), Active(s) => drained'[s] = drained[s],
             raced \subseteq raced', seen_signatures' = seen_signatures
      PROVE  Goal
  <2>1. Copies(s)' = Copies(s) /\ Held(s)' = Held(s)
    BY <1>4 DEF Copies, Held
  <2> QED
    BY <1>3, <1>4, <2>1
<1>5. CASE UNCHANGED batchVars
  <2>1. /\ queued' = queued /\ settled' = settled /\ drained' = drained
        /\ todo' = todo /\ raced' = raced /\ seen_signatures' = seen_signatures
    BY <1>5, RewardStepUnchanged
  <2>2. Active(s)' = Active(s)
    BY <2>1 DEF Active
  <2> QED
    BY <1>4, <2>1, <2>2
<1>6. CASE Decay
  <2>1. /\ queued' = queued /\ settled' = settled /\ drained' = drained
        /\ todo' = todo /\ raced' = raced /\ seen_signatures' = seen_signatures
    BY <1>6 DEF Decay
  <2>2. Active(s)' = Active(s)
    BY <2>1 DEF Active
  <2> QED
    BY <1>4, <2>1, <2>2
<1>7. CASE Drain
  <2>1. /\ pc = "drain" /\ drained' = queued /\ queued' = None
        /\ settled' = settled /\ raced' = raced
        /\ seen_signatures' = seen_signatures
        /\ todo' = {Content[r].domain : r \in {r \in Signal : queued[r] > 0}}
                      \cap Commutative
    BY <1>7 DEF Drain
  <2>2. ~Active(s)
    BY <1>1, <2>1 DEF Active
  <2>3. queued'[s] = 0
    BY <2>1 DEF None
  <2>4. Copies(s) = queued[s]
    BY <1>2, <2>2 DEF Copies
  <2>5. Active(s)' <=> queued[s] > 0
    <3>1. queued[s] > 0 => Content[s].domain \in todo'
      BY <1>1, <2>1
    <3> QED
      BY <2>1, <3>1 DEF Active
  <2>6. Copies(s)' = queued[s]
    <3>1. Copies(s)' = 0 + (IF Active(s)' THEN queued[s] ELSE 0)
      BY <2>1, <2>3 DEF Copies
    <3> QED
      BY <1>2, <2>5, <3>1
  <2>7. Held(s)' <=> Held(s)
    BY <1>2, <2>1, <2>2, <2>3, <2>5 DEF Held
  <2> QED
    BY <1>3, <2>1, <2>4, <2>6, <2>7
<1>8. ASSUME NEW d \in Commutative, SynthesizeDomain(d)
      PROVE  Goal
  <2>1. /\ d \in todo /\ todo' = todo \ {d} /\ drained' = drained
        /\ raced' = raced /\ seen_signatures' = seen_signatures
    BY <1>8 DEF SynthesizeDomain
  <2>2. ApplyBatch(d) \/ FailBatch(d)
    BY <1>8 DEF SynthesizeDomain
  <2>3. CASE s \notin Batch(d)
    <3>1. Active(s)' = Active(s)
      BY <2>1, <2>3 DEF Active, Batch
    <3>2. CASE ApplyBatch(d)
      <4>1. queued' = queued /\ settled' = settled \cup Batch(d)
        BY <3>2 DEF ApplyBatch
      <4>2. Copies(s)' = Copies(s) /\ (s \in settled' <=> s \in settled)
        BY <2>1, <2>3, <3>1, <4>1 DEF Copies
      <4>3. Held(s)' <=> Held(s)
        BY <3>1, <4>1, <4>2 DEF Held
      <4> QED
        BY <1>3, <2>1, <4>2, <4>3
    <3>3. CASE FailBatch(d)
      <4>1. queued'[s] = queued[s] /\ settled' = settled
        BY <2>3, <3>3 DEF FailBatch
      <4>2. Copies(s)' = Copies(s)
        BY <2>1, <3>1, <4>1 DEF Copies
      <4>3. Held(s)' <=> Held(s)
        BY <3>1, <4>1 DEF Held
      <4> QED
        BY <1>3, <2>1, <4>1, <4>2, <4>3
    <3> QED
      BY <2>2, <3>2, <3>3
  <2>4. CASE s \in Batch(d)
    <3>1. Active(s) /\ ~Active(s)' /\ drained[s] > 0
      BY <2>1, <2>4 DEF Active, Batch
    <3>2. Copies(s) = queued[s] + drained[s] /\ Copies(s)' = queued'[s] + 0
      BY <3>1 DEF Copies
    <3>3. Copies(s) <= 1 /\ Content[s].signature \in seen_signatures
      BY <1>3, <2>1, <3>1 DEF Held
    <3>4. CASE ApplyBatch(d)
      <4>1. queued' = queued
        BY <3>4 DEF ApplyBatch
      <4>2. Copies(s)' = 0
        BY <1>2, <3>1, <3>2, <3>3, <4>1
      <4> QED
        BY <2>1, <3>3, <4>2
    <3>5. CASE FailBatch(d)
      <4>1. queued'[s] = queued[s] + drained[s] /\ settled' = settled
        BY <2>4, <3>5 DEF FailBatch
      <4>2. Copies(s)' = Copies(s)
        BY <1>2, <3>2, <4>1
      <4> QED
        BY <1>3, <2>1, <3>3, <4>1, <4>2
    <3> QED
      BY <2>2, <3>4, <3>5
  <2> QED
    BY <2>3, <2>4
<1>9. CASE Fees
  <2>1. /\ queued' = queued /\ settled' = settled
        /\ todo = {} /\ todo' = {} /\ raced' = raced
        /\ seen_signatures' = seen_signatures
    BY <1>9 DEF Fees
  <2>2. ~Active(s) /\ ~Active(s)'
    BY <2>1 DEF Active
  <2>3. Active(s)' = Active(s)
    BY <2>2 DEF Active
  <2> QED
    BY <1>4, <2>1, <2>2, <2>3
<1>13. ASSUME NEW th \in Thread, RecordSignature(th)
       PROVE  Goal
  <2>1. /\ queued' = queued /\ settled' = settled /\ drained' = drained
        /\ todo' = todo /\ raced' = raced
        /\ seen_signatures \subseteq seen_signatures'
    BY <1>13 DEF RecordSignature
  <2>2. Active(s)' = Active(s)
    BY <2>1 DEF Active
  <2>3. Copies(s)' = Copies(s) /\ Held(s)' = Held(s)
    BY <2>1, <2>2 DEF Copies, Held
  <2> QED
    BY <1>3, <2>1, <2>3
<1>10. ASSUME NEW th \in Thread, PushSignal(th)
       PROVE  Goal
  <2>1. PICK r \in Signal : r = pushing[th]
    BY <1>1, <1>10 DEF PushSignal
  <2>2. /\ queued' = [queued EXCEPT ![r] = @ + 1] /\ raced' = raced
        /\ seen_signatures' = seen_signatures
        /\ drained' = drained /\ todo' = todo /\ settled' = settled
    BY <1>10, <2>1 DEF PushSignal
  <2>3. Active(s)' = Active(s)
    BY <2>2 DEF Active
  <2>4. CASE s # r
    <3>1. queued'[s] = queued[s]
      BY <1>1, <2>2, <2>4
    <3>2. Copies(s)' = Copies(s) /\ Held(s)' = Held(s)
      BY <2>2, <2>3, <3>1 DEF Copies, Held
    <3> QED
      BY <1>3, <2>2, <3>2
  <2>5. CASE s = r
    <3>2. Content[s].signature \in seen_signatures /\ ~Held(s)
      BY <2>1, <2>2, <2>5 DEF HandInv
    <3>3. queued[s] = 0 /\ ~Active(s) /\ s \notin settled
      BY <1>2, <3>2 DEF Held
    <3>4. queued'[s] = 1
      BY <1>1, <2>2, <2>5, <3>3
    <3>5. Copies(s)' = 1
      <4>1. Copies(s)' = queued'[s] + 0
        BY <2>3, <3>3 DEF Copies
      <4> QED
        BY <3>4, <4>1
    <3> QED
      BY <2>2, <3>2, <3>3, <3>5
  <2> QED
    BY <2>4, <2>5
<1>11. ASSUME NEW th \in Thread, NEW r \in Signal, CheckSignal(th, r)
       PROVE  Goal
  <2>1. /\ queued' = queued /\ settled' = settled /\ drained' = drained
        /\ todo' = todo /\ raced \subseteq raced'
        /\ seen_signatures' = seen_signatures
    BY <1>11 DEF CheckSignal
  <2>2. Active(s)' = Active(s)
    BY <2>1 DEF Active
  <2> QED
    BY <1>4, <2>1, <2>2
<1>12. ASSUME BoundReached \/ UNCHANGED vars PROVE UNCHANGED batchVars
  BY <1>12 DEF BoundReached, vars
<1> QED
  BY <1>5, <1>6, <1>7, <1>8, <1>9, <1>10, <1>11, <1>12, <1>13,
     ArrivingSignals DEF Next, Cycle

(* A signal in hand stays the only one of its kind.                        *)
LEMMA HandStep ==
    TypeInv /\ RaceInv /\ HandInv /\ OnceInv /\ [Next]_vars => HandInv'
<1> SUFFICES ASSUME TypeInv, RaceInv, HandInv, OnceInv, [Next]_vars,
                    NEW s \in Signal, NEW v \in Thread, pushing'[v] = s,
                    Content[s].signature \notin raced'
             PROVE  /\ Content[s].signature \in seen_signatures' /\ ~Held(s)'
                    /\ \A u \in Thread : pushing'[u] = s => u = v
  BY DEF HandInv
<1> DEFINE Goal == /\ Content[s].signature \in seen_signatures' /\ ~Held(s)'
                   /\ \A u \in Thread : pushing'[u] = s => u = v
<1>1. /\ queued \in [Signal -> Nat]
      /\ pushing \in [Thread -> Signal \cup {NoSignal}]
      /\ ingesting \in [Thread -> Signal \cup {NoSignal}]
  BY DEF TypeInv, TypeOK
<1>2. s # NoSignal
  BY BatchAssumption
<1>3. \A u \in Thread : pushing[u] = s /\ Content[s].signature \notin raced =>
         /\ Content[s].signature \in seen_signatures /\ ~Held(s)
         /\ \A w \in Thread : pushing[w] = s => w = u
  BY DEF HandInv
<1>4. ASSUME pushing' = pushing, seen_signatures' = seen_signatures,
             raced \subseteq raced', Held(s)' => Held(s)
      PROVE  Goal
  BY <1>3, <1>4
<1>5. ASSUME NEW th \in Thread, RecordSignature(th)
      PROVE  Goal
  <2>1. PICK r \in Signal : r = ingesting[th] /\ r # NoSignal
    BY <1>1, <1>5 DEF RecordSignature
  <2>2. /\ pushing' = [pushing EXCEPT ![th] = r] /\ raced' = raced
        /\ seen_signatures' = seen_signatures \cup {Content[r].signature}
        /\ queued' = queued /\ drained' = drained /\ todo' = todo
        /\ settled' = settled
    BY <1>5, <2>1 DEF RecordSignature
  <2>3. Held(s)' = Held(s)
    BY <2>2 DEF Held, Active
  <2>4. /\ pushing'[th] = r
        /\ \A u \in Thread : u # th => pushing'[u] = pushing[u]
    BY <1>1, <2>2
  <2>5. CASE s = r
    <3>1. Content[s].signature \notin seen_signatures
      BY <2>1, <2>2, <2>5 DEF RaceInv
    <3>2. ~Held(s)
      BY <2>2, <3>1 DEF OnceInv
    <3>3. \A u \in Thread : pushing[u] # s
      BY <1>3, <2>2, <3>1
    <3>4. \A u \in Thread : pushing'[u] = s => u = th
      BY <2>4, <3>3
    <3> QED
      BY <2>2, <2>3, <2>5, <3>2, <3>4
  <2>6. CASE s # r
    <3>1. \A u \in Thread : pushing'[u] = s => pushing[u] = s
      BY <2>4, <2>6
    <3> QED
      BY <1>3, <2>2, <2>3, <3>1
  <2> QED
    BY <2>5, <2>6
<1>6. ASSUME NEW th \in Thread, PushSignal(th)
      PROVE  Goal
  <2>1. PICK r \in Signal : r = pushing[th]
    BY <1>1, <1>6 DEF PushSignal
  <2>2. /\ pushing' = [pushing EXCEPT ![th] = NoSignal] /\ raced' = raced
        /\ queued' = [queued EXCEPT ![r] = @ + 1]
        /\ seen_signatures' = seen_signatures
        /\ drained' = drained /\ todo' = todo /\ settled' = settled
    BY <1>6, <2>1 DEF PushSignal
  <2>3. /\ pushing'[th] = NoSignal
        /\ \A u \in Thread : u # th => pushing'[u] = pushing[u]
    BY <1>1, <2>2
  <2>4. \A u \in Thread : pushing'[u] = s => u # th /\ pushing[u] = s
    BY <1>2, <2>3
  <2>5. s # r
    BY <1>3, <2>1, <2>2, <2>4
  <2>6. Held(s)' = Held(s)
    <3>1. queued'[s] = queued[s]
      BY <1>1, <2>2, <2>5
    <3> QED
      BY <2>2, <3>1 DEF Held, Active
  <2> QED
    BY <1>3, <2>2, <2>4, <2>6
<1> QED
  BY <1>4, <1>5, <1>6, CycleLetsNothingIn

(* The deltas of a batch, for a pool whose signals each wait once.         *)
LEMMA AggregateOnce ==
    ASSUME TypeInv, OnceInv, NEW d \in todo, NEW p \in Pool,
           \A s \in Signal : Content[s].pool = p => Content[s].signature \notin raced
    PROVE  LET B == {s \in Batch(d) : Content[s].pool = p}
               D == [s \in Signal |-> Content[s].delta]
           IN  /\ Aggregate(d, p) = SumFunctionOnSet(D, B)
               /\ settled \cap B = {} /\ B \subseteq Signal
<1> DEFINE B == {s \in Batch(d) : Content[s].pool = p}
           D == [s \in Signal |-> Content[s].delta]
           f == [s \in Signal |-> drained[s] * Content[s].delta]
<1>1. ASSUME NEW s \in B
      PROVE  s \in Signal /\ drained[s] = 1 /\ s \notin settled
  <2>1. s \in Signal /\ Active(s) /\ Content[s].pool = p /\ drained[s] > 0
    BY <1>1, BatchActive DEF Batch
  <2>2. Content[s].signature \notin raced
    BY <2>1
  <2>3. Copies(s) <= 1 /\ (s \in settled => Copies(s) = 0)
    BY <2>1, <2>2 DEF OnceInv
  <2>4. queued[s] \in Nat /\ drained[s] \in Nat
    BY <2>1, CopiesType
  <2>5. Copies(s) = queued[s] + drained[s]
    BY <2>1 DEF Copies
  <2> QED
    BY <2>1, <2>3, <2>4, <2>5
<1>2. \A s \in B : f[s] = D[s]
  BY <1>1, BatchAssumption
<1>3. B \subseteq Signal /\ IsFiniteSet(B)
  BY <1>1, BatchAssumption, FS_Subset
<1>4. Aggregate(d, p) = SumFunctionOnSet(f, B)
  BY DEF Aggregate, SumOf
<1> HIDE DEF B, D, f
<1>5. SumFunctionOnSet(f, B) = SumFunctionOnSet(D, B)
  BY <1>2, <1>3, SumEqual
<1>6. settled \cap B = {}
  BY <1>1
<1> QED
  BY <1>3, <1>4, <1>5, <1>6 DEF B, D

(* The pools follow the settled signals.                                   *)
LEMMA PoolsStep ==
    TypeInv /\ OnceInv /\ SignalCountsOnce /\ [Next]_vars => SignalCountsOnce'
<1> DEFINE mine(p) == {s \in Signal : Content[s].pool = p}
           D == [s \in Signal |-> Content[s].delta]
<1> SUFFICES ASSUME TypeInv, OnceInv, SignalCountsOnce, [Next]_vars,
                    NEW p \in Pool, p \notin spoiled',
                    \A s \in mine(p) : Content[s].signature \notin raced'
             PROVE  Get(pools', p) + lost'[p]
                       = SumFunctionOnSet(D, settled' \cap mine(p))
  BY DEF SignalCountsOnce
<1>1. /\ IsMap(pools, Pool, Nat) /\ drained \in [Signal -> Nat]
      /\ settled \subseteq Signal /\ lost \in [Pool -> Nat]
  BY DEF TypeInv, TypeOK, CycleInv
<1>2. (p \notin spoiled /\ \A s \in mine(p) : Content[s].signature \notin raced)
         => Get(pools, p) + lost[p] = SumFunctionOnSet(D, settled \cap mine(p))
  BY DEF SignalCountsOnce
<1>3. Get(pools, p) \in Nat /\ lost[p] \in Nat
  BY <1>1, GetType
<1>4. ASSUME pools' = pools, lost' = lost, settled' = settled,
             spoiled' = spoiled, raced \subseteq raced'
      PROVE  Get(pools', p) + lost'[p]
                = SumFunctionOnSet(D, settled' \cap mine(p))
  BY <1>2, <1>4
<1>5. CASE UNCHANGED batchVars
  BY <1>4, <1>5, RewardStepUnchanged
<1>6. CASE Decay
  <2>1. PICK loss \in [DOMAIN pools -> 0..MaxLoss], accounts \in AccountLoss :
           /\ \A q \in DOMAIN pools : loss[q] <= pools[q]
           /\ LoseAndDistribute(loss, accounts)
    BY <1>6 DEF Decay
  <2>2. /\ pools' = [q \in DOMAIN pools |-> pools[q] - loss[q]]
        /\ lost' = [q \in Pool |-> lost[q] + Get(loss, q)]
    BY <2>1 DEF LoseAndDistribute
  <2>3. settled' = settled /\ spoiled' = spoiled /\ raced' = raced
    BY <1>6 DEF Decay
  <2>4. Get(loss, p) \in Nat /\ lost'[p] = lost[p] + Get(loss, p)
    BY <1>1, <2>2, LossType
  <2>5. Get(pools', p) = Get(pools, p) - Get(loss, p)
    <3>1. CASE p \in DOMAIN pools
      BY <2>2, <3>1 DEF Get
    <3>2. CASE p \notin DOMAIN pools
      <4>1. Get(pools', p) = 0 /\ Get(pools, p) = 0 /\ Get(loss, p) = 0
        BY <2>2, <3>2 DEF Get
      <4> QED
        BY <4>1
    <3> QED
      BY <3>1, <3>2
  <2>6. Get(pools', p) + lost'[p] = Get(pools, p) + lost[p]
    BY <1>3, <2>4, <2>5
  <2> QED
    BY <1>2, <2>3, <2>6
<1>7. ASSUME NEW d \in Commutative, SynthesizeDomain(d)
      PROVE  Get(pools', p) + lost'[p]
                = SumFunctionOnSet(D, settled' \cap mine(p))
  <2>1. d \in todo /\ lost' = lost /\ raced' = raced
    BY <1>7 DEF SynthesizeDomain
  <2>2. \/ /\ ApplyBatch(d)
           /\ Get(pools', p) = IF p \in BatchPools(d)
                               THEN Get(pools, p) + Aggregate(d, p)
                               ELSE Get(pools, p)
        \/ /\ FailBatch(d) /\ spoiled \subseteq spoiled'
           /\ Get(pools', p) = Get(pools, p)
    BY <1>1, <1>7, BatchUpdates
  <2>3. CASE /\ FailBatch(d) /\ spoiled \subseteq spoiled'
             /\ Get(pools', p) = Get(pools, p)
    <3>1. settled' = settled /\ p \notin spoiled
      BY <2>3 DEF FailBatch
    <3> QED
      BY <1>2, <2>1, <2>3, <3>1
  <2>4. CASE /\ ApplyBatch(d)
             /\ Get(pools', p) = IF p \in BatchPools(d)
                                 THEN Get(pools, p) + Aggregate(d, p)
                                 ELSE Get(pools, p)
    <3> DEFINE B == {s \in Batch(d) : Content[s].pool = p}
               M == settled \cap mine(p)
    <3>1. settled' = settled \cup Batch(d) /\ spoiled' = spoiled
      BY <2>4 DEF ApplyBatch
    <3>2. /\ Aggregate(d, p) = SumFunctionOnSet(D, B)
          /\ settled \cap B = {} /\ B \subseteq Signal
      BY <2>1, AggregateOnce
    <3>3. settled' \cap mine(p) = M \cup B
      BY <3>1, <3>2
    <3>4. /\ IsFiniteSet(M) /\ IsFiniteSet(B) /\ M \cap B = {}
          /\ M \subseteq Signal
      BY <1>1, <3>2, BatchAssumption, FS_Subset
    <3>5. \A s \in Signal : D[s] \in Int
      BY BatchAssumption
    <3>6. Get(pools, p) + lost[p] = SumFunctionOnSet(D, M)
      BY <1>2, <2>1, <3>1
    <3>7. p \notin BatchPools(d) => B = {}
      BY DEF BatchPools
    <3> HIDE DEF B, M, D, mine
    <3>8. SumFunctionOnSet(D, M \cup B)
             = SumFunctionOnSet(D, M) + SumFunctionOnSet(D, B)
      BY <3>2, <3>4, <3>5, SumUnion
    <3>9. SumFunctionOnSet(D, B) \in Int
      BY <3>2, <3>4, <3>5, SumInt
    <3>10. CASE p \in BatchPools(d)
      <4>1. PICK a \in Int : a = Aggregate(d, p) /\ a = SumFunctionOnSet(D, B)
        BY <3>2, <3>9
      <4>2. Get(pools', p) = Get(pools, p) + a
        BY <2>4, <3>10, <4>1
      <4>3. Get(pools', p) + lost'[p] = (Get(pools, p) + lost[p]) + a
        BY <1>3, <2>1, <4>2
      <4> QED
        BY <3>3, <3>6, <3>8, <4>1, <4>3
    <3>11. CASE p \notin BatchPools(d)
      <4>1. M \cup B = M
        BY <3>7, <3>11
      <4> QED
        BY <2>1, <2>4, <3>3, <3>6, <3>11, <4>1
    <3> QED
      BY <3>10, <3>11
  <2> QED
    BY <2>2, <2>3, <2>4
<1>8. ASSUME Drain \/ Fees
      PROVE  /\ pools' = pools /\ lost' = lost /\ settled' = settled
             /\ spoiled' = spoiled /\ raced' = raced
  BY <1>8 DEF Drain, Fees
<1>9. ASSUME NEW th \in Thread, RecordSignature(th) \/ PushSignal(th)
      PROVE  /\ pools' = pools /\ lost' = lost /\ settled' = settled
             /\ spoiled' = spoiled /\ raced' = raced
  BY <1>9 DEF RecordSignature, PushSignal
<1>10. ASSUME NEW th \in Thread, NEW s \in Signal, CheckSignal(th, s)
       PROVE  /\ pools' = pools /\ lost' = lost /\ settled' = settled
              /\ spoiled' = spoiled /\ raced \subseteq raced'
  BY <1>10 DEF CheckSignal
<1>11. ASSUME BoundReached \/ UNCHANGED vars PROVE UNCHANGED batchVars
  BY <1>11 DEF BoundReached, vars
<1> QED
  BY <1>4, <1>5, <1>6, <1>7, <1>8, <1>9, <1>10, <1>11, ArrivingSignals DEF Next, Cycle

(* The value of every pool is the sum of the deltas of the settled         *)
(* signals, each counted once, less decay, unless a signature was raced or *)
(* a failed batch had already changed the pool: for any number of threads  *)
(* that ingest and any signals, domains and batches that fail.             *)
THEOREM SignalsCountOnce == Spec => []SignalCountsOnce
<1>1. Init => RaceInv /\ HandInv /\ OnceInv /\ SignalCountsOnce
  <2> SUFFICES ASSUME Init PROVE RaceInv /\ HandInv /\ OnceInv /\ SignalCountsOnce
    OBVIOUS
  <2>1. RaceInv
    BY DEF Init, RaceInv
  <2>2. \A s \in Signal : Copies(s) = 0 /\ ~Held(s) /\ s \notin settled
    BY DEF Init, None, Copies, Held, Active
  <2>3. OnceInv
    BY <2>2 DEF OnceInv
  <2>7. HandInv
    BY BatchAssumption DEF Init, HandInv
  <2>4. /\ settled = {} /\ \A p \in Pool : lost[p] = 0 /\ Get(pools, p) = 0
    BY DEF Init, Get
  <2>5. ASSUME NEW S PROVE settled \cap S = {}
    BY <2>4
  <2>6. SignalCountsOnce
    BY <2>4, <2>5, SumEmpty DEF SignalCountsOnce
  <2> QED
    BY <2>1, <2>3, <2>6, <2>7
<1> QED
  BY <1>1, RaceStep, HandStep, OnceStep, PoolsStep, TypeInvAlways, PTL DEF Spec
=============================================================================
