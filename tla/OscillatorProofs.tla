-------------------------- MODULE OscillatorProofs --------------------------
(***************************************************************************)
(* Proofs about CausalClock.tla and Oscillator.tla: the causal order,      *)
(* ingestion, the order in which shifts are applied and the value they     *)
(* move, for every set of shifts, accounts, domains and ingesters.         *)
(***************************************************************************)
EXTENDS Oscillator, FiniteSums

-----------------------------------------------------------------------------
(* Vector clocks: happened_before is a strict partial order and merge an   *)
(* upper bound, over any set N of node ids                                 *)

(* VectorClock::happened_before never holds of a clock and itself.         *)
LEMMA HappenedBeforeIrreflexive ==
    ASSUME NEW N, NEW c \in Clock(N)
    PROVE  ~happened_before(c, c)
BY DEF happened_before, Clock

(* VectorClock::happened_before is transitive: the entry in which d        *)
(* exceeds c is an entry in which e, at least as large as d, exceeds c.    *)
THEOREM HappenedBeforeTransitive ==
    ASSUME NEW N, NEW c \in Clock(N), NEW d \in Clock(N), NEW e \in Clock(N),
           happened_before(c, d), happened_before(d, e)
    PROVE  happened_before(c, e)
<1>1. DOMAIN c = N /\ DOMAIN d = N /\ DOMAIN e = N
  BY DEF Clock
<1>2. \A n \in N : c[n] \in Nat /\ d[n] \in Nat /\ e[n] \in Nat
  BY DEF Clock
<1>3. \A n \in N : c[n] <= e[n]
  BY <1>1, <1>2 DEF happened_before
<1>4. PICK n \in N : d[n] > c[n]
  BY <1>1 DEF happened_before
<1>5. e[n] > c[n]
  BY <1>1, <1>2, <1>4 DEF happened_before
<1> QED
  BY <1>1, <1>3, <1>5 DEF happened_before

(* Of two clocks at most one precedes the other, so pick_minimal_ready and *)
(* the tip update never see a tie that is not concurrency.                 *)
LEMMA HappenedBeforeAsymmetric ==
    ASSUME NEW N, NEW c \in Clock(N), NEW d \in Clock(N),
           happened_before(c, d)
    PROVE  ~happened_before(d, c)
BY HappenedBeforeTransitive, HappenedBeforeIrreflexive

(* VectorClock::merge returns a clock that neither argument exceeds.       *)
LEMMA MergeIsUpperBound ==
    ASSUME NEW N, NEW c \in Clock(N), NEW d \in Clock(N)
    PROVE  /\ merge(c, d) \in Clock(N)
           /\ \A n \in N : c[n] <= merge(c, d)[n] /\ d[n] <= merge(c, d)[n]
BY DEF merge, Clock, MaxNat

(* A clock that validate_or_derive derives for a sender, the sender's tip  *)
(* with the own entry advanced, comes after the tip.                       *)
LEMMA TickAdvances ==
    ASSUME NEW N, NEW c \in Clock(N), NEW n \in N
    PROVE  /\ tick_clock(c, n) \in Clock(N)
           /\ happened_before(c, tick_clock(c, n))
BY DEF tick_clock, Clock, happened_before

-----------------------------------------------------------------------------
(* The operators on sequences and shifts *)

(* An iteration of a set of hashes is a sequence of hashes.                *)
LEMMA IterationType ==
    ASSUME NEW S \in SUBSET Hash, NEW s \in Iterations(S)
    PROVE  s \in Seq(Hash)
<1>1. IsFiniteSet(S)
  BY HashAssumption, FS_Subset
<1>2. Cardinality(S) \in Nat
  BY <1>1, FS_CardinalityType
<1> QED
  BY <1>2 DEF Iterations, SetToSeqs

(* swap_remove on a sequence of hashes.                                    *)
LEMMA SwapRemoveType ==
    ASSUME NEW s \in Seq(Hash), s # <<>>, NEW i
    PROVE  SwapRemove(s, i) \in Seq(Hash)
<1>1. Len(s) \in Nat \ {0}
  OBVIOUS
<1>2. Len(s) - 1 \in Nat /\ \A j \in 1..(Len(s) - 1) : s[j] \in Hash
  BY <1>1
<1>3. s[Len(s)] \in Hash
  BY <1>1
<1>4. SwapRemove(s, i) \in [1..(Len(s) - 1) -> Hash]
  BY <1>2, <1>3 DEF SwapRemove
<1> QED
  BY <1>2, <1>4

(* The content of a shift.                                                 *)
LEMMA ShiftType ==
    ASSUME NEW h \in Hash
    PROVE  /\ Shift[h].from \in Account /\ Shift[h].to \in Account
           /\ Shift[h].amount \in Nat /\ Shift[h].nonce \in Nat
           /\ Shift[h].domain \in Domain
           /\ Shift[h].predecessors \in SUBSET Hash
           /\ Shift[h].clock \in Clock(Account)
           /\ NonceOf(h) \in NonceKey
BY ShiftAssumption DEF ShiftRecord, NonceOf, NonceKey

(* Fees are amounts.                                                       *)
LEMMA FeeType ==
    ASSUME NEW h \in Hash, IsMap(registry, Domain, PolicyRecord),
           Shift[h].domain \in DOMAIN registry
    PROVE  Fee(h) \in Nat
<1>1. registry[Shift[h].domain].fee \in FeePolicy
  BY DEF IsMap, PolicyRecord
<1>2. registry[Shift[h].domain].fee.value \in Nat
  BY <1>1 DEF FeePolicy
<1> DEFINE v == registry[Shift[h].domain].fee.value
<1>3. Shift[h].amount * v \in Nat
  BY <1>2, ShiftType
<1>4. \A x \in Nat : x \div 10000 \in Nat
  OBVIOUS
<1>5. (Shift[h].amount * v) \div 10000 \in Nat
  BY <1>3, <1>4
<1> QED
  BY <1>2, <1>5 DEF Fee

(* The fee of a shift that the apply loop takes is within its amount: a     *)
(* flat fee because it was tested, a percentage because it is at most all. *)
LEMMA FeeBound ==
    ASSUME NEW h \in Hash, IsMap(registry, Domain, PolicyRecord),
           Applicable(h)
    PROVE  Fee(h) \in Nat /\ Fee(h) <= Shift[h].amount
<1> DEFINE policy == registry[Shift[h].domain].fee
<1>1. Shift[h].domain \in DOMAIN registry /\ FeeCovered(h)
  BY DEF Applicable
<1>2. Fee(h) \in Nat /\ Shift[h].amount \in Nat
  BY <1>1, FeeType, ShiftType
<1>3. policy \in FeePolicy
  BY <1>1 DEF IsMap, PolicyRecord
<1>4. CASE policy.kind = "Flat"
  BY <1>1, <1>2, <1>4 DEF FeeCovered
<1>5. CASE policy.kind = "Percentage"
  <2>1. policy.value \in Nat /\ policy.value <= 10000
    BY <1>3, <1>5 DEF FeePolicy
  <2>2. \A x, v \in Nat : v <= 10000 => x * v <= x * 10000
    OBVIOUS
  <2>3. \A x, v \in Nat : v <= 10000 => (x * v) \div 10000 <= x
    <3> TAKE x, v \in Nat
    <3>1. x * v \in Nat
      OBVIOUS
    <3>2. \A y \in Nat : y <= x * 10000 => y \div 10000 <= x
      OBVIOUS
    <3> QED
      BY <2>2, <3>1, <3>2
  <2>4. Fee(h) = (Shift[h].amount * policy.value) \div 10000
    BY <1>5 DEF Fee
  <2> QED
    BY <1>2, <2>1, <2>3, <2>4
<1>6. CASE policy.kind \notin {"Flat", "Percentage"}
  BY <1>2, <1>6 DEF Fee
<1> QED
  BY <1>4, <1>5, <1>6

(* An applicable transfer leaves a map of amounts.                         *)
LEMMA TransferType ==
    ASSUME NEW h \in Hash, IsMap(registry, Domain, PolicyRecord),
           IsMap(sim, Account, Nat), Applicable(h)
    PROVE  IsMap(Transfer(sim, h), Account, Nat) /\ Fee(h) \in Nat
<1>1. Fee(h) \in Nat /\ Fee(h) <= Shift[h].amount
  BY FeeBound
<1>2. Shift[h].amount - Fee(h) \in Nat
  BY <1>1, ShiftType
<1> DEFINE paid == Put(sim, Shift[h].from,
                       Get(sim, Shift[h].from) - Shift[h].amount)
<1>3. Get(sim, Shift[h].from) - Shift[h].amount \in Nat
  BY GetType, ShiftType DEF Applicable
<1>4. IsMap(paid, Account, Nat)
  BY <1>3, PutType, ShiftType
<1>5. Get(paid, Shift[h].to) \in Nat
  BY <1>4, GetType
<1>6. Get(paid, Shift[h].to) + (Shift[h].amount - Fee(h)) \in Nat
  BY <1>2, <1>5
<1>7. IsMap(Put(paid, Shift[h].to, Get(paid, Shift[h].to) + (Shift[h].amount - Fee(h))),
            Account, Nat)
  BY <1>4, <1>6, PutType, ShiftType
<1> QED
  BY <1>1, <1>7 DEF Transfer

-----------------------------------------------------------------------------
(* Type correctness *)

(* One step of insert keeps the DAG well typed.                            *)
LEMMA InsertShiftType ==
    ASSUME DagTypeOK, NEW h \in Hash, NEW t \in Nat, NEW d \in Nat,
           InsertShift(h, t, d)
    PROVE  DagTypeOK'
<1> USE DEF DagTypeOK
<1>1. CASE UNCHANGED dagVars
  BY <1>1 DEF dagVars
<1>2. CASE RefuseNode(h)
  BY <1>2 DEF RefuseNode
<1>3. CASE LinkNode(h, t, d)
  <2>1. NewTip(h) \in Hash
    BY DEF NewTip, IsMap
  <2>2. IsMap(tips, Account, Hash)'
    BY <1>3, <2>1, PutType, ShiftType DEF LinkNode
  <2>3. max_clock' \in Clock(Account)
    BY <1>3, MergeIsUpperBound, ShiftType DEF LinkNode
  <2>4. account_tips' \in [Account -> Clock(Account)]
    BY <1>3, MergeIsUpperBound, ShiftType DEF LinkNode
  <2>5. /\ nodes' \in SUBSET Hash /\ roots' \in SUBSET Hash
        /\ children' \in [Hash -> SUBSET Hash]
        /\ status' \in [Hash -> {"None", "Accepted", "Rejected", "Finalized"}]
        /\ inserted_at' \in [Hash -> Nat] /\ depth' \in [Hash -> Nat]
    BY <1>3 DEF LinkNode
  <2>6. /\ finalized_at' = finalized_at /\ applied' = applied
        /\ rejected' = rejected /\ balances' = balances
    BY <1>3 DEF LinkNode
  <2> QED
    BY <2>2, <2>3, <2>4, <2>5, <2>6
<1> QED
  BY <1>1, <1>2, <1>3 DEF InsertShift

(* Every step of Oscillator.tla is well typed.                             *)
LEMMA TypeStep == TypeOK /\ [Next]_vars => TypeOK'
<1> SUFFICES ASSUME TypeOK, [Next]_vars
             PROVE  TypeOK'
  OBVIOUS
<1> USE DEF TypeOK
<1>a. ASSUME UNCHANGED dagVars PROVE DagTypeOK'
  BY <1>a DEF DagTypeOK, dagVars
<1>1. ASSUME NEW i \in Ingester, Enqueue(i) PROVE TypeOK'
  <2>1. in_hand[i] \in Hash
    BY <1>1 DEF Enqueue
  <2> QED
    BY <1>1, <1>a, <2>1
    DEF Enqueue, envVars, topoVars, applyVars
<1>2. ASSUME NEW i \in Ingester, NEW h \in Hash, IngestStateful(i, h)
      PROVE  TypeOK'
  <2>1. IsMap(seen_nonces', NonceKey, Nat)
    BY <1>2, PutType, ShiftType DEF IngestStateful
  <2>2. in_hand' \in [Ingester -> Hash \cup {NoShift}]
    BY <1>2 DEF IngestStateful
  <2> QED
    BY <1>2, <1>a, <2>1, <2>2
    DEF IngestStateful, envVars, topoVars, applyVars
<1>3. ASSUME NEW a \in Account, LearnKey(a) PROVE TypeOK'
  BY <1>3, <1>a DEF LearnKey, ingestVars, topoVars, applyVars
<1>4. ASSUME NEW t \in 0..(MaxTick - 1), QuorumChange(t) PROVE TypeOK'
  BY <1>4, <1>a, BoundAssumption
  DEF QuorumChange, SymDiff, ingestVars, topoVars, applyVars
<1>5. CASE BeginTick
  BY <1>5, <1>a
  DEF BeginTick, Phase, ingestVars, envVars, topoVars, applyVars
<1>6. CASE Decay
  <2>1. PICK loss \in [DOMAIN field -> 0..MaxDecay],
             decayed \in 0..(MaxDecay * Cardinality(Account)) :
          /\ \A a \in DOMAIN field : loss[a] <= field[a]
          /\ field' = [a \in DOMAIN field |-> field[a] - loss[a]]
          /\ burned' = burned + BurnShare(decayed)
          /\ revenue' = revenue + (decayed - BurnShare(decayed))
    BY <1>6 DEF Decay
  <2>2. decayed \in Nat
    OBVIOUS
  <2>3. \A x \in Nat : BurnShare(x) \in Nat /\ x - BurnShare(x) \in Nat
    BY DEF BurnShare
  <2>4. burned' \in Nat /\ revenue' \in Nat
    <3>1. BurnShare(decayed) \in Nat /\ decayed - BurnShare(decayed) \in Nat
      BY <2>2, <2>3
    <3> QED
      BY <2>1, <3>1
  <2>5. IsMap(field', Account, Nat)
    <3>1. DOMAIN field \subseteq Account /\ field \in [DOMAIN field -> Nat]
      BY DEF IsMap
    <3>2. \A a \in DOMAIN field : field[a] - loss[a] \in Nat
      <4> HIDE DEF TypeOK
      <4> QED
        BY <2>1, <3>1, BoundAssumption
    <3> QED
      BY <2>1, <3>1, <3>2 DEF IsMap
  <2> QED
    BY <1>6, <1>a, <2>4, <2>5
    DEF Decay, Phase, ingestVars, envVars, topoVars, applyVars
<1>7. CASE SyncBalances
  <2>1. IsMap(balances', Account, Nat)
    BY <1>7, OverwriteType DEF SyncBalances, DagTypeOK
  <2>2. DagTypeOK'
    BY <1>7, <2>1 DEF SyncBalances, DagTypeOK
  <2> QED
    BY <1>7, <2>2
    DEF SyncBalances, Phase, ingestVars, envVars, topoVars, applyVars
<1>8. CASE DrainPending
  BY <1>8, <1>a
  DEF DrainPending, Phase, envVars, topoVars, applyVars
<1>9. CASE InsertNext
  <2>1. Head(batch) \in Hash /\ Tail(batch) \in Seq(Hash)
    BY <1>9 DEF InsertNext
  <2>2. DagTypeOK'
    <3>1. CASE UNCHANGED dagVars
      BY <3>1, <1>a
    <3>2. CASE InsertShift(Head(batch), ThisTick,
                           DomainDepth(Shift[Head(batch)].domain))
      <4>1. DomainDepth(Shift[Head(batch)].domain) \in Nat
        BY DEF DomainDepth, FINALIZATION_DEPTH, IsMap, PolicyRecord
      <4>2. ThisTick \in Nat
        BY <1>9 DEF InsertNext, ThisTick
      <4> QED
        BY <2>1, <3>2, <4>1, <4>2, InsertShiftType
    <3> QED
      BY <1>9, <3>1, <3>2 DEF InsertNext
  <2> QED
    BY <1>9, <2>1, <2>2
    DEF InsertNext, ingestVars, envVars, topoVars, applyVars
<1>10. CASE MarkAndFinalize
  <2>1. ThisTick \in Nat
    BY <1>10 DEF MarkAndFinalize, ThisTick
  <2>2. DagTypeOK'
    BY <1>10, <2>1 DEF MarkAndFinalize, MarkAndPromote, DagTypeOK
  <2> QED
    BY <1>10, <2>2
    DEF MarkAndFinalize, Phase, ingestVars, envVars, topoVars, applyVars
<1>11. CASE BeginOrder
  <2>1. roots \in SUBSET Hash /\ nodes \in SUBSET Hash
    BY DEF DagTypeOK
  <2>2. \A h \in Hash : InDegree(h) \in Nat
    BY <2>1, HashAssumption, FS_Subset, FS_CardinalityType DEF InDegree
  <2>3. in_degree' \in [Hash -> Int]
    BY <1>11, <2>2 DEF BeginOrder
  <2>4. ready' \in Seq(Hash)
    BY <1>11, <2>1, IterationType DEF BeginOrder
  <2> QED
    BY <1>11, <1>a, <2>3, <2>4
    DEF BeginOrder, Phase, ingestVars, envVars, applyVars
<1>12. CASE PickReady
  <2>1. PICK i \in 1..Len(ready) :
          /\ order' = Append(order, ready[i])
          /\ in_degree' = [c \in Hash |-> IF c \in children[ready[i]]
                                          THEN in_degree[c] - 1
                                          ELSE in_degree[c]]
          /\ \E s \in Iterations({c \in children[ready[i]] : in_degree[c] = 1}) :
                ready' = SwapRemove(ready, i) \o s
    BY <1>12 DEF PickReady
  <2>2. ready[i] \in Hash
    OBVIOUS
  <2>3. children[ready[i]] \in SUBSET Hash
    BY <2>2 DEF DagTypeOK
  <2>4. order' \in Seq(Hash) /\ in_degree' \in [Hash -> Int]
    BY <2>1, <2>2
  <2>5. ready' \in Seq(Hash)
    <3>1. PICK s \in Iterations({c \in children[ready[i]] : in_degree[c] = 1}) :
              ready' = SwapRemove(ready, i) \o s
      BY <2>1
    <3>2. s \in Seq(Hash)
      BY <2>3, IterationType
    <3>3. SwapRemove(ready, i) \in Seq(Hash)
      BY <1>12, SwapRemoveType DEF PickReady
    <3> QED
      BY <3>1, <3>2, <3>3
  <2> QED
    BY <1>12, <1>a, <2>4, <2>5
    DEF PickReady, Phase, ingestVars, envVars, applyVars
<1>13. CASE EndOrder
  BY <1>13, <1>a
  DEF EndOrder, Phase, ingestVars, envVars, topoVars, DagTypeOK
<1>14. CASE ApplyNext
  <2>1. Head(order) \in Hash /\ order' \in Seq(Hash)
    BY <1>14 DEF ApplyNext
  <2>2. /\ IsMap(sim', Account, Nat) /\ total_fees' \in Nat
        /\ stateful_hashes' \in SUBSET Hash
    <3>1. CASE Applicable(Head(order))
      BY <1>14, <2>1, <3>1, TransferType DEF ApplyNext
    <3>2. CASE ~Applicable(Head(order))
      BY <1>14, <3>2 DEF ApplyNext, applyVars
    <3> QED
      BY <3>1, <3>2
  <2> QED
    BY <1>14, <1>a, <2>1, <2>2
    DEF ApplyNext, ingestVars, envVars
<1>15. CASE EndApply
  BY <1>15, <1>a
  DEF EndApply, Phase, ingestVars, envVars, topoVars, applyVars
<1>16. CASE ChargeFees
  <2> DEFINE senders == {Shift[h].from : h \in stateful_hashes}
  <2>1. PICK debt \in [senders -> 0..total_fees] :
          field' = IF total_fees = 0 THEN field
                   ELSE Overwrite(field, [a \in DOMAIN debt |->
                            IF Get(field, a) > debt[a]
                            THEN Get(field, a) - debt[a] ELSE 0])
    BY <1>16 DEF ChargeFees
  <2> DEFINE left == [a \in DOMAIN debt |-> IF Get(field, a) > debt[a]
                                            THEN Get(field, a) - debt[a] ELSE 0]
  <2>2. DOMAIN debt \subseteq Account
    BY ShiftType
  <2>3. \A a \in DOMAIN debt : Get(field, a) \in Nat /\ debt[a] \in Nat
    BY GetType
  <2>4. IsMap(left, Account, Nat)
    <3>0. \A x, y \in Nat : (IF x > y THEN x - y ELSE 0) \in Nat
      OBVIOUS
    <3>1. \A a \in DOMAIN debt : left[a] \in Nat
      <4> HIDE DEF TypeOK
      <4> QED
        BY <2>3, <3>0
    <3>2. DOMAIN left = DOMAIN debt
      OBVIOUS
    <3>3. left \in [DOMAIN left -> Nat]
      BY <3>1, <3>2
    <3> QED
      BY <2>2, <3>2, <3>3 DEF IsMap
  <2>5. IsMap(Overwrite(field, left), Account, Nat)
    BY <2>4, OverwriteType
  <2>6. IsMap(field', Account, Nat)
    BY <2>1, <2>5
  <2> QED
    BY <1>16, <1>a, <2>6
    DEF ChargeFees, Phase, ingestVars, envVars, topoVars, applyVars
<1>17. CASE Commit
  <2>1. DagTypeOK'
    BY <1>17 DEF Commit, DagTypeOK
  <2> QED
    BY <1>17, <2>1
    DEF Commit, Phase, ingestVars, envVars, topoVars, applyVars
<1>18. CASE Publish
  <2>1. IsMap(field', Account, Nat)
    BY <1>18, OverwriteType DEF Publish
  <2>2. IsMap(sim', Account, Nat)
    BY <1>18 DEF Publish, IsMap
  <2> QED
    BY <1>18, <1>a, <2>1, <2>2
    DEF Publish, Phase, ingestVars, envVars, topoVars
<1>19. CASE UNCHANGED vars
  BY <1>19, <1>a DEF vars, ingestVars, envVars, topoVars, applyVars
<1> QED
  BY <1>1, <1>2, <1>3, <1>4, <1>5, <1>6, <1>7, <1>8, <1>9, <1>10, <1>11,
     <1>12, <1>13, <1>14, <1>15, <1>16, <1>17, <1>18, <1>19
  DEF Next, Ingest, Environment, Synthesize, BoundReached

(* The oscillator starts typed.                                            *)
LEMMA TypeInit == Init => TypeOK
BY GenesisAssumption, KeyAssumption, PolicyAssumption
DEF Init, TypeOK, DagInit, DagTypeOK, IsMap, Phase, ZeroClock, Clock, NotFinal

(* Every reachable state of the oscillator is well typed; in particular no *)
(* balance of the DAG, of the simulation or of the wave-field is ever      *)
(* negative, whatever the shifts and their order.                          *)
THEOREM TypeCorrect == Spec => []TypeOK
BY TypeInit, TypeStep, PTL DEF Spec

-----------------------------------------------------------------------------
(* Replay protection *)

(* The strengthening: the highest nonce of its sender and domain covers    *)
(* every shift that is past the nonce check.                               *)
NoncesRecorded ==
    \A h \in Pipeline : /\ NonceOf(h) \in DOMAIN seen_nonces
                        /\ Shift[h].nonce <= seen_nonces[NonceOf(h)]

ReplayInv == NoncesRecorded /\ NonceUsedOnce /\ OnePlaceAtATime

(* ToSet of a queue to which an element is added.                          *)
LEMMA AppendSet ==
    ASSUME NEW s \in Seq(Hash), NEW h \in Hash
    PROVE  /\ ToSet(Append(s, h)) = ToSet(s) \cup {h}
           /\ IsInjective(s) /\ h \notin ToSet(s) => IsInjective(Append(s, h))
<1>1. DOMAIN Append(s, h) = 1..(Len(s) + 1)
  OBVIOUS
<1>2. Append(s, h)[Len(s) + 1] = h
  OBVIOUS
<1>3. \A i \in DOMAIN s : i \in 1..(Len(s) + 1) /\ Append(s, h)[i] = s[i]
  OBVIOUS
<1>4. \A i \in 1..(Len(s) + 1) : i = Len(s) + 1 \/ i \in DOMAIN s
  OBVIOUS
<1>5. Len(s) + 1 \in 1..(Len(s) + 1)
  OBVIOUS
<1>6. ToSet(Append(s, h)) = ToSet(s) \cup {h}
  BY <1>1, <1>2, <1>3, <1>4, <1>5, Zenon DEF ToSet
<1>7. ASSUME IsInjective(s), h \notin ToSet(s)
      PROVE  IsInjective(Append(s, h))
  BY <1>1, <1>2, <1>3, <1>4, <1>7, Zenon DEF ToSet, IsInjective
<1> QED
  BY <1>6, <1>7

(* ToSet of a queue whose head is removed.                                 *)
LEMMA TailSet ==
    ASSUME NEW s \in Seq(Hash), s # <<>>
    PROVE  /\ Head(s) \in ToSet(s)
           /\ ToSet(Tail(s)) \subseteq ToSet(s)
           /\ IsInjective(s) => /\ IsInjective(Tail(s))
                                /\ Head(s) \notin ToSet(Tail(s))
<1>1. Len(s) \in Nat \ {0} /\ DOMAIN s = 1..Len(s)
  OBVIOUS
<1>2. 1 \in DOMAIN s /\ Head(s) = s[1]
  BY <1>1
<1>3. DOMAIN Tail(s) = 1..(Len(s) - 1)
  BY <1>1
<1>4. \A i \in 1..(Len(s) - 1) : /\ i + 1 \in DOMAIN s /\ i + 1 # 1
                                /\ Tail(s)[i] = s[i + 1]
  BY <1>1
<1>5. \A i, j \in 1..(Len(s) - 1) : i + 1 = j + 1 => i = j
  BY <1>1
<1>6. Head(s) \in ToSet(s)
  BY <1>2 DEF ToSet
<1>7. ToSet(Tail(s)) \subseteq ToSet(s)
  BY <1>3, <1>4, Zenon DEF ToSet
<1>8. ASSUME IsInjective(s)
      PROVE  IsInjective(Tail(s)) /\ Head(s) \notin ToSet(Tail(s))
  <2>1. \A i, j \in DOMAIN s : s[i] = s[j] => i = j
    BY <1>8, Zenon DEF IsInjective
  <2>2. \A i, j \in DOMAIN Tail(s) : Tail(s)[i] = Tail(s)[j] => i = j
    BY <1>3, <1>4, <1>5, <2>1
  <2>3. IsInjective(Tail(s))
    BY <2>2, Zenon DEF IsInjective
  <2>4. \A i \in 1..(Len(s) - 1) : s[i + 1] # s[1]
    BY <1>2, <1>4, <1>8, Zenon DEF IsInjective
  <2>5. Head(s) \notin ToSet(Tail(s))
    BY <1>2, <1>3, <1>4, <2>4, Zenon DEF ToSet
  <2> QED
    BY <2>3, <2>5
<1> QED
  BY <1>6, <1>7, <1>8

(* While no nonce is recorded and no shift joins the pipeline, what is     *)
(* said of the pipeline's nonces stays true.                               *)
LEMMA PipelineShrinks ==
    ASSUME NoncesRecorded, NonceUsedOnce, seen_nonces' = seen_nonces,
           Pipeline' \subseteq Pipeline
    PROVE  NoncesRecorded' /\ NonceUsedOnce'
BY DEF NoncesRecorded, NonceUsedOnce, NonceOf

(* insert moves its shift into the DAG or into the rejected map.           *)
LEMMA InsertDecides ==
    ASSUME NEW h \in Hash, NEW t, NEW d, InsertShift(h, t, d),
           h \notin nodes \cup rejected
    PROVE  \/ nodes' = nodes \cup {h} /\ rejected' = rejected
           \/ nodes' = nodes /\ rejected' = rejected \cup {h}
BY DEF InsertShift, LinkNode, RefuseNode

(* Every step preserves the invariant.                                     *)
LEMMA ReplayStep == TypeOK /\ ReplayInv /\ [Next]_vars => ReplayInv'
<1> SUFFICES ASSUME TypeOK, ReplayInv, [Next]_vars
             PROVE  ReplayInv'
  OBVIOUS
<1>t. /\ pending \in Seq(Hash) /\ batch \in Seq(Hash)
      /\ in_hand \in [Ingester -> Hash \cup {NoShift}]
      /\ IsMap(seen_nonces, NonceKey, Nat)
  BY DEF TypeOK
<1>1. ASSUME NEW i \in Ingester, Enqueue(i) PROVE ReplayInv'
  <2> DEFINE h == in_hand[i]
  <2>1. h \in Hash /\ h \in InHand
    BY <1>1, <1>t DEF Enqueue, InHand
  <2>2. /\ pending' = Append(pending, h)
        /\ in_hand' = [in_hand EXCEPT ![i] = NoShift]
        /\ batch' = batch /\ nodes' = nodes /\ rejected' = rejected
        /\ seen_nonces' = seen_nonces
    BY <1>1 DEF Enqueue, dagVars
  <2>3. ToSet(pending') = ToSet(pending) \cup {h}
    BY <2>1, <2>2, <1>t, AppendSet
  <2>4. InHand' = InHand \ {h}
    <3>1. \A j \in Ingester \ {i} : in_hand[j] # h
      BY <1>1 DEF ReplayInv, OnePlaceAtATime, Enqueue
    <3> QED
      BY <2>2, <3>1, <1>t DEF InHand
  <2>5. NoncesRecorded' /\ NonceUsedOnce'
    <3>1. Pipeline' \subseteq Pipeline
      BY <2>1, <2>2, <2>3, <2>4 DEF Pipeline
    <3> QED
      BY <2>2, <3>1, PipelineShrinks DEF ReplayInv
  <2>6. h \notin ToSet(pending)
    BY <2>1 DEF ReplayInv, OnePlaceAtATime
  <2>7. IsInjective(pending')
    BY <2>1, <2>2, <2>6, <1>t, AppendSet DEF ReplayInv, OnePlaceAtATime
  <2>8. OnePlaceAtATime'
    <3>1. \A j, k \in Ingester :
             in_hand'[j] = in_hand'[k] /\ in_hand'[j] # NoShift => j = k
      BY <2>2, <1>t DEF ReplayInv, OnePlaceAtATime
    <3> QED
      BY <2>1, <2>2, <2>3, <2>4, <2>7, <3>1 DEF ReplayInv, OnePlaceAtATime
  <2> QED
    BY <2>5, <2>8 DEF ReplayInv
<1>2. ASSUME NEW i \in Ingester, NEW h \in Hash, IngestStateful(i, h)
      PROVE  ReplayInv'
  <2>1. /\ pending' = pending /\ batch' = batch /\ nodes' = nodes
        /\ rejected' = rejected
        /\ seen_nonces' = Put(seen_nonces, NonceOf(h), Shift[h].nonce)
        /\ in_hand[i] = NoShift /\ FreshNonce(h)
        /\ in_hand' = in_hand \/ in_hand' = [in_hand EXCEPT ![i] = h]
    BY <1>2 DEF IngestStateful, dagVars
  <2>2. \A g \in Pipeline : g \in Hash
    BY <1>t DEF Pipeline, InHand, ToSet, TypeOK, DagTypeOK
  <2>3. \A g \in Pipeline :
           ~(NonceOf(g) = NonceOf(h) /\ Shift[g].nonce = Shift[h].nonce)
    <3> SUFFICES ASSUME NEW g \in Pipeline, NonceOf(g) = NonceOf(h),
                        Shift[g].nonce = Shift[h].nonce
                 PROVE  FALSE
      OBVIOUS
    <3>1. /\ NonceOf(h) \in DOMAIN seen_nonces
          /\ Shift[h].nonce <= seen_nonces[NonceOf(h)]
      BY DEF ReplayInv, NoncesRecorded
    <3>2. seen_nonces[NonceOf(h)] \in Nat
      BY <3>1, <1>t DEF IsMap
    <3> QED
      BY <2>1, <3>1, <3>2, ShiftType DEF FreshNonce
  <2>4. h \notin Pipeline
    BY <2>3
  <2>5. InHand' \subseteq InHand \cup {h}
    BY <2>1, <1>t DEF InHand
  <2>6. Pipeline' \subseteq Pipeline \cup {h}
    BY <2>1, <2>5 DEF Pipeline
  <2>7. NonceUsedOnce'
    <3>1. \A g, k \in Pipeline \cup {h} :
            NonceOf(g) = NonceOf(k) /\ Shift[g].nonce = Shift[k].nonce => g = k
      BY <2>3 DEF ReplayInv, NonceUsedOnce
    <3> QED
      BY <2>6, <3>1 DEF NonceUsedOnce, NonceOf
  <2>8. NoncesRecorded'
    <3> SUFFICES ASSUME NEW g \in Pipeline \cup {h}
                 PROVE  /\ NonceOf(g) \in DOMAIN seen_nonces'
                        /\ Shift[g].nonce <= seen_nonces'[NonceOf(g)]
      BY <2>6 DEF NoncesRecorded, NonceOf
    <3>1. CASE NonceOf(g) = NonceOf(h)
      <4>1. /\ NonceOf(g) \in DOMAIN seen_nonces'
            /\ seen_nonces'[NonceOf(g)] = Shift[h].nonce
        BY <2>1, <3>1 DEF Put
      <4>2. CASE g = h
        BY <4>1, <4>2, ShiftType
      <4>3. CASE g \in Pipeline
        <5>1. /\ NonceOf(h) \in DOMAIN seen_nonces
              /\ Shift[g].nonce <= seen_nonces[NonceOf(h)]
          BY <3>1, <4>3 DEF ReplayInv, NoncesRecorded
        <5>2. seen_nonces[NonceOf(h)] \in Nat
          BY <5>1, <1>t DEF IsMap
        <5>3. Shift[g].nonce \in Nat
          BY <2>2, <4>3, ShiftType
        <5> QED
          BY <2>1, <4>1, <5>1, <5>2, <5>3, ShiftType DEF FreshNonce
      <4> QED
        BY <4>2, <4>3
    <3>2. CASE NonceOf(g) # NonceOf(h)
      <4>1. g \in Pipeline
        BY <3>2
      <4>2. /\ NonceOf(g) \in DOMAIN seen_nonces
            /\ Shift[g].nonce <= seen_nonces[NonceOf(g)]
        BY <4>1 DEF ReplayInv, NoncesRecorded
      <4> QED
        BY <2>1, <3>2, <4>2 DEF Put
    <3> QED
      BY <3>1, <3>2
  <2>9. OnePlaceAtATime'
    <3>1. /\ h \notin InHand /\ h \notin ToSet(pending)
          /\ h \notin ToSet(batch) /\ h \notin nodes \cup rejected
      BY <2>4 DEF Pipeline
    <3>2. \A j \in Ingester : in_hand[j] # h
      BY <3>1, NoShiftAssumption DEF InHand
    <3>3. \A j, k \in Ingester :
             in_hand'[j] = in_hand'[k] /\ in_hand'[j] # NoShift => j = k
      BY <2>1, <3>2, <1>t DEF ReplayInv, OnePlaceAtATime
    <3> QED
      BY <2>1, <2>5, <3>1, <3>3 DEF ReplayInv, OnePlaceAtATime
  <2> QED
    BY <2>7, <2>8, <2>9 DEF ReplayInv
<1>3. CASE DrainPending
  <2>1. /\ batch' = pending /\ pending' = <<>> /\ in_hand' = in_hand
        /\ nodes' = nodes /\ rejected' = rejected
        /\ seen_nonces' = seen_nonces
    BY <1>3 DEF DrainPending, dagVars
  <2>2. ToSet(pending') = {} /\ IsInjective(pending')
    BY <2>1 DEF ToSet, IsInjective
  <2>3. InHand' = InHand
    BY <2>1 DEF InHand
  <2>4. Pipeline' \subseteq Pipeline
    BY <2>1, <2>2, <2>3 DEF Pipeline
  <2>5. NoncesRecorded' /\ NonceUsedOnce'
    BY <2>1, <2>4, PipelineShrinks DEF ReplayInv
  <2>6. OnePlaceAtATime'
    BY <2>1, <2>2, <2>3 DEF ReplayInv, OnePlaceAtATime
  <2> QED
    BY <2>5, <2>6 DEF ReplayInv
<1>4. CASE InsertNext
  <2> DEFINE h == Head(batch)
  <2>1. /\ batch # <<>> /\ batch' = Tail(batch) /\ pending' = pending
        /\ in_hand' = in_hand /\ seen_nonces' = seen_nonces
    BY <1>4 DEF InsertNext, ingestVars
  <2>2. h \in Hash /\ h \in ToSet(batch)
    BY <2>1, <1>t, TailSet
  <2>3. h \notin nodes \cup rejected
    BY <2>2 DEF ReplayInv, OnePlaceAtATime
  <2>4. \/ nodes' = nodes \cup {h} /\ rejected' = rejected
        \/ nodes' = nodes /\ rejected' = rejected \cup {h}
        \/ nodes' = nodes /\ rejected' = rejected
    BY <1>4, <2>2, <2>3, InsertDecides DEF InsertNext, dagVars
  <2>5. /\ ToSet(batch') \subseteq ToSet(batch) /\ h \notin ToSet(batch')
        /\ IsInjective(batch')
    BY <2>1, <1>t, TailSet DEF ReplayInv, OnePlaceAtATime
  <2>6. InHand' = InHand
    BY <2>1 DEF InHand
  <2>7. Pipeline' \subseteq Pipeline
    BY <2>1, <2>2, <2>4, <2>5, <2>6 DEF Pipeline
  <2>8. NoncesRecorded' /\ NonceUsedOnce'
    BY <2>1, <2>7, PipelineShrinks DEF ReplayInv
  <2>9. OnePlaceAtATime'
    BY <2>1, <2>2, <2>4, <2>5, <2>6 DEF ReplayInv, OnePlaceAtATime
  <2> QED
    BY <2>8, <2>9 DEF ReplayInv
<1>5. ASSUME UNCHANGED <<in_hand, pending, batch, nodes, rejected, seen_nonces>>
      PROVE  ReplayInv'
  BY <1>5 DEF ReplayInv, NoncesRecorded, NonceUsedOnce, OnePlaceAtATime,
              Pipeline, InHand, NonceOf
<1>6. \/ \E i \in Ingester : Enqueue(i)
      \/ \E i \in Ingester, h \in Hash : IngestStateful(i, h)
      \/ DrainPending \/ InsertNext
      \/ UNCHANGED <<in_hand, pending, batch, nodes, rejected, seen_nonces>>
  BY DEF Next, Ingest, Environment, Synthesize, LearnKey, QuorumChange,
         BeginTick, Decay, SyncBalances, MarkAndFinalize, MarkAndPromote,
         BeginOrder, PickReady, EndOrder, ApplyNext, EndApply, ChargeFees,
         Commit, Publish, BoundReached, vars, dagVars, ingestVars
<1> QED
  BY <1>1, <1>2, <1>3, <1>4, <1>5, <1>6

(* Replay protection for any number of threads and shifts: no two shifts   *)
(* that passed check_and_record_nonce share sender, domain and nonce.      *)
THEOREM NoReplay == Spec => []NonceUsedOnce
<1>1. Init => ReplayInv
  BY DEF Init, DagInit, ReplayInv, NoncesRecorded, NonceUsedOnce,
         OnePlaceAtATime, Pipeline, InHand, ToSet, IsInjective
<1>2. ReplayInv => NonceUsedOnce
  BY DEF ReplayInv
<1> QED
  BY <1>1, <1>2, TypeCorrect, ReplayStep, PTL DEF Spec

(* No shift is ever in two places between ingestion and the DAG, so the    *)
(* insertion loop never meets a shift twice.                               *)
THEOREM NoDuplicates == Spec => []OnePlaceAtATime
<1>1. Init => ReplayInv
  BY DEF Init, DagInit, ReplayInv, NoncesRecorded, NonceUsedOnce,
         OnePlaceAtATime, Pipeline, InHand, ToSet, IsInjective
<1>2. ReplayInv => OnePlaceAtATime
  BY DEF ReplayInv
<1> QED
  BY <1>1, <1>2, TypeCorrect, ReplayStep, PTL DEF Spec

-----------------------------------------------------------------------------
(* Tips *)

(* The strengthening: a tip is always a node of the DAG.                   *)
TipsAreNodes == \A a \in DOMAIN tips : tips[a] \in nodes

TipInv == TipsAreNodes /\ TipIsMaximal

(* Linking a new node keeps tips maximal.  When the tip is replaced, the   *)
(* old tip precedes the new one; a node after the new tip would be after   *)
(* the old tip too, by transitivity of happened_before.                    *)
LEMMA LinkKeepsTips ==
    ASSUME DagTypeOK, TipInv, NEW h \in Hash, NEW t, NEW d, LinkNode(h, t, d)
    PROVE  TipInv'
<1> DEFINE a == Shift[h].from
<1>1. /\ nodes' = nodes \cup {h}
      /\ tips' = Put(tips, a, NewTip(h))
  BY DEF LinkNode
<1>2. /\ DOMAIN tips' = DOMAIN tips \cup {a}
      /\ tips'[a] = NewTip(h)
      /\ \A b \in DOMAIN tips : b # a => tips'[b] = tips[b]
  BY <1>1 DEF Put
<1>3. NewTip(h) = h \/ (a \in DOMAIN tips /\ NewTip(h) = tips[a])
  BY DEF NewTip
<1>4. TipsAreNodes'
  BY <1>1, <1>2, <1>3 DEF TipInv, TipsAreNodes
<1>5. nodes \subseteq Hash
  BY DEF DagTypeOK
<1>6. ASSUME NEW k \in nodes \cup {h}
      PROVE  /\ Shift[k].from \in DOMAIN tips'
             /\ ~happened_before(Shift[tips'[Shift[k].from]].clock, Shift[k].clock)
  <2>1. CASE Shift[k].from # a
    <3>1. k \in nodes
      BY <2>1
    <3> QED
      BY <1>2, <2>1, <3>1 DEF TipInv, TipIsMaximal
  <2>2. CASE Shift[k].from = a /\ NewTip(h) # h
    <3>1. /\ a \in DOMAIN tips /\ NewTip(h) = tips[a]
          /\ ~happened_before(Shift[tips[a]].clock, Shift[h].clock)
      BY <2>2 DEF NewTip
    <3> QED
      BY <1>2, <2>2, <3>1 DEF TipInv, TipIsMaximal
  <2>3. CASE Shift[k].from = a /\ NewTip(h) = h
    <3>1. CASE k = h
      BY <1>2, <2>3, <3>1, ShiftType, HappenedBeforeIrreflexive
    <3>2. CASE k \in nodes
      <4>1. /\ a \in DOMAIN tips /\ tips[a] \in nodes
            /\ ~happened_before(Shift[tips[a]].clock, Shift[k].clock)
        BY <2>3, <3>2 DEF TipInv, TipIsMaximal
      <4>2. tips[a] = h \/ happened_before(Shift[tips[a]].clock, Shift[h].clock)
        BY <2>3, <4>1 DEF NewTip
      <4>3. ~happened_before(Shift[h].clock, Shift[k].clock)
        BY <1>5, <3>2, <4>1, <4>2, ShiftType, HappenedBeforeTransitive
      <4> QED
        BY <1>2, <2>3, <4>3
    <3> QED
      BY <3>1, <3>2
  <2> QED
    BY <2>1, <2>2, <2>3
<1>7. TipIsMaximal'
  BY <1>1, <1>4, <1>6 DEF TipIsMaximal, TipsAreNodes
<1> QED
  BY <1>4, <1>7 DEF TipInv

(* The tip of a sender is causally maximal among the sender's shifts in    *)
(* every reachable state, for any clocks and any order of insertion.       *)
THEOREM TipsMaximal == Spec => []TipIsMaximal
<1>1. Init => TipInv
  BY DEF Init, DagInit, TipInv, TipsAreNodes, TipIsMaximal
<1>2. TypeOK /\ TipInv /\ [Next]_vars => TipInv'
  <2> SUFFICES ASSUME TypeOK, TipInv, [Next]_vars
               PROVE  TipInv'
    OBVIOUS
  <2>1. ASSUME UNCHANGED <<nodes, tips>> PROVE TipInv'
    BY <2>1 DEF TipInv, TipsAreNodes, TipIsMaximal
  <2>2. CASE InsertNext
    <3>1. Head(batch) \in Hash /\ DagTypeOK
      BY <2>2 DEF InsertNext, TypeOK
    <3>2. \/ UNCHANGED <<nodes, tips>>
          \/ \E t, d : LinkNode(Head(batch), t, d)
      BY <2>2 DEF InsertNext, InsertShift, RefuseNode, dagVars
    <3> QED
      BY <2>1, <3>1, <3>2, LinkKeepsTips
  <2>3. InsertNext \/ UNCHANGED <<nodes, tips>>
    BY DEF Next, Ingest, Enqueue, IngestStateful, Environment, Synthesize,
           LearnKey, QuorumChange, BeginTick, Decay, SyncBalances,
           DrainPending, MarkAndFinalize, MarkAndPromote, BeginOrder,
           PickReady, EndOrder, ApplyNext, EndApply, ChargeFees, Commit,
           Publish, BoundReached, vars, dagVars
  <2> QED
    BY <2>1, <2>2, <2>3
<1>3. TipInv => TipIsMaximal
  BY DEF TipInv
<1> QED
  BY <1>1, <1>2, <1>3, TypeCorrect, PTL DEF Spec

-----------------------------------------------------------------------------
(* Sequences without repetitions *)

(* Every iteration of a HashSet has each member once.                      *)
LEMMA IterationSet ==
    ASSUME NEW S \in SUBSET Hash, NEW s \in Iterations(S)
    PROVE  IsInjective(s) /\ ToSet(s) = S
<1> DEFINE n == Cardinality(S)
           D == 1..n
<1>1. IsFiniteSet(S) /\ n \in Nat
  BY HashAssumption, FS_Subset, FS_CardinalityType
<1>2. IsFiniteSet(D) /\ Cardinality(D) = n
  BY <1>1, FS_Interval
<1>3. s \in [D -> S] /\ \A i, j \in D : i # j => s[i] # s[j]
  BY DEF Iterations, SetToSeqs
<1> HIDE DEF D
<1>4. IsInjective(s)
  BY <1>3 DEF IsInjective
<1>5. s \in Injection(D, S)
  BY <1>3, <1>4 DEF Injection
<1>6. s \in Surjection(D, S)
  BY <1>1, <1>2, <1>5, FS_Injection
<1>7. ToSet(s) = S
  BY <1>3, <1>6 DEF Surjection, ToSet
<1> QED
  BY <1>4, <1>7

(* swap_remove takes out one entry and nothing else.                       *)
LEMMA SwapRemoveSet ==
    ASSUME NEW s \in Seq(Hash), IsInjective(s), NEW i \in 1..Len(s)
    PROVE  /\ IsInjective(SwapRemove(s, i))
           /\ ToSet(SwapRemove(s, i)) = ToSet(s) \ {s[i]}
<1> DEFINE n == Len(s)
           t == SwapRemove(s, i)
           from == [j \in 1..(n - 1) |-> IF j = i THEN n ELSE j]
<1>1. n \in Nat \ {0} /\ DOMAIN s = 1..n /\ i \in 1..n
  OBVIOUS
<1>2. /\ DOMAIN t = 1..(n - 1)
      /\ \A j \in 1..(n - 1) : t[j] = s[from[j]]
  BY DEF SwapRemove
<1> HIDE DEF t, n
<1>3. \A j \in 1..(n - 1) : from[j] \in 1..n /\ from[j] # i
  BY <1>1
<1>4. \A j, k \in 1..(n - 1) : from[j] = from[k] => j = k
  BY <1>1
<1>5. \A k \in 1..n : k # i => \E j \in 1..(n - 1) : from[j] = k
  <2> SUFFICES ASSUME NEW k \in 1..n, k # i
               PROVE  \E j \in 1..(n - 1) : from[j] = k
    OBVIOUS
  <2>1. CASE k = n
    <3>1. i \in 1..(n - 1) /\ from[i] = k
      BY <1>1, <2>1
    <3> QED
      BY <3>1
  <2>2. CASE k # n
    <3>1. k \in 1..(n - 1) /\ from[k] = k
      BY <1>1, <2>2
    <3> QED
      BY <3>1
  <2> QED
    BY <2>1, <2>2
<1> HIDE DEF from
<1>6. \A j, k \in 1..n : s[j] = s[k] => j = k
  BY <1>1 DEF IsInjective
<1>7. IsInjective(t)
  <2> SUFFICES ASSUME NEW j \in 1..(n - 1), NEW k \in 1..(n - 1), t[j] = t[k]
               PROVE  j = k
    BY <1>2, Zenon DEF IsInjective
  <2>1. s[from[j]] = s[from[k]] /\ from[j] \in 1..n /\ from[k] \in 1..n
    BY <1>2, <1>3
  <2>2. from[j] = from[k]
    BY <1>6, <2>1
  <2> QED
    BY <1>4, <2>2
<1>8. ToSet(t) \subseteq ToSet(s) \ {s[i]}
  <2> SUFFICES ASSUME NEW j \in 1..(n - 1)
               PROVE  t[j] \in ToSet(s) /\ t[j] # s[i]
    BY <1>2, Zenon DEF ToSet
  <2>1. t[j] = s[from[j]] /\ from[j] \in 1..n /\ from[j] # i
    BY <1>2, <1>3
  <2>2. t[j] # s[i]
    BY <1>1, <1>6, <2>1
  <2> QED
    BY <1>1, <2>1, <2>2, Zenon DEF ToSet
<1>9. ToSet(s) \ {s[i]} \subseteq ToSet(t)
  <2> SUFFICES ASSUME NEW k \in 1..n, s[k] # s[i]
               PROVE  s[k] \in ToSet(t)
    BY <1>1, Zenon DEF ToSet
  <2>1. PICK j \in 1..(n - 1) : from[j] = k
    BY <1>5
  <2>2. t[j] = s[k]
    BY <1>2, <2>1
  <2> QED
    BY <1>2, <2>2, Zenon DEF ToSet
<1> QED
  BY <1>7, <1>8, <1>9 DEF t

(* Joining two sequences without common entries.                           *)
LEMMA ConcatSet ==
    ASSUME NEW s \in Seq(Hash), NEW t \in Seq(Hash)
    PROVE  /\ ToSet(s \o t) = ToSet(s) \cup ToSet(t)
           /\ IsInjective(s) /\ IsInjective(t) /\ ToSet(s) \cap ToSet(t) = {}
                 => IsInjective(s \o t)
<1> DEFINE m == Len(s)
           n == Len(t)
           c == s \o t
<1>1. m \in Nat /\ n \in Nat /\ DOMAIN s = 1..m /\ DOMAIN t = 1..n
  OBVIOUS
<1>2. DOMAIN c = 1..(m + n)
  OBVIOUS
<1>3. /\ \A i \in 1..m : c[i] = s[i]
      /\ \A i \in 1..(m + n) : i \notin 1..m => c[i] = t[i - m]
  OBVIOUS
<1> HIDE DEF m, n, c
<1>4. \A i \in 1..m : i \in 1..(m + n)
  BY <1>1
<1>5. \A i \in 1..(m + n) : i \notin 1..m => i - m \in 1..n
  BY <1>1
<1>6. \A i \in 1..n : \E j \in 1..(m + n) : j \notin 1..m /\ j - m = i
  <2> TAKE i \in 1..n
  <2>1. i + m \in 1..(m + n) /\ i + m \notin 1..m /\ (i + m) - m = i
    BY <1>1
  <2> QED
    BY <2>1
<1>7. \A i, j \in 1..(m + n) : i - m = j - m => i = j
  BY <1>1
<1>8. ToSet(c) \subseteq ToSet(s) \cup ToSet(t)
  <2> SUFFICES ASSUME NEW i \in 1..(m + n)
               PROVE  c[i] \in ToSet(s) \cup ToSet(t)
    BY <1>2, Zenon DEF ToSet
  <2>1. CASE i \in 1..m
    BY <1>1, <1>3, <2>1, Zenon DEF ToSet
  <2>2. CASE i \notin 1..m
    BY <1>1, <1>3, <1>5, <2>2, Zenon DEF ToSet
  <2> QED
    BY <2>1, <2>2
<1>9. ToSet(s) \cup ToSet(t) \subseteq ToSet(c)
  <2>1. ToSet(s) \subseteq ToSet(c)
    BY <1>1, <1>2, <1>3, <1>4, Zenon DEF ToSet
  <2>2. ToSet(t) \subseteq ToSet(c)
    <3> SUFFICES ASSUME NEW i \in 1..n
                 PROVE  t[i] \in ToSet(c)
      BY <1>1, Zenon DEF ToSet
    <3>1. PICK j \in 1..(m + n) : j \notin 1..m /\ j - m = i
      BY <1>6
    <3>2. c[j] = t[i]
      BY <1>3, <3>1, Zenon
    <3> QED
      BY <1>2, <3>1, <3>2, Zenon DEF ToSet
  <2> QED
    BY <2>1, <2>2
<1>10. ASSUME IsInjective(s), IsInjective(t), ToSet(s) \cap ToSet(t) = {}
       PROVE  IsInjective(c)
  <2> SUFFICES ASSUME NEW i \in 1..(m + n), NEW j \in 1..(m + n), c[i] = c[j]
               PROVE  i = j
    BY <1>2, Zenon DEF IsInjective
  <2>1. CASE i \in 1..m /\ j \in 1..m
    BY <1>1, <1>3, <1>10, <2>1, Zenon DEF IsInjective
  <2>2. CASE i \notin 1..m /\ j \notin 1..m
    <3>1. i - m \in 1..n /\ j - m \in 1..n /\ t[i - m] = t[j - m]
      BY <1>3, <1>5, <2>2
    <3>2. i - m = j - m
      BY <1>1, <1>10, <3>1, Zenon DEF IsInjective
    <3> QED
      BY <1>7, <3>2
  <2>3. CASE i \in 1..m /\ j \notin 1..m
    <3>1. c[i] \in ToSet(s) /\ c[j] \in ToSet(t)
      BY <1>1, <1>3, <1>5, <2>3, Zenon DEF ToSet
    <3> QED
      BY <1>10, <3>1
  <2>4. CASE i \notin 1..m /\ j \in 1..m
    <3>1. c[j] \in ToSet(s) /\ c[i] \in ToSet(t)
      BY <1>1, <1>3, <1>5, <2>4, Zenon DEF ToSet
    <3> QED
      BY <1>10, <3>1
  <2> QED
    BY <2>1, <2>2, <2>3, <2>4
<1> QED
  BY <1>8, <1>9, <1>10 DEF c

(* A sequence that lists a set once is as long as the set is large.        *)
LEMMA ListLength ==
    ASSUME NEW s \in Seq(Hash), IsInjective(s)
    PROVE  Len(s) = Cardinality(ToSet(s))
<1> DEFINE n == Len(s)
           D == 1..n
<1>1. n \in Nat /\ DOMAIN s = D /\ s \in [D -> Hash]
  OBVIOUS
<1>2. IsFiniteSet(D) /\ Cardinality(D) = n
  BY <1>1, FS_Interval
<1> HIDE DEF D
<1>3. s \in [D -> ToSet(s)] /\ \A x \in ToSet(s) : \E i \in D : s[i] = x
  BY <1>1 DEF ToSet
<1>4. s \in Bijection(D, ToSet(s))
  BY <1>3 DEF Bijection, Injection, Surjection
<1> QED
  BY <1>2, <1>4, FS_Bijection DEF ExistsBijection

-----------------------------------------------------------------------------
(* The graph *)

(* children is the inverse of predecessors, predecessors are nodes, and    *)
(* there is no cycle: every set of nodes has one without predecessors in   *)
(* the set.                                                                *)
Acyclic ==
    \A S \in SUBSET nodes :
        S # {} => \E h \in S : Shift[h].predecessors \cap S = {}

GraphInv ==
    /\ \A p \in Hash : children[p] = {h \in nodes : p \in Shift[h].predecessors}
    /\ \A h \in nodes : Shift[h].predecessors \subseteq nodes
    /\ roots = {h \in nodes : Shift[h].predecessors = {}}
    /\ Acyclic

(* The new node has no children yet, so it closes no cycle.                *)
LEMMA LinkKeepsGraph ==
    ASSUME DagTypeOK, GraphInv, NEW h \in Hash, h \notin nodes, NEW t, NEW d,
           Shift[h].predecessors \subseteq nodes, LinkNode(h, t, d)
    PROVE  GraphInv'
<1>1. /\ nodes' = nodes \cup {h}
      /\ roots' = IF Shift[h].predecessors = {} THEN roots \cup {h} ELSE roots
      /\ children' = [p \in Hash |-> IF p \in Shift[h].predecessors
                                     THEN children[p] \cup {h} ELSE children[p]]
  BY DEF LinkNode
<1>2. \A p \in Hash :
         children'[p] = {k \in nodes' : p \in Shift[k].predecessors}
  BY <1>1 DEF GraphInv
<1>3. \A k \in nodes' : Shift[k].predecessors \subseteq nodes'
  BY <1>1 DEF GraphInv
<1>4. roots' = {k \in nodes' : Shift[k].predecessors = {}}
  BY <1>1 DEF GraphInv
<1>5. Acyclic'
  <2> SUFFICES ASSUME NEW S \in SUBSET nodes', S # {}
               PROVE  \E k \in S : Shift[k].predecessors \cap S = {}
    BY DEF Acyclic
  <2>1. CASE S \ {h} = {}
    <3>1. S = {h} /\ Shift[h].predecessors \cap S = {}
      BY <2>1
    <3> QED
      BY <3>1
  <2>2. CASE S \ {h} # {}
    <3>1. S \ {h} \in SUBSET nodes
      BY <1>1
    <3>2. PICK k \in S \ {h} : Shift[k].predecessors \cap (S \ {h}) = {}
      BY <2>2, <3>1 DEF GraphInv, Acyclic
    <3>3. h \notin Shift[k].predecessors
      BY <3>1, <3>2 DEF GraphInv
    <3> QED
      BY <3>2, <3>3
  <2> QED
    BY <2>1, <2>2
<1> QED
  BY <1>2, <1>3, <1>4, <1>5 DEF GraphInv

(* Only the insertion loop touches the graph.                              *)
LEMMA GraphStep == TypeOK /\ GraphInv /\ [Next]_vars => GraphInv'
<1> SUFFICES ASSUME TypeOK, GraphInv, [Next]_vars PROVE GraphInv'
  OBVIOUS
<1>1. ASSUME UNCHANGED <<nodes, children, roots>> PROVE GraphInv'
  BY <1>1 DEF GraphInv, Acyclic
<1>2. CASE InsertNext
  <2>1. Head(batch) \in Hash /\ DagTypeOK
    BY <1>2 DEF InsertNext, TypeOK
  <2>2. \/ UNCHANGED <<nodes, children, roots>>
        \/ /\ Head(batch) \notin nodes
           /\ Shift[Head(batch)].predecessors \subseteq nodes
           /\ \E t, d : LinkNode(Head(batch), t, d)
    BY <1>2 DEF InsertNext, InsertShift, RefuseNode, dagVars
  <2> QED
    BY <1>1, <2>1, <2>2, LinkKeepsGraph
<1>3. InsertNext \/ UNCHANGED <<nodes, children, roots>>
  BY DEF Next, Ingest, Enqueue, IngestStateful, Environment, Synthesize,
         LearnKey, QuorumChange, BeginTick, Decay, SyncBalances,
         DrainPending, MarkAndFinalize, MarkAndPromote, BeginOrder,
         PickReady, EndOrder, ApplyNext, EndApply, ChargeFees, Commit,
         Publish, BoundReached, vars, dagVars
<1> QED
  BY <1>1, <1>2, <1>3

-----------------------------------------------------------------------------
(* topological_order *)

(* The shifts that may be picked: not in the order yet, and all their      *)
(* predecessors are.                                                       *)
Pickable(done) ==
    {h \in nodes \ done : Shift[h].predecessors \subseteq done}

(* The strengthening: ready lists exactly these, once each.                *)
ReadyInv ==
    pc = "pick" => /\ ToSet(order) \subseteq nodes
                   /\ IsInjective(ready)
                   /\ ToSet(ready) = Pickable(ToSet(order))

(* The shifts still to be applied are listed once, and are not those that  *)
(* this tick has accepted.                                                 *)
QueueInv ==
    pc = "apply" => /\ IsInjective(order)
                    /\ ToSet(order) \cap stateful_hashes = {}

OrderInv == GraphInv /\ ReadyInv /\ OrderIsTopological /\ QueueInv

(* An empty ready list means that every node is in the order.              *)
LEMMA NothingReady ==
    ASSUME GraphInv, NEW done \in SUBSET nodes, Pickable(done) = {}
    PROVE  done = nodes
<1> SUFFICES ASSUME nodes \ done # {} PROVE FALSE
  OBVIOUS
<1>1. PICK h \in nodes \ done : Shift[h].predecessors \cap (nodes \ done) = {}
  BY DEF GraphInv, Acyclic
<1>2. Shift[h].predecessors \subseteq done
  BY <1>1 DEF GraphInv
<1> QED
  BY <1>2 DEF Pickable

(* Predecessors are finite sets, and so are those still to come.           *)
LEMMA PredecessorCount ==
    ASSUME NEW h \in Hash, NEW done
    PROVE  /\ IsFiniteSet(Shift[h].predecessors \ done)
           /\ Cardinality(Shift[h].predecessors \ done) \in Nat
           /\ Cardinality(Shift[h].predecessors \ done) = 0
                 <=> Shift[h].predecessors \subseteq done
<1>1. IsFiniteSet(Shift[h].predecessors)
  BY ShiftType, HashAssumption, FS_Subset
<1>2. IsFiniteSet(Shift[h].predecessors \ done)
  BY <1>1, FS_Subset
<1> QED
  BY <1>2, FS_CardinalityType, FS_EmptySet

(* The order starts empty, with the roots ready.                           *)
LEMMA OrderBegins ==
    ASSUME TypeOK, GraphInv, BeginOrder
    PROVE  ReadyInv' /\ OrderIsTopological'
<1>1. nodes \in SUBSET Hash /\ roots \in SUBSET Hash
  BY DEF TypeOK, DagTypeOK
<1>2. \A h \in nodes : InDegree(h) = Cardinality(Shift[h].predecessors)
  <2> TAKE h \in nodes
  <2>1. {p \in nodes : h \in children[p]} = Shift[h].predecessors
    BY <1>1 DEF GraphInv
  <2> QED
    BY <2>1 DEF InDegree
<1>3. {h \in roots : InDegree(h) = 0} = Pickable({})
  <2>1. \A h \in nodes : InDegree(h) = 0 <=> Shift[h].predecessors = {}
    <3> TAKE h \in nodes
    <3>1. Shift[h].predecessors \ {} = Shift[h].predecessors
      OBVIOUS
    <3>2. Cardinality(Shift[h].predecessors) = 0
             <=> Shift[h].predecessors \subseteq {}
      BY <1>1, <3>1, PredecessorCount
    <3> QED
      BY <1>2, <3>2
  <2> QED
    BY <2>1 DEF Pickable, GraphInv
<1>4. IsInjective(ready') /\ ToSet(ready') = Pickable({})
  <2>1. PICK s \in Iterations({h \in roots : InDegree(h) = 0}) : ready' = s
    BY DEF BeginOrder
  <2>2. {h \in roots : InDegree(h) = 0} \in SUBSET Hash
    BY <1>1
  <2> QED
    BY <1>3, <2>1, <2>2, IterationSet
<1>5. order' = <<>> /\ ToSet(<<>>) = {} /\ nodes' = nodes
  BY DEF BeginOrder, dagVars, ToSet
<1>6. ReadyInv'
  <2>1. Pickable({})' = Pickable({})
    BY <1>5 DEF Pickable
  <2> QED
    BY <1>4, <1>5, <2>1 DEF ReadyInv, Pickable
<1>7. \A h \in nodes : in_degree'[h] = Cardinality(Shift[h].predecessors \ {})
  <2>1. \A h \in nodes : Shift[h].predecessors \ {} = Shift[h].predecessors
    OBVIOUS
  <2> QED
    BY <1>1, <1>2, <2>1 DEF BeginOrder
<1>8. ready' = <<>> => Pickable({}) = {}
  BY <1>4, <1>5
<1>9. ready' = <<>> => {} = nodes
  BY <1>8, NothingReady
<1>10. IsInjective(<<>>) /\ Len(<<>>) = 0
  BY DEF IsInjective
<1>11. OrderIsTopological'
  <2>1. \A h \in nodes' :
           in_degree'[h] = Cardinality(Shift[h].predecessors \ ToSet(order'))
    BY <1>5, <1>7
  <2>2. IsInjective(order') /\ (ready' = <<>> => ToSet(order') = nodes')
    BY <1>5, <1>9, <1>10
  <2>3. \A j \in 1..Len(order') : FALSE
    BY <1>5, <1>10
  <2> QED
    BY <2>1, <2>2, <2>3 DEF OrderIsTopological
<1> QED
  BY <1>6, <1>11

(* Picking a ready shift keeps the counts, the order and the ready list.   *)
LEMMA OrderGrows ==
    ASSUME TypeOK, GraphInv, ReadyInv, OrderIsTopological, PickReady
    PROVE  ReadyInv' /\ OrderIsTopological'
<1> DEFINE done == ToSet(order)
<1>t. /\ nodes \in SUBSET Hash /\ order \in Seq(Hash) /\ ready \in Seq(Hash)
      /\ in_degree \in [Hash -> Int] /\ pc = "pick"
  BY DEF TypeOK, DagTypeOK, PickReady
<1>1. PICK i \in 1..Len(ready) :
          /\ order' = Append(order, ready[i])
          /\ in_degree' = [c \in Hash |-> IF c \in children[ready[i]]
                                          THEN in_degree[c] - 1
                                          ELSE in_degree[c]]
          /\ \E s \in Iterations({c \in children[ready[i]] : in_degree[c] = 1}) :
                ready' = SwapRemove(ready, i) \o s
  BY DEF PickReady
<1> DEFINE h == ready[i]
           freed == {c \in children[h] : in_degree[c] = 1}
<1>2. nodes' = nodes /\ pc' = "pick"
  BY DEF PickReady, dagVars
<1>3. /\ h \in Hash /\ h \in nodes /\ h \notin done
      /\ Shift[h].predecessors \subseteq done
  <2>1. h \in ToSet(ready)
    BY <1>t DEF ToSet
  <2> QED
    BY <1>t, <2>1 DEF ReadyInv, Pickable
<1>4. children[h] = {c \in nodes : h \in Shift[c].predecessors}
  BY <1>3 DEF GraphInv
<1>5. ToSet(order') = done \cup {h} /\ IsInjective(order')
  BY <1>t, <1>1, <1>3, AppendSet DEF OrderIsTopological
<1>6. \A c \in nodes : in_degree[c] = Cardinality(Shift[c].predecessors \ done)
  BY <1>t DEF OrderIsTopological
<1> HIDE DEF done, h
<1>7. \A c \in nodes :
         in_degree'[c] = Cardinality(Shift[c].predecessors \ (done \cup {h}))
  <2> TAKE c \in nodes
  <2> DEFINE left == Shift[c].predecessors \ done
  <2>1. IsFiniteSet(left) /\ Shift[c].predecessors \ (done \cup {h}) = left \ {h}
    BY <1>t, PredecessorCount
  <2>2. Cardinality(left \ {h}) = IF h \in left THEN Cardinality(left) - 1
                                  ELSE Cardinality(left)
    BY <2>1, FS_RemoveElement
  <2>3. h \in left <=> c \in children[h]
    BY <1>3, <1>4
  <2> QED
    BY <1>t, <1>1, <1>6, <2>1, <2>2, <2>3 DEF h
<1>8. freed = {c \in nodes : /\ h \in Shift[c].predecessors
                             /\ Shift[c].predecessors \subseteq done \cup {h}}
  <2>1. \A c \in children[h] :
           in_degree[c] = 1 <=> Shift[c].predecessors \subseteq done \cup {h}
    <3> TAKE c \in children[h]
    <3>1. c \in nodes /\ c \in Hash /\ in_degree'[c] = in_degree[c] - 1
      BY <1>t, <1>1, <1>4 DEF h
    <3>2. in_degree'[c] = 0 <=> Shift[c].predecessors \subseteq done \cup {h}
      BY <1>7, <3>1, PredecessorCount
    <3>3. in_degree[c] \in Int
      BY <1>t, <3>1
    <3> QED
      BY <3>1, <3>2, <3>3
  <2> QED
    BY <1>4, <2>1
<1>9. PICK s \in Iterations(freed) : ready' = SwapRemove(ready, i) \o s
  BY <1>1 DEF h
<1>10. freed \in SUBSET Hash
  BY <1>t, <1>4
<1>11. s \in Seq(Hash) /\ IsInjective(s) /\ ToSet(s) = freed
  BY <1>10, IterationType, IterationSet
<1>12. /\ SwapRemove(ready, i) \in Seq(Hash)
       /\ IsInjective(SwapRemove(ready, i))
       /\ ToSet(SwapRemove(ready, i)) = Pickable(done) \ {h}
  <2>1. ready # <<>> /\ IsInjective(ready) /\ ToSet(ready) = Pickable(done)
    BY <1>t DEF ReadyInv, PickReady, done
  <2> QED
    BY <1>t, <2>1, SwapRemoveType, SwapRemoveSet DEF h
<1>13. (Pickable(done) \ {h}) \cap freed = {}
  BY <1>3, <1>8 DEF Pickable
<1>14. IsInjective(ready') /\ ToSet(ready') = (Pickable(done) \ {h}) \cup freed
  BY <1>9, <1>11, <1>12, <1>13, ConcatSet
<1>15. h \notin Shift[h].predecessors
  BY <1>3
<1>16. \A k \in done : Shift[k].predecessors \subseteq done
  <2> SUFFICES ASSUME NEW j \in 1..Len(order)
               PROVE  Shift[order[j]].predecessors \subseteq done
    <3>1. done = {order[j] : j \in 1..Len(order)}
      BY <1>t DEF done, ToSet
    <3> QED
      BY <3>1, Zenon
  <2>1. Shift[order[j]].predecessors \subseteq {order[k] : k \in 1..(j - 1)}
    BY <1>t DEF OrderIsTopological
  <2>2. {order[k] : k \in 1..(j - 1)} \subseteq done
    BY <1>t DEF done, ToSet
  <2> QED
    BY <2>1, <2>2
<1>17. (Pickable(done) \ {h}) \cup freed = Pickable(done \cup {h})
  BY <1>3, <1>8, <1>15, <1>16 DEF Pickable
<1>18. ReadyInv'
  <2>1. ToSet(order') \subseteq nodes'
    BY <1>t, <1>2, <1>3, <1>5 DEF ReadyInv, done
  <2>2. Pickable(done \cup {h}) = Pickable(ToSet(order))'
    BY <1>2, <1>5 DEF Pickable
  <2> QED
    BY <1>14, <1>17, <2>1, <2>2 DEF ReadyInv
<1>19. \A j \in 1..Len(order') :
          Shift[order'[j]].predecessors \subseteq {order'[k] : k \in 1..(j - 1)}
  <2> TAKE j \in 1..Len(order')
  <2>1. Len(order') = Len(order) + 1 /\ Len(order) \in Nat
    BY <1>t, <1>1, <1>3 DEF h
  <2>2. /\ \A k \in 1..Len(order) : order'[k] = order[k]
        /\ order'[Len(order) + 1] = h
    BY <1>t, <1>1, <1>3 DEF h
  <2>3. CASE j \in 1..Len(order)
    <3>1. Shift[order[j]].predecessors \subseteq {order[k] : k \in 1..(j - 1)}
      BY <1>t, <2>3 DEF OrderIsTopological
    <3>2. \A k \in 1..(j - 1) : order[k] = order'[k]
      BY <2>1, <2>2, <2>3
    <3> QED
      BY <2>2, <2>3, <3>1, <3>2
  <2>4. CASE j = Len(order) + 1
    <3>1. {order[k] : k \in 1..Len(order)} = done
      BY <1>t DEF done, ToSet
    <3>2. {order'[k] : k \in 1..(j - 1)} = {order[k] : k \in 1..Len(order)}
      BY <2>1, <2>2, <2>4
    <3> QED
      BY <1>3, <2>2, <2>4, <3>1, <3>2
  <2> QED
    BY <2>1, <2>3, <2>4
<1>20. ready' = <<>> => ToSet(order') = nodes'
  <2> SUFFICES ASSUME ready' = <<>> PROVE done \cup {h} = nodes
    BY <1>2, <1>5
  <2>1. ToSet(ready') = {}
    BY DEF ToSet
  <2>2. done \cup {h} \in SUBSET nodes
    BY <1>t, <1>3 DEF ReadyInv, done
  <2> QED
    BY <1>14, <1>17, <2>1, <2>2, NothingReady
<1>21. \A c \in nodes' :
          in_degree'[c] = Cardinality(Shift[c].predecessors \ ToSet(order'))
  BY <1>2, <1>5, <1>7
<1> QED
  BY <1>5, <1>18, <1>19, <1>20, <1>21 DEF OrderIsTopological

(* What ends the loop: every node is listed once, so the lengths that      *)
(* synthesize() compares to detect a cycle agree.                          *)
LEMMA OrderEnds ==
    ASSUME TypeOK, ReadyInv, OrderIsTopological, EndOrder
    PROVE  pc' = "apply" /\ IsInjective(order) /\ ToSet(order) = nodes
<1>1. order \in Seq(Hash) /\ IsInjective(order) /\ ToSet(order) = nodes
  BY DEF TypeOK, OrderIsTopological, EndOrder
<1>2. Len(order) = Cardinality(nodes)
  BY <1>1, ListLength
<1> QED
  BY <1>1, <1>2 DEF EndOrder

(* What the order depends on.                                              *)
LEMMA OrderUntouched ==
    ASSUME OrderInv, GraphInv',
           UNCHANGED <<pc, nodes, ready, in_degree, order, stateful_hashes>>
    PROVE  OrderInv'
<1>1. ReadyInv'
  BY DEF OrderInv, ReadyInv, Pickable
<1>2. OrderIsTopological'
  <2> SUFFICES ASSUME pc' = "pick"
               PROVE  /\ \A h \in nodes' : in_degree'[h] =
                            Cardinality(Shift[h].predecessors \ ToSet(order'))
                      /\ IsInjective(order')
                      /\ \A j \in 1..Len(order') :
                            Shift[order'[j]].predecessors
                               \subseteq {order'[k] : k \in 1..(j - 1)}
                      /\ ready' = <<>> => ToSet(order') = nodes'
    BY DEF OrderIsTopological
  <2>1. /\ pc = "pick" /\ nodes' = nodes /\ ready' = ready
        /\ in_degree' = in_degree /\ order' = order
    OBVIOUS
  <2>2. OrderIsTopological
    BY DEF OrderInv
  <2>3. \A j : {order'[k] : k \in 1..(j - 1)} = {order[k] : k \in 1..(j - 1)}
    BY <2>1
  <2>4. \A j \in 1..Len(order') :
           Shift[order'[j]].predecessors \subseteq {order'[k] : k \in 1..(j - 1)}
    BY <2>1, <2>2, <2>3 DEF OrderIsTopological
  <2>5. ready = <<>> => ToSet(order) = nodes
    BY <2>1, <2>2 DEF OrderIsTopological
  <2> QED
    BY <2>1, <2>2, <2>4, <2>5 DEF OrderIsTopological
<1>3. QueueInv'
  BY DEF OrderInv, QueueInv
<1> QED
  BY <1>1, <1>2, <1>3 DEF OrderInv

(* Every step preserves the invariant.                                     *)
LEMMA OrderStep == TypeOK /\ OrderInv /\ [Next]_vars => OrderInv'
<1> SUFFICES ASSUME TypeOK, OrderInv, [Next]_vars PROVE OrderInv'
  OBVIOUS
<1>1. GraphInv'
  BY GraphStep DEF OrderInv
<1>2. CASE BeginOrder
  <2>1. pc' = "pick"
    BY <1>2 DEF BeginOrder
  <2> QED
    BY <1>1, <1>2, <2>1, OrderBegins DEF OrderInv, QueueInv
<1>3. CASE PickReady
  <2>1. pc' = "pick"
    BY <1>3 DEF PickReady
  <2> QED
    BY <1>1, <1>3, <2>1, OrderGrows DEF OrderInv, QueueInv
<1>4. CASE EndOrder
  <2>1. pc' = "apply" /\ IsInjective(order)
    BY <1>4, OrderEnds DEF OrderInv
  <2>2. order' = order /\ stateful_hashes' = {}
    BY <1>4 DEF EndOrder, topoVars
  <2> QED
    BY <1>1, <2>1, <2>2 DEF OrderInv, ReadyInv, OrderIsTopological, QueueInv
<1>5. CASE ApplyNext
  <2>1. pc = "apply" /\ pc' = "apply" /\ order # <<>> /\ order' = Tail(order)
    BY <1>5 DEF ApplyNext
  <2>2. stateful_hashes' \subseteq stateful_hashes \cup {Head(order)}
    BY <1>5 DEF ApplyNext, applyVars
  <2>3. /\ IsInjective(order') /\ Head(order) \notin ToSet(order')
        /\ ToSet(order') \subseteq ToSet(order)
    BY <2>1, TailSet DEF OrderInv, QueueInv, TypeOK
  <2>4. QueueInv'
    BY <2>1, <2>2, <2>3 DEF OrderInv, QueueInv
  <2> QED
    BY <1>1, <2>1, <2>4 DEF OrderInv, ReadyInv, OrderIsTopological
<1>6. ASSUME pc' \notin {"pick", "apply"}
      PROVE  OrderInv'
  BY <1>1, <1>6 DEF OrderInv, ReadyInv, OrderIsTopological, QueueInv
<1>7. ASSUME UNCHANGED <<pc, nodes, ready, in_degree, order, stateful_hashes>>
      PROVE  OrderInv'
  BY <1>1, <1>7, OrderUntouched DEF OrderInv
<1>8. \/ BeginOrder \/ PickReady \/ EndOrder \/ ApplyNext
      \/ pc' \notin {"pick", "apply"}
      \/ UNCHANGED <<pc, nodes, ready, in_degree, order, stateful_hashes>>
  BY DEF Next, Ingest, Enqueue, IngestStateful, Environment, Synthesize,
         LearnKey, QuorumChange, BeginTick, Decay, SyncBalances,
         DrainPending, InsertNext, MarkAndFinalize, EndApply, ChargeFees,
         Commit, Publish, BoundReached, vars, dagVars, topoVars, applyVars
<1> QED
  BY <1>2, <1>3, <1>4, <1>5, <1>6, <1>7, <1>8

(* The graph is empty at the start.                                        *)
LEMMA OrderInit == Init => OrderInv
BY DEF Init, DagInit, OrderInv, GraphInv, Acyclic, ReadyInv,
       OrderIsTopological, QueueInv

(* The graph and the order are right in every reachable state.             *)
LEMMA OrderInvariant == Spec => []OrderInv
BY OrderInit, OrderStep, TypeCorrect, PTL DEF Spec

(* topological_order is correct for every DAG the node can build: it never *)
(* lists a node before a predecessor, lists none twice and misses none.    *)
THEOREM TopologicalOrderCorrect == Spec => []OrderIsTopological
<1>1. OrderInv => OrderIsTopological
  BY DEF OrderInv
<1> QED
  BY <1>1, OrderInvariant, PTL

(* The CausalCycle return of synthesize() is dead code: every tick that    *)
(* has ordered its nodes goes on to apply them.                            *)
THEOREM NoCausalCycle == Spec => [][EndOrder => pc' = "apply"]_vars
<1>1. TypeOK /\ OrderInv /\ [Next]_vars => [EndOrder => pc' = "apply"]_vars
  BY OrderEnds DEF OrderInv
<1> QED
  BY <1>1, OrderInvariant, TypeCorrect, PTL DEF Spec

-----------------------------------------------------------------------------
(* The shifts a tick accepts *)

(* Nothing removes a domain from the registry or changes its policy.       *)
LEMMA RegistryConstant == [Next]_vars => registry' = registry
BY DEF Next, Ingest, Enqueue, IngestStateful, Environment, Synthesize,
       LearnKey, QuorumChange, BeginTick, Decay, SyncBalances, DrainPending,
       InsertNext, MarkAndFinalize, BeginOrder, PickReady, EndOrder,
       ApplyNext, EndApply, ChargeFees, Commit, Publish, BoundReached, vars,
       envVars

(* Only nodes have a status, so that a shift gets one at most once.        *)
StatusInv == \A h \in Hash : status[h] # "None" => h \in nodes

(* What the apply loop tested still holds when the flags are written.      *)
AcceptedInv ==
    pc \in {"apply", "fees", "commit"} =>
        \A h \in stateful_hashes :
            /\ status[h] # "Rejected" /\ h \notin applied
            /\ Shift[h].domain \in DOMAIN registry
            /\ Fee(h) \in Nat /\ Fee(h) <= Shift[h].amount

(* insert_shift is the only step that gives a first status.                *)
LEMMA StatusStep == TypeOK /\ StatusInv /\ [Next]_vars => StatusInv'
<1> SUFFICES ASSUME TypeOK, StatusInv, [Next]_vars PROVE StatusInv'
  OBVIOUS
<1>1. ASSUME UNCHANGED <<nodes, status>> PROVE StatusInv'
  BY <1>1 DEF StatusInv
<1>2. CASE InsertNext
  <2>1. \/ UNCHANGED <<nodes, status>>
        \/ /\ nodes' = nodes \cup {Head(batch)}
           /\ status' = [status EXCEPT ![Head(batch)] = "Accepted"]
    BY <1>2 DEF InsertNext, InsertShift, RefuseNode, LinkNode, dagVars
  <2> QED
    BY <1>1, <2>1 DEF StatusInv, TypeOK, DagTypeOK
<1>3. CASE MarkAndFinalize
  <2>1. nodes' = nodes /\ \A h \in Hash : status'[h] = status[h] \/ h \in nodes
    BY <1>3 DEF MarkAndFinalize, MarkAndPromote, DoubleSpends, Ripe
  <2> QED
    BY <2>1 DEF StatusInv
<1>4. InsertNext \/ MarkAndFinalize \/ UNCHANGED <<nodes, status>>
  BY DEF Next, Ingest, Enqueue, IngestStateful, Environment, Synthesize,
         LearnKey, QuorumChange, BeginTick, Decay, SyncBalances,
         DrainPending, BeginOrder, PickReady, EndOrder, ApplyNext, EndApply,
         ChargeFees, Commit, Publish, BoundReached, vars, dagVars
<1> QED
  BY <1>1, <1>2, <1>3, <1>4

(* No step between the apply loop and Commit changes what the loop tested. *)
LEMMA AcceptedStep == TypeOK /\ AcceptedInv /\ [Next]_vars => AcceptedInv'
<1> SUFFICES ASSUME TypeOK, AcceptedInv, [Next]_vars PROVE AcceptedInv'
  OBVIOUS
<1>r. registry' = registry
  BY RegistryConstant
<1>f. \A h : Fee(h)' = Fee(h)
  BY <1>r DEF Fee
<1>1. ASSUME UNCHANGED <<stateful_hashes, status, applied>>,
             pc \in {"apply", "fees", "commit"} \/ pc' = pc
      PROVE  AcceptedInv'
  BY <1>1, <1>r, <1>f DEF AcceptedInv
<1>2. ASSUME pc' \notin {"apply", "fees", "commit"} PROVE AcceptedInv'
  BY <1>2 DEF AcceptedInv
<1>3. CASE EndOrder
  BY <1>3 DEF EndOrder, AcceptedInv
<1>4. CASE ApplyNext
  <2>1. /\ pc = "apply" /\ Head(order) \in Hash
        /\ status' = status /\ applied' = applied
    BY <1>4 DEF ApplyNext, TypeOK, dagVars
  <2>2. CASE Applicable(Head(order))
    <3>1. stateful_hashes' = stateful_hashes \cup {Head(order)}
      BY <1>4, <2>2 DEF ApplyNext
    <3>2. /\ status[Head(order)] # "Rejected" /\ Head(order) \notin applied
          /\ Shift[Head(order)].domain \in DOMAIN registry
          /\ Fee(Head(order)) \in Nat
          /\ Fee(Head(order)) <= Shift[Head(order)].amount
      BY <2>1, <2>2, FeeBound DEF Applicable, TypeOK
    <3> QED
      BY <1>r, <1>f, <2>1, <3>1, <3>2 DEF AcceptedInv
  <2>3. CASE ~Applicable(Head(order))
    BY <1>4, <1>1, <2>1, <2>3 DEF ApplyNext, applyVars
  <2> QED
    BY <2>2, <2>3
<1>5. \/ EndOrder \/ ApplyNext \/ pc' \notin {"apply", "fees", "commit"}
      \/ /\ UNCHANGED <<stateful_hashes, status, applied>>
         /\ pc \in {"apply", "fees", "commit"} \/ pc' = pc
  BY DEF Next, Ingest, Enqueue, IngestStateful, Environment, Synthesize,
         LearnKey, QuorumChange, BeginTick, Decay, SyncBalances,
         DrainPending, InsertNext, MarkAndFinalize, BeginOrder, PickReady,
         EndApply, ChargeFees, Commit, Publish, BoundReached, vars, dagVars,
         applyVars
<1> QED
  BY <1>1, <1>2, <1>3, <1>4, <1>5

(* Both hold in every reachable state.                                     *)
LEMMA AcceptedInvariant == Spec => [](StatusInv /\ AcceptedInv)
<1>1. Init => StatusInv /\ AcceptedInv
  BY DEF Init, DagInit, StatusInv, AcceptedInv
<1> QED
  BY <1>1, StatusStep, AcceptedStep, TypeCorrect, PTL DEF Spec

(* A double spend caught before it was applied stays rejected and never    *)
(* moves value, in every history: no step resets its status, and the flags *)
(* that a tick writes are those of shifts it found not rejected, whose     *)
(* status nothing changes between the test and the write.                  *)
THEOREM CaughtDoubleSpends == Spec => CaughtDoubleSpendNeverApplied
<1> DEFINE Kept == \A h \in Hash : status[h] = "Rejected" /\ h \notin applied
                      => status'[h] = "Rejected" /\ h \notin applied'
<1>1. TypeOK /\ StatusInv /\ AcceptedInv /\ [Next]_vars => [Kept]_vars
  <2> SUFFICES ASSUME TypeOK, StatusInv, AcceptedInv, [Next]_vars
               PROVE  Kept
    OBVIOUS
  <2>1. CASE UNCHANGED <<status, applied>>
    BY <2>1
  <2>2. CASE InsertNext
    <3>1. applied' = applied
      BY <2>2 DEF InsertNext, InsertShift, RefuseNode, LinkNode, dagVars
    <3>2. \/ status' = status
          \/ /\ Head(batch) \notin nodes
             /\ status' = [status EXCEPT ![Head(batch)] = "Accepted"]
      BY <2>2 DEF InsertNext, InsertShift, RefuseNode, LinkNode, dagVars
    <3> QED
      BY <3>1, <3>2 DEF StatusInv, TypeOK, DagTypeOK
  <2>3. CASE MarkAndFinalize
    <3>1. /\ applied' = applied
          /\ \A h \in Hash : \/ status'[h] = status[h]
                             \/ status'[h] = "Rejected"
                             \/ status[h] = "Accepted"
      BY <2>3 DEF MarkAndFinalize, MarkAndPromote, Ripe
    <3> QED
      BY <3>1
  <2>4. CASE Commit
    BY <2>4 DEF Commit, AcceptedInv
  <2>5. \/ InsertNext \/ MarkAndFinalize \/ Commit
        \/ UNCHANGED <<status, applied>>
    BY DEF Next, Ingest, Enqueue, IngestStateful, Environment, Synthesize,
           LearnKey, QuorumChange, BeginTick, Decay, SyncBalances,
           DrainPending, BeginOrder, PickReady, EndOrder, ApplyNext,
           EndApply, ChargeFees, Publish, BoundReached, vars, dagVars
  <2> QED
    BY <2>1, <2>2, <2>3, <2>4, <2>5
<1> QED
  BY <1>1, AcceptedInvariant, TypeCorrect, PTL
  DEF Spec, CaughtDoubleSpendNeverApplied

-----------------------------------------------------------------------------
(* The copies of a balance *)

(* While a tick runs the DAG's balances are the wave-field's until they    *)
(* are replaced, and the simulated ones cover every account the wave-field *)
(* has.                                                                    *)
MirrorInv ==
    /\ pc \in {"drain", "insert", "order", "pick", "apply", "fees"}
          => balances = field
    /\ pc \in {"apply", "fees", "commit", "publish"} =>
          /\ DOMAIN field \subseteq DOMAIN sim
          /\ \A h \in stateful_hashes : Shift[h].from \in DOMAIN sim
    /\ pc = "publish" => balances = sim

(* Where nobody else writes balances, the two agree between ticks as well. *)
CopyInv ==
    /\ MirrorInv
    /\ pc \in {"idle", "decay"} => balances = field
    /\ pc = "sync" => DOMAIN balances = DOMAIN field

(* The accounts that a transfer leaves in the map.                         *)
LEMMA TransferDomain ==
    ASSUME NEW m, NEW h
    PROVE  DOMAIN Transfer(m, h) = DOMAIN m \cup {Shift[h].from, Shift[h].to}
BY DEF Transfer, Put

(* A tick that starts from a wave-field with all the DAG's accounts keeps  *)
(* the copies in step.                                                     *)
LEMMA MirrorStep ==
    ASSUME TypeOK, OrderInv, MirrorInv, [Next]_vars,
           pc = "sync" => DOMAIN balances \subseteq DOMAIN field
    PROVE  MirrorInv'
<1>t. /\ IsMap(field, Account, Nat) /\ IsMap(balances, Account, Nat)
      /\ IsMap(sim, Account, Nat)
  BY DEF TypeOK, DagTypeOK
<1>1. ASSUME UNCHANGED <<pc, balances, field, sim, stateful_hashes>>
      PROVE  MirrorInv'
  BY <1>1 DEF MirrorInv
<1>2. ASSUME UNCHANGED <<balances, field>>,
             \/ pc = "idle" /\ pc' = "decay"
             \/ /\ pc \in {"drain", "insert", "order"}
                /\ pc' \in {"insert", "order", "pick"}
      PROVE  MirrorInv'
  BY <1>2 DEF MirrorInv
<1>3. CASE Decay
  <2>1. pc = "decay" /\ pc' = "sync" /\ balances' = balances
    BY <1>3 DEF Decay, dagVars
  <2>2. DOMAIN field' = DOMAIN field
    BY <1>3 DEF Decay
  <2> QED
    BY <2>1, <2>2 DEF MirrorInv
<1>4. CASE SyncBalances
  <2>1. /\ pc = "sync" /\ pc' = "drain" /\ field' = field
        /\ balances' = Overwrite(balances, field)
    BY <1>4 DEF SyncBalances
  <2>2. balances' = field
    BY <1>t, <2>1, OverwriteAll
  <2> QED
    BY <2>1, <2>2 DEF MirrorInv
<1>5. CASE EndOrder
  <2>1. pc = "pick" /\ pc' = "apply"
    BY <1>5, OrderEnds DEF OrderInv, EndOrder
  <2>2. /\ sim' = balances /\ stateful_hashes' = {}
        /\ balances' = balances /\ field' = field
    BY <1>5 DEF EndOrder, dagVars
  <2> QED
    BY <2>1, <2>2 DEF MirrorInv
<1>6. CASE ApplyNext
  <2>1. /\ pc = "apply" /\ pc' = "apply"
        /\ balances' = balances /\ field' = field
    BY <1>6 DEF ApplyNext, dagVars
  <2>2. CASE Applicable(Head(order))
    <3>1. /\ sim' = Transfer(sim, Head(order))
          /\ stateful_hashes' = stateful_hashes \cup {Head(order)}
      BY <1>6, <2>2 DEF ApplyNext
    <3>2. DOMAIN sim' = DOMAIN sim \cup {Shift[Head(order)].from,
                                         Shift[Head(order)].to}
      BY <3>1, TransferDomain
    <3> QED
      BY <2>1, <3>1, <3>2 DEF MirrorInv
  <2>3. CASE ~Applicable(Head(order))
    BY <1>1, <1>6, <2>1, <2>3 DEF ApplyNext, applyVars
  <2> QED
    BY <2>2, <2>3
<1>7. CASE EndApply
  BY <1>7 DEF EndApply, MirrorInv, dagVars, applyVars
<1>8. CASE ChargeFees
  <2>1. /\ pc = "fees" /\ pc' = "commit" /\ sim' = sim
        /\ stateful_hashes' = stateful_hashes
    BY <1>8 DEF ChargeFees, applyVars
  <2>2. DOMAIN field' \subseteq
           DOMAIN field \cup {Shift[h].from : h \in stateful_hashes}
    BY <1>8 DEF ChargeFees, Overwrite
  <2> QED
    BY <2>1, <2>2 DEF MirrorInv
<1>9. CASE Commit
  BY <1>9 DEF Commit, MirrorInv, applyVars
<1>10. CASE Publish
  <2>1. /\ pc = "publish" /\ pc' = "idle" /\ balances' = balances
        /\ field' = Overwrite(field, sim)
    BY <1>10 DEF Publish, dagVars
  <2>2. field' = sim
    BY <1>t, <2>1, OverwriteAll DEF MirrorInv
  <2> QED
    BY <2>1, <2>2 DEF MirrorInv
<1>11. CASE InsertNext
  BY <1>1, <1>11
  DEF InsertNext, InsertShift, RefuseNode, LinkNode, dagVars, applyVars
<1>12. \/ Decay \/ SyncBalances \/ EndOrder \/ ApplyNext \/ EndApply
       \/ ChargeFees \/ Commit \/ Publish \/ InsertNext
       \/ UNCHANGED <<pc, balances, field, sim, stateful_hashes>>
       \/ /\ UNCHANGED <<balances, field>>
          /\ \/ pc = "idle" /\ pc' = "decay"
             \/ /\ pc \in {"drain", "insert", "order"}
                /\ pc' \in {"insert", "order", "pick"}
  BY DEF Next, Ingest, Enqueue, IngestStateful, Environment, Synthesize,
         LearnKey, QuorumChange, BeginTick, DrainPending, MarkAndFinalize,
         MarkAndPromote, BeginOrder, PickReady, BoundReached, vars, dagVars,
         applyVars
<1> QED
  BY <1>1, <1>2, <1>3, <1>4, <1>5, <1>6, <1>7, <1>8, <1>9, <1>10, <1>11, <1>12

(* Nothing but the cycle writes balances, so the copies agree.             *)
LEMMA CopyStep == TypeOK /\ OrderInv /\ CopyInv /\ [Next]_vars => CopyInv'
<1> SUFFICES ASSUME TypeOK, OrderInv, CopyInv, [Next]_vars PROVE CopyInv'
  OBVIOUS
<1>m. MirrorInv'
  BY MirrorStep DEF CopyInv
<1>t. IsMap(sim, Account, Nat)
  BY DEF TypeOK
<1>1. CASE Decay
  <2>1. /\ pc = "decay" /\ pc' = "sync" /\ balances' = balances
        /\ DOMAIN field' = DOMAIN field
    BY <1>1 DEF Decay, dagVars
  <2> QED
    BY <1>m, <2>1 DEF CopyInv
<1>2. CASE Publish
  <2>1. /\ pc = "publish" /\ pc' = "idle" /\ balances' = balances
        /\ field' = Overwrite(field, sim)
    BY <1>2 DEF Publish, dagVars
  <2>2. field' = sim
    BY <1>t, <2>1, OverwriteAll DEF CopyInv, MirrorInv
  <2> QED
    BY <1>m, <2>1, <2>2 DEF CopyInv, MirrorInv
<1>3. CASE EndOrder
  <2>1. pc' = "apply"
    BY <1>3, OrderEnds DEF OrderInv, EndOrder
  <2> QED
    BY <1>m, <2>1 DEF CopyInv
<1>4. CASE pc' \notin {"idle", "decay", "sync"}
  BY <1>m, <1>4 DEF CopyInv
<1>5. CASE /\ balances' = balances /\ field' = field
           /\ pc' = pc \/ (pc = "idle" /\ pc' = "decay")
  BY <1>m, <1>5 DEF CopyInv
<1>6. \/ Decay \/ Publish \/ EndOrder \/ pc' \notin {"idle", "decay", "sync"}
      \/ /\ balances' = balances /\ field' = field
         /\ pc' = pc \/ (pc = "idle" /\ pc' = "decay")
  <2>1. CASE Ingest \/ Environment \/ BoundReached \/ UNCHANGED vars
    <3>1. UNCHANGED <<balances, field, pc>>
      BY <2>1 DEF Ingest, Enqueue, IngestStateful, Environment, LearnKey,
         QuorumChange, BoundReached, vars, dagVars
    <3> QED
      BY <3>1
  <2>3. CASE BeginTick
    BY <2>3 DEF BeginTick, dagVars
  <2>2. CASE \/ SyncBalances \/ DrainPending \/ InsertNext \/ MarkAndFinalize
             \/ BeginOrder \/ PickReady \/ ApplyNext \/ EndApply
             \/ ChargeFees \/ Commit
    BY <2>2 DEF SyncBalances, DrainPending, InsertNext, MarkAndFinalize,
       BeginOrder, PickReady, ApplyNext, EndApply, ChargeFees, Commit
  <2> QED
    BY <2>1, <2>2, <2>3 DEF Next, Synthesize
<1> QED
  BY <1>1, <1>2, <1>3, <1>4, <1>5, <1>6

(* ... in every reachable state.                                           *)
LEMMA CopyInvariant == Spec => []CopyInv
<1>1. Init => CopyInv
  BY DEF Init, DagInit, CopyInv, MirrorInv
<1> QED
  BY <1>1, CopyStep, OrderInvariant, TypeCorrect, PTL DEF Spec

-----------------------------------------------------------------------------
(* Conservation *)

(* A transfer takes the fee out of the total.                              *)
LEMMA TransferTotal ==
    ASSUME NEW h \in Hash, IsMap(registry, Domain, PolicyRecord),
           IsMap(sim, Account, Nat), Applicable(h)
    PROVE  SumFunction(Transfer(sim, h)) = SumFunction(sim) - Fee(h)
<1> DEFINE a == Shift[h].from
           b == Shift[h].to
           x == Shift[h].amount
           paid == Put(sim, a, Get(sim, a) - x)
<1>1. /\ a \in Account /\ b \in Account /\ x \in Nat
      /\ Fee(h) \in Nat /\ Fee(h) <= x
  BY ShiftType, FeeBound
<1>2. Get(sim, a) \in Nat /\ x <= Get(sim, a)
  BY GetType DEF Applicable
<1>3. Get(sim, a) - x \in Nat /\ x - Fee(h) \in Nat
  BY <1>1, <1>2
<1>4. IsMap(paid, Account, Nat)
  BY <1>1, <1>3, PutType
<1>5. SumFunction(paid) = (SumFunction(sim) - Get(sim, a)) + (Get(sim, a) - x)
  BY <1>1, <1>3, AccountAssumption, SumPut
<1>6. Get(paid, b) \in Nat /\ SumFunction(sim) \in Nat
  BY <1>4, GetType, SumOfMapType, AccountAssumption
<1>7. Transfer(sim, h) = Put(paid, b, Get(paid, b) + (x - Fee(h)))
  BY DEF Transfer
<1> HIDE DEF paid, a, b, x
<1>8. Get(paid, b) + (x - Fee(h)) \in Nat
  BY <1>3, <1>6
<1>9. SumFunction(Put(paid, b, Get(paid, b) + (x - Fee(h))))
         = (SumFunction(paid) - Get(paid, b)) + (Get(paid, b) + (x - Fee(h)))
  BY <1>1, <1>4, <1>8, AccountAssumption, SumPut
<1> QED
  BY <1>1, <1>2, <1>5, <1>6, <1>7, <1>9

(* Decay takes the losses out of the total.                                *)
LEMMA DecayTotal ==
    ASSUME NEW m, IsMap(m, Account, Nat), NEW loss, NEW n,
           loss \in [DOMAIN m -> Nat], \A a \in DOMAIN m : loss[a] <= m[a],
           n = [a \in DOMAIN m |-> m[a] - loss[a]]
    PROVE  SumFunction(m) = SumFunction(n) + SumFunction(loss)
<1>1. IsFiniteSet(DOMAIN m) /\ DOMAIN loss = DOMAIN m /\ DOMAIN n = DOMAIN m
  BY AccountAssumption, FS_Subset DEF IsMap
<1>2. \A a \in DOMAIN m :
         n[a] \in Int /\ loss[a] \in Int /\ m[a] = n[a] + loss[a]
  BY DEF IsMap
<1>3. SumFunctionOnSet(m, DOMAIN m)
         = SumFunctionOnSet(n, DOMAIN m) + SumFunctionOnSet(loss, DOMAIN m)
  BY <1>1, <1>2, SumPlus
<1> QED
  BY <1>1, <1>3 DEF SumFunction

(* The accounts, the revenue and what was burned add up to total wherever  *)
(* the cycle stands.                                                       *)
Conserves(total) ==
    LET accounted == revenue + burned IN
    /\ pc \notin {"commit", "publish"} => SumFunction(field) + accounted = total
    /\ pc \in {"apply", "fees"} =>
          SumFunction(sim) + total_fees + accounted = total
    /\ pc \in {"commit", "publish"} => SumFunction(sim) + accounted = total

(* Every step of the cycle conserves whatever total it started from.       *)
LEMMA ConservationStep ==
    ASSUME NEW total, TypeOK, OrderInv, MirrorInv, Conserves(total),
           [Next]_vars
    PROVE  Conserves(total)'
<1>t. /\ IsMap(field, Account, Nat) /\ IsMap(balances, Account, Nat)
      /\ IsMap(sim, Account, Nat)
      /\ revenue \in Nat /\ burned \in Nat /\ total_fees \in Nat
      /\ SumFunction(field) \in Nat /\ SumFunction(sim) \in Nat
  <2>1. /\ IsMap(field, Account, Nat) /\ IsMap(balances, Account, Nat)
        /\ IsMap(sim, Account, Nat)
        /\ revenue \in Nat /\ burned \in Nat /\ total_fees \in Nat
    BY DEF TypeOK, DagTypeOK
  <2> QED
    BY <2>1, AccountAssumption, SumOfMapType
<1> HIDE DEF TypeOK
<1> USE DEF Conserves
<1>1. ASSUME UNCHANGED <<pc, field, sim, revenue, burned, total_fees>>
      PROVE  Conserves(total)'
  BY <1>1
<1>2. ASSUME UNCHANGED <<field, revenue, burned>>,
             pc \in {"idle", "sync", "drain", "insert", "order"},
             pc' \in {"decay", "drain", "insert", "order", "pick"}
      PROVE  Conserves(total)'
  BY <1>2
<1>3. CASE Decay
  <2>1. PICK loss \in [DOMAIN field -> 0..MaxDecay],
             decayed \in 0..(MaxDecay * Cardinality(Account)) :
          /\ \A a \in DOMAIN field : loss[a] <= field[a]
          /\ decayed = SumFunction(loss)
          /\ field' = [a \in DOMAIN field |-> field[a] - loss[a]]
          /\ burned' = burned + BurnShare(decayed)
          /\ revenue' = revenue + (decayed - BurnShare(decayed))
    BY <1>3 DEF Decay, TotalLoss
  <2>2. loss \in [DOMAIN field -> Nat]
    BY BoundAssumption
  <2>3. SumFunction(field) = SumFunction(field') + SumFunction(loss)
    BY <1>t, <2>1, <2>2, DecayTotal
  <2>4. SumFunction(loss) \in Nat /\ SumFunction(field') \in Nat
    <3>1. IsMap(loss, Account, Nat)
      BY <1>t, <2>2 DEF IsMap
    <3>2. IsMap(field', Account, Nat)
      BY TypeStep DEF TypeOK
    <3> QED
      BY <3>1, <3>2, AccountAssumption, SumOfMapType
  <2>5. BurnShare(decayed) \in Nat
    BY <2>1, <2>4 DEF BurnShare
  <2>6. SumFunction(field') + (revenue' + burned')
           = SumFunction(field) + (revenue + burned)
    BY <1>t, <2>1, <2>3, <2>4, <2>5
  <2>7. pc = "decay" /\ pc' = "sync"
    BY <1>3 DEF Decay
  <2> QED
    BY <2>6, <2>7
<1>4. CASE EndOrder
  <2>1. /\ pc = "pick" /\ pc' = "apply" /\ sim' = field /\ total_fees' = 0
        /\ UNCHANGED <<field, revenue, burned>>
    BY <1>4, OrderEnds DEF OrderInv, EndOrder, MirrorInv
  <2> QED
    BY <1>t, <2>1
<1>5. CASE ApplyNext
  <2>1. /\ pc = "apply" /\ pc' = "apply" /\ Head(order) \in Hash
        /\ UNCHANGED <<field, revenue, burned>>
    BY <1>5 DEF ApplyNext, TypeOK
  <2>2. CASE Applicable(Head(order))
    <3>1. /\ sim' = Transfer(sim, Head(order))
          /\ total_fees' = total_fees + Fee(Head(order))
      BY <1>5, <2>2 DEF ApplyNext
    <3>2. /\ SumFunction(sim') = SumFunction(sim) - Fee(Head(order))
          /\ Fee(Head(order)) \in Nat
      BY <1>t, <2>1, <2>2, <3>1, TransferTotal, TransferType DEF TypeOK
    <3> QED
      BY <1>t, <2>1, <3>1, <3>2
  <2>3. CASE ~Applicable(Head(order))
    BY <1>1, <1>5, <2>1, <2>3 DEF ApplyNext, applyVars
  <2> QED
    BY <2>2, <2>3
<1>6. CASE EndApply
  BY <1>6 DEF EndApply, applyVars
<1>7. CASE ChargeFees
  <2>1. /\ pc = "fees" /\ pc' = "commit" /\ sim' = sim /\ burned' = burned
        /\ revenue' = revenue + total_fees
    BY <1>7 DEF ChargeFees, applyVars
  <2> QED
    BY <1>t, <2>1
<1>8. CASE Commit
  BY <1>8 DEF Commit, applyVars
<1>9. CASE Publish
  <2>1. /\ pc = "publish" /\ pc' = "idle" /\ UNCHANGED <<revenue, burned>>
        /\ field' = Overwrite(field, sim)
    BY <1>9 DEF Publish
  <2>2. field' = sim
    BY <1>t, <2>1, OverwriteAll DEF MirrorInv
  <2> QED
    BY <2>1, <2>2
<1>10. \/ Decay \/ EndOrder \/ ApplyNext \/ EndApply
       \/ ChargeFees \/ Commit \/ Publish
       \/ UNCHANGED <<pc, field, sim, revenue, burned, total_fees>>
       \/ /\ UNCHANGED <<field, revenue, burned>>
          /\ pc \in {"idle", "sync", "drain", "insert", "order"}
          /\ pc' \in {"decay", "drain", "insert", "order", "pick"}
  BY DEF Next, Ingest, Enqueue, IngestStateful, Environment, Synthesize,
         LearnKey, QuorumChange, BeginTick, SyncBalances, DrainPending,
         InsertNext, MarkAndFinalize, BeginOrder, PickReady, BoundReached,
         vars, applyVars
<1> QED
  BY <1>1, <1>2, <1>3, <1>4, <1>5, <1>6, <1>7, <1>8, <1>9, <1>10

(* Value is conserved through every tick, for any number of accounts, any  *)
(* shifts, any fee policies and any decay.                                 *)
THEOREM ValueConserved == Spec => []Conservation
<1>1. Init => Conservation
  <2>1. SumFunction(Genesis) \in Nat
    BY GenesisAssumption, AccountAssumption, SumOfMapType
  <2> QED
    BY <2>1 DEF Init, Conservation
<1>2. TypeOK /\ OrderInv /\ CopyInv /\ Conservation /\ [Next]_vars
         => Conservation'
  <2> SUFFICES ASSUME TypeOK, OrderInv, CopyInv, Conservation, [Next]_vars
               PROVE  Conservation'
    OBVIOUS
  <2> DEFINE total == SumFunction(Genesis)
  <2>1. Conserves(total) /\ MirrorInv
    BY DEF Conserves, Conservation, CopyInv
  <2> HIDE DEF total
  <2>2. Conserves(total)'
    BY <2>1, ConservationStep
  <2> QED
    BY <2>2 DEF Conserves, Conservation, total
<1> QED
  BY <1>1, <1>2, CopyInvariant, OrderInvariant, TypeCorrect, PTL DEF Spec

-----------------------------------------------------------------------------
(* Balances are explained by the applied shifts *)

(* One more shift adds its amount to what its sender spent.                *)
LEMMA OutgoingGrows ==
    ASSUME NEW S \in SUBSET Hash, NEW h \in Hash, h \notin S, NEW a
    PROVE  /\ Outgoing(S, a) \in Int
           /\ Outgoing(S \cup {h}, a) =
                 IF Shift[h].from = a THEN Shift[h].amount + Outgoing(S, a)
                 ELSE Outgoing(S, a)
<1> DEFINE of(U) == {k \in U : Shift[k].from = a}
           f(U) == [k \in of(U) |-> Shift[k].amount]
<1>0. of(S) \in SUBSET Hash
  OBVIOUS
<1>1. IsFiniteSet(of(S)) /\ \A k \in Hash : Shift[k].amount \in Int
  BY <1>0, HashAssumption, FS_Subset, ShiftType
<1>2. SumFunction(f(S)) \in Int
  BY <1>1, SumInt DEF SumFunction
<1>3. CASE Shift[h].from = a
  <2>1. DOMAIN f(S \cup {h}) = DOMAIN f(S) \cup {h} /\ h \notin DOMAIN f(S)
    BY <1>3
  <2>2. SumFunction(f(S \cup {h})) = f(S \cup {h})[h] + SumFunction(f(S))
    BY <1>1, <2>1, SumExtend
  <2> QED
    BY <1>2, <1>3, <2>1, <2>2 DEF Outgoing
<1>4. CASE Shift[h].from # a
  <2>1. of(S \cup {h}) = of(S)
    BY <1>4
  <2> QED
    BY <1>2, <1>4, <2>1 DEF Outgoing
<1> QED
  BY <1>3, <1>4

(* One more shift adds its amount less the fee to what its receiver got.   *)
LEMMA IncomingGrows ==
    ASSUME NEW S \in SUBSET Hash, NEW h \in Hash, h \notin S, NEW a,
           \A k \in S \cup {h} : Fee(k) \in Nat
    PROVE  /\ Incoming(S, a) \in Int
           /\ Incoming(S \cup {h}, a) =
                 IF Shift[h].to = a
                 THEN (Shift[h].amount - Fee(h)) + Incoming(S, a)
                 ELSE Incoming(S, a)
<1> DEFINE of(U) == {k \in U : Shift[k].to = a}
           f(U) == [k \in of(U) |-> Shift[k].amount - Fee(k)]
<1>0. of(S) \in SUBSET Hash
  OBVIOUS
<1>1. /\ IsFiniteSet(of(S))
      /\ \A k \in S \cup {h} : Shift[k].amount - Fee(k) \in Int
  BY <1>0, HashAssumption, FS_Subset, ShiftType
<1>2. SumFunction(f(S)) \in Int
  BY <1>1, SumInt DEF SumFunction
<1>3. CASE Shift[h].to = a
  <2>1. DOMAIN f(S \cup {h}) = DOMAIN f(S) \cup {h} /\ h \notin DOMAIN f(S)
    BY <1>3
  <2>2. SumFunction(f(S \cup {h})) = f(S \cup {h})[h] + SumFunction(f(S))
    BY <1>1, <2>1, SumExtend
  <2> QED
    BY <1>2, <1>3, <2>1, <2>2 DEF Incoming
<1>4. CASE Shift[h].to # a
  <2>1. of(S \cup {h}) = of(S)
    BY <1>4
  <2> QED
    BY <1>2, <1>4, <2>1 DEF Incoming
<1> QED
  BY <1>3, <1>4

(* A transfer of a new shift keeps a map explained.                        *)
LEMMA TransferExplained ==
    ASSUME NEW h \in Hash, IsMap(registry, Domain, PolicyRecord),
           IsMap(sim, Account, Nat), Applicable(h),
           NEW S \in SUBSET Hash, h \notin S, \A k \in S : Fee(k) \in Nat,
           Explains(S, sim)
    PROVE  Explains(S \cup {h}, Transfer(sim, h))
<1> DEFINE x == Shift[h].amount
           paid == Put(sim, Shift[h].from, Get(sim, Shift[h].from) - x)
<1>1. x \in Nat /\ Fee(h) \in Nat
  BY ShiftType, FeeType DEF Applicable
<1> SUFFICES ASSUME NEW a \in Account
             PROVE  Get(Transfer(sim, h), a) + Outgoing(S \cup {h}, a)
                       = Get(Genesis, a) + Incoming(S \cup {h}, a)
  BY DEF Explains
<1>2. Get(sim, a) + Outgoing(S, a) = Get(Genesis, a) + Incoming(S, a)
  BY DEF Explains
<1>3. Get(sim, a) \in Nat /\ Get(Genesis, a) \in Nat
  BY GetType, GenesisAssumption
<1>4. /\ Outgoing(S, a) \in Int
      /\ Outgoing(S \cup {h}, a) = IF Shift[h].from = a THEN x + Outgoing(S, a)
                                   ELSE Outgoing(S, a)
  BY OutgoingGrows
<1>5. /\ Incoming(S, a) \in Int
      /\ Incoming(S \cup {h}, a) = IF Shift[h].to = a
                                   THEN (x - Fee(h)) + Incoming(S, a)
                                   ELSE Incoming(S, a)
  BY <1>1, IncomingGrows
<1>6. Get(paid, a) = IF a = Shift[h].from THEN Get(sim, a) - x ELSE Get(sim, a)
  BY GetPut
<1>7. Get(Transfer(sim, h), a) = IF a = Shift[h].to
                                 THEN Get(paid, a) + (x - Fee(h))
                                 ELSE Get(paid, a)
  BY GetPut DEF Transfer
<1> HIDE DEF paid, x
<1> QED
  BY <1>1, <1>2, <1>3, <1>4, <1>5, <1>6, <1>7

(* Fees of applied shifts are amounts, for their domains are registered.   *)
FeesInv == \A h \in applied : Fee(h) \in Nat

(* A shift is applied only with the fee the apply loop accepted.           *)
LEMMA FeesStep == AcceptedInv /\ FeesInv /\ [Next]_vars => FeesInv'
<1> SUFFICES ASSUME AcceptedInv, FeesInv, [Next]_vars PROVE FeesInv'
  OBVIOUS
<1>1. \A h : Fee(h)' = Fee(h)
  BY RegistryConstant DEF Fee
<1>2. CASE Commit
  BY <1>1, <1>2 DEF Commit, AcceptedInv, FeesInv
<1>3. CASE applied' = applied
  BY <1>1, <1>3 DEF FeesInv
<1>4. Commit \/ applied' = applied
  BY DEF Next, Ingest, Enqueue, IngestStateful, Environment, Synthesize,
         LearnKey, QuorumChange, BeginTick, Decay, SyncBalances,
         DrainPending, InsertNext, InsertShift, RefuseNode, LinkNode,
         MarkAndFinalize, MarkAndPromote, BeginOrder, PickReady, EndOrder,
         ApplyNext, EndApply, ChargeFees, Publish, BoundReached, vars,
         dagVars
<1> QED
  BY <1>2, <1>3, <1>4

(* Fees do not change, so an explanation means the same in the next state. *)
LEMMA ExplainsNext ==
    ASSUME registry' = registry
    PROVE  /\ Explains(applied, field)' <=> Explains(applied', field')
           /\ Explains(applied, balances)' <=> Explains(applied', balances')
           /\ Explains(applied \cup stateful_hashes, sim)'
                 <=> Explains(applied' \cup stateful_hashes', sim')
<1>1. \A h : Fee(h)' = Fee(h)
  BY DEF Fee
<1> DEFINE NextIncoming(S, a) ==
             SumFunction([h \in {k \in S : Shift[k].to = a} |->
                             Shift[h].amount - Fee(h)'])
<1>2. \A S, a : NextIncoming(S, a) = Incoming(S, a)
  <2> TAKE S, a
  <2>1. [h \in {k \in S : Shift[k].to = a} |-> Shift[h].amount - Fee(h)']
           = [h \in {k \in S : Shift[k].to = a} |-> Shift[h].amount - Fee(h)]
    BY <1>1
  <2> QED
    BY <2>1 DEF Incoming
<1>3. \A a : /\ Incoming(applied, a)' = NextIncoming(applied', a)
             /\ Incoming(applied \cup stateful_hashes, a)'
                   = NextIncoming(applied' \cup stateful_hashes', a)
  BY DEF Incoming
<1>4. \A a : /\ Incoming(applied, a)' = Incoming(applied', a)
             /\ Incoming(applied \cup stateful_hashes, a)'
                   = Incoming(applied' \cup stateful_hashes', a)
  BY <1>2, <1>3
<1>5. \A a : /\ Outgoing(applied, a)' = Outgoing(applied', a)
             /\ Outgoing(applied \cup stateful_hashes, a)'
                   = Outgoing(applied' \cup stateful_hashes', a)
  BY DEF Outgoing
<1> QED
  BY <1>4, <1>5 DEF Explains

(* Every step of a system without decay preserves the explanation.         *)
LEMMA ExplainedStep ==
    ASSUME MaxDecay = 0, TypeOK, OrderInv, CopyInv, AcceptedInv, FeesInv,
           LedgerExplained, [Next]_vars
    PROVE  LedgerExplained'
<1>t. /\ IsMap(field, Account, Nat) /\ IsMap(balances, Account, Nat)
      /\ IsMap(sim, Account, Nat) /\ IsMap(registry, Domain, PolicyRecord)
      /\ applied \in SUBSET Hash /\ stateful_hashes \in SUBSET Hash
      /\ order \in Seq(Hash)
  BY DEF TypeOK, DagTypeOK
<1> DEFINE Written == {"drain", "insert", "order", "pick", "apply", "fees",
                       "commit", "publish", "idle"}
<1>e. SUFFICES
        /\ pc' \notin {"commit", "publish"} => Explains(applied', field')
        /\ pc' \in Written => Explains(applied', balances')
        /\ pc' \in {"apply", "fees", "commit"} =>
              /\ applied' \cap stateful_hashes' = {}
              /\ Explains(applied' \cup stateful_hashes', sim')
  BY RegistryConstant, ExplainsNext DEF LedgerExplained
<1>1. CASE UNCHANGED <<pc, applied, field, balances, sim, stateful_hashes>>
  BY <1>1 DEF LedgerExplained
<1>2. CASE /\ UNCHANGED <<applied, field, balances>>
           /\ pc \in {"idle", "drain", "insert", "order"}
           /\ pc' \in {"decay", "insert", "order", "pick"}
  BY <1>2 DEF LedgerExplained
<1>3. CASE Decay
  <2>1. /\ pc = "decay" /\ pc' = "sync" /\ applied' = applied
        /\ \E loss \in [DOMAIN field -> 0..MaxDecay] :
              field' = [a \in DOMAIN field |-> field[a] - loss[a]]
    BY <1>3 DEF Decay, dagVars
  <2>2. field' = field
    BY <1>t, <2>1 DEF IsMap
  <2> QED
    BY <2>1, <2>2 DEF LedgerExplained
<1>4. CASE SyncBalances
  <2>1. /\ pc = "sync" /\ pc' = "drain" /\ UNCHANGED <<field, applied>>
        /\ balances' = Overwrite(balances, field)
    BY <1>4 DEF SyncBalances
  <2>2. balances' = field
    BY <1>t, <2>1, OverwriteAll DEF CopyInv, MirrorInv
  <2> QED
    BY <2>1, <2>2 DEF LedgerExplained
<1>5. CASE EndOrder
  <2>1. /\ pc = "pick" /\ pc' = "apply" /\ sim' = balances
        /\ stateful_hashes' = {} /\ UNCHANGED <<applied, field, balances>>
    BY <1>5, OrderEnds DEF OrderInv, EndOrder, dagVars
  <2>2. applied' \cup stateful_hashes' = applied
    BY <2>1
  <2> QED
    BY <2>1, <2>2 DEF LedgerExplained
<1>6. CASE ApplyNext
  <2> DEFINE h == Head(order)
  <2>1. /\ pc = "apply" /\ pc' = "apply" /\ order # <<>> /\ h \in Hash
        /\ UNCHANGED <<applied, field, balances>>
    BY <1>6, <1>t DEF ApplyNext, dagVars
  <2>2. CASE Applicable(h)
    <3>1. /\ sim' = Transfer(sim, h)
          /\ stateful_hashes' = stateful_hashes \cup {h}
      BY <1>6, <2>2 DEF ApplyNext
    <3>2. h \notin applied /\ h \notin stateful_hashes
      BY <1>t, <2>1, <2>2, TailSet DEF Applicable, OrderInv, QueueInv
    <3>3. \A k \in applied \cup stateful_hashes : Fee(k) \in Nat
      BY <2>1 DEF AcceptedInv, FeesInv
    <3>4. Explains(applied \cup stateful_hashes, sim)
      BY <2>1 DEF LedgerExplained
    <3>5. Explains((applied \cup stateful_hashes) \cup {h}, Transfer(sim, h))
      BY <1>t, <2>1, <2>2, <3>2, <3>3, <3>4, TransferExplained
    <3>6. applied' \cup stateful_hashes' = (applied \cup stateful_hashes) \cup {h}
      BY <2>1, <3>1
    <3> QED
      BY <2>1, <3>1, <3>2, <3>5, <3>6 DEF LedgerExplained
  <2>3. CASE ~Applicable(h)
    BY <1>1, <1>6, <2>1, <2>3 DEF ApplyNext, applyVars
  <2> QED
    BY <2>2, <2>3
<1>7. CASE EndApply
  BY <1>7 DEF EndApply, LedgerExplained, dagVars, applyVars
<1>8. CASE ChargeFees
  BY <1>8 DEF ChargeFees, LedgerExplained, dagVars, applyVars
<1>9. CASE Commit
  BY <1>9 DEF Commit, LedgerExplained, applyVars
<1>10. CASE Publish
  <2>1. /\ pc = "publish" /\ pc' = "idle" /\ UNCHANGED <<balances, applied>>
        /\ field' = Overwrite(field, sim)
    BY <1>10 DEF Publish, dagVars
  <2>2. field' = sim /\ balances = sim
    BY <1>t, <2>1, OverwriteAll DEF CopyInv, MirrorInv
  <2> QED
    BY <2>1, <2>2 DEF LedgerExplained
<1>11. CASE InsertNext
  BY <1>1, <1>11
  DEF InsertNext, InsertShift, RefuseNode, LinkNode, dagVars, applyVars
<1>12. \/ Decay \/ SyncBalances \/ EndOrder \/ ApplyNext \/ EndApply
       \/ ChargeFees \/ Commit \/ Publish \/ InsertNext
       \/ UNCHANGED <<pc, applied, field, balances, sim, stateful_hashes>>
       \/ /\ UNCHANGED <<applied, field, balances>>
          /\ pc \in {"idle", "drain", "insert", "order"}
          /\ pc' \in {"decay", "insert", "order", "pick"}
  BY DEF Next, Ingest, Enqueue, IngestStateful, Environment, Synthesize,
         LearnKey, QuorumChange, BeginTick, DrainPending, MarkAndFinalize,
         MarkAndPromote, BeginOrder, PickReady, BoundReached, vars, dagVars,
         applyVars
<1> QED
  BY <1>1, <1>2, <1>3, <1>4, <1>5, <1>6, <1>7, <1>8, <1>9, <1>10, <1>11, <1>12

(* Without decay, the balances are genesis and the applied shifts, each    *)
(* counted once, whatever was submitted and in whatever order it was       *)
(* applied: a shift that is skipped, or walked again in a later tick,      *)
(* leaves no trace in a balance.                                           *)
THEOREM BalancesExplained == (MaxDecay = 0) /\ Spec => []LedgerExplained
<1> SUFFICES ASSUME MaxDecay = 0 PROVE Spec => []LedgerExplained
  OBVIOUS
<1>1. Init => FeesInv /\ LedgerExplained
  <2> SUFFICES ASSUME Init PROVE FeesInv /\ LedgerExplained
    OBVIOUS
  <2>1. /\ applied = {} /\ field = Genesis /\ balances = Genesis /\ pc = "idle"
    BY DEF Init, DagInit
  <2>2. \A a : Outgoing({}, a) = 0 /\ Incoming({}, a) = 0
    <3> TAKE a
    <3>1. {k \in {} : Shift[k].from = a} = {} /\ {k \in {} : Shift[k].to = a} = {}
      OBVIOUS
    <3> QED
      BY <3>1, SumEmpty DEF Outgoing, Incoming, SumFunction
  <2>3. Explains({}, Genesis)
    BY <2>2 DEF Explains
  <2> QED
    BY <2>1, <2>3 DEF FeesInv, LedgerExplained
<1>2. /\ TypeOK /\ OrderInv /\ CopyInv /\ AcceptedInv /\ FeesInv
      /\ LedgerExplained /\ [Next]_vars
      => FeesInv' /\ LedgerExplained'
  BY ExplainedStep, FeesStep
<1> QED
  BY <1>1, <1>2, CopyInvariant, OrderInvariant, AcceptedInvariant, TypeCorrect,
     PTL DEF Spec

-----------------------------------------------------------------------------
(* Refinement *)

(* total_fees adds up the fees of the shifts accepted so far.              *)
TotalInv ==
    pc \in {"apply", "fees"} =>
        total_fees = SumFunction([h \in stateful_hashes |-> Fee(h)])

(* Each accepted shift adds its fee to total_fees, once.                   *)
LEMMA TotalStep ==
    TypeOK /\ OrderInv /\ AcceptedInv /\ TotalInv /\ [Next]_vars => TotalInv'
<1> SUFFICES ASSUME TypeOK, OrderInv, AcceptedInv, TotalInv, [Next]_vars
             PROVE  TotalInv'
  OBVIOUS
<1>r. \A h : Fee(h)' = Fee(h)
  BY RegistryConstant DEF Fee
<1>1. ASSUME UNCHANGED <<total_fees, stateful_hashes>>,
             pc' \in {"apply", "fees"} => pc \in {"apply", "fees"}
      PROVE  TotalInv'
  <2>1. [h \in stateful_hashes' |-> Fee(h)'] = [h \in stateful_hashes |-> Fee(h)]
    BY <1>1, <1>r
  <2> QED
    BY <1>1, <2>1 DEF TotalInv
<1>2. ASSUME pc' \notin {"apply", "fees"} PROVE TotalInv'
  BY <1>2 DEF TotalInv
<1>3. CASE EndOrder
  <2>1. total_fees' = 0 /\ stateful_hashes' = {}
    BY <1>3 DEF EndOrder
  <2>2. SumFunction([h \in stateful_hashes' |-> Fee(h)']) = 0
    BY <2>1, SumEmpty DEF SumFunction
  <2> QED
    BY <2>1, <2>2 DEF TotalInv
<1>4. CASE ApplyNext
  <2> DEFINE h == Head(order)
             f == [k \in stateful_hashes |-> Fee(k)]
             g == [k \in stateful_hashes' |-> Fee(k)']
  <2>1. pc = "apply" /\ pc' = "apply" /\ order # <<>> /\ h \in Hash
    BY <1>4 DEF ApplyNext, TypeOK
  <2>2. CASE Applicable(h)
    <3>1. /\ total_fees' = total_fees + Fee(h)
          /\ stateful_hashes' = stateful_hashes \cup {h}
      BY <1>4, <2>2 DEF ApplyNext
    <3>2. h \notin stateful_hashes
      BY <2>1, TailSet DEF OrderInv, QueueInv, TypeOK
    <3>3. Fee(h) \in Nat /\ total_fees \in Nat
      BY <2>1, <2>2, TransferType DEF TypeOK
    <3>4. /\ DOMAIN f = stateful_hashes /\ DOMAIN g = stateful_hashes \cup {h}
          /\ \A k \in stateful_hashes : f[k] = g[k]
          /\ g[h] = Fee(h)
      BY <1>r, <3>1
    <3>5. \A k \in DOMAIN g : g[k] \in Int
      BY <1>r, <2>1, <3>1, <3>3 DEF AcceptedInv
    <3>6. IsFiniteSet(stateful_hashes)
      BY HashAssumption, FS_Subset DEF TypeOK
    <3>7. total_fees = SumFunction(f)
      BY <2>1 DEF TotalInv
    <3> HIDE DEF f, g
    <3>8. SumFunction(g) = Fee(h) + SumFunction(f)
      BY <3>2, <3>4, <3>5, <3>6, SumExtend
    <3>9. total_fees' = SumFunction(g)
      BY <3>1, <3>3, <3>7, <3>8
    <3> QED
      BY <3>9 DEF g, TotalInv
  <2>3. CASE ~Applicable(h)
    BY <1>1, <1>4, <2>1, <2>3 DEF ApplyNext, applyVars
  <2> QED
    BY <2>2, <2>3
<1>5. \/ EndOrder \/ ApplyNext \/ pc' \notin {"apply", "fees"}
      \/ /\ UNCHANGED <<total_fees, stateful_hashes>>
         /\ pc' \in {"apply", "fees"} => pc \in {"apply", "fees"}
  BY DEF Next, Ingest, Enqueue, IngestStateful, Environment, Synthesize,
         LearnKey, QuorumChange, BeginTick, Decay, SyncBalances,
         DrainPending, InsertNext, MarkAndFinalize, BeginOrder, PickReady,
         EndApply, ChargeFees, Commit, Publish, BoundReached, vars, applyVars
<1> QED
  BY <1>1, <1>2, <1>3, <1>4, <1>5

(* total_fees is that sum in every reachable state.                        *)
LEMMA TotalInvariant == Spec => []TotalInv
<1>1. Init => TotalInv
  BY DEF Init, TotalInv
<1> QED
  BY <1>1, TotalStep, AcceptedInvariant, OrderInvariant, TypeCorrect, PTL
  DEF Spec

(* The operators that Settlement.tla takes from PartialMaps and Functions  *)
(* are the ones Oscillator.tla uses.                                       *)
LEMMA SameOperators ==
    ASSUME NEW m, NEW a, NEW v, NEW f
    PROVE  /\ Ledger!Get(m, a) = Get(m, a)
           /\ Ledger!Put(m, a, v) = Put(m, a, v)
           /\ Ledger!Overwrite(m, f) = Overwrite(m, f)
           /\ Ledger!SumFunction(f) = SumFunction(f)
<1>1. Ledger!SumFunction(f) = SumFunction(f)
  BY DEF SumFunction, SumFunctionOnSet, FoldFunctionOnSet, MapThenFoldSet,
         Ledger!SumFunction, Ledger!SumFunctionOnSet,
         Ledger!FoldFunctionOnSet, Ledger!MapThenFoldSet
<1> QED
  BY <1>1 DEF Ledger!Get, Get, Ledger!Put, Put, Ledger!Overwrite, Overwrite

(* The fee that the abstract ledger sees for an accepted shift.            *)
LEMMA AbstractFeeOf ==
    ASSUME NEW h \in Hash, Shift[h].domain \in DOMAIN registry
    PROVE  AbstractFee[h] = Fee(h)
BY DEF AbstractFee

(* The apply loop settles a shift, once.                                   *)
LEMMA ApplySettles ==
    ASSUME TypeOK, OrderInv, ApplyNext, Applicable(Head(order)),
           AbstractFee' = AbstractFee
    PROVE  \E h \in Hash : Ledger!Settle(h)
<1> DEFINE h == Head(order)
<1>1. pc = "apply" /\ pc' = "apply" /\ order # <<>> /\ h \in Hash
  BY DEF ApplyNext, TypeOK
<1>2. h \notin applied \cup stateful_hashes
  BY <1>1, TailSet DEF Applicable, OrderInv, QueueInv, TypeOK
<1>3. AbstractFee[h] = Fee(h)
  BY <1>1, AbstractFeeOf DEF Applicable
<1>4. AbstractFee[h] <= Shift[h].amount
  BY <1>1, <1>3, FeeBound DEF TypeOK
<1>5. Ledger!Get(sim, Shift[h].from) >= Shift[h].amount
  BY SameOperators DEF Applicable
<1>6. sim' = Transfer(sim, h) /\ stateful_hashes' = stateful_hashes \cup {h}
  BY DEF ApplyNext
<1>7. Transfer(sim, h) = Ledger!Moved(sim, h)
  BY <1>3, SameOperators DEF Transfer, Ledger!Moved
<1>8. AbstractPhase = "settling" /\ AbstractPhase' = "settling"
  BY <1>1 DEF AbstractPhase
<1>9. UNCHANGED <<field, balances, applied>>
  BY DEF ApplyNext, dagVars
<1>10. Ledger!Settle(h)
  BY <1>2, <1>4, <1>5, <1>6, <1>7, <1>8, <1>9 DEF Ledger!Settle
<1> QED
  BY <1>1, <1>10

(* Charging fees is the abstract charge: the debts and the test for a      *)
(* tick without fees are the same.                                         *)
LEMMA ChargeCharges ==
    ASSUME TypeOK, AcceptedInv, TotalInv, ChargeFees,
           AbstractFee' = AbstractFee
    PROVE  Ledger!ChargeField
<1> DEFINE senders == {Shift[h].from : h \in stateful_hashes}
<1>1. pc = "fees" /\ pc' = "commit" /\ stateful_hashes \in SUBSET Hash
  BY DEF ChargeFees, TypeOK
<1>2. \A h \in stateful_hashes : AbstractFee[h] = Fee(h) /\ Fee(h) \in Nat
  BY <1>1, AbstractFeeOf DEF AcceptedInv
<1>3. total_fees = 0 <=> \A h \in stateful_hashes : AbstractFee[h] = 0
  <2> DEFINE f == [h \in stateful_hashes |-> Fee(h)]
  <2>1. IsFiniteSet(stateful_hashes)
    BY <1>1, HashAssumption, FS_Subset
  <2>2. total_fees = SumFunctionOnSet(f, stateful_hashes)
    BY <1>1 DEF TotalInv, SumFunction
  <2>3. \A h \in stateful_hashes : f[h] \in Nat /\ f[h] = AbstractFee[h]
    BY <1>2
  <2> HIDE DEF f
  <2> QED
    BY <2>1, <2>2, <2>3, SumNat
<1>4. \A a : Ledger!Debt(a) = FeeDebt(a)
  <2> TAKE a
  <2>1. [h \in {k \in stateful_hashes : Shift[k].from = a} |-> AbstractFee[h]]
           = [h \in {k \in stateful_hashes : Shift[k].from = a} |-> Fee(h)]
    BY <1>2
  <2> QED
    BY <2>1, SameOperators DEF Ledger!Debt, FeeDebt
<1>5. PICK debt \in [senders -> 0..total_fees] :
          /\ \A a \in senders : debt[a] = FeeDebt(a)
          /\ field' = IF total_fees = 0 THEN field
                      ELSE Overwrite(field, [a \in senders |->
                               IF Get(field, a) > debt[a]
                               THEN Get(field, a) - debt[a] ELSE 0])
  BY DEF ChargeFees
<1>6. [a \in senders |-> IF Get(field, a) > debt[a]
                         THEN Get(field, a) - debt[a] ELSE 0]
         = [a \in senders |-> IF Ledger!Get(field, a) > Ledger!Debt(a)
                              THEN Ledger!Get(field, a) - Ledger!Debt(a) ELSE 0]
  BY <1>4, <1>5, SameOperators
<1>7. field' = IF \A h \in stateful_hashes : AbstractFee[h] = 0 THEN field
               ELSE Ledger!Overwrite(field, [a \in senders |->
                        IF Ledger!Get(field, a) > Ledger!Debt(a)
                        THEN Ledger!Get(field, a) - Ledger!Debt(a) ELSE 0])
  BY <1>3, <1>5, <1>6, SameOperators
<1>8. AbstractPhase = "settled" /\ AbstractPhase' = "charged"
  BY <1>1 DEF AbstractPhase
<1>9. UNCHANGED <<balances, applied, sim, stateful_hashes>>
  BY DEF ChargeFees, dagVars, applyVars
<1> QED
  BY <1>7, <1>8, <1>9 DEF Ledger!ChargeField

(* Every step of the oscillator is a step of the ledger or leaves it as it *)
(* is.                                                                     *)
LEMMA SimulationStep ==
    ASSUME TypeOK, OrderInv, AcceptedInv, TotalInv, [Next]_vars
    PROVE  [Ledger!SettlementNext]_(Ledger!ledgerVars)
<1>f. AbstractFee' = AbstractFee
  BY RegistryConstant DEF AbstractFee, Fee
<1> USE DEF Ledger!SettlementNext
<1>1. ASSUME UNCHANGED <<field, balances, applied, sim, stateful_hashes>>,
             AbstractPhase' = AbstractPhase
      PROVE  UNCHANGED Ledger!ledgerVars
  BY <1>f, <1>1 DEF Ledger!ledgerVars
<1>2. CASE Decay
  BY <1>f, <1>2
  DEF Decay, Ledger!LoseDecay, AbstractPhase, dagVars, applyVars
<1>3. CASE SyncBalances
  BY <1>f, <1>3, SameOperators
  DEF SyncBalances, Ledger!CopyField, AbstractPhase, applyVars
<1>4. CASE EndOrder
  <2>1. pc = "pick" /\ pc' = "apply"
    BY <1>4, OrderEnds DEF OrderInv, EndOrder
  <2> QED
    BY <1>f, <1>4, <2>1
    DEF EndOrder, Ledger!BeginSettling, AbstractPhase, dagVars
<1>5. CASE ApplyNext
  <2>1. CASE Applicable(Head(order))
    BY <1>f, <1>5, <2>1, ApplySettles
  <2>2. CASE ~Applicable(Head(order))
    BY <1>1, <1>5, <2>2 DEF ApplyNext, AbstractPhase, dagVars, applyVars
  <2> QED
    BY <2>1, <2>2
<1>6. CASE EndApply
  BY <1>f, <1>6
  DEF EndApply, Ledger!EndSettling, AbstractPhase, dagVars, applyVars
<1>7. CASE ChargeFees
  BY <1>f, <1>7, ChargeCharges
<1>8. CASE Commit
  BY <1>f, <1>8 DEF Commit, Ledger!CommitLedger, AbstractPhase, applyVars
<1>9. CASE Publish
  BY <1>f, <1>9, SameOperators
  DEF Publish, Ledger!PublishField, AbstractPhase, dagVars
<1>10. CASE InsertNext
  BY <1>1, <1>10
  DEF InsertNext, InsertShift, RefuseNode, LinkNode, AbstractPhase, dagVars,
      applyVars
<1>11. \/ Decay \/ SyncBalances \/ EndOrder \/ ApplyNext \/ EndApply
       \/ ChargeFees \/ Commit \/ Publish \/ InsertNext
       \/ /\ UNCHANGED <<field, balances, applied, sim, stateful_hashes>>
          /\ AbstractPhase' = AbstractPhase
  BY DEF Next, Ingest, Enqueue, IngestStateful, Environment, Synthesize,
         LearnKey, QuorumChange, BeginTick, DrainPending, MarkAndFinalize,
         MarkAndPromote, BeginOrder, PickReady, BoundReached, vars, dagVars,
         applyVars, AbstractPhase
<1> QED
  BY <1>1, <1>2, <1>3, <1>4, <1>5, <1>6, <1>7, <1>8, <1>9, <1>10, <1>11

(* The oscillator implements the abstract ledger, for all constants: queue,*)
(* clocks, DAG, order, keys, quorums and finalization decide which shifts  *)
(* settle and when, and nothing else.                                      *)
THEOREM OscillatorImplementsSettlement == Spec => ImplementsSettlement
<1>1. Init => Ledger!SettlementInit
  <2> SUFFICES ASSUME Init PROVE Ledger!SettlementInit
    OBVIOUS
  <2>1. \A h \in Hash : Shift[h].domain \in DOMAIN registry => Fee(h) \in Nat
    BY PolicyAssumption, FeeType DEF Init
  <2>2. AbstractFee \in [Hash -> Nat]
    BY <2>1 DEF AbstractFee
  <2> QED
    BY <2>2 DEF Init, DagInit, AbstractPhase, Ledger!SettlementInit
<1>2. TypeOK /\ OrderInv /\ AcceptedInv /\ TotalInv /\ [Next]_vars
         => [Ledger!SettlementNext]_(Ledger!ledgerVars)
  BY SimulationStep
<1> QED
  BY <1>1, <1>2, TypeCorrect, OrderInvariant, AcceptedInvariant,
     TotalInvariant, PTL
  DEF Spec, ImplementsSettlement, Ledger!SettlementSpec
=============================================================================
