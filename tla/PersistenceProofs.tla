------------------------- MODULE PersistenceProofs -------------------------
(***************************************************************************)
(* Theorems about Persistence.tla and EvmPool.tla: nonces, receipts and    *)
(* balances through any number of cycles, snapshots, crashes and restarts, *)
(* for any accounts, shifts, transactions and decay.                       *)
(***************************************************************************)
EXTENDS Persistence, FiniteSums

-----------------------------------------------------------------------------
(* What holds of a state, as operators on its parts, so that it can be     *)
(* said of the memory and of the file                                      *)

(* Keys and entries of EvmPool.db.                                         *)
DbKey == Address \cup {Coinbase, ContractAddress}
DbRecord == [balance : Nat, nonce : Nat]
TxStatus == {"Pending", "Success", "Failed"}

SuccessIn(st) == {t \in DOMAIN st : st[t] = "Success"}
SentBy(a) == {t \in Tx : Transaction[t].from = a}
NonceOf == [t \in Tx |-> Transaction[t].nonce]

(* The transactions S of one sender have the nonces up to n, each once.    *)
Counted(S, n) ==
    /\ {NonceOf[t] : t \in S} = 0..(n - 1)
    /\ Cardinality(S) = n
NoncesMatch(st, nn) ==
    \A a \in Address : Counted(SuccessIn(st) \cap SentBy(a), Get(nn, a))

GainOf == [h \in Hash |-> Shift[h].amount - ShiftFee[h]]
AmountOf == [h \in Hash |-> Shift[h].amount]
ValueOf == [t \in Tx |-> Transaction[t].value]
GasOf == [t \in Tx |-> Transaction[t].gas]
ShiftsTo(a) == {h \in Hash : Shift[h].to = a}
ShiftsFrom(a) == {h \in Hash : Shift[h].from = a}
SentTo(a) == {t \in Tx : Transaction[t].to = a}

(* The sum of f over the members of A that are in B.                       *)
Total(f, A, B) == SumFunctionOnSet(f, A \cap B)

(* What the shifts A, the successes ok and the gas paid by the             *)
(* transactions gas brought account a, and what they cost it.              *)
Earned(a, A, ok) ==
    Total(GainOf, A, ShiftsTo(a))
    + Total(ValueOf, ok, SentTo(a))
Spent(a, A, ok, gas) ==
    Total(AmountOf, A, ShiftsFrom(a))
    + Total(ValueOf, ok, SentBy(a))
    + Total(GasOf, gas, SentBy(a))
Locked(a, n) == IF a = Operator THEN n ELSE 0

(* The balance v of account a is what was seeded and earned, less what was *)
(* spent, what of n is locked, and what decay took.                        *)
Explained(v, a, A, ok, gas, n, lost, seeded) ==
    v + Spent(a, A, ok, gas) + Locked(a, n) + lost = seeded + Earned(a, A, ok)

(* Types of what a snapshot holds.                                         *)
SnapshotType(l) ==
    /\ IsMap(l.field, Account, Nat) /\ IsMap(l.balances, Account, Nat)
    /\ l.applied \in SUBSET Hash /\ l.staked \in {0, GenesisStake}
    /\ IsMap(l.statuses, Tx, TxStatus)
    /\ IsMap(l.evm_nonces, Address, Nat) /\ IsMap(l.db, DbKey, DbRecord)
    /\ l.created \in [Account -> Nat] /\ l.decayed \in [Account -> Nat]
    /\ l.gas_paid \in SUBSET Tx /\ l.torn \in BOOLEAN

(* Who paid for gas has been decided.                                      *)
Decided(gas, st) == \A t \in gas : t \in DOMAIN st /\ st[t] # "Pending"

(* A snapshot that is not torn explains every holder's balance.            *)
SnapshotExplained(l) ==
    ~l.torn =>
        /\ DOMAIN l.balances \subseteq DOMAIN l.field
        /\ \A a \in Holder :
              Explained(Get(l.field, a), a, l.applied, SuccessIn(l.statuses),
                        l.gas_paid, l.staked, l.decayed[a], l.created[a])

-----------------------------------------------------------------------------
(* The inductive invariants *)

MapsOK ==
    /\ IsMap(field, Account, Nat) /\ IsMap(balances, Account, Nat)
    /\ IsMap(sim, Account, Nat) /\ IsMap(evm_nonces, Address, Nat)
    /\ IsMap(db, DbKey, DbRecord) /\ IsMap(statuses, Tx, TxStatus)
SetsOK ==
    /\ applied \in SUBSET Hash /\ settling \in SUBSET Hash
    /\ gas_paid \in SUBSET Tx /\ touched \in SUBSET Address
    /\ evm_pending \in Seq(Tx)
    /\ created \in [Account -> Nat] /\ decayed \in [Account -> Nat]
ScalarsOK ==
    /\ phase \in Stage /\ evm_stage \in {"before", "in", "past"}
    /\ up \in BOOLEAN /\ torn \in BOOLEAN
    /\ staked \in {0, GenesisStake} /\ cycles \in 0..MaxCycles
    /\ fee = ShiftFee /\ synthesis_tick \in Nat

(* Where the cycle is and where the pool is.                               *)
StageInv ==
    /\ evm_stage = "before" =>
          phase \in {"open", "decayed", "copied", "settling", "settled"}
    /\ evm_stage = "in" => phase = "settled"
    /\ evm_stage = "past" => phase \in {"settled", "charged", "committed"}
    /\ ~up => /\ phase = "open" /\ evm_stage = "before"
              /\ evm_pending = <<>> /\ DOMAIN receipts = {}
              /\ sim = Empty /\ settling = {}

(* While the pool runs, prepare has loaded every address it will meet.     *)
PrepInv ==
    evm_stage = "in" =>
        /\ touched \subseteq DOMAIN db
        /\ \A i \in 1..Len(evm_pending) :
              /\ Transaction[evm_pending[i]].from \in touched
              /\ Transaction[evm_pending[i]].to \in touched \cup {NoAddress}

DiskTyped == disk # NoSnapshot => SnapshotType(disk)
TypeInv == MapsOK /\ SetsOK /\ ScalarsOK /\ StageInv /\ PrepInv /\ DiskTyped

(* What waits is Pending and waits once; what has a receipt or paid for    *)
(* gas is decided.                                                         *)
QueueInv ==
    /\ \A i, j \in 1..Len(evm_pending) :
          i # j => evm_pending[i] # evm_pending[j]
    /\ \A i \in 1..Len(evm_pending) :
          /\ evm_pending[i] \in DOMAIN statuses
          /\ statuses[evm_pending[i]] = "Pending"
    /\ Decided(DOMAIN receipts, statuses) /\ Decided(gas_paid, statuses)
    /\ disk # NoSnapshot => Decided(disk.gas_paid, disk.statuses)

NonceInv ==
    /\ NoncesMatch(statuses, evm_nonces)
    /\ disk # NoSnapshot => NoncesMatch(disk.statuses, disk.evm_nonces)

(* Which copies of the ledger have which accounts, and which shifts are    *)
(* counted.                                                                *)
Simulating == phase \in {"settling", "settled", "charged", "committed"}
DomainInv ==
    up /\ ~torn =>
        /\ phase # "committed" => DOMAIN balances \subseteq DOMAIN field
        /\ phase = "copied" => DOMAIN field \subseteq DOMAIN balances
        /\ Simulating =>
              /\ DOMAIN field \subseteq DOMAIN sim
              /\ \A h \in settling : Shift[h].from \in DOMAIN sim
        /\ phase = "committed" => balances = sim /\ settling \subseteq applied

(* The balance of account a in the cycle: the pool's while it runs.        *)
CurrentOf(a) ==
    IF evm_stage = "in" /\ a \in touched THEN db[a].balance ELSE Get(sim, a)

FieldExplained ==
    \A a \in Holder :
        Explained(Get(field, a), a, applied, SuccessIn(statuses), gas_paid,
                  staked, decayed[a], created[a])
SimExplained ==
    \A a \in Holder :
        Explained(CurrentOf(a), a, applied \cup settling, SuccessIn(statuses),
                  gas_paid, staked, decayed[a], created[a])
BalanceInv ==
    up /\ ~torn =>
        /\ evm_stage = "before" => FieldExplained
        /\ phase = "copied" => \A a \in Account : Get(balances, a) = Get(field, a)
        /\ Simulating => SimExplained
DiskExplained == disk # NoSnapshot => SnapshotExplained(disk)
LedgerInv == DomainInv /\ BalanceInv /\ DiskExplained

-----------------------------------------------------------------------------
(* Sequences, sums and records *)

(* Removing an entry of the queue shifts the ones behind it.               *)
LEMMA RemoveAtEntries ==
    ASSUME NEW T, NEW s \in Seq(T), NEW i \in 1..Len(s)
    PROVE  /\ RemoveAt(s, i) \in Seq(T)
           /\ Len(RemoveAt(s, i)) = Len(s) - 1
           /\ \A j \in 1..(Len(s) - 1) :
                 RemoveAt(s, i)[j] = s[IF j < i THEN j ELSE j + 1]
<1> DEFINE p == SubSeq(s, 1, i - 1)
           q == SubSeq(s, i + 1, Len(s))
<1>1. p \in Seq(T) /\ q \in Seq(T) /\ Len(p) = i - 1 /\ Len(q) = Len(s) - i
  OBVIOUS
<1>2. \A j \in 1..(i - 1) : p[j] = s[j]
  OBVIOUS
<1>3. \A j \in 1..(Len(s) - i) : q[j] = s[i + j]
  OBVIOUS
<1>4. RemoveAt(s, i) = p \o q
  BY DEF RemoveAt
<1> HIDE DEF p, q
<1>5. p \o q \in Seq(T) /\ Len(p \o q) = Len(s) - 1
  BY <1>1
<1>6. ASSUME NEW j \in 1..(Len(s) - 1)
      PROVE  (p \o q)[j] = s[IF j < i THEN j ELSE j + 1]
  <2>1. CASE j < i
    BY <2>1, <1>1, <1>2
  <2>2. CASE ~(j < i)
    <3>1. j - Len(p) \in 1..(Len(s) - i) /\ i + (j - Len(p)) = j + 1
      BY <2>2, <1>1
    <3>2. (p \o q)[j] = q[j - Len(p)]
      BY <2>2, <1>1
    <3> QED
      BY <2>2, <3>1, <3>2, <1>3
  <2> QED
    BY <2>1, <2>2
<1> QED
  BY <1>4, <1>5, <1>6

(* f can be summed over D; W is the part A of D with one member more.      *)
Summable(f, D) == IsFiniteSet(D) /\ \A x \in D : f[x] \in Int
Adds(W, A, x, D) == A \in SUBSET D /\ x \in D \ A /\ W = A \cup {x}
Raises(f, W, A, B, x) ==
    Total(f, W, B) = Total(f, A, B) + (IF x \in B THEN f[x] ELSE 0)

(* A filtered sum is a number.                                             *)
LEMMA TotalType ==
    ASSUME NEW D, NEW f, Summable(f, D), NEW A \in SUBSET D, NEW B
    PROVE  Total(f, A, B) \in Int
<1>1. IsFiniteSet(A \cap B) /\ A \cap B \subseteq D
  BY FS_Subset DEF Summable
<1> QED
  BY <1>1, SumInt DEF Total, Summable

(* One more member adds its term to a filtered sum, if it passes.          *)
LEMMA TotalInsert ==
    ASSUME NEW D, NEW f, Summable(f, D), NEW A, NEW B, NEW x, NEW W,
           Adds(W, A, x, D)
    PROVE  Raises(f, W, A, B, x)
<1> DEFINE S == A \cap B
           n == SumFunctionOnSet(f, S)
<1>1. IsFiniteSet(S) /\ S \subseteq D /\ x \notin S
  BY FS_Subset DEF Summable, Adds
<1>2. n \in Int /\ Total(f, A, B) = n
  BY <1>1, SumInt DEF Total, Summable
<1>3. f[x] \in Int
  BY DEF Summable, Adds
<1>4. CASE x \in B
  <2>1. W \cap B = S \cup {x}
    BY <1>4 DEF Adds
  <2>2. Total(f, W, B) = SumFunctionOnSet(f, S \cup {x})
    BY <2>1 DEF Total
  <2> HIDE DEF S
  <2>3. SumFunctionOnSet(f, S \cup {x}) = f[x] + n
    <3>1. \A y \in S \cup {x} : f[y] \in Int
      BY <1>1 DEF Summable, Adds
    <3> QED
      BY <1>1, <3>1, SumInsert
  <2> HIDE DEF n
  <2> QED
    BY <1>2, <1>3, <1>4, <2>2, <2>3 DEF Raises
<1>5. CASE x \notin B
  <2>1. W \cap B = S
    BY <1>5 DEF Adds
  <2>2. Total(f, W, B) = n
    BY <2>1 DEF Total
  <2> HIDE DEF n
  <2> QED
    BY <1>2, <1>5, <2>2 DEF Raises
<1> QED
  BY <1>4, <1>5

(* Amounts, fees, values and gas are numbers.                              *)
LEMMA Terms ==
    /\ \A h \in Hash : /\ GainOf[h] \in Int /\ AmountOf[h] \in Int
                       /\ GainOf[h] = AmountOf[h] - ShiftFee[h]
                       /\ AmountOf[h] = Shift[h].amount
                       /\ ShiftFee[h] \in Nat /\ Shift[h].amount \in Nat
                       /\ Shift[h].from \in Account /\ Shift[h].to \in Account
    /\ \A t \in Tx : /\ ValueOf[t] \in Int /\ GasOf[t] \in Int
                     /\ ValueOf[t] = Transaction[t].value
                     /\ GasOf[t] = Transaction[t].gas
                     /\ NonceOf[t] = Transaction[t].nonce
                     /\ Transaction[t] \in TransactionRecord
<1>1. \A h \in Hash : Shift[h] \in [from : Account, to : Account, amount : Nat]
  BY NodeAssumption
<1>2. \A h \in Hash : ShiftFee[h] \in Nat
  BY NodeAssumption
<1>3. \A t \in Tx : Transaction[t] \in TransactionRecord
  BY EvmAssumption
<1> QED
  BY <1>1, <1>2, <1>3
  DEF GainOf, AmountOf, ValueOf, GasOf, NonceOf, TransactionRecord

(* Shifts and transactions can be summed.                                  *)
LEMMA Sums ==
    /\ Summable(GainOf, Hash) /\ Summable(AmountOf, Hash)
    /\ Summable(ValueOf, Tx) /\ Summable(GasOf, Tx)
BY Terms, NodeAssumption, EvmAssumption DEF Summable

(* The totals are numbers.                                                 *)
LEMMA TotalsType ==
    ASSUME NEW a, NEW A \in SUBSET Hash, NEW ok \in SUBSET Tx,
           NEW gas \in SUBSET Tx
    PROVE  /\ Total(GainOf, A, ShiftsTo(a)) \in Int
           /\ Total(AmountOf, A, ShiftsFrom(a)) \in Int
           /\ Total(ValueOf, ok, SentTo(a)) \in Int
           /\ Total(ValueOf, ok, SentBy(a)) \in Int
           /\ Total(GasOf, gas, SentBy(a)) \in Int
           /\ Earned(a, A, ok) \in Int /\ Spent(a, A, ok, gas) \in Int
<1>1. /\ Total(GainOf, A, ShiftsTo(a)) \in Int
      /\ Total(AmountOf, A, ShiftsFrom(a)) \in Int
      /\ Total(ValueOf, ok, SentTo(a)) \in Int
      /\ Total(ValueOf, ok, SentBy(a)) \in Int
      /\ Total(GasOf, gas, SentBy(a)) \in Int
  BY Sums, TotalType
<1> QED
  BY <1>1 DEF Earned, Spent

(* One more shift.                                                         *)
LEMMA OneMoreShift ==
    ASSUME NEW a, NEW A \in SUBSET Hash, NEW ok \in SUBSET Tx,
           NEW gas \in SUBSET Tx, NEW h \in Hash, NEW W, Adds(W, A, h, Hash)
    PROVE  /\ Earned(a, W, ok)
                 = Earned(a, A, ok) + (IF Shift[h].to = a THEN GainOf[h] ELSE 0)
           /\ Spent(a, W, ok, gas)
                 = Spent(a, A, ok, gas)
                   + (IF Shift[h].from = a THEN AmountOf[h] ELSE 0)
<1>1. /\ h \in ShiftsTo(a) <=> Shift[h].to = a
      /\ h \in ShiftsFrom(a) <=> Shift[h].from = a
  BY DEF ShiftsTo, ShiftsFrom, Adds
<1>2. /\ Raises(GainOf, W, A, ShiftsTo(a), h)
      /\ Raises(AmountOf, W, A, ShiftsFrom(a), h)
  BY Sums, TotalInsert
<1>3. GainOf[h] \in Int /\ AmountOf[h] \in Int
  BY Terms DEF Adds
<1> QED
  BY <1>1, <1>2, <1>3, TotalsType DEF Earned, Spent, Raises

(* What the success of t, and its payment for gas, do to these totals.     *)
CountsSuccess(a, A, W, ok, gas, t) ==
    /\ Earned(a, A, W)
          = Earned(a, A, ok) + (IF Transaction[t].to = a THEN ValueOf[t] ELSE 0)
    /\ Spent(a, A, W, gas)
          = Spent(a, A, ok, gas)
            + (IF Transaction[t].from = a THEN ValueOf[t] ELSE 0)
CountsGas(a, A, ok, W, gas, t) ==
    Spent(a, A, ok, W)
       = Spent(a, A, ok, gas)
         + (IF Transaction[t].from = a THEN GasOf[t] ELSE 0)

(* One more success.                                                       *)
LEMMA OneMoreSuccess ==
    ASSUME NEW a, NEW A \in SUBSET Hash, NEW ok \in SUBSET Tx,
           NEW gas \in SUBSET Tx, NEW t \in Tx, NEW W, Adds(W, ok, t, Tx)
    PROVE  CountsSuccess(a, A, W, ok, gas, t)
<1>1. /\ t \in SentTo(a) <=> Transaction[t].to = a
      /\ t \in SentBy(a) <=> Transaction[t].from = a
  BY DEF SentTo, SentBy, Adds
<1>2. /\ Raises(ValueOf, W, ok, SentTo(a), t)
      /\ Raises(ValueOf, W, ok, SentBy(a), t)
  BY Sums, TotalInsert
<1>3. ValueOf[t] \in Int
  BY Terms DEF Adds
<1>4. /\ Total(GainOf, A, ShiftsTo(a)) \in Int
      /\ Total(AmountOf, A, ShiftsFrom(a)) \in Int
      /\ Total(ValueOf, ok, SentTo(a)) \in Int
      /\ Total(ValueOf, ok, SentBy(a)) \in Int
      /\ Total(GasOf, gas, SentBy(a)) \in Int
  BY TotalsType
<1>5. Earned(a, A, W)
         = Earned(a, A, ok) + (IF Transaction[t].to = a THEN ValueOf[t] ELSE 0)
  BY <1>1, <1>2, <1>3, <1>4 DEF Earned, Raises
<1>6. Spent(a, A, W, gas)
         = Spent(a, A, ok, gas)
           + (IF Transaction[t].from = a THEN ValueOf[t] ELSE 0)
  BY <1>1, <1>2, <1>3, <1>4 DEF Spent, Raises
<1> QED
  BY <1>5, <1>6 DEF CountsSuccess

(* One more transaction that paid for gas.                                 *)
LEMMA OneMorePayer ==
    ASSUME NEW a, NEW A \in SUBSET Hash, NEW ok \in SUBSET Tx,
           NEW gas \in SUBSET Tx, NEW t \in Tx, NEW W, Adds(W, gas, t, Tx)
    PROVE  CountsGas(a, A, ok, W, gas, t)
<1>1. t \in SentBy(a) <=> Transaction[t].from = a
  BY DEF SentBy, Adds
<1>2. Raises(GasOf, W, gas, SentBy(a), t)
  BY Sums, TotalInsert
<1>3. GasOf[t] \in Int
  BY Terms DEF Adds
<1> QED
  BY <1>1, <1>2, <1>3, TotalsType DEF Spent, Raises, CountsGas

-----------------------------------------------------------------------------
(* What the steps of a cycle make of balances *)

(* A settled shift moves its amount, less the fee.                         *)
LEMMA MovedBalances ==
    ASSUME fee = ShiftFee, NEW m, IsMap(m, Account, Nat), NEW h \in Hash,
           fee[h] <= Shift[h].amount, Get(m, Shift[h].from) >= Shift[h].amount
    PROVE  /\ IsMap(Moved(m, h), Account, Nat)
           /\ DOMAIN Moved(m, h)
                 = DOMAIN m \cup {Shift[h].from, Shift[h].to}
           /\ \A a : Get(Moved(m, h), a)
                 = (Get(m, a) - (IF Shift[h].from = a THEN AmountOf[h] ELSE 0))
                   + (IF Shift[h].to = a THEN GainOf[h] ELSE 0)
<1> DEFINE s == Shift[h]
           left == Get(m, s.from) - s.amount
           paid == Put(m, s.from, left)
           got == Get(paid, s.to) + (s.amount - fee[h])
<1>1. /\ s.from \in Account /\ s.to \in Account /\ s.amount \in Nat
      /\ fee[h] \in Nat /\ AmountOf[h] = s.amount /\ GainOf[h] = s.amount - fee[h]
  BY Terms
<1>2. \A a : Get(m, a) \in Nat
  BY GetType
<1>3. left \in Nat
  BY <1>1, <1>2
<1>4. IsMap(paid, Account, Nat)
  BY <1>1, <1>3, PutType
<1>5. \A a : Get(paid, a) \in Nat
  BY <1>4, GetType
<1>6. got \in Nat
  BY <1>1, <1>5
<1>7. Moved(m, h) = Put(paid, s.to, got)
  BY DEF Moved
<1>8. IsMap(Moved(m, h), Account, Nat)
  <2> HIDE DEF paid, got, s
  <2> QED
    BY <1>1, <1>4, <1>6, <1>7, PutType
<1>9. DOMAIN Moved(m, h) = DOMAIN m \cup {s.from, s.to}
  BY <1>7 DEF Put
<1>10. ASSUME NEW a
       PROVE  Get(Moved(m, h), a)
                 = (Get(m, a) - (IF s.from = a THEN AmountOf[h] ELSE 0))
                   + (IF s.to = a THEN GainOf[h] ELSE 0)
  <2>1. Get(Moved(m, h), a) = IF a = s.to THEN got ELSE Get(paid, a)
    BY <1>7, GetPut
  <2>2. \A b : Get(paid, b) = IF b = s.from THEN left ELSE Get(m, b)
    BY GetPut
  <2> HIDE DEF paid, s
  <2> QED
    BY <2>1, <2>2, <1>1, <1>2
<1> QED
  BY <1>8, <1>9, <1>10

(* What a sender owes is a number.                                         *)
LEMMA DebtType ==
    ASSUME fee = ShiftFee, settling \in SUBSET Hash, NEW a
    PROVE  Debt(a) \in Nat
<1> DEFINE D == {k \in settling : Shift[k].from = a}
           f == [h \in D |-> fee[h]]
<1>1. IsFiniteSet(D) /\ D \subseteq Hash
  BY FS_Subset, NodeAssumption
<1>2. \A h \in D : f[h] \in Nat
  BY <1>1, Terms
<1>3. Debt(a) = SumFunctionOnSet(f, D)
  BY DEF Debt, SumFunction
<1> HIDE DEF f, D
<1> QED
  BY <1>1, <1>2, <1>3, SumNat

(* e is the database d after address a was credited n units.               *)
Credited(e, d, a, n) ==
    /\ IsMap(e, DbKey, DbRecord)
    /\ DOMAIN e = DOMAIN d \cup {a}
    /\ \A b \in DOMAIN d :
          e[b].balance = d[b].balance + (IF b = a THEN n ELSE 0)

(* Crediting an address.                                                   *)
LEMMA AddBalances ==
    ASSUME NEW d, IsMap(d, DbKey, DbRecord), NEW a \in DbKey, NEW n \in Nat
    PROVE  Credited(Add(d, a, n), d, a, n)
<1> DEFINE v == IF a \in DOMAIN d THEN [d[a] EXCEPT !.balance = @ + n]
                ELSE [balance |-> n, nonce |-> 0]
<1>1. \A b \in DOMAIN d : /\ d[b] \in DbRecord /\ d[b].balance \in Nat
                          /\ d[b].nonce \in Nat
  BY DEF IsMap, DbRecord
<1>2. v \in DbRecord
  BY <1>1 DEF DbRecord
<1>3. a \in DOMAIN d => v.balance = d[a].balance + n
  BY <1>1 DEF DbRecord
<1>4. Add(d, a, n) = Put(d, a, v)
  BY DEF Add
<1> HIDE DEF v
<1>5. IsMap(Put(d, a, v), DbKey, DbRecord)
  BY <1>2, PutType
<1>6. /\ DOMAIN Put(d, a, v) = DOMAIN d \cup {a}
      /\ \A b \in DOMAIN d : Put(d, a, v)[b] = IF b = a THEN v ELSE d[b]
  BY DEF Put
<1> QED
  BY <1>1, <1>3, <1>4, <1>5, <1>6 DEF Credited

(* Executing a transaction of a loaded sender takes gas and value from it, *)
(* and gives the value to the recipient.                                   *)
LEMMA ExecutedBalances ==
    ASSUME IsMap(db, DbKey, DbRecord), NEW t \in Tx, Executable(t),
           Transaction[t].from \in DOMAIN db
    PROVE  /\ IsMap(Executed(t), DbKey, DbRecord)
           /\ DOMAIN db \subseteq DOMAIN Executed(t)
           /\ \A a \in DOMAIN db \cap Holder :
                 Executed(t)[a].balance
                   = (db[a].balance
                      - (IF Transaction[t].from = a
                         THEN GasOf[t] + (IF Transaction[t].reverts THEN 0
                                          ELSE ValueOf[t])
                         ELSE 0))
                     + (IF Transaction[t].to = a /\ ~Transaction[t].reverts
                        THEN ValueOf[t] ELSE 0)
<1> DEFINE x == Transaction[t]
           value == IF x.reverts THEN 0 ELSE x.value
           dest == IF x.to = NoAddress THEN ContractAddress ELSE x.to
           r == [balance |-> db[x.from].balance - (x.gas + value),
                 nonce |-> db[x.from].nonce + 1]
           paid == [db EXCEPT ![x.from] = r]
           moved == Add(paid, dest, value)
<1>1. /\ x.from \in Address /\ x.to \in Address \cup {NoAddress}
      /\ x.value \in Nat /\ x.gas \in Nat /\ x.cap \in Nat
      /\ x.reverts \in BOOLEAN /\ x.gas <= x.cap
      /\ ValueOf[t] = x.value /\ GasOf[t] = x.gas
  BY Terms, EvmAssumption DEF TransactionRecord
<1>2. \A b \in DOMAIN db : /\ db[b] \in DbRecord /\ db[b].balance \in Nat
                           /\ db[b].nonce \in Nat
                           /\ db[b] = [balance |-> db[b].balance,
                                       nonce |-> db[b].nonce]
  BY DEF IsMap, DbRecord
<1>3. db[x.from].balance >= x.cap + x.value
  BY DEF Executable, InDb
<1>4. value \in Nat /\ value <= x.value
  BY <1>1
<1>5. r \in DbRecord
  BY <1>1, <1>2, <1>3, <1>4 DEF DbRecord
<1>7. IsMap(paid, DbKey, DbRecord) /\ DOMAIN paid = DOMAIN db
  BY <1>5 DEF IsMap
<1>8. \A b \in DOMAIN db : paid[b].balance
          = db[b].balance - (IF x.from = b THEN x.gas + value ELSE 0)
  <2> HIDE DEF value, x
  <2> QED
    BY <1>1, <1>2, <1>4
<1>9. dest \in DbKey /\ Coinbase \in DbKey
  BY <1>1 DEF DbKey
<1>10. Executed(t) = Add(moved, Coinbase, x.gas)
  BY DEF Executed
<1> HIDE DEF paid, value, x, dest, r
<1>11. /\ IsMap(moved, DbKey, DbRecord) /\ DOMAIN moved = DOMAIN db \cup {dest}
       /\ \A b \in DOMAIN db : moved[b].balance
             = paid[b].balance + (IF b = dest THEN value ELSE 0)
  <2>1. Credited(moved, paid, dest, value)
    BY <1>4, <1>7, <1>9, AddBalances
  <2> QED
    BY <2>1, <1>7 DEF Credited
<1> HIDE DEF moved
<1>12. /\ IsMap(Executed(t), DbKey, DbRecord)
       /\ DOMAIN Executed(t) = DOMAIN moved \cup {Coinbase}
       /\ \A b \in DOMAIN moved : Executed(t)[b].balance
             = moved[b].balance + (IF b = Coinbase THEN x.gas ELSE 0)
  <2>1. Credited(Executed(t), moved, Coinbase, x.gas)
    BY <1>1, <1>9, <1>10, <1>11, AddBalances
  <2> QED
    BY <2>1 DEF Credited
<1>13. ASSUME NEW a \in DOMAIN db \cap Holder
       PROVE  Executed(t)[a].balance
                = (db[a].balance
                   - (IF x.from = a
                      THEN GasOf[t] + (IF x.reverts THEN 0 ELSE ValueOf[t])
                      ELSE 0))
                  + (IF x.to = a /\ ~x.reverts THEN ValueOf[t] ELSE 0)
  <2>1. a # Coinbase /\ a # ContractAddress /\ a # NoAddress
    BY NoAddressAssumption DEF Holder
  <2>2. a = dest <=> x.to = a
    BY <2>1 DEF dest
  <2>3. PICK v \in Nat, g \in Nat : v = ValueOf[t] /\ g = GasOf[t] /\ g = x.gas
    BY <1>1
  <2>4. PICK b0 \in Nat : b0 = db[a].balance
    BY <1>2
  <2>5. value = IF x.reverts THEN 0 ELSE v
    BY <1>1, <2>3 DEF value
  <2>6. paid[a].balance = b0 - (IF x.from = a THEN g + value ELSE 0)
    BY <1>8, <2>3, <2>4
  <2>7. moved[a].balance = paid[a].balance + (IF x.to = a THEN value ELSE 0)
    BY <1>11, <2>2
  <2>8. Executed(t)[a].balance = moved[a].balance + 0
    BY <1>11, <1>12, <2>1
  <2> QED
    BY <2>3, <2>4, <2>5, <2>6, <2>7, <2>8
<1> QED
  BY <1>11, <1>12, <1>13 DEF x

(* Decay lowers balances and removes none.                                 *)
LEMMA DecayStep ==
    ASSUME IsMap(field, Account, Nat), LoseDecay
    PROVE  /\ IsMap(field', Account, Nat) /\ DOMAIN field' = DOMAIN field
           /\ \A a : /\ Get(field, a) \in Nat /\ Get(field', a) \in Nat
                     /\ Get(field', a) <= Get(field, a)
<1>1. PICK loss \in [DOMAIN field -> 0..MaxDecay] :
          /\ \A a \in DOMAIN field : loss[a] <= field[a]
          /\ field' = [a \in DOMAIN field |-> field[a] - loss[a]]
  BY DEF LoseDecay
<1>2. \A a \in DOMAIN field : loss[a] \in Nat /\ field[a] \in Nat
  BY NodeAssumption DEF IsMap
<1>3. /\ DOMAIN field' = DOMAIN field
      /\ \A a \in DOMAIN field : field'[a] \in Nat /\ field'[a] <= field[a]
  BY <1>1, <1>2
<1>4. IsMap(field', Account, Nat)
  BY <1>1, <1>3 DEF IsMap
<1> QED
  BY <1>2, <1>3, <1>4 DEF Get

-----------------------------------------------------------------------------
(* The steps of a life *)

Working ==
    /\ up = TRUE /\ up' = up /\ disk' = disk /\ staked' = staked
    /\ created' = created /\ torn' = torn
Paused == Working /\ cycles' = cycles /\ decayed' = decayed
EvmFrozen ==
    /\ evm_pending' = evm_pending /\ statuses' = statuses
    /\ evm_nonces' = evm_nonces /\ db' = db /\ receipts' = receipts
    /\ touched' = touched /\ evm_stage' = evm_stage /\ gas_paid' = gas_paid
    /\ synthesis_tick' = synthesis_tick
LedgerFrozen ==
    /\ phase' = phase /\ field' = field /\ balances' = balances
    /\ applied' = applied /\ sim' = sim /\ settling' = settling /\ fee' = fee

Ticks ==
    /\ Working /\ StartCycle /\ phase = "open"
    /\ cycles < MaxCycles /\ cycles' = cycles + 1
    /\ decayed' = [a \in Account |->
                      decayed[a] + (Get(field, a) - Get(field', a))]
Publishes ==
    /\ Paused /\ PublishField /\ evm_stage' = "before" /\ touched' = {}
    /\ evm_pending' = evm_pending /\ statuses' = statuses
    /\ evm_nonces' = evm_nonces /\ db' = db /\ receipts' = receipts
    /\ gas_paid' = gas_paid /\ synthesis_tick' = synthesis_tick

(* Every step is one of these, with what it leaves alone.                  *)
LEMMA LifeSteps ==
    ASSUME StageInv, [Next]_vars
    PROVE  \/ Ticks
           \/ Paused /\ EvmFrozen /\ CopyField
           \/ Paused /\ EvmFrozen /\ BeginSettling
           \/ Paused /\ EvmFrozen /\ \E h \in Hash : Settle(h)
           \/ Paused /\ EvmFrozen /\ EndSettling
           \/ Paused /\ LedgerFrozen /\ EvmPrepare
           \/ Paused /\ LedgerFrozen /\ EvmExecuteNext
           \/ Paused /\ EvmFinish
           \/ Paused /\ EvmFrozen /\ evm_stage = "past" /\ ChargeField
           \/ Paused /\ EvmFrozen /\ CommitLedger
           \/ Publishes
           \/ Paused /\ LedgerFrozen /\ \E t \in Tx : SendRawTransaction(t)
           \/ Save \/ Crash \/ Stop \/ BootFrom(Load)
           \/ UNCHANGED vars
<1>1. CASE Live
  <2>1. Working
    BY <1>1 DEF Live, Working
  <2>2. phase # "open" => Paused
    BY <1>1, <2>1 DEF Live, Paused
  <2>3. CASE StartCycle
    BY <1>1, <2>1, <2>3 DEF Live, Ticks, StartCycle, LoseDecay
  <2>4. ASSUME UNCHANGED evmVars
        PROVE  EvmFrozen
    BY <2>4 DEF EvmFrozen, evmVars, poolVars
  <2>5. ASSUME UNCHANGED ledgerVars
        PROVE  LedgerFrozen
    BY <2>5 DEF LedgerFrozen, ledgerVars
  <2>6. CASE CopyField /\ UNCHANGED evmVars
    BY <2>2, <2>4, <2>6 DEF CopyField
  <2>7. CASE BeginSettling /\ UNCHANGED evmVars
    BY <2>2, <2>4, <2>7 DEF BeginSettling
  <2>8. CASE EndSettling /\ UNCHANGED evmVars
    BY <2>2, <2>4, <2>8 DEF EndSettling
  <2>9. CASE CommitLedger /\ UNCHANGED evmVars
    BY <2>2, <2>4, <2>9 DEF CommitLedger
  <2>10. CASE (\E h \in Hash : Settle(h)) /\ UNCHANGED evmVars
    <3>1. phase = "settling"
      BY <2>10 DEF Settle
    <3> QED
      BY <2>2, <2>4, <2>10, <3>1
  <2>11. CASE EvmPrepare /\ UNCHANGED ledgerVars
    BY <2>2, <2>5, <2>11 DEF EvmPrepare
  <2>12. CASE EvmExecuteNext /\ UNCHANGED ledgerVars
    <3>1. evm_stage = "in"
      BY <2>12 DEF EvmExecuteNext, Execute
    <3> QED
      BY <2>2, <2>5, <2>12, <3>1 DEF StageInv
  <2>13. CASE EvmFinish
    BY <2>2, <2>13 DEF EvmFinish, StageInv
  <2>14. CASE evm_stage = "past" /\ ChargeField /\ UNCHANGED evmVars
    BY <2>2, <2>4, <2>14 DEF ChargeField
  <2>15. CASE /\ PublishField
              /\ evm_stage' = "before" /\ touched' = {}
              /\ UNCHANGED <<evm_pending, statuses, evm_nonces, db, receipts,
                             synthesis_tick, gas_paid>>
    BY <2>2, <2>15 DEF PublishField, Publishes
  <2>16. CycleWithEvm
    BY <1>1 DEF Live
  <2> QED
    BY <2>3, <2>6, <2>7, <2>8, <2>9, <2>10, <2>11, <2>12, <2>13, <2>14, <2>15,
       <2>16
    DEF CycleWithEvm
<1>2. CASE Submit
  BY <1>2 DEF Submit, Paused, Working, LedgerFrozen, ledgerVars, lifeVars
<1>3. CASE Boot
  BY <1>3 DEF Boot
<1>4. CASE BoundReached
  BY <1>4 DEF BoundReached
<1> QED
  BY <1>1, <1>2, <1>3, <1>4 DEF Next

-----------------------------------------------------------------------------
(* Types *)

(* What prepare loads, in terms of the queue.                              *)
LEMMA PrepareStep ==
    ASSUME TypeInv, EvmPrepare
    PROVE  /\ touched' \in SUBSET Address /\ IsMap(db', DbKey, DbRecord)
           /\ touched' \subseteq DOMAIN db'
           /\ \A a \in touched' : db'[a].balance = Get(sim, a)
           /\ \A i \in 1..Len(evm_pending) :
                 /\ Transaction[evm_pending[i]].from \in touched'
                 /\ Transaction[evm_pending[i]].to \in touched' \cup {NoAddress}
<1> DEFINE ends(t) == {Transaction[t].from, Transaction[t].to}
           all == {ends(t) : t \in ToSet(evm_pending)}
           named == (UNION all) \ {NoAddress}
           loaded == [a \in named |->
                        [balance |-> Get(sim, a), nonce |-> Get(evm_nonces, a)]]
<1>1. /\ IsMap(sim, Account, Nat) /\ IsMap(evm_nonces, Address, Nat)
      /\ IsMap(db, DbKey, DbRecord) /\ evm_pending \in Seq(Tx)
  BY DEF TypeInv, MapsOK, SetsOK
<1>2. touched' = named /\ db' = Overwrite(db, loaded)
  BY DEF EvmPrepare
<1>3. /\ \A i \in 1..Len(evm_pending) :
            evm_pending[i] \in ToSet(evm_pending) /\ evm_pending[i] \in Tx
      /\ \A t \in ToSet(evm_pending) : t \in Tx
  BY <1>1 DEF ToSet
<1>4. \A t \in Tx : /\ Transaction[t].from \in Address
                    /\ Transaction[t].to \in Address \cup {NoAddress}
                    /\ Transaction[t].from # NoAddress
  BY Terms, EvmAssumption, NoAddressAssumption DEF TransactionRecord
<1>12. \A a : a \in named <=>
           /\ a # NoAddress
           /\ \E t \in ToSet(evm_pending) :
                 a = Transaction[t].from \/ a = Transaction[t].to
  <2>2. \A e : e \in all <=> \E t \in ToSet(evm_pending) : e = ends(t)
    OBVIOUS
  <2>3. \A t, a : a \in ends(t) <=>
                     (a = Transaction[t].from \/ a = Transaction[t].to)
    OBVIOUS
  <2> HIDE DEF all, ends
  <2>4. \A a : a \in UNION all <=> \E e \in all : a \in e
    OBVIOUS
  <2>5. \A a : (\E e \in all : a \in e) <=>
                 \E t \in ToSet(evm_pending) : a \in ends(t)
    BY <2>2
  <2> QED
    BY <2>3, <2>4, <2>5
<1> HIDE DEF named, all, ends
<1>5. named \in SUBSET Address
  BY <1>3, <1>4, <1>12
<1>6. \A i \in 1..Len(evm_pending) :
          /\ Transaction[evm_pending[i]].from \in named
          /\ Transaction[evm_pending[i]].to \in named \cup {NoAddress}
  BY <1>3, <1>4, <1>12
<1>7. \A a \in named : Get(sim, a) \in Nat /\ Get(evm_nonces, a) \in Nat
  BY <1>1, GetType
<1>8. IsMap(loaded, DbKey, DbRecord)
  BY <1>5, <1>7 DEF IsMap, DbKey, DbRecord
<1>9. IsMap(db', DbKey, DbRecord)
  <2> HIDE DEF loaded
  <2> QED
    BY <1>1, <1>2, <1>8, OverwriteType
<1>10. /\ named \subseteq DOMAIN db'
       /\ \A a \in named : db'[a].balance = Get(sim, a)
  BY <1>2 DEF Overwrite
<1> QED
  BY <1>2, <1>5, <1>6, <1>9, <1>10

(* What executing a transaction leaves.                                    *)
LEMMA ExecuteStep ==
    ASSUME TypeInv, NEW i \in 1..Len(evm_pending), NEW t, t = evm_pending[i],
           Execute(i, evm_pending[i])
    PROVE  /\ t \in Tx /\ evm_stage = "in" /\ phase = "settled"
           /\ Transaction[t].from \in touched
           /\ Transaction[t].to \in touched \cup {NoAddress}
           /\ touched \subseteq DOMAIN db
           /\ IsMap(db', DbKey, DbRecord) /\ DOMAIN db \subseteq DOMAIN db'
           /\ IsMap(statuses', Tx, TxStatus)
           /\ IsMap(evm_nonces', Address, Nat)
           /\ gas_paid' \in SUBSET Tx
           /\ evm_pending' \in Seq(Tx)
           /\ Len(evm_pending') = Len(evm_pending) - 1
           /\ \A j \in 1..Len(evm_pending') :
                 evm_pending'[j] = evm_pending[IF j < i THEN j ELSE j + 1]
           /\ touched' = touched /\ evm_stage' = evm_stage
           /\ synthesis_tick' = synthesis_tick
<1>1. /\ evm_pending \in Seq(Tx) /\ IsMap(db, DbKey, DbRecord)
      /\ IsMap(statuses, Tx, TxStatus) /\ IsMap(evm_nonces, Address, Nat)
      /\ gas_paid \in SUBSET Tx
  BY DEF TypeInv, MapsOK, SetsOK
<1>2. t \in Tx
  BY <1>1
<1>3. Execute(i, t)
  BY DEF Execute
<1>4. evm_stage = "in" /\ evm_pending' = RemoveAt(evm_pending, i)
  BY DEF Execute
<1>5. /\ phase = "settled" /\ touched \subseteq DOMAIN db
      /\ Transaction[t].from \in touched
      /\ Transaction[t].to \in touched \cup {NoAddress}
  BY <1>4 DEF TypeInv, StageInv, PrepInv
<1>6. /\ evm_pending' \in Seq(Tx) /\ Len(evm_pending') = Len(evm_pending) - 1
      /\ \A j \in 1..(Len(evm_pending) - 1) :
            evm_pending'[j] = evm_pending[IF j < i THEN j ELSE j + 1]
  BY <1>1, <1>4, RemoveAtEntries
<1>7. IsMap(db', DbKey, DbRecord) /\ DOMAIN db \subseteq DOMAIN db'
  <2>1. CASE Runs(t)
    <3>1. db' = Executed(t) /\ Executable(t)
      BY <2>1, <1>3 DEF Execute, Runs
    <3> QED
      BY <1>1, <1>2, <1>5, <3>1, ExecutedBalances
  <2>2. CASE ~Runs(t)
    BY <1>1, <1>3, <2>2 DEF Execute
  <2> QED
    BY <2>1, <2>2
<1>8. IsMap(statuses', Tx, TxStatus)
  <2>1. statuses' = [statuses EXCEPT ![t] = Verdict(t, Succeeds(t))]
    BY <1>3 DEF Execute
  <2>2. Verdict(t, Succeeds(t)) \in TxStatus
    BY DEF Verdict, TxStatus
  <2> QED
    BY <1>1, <2>1, <2>2 DEF IsMap
<1>9. IsMap(evm_nonces', Address, Nat)
  <2>1. /\ Transaction[t].from \in Address /\ Transaction[t].nonce \in Nat
        /\ Transaction[t].nonce + 1 \in Nat
    BY <1>2, Terms DEF TransactionRecord
  <2>2. \/ evm_nonces' = Put(evm_nonces, Transaction[t].from,
                             Transaction[t].nonce + 1)
        \/ evm_nonces' = evm_nonces
    BY <1>3 DEF Execute
  <2> QED
    BY <1>1, <2>1, <2>2, PutType
<1>10. gas_paid' \in SUBSET Tx
  BY <1>1, <1>2, <1>3 DEF Execute
<1>11. /\ touched' = touched /\ evm_stage' = evm_stage
       /\ synthesis_tick' = synthesis_tick
  BY <1>3 DEF Execute
<1> QED
  BY <1>2, <1>4, <1>5, <1>6, <1>7, <1>8, <1>9, <1>10, <1>11

(* The empty maps are maps, and the loaded state is typed.                 *)
LEMMA EmptyMaps ==
    /\ IsMap(Empty, Account, Nat) /\ IsMap(Empty, Address, Nat)
    /\ IsMap([t \in {} |-> "Pending"], Tx, TxStatus)
    /\ IsMap([a \in {} |-> NoAccount], DbKey, DbRecord)
    /\ [a \in Account |-> 0] \in [Account -> Nat]
BY DEF IsMap, Empty

(* What start-up loads is typed.                                           *)
LEMMA LoadType ==
    ASSUME DiskTyped
    PROVE  SnapshotType(Load)
<1>1. SnapshotType(Fresh)
  BY EmptyMaps DEF SnapshotType, Fresh
<1> QED
  BY <1>1 DEF DiskTyped, Load

(* What is written to the file is typed.                                   *)
LEMMA SnapshotIsTyped ==
    ASSUME MapsOK, SetsOK, ScalarsOK
    PROVE  SnapshotType(Snapshot)
BY DEF MapsOK, SetsOK, ScalarsOK, SnapshotType, Snapshot, MidCycle

(* Seeding the operator and the pool.                                      *)
LEMMA SeededMap ==
    ASSUME NEW m, IsMap(m, Account, Nat), NEW v \in Nat
    PROVE  /\ IsMap(Seeded(m, v), Account, Nat)
           /\ DOMAIN Seeded(m, v) = DOMAIN m \cup {Operator} \cup Pool
           /\ \A a \in Account : Get(Seeded(m, v), a)
                 = IF a = Operator THEN v
                   ELSE Get(m, a) + (IF a \in Pool THEN PoolSeed ELSE 0)
<1>1. \A a : Get(m, a) \in Nat
  BY GetType
<1>2. DOMAIN m \cup {Operator} \cup Pool \subseteq Account /\ PoolSeed \in Nat
  BY NodeAssumption DEF IsMap
<1>3. \A a \in DOMAIN Seeded(m, v) : Seeded(m, v)[a] \in Nat
  BY <1>1, <1>2 DEF Seeded
<1>4. IsMap(Seeded(m, v), Account, Nat)
  BY <1>2, <1>3 DEF Seeded, IsMap
<1>5. ASSUME NEW a \in Account
      PROVE  Get(Seeded(m, v), a)
                = IF a = Operator THEN v
                  ELSE Get(m, a) + (IF a \in Pool THEN PoolSeed ELSE 0)
  <2>1. CASE a \in DOMAIN m \cup {Operator} \cup Pool
    BY <2>1, <1>1, <1>2 DEF Seeded, Get
  <2>2. CASE a \notin DOMAIN m \cup {Operator} \cup Pool
    BY <2>2, <1>2 DEF Seeded, Get
  <2> QED
    BY <2>1, <2>2
<1>6. DOMAIN Seeded(m, v) = DOMAIN m \cup {Operator} \cup Pool
  BY DEF Seeded
<1> QED
  BY <1>4, <1>5, <1>6

(* What start-up makes of a loaded state.                                  *)
LEMMA BootStep ==
    ASSUME NEW l, SnapshotType(l), BootFrom(l)
    PROVE  /\ IsMap(field', Account, Nat) /\ IsMap(balances', Account, Nat)
           /\ DOMAIN field' = DOMAIN l.field \cup {Operator} \cup Pool
           /\ DOMAIN balances' = DOMAIN l.balances \cup {Operator} \cup Pool
           /\ staked' \in {0, GenesisStake}
           /\ created' \in [Account -> Nat]
           /\ \A a \in Account \ {Operator} :
                 /\ Get(field', a) = Get(l.field, a)
                                     + (IF a \in Pool THEN PoolSeed ELSE 0)
                 /\ created'[a] = l.created[a]
                                  + (IF a \in Pool THEN PoolSeed ELSE 0)
           /\ Get(field', Operator) + staked'
                 = Get(l.field, Operator) + l.staked + Seeds(l)
           /\ created'[Operator] = l.created[Operator] + Seeds(l)
           /\ Seeds(l) \in Nat
<1> DEFINE v == (Get(l.field, Operator) + Seeds(l)) - NewStake(l)
           u == (Get(l.balances, Operator) + Seeds(l)) - NewStake(l)
           w == Max({0, u})
<1>1. /\ IsMap(l.field, Account, Nat) /\ IsMap(l.balances, Account, Nat)
      /\ l.staked \in {0, GenesisStake} /\ l.created \in [Account -> Nat]
      /\ GenesisStake \in Nat \ {0} /\ PoolSeed \in Nat
      /\ Operator \in Account /\ Operator \notin Pool /\ Pool \subseteq Account
  BY NodeAssumption DEF SnapshotType
<1>2. Get(l.field, Operator) \in Nat /\ Get(l.balances, Operator) \in Nat
  BY <1>1, GetType
<1>3. Seeds(l) \in Nat
  BY <1>1 DEF Seeds
<1>4. /\ NewStake(l) \in Nat /\ l.staked + NewStake(l) \in {0, GenesisStake}
      /\ v \in Nat /\ u \in Int
  BY <1>1, <1>2, <1>3 DEF NewStake, Locks
<1>5. w \in Nat
  <2>1. \E x \in {0, u} : \A y \in {0, u} : x >= y
    BY <1>4
  <2>2. w \in {0, u} /\ \A y \in {0, u} : w >= y
    <3> HIDE DEF u
    <3> QED
      BY <2>1, Zenon DEF Max
  <2> QED
    BY <2>2, <1>4
<1>6. /\ field' = Seeded(l.field, v) /\ balances' = Seeded(l.balances, w)
      /\ staked' = l.staked + NewStake(l)
      /\ created' = [a \in Account |-> l.created[a]
            + (IF a = Operator THEN Seeds(l)
               ELSE IF a \in Pool THEN PoolSeed ELSE 0)]
  BY DEF BootFrom
<1> HIDE DEF w
<1>7. /\ IsMap(field', Account, Nat)
      /\ DOMAIN field' = DOMAIN l.field \cup {Operator} \cup Pool
      /\ \A a \in Account : Get(field', a)
            = IF a = Operator THEN v
              ELSE Get(l.field, a) + (IF a \in Pool THEN PoolSeed ELSE 0)
  <2> HIDE DEF v
  <2>1. /\ IsMap(field', Account, Nat)
        /\ DOMAIN field' = DOMAIN l.field \cup {Operator} \cup Pool
    BY <1>1, <1>4, <1>6, SeededMap
  <2>2. \A a \in Account : Get(Seeded(l.field, v), a)
           = IF a = Operator THEN v
             ELSE Get(l.field, a) + (IF a \in Pool THEN PoolSeed ELSE 0)
    BY <1>1, <1>4, SeededMap
  <2> QED
    BY <2>1, <2>2, <1>6
<1>8. /\ IsMap(balances', Account, Nat)
      /\ DOMAIN balances' = DOMAIN l.balances \cup {Operator} \cup Pool
  BY <1>1, <1>5, <1>6, SeededMap
<1>9. created' \in [Account -> Nat]
  BY <1>1, <1>3, <1>6
<1>10. Get(field', Operator) + staked'
          = Get(l.field, Operator) + l.staked + Seeds(l)
  <2>1. Get(field', Operator) = v
    BY <1>1, <1>7
  <2> QED
    BY <2>1, <1>1, <1>2, <1>3, <1>4, <1>6
<1>11. \A a \in Account \ {Operator} :
          /\ Get(field', a) = Get(l.field, a)
                              + (IF a \in Pool THEN PoolSeed ELSE 0)
          /\ created'[a] = l.created[a]
                           + (IF a \in Pool THEN PoolSeed ELSE 0)
  BY <1>6, <1>7
<1>12. created'[Operator] = l.created[Operator] + Seeds(l)
  BY <1>1, <1>6
<1> QED
  BY <1>3, <1>4, <1>6, <1>7, <1>8, <1>9, <1>10, <1>11, <1>12

(* Every step keeps the types.                                             *)
LEMMA TypeStep ==
    ASSUME TypeInv, [Next]_vars
    PROVE  TypeInv'
<1>1. /\ IsMap(field, Account, Nat) /\ IsMap(balances, Account, Nat)
      /\ IsMap(sim, Account, Nat) /\ IsMap(db, DbKey, DbRecord)
      /\ settling \in SUBSET Hash /\ fee = ShiftFee /\ evm_pending \in Seq(Tx)
      /\ touched \in SUBSET Address
  BY DEF TypeInv, MapsOK, SetsOK, ScalarsOK
<1>2. CASE Ticks
  <2>1. /\ LoseDecay /\ synthesis_tick' = synthesis_tick + 1
        /\ UNCHANGED poolVars
    BY <1>2 DEF Ticks, StartCycle
  <2>2. /\ IsMap(field', Account, Nat)
        /\ \A a : /\ Get(field, a) \in Nat /\ Get(field', a) \in Nat
                  /\ Get(field', a) <= Get(field, a)
    BY <1>1, <2>1, DecayStep
  <2>3. decayed' \in [Account -> Nat]
    <3>1. \A a \in Account :
             decayed[a] + (Get(field, a) - Get(field', a)) \in Nat
      BY <2>2 DEF TypeInv, SetsOK
    <3> QED
      BY <1>2, <3>1 DEF Ticks
  <2>4. MapsOK'
    BY <2>1, <2>2 DEF TypeInv, MapsOK, LoseDecay, poolVars
  <2>5. SetsOK'
    BY <1>2, <2>1, <2>3 DEF TypeInv, SetsOK, LoseDecay, poolVars, Ticks, Working
  <2>6. ScalarsOK'
    BY <1>2, <2>1, NodeAssumption
    DEF TypeInv, ScalarsOK, LoseDecay, poolVars, Ticks, Working, Stage
  <2>7. StageInv' /\ PrepInv'
    BY <1>2, <2>1
    DEF TypeInv, StageInv, PrepInv, LoseDecay, poolVars, Ticks, Working
  <2>8. DiskTyped'
    BY <1>2 DEF TypeInv, DiskTyped, Ticks, Working
  <2> QED
    BY <2>4, <2>5, <2>6, <2>7, <2>8 DEF TypeInv
<1>3. CASE Paused /\ EvmFrozen /\ CopyField
  <2>1. IsMap(balances', Account, Nat)
    BY <1>1, <1>3, OverwriteType DEF CopyField
  <2>2. MapsOK' /\ SetsOK' /\ ScalarsOK'
    BY <1>3, <2>1
    DEF TypeInv, MapsOK, SetsOK, ScalarsOK, CopyField, EvmFrozen, Paused,
        Working, Stage
  <2> QED
    BY <1>3, <2>2
    DEF TypeInv, StageInv, PrepInv, DiskTyped, CopyField, EvmFrozen, Paused,
        Working
<1>4. CASE Paused /\ EvmFrozen /\ BeginSettling
  <2>1. MapsOK' /\ SetsOK' /\ ScalarsOK'
    BY <1>4
    DEF TypeInv, MapsOK, SetsOK, ScalarsOK, BeginSettling, EvmFrozen, Paused,
        Working, Stage
  <2> QED
    BY <1>4, <2>1
    DEF TypeInv, StageInv, PrepInv, DiskTyped, BeginSettling, EvmFrozen,
        Paused, Working
<1>5. CASE Paused /\ EvmFrozen /\ \E h \in Hash : Settle(h)
  <2>1. PICK h \in Hash : Settle(h)
    BY <1>5
  <2>2. IsMap(sim', Account, Nat)
    BY <1>1, <2>1, MovedBalances DEF Settle
  <2>3. MapsOK' /\ SetsOK' /\ ScalarsOK'
    BY <1>5, <2>1, <2>2
    DEF TypeInv, MapsOK, SetsOK, ScalarsOK, Settle, EvmFrozen, Paused,
        Working, Stage
  <2> QED
    BY <1>5, <2>1, <2>3
    DEF TypeInv, StageInv, PrepInv, DiskTyped, Settle, EvmFrozen, Paused,
        Working
<1>6. CASE Paused /\ EvmFrozen /\ EndSettling
  <2>1. MapsOK' /\ SetsOK' /\ ScalarsOK'
    BY <1>6
    DEF TypeInv, MapsOK, SetsOK, ScalarsOK, EndSettling, EvmFrozen, Paused,
        Working, Stage
  <2> QED
    BY <1>6, <2>1
    DEF TypeInv, StageInv, PrepInv, DiskTyped, EndSettling, EvmFrozen,
        Paused, Working
<1>7. CASE Paused /\ LedgerFrozen /\ EvmPrepare
  <2>1. /\ touched' \in SUBSET Address /\ IsMap(db', DbKey, DbRecord)
        /\ touched' \subseteq DOMAIN db'
        /\ \A i \in 1..Len(evm_pending) :
              /\ Transaction[evm_pending[i]].from \in touched'
              /\ Transaction[evm_pending[i]].to \in touched' \cup {NoAddress}
    BY <1>7, PrepareStep
  <2>2. MapsOK' /\ SetsOK' /\ ScalarsOK'
    BY <1>7, <2>1
    DEF TypeInv, MapsOK, SetsOK, ScalarsOK, EvmPrepare, LedgerFrozen, Paused,
        Working
  <2>3. PrepInv'
    BY <1>7, <2>1 DEF PrepInv, EvmPrepare
  <2> QED
    BY <1>7, <2>2, <2>3
    DEF TypeInv, StageInv, DiskTyped, EvmPrepare, LedgerFrozen, Paused, Working
<1>8. CASE Paused /\ LedgerFrozen /\ EvmExecuteNext
  <2>1. PICK i \in 1..Len(evm_pending) : Execute(i, evm_pending[i])
    BY <1>8 DEF EvmExecuteNext
  <2>2. PICK t : t = evm_pending[i]
    OBVIOUS
  <2>3. /\ t \in Tx /\ evm_stage = "in" /\ phase = "settled"
        /\ touched \subseteq DOMAIN db
        /\ IsMap(db', DbKey, DbRecord) /\ DOMAIN db \subseteq DOMAIN db'
        /\ IsMap(statuses', Tx, TxStatus)
        /\ IsMap(evm_nonces', Address, Nat)
        /\ gas_paid' \in SUBSET Tx
        /\ evm_pending' \in Seq(Tx)
        /\ Len(evm_pending') = Len(evm_pending) - 1
        /\ \A j \in 1..Len(evm_pending') :
              evm_pending'[j] = evm_pending[IF j < i THEN j ELSE j + 1]
        /\ touched' = touched /\ evm_stage' = evm_stage
        /\ synthesis_tick' = synthesis_tick
    BY <2>1, <2>2, ExecuteStep
  <2>4. MapsOK' /\ SetsOK' /\ ScalarsOK'
    BY <1>8, <2>3
    DEF TypeInv, MapsOK, SetsOK, ScalarsOK, LedgerFrozen, Paused, Working
  <2>5. PrepInv'
    <3>1. \A k \in 1..Len(evm_pending) :
             /\ Transaction[evm_pending[k]].from \in touched
             /\ Transaction[evm_pending[k]].to \in touched \cup {NoAddress}
      BY <2>3 DEF TypeInv, PrepInv
    <3>2. Len(evm_pending) \in Nat /\ i \in Nat
      BY <1>1
    <3>3. ASSUME NEW j \in 1..Len(evm_pending')
          PROVE  (IF j < i THEN j ELSE j + 1) \in 1..Len(evm_pending)
      BY <2>3, <3>2
    <3>4. \A j \in 1..Len(evm_pending') :
             /\ Transaction[evm_pending'[j]].from \in touched
             /\ Transaction[evm_pending'[j]].to \in touched \cup {NoAddress}
      BY <2>3, <3>1, <3>3
    <3> QED
      BY <2>3, <3>4 DEF PrepInv
  <2> QED
    BY <1>8, <2>3, <2>4, <2>5
    DEF TypeInv, StageInv, DiskTyped, LedgerFrozen, Paused, Working
<1>9. CASE Paused /\ EvmFinish
  <2> DEFINE back == [a \in touched |-> InDb(a).balance]
  <2>1. \A a : InDb(a).balance \in Nat
    BY <1>1 DEF InDb, NoAccount, IsMap, DbRecord
  <2>2. IsMap(back, Account, Nat)
    BY <1>1, <2>1, EvmAssumption DEF IsMap
  <2>3. IsMap(sim', Account, Nat)
    <3>1. sim' = Overwrite(sim, back)
      BY <1>9 DEF EvmFinish
    <3> HIDE DEF back
    <3> QED
      BY <1>1, <2>2, <3>1, OverwriteType
  <2>4. MapsOK' /\ SetsOK' /\ ScalarsOK'
    BY <1>9, <2>3
    DEF TypeInv, MapsOK, SetsOK, ScalarsOK, EvmFinish, Paused, Working
  <2> QED
    BY <1>9, <2>4
    DEF TypeInv, StageInv, PrepInv, DiskTyped, EvmFinish, Paused, Working
<1>10. CASE Paused /\ EvmFrozen /\ evm_stage = "past" /\ ChargeField
  <2> DEFINE senders == {Shift[h].from : h \in settling}
             charged == [a \in senders |->
                           IF Get(field, a) > Debt(a)
                           THEN Get(field, a) - Debt(a) ELSE 0]
  <2>1. \A a \in senders : Debt(a) \in Nat /\ Get(field, a) \in Nat
    BY <1>1, DebtType, GetType
  <2>2. senders \subseteq Account
    BY <1>1, Terms
  <2>3. IsMap(charged, Account, Nat)
    <3> HIDE DEF senders
    <3> QED
      BY <2>1, <2>2 DEF IsMap
  <2>4. field' = field \/ field' = Overwrite(field, charged)
    BY <1>10 DEF ChargeField
  <2>5. IsMap(field', Account, Nat)
    <3> HIDE DEF charged
    <3> QED
      BY <1>1, <2>3, <2>4, OverwriteType
  <2>6. MapsOK' /\ SetsOK' /\ ScalarsOK'
    BY <1>10, <2>5
    DEF TypeInv, MapsOK, SetsOK, ScalarsOK, ChargeField, EvmFrozen, Paused,
        Working, Stage
  <2> QED
    BY <1>10, <2>6
    DEF TypeInv, StageInv, PrepInv, DiskTyped, ChargeField, EvmFrozen, Paused,
        Working
<1>11. CASE Paused /\ EvmFrozen /\ CommitLedger
  <2>1. MapsOK' /\ SetsOK' /\ ScalarsOK'
    BY <1>11
    DEF TypeInv, MapsOK, SetsOK, ScalarsOK, CommitLedger, EvmFrozen, Paused,
        Working, Stage
  <2> QED
    BY <1>11, <2>1
    DEF TypeInv, StageInv, PrepInv, DiskTyped, CommitLedger, EvmFrozen,
        Paused, Working
<1>12. CASE Publishes
  <2>1. IsMap(field', Account, Nat) /\ IsMap(sim', Account, Nat)
    BY <1>1, <1>12, OverwriteType, EmptyMaps DEF Publishes, PublishField, Empty
  <2>2. MapsOK' /\ SetsOK' /\ ScalarsOK'
    BY <1>12, <2>1
    DEF TypeInv, MapsOK, SetsOK, ScalarsOK, PublishField, Publishes, Paused,
        Working, Stage
  <2> QED
    BY <1>12, <2>2
    DEF TypeInv, StageInv, PrepInv, DiskTyped, PublishField, Publishes,
        Paused, Working
<1>13. CASE Paused /\ LedgerFrozen /\ \E t \in Tx : SendRawTransaction(t)
  <2>1. PICK t \in Tx : SendRawTransaction(t)
    BY <1>13
  <2>2. IsMap(statuses', Tx, TxStatus)
    <3>1. IsMap(statuses, Tx, TxStatus) /\ "Pending" \in TxStatus
      BY DEF TypeInv, MapsOK, TxStatus
    <3> QED
      BY <2>1, <3>1, PutType DEF SendRawTransaction
  <2>3. evm_pending' \in Seq(Tx)
    BY <1>1, <2>1 DEF SendRawTransaction
  <2>4. MapsOK' /\ SetsOK' /\ ScalarsOK'
    BY <1>13, <2>1, <2>2, <2>3
    DEF TypeInv, MapsOK, SetsOK, ScalarsOK, SendRawTransaction, LedgerFrozen,
        Paused, Working
  <2> QED
    BY <1>13, <2>1, <2>4
    DEF TypeInv, StageInv, PrepInv, DiskTyped, SendRawTransaction,
        LedgerFrozen, Paused, Working
<1>14. CASE Save
  <2>1. /\ LedgerFrozen /\ EvmFrozen /\ disk' = Snapshot
        /\ up' = up /\ staked' = staked /\ cycles' = cycles
        /\ created' = created /\ decayed' = decayed /\ torn' = torn
    BY <1>14
    DEF Save, LedgerFrozen, EvmFrozen, ledgerVars, evmVars, poolVars
  <2>2. SnapshotType(Snapshot)
    BY SnapshotIsTyped DEF TypeInv
  <2>3. MapsOK' /\ SetsOK' /\ ScalarsOK'
    BY <2>1
    DEF TypeInv, MapsOK, SetsOK, ScalarsOK, LedgerFrozen, EvmFrozen
  <2>4. StageInv' /\ PrepInv'
    BY <2>1 DEF TypeInv, StageInv, PrepInv, LedgerFrozen, EvmFrozen
  <2>5. DiskTyped'
    BY <2>1, <2>2 DEF DiskTyped
  <2> QED
    BY <2>3, <2>4, <2>5 DEF TypeInv
<1>15. CASE Crash \/ Stop
  <2>1. Vanish /\ (disk' = disk \/ disk' = Snapshot)
    BY <1>15 DEF Crash, Stop
  <2>2. MapsOK'
    BY <2>1, EmptyMaps, NodeAssumption DEF Vanish, MapsOK
  <2>3. SetsOK'
    BY <2>1, EmptyMaps DEF Vanish, SetsOK
  <2>4. ScalarsOK'
    BY <1>1, <2>1 DEF Vanish, TypeInv, ScalarsOK, Stage
  <2>5. StageInv' /\ PrepInv'
    BY <2>1 DEF Vanish, StageInv, PrepInv
  <2>6. DiskTyped'
    <3>1. SnapshotType(Snapshot)
      BY SnapshotIsTyped DEF TypeInv
    <3> QED
      BY <2>1, <3>1 DEF TypeInv, DiskTyped
  <2> QED
    BY <2>2, <2>3, <2>4, <2>5, <2>6 DEF TypeInv
<1>16. CASE BootFrom(Load)
  <2>1. PICK l : l = Load
    OBVIOUS
  <2>2. BootFrom(l)
    BY <1>16, <2>1 DEF BootFrom
  <2>3. SnapshotType(l)
    BY <2>1, LoadType DEF TypeInv
  <2>4. /\ IsMap(field', Account, Nat) /\ IsMap(balances', Account, Nat)
        /\ staked' \in {0, GenesisStake} /\ created' \in [Account -> Nat]
    BY <2>2, <2>3, BootStep
  <2>5. MapsOK' /\ SetsOK' /\ ScalarsOK'
    BY <2>2, <2>3, <2>4
    DEF TypeInv, MapsOK, SetsOK, ScalarsOK, BootFrom, SnapshotType
  <2>6. StageInv' /\ PrepInv' /\ DiskTyped'
    BY <2>2 DEF TypeInv, StageInv, PrepInv, DiskTyped, BootFrom
  <2> QED
    BY <2>5, <2>6 DEF TypeInv
<1>17. CASE UNCHANGED vars
  <2>1. LedgerFrozen /\ EvmFrozen
    BY <1>17 DEF vars, LedgerFrozen, EvmFrozen, ledgerVars, evmVars, poolVars
  <2>2. /\ up' = up /\ disk' = disk /\ staked' = staked /\ cycles' = cycles
        /\ created' = created /\ decayed' = decayed /\ torn' = torn
    BY <1>17 DEF vars, lifeVars
  <2>3. MapsOK' /\ SetsOK' /\ ScalarsOK'
    BY <2>1, <2>2
    DEF TypeInv, MapsOK, SetsOK, ScalarsOK, LedgerFrozen, EvmFrozen
  <2> QED
    BY <2>1, <2>2, <2>3
    DEF TypeInv, StageInv, PrepInv, DiskTyped, LedgerFrozen, EvmFrozen
<1>18. StageInv
  BY DEF TypeInv
<1> QED
  BY <1>2, <1>3, <1>4, <1>5, <1>6, <1>7, <1>8, <1>9, <1>10, <1>11, <1>12,
     <1>13, <1>14, <1>15, <1>16, <1>17, <1>18, LifeSteps

(* The first state is typed.                                               *)
LEMMA TypeInit == Init => TypeInv
<1> SUFFICES ASSUME Init PROVE TypeInv
  OBVIOUS
<1>1. MapsOK
  BY EmptyMaps, NodeAssumption
  DEF Init, SettlementInit, EvmInit, MapsOK, Empty
<1>2. SetsOK
  BY EmptyMaps DEF Init, SettlementInit, EvmInit, SetsOK
<1>3. ScalarsOK
  <2>1. phase \in Stage /\ evm_stage \in {"before", "in", "past"}
    BY DEF Init, SettlementInit, EvmInit, Stage
  <2>2. up \in BOOLEAN /\ torn \in BOOLEAN
    BY DEF Init
  <2>3. cycles \in 0..MaxCycles /\ synthesis_tick \in Nat
    BY NodeAssumption DEF Init, EvmInit
  <2>4. staked \in {0, GenesisStake} /\ fee = ShiftFee
    BY DEF Init
  <2> QED
    BY <2>1, <2>2, <2>3, <2>4 DEF ScalarsOK
<1>4. StageInv /\ PrepInv
  BY DEF Init, SettlementInit, EvmInit, StageInv, PrepInv, Empty
<1>5. DiskTyped
  BY DEF Init, DiskTyped
<1> QED
  BY <1>1, <1>2, <1>3, <1>4, <1>5 DEF TypeInv

(* The types hold of every state.                                          *)
LEMMA TypeInvariant == Spec => []TypeInv
<1>1. TypeInv /\ [Next]_vars => TypeInv'
  BY TypeStep
<1> QED
  BY <1>1, TypeInit, PTL DEF Spec

(* The types imply the typing the run checks.                              *)
LEMMA TypeInvTypes == TypeInv => TypeOK
BY DEF TypeInv, MapsOK, SetsOK, ScalarsOK, TypeOK, TxStatus, IsMap, DbRecord

(* Every state of every life of the node is typed, whatever is submitted,  *)
(* executed, saved and restored: no balance of the wave-field, the DAG,    *)
(* the simulation or the EVM database becomes negative.                    *)
THEOREM TypeCorrect == Spec => []TypeOK
BY TypeInvariant, TypeInvTypes, PTL

-----------------------------------------------------------------------------
(* The queue of the pool *)

PoolQuiet ==
    /\ evm_pending' = evm_pending /\ statuses' = statuses
    /\ evm_nonces' = evm_nonces /\ receipts' = receipts
    /\ gas_paid' = gas_paid /\ disk' = disk

(* The steps that reach the pool's tables or the file.                     *)
LEMMA PoolSteps ==
    ASSUME StageInv, [Next]_vars
    PROVE  \/ PoolQuiet
           \/ Paused /\ LedgerFrozen /\ EvmExecuteNext
           \/ Paused /\ LedgerFrozen /\ \E t \in Tx : SendRawTransaction(t)
           \/ Save \/ Crash \/ Stop \/ BootFrom(Load)
<1>1. CASE Ticks
  BY <1>1 DEF Ticks, StartCycle, poolVars, Working, PoolQuiet
<1>2. CASE Paused /\ EvmFrozen
  BY <1>2 DEF Paused, Working, EvmFrozen, PoolQuiet
<1>3. CASE Paused /\ EvmPrepare
  BY <1>3 DEF Paused, Working, EvmPrepare, PoolQuiet
<1>4. CASE Paused /\ EvmFinish
  BY <1>4 DEF Paused, Working, EvmFinish, PoolQuiet
<1>5. CASE Publishes
  BY <1>5 DEF Publishes, Paused, Working, PoolQuiet
<1>6. CASE UNCHANGED vars
  BY <1>6 DEF vars, evmVars, poolVars, lifeVars, PoolQuiet
<1> QED
  BY <1>1, <1>2, <1>3, <1>4, <1>5, <1>6, LifeSteps

(* The transaction that is executed is decided, and leaves the queue.      *)
LEMMA ExecuteQueue ==
    ASSUME TypeInv, QueueInv, NEW i \in 1..Len(evm_pending),
           NEW t, t = evm_pending[i], Execute(i, evm_pending[i])
    PROVE  /\ t \in DOMAIN statuses /\ statuses[t] = "Pending"
           /\ DOMAIN statuses' = DOMAIN statuses
           /\ statuses'[t] = IF Succeeds(t) THEN "Success" ELSE "Failed"
           /\ \A u \in DOMAIN statuses \ {t} : statuses'[u] = statuses[u]
           /\ t \notin DOMAIN receipts /\ t \notin gas_paid
           /\ \/ receipts' = receipts
              \/ /\ DOMAIN receipts' = DOMAIN receipts \cup {t}
                 /\ receipts'[t].block = synthesis_tick - 1
                 /\ \A u \in DOMAIN receipts : receipts'[u] = receipts[u]
           /\ \A j \in 1..Len(evm_pending') :
                 \E k \in 1..Len(evm_pending) \ {i} :
                    evm_pending'[j] = evm_pending[k]
           /\ \A j, k \in 1..Len(evm_pending') :
                 j # k => evm_pending'[j] # evm_pending'[k]
           /\ \A j \in 1..Len(evm_pending') : evm_pending'[j] # t
<1>1. /\ evm_pending' \in Seq(Tx) /\ Len(evm_pending') = Len(evm_pending) - 1
      /\ \A j \in 1..Len(evm_pending') :
            evm_pending'[j] = evm_pending[IF j < i THEN j ELSE j + 1]
  BY ExecuteStep
<1>2. /\ t \in DOMAIN statuses /\ statuses[t] = "Pending"
      /\ \A j, k \in 1..Len(evm_pending) :
            j # k => evm_pending[j] # evm_pending[k]
  BY DEF QueueInv
<1>3. t \notin DOMAIN receipts /\ t \notin gas_paid
  BY <1>2 DEF QueueInv, Decided
<1>4. Execute(i, t)
  BY DEF Execute
<1>5. statuses' = [statuses EXCEPT ![t] = Verdict(t, Succeeds(t))]
  BY <1>4 DEF Execute
<1>6. IsMap(statuses, Tx, TxStatus)
  BY DEF TypeInv, MapsOK
<1>7. /\ DOMAIN statuses' = DOMAIN statuses
      /\ statuses'[t] = IF Succeeds(t) THEN "Success" ELSE "Failed"
      /\ \A u \in DOMAIN statuses \ {t} : statuses'[u] = statuses[u]
  BY <1>2, <1>5, <1>6 DEF Verdict, IsMap
<1>8. \/ receipts' = receipts
      \/ /\ DOMAIN receipts' = DOMAIN receipts \cup {t}
         /\ receipts'[t].block = synthesis_tick - 1
         /\ \A u \in DOMAIN receipts : receipts'[u] = receipts[u]
  BY <1>3, <1>4 DEF Execute, Put, ReceiptBlock
<1>9. evm_pending \in Seq(Tx)
  BY DEF TypeInv, SetsOK
<1>10. Len(evm_pending) \in Nat /\ i \in Nat
  BY <1>9
<1>11. ASSUME NEW j \in 1..Len(evm_pending')
       PROVE  (IF j < i THEN j ELSE j + 1) \in 1..Len(evm_pending) \ {i}
  BY <1>1, <1>10
<1>12. \A j \in 1..Len(evm_pending') :
          \E k \in 1..Len(evm_pending) \ {i} : evm_pending'[j] = evm_pending[k]
  BY <1>1, <1>11
<1>13. \A j \in 1..Len(evm_pending') : evm_pending'[j] # t
  BY <1>2, <1>12
<1>14. ASSUME NEW j \in 1..Len(evm_pending'), NEW k \in 1..Len(evm_pending'),
              j # k
       PROVE  evm_pending'[j] # evm_pending'[k]
  <2>1. PICK x \in 1..Len(evm_pending) : x = IF j < i THEN j ELSE j + 1
    BY <1>11
  <2>2. PICK y \in 1..Len(evm_pending) : y = IF k < i THEN k ELSE k + 1
    BY <1>11
  <2>3. x # y
    BY <1>1, <1>10, <1>14, <2>1, <2>2
  <2>4. evm_pending'[j] = evm_pending[x] /\ evm_pending'[k] = evm_pending[y]
    BY <1>1, <2>1, <2>2
  <2> QED
    BY <1>2, <2>3, <2>4
<1> QED
  BY <1>2, <1>3, <1>7, <1>8, <1>12, <1>13, <1>14

(* Every step keeps the queue and the tables in agreement.                 *)
LEMMA QueueStep ==
    ASSUME TypeInv, QueueInv, [Next]_vars
    PROVE  QueueInv'
<1>1. CASE PoolQuiet
  BY <1>1 DEF PoolQuiet, QueueInv, Decided
<1>2. CASE Paused /\ LedgerFrozen /\ EvmExecuteNext
  <2>1. PICK i \in 1..Len(evm_pending) : Execute(i, evm_pending[i])
    BY <1>2 DEF EvmExecuteNext
  <2>2. PICK t : t = evm_pending[i]
    OBVIOUS
  <2>3. /\ t \in DOMAIN statuses /\ statuses[t] = "Pending"
        /\ DOMAIN statuses' = DOMAIN statuses
        /\ statuses'[t] = IF Succeeds(t) THEN "Success" ELSE "Failed"
        /\ \A u \in DOMAIN statuses \ {t} : statuses'[u] = statuses[u]
        /\ \/ receipts' = receipts
           \/ DOMAIN receipts' = DOMAIN receipts \cup {t}
        /\ \A j \in 1..Len(evm_pending') :
              \E k \in 1..Len(evm_pending) \ {i} :
                 evm_pending'[j] = evm_pending[k]
        /\ \A j, k \in 1..Len(evm_pending') :
              j # k => evm_pending'[j] # evm_pending'[k]
        /\ \A j \in 1..Len(evm_pending') : evm_pending'[j] # t
    BY <2>1, <2>2, ExecuteQueue
  <2>4. \A u \in DOMAIN statuses : statuses[u] # "Pending" =>
           u \in DOMAIN statuses' /\ statuses'[u] # "Pending"
    BY <2>3
  <2>5. statuses'[t] # "Pending"
    BY <2>3
  <2>6. \A j \in 1..Len(evm_pending') :
           /\ evm_pending'[j] \in DOMAIN statuses'
           /\ statuses'[evm_pending'[j]] = "Pending"
    BY <2>3 DEF QueueInv
  <2>7. gas_paid' \subseteq gas_paid \cup {t}
    BY <2>1, <2>2 DEF Execute
  <2>8. Decided(DOMAIN receipts', statuses') /\ Decided(gas_paid', statuses')
    BY <2>3, <2>4, <2>5, <2>7 DEF QueueInv, Decided
  <2>9. disk' # NoSnapshot => Decided(disk'.gas_paid, disk'.statuses)
    BY <1>2 DEF QueueInv, Paused, Working
  <2> QED
    BY <2>3, <2>6, <2>8, <2>9 DEF QueueInv
<1>3. CASE Paused /\ LedgerFrozen /\ \E t \in Tx : SendRawTransaction(t)
  <2>1. PICK t \in Tx : SendRawTransaction(t)
    BY <1>3
  <2>2. /\ t \notin DOMAIN statuses /\ DOMAIN statuses' = DOMAIN statuses \cup {t}
        /\ statuses'[t] = "Pending"
        /\ \A u \in DOMAIN statuses : statuses'[u] = statuses[u]
        /\ receipts' = receipts /\ gas_paid' = gas_paid
    BY <2>1 DEF SendRawTransaction, Put
  <2>3. evm_pending \in Seq(Tx) /\ evm_pending' = Append(evm_pending, t)
    BY <2>1 DEF TypeInv, SetsOK, SendRawTransaction
  <2>4. /\ Len(evm_pending) \in Nat /\ Len(evm_pending') = Len(evm_pending) + 1
        /\ \A j \in 1..Len(evm_pending) : evm_pending'[j] = evm_pending[j]
        /\ evm_pending'[Len(evm_pending) + 1] = t
    BY <2>3
  <2>5. \A j \in 1..Len(evm_pending') :
           j \in 1..Len(evm_pending) \/ j = Len(evm_pending) + 1
    BY <2>4
  <2>6. \A j \in 1..Len(evm_pending) : evm_pending[j] # t
    BY <2>2 DEF QueueInv
  <2>7. \A j, k \in 1..Len(evm_pending') :
           j # k => evm_pending'[j] # evm_pending'[k]
    BY <2>4, <2>5, <2>6 DEF QueueInv
  <2>8. \A j \in 1..Len(evm_pending') :
           /\ evm_pending'[j] \in DOMAIN statuses'
           /\ statuses'[evm_pending'[j]] = "Pending"
    BY <2>2, <2>4, <2>5 DEF QueueInv
  <2>9. Decided(DOMAIN receipts', statuses') /\ Decided(gas_paid', statuses')
    BY <2>2 DEF QueueInv, Decided
  <2>10. disk' # NoSnapshot => Decided(disk'.gas_paid, disk'.statuses)
    BY <1>3 DEF QueueInv, Paused, Working
  <2> QED
    BY <2>7, <2>8, <2>9, <2>10 DEF QueueInv
<1>4. Decided(Snapshot.gas_paid, Snapshot.statuses)
  BY DEF QueueInv, Snapshot
<1>5. CASE Save
  <2>1. EvmFrozen /\ disk' = Snapshot
    BY <1>5 DEF Save, EvmFrozen, evmVars, poolVars
  <2>2. Decided(disk'.gas_paid, disk'.statuses)
    BY <1>4, <2>1
  <2> QED
    BY <2>1, <2>2 DEF EvmFrozen, QueueInv
<1>6. CASE Crash \/ Stop
  <2>1. Vanish /\ (disk' = disk \/ disk' = Snapshot)
    BY <1>6 DEF Crash, Stop
  <2>2. disk' # NoSnapshot => Decided(disk'.gas_paid, disk'.statuses)
    BY <1>4, <2>1 DEF QueueInv
  <2>3. /\ evm_pending' = <<>> /\ DOMAIN receipts' = {} /\ gas_paid' = {}
        /\ Len(evm_pending') = 0
    BY <2>1 DEF Vanish
  <2> QED
    BY <2>2, <2>3 DEF QueueInv, Decided
<1>7. CASE BootFrom(Load)
  <2>1. PICK l : l = Load
    OBVIOUS
  <2>2. BootFrom(l)
    BY <1>7, <2>1 DEF BootFrom
  <2>3. Decided(l.gas_paid, l.statuses)
    BY <2>1 DEF QueueInv, Load, Fresh, Decided
  <2>4. /\ evm_pending = <<>> /\ DOMAIN receipts = {}
    BY <2>2 DEF BootFrom, TypeInv, StageInv
  <2>5. /\ evm_pending' = <<>> /\ DOMAIN receipts' = {}
        /\ gas_paid' = l.gas_paid /\ statuses' = l.statuses /\ disk' = disk
    BY <2>2, <2>4 DEF BootFrom
  <2>6. Len(evm_pending') = 0
    BY <2>5
  <2>7. Decided(gas_paid', statuses') /\ Decided(DOMAIN receipts', statuses')
    BY <2>3, <2>5 DEF Decided
  <2> QED
    BY <2>5, <2>6, <2>7 DEF QueueInv
<1>8. StageInv
  BY DEF TypeInv
<1> QED
  BY <1>1, <1>2, <1>3, <1>5, <1>6, <1>7, <1>8, PoolSteps

(* The queue and the tables agree in every state.                          *)
LEMMA QueueInvariant == Spec => []QueueInv
<1>1. Init => QueueInv
  BY DEF Init, EvmInit, QueueInv, Decided
<1>2. TypeInv /\ QueueInv /\ [Next]_vars => QueueInv'
  BY QueueStep
<1> QED
  BY <1>1, <1>2, TypeInvariant, PTL DEF Spec

-----------------------------------------------------------------------------
(* Nonces *)

(* The next nonce in line counts one more transaction.                     *)
LEMMA CountedInsert ==
    ASSUME NEW S \in SUBSET Tx, NEW t \in Tx \ S, NEW n \in Nat, Counted(S, n),
           NonceOf[t] = n, NEW W, W = S \cup {t}
    PROVE  Counted(W, n + 1)
<1>1. IsFiniteSet(S)
  BY FS_Subset, EvmAssumption
<1>2. Cardinality(W) = n + 1
  BY <1>1, FS_AddElement DEF Counted
<1>3. {NonceOf[u] : u \in S} = 0..(n - 1)
  BY DEF Counted
<1>4. \A k : k \in {NonceOf[u] : u \in W} <=>
               (k \in {NonceOf[u] : u \in S} \/ k = n)
  OBVIOUS
<1>5. \A k : k \in 0..n <=> (k \in 0..(n - 1) \/ k = n)
  OBVIOUS
<1>6. {NonceOf[u] : u \in W} = 0..n
  BY <1>3, <1>4, <1>5
<1>7. (n + 1) - 1 = n
  OBVIOUS
<1> QED
  BY <1>2, <1>6, <1>7 DEF Counted

(* The successes after a transaction was decided.                          *)
LEMMA ExecuteSuccesses ==
    ASSUME TypeInv, QueueInv, NEW i \in 1..Len(evm_pending),
           NEW t, t = evm_pending[i], Execute(i, evm_pending[i])
    PROVE  /\ t \in Tx /\ SuccessIn(statuses) \in SUBSET Tx
           /\ t \notin SuccessIn(statuses)
           /\ Succeeds(t) =>
                 SuccessIn(statuses') = SuccessIn(statuses) \cup {t}
           /\ ~Succeeds(t) => SuccessIn(statuses') = SuccessIn(statuses)
<1>1. /\ t \in DOMAIN statuses /\ statuses[t] = "Pending"
      /\ DOMAIN statuses' = DOMAIN statuses
      /\ statuses'[t] = IF Succeeds(t) THEN "Success" ELSE "Failed"
      /\ \A u \in DOMAIN statuses \ {t} : statuses'[u] = statuses[u]
  BY ExecuteQueue
<1>2. DOMAIN statuses \subseteq Tx
  BY DEF TypeInv, MapsOK, IsMap
<1>3. t \in Tx /\ SuccessIn(statuses) \in SUBSET Tx
  BY <1>1, <1>2 DEF SuccessIn
<1>4. t \notin SuccessIn(statuses)
  BY <1>1 DEF SuccessIn
<1>5. ASSUME Succeeds(t)
      PROVE  SuccessIn(statuses') = SuccessIn(statuses) \cup {t}
  BY <1>1, <1>5 DEF SuccessIn
<1>6. ASSUME ~Succeeds(t)
      PROVE  SuccessIn(statuses') = SuccessIn(statuses)
  BY <1>1, <1>6 DEF SuccessIn
<1> QED
  BY <1>3, <1>4, <1>5, <1>6

(* Every step keeps nonces and successes in agreement.                     *)
LEMMA NonceStep ==
    ASSUME TypeInv, QueueInv, NonceInv, [Next]_vars
    PROVE  NonceInv'
<1>1. CASE PoolQuiet
  BY <1>1 DEF PoolQuiet, NonceInv
<1>2. CASE Paused /\ LedgerFrozen /\ EvmExecuteNext
  <2>1. PICK i \in 1..Len(evm_pending) : Execute(i, evm_pending[i])
    BY <1>2 DEF EvmExecuteNext
  <2>2. PICK t : t = evm_pending[i]
    OBVIOUS
  <2>3. Execute(i, t)
    BY <2>1, <2>2 DEF Execute
  <2>4. /\ t \in Tx /\ SuccessIn(statuses) \in SUBSET Tx
        /\ t \notin SuccessIn(statuses)
        /\ Succeeds(t) => SuccessIn(statuses') = SuccessIn(statuses) \cup {t}
        /\ ~Succeeds(t) => SuccessIn(statuses') = SuccessIn(statuses)
    BY <2>1, <2>2, ExecuteSuccesses
  <2>5. NoncesMatch(statuses', evm_nonces')
    <3>1. CASE ~Succeeds(t)
      <4>1. evm_nonces' = evm_nonces
        BY <2>3, <3>1 DEF Execute
      <4> QED
        BY <2>4, <3>1, <4>1 DEF NonceInv, NoncesMatch
    <3>2. CASE Succeeds(t)
      <4>1. /\ evm_nonces' = Put(evm_nonces, Transaction[t].from,
                                 Transaction[t].nonce + 1)
            /\ Transaction[t].nonce = Get(evm_nonces, Transaction[t].from)
        BY <2>3, <3>2 DEF Execute, Succeeds, Runs, Expected
      <4>2. NonceOf[t] = Transaction[t].nonce /\ Transaction[t].nonce \in Nat
        BY <2>4, Terms DEF TransactionRecord
      <4> SUFFICES ASSUME NEW a \in Address
                   PROVE  Counted(SuccessIn(statuses') \cap SentBy(a),
                                  Get(evm_nonces', a))
        BY DEF NoncesMatch
      <4> DEFINE S == SuccessIn(statuses) \cap SentBy(a)
                 W == SuccessIn(statuses') \cap SentBy(a)
      <4>3. Counted(S, Get(evm_nonces, a)) /\ S \in SUBSET Tx
        BY <2>4 DEF NonceInv, NoncesMatch
      <4>4. Get(evm_nonces', a)
               = IF a = Transaction[t].from THEN Transaction[t].nonce + 1
                 ELSE Get(evm_nonces, a)
        BY <4>1, GetPut
      <4>5. CASE a = Transaction[t].from
        <5>1. W = S \cup {t} /\ t \in Tx \ S
          BY <2>4, <3>2, <4>5 DEF SentBy
        <5>2. Counted(S, Transaction[t].nonce)
          BY <4>1, <4>3, <4>5
        <5> HIDE DEF S, W
        <5>3. Counted(W, Transaction[t].nonce + 1)
          BY <4>2, <4>3, <5>1, <5>2, CountedInsert
        <5> QED
          BY <4>4, <4>5, <5>3 DEF W
      <4>6. CASE a # Transaction[t].from
        <5>1. W = S
          BY <2>4, <3>2, <4>6 DEF SentBy
        <5> QED
          BY <4>3, <4>4, <4>6, <5>1
      <4> QED
        BY <4>5, <4>6
    <3> QED
      BY <3>1, <3>2
  <2>6. disk' = disk
    BY <1>2 DEF Paused, Working
  <2> QED
    BY <2>5, <2>6 DEF NonceInv
<1>3. CASE Paused /\ LedgerFrozen /\ \E t \in Tx : SendRawTransaction(t)
  <2>1. PICK t \in Tx : SendRawTransaction(t)
    BY <1>3
  <2>2. /\ t \notin DOMAIN statuses /\ statuses' = Put(statuses, t, "Pending")
        /\ evm_nonces' = evm_nonces
    BY <2>1 DEF SendRawTransaction
  <2>3. SuccessIn(statuses') = SuccessIn(statuses)
    BY <2>2 DEF SuccessIn, Put
  <2>4. NoncesMatch(statuses', evm_nonces')
    BY <2>2, <2>3 DEF NonceInv, NoncesMatch
  <2> QED
    BY <1>3, <2>4 DEF NonceInv, Paused, Working
<1>4. NoncesMatch(Snapshot.statuses, Snapshot.evm_nonces)
  BY DEF NonceInv, Snapshot
<1>5. CASE Save
  <2>1. EvmFrozen /\ disk' = Snapshot
    BY <1>5 DEF Save, EvmFrozen, evmVars, poolVars
  <2>2. NoncesMatch(disk'.statuses, disk'.evm_nonces)
    BY <1>4, <2>1
  <2>3. statuses' = statuses /\ evm_nonces' = evm_nonces
    BY <2>1 DEF EvmFrozen
  <2> QED
    BY <2>2, <2>3 DEF NonceInv
<1>6. NoncesMatch([t \in {} |-> "Pending"], Empty)
  <2> SUFFICES ASSUME NEW a \in Address, NEW st, st = [t \in {} |-> "Pending"]
               PROVE  Counted(SuccessIn(st) \cap SentBy(a), Get(Empty, a))
    BY DEF NoncesMatch
  <2>1. SuccessIn(st) \cap SentBy(a) = {} /\ Get(Empty, a) = 0
    BY DEF SuccessIn, Get, Empty
  <2>2. Cardinality({}) = 0 /\ {NonceOf[t] : t \in {}} = 0..(0 - 1)
    BY FS_EmptySet
  <2> QED
    BY <2>1, <2>2 DEF Counted
<1>7. CASE Crash \/ Stop
  <2>1. Vanish /\ (disk' = disk \/ disk' = Snapshot)
    BY <1>7 DEF Crash, Stop
  <2>2. disk' # NoSnapshot => NoncesMatch(disk'.statuses, disk'.evm_nonces)
    BY <1>4, <2>1 DEF NonceInv
  <2>3. statuses' = [t \in {} |-> "Pending"] /\ evm_nonces' = Empty
    BY <2>1 DEF Vanish
  <2> QED
    BY <1>6, <2>2, <2>3 DEF NonceInv
<1>8. CASE BootFrom(Load)
  <2>1. PICK l : l = Load
    OBVIOUS
  <2>2. /\ statuses' = l.statuses /\ evm_nonces' = l.evm_nonces
        /\ disk' = disk
    BY <1>8, <2>1 DEF BootFrom
  <2>3. NoncesMatch(l.statuses, l.evm_nonces)
    BY <1>6, <2>1 DEF NonceInv, Load, Fresh
  <2> QED
    BY <2>2, <2>3 DEF NonceInv
<1>9. StageInv
  BY DEF TypeInv
<1> QED
  BY <1>1, <1>2, <1>3, <1>5, <1>7, <1>8, <1>9, PoolSteps

(* The nonces count the successes in the terms of the model.               *)
LEMMA NonceInvCounts == TypeInv /\ NonceInv => NoncesCountSuccesses
<1> SUFFICES ASSUME TypeInv, NonceInv, NEW a \in Address
             PROVE  /\ {Transaction[t].nonce : t \in SucceededOf(a)}
                          = 0..(TransactionCount(a) - 1)
                    /\ Cardinality(SucceededOf(a)) = TransactionCount(a)
  BY DEF NoncesCountSuccesses
<1>1. DOMAIN statuses \subseteq Tx
  BY DEF TypeInv, MapsOK, IsMap
<1>2. SucceededOf(a) = SuccessIn(statuses) \cap SentBy(a)
  BY <1>1 DEF SucceededOf, Succeeded, SuccessIn, SentBy
<1>3. Counted(SucceededOf(a), TransactionCount(a))
  BY <1>2 DEF NonceInv, NoncesMatch, TransactionCount
<1>4. SucceededOf(a) \subseteq Tx
  BY <1>1 DEF SucceededOf, Succeeded
<1>5. {Transaction[t].nonce : t \in SucceededOf(a)}
         = {NonceOf[t] : t \in SucceededOf(a)}
  BY <1>4 DEF NonceOf
<1> QED
  BY <1>3, <1>5 DEF Counted

(* The nonce eth_getTransactionCount reports counts the successful         *)
(* transactions of the sender, and they used the nonces below it once      *)
(* each, through reverts, failures, resubmissions, crashes and restarts    *)
(* from any snapshot, torn ones included.                                  *)
THEOREM NoncesAreCounted == Spec => []NoncesCountSuccesses
<1>1. Init => NonceInv
  <2> SUFFICES ASSUME Init PROVE NonceInv
    OBVIOUS
  <2>1. SuccessIn(statuses) = {} /\ \A a : Get(evm_nonces, a) = 0
    BY DEF Init, EvmInit, SuccessIn, Get
  <2>2. Cardinality({}) = 0 /\ {NonceOf[t] : t \in {}} = 0..(0 - 1)
    BY FS_EmptySet
  <2>3. \A a \in Address :
           Counted(SuccessIn(statuses) \cap SentBy(a), Get(evm_nonces, a))
    <3>1. \A a \in Address : SuccessIn(statuses) \cap SentBy(a) = {}
      BY <2>1
    <3>2. Counted({}, 0)
      BY <2>2 DEF Counted
    <3> QED
      BY <2>1, <3>1, <3>2
  <2> QED
    BY <2>3 DEF NonceInv, NoncesMatch, Init
<1>2. TypeInv /\ QueueInv /\ NonceInv /\ [Next]_vars => NonceInv'
  BY NonceStep
<1> QED
  BY <1>1, <1>2, NonceInvCounts, TypeInvariant, QueueInvariant, PTL DEF Spec

-----------------------------------------------------------------------------
(* Answers to clients *)

(* What a client was told about a block whose cycle is over, or in a       *)
(* receipt, does not change as long as the process lives.                  *)
THEOREM AnswersAreKept == Spec => AnswersStay
<1>1. ASSUME TypeInv, QueueInv, [Next]_vars, up, up'
      PROVE  /\ \A n \in 0..MaxCycles : Sealed(n) => BlockTxs(n)' = BlockTxs(n)
             /\ \A t \in Tx : TransactionReceipt(t) # {} =>
                   TransactionReceipt(t)' = TransactionReceipt(t)
  <2>1. ASSUME receipts' = receipts
        PROVE  \A n \in 0..MaxCycles : BlockTxs(n)' = BlockTxs(n)
    BY <2>1 DEF BlockTxs
  <2>2. CASE receipts' = receipts /\ statuses' = statuses
    BY <2>1, <2>2 DEF TransactionReceipt
  <2>3. CASE Paused /\ LedgerFrozen /\ EvmExecuteNext
    <3>1. PICK i \in 1..Len(evm_pending) : Execute(i, evm_pending[i])
      BY <2>3 DEF EvmExecuteNext
    <3>2. PICK x : x = evm_pending[i]
      OBVIOUS
    <3>3. /\ x \in DOMAIN statuses /\ statuses[x] = "Pending"
          /\ DOMAIN statuses' = DOMAIN statuses
          /\ \A u \in DOMAIN statuses \ {x} : statuses'[u] = statuses[u]
          /\ x \notin DOMAIN receipts
          /\ \/ receipts' = receipts
             \/ /\ DOMAIN receipts' = DOMAIN receipts \cup {x}
                /\ receipts'[x].block = synthesis_tick - 1
                /\ \A u \in DOMAIN receipts : receipts'[u] = receipts[u]
      BY <1>1, <3>1, <3>2, ExecuteQueue
    <3>4. phase = "settled"
      BY <1>1, <3>1, <3>2, ExecuteStep
    <3>5. synthesis_tick \in Nat
      BY <1>1 DEF TypeInv, ScalarsOK
    <3>6. ASSUME NEW n \in 0..MaxCycles, Sealed(n)
          PROVE  BlockTxs(n)' = BlockTxs(n)
      <4>1. n # synthesis_tick - 1
        BY <3>4, <3>6 DEF Sealed
      <4>2. \A t : t \in BlockTxs(n)' <=> t \in BlockTxs(n)
        BY <3>3, <4>1 DEF BlockTxs
      <4> QED
        BY <4>2 DEF BlockTxs
    <3>7. ASSUME NEW t \in Tx, TransactionReceipt(t) # {}
          PROVE  TransactionReceipt(t)' = TransactionReceipt(t)
      <4>1. t # x
        BY <3>3, <3>7 DEF TransactionReceipt
      <4>2. /\ t \in DOMAIN receipts' <=> t \in DOMAIN receipts
            /\ t \in DOMAIN receipts => receipts'[t] = receipts[t]
            /\ t \in DOMAIN statuses' <=> t \in DOMAIN statuses
            /\ t \in DOMAIN statuses => statuses'[t] = statuses[t]
        BY <3>3, <4>1
      <4> QED
        BY <4>2 DEF TransactionReceipt
    <3> QED
      BY <3>6, <3>7
  <2>4. CASE Paused /\ LedgerFrozen /\ \E t \in Tx : SendRawTransaction(t)
    <3>1. PICK x \in Tx : SendRawTransaction(x)
      BY <2>4
    <3>2. /\ x \notin DOMAIN statuses
          /\ DOMAIN statuses' = DOMAIN statuses \cup {x}
          /\ statuses'[x] = "Pending"
          /\ \A u \in DOMAIN statuses : statuses'[u] = statuses[u]
          /\ receipts' = receipts
      BY <3>1 DEF SendRawTransaction, Put
    <3>3. ASSUME NEW t \in Tx
          PROVE  TransactionReceipt(t)' = TransactionReceipt(t)
      BY <3>2 DEF TransactionReceipt
    <3> QED
      BY <2>1, <3>2, <3>3
  <2>5. CASE Save
    BY <2>2, <2>5 DEF Save, evmVars, poolVars
  <2>6. ~Crash /\ ~Stop /\ ~BootFrom(Load)
    BY <1>1 DEF Crash, Stop, Vanish, BootFrom
  <2>7. PoolQuiet => receipts' = receipts /\ statuses' = statuses
    BY DEF PoolQuiet
  <2>8. StageInv
    BY <1>1 DEF TypeInv
  <2> QED
    BY <1>1, <2>2, <2>3, <2>4, <2>5, <2>6, <2>7, <2>8, PoolSteps
<1>2. TypeInv /\ QueueInv /\ [Next]_vars =>
         [up /\ up' =>
            /\ \A n \in 0..MaxCycles : Sealed(n) => BlockTxs(n)' = BlockTxs(n)
            /\ \A t \in Tx : TransactionReceipt(t) # {} =>
                  TransactionReceipt(t)' = TransactionReceipt(t)]_vars
  BY <1>1
<1> QED
  BY <1>2, TypeInvariant, QueueInvariant, PTL DEF Spec, AnswersStay

-----------------------------------------------------------------------------
(* Balances *)

(* A move between balance, what is locked, lost and seeded.                *)
Moves(a, v, n, lost, seeded, v1, n1, lost1, seeded1) ==
    (v1 + Locked(a, n1) + lost1) - seeded1 = (v + Locked(a, n) + lost) - seeded

(* What leaves a balance for decay, or for stake with a seed, is accounted *)
(* for elsewhere in the same sum.                                          *)
LEMMA ExplainedMoves ==
    ASSUME NEW a, NEW A \in SUBSET Hash, NEW ok \in SUBSET Tx,
           NEW gas \in SUBSET Tx, NEW v \in Nat, NEW n \in Nat,
           NEW lost \in Nat, NEW seeded \in Nat, NEW v1 \in Nat,
           NEW n1 \in Nat, NEW lost1 \in Nat, NEW seeded1 \in Nat,
           Explained(v, a, A, ok, gas, n, lost, seeded),
           Moves(a, v, n, lost, seeded, v1, n1, lost1, seeded1)
    PROVE  Explained(v1, a, A, ok, gas, n1, lost1, seeded1)
<1>1. PICK e \in Int, p \in Int : e = Earned(a, A, ok) /\ p = Spent(a, A, ok, gas)
  BY TotalsType
<1>2. PICK k \in Nat, k1 \in Nat : k = Locked(a, n) /\ k1 = Locked(a, n1)
  BY DEF Locked
<1>3. v + p + k + lost = seeded + e
  BY <1>1, <1>2 DEF Explained
<1>4. (v1 + k1 + lost1) - seeded1 = (v + k + lost) - seeded
  BY <1>2 DEF Moves
<1>5. v1 + p + k1 + lost1 = seeded1 + e
  BY <1>3, <1>4
<1> QED
  BY <1>1, <1>2, <1>5 DEF Explained

(* A settled shift explains what it moved.                                 *)
LEMMA ExplainedShift ==
    ASSUME NEW a, NEW A \in SUBSET Hash, NEW ok \in SUBSET Tx,
           NEW gas \in SUBSET Tx, NEW v \in Nat, NEW n \in Nat,
           NEW lost \in Nat, NEW seeded \in Nat, NEW v1 \in Nat,
           NEW h \in Hash, NEW W, Adds(W, A, h, Hash),
           Explained(v, a, A, ok, gas, n, lost, seeded),
           v1 = (v - (IF Shift[h].from = a THEN AmountOf[h] ELSE 0))
                + (IF Shift[h].to = a THEN GainOf[h] ELSE 0)
    PROVE  Explained(v1, a, W, ok, gas, n, lost, seeded)
<1>1. PICK e \in Int, p \in Int : e = Earned(a, A, ok) /\ p = Spent(a, A, ok, gas)
  BY TotalsType
<1>2. PICK g \in Int, m \in Int :
          /\ g = (IF Shift[h].to = a THEN GainOf[h] ELSE 0)
          /\ m = (IF Shift[h].from = a THEN AmountOf[h] ELSE 0)
  BY Terms
<1>3. Earned(a, W, ok) = e + g /\ Spent(a, W, ok, gas) = p + m
  <2>1. /\ Earned(a, W, ok)
              = Earned(a, A, ok) + (IF Shift[h].to = a THEN GainOf[h] ELSE 0)
        /\ Spent(a, W, ok, gas)
              = Spent(a, A, ok, gas)
                + (IF Shift[h].from = a THEN AmountOf[h] ELSE 0)
    BY OneMoreShift
  <2> QED
    BY <1>1, <1>2, <2>1
<1>4. PICK k \in Nat : k = Locked(a, n)
  BY DEF Locked
<1>5. v + p + k + lost = seeded + e
  BY <1>1, <1>4 DEF Explained
<1>6. v1 = (v - m) + g
  BY <1>2
<1>7. v1 + (p + m) + k + lost = seeded + (e + g)
  BY <1>5, <1>6
<1> QED
  BY <1>3, <1>4, <1>7 DEF Explained

(* The balance v of a is v1 after t ran.                                   *)
Pays(v1, v, a, t) ==
    v1 = (v - (IF Transaction[t].from = a
               THEN GasOf[t] + (IF Transaction[t].reverts THEN 0
                                ELSE ValueOf[t])
               ELSE 0))
         + (IF Transaction[t].to = a /\ ~Transaction[t].reverts
            THEN ValueOf[t] ELSE 0)

(* A transaction that ran explains what it moved.                          *)
LEMMA ExplainedExecution ==
    ASSUME NEW a, NEW A \in SUBSET Hash, NEW ok \in SUBSET Tx,
           NEW gas \in SUBSET Tx, NEW v \in Nat, NEW n \in Nat,
           NEW lost \in Nat, NEW seeded \in Nat, NEW v1 \in Nat,
           NEW t \in Tx, NEW ok1 \in SUBSET Tx, NEW gas1,
           Adds(gas1, gas, t, Tx), Adds(ok1, ok, t, Tx) \/ ok1 = ok,
           ok1 = ok <=> Transaction[t].reverts,
           Explained(v, a, A, ok, gas, n, lost, seeded),
           Pays(v1, v, a, t)
    PROVE  Explained(v1, a, A, ok1, gas1, n, lost, seeded)
<1>1. PICK e \in Int, p \in Int : e = Earned(a, A, ok) /\ p = Spent(a, A, ok, gas)
  BY TotalsType
<1>2. PICK k \in Nat : k = Locked(a, n)
  BY DEF Locked
<1>3. v + p + k + lost = seeded + e
  BY <1>1, <1>2 DEF Explained
<1>4. PICK g \in Int, y \in Int :
          /\ g = (IF Transaction[t].from = a THEN GasOf[t] ELSE 0)
          /\ y = ValueOf[t] /\ GasOf[t] \in Int
  BY Terms
<1>5. Spent(a, A, ok, gas1) = p + g
  <2>1. CountsGas(a, A, ok, gas1, gas, t)
    BY OneMorePayer
  <2> QED
    BY <1>1, <1>4, <2>1 DEF CountsGas
<1>6. CASE Transaction[t].reverts
  <2>1. ok1 = ok
    BY <1>6
  <2>2. v1 = v - g
    BY <1>4, <1>6 DEF Pays
  <2>3. v1 + (p + g) + k + lost = seeded + e
    BY <1>3, <2>2
  <2> QED
    BY <1>1, <1>2, <1>5, <2>1, <2>3 DEF Explained
<1>7. CASE ~Transaction[t].reverts
  <2>1. Adds(ok1, ok, t, Tx)
    BY <1>7
  <2>2. gas1 \in SUBSET Tx
    BY DEF Adds
  <2>3. PICK x \in Int, z \in Int :
            /\ x = (IF Transaction[t].to = a THEN y ELSE 0)
            /\ z = (IF Transaction[t].from = a THEN y ELSE 0)
    OBVIOUS
  <2>4. /\ Earned(a, A, ok1) = e + x
        /\ Spent(a, A, ok1, gas1) = (p + g) + z
    <3>1. CountsSuccess(a, A, ok1, ok, gas1, t)
      BY <2>1, <2>2, OneMoreSuccess
    <3> QED
      BY <1>1, <1>4, <1>5, <2>3, <3>1 DEF CountsSuccess
  <2>5. v1 = (v - (g + z)) + x
    BY <1>4, <1>7, <2>3 DEF Pays
  <2>6. v1 + ((p + g) + z) + k + lost = seeded + (e + x)
    BY <1>3, <2>5
  <2> QED
    BY <1>2, <2>4, <2>6 DEF Explained
<1> QED
  BY <1>6, <1>7

(* The snapshot explains the balances when it is not torn.                 *)
LEMMA SnapshotIsExplained ==
    ASSUME TypeInv, DomainInv, BalanceInv, up,
           phase # "settling", evm_stage # "in"
    PROVE  SnapshotExplained(Snapshot)
<1> SUFFICES ASSUME ~torn, ~MidCycle
             PROVE  /\ DOMAIN balances \subseteq DOMAIN field
                    /\ FieldExplained
  BY DEF SnapshotExplained, Snapshot, FieldExplained
<1>1. evm_stage = "before" /\ phase # "committed"
  BY DEF TypeInv, ScalarsOK, StageInv, MidCycle
<1> QED
  BY <1>1 DEF DomainInv, BalanceInv

(* The parts of the sum are of the right types.                            *)
LEMMA LedgerTypes ==
    ASSUME TypeInv
    PROVE  /\ \A a : Get(field, a) \in Nat /\ Get(sim, a) \in Nat
           /\ \A a \in Account : /\ CurrentOf(a) \in Nat /\ created[a] \in Nat
                                 /\ decayed[a] \in Nat
           /\ SuccessIn(statuses) \in SUBSET Tx /\ gas_paid \in SUBSET Tx
           /\ applied \in SUBSET Hash /\ settling \in SUBSET Hash
           /\ applied \cup settling \in SUBSET Hash /\ staked \in Nat
<1>1. \A a : Get(field, a) \in Nat /\ Get(sim, a) \in Nat
  BY GetType DEF TypeInv, MapsOK
<1>2. \A a : evm_stage = "in" /\ a \in touched => db[a].balance \in Nat
  BY DEF TypeInv, MapsOK, PrepInv, IsMap, DbRecord
<1>3. \A a : CurrentOf(a) \in Nat
  BY <1>1, <1>2 DEF CurrentOf
<1>4. SuccessIn(statuses) \in SUBSET Tx
  BY DEF SuccessIn, TypeInv, MapsOK, IsMap
<1>5. staked \in Nat
  BY NodeAssumption DEF TypeInv, ScalarsOK
<1> QED
  BY <1>1, <1>3, <1>4, <1>5 DEF TypeInv, SetsOK

(* Decay is accounted for.                                                 *)
LEMMA TicksLedger ==
    ASSUME TypeInv, DomainInv, BalanceInv, Ticks
    PROVE  DomainInv' /\ BalanceInv'
<1>1. /\ LoseDecay /\ phase = "open" /\ phase' = "decayed"
      /\ balances' = balances /\ applied' = applied
      /\ evm_stage' = evm_stage /\ statuses' = statuses /\ gas_paid' = gas_paid
      /\ up' = up /\ torn' = torn /\ staked' = staked /\ created' = created
      /\ \A a \in Account :
            decayed'[a] = decayed[a] + (Get(field, a) - Get(field', a))
  BY DEF Ticks, StartCycle, LoseDecay, Working, poolVars
<1>2. /\ DOMAIN field' = DOMAIN field
      /\ \A a : /\ Get(field, a) \in Nat /\ Get(field', a) \in Nat
                /\ Get(field', a) <= Get(field, a)
  BY <1>1, DecayStep DEF TypeInv, MapsOK
<1>3. DomainInv'
  BY <1>1, <1>2 DEF DomainInv, Simulating
<1>4. evm_stage = "before"
  BY <1>1 DEF TypeInv, StageInv, ScalarsOK
<1>5. ASSUME up, ~torn
      PROVE  FieldExplained'
  <2>1. FieldExplained
    BY <1>4, <1>5 DEF BalanceInv
  <2> SUFFICES ASSUME NEW a \in Holder
               PROVE  Explained(Get(field', a), a, applied, SuccessIn(statuses),
                                gas_paid, staked, decayed'[a], created[a])
    BY <1>1 DEF FieldExplained
  <2> a \in Account
    BY DEF Holder
  <2>2. Explained(Get(field, a), a, applied, SuccessIn(statuses), gas_paid,
                  staked, decayed[a], created[a])
    BY <2>1 DEF FieldExplained
  <2>3. PICK v \in Nat, v1 \in Nat, lost \in Nat, lost1 \in Nat, seeded \in Nat :
           /\ v = Get(field, a) /\ v1 = Get(field', a) /\ lost = decayed[a]
           /\ lost1 = decayed'[a] /\ seeded = created[a]
           /\ lost1 = lost + (v - v1)
    BY <1>1, <1>2, LedgerTypes
  <2>4. Moves(a, v, staked, lost, seeded, v1, staked, lost1, seeded)
    <3>1. Locked(a, staked) \in Nat
      BY LedgerTypes DEF Locked
    <3> QED
      BY <2>3, <3>1 DEF Moves
  <2>5. Explained(v, a, applied, SuccessIn(statuses), gas_paid, staked, lost,
                  seeded)
    BY <2>2, <2>3
  <2>6. Explained(v1, a, applied, SuccessIn(statuses), gas_paid, staked, lost1,
                  seeded)
    BY <2>4, <2>5, LedgerTypes, ExplainedMoves
  <2> QED
    BY <2>3, <2>6
<1> QED
  BY <1>1, <1>3, <1>5 DEF BalanceInv, Simulating

(* The copy, the start of the apply loop and its end.                      *)
LEMMA CopiesLedger ==
    ASSUME TypeInv, DomainInv, BalanceInv, Paused, EvmFrozen,
           CopyField \/ BeginSettling \/ EndSettling
    PROVE  DomainInv' /\ BalanceInv'
<1>1. /\ up' = up /\ torn' = torn /\ staked' = staked /\ created' = created
      /\ decayed' = decayed /\ evm_stage' = evm_stage /\ statuses' = statuses
      /\ gas_paid' = gas_paid /\ field' = field /\ applied' = applied
      /\ touched' = touched /\ db' = db
  BY DEF Paused, Working, EvmFrozen, CopyField, BeginSettling, EndSettling
<1>2. FieldExplained => FieldExplained'
  BY <1>1 DEF FieldExplained
<1>3. CASE CopyField
  <2>1. phase = "decayed" /\ phase' = "copied"
    BY <1>3 DEF CopyField
  <2>2. CASE ~(up /\ ~torn)
    BY <1>1, <2>2 DEF DomainInv, BalanceInv
  <2>3. CASE up /\ ~torn
    <3>1. DOMAIN balances \subseteq DOMAIN field
      BY <2>1, <2>3 DEF DomainInv
    <3>2. IsMap(field, Account, Nat)
      BY DEF TypeInv, MapsOK
    <3>3. balances' = field
      BY <1>3, <3>1, <3>2, OverwriteAll DEF CopyField
    <3> QED
      BY <1>1, <1>2, <2>1, <2>3, <3>3 DEF DomainInv, BalanceInv, Simulating
  <2> QED
    BY <2>2, <2>3
<1>4. CASE BeginSettling
  <2>1. /\ phase = "copied" /\ phase' = "settling" /\ sim' = balances
        /\ balances' = balances /\ settling' = {}
    BY <1>4 DEF BeginSettling
  <2>2. evm_stage = "before"
    BY <2>1 DEF TypeInv, StageInv, ScalarsOK
  <2>3. ASSUME up, ~torn
        PROVE  SimExplained'
    <3>1. FieldExplained /\ \A a \in Account : Get(balances, a) = Get(field, a)
      BY <2>1, <2>2, <2>3 DEF BalanceInv
    <3>2. \A a \in Account : CurrentOf(a)' = Get(field, a)
      BY <1>1, <2>1, <2>2, <3>1 DEF CurrentOf
    <3>3. applied' \cup settling' = applied
      BY <1>1, <2>1
    <3> QED
      BY <1>1, <3>1, <3>2, <3>3 DEF SimExplained, FieldExplained, Holder
  <2> QED
    BY <1>1, <1>2, <2>1, <2>3 DEF DomainInv, BalanceInv, Simulating
<1>5. CASE EndSettling
  <2>1. /\ phase = "settling" /\ phase' = "settled" /\ sim' = sim
        /\ balances' = balances /\ settling' = settling
    BY <1>5 DEF EndSettling
  <2>2. SimExplained => SimExplained'
    BY <1>1, <2>1 DEF SimExplained, CurrentOf
  <2> QED
    BY <1>1, <1>2, <2>1, <2>2 DEF DomainInv, BalanceInv, Simulating
<1> QED
  BY <1>3, <1>4, <1>5

(* A settled shift is counted with the settled ones.                       *)
LEMMA SettleLedger ==
    ASSUME TypeInv, DomainInv, BalanceInv, Paused, EvmFrozen,
           NEW h \in Hash, Settle(h)
    PROVE  DomainInv' /\ BalanceInv'
<1>1. /\ up' = up /\ torn' = torn /\ staked' = staked /\ created' = created
      /\ decayed' = decayed /\ evm_stage' = evm_stage /\ statuses' = statuses
      /\ gas_paid' = gas_paid /\ field' = field /\ applied' = applied
      /\ balances' = balances /\ phase' = phase /\ phase = "settling"
      /\ sim' = Moved(sim, h) /\ settling' = settling \cup {h}
      /\ h \notin applied \cup settling
  BY DEF Paused, Working, EvmFrozen, Settle
<1>2. evm_stage = "before"
  BY <1>1 DEF TypeInv, StageInv, ScalarsOK
<1>3. /\ DOMAIN sim' = DOMAIN sim \cup {Shift[h].from, Shift[h].to}
      /\ \A a : Get(Moved(sim, h), a)
            = (Get(sim, a) - (IF Shift[h].from = a THEN AmountOf[h] ELSE 0))
              + (IF Shift[h].to = a THEN GainOf[h] ELSE 0)
      /\ IsMap(Moved(sim, h), Account, Nat)
  <2>1. /\ IsMap(sim, Account, Nat) /\ fee = ShiftFee
        /\ fee[h] <= Shift[h].amount /\ Get(sim, Shift[h].from) >= Shift[h].amount
    BY DEF TypeInv, MapsOK, ScalarsOK, Settle
  <2> QED
    BY <1>1, <2>1, MovedBalances
<1>4. DomainInv'
  BY <1>1, <1>3 DEF DomainInv, Simulating
<1>5. FieldExplained => FieldExplained'
  BY <1>1 DEF FieldExplained
<1>6. ASSUME up, ~torn
      PROVE  SimExplained'
  <2> DEFINE A == applied \cup settling
             W == A \cup {h}
  <2>1. SimExplained
    BY <1>1, <1>6 DEF BalanceInv, Simulating
  <2>2. Adds(W, A, h, Hash)
    BY <1>1, LedgerTypes DEF Adds
  <2>3. applied' \cup settling' = W
    BY <1>1
  <2>4. \A a : CurrentOf(a) = Get(sim, a) /\ CurrentOf(a)' = Get(Moved(sim, h), a)
    BY <1>1, <1>2 DEF CurrentOf
  <2>5. \A a \in Holder :
           Explained(Get(sim, a), a, A, SuccessIn(statuses), gas_paid, staked,
                     decayed[a], created[a])
    BY <2>1, <2>4 DEF SimExplained
  <2>6. A \in SUBSET Hash
    BY LedgerTypes
  <2> HIDE DEF A, W
  <2>7. ASSUME NEW a \in Holder
        PROVE  Explained(Get(Moved(sim, h), a), a, W, SuccessIn(statuses),
                         gas_paid, staked, decayed[a], created[a])
    <3> a \in Account
      BY DEF Holder
    <3>1. PICK v \in Nat, v1 \in Nat :
             /\ v = Get(sim, a) /\ v1 = Get(Moved(sim, h), a)
             /\ v1 = (v - (IF Shift[h].from = a THEN AmountOf[h] ELSE 0))
                     + (IF Shift[h].to = a THEN GainOf[h] ELSE 0)
      BY <1>3, LedgerTypes, GetType
    <3>2. Explained(v, a, A, SuccessIn(statuses), gas_paid, staked,
                    decayed[a], created[a])
      BY <2>5, <3>1
    <3>3. Explained(v1, a, W, SuccessIn(statuses), gas_paid, staked,
                    decayed[a], created[a])
      BY <2>2, <2>6, <3>1, <3>2, LedgerTypes, ExplainedShift
    <3> QED
      BY <3>1, <3>3
  <2> QED
    BY <1>1, <2>3, <2>4, <2>7 DEF SimExplained
<1> QED
  BY <1>1, <1>4, <1>5, <1>6 DEF BalanceInv, Simulating

(* The pool's database takes over the simulated balances, and gives them   *)
(* back.                                                                   *)
LEMMA PoolLedger ==
    ASSUME TypeInv, DomainInv, BalanceInv, Paused,
           (LedgerFrozen /\ EvmPrepare) \/ EvmFinish
    PROVE  DomainInv' /\ BalanceInv'
<1>1. /\ up' = up /\ torn' = torn /\ staked' = staked /\ created' = created
      /\ decayed' = decayed /\ statuses' = statuses /\ gas_paid' = gas_paid
      /\ field' = field /\ applied' = applied /\ balances' = balances
      /\ phase' = phase /\ settling' = settling /\ phase = "settled"
      /\ evm_stage' # "before"
  BY DEF Paused, Working, LedgerFrozen, EvmPrepare, EvmFinish, TypeInv, StageInv
<1>2. (\A a \in Account : CurrentOf(a)' = CurrentOf(a))
         /\ DOMAIN sim \subseteq DOMAIN sim'
  <2>1. CASE LedgerFrozen /\ EvmPrepare
    <3>1. \A a \in touched' : db'[a].balance = Get(sim, a)
      BY <2>1, PrepareStep
    <3> QED
      BY <2>1, <3>1 DEF CurrentOf, LedgerFrozen, EvmPrepare
  <2>2. CASE EvmFinish
    <3>1. /\ evm_stage = "in" /\ evm_stage' = "past"
          /\ sim' = Overwrite(sim, [a \in touched |-> InDb(a).balance])
      BY <2>2 DEF EvmFinish
    <3>2. \A a \in touched : InDb(a).balance = db[a].balance
      BY <3>1 DEF TypeInv, PrepInv, InDb
    <3>3. /\ DOMAIN sim' = DOMAIN sim \cup touched
          /\ \A a \in touched : sim'[a] = db[a].balance
          /\ \A a \in DOMAIN sim \ touched : sim'[a] = sim[a]
      BY <3>1, <3>2 DEF Overwrite
    <3> QED
      BY <3>1, <3>3 DEF CurrentOf, Get
  <2> QED
    BY <2>1, <2>2
<1>3. DomainInv'
  BY <1>1, <1>2 DEF DomainInv, Simulating
<1>4. SimExplained => SimExplained'
  BY <1>1, <1>2 DEF SimExplained, Holder
<1> QED
  BY <1>1, <1>3, <1>4 DEF BalanceInv, Simulating

(* An executed transaction is counted with the successes and the payers.   *)
LEMMA ExecuteLedger ==
    ASSUME TypeInv, QueueInv, DomainInv, BalanceInv, Paused, LedgerFrozen,
           EvmExecuteNext
    PROVE  DomainInv' /\ BalanceInv'
<1>1. PICK i \in 1..Len(evm_pending) : Execute(i, evm_pending[i])
  BY DEF EvmExecuteNext
<1>2. PICK t : t = evm_pending[i]
  OBVIOUS
<1>3. /\ t \in Tx /\ evm_stage = "in" /\ phase = "settled"
      /\ Transaction[t].from \in touched
      /\ Transaction[t].to \in touched \cup {NoAddress}
      /\ touched \subseteq DOMAIN db /\ touched' = touched
      /\ evm_stage' = evm_stage
  BY <1>1, <1>2, ExecuteStep
<1>4. /\ up' = up /\ torn' = torn /\ staked' = staked /\ created' = created
      /\ decayed' = decayed /\ field' = field /\ applied' = applied
      /\ balances' = balances /\ phase' = phase /\ settling' = settling
      /\ sim' = sim
  BY DEF Paused, Working, LedgerFrozen
<1>5. DomainInv'
  BY <1>4 DEF DomainInv, Simulating
<1>6. /\ SuccessIn(statuses) \in SUBSET Tx /\ t \notin SuccessIn(statuses)
      /\ Succeeds(t) => SuccessIn(statuses') = SuccessIn(statuses) \cup {t}
      /\ ~Succeeds(t) => SuccessIn(statuses') = SuccessIn(statuses)
  BY <1>1, <1>2, ExecuteSuccesses
<1>7. t \notin gas_paid
  BY <1>1, <1>2, ExecuteQueue
<1>8. Execute(i, t)
  BY <1>1, <1>2 DEF Execute
<1>9. ASSUME up, ~torn
      PROVE  SimExplained'
  <2>1. SimExplained
    BY <1>3, <1>9 DEF BalanceInv, Simulating
  <2>2. CASE ~Runs(t)
    <3>1. /\ db' = db /\ gas_paid' = gas_paid
          /\ SuccessIn(statuses') = SuccessIn(statuses)
      BY <1>6, <1>8, <2>2 DEF Execute, Succeeds
    <3>2. \A a : CurrentOf(a)' = CurrentOf(a)
      BY <1>3, <1>4, <3>1 DEF CurrentOf
    <3> QED
      BY <1>4, <2>1, <3>1, <3>2 DEF SimExplained
  <2>3. CASE Runs(t)
    <3> DEFINE x == Transaction[t]
               ok == SuccessIn(statuses)
               ok1 == SuccessIn(statuses')
    <3>1. /\ db' = Executed(t) /\ gas_paid' = gas_paid \cup {t}
          /\ Executable(t) /\ (Succeeds(t) <=> ~x.reverts)
      BY <1>8, <2>3 DEF Execute, Runs, Succeeds
    <3>2. /\ x.from \in DOMAIN db /\ x.from \in Account /\ x.reverts \in BOOLEAN
          /\ touched \subseteq Account
      BY <1>3, Terms, EvmAssumption DEF TransactionRecord, TypeInv, SetsOK
    <3>3. \A a \in DOMAIN db \cap Holder :
             Executed(t)[a].balance
               = (db[a].balance
                  - (IF Transaction[t].from = a
                     THEN GasOf[t] + (IF Transaction[t].reverts THEN 0
                                      ELSE ValueOf[t])
                     ELSE 0))
                 + (IF Transaction[t].to = a /\ ~Transaction[t].reverts
                    THEN ValueOf[t] ELSE 0)
      BY <1>3, <3>1, <3>2, ExecutedBalances DEF TypeInv, MapsOK
    <3>4. \A a \in Account \ touched : x.from # a /\ x.to # a
      BY <1>3, NoAddressAssumption
    <3>5. Adds(gas_paid', gas_paid, t, Tx)
      BY <1>3, <1>7, <3>1, LedgerTypes DEF Adds
    <3>6. /\ Adds(ok1, ok, t, Tx) \/ ok1 = ok
          /\ ok1 = ok <=> x.reverts
          /\ ok1 \in SUBSET Tx
      BY <1>3, <1>6, <3>1 DEF Adds
    <3> HIDE DEF ok, ok1
    <3>7. ASSUME NEW a \in Holder
          PROVE  Explained(CurrentOf(a)', a, applied \cup settling, ok1,
                           gas_paid', staked, decayed[a], created[a])
      <4> a \in Account
        BY DEF Holder
      <4>1. PICK v \in Nat, A \in SUBSET Hash :
               v = CurrentOf(a) /\ A = applied \cup settling
        BY LedgerTypes
      <4>2. PICK v1 : v1 = CurrentOf(a)'
        OBVIOUS
      <4>3. v1 \in Nat
        <5>1. IsMap(db', DbKey, DbRecord) /\ DOMAIN db \subseteq DOMAIN db'
          BY <1>1, <1>2, ExecuteStep
        <5>2. a \in touched => db'[a].balance \in Nat
          BY <1>3, <5>1 DEF IsMap, DbRecord
        <5> QED
          BY <1>3, <1>4, <4>2, <5>2, LedgerTypes DEF CurrentOf
      <4>4. Explained(v, a, A, ok, gas_paid, staked, decayed[a], created[a])
        BY <2>1, <4>1 DEF SimExplained, ok
      <4>5. Pays(v1, v, a, t)
        <5>1. CASE a \in touched
          <6>1. v = db[a].balance /\ v1 = Executed(t)[a].balance
            BY <1>3, <3>1, <4>1, <4>2, <5>1 DEF CurrentOf
          <6> QED
            BY <1>3, <3>3, <5>1, <6>1 DEF Pays
        <5>2. CASE a \notin touched
          <6>1. v1 = v
            BY <1>3, <1>4, <4>1, <4>2, <5>2 DEF CurrentOf
          <6>2. Transaction[t].from # a /\ Transaction[t].to # a
            BY <3>4, <5>2
          <6> QED
            BY <4>1, <6>1, <6>2 DEF Pays
        <5> QED
          BY <5>1, <5>2
      <4>6. Explained(v1, a, A, ok1, gas_paid', staked, decayed[a], created[a])
        <5>1. ok \in SUBSET Tx
          BY <1>6 DEF ok
        <5>2. /\ gas_paid \in SUBSET Tx /\ staked \in Nat /\ decayed[a] \in Nat
              /\ created[a] \in Nat
          BY LedgerTypes
        <5> QED
          BY <1>3, <3>5, <3>6, <4>3, <4>4, <4>5, <5>1, <5>2, ExplainedExecution
      <4> QED
        BY <4>1, <4>2, <4>6
    <3> QED
      BY <1>4, <3>7 DEF SimExplained, ok1
  <2> QED
    BY <2>2, <2>3
<1> QED
  BY <1>3, <1>4, <1>5, <1>9 DEF BalanceInv, Simulating

(* Fees, the commit to the DAG and the publication in the wave-field.      *)
LEMMA PublishLedger ==
    ASSUME TypeInv, DomainInv, BalanceInv, Paused,
           \/ EvmFrozen /\ evm_stage = "past" /\ ChargeField
           \/ EvmFrozen /\ CommitLedger
           \/ Publishes
    PROVE  DomainInv' /\ BalanceInv'
<1>1. /\ up' = up /\ torn' = torn /\ staked' = staked /\ created' = created
      /\ decayed' = decayed /\ statuses' = statuses /\ gas_paid' = gas_paid
  BY DEF Paused, Working, EvmFrozen, Publishes
<1>2. evm_stage = "past"
  BY DEF TypeInv, StageInv, ScalarsOK, CommitLedger, Publishes, PublishField
<1>3. \A a : CurrentOf(a) = Get(sim, a)
  BY <1>2 DEF CurrentOf
<1>4. CASE EvmFrozen /\ ChargeField
  <2>1. /\ phase = "settled" /\ phase' = "charged" /\ evm_stage' = evm_stage
        /\ balances' = balances /\ applied' = applied /\ sim' = sim
        /\ settling' = settling
    BY <1>4 DEF EvmFrozen, ChargeField
  <2>2. /\ DOMAIN field \subseteq DOMAIN field'
        /\ \A a \in DOMAIN field' :
              a \in DOMAIN field \/ \E h \in settling : a = Shift[h].from
    <3> DEFINE senders == {Shift[h].from : h \in settling}
               charged == [a \in senders |->
                             IF Get(field, a) > Debt(a)
                             THEN Get(field, a) - Debt(a) ELSE 0]
    <3>1. field' = field \/ field' = Overwrite(field, charged)
      BY <1>4 DEF ChargeField
    <3>2. DOMAIN Overwrite(field, charged) = DOMAIN field \cup senders
      BY DEF Overwrite
    <3> QED
      BY <3>1, <3>2
  <2>3. DomainInv'
    BY <1>1, <2>1, <2>2 DEF DomainInv, Simulating
  <2>4. SimExplained => SimExplained'
    BY <1>1, <1>2, <2>1 DEF SimExplained, CurrentOf
  <2> QED
    BY <1>1, <1>2, <2>1, <2>3, <2>4 DEF BalanceInv, Simulating
<1>5. CASE EvmFrozen /\ CommitLedger
  <2>1. /\ phase = "charged" /\ phase' = "committed" /\ evm_stage' = evm_stage
        /\ applied' = applied \cup settling /\ balances' = sim
        /\ field' = field /\ sim' = sim /\ settling' = settling
    BY <1>5 DEF EvmFrozen, CommitLedger
  <2>2. applied' \cup settling' = applied \cup settling
    BY <2>1
  <2>3. DomainInv'
    BY <1>1, <2>1 DEF DomainInv, Simulating
  <2>4. SimExplained => SimExplained'
    BY <1>1, <1>2, <2>1, <2>2 DEF SimExplained, CurrentOf
  <2> QED
    BY <1>1, <1>2, <2>1, <2>3, <2>4 DEF BalanceInv, Simulating
<1>6. CASE Publishes
  <2>1. /\ phase = "committed" /\ phase' = "open" /\ balances' = balances
        /\ field' = Overwrite(field, sim) /\ applied' = applied
    BY <1>6 DEF Publishes, PublishField
  <2>2. ASSUME up, ~torn
        PROVE  /\ DOMAIN balances' \subseteq DOMAIN field'
               /\ FieldExplained'
    <3>1. /\ DOMAIN field \subseteq DOMAIN sim /\ balances = sim
          /\ settling \subseteq applied /\ SimExplained
      BY <2>1, <2>2 DEF DomainInv, BalanceInv, Simulating
    <3>2. IsMap(sim, Account, Nat)
      BY DEF TypeInv, MapsOK
    <3>3. field' = sim
      BY <2>1, <3>1, <3>2, OverwriteAll
    <3>4. applied \cup settling = applied
      BY <3>1
    <3>5. FieldExplained'
      BY <1>1, <1>3, <2>1, <3>1, <3>3, <3>4 DEF FieldExplained, SimExplained
    <3> QED
      BY <2>1, <3>1, <3>3, <3>5
  <2> QED
    BY <1>1, <2>1, <2>2 DEF DomainInv, BalanceInv, Simulating
<1> QED
  BY <1>4, <1>5, <1>6

(* A submission, a save and a stutter leave balances and what explains     *)
(* them alone.                                                             *)
LEMMA FrozenLedger ==
    ASSUME DomainInv, BalanceInv, LedgerFrozen,
           up' = up, torn' = torn, staked' = staked, created' = created,
           decayed' = decayed, gas_paid' = gas_paid, db' = db,
           touched' = touched, evm_stage' = evm_stage,
           SuccessIn(statuses') = SuccessIn(statuses)
    PROVE  DomainInv' /\ BalanceInv'
<1>1. DomainInv'
  BY DEF DomainInv, Simulating, LedgerFrozen
<1>2. (FieldExplained => FieldExplained') /\ (SimExplained => SimExplained')
  BY DEF FieldExplained, SimExplained, CurrentOf, LedgerFrozen
<1> QED
  BY <1>1, <1>2 DEF BalanceInv, Simulating, LedgerFrozen

(* What start-up loads explains its balances.                              *)
LEMMA LoadIsExplained ==
    ASSUME DiskExplained
    PROVE  SnapshotExplained(Load)
<1>1. \A f, B : Total(f, {}, B) = 0
  BY SumEmpty DEF Total
<1>2. \A a : Earned(a, {}, {}) = 0 /\ Spent(a, {}, {}, {}) = 0
  BY <1>1 DEF Earned, Spent
<1>3. SuccessIn([t \in {} |-> "Pending"]) = {}
  BY DEF SuccessIn
<1>4. \A a : Locked(a, 0) = 0
  BY DEF Locked
<1>5. \A a : Explained(0, a, {}, {}, {}, 0, 0, 0)
  BY <1>2, <1>4 DEF Explained
<1>6. \A a : Get(Empty, a) = 0
  BY DEF Get, Empty
<1>7. SnapshotExplained(Fresh)
  BY <1>3, <1>5, <1>6 DEF SnapshotExplained, Fresh, Holder
<1> QED
  BY <1>7 DEF DiskExplained, Load

(* Start-up explains what it seeds and locks.                              *)
LEMMA BootLedger ==
    ASSUME TypeInv, NEW l, SnapshotType(l), SnapshotExplained(l), BootFrom(l)
    PROVE  DomainInv' /\ BalanceInv'
<1>1. /\ DOMAIN field' = DOMAIN l.field \cup {Operator} \cup Pool
      /\ DOMAIN balances' = DOMAIN l.balances \cup {Operator} \cup Pool
      /\ IsMap(field', Account, Nat)
      /\ staked' \in {0, GenesisStake} /\ created' \in [Account -> Nat]
      /\ \A a \in Account \ {Operator} :
            /\ Get(field', a) = Get(l.field, a)
                                + (IF a \in Pool THEN PoolSeed ELSE 0)
            /\ created'[a] = l.created[a]
                             + (IF a \in Pool THEN PoolSeed ELSE 0)
      /\ Get(field', Operator) + staked'
            = Get(l.field, Operator) + l.staked + Seeds(l)
      /\ created'[Operator] = l.created[Operator] + Seeds(l)
      /\ Seeds(l) \in Nat
  BY BootStep
<1>2. /\ ~up /\ phase' = phase /\ evm_stage' = evm_stage /\ torn' = l.torn
      /\ applied' = l.applied /\ statuses' = l.statuses
      /\ gas_paid' = l.gas_paid /\ decayed' = l.decayed
  BY DEF BootFrom
<1>3. phase' = "open" /\ evm_stage' = "before"
  BY <1>2 DEF TypeInv, StageInv
<1>4. /\ IsMap(l.field, Account, Nat) /\ l.created \in [Account -> Nat]
      /\ l.decayed \in [Account -> Nat] /\ l.applied \in SUBSET Hash
      /\ l.gas_paid \in SUBSET Tx /\ l.staked \in Nat /\ staked' \in Nat
      /\ SuccessIn(l.statuses) \in SUBSET Tx
  BY <1>1, NodeAssumption DEF SnapshotType, SuccessIn, IsMap
<1>5. ASSUME ~l.torn
      PROVE  FieldExplained'
  <2> SUFFICES ASSUME NEW a \in Holder
               PROVE  Explained(Get(field', a), a, l.applied,
                                SuccessIn(l.statuses), l.gas_paid, staked',
                                l.decayed[a], created'[a])
    BY <1>2 DEF FieldExplained
  <2> a \in Account
    BY DEF Holder
  <2>1. Explained(Get(l.field, a), a, l.applied, SuccessIn(l.statuses),
                  l.gas_paid, l.staked, l.decayed[a], l.created[a])
    BY <1>5 DEF SnapshotExplained
  <2>2. PICK v \in Nat, v1 \in Nat, lost \in Nat, seeded \in Nat,
             seeded1 \in Nat, n \in Nat, n1 \in Nat :
           /\ v = Get(l.field, a) /\ v1 = Get(field', a)
           /\ lost = l.decayed[a] /\ seeded = l.created[a]
           /\ seeded1 = created'[a] /\ n = l.staked /\ n1 = staked'
    <3>1. Get(l.field, a) \in Nat /\ Get(field', a) \in Nat
      BY <1>1, <1>4, GetType
    <3> QED
      BY <1>1, <1>4, <3>1
  <2>3. Moves(a, v, n, lost, seeded, v1, n1, lost, seeded1)
    <3>1. CASE a = Operator
      <4>1. PICK s \in Nat : s = Seeds(l)
        BY <1>1
      <4>2. v1 + n1 = v + n + s /\ seeded1 = seeded + s
        BY <1>1, <2>2, <3>1, <4>1
      <4>3. Locked(a, n1) = n1 /\ Locked(a, n) = n
        BY <3>1 DEF Locked
      <4> QED
        BY <4>2, <4>3 DEF Moves
    <3>2. CASE a # Operator
      <4>1. PICK s \in Nat : s = IF a \in Pool THEN PoolSeed ELSE 0
        BY NodeAssumption
      <4>2. v1 = v + s /\ seeded1 = seeded + s
        BY <1>1, <2>2, <3>2, <4>1
      <4>3. Locked(a, n1) = 0 /\ Locked(a, n) = 0
        BY <3>2 DEF Locked
      <4> QED
        BY <4>2, <4>3 DEF Moves
    <3> QED
      BY <3>1, <3>2
  <2>4. Explained(v, a, l.applied, SuccessIn(l.statuses), l.gas_paid, n, lost,
                  seeded)
    BY <2>1, <2>2
  <2>5. Explained(v1, a, l.applied, SuccessIn(l.statuses), l.gas_paid, n1,
                  lost, seeded1)
    BY <1>4, <2>3, <2>4, ExplainedMoves
  <2> QED
    BY <2>2, <2>5
<1>6. DomainInv'
  BY <1>1, <1>2, <1>3 DEF DomainInv, Simulating, SnapshotExplained
<1> QED
  BY <1>2, <1>3, <1>5, <1>6 DEF BalanceInv, Simulating

(* Every step keeps every balance explained.                               *)
LEMMA LedgerStep ==
    ASSUME TypeInv, QueueInv, LedgerInv, [Next]_vars
    PROVE  LedgerInv'
<1>1. DomainInv /\ BalanceInv /\ DiskExplained
  BY DEF LedgerInv
<1>2. ASSUME DomainInv' /\ BalanceInv', disk' = disk
      PROVE  LedgerInv'
  BY <1>1, <1>2 DEF LedgerInv, DiskExplained
<1>3. CASE Ticks
  BY <1>1, <1>2, <1>3, TicksLedger DEF Ticks, Working
<1>4. Paused => disk' = disk
  BY DEF Paused, Working
<1>5. CASE Paused /\ EvmFrozen /\ (CopyField \/ BeginSettling \/ EndSettling)
  BY <1>1, <1>2, <1>4, <1>5, CopiesLedger
<1>6. CASE Paused /\ EvmFrozen /\ \E h \in Hash : Settle(h)
  <2>1. PICK h \in Hash : Settle(h)
    BY <1>6
  <2> QED
    BY <1>1, <1>2, <1>4, <1>6, <2>1, SettleLedger
<1>7. CASE Paused /\ ((LedgerFrozen /\ EvmPrepare) \/ EvmFinish)
  BY <1>1, <1>2, <1>4, <1>7, PoolLedger
<1>8. CASE Paused /\ LedgerFrozen /\ EvmExecuteNext
  BY <1>1, <1>2, <1>4, <1>8, ExecuteLedger
<1>9. CASE /\ Paused
           /\ \/ EvmFrozen /\ evm_stage = "past" /\ ChargeField
              \/ EvmFrozen /\ CommitLedger
              \/ Publishes
  BY <1>1, <1>2, <1>4, <1>9, PublishLedger
<1>10. CASE Paused /\ LedgerFrozen /\ \E t \in Tx : SendRawTransaction(t)
  <2>1. PICK t \in Tx : SendRawTransaction(t)
    BY <1>10
  <2>2. /\ up' = up /\ torn' = torn /\ staked' = staked /\ created' = created
        /\ decayed' = decayed /\ gas_paid' = gas_paid /\ db' = db
        /\ touched' = touched /\ evm_stage' = evm_stage
    BY <1>10, <2>1 DEF Paused, Working, SendRawTransaction
  <2>3. SuccessIn(statuses') = SuccessIn(statuses)
    BY <2>1 DEF SendRawTransaction, SuccessIn, Put
  <2> QED
    BY <1>1, <1>2, <1>4, <1>10, <2>2, <2>3, FrozenLedger
<1>11. CASE Save
  <2>1. /\ LedgerFrozen /\ EvmFrozen /\ disk' = Snapshot
        /\ up' = up /\ torn' = torn /\ staked' = staked
        /\ created' = created /\ decayed' = decayed
    BY <1>11
    DEF Save, LedgerFrozen, EvmFrozen, ledgerVars, evmVars, poolVars
  <2>2. SnapshotExplained(Snapshot)
    BY <1>1, <1>11, SnapshotIsExplained DEF Save
  <2>3. DomainInv' /\ BalanceInv'
    BY <1>1, <2>1, FrozenLedger DEF EvmFrozen
  <2> QED
    BY <2>1, <2>2, <2>3 DEF LedgerInv, DiskExplained
<1>12. CASE Crash
  BY <1>1, <1>12
  DEF Crash, Vanish, LedgerInv, DomainInv, BalanceInv, DiskExplained
<1>13. CASE Stop
  <2>1. /\ up /\ phase = "open" /\ up' = FALSE /\ disk' = Snapshot
    BY <1>13 DEF Stop, Vanish
  <2>2. evm_stage # "in"
    BY <2>1 DEF TypeInv, StageInv
  <2>3. SnapshotExplained(Snapshot)
    BY <1>1, <2>1, <2>2, SnapshotIsExplained
  <2> QED
    BY <2>1, <2>3 DEF LedgerInv, DomainInv, BalanceInv, DiskExplained
<1>14. CASE BootFrom(Load)
  <2>1. PICK l : l = Load
    OBVIOUS
  <2>2. BootFrom(l) /\ disk' = disk
    BY <1>14, <2>1 DEF BootFrom
  <2>3. SnapshotType(l) /\ SnapshotExplained(l)
    BY <1>1, <2>1, LoadType, LoadIsExplained DEF TypeInv
  <2> QED
    BY <1>2, <2>2, <2>3, BootLedger
<1>15. CASE UNCHANGED vars
  <2>1. /\ LedgerFrozen /\ EvmFrozen
        /\ up' = up /\ torn' = torn /\ staked' = staked /\ disk' = disk
        /\ created' = created /\ decayed' = decayed
    BY <1>15
    DEF vars, LedgerFrozen, EvmFrozen, ledgerVars, evmVars, poolVars, lifeVars
  <2> QED
    BY <1>1, <1>2, <2>1, FrozenLedger DEF EvmFrozen
<1>16. Publishes => Paused
  BY DEF Publishes
<1>17. StageInv
  BY DEF TypeInv
<1> QED
  BY <1>3, <1>5, <1>6, <1>7, <1>8, <1>9, <1>10, <1>11, <1>12, <1>13, <1>14,
     <1>15, <1>16, <1>17, LifeSteps

(* Every reachable state explains every balance.                           *)
LEMMA LedgerInvariant == Spec => []LedgerInv
<1>1. Init => LedgerInv
  BY DEF Init, LedgerInv, DomainInv, BalanceInv, DiskExplained
<1>2. TypeInv /\ QueueInv /\ LedgerInv /\ [Next]_vars => LedgerInv'
  BY LedgerStep
<1> QED
  BY <1>1, <1>2, TypeInvariant, QueueInvariant, PTL DEF Spec

(* The sums of the invariant are those of the property.                    *)
LEMMA LedgerInvSurvives == TypeInv /\ LedgerInv => LedgerSurvivesRestart
<1> SUFFICES ASSUME TypeInv, LedgerInv, up, phase = "open", ~torn,
                    NEW a \in Holder
             PROVE  Get(field, a) + Expense(a) = created[a] + Income(a)
  BY DEF LedgerSurvivesRestart
<1> a \in Account
  BY DEF Holder
<1>1. evm_stage = "before"
  BY DEF TypeInv, StageInv, ScalarsOK
<1>2. Explained(Get(field, a), a, applied, SuccessIn(statuses), gas_paid,
                staked, decayed[a], created[a])
  BY <1>1 DEF LedgerInv, BalanceInv, FieldExplained
<1>3. applied \in SUBSET Hash /\ gas_paid \in SUBSET Tx
      /\ SuccessIn(statuses) \in SUBSET Tx /\ staked \in Nat
      /\ Get(field, a) \in Nat /\ decayed[a] \in Nat /\ created[a] \in Nat
  BY LedgerTypes
<1>4. Succeeded = SuccessIn(statuses)
  BY DEF Succeeded, SuccessIn
<1>5. [h \in Hash |-> Shift[h].amount - fee[h]] = GainOf
  BY DEF GainOf, TypeInv, ScalarsOK
<1>6. /\ {h \in applied : Shift[h].to = a} = applied \cap ShiftsTo(a)
      /\ {h \in applied : Shift[h].from = a} = applied \cap ShiftsFrom(a)
  BY <1>3 DEF ShiftsTo, ShiftsFrom
<1>7. /\ {t \in Succeeded : Transaction[t].to = a}
            = SuccessIn(statuses) \cap SentTo(a)
      /\ {t \in Succeeded : Transaction[t].from = a}
            = SuccessIn(statuses) \cap SentBy(a)
      /\ {t \in gas_paid : Transaction[t].from = a} = gas_paid \cap SentBy(a)
  BY <1>3, <1>4 DEF SentTo, SentBy
<1>8. Income(a) = Earned(a, applied, SuccessIn(statuses))
  BY <1>5, <1>6, <1>7 DEF Income, Earned, Total, ValueOf
<1>9. PICK p \in Int, k \in Nat, e \in Int :
         /\ p = Spent(a, applied, SuccessIn(statuses), gas_paid)
         /\ k = Locked(a, staked)
         /\ e = Earned(a, applied, SuccessIn(statuses))
  BY <1>3, TotalsType DEF Locked
<1>10. Expense(a) = p + k + decayed[a]
  BY <1>6, <1>7, <1>9
  DEF Expense, Spent, Total, Locked, AmountOf, ValueOf, GasOf
<1>11. Get(field, a) + p + k + decayed[a] = created[a] + e
  BY <1>2, <1>9 DEF Explained
<1> QED
  BY <1>3, <1>8, <1>9, <1>10, <1>11

(* Between two cycles of any life of the process, unless it descends from  *)
(* a snapshot written between the pool's run and the publication of a      *)
(* cycle, the balance of every account but a created contract's and the    *)
(* zero address's is what was seeded, applied and executed, each counted   *)
(* once, whatever addresses the transactions name: save, load, crashes and *)
(* restarts at any other point repeat nothing and lose nothing that was    *)
(* saved (persistence/mod.rs and mesh_node.rs).                            *)
THEOREM LedgerIsKept == Spec => []LedgerSurvivesRestart
BY TypeInvariant, LedgerInvariant, LedgerInvSurvives, PTL
=============================================================================
