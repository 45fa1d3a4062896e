------------------------------ MODULE EvmPool ------------------------------
(***************************************************************************)
(* The pool of EVM transactions (src/src/evm/mod.rs), its executor         *)
(* (src/src/evm/executor.rs) and the JSON-RPC handlers that reach it       *)
(* (src/src/api/evm_rpc.rs), inside the settlement cycle.                  *)
(*                                                                         *)
(* The pool has a lock of its own, which synthesize() holds while it works *)
(* through the pending transactions; submissions and reads wait.  An EVM   *)
(* address is identified with the Fluidic account derived from it by a     *)
(* hash.  The interpreter (revm) is external: a transaction is refused, or *)
(* reverts and pays for gas, or moves its value and pays for gas.  What    *)
(* contract code does to other accounts is not modelled.                   *)
(***************************************************************************)
EXTENDS Settlement, SequencesExt

CONSTANTS Tx,              \* hashes of the transactions that can be submitted
          Transaction,     \* their decoded content
          Address,         \* EVM addresses, numbers because they are sorted
          NoAddress,       \* the recipient of a contract creation
          ContractAddress, \* where the value of a creation goes
          Coinbase         \* the zero address, to which revm credits gas

ChainId == 990492
TransactionRecord ==
    [from : Address, to : Address \cup {NoAddress}, value : Nat, nonce : Nat,
     chain : Nat,              \* 0: the transaction names no chain
     cap : Nat,                \* gas limit times gas price
     gas : Nat,                \* gas used times gas price
     reverts : BOOLEAN]

ASSUME EvmAssumption ==
    /\ Transaction \in [Tx -> TransactionRecord]
    /\ \A t \in Tx : Transaction[t].gas <= Transaction[t].cap
    /\ IsFiniteSet(Tx) /\ Address \subseteq Nat /\ Address \subseteq Account
(* Transactions may name the zero address and a contract like any other    *)
(* address; prepare then overwrites what revm had credited to it.          *)
ASSUME NoAddressAssumption == NoAddress \notin Account

VARIABLES
    evm_pending,    \* EvmPool.pending
    statuses,       \* EvmPool.statuses
    evm_nonces,     \* EvmPool.nonces: the next nonce of each sender
    db,             \* EvmPool.db: balance and nonce of each address
    receipts,       \* EvmPool.receipts: block and status
    touched,        \* EvmExecutor.touched
    evm_stage,      \* whether synthesize() is before, in or past the pool
    synthesis_tick, \* ticks started
    gas_paid        \* history: transactions that paid for gas

poolVars == <<evm_pending, statuses, evm_nonces, db, receipts, touched,
              evm_stage, gas_paid>>
evmVars == <<poolVars, synthesis_tick>>

NoAccount == [balance |-> 0, nonce |-> 0]

EvmInit ==
    /\ evm_pending = <<>> /\ touched = {} /\ gas_paid = {}
    /\ statuses = [t \in {} |-> "Pending"] /\ evm_nonces = [a \in {} |-> 0]
    /\ db = [a \in {} |-> NoAccount]
    /\ receipts = [t \in {} |-> [block |-> 0, status |-> 0]]
    /\ evm_stage = "before" /\ synthesis_tick = 0

-----------------------------------------------------------------------------
(* Submission *)

(* eth_sendRawTransaction: a transaction for another chain is rejected; a  *)
(* hash the pool has a status for is accepted and ignored.                 *)
SendRawTransaction(t) ==
    /\ evm_stage # "in"
    /\ Transaction[t].chain \in {0, ChainId}
    /\ t \notin DOMAIN statuses
    /\ statuses' = Put(statuses, t, "Pending")
    /\ evm_pending' = Append(evm_pending, t)
    /\ UNCHANGED <<evm_nonces, db, receipts, touched, evm_stage,
                   synthesis_tick, gas_paid>>

-----------------------------------------------------------------------------
(* EvmPool::synthesize *)

(* prepare: every address in a pending transaction gets its simulated      *)
(* balance and the pool's nonce.                                           *)
EvmPrepare ==
    LET ends(t) == {Transaction[t].from, Transaction[t].to}
        named == (UNION {ends(t) : t \in ToSet(evm_pending)}) \ {NoAddress}
    IN  /\ phase = "settled" /\ evm_stage = "before"
        /\ touched' = named
        /\ db' = Overwrite(db, [a \in named |->
                     [balance |-> Get(sim, a), nonce |-> Get(evm_nonces, a)]])
        /\ evm_stage' = "in"
        /\ UNCHANGED <<evm_pending, statuses, evm_nonces, receipts,
                       synthesis_tick, gas_paid>>

(* Position i comes first in the stable order by sender and nonce.         *)
FirstInOrder(i) ==
    \A j \in 1..Len(evm_pending) \ {i} :
        LET t == Transaction[evm_pending[i]]
            u == Transaction[evm_pending[j]]
        IN  \/ t.from < u.from
            \/ t.from = u.from /\ t.nonce < u.nonce
            \/ t.from = u.from /\ t.nonce = u.nonce /\ i < j

InDb(a) == IF a \in DOMAIN db THEN db[a] ELSE NoAccount
Add(d, a, n) ==
    Put(d, a, IF a \in DOMAIN d THEN [d[a] EXCEPT !.balance = @ + n]
              ELSE [balance |-> n, nonce |-> 0])

(* Mutant: the sender's funds are not checked.                             *)
ExecutableUnfunded(t) ==
    InDb(Transaction[t].from).nonce = Transaction[t].nonce

(* revm's checks before it executes anything.                              *)
Executable(t) ==
    LET x == Transaction[t] IN
    /\ InDb(x.from).nonce = x.nonce
    /\ InDb(x.from).balance >= x.cap + x.value

(* revm: the sender's nonce advances and gas is paid, and unless the call  *)
(* reverts the value moves.                                                *)
Executed(t) ==
    LET x == Transaction[t]
        value == IF x.reverts THEN 0 ELSE x.value
        dest == IF x.to = NoAddress THEN ContractAddress ELSE x.to
        paid == [db EXCEPT ![x.from] =
                    [balance |-> @.balance - (x.gas + value),
                     nonce |-> @.nonce + 1]]
    IN  Add(Add(paid, dest, value), Coinbase, x.gas)

(* Mutant: a transaction above the expected nonce is executed.             *)
AheadExpected(t) ==
    Transaction[t].nonce >= Get(evm_nonces, Transaction[t].from)

(* The pool's own check.                                                   *)
Expected(t) ==
    Transaction[t].nonce = Get(evm_nonces, Transaction[t].from)

(* Mutant: the block before the one in progress.                           *)
PreviousBlock == Max({0, synthesis_tick - 2})

(* The block of a receipt is the tick that synthesize() fetched.           *)
ReceiptBlock == synthesis_tick - 1

(* Mutant: a transaction with an unexpected nonce gets no verdict.         *)
ReceiptVerdict(t, success) ==
    IF success THEN "Success"
    ELSE IF Expected(t) THEN "Failed" ELSE statuses[t]

Verdict(t, success) == IF success THEN "Success" ELSE "Failed"

(* Whether revm executes t, and whether t takes effect.                    *)
Runs(t) == Expected(t) /\ Executable(t)
Succeeds(t) == Runs(t) /\ ~Transaction[t].reverts

(* The transaction t at position i, the next in order.  One with an        *)
(* unexpected nonce fails and leaves no receipt.  Only success advances    *)
(* the pool's nonce; revm's own advances on a revert as well.              *)
Execute(i, t) ==
    /\ evm_stage = "in" /\ FirstInOrder(i)
    /\ evm_pending' = RemoveAt(evm_pending, i)
    /\ statuses' = [statuses EXCEPT ![t] = Verdict(t, Succeeds(t))]
    /\ db' = IF Runs(t) THEN Executed(t) ELSE db
    /\ gas_paid' = IF Runs(t) THEN gas_paid \cup {t} ELSE gas_paid
    /\ evm_nonces' = IF Succeeds(t)
                     THEN Put(evm_nonces, Transaction[t].from,
                              Transaction[t].nonce + 1)
                     ELSE evm_nonces
    /\ receipts' = IF ~Expected(t) THEN receipts
                   ELSE Put(receipts, t,
                            [block |-> ReceiptBlock,
                             status |-> IF Succeeds(t) THEN 1 ELSE 0])
    /\ UNCHANGED <<touched, evm_stage, synthesis_tick>>

EvmExecuteNext ==
    \E i \in 1..Len(evm_pending) : Execute(i, evm_pending[i])

(* sync_balances_back: the touched accounts take their EVM balances.       *)
EvmFinish ==
    /\ evm_stage = "in" /\ evm_pending = <<>>
    /\ sim' = Overwrite(sim, [a \in touched |-> InDb(a).balance])
    /\ evm_stage' = "past"
    /\ UNCHANGED <<phase, field, balances, applied, settling, fee,
                   evm_pending, statuses, evm_nonces, db, receipts, touched,
                   synthesis_tick, gas_paid>>

-----------------------------------------------------------------------------
(* The cycle around it *)

(* fetch_add at the start of synthesize(), and the decay that follows.     *)
StartCycle ==
    /\ LoseDecay
    /\ synthesis_tick' = synthesis_tick + 1
    /\ UNCHANGED poolVars

CycleWithEvm ==
    \/ StartCycle
    \/ /\ CopyField \/ BeginSettling \/ EndSettling \/ CommitLedger
             \/ \E h \in Hash : Settle(h)
       /\ UNCHANGED evmVars
    \/ EvmPrepare /\ UNCHANGED ledgerVars
    \/ EvmExecuteNext /\ UNCHANGED ledgerVars
    \/ EvmFinish
    \/ evm_stage = "past" /\ ChargeField /\ UNCHANGED evmVars
    \/ /\ PublishField
       /\ evm_stage' = "before" /\ touched' = {}
       /\ UNCHANGED <<evm_pending, statuses, evm_nonces, db, receipts,
                      synthesis_tick, gas_paid>>

-----------------------------------------------------------------------------
(* JSON-RPC reads *)

(* eth_getBlockByNumber: the transactions of a block.                      *)
BlockTxs(n) == {t \in DOMAIN receipts : receipts[t].block = n}

(* eth_getTransactionReceipt: the receipt, or a bare failure for one that  *)
(* left none; nothing while the transaction is pending or unknown.         *)
TransactionReceipt(t) ==
    IF t \in DOMAIN receipts THEN {receipts[t]}
    ELSE IF t \in DOMAIN statuses /\ statuses[t] = "Failed"
         THEN {[block |-> -1, status |-> 0]}
    ELSE {}

(* eth_getTransactionCount                                                 *)
TransactionCount(a) == Get(evm_nonces, a)

(* A tick whose cycle is over.                                             *)
Sealed(n) == n < synthesis_tick /\ (n = synthesis_tick - 1 => phase = "open")

-----------------------------------------------------------------------------
(* Properties *)

Succeeded == {t \in DOMAIN statuses : statuses[t] = "Success"}
SucceededOf(a) == {t \in Succeeded : Transaction[t].from = a}

(* Every successful transaction of a sender used one nonce, no two used    *)
(* the same, and none was left out, whatever was submitted in which order, *)
(* reverted, failed on funds or was restored from a snapshot: the nonce    *)
(* eth_getTransactionCount reports counts the successes.                   *)
NoncesCountSuccesses ==
    \A a \in Address :
        /\ {Transaction[t].nonce : t \in SucceededOf(a)} = 0..(TransactionCount(a) - 1)
        /\ Cardinality(SucceededOf(a)) = TransactionCount(a)
=============================================================================
