---------------------------- MODULE Persistence ----------------------------
(***************************************************************************)
(* Snapshots (src/src/persistence/mod.rs) and the life of a mesh node      *)
(* around them (src/src/bin/mesh_node.rs): start-up from the snapshot      *)
(* file, cycles, a task that saves every few seconds on a thread of its    *)
(* own, a graceful stop, and crashes.                                      *)
(*                                                                         *)
(* save() holds the locks of the DAG and of the wave-field from its first  *)
(* read to the rename of the file, and the pool's lock while it reads it;  *)
(* synthesize() passes the pool without the other two, but can go no       *)
(* further, so a save is one step.  The file is replaced by a rename: a    *)
(* crash leaves the old or the new one.                                    *)
(***************************************************************************)
EXTENDS EvmPool

CONSTANTS Operator,      \* the account of the local operator
          Pool,          \* token accounts of the DEX pool
          GenesisStake,  \* genesis_balance
          PoolSeed,      \* what ApiState::new seeds
          ShiftFee,      \* the fee of each shift
          NoSnapshot,
          MaxCycles,     \* bound: cycles over all lives of the process
          MaxSaves,      \* bound: snapshots
          MaxCrashes     \* bound: crashes and stops

ASSUME NodeAssumption ==
    /\ Operator \in Account /\ Pool \subseteq Account \ {Operator}
    /\ GenesisStake \in Nat \ {0} /\ PoolSeed \in Nat
    /\ ShiftFee \in [Hash -> Nat] /\ IsFiniteSet(Hash)
    /\ Shift \in [Hash -> [from : Account, to : Account, amount : Nat]]
    /\ IsMap(Genesis, Account, Nat) /\ MaxDecay \in Nat
    /\ MaxCycles \in Nat /\ MaxSaves \in Nat /\ MaxCrashes \in Nat

VARIABLES
    up,        \* whether the process runs
    disk,      \* the snapshot file
    staked,    \* StakeTable: what the operator has locked
    cycles, saves, crashes,
    created,   \* history: units seeded in each account, as the state knows it
    decayed,   \* history: units each account lost to decay
    torn,      \* history: the state descends from a torn snapshot
    stranded   \* history: transactions restored as Pending

lifeVars == <<up, disk, staked, cycles, saves, crashes, created, decayed,
              torn, stranded>>
vars == <<ledgerVars, evmVars, lifeVars>>

Empty == [a \in {} |-> 0]

(* Nothing is in memory.                                                   *)
Init ==
    /\ fee = ShiftFee /\ SettlementInit /\ EvmInit
    /\ up = FALSE /\ disk = NoSnapshot /\ staked = 0
    /\ cycles = 0 /\ saves = 0 /\ crashes = 0
    /\ created = [a \in Account |-> 0] /\ decayed = [a \in Account |-> 0]
    /\ torn = FALSE /\ stranded = {}

-----------------------------------------------------------------------------
(* save *)

(* From the pool's run to the publication of the cycle, the pool, the      *)
(* applied flags and the wave-field disagree.                              *)
MidCycle == evm_stage = "past"

Snapshot ==
    [field |-> field, balances |-> balances, applied |-> applied,
     statuses |-> statuses, evm_nonces |-> evm_nonces, db |-> db,
     staked |-> staked,
     (* not in the file: what the histories were when it was written *)
     created |-> created, decayed |-> decayed, gas_paid |-> gas_paid,
     torn |-> torn \/ MidCycle]

(* The periodic task.  It waits for the DAG's lock while shifts settle,    *)
(* and for the pool's.                                                     *)
Save ==
    /\ up /\ saves < MaxSaves
    /\ phase # "settling" /\ evm_stage # "in"
    /\ disk' = Snapshot /\ saves' = saves + 1
    /\ UNCHANGED <<ledgerVars, evmVars, up, staked, cycles, crashes, created,
                   decayed, torn, stranded>>

-----------------------------------------------------------------------------
(* The end of a life *)

(* The process is gone, and everything that was in memory with it.         *)
Vanish ==
    /\ up /\ crashes < MaxCrashes /\ crashes' = crashes + 1
    /\ up' = FALSE
    /\ phase' = "open" /\ field' = Genesis /\ balances' = Genesis
    /\ applied' = {} /\ sim' = Empty /\ settling' = {}
    /\ evm_pending' = <<>> /\ statuses' = [t \in {} |-> "Pending"]
    /\ evm_nonces' = Empty /\ db' = [a \in {} |-> NoAccount]
    /\ receipts' = [t \in {} |-> [block |-> 0, status |-> 0]]
    /\ touched' = {} /\ evm_stage' = "before" /\ synthesis_tick' = 0
    /\ staked' = 0 /\ gas_paid' = {} /\ torn' = FALSE /\ stranded' = {}
    /\ created' = [a \in Account |-> 0] /\ decayed' = [a \in Account |-> 0]
    /\ UNCHANGED <<fee, cycles, saves>>

Crash == Vanish /\ UNCHANGED disk

(* SIGTERM is handled by the loop that calls synthesize(), so its last     *)
(* snapshot falls between two cycles.                                      *)
Stop ==
    /\ phase = "open"
    /\ Vanish
    /\ disk' = Snapshot

-----------------------------------------------------------------------------
(* Start-up *)

Fresh ==
    [field |-> Empty, balances |-> Empty, applied |-> {}, staked |-> 0,
     statuses |-> [t \in {} |-> "Pending"], evm_nonces |-> Empty,
     db |-> [a \in {} |-> NoAccount],
     created |-> [a \in Account |-> 0], decayed |-> [a \in Account |-> 0],
     gas_paid |-> {}, torn |-> FALSE]

(* Mutant: the applied flag of the nodes is not restored.                  *)
LoadForgetsApplied ==
    IF disk = NoSnapshot THEN Fresh ELSE [disk EXCEPT !.applied = {}]

(* load.  Tick, queues, nonces of ingestion, receipts and the supply       *)
(* tracker are not in the file and start afresh.  The nodes of the DAG are *)
(* inserted in the arbitrary order of the file's map, so the tips come out *)
(* in another order, and neither account_tips nor max_clock is restored;   *)
(* nothing here depends on them.                                           *)
Load == IF disk = NoSnapshot THEN Fresh ELSE disk

(* The operator is seeded if it holds no liquid balance, and asks to lock  *)
(* GenesisStake: nothing to do if that much is locked, refused if it is    *)
(* not covered, and less than what is locked would be paid out.  Then the  *)
(* API seeds the pool.                                                     *)
Seeds(l) == IF Get(l.field, Operator) = 0 THEN GenesisStake ELSE 0
Locks(l) == GenesisStake - l.staked <= Get(l.field, Operator) + Seeds(l)
NewStake(l) == IF Locks(l) THEN GenesisStake - l.staked ELSE 0
Seeded(m, v) ==
    [a \in DOMAIN m \cup {Operator} \cup Pool |->
        IF a = Operator THEN v
        ELSE Get(m, a) + (IF a \in Pool THEN PoolSeed ELSE 0)]

BootFrom(l) ==
    /\ ~up /\ up' = TRUE
    /\ field' = Seeded(l.field,
                       (Get(l.field, Operator) + Seeds(l)) - NewStake(l))
    /\ balances' = Seeded(l.balances,
          Max({0, (Get(l.balances, Operator) + Seeds(l)) - NewStake(l)}))
    /\ staked' = l.staked + NewStake(l)
    /\ created' = [a \in Account |-> l.created[a]
          + (IF a = Operator THEN Seeds(l)
             ELSE IF a \in Pool THEN PoolSeed ELSE 0)]
    /\ applied' = l.applied /\ statuses' = l.statuses
    /\ evm_nonces' = l.evm_nonces /\ db' = l.db
    /\ gas_paid' = l.gas_paid /\ torn' = l.torn /\ decayed' = l.decayed
    /\ stranded' = {t \in DOMAIN l.statuses : l.statuses[t] = "Pending"}
    /\ UNCHANGED <<phase, sim, settling, fee, evm_pending, receipts, touched,
                   evm_stage, synthesis_tick, disk, cycles, saves, crashes>>

Boot == BootFrom(Load)

-----------------------------------------------------------------------------
(* Specification *)

Live ==
    /\ up
    /\ cycles' = IF phase = "open" THEN cycles + 1 ELSE cycles
    /\ phase = "open" => cycles < MaxCycles
    /\ CycleWithEvm
    /\ decayed' = IF phase = "open"
                  THEN [a \in Account |->
                           decayed[a] + (Get(field, a) - Get(field', a))]
                  ELSE decayed
    /\ UNCHANGED <<up, disk, staked, saves, crashes, created, torn, stranded>>

(* Transactions arrive while at least one more cycle can start.            *)
Submit ==
    /\ up /\ cycles < MaxCycles
    /\ \E t \in Tx : SendRawTransaction(t)
    /\ UNCHANGED <<ledgerVars, lifeVars>>

BoundReached ==
    /\ up /\ phase = "open" /\ cycles = MaxCycles
    /\ UNCHANGED vars

Next == Live \/ Submit \/ Save \/ Crash \/ Stop \/ Boot \/ BoundReached

Spec == Init /\ [][Next]_vars

(* The loop calls synthesize() again and again while the process runs.     *)
FairSpec == Spec /\ WF_vars(Live)

-----------------------------------------------------------------------------
(* Properties *)

TypeOK ==
    /\ phase \in Stage /\ evm_stage \in {"before", "in", "past"}
    /\ IsMap(field, Account, Nat) /\ IsMap(balances, Account, Nat)
    /\ IsMap(sim, Account, Nat) /\ IsMap(evm_nonces, Address, Nat)
    /\ \A a \in DOMAIN db : db[a].balance \in Nat /\ db[a].nonce \in Nat
    /\ applied \subseteq Hash /\ settling \subseteq Hash
    /\ IsMap(statuses, Tx, {"Pending", "Success", "Failed"})
    /\ staked \in {0, GenesisStake} /\ cycles \in 0..MaxCycles

(* What account a received, and what it paid or lost, by the applied       *)
(* shifts, by the transactions that succeeded or paid for gas, by staking  *)
(* and by decay.                                                           *)
Income(a) ==
    SumFunctionOnSet([h \in Hash |-> Shift[h].amount - fee[h]],
                     {h \in applied : Shift[h].to = a})
    + SumFunctionOnSet([t \in Tx |-> Transaction[t].value],
                       {t \in Succeeded : Transaction[t].to = a})
Expense(a) ==
    SumFunctionOnSet([h \in Hash |-> Shift[h].amount],
                     {h \in applied : Shift[h].from = a})
    + SumFunctionOnSet([t \in Tx |-> Transaction[t].value],
                       {t \in Succeeded : Transaction[t].from = a})
    + SumFunctionOnSet([t \in Tx |-> Transaction[t].gas],
                       {t \in gas_paid : Transaction[t].from = a})
    + (IF a = Operator THEN staked ELSE 0) + decayed[a]

(* The accounts of people.  What revm credits to a created contract and,   *)
(* as gas, to the zero address stays in the pool's database, unless a      *)
(* transaction of the same cycle names the address.                        *)
Holder == Account \ {ContractAddress, Coinbase}

(* Between two cycles of any life of the process, the balance of every     *)
(* account but a created contract's and the zero address's is what was     *)
(* seeded, applied and executed according to the flags, statuses and       *)
(* nonces the node holds, each counted once, less decay: a restart repeats *)
(* nothing and loses nothing that was saved, unless the snapshot was       *)
(* written between the pool's run and the publication of a cycle.          *)
LedgerSurvivesRestart ==
    up /\ phase = "open" /\ ~torn =>
        \A a \in Holder : Get(field, a) + Expense(a) = created[a] + Income(a)

(* A submitted transaction is decided, unless the process ends first, or a *)
(* snapshot brought it back as Pending without the queue it waited in.     *)
SubmittedIsDecided ==
    \A t \in Tx :
        (t \in ToSet(evm_pending)) ~>
            \/ t \notin DOMAIN statuses
            \/ statuses[t] # "Pending"
            \/ t \in stranded

(* What a client was told stays true as long as the process lives: the     *)
(* transactions of a block whose cycle is over, and a receipt once there   *)
(* is one, although failed transactions can be sent again.                 *)
AnswersStay ==
    [][up /\ up' =>
          /\ \A n \in 0..MaxCycles : Sealed(n) => BlockTxs(n)' = BlockTxs(n)
          /\ \A t \in Tx : TransactionReceipt(t) # {} =>
                TransactionReceipt(t)' = TransactionReceipt(t)]_vars

-----------------------------------------------------------------------------
(* Statements of the documentation that the code does not keep *)

(* mesh_node.rs: "Seed genesis balance for the local operator on first     *)
(* boot".  A node that starts from a snapshot was seeded before.           *)
GenesisSeededOnce == created[Operator] <= GenesisStake
=============================================================================
