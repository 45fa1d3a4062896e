--------------------------- MODULE OscillatorNode ---------------------------
(***************************************************************************)
(* A running node: the synthesis cycle of Oscillator.tla together with the *)
(* handlers that change balances on other threads.  The HTTP API's thread  *)
(* runs seed_account (faucet, claimed rewards) and register_domain; the    *)
(* gossip task runs apply_registration and apply_stake.  Each thread runs  *)
(* one handler at a time.                                                  *)
(*                                                                         *)
(* A handler is cut where it releases a lock.  synthesize() holds the      *)
(* DAG's lock while it inserts, orders and applies, and takes the          *)
(* wave-field's only for single steps; between its sections the handlers   *)
(* run freely.                                                             *)
(***************************************************************************)
EXTENDS Oscillator

CONSTANTS Supply,        \* TOTAL_WAVE_SUPPLY
          Grant,         \* what the faucet seeds
          Registrations, \* registrations that can arrive
          Bonus,         \* what apply_registration credits
          Stakes,        \* stake announcements that can arrive
          NewDomain,     \* the domain that can be registered
          NewPolicy,     \* its policy
          Reservation,   \* domain_reservation_fee_units()
          MaxSeeds       \* bound: calls of the faucet

ASSUME SupplyAssumption ==
    /\ Supply \in Nat /\ SumFunction(Genesis) <= Supply
    /\ Grant \in Nat \ {0} /\ Bonus \in Nat \ {0} /\ Reservation \in Nat
    /\ MaxSeeds \in Nat
ASSUME HandlerAssumption ==
    /\ Registrations \subseteq
          [account : Account, wave : Account, usdc : Account, nonce : Nat]
    /\ \A m \in Registrations : m.wave # m.usdc
    /\ Stakes \subseteq [account : Account, amount : Nat, nonce : Nat]
    /\ NewDomain \in Domain /\ NewPolicy \in PolicyRecord

VARIABLES
    job,           \* per thread, the rest of the handler it is running
    circulating,   \* SupplyTracker.circulating
    locked,        \* StakeTable: stake of each account
    global_nonces, \* seen_nonces at the sentinel domain
    seeds,         \* calls of the faucet so far
    granted,       \* history: units that handlers were to create
    disturbed      \* history: a handler overlapped the critical part of a tick

nodeVars == <<job, circulating, locked, global_nonces, seeds, granted,
              disturbed>>

Idle == [step |-> "none"]
Step == {"none", "seed_dag", "seed_field", "register", "welcome", "move",
         "restake"}

NodeTypeOK ==
    /\ TypeOK
    /\ \A th \in {"api", "gossip"} : job[th].step \in Step
    /\ circulating \in Nat /\ locked \in [Account -> Nat]
    /\ IsMap(global_nonces, Account, Nat)
    /\ seeds \in 0..MaxSeeds /\ granted \in Nat /\ disturbed \in BOOLEAN

NodeInit ==
    /\ Init
    /\ job = [th \in {"api", "gossip"} |-> Idle]
    /\ circulating = SumFunction(Genesis)
    /\ locked = [a \in Account |-> 0]
    /\ global_nonces = [a \in {} |-> 0]
    /\ seeds = 0 /\ granted = 0 /\ disturbed = FALSE

-----------------------------------------------------------------------------
(* Locks and history *)

DagLockFree == pc \notin {"insert", "pick", "apply"}

(* Between the point where synthesize() copies the wave-field into the DAG *)
(* and the point where it writes its result back.                          *)
Critical == pc \notin {"idle", "decay", "sync"}

(* What a step of a handler leaves alone.                                  *)
Untouched ==
    /\ UNCHANGED <<nodes, roots, children, status, inserted_at, depth,
                   finalized_at, applied, tips, rejected, max_clock,
                   account_tips, ingestVars, quorate, key_registry,
                   burned, tick, pc, batch, topoVars, applyVars>>
    /\ disturbed' = (disturbed \/ Critical)

Becomes(th, j) == job' = [job EXCEPT ![th] = j]

Credit(m, a, n) == Put(m, a, Get(m, a) + n)

-----------------------------------------------------------------------------
(* seed_account *)

(* Mutant: the amount is not counted as circulating.                       *)
SeedUntracked(a) ==
    /\ job["api"] = Idle /\ seeds < MaxSeeds
    /\ circulating + Grant <= Supply
    /\ seeds' = seeds + 1 /\ granted' = granted + Grant
    /\ Becomes("api", [step |-> "seed_dag", account |-> a])
    /\ Untouched
    /\ UNCHANGED <<balances, field, revenue, keys, registry, circulating,
                   locked, global_nonces>>

(* The supply tracker grants the amount; a call above the cap ends here.   *)
SeedMint(a) ==
    /\ job["api"] = Idle /\ seeds < MaxSeeds
    /\ circulating + Grant <= Supply
    /\ circulating' = circulating + Grant
    /\ seeds' = seeds + 1 /\ granted' = granted + Grant
    /\ Becomes("api", [step |-> "seed_dag", account |-> a])
    /\ Untouched
    /\ UNCHANGED <<balances, field, revenue, keys, registry, locked,
                   global_nonces>>

(* The API's faucet for EVM addresses.                                     *)
EvmFaucet(a) == SeedMint(a)

SeedDag ==
    /\ job["api"].step = "seed_dag" /\ DagLockFree
    /\ balances' = Credit(balances, job["api"].account, Grant)
    /\ Becomes("api", [job["api"] EXCEPT !.step = "seed_field"])
    /\ Untouched
    /\ UNCHANGED <<field, revenue, keys, registry, circulating, locked,
                   global_nonces, seeds, granted>>

SeedField ==
    /\ job["api"].step = "seed_field"
    /\ field' = Credit(field, job["api"].account, Grant)
    /\ Becomes("api", Idle)
    /\ Untouched
    /\ UNCHANGED <<balances, revenue, keys, registry, circulating, locked,
                   global_nonces, seeds, granted>>

-----------------------------------------------------------------------------
(* register_domain *)

(* Mutant: the fee is taken without a look at the balance.                 *)
ReserveUnchecked(a) ==
    /\ job["api"] = Idle /\ NewDomain \notin DOMAIN registry
    /\ field' = Put(field, a, Get(field, a) - Reservation)
    /\ Becomes("api", [step |-> "register"])
    /\ Untouched
    /\ UNCHANGED <<balances, revenue, keys, registry, circulating, locked,
                   global_nonces, seeds, granted>>

(* DomainPolicy::new refuses a depth of 0.                                 *)
ValidPolicy(p) == p.depth > 0

(* The API's handler: the policy is valid and the registrant, whose key is *)
(* known, has signed it.                                                   *)
SignedRequest(a) == ValidPolicy(NewPolicy) /\ a \in keys

(* The registrant pays from its wave-field balance; the DAG's copy follows *)
(* at the next tick.                                                       *)
ReserveDomain(a) ==
    /\ job["api"] = Idle /\ NewDomain \notin DOMAIN registry
    /\ SignedRequest(a) /\ Get(field, a) >= Reservation
    /\ field' = Put(field, a, Get(field, a) - Reservation)
    /\ Becomes("api", [step |-> "register"])
    /\ Untouched
    /\ UNCHANGED <<balances, revenue, keys, registry, circulating, locked,
                   global_nonces, seeds, granted>>

(* The fee goes to the reward pool and the policy into the registry.       *)
RegisterDomain ==
    /\ job["api"].step = "register"
    /\ revenue' = revenue + Reservation
    /\ registry' = Put(registry, NewDomain, NewPolicy)
    /\ Becomes("api", Idle)
    /\ Untouched
    /\ UNCHANGED <<balances, field, keys, circulating, locked,
                   global_nonces, seeds, granted>>

-----------------------------------------------------------------------------
(* apply_registration and apply_stake *)

FreshGlobalNonce(m) ==
    m.account \in DOMAIN global_nonces => m.nonce > global_nonces[m.account]

(* A registration arrives: the API learns the keys, and the DAG's balances *)
(* of the two token accounts are credited, without a question to the       *)
(* supply tracker.                                                         *)
WelcomeDag(m) ==
    /\ job["gossip"] = Idle /\ DagLockFree /\ FreshGlobalNonce(m)
    /\ keys' = keys \cup {m.account, m.wave, m.usdc}
    /\ global_nonces' = Put(global_nonces, m.account, m.nonce)
    /\ balances' = Credit(Credit(balances, m.wave, Bonus), m.usdc, Bonus)
    /\ Becomes("gossip", [step |-> "welcome", account |-> m.account,
                          tokens |-> {m.wave, m.usdc}])
    /\ Untouched
    /\ UNCHANGED <<field, revenue, registry, circulating, locked, seeds,
                   granted>>

(* The wave-field credits only the token accounts that hold nothing.       *)
WelcomeField ==
    LET m == job["gossip"]
        poor == {a \in m.tokens : Get(field, a) = 0}
    IN  /\ m.step = "welcome"
        /\ field' = Overwrite(Put(field, m.account, Get(field, m.account)),
                              [a \in poor |-> Get(field, a) + Bonus])
        /\ granted' = granted + Bonus * Cardinality(poor)
        /\ Becomes("gossip", Idle)
        /\ Untouched
        /\ UNCHANGED <<balances, revenue, keys, registry, circulating, locked,
                       global_nonces, seeds>>

(* A stake announcement arrives: the nonce is recorded and what is locked  *)
(* now is read.  If nothing changes the handler is done.                   *)
ReadStake(m) ==
    /\ job["gossip"] = Idle /\ FreshGlobalNonce(m)
    /\ keys' = keys \cup {m.account}
    /\ global_nonces' = Put(global_nonces, m.account, m.nonce)
    /\ Becomes("gossip", IF m.amount = locked[m.account] THEN Idle
                         ELSE [step |-> "move", account |-> m.account,
                               amount |-> m.amount,
                               previous |-> locked[m.account]])
    /\ Untouched
    /\ UNCHANGED <<balances, field, revenue, registry, circulating, locked,
                   seeds, granted>>

(* Mutant: a withdrawal is credited to the wave-field twice.               *)
MoveStakeTwice ==
    LET j == job["gossip"] IN
    /\ j.step = "move" /\ DagLockFree
    /\ IF j.amount - j.previous > Get(field, j.account)
       THEN UNCHANGED <<field, balances>> /\ Becomes("gossip", Idle)
       ELSE /\ field' = Put(field, j.account,
                   IF j.amount > j.previous
                   THEN Get(field, j.account) - (j.amount - j.previous)
                   ELSE Get(field, j.account) + 2 * (j.previous - j.amount))
            /\ balances' = Put(balances, j.account,
                   IF j.amount > j.previous
                   THEN Max({0, Get(balances, j.account) - (j.amount - j.previous)})
                   ELSE Get(balances, j.account) + (j.previous - j.amount))
            /\ Becomes("gossip", [j EXCEPT !.step = "restake"])
    /\ Untouched
    /\ UNCHANGED <<revenue, keys, registry, circulating, locked,
                   global_nonces, seeds, granted>>

(* Under both locks the difference moves out of, or back into, the         *)
(* account.  The DAG's copy saturates at 0.                                *)
MoveStake ==
    LET j == job["gossip"] IN
    /\ j.step = "move" /\ DagLockFree
    /\ IF j.amount - j.previous > Get(field, j.account)
       THEN UNCHANGED <<field, balances>> /\ Becomes("gossip", Idle)
       ELSE /\ field' = Put(field, j.account,
                            Get(field, j.account) - (j.amount - j.previous))
            /\ balances' = Put(balances, j.account,
                   Max({0, Get(balances, j.account) - (j.amount - j.previous)}))
            /\ Becomes("gossip", [j EXCEPT !.step = "restake"])
    /\ Untouched
    /\ UNCHANGED <<revenue, keys, registry, circulating, locked,
                   global_nonces, seeds, granted>>

SetStake ==
    LET j == job["gossip"] IN
    /\ j.step = "restake"
    /\ locked' = [locked EXCEPT ![j.account] = j.amount]
    /\ Becomes("gossip", Idle)
    /\ UNCHANGED <<vars, circulating, global_nonces, seeds, granted,
                   disturbed>>

-----------------------------------------------------------------------------
(* Specification *)

(* A step of the cycle.  Decay takes what it burns out of circulation, as  *)
(* far as that goes, and the copy into the DAG catches a handler between   *)
(* its steps.                                                              *)
CycleStep ==
    /\ Next
    /\ circulating' = Max({0, circulating - (burned' - burned)})
    /\ disturbed' = (disturbed \/ (pc = "sync" /\ pc' = "drain"
                        /\ \E th \in {"api", "gossip"} : job[th] # Idle))
    /\ UNCHANGED <<job, locked, global_nonces, seeds, granted>>

Api ==
    \/ \E a \in Account : EvmFaucet(a) \/ ReserveDomain(a)
    \/ SeedDag \/ SeedField \/ RegisterDomain

GossipTask ==
    \/ \E m \in Registrations : WelcomeDag(m)
    \/ WelcomeField
    \/ \E m \in Stakes : ReadStake(m)
    \/ MoveStake \/ SetStake

NodeNext == CycleStep \/ Api \/ GossipTask

NodeSpec == NodeInit /\ [][NodeNext]_<<vars, nodeVars>>

-----------------------------------------------------------------------------
(* Properties *)

Held ==
    SumFunction(field) + SumFunction(locked) + revenue + burned

Calm == pc = "idle" /\ \A th \in {"api", "gossip"} : job[th] = Idle

(* The handlers' own books are right: as long as none of them overlapped   *)
(* the critical part of a tick, every unit that genesis, the faucet and    *)
(* registrations created is in an account, at stake, in the reward pool or *)
(* burned.                                                                 *)
CalmConservation ==
    Calm /\ ~disturbed => Held = SumFunction(Genesis) + granted

(* The supply tracker knows every unit in existence but the ones that      *)
(* registrations created, whatever decay, fees, stakes and reservations    *)
(* did with them since.                                                    *)
TrackerMissesOnlyWelcomes ==
    LET welcomed == granted - seeds * Grant IN
    Calm /\ ~disturbed => Held - burned = circulating + welcomed

-----------------------------------------------------------------------------
(* Statements of the documentation that the code does not keep *)

(* README: "The oscillator topologically orders the DAG and rejects        *)
(* overdrafts, enforcing the conservation law."  Also when a handler runs  *)
(* during a tick.                                                          *)
NodeConservation ==
    Calm => Held = SumFunction(Genesis) + granted
=============================================================================
