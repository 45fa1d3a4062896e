----------------------------- MODULE NodeProofs -----------------------------
(***************************************************************************)
(* Theorems about OscillatorNode.tla: the synthesis cycle together with    *)
(* the handlers that run on other threads, for any accounts, registrations *)
(* and stakes.                                                             *)
(***************************************************************************)
EXTENDS OscillatorNode, OscillatorProofs

-----------------------------------------------------------------------------
(* Types *)

Thread == {"api", "gossip"}

(* What the two threads can be doing.                                      *)
ApiJob ==
    {Idle} \cup [step : {"seed_dag", "seed_field"}, account : Account]
        \cup [step : {"register"}]
GossipJob ==
    {Idle} \cup [step : {"welcome"}, account : Account, tokens : SUBSET Account]
        \cup [step : {"move", "restake"}, account : Account, amount : Nat,
              previous : Nat]

JobTypeOK ==
    /\ DOMAIN job = Thread /\ job = [th \in Thread |-> job[th]]
    /\ job["api"] \in ApiJob /\ job["gossip"] \in GossipJob

NodeInv == NodeTypeOK /\ JobTypeOK

(* The steps of the two kinds of job.                                      *)
LEMMA JobSteps ==
    ASSUME JobTypeOK
    PROVE  /\ job["api"].step \in {"none", "seed_dag", "seed_field", "register"}
           /\ job["gossip"].step \in {"none", "welcome", "move", "restake"}
           /\ job["api"].step \in {"seed_dag", "seed_field"}
                 => job["api"] \in [step : {"seed_dag", "seed_field"},
                                    account : Account]
           /\ job["gossip"].step = "welcome"
                 => job["gossip"] \in [step : {"welcome"}, account : Account,
                                       tokens : SUBSET Account]
           /\ job["gossip"].step \in {"move", "restake"}
                 => job["gossip"] \in [step : {"move", "restake"},
                                       account : Account, amount : Nat,
                                       previous : Nat]
           /\ job["api"].step = "none" <=> job["api"] = Idle
           /\ job["gossip"].step = "none" <=> job["gossip"] = Idle
<1> USE DEF Idle
<1>1. /\ job["api"].step \in {"none", "seed_dag", "seed_field", "register"}
      /\ job["api"].step \in {"seed_dag", "seed_field"}
            => job["api"] \in [step : {"seed_dag", "seed_field"},
                               account : Account]
      /\ job["api"].step = "none" <=> job["api"] = Idle
  BY DEF JobTypeOK, ApiJob
<1>2. /\ job["gossip"].step \in {"none", "welcome", "move", "restake"}
      /\ job["gossip"].step = "welcome"
            => job["gossip"] \in [step : {"welcome"}, account : Account,
                                  tokens : SUBSET Account]
      /\ job["gossip"].step \in {"move", "restake"}
            => job["gossip"] \in [step : {"move", "restake"},
                                  account : Account, amount : Nat,
                                  previous : Nat]
      /\ job["gossip"].step = "none" <=> job["gossip"] = Idle
  BY DEF JobTypeOK, GossipJob
<1> QED
  BY <1>1, <1>2

(* A thread that takes up a job of its kind.                               *)
LEMMA BecomesType ==
    ASSUME JobTypeOK, NEW th \in Thread, NEW j, Becomes(th, j),
           th = "api" => j \in ApiJob, th = "gossip" => j \in GossipJob
    PROVE  /\ JobTypeOK' /\ job'[th] = j
           /\ \A u \in Thread \ {th} : job'[u] = job[u]
BY DEF JobTypeOK, Becomes, Thread

(* A handler that writes typed balances, keys and policies keeps the       *)
(* oscillator typed.                                                       *)
LEMMA HandlerKeepsType ==
    ASSUME TypeOK, Untouched,
           IsMap(balances', Account, Nat), IsMap(field', Account, Nat),
           revenue' \in Nat, keys' \in SUBSET Account,
           IsMap(registry', Domain, PolicyRecord)
    PROVE  TypeOK'
BY DEF TypeOK, DagTypeOK, Untouched, ingestVars, topoVars, applyVars

(* A credited map is a map.                                                *)
LEMMA CreditType ==
    ASSUME NEW m, IsMap(m, Account, Nat), NEW a \in Account, NEW n \in Nat
    PROVE  /\ IsMap(Credit(m, a, n), Account, Nat)
           /\ DOMAIN Credit(m, a, n) = DOMAIN m \cup {a}
<1>1. Get(m, a) + n \in Nat
  BY GetType
<1>2. DOMAIN Credit(m, a, n) = DOMAIN m \cup {a}
  BY DEF Credit, Put
<1> QED
  BY <1>1, <1>2, PutType DEF Credit

(* What MoveStake leaves in the account.                                   *)
LEMMA MoveStakeType ==
    ASSUME NodeInv, MoveStake
    PROVE  LET j == job["gossip"] IN
           /\ j \in [step : {"move", "restake"}, account : Account,
                     amount : Nat, previous : Nat]
           /\ IsMap(field', Account, Nat) /\ IsMap(balances', Account, Nat)
           /\ \/ UNCHANGED <<field, balances>> /\ Becomes("gossip", Idle)
              \/ /\ Get(field, j.account) - (j.amount - j.previous) \in Nat
                 /\ field' = Put(field, j.account,
                               Get(field, j.account) - (j.amount - j.previous))
                 /\ DOMAIN field' = DOMAIN field \cup {j.account}
                 /\ DOMAIN balances' = DOMAIN balances \cup {j.account}
                 /\ Becomes("gossip", [j EXCEPT !.step = "restake"])
<1> DEFINE j == job["gossip"]
           a == j.account
           d == j.amount - j.previous
           b == Get(balances, a) - d
           copy == Max({0, b})
<1>1. /\ j \in [step : {"move", "restake"}, account : Account, amount : Nat,
                previous : Nat]
      /\ IsMap(field, Account, Nat) /\ IsMap(balances, Account, Nat)
  BY JobSteps DEF MoveStake, NodeInv, NodeTypeOK, TypeOK, DagTypeOK
<1>2. a \in Account /\ d \in Int
  BY <1>1
<1>3. Get(field, a) \in Nat /\ Get(balances, a) \in Nat
  BY <1>1, GetType
<1>4. CASE d > Get(field, a)
  BY <1>1, <1>4 DEF MoveStake
<1>5. CASE ~(d > Get(field, a))
  <2>1. /\ field' = Put(field, a, Get(field, a) - d)
        /\ balances' = Put(balances, a, copy)
        /\ Becomes("gossip", [j EXCEPT !.step = "restake"])
    BY <1>5 DEF MoveStake
  <2>2. Get(field, a) - d \in Nat
    BY <1>2, <1>3, <1>5
  <2>3. copy \in Nat
    <3>1. b \in Int
      BY <1>2, <1>3
    <3> HIDE DEF b
    <3>3. copy \in {0, b} /\ copy >= 0
      <4>1. \E x \in {0, b} : \A y \in {0, b} : x >= y
        BY <3>1
      <4>2. /\ copy \in {0, b}
            /\ \A y \in {0, b} : copy >= y
        BY <4>1, Zenon DEF Max
      <4> QED
        BY <4>2
    <3> QED
      BY <3>1, <3>3
  <2> HIDE DEF copy, a, d
  <2>4. IsMap(field', Account, Nat) /\ IsMap(balances', Account, Nat)
    BY <1>1, <1>2, <2>1, <2>2, <2>3, PutType
  <2>5. /\ DOMAIN field' = DOMAIN field \cup {a}
        /\ DOMAIN balances' = DOMAIN balances \cup {a}
    BY <2>1 DEF Put
  <2> QED
    BY <1>1, <2>1, <2>2, <2>4, <2>5 DEF a, d
<1> QED
  BY <1>4, <1>5

(* What WelcomeField credits.                                              *)
LEMMA WelcomeFieldType ==
    ASSUME NodeInv, WelcomeField
    PROVE  LET m == job["gossip"]
               poor == {a \in m.tokens : Get(field, a) = 0}
           IN  /\ m.account \in Account /\ m.tokens \subseteq Account
               /\ IsMap(field', Account, Nat)
               /\ SumFunction(field')
                     = SumFunction(field) + Bonus * Cardinality(poor)
               /\ Bonus * Cardinality(poor) \in Nat
               /\ DOMAIN field \cup m.tokens \subseteq DOMAIN field'
<1> DEFINE m == job["gossip"]
           poor == {a \in m.tokens : Get(field, a) = 0}
           known == Put(field, m.account, Get(field, m.account))
<1>1. /\ m.account \in Account /\ m.tokens \subseteq Account
      /\ IsMap(field, Account, Nat) /\ Bonus \in Nat
  BY JobSteps, SupplyAssumption
  DEF WelcomeField, NodeInv, NodeTypeOK, TypeOK
<1>2. field' = Overwrite(known, [a \in poor |-> Get(field, a) + Bonus])
  BY DEF WelcomeField
<1>3. Get(field, m.account) \in Nat
  BY <1>1, GetType
<1>4. IsMap(known, Account, Nat) /\ \A a : Get(known, a) = Get(field, a)
  BY <1>1, <1>3, PutType, GetPut
<1>5. SumFunction(known) = SumFunction(field)
  <2>1. SumFunction(known) = (SumFunction(field) - Get(field, m.account))
                                + Get(field, m.account)
    BY <1>1, <1>3, AccountAssumption, SumPut
  <2>2. SumFunction(field) \in Nat
    BY <1>1, AccountAssumption, SumOfMapType
  <2> HIDE DEF known
  <2> QED
    BY <1>3, <2>1, <2>2
<1>6. field' = Overwrite(known, [a \in poor |-> Get(known, a) + Bonus])
  BY <1>2, <1>4
<1>7. poor \subseteq Account /\ IsFiniteSet(poor)
  BY <1>1, AccountAssumption, FS_Subset
<1>8. Bonus * Cardinality(poor) \in Nat
  BY <1>1, <1>7, FS_CardinalityType
<1>9. DOMAIN field \cup m.tokens \subseteq DOMAIN field'
  <2>1. DOMAIN field' = DOMAIN field \cup {m.account} \cup poor
    BY <1>2 DEF Overwrite, Put
  <2>2. \A a \in m.tokens \ poor : a \in DOMAIN field
    BY DEF Get
  <2> QED
    BY <2>1, <2>2
<1> HIDE DEF known, poor
<1>10. /\ IsMap(field', Account, Nat)
       /\ SumFunction(field') = SumFunction(known) + Bonus * Cardinality(poor)
  BY <1>1, <1>4, <1>6, <1>7, AccountAssumption, SumRaise
<1> QED
  BY <1>1, <1>5, <1>8, <1>9, <1>10 DEF poor

(* Every step of the node keeps it typed.                                  *)
LEMMA NodeTypeStep ==
    ASSUME NodeInv, [NodeNext]_<<vars, nodeVars>>
    PROVE  NodeInv'
<1>t. /\ TypeOK /\ JobTypeOK
      /\ IsMap(field, Account, Nat) /\ IsMap(balances, Account, Nat)
      /\ revenue \in Nat /\ keys \in SUBSET Account
      /\ IsMap(registry, Domain, PolicyRecord)
      /\ circulating \in Nat /\ locked \in [Account -> Nat]
      /\ IsMap(global_nonces, Account, Nat)
      /\ seeds \in 0..MaxSeeds /\ granted \in Nat /\ disturbed \in BOOLEAN
  BY DEF NodeInv, NodeTypeOK, TypeOK, DagTypeOK
<1>c. /\ Grant \in Nat /\ Bonus \in Nat /\ Reservation \in Nat /\ MaxSeeds \in Nat
  BY SupplyAssumption
<1>u. Untouched => disturbed' \in BOOLEAN
  BY <1>t, Zenon DEF Untouched
<1>i. Idle \in ApiJob /\ Idle \in GossipJob
  BY DEF ApiJob, GossipJob
<1>n. ASSUME TypeOK', JobTypeOK', circulating' \in Nat,
             locked' \in [Account -> Nat], IsMap(global_nonces', Account, Nat),
             seeds' \in 0..MaxSeeds, granted' \in Nat, disturbed' \in BOOLEAN
      PROVE  NodeInv'
  <2>1. \A th \in Thread : job'[th].step \in Step
    <3>1. job'["api"].step \in Step
      BY <1>n DEF JobTypeOK, ApiJob, Idle, Step
    <3>2. job'["gossip"].step \in Step
      BY <1>n DEF JobTypeOK, GossipJob, Idle, Step
    <3> QED
      BY <3>1, <3>2 DEF Thread
  <2> QED
    BY <1>n, <2>1 DEF NodeInv, NodeTypeOK, Thread
<1>1. CASE CycleStep
  <2>1. TypeOK'
    BY <1>1, <1>t, TypeStep DEF CycleStep
  <2>2. UNCHANGED <<job, locked, global_nonces, seeds, granted>>
    BY <1>1 DEF CycleStep
  <2>3. circulating' \in Nat
    <3> DEFINE b == circulating - (burned' - burned)
    <3>1. b \in Int
      BY <1>t, <2>1 DEF TypeOK
    <3>2. circulating' = Max({0, b})
      BY <1>1 DEF CycleStep
    <3> HIDE DEF b
    <3>3. \E x \in {0, b} : \A y \in {0, b} : x >= y
      BY <3>1
    <3>4. /\ circulating' \in {0, b}
          /\ \A y \in {0, b} : circulating' >= y
      BY <3>2, <3>3, Zenon DEF Max
    <3>5. circulating' >= 0
      BY <3>4
    <3> QED
      BY <3>1, <3>4, <3>5
  <2>4. disturbed' \in BOOLEAN
    BY <1>1, <1>t, Zenon DEF CycleStep
  <2>5. JobTypeOK'
    BY <1>t, <2>2 DEF JobTypeOK
  <2> QED
    BY <1>t, <1>n, <2>1, <2>2, <2>3, <2>4, <2>5
<1>2. ASSUME NEW a \in Account, EvmFaucet(a) PROVE NodeInv'
  <2>1. /\ Untouched
        /\ UNCHANGED <<balances, field, revenue, keys, registry, locked,
                       global_nonces>>
        /\ circulating' = circulating + Grant /\ granted' = granted + Grant
        /\ seeds < MaxSeeds /\ seeds' = seeds + 1
        /\ Becomes("api", [step |-> "seed_dag", account |-> a])
    BY <1>2 DEF EvmFaucet, SeedMint
  <2>2. TypeOK'
    BY <1>t, <2>1, HandlerKeepsType
  <2>3. JobTypeOK'
    <3>1. [step |-> "seed_dag", account |-> a] \in ApiJob
      BY DEF ApiJob
    <3> QED
      BY <1>t, <2>1, <3>1, BecomesType DEF Thread
  <2>4. circulating' \in Nat /\ granted' \in Nat /\ seeds' \in 0..MaxSeeds
    BY <1>t, <1>c, <2>1
  <2> QED
    BY <1>t, <1>n, <1>u, <2>1, <2>2, <2>3, <2>4
<1>3. ASSUME NEW a \in Account, ReserveDomain(a) PROVE NodeInv'
  <2>1. /\ Untouched
        /\ UNCHANGED <<balances, revenue, keys, registry, circulating, locked,
                       global_nonces, seeds, granted>>
        /\ Get(field, a) >= Reservation
        /\ field' = Put(field, a, Get(field, a) - Reservation)
        /\ Becomes("api", [step |-> "register"])
    BY <1>3 DEF ReserveDomain
  <2>2. Get(field, a) - Reservation \in Nat
    BY <1>t, <1>c, <2>1, GetType
  <2>3. IsMap(field', Account, Nat)
    BY <1>t, <2>1, <2>2, PutType
  <2>4. TypeOK'
    BY <1>t, <2>1, <2>3, HandlerKeepsType
  <2>5. JobTypeOK'
    <3>1. [step |-> "register"] \in ApiJob
      BY DEF ApiJob
    <3> QED
      BY <1>t, <2>1, <3>1, BecomesType DEF Thread
  <2> QED
    BY <1>t, <1>n, <1>u, <2>1, <2>4, <2>5
<1>4. CASE SeedDag
  <2>1. /\ Untouched
        /\ UNCHANGED <<field, revenue, keys, registry, circulating, locked,
                       global_nonces, seeds, granted>>
        /\ job["api"] \in [step : {"seed_dag", "seed_field"}, account : Account]
        /\ balances' = Credit(balances, job["api"].account, Grant)
        /\ Becomes("api", [job["api"] EXCEPT !.step = "seed_field"])
    BY <1>4, <1>t, JobSteps DEF SeedDag
  <2>2. IsMap(balances', Account, Nat)
    BY <1>t, <1>c, <2>1, CreditType
  <2>3. TypeOK'
    BY <1>t, <2>1, <2>2, HandlerKeepsType
  <2>4. JobTypeOK'
    <3>1. [job["api"] EXCEPT !.step = "seed_field"] \in ApiJob
      BY <2>1 DEF ApiJob
    <3> QED
      BY <1>t, <2>1, <3>1, BecomesType DEF Thread
  <2> QED
    BY <1>t, <1>n, <1>u, <2>1, <2>3, <2>4
<1>5. CASE SeedField
  <2>1. /\ Untouched
        /\ UNCHANGED <<balances, revenue, keys, registry, circulating, locked,
                       global_nonces, seeds, granted>>
        /\ job["api"] \in [step : {"seed_dag", "seed_field"}, account : Account]
        /\ field' = Credit(field, job["api"].account, Grant)
        /\ Becomes("api", Idle)
    BY <1>5, <1>t, JobSteps DEF SeedField
  <2>2. IsMap(field', Account, Nat)
    BY <1>t, <1>c, <2>1, CreditType
  <2>3. TypeOK'
    BY <1>t, <2>1, <2>2, HandlerKeepsType
  <2>4. JobTypeOK'
    BY <1>t, <1>i, <2>1, BecomesType DEF Thread
  <2> QED
    BY <1>t, <1>n, <1>u, <2>1, <2>3, <2>4
<1>6. CASE RegisterDomain
  <2>1. /\ Untouched
        /\ UNCHANGED <<balances, field, keys, circulating, locked,
                       global_nonces, seeds, granted>>
        /\ revenue' = revenue + Reservation
        /\ registry' = Put(registry, NewDomain, NewPolicy)
        /\ Becomes("api", Idle)
    BY <1>6 DEF RegisterDomain
  <2>2. IsMap(registry', Domain, PolicyRecord)
    BY <1>t, <2>1, HandlerAssumption, PutType
  <2>3. revenue' \in Nat
    BY <1>t, <1>c, <2>1
  <2>4. TypeOK'
    BY <1>t, <2>1, <2>2, <2>3, HandlerKeepsType
  <2>5. JobTypeOK'
    BY <1>t, <1>i, <2>1, BecomesType DEF Thread
  <2> QED
    BY <1>t, <1>n, <1>u, <2>1, <2>4, <2>5
<1>7. ASSUME NEW m \in Registrations, WelcomeDag(m) PROVE NodeInv'
  <2> DEFINE j == [step |-> "welcome", account |-> m.account,
                   tokens |-> {m.wave, m.usdc}]
  <2>1. /\ Untouched
        /\ UNCHANGED <<field, revenue, registry, circulating, locked, seeds,
                       granted>>
        /\ keys' = keys \cup {m.account, m.wave, m.usdc}
        /\ global_nonces' = Put(global_nonces, m.account, m.nonce)
        /\ balances' = Credit(Credit(balances, m.wave, Bonus), m.usdc, Bonus)
        /\ Becomes("gossip", j)
    BY <1>7 DEF WelcomeDag
  <2>2. /\ m.account \in Account /\ m.wave \in Account /\ m.usdc \in Account
        /\ m.nonce \in Nat
    BY HandlerAssumption
  <2>3. IsMap(balances', Account, Nat)
    BY <1>t, <1>c, <2>1, <2>2, CreditType
  <2>4. IsMap(global_nonces', Account, Nat)
    BY <1>t, <2>1, <2>2, PutType
  <2>5. TypeOK'
    <3>1. keys' \in SUBSET Account
      BY <1>t, <2>1, <2>2
    <3> QED
      BY <1>t, <2>1, <2>3, <3>1, HandlerKeepsType
  <2>6. JobTypeOK'
    <3>1. j \in GossipJob
      BY <2>2 DEF GossipJob
    <3> QED
      BY <1>t, <2>1, <3>1, BecomesType DEF Thread
  <2> QED
    BY <1>t, <1>n, <1>u, <2>1, <2>4, <2>5, <2>6
<1>8. CASE WelcomeField
  <2> DEFINE raised == Bonus * Cardinality({a \in job["gossip"].tokens :
                                               Get(field, a) = 0})
  <2>1. /\ Untouched
        /\ UNCHANGED <<balances, revenue, keys, registry, circulating, locked,
                       global_nonces, seeds>>
        /\ granted' = granted + raised
        /\ Becomes("gossip", Idle)
    BY <1>8 DEF WelcomeField
  <2>2. IsMap(field', Account, Nat) /\ raised \in Nat
    BY <1>8, WelcomeFieldType
  <2>3. TypeOK'
    BY <1>t, <2>1, <2>2, HandlerKeepsType
  <2>4. JobTypeOK'
    BY <1>t, <1>i, <2>1, BecomesType DEF Thread
  <2>5. granted' \in Nat
    <3> HIDE DEF raised
    <3> QED
      BY <1>t, <2>1, <2>2
  <2> QED
    BY <1>t, <1>n, <1>u, <2>1, <2>3, <2>4, <2>5
<1>9. ASSUME NEW m \in Stakes, ReadStake(m) PROVE NodeInv'
  <2> DEFINE j == IF m.amount = locked[m.account] THEN Idle
                  ELSE [step |-> "move", account |-> m.account,
                        amount |-> m.amount, previous |-> locked[m.account]]
  <2>1. /\ Untouched
        /\ UNCHANGED <<balances, field, revenue, registry, circulating,
                       locked, seeds, granted>>
        /\ keys' = keys \cup {m.account}
        /\ global_nonces' = Put(global_nonces, m.account, m.nonce)
        /\ Becomes("gossip", j)
    BY <1>9 DEF ReadStake
  <2>2. m.account \in Account /\ m.amount \in Nat /\ m.nonce \in Nat
    BY HandlerAssumption
  <2>3. IsMap(global_nonces', Account, Nat)
    BY <1>t, <2>1, <2>2, PutType
  <2>4. TypeOK'
    <3>1. keys' \in SUBSET Account
      BY <1>t, <2>1, <2>2
    <3> QED
      BY <1>t, <2>1, <3>1, HandlerKeepsType
  <2>5. JobTypeOK'
    <3>1. j \in GossipJob
      BY <1>t, <1>i, <2>2 DEF GossipJob
    <3> QED
      BY <1>t, <2>1, <3>1, BecomesType DEF Thread
  <2> QED
    BY <1>t, <1>n, <1>u, <2>1, <2>3, <2>4, <2>5
<1>10. CASE MoveStake
  <2>1. /\ Untouched
        /\ UNCHANGED <<revenue, keys, registry, circulating, locked,
                       global_nonces, seeds, granted>>
    BY <1>10 DEF MoveStake
  <2>2. /\ job["gossip"] \in [step : {"move", "restake"}, account : Account,
                              amount : Nat, previous : Nat]
        /\ IsMap(field', Account, Nat) /\ IsMap(balances', Account, Nat)
        /\ \/ Becomes("gossip", Idle)
           \/ Becomes("gossip", [job["gossip"] EXCEPT !.step = "restake"])
    BY <1>10, MoveStakeType
  <2>3. TypeOK'
    BY <1>t, <2>1, <2>2, HandlerKeepsType
  <2>4. JobTypeOK'
    <3>1. [job["gossip"] EXCEPT !.step = "restake"] \in GossipJob
      BY <2>2 DEF GossipJob
    <3> QED
      BY <1>t, <1>i, <2>2, <3>1, BecomesType DEF Thread
  <2> QED
    BY <1>t, <1>n, <1>u, <2>1, <2>3, <2>4
<1>11. CASE SetStake
  <2>1. /\ UNCHANGED vars
        /\ UNCHANGED <<circulating, global_nonces, seeds, granted, disturbed>>
        /\ Becomes("gossip", Idle)
        /\ locked' = [locked EXCEPT ![job["gossip"].account] =
                         job["gossip"].amount]
        /\ job["gossip"].amount \in Nat
    BY <1>11, <1>t, JobSteps DEF SetStake
  <2>2. TypeOK'
    BY <1>t, <2>1, TypeStep
  <2>3. JobTypeOK'
    BY <1>t, <1>i, <2>1, BecomesType DEF Thread
  <2>4. locked' \in [Account -> Nat]
    BY <1>t, <2>1
  <2> QED
    BY <1>t, <1>n, <2>1, <2>2, <2>3, <2>4
<1>12. CASE UNCHANGED <<vars, nodeVars>>
  <2>1. TypeOK'
    BY <1>t, <1>12, TypeStep
  <2>2. UNCHANGED <<job, circulating, locked, global_nonces, seeds, granted,
                    disturbed>>
    BY <1>12 DEF nodeVars
  <2>3. JobTypeOK'
    BY <1>t, <2>2 DEF JobTypeOK
  <2> QED
    BY <1>t, <1>n, <2>1, <2>2, <2>3
<1> QED
  BY <1>1, <1>2, <1>3, <1>4, <1>5, <1>6, <1>7, <1>8, <1>9, <1>10, <1>11, <1>12
  DEF NodeNext, Api, GossipTask

(* The node starts typed.                                                  *)
LEMMA NodeTypeInit == NodeInit => NodeInv
<1> SUFFICES ASSUME NodeInit PROVE NodeInv
  OBVIOUS
<1>1. TypeOK
  BY TypeInit DEF NodeInit
<1>2. SumFunction(Genesis) \in Nat
  BY GenesisAssumption, AccountAssumption, SumOfMapType
<1>3. JobTypeOK /\ \A th \in Thread : job[th].step = "none"
  BY DEF NodeInit, JobTypeOK, ApiJob, GossipJob, Thread, Idle
<1>4. IsMap(global_nonces, Account, Nat)
  BY DEF NodeInit, IsMap
<1>5. /\ circulating \in Nat /\ locked \in [Account -> Nat]
      /\ seeds \in 0..MaxSeeds /\ granted \in Nat
  BY <1>2, SupplyAssumption DEF NodeInit
<1>6. disturbed \in BOOLEAN
  BY Zenon DEF NodeInit
<1> QED
  BY <1>1, <1>3, <1>4, <1>5, <1>6 DEF NodeInv, NodeTypeOK, Thread, Step

(* The node is typed in every reachable state: no handler, whatever step   *)
(* of the cycle it overlaps, takes more from an account than it holds.     *)
THEOREM NodeTypeCorrect == NodeSpec => []NodeTypeOK
<1>1. NodeInv /\ [NodeNext]_<<vars, nodeVars>> => NodeInv'
  BY NodeTypeStep
<1>2. NodeInv => NodeTypeOK
  BY DEF NodeInv
<1> QED
  BY <1>1, <1>2, NodeTypeInit, PTL DEF NodeSpec

-----------------------------------------------------------------------------
(* The topological order, with handlers around it *)

(* A handler leaves the DAG and the order alone.                           *)
LEMMA NodeOrderStep ==
    ASSUME NodeInv, OrderInv, [NodeNext]_<<vars, nodeVars>>
    PROVE  OrderInv'
<1>1. CASE Next \/ UNCHANGED vars
  BY <1>1, OrderStep DEF NodeInv, NodeTypeOK
<1>2. CASE Untouched
  <2>1. /\ nodes' = nodes /\ roots' = roots /\ children' = children
        /\ pc' = pc /\ ready' = ready /\ in_degree' = in_degree
        /\ order' = order /\ stateful_hashes' = stateful_hashes
    BY <1>2 DEF Untouched, topoVars, applyVars
  <2>2. GraphInv'
    BY <2>1 DEF OrderInv, GraphInv, Acyclic
  <2> QED
    BY <2>1, <2>2, OrderUntouched
<1>3. Next \/ UNCHANGED vars \/ Untouched
  BY DEF NodeNext, CycleStep, Api, GossipTask, EvmFaucet, SeedMint, SeedDag,
         SeedField, ReserveDomain, RegisterDomain, WelcomeDag, WelcomeField,
         ReadStake, MoveStake, SetStake
<1> QED
  BY <1>1, <1>2, <1>3

-----------------------------------------------------------------------------
(* Conservation, with handlers around the cycle *)

(* What a handler under way has taken from one place and not yet brought   *)
(* to another.                                                             *)
ApiTransit(j) ==
    IF j.step \in {"seed_dag", "seed_field"} THEN Grant
    ELSE IF j.step = "register" THEN Reservation
    ELSE 0
StakeTransit(j) ==
    IF j.step = "restake" THEN j.amount - j.previous ELSE 0
InTransit == ApiTransit(job["api"]) + StakeTransit(job["gossip"])

(* What the accounts, the reward pool and the burned supply have to make.  *)
Due == ((SumFunction(Genesis) + granted) - SumFunction(locked)) - InTransit

(* Accounts that a handler has credited in the DAG, and has still to       *)
(* credit in the wave-field.                                               *)
SeedOwed(j) == IF j.step = "seed_field" THEN {j.account} ELSE {}
WelcomeOwed(j) == IF j.step = "welcome" THEN j.tokens ELSE {}
Owed == SeedOwed(job["api"]) \cup WelcomeOwed(job["gossip"])

(* The stake that a handler read is still what is locked: one thread runs  *)
(* all of these handlers.                                                  *)
StakeIsCurrent ==
    job["gossip"].step \in {"move", "restake"}
        => locked[job["gossip"].account] = job["gossip"].previous

(* As long as no handler overlapped the critical part of a tick, no        *)
(* handler is under way in it, the copies of the balances are in step in   *)
(* it, and the books balance up to what is in transit.                     *)
CalmInv ==
    ~disturbed =>
        /\ Critical => job["api"] = Idle /\ job["gossip"] = Idle
        /\ ~Critical => DOMAIN balances \subseteq DOMAIN field \cup Owed
        /\ MirrorInv
        /\ Conserves(Due)

(* Amounts in transit are numbers.                                         *)
LEMMA TransitType ==
    ASSUME NodeInv
    PROVE  /\ InTransit \in Int /\ ApiTransit(job["api"]) \in Nat
           /\ StakeTransit(job["gossip"]) \in Int
           /\ SumFunction(locked) \in Nat /\ SumFunction(field) \in Nat
           /\ SumFunction(Genesis) \in Nat /\ Due \in Int
<1>1. ApiTransit(job["api"]) \in Nat
  BY SupplyAssumption DEF ApiTransit
<1>2. StakeTransit(job["gossip"]) \in Int
  BY JobSteps DEF NodeInv, StakeTransit
<1>3. InTransit \in Int
  BY <1>1, <1>2 DEF InTransit
<1>4. SumFunction(Genesis) \in Nat /\ SumFunction(field) \in Nat
  BY GenesisAssumption, AccountAssumption, SumOfMapType
  DEF NodeInv, NodeTypeOK, TypeOK
<1>5. SumFunction(locked) \in Nat
  <2>1. IsMap(locked, Account, Nat)
    BY DEF NodeInv, NodeTypeOK, IsMap
  <2> QED
    BY <2>1, AccountAssumption, SumOfMapType
<1>6. granted \in Nat
  BY DEF NodeInv, NodeTypeOK
<1>7. Due \in Int
  BY <1>3, <1>4, <1>5, <1>6 DEF Due
<1> QED
  BY <1>1, <1>2, <1>3, <1>4, <1>5, <1>7

(* The part of it that is also needed of the next state.                   *)
LEMMA TransitNumbers ==
    NodeInv => InTransit \in Int /\ SumFunction(field) \in Nat
BY TransitType

(* Only the gossip thread changes stakes, one announcement at a time.      *)
LEMMA StakeStep ==
    ASSUME NodeInv, StakeIsCurrent, [NodeNext]_<<vars, nodeVars>>
    PROVE  StakeIsCurrent'
<1>t. JobTypeOK /\ locked \in [Account -> Nat]
  BY DEF NodeInv, NodeTypeOK
<1>i. Idle.step = "none" /\ Idle \in GossipJob
  BY DEF Idle, GossipJob
<1>1. ASSUME job'["gossip"].step \notin {"move", "restake"}
      PROVE  StakeIsCurrent'
  BY <1>1 DEF StakeIsCurrent
<1>2. ASSUME job'["gossip"] = job["gossip"], locked' = locked
      PROVE  StakeIsCurrent'
  BY <1>2 DEF StakeIsCurrent
<1>3. ASSUME Becomes("gossip", Idle) PROVE StakeIsCurrent'
  <2>1. job'["gossip"] = Idle
    BY <1>3, <1>t DEF JobTypeOK, Becomes, Thread
  <2> QED
    BY <1>1, <1>i, <2>1
<1>4. ASSUME NEW m \in Registrations, WelcomeDag(m) PROVE StakeIsCurrent'
  <2>1. job'["gossip"].step = "welcome"
    BY <1>4, <1>t DEF WelcomeDag, JobTypeOK, Becomes, Thread
  <2> QED
    BY <1>1, <2>1
<1>5. ASSUME NEW m \in Stakes, ReadStake(m) PROVE StakeIsCurrent'
  <2>1. locked' = locked
    BY <1>5 DEF ReadStake
  <2>2. CASE m.amount = locked[m.account]
    BY <1>3, <1>5, <2>2 DEF ReadStake
  <2>3. CASE m.amount # locked[m.account]
    <3>1. job'["gossip"] = [step |-> "move", account |-> m.account,
                            amount |-> m.amount, previous |-> locked[m.account]]
      BY <1>5, <1>t, <2>3 DEF ReadStake, JobTypeOK, Becomes, Thread
    <3> QED
      BY <2>1, <3>1 DEF StakeIsCurrent
  <2> QED
    BY <2>2, <2>3
<1>6. CASE MoveStake
  <2> DEFINE j == job["gossip"]
  <2>1. locked' = locked /\ j.step = "move"
    BY <1>6 DEF MoveStake
  <2>2. CASE Becomes("gossip", [j EXCEPT !.step = "restake"])
    <3>1. /\ j \in [step : {"move", "restake"}, account : Account,
                    amount : Nat, previous : Nat]
          /\ job'["gossip"] = [j EXCEPT !.step = "restake"]
      BY <1>t, <2>1, <2>2, JobSteps DEF JobTypeOK, Becomes, Thread
    <3>2. /\ job'["gossip"].account = j.account
          /\ job'["gossip"].previous = j.previous
      BY <3>1
    <3> QED
      BY <2>1, <3>2 DEF StakeIsCurrent
  <2> QED
    BY <1>3, <1>6, <2>2 DEF MoveStake
<1>7. CASE Api
  <2>1. locked' = locked /\ \E j : Becomes("api", j)
    BY <1>7 DEF Api, EvmFaucet, SeedMint, SeedDag, SeedField, ReserveDomain,
                RegisterDomain
  <2>2. job'["gossip"] = job["gossip"]
    BY <1>t, <2>1 DEF JobTypeOK, Becomes, Thread
  <2> QED
    BY <1>2, <2>1, <2>2
<1>8. CASE WelcomeField \/ SetStake
  BY <1>3, <1>8 DEF WelcomeField, SetStake
<1>9. CASE CycleStep \/ UNCHANGED <<vars, nodeVars>>
  BY <1>2, <1>9 DEF CycleStep, nodeVars
<1> QED
  BY <1>4, <1>5, <1>6, <1>7, <1>8, <1>9 DEF NodeNext, GossipTask

(* Away from the critical part, a handler keeps the books if what it adds  *)
(* to the accounts and the reward pool is what was granted or brought out  *)
(* of transit, and if it leaves no account of the DAG without a creditor.  *)
LEMMA HandlerBooks ==
    ASSUME NodeInv, NodeInv', CalmInv, Untouched, locked' = locked,
           (SumFunction(field') + revenue') - (SumFunction(field) + revenue)
              = (granted' - granted) - (InTransit' - InTransit),
           DOMAIN balances \subseteq DOMAIN field \cup Owed
              => DOMAIN balances' \subseteq DOMAIN field' \cup Owed'
    PROVE  CalmInv'
<1> SUFFICES ASSUME ~disturbed'
             PROVE  /\ ~Critical'
                    /\ DOMAIN balances' \subseteq DOMAIN field' \cup Owed'
                    /\ MirrorInv'
                    /\ Conserves(Due)'
  BY DEF CalmInv
<1>1. ~disturbed /\ ~Critical
  BY Zenon DEF Untouched
<1>2. /\ DOMAIN balances \subseteq DOMAIN field \cup Owed
      /\ Conserves(Due)
  BY <1>1 DEF CalmInv
<1>3. pc' = pc /\ burned' = burned
  BY DEF Untouched
<1>4. pc \in {"idle", "decay", "sync"}
  BY <1>1 DEF Critical
<1>5. ~Critical' /\ MirrorInv'
  BY <1>3, <1>4 DEF Critical, MirrorInv
<1>6. /\ InTransit \in Int /\ InTransit' \in Int
      /\ SumFunction(field) \in Nat /\ SumFunction(field') \in Nat
      /\ SumFunction(locked) \in Nat /\ SumFunction(Genesis) \in Nat
  <2>1. (NodeInv => InTransit \in Int /\ SumFunction(field) \in Nat)'
    BY TransitNumbers, PTL
  <2> QED
    BY <2>1, TransitType
<1>7. /\ revenue \in Nat /\ burned \in Nat /\ granted \in Nat
      /\ revenue' \in Nat /\ granted' \in Nat
  BY DEF NodeInv, NodeTypeOK, TypeOK
<1>8. SumFunction(field) + (revenue + burned) = Due
  BY <1>2, <1>4 DEF Conserves
<1>9. Due' = ((SumFunction(Genesis) + granted') - SumFunction(locked))
                - InTransit'
  BY DEF Due
<1>10. SumFunction(field') + (revenue' + burned') = Due'
  <2> DEFINE total == SumFunction(field)
             total2 == SumFunction(field')
             stake == SumFunction(locked)
             genesis == SumFunction(Genesis)
  <2>1. /\ total \in Nat /\ total2 \in Nat /\ stake \in Nat /\ genesis \in Nat
        /\ (total2 + revenue') - (total + revenue)
              = (granted' - granted) - (InTransit' - InTransit)
        /\ total + (revenue + burned) = ((genesis + granted) - stake) - InTransit
        /\ Due' = ((genesis + granted') - stake) - InTransit'
    BY <1>6, <1>8, <1>9 DEF Due
  <2> HIDE DEF total, total2, stake, genesis
  <2>2. InTransit \in Int /\ InTransit' \in Int
    BY <1>6
  <2>3. total2 + (revenue' + burned') = Due'
    BY <1>3, <1>7, <2>1, <2>2
  <2> QED
    BY <2>3 DEF total2
<1>11. Conserves(Due)'
  BY <1>3, <1>4, <1>10 DEF Conserves
<1> QED
  BY <1>2, <1>5, <1>11

(* The domains that a step of the cycle leaves outside the critical part.  *)
LEMMA CycleDomains ==
    ASSUME TypeOK, OrderInv, MirrorInv, [Next]_vars, ~Critical'
    PROVE  \/ DOMAIN field' = DOMAIN balances'
           \/ /\ ~Critical
              /\ DOMAIN field' = DOMAIN field /\ balances' = balances
<1>1. CASE Publish
  <2>1. /\ pc = "publish" /\ balances' = balances
        /\ field' = Overwrite(field, sim)
    BY <1>1 DEF Publish, dagVars
  <2>2. field' = sim
    BY <2>1, OverwriteAll DEF MirrorInv, TypeOK
  <2> QED
    BY <2>1, <2>2 DEF MirrorInv
<1>2. CASE EndOrder
  BY <1>2, OrderEnds DEF OrderInv, Critical
<1>3. CASE Decay
  <2>1. pc = "decay" /\ balances' = balances
    BY <1>3 DEF Decay, dagVars
  <2>2. DOMAIN field' = DOMAIN field
    BY <1>3 DEF Decay
  <2> QED
    BY <2>1, <2>2 DEF Critical
<1>4. CASE BeginTick
  BY <1>4 DEF BeginTick, Critical, dagVars
<1>5. CASE InsertNext \/ PickReady \/ ApplyNext
  BY <1>5 DEF InsertNext, PickReady, ApplyNext, Critical
<1>6. CASE SyncBalances \/ DrainPending \/ MarkAndFinalize \/ BeginOrder
              \/ EndApply \/ ChargeFees \/ Commit
  BY <1>6 DEF SyncBalances, DrainPending, MarkAndFinalize, BeginOrder,
              EndApply, ChargeFees, Commit, Critical
<1>7. CASE Ingest \/ Environment \/ BoundReached \/ UNCHANGED vars
  BY <1>7 DEF Ingest, Enqueue, IngestStateful, Environment, LearnKey,
              QuorumChange, BoundReached, vars, dagVars, Critical
<1> QED
  BY <1>1, <1>2, <1>3, <1>4, <1>5, <1>6, <1>7 DEF Next, Synthesize

(* The cycle enters the critical part only by copying the balances.        *)
LEMMA CycleEnters ==
    ASSUME TypeOK, [Next]_vars, ~Critical
    PROVE  \/ ~Critical' /\ (pc = "sync" => pc' = "sync")
           \/ pc = "sync" /\ pc' = "drain"
<1>1. pc \in {"idle", "decay", "sync"}
  BY DEF Critical
<1>2. CASE Ingest \/ Environment \/ BoundReached \/ UNCHANGED vars
  BY <1>1, <1>2 DEF Ingest, Enqueue, IngestStateful, Environment, LearnKey,
                    QuorumChange, BoundReached, vars, Critical
<1>3. CASE Synthesize
  BY <1>1, <1>3
  DEF Synthesize, BeginTick, Decay, SyncBalances, DrainPending, InsertNext,
      MarkAndFinalize, BeginOrder, PickReady, EndOrder, ApplyNext, EndApply,
      ChargeFees, Commit, Publish, Critical
<1> QED
  BY <1>2, <1>3 DEF Next

(* The cycle keeps the books of an undisturbed node.                       *)
LEMMA CycleBooks ==
    ASSUME NodeInv, OrderInv, CalmInv, [Next]_vars,
           UNCHANGED <<job, locked, granted>>,
           disturbed \/ (pc = "sync" /\ pc' = "drain"
                            /\ \E th \in {"api", "gossip"} : job[th] # Idle)
              => disturbed'
    PROVE  CalmInv'
<1> SUFFICES ASSUME ~disturbed' PROVE CalmInv'
  BY DEF CalmInv
<1>1. /\ ~disturbed
      /\ pc = "sync" /\ pc' = "drain"
            => job["api"] = Idle /\ job["gossip"] = Idle
  OBVIOUS
<1>2. /\ Critical => job["api"] = Idle /\ job["gossip"] = Idle
      /\ ~Critical => DOMAIN balances \subseteq DOMAIN field \cup Owed
      /\ MirrorInv
      /\ Conserves(Due)
  BY <1>1 DEF CalmInv
<1>3. TypeOK
  BY DEF NodeInv, NodeTypeOK
<1>4. Due' = Due /\ Owed' = Owed
  BY DEF Due, Owed, InTransit
<1>5. Critical' => job'["api"] = Idle /\ job'["gossip"] = Idle
  BY <1>1, <1>2, <1>3, CycleEnters
<1>6. ~Critical' => DOMAIN balances' \subseteq DOMAIN field' \cup Owed'
  BY <1>2, <1>3, <1>4, CycleDomains
<1>7. MirrorInv'
  <2>1. CASE pc = "sync" /\ pc' = "drain"
    <3>1. Owed = {}
      BY <1>1, <2>1 DEF Owed, SeedOwed, WelcomeOwed, Idle
    <3>2. DOMAIN balances \subseteq DOMAIN field
      BY <1>2, <2>1, <3>1 DEF Critical
    <3> QED
      BY <1>2, <1>3, <3>2, MirrorStep
  <2>2. CASE pc = "sync" /\ pc' # "drain"
    <3>1. pc' = "sync"
      BY <1>3, <2>2, CycleEnters DEF Critical
    <3> QED
      BY <3>1 DEF MirrorInv
  <2>3. CASE pc # "sync"
    BY <1>2, <1>3, <2>3, MirrorStep
  <2> QED
    BY <2>1, <2>2, <2>3
<1>8. Conserves(Due)'
  <2>1. PICK total : total = Due
    OBVIOUS
  <2>2. Conserves(total)
    BY <1>2, <2>1
  <2>3. Conserves(total)'
    BY <1>2, <1>3, <2>2, ConservationStep
  <2> QED
    BY <1>4, <2>1, <2>3 DEF Conserves
<1> QED
  BY <1>5, <1>6, <1>7, <1>8 DEF CalmInv

(* What is in transit, and owed, once a thread has changed its job.        *)
LEMMA TransitChange ==
    ASSUME JobTypeOK, NEW j
    PROVE  /\ Becomes("api", j) =>
                 /\ InTransit' = ApiTransit(j) + StakeTransit(job["gossip"])
                 /\ Owed' = SeedOwed(j) \cup WelcomeOwed(job["gossip"])
           /\ Becomes("gossip", j) =>
                 /\ InTransit' = ApiTransit(job["api"]) + StakeTransit(j)
                 /\ Owed' = SeedOwed(job["api"]) \cup WelcomeOwed(j)
<1>1. ASSUME Becomes("api", j)
      PROVE  /\ InTransit' = ApiTransit(j) + StakeTransit(job["gossip"])
             /\ Owed' = SeedOwed(j) \cup WelcomeOwed(job["gossip"])
  <2>1. job'["api"] = j /\ job'["gossip"] = job["gossip"]
    BY <1>1 DEF JobTypeOK, Becomes, Thread
  <2> QED
    BY <2>1 DEF InTransit, Owed, ApiTransit, StakeTransit, SeedOwed, WelcomeOwed
<1>2. ASSUME Becomes("gossip", j)
      PROVE  /\ InTransit' = ApiTransit(job["api"]) + StakeTransit(j)
             /\ Owed' = SeedOwed(job["api"]) \cup WelcomeOwed(j)
  <2>1. job'["gossip"] = j /\ job'["api"] = job["api"]
    BY <1>2 DEF JobTypeOK, Becomes, Thread
  <2> QED
    BY <2>1 DEF InTransit, Owed, ApiTransit, StakeTransit, SeedOwed, WelcomeOwed
<1> QED
  BY <1>1, <1>2

(* The API thread's handlers keep the books.                               *)
LEMMA ApiBooks ==
    ASSUME NodeInv, NodeInv', CalmInv, Api
    PROVE  CalmInv'
<1> USE DEF InTransit, Owed
<1>t. /\ JobTypeOK /\ IsMap(field, Account, Nat) /\ IsMap(balances, Account, Nat)
      /\ revenue \in Nat /\ granted \in Nat /\ Grant \in Nat
      /\ Reservation \in Nat /\ SumFunction(field) \in Nat
      /\ StakeTransit(job["gossip"]) \in Int
  BY TransitType, SupplyAssumption DEF NodeInv, NodeTypeOK, TypeOK, DagTypeOK
<1>i. ApiTransit(Idle) = 0 /\ SeedOwed(Idle) = {}
  BY DEF ApiTransit, SeedOwed, Idle
<1>1. ASSUME NEW a \in Account, EvmFaucet(a) PROVE CalmInv'
  <2> DEFINE j == [step |-> "seed_dag", account |-> a]
  <2>1. /\ Untouched /\ UNCHANGED <<balances, field, revenue, locked>>
        /\ job["api"] = Idle /\ granted' = granted + Grant /\ Becomes("api", j)
    BY <1>1 DEF EvmFaucet, SeedMint
  <2>2. ApiTransit(j) = Grant /\ SeedOwed(j) = {}
    BY DEF ApiTransit, SeedOwed
  <2> HIDE DEF j
  <2>3. InTransit' = InTransit + Grant /\ Owed' = Owed
    BY <1>t, <1>i, <2>1, <2>2, TransitChange
  <2>4. (SumFunction(field') + revenue') - (SumFunction(field) + revenue)
           = (granted' - granted) - (InTransit' - InTransit)
    <3>1. InTransit \in Int
      BY TransitType
    <3> QED
      BY <1>t, <2>1, <2>3, <3>1
  <2> QED
    BY <2>1, <2>3, <2>4, HandlerBooks
<1>2. ASSUME NEW a \in Account, ReserveDomain(a) PROVE CalmInv'
  <2> DEFINE j == [step |-> "register"]
  <2>1. /\ Untouched /\ UNCHANGED <<balances, revenue, locked, granted>>
        /\ job["api"] = Idle /\ Becomes("api", j)
        /\ Get(field, a) >= Reservation
        /\ field' = Put(field, a, Get(field, a) - Reservation)
    BY <1>2 DEF ReserveDomain
  <2>2. ApiTransit(j) = Reservation /\ SeedOwed(j) = {}
    BY DEF ApiTransit, SeedOwed
  <2> HIDE DEF j
  <2>3. InTransit' = InTransit + Reservation /\ Owed' = Owed
    BY <1>t, <1>i, <2>1, <2>2, TransitChange
  <2>4. SumFunction(field') = SumFunction(field) - Reservation
    <3>1. Get(field, a) \in Nat /\ Get(field, a) - Reservation \in Nat
      BY <1>t, <2>1, GetType
    <3>2. SumFunction(field') = (SumFunction(field) - Get(field, a))
                                   + (Get(field, a) - Reservation)
      BY <1>t, <2>1, <3>1, AccountAssumption, SumPut
    <3> QED
      BY <1>t, <3>1, <3>2
  <2>5. (SumFunction(field') + revenue') - (SumFunction(field) + revenue)
           = (granted' - granted) - (InTransit' - InTransit)
    <3>1. InTransit \in Int
      BY TransitType
    <3> QED
      BY <1>t, <2>1, <2>3, <2>4, <3>1
  <2>6. DOMAIN field \subseteq DOMAIN field'
    BY <2>1 DEF Put
  <2> QED
    BY <2>1, <2>3, <2>5, <2>6, HandlerBooks
<1>3. CASE SeedDag
  <2> DEFINE j == [job["api"] EXCEPT !.step = "seed_field"]
  <2>1. /\ Untouched /\ UNCHANGED <<field, revenue, locked, granted>>
        /\ job["api"].step = "seed_dag" /\ Becomes("api", j)
        /\ balances' = Credit(balances, job["api"].account, Grant)
        /\ job["api"] \in [step : {"seed_dag", "seed_field"}, account : Account]
    BY <1>3, <1>t, JobSteps DEF SeedDag
  <2>2. /\ ApiTransit(j) = ApiTransit(job["api"])
        /\ SeedOwed(job["api"]) = {} /\ SeedOwed(j) = {job["api"].account}
    BY <2>1 DEF ApiTransit, SeedOwed
  <2> HIDE DEF j
  <2>3. InTransit' = InTransit /\ Owed' = Owed \cup {job["api"].account}
    BY <1>t, <2>1, <2>2, TransitChange
  <2>4. DOMAIN balances' = DOMAIN balances \cup {job["api"].account}
    BY <1>t, <2>1, CreditType
  <2>5. (SumFunction(field') + revenue') - (SumFunction(field) + revenue)
           = (granted' - granted) - (InTransit' - InTransit)
    <3>1. InTransit \in Int
      BY TransitType
    <3> QED
      BY <1>t, <2>1, <2>3, <3>1
  <2> QED
    BY <2>1, <2>3, <2>4, <2>5, HandlerBooks
<1>4. CASE SeedField
  <2> DEFINE a == job["api"].account
  <2>1. /\ Untouched /\ UNCHANGED <<balances, revenue, locked, granted>>
        /\ job["api"].step = "seed_field" /\ Becomes("api", Idle)
        /\ field' = Credit(field, a, Grant)
        /\ job["api"] \in [step : {"seed_dag", "seed_field"}, account : Account]
    BY <1>4, <1>t, JobSteps DEF SeedField
  <2>2. ApiTransit(job["api"]) = Grant /\ SeedOwed(job["api"]) = {a}
    BY <2>1 DEF ApiTransit, SeedOwed
  <2>3. InTransit' = InTransit - Grant /\ Owed \subseteq Owed' \cup {a}
    BY <1>t, <1>i, <2>1, <2>2, TransitChange
  <2>4. SumFunction(field') = SumFunction(field) + Grant
    <3>1. Get(field, a) \in Nat /\ Get(field, a) + Grant \in Nat
      BY <1>t, GetType
    <3>2. SumFunction(field') = (SumFunction(field) - Get(field, a))
                                   + (Get(field, a) + Grant)
      BY <1>t, <2>1, <3>1, AccountAssumption, SumPut DEF Credit
    <3> QED
      BY <1>t, <3>1, <3>2
  <2>5. (SumFunction(field') + revenue') - (SumFunction(field) + revenue)
           = (granted' - granted) - (InTransit' - InTransit)
    <3>1. InTransit \in Int
      BY TransitType
    <3> QED
      BY <1>t, <2>1, <2>3, <2>4, <3>1
  <2>6. DOMAIN field' = DOMAIN field \cup {a}
    BY <1>t, <2>1, CreditType
  <2> QED
    BY <2>1, <2>3, <2>5, <2>6, HandlerBooks
<1>5. CASE RegisterDomain
  <2>1. /\ Untouched /\ UNCHANGED <<balances, field, locked, granted>>
        /\ job["api"].step = "register" /\ Becomes("api", Idle)
        /\ revenue' = revenue + Reservation
    BY <1>5 DEF RegisterDomain
  <2>2. ApiTransit(job["api"]) = Reservation /\ SeedOwed(job["api"]) = {}
    BY <2>1 DEF ApiTransit, SeedOwed
  <2>3. InTransit' = InTransit - Reservation /\ Owed' = Owed
    BY <1>t, <1>i, <2>1, <2>2, TransitChange
  <2>4. (SumFunction(field') + revenue') - (SumFunction(field) + revenue)
           = (granted' - granted) - (InTransit' - InTransit)
    <3>1. InTransit \in Int
      BY TransitType
    <3> QED
      BY <1>t, <2>1, <2>3, <3>1
  <2> QED
    BY <2>1, <2>3, <2>4, HandlerBooks
<1> QED
  BY <1>1, <1>2, <1>3, <1>4, <1>5 DEF Api

(* The gossip thread's handlers keep the books.                            *)
LEMMA GossipBooks ==
    ASSUME NodeInv, NodeInv', StakeIsCurrent, CalmInv, GossipTask
    PROVE  CalmInv'
<1> USE DEF InTransit, Owed
<1>t. /\ JobTypeOK /\ IsMap(field, Account, Nat) /\ IsMap(balances, Account, Nat)
      /\ revenue \in Nat /\ granted \in Nat /\ Bonus \in Nat
      /\ locked \in [Account -> Nat] /\ SumFunction(field) \in Nat
      /\ ApiTransit(job["api"]) \in Nat
  BY TransitType, SupplyAssumption DEF NodeInv, NodeTypeOK, TypeOK, DagTypeOK
<1>i. StakeTransit(Idle) = 0 /\ WelcomeOwed(Idle) = {}
  BY DEF StakeTransit, WelcomeOwed, Idle
<1>z. InTransit \in Int
  BY TransitType
<1>1. ASSUME NEW m \in Registrations, WelcomeDag(m) PROVE CalmInv'
  <2> DEFINE j == [step |-> "welcome", account |-> m.account,
                   tokens |-> {m.wave, m.usdc}]
  <2>1. /\ Untouched /\ UNCHANGED <<field, revenue, locked, granted>>
        /\ job["gossip"] = Idle /\ Becomes("gossip", j)
        /\ balances' = Credit(Credit(balances, m.wave, Bonus), m.usdc, Bonus)
        /\ m.wave \in Account /\ m.usdc \in Account
    BY <1>1, HandlerAssumption DEF WelcomeDag
  <2>2. StakeTransit(j) = 0 /\ WelcomeOwed(j) = {m.wave, m.usdc}
    BY DEF StakeTransit, WelcomeOwed
  <2> HIDE DEF j
  <2>3. InTransit' = InTransit /\ Owed' = Owed \cup {m.wave, m.usdc}
    BY <1>t, <1>i, <2>1, <2>2, TransitChange
  <2>4. DOMAIN balances' = DOMAIN balances \cup {m.wave, m.usdc}
    <3> DEFINE first == Credit(balances, m.wave, Bonus)
    <3>1. /\ IsMap(first, Account, Nat)
          /\ DOMAIN first = DOMAIN balances \cup {m.wave}
      BY <1>t, <2>1, CreditType
    <3> HIDE DEF first
    <3>2. DOMAIN Credit(first, m.usdc, Bonus) = DOMAIN first \cup {m.usdc}
      BY <1>t, <2>1, <3>1, CreditType
    <3> QED
      BY <2>1, <3>1, <3>2 DEF first
  <2>5. (SumFunction(field') + revenue') - (SumFunction(field) + revenue)
           = (granted' - granted) - (InTransit' - InTransit)
    BY <1>t, <1>z, <2>1, <2>3
  <2> QED
    BY <2>1, <2>3, <2>4, <2>5, HandlerBooks
<1>2. CASE WelcomeField
  <2> DEFINE raised == Bonus * Cardinality({a \in job["gossip"].tokens :
                                               Get(field, a) = 0})
  <2>1. /\ Untouched /\ UNCHANGED <<balances, revenue, locked>>
        /\ job["gossip"].step = "welcome" /\ Becomes("gossip", Idle)
        /\ granted' = granted + raised
    BY <1>2 DEF WelcomeField
  <2>2. /\ SumFunction(field') = SumFunction(field) + raised
        /\ raised \in Nat
        /\ DOMAIN field \cup job["gossip"].tokens \subseteq DOMAIN field'
    BY <1>2, WelcomeFieldType
  <2> HIDE DEF raised
  <2>3. /\ StakeTransit(job["gossip"]) = 0
        /\ WelcomeOwed(job["gossip"]) = job["gossip"].tokens
    BY <2>1 DEF StakeTransit, WelcomeOwed
  <2>4. InTransit' = InTransit /\ Owed \subseteq Owed' \cup job["gossip"].tokens
    BY <1>t, <1>i, <2>1, <2>3, TransitChange
  <2>5. (SumFunction(field') + revenue') - (SumFunction(field) + revenue)
           = (granted' - granted) - (InTransit' - InTransit)
    BY <1>t, <1>z, <2>1, <2>2, <2>4
  <2> QED
    BY <2>1, <2>2, <2>4, <2>5, HandlerBooks
<1>3. ASSUME NEW m \in Stakes, ReadStake(m) PROVE CalmInv'
  <2> DEFINE j == IF m.amount = locked[m.account] THEN Idle
                  ELSE [step |-> "move", account |-> m.account,
                        amount |-> m.amount, previous |-> locked[m.account]]
  <2>1. /\ Untouched /\ UNCHANGED <<balances, field, revenue, locked, granted>>
        /\ job["gossip"] = Idle /\ Becomes("gossip", j)
    BY <1>3 DEF ReadStake
  <2>2. StakeTransit(j) = 0 /\ WelcomeOwed(j) = {}
    BY DEF StakeTransit, WelcomeOwed, Idle
  <2> HIDE DEF j
  <2>3. InTransit' = InTransit /\ Owed' = Owed
    BY <1>t, <1>i, <2>1, <2>2, TransitChange
  <2>4. (SumFunction(field') + revenue') - (SumFunction(field) + revenue)
           = (granted' - granted) - (InTransit' - InTransit)
    BY <1>t, <1>z, <2>1, <2>3
  <2> QED
    BY <2>1, <2>3, <2>4, HandlerBooks
<1>4. CASE MoveStake
  <2> DEFINE j == job["gossip"]
             d == j.amount - j.previous
  <2>1. /\ Untouched /\ UNCHANGED <<revenue, locked, granted>>
        /\ j.step = "move"
    BY <1>4 DEF MoveStake
  <2>2. /\ j \in [step : {"move", "restake"}, account : Account,
                  amount : Nat, previous : Nat]
        /\ \/ UNCHANGED <<field, balances>> /\ Becomes("gossip", Idle)
           \/ /\ Get(field, j.account) - d \in Nat
              /\ field' = Put(field, j.account, Get(field, j.account) - d)
              /\ DOMAIN field' = DOMAIN field \cup {j.account}
              /\ DOMAIN balances' = DOMAIN balances \cup {j.account}
              /\ Becomes("gossip", [j EXCEPT !.step = "restake"])
    BY <1>4, MoveStakeType
  <2>3. StakeTransit(j) = 0 /\ WelcomeOwed(j) = {} /\ d \in Int
    BY <2>1, <2>2 DEF StakeTransit, WelcomeOwed
  <2>4. CASE UNCHANGED <<field, balances>> /\ Becomes("gossip", Idle)
    <3>1. InTransit' = InTransit /\ Owed' = Owed
      BY <1>t, <1>i, <2>3, <2>4, TransitChange
    <3>2. (SumFunction(field') + revenue') - (SumFunction(field) + revenue)
             = (granted' - granted) - (InTransit' - InTransit)
      BY <1>t, <1>z, <2>1, <2>4, <3>1
    <3> QED
      BY <2>1, <2>4, <3>1, <3>2, HandlerBooks
  <2>5. CASE /\ Get(field, j.account) - d \in Nat
             /\ field' = Put(field, j.account, Get(field, j.account) - d)
             /\ DOMAIN field' = DOMAIN field \cup {j.account}
             /\ DOMAIN balances' = DOMAIN balances \cup {j.account}
             /\ Becomes("gossip", [j EXCEPT !.step = "restake"])
    <3> DEFINE k == [j EXCEPT !.step = "restake"]
    <3>1. StakeTransit(k) = d /\ WelcomeOwed(k) = {}
      BY <2>2 DEF StakeTransit, WelcomeOwed
    <3> HIDE DEF k
    <3>2. InTransit' = InTransit + d /\ Owed' = Owed
      <4>1. Becomes("gossip", k)
        BY <2>5 DEF k
      <4>2. /\ InTransit' = ApiTransit(job["api"]) + StakeTransit(k)
            /\ Owed' = SeedOwed(job["api"]) \cup WelcomeOwed(k)
        BY <1>t, <4>1, TransitChange
      <4> HIDE DEF d
      <4> QED
        BY <1>t, <2>3, <3>1, <4>2
    <3>3. SumFunction(field') = SumFunction(field) - d
      <4>1. Get(field, j.account) \in Nat
        BY <1>t, GetType
      <4>2. SumFunction(field') = (SumFunction(field) - Get(field, j.account))
                                     + (Get(field, j.account) - d)
        BY <1>t, <2>2, <2>5, AccountAssumption, SumPut
      <4> HIDE DEF d
      <4> QED
        BY <1>t, <2>3, <4>1, <4>2
    <3>4. (SumFunction(field') + revenue') - (SumFunction(field) + revenue)
             = (granted' - granted) - (InTransit' - InTransit)
      <4> HIDE DEF d, InTransit
      <4> QED
        BY <1>t, <1>z, <2>1, <2>3, <3>2, <3>3
    <3> QED
      BY <2>1, <2>5, <3>2, <3>4, HandlerBooks
  <2> QED
    BY <2>2, <2>4, <2>5
<1>5. CASE SetStake
  <2> DEFINE j == job["gossip"]
             d == j.amount - j.previous
  <2>1. /\ UNCHANGED <<vars, granted, disturbed>> /\ j.step = "restake"
        /\ Becomes("gossip", Idle)
        /\ locked' = [locked EXCEPT ![j.account] = j.amount]
    BY <1>5 DEF SetStake
  <2>2. j \in [step : {"move", "restake"}, account : Account,
               amount : Nat, previous : Nat]
    BY <1>t, <2>1, JobSteps
  <2>3. locked[j.account] = j.previous
    BY <2>1 DEF StakeIsCurrent
  <2>4. SumFunction(locked') = SumFunction(locked) + d
    <3>1. /\ SumFunction(locked) \in Nat
          /\ SumFunction(locked') = (SumFunction(locked) - j.previous) + j.amount
      <4> DEFINE a == j.account
                 v == j.amount
      <4>1. a \in Account /\ v \in Nat
        BY <2>2
      <4> HIDE DEF a, v
      <4>2. /\ SumFunction(locked) \in Nat
            /\ SumFunction([locked EXCEPT ![a] = v])
                  = (SumFunction(locked) - locked[a]) + v
        BY <1>t, <4>1, AccountAssumption, SumExcept
      <4> QED
        BY <2>1, <2>3, <4>2 DEF a, v
    <3> QED
      BY <2>2, <3>1
  <2>5. InTransit' = InTransit - d /\ Owed' = Owed
    <3>1. StakeTransit(j) = d /\ WelcomeOwed(j) = {} /\ d \in Int
      BY <2>1, <2>2 DEF StakeTransit, WelcomeOwed
    <3>2. /\ InTransit' = ApiTransit(job["api"]) + StakeTransit(Idle)
          /\ Owed' = SeedOwed(job["api"]) \cup WelcomeOwed(Idle)
      BY <1>t, <2>1, TransitChange
    <3> HIDE DEF d
    <3> QED
      BY <1>t, <1>i, <3>1, <3>2
  <2>6. Due' = Due
    <3>1. /\ SumFunction(locked) \in Nat /\ SumFunction(Genesis) \in Nat
          /\ d \in Int
      BY <2>2, TransitType
    <3> HIDE DEF d, InTransit
    <3> QED
      BY <1>t, <1>z, <2>1, <2>4, <2>5, <3>1 DEF Due
  <2>7. /\ pc' = pc /\ balances' = balances /\ field' = field /\ sim' = sim
        /\ stateful_hashes' = stateful_hashes /\ revenue' = revenue
        /\ burned' = burned /\ total_fees' = total_fees
        /\ disturbed' = disturbed
    BY <2>1 DEF vars, dagVars, applyVars
  <2> SUFFICES ASSUME ~disturbed' PROVE CalmInv'
    BY DEF CalmInv
  <2>8. /\ Critical => j = Idle
        /\ ~Critical => DOMAIN balances \subseteq DOMAIN field \cup Owed
        /\ MirrorInv /\ Conserves(Due)
    BY <2>7 DEF CalmInv
  <2>9. ~Critical /\ ~Critical'
    BY <2>1, <2>7, <2>8 DEF Critical, Idle
  <2>10. MirrorInv'
    BY <2>7, <2>8 DEF MirrorInv
  <2>11. Conserves(Due)'
    BY <2>6, <2>7, <2>8 DEF Conserves
  <2>12. DOMAIN balances' \subseteq DOMAIN field' \cup Owed'
    BY <2>5, <2>7, <2>8, <2>9
  <2> QED
    BY <2>9, <2>10, <2>11, <2>12 DEF CalmInv
<1> QED
  BY <1>1, <1>2, <1>3, <1>4, <1>5 DEF GossipTask

(* Every step of the node keeps the books of an undisturbed node.          *)
LEMMA CalmStep ==
    ASSUME NodeInv, OrderInv, StakeIsCurrent, CalmInv,
           [NodeNext]_<<vars, nodeVars>>
    PROVE  CalmInv'
<1>1. NodeInv'
  BY NodeTypeStep
<1>2. CASE CycleStep
  BY <1>2, CycleBooks DEF CycleStep
<1>3. CASE Api
  BY <1>1, <1>3, ApiBooks
<1>4. CASE GossipTask
  BY <1>1, <1>4, GossipBooks
<1>5. CASE UNCHANGED <<vars, nodeVars>>
  BY <1>5, CycleBooks DEF nodeVars, vars
<1> QED
  BY <1>2, <1>3, <1>4, <1>5 DEF NodeNext

(* The inductive invariant of the node.                                    *)
NodeBooksInv == NodeInv /\ OrderInv /\ StakeIsCurrent /\ CalmInv

(* It holds at the start and is kept.                                      *)
LEMMA NodeBooks == NodeSpec => []NodeBooksInv
<1>1. NodeInit => NodeBooksInv
  <2> SUFFICES ASSUME NodeInit PROVE NodeBooksInv
    OBVIOUS
  <2>1. NodeInv
    BY NodeTypeInit
  <2>2. OrderInv
    BY OrderInit DEF NodeInit
  <2>3. /\ job["api"] = Idle /\ job["gossip"] = Idle /\ Idle.step = "none"
        /\ pc = "idle" /\ balances = Genesis /\ field = Genesis
        /\ revenue = 0 /\ burned = 0 /\ granted = 0
        /\ locked = [a \in Account |-> 0]
    BY DEF NodeInit, Init, DagInit, Idle
  <2>4. StakeIsCurrent
    BY <2>3 DEF StakeIsCurrent
  <2>5. InTransit = 0
    BY <2>3 DEF InTransit, ApiTransit, StakeTransit
  <2>6. SumFunction(locked) = 0
    <3>1. SumFunctionOnSet(locked, Account) = 0
      BY <2>3, AccountAssumption, SumNat
    <3> QED
      BY <2>3, <3>1 DEF SumFunction
  <2>7. Due = SumFunction(Genesis) /\ SumFunction(Genesis) \in Nat
    BY <2>1, <2>3, <2>5, <2>6, TransitType DEF Due
  <2>8. CalmInv
    BY <2>3, <2>7 DEF CalmInv, Critical, MirrorInv, Conserves
  <2> QED
    BY <2>1, <2>2, <2>4, <2>8 DEF NodeBooksInv
<1>2. NodeBooksInv /\ [NodeNext]_<<vars, nodeVars>> => NodeBooksInv'
  BY NodeTypeStep, NodeOrderStep, StakeStep, CalmStep DEF NodeBooksInv
<1> QED
  BY <1>1, <1>2, PTL DEF NodeSpec

(* As long as no handler overlaps the critical part of a tick, the         *)
(* handlers and the cycle together lose and invent nothing: seed_account,  *)
(* register_domain, apply_registration, apply_stake and synthesize(), in   *)
(* any order, for any accounts, amounts and policies.                      *)
THEOREM CalmNodeConserves == NodeSpec => []CalmConservation
<1>1. NodeBooksInv => CalmConservation
  <2> SUFFICES ASSUME NodeBooksInv, Calm, ~disturbed
               PROVE  Held = SumFunction(Genesis) + granted
    BY DEF CalmConservation
  <2>1. NodeInv /\ Conserves(Due)
    BY DEF NodeBooksInv, CalmInv
  <2>2. job["api"].step = "none" /\ job["gossip"].step = "none" /\ pc = "idle"
    BY DEF Calm, Idle
  <2>3. InTransit = 0
    BY <2>2 DEF InTransit, ApiTransit, StakeTransit
  <2>4. SumFunction(field) + (revenue + burned) = Due
    BY <2>1, <2>2 DEF Conserves
  <2>5. /\ SumFunction(field) \in Nat /\ SumFunction(locked) \in Nat
        /\ SumFunction(Genesis) \in Nat
        /\ revenue \in Nat /\ burned \in Nat /\ granted \in Nat
    BY <2>1, TransitType DEF NodeInv, NodeTypeOK, TypeOK
  <2> QED
    BY <2>3, <2>4, <2>5 DEF Held, Due
<1> QED
  BY <1>1, NodeBooks, PTL

-----------------------------------------------------------------------------
(* The supply tracker *)

(* What decay has burned so far does not exceed what genesis seeded.       *)
BurnedWithinGenesis == burned <= SumFunction(Genesis)

TrackerInv == circulating = (SumFunction(Genesis) + seeds * Grant) - burned

(* Only the faucet and decay touch the tracker, and the subtraction does   *)
(* not saturate.                                                           *)
LEMMA TrackerStep ==
    ASSUME NodeInv, TrackerInv, BurnedWithinGenesis',
           [NodeNext]_<<vars, nodeVars>>
    PROVE  TrackerInv'
<1> DEFINE seeded == seeds * Grant
<1>g. PICK genesis : genesis = SumFunction(Genesis)
  OBVIOUS
<1>t. /\ circulating \in Nat /\ seeds \in Nat /\ burned \in Nat
      /\ genesis \in Nat /\ Grant \in Nat /\ burned' \in Nat
  <2>1. NodeInv'
    BY NodeTypeStep
  <2>2. seeds \in Nat
    BY SupplyAssumption DEF NodeInv, NodeTypeOK
  <2>3. circulating \in Nat /\ burned \in Nat /\ burned' \in Nat
    BY <2>1 DEF NodeInv, NodeTypeOK, TypeOK
  <2> QED
    BY <1>g, <2>2, <2>3, TransitType, SupplyAssumption
<1>s. seeded \in Nat
  BY <1>t
<1>r. (seeds + 1) * Grant = seeded + Grant
  BY <1>t
<1>1. CASE CycleStep
  <2> DEFINE rest == circulating - (burned' - burned)
  <2>1. rest = (genesis + seeded) - burned'
    BY <1>g, <1>t, <1>s DEF TrackerInv
  <2>2. rest \in Nat
    <3>1. burned' <= genesis
      BY <1>g DEF BurnedWithinGenesis
    <3>2. ASSUME NEW s \in Nat, NEW b \in Nat, b <= genesis
          PROVE  (genesis + s) - b \in Nat
      BY <1>t, <3>2
    <3>3. (genesis + seeded) - burned' \in Nat
      BY <1>t, <1>s, <3>1, <3>2
    <3> QED
      BY <2>1, <3>3
  <2>3. circulating' = Max({0, rest}) /\ seeds' = seeds
    BY <1>1 DEF CycleStep
  <2> HIDE DEF rest, seeded
  <2>4. circulating' = rest
    <3>1. \E x \in {0, rest} : \A y \in {0, rest} : x >= y
      BY <2>2
    <3>2. circulating' \in {0, rest} /\ \A y \in {0, rest} : circulating' >= y
      BY <2>3, <3>1, Zenon DEF Max
    <3> QED
      BY <2>2, <3>2
  <2>5. circulating' = (genesis + seeded) - burned'
    BY <2>1, <2>4
  <2> QED
    BY <1>g, <2>3, <2>5 DEF TrackerInv, seeded
<1>2. ASSUME NEW a \in Account, EvmFaucet(a) PROVE TrackerInv'
  <2>1. /\ burned' = burned /\ seeds' = seeds + 1
        /\ circulating' = circulating + Grant
    BY <1>2 DEF EvmFaucet, SeedMint, Untouched
  <2>2. circulating = (genesis + seeded) - burned
    BY <1>g DEF TrackerInv
  <2>3. circulating' = (genesis + (seeded + Grant)) - burned'
    <3> HIDE DEF seeded
    <3> QED
      BY <1>t, <1>s, <2>1, <2>2
  <2> QED
    BY <1>g, <1>r, <2>1, <2>3 DEF TrackerInv
<1>3. ASSUME UNCHANGED <<circulating, seeds, burned>> PROVE TrackerInv'
  BY <1>3 DEF TrackerInv
<1>4. \/ CycleStep \/ \E a \in Account : EvmFaucet(a)
      \/ UNCHANGED <<circulating, seeds, burned>>
  <2>1. CASE Api
    BY <2>1 DEF Api, SeedDag, SeedField, ReserveDomain, RegisterDomain, Untouched
  <2>2. CASE GossipTask
    BY <2>2 DEF GossipTask, WelcomeDag, WelcomeField, ReadStake, MoveStake,
                SetStake, Untouched, vars
  <2>3. CASE UNCHANGED <<vars, nodeVars>>
    BY <2>3 DEF vars, nodeVars
  <2> QED
    BY <2>1, <2>2, <2>3 DEF NodeNext
<1> QED
  BY <1>1, <1>2, <1>3, <1>4

(* As long as no handler overlaps the critical part of a tick, and until   *)
(* decay has burned as much as genesis seeded, the supply tracker is off   *)
(* by exactly what apply_registration credited without asking it.          *)
(* (Beyond that point SupplyTracker::burn may saturate at 0: decay also    *)
(* burns units that the tracker never counted.)                            *)
THEOREM TrackerMissesOnly ==
    NodeSpec /\ []BurnedWithinGenesis => []TrackerMissesOnlyWelcomes
<1>1. NodeInit => TrackerInv
  <2> SUFFICES ASSUME NodeInit PROVE TrackerInv
    OBVIOUS
  <2>1. SumFunction(Genesis) \in Nat /\ Grant \in Nat
    BY NodeTypeInit, TransitType, SupplyAssumption
  <2>2. circulating = SumFunction(Genesis) /\ seeds = 0 /\ burned = 0
    BY DEF NodeInit, Init
  <2> QED
    BY <2>1, <2>2 DEF TrackerInv
<1>2. /\ NodeInv /\ TrackerInv /\ BurnedWithinGenesis'
      /\ [NodeNext]_<<vars, nodeVars>>
      => TrackerInv'
  BY TrackerStep
<1>3. NodeInv /\ TrackerInv /\ CalmConservation => TrackerMissesOnlyWelcomes
  <2> SUFFICES ASSUME NodeInv, TrackerInv, CalmConservation, Calm, ~disturbed
               PROVE  Held - burned = circulating + (granted - seeds * Grant)
    BY DEF TrackerMissesOnlyWelcomes
  <2> DEFINE genesis == SumFunction(Genesis)
             seeded == seeds * Grant
  <2>1. /\ genesis \in Nat /\ granted \in Nat /\ burned \in Nat
        /\ seeds \in Nat /\ Grant \in Nat
    BY TransitType, SupplyAssumption DEF NodeInv, NodeTypeOK, TypeOK
  <2>2. seeded \in Nat
    BY <2>1
  <2>3. Held = genesis + granted /\ circulating = (genesis + seeded) - burned
    BY DEF CalmConservation, TrackerInv
  <2> HIDE DEF genesis, seeded
  <2>4. Held - burned = circulating + (granted - seeded)
    BY <2>1, <2>2, <2>3
  <2> QED
    BY <2>4 DEF seeded
<1>4. NodeBooksInv => NodeInv
  BY DEF NodeBooksInv
<1> QED
  BY <1>1, <1>2, <1>3, <1>4, NodeBooks, CalmNodeConserves, PTL DEF NodeSpec
=============================================================================
