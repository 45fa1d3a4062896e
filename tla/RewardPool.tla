----------------------------- MODULE RewardPool -----------------------------
(***************************************************************************)
(* The reward pool (src/src/operator/rewards.rs), the supply tracker       *)
(* (src/src/value/supply.rs) and the API handlers that claim rewards       *)
(* (src/src/api/routes.rs).                                                *)
(*                                                                         *)
(* Half of what is distributed accrues to the DEX pool and half to the     *)
(* staked operators in proportion to their stake, each rounded down.  A    *)
(* claim takes the entry out of the pool and then seeds accounts with it;  *)
(* the supply tracker may refuse, and then it is gone.  Only the node's    *)
(* own operator can claim operator rewards.                                *)
(***************************************************************************)
EXTENDS PartialMaps, Integers, FiniteSets, FiniteSetsExt, Sequences

CONSTANTS Operator,   \* accounts that may stake
          Self,       \* the node's own operator
          MinStake,   \* StakingConfig.min_stake
          GenesisStakes, \* what each operator has locked at the start
          StakeChoices,  \* what it may lock later; 0 after a slash
          Supply,     \* TOTAL_WAVE_SUPPLY
          Minted,     \* what circulates at the start
          MaxRestakes, \* bound: changes of stakes
          MaxHanded   \* bound: no claim and no change of stakes once more
                      \* than this was handed to distribute

ASSUME RewardAssumption ==
    /\ Self \in Operator /\ IsFiniteSet(Operator)
    /\ MinStake \in Nat /\ StakeChoices \subseteq Nat
    /\ GenesisStakes \in [Operator -> Nat] /\ MaxRestakes \in Nat /\ MaxHanded \in Nat
    /\ Supply \in Nat /\ Minted \in 0..Supply

VARIABLES
    rewards,     \* RewardPool.rewards
    lp_rewards,  \* RewardPool.lp_rewards of the DEX pool
    stakes,      \* StakeTable
    restakes,    \* changes of stakes so far
    circulating, \* SupplyTracker.circulating
    claiming,    \* per claim handler, the amounts it has still to seed
    handed,      \* history: units given to distribute
    rounds,      \* history: how often
    unstaked,    \* history: operator halves that met no staked operator
    paid,        \* history: claimed units that were seeded
    refused      \* history: claimed units the supply tracker refused

rewardVars == <<rewards, lp_rewards, stakes, restakes, circulating, claiming,
                handed, rounds, unstaked, paid, refused>>

Claim == {"operator", "lp"}

RewardInit ==
    /\ rewards = [o \in {} |-> 0] /\ lp_rewards = 0
    /\ stakes = GenesisStakes /\ restakes = 0
    /\ circulating = Minted
    /\ claiming = [c \in Claim |-> <<>>]
    /\ handed = 0 /\ rounds = 0 /\ unstaked = 0 /\ paid = 0 /\ refused = 0

-----------------------------------------------------------------------------
(* distribute *)

Half(n) == (n * 5000) \div 10000

staked_operators == {o \in Operator : stakes[o] >= MinStake}
StakeOf(S) == SumFunctionOnSet(stakes, S)

(* What operator o gets of n units.                                        *)
Share(n, o) == (Half(n) * stakes[o]) \div StakeOf(staked_operators)

distribute(n) ==
    LET nobody == StakeOf(staked_operators) = 0
        earners == IF nobody THEN {}
                   ELSE {o \in staked_operators : Share(n, o) > 0}
    IN  /\ lp_rewards' = lp_rewards + Half(n)
        /\ rewards' = Overwrite(rewards, [o \in earners |->
                                   Get(rewards, o) + Share(n, o)])
        /\ handed' = handed + n
        /\ rounds' = IF n > 0 THEN rounds + 1 ELSE rounds
        /\ unstaked' = IF nobody THEN unstaked + Half(n) ELSE unstaked

-----------------------------------------------------------------------------
(* Claims *)

(* Mutant: the entry stays in the pool.                                    *)
ClaimKeeps ==
    /\ claiming["operator"] = <<>> /\ Get(rewards, Self) > 0 /\ handed <= MaxHanded
    /\ claiming' = [claiming EXCEPT !["operator"] = <<rewards[Self]>>]
    /\ UNCHANGED <<rewards, lp_rewards, stakes, restakes, circulating, handed,
                   rounds, unstaked, paid, refused>>

(* claim_operator_rewards up to the removal of the entry.                  *)
ClaimOperatorRewards ==
    /\ claiming["operator"] = <<>> /\ Get(rewards, Self) > 0 /\ handed <= MaxHanded
    /\ claiming' = [claiming EXCEPT !["operator"] = <<rewards[Self]>>]
    /\ rewards' = [o \in DOMAIN rewards \ {Self} |-> rewards[o]]
    /\ UNCHANGED <<lp_rewards, stakes, restakes, circulating, handed, rounds,
                   unstaked, paid, refused>>

(* claim_lp_rewards: half is for the pool's WAVE account, the rest for its *)
(* USDC account.                                                           *)
ClaimLpRewards ==
    /\ claiming["lp"] = <<>> /\ lp_rewards > 0 /\ handed <= MaxHanded
    /\ claiming' = [claiming EXCEPT !["lp"] =
                       <<lp_rewards \div 2, lp_rewards - lp_rewards \div 2>>]
    /\ lp_rewards' = 0
    /\ UNCHANGED <<rewards, stakes, restakes, circulating, handed, rounds,
                   unstaked, paid, refused>>

(* The handler goes on to seed_account, which mints the amount or, above   *)
(* the cap, drops it.                                                      *)
SeedClaimed(c) ==
    /\ claiming[c] # <<>>
    /\ LET n == Head(claiming[c])
           fits == circulating + n <= Supply
       IN  /\ circulating' = IF fits THEN circulating + n ELSE circulating
           /\ paid' = IF fits THEN paid + n ELSE paid
           /\ refused' = IF fits THEN refused ELSE refused + n
    /\ claiming' = [claiming EXCEPT ![c] = Tail(@)]
    /\ UNCHANGED <<rewards, lp_rewards, stakes, restakes, handed, rounds,
                   unstaked>>

(* apply_stake or a slash changes what an operator has locked.             *)
SetStake(o, n) ==
    /\ restakes < MaxRestakes /\ restakes' = restakes + 1 /\ handed <= MaxHanded
    /\ stakes' = [stakes EXCEPT ![o] = n]
    /\ UNCHANGED <<rewards, lp_rewards, circulating, claiming, handed, rounds,
                   unstaked, paid, refused>>

RewardStep ==
    \/ ClaimOperatorRewards \/ ClaimLpRewards
    \/ \E c \in Claim : SeedClaimed(c)
    \/ \E o \in Operator, n \in StakeChoices : SetStake(o, n)

-----------------------------------------------------------------------------
(* Properties *)

RewardTypeOK ==
    /\ IsMap(rewards, Operator, Nat) /\ lp_rewards \in Nat
    /\ stakes \in [Operator -> Nat] /\ restakes \in 0..MaxRestakes
    /\ claiming \in [Claim -> Seq(Nat)]
    /\ {circulating, handed, rounds, unstaked, paid, refused} \subseteq Nat

Accounted ==
    SumFunction(rewards) + lp_rewards
    + SumFunction([c \in Claim |-> SumFunction(claiming[c])])
    + paid + refused

(* What was handed to distribute is accrued, being claimed, paid or        *)
(* refused, once: neither rounding nor a claim that races a distribution   *)
(* creates a reward, and a distribution among staked operators leaves at   *)
(* most one unit per operator unallocated.                                 *)
RewardsConserved ==
    handed - unstaked - Accounted \in 0..(rounds * Cardinality(Operator))
=============================================================================
