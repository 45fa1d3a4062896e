----------------------------- MODULE Oscillator -----------------------------
(***************************************************************************)
(* One oscillator node: ingestion of stateful shifts and the synthesis     *)
(* cycle (src/src/consensus/oscillator.rs).                                *)
(*                                                                         *)
(* synthesize() runs on one thread; ingest_stateful() runs on others (the  *)
(* HTTP API's and the gossip loop's).  They share pending_stateful, the    *)
(* nonce and signature maps, the DAG and the wave-field, each behind its   *)
(* own lock.  A step of this module is one critical section of the code,   *)
(* or one iteration of a loop inside one; pc names the section synthesize  *)
(* enters next.                                                            *)
(*                                                                         *)
(* What other modules and tasks contribute is nondeterministic here: how   *)
(* much an idle balance decays, which ticks have a certificate quorum, and *)
(* which public keys the API has learned.  The commutative batch and the   *)
(* EVM pool keep state of their own and are not part of this module.       *)
(***************************************************************************)
EXTENDS VectorClockDag

CONSTANTS Ingester,      \* threads that call ingest
          NoShift,       \* the content of an idle ingester's hand
          Genesis,       \* balances seeded at start-up
          GenesisKeys,   \* accounts whose key is known at start-up
          Policies,      \* domain registry at start-up
          MaxDecay,      \* bound: most units one account loses in a tick
          MaxTick,       \* bound: number of synthesis ticks explored
          LastIngestTick \* bound: no ingestion starts after this tick

(* A percentage is in basis points of the amount.  Registration accepts     *)
(* more than 10000; compute_signal_fee then subtracts a fee above the      *)
(* amount, which overflows.  Such policies are left out of every registry. *)
FeePolicy ==
    {p \in [kind : {"Flat", "Percentage", "MetabolicOnly"}, value : Nat] :
        p.kind = "Percentage" => p.value <= 10000}
PolicyRecord == [stateful : BOOLEAN, depth : Nat \ {0}, fee : FeePolicy,
                 ordering : {"Causal", "Commutative", "Strict"}]

ASSUME NoShiftAssumption == NoShift \notin Hash
ASSUME GenesisAssumption == IsMap(Genesis, Account, Nat)
ASSUME KeyAssumption == GenesisKeys \subseteq Account
ASSUME PolicyAssumption == IsMap(Policies, Domain, PolicyRecord)
ASSUME BoundAssumption ==
    MaxDecay \in Nat /\ MaxTick \in Nat /\ LastIngestTick \in Nat

VARIABLES
    pending,          \* pending_stateful
    seen_nonces,      \* highest nonce per (account, domain); a partial map
    seen_signatures,  \* shifts whose signature was recorded
    in_hand,          \* per ingester, the shift between nonce and queue
    keys,             \* API key registry
    key_registry,     \* the copy of keys this synthesize() call was given
    registry,         \* domain_registry
    quorate,          \* ticks for which check_quorum returns a view
    field,            \* wave-field account units
    revenue,          \* total handed to RewardPool::distribute
    burned,           \* total burned from the supply by decay
    tick,             \* synthesis_tick: ticks started so far
    pc,               \* section of synthesize() that runs next
    batch,            \* shifts drained from pending, not yet inserted
    ready, in_degree, \* locals of topological_order
    order,            \* its result, consumed by the apply loop
    sim,              \* simulated_balances
    total_fees,
    stateful_hashes   \* shifts the apply loop accepted this tick

ingestVars == <<pending, seen_nonces, seen_signatures, in_hand>>
topoVars == <<ready, in_degree, order>>
applyVars == <<sim, total_fees, stateful_hashes>>
envVars == <<keys, registry, quorate>>
vars == <<dagVars, ingestVars, envVars, key_registry, field, revenue, burned,
          tick, pc, batch, topoVars, applyVars>>

Phase == {"idle", "decay", "sync", "drain", "insert", "order", "pick",
          "apply", "fees", "commit", "publish"}

NonceKey == Account \X Domain

TypeOK ==
    /\ DagTypeOK
    /\ pending \in Seq(Hash) /\ batch \in Seq(Hash)
    /\ IsMap(seen_nonces, NonceKey, Nat)
    /\ seen_signatures \in SUBSET Hash
    /\ in_hand \in [Ingester -> Hash \cup {NoShift}]
    /\ keys \in SUBSET Account /\ key_registry \in SUBSET Account
    /\ IsMap(registry, Domain, PolicyRecord)
    /\ quorate \in SUBSET Nat
    /\ IsMap(field, Account, Nat) /\ IsMap(sim, Account, Nat)
    /\ revenue \in Nat /\ burned \in Nat /\ tick \in Nat
    /\ pc \in Phase /\ (pc # "idle" => tick > 0)
    /\ ready \in Seq(Hash) /\ order \in Seq(Hash)
    /\ in_degree \in [Hash -> Int]
    /\ total_fees \in Nat /\ stateful_hashes \in SUBSET Hash

Init ==
    /\ DagInit(Genesis)
    /\ pending = <<>> /\ batch = <<>> /\ ready = <<>> /\ order = <<>>
    /\ seen_nonces = [k \in {} |-> 0]
    /\ seen_signatures = {}
    /\ in_hand = [i \in Ingester |-> NoShift]
    /\ keys = GenesisKeys /\ key_registry = {}
    /\ registry = Policies /\ quorate = {}
    /\ field = Genesis /\ sim = [a \in {} |-> 0]
    /\ revenue = 0 /\ burned = 0 /\ tick = 0 /\ pc = "idle"
    /\ in_degree = [h \in Hash |-> 0]
    /\ total_fees = 0 /\ stateful_hashes = {}

-----------------------------------------------------------------------------
(* Ingestion *)

NonceOf(h) == <<Shift[h].from, Shift[h].domain>>

(* Mutant: the highest nonce may be used again.                            *)
FreshNonceOrEqual(h) ==
    NonceOf(h) \in DOMAIN seen_nonces
        => Shift[h].nonce >= seen_nonces[NonceOf(h)]

(* check_and_record_nonce fails on a nonce that is not above the highest   *)
(* one seen; a first nonce may be any number.                              *)
FreshNonce(h) ==
    NonceOf(h) \in DOMAIN seen_nonces
        => Shift[h].nonce > seen_nonces[NonceOf(h)]

(* The policy checks at the start of ingest_stateful.                      *)
Admissible(h) ==
    /\ Shift[h].domain \in DOMAIN registry
    /\ registry[Shift[h].domain].stateful
    /\ registry[Shift[h].domain].ordering = "Commutative"
           => Shift[h].predecessors = {}

(* ingest_stateful up to the point where it takes the queue's lock.  The   *)
(* nonce is recorded even when the call then fails on a zero amount or     *)
(* finds the signature known.  A call that fails earlier changes nothing.  *)
IngestStateful(i, h) ==
    /\ in_hand[i] = NoShift /\ tick <= LastIngestTick
    /\ Admissible(h) /\ FreshNonce(h)
    /\ seen_nonces' = Put(seen_nonces, NonceOf(h), Shift[h].nonce)
    /\ in_hand' = IF h \in seen_signatures \/ Shift[h].amount = 0
                  THEN in_hand ELSE [in_hand EXCEPT ![i] = h]
    /\ UNCHANGED <<dagVars, pending, seen_signatures, envVars, key_registry,
                   field, revenue, burned, tick, pc, batch, topoVars,
                   applyVars>>

(* The rest of ingest_stateful: remember the signature, queue the shift.   *)
Enqueue(i) ==
    /\ in_hand[i] # NoShift
    /\ seen_signatures' = seen_signatures \cup {in_hand[i]}
    /\ pending' = Append(pending, in_hand[i])
    /\ in_hand' = [in_hand EXCEPT ![i] = NoShift]
    /\ UNCHANGED <<dagVars, seen_nonces, envVars, key_registry, field,
                   revenue, burned, tick, pc, batch, topoVars, applyVars>>

-----------------------------------------------------------------------------
(* The environment of synthesize() *)

(* The API learns a public key (registration, stake announcement).         *)
LearnKey(a) ==
    /\ a \notin keys
    /\ keys' = keys \cup {a}
    /\ UNCHANGED <<dagVars, ingestVars, registry, quorate, key_registry,
                   field, revenue, burned, tick, pc, batch, topoVars,
                   applyVars>>

(* Certificates and stake changes decide which ticks have a quorum.  A     *)
(* quorum can also be lost, when new stake raises the threshold.           *)
QuorumChange(t) ==
    /\ \E d \in DOMAIN registry : registry[d].ordering = "Strict"
    /\ quorate' = SymDiff(quorate, {t})
    /\ UNCHANGED <<dagVars, ingestVars, keys, registry, key_registry, field,
                   revenue, burned, tick, pc, batch, topoVars, applyVars>>

-----------------------------------------------------------------------------
(* synthesize() *)

(* The tick of the synthesize() call in progress: fetch_add returned it.   *)
ThisTick == tick - 1

(* The bound lets the ticks after LastIngestTick run only once the         *)
(* ingesters have finished, so that what they queued is still synthesized. *)
WithinBound ==
    /\ tick < MaxTick
    /\ tick > LastIngestTick => \A i \in Ingester : in_hand[i] = NoShift

(* The call starts: the tick counter advances.                             *)
BeginTick ==
    /\ pc = "idle" /\ WithinBound
    /\ tick' = tick + 1
    /\ key_registry' = keys
    /\ pc' = "decay"
    /\ UNCHANGED <<dagVars, ingestVars, envVars, field, revenue, burned,
                   batch, topoVars, applyVars>>

(* The part of the decayed value that is burned: METABOLIC_BURN_BP is 2500 *)
(* basis points, rounded down.                                             *)
BurnShare(decayed) == (decayed * 2500) \div 10000

TotalLoss(loss) == SumFunction(loss)

(* 0. Metabolic decay of the wave-field.  What is not burned of the value  *)
(* that decays goes to the rewards.                                        *)
Decay ==
    /\ pc = "decay"
    /\ \E loss \in [DOMAIN field -> 0..MaxDecay],
          decayed \in 0..(MaxDecay * Cardinality(Account)) :
          /\ \A a \in DOMAIN field : loss[a] <= field[a]
          /\ decayed = TotalLoss(loss)
          /\ field' = [a \in DOMAIN field |-> field[a] - loss[a]]
          /\ burned' = burned + BurnShare(decayed)
          /\ revenue' = revenue + (decayed - BurnShare(decayed))
    /\ pc' = "sync"
    /\ UNCHANGED <<dagVars, ingestVars, envVars, key_registry, tick, batch,
                   topoVars, applyVars>>

(* 0b. The wave-field's balances replace the DAG's.                        *)
SyncBalances ==
    /\ pc = "sync"
    /\ balances' = Overwrite(balances, field)
    /\ pc' = "drain"
    /\ UNCHANGED <<nodes, roots, children, status, inserted_at, depth,
                   finalized_at, applied, tips, rejected, max_clock,
                   account_tips, ingestVars, envVars, key_registry, field,
                   revenue, burned, tick, batch, topoVars, applyVars>>

(* Mutant: the queue is copied instead of drained.                         *)
CopyPending ==
    /\ pc = "drain"
    /\ batch' = pending
    /\ pc' = "insert"
    /\ UNCHANGED <<dagVars, ingestVars, envVars, key_registry, field,
                   revenue, burned, tick, topoVars, applyVars>>

(* 1. The queue is emptied under its own lock.                             *)
DrainPending ==
    /\ pc = "drain"
    /\ batch' = pending /\ pending' = <<>>
    /\ pc' = "insert"
    /\ UNCHANGED <<dagVars, seen_nonces, seen_signatures, in_hand, envVars,
                   key_registry, field, revenue, burned, tick, topoVars,
                   applyVars>>

(* VectorClockDag::FINALIZATION_DEPTH, for a domain no longer registered.  *)
FINALIZATION_DEPTH == 3
DomainDepth(d) ==
    IF d \in DOMAIN registry THEN registry[d].depth ELSE FINALIZATION_DEPTH

(* One iteration of the insertion loop.  A shift of a sender without a     *)
(* known key is dropped and leaves no trace in the DAG.                    *)
InsertNext ==
    /\ pc = "insert" /\ batch # <<>>
    /\ LET h == Head(batch) IN
          IF Shift[h].from \in key_registry
          THEN InsertShift(h, ThisTick, DomainDepth(Shift[h].domain))
          ELSE UNCHANGED dagVars
    /\ batch' = Tail(batch)
    /\ UNCHANGED <<ingestVars, envVars, key_registry, field, revenue, burned,
                   tick, pc, topoVars, applyVars>>

(* Double spends are marked and ripe shifts finalized, under the same lock.*)
MarkAndFinalize ==
    /\ pc = "insert" /\ batch = <<>>
    /\ MarkAndPromote(ThisTick)
    /\ pc' = "order"
    /\ UNCHANGED <<ingestVars, envVars, key_registry, field, revenue, burned,
                   tick, batch, topoVars, applyVars>>

(* 3. topological_order: the roots without incoming edges are ready, in    *)
(* the iteration order of a HashSet.                                       *)
BeginOrder ==
    /\ pc = "order"
    /\ in_degree' = [h \in Hash |-> InDegree(h)]
    /\ \E s \in Iterations({h \in roots : InDegree(h) = 0}) : ready' = s
    /\ order' = <<>>
    /\ pc' = "pick"
    /\ UNCHANGED <<dagVars, ingestVars, envVars, key_registry, field,
                   revenue, burned, tick, batch, applyVars>>

(* Its loop: one ready shift is chosen and its children lose an edge; the  *)
(* ones that lost their last become ready, in HashSet order.               *)
PickReady ==
    /\ pc = "pick" /\ ready # <<>>
    /\ \E i \in 1..Len(ready) :
          /\ PickMinimalReady(ready, i)
          /\ LET h == ready[i]
                 freed == {c \in children[h] : in_degree[c] = 1}
             IN  /\ order' = Append(order, h)
                 /\ in_degree' = [c \in Hash |-> IF c \in children[h]
                                                 THEN in_degree[c] - 1
                                                 ELSE in_degree[c]]
                 /\ \E s \in Iterations(freed) :
                       ready' = SwapRemove(ready, i) \o s
    /\ UNCHANGED <<dagVars, ingestVars, envVars, key_registry, field,
                   revenue, burned, tick, pc, batch, applyVars>>

(* Unless a cycle hid some node, in which case synthesize() returns, the   *)
(* apply loop starts on a copy of the balances.                            *)
EndOrder ==
    /\ pc = "pick" /\ ready = <<>>
    /\ pc' = IF Len(order) = Cardinality(nodes) THEN "apply" ELSE "idle"
    /\ sim' = balances /\ total_fees' = 0 /\ stateful_hashes' = {}
    /\ UNCHANGED <<dagVars, ingestVars, envVars, key_registry, field,
                   revenue, burned, tick, batch, topoVars>>

(* The fee that compute_signal_fee returns.                                *)
Fee(h) ==
    LET policy == registry[Shift[h].domain].fee
    IN  IF policy.kind = "Flat" THEN policy.value
        ELSE IF policy.kind = "Percentage"
        THEN (Shift[h].amount * policy.value) \div 10000
        ELSE 0

(* Its only error in a known domain: a flat fee above the amount.          *)
FeeCovered(h) ==
    registry[Shift[h].domain].fee.kind = "Flat" => Fee(h) <= Shift[h].amount

(* Mutant: the sender's balance is not looked at.                          *)
ApplicableUnfunded(h) ==
    /\ status[h] # "Rejected" /\ h \notin applied
    /\ Shift[h].from \in key_registry /\ Shift[h].signed
    /\ Shift[h].domain \in DOMAIN registry
    /\ FeeCovered(h)

(* Mutant: shifts marked as double spends are not skipped.                 *)
ApplicableRejected(h) ==
    /\ h \notin applied
    /\ Shift[h].from \in key_registry /\ Shift[h].signed
    /\ Shift[h].domain \in DOMAIN registry
    /\ FeeCovered(h)
    /\ Get(sim, Shift[h].from) >= Shift[h].amount

(* The tests the apply loop makes before it moves value for h.             *)
Applicable(h) ==
    /\ status[h] # "Rejected" /\ h \notin applied
    /\ Shift[h].from \in key_registry /\ Shift[h].signed
    /\ Shift[h].domain \in DOMAIN registry
    /\ registry[Shift[h].domain].ordering = "Strict"
           => inserted_at[h] \in quorate
    /\ FeeCovered(h)
    /\ Get(sim, Shift[h].from) >= Shift[h].amount

(* Mutant: the receiver gets the gross amount.                             *)
TransferGross(m, h) ==
    LET s == Shift[h]
        paid == Put(m, s.from, Get(m, s.from) - s.amount)
    IN  Put(paid, s.to, Get(paid, s.to) + s.amount)

(* The sender pays the whole amount, the receiver gets it less the fee.    *)
Transfer(m, h) ==
    LET s == Shift[h]
        paid == Put(m, s.from, Get(m, s.from) - s.amount)
    IN  Put(paid, s.to, Get(paid, s.to) + (s.amount - Fee(h)))

(* One iteration of the apply loop.  A shift that is not applicable is     *)
(* skipped, and looked at again in the next tick.                          *)
ApplyNext ==
    /\ pc = "apply" /\ order # <<>>
    /\ LET h == Head(order) IN
          IF Applicable(h)
          THEN /\ sim' = Transfer(sim, h)
               /\ total_fees' = total_fees + Fee(h)
               /\ stateful_hashes' = stateful_hashes \cup {h}
          ELSE UNCHANGED applyVars
    /\ order' = Tail(order)
    /\ UNCHANGED <<dagVars, ingestVars, envVars, key_registry, field,
                   revenue, burned, tick, pc, batch, ready, in_degree>>

EndApply ==
    /\ pc = "apply" /\ order = <<>>
    /\ pc' = "fees"
    /\ UNCHANGED <<dagVars, ingestVars, envVars, key_registry, field,
                   revenue, burned, tick, batch, topoVars, applyVars>>

(* What account a owes in fees for the shifts accepted this tick.          *)
FeeDebt(a) ==
    SumFunction([h \in {k \in stateful_hashes : Shift[k].from = a} |-> Fee(h)])

(* The fees leave the senders' wave-field balances, as far as those go,    *)
(* and all of them reach the reward pool.                                  *)
ChargeFees ==
    /\ pc = "fees"
    /\ \E debt \in [{Shift[h].from : h \in stateful_hashes} -> 0..total_fees] :
          /\ \A a \in DOMAIN debt : debt[a] = FeeDebt(a)
          /\ field' = IF total_fees = 0 THEN field
                      ELSE Overwrite(field, [a \in DOMAIN debt |->
                               IF Get(field, a) > debt[a]
                               THEN Get(field, a) - debt[a] ELSE 0])
    /\ revenue' = revenue + total_fees
    /\ pc' = "commit"
    /\ UNCHANGED <<dagVars, ingestVars, envVars, key_registry, burned, tick,
                   batch, topoVars, applyVars>>

(* Mutant: the balances are committed without the applied flags.           *)
CommitBalancesOnly ==
    /\ pc = "commit"
    /\ balances' = sim
    /\ pc' = "publish"
    /\ UNCHANGED <<nodes, roots, children, status, inserted_at, depth,
                   finalized_at, applied, tips, rejected, max_clock,
                   account_tips, ingestVars, envVars, key_registry, field,
                   revenue, burned, tick, batch, topoVars, applyVars>>

(* The accepted shifts become applied and the DAG takes the new balances.  *)
Commit ==
    /\ pc = "commit"
    /\ applied' = applied \cup stateful_hashes
    /\ balances' = sim
    /\ pc' = "publish"
    /\ UNCHANGED <<nodes, roots, children, status, inserted_at, depth,
                   finalized_at, tips, rejected, max_clock, account_tips,
                   ingestVars, envVars, key_registry, field, revenue, burned,
                   tick, batch, topoVars, applyVars>>

(* The wave-field takes them too, and synthesize() returns: its local      *)
(* variables are gone.                                                     *)
Publish ==
    /\ pc = "publish"
    /\ field' = Overwrite(field, sim)
    /\ pc' = "idle"
    /\ sim' = [a \in {} |-> 0] /\ total_fees' = 0 /\ stateful_hashes' = {}
    /\ key_registry' = {}
    /\ UNCHANGED <<dagVars, ingestVars, envVars, revenue, burned, tick,
                   batch, topoVars>>

-----------------------------------------------------------------------------
(* Specification *)

Ingest ==
    \E i \in Ingester : Enqueue(i) \/ \E h \in Hash : IngestStateful(i, h)

Environment ==
    \/ \E a \in Account : LearnKey(a)
    \/ \E t \in 0..(MaxTick - 1) : QuorumChange(t)

Synthesize ==
    \/ BeginTick \/ Decay \/ SyncBalances \/ DrainPending
    \/ InsertNext \/ MarkAndFinalize
    \/ BeginOrder \/ PickReady \/ EndOrder
    \/ ApplyNext \/ EndApply \/ ChargeFees \/ Commit \/ Publish

(* The exploration ends after MaxTick ticks.                               *)
BoundReached ==
    /\ pc = "idle" /\ tick = MaxTick
    /\ UNCHANGED vars

Next == Ingest \/ Environment \/ Synthesize \/ BoundReached

Spec == Init /\ [][Next]_vars

(* The synthesis loop runs for ever, and an ingester that has recorded a   *)
(* nonce is a function call that runs to its end.  Nobody is bound to      *)
(* submit shifts, to register keys or to sign certificates.                *)
FairSpec ==
    /\ Spec
    /\ WF_vars(Synthesize)
    /\ \A i \in Ingester : WF_vars(Enqueue(i))

-----------------------------------------------------------------------------
(* Refinement *)

(* The phase of the abstract cycle at each section of synthesize().        *)
AbstractPhase ==
    IF pc \in {"idle", "decay"} THEN "open"
    ELSE IF pc = "sync" THEN "decayed"
    ELSE IF pc = "apply" THEN "settling"
    ELSE IF pc = "fees" THEN "settled"
    ELSE IF pc = "commit" THEN "charged"
    ELSE IF pc = "publish" THEN "committed"
    ELSE "copied"

(* Domains outside the registry have no fee; their shifts never settle.    *)
AbstractFee ==
    [h \in Hash |-> IF Shift[h].domain \in DOMAIN registry THEN Fee(h) ELSE 0]

Ledger == INSTANCE Settlement WITH
    phase <- AbstractPhase, settling <- stateful_hashes, fee <- AbstractFee

(* The synthesis cycle implements the abstract ledger: queue, clocks,      *)
(* ordering, keys, signatures, quorums and finalization only decide which  *)
(* shifts settle when.  Whatever they decide, in no history does a shift   *)
(* settle twice or move what its sender does not have, and the three       *)
(* copies of a balance change in step.                                     *)
ImplementsSettlement == Ledger!SettlementSpec

-----------------------------------------------------------------------------
(* Properties *)

(* Shifts that passed the nonce check, wherever they are now.              *)
InHand == {in_hand[i] : i \in Ingester} \ {NoShift}
Pipeline == InHand \cup ToSet(pending) \cup ToSet(batch) \cup nodes
                \cup rejected

(* check_and_record_nonce is the only replay protection of stateful        *)
(* shifts: whatever the ingesters interleave, no two shifts anywhere       *)
(* between ingestion and the DAG use the same sender, domain and nonce.    *)
NonceUsedOnce ==
    \A g, h \in Pipeline :
        NonceOf(g) = NonceOf(h) /\ Shift[g].nonce = Shift[h].nonce => g = h

(* A shift is in one place at a time: with one ingester, once in the       *)
(* queue, once in the drained batch, or decided by the DAG.  So insert     *)
(* never sees a shift again, although the queue and the DAG are filled     *)
(* under different locks.                                                  *)
OnePlaceAtATime ==
    /\ \A i, j \in Ingester :
          in_hand[i] = in_hand[j] /\ in_hand[i] # NoShift => i = j
    /\ IsInjective(pending) /\ IsInjective(batch)
    /\ InHand \cap (ToSet(pending) \cup ToSet(batch) \cup nodes \cup rejected) = {}
    /\ ToSet(pending) \cap (ToSet(batch) \cup nodes \cup rejected) = {}
    /\ ToSet(batch) \cap (nodes \cup rejected) = {}
    /\ nodes \cap rejected = {}

(* The tip recorded for a sender is causally maximal among the sender's    *)
(* nodes, in whatever order concurrent and ordered shifts were inserted.   *)
TipIsMaximal ==
    \A h \in nodes :
        /\ Shift[h].from \in DOMAIN tips
        /\ tips[Shift[h].from] \in nodes
        /\ ~happened_before(Shift[tips[Shift[h].from]].clock, Shift[h].clock)

(* topological_order counts the predecessors that are still to come, never *)
(* puts a node before one of its predecessors, and reaches every node, so  *)
(* that the CausalCycle return of synthesize() is never taken.             *)
OrderIsTopological ==
    pc = "pick" =>
        /\ \A h \in nodes : in_degree[h] =
              Cardinality(Shift[h].predecessors \ ToSet(order))
        /\ IsInjective(order)
        /\ \A j \in 1..Len(order) :
              Shift[order[j]].predecessors \subseteq {order[k] : k \in 1..(j - 1)}
        /\ ready = <<>> => ToSet(order) = nodes

(* Amounts that the shifts of S move out of and into account a.            *)
Outgoing(S, a) ==
    SumFunction([h \in {k \in S : Shift[k].from = a} |-> Shift[h].amount])
Incoming(S, a) ==
    SumFunction([h \in {k \in S : Shift[k].to = a} |->
                    Shift[h].amount - Fee(h)])
Explains(S, m) ==
    \A a \in Account : Get(m, a) + Outgoing(S, a) = Get(Genesis, a) + Incoming(S, a)

(* Without decay, the balances of the DAG and of the wave-field are what   *)
(* genesis and the applied shifts account for, each applied shift counted  *)
(* exactly once and no other, at every point of the cycle at which the     *)
(* code reads them.                                                        *)
LedgerExplained ==
    /\ pc \notin {"commit", "publish"} => Explains(applied, field)
    /\ pc \in {"drain", "insert", "order", "pick", "apply", "fees", "commit",
               "publish", "idle"} => Explains(applied, balances)
    /\ pc \in {"apply", "fees", "commit"} =>
          /\ applied \cap stateful_hashes = {}
          /\ Explains(applied \cup stateful_hashes, sim)

(* No value appears or disappears in the synthesis cycle: accounts, the    *)
(* revenue handed to the reward pool and the burned supply add up to what  *)
(* genesis seeded, through decay, transfers, fees and both copies.         *)
Conservation ==
    LET accounted == revenue + burned IN
    /\ pc \notin {"commit", "publish"} =>
          SumFunction(field) + accounted = SumFunction(Genesis)
    /\ pc \in {"apply", "fees"} =>
          SumFunction(sim) + total_fees + accounted = SumFunction(Genesis)
    /\ pc \in {"commit", "publish"} =>
          SumFunction(sim) + accounted = SumFunction(Genesis)

(* A double spend that was caught before it was applied stays rejected and *)
(* never moves value, although every later tick walks the node again.      *)
CaughtDoubleSpendNeverApplied ==
    [][\A h \in Hash : status[h] = "Rejected" /\ h \notin applied
          => status'[h] = "Rejected" /\ h \notin applied']_vars

(* Every queued shift of a sender with a known key reaches the DAG or its  *)
(* rejected map.                                                           *)
QueuedIsDecided ==
    \A h \in Hash : Shift[h].from \in GenesisKeys =>
        (h \in ToSet(pending) ~> h \in nodes \cup rejected)

(* Every accepted shift is eventually finalized or rejected, also one      *)
(* that is never funded.                                                   *)
AcceptedIsSettled ==
    \A h \in Hash :
        status[h] = "Accepted" ~> status[h] \in {"Finalized", "Rejected"}

-----------------------------------------------------------------------------
(* Statements of the documentation that the code does not keep *)

(* README: "A shift becomes finalized after surviving FINALIZATION_DEPTH   *)
(* synthesis ticks without a conflicting double-spend".  Final is final.   *)
FinalizedStaysFinal ==
    [][\A h \in Hash : status[h] = "Finalized" => status'[h] = "Finalized"]_vars
=============================================================================
