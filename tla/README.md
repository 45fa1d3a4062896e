# Fluidic node: TLA+ verification project

Fluidic is a ledger node without blocks. Signed *phase-shifts* arrive over HTTP
and TCP gossip, and every node periodically runs a *synthesis tick* that decays
balances, orders the pending stateful shifts in a causal DAG, applies the ones
that are affordable, and signs a certificate of the result. This project models
that core in TLA+, checks it with TLC and proves parts of it with TLAPS. Source
paths below are relative to the repository (`src/...` is the crate).

## 1. The system

| component | source | state | operations |
|---|---|---|---|
| vector clocks | `src/crypto/phase_shift.rs` | a counter per account | tick, merge, happened_before, concurrent_with |
| causal DAG | `src/consensus/dag.rs` | nodes with children, status, applied flag; roots, tips, rejected, balances, clocks | insert, detect_double_spends, promote_to_finalized, topological_order |
| oscillator | `src/consensus/oscillator.rs` | queues, nonces, signatures, domain registry, tick | ingest, synthesize, seed_account, apply_registration, apply_stake, register_domain, ingest_certificate |
| domains | `src/consensus/domain.rs` | policy per domain: ordering, depth, fee | register, get |
| stake table | `src/operator/stake.rs` | stake and slash nonce per operator | stake, slash, quorum_threshold |
| certificate tracker | `src/consensus/certificate.rs` | certificate per (operator, tick), stake per (tick, view) | apply, check_quorum |
| supply tracker | `src/value/supply.rs` | circulating, burned | mint, burn |
| reward pool | `src/operator/rewards.rs` | pending rewards of operators and of the LP pool | distribute, claim, claim_lp_reward |
| wave-field, decay | `src/field/`, `src/value/metabolic.rs` | account balances, pools, spectrum | credit, debit, commutative batch, decay |
| EVM pool | `src/evm/` | pending transactions, statuses, nonces, receipts, the EVM's own accounts | submit, synthesize |
| persistence | `src/persistence/mod.rs` | snapshot file | save, load |
| gossip | `src/network/tcp_gossip.rs` | peers to dial, active peers, writers, buffers | add_peer, broadcast, handshake, fan-out, read loops, redial |
| mesh node | `src/bin/mesh_node.rs` | the tasks below | start-up, ingest loop, synthesis loop, snapshots, shutdown |
| HTTP API, JSON-RPC | `src/api/` | key registry, explorer list, metrics | shifts and swaps, claims, stake, domains, faucet; `eth_*` |
| light client | `src/light_client/mod.rs` | stake table and tracker of its own | ingest |

**Interaction.** One process runs three kinds of activity at once: the synthesis
thread, the gossip ingest task and the HTTP API's thread. They meet in the
`Oscillator`, whose fields sit behind separate locks (queue, DAG, wave-field,
DashMaps). Lock order is DAG before wave-field; what is read under one lock is
often used after it was released. Nodes talk only by gossip, which is neither
re-forwarded nor acknowledged, and two nodes may be linked twice.

**What is hard.** (a) Ingestion records the nonce, then the signature, then
queues, while synthesis drains and inserts. (b) A tick copies balances from the
wave-field to the DAG, simulates on a copy, and writes back in three sections,
while handlers change both. (c) The DAG is walked again in full each tick, and
statuses of old shifts are recomputed from today's balance. (d) Two threads
count certificates while slashing and staking change the weights. (e) Certificates
are repeated, late or lost, and a restarted node has forgotten its tick. (f) Fees,
burn shares, reward shares and thresholds are rounded integer arithmetic. (g) A
save falls anywhere in a cycle and a crash anywhere at all; part of the state is
in the file and part is not. (h) An HTTP handler does several things one after
another, any of which may be refused, and a client repeats its request. (i) A
commutative batch can fail half-way and is queued again. (j) A TCP stream arrives
in pieces, breaks, and is dialled again.

**What makes each component correct.** *Clocks*: a strict partial order. *DAG*: a shift
enters once, the order extends the predecessor relation, tips are maximal, a
caught double spend stays dead, every accepted shift settles. *Oscillator*: no
nonce is used twice, balances are explained by genesis and the applied shifts,
value is conserved. *Certificates*: an operator counts once per tick and not after
a slash, no two results have a quorum, honest operators keep their stake.
*Supply*: all units are known to the tracker and stay under the cap.
*Rewards*: what is distributed is paid out once. *Commutative batch*: a signal
counts once and is not forgotten. *EVM pool*: nonces are used in order and once, a
submitted transaction gets a verdict, what a client was told stays true.
*Persistence*: a restart neither repeats nor forgets part of what was saved.
*Gossip*: callers are heard only when they have shown the key, each connection is
first-in first-out, a broken one is replaced. *Swaps*: a swap is paid out once, and
not without the shift that pays for it, except for causes that can be listed.
The hazards, at the lines where they bite, are in `PROJECT.json`.

## 2. Modules and code

| module | models | proofs |
|---|---|---|
| `CausalClock` | `VectorClock` as operators on functions account -> number | `OscillatorProofs` |
| `PartialMaps` | HashMaps: functions whose domain is the key set (`Get`, `Put`, `Overwrite`) | |
| `VectorClockDag` | the DAG's state and the effect of its operations | |
| `Oscillator` | EXTENDS the DAG with ingestion and `synthesize()` | `OscillatorProofs` |
| `OscillatorNode` | EXTENDS `Oscillator` with the handlers of the other threads | `NodeProofs` |
| `Settlement` | what a cycle does to balances, without the DAG; `Oscillator` implements it | `OscillatorProofs` |
| `EvmPool` | EXTENDS `Settlement` with the EVM transactions of a cycle and JSON-RPC | `PersistenceProofs` |
| `Persistence` | EXTENDS `EvmPool` with snapshots, crashes, stops and start-up | `PersistenceProofs` |
| `RewardPool` | reward pool, claims, supply cap | `BatchProofs` |
| `CommutativeBatch` | EXTENDS `RewardPool` with commutative signals and pools | `BatchProofs` |
| `Swap` | `submit_stateful` and swaps against the cycle | `SwapProofs` |
| `Gossip` | one dialer, one acceptor, TCP between them | `GossipProofs` |
| `Certificates` | stake table, certificate tracker and the mesh around one node | `CertificatesProofs` |
| `FiniteSums` | nothing of the code: laws of sums over finite sets that the proofs share | itself |
| `MC_*` | instances for TLC | |

A step of `Oscillator` is one critical section of the code or one iteration of a
loop inside one; `pc` names the section `synthesize()` enters next: decay, sync
(0b), drain and insert (1), order, pick and apply (3), fees, commit, publish.
`IngestStateful` ends where the code is about to take the queue lock, `Enqueue`
is the rest, so two ingesters can queue in another order than they took their
nonces. The iteration order of a HashSet is a nondeterministic choice
(`Iterations`); `pick_minimal_ready` is its one pass over that order
(`PickMinimalReady`). The public keys of `synthesize`'s argument are
a copy, `key_registry`, taken at the start of the tick. How much decays, which
ticks have a quorum, and when a key is learned are free choices.

`OscillatorNode` cuts each handler at every lock release (`job` holds the rest of
it, one per thread): `seed_account` is mint / DAG / wave-field, `register_domain`
debit / register, `apply_registration` DAG / wave-field, `apply_stake` read /
move / set. `DagLockFree` says when `synthesize()` holds the DAG lock.

`Certificates` observes one node, `Self`. `CertificateTracker::apply` is cut into three
steps: the stake check (`CheckCertificate`, `CheckOwn`); the lock of the (operator,
tick) entry and the look-up of the stake, which releases the stake table again
(`EnterEntry`); and, with the entry still locked, the tally (`CountCertificate`).
`hand` is the certificate of each thread, `counting` the threads that hold an entry,
`weight` the stake they read. A slash through another tick can fall between the last two. The
wire delivers any certificate an honest peer ever signed, any number of times in
any order, and anything a rogue key signs; roots are opaque views, and a stamp
stands for the signed fields (time, counters) in which a restarted node's certificate
differs. Stake is announced for ever by honest peers, with nonce 0, as the mesh
node does.

`Settlement` is the abstract specification of the ledger: two copies of each
balance (wave-field and DAG), a third for the simulation, and a set of applied
shifts. Which shifts settle, and in which order, is free. `Oscillator` implements it
(`ImplementsSettlement`) with `phase` computed from `pc`, `settling` from
`stateful_hashes` and `fee` from the domain's policy; every step of ingestion,
insertion, ordering and finalization is a stutter. `EvmPool` and `Persistence` are
built on `Settlement` rather than on `Oscillator`: what they show holds for any
choice of shifts, and so for the one the DAG makes.

`EvmPool` adds the section between the apply loop and the fees. The pool's lock is held from
`EvmPrepare` to `EvmFinish`, and each transaction is a step. revm is external:
it refuses a transaction (nonce, funds), or takes gas and moves the value unless
the call reverts. Its account state `db` is kept apart from the pool's `evm_nonces`
because a revert advances only the first.

`Persistence` is the life of a process: `Boot` (load, seed, stake, seed the pool),
cycles, `Save` by a task on another thread, `Stop` by SIGTERM, `Crash` at any point. A save is one
step because it holds the locks of the DAG and the wave-field throughout; what
matters is where in the cycle it falls. The history variables of a life are saved
and restored with the snapshot, so that they describe the state the node knows.

`RewardPool` keeps the entries of operators and of the LP pool; a claim removes
the entry in one step and mints it in later ones. `CommutativeBatch` cuts
`ingest_commutative` into the look-up of the signature, its recording and the push
onto the queue, three critical sections, and
a cycle into decay, drain, one batch per domain, and fees. The order in which a
batch visits pools is that of a HashMap: any set of pools may have changed before
the one that fails. The NTT returns every bin's sum that lies within half of the
prime, and this is all that is kept of it.

`Swap` cuts `submit_stateful` into the check and quote, the pool's payout, and
the client's own shift. Both halves go through `Ingest` (all of `ingest_stateful`): an
unknown or non-stateful domain, predecessors in a commutative domain, a stale nonce, a
signature recorded before (answered with Ok and not queued), a zero amount. The
signatures are those of `ingest_commutative` too, which does not verify them
(`RecordSignature`). In the cycle `InsertNext` drops a shift whose key is not in the
cycle's copy of the registry, without a trace, and rejects one whose predecessors are
missing; `Applicable` asks for key, domain, quorum of a strict domain (`QuorumChange`), a
flat fee no higher than the amount, and funds. Of a vector clock only the sender's entry
is kept, so that two shifts of a sender are concurrent if their entries are equal.

`Gossip` has packets of two cells (length and body), streams of bounded size, and
one step for each read, which takes any prefix of what has arrived. A body taken for a
length is either too large or skips some cells; both are explored. Payload flows from
the dialer to the acceptor. What the dialled peer sends back is read by the same loop with
no handshake at all, so that the dialer takes signals from a peer that has shown no key;
this direction is not modelled. Neither is the bound (64) of the channel that hands write
halves to the fan-out loop, on which `try_connect` would wait if the loop were stuck.

Every `Mutant:` operator is a plausible bug of the definition that follows it.
TLC finds the property violated when it replaces that definition.

## 3. Runs

Passing runs:

| run | shows | instance |
|---|---|---|
| `dag` | `NonceUsedOnce`, `OnePlaceAtATime`, `TipIsMaximal`, `OrderIsTopological`, `LedgerExplained`, `CaughtDoubleSpendNeverApplied`, and with fairness `QueuedIsDecided`, `AcceptedIsSettled` | 5 shifts (double spend, diamond, rivals for a nonce), 2 ingesters, 5 ticks |
| `fees` | `TypeOK`, `Conservation`, refinement `ImplementsSettlement` | 4 shifts, two fee policies, a strict domain, decay, an unknown key, a bad signature |
| `calm` | `NodeTypeOK`, `CalmConservation`, `TrackerMissesOnlyWelcomes` | faucet, reservation, registration, stake and withdrawal around a tick |
| `mesh` | `TypeOK`, `QuorumAgreement`, `SlashedOnlyForResigning`, `StakeConserved`, `SlashedAddsNoWeight` | two ticks; the node and a twin with its key, an honest peer that restarts, a rogue; the two views are symmetric |
| `life` | `TypeOK`, `NoncesCountSuccesses`, `LedgerSurvivesRestart`, `SubmittedIsDecided`, `AnswersStay` | a shift with a fee and four transactions (one that creates a contract, its rival for the nonce, which calls that contract and reverts, a successor, one for another chain), 3 cycles, a save, a crash or stop |
| `link` | `TypeOK`, `OnlyAuthenticatedCallers`, `FifoPerConnection`, `Redialled`, `WrittenIsDelivered`, `QueuedIsWritten` | 3 signals, two connections of the dialer and a stranger's, buffers of 3 cells, one break |
| `batch` | `TypeOK`, `RewardsConserved`, `SignalCountsOnce`, `NothingForgotten`, `QueuedIsSettled` | 3 signals in 2 domains, one of which its pool may not cover before one of the other domain is settled, 2 pools, 2 threads of which each may bring the same signal, 3 cycles, a bin that can exceed the field, 2 operators, a change of stake, a supply cap that refuses some claims |
| `swap` | `TypeOK`, `PaidOutOnce`, `PayoutHasItsShift`, `KnownAfterTwoTicks`, `SwapCompletes` | 4 swaps in both directions, a plain shift and a shift over nothing, 4 domains (causal, strict with a flat fee, one whose fee is too high, one not registered), a predecessor that may be missing, a key that may be learned late, a request that may be sent twice and whose signature a commutative signal may carry, 2 handlers, 3 requests sent, 3 ticks |

Runs that refute a statement of the documentation (`findings` in `PROJECT.json`
quotes it):

| run | property | what the code does |
|---|---|---|
| `finality` | `FinalizedStaysFinal` | two affordable concurrent shifts are finalized and applied; when a third spends the rest, the balance no longer covers both and one is marked Rejected |
| `lost` | `NodeConservation` | a handler between copy and write-back of a tick is overwritten |
| `unsynced` | `AnnouncedIsLearned` | a stake announcement that arrives before the operator's balance is refused, with its nonce recorded; every announcement has nonce 0, so the node never learns the stake |
| `reseed` | `GenesisSeededOnce` | the first start locks the whole genesis balance as stake, so the liquid balance is 0 at the next start and the operator is seeded again |

**Restricted properties.** Some properties name the circumstances in which the code
does not keep them; each of these is a behaviour of the model.

* `QuorumAgreement` is stated until some stake shrinks (`shrank`): slashing lowers
  the threshold but not the tallies, so with stakes 9, 2 and 5 the views signed by
  2+5 and by 9 both have a quorum once the 5 is slashed.
* `CalmConservation` is stated until a handler overlaps the part of a tick between
  copy and write-back (`disturbed`); run `lost` shows why.
* `SlashedOnlyForResigning`: an honest peer does sign a tick twice when it
  restarts, because load does not restore the tick, and is then slashed.
* `SlashedAddsNoWeight` has one exception: a certificate of the node's own operator
  whose stake one thread had read when the other slashed the operator through another tick
  (`late`). The stake that is gone is then counted once. Other operators' certificates are
  handled by the gossip task alone.
* `LedgerSurvivesRestart` excludes a snapshot written between the pool's run and
  the publication of the cycle (`torn`): it holds verdicts, nonces or applied flags
  whose effect on the wave-field is missing. It is about every account but two: what revm
  credits to a created contract and, as gas, to the zero address reaches the wave-field only if
  a transaction of the same cycle names the address.
* `SubmittedIsDecided` excludes transactions restored as Pending (`stranded`):
  the queue is not saved, and sending them again is ignored as known.
* `SignalCountsOnce` excludes signatures that two threads looked up together (`raced`), and
  pools that a batch changed before it failed on another (`spoiled`); such a batch is applied
  to them again in the next cycle.
* `QueuedIsSettled` allows a signal to wait as long as the signals of its domain together
  do not fit (`Misfit`, computed from the queue and the pools): a delta its pool cannot cover
  holds up its own domain, cycle after cycle, and no other.
* `OnlyAuthenticatedCallers` is about accepted connections; see `Gossip` in section 2.
* `FifoPerConnection` assumes that misaligned bytes do not deserialize, which bincode makes
  unlikely and does not exclude.
* `WrittenIsDelivered` excludes connections whose handshake dropped what had
  arrived behind the proof (`cut`). The reader is then out of step; if it gives
  up, its socket stays open for writing, the stream fills, and the fan-out loop
  waits for ever, for all peers: `QueuedIsWritten` excludes such a deaf peer.
* `PaidOutOnce` holds within one life of the process: `seen_nonces` and `account_tips` are
  not saved, and a request repeated after a restart is outside the model.
* `PayoutHasItsShift` lists every way in which the pool's payout can be left alone: the
  domain's policy refuses the client's half; another request of the sender used the nonce or a
  higher one (a shift over nothing too, which `ingest_stateful` refuses after recording its
  nonce); a commutative signal had recorded its signature; a predecessor was missing; the
  sender's key was not in the copy of the registry of the cycle that drained it.
* `KnownAfterTwoTicks` excludes the two kinds of shift to which ingest says Ok and whose
  status stays unknown for ever: signature taken, key too late.
* `SwapCompletes` lists what stops a half for which ingest said Ok (`Stopped`): these two, a
  missing predecessor, a double-spend mark (two payouts quoted from the same tip of the pool
  are concurrent, and the second is marked if the pool cannot pay both), lack of funds, a
  strict domain without quorum. A domain whose fee is above the amount never applies it.

**Other observations.** `quorum_threshold` computes `total / 3 * 2 + 1` with the
division first, so 3 of 5 is a quorum although the comment says "Strictly more than
2/3"; two disjoint sets of operators still never both reach that number once more
than two units are staked. Two operators with one unit each would both be a quorum;
`min_stake` is 10^18. `pick_minimal_ready`
replaces its candidate by a relation that is not transitive, and may return a
node that another ready node precedes by its clock. The apply loop
skips a shift its sender cannot afford and goes on, so a successor can be applied
before the predecessor it names. `apply_registration` creates WAVE without
`SupplyTracker::mint`, through which "all minting" should flow
(`src/value/supply.rs`): `TrackerMissesOnlyWelcomes` says that these units, and no
others, are unknown to the tracker. After a refused stake announcement (run `unsynced`) the
API's staking call is a replay too. The value sent with a contract's creation stays in the
EVM's database, and `prepare` overwrites it with the wave-field's balance when a later
transaction names the contract. `load` rebuilds the tips in the arbitrary order of the saved
nodes and restores neither `account_tips` nor the clocks; no property depends on
this. Receipts are not saved.
`eth_blockNumber` counts cycles that have begun, so the latest block may still be
running. The operator half of a distribution is lost if nobody is staked, and a
claim above the supply cap is lost. A claim mints units that were not
subtracted from the circulating supply when they were charged as fees. A shift is listed as accepted
before it is ingested. A user whose nonce is not above the last one another user's
swap took for the pool is refused. The signed bytes of a domain registration do not
cover the fee policy, and a percentage above 10000 basis points is accepted, with which
`amount - fee` underflows.

**Bounds.** `MaxTick` bounds synthesis and `LastIngestTick` the ticks in which shifts may
still arrive, so that every arrival is followed by enough ticks to settle (depth
2 in `dag`, 1 in `fees`). Two ingesters suffice for every pairwise order of
nonce and queue; the theorems hold for any number. Four or five shifts are what a double
spend, a diamond and an orphan need together. `MaxDecay` is 4 in `calm`, the
least loss of which a unit is burned; in `fees` it is 1, so that nothing is burned there and
all that decays is rewarded. In `calm` there is one tick: each handler
step can fall before, inside or after it. `mesh` has two ticks, because an
operator slashed through one is then counted in the other; the honest peer signs only the
first (`PeerTick`) and rogue operators sign with one stamp (`RogueStamp`), two
certificates of theirs being different by their views. Stakes are small numbers
chosen so that thresholds are hit exactly. `life` has three cycles, so that a
transaction can fail, be followed by another of its sender, and both be restored;
one save and one end of the process are a restart from any point of any cycle. In `link` a stream
holds one packet and a half, so that the writer waits and packets are split; three signals
are one before, one across and one after a break. In `batch` three cycles are a failure, its repetition and
the cycle in which a filled pool lets it through; `Arriving` says which thread may bring which
signal (both may bring the first), and `MaxHanded` bounds what the reward pool is given. In
`swap` three of six requests are sent (`MaxSends`), in every choice and order, and the third
tick settles what the second skipped.
`BoundReached` is the explicit end of an exploration, and deadlock is checked in every run
except `link`, where the system may fall silent when nobody broadcasts.

**Fairness.** `Oscillator`, `CommutativeBatch` and `Swap` have weak fairness of the
cycle (the loop in `mesh_node.rs` calls `synthesize()` for ever, and no section waits
for anything but a lock that is released), and `Oscillator` also of `Enqueue` (the
rest of a function call). `Persistence` has weak fairness of the cycle while the
process runs, and none of starting it again. `Gossip` has weak fairness of each
task: the redial ticker, the fan-out loop and its registrations, the end of a read loop, the acceptor's
tasks. Nothing is assumed of clients, peers, keys, quorums or connections.

## 4. Proofs

All proofs are checked by TLAPS from the named assumptions of the modules, for
every value of the constants. The assumptions: sets of accounts, hashes, signals,
pools and transactions are finite, constants are typed, the
table of shifts holds well-formed records. The fee policies of `Oscillator` and
`OscillatorNode` are those whose percentage is at most 10000 basis points (`FeePolicy`); in `Gossip`, a connection has room for
its first packet, and there are strangers only if there is a key; in `EvmPool`, a
transaction uses no more gas than its limit (which revm enforces), and the mark of a
transaction without a recipient is no account. Every inductive
invariant below was first checked by TLC as an invariant of the run.

**Ingestion and DAG** (`OscillatorProofs`).

* `HappenedBeforeTransitive` with lemmas that the order is irreflexive and
  asymmetric, that `merge` is an upper bound and `tick` advances.
* `TypeCorrect`: `TypeOK` is inductive. The point is that no subtraction goes
  below zero: the code's u128 would wrap or panic there. The proof needs that a fee
  is at most the amount (`FeeType`) and that a transfer is affordable.
* `NoReplay`, `NoDuplicates`: `NonceUsedOnce` and `OnePlaceAtATime` are not
  inductive alone. The invariant `ReplayInv` adds `NoncesRecorded`: the nonce of
  every shift in the pipeline is at most the highest recorded for its sender and
  domain. A fresh nonce is then larger than any in the pipeline, so the shift in hand is new.
* `TipsMaximal`: inductive with `TipsAreNodes`; the step that replaces a tip is
  where transitivity is needed.
* `TopologicalOrderCorrect`, `NoCausalCycle`: `OrderInv` says that predecessors of
  nodes are nodes and that every non-empty set of nodes has one with no predecessor in
  it (insertion keeps this, because a node comes after its predecessors), that the ready list holds
  exactly the nodes whose predecessors are all listed, and what the in-degrees count.
  Nodes left when the list is empty would have one that is ready.
* `CaughtDoubleSpends`: `AcceptedInv` carries what the apply loop tested over to the
  section that writes the flags.

**Ledger** (`FiniteSums`, `OscillatorProofs`). `Conservation` is about sums over all accounts, and
`SumFunction` is recursive over the subsets of its index set. The library's
induction theorem has an operator parameter, which the provers cannot
instantiate, so `FiniteSums` takes induction in its set form (a set of
subsets of a finite set that contains a subset whenever it contains the smaller ones
contains them all) and derives from it that the recursion has a solution, that the sum does not
depend on the element taken first, and what changing, adding or removing an entry does.

* `ValueConserved`: `CopyInv` says which of the three copies of the balances is current at
  which `pc`, and that the copies that should agree do. Each section then moves value
  between two terms of the sum.
* `BalancesExplained`, for `MaxDecay = 0`: with decay a balance is no longer the sum
  of what shifts moved. Needs that a shift enters the simulation once (`OrderInv`) and
  that the fee it was applied with does not change (`FeesInv`).
* `OscillatorImplementsSettlement`: the initial state maps to an initial state, and each
  action to the action of the same section or to a stutter, under the invariants above. `TotalInv` (the
  accumulated fee is the sum of the fees of the accepted shifts) is what the abstract
  fee step asks for.

**Node** (`NodeProofs`). The handlers run beside the cycle, so that each invariant of
the cycle has to survive their steps.

* `NodeTypeCorrect`: with the job of each thread typed.
* `CalmNodeConserves`: `CalmInv` says that, until a handler overlaps the critical part of
  a tick, the books balance up to what is between two steps of a handler (minted but
  not credited, debited but not staked), and which accounts a handler has credited in
  the DAG only. `StakeIsCurrent` says that the stake a handler has read is still the
  one in the table when it writes.
* `TrackerMissesOnly` has the hypothesis that decay has burned no more than genesis
  seeded. It is needed: decay also burns welcome grants, of which the tracker knows
  nothing, and `SupplyTracker::burn` saturates at 0.

**Certificates** (`CertificatesProofs`).

* `CertificatesTypeCorrect`: stakes, tallies and liquid balances never go negative.
* `OnlyResigningIsSlashed`: from `HeldIsSigned`, i.e. certificates of honest peers
  that a thread holds or the book contains were on the wire.
* `WithoutRestartsNobodyHonestIsSlashed`: `SignedOncePerRun` adds that a peer
  signs a tick once between restarts. The hypothesis `MaxRestarts = 0` is the one
  that is needed: with a restart the peer signs tick 0 twice (see section 3).
* `SlashedStakeHardlyCounts`: `HeldIsWorthless` says that a certificate that passed the stake check before its operator
  was slashed belongs to an operator with no stake when the stake is read. Only
  one that was read before the slash counts, and as an operator other than the node's own
  is handled by one thread, that is the node's own (`late`).
* `StakeIsConserved`: the sums of `FiniteSums` through every move of stake.
* `QuorumsAgree`: `CountedOnce` says that, until stake shrinks, the tally of a view is at most the
  present stake of the operators the book has for it, and that a stake in a thread's hand is
  no more than the present one. The operators of two views
  are disjoint, so that two thresholds would exceed the total. The hypothesis
  `MinStake > 1` was found by the proof; with a least stake of 1 TLC finds two quorums.

**Gossip** (`GossipProofs`).

* `GossipTypeCorrect`: in particular, no stream exceeds its capacity.
* `UnprovenCallersAreKeptOut`, of accepted connections: `StrangerInv` says that the first cell the acceptor has of a
  stranger's connection, in its buffer or else in the stream, is the wrong proof.
* `ForwardedInOrder`: `FifoInv` numbers the cells of a connection. The acceptor has consumed
  the first p of them, the rest are in the buffer and the stream in their order, and each
  forwarded signal comes from a packet among the first p, later ones from later packets.
  A reader out of step only makes p odd: it forwards nothing until it is back at a
  length, and that one belongs to a packet it has not forwarded.

**Swaps** (`SwapProofs`).

* `SwapTypeCorrect`: balances are never negative while handlers race the cycle. `SwapInv`
  adds the types of the handlers' jobs, the queue, the drained batch and the nonces.
* `OnePayout`: `JobInv` says that a request in hand came from a known key, `NonceInv` that the nonce of
  whatever ingest said Ok to is recorded, and `PayoutInv` that the payouts of a request have
  one nonce key and one nonce, so that a second handler of the request is refused.
* `TwoTicksSuffice`: `TraceInv` says where a shift is that ingest said Ok to: in the queue or the
  drained batch until its cycle is past, or inserted, or rejected, or one of the two kinds without a trace.
* `PayoutsHaveTheirShifts`: `OwnInv` says that a request whose payout is queued is still in
  a handler's hand, or its half was answered with Ok (and `TraceInv` says what became of it), or
  ingest refused it for one of the listed causes. The proof failed at first because the request
  that used the nonce may be one over nothing, which is never queued; the property names that case.

**Rewards and commutative batches** (`BatchProofs`).

* `TypeCorrect`: `TypeInv` adds that a claim handler has at most two amounts in hand,
  and `CycleInv`: signals are drained only while batches are synthesized, and what is
  queued belongs to a commutative domain. A batch checks that each pool covers its
  delta before it writes it, so that also one that fails half-way leaves no pool negative.
* `RewardsAccountedFor`: the shares of a distribution are quotients of integer division.
  `ProportionalShares` in `FiniteSums` bounds what they leave over by the number of
  staked operators, and the accounts add up to what was handed in, less this remainder.
* `SignalsAreKept`: `HeldInv` says that a recorded signature has a signal on its way to
  the queue, in the queue, in a domain still to be synthesized, or settled. It needs
  `CycleInv`: a signal of another domain would be dropped when the queue is grouped by domain.
* `SignalsCountOnce`: `RaceInv` says that a signature only one thread looked up is not
  recorded yet, `HandInv` that a thread about to push an unraced signal is the only one
  and the signal neither waits nor is settled, and `OnceInv` that a signal with an unraced
  signature waits once at most, and not at all once it is settled. A batch that succeeds then settles signals that
  were not counted, each with one copy, and the sum of the settled deltas grows by the
  aggregate that the pool received.

**EVM pool and restarts** (`PersistenceProofs`). What holds of the memory has to hold of the
file too, because a start-up makes the file the memory; the invariants are operators on the
parts of a state and are stated of both.

* `TypeCorrect`: needs `PrepInv`: while the pool runs, `prepare` has loaded every
  address the queue names, so that the executor finds the balance it subtracts from. The
  queue cannot grow meanwhile, because the pool's lock is held.
* `AnswersAreKept`: `QueueInv` says that what is queued is Pending and queued once,
  and that what has a receipt or paid for gas is decided. Execution therefore never
  rewrites a receipt, and stamps the block in progress, which is not sealed.
* `NoncesAreCounted`: `NonceInv` says it of the memory and of the file. `QueueInv` gives
  that the executed transaction was not a success before, and the pool's own check that its
  nonce is the next one.
* `LedgerIsKept`: `BalanceInv` says where in the cycle which copy of the balances is explained
  by seeds, applied shifts, successes, gas, stake and decay: the wave-field before the pool runs, the
  simulation (counting also the shifts being settled) from the start of the apply loop, and
  for addresses `prepare` loaded the pool's database until `sync_balances_back`.
  `DomainInv` says which copy has the accounts of which, because a copy is written over another. The
  file is explained unless it is torn, and start-up moves units only between seed, balance and
  stake. The theorem is about `Holder`, the accounts other than the created contract's and the
  zero address's, and leaves open which addresses the transactions name. It holds with any decay, which the history `decayed` records; the run
  has `MaxDecay = 0` to stay small.

Every safety property of a passing run, including the refinement, is stated by a
theorem. Only model-checked are the eight liveness properties (`QueuedIsDecided`,
`AcceptedIsSettled`, `SubmittedIsDecided`, `QueuedIsSettled`, `SwapCompletes`,
`Redialled`, `WrittenIsDelivered`, `QueuedIsWritten`), because the prover has neither
fairness nor ENABLED. The properties of the runs
`finality`, `lost`, `reseed` and `unsynced` do not hold.

## 5. Not modelled

Cryptography (signatures hold or not, hashes do not collide), Merkle roots, the
arithmetic of the NTT and of the exponential decay, contract code, storage and logs
of the EVM, latencies and metrics, logging, JSON, the WebSocket stream and the
read-only sync endpoints, `NetworkNode` and its ring buffer (only tests use them),
the light client (a second instance of the certificate tracker that no binary
starts), the demonstration binaries and the bridge stub.

## 6. Open ends

1. Decay as exact operators checked against a reference over bounded inputs.
2. A second mesh node as a full model, in place of the peers of `Certificates`, which
   only sign.
