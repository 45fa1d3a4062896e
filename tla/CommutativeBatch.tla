-------------------------- MODULE CommutativeBatch --------------------------
(***************************************************************************)
(* Commutative signals: ingest_commutative and the batch section of        *)
(* synthesize() (src/src/consensus/oscillator.rs) with the pools of the    *)
(* wave-field (src/src/field/wave_field.rs), together with the reward pool *)
(* that the decay of the pools feeds.                                      *)
(*                                                                         *)
(* Sums do not depend on the order of the queue, so it is a count for each *)
(* signal.  The transform of a batch is the identity on sums that the      *)
(* prime field represents; a larger sum in a bin fails the round trip.     *)
(***************************************************************************)
EXTENDS RewardPool

CONSTANTS Signal,      \* signals that can arrive
          Content,     \* Signal -> domain, bin, delta, pool and signature
          Commutative, \* domains whose policy allows commutative signals
          Pool,
          Thread,      \* threads that call ingest
          Arriving,    \* the signals that each thread may bring
          NoSignal,
          NttHalf,     \* half of the modulus of the transform
          MaxLoss,     \* bound: what a pool loses to decay in a cycle
          AccountLoss, \* what the accounts may lose to decay in a cycle
          CycleFees,   \* what the fees of a cycle may be
          MaxTick,     \* bound: cycles
          LastIngest   \* bound: no signal arrives in a later cycle

ASSUME BatchAssumption ==
    /\ NoSignal \notin Signal /\ IsFiniteSet(Signal) /\ IsFiniteSet(Pool)
    /\ \A s \in Signal : Content[s].delta \in Int /\ Content[s].pool \in Pool
    /\ Arriving \in [Thread -> SUBSET Signal]
    /\ NttHalf \in Nat /\ MaxLoss \in Nat
    /\ AccountLoss \subseteq Nat /\ CycleFees \subseteq Nat
    /\ MaxTick \in Nat /\ LastIngest \in 0..(MaxTick - 1)

VARIABLES
    seen_signatures,
    ingesting,   \* per thread, the signal that passed the signature check
    pushing,     \* per thread, the signal whose signature it recorded
    queued,      \* pending_commutative
    drained,     \* the signals of the cycle
    todo,        \* domains of by_domain that are still to be done
    pools,       \* WaveField.pools
    tick, pc,
    lost,        \* history: what each pool lost to decay
    settled,     \* history: signals whose batch succeeded
    raced,       \* history: signatures that two threads checked together
    spoiled      \* history: pools that a failed batch changed

batchVars == <<seen_signatures, ingesting, pushing, queued, drained, todo, pools,
               tick, pc, lost, settled, raced, spoiled>>
vars == <<rewardVars, batchVars>>

None == [s \in Signal |-> 0]

Init ==
    /\ RewardInit
    /\ seen_signatures = {} /\ ingesting = [th \in Thread |-> NoSignal]
    /\ pushing = [th \in Thread |-> NoSignal]
    /\ queued = None /\ drained = None /\ todo = {}
    /\ pools = [p \in {} |-> 0]
    /\ tick = 0 /\ pc = "idle"
    /\ lost = [p \in Pool |-> 0] /\ settled = {} /\ raced = {}
    /\ spoiled = {}

-----------------------------------------------------------------------------
(* ingest_commutative *)

(* The policy and the signature are checked ...                            *)
CheckSignal(th, s) ==
    LET sig == Content[s].signature IN
    /\ tick <= LastIngest /\ ingesting[th] = NoSignal /\ pushing[th] = NoSignal
    /\ Content[s].domain \in Commutative
    /\ sig \notin seen_signatures
    /\ ingesting' = [ingesting EXCEPT ![th] = s]
    /\ raced' = IF \E u \in Thread : /\ ingesting[u] # NoSignal
                                     /\ Content[ingesting[u]].signature = sig
                THEN raced \cup {sig} ELSE raced
    /\ UNCHANGED <<rewardVars, seen_signatures, pushing, queued, drained, todo,
                   pools, tick, pc, lost, settled, spoiled>>

(* Mutant: the signature is not recorded.                                  *)
RecordNothing(th) ==
    LET s == ingesting[th] IN
    /\ s # NoSignal /\ tick <= LastIngest
    /\ queued[s] < 2
    /\ pushing' = [pushing EXCEPT ![th] = s]
    /\ ingesting' = [ingesting EXCEPT ![th] = NoSignal]
    /\ UNCHANGED <<rewardVars, seen_signatures, queued, drained, todo, pools,
                   tick, pc, lost, settled, raced, spoiled>>

(* ... not atomically with the check, the signature is recorded ...        *)
RecordSignature(th) ==
    LET s == ingesting[th] IN
    /\ s # NoSignal /\ tick <= LastIngest
    /\ seen_signatures' = seen_signatures \cup {Content[s].signature}
    /\ pushing' = [pushing EXCEPT ![th] = s]
    /\ ingesting' = [ingesting EXCEPT ![th] = NoSignal]
    /\ UNCHANGED <<rewardVars, queued, drained, todo, pools, tick, pc, lost,
                   settled, raced, spoiled>>

(* ... and then, under the lock of the queue, the signal is pushed.        *)
PushSignal(th) ==
    LET s == pushing[th] IN
    /\ s # NoSignal /\ tick <= LastIngest
    /\ queued' = [queued EXCEPT ![s] = @ + 1]
    /\ pushing' = [pushing EXCEPT ![th] = NoSignal]
    /\ UNCHANGED <<rewardVars, seen_signatures, ingesting, drained, todo, pools,
                   tick, pc, lost, settled, raced, spoiled>>

-----------------------------------------------------------------------------
(* synthesize *)

(* Each pool loses its share, and the accounts together theirs: a quarter  *)
(* of it is burned, the rest is distributed.                               *)
LoseAndDistribute(loss, accounts) ==
    LET decayed == accounts + SumFunction(loss)
        burn == (decayed * 2500) \div 10000
    IN  /\ pools' = [p \in DOMAIN pools |-> pools[p] - loss[p]]
        /\ lost' = [p \in Pool |-> lost[p] + Get(loss, p)]
        /\ circulating' = Max({0, circulating - burn})
        /\ distribute(decayed - burn)

(* Metabolic decay of pools and accounts.                                  *)
Decay ==
    /\ pc = "idle" /\ tick < MaxTick
    /\ \E loss \in [DOMAIN pools -> 0..MaxLoss], accounts \in AccountLoss :
          /\ \A p \in DOMAIN pools : loss[p] <= pools[p]
          /\ LoseAndDistribute(loss, accounts)
    /\ tick' = tick + 1 /\ pc' = "drain"
    /\ UNCHANGED <<stakes, restakes, claiming, paid, refused, seen_signatures,
                   ingesting, pushing, queued, drained, todo, settled, raced,
                   spoiled>>

(* The queue is emptied and grouped by domain; what belongs to no          *)
(* commutative domain is dropped.                                          *)
Drain ==
    /\ pc = "drain"
    /\ drained' = queued /\ queued' = None
    /\ todo' = {Content[s].domain : s \in {s \in Signal : queued[s] > 0}}
                  \cap Commutative
    /\ pc' = "batch"
    /\ UNCHANGED <<rewardVars, seen_signatures, ingesting, pushing, pools, tick, lost,
                   settled, raced, spoiled>>

Batch(d) == {s \in Signal : drained[s] > 0 /\ Content[s].domain = d}
SumOf(S) == SumFunctionOnSet([s \in Signal |-> drained[s] * Content[s].delta], S)
Aggregate(d, p) == SumOf({s \in Batch(d) : Content[s].pool = p})

(* The round trip through the prime field returns every bin's sum.         *)
RoundTrips(d) ==
    \A s \in Batch(d) :
        LET bin == SumOf({r \in Batch(d) : Content[r].bin = Content[s].bin})
        IN  bin \in (-NttHalf)..NttHalf

(* The pools among P take their aggregates.                                *)
Updated(d, P) == Overwrite(pools, [p \in P |-> Get(pools, p) + Aggregate(d, p)])

(* Mutant: a pool may go negative.                                         *)
NeverShort(d) == {}

(* Pools that the batch would make negative.                               *)
Short(d) ==
    {p \in {Content[s].pool : s \in Batch(d)} : Get(pools, p) + Aggregate(d, p) < 0}

(* Mutant: a failed batch is dropped.                                      *)
DropBatch(d) == UNCHANGED <<queued, pools, spoiled, settled>>

(* A failed batch is queued again as a whole.  If it failed on a pool, the *)
(* pools that came before it in the order of a HashMap keep their change.  *)
FailBatch(d) ==
    /\ queued' = [s \in Signal |-> IF s \in Batch(d) THEN queued[s] + drained[s]
                                   ELSE queued[s]]
    /\ \/ ~RoundTrips(d) /\ UNCHANGED <<pools, spoiled>>
       \/ /\ RoundTrips(d)
          /\ \E P \in SUBSET ({Content[s].pool : s \in Batch(d)} \ Short(d)),
                q \in Short(d) :
                /\ pools' = Put(Updated(d, P), q, Get(pools, q))
                /\ spoiled' = spoiled \cup P
    /\ UNCHANGED settled

ApplyBatch(d) ==
    /\ pools' = Updated(d, {Content[s].pool : s \in Batch(d)})
    /\ settled' = settled \cup Batch(d)
    /\ UNCHANGED <<queued, spoiled>>

(* Mutant: an error ends the loop, and what is left of the cycle's signals *)
(* is queued again.                                                        *)
SynthesizeUntilError(d) ==
    /\ pc = "batch" /\ d \in todo
    /\ IF RoundTrips(d) /\ Short(d) = {} THEN ApplyBatch(d) /\ todo' = todo \ {d}
       ELSE /\ queued' = [s \in Signal |-> IF Content[s].domain \in todo
                                          THEN queued[s] + drained[s]
                                          ELSE queued[s]]
            /\ todo' = {}
            /\ UNCHANGED <<pools, spoiled, settled>>
    /\ UNCHANGED <<rewardVars, seen_signatures, ingesting, pushing, drained, tick,
                   pc, lost, raced>>

(* synthesize_commutative_batch for one domain, in the order of a HashMap. *)
SynthesizeDomain(d) ==
    /\ pc = "batch" /\ d \in todo
    /\ IF RoundTrips(d) /\ Short(d) = {} THEN ApplyBatch(d) ELSE FailBatch(d)
    /\ todo' = todo \ {d}
    /\ UNCHANGED <<rewardVars, seen_signatures, ingesting, pushing, drained, tick,
                   pc, lost, raced>>

(* The stateful part of the cycle brings fees.                             *)
Fees ==
    /\ pc = "batch" /\ todo = {}
    /\ \E fees \in CycleFees : distribute(fees)
    /\ drained' = None /\ pc' = "idle"
    /\ UNCHANGED <<stakes, restakes, circulating, claiming, paid, refused,
                   seen_signatures, ingesting, pushing, queued, todo, pools,
                   tick, lost, settled, raced, spoiled>>

Cycle == Decay \/ Drain \/ (\E d \in Commutative : SynthesizeDomain(d)) \/ Fees

BoundReached == pc = "idle" /\ tick = MaxTick /\ UNCHANGED vars

Next ==
    \/ Cycle
    \/ \E th \in Thread : \/ RecordSignature(th) \/ PushSignal(th)
                          \/ \E s \in Arriving[th] : CheckSignal(th, s)
    \/ RewardStep /\ UNCHANGED batchVars
    \/ BoundReached

Spec == Init /\ [][Next]_vars

(* The node calls synthesize() again and again.                            *)
FairSpec == Spec /\ WF_vars(Cycle)

-----------------------------------------------------------------------------
(* Properties *)

TypeOK ==
    /\ RewardTypeOK
    /\ IsMap(pools, Pool, Nat)
    /\ ingesting \in [Thread -> Signal \cup {NoSignal}]
    /\ pushing \in [Thread -> Signal \cup {NoSignal}]
    /\ queued \in [Signal -> Nat] /\ drained \in [Signal -> Nat]
    /\ todo \subseteq Commutative /\ pc \in {"idle", "drain", "batch"}
    /\ tick \in 0..MaxTick

(* A pool holds the deltas of the signals whose batch succeeded, each      *)
(* counted once, less what decayed, unless two threads let one signature   *)
(* in together, or a batch that failed on another pool changed this one    *)
(* before it was queued again.                                             *)
SignalCountsOnce ==
    \A p \in Pool :
        LET mine == {s \in Signal : Content[s].pool = p} IN
        p \notin spoiled /\ (\A s \in mine : Content[s].signature \notin raced)
            => Get(pools, p) + lost[p]
                  = SumFunctionOnSet([s \in Signal |-> Content[s].delta],
                                     settled \cap mine)

(* The signals of domain d that wait, in the queue or in the cycle.        *)
WaitingIn(d) ==
    [s \in Signal |-> IF Content[s].domain # d THEN 0
                      ELSE IF d \in todo THEN queued[s] + drained[s] ELSE queued[s]]

(* Together they do not fit: a bin's sum leaves the prime field, or a pool *)
(* would go negative.                                                      *)
Misfit(d) ==
    LET sum(S) == SumFunctionOnSet(
                     [s \in Signal |-> WaitingIn(d)[s] * Content[s].delta], S)
    IN  \/ \E s \in Signal :
              sum({r \in Signal : Content[r].bin = Content[s].bin})
                 \notin (-NttHalf)..NttHalf
        \/ \E p \in Pool :
              Get(pools, p) + sum({s \in Signal : Content[s].pool = p}) < 0

(* In the end a queued signal is settled for good, or it still waits in a  *)
(* domain whose signals together do not fit.  What waits in another domain *)
(* does not hold it up.                                                    *)
QueuedIsSettled ==
    \A s \in Signal :
        queued[s] > 0 ~>
            [](\/ s \in settled
               \/ WaitingIn(Content[s].domain)[s] > 0 /\ Misfit(Content[s].domain))

(* No signal is forgotten: one whose signature was recorded is on its way  *)
(* to the queue, in the queue or in the cycle until it is settled.         *)
NothingForgotten ==
    \A s \in Signal :
        Content[s].signature \in seen_signatures =>
            \E r \in Signal : /\ Content[r].signature = Content[s].signature
                              /\ \/ queued[r] > 0 \/ drained[r] > 0 \/ r \in settled
                                 \/ \E th \in Thread : pushing[th] = r
=============================================================================
