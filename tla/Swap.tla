-------------------------------- MODULE Swap --------------------------------
(***************************************************************************)
(* The HTTP handlers that submit stateful shifts and swaps                 *)
(* (src/src/api/routes.rs, src/src/api/state.rs) against the synthesis     *)
(* cycle.                                                                  *)
(*                                                                         *)
(* A shift to one of the pool's token accounts is a swap: before it queues *)
(* the shift, the handler quotes a price from the wave-field, signs a      *)
(* payout in the pool's name with the nonce of the request, and queues     *)
(* that.  The two are independent from then on: the client's own half      *)
(* names a domain and predecessors of the client's choice, and is checked  *)
(* against them only when it is ingested, inserted and applied.  A client  *)
(* that gets no answer sends its request again.                            *)
(*                                                                         *)
(* Of a vector clock the sender's own entry is kept, which orders the      *)
(* shifts of one sender.  A shift stands for its hash and its signature;   *)
(* the handler has verified the signature against the key with which the   *)
(* cycle verifies it again.  The cycle is that of Oscillator.tla without   *)
(* decay; of the fee policies it keeps the flat one, the only one that can *)
(* stop a shift.                                                           *)
(***************************************************************************)
EXTENDS PartialMaps, Integers, Sequences, FiniteSets, FiniteSetsExt, SequencesExt

CONSTANTS Account,
          PoolWave, PoolUsdc, \* the pool's token accounts
          WaveOf, UsdcOf,     \* token accounts of the owner of an account
          Domain, Dex,        \* domain names; DEFAULT_DEX_DOMAIN
          Policy,             \* domain_registry
          Request,            \* numbers of the requests that can be sent
          Submitted,          \* their content
          Genesis,            \* balances after registration
          Registered,         \* accounts whose keys are known at the start
          Thread,             \* handlers that can run at the same time
          RecentCap,          \* shifts the explorer's list holds
          MaxTick,            \* bound: cycles
          LastRequest,        \* bound: no handler runs after this tick
          MaxSends,           \* bound: requests sent, repetitions counted
          Retried,            \* bound: requests that may be sent twice
          Reused              \* bound: requests whose signature may come
                              \* with a commutative signal

DomainPolicy == [stateful : BOOLEAN, flat : Nat,
                 ordering : {"Causal", "Commutative", "Strict"}]

(* A predecessor is named by the request whose shift it is; a number that  *)
(* no request has stands for the hash of nothing.                          *)
ASSUME SwapAssumption ==
    /\ PoolWave \in Account /\ PoolUsdc \in Account /\ PoolWave # PoolUsdc
    /\ Request \subseteq Nat
    /\ \A r \in Request :
          Submitted[r] \in [from : Account \ {PoolWave, PoolUsdc}, to : Account,
                            amount : Nat, nonce : Nat, clock : Nat,
                            domain : Domain, needs : SUBSET Nat]
    /\ Dex \in DOMAIN Policy /\ DOMAIN Policy \subseteq Domain
    /\ \A d \in DOMAIN Policy : Policy[d] \in DomainPolicy
    /\ WaveOf \in [Account -> Account] /\ UsdcOf \in [Account -> Account]
    /\ Genesis \in [Account -> Nat] /\ RecentCap \in Nat
    /\ {PoolWave, PoolUsdc} \subseteq Registered /\ Registered \subseteq Account
    /\ MaxTick \in Nat /\ LastRequest \in 0..(MaxTick - 2)
    /\ MaxSends \in Nat /\ Retried \subseteq Request /\ Reused \subseteq Request

VARIABLES
    field,     \* wave-field balances
    nonces,    \* seen_nonces, per account and domain
    seen,      \* seen_signatures, with the kind of signal that recorded each
    since,     \* the keys of the registry, each with the first cycle whose
               \* copy of the registry holds it
    pending,   \* pending_stateful
    batch,     \* the drained shifts that are not inserted yet
    inserted,  \* DAG nodes and the ticks they were inserted in
    rejected,  \* the DAG's rejected map
    doubled,   \* nodes marked as double spends
    applied,
    tips,      \* own entry of each account's tip
    quorate,   \* ticks for which check_quorum returns a view
    job,       \* per thread, the request it serves and how far it is
    recent,    \* length of recent_shifts
    tick, phase, sim, todo,
    sent,      \* how often each request was sent
    due        \* history: for each shift that ingest answered with Ok, the
               \* cycle that drains what is queued at that moment

handlerVars == <<nonces, seen, pending, job, recent, sent, due>>
dagVars == <<inserted, rejected, doubled, applied, tips>>
cycleVars == <<field, batch, dagVars, tick, phase, sim, todo>>
vars == <<handlerVars, cycleVars, since, quorate>>

Idle == [step |-> "none"]

(* register_account has seeded the token accounts and made their owner     *)
(* known; ApiState::new has seeded the pool.                               *)
Init ==
    /\ field = Genesis /\ sim = Genesis
    /\ nonces = [k \in {} |-> 0] /\ seen = [s \in {} |-> "stateful"]
    /\ since = [a \in Registered |-> 1] /\ quorate = {}
    /\ tips = [a \in Account |-> 0]
    /\ pending = <<>> /\ batch = <<>> /\ inserted = [s \in {} |-> 0]
    /\ rejected = {} /\ doubled = {} /\ applied = {} /\ todo = {}
    /\ job = [th \in Thread |-> Idle] /\ recent = 0
    /\ tick = 0 /\ phase = "idle"
    /\ sent = [r \in Request |-> 0] /\ due = [s \in {} |-> 0]

(* The client's shift.                                                     *)
Own(r) ==
    LET q == Submitted[r] IN
    [kind |-> "own", request |-> r, from |-> q.from, to |-> q.to,
     amount |-> q.amount, clock |-> q.clock, nonce |-> q.nonce,
     domain |-> q.domain, needs |-> q.needs]

IsSwap(r) == Submitted[r].to \in {PoolWave, PoolUsdc}

(* While the cycle holds the lock of the DAG, what needs no lock could run  *)
(* as well, but with the effect it has just after.                         *)
DagLockFree == phase \notin {"insert", "apply"}

-----------------------------------------------------------------------------
(* ingest *)

(* The policy checks of ingest_stateful, before it records anything.       *)
Admissible(s) ==
    /\ s.domain \in DOMAIN Policy /\ Policy[s.domain].stateful
    /\ Policy[s.domain].ordering = "Commutative" => s.needs = {}

NonceOf(s) == <<s.from, s.domain>>

(* Mutant: a nonce may be repeated.                                        *)
FreshOrEqual(s) == NonceOf(s) \in DOMAIN nonces => s.nonce >= nonces[NonceOf(s)]

(* check_and_record_nonce                                                  *)
FreshNonce(s) == NonceOf(s) \in DOMAIN nonces => s.nonce > nonces[NonceOf(s)]

(* A shift whose signature is recorded already is answered with Ok and not *)
(* queued.                                                                 *)
RecordsNonce(s) == Admissible(s) /\ FreshNonce(s)
IngestOk(s) == RecordsNonce(s) /\ (s \in DOMAIN seen \/ s.amount > 0)
Queues(s) == RecordsNonce(s) /\ s \notin DOMAIN seen /\ s.amount > 0

(* ingest_stateful                                                         *)
Ingest(s) ==
    /\ nonces' = IF RecordsNonce(s) THEN Put(nonces, NonceOf(s), s.nonce)
                 ELSE nonces
    /\ IF Queues(s)
       THEN seen' = Put(seen, s, "stateful") /\ pending' = Append(pending, s)
       ELSE UNCHANGED <<seen, pending>>
    /\ due' = IF IngestOk(s)
              THEN Put(due, s, IF phase = "started" THEN tick ELSE tick + 1)
              ELSE due

(* ingest_commutative keeps its signatures in the same map, and does not   *)
(* verify them: a signal that carries the signature of request r's shift   *)
(* records it.                                                             *)
RecordSignature(r) ==
    /\ r \in Reused /\ DagLockFree /\ tick <= LastRequest
    /\ Own(r) \notin DOMAIN seen
    /\ seen' = Put(seen, Own(r), "commutative")
    /\ UNCHANGED <<cycleVars, since, quorate, nonces, pending, job, recent,
                   sent, due>>

-----------------------------------------------------------------------------
(* submit_stateful *)

(* A token account's key becomes known; a cycle that has begun works with  *)
(* the copy it was given.                                                  *)
RegisterKey(a) ==
    /\ a \notin DOMAIN since /\ DagLockFree /\ tick <= LastRequest
    /\ since' = Put(since, a, tick + 1)
    /\ UNCHANGED <<cycleVars, handlerVars, quorate>>

(* wave_to_usdc_out and usdc_to_wave_out: the input at the ratio of the    *)
(* reserves, rounded down.                                                 *)
PoolOut(into, amount) ==
    LET other == IF into = PoolWave THEN PoolUsdc ELSE PoolWave IN
    IF field[into] = 0 THEN 0 ELSE (amount * field[other]) \div field[into]

SentSoFar == MapThenSumSet(LAMBDA q : sent[q], Request)

(* The sender's key must be known and the clock continue its tip.  A swap  *)
(* is quoted; one that brings nothing is refused.  The lock of the DAG is  *)
(* released again.                                                         *)
Accept(th, r) ==
    /\ job[th] = Idle /\ DagLockFree
    /\ tick <= LastRequest /\ sent[r] < (IF r \in Retried THEN 2 ELSE 1)
    /\ SentSoFar < MaxSends
    /\ Submitted[r].from \in DOMAIN since
    /\ Submitted[r].clock = tips[Submitted[r].from] + 1
    /\ IsSwap(r) => PoolOut(Submitted[r].to, Submitted[r].amount) > 0
    /\ job' = [job EXCEPT ![th] =
                  IF IsSwap(r)
                  THEN [step |-> "payout", request |-> r,
                        out |-> PoolOut(Submitted[r].to, Submitted[r].amount)]
                  ELSE [step |-> "own", request |-> r]]
    /\ sent' = [sent EXCEPT ![r] = @ + 1]
    /\ UNCHANGED <<cycleVars, since, quorate, nonces, seen, pending, recent, due>>

(* build_pool_payout_shift: the other pool account pays the sender's other *)
(* token account in the DEX domain, with the next clock of the account.    *)
Payout(r, out) ==
    LET q == Submitted[r]
        from == IF q.to = PoolWave THEN PoolUsdc ELSE PoolWave
    IN  [kind |-> "payout", request |-> r, from |-> from,
         to |-> IF q.to = PoolWave THEN UsdcOf[q.from] ELSE WaveOf[q.from],
         amount |-> out, clock |-> tips[from] + 1, nonce |-> q.nonce,
         domain |-> Dex, needs |-> {}]

(* The payout is ingested.  An error, such as a nonce that the pool's      *)
(* account has used or passed, ends the request: nothing of it is queued.  *)
IngestPayout(th) ==
    LET r == job[th].request
        s == Payout(r, job[th].out)
    IN  /\ job[th].step = "payout" /\ DagLockFree /\ tick <= LastRequest
        /\ Ingest(s)
        /\ job' = [job EXCEPT ![th] = IF IngestOk(s)
                                      THEN [step |-> "own", request |-> r]
                                      ELSE Idle]
        /\ UNCHANGED <<cycleVars, since, quorate, recent, sent>>

(* Mutant: the handler returns without ingesting the shift.                *)
IngestOwnDropped(th) ==
    /\ job[th].step = "own" /\ DagLockFree /\ tick <= LastRequest
    /\ recent' = Min({recent + 1, RecentCap})
    /\ job' = [job EXCEPT ![th] = Idle]
    /\ UNCHANGED <<cycleVars, since, quorate, nonces, seen, pending, sent, due>>

(* record_shift lists the shift as accepted, and then it is ingested.  If  *)
(* that fails the payout stays.                                            *)
IngestOwn(th) ==
    /\ job[th].step = "own" /\ DagLockFree /\ tick <= LastRequest
    /\ recent' = Min({recent + 1, RecentCap})
    /\ Ingest(Own(job[th].request))
    /\ job' = [job EXCEPT ![th] = Idle]
    /\ UNCHANGED <<cycleVars, since, quorate, sent>>

-----------------------------------------------------------------------------
(* synthesize *)

IsStrict(s) == s.domain \in DOMAIN Policy /\ Policy[s.domain].ordering = "Strict"

(* Certificates give a tick its quorum, and new stake can take it away: at *)
(* any time, of which the last one before a shift is tried counts.         *)
QuorumChange(s) ==
    /\ phase = "apply" /\ IsStrict(s)
    /\ quorate' = SymDiff(quorate, {inserted[s]})
    /\ UNCHANGED <<cycleVars, handlerVars, since>>

BeginTick ==
    /\ phase = "idle" /\ tick < MaxTick
    /\ tick' = tick + 1 /\ phase' = "started"
    /\ UNCHANGED <<handlerVars, dagVars, since, quorate, field, batch, sim, todo>>

(* Mutant: a cycle takes one shift from the queue.                         *)
DrainOne ==
    /\ phase = "started"
    /\ batch' = IF pending = <<>> THEN <<>> ELSE <<Head(pending)>>
    /\ pending' = IF pending = <<>> THEN <<>> ELSE Tail(pending)
    /\ phase' = "drained"
    /\ UNCHANGED <<dagVars, since, quorate, field, tick, sim, todo, nonces, seen,
                   job, recent, sent, due>>

Drain ==
    /\ phase = "started"
    /\ batch' = pending /\ pending' = <<>> /\ phase' = "drained"
    /\ UNCHANGED <<dagVars, since, quorate, field, tick, sim, todo, nonces, seen,
                   job, recent, sent, due>>

(* The copy of the key registry that this cycle was given holds the key.   *)
KeyKnown(a) == a \in DOMAIN since /\ since[a] <= tick

HasPredecessors(s) ==
    \A p \in s.needs : p \in Request /\ Own(p) \in DOMAIN inserted

(* The drained shifts are inserted one by one, under the lock of the DAG.  *)
(* One of an unknown sender is dropped and leaves no trace; one whose      *)
(* predecessors are missing is rejected.                                   *)
InsertNext ==
    LET s == Head(batch) IN
    /\ phase \in {"drained", "insert"} /\ batch # <<>>
    /\ batch' = Tail(batch) /\ phase' = "insert"
    /\ IF ~KeyKnown(s.from) \/ s \in DOMAIN inserted
       THEN UNCHANGED <<inserted, rejected, tips>>
       ELSE IF ~HasPredecessors(s)
       THEN rejected' = rejected \cup {s} /\ UNCHANGED <<inserted, tips>>
       ELSE /\ inserted' = Put(inserted, s, tick - 1)
            /\ tips' = [tips EXCEPT ![s.from] = Max({@, s.clock})]
            /\ UNCHANGED rejected
    /\ UNCHANGED <<handlerVars, since, quorate, field, doubled, applied, tick, sim,
                   todo>>

(* The order in which double spends are looked for; the request's number   *)
(* stands for the hash.                                                    *)
Before(s, t) ==
    \/ inserted[s] < inserted[t]
    \/ inserted[s] = inserted[t] /\ s.request < t.request
    \/ inserted[s] = inserted[t] /\ s.request = t.request /\ s.clock < t.clock

(* t and an earlier concurrent shift of its sender, with those in between, *)
(* exceed the sender's balance.                                            *)
DoubleSpends ==
    {t \in DOMAIN inserted : \E s \in DOMAIN inserted :
        LET rivals == {u \in DOMAIN inserted :
                          /\ u.from = t.from /\ u.clock = s.clock
                          /\ u = s \/ Before(s, u)
                          /\ u = t \/ Before(u, t)}
        IN  /\ s.from = t.from /\ s.clock = t.clock /\ Before(s, t)
            /\ MapThenSumSet(LAMBDA u : u.amount, rivals) > field[t.from]}

(* Mutant: what was skipped in an earlier cycle is not tried again.        *)
MarkOnlyNew ==
    LET bad == doubled \cup DoubleSpends IN
    /\ phase \in {"drained", "insert"} /\ batch = <<>>
    /\ doubled' = bad
    /\ todo' = {s \in DOMAIN inserted : inserted[s] = tick - 1} \ (bad \cup applied)
    /\ sim' = field /\ phase' = "apply"
    /\ UNCHANGED <<handlerVars, since, quorate, field, batch, inserted, rejected,
                   applied, tips, tick>>

(* Double spends are marked, the wave-field is copied, and every node that *)
(* is neither rejected nor applied will be tried.                          *)
Mark ==
    LET bad == doubled \cup DoubleSpends IN
    /\ phase \in {"drained", "insert"} /\ batch = <<>>
    /\ doubled' = bad /\ todo' = DOMAIN inserted \ (bad \cup applied)
    /\ sim' = field /\ phase' = "apply"
    /\ UNCHANGED <<handlerVars, since, quorate, field, batch, inserted, rejected,
                   applied, tips, tick>>

Fee(s) == Policy[s.domain].flat
Moved(s) == [[sim EXCEPT ![s.from] = @ - s.amount]
                EXCEPT ![s.to] = @ + (s.amount - Fee(s))]

(* Mutant: the sender's balance is not looked at.                          *)
ApplicableUnfunded(s) ==
    /\ KeyKnown(s.from) /\ s.domain \in DOMAIN Policy
    /\ IsStrict(s) => inserted[s] \in quorate
    /\ Fee(s) <= s.amount

(* The tests of the apply loop.                                            *)
Applicable(s) ==
    /\ KeyKnown(s.from) /\ s.domain \in DOMAIN Policy
    /\ IsStrict(s) => inserted[s] \in quorate
    /\ Fee(s) <= s.amount /\ s.amount <= sim[s.from]

(* Each shift is tried once per cycle, after its predecessors; one that    *)
(* fails a test is skipped until the next.                                 *)
Apply(s) ==
    /\ phase = "apply" /\ s \in todo /\ todo' = todo \ {s}
    /\ \A p \in s.needs : \A t \in todo : ~(t.kind = "own" /\ t.request = p)
    /\ IF Applicable(s) THEN sim' = Moved(s) /\ applied' = applied \cup {s}
       ELSE UNCHANGED <<sim, applied>>
    /\ UNCHANGED <<handlerVars, since, quorate, field, batch, inserted, rejected,
                   doubled, tips, tick, phase>>

Publish ==
    /\ phase = "apply" /\ todo = {}
    /\ field' = sim /\ phase' = "idle"
    /\ UNCHANGED <<handlerVars, dagVars, since, quorate, batch, tick, sim, todo>>

-----------------------------------------------------------------------------
(* Reads *)

(* shift_status                                                            *)
ShiftStatus(s) ==
    IF s \in DOMAIN inserted THEN IF s \in doubled THEN "rejected" ELSE "accepted"
    ELSE IF s \in rejected THEN "rejected" ELSE "unknown"

(* What wait_for_min_tick waits for.                                       *)
TickReached(min_tick) == tick >= min_tick

-----------------------------------------------------------------------------
(* Specification *)

Cycle ==
    \/ BeginTick \/ Drain \/ InsertNext \/ Mark \/ Publish
    \/ \E s \in todo : Apply(s)
Handler(th) == IngestPayout(th) \/ IngestOwn(th)
Surroundings ==
    \/ \E a \in Account : RegisterKey(a)
    \/ \E r \in Request : RecordSignature(r)
    \/ \E s \in todo : QuorumChange(s)
BoundReached == phase = "idle" /\ tick = MaxTick /\ UNCHANGED vars

Next ==
    \/ Cycle
    \/ \E th \in Thread : Handler(th) \/ \E r \in Request : Accept(th, r)
    \/ Surroundings
    \/ BoundReached

Spec == Init /\ [][Next]_vars

(* The node synthesizes again and again.                                   *)
FairSpec == Spec /\ WF_vars(Cycle)

-----------------------------------------------------------------------------
(* Properties *)

(* The shifts that are queued or in the DAG.                               *)
Present == ToSet(pending) \cup ToSet(batch) \cup DOMAIN inserted
PayoutsOf(r) == {s \in Present : s.kind = "payout" /\ s.request = r}
InProgress(r) == \E th \in Thread : job[th] # Idle /\ job[th].request = r

TypeOK ==
    /\ field \in [Account -> Nat] /\ sim \in [Account -> Nat]
    /\ \A s \in Present : s.amount \in Nat \ {0}
    /\ applied \subseteq DOMAIN inserted /\ doubled \subseteq DOMAIN inserted
    /\ recent \in 0..RecentCap /\ tick \in 0..MaxTick

(* However often and from however many threads at once a swap is sent, one *)
(* payout is queued for it at most.                                        *)
PaidOutOnce == \A r \in Request : Cardinality(PayoutsOf(r)) <= 1

(* A commutative signal had recorded the shift's signature.                *)
SignatureTaken(s) == s \in DOMAIN seen /\ seen[s] = "commutative"

(* ingest said Ok, and the cycle that drained the shift had a copy of the  *)
(* registry from before the sender's registration.                         *)
KeyTooLate(s) == s \in DOMAIN due /\ since[s.from] > due[s]

(* q recorded its nonce, which is not below that of r.                     *)
Supersedes(q, r) ==
    /\ NonceOf(Own(q)) = NonceOf(Own(r)) /\ Submitted[q].nonce >= Submitted[r].nonce
    /\ Own(q) \in DOMAIN due \/ (Submitted[q].amount = 0 /\ sent[q] > 0)

(* The handler queues the pool's payout before it knows that the client's  *)
(* half will be accepted.  These are all the ways in which a payout can be *)
(* left without it once the handler is done: the domain's policy refuses   *)
(* it; another request of the sender recorded the nonce or a higher one;   *)
(* its signature was taken; a predecessor was missing when it was          *)
(* inserted; the cycle did not know the sender's key yet.                  *)
PayoutHasItsShift ==
    \A r \in Request :
        PayoutsOf(r) # {} /\ ~InProgress(r) /\ Own(r) \notin Present =>
            \/ ~Admissible(Own(r)) \/ SignatureTaken(Own(r))
            \/ Own(r) \in rejected \/ KeyTooLate(Own(r))
            \/ \E q \in Request \ {r} : Supersedes(q, r)

(* A client that was told "queued" at tick t has its shift drained by the  *)
(* running cycle or the next, t or t + 1, and gets an answer when it reads *)
(* the status with min_tick t + 2: the tick counts cycles that have begun, *)
(* so t + 1 would not do.  Two kinds of shift stay unknown for ever: those *)
(* whose signature was taken and those whose key came too late.            *)
KnownAfterTwoTicks ==
    \A s \in DOMAIN due :
        TickReached(due[s] + 1) =>
            ShiftStatus(s) # "unknown" \/ SignatureTaken(s) \/ KeyTooLate(s)

(* What stops a shift for which ingest said Ok.                            *)
Stopped(s) ==
    \/ SignatureTaken(s) \/ KeyTooLate(s)
    \/ s \in rejected \/ s \in doubled
    \/ Fee(s) > s.amount \/ field[s.from] < s.amount
    \/ IsStrict(s) /\ s \in DOMAIN inserted /\ inserted[s] \notin quorate

(* Both halves of a swap are applied in the end, once ingest said Ok to    *)
(* them and however often they were skipped, unless something stops one.   *)
(* The swaps are those whose domain admits the client's half and charges   *)
(* no more than its amount, without which it never is.                     *)
SwapCompletes ==
    \A r \in {r \in Request : /\ IsSwap(r) /\ Admissible(Own(r))
                             /\ Fee(Own(r)) <= Submitted[r].amount} :
        (PayoutsOf(r) # {} /\ Own(r) \in DOMAIN due) ~>
            \A s \in PayoutsOf(r) \cup {Own(r)} : s \in applied \/ Stopped(s)
=============================================================================
