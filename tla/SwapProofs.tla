----------------------------- MODULE SwapProofs -----------------------------
(***************************************************************************)
(* Theorems about Swap.tla, for any requests, accounts, domains and number *)
(* of handlers.                                                            *)
(***************************************************************************)
EXTENDS Swap, FiniteSetTheorems, TLAPS

-----------------------------------------------------------------------------
(* Types *)

Job ==
    {Idle} \cup [step : {"own"}, request : Request]
           \cup [step : {"payout"}, request : Request, out : Nat \ {0}]

Shift ==
    [kind : {"own", "payout"}, request : Request, from : Account, to : Account,
     amount : Nat, clock : Nat, nonce : Nat, domain : Domain, needs : SUBSET Nat]

SwapInv ==
    /\ TypeOK
    /\ job \in [Thread -> Job] /\ sent \in [Request -> Nat]
    /\ pending \in Seq(Shift) /\ batch \in Seq(Shift)
    /\ DOMAIN inserted \subseteq Shift
    /\ todo \subseteq DOMAIN inserted
    /\ tips \in [Account -> Nat]
    /\ \A k \in DOMAIN nonces : nonces[k] \in Nat
    /\ \A a \in DOMAIN since : since[a] \in Nat

(* The pool's account that pays for request r.                             *)
PaysFor(r) == IF Submitted[r].to = PoolWave THEN PoolUsdc ELSE PoolWave

(* What a handler's job is.                                                *)
LEMMA JobCases ==
    ASSUME NEW j \in Job
    PROVE  /\ j.step = "own" =>
                 j.request \in Request /\ j = [step |-> "own", request |-> j.request]
           /\ j.step = "payout" => j.request \in Request /\ j.out \in Nat \ {0}
           /\ j.step \in {"own", "payout"} => j # Idle
           /\ j # Idle => j.step \in {"own", "payout"} /\ j.request \in Request
BY DEF Job, Idle

(* The request of a handler.                                               *)
LEMMA RequestType ==
    ASSUME NEW r \in Request
    PROVE  /\ Submitted[r].from \in Account \ {PoolWave, PoolUsdc}
           /\ Submitted[r].to \in Account /\ Submitted[r].amount \in Nat
           /\ Submitted[r].nonce \in Nat /\ Submitted[r].clock \in Nat
           /\ Submitted[r].domain \in Domain /\ Submitted[r].needs \in SUBSET Nat
BY SwapAssumption

(* The quote is a number, and nothing brings nothing.                      *)
LEMMA PoolOutType ==
    ASSUME field \in [Account -> Nat], NEW into \in {PoolWave, PoolUsdc},
           NEW amount \in Nat
    PROVE  /\ PoolOut(into, amount) \in Nat
           /\ amount = 0 => PoolOut(into, amount) = 0
<1>1. PICK x \in Nat, y \in Nat :
         /\ y = field[into]
         /\ x = field[IF into = PoolWave THEN PoolUsdc ELSE PoolWave]
  BY SwapAssumption
<1>2. PoolOut(into, amount) = IF y = 0 THEN 0 ELSE (amount * x) \div y
  BY <1>1 DEF PoolOut
<1>3. amount * x \in Nat /\ (amount = 0 => amount * x = 0)
  OBVIOUS
<1>4. PICK z \in Nat : z = amount * x
  BY <1>3
<1>5. y # 0 => z \div y \in Nat /\ (z = 0 => z \div y = 0)
  OBVIOUS
<1> QED
  BY <1>2, <1>3, <1>4, <1>5

(* A queue to which a shift is appended.                                   *)
LEMMA AppendSet ==
    ASSUME NEW q \in Seq(Shift), NEW s \in Shift
    PROVE  /\ Append(q, s) \in Seq(Shift)
           /\ ToSet(Append(q, s)) = ToSet(q) \cup {s}
<1>1. /\ DOMAIN Append(q, s) = 1..(Len(q) + 1) /\ DOMAIN q = 1..Len(q)
      /\ Len(q) \in Nat /\ Append(q, s)[Len(q) + 1] = s
      /\ \A i \in 1..Len(q) : Append(q, s)[i] = q[i]
  OBVIOUS
<1>2. 1..(Len(q) + 1) = (1..Len(q)) \cup {Len(q) + 1}
  BY <1>1
<1> QED
  BY <1>1, <1>2 DEF ToSet

(* A queue whose head is taken.                                            *)
LEMMA TailSet ==
    ASSUME NEW q \in Seq(Shift), q # <<>>
    PROVE  /\ Head(q) \in Shift /\ Tail(q) \in Seq(Shift)
           /\ ToSet(q) = {Head(q)} \cup ToSet(Tail(q))
<1>1. /\ Len(q) \in Nat \ {0} /\ DOMAIN q = 1..Len(q) /\ Head(q) = q[1]
      /\ DOMAIN Tail(q) = 1..(Len(q) - 1)
      /\ \A i \in 1..(Len(q) - 1) : Tail(q)[i] = q[i + 1]
      /\ Head(q) \in Shift /\ Tail(q) \in Seq(Shift)
  OBVIOUS
<1>2. \A x \in ToSet(q) : x = Head(q) \/ x \in ToSet(Tail(q))
  <2> TAKE x \in ToSet(q)
  <2>1. PICK i \in 1..Len(q) : x = q[i]
    BY <1>1 DEF ToSet
  <2>2. i = 1 \/ (i - 1 \in 1..(Len(q) - 1) /\ x = Tail(q)[i - 1])
    BY <1>1, <2>1
  <2> QED
    BY <1>1, <2>1, <2>2 DEF ToSet
<1>3. \A x \in ToSet(Tail(q)) : x \in ToSet(q)
  <2> TAKE x \in ToSet(Tail(q))
  <2>1. PICK i \in 1..(Len(q) - 1) : x = Tail(q)[i]
    BY <1>1 DEF ToSet
  <2>2. i + 1 \in 1..Len(q) /\ x = q[i + 1]
    BY <1>1, <2>1
  <2> QED
    BY <1>1, <2>2 DEF ToSet
<1>4. Head(q) \in ToSet(q)
  BY <1>1 DEF ToSet
<1> QED
  BY <1>1, <1>2, <1>3, <1>4

(* The empty queue.                                                        *)
LEMMA EmptySet == ToSet(<<>>) = {}
BY DEF ToSet

(* The elements of a queue.                                                *)
LEMMA QueueType ==
    ASSUME NEW q \in Seq(Shift)
    PROVE  ToSet(q) \subseteq Shift
BY DEF ToSet

(* The shifts a handler makes.                                             *)
LEMMA ShiftTypes ==
    ASSUME NEW r \in Request
    PROVE  /\ Own(r) \in Shift /\ Own(r).kind = "own" /\ Own(r).request = r
           /\ Own(r).amount = Submitted[r].amount
           /\ Own(r).nonce = Submitted[r].nonce
           /\ Own(r).from = Submitted[r].from
           /\ NonceOf(Own(r)) = <<Submitted[r].from, Submitted[r].domain>>
<1>1. /\ Submitted[r].from \in Account /\ Submitted[r].to \in Account
      /\ Submitted[r].amount \in Nat /\ Submitted[r].nonce \in Nat
      /\ Submitted[r].clock \in Nat /\ Submitted[r].domain \in Domain
      /\ Submitted[r].needs \in SUBSET Nat
  BY RequestType
<1> QED
  BY <1>1 DEF Own, Shift, NonceOf

(* The payouts a handler makes.                                            *)
LEMMA PayoutType ==
    ASSUME NEW r \in Request, NEW out \in Nat, tips \in [Account -> Nat]
    PROVE  /\ Payout(r, out) \in Shift
           /\ Payout(r, out).kind = "payout" /\ Payout(r, out).request = r
           /\ Payout(r, out).amount = out
           /\ Payout(r, out).nonce = Submitted[r].nonce
           /\ Payout(r, out).from = PaysFor(r)
           /\ NonceOf(Payout(r, out)) = <<PaysFor(r), Dex>>
<1>1. /\ Submitted[r].from \in Account /\ Submitted[r].nonce \in Nat
  BY RequestType
<1>2. /\ UsdcOf[Submitted[r].from] \in Account /\ WaveOf[Submitted[r].from] \in Account
      /\ PoolWave \in Account /\ PoolUsdc \in Account /\ Dex \in Domain
  BY <1>1, SwapAssumption
<1>3. tips[PaysFor(r)] + 1 \in Nat /\ PaysFor(r) \in Account
  BY <1>2 DEF PaysFor
<1> QED
  BY <1>1, <1>2, <1>3 DEF Payout, PaysFor, Shift, NonceOf

(* The larger of two numbers.                                              *)
LEMMA MaxType ==
    ASSUME NEW a \in Nat, NEW b \in Nat
    PROVE  Max({a, b}) \in Nat
<1>1. \E m \in {a, b} : \A y \in {a, b} : m >= y
  OBVIOUS
<1>2. Max({a, b}) \in {a, b}
  BY <1>1, Zenon DEF Max
<1> QED
  BY <1>2

(* The smaller of two numbers.                                             *)
LEMMA MinType ==
    ASSUME NEW a \in Nat, NEW b \in Nat
    PROVE  Min({a, b}) \in 0..b
<1>1. \E m \in {a, b} : \A y \in {a, b} : m <= y
  OBVIOUS
<1>2. Min({a, b}) \in {a, b} /\ Min({a, b}) <= b
  BY <1>1, Zenon DEF Min
<1> QED
  BY <1>2

-----------------------------------------------------------------------------
(* What the actions do *)

DrainCycle == IF phase = "started" THEN tick ELSE tick + 1

(* What ingest does: it refuses the shift, answers Ok because it has its   *)
(* signature, refuses it after it recorded the nonce, or queues it.        *)
LEMMA IngestEffect ==
    ASSUME NEW s, Ingest(s)
    PROVE  \/ /\ ~RecordsNonce(s) /\ ~IngestOk(s)
              /\ nonces' = nonces /\ seen' = seen /\ pending' = pending
              /\ due' = due
           \/ /\ RecordsNonce(s) /\ IngestOk(s) /\ s \in DOMAIN seen
              /\ nonces' = Put(nonces, NonceOf(s), s.nonce)
              /\ seen' = seen /\ pending' = pending
              /\ due' = Put(due, s, DrainCycle)
           \/ /\ RecordsNonce(s) /\ ~IngestOk(s) /\ ~(s.amount > 0)
              /\ nonces' = Put(nonces, NonceOf(s), s.nonce)
              /\ seen' = seen /\ pending' = pending /\ due' = due
           \/ /\ RecordsNonce(s) /\ IngestOk(s) /\ s \notin DOMAIN seen
              /\ s.amount > 0
              /\ nonces' = Put(nonces, NonceOf(s), s.nonce)
              /\ seen' = Put(seen, s, "stateful")
              /\ pending' = Append(pending, s)
              /\ due' = Put(due, s, DrainCycle)
BY DEF Ingest, Queues, IngestOk, DrainCycle

(* What a handler that ingests a payout does.                              *)
LEMMA PayoutEffect ==
    ASSUME SwapInv, NEW th \in Thread, IngestPayout(th)
    PROVE  \E x \in Request, s \in Shift :
              /\ job[th].step = "payout" /\ x = job[th].request
              /\ s.kind = "payout" /\ s.request = x /\ s.from = PaysFor(x)
              /\ s.amount \in Nat \ {0} /\ s.nonce = Submitted[x].nonce
              /\ NonceOf(s) = <<PaysFor(x), Dex>> /\ Ingest(s)
              /\ phase \notin {"insert", "apply"}
              /\ job' = [job EXCEPT ![th] = IF IngestOk(s)
                                            THEN [step |-> "own", request |-> x]
                                            ELSE Idle]
              /\ field' = field /\ batch' = batch /\ inserted' = inserted
              /\ rejected' = rejected /\ doubled' = doubled
              /\ applied' = applied /\ tips' = tips /\ tick' = tick
              /\ phase' = phase /\ sim' = sim /\ todo' = todo
              /\ since' = since /\ recent' = recent /\ sent' = sent
<1>1. job \in [Thread -> Job] /\ job[th].step = "payout" /\ tips \in [Account -> Nat]
  BY DEF SwapInv, IngestPayout
<1>2. PICK x \in Request, out \in Nat \ {0} : x = job[th].request /\ out = job[th].out
  BY <1>1, JobCases
<1>3. PICK s \in Shift :
         /\ s = Payout(x, out) /\ s.kind = "payout" /\ s.request = x
         /\ s.amount = out /\ s.nonce = Submitted[x].nonce
         /\ s.from = PaysFor(x) /\ NonceOf(s) = <<PaysFor(x), Dex>>
  BY <1>1, PayoutType
<1>4. /\ Ingest(s) /\ phase \notin {"insert", "apply"}
      /\ job' = [job EXCEPT ![th] = IF IngestOk(s)
                                    THEN [step |-> "own", request |-> x]
                                    ELSE Idle]
  BY <1>2, <1>3 DEF IngestPayout, DagLockFree
<1>5. /\ field' = field /\ batch' = batch /\ inserted' = inserted
      /\ rejected' = rejected /\ doubled' = doubled
      /\ applied' = applied /\ tips' = tips /\ tick' = tick
      /\ phase' = phase /\ sim' = sim /\ todo' = todo
      /\ since' = since /\ recent' = recent /\ sent' = sent
  BY DEF IngestPayout, cycleVars, dagVars
<1> QED
  BY <1>1, <1>2, <1>3, <1>4, <1>5

(* What a handler that ingests the client's own shift does.                *)
LEMMA OwnEffect ==
    ASSUME SwapInv, NEW th \in Thread, IngestOwn(th)
    PROVE  \E x \in Request :
              /\ job[th] = [step |-> "own", request |-> x]
              /\ Ingest(Own(x)) /\ phase \notin {"insert", "apply"}
              /\ job' = [job EXCEPT ![th] = Idle]
              /\ recent' \in 0..RecentCap
              /\ field' = field /\ batch' = batch /\ inserted' = inserted
              /\ rejected' = rejected /\ doubled' = doubled
              /\ applied' = applied /\ tips' = tips /\ tick' = tick
              /\ phase' = phase /\ sim' = sim /\ todo' = todo
              /\ since' = since /\ sent' = sent
<1>1. job \in [Thread -> Job] /\ job[th].step = "own" /\ recent \in 0..RecentCap
  BY DEF SwapInv, TypeOK, IngestOwn
<1>2. PICK x \in Request : job[th] = [step |-> "own", request |-> x]
  BY <1>1, JobCases
<1>3. job[th].request = x
  BY <1>2
<1>4. /\ Ingest(Own(x)) /\ phase \notin {"insert", "apply"}
      /\ job' = [job EXCEPT ![th] = Idle]
  BY <1>3 DEF IngestOwn, DagLockFree
<1>5. recent' \in 0..RecentCap
  <2>1. recent' = Min({recent + 1, RecentCap})
    BY DEF IngestOwn
  <2>2. recent + 1 \in Nat /\ RecentCap \in Nat
    BY <1>1, SwapAssumption
  <2> QED
    BY <2>1, <2>2, MinType
<1>6. /\ field' = field /\ batch' = batch /\ inserted' = inserted
      /\ rejected' = rejected /\ doubled' = doubled
      /\ applied' = applied /\ tips' = tips /\ tick' = tick
      /\ phase' = phase /\ sim' = sim /\ todo' = todo
      /\ since' = since /\ sent' = sent
  BY DEF IngestOwn, cycleVars, dagVars
<1> QED
  BY <1>2, <1>4, <1>5, <1>6

(* What an insertion does: the shift is left out, rejected or inserted.    *)
LEMMA InsertEffect ==
    ASSUME SwapInv, InsertNext
    PROVE  \E s \in Shift :
              /\ s.from \in Account
              /\ phase \in {"drained", "insert"} /\ phase' = "insert"
              /\ ToSet(batch) = {s} \cup ToSet(batch') /\ batch' \in Seq(Shift)
              /\ \/ /\ ~KeyKnown(s.from) \/ s \in DOMAIN inserted
                    /\ inserted' = inserted /\ rejected' = rejected
                 \/ /\ inserted' = inserted /\ rejected' = rejected \cup {s}
                 \/ /\ DOMAIN inserted' = DOMAIN inserted \cup {s}
                    /\ rejected' = rejected
              /\ tips' \in [Account -> Nat]
              /\ nonces' = nonces /\ seen' = seen /\ pending' = pending
              /\ job' = job /\ recent' = recent /\ sent' = sent /\ due' = due
              /\ since' = since /\ field' = field /\ doubled' = doubled
              /\ applied' = applied /\ tick' = tick /\ sim' = sim
              /\ todo' = todo
<1>1. batch \in Seq(Shift) /\ batch # <<>> /\ tips \in [Account -> Nat]
  BY DEF SwapInv, InsertNext
<1>2. PICK s \in Shift : s = Head(batch)
  BY <1>1, TailSet
<1>3. s.from \in Account /\ s.clock \in Nat
  BY DEF Shift
<1>4. /\ phase \in {"drained", "insert"} /\ phase' = "insert" /\ batch' = Tail(batch)
  BY DEF InsertNext
<1>5. ToSet(batch) = {s} \cup ToSet(batch') /\ batch' \in Seq(Shift)
  BY <1>1, <1>2, <1>4, TailSet
<1>6. /\ nonces' = nonces /\ seen' = seen /\ pending' = pending
      /\ job' = job /\ recent' = recent /\ sent' = sent /\ due' = due
      /\ since' = since /\ field' = field /\ doubled' = doubled
      /\ applied' = applied /\ tick' = tick /\ sim' = sim
      /\ todo' = todo
  BY DEF InsertNext, handlerVars
<1>7. /\ \/ /\ ~KeyKnown(s.from) \/ s \in DOMAIN inserted
            /\ inserted' = inserted /\ rejected' = rejected
         \/ /\ inserted' = inserted /\ rejected' = rejected \cup {s}
         \/ /\ DOMAIN inserted' = DOMAIN inserted \cup {s}
            /\ rejected' = rejected
      /\ tips' \in [Account -> Nat]
  <2>1. CASE ~KeyKnown(s.from) \/ s \in DOMAIN inserted
    BY <1>1, <1>2, <2>1 DEF InsertNext
  <2>2. CASE ~(~KeyKnown(s.from) \/ s \in DOMAIN inserted)
    <3>1. CASE ~HasPredecessors(s)
      BY <1>1, <1>2, <2>2, <3>1 DEF InsertNext
    <3>2. CASE HasPredecessors(s)
      <4>1. /\ inserted' = Put(inserted, s, tick - 1) /\ rejected' = rejected
            /\ tips' = [tips EXCEPT ![s.from] = Max({tips[s.from], s.clock})]
        BY <1>2, <2>2, <3>2 DEF InsertNext
      <4>2. PICK n \in Nat : n = Max({tips[s.from], s.clock})
        BY <1>1, <1>3, MaxType
      <4>3. tips' \in [Account -> Nat]
        BY <1>1, <4>1, <4>2
      <4> QED
        BY <4>1, <4>3 DEF Put
    <3> QED
      BY <3>1, <3>2
  <2> QED
    BY <2>1, <2>2
<1> QED
  BY <1>3, <1>4, <1>5, <1>6, <1>7

(* What marking does.                                                      *)
LEMMA MarkEffect ==
    ASSUME Mark, doubled \subseteq DOMAIN inserted
    PROVE  /\ batch = <<>> /\ phase' = "apply" /\ sim' = field
           /\ doubled' \subseteq DOMAIN inserted /\ todo' \subseteq DOMAIN inserted
           /\ nonces' = nonces /\ seen' = seen /\ pending' = pending
           /\ job' = job /\ recent' = recent /\ sent' = sent /\ due' = due
           /\ since' = since /\ field' = field /\ batch' = batch
           /\ inserted' = inserted /\ rejected' = rejected
           /\ applied' = applied /\ tips' = tips /\ tick' = tick
<1> DEFINE bad == doubled \cup DoubleSpends
<1>1. /\ batch = <<>> /\ phase' = "apply" /\ sim' = field
      /\ doubled' = bad /\ todo' = DOMAIN inserted \ (bad \cup applied)
      /\ nonces' = nonces /\ seen' = seen /\ pending' = pending
      /\ job' = job /\ recent' = recent /\ sent' = sent /\ due' = due
      /\ since' = since /\ field' = field /\ batch' = batch
      /\ inserted' = inserted /\ rejected' = rejected
      /\ applied' = applied /\ tips' = tips /\ tick' = tick
  BY DEF Mark, handlerVars
<1>2. DoubleSpends \subseteq DOMAIN inserted
  BY Zenon DEF DoubleSpends
<1>3. bad \subseteq DOMAIN inserted
  BY <1>2
<1> HIDE DEF bad
<1> QED
  BY <1>1, <1>3

(* What the rest of the cycle and the surroundings leave alone.            *)
LEMMA QuietEffect ==
    ASSUME \/ BeginTick \/ Publish \/ \E s \in todo : Apply(s)
           \/ \E a \in Account : RegisterKey(a)
           \/ \E r \in Request : RecordSignature(r)
           \/ \E s \in todo : QuorumChange(s)
           \/ UNCHANGED vars
    PROVE  /\ nonces' = nonces /\ pending' = pending /\ job' = job
           /\ sent' = sent /\ due' = due /\ batch' = batch
           /\ inserted' = inserted /\ rejected' = rejected
           /\ doubled' = doubled /\ tips' = tips /\ recent' = recent
           /\ \/ seen' = seen
              \/ \E r \in Request : /\ Own(r) \notin DOMAIN seen
                                    /\ seen' = Put(seen, Own(r), "commutative")
           /\ \/ since' = since
              \/ \E a \in Account : /\ a \notin DOMAIN since
                                    /\ since' = Put(since, a, tick + 1)
           /\ \/ phase' = phase /\ tick' = tick
              \/ phase = "idle" /\ phase' = "started" /\ tick' = tick + 1
              \/ phase = "apply" /\ phase' = "idle" /\ tick' = tick
<1>1. CASE BeginTick
  BY <1>1 DEF BeginTick, handlerVars, dagVars
<1>2. CASE Publish
  BY <1>2 DEF Publish, handlerVars, dagVars
<1>3. ASSUME NEW s \in todo, Apply(s)
      PROVE  /\ nonces' = nonces /\ pending' = pending /\ job' = job
             /\ sent' = sent /\ due' = due /\ batch' = batch
             /\ inserted' = inserted /\ rejected' = rejected
             /\ doubled' = doubled /\ tips' = tips /\ recent' = recent
             /\ seen' = seen /\ since' = since /\ phase' = phase
             /\ tick' = tick
  BY <1>3 DEF Apply, handlerVars
<1>4. ASSUME NEW a \in Account, RegisterKey(a)
      PROVE  /\ nonces' = nonces /\ pending' = pending /\ job' = job
             /\ sent' = sent /\ due' = due /\ batch' = batch
             /\ inserted' = inserted /\ rejected' = rejected
             /\ doubled' = doubled /\ tips' = tips /\ recent' = recent
             /\ seen' = seen /\ a \notin DOMAIN since
             /\ since' = Put(since, a, tick + 1) /\ phase' = phase
             /\ tick' = tick
  BY <1>4 DEF RegisterKey, handlerVars, cycleVars, dagVars
<1>5. ASSUME NEW r \in Request, RecordSignature(r)
      PROVE  /\ nonces' = nonces /\ pending' = pending /\ job' = job
             /\ sent' = sent /\ due' = due /\ batch' = batch
             /\ inserted' = inserted /\ rejected' = rejected
             /\ doubled' = doubled /\ tips' = tips /\ recent' = recent
             /\ since' = since /\ Own(r) \notin DOMAIN seen
             /\ seen' = Put(seen, Own(r), "commutative") /\ phase' = phase
             /\ tick' = tick
  BY <1>5 DEF RecordSignature, cycleVars, dagVars
<1>6. ASSUME NEW s \in todo, QuorumChange(s)
      PROVE  /\ nonces' = nonces /\ pending' = pending /\ job' = job
             /\ sent' = sent /\ due' = due /\ batch' = batch
             /\ inserted' = inserted /\ rejected' = rejected
             /\ doubled' = doubled /\ tips' = tips /\ recent' = recent
             /\ seen' = seen /\ since' = since /\ phase' = phase
             /\ tick' = tick
  BY <1>6 DEF QuorumChange, handlerVars, cycleVars, dagVars
<1>7. CASE UNCHANGED vars
  BY <1>7 DEF vars, handlerVars, cycleVars, dagVars
<1> QED
  BY <1>1, <1>2, <1>3, <1>4, <1>5, <1>6, <1>7

-----------------------------------------------------------------------------
(* Types *)

(* Ingesting a shift keeps the queue and the nonces typed.                 *)
LEMMA IngestTypes ==
    ASSUME NEW s \in Shift, Ingest(s), pending \in Seq(Shift),
           \A k \in DOMAIN nonces : nonces[k] \in Nat
    PROVE  /\ pending' \in Seq(Shift)
           /\ \A k \in DOMAIN nonces' : nonces'[k] \in Nat
           /\ \/ ToSet(pending') = ToSet(pending)
              \/ ToSet(pending') = ToSet(pending) \cup {s} /\ s.amount > 0
<1>1. s.nonce \in Nat
  BY DEF Shift
<1>2. CASE pending' = pending /\ nonces' = nonces
  BY <1>2
<1>3. /\ Append(pending, s) \in Seq(Shift)
      /\ ToSet(Append(pending, s)) = ToSet(pending) \cup {s}
  BY AppendSet
<1>4. nonces' = Put(nonces, NonceOf(s), s.nonce) =>
         \A k \in DOMAIN nonces' : nonces'[k] \in Nat
  BY <1>1 DEF Put
<1> QED
  BY <1>2, <1>3, <1>4, IngestEffect

(* The shifts that are present are typed.                                  *)
LEMMA PresentType ==
    ASSUME SwapInv
    PROVE  Present \subseteq Shift /\ \A s \in Present : s.amount \in Nat \ {0}
<1>1. ToSet(pending) \subseteq Shift /\ ToSet(batch) \subseteq Shift
  BY QueueType DEF SwapInv
<1> QED
  BY <1>1 DEF SwapInv, TypeOK, Present

(* Every step keeps the state typed.                                       *)
LEMMA SwapTypeStep ==
    ASSUME SwapInv, [Next]_vars
    PROVE  SwapInv'
<1>t. /\ field \in [Account -> Nat] /\ sim \in [Account -> Nat]
      /\ applied \subseteq DOMAIN inserted /\ doubled \subseteq DOMAIN inserted
      /\ recent \in 0..RecentCap /\ tick \in 0..MaxTick
      /\ job \in [Thread -> Job] /\ sent \in [Request -> Nat]
      /\ pending \in Seq(Shift) /\ batch \in Seq(Shift)
      /\ DOMAIN inserted \subseteq Shift /\ todo \subseteq DOMAIN inserted
      /\ tips \in [Account -> Nat]
      /\ \A k \in DOMAIN nonces : nonces[k] \in Nat
      /\ \A a \in DOMAIN since : since[a] \in Nat
  BY DEF SwapInv, TypeOK
<1>p. \A s \in Present : s.amount \in Nat \ {0}
  BY DEF SwapInv, TypeOK
<1>n. MaxTick \in Nat /\ tick \in Nat
  BY <1>t, SwapAssumption
<1> USE DEF SwapInv, TypeOK
<1>q. ASSUME \/ BeginTick \/ Publish \/ \E s \in todo : Apply(s)
             \/ \E a \in Account : RegisterKey(a)
             \/ \E r \in Request : RecordSignature(r)
             \/ \E s \in todo : QuorumChange(s)
             \/ UNCHANGED vars,
             field' \in [Account -> Nat], sim' \in [Account -> Nat],
             applied' \subseteq DOMAIN inserted, todo' \subseteq DOMAIN inserted,
             tick' \in 0..MaxTick
      PROVE  SwapInv'
  <2>1. /\ nonces' = nonces /\ pending' = pending /\ job' = job
        /\ sent' = sent /\ batch' = batch /\ inserted' = inserted
        /\ doubled' = doubled /\ tips' = tips /\ recent' = recent
    BY <1>q, QuietEffect
  <2>2. \/ since' = since
        \/ \E a \in Account : since' = Put(since, a, tick + 1)
    BY <1>q, QuietEffect
  <2>3. \A a \in DOMAIN since' : since'[a] \in Nat
    <3>1. CASE since' = since
      BY <1>t, <3>1
    <3>2. ASSUME NEW a \in Account, since' = Put(since, a, tick + 1)
          PROVE  \A b \in DOMAIN since' : since'[b] \in Nat
      <4>1. tick + 1 \in Nat
        BY <1>n
      <4> QED
        BY <1>t, <3>2, <4>1 DEF Put
    <3> QED
      BY <2>2, <3>1, <3>2
  <2>4. Present' = Present
    BY <2>1 DEF Present
  <2> QED
    BY <1>t, <1>p, <1>q, <2>1, <2>3, <2>4
<1>1. CASE BeginTick
  <2>1. /\ tick' = tick + 1 /\ tick < MaxTick /\ field' = field /\ sim' = sim
        /\ applied' = applied /\ todo' = todo
    BY <1>1 DEF BeginTick, dagVars
  <2>2. tick' \in 0..MaxTick
    BY <1>n, <2>1
  <2> QED
    BY <1>1, <1>q, <1>t, <2>1, <2>2
<1>2. CASE Drain
  <2>1. batch' = pending /\ pending' = <<>>
    BY <1>2 DEF Drain
  <2>2. /\ field' = field /\ sim' = sim /\ applied' = applied /\ doubled' = doubled
        /\ recent' = recent /\ tick' = tick /\ job' = job /\ sent' = sent
        /\ inserted' = inserted /\ todo' = todo /\ tips' = tips
        /\ nonces' = nonces /\ since' = since
    BY <1>2 DEF Drain, dagVars
  <2>3. Present' \subseteq Present
    BY <2>1, <2>2, EmptySet DEF Present
  <2>4. <<>> \in Seq(Shift)
    OBVIOUS
  <2> QED
    BY <1>t, <1>p, <2>1, <2>2, <2>3, <2>4
<1>3. CASE InsertNext
  <2>1. PICK s \in Shift :
           /\ ToSet(batch) = {s} \cup ToSet(batch') /\ batch' \in Seq(Shift)
           /\ \/ inserted' = inserted
              \/ DOMAIN inserted' = DOMAIN inserted \cup {s}
           /\ tips' \in [Account -> Nat]
           /\ nonces' = nonces /\ pending' = pending
           /\ job' = job /\ recent' = recent /\ sent' = sent
           /\ since' = since /\ field' = field /\ doubled' = doubled
           /\ applied' = applied /\ tick' = tick /\ sim' = sim
           /\ todo' = todo
    BY <1>3, InsertEffect
  <2>2. Present' \subseteq Present
    BY <2>1 DEF Present
  <2>3. DOMAIN inserted \subseteq DOMAIN inserted' /\ DOMAIN inserted' \subseteq Shift
    BY <1>t, <2>1
  <2> QED
    BY <1>t, <1>p, <2>1, <2>2, <2>3
<1>4. CASE Mark
  <2>1. /\ sim' = field
        /\ doubled' \subseteq DOMAIN inserted /\ todo' \subseteq DOMAIN inserted
        /\ nonces' = nonces /\ pending' = pending
        /\ job' = job /\ recent' = recent /\ sent' = sent
        /\ since' = since /\ field' = field /\ batch' = batch
        /\ inserted' = inserted
        /\ applied' = applied /\ tips' = tips /\ tick' = tick
    BY <1>4, <1>t, MarkEffect
  <2>2. Present' = Present
    BY <2>1 DEF Present
  <2> QED
    BY <1>t, <1>p, <2>1, <2>2
<1>5. CASE Publish
  <2>1. /\ field' = sim /\ sim' = sim /\ tick' = tick /\ applied' = applied
        /\ todo' = todo
    BY <1>5 DEF Publish, dagVars
  <2> QED
    BY <1>5, <1>q, <1>t, <2>1
<1>6. ASSUME NEW s \in todo, Apply(s) PROVE SwapInv'
  <2>1. /\ s \in DOMAIN inserted /\ s.from \in Account /\ s.to \in Account
        /\ s.amount \in Nat /\ s.domain \in Domain
    BY <1>t DEF Shift
  <2>2. /\ field' = field /\ tick' = tick /\ todo' \subseteq todo
        /\ IF Applicable(s) THEN sim' = Moved(s) /\ applied' = applied \cup {s}
           ELSE sim' = sim /\ applied' = applied
    BY <1>6 DEF Apply
  <2>3. sim' \in [Account -> Nat] /\ applied' \subseteq DOMAIN inserted
    <3>1. CASE ~Applicable(s)
      BY <1>t, <2>2, <3>1
    <3>2. CASE Applicable(s)
      <4>1. PICK fee \in Nat : fee = Fee(s) /\ fee <= s.amount
        BY <3>2, SwapAssumption DEF Applicable, Fee, DomainPolicy
      <4>2. s.amount <= sim[s.from]
        BY <3>2 DEF Applicable
      <4> DEFINE paid == [sim EXCEPT ![s.from] = sim[s.from] - s.amount]
      <4>3. /\ sim' = [paid EXCEPT ![s.to] = paid[s.to] + (s.amount - fee)]
            /\ applied' = applied \cup {s}
        BY <2>2, <3>2, <4>1 DEF Moved
      <4>4. paid \in [Account -> Nat]
        BY <1>t, <2>1, <4>2
      <4> HIDE DEF paid
      <4>5. paid[s.to] + (s.amount - fee) \in Nat
        <5>1. paid[s.to] \in Nat
          BY <2>1, <4>4
        <5>2. ASSUME NEW a \in Nat, NEW b \in Nat, NEW c \in Nat, c <= b
              PROVE  a + (b - c) \in Nat
          BY <5>2
        <5> QED
          BY <2>1, <4>1, <5>1, <5>2
      <4> QED
        BY <1>t, <2>1, <4>3, <4>4, <4>5
    <3> QED
      BY <3>1, <3>2
  <2> QED
    BY <1>6, <1>q, <1>t, <2>2, <2>3
<1>7. CASE \/ \E a \in Account : RegisterKey(a)
           \/ \E r \in Request : RecordSignature(r)
           \/ \E s \in todo : QuorumChange(s)
           \/ UNCHANGED vars
  <2>1. /\ field' = field /\ sim' = sim /\ tick' = tick /\ applied' = applied
        /\ todo' = todo
    BY <1>7 DEF RegisterKey, RecordSignature, QuorumChange, vars, cycleVars, dagVars
  <2> QED
    BY <1>7, <1>q, <1>t, <2>1
<1>8. ASSUME NEW th \in Thread, NEW r \in Request, Accept(th, r) PROVE SwapInv'
  <2>1. IF IsSwap(r) THEN PoolOut(Submitted[r].to, Submitted[r].amount) \in Nat \ {0}
        ELSE TRUE
    <3>1. CASE IsSwap(r)
      <4>1. Submitted[r].to \in {PoolWave, PoolUsdc} /\ Submitted[r].amount \in Nat
        BY <3>1, RequestType DEF IsSwap
      <4>2. PoolOut(Submitted[r].to, Submitted[r].amount) \in Nat
        BY <1>t, <4>1, PoolOutType
      <4> QED
        BY <1>8, <3>1, <4>2 DEF Accept
    <3> QED
      BY <3>1
  <2>2. job' \in [Thread -> Job]
    BY <1>8, <1>t, <2>1 DEF Accept, Job
  <2>3. sent' \in [Request -> Nat]
    BY <1>8, <1>t DEF Accept
  <2>4. /\ field' = field /\ sim' = sim /\ applied' = applied /\ doubled' = doubled
        /\ recent' = recent /\ tick' = tick /\ pending' = pending
        /\ batch' = batch /\ inserted' = inserted /\ todo' = todo
        /\ tips' = tips /\ nonces' = nonces /\ since' = since
    BY <1>8 DEF Accept, cycleVars, dagVars
  <2>5. Present' = Present
    BY <2>4 DEF Present
  <2> QED
    BY <1>t, <1>p, <2>2, <2>3, <2>4, <2>5
<1>9. ASSUME NEW s \in Shift, Ingest(s), job' \in [Thread -> Job],
             recent' \in 0..RecentCap,
             field' = field, batch' = batch, inserted' = inserted,
             doubled' = doubled, applied' = applied, tips' = tips,
             tick' = tick, sim' = sim, todo' = todo,
             since' = since, sent' = sent
      PROVE  SwapInv'
  <2>1. /\ pending' \in Seq(Shift)
        /\ \A k \in DOMAIN nonces' : nonces'[k] \in Nat
        /\ \/ ToSet(pending') = ToSet(pending)
           \/ ToSet(pending') = ToSet(pending) \cup {s} /\ s.amount > 0
    BY <1>9, <1>t, IngestTypes
  <2>2. s.amount \in Nat
    BY DEF Shift
  <2>3. \A u \in Present' : u.amount \in Nat \ {0}
    <3>1. CASE ToSet(pending') = ToSet(pending)
      BY <1>9, <1>p, <3>1 DEF Present
    <3>2. CASE ToSet(pending') = ToSet(pending) \cup {s} /\ s.amount > 0
      BY <1>9, <1>p, <2>2, <3>2 DEF Present
    <3> QED
      BY <2>1, <3>1, <3>2
  <2> QED
    BY <1>9, <1>t, <2>1, <2>3
<1>10. ASSUME NEW th \in Thread, IngestPayout(th) PROVE SwapInv'
  <2>1. PICK x \in Request, s \in Shift :
           /\ Ingest(s)
           /\ job' = [job EXCEPT ![th] = IF IngestOk(s)
                                         THEN [step |-> "own", request |-> x]
                                         ELSE Idle]
           /\ field' = field /\ batch' = batch /\ inserted' = inserted
           /\ doubled' = doubled /\ applied' = applied /\ tips' = tips
           /\ tick' = tick /\ sim' = sim /\ todo' = todo
           /\ since' = since /\ recent' = recent /\ sent' = sent
    BY <1>10, PayoutEffect
  <2>2. job' \in [Thread -> Job]
    BY <1>t, <2>1 DEF Job
  <2> QED
    BY <1>9, <1>t, <2>1, <2>2
<1>11. ASSUME NEW th \in Thread, IngestOwn(th) PROVE SwapInv'
  <2>1. PICK x \in Request :
           /\ Ingest(Own(x)) /\ job' = [job EXCEPT ![th] = Idle]
           /\ recent' \in 0..RecentCap
           /\ field' = field /\ batch' = batch /\ inserted' = inserted
           /\ doubled' = doubled /\ applied' = applied /\ tips' = tips
           /\ tick' = tick /\ sim' = sim /\ todo' = todo
           /\ since' = since /\ sent' = sent
    BY <1>11, OwnEffect
  <2>2. job' \in [Thread -> Job]
    BY <1>t, <2>1 DEF Job
  <2>3. PICK s \in Shift : s = Own(x)
    BY ShiftTypes
  <2> QED
    BY <1>9, <1>t, <2>1, <2>2, <2>3
<1> QED
  BY <1>1, <1>2, <1>3, <1>4, <1>5, <1>6, <1>7, <1>8, <1>10, <1>11
  DEF Next, Cycle, Handler, Surroundings, BoundReached

(* The state is typed in every reachable state.                            *)
LEMMA SwapTypes == Spec => []SwapInv
<1>1. Init => SwapInv
  <2> SUFFICES ASSUME Init PROVE SwapInv
    OBVIOUS
  <2>1. /\ pending = <<>> /\ batch = <<>> /\ DOMAIN inserted = {}
        /\ DOMAIN nonces = {}
    BY DEF Init
  <2>2. Present = {}
    BY <2>1, EmptySet DEF Present
  <2>3. /\ field \in [Account -> Nat] /\ sim \in [Account -> Nat]
        /\ recent \in 0..RecentCap /\ tick \in 0..MaxTick
        /\ applied = {} /\ doubled = {} /\ todo = {}
        /\ sent \in [Request -> Nat] /\ tips \in [Account -> Nat]
        /\ \A a \in DOMAIN since : since[a] \in Nat
    BY SwapAssumption DEF Init
  <2>4. job \in [Thread -> Job]
    BY DEF Init, Job
  <2>5. <<>> \in Seq(Shift)
    OBVIOUS
  <2> QED
    BY <2>1, <2>2, <2>3, <2>4, <2>5 DEF SwapInv, TypeOK
<1>2. SwapInv /\ [Next]_vars => SwapInv'
  BY SwapTypeStep
<1> QED
  BY <1>1, <1>2, PTL DEF Spec

(* Balances, in the wave-field and in the cycle's copy of it, never go     *)
(* below zero, whatever the apply loop skips, and nothing is applied or    *)
(* marked that is not in the DAG.                                          *)
THEOREM SwapTypeCorrect == Spec => []TypeOK
<1>1. SwapInv => TypeOK
  BY DEF SwapInv
<1> QED
  BY <1>1, SwapTypes, PTL

-----------------------------------------------------------------------------
(* Nonces *)

(* A handler's request has been sent by an account whose key is known; one *)
(* that pays out is over something.                                        *)
JobInv ==
    /\ Registered \subseteq DOMAIN since
    /\ \A th \in Thread : job[th] # Idle =>
          /\ Submitted[job[th].request].from \in DOMAIN since
          /\ sent[job[th].request] > 0
    /\ \A th \in Thread :
          job[th].step = "payout" => Submitted[job[th].request].amount > 0

(* ingest has the nonce of every shift to which it said Ok; what is queued *)
(* or in the DAG is among them, and so is every stateful signature.        *)
NonceInv ==
    /\ \A s \in DOMAIN due :
          /\ s \in Shift /\ due[s] \in Nat /\ s.from \in DOMAIN since
          /\ NonceOf(s) \in DOMAIN nonces /\ nonces[NonceOf(s)] >= s.nonce
    /\ \A s \in DOMAIN seen : seen[s] = "commutative" \/ s \in DOMAIN due
    /\ Present \subseteq DOMAIN due

(* The payouts of a request have the same nonce key and the same nonce, so *)
(* that there is one at most.                                              *)
PayoutInv ==
    /\ \A s \in DOMAIN due : s.kind = "payout" =>
          /\ NonceOf(s) = <<PaysFor(s.request), Dex>>
          /\ s.nonce = Submitted[s.request].nonce
    /\ \A s, t \in DOMAIN due :
          s.kind = "payout" /\ t.kind = "payout" /\ s.request = t.request => s = t

SinceGrows == \A a \in DOMAIN since : a \in DOMAIN since' /\ since'[a] = since[a]

(* A step in which no handler takes part.                                  *)
NoHandler ==
    /\ nonces' = nonces /\ due' = due /\ job' = job /\ sent' = sent
    /\ Present' \subseteq Present /\ SinceGrows
    /\ \/ seen' = seen
       \/ \E r \in Request : /\ Own(r) \notin DOMAIN seen
                             /\ seen' = Put(seen, Own(r), "commutative")

(* The kinds of steps.                                                     *)
LEMMA StepKinds ==
    ASSUME SwapInv, [Next]_vars
    PROVE  \/ NoHandler
           \/ \E th \in Thread, r \in Request : Accept(th, r)
           \/ \E th \in Thread : IngestPayout(th)
           \/ \E th \in Thread : IngestOwn(th)
<1>1. CASE \/ BeginTick \/ Publish \/ \E s \in todo : Apply(s)
           \/ \E a \in Account : RegisterKey(a)
           \/ \E r \in Request : RecordSignature(r)
           \/ \E s \in todo : QuorumChange(s)
           \/ UNCHANGED vars
  <2>1. /\ nonces' = nonces /\ pending' = pending /\ job' = job
        /\ sent' = sent /\ due' = due /\ batch' = batch
        /\ inserted' = inserted
        /\ \/ seen' = seen
           \/ \E r \in Request : /\ Own(r) \notin DOMAIN seen
                                 /\ seen' = Put(seen, Own(r), "commutative")
        /\ \/ since' = since
           \/ \E a \in Account : /\ a \notin DOMAIN since
                                 /\ since' = Put(since, a, tick + 1)
    BY <1>1, QuietEffect
  <2>2. SinceGrows
    <3>1. CASE since' = since
      BY <3>1 DEF SinceGrows
    <3>2. ASSUME NEW a \in Account, a \notin DOMAIN since,
                 since' = Put(since, a, tick + 1)
          PROVE  SinceGrows
      BY <3>2 DEF SinceGrows, Put
    <3> QED
      BY <2>1, <3>1, <3>2
  <2>3. Present' = Present
    BY <2>1 DEF Present
  <2> QED
    BY <2>1, <2>2, <2>3 DEF NoHandler
<1>2. CASE Drain
  <2>1. /\ batch' = pending /\ pending' = <<>>
        /\ inserted' = inserted /\ nonces' = nonces /\ since' = since
        /\ seen' = seen /\ job' = job /\ sent' = sent /\ due' = due
    BY <1>2 DEF Drain, dagVars
  <2>2. Present' \subseteq Present
    BY <2>1, EmptySet DEF Present
  <2> QED
    BY <2>1, <2>2 DEF NoHandler, SinceGrows
<1>3. CASE InsertNext
  <2>1. PICK s \in Shift :
           /\ ToSet(batch) = {s} \cup ToSet(batch')
           /\ \/ inserted' = inserted
              \/ DOMAIN inserted' = DOMAIN inserted \cup {s}
           /\ nonces' = nonces /\ seen' = seen /\ pending' = pending
           /\ job' = job /\ sent' = sent /\ due' = due /\ since' = since
    BY <1>3, InsertEffect
  <2>2. Present' \subseteq Present
    BY <2>1 DEF Present
  <2> QED
    BY <2>1, <2>2 DEF NoHandler, SinceGrows
<1>4. CASE Mark
  <2>1. doubled \subseteq DOMAIN inserted
    BY DEF SwapInv, TypeOK
  <2>2. /\ nonces' = nonces /\ seen' = seen /\ pending' = pending
        /\ job' = job /\ sent' = sent /\ due' = due /\ since' = since
        /\ batch' = batch /\ inserted' = inserted
    BY <1>4, <2>1, MarkEffect
  <2>3. Present' = Present
    BY <2>2 DEF Present
  <2> QED
    BY <2>2, <2>3 DEF NoHandler, SinceGrows
<1> QED
  BY <1>1, <1>2, <1>3, <1>4
  DEF Next, Cycle, Handler, Surroundings, BoundReached

(* What accepting a request does.                                          *)
LEMMA AcceptEffect ==
    ASSUME SwapInv, NEW th \in Thread, NEW x \in Request, Accept(th, x)
    PROVE  /\ job[th] = Idle /\ Submitted[x].from \in DOMAIN since
           /\ job'[th].request = x /\ job'[th].step \in {"own", "payout"}
           /\ job'[th].step = "payout" => Submitted[x].amount > 0
           /\ \A u \in Thread \ {th} : job'[u] = job[u]
           /\ \A q \in Request : sent'[q] >= sent[q] /\ sent'[q] \in Nat
           /\ sent'[x] > 0
           /\ nonces' = nonces /\ due' = due /\ seen' = seen
           /\ since' = since /\ Present' = Present
<1>t. /\ job \in [Thread -> Job] /\ sent \in [Request -> Nat]
      /\ field \in [Account -> Nat]
  BY DEF SwapInv, TypeOK
<1>1. /\ job[th] = Idle /\ Submitted[x].from \in DOMAIN since
      /\ IsSwap(x) => PoolOut(Submitted[x].to, Submitted[x].amount) > 0
      /\ sent' = [sent EXCEPT ![x] = sent[x] + 1]
      /\ nonces' = nonces /\ due' = due /\ seen' = seen /\ since' = since
      /\ pending' = pending /\ batch' = batch /\ inserted' = inserted
  BY DEF Accept, cycleVars, dagVars
<1>2. /\ job'[th].request = x /\ job'[th].step \in {"own", "payout"}
      /\ job'[th].step = "payout" => IsSwap(x)
      /\ \A u \in Thread \ {th} : job'[u] = job[u]
  BY <1>t DEF Accept
<1>3. /\ \A q \in Request : sent'[q] >= sent[q] /\ sent'[q] \in Nat
      /\ sent'[x] > 0
  BY <1>t, <1>1
<1>4. IsSwap(x) => Submitted[x].amount > 0
  <2>1. IsSwap(x) => Submitted[x].to \in {PoolWave, PoolUsdc}
    BY DEF IsSwap
  <2>2. Submitted[x].amount \in Nat
    BY RequestType
  <2>3. IsSwap(x) /\ Submitted[x].amount = 0
           => PoolOut(Submitted[x].to, Submitted[x].amount) = 0
    BY <1>t, <2>1, <2>2, PoolOutType
  <2> QED
    BY <1>1, <2>2, <2>3
<1>5. Present' = Present
  BY <1>1 DEF Present
<1> QED
  BY <1>1, <1>2, <1>3, <1>4, <1>5

(* Each step keeps the handlers' requests as they should be.               *)
LEMMA JobStep ==
    ASSUME SwapInv, JobInv, [Next]_vars
    PROVE  JobInv'
<1>t. job \in [Thread -> Job] /\ sent \in [Request -> Nat]
  BY DEF SwapInv
<1>j. \A th \in Thread : job[th] # Idle => job[th].request \in Request
  BY <1>t, JobCases
<1>1. CASE NoHandler
  BY <1>1 DEF NoHandler, JobInv, SinceGrows
<1>2. ASSUME NEW th \in Thread, NEW x \in Request, Accept(th, x) PROVE JobInv'
  <2>1. /\ job[th] = Idle /\ Submitted[x].from \in DOMAIN since
        /\ job'[th].request = x /\ job'[th].step \in {"own", "payout"}
        /\ job'[th].step = "payout" => Submitted[x].amount > 0
        /\ \A u \in Thread \ {th} : job'[u] = job[u]
        /\ \A q \in Request : sent'[q] >= sent[q] /\ sent'[q] \in Nat
        /\ sent'[x] > 0 /\ since' = since
    BY <1>2, AcceptEffect
  <2>2. \A q \in Request : sent[q] > 0 => sent'[q] > 0
    BY <1>t, <2>1
  <2>3. ASSUME NEW u \in Thread, job'[u] # Idle
        PROVE  Submitted[job'[u].request].from \in DOMAIN since'
               /\ sent'[job'[u].request] > 0
    BY <1>j, <2>1, <2>2, <2>3 DEF JobInv
  <2>4. \A u \in Thread :
           job'[u].step = "payout" => Submitted[job'[u].request].amount > 0
    BY <2>1 DEF JobInv
  <2> QED
    BY <2>1, <2>3, <2>4 DEF JobInv
<1>3. ASSUME NEW th \in Thread, NEW x \in Request, job[th] # Idle,
             x = job[th].request, since' = since, sent' = sent,
             job' = [job EXCEPT ![th] = [step |-> "own", request |-> x]]
      PROVE  JobInv'
  <2>1. /\ job'[th] = [step |-> "own", request |-> x]
        /\ \A u \in Thread \ {th} : job'[u] = job[u]
    BY <1>t, <1>3
  <2> QED
    BY <1>3, <2>1 DEF JobInv
<1>4. ASSUME NEW th \in Thread, since' = since, sent' = sent,
             job' = [job EXCEPT ![th] = Idle]
      PROVE  JobInv'
  <2>1. /\ job'[th] = Idle
        /\ \A u \in Thread \ {th} : job'[u] = job[u]
    BY <1>t, <1>4
  <2> QED
    BY <1>4, <2>1 DEF JobInv, Idle
<1>5. ASSUME NEW th \in Thread, IngestPayout(th) PROVE JobInv'
  <2>1. PICK x \in Request, s \in Shift :
           /\ job[th].step = "payout" /\ x = job[th].request
           /\ job' = [job EXCEPT ![th] = IF IngestOk(s)
                                         THEN [step |-> "own", request |-> x]
                                         ELSE Idle]
           /\ since' = since /\ sent' = sent
    BY <1>5, PayoutEffect
  <2>2. job[th] # Idle
    BY <1>t, <2>1, JobCases
  <2> QED
    BY <1>3, <1>4, <2>1, <2>2
<1>6. ASSUME NEW th \in Thread, IngestOwn(th) PROVE JobInv'
  <2>1. since' = since /\ sent' = sent /\ job' = [job EXCEPT ![th] = Idle]
    BY <1>6, OwnEffect
  <2> QED
    BY <1>4, <2>1
<1> QED
  BY <1>1, <1>2, <1>5, <1>6, StepKinds

(* A nonce only grows.                                                     *)
LEMMA NonceGrows ==
    ASSUME NEW s \in Shift, Ingest(s), \A k \in DOMAIN nonces : nonces[k] \in Nat
    PROVE  /\ \A k \in DOMAIN nonces : k \in DOMAIN nonces' /\ nonces'[k] >= nonces[k]
           /\ RecordsNonce(s) => /\ NonceOf(s) \in DOMAIN nonces'
                                 /\ nonces'[NonceOf(s)] = s.nonce
           /\ \A k \in DOMAIN nonces' \ {NonceOf(s)} :
                 k \in DOMAIN nonces /\ nonces'[k] = nonces[k]
           /\ ~RecordsNonce(s) => nonces' = nonces
<1>1. s.nonce \in Nat
  BY DEF Shift
<1>2. CASE nonces' = nonces /\ ~RecordsNonce(s)
  BY <1>2
<1>3. CASE RecordsNonce(s) /\ nonces' = Put(nonces, NonceOf(s), s.nonce)
  <2>1. NonceOf(s) \in DOMAIN nonces => s.nonce > nonces[NonceOf(s)]
    BY <1>3 DEF RecordsNonce, FreshNonce
  <2>2. PICK k : k = NonceOf(s)
    OBVIOUS
  <2>3. /\ DOMAIN nonces' = DOMAIN nonces \cup {k} /\ nonces'[k] = s.nonce
        /\ \A j \in DOMAIN nonces \ {k} : nonces'[j] = nonces[j]
    BY <1>3, <2>2 DEF Put
  <2> QED
    BY <1>1, <1>3, <2>1, <2>2, <2>3
<1> QED
  BY <1>2, <1>3, IngestEffect

(* A shift to which ingest says Ok is a new one.                           *)
LEMMA OkIsNew ==
    ASSUME SwapInv, NonceInv, NEW s \in Shift, RecordsNonce(s), NEW t \in DOMAIN due,
           NonceOf(t) = NonceOf(s), s.nonce = t.nonce
    PROVE  FALSE
<1>1. /\ NonceOf(t) \in DOMAIN nonces /\ nonces[NonceOf(t)] >= t.nonce
      /\ t \in Shift
  BY DEF NonceInv
<1>2. nonces[NonceOf(s)] \in Nat /\ s.nonce \in Nat
  BY <1>1 DEF SwapInv, Shift
<1>3. s.nonce > nonces[NonceOf(s)]
  BY <1>1 DEF RecordsNonce, FreshNonce
<1> QED
  BY <1>1, <1>2, <1>3

(* Ingesting a shift keeps the nonces.                                     *)
LEMMA IngestNonce ==
    ASSUME SwapInv, NonceInv, NEW s \in Shift, Ingest(s), s.from \in DOMAIN since,
           since' = since, batch' = batch, inserted' = inserted
    PROVE  NonceInv'
<1>t. /\ pending \in Seq(Shift) /\ tick \in Nat
      /\ \A k \in DOMAIN nonces : nonces[k] \in Nat
  BY SwapAssumption DEF SwapInv, TypeOK
<1>c. PICK d \in Nat : d = DrainCycle
  BY <1>t DEF DrainCycle
<1>n. s.nonce \in Nat
  BY DEF Shift
<1>o. IngestOk(s) => RecordsNonce(s)
  BY DEF IngestOk
<1>g. /\ \A k \in DOMAIN nonces : k \in DOMAIN nonces' /\ nonces'[k] >= nonces[k]
      /\ RecordsNonce(s) => /\ NonceOf(s) \in DOMAIN nonces'
                            /\ nonces'[NonceOf(s)] = s.nonce
      /\ \A k \in DOMAIN nonces' : nonces'[k] \in Nat
  BY <1>t, NonceGrows, IngestTypes
<1>1. \A u \in DOMAIN due :
         /\ u \in Shift /\ due[u] \in Nat /\ u.from \in DOMAIN since
         /\ NonceOf(u) \in DOMAIN nonces' /\ nonces'[NonceOf(u)] >= u.nonce
  <2> TAKE u \in DOMAIN due
  <2>1. /\ u \in Shift /\ due[u] \in Nat /\ u.from \in DOMAIN since
        /\ NonceOf(u) \in DOMAIN nonces /\ nonces[NonceOf(u)] >= u.nonce
    BY DEF NonceInv
  <2>2. PICK k \in DOMAIN nonces : k = NonceOf(u)
    BY <2>1
  <2>3. /\ nonces[k] \in Nat /\ nonces'[k] \in Nat /\ u.nonce \in Nat
        /\ nonces'[k] >= nonces[k] /\ nonces[k] >= u.nonce /\ k \in DOMAIN nonces'
    BY <1>t, <1>g, <2>1, <2>2 DEF Shift
  <2> QED
    BY <2>1, <2>2, <2>3
<1>2. CASE due' = due /\ seen' = seen /\ pending' = pending
  <2>1. Present' = Present
    BY <1>2 DEF Present
  <2> QED
    BY <1>1, <1>2, <2>1 DEF NonceInv
<1>3. ASSUME RecordsNonce(s), due' = Put(due, s, d)
      PROVE  /\ \A u \in DOMAIN due' :
                   /\ u \in Shift /\ due'[u] \in Nat /\ u.from \in DOMAIN since'
                   /\ NonceOf(u) \in DOMAIN nonces' /\ nonces'[NonceOf(u)] >= u.nonce
             /\ DOMAIN due' = DOMAIN due \cup {s}
  <2>1. /\ DOMAIN due' = DOMAIN due \cup {s} /\ due'[s] = d
        /\ \A u \in DOMAIN due \ {s} : due'[u] = due[u]
    BY <1>3 DEF Put
  <2>2. NonceOf(s) \in DOMAIN nonces' /\ nonces'[NonceOf(s)] >= s.nonce
    BY <1>3, <1>g, <1>n
  <2> QED
    BY <1>1, <2>1, <2>2
<1>4. CASE /\ RecordsNonce(s) /\ seen' = seen /\ pending' = pending
           /\ due' = Put(due, s, d)
  <2>1. Present' = Present
    BY <1>4 DEF Present
  <2>2. DOMAIN due' = DOMAIN due \cup {s}
    BY <1>3, <1>4
  <2>3. /\ \A u \in DOMAIN seen' : seen'[u] = "commutative" \/ u \in DOMAIN due'
        /\ Present' \subseteq DOMAIN due'
    BY <1>4, <2>1, <2>2 DEF NonceInv
  <2> QED
    BY <1>3, <1>4, <2>3 DEF NonceInv
<1>5. CASE /\ RecordsNonce(s) /\ seen' = Put(seen, s, "stateful")
           /\ pending' = Append(pending, s) /\ due' = Put(due, s, d)
  <2>1. ToSet(pending') = ToSet(pending) \cup {s}
    BY <1>t, <1>5, AppendSet
  <2>2. Present' = Present \cup {s}
    BY <2>1 DEF Present
  <2>3. DOMAIN due' = DOMAIN due \cup {s}
    BY <1>3, <1>5
  <2>4. DOMAIN seen' = DOMAIN seen \cup {s}
        /\ \A u \in DOMAIN seen \ {s} : seen'[u] = seen[u]
    BY <1>5 DEF Put
  <2>5. /\ \A u \in DOMAIN seen' : seen'[u] = "commutative" \/ u \in DOMAIN due'
        /\ Present' \subseteq DOMAIN due'
    BY <2>2, <2>3, <2>4 DEF NonceInv
  <2> QED
    BY <1>3, <1>5, <2>5 DEF NonceInv
<1> QED
  BY <1>c, <1>2, <1>4, <1>5, IngestEffect

(* The account that signs a shift is known when a handler ingests it.      *)
LEMMA SenderKnown ==
    ASSUME SwapInv, JobInv, NEW th \in Thread, NEW x \in Request, job[th] # Idle,
           job[th].request = x
    PROVE  Submitted[x].from \in DOMAIN since /\ PaysFor(x) \in DOMAIN since
BY SwapAssumption DEF JobInv, PaysFor

(* Each step keeps the nonces.                                             *)
LEMMA NonceStep ==
    ASSUME SwapInv, JobInv, NonceInv, [Next]_vars
    PROVE  NonceInv'
<1>1. CASE NoHandler
  <2>1. /\ nonces' = nonces /\ due' = due /\ Present' \subseteq Present
        /\ \A a \in DOMAIN since : a \in DOMAIN since'
    BY <1>1 DEF NoHandler, SinceGrows
  <2>2. \A s \in DOMAIN seen' : seen'[s] = "commutative" \/ s \in DOMAIN due'
    <3>1. CASE seen' = seen
      BY <2>1, <3>1 DEF NonceInv
    <3>2. ASSUME NEW o, seen' = Put(seen, o, "commutative")
          PROVE  \A s \in DOMAIN seen' : seen'[s] = "commutative" \/ s \in DOMAIN due'
      BY <2>1, <3>2 DEF NonceInv, Put
    <3> QED
      BY <1>1, <3>1, <3>2 DEF NoHandler
  <2> QED
    BY <2>1, <2>2 DEF NonceInv
<1>2. ASSUME NEW th \in Thread, NEW x \in Request, Accept(th, x) PROVE NonceInv'
  <2>1. /\ nonces' = nonces /\ due' = due /\ seen' = seen
        /\ since' = since /\ Present' = Present
    BY <1>2, AcceptEffect
  <2> QED
    BY <2>1 DEF NonceInv
<1>j. job \in [Thread -> Job]
  BY DEF SwapInv
<1>3. ASSUME NEW th \in Thread, IngestPayout(th) PROVE NonceInv'
  <2>1. PICK x \in Request, s \in Shift :
           /\ job[th].step = "payout" /\ x = job[th].request
           /\ s.from = PaysFor(x) /\ Ingest(s)
           /\ batch' = batch /\ inserted' = inserted /\ since' = since
    BY <1>3, PayoutEffect
  <2>2. s.from \in DOMAIN since
    BY <1>j, <2>1, JobCases, SenderKnown
  <2> QED
    BY <2>1, <2>2, IngestNonce
<1>4. ASSUME NEW th \in Thread, IngestOwn(th) PROVE NonceInv'
  <2>1. PICK x \in Request :
           /\ job[th] = [step |-> "own", request |-> x] /\ Ingest(Own(x))
           /\ batch' = batch /\ inserted' = inserted /\ since' = since
    BY <1>4, OwnEffect
  <2>2. PICK s \in Shift : s = Own(x) /\ s.from = Submitted[x].from
    BY ShiftTypes
  <2>3. job[th] # Idle /\ job[th].request = x
    BY <2>1 DEF Idle
  <2>4. s.from \in DOMAIN since
    BY <2>2, <2>3, SenderKnown
  <2> QED
    BY <2>1, <2>2, <2>4, IngestNonce
<1> QED
  BY <1>1, <1>2, <1>3, <1>4, StepKinds

(* Each step keeps the payouts of a request to one.                        *)
LEMMA PayoutStep ==
    ASSUME SwapInv, NonceInv, PayoutInv, [Next]_vars
    PROVE  PayoutInv'
<1>1. ASSUME \A s \in DOMAIN due' : s \in DOMAIN due \/ s.kind # "payout"
      PROVE  PayoutInv'
  BY <1>1 DEF PayoutInv
<1>2. CASE due' = due
  BY <1>1, <1>2
<1>3. ASSUME NEW th \in Thread, IngestPayout(th) PROVE PayoutInv'
  <2>1. PICK x \in Request, s \in Shift :
           /\ s.kind = "payout" /\ s.request = x
           /\ s.nonce = Submitted[x].nonce
           /\ NonceOf(s) = <<PaysFor(x), Dex>> /\ Ingest(s)
    BY <1>3, PayoutEffect
  <2>2. CASE due' = due
    BY <1>2, <2>2
  <2>3. CASE RecordsNonce(s) /\ due' = Put(due, s, DrainCycle)
    <3>1. DOMAIN due' = DOMAIN due \cup {s}
      BY <2>3 DEF Put
    <3>2. \A t \in DOMAIN due : ~(t.kind = "payout" /\ t.request = x)
      <4> SUFFICES ASSUME NEW t \in DOMAIN due, t.kind = "payout", t.request = x
                   PROVE  FALSE
        OBVIOUS
      <4>1. NonceOf(t) = NonceOf(s) /\ s.nonce = t.nonce
        BY <2>1 DEF PayoutInv
      <4> QED
        BY <2>3, <4>1, OkIsNew
    <3> QED
      BY <2>1, <3>1, <3>2 DEF PayoutInv
  <2> QED
    BY <2>1, <2>2, <2>3, IngestEffect
<1>4. ASSUME NEW th \in Thread, IngestOwn(th) PROVE PayoutInv'
  <2>1. PICK x \in Request : Ingest(Own(x))
    BY <1>4, OwnEffect
  <2>2. PICK s \in Shift : s = Own(x) /\ s.kind = "own"
    BY ShiftTypes
  <2>3. due' = due \/ due' = Put(due, s, DrainCycle)
    BY <2>1, <2>2, IngestEffect
  <2>4. \A u \in DOMAIN due' : u \in DOMAIN due \/ u = s
    BY <2>3 DEF Put
  <2> QED
    BY <1>1, <2>2, <2>4
<1>5. ASSUME NEW th \in Thread, NEW x \in Request, Accept(th, x) PROVE PayoutInv'
  BY <1>2, <1>5, AcceptEffect
<1>6. CASE NoHandler
  BY <1>2, <1>6 DEF NoHandler
<1> QED
  BY <1>3, <1>4, <1>5, <1>6, StepKinds

(* The state before the first step.                                        *)
LEMMA InitEmpty ==
    ASSUME Init
    PROVE  /\ Present = {} /\ DOMAIN nonces = {} /\ DOMAIN seen = {}
           /\ DOMAIN due = {} /\ DOMAIN since = Registered
           /\ \A th \in Thread : job[th] = Idle
           /\ pending = <<>> /\ batch = <<>> /\ phase = "idle"
<1>1. pending = <<>> /\ batch = <<>> /\ DOMAIN inserted = {}
  BY DEF Init
<1>2. Present = {}
  BY <1>1, EmptySet DEF Present
<1> QED
  BY <1>1, <1>2 DEF Init

(* The invariants about nonces hold in every reachable state.              *)
LEMMA NoncesKept == Spec => [](SwapInv /\ JobInv /\ NonceInv /\ PayoutInv)
<1>1. Init => JobInv /\ NonceInv /\ PayoutInv
  <2> SUFFICES ASSUME Init PROVE JobInv /\ NonceInv /\ PayoutInv
    OBVIOUS
  <2>1. /\ Present = {} /\ DOMAIN nonces = {} /\ DOMAIN seen = {}
        /\ DOMAIN due = {} /\ DOMAIN since = Registered
        /\ \A th \in Thread : job[th] = Idle
    BY InitEmpty
  <2> QED
    BY <2>1 DEF JobInv, NonceInv, PayoutInv, Idle
<1>2. SwapInv /\ JobInv /\ NonceInv /\ PayoutInv /\ [Next]_vars
         => JobInv' /\ NonceInv' /\ PayoutInv'
  BY JobStep, NonceStep, PayoutStep
<1> QED
  BY <1>1, <1>2, SwapTypes, PTL DEF Spec

(* However often and from however many handlers at once a swap is sent,    *)
(* one payout is queued for it at most: build_pool_payout_shift gives all  *)
(* of them the request's nonce, and ingest takes the first.                *)
THEOREM OnePayout == Spec => []PaidOutOnce
<1>1. NonceInv /\ PayoutInv => PaidOutOnce
  <2> SUFFICES ASSUME NonceInv, PayoutInv, NEW r \in Request
               PROVE  Cardinality(PayoutsOf(r)) <= 1
    BY DEF PaidOutOnce
  <2> DEFINE Q == PayoutsOf(r)
  <2>1. \A s, t \in Q : s = t
    BY DEF PayoutInv, NonceInv, PayoutsOf
  <2> HIDE DEF Q
  <2>2. CASE Q = {}
    BY <2>2, FS_EmptySet DEF Q
  <2>3. CASE Q # {}
    <3>1. PICK s \in Q : TRUE
      BY <2>3
    <3>2. Q = {s}
      BY <2>1, <3>1
    <3>3. Cardinality({s}) = 1
      BY FS_Singleton
    <3> QED
      BY <3>2, <3>3 DEF Q
  <2> QED
    BY <2>2, <2>3
<1> QED
  BY <1>1, NoncesKept, PTL

-----------------------------------------------------------------------------
(* Ticks *)

(* What became of a shift to which ingest said Ok.                         *)
Traced(s) == s \in Present \cup rejected \/ SignatureTaken(s) \/ KeyTooLate(s)

(* The queue holds what the next drain will take and the batch what this   *)
(* cycle took, and no shift is lost on the way except for the two causes.  *)
TraceInv ==
    /\ phase \in {"idle", "started", "drained", "insert", "apply"}
    /\ phase \in {"idle", "started", "apply"} => ToSet(batch) = {}
    /\ \A s \in ToSet(pending) : due[s] = DrainCycle
    /\ \A s \in ToSet(batch) : due[s] = tick
    /\ \A s \in DOMAIN due : Traced(s)

(* A cause that applied applies for good.                                  *)
LEMMA CausesStay ==
    ASSUME SwapInv, JobInv, NonceInv, [Next]_vars, NEW s \in DOMAIN due
    PROVE  /\ s \in DOMAIN due' /\ due'[s] = due[s]
           /\ SignatureTaken(s) => SignatureTaken(s)'
           /\ KeyTooLate(s) => KeyTooLate(s)'
<1>s. s.from \in DOMAIN since
  BY DEF NonceInv
<1>1. ASSUME due' = due, SinceGrows,
             \/ seen' = seen
             \/ \E r \in Request : /\ Own(r) \notin DOMAIN seen
                                   /\ seen' = Put(seen, Own(r), "commutative")
      PROVE  /\ s \in DOMAIN due' /\ due'[s] = due[s]
             /\ SignatureTaken(s) => SignatureTaken(s)'
             /\ KeyTooLate(s) => KeyTooLate(s)'
  <2>1. SignatureTaken(s) => SignatureTaken(s)'
    <3>1. CASE seen' = seen
      BY <3>1 DEF SignatureTaken
    <3>2. ASSUME NEW o, o \notin DOMAIN seen, seen' = Put(seen, o, "commutative")
          PROVE  SignatureTaken(s) => SignatureTaken(s)'
      BY <3>2 DEF SignatureTaken, Put
    <3> QED
      BY <1>1, <3>1, <3>2
  <2>2. since'[s.from] = since[s.from]
    BY <1>1, <1>s DEF SinceGrows
  <2> QED
    BY <1>1, <2>1, <2>2 DEF KeyTooLate
<1>2. ASSUME NEW t \in Shift, Ingest(t), since' = since
      PROVE  /\ s \in DOMAIN due' /\ due'[s] = due[s]
             /\ SignatureTaken(s) => SignatureTaken(s)'
             /\ KeyTooLate(s) => KeyTooLate(s)'
  <2>1. RecordsNonce(t) => s # t
    BY OkIsNew
  <2>2. due' = due \/ (RecordsNonce(t) /\ due' = Put(due, t, DrainCycle))
    BY <1>2, IngestEffect
  <2>3. s \in DOMAIN due' /\ due'[s] = due[s]
    BY <2>1, <2>2 DEF Put
  <2>4. seen' = seen \/ (t \notin DOMAIN seen /\ seen' = Put(seen, t, "stateful"))
    BY <1>2, IngestEffect
  <2>5. SignatureTaken(s) => SignatureTaken(s)'
    BY <2>4 DEF SignatureTaken, Put
  <2> QED
    BY <1>2, <2>3, <2>5 DEF KeyTooLate
<1>3. ASSUME NEW th \in Thread, IngestPayout(th)
      PROVE  \E t \in Shift : Ingest(t) /\ since' = since
  BY <1>3, PayoutEffect
<1>4. ASSUME NEW th \in Thread, IngestOwn(th)
      PROVE  \E t \in Shift : Ingest(t) /\ since' = since
  <2>1. PICK x \in Request : Ingest(Own(x)) /\ since' = since
    BY <1>4, OwnEffect
  <2>2. Own(x) \in Shift
    BY ShiftTypes
  <2> QED
    BY <2>1, <2>2
<1>5. ASSUME NEW th \in Thread, NEW x \in Request, Accept(th, x)
      PROVE  due' = due /\ seen' = seen /\ SinceGrows
  BY <1>5, AcceptEffect DEF SinceGrows
<1> QED
  BY <1>1, <1>2, <1>3, <1>4, <1>5, StepKinds DEF NoHandler

(* A shift's trace survives a step in which nothing leaves the queue, the  *)
(* batch and the DAG.                                                      *)
LEMMA TraceStays ==
    ASSUME SwapInv, JobInv, NonceInv, [Next]_vars, Present \subseteq Present',
           rejected \subseteq rejected', NEW s \in DOMAIN due, Traced(s)
    PROVE  Traced(s)'
BY CausesStay DEF Traced

(* Ingesting a shift keeps the trace of every shift.                       *)
LEMMA IngestTrace ==
    ASSUME SwapInv, JobInv, NonceInv, TraceInv, [Next]_vars, NEW s \in Shift,
           Ingest(s), batch' = batch, inserted' = inserted, rejected' = rejected,
           phase' = phase, tick' = tick
    PROVE  TraceInv'
<1>t. pending \in Seq(Shift) /\ DrainCycle' = DrainCycle
  BY DEF SwapInv, DrainCycle
<1>p. /\ ToSet(pending) \subseteq DOMAIN due /\ ToSet(batch) \subseteq DOMAIN due
  BY DEF NonceInv, Present
<1>d. \A u \in DOMAIN due : due'[u] = due[u] /\ u \in DOMAIN due'
  BY CausesStay
<1>1. /\ \/ ToSet(pending') = ToSet(pending)
         \/ /\ ToSet(pending') = ToSet(pending) \cup {s}
            /\ due' = Put(due, s, DrainCycle)
      /\ \/ due' = due
         \/ /\ due' = Put(due, s, DrainCycle)
            /\ s \in ToSet(pending') \/ (s \in DOMAIN seen /\ seen' = seen)
            /\ RecordsNonce(s)
  <2>1. ToSet(Append(pending, s)) = ToSet(pending) \cup {s}
    BY <1>t, AppendSet
  <2> QED
    BY <2>1, IngestEffect
<1>2. Present \subseteq Present'
  BY <1>1 DEF Present
<1>3. \A u \in DOMAIN due : Traced(u)'
  BY <1>2, TraceStays DEF TraceInv
<1>4. \A u \in ToSet(pending') : due'[u] = DrainCycle
  <2>1. \A u \in ToSet(pending) : due'[u] = DrainCycle
    BY <1>p, <1>d DEF TraceInv
  <2> QED
    BY <1>1, <2>1 DEF Put
<1>5. \A u \in ToSet(batch') : due'[u] = tick'
  BY <1>p, <1>d DEF TraceInv
<1>6. \A u \in DOMAIN due' : Traced(u)'
  <2>1. CASE due' = due
    BY <1>3, <2>1
  <2>2. CASE /\ due' = Put(due, s, DrainCycle)
             /\ s \in ToSet(pending') \/ (s \in DOMAIN seen /\ seen' = seen)
             /\ RecordsNonce(s)
    <3>1. DOMAIN due' = DOMAIN due \cup {s}
      BY <2>2 DEF Put
    <3>2. CASE s \in ToSet(pending')
      <4>1. Traced(s)'
        BY <3>2 DEF Traced, Present
      <4> QED
        BY <1>3, <3>1, <4>1
    <3>3. CASE s \in DOMAIN seen /\ seen' = seen
      <4>1. s \notin DOMAIN due
        BY <2>2, OkIsNew
      <4>2. SignatureTaken(s)'
        BY <3>3, <4>1 DEF NonceInv, SignatureTaken
      <4>3. Traced(s)'
        BY <4>2 DEF Traced
      <4> QED
        BY <1>3, <3>1, <4>3
    <3> QED
      BY <2>2, <3>2, <3>3
  <2> QED
    BY <1>1, <2>1, <2>2
<1> QED
  BY <1>t, <1>4, <1>5, <1>6 DEF TraceInv

(* Each step keeps the trace of every shift.                               *)
LEMMA TraceStep ==
    ASSUME SwapInv, JobInv, NonceInv, TraceInv, [Next]_vars
    PROVE  TraceInv'
<1>t. tick \in Nat
  BY SwapAssumption DEF SwapInv, TypeOK
<1>p. /\ ToSet(pending) \subseteq DOMAIN due /\ ToSet(batch) \subseteq DOMAIN due
  BY DEF NonceInv, Present
<1>1. CASE \/ BeginTick \/ Publish \/ \E s \in todo : Apply(s)
           \/ \E a \in Account : RegisterKey(a)
           \/ \E r \in Request : RecordSignature(r)
           \/ \E s \in todo : QuorumChange(s)
           \/ UNCHANGED vars
  <2>1. /\ pending' = pending /\ due' = due /\ batch' = batch
        /\ inserted' = inserted /\ rejected' = rejected
        /\ \/ phase' = phase /\ tick' = tick
           \/ phase = "idle" /\ phase' = "started" /\ tick' = tick + 1
           \/ phase = "apply" /\ phase' = "idle" /\ tick' = tick
    BY <1>1, QuietEffect
  <2>2. Present' = Present
    BY <2>1 DEF Present
  <2>3. \A s \in DOMAIN due' : Traced(s)'
    BY <2>1, <2>2, TraceStays DEF TraceInv
  <2>4. DrainCycle' = DrainCycle
    BY <1>t, <2>1 DEF DrainCycle
  <2>5. ToSet(batch') = {} \/ tick' = tick
    BY <2>1 DEF TraceInv
  <2> QED
    BY <2>1, <2>3, <2>4, <2>5 DEF TraceInv
<1>2. CASE Drain
  <2>1. /\ batch' = pending /\ pending' = <<>> /\ phase = "started"
        /\ phase' = "drained" /\ tick' = tick
        /\ inserted' = inserted /\ due' = due /\ rejected' = rejected
    BY <1>2 DEF Drain, dagVars
  <2>2. ToSet(pending') = {}
    BY <2>1, EmptySet
  <2>3. Present' = Present
    BY <2>1, <2>2 DEF Present, TraceInv
  <2>4. \A s \in DOMAIN due' : Traced(s)'
    BY <2>1, <2>3, TraceStays DEF TraceInv
  <2>5. DrainCycle = tick
    BY <2>1 DEF DrainCycle
  <2> QED
    BY <2>1, <2>2, <2>4, <2>5 DEF TraceInv
<1>3. CASE InsertNext
  <2>1. PICK s \in Shift :
           /\ phase \in {"drained", "insert"} /\ phase' = "insert"
           /\ ToSet(batch) = {s} \cup ToSet(batch')
           /\ \/ /\ ~KeyKnown(s.from) \/ s \in DOMAIN inserted
                 /\ inserted' = inserted /\ rejected' = rejected
              \/ /\ inserted' = inserted /\ rejected' = rejected \cup {s}
              \/ /\ DOMAIN inserted' = DOMAIN inserted \cup {s}
                 /\ rejected' = rejected
           /\ seen' = seen /\ pending' = pending /\ due' = due
           /\ since' = since /\ tick' = tick
    BY <1>3, InsertEffect
  <2>2. DrainCycle' = DrainCycle
    BY <2>1 DEF DrainCycle
  <2>3. s \in DOMAIN due /\ due[s] = tick
    BY <1>p, <2>1 DEF TraceInv
  <2>4. Traced(s)'
    <3>1. CASE s \in DOMAIN inserted' \/ s \in rejected'
      BY <3>1 DEF Traced, Present
    <3>2. CASE ~KeyKnown(s.from)
      <4>1. s.from \in DOMAIN since /\ since[s.from] \in Nat
        BY <2>3 DEF NonceInv, SwapInv
      <4>2. since[s.from] > tick
        BY <1>t, <3>2, <4>1 DEF KeyKnown
      <4>3. KeyTooLate(s)'
        BY <2>1, <2>3, <4>2 DEF KeyTooLate
      <4> QED
        BY <4>3 DEF Traced
    <3> QED
      BY <2>1, <3>1, <3>2
  <2>5. ASSUME NEW u \in DOMAIN due \ {s} PROVE Traced(u)'
    <3>1. u \in Present \cup rejected => u \in Present' \cup rejected'
      BY <2>1 DEF Present
    <3> QED
      BY <3>1, CausesStay DEF Traced, TraceInv
  <2> QED
    BY <2>1, <2>2, <2>4, <2>5 DEF TraceInv
<1>4. CASE Mark
  <2>1. doubled \subseteq DOMAIN inserted
    BY DEF SwapInv, TypeOK
  <2>2. /\ batch = <<>> /\ phase' = "apply"
        /\ pending' = pending /\ due' = due /\ batch' = batch
        /\ inserted' = inserted /\ rejected' = rejected /\ tick' = tick
    BY <1>4, <2>1, MarkEffect
  <2>3. phase # "started"
    BY <1>4 DEF Mark
  <2>4. Present' = Present /\ DrainCycle' = DrainCycle /\ ToSet(batch') = {}
    BY <2>2, <2>3, EmptySet DEF Present, DrainCycle
  <2>5. \A s \in DOMAIN due' : Traced(s)'
    BY <2>2, <2>4, TraceStays DEF TraceInv
  <2> QED
    BY <2>2, <2>4, <2>5 DEF TraceInv
<1>5. ASSUME NEW th \in Thread, NEW x \in Request, Accept(th, x) PROVE TraceInv'
  <2>1. /\ pending' = pending /\ due' = due /\ batch' = batch
        /\ inserted' = inserted /\ rejected' = rejected /\ tick' = tick
        /\ phase' = phase
    BY <1>5 DEF Accept, cycleVars, dagVars
  <2>2. Present' = Present /\ DrainCycle' = DrainCycle
    BY <2>1 DEF Present, DrainCycle
  <2>3. \A s \in DOMAIN due' : Traced(s)'
    BY <2>1, <2>2, TraceStays DEF TraceInv
  <2> QED
    BY <2>1, <2>2, <2>3 DEF TraceInv
<1>6. ASSUME NEW th \in Thread, IngestPayout(th) PROVE TraceInv'
  <2>1. PICK s \in Shift :
           /\ Ingest(s) /\ batch' = batch /\ inserted' = inserted
           /\ rejected' = rejected /\ phase' = phase /\ tick' = tick
    BY <1>6, PayoutEffect
  <2> QED
    BY <2>1, IngestTrace
<1>7. ASSUME NEW th \in Thread, IngestOwn(th) PROVE TraceInv'
  <2>1. PICK x \in Request :
           /\ Ingest(Own(x)) /\ batch' = batch /\ inserted' = inserted
           /\ rejected' = rejected /\ phase' = phase /\ tick' = tick
    BY <1>7, OwnEffect
  <2>2. PICK s \in Shift : s = Own(x)
    BY ShiftTypes
  <2> QED
    BY <2>1, <2>2, IngestTrace
<1> QED
  BY <1>1, <1>2, <1>3, <1>4, <1>5, <1>6, <1>7
  DEF Next, Cycle, Handler, Surroundings, BoundReached

(* The trace of every shift is kept in every reachable state.              *)
LEMMA TraceKept == Spec => []TraceInv
<1>1. Init => TraceInv
  <2> SUFFICES ASSUME Init PROVE TraceInv
    OBVIOUS
  <2>1. pending = <<>> /\ batch = <<>> /\ phase = "idle" /\ DOMAIN due = {}
    BY InitEmpty
  <2>2. ToSet(pending) = {} /\ ToSet(batch) = {}
    BY <2>1, EmptySet
  <2> QED
    BY <2>1, <2>2 DEF TraceInv
<1>2. SwapInv /\ JobInv /\ NonceInv /\ TraceInv /\ [Next]_vars => TraceInv'
  BY TraceStep
<1> QED
  BY <1>1, <1>2, NoncesKept, PTL DEF Spec

(* A shift for which ingest said Ok has a definite status, accepted or     *)
(* rejected, once the cycle after the one that drained it has begun,       *)
(* whatever handlers and keys did meanwhile; only a signature that the     *)
(* commutative path had recorded and a key that became known after the     *)
(* draining cycle got its copy leave a shift unknown.                      *)
THEOREM TwoTicksSuffice == Spec => []KnownAfterTwoTicks
<1>1. SwapInv /\ NonceInv /\ TraceInv => KnownAfterTwoTicks
  <2> SUFFICES ASSUME SwapInv, NonceInv, TraceInv, NEW s \in DOMAIN due,
                      TickReached(due[s] + 1), ~SignatureTaken(s), ~KeyTooLate(s)
               PROVE  ShiftStatus(s) # "unknown"
    BY DEF KnownAfterTwoTicks
  <2>1. tick \in Nat /\ due[s] \in Nat
    BY SwapAssumption DEF SwapInv, TypeOK, NonceInv
  <2>2. tick >= due[s] + 1
    BY DEF TickReached
  <2>3. due[s] # tick /\ due[s] # DrainCycle
    BY <2>1, <2>2 DEF DrainCycle
  <2>4. s \notin ToSet(pending) /\ s \notin ToSet(batch)
    BY <2>3 DEF TraceInv
  <2>5. s \in DOMAIN inserted \/ s \in rejected
    BY <2>4 DEF TraceInv, Traced, Present
  <2> QED
    BY <2>5 DEF ShiftStatus
<1> QED
  BY <1>1, NoncesKept, TraceKept, PTL

-----------------------------------------------------------------------------
(* Payouts and their shifts *)

(* A request that recorded its sender's nonce.                             *)
Recorded(q) == Own(q) \in DOMAIN due \/ (Submitted[q].amount = 0 /\ sent[q] > 0)

(* The sender of request r has used its nonce or a higher one.             *)
Used(r) ==
    LET k == NonceOf(Own(r)) IN
    k \in DOMAIN nonces /\ nonces[k] >= Submitted[r].nonce

(* Every nonce of a user was recorded by a request, and the own shift of a *)
(* payout was ingested, is about to be, or was refused.                    *)
OwnInv ==
    /\ \A k \in DOMAIN nonces : k[1] \notin {PoolWave, PoolUsdc} =>
          \E q \in Request : /\ NonceOf(Own(q)) = k /\ Submitted[q].nonce = nonces[k]
                             /\ Recorded(q)
    /\ \A r \in Request : (\E s \in DOMAIN due : s.kind = "payout" /\ s.request = r) =>
          /\ Submitted[r].amount > 0
          /\ \/ Own(r) \in DOMAIN due \/ ~Admissible(Own(r)) \/ Used(r)
             \/ \E th \in Thread : job[th] = [step |-> "own", request |-> r]

(* What was recorded stays recorded, and what was used stays used.         *)
LEMMA RecordedStays ==
    ASSUME SwapInv, JobInv, NonceInv, [Next]_vars
    PROVE  /\ \A q \in Request : Recorded(q) => Recorded(q)'
           /\ \A r \in Request : Used(r) => Used(r)'
<1>n. /\ \A k \in DOMAIN nonces : nonces[k] \in Nat
      /\ sent \in [Request -> Nat]
  BY DEF SwapInv
<1>d. \A q \in Request : Own(q) \in DOMAIN due => Own(q) \in DOMAIN due'
  BY CausesStay
<1>s. \A q \in Request : sent[q] > 0 => sent'[q] > 0
  <2>1. CASE sent' = sent
    BY <2>1
  <2>2. ASSUME NEW th \in Thread, NEW x \in Request, Accept(th, x)
        PROVE  \A q \in Request : sent[q] > 0 => sent'[q] > 0
    <3>1. \A q \in Request : sent'[q] >= sent[q] /\ sent'[q] \in Nat /\ sent[q] \in Nat
      BY <1>n, <2>2, AcceptEffect
    <3> QED
      BY <3>1
  <2>3. ASSUME NEW th \in Thread, IngestPayout(th) \/ IngestOwn(th)
        PROVE  sent' = sent
    BY <2>3, PayoutEffect, OwnEffect
  <2> QED
    BY <2>1, <2>2, <2>3, StepKinds DEF NoHandler
<1>g. \A k \in DOMAIN nonces : /\ k \in DOMAIN nonces' /\ nonces'[k] \in Nat
                               /\ nonces'[k] >= nonces[k]
  <2>1. CASE nonces' = nonces
    BY <1>n, <2>1
  <2>2. ASSUME NEW s \in Shift, Ingest(s)
        PROVE  \A k \in DOMAIN nonces : /\ k \in DOMAIN nonces' /\ nonces'[k] \in Nat
                                        /\ nonces'[k] >= nonces[k]
    <3>1. pending \in Seq(Shift)
      BY DEF SwapInv
    <3> QED
      BY <1>n, <2>2, <3>1, NonceGrows, IngestTypes
  <2>3. ASSUME NEW th \in Thread, IngestPayout(th)
        PROVE  \E s \in Shift : Ingest(s)
    BY <2>3, PayoutEffect
  <2>4. ASSUME NEW th \in Thread, IngestOwn(th)
        PROVE  \E s \in Shift : Ingest(s)
    BY <2>4, OwnEffect, ShiftTypes
  <2>5. ASSUME NEW th \in Thread, NEW x \in Request, Accept(th, x)
        PROVE  nonces' = nonces
    BY <2>5, AcceptEffect
  <2> QED
    BY <2>1, <2>2, <2>3, <2>4, <2>5, StepKinds DEF NoHandler
<1>1. \A q \in Request : Recorded(q) => Recorded(q)'
  BY <1>d, <1>s DEF Recorded
<1>2. ASSUME NEW r \in Request, Used(r) PROVE Used(r)'
  <2>1. PICK k : k = NonceOf(Own(r))
    OBVIOUS
  <2>2. /\ k \in DOMAIN nonces /\ nonces[k] >= Submitted[r].nonce
        /\ Submitted[r].nonce \in Nat
    BY <1>2, <2>1, RequestType DEF Used
  <2>3. k \in DOMAIN nonces' /\ nonces'[k] >= Submitted[r].nonce
    <3>1. /\ nonces[k] \in Nat /\ nonces'[k] \in Nat /\ nonces'[k] >= nonces[k]
          /\ k \in DOMAIN nonces'
      BY <1>g, <1>n, <2>2
    <3> QED
      BY <2>2, <3>1
  <2> QED
    BY <2>1, <2>3 DEF Used, NonceOf, Own
<1> QED
  BY <1>1, <1>2

(* Each step keeps a payout and its own shift together.                    *)
LEMMA OwnStep ==
    ASSUME SwapInv, JobInv, NonceInv, OwnInv, [Next]_vars
    PROVE  OwnInv'
<1>t. /\ job \in [Thread -> Job] /\ \A k \in DOMAIN nonces : nonces[k] \in Nat
  BY DEF SwapInv
<1>r. /\ \A q \in Request : Recorded(q) => Recorded(q)'
      /\ \A r \in Request : Used(r) => Used(r)'
      /\ \A q \in Request : Own(q) \in DOMAIN due => Own(q) \in DOMAIN due'
  BY RecordedStays, CausesStay
<1>o. /\ \A k \in DOMAIN nonces : k[1] \notin {PoolWave, PoolUsdc} =>
            \E q \in Request : /\ NonceOf(Own(q)) = k /\ Submitted[q].nonce = nonces[k]
                               /\ Recorded(q)
      /\ \A r \in Request :
            (\E s \in DOMAIN due : s.kind = "payout" /\ s.request = r) =>
            /\ Submitted[r].amount > 0
            /\ \/ Own(r) \in DOMAIN due \/ ~Admissible(Own(r)) \/ Used(r)
               \/ \E th \in Thread : job[th] = [step |-> "own", request |-> r]
  BY DEF OwnInv
<1>q. ASSUME \A k \in DOMAIN nonces' : k[1] \notin {PoolWave, PoolUsdc} =>
                \/ k \in DOMAIN nonces /\ nonces'[k] = nonces[k]
                \/ \E q \in Request : /\ NonceOf(Own(q)) = k
                                      /\ Submitted[q].nonce = nonces'[k]
                                      /\ Recorded(q)',
             \A r \in Request :
                (\E s \in DOMAIN due' : s.kind = "payout" /\ s.request = r) =>
                /\ Submitted[r].amount > 0
                /\ \/ Own(r) \in DOMAIN due' \/ ~Admissible(Own(r)) \/ Used(r)'
                   \/ \E th \in Thread : job'[th] = [step |-> "own", request |-> r]
      PROVE  OwnInv'
  <2>1. \A k \in DOMAIN nonces' : k[1] \notin {PoolWave, PoolUsdc} =>
           \E q \in Request : /\ NonceOf(Own(q)) = k /\ Submitted[q].nonce = nonces'[k]
                              /\ Recorded(q)'
    BY <1>q, <1>r, <1>o
  <2> QED
    BY <1>q, <2>1 DEF OwnInv, NonceOf, Own, Admissible
<1>1. ASSUME nonces' = nonces, due' = due,
             \A th \in Thread : job[th].step = "own" => job'[th] = job[th]
      PROVE  OwnInv'
  BY <1>1, <1>o, <1>q, <1>r
<1>2. CASE NoHandler
  BY <1>1, <1>2 DEF NoHandler
<1>3. ASSUME NEW th \in Thread, NEW x \in Request, Accept(th, x) PROVE OwnInv'
  <2>1. /\ job[th] = Idle /\ \A u \in Thread \ {th} : job'[u] = job[u]
        /\ nonces' = nonces /\ due' = due
    BY <1>3, AcceptEffect
  <2>2. job[th].step # "own"
    BY <2>1 DEF Idle
  <2> QED
    BY <1>1, <2>1, <2>2
<1>4. ASSUME NEW th \in Thread, IngestPayout(th) PROVE OwnInv'
  <2>1. PICK x \in Request, s \in Shift :
           /\ job[th].step = "payout" /\ x = job[th].request
           /\ s.kind = "payout" /\ s.request = x
           /\ NonceOf(s) = <<PaysFor(x), Dex>> /\ Ingest(s)
           /\ job' = [job EXCEPT ![th] = IF IngestOk(s)
                                         THEN [step |-> "own", request |-> x]
                                         ELSE Idle]
    BY <1>4, PayoutEffect
  <2>2. /\ Submitted[x].amount > 0 /\ \A u \in Thread \ {th} : job'[u] = job[u]
        /\ IngestOk(s) => job'[th] = [step |-> "own", request |-> x]
    BY <1>t, <2>1 DEF JobInv
  <2>3. \A k \in DOMAIN nonces' : k[1] \notin {PoolWave, PoolUsdc} =>
           k \in DOMAIN nonces /\ nonces'[k] = nonces[k]
    <3>1. NonceOf(s)[1] \in {PoolWave, PoolUsdc}
      BY <2>1 DEF PaysFor
    <3>2. \A k \in DOMAIN nonces' \ {NonceOf(s)} :
             k \in DOMAIN nonces /\ nonces'[k] = nonces[k]
      BY <1>t, <2>1, NonceGrows
    <3> QED
      BY <3>1, <3>2
  <2>4. due' = due \/ (IngestOk(s) /\ due' = Put(due, s, DrainCycle))
    BY <2>1, IngestEffect
  <2>5. \A u \in DOMAIN due' : u \in DOMAIN due \/ (u = s /\ IngestOk(s))
    BY <2>4 DEF Put
  <2>6. ASSUME NEW r \in Request,
               \E u \in DOMAIN due' : u.kind = "payout" /\ u.request = r
        PROVE  /\ Submitted[r].amount > 0
               /\ \/ Own(r) \in DOMAIN due' \/ ~Admissible(Own(r)) \/ Used(r)'
                  \/ \E u \in Thread : job'[u] = [step |-> "own", request |-> r]
    <3>1. CASE \E u \in DOMAIN due : u.kind = "payout" /\ u.request = r
      <4>1. \A u \in Thread : job[u] = [step |-> "own", request |-> r] => u # th
        BY <2>1
      <4> QED
        BY <1>o, <1>r, <2>2, <3>1, <4>1
    <3>2. CASE ~\E u \in DOMAIN due : u.kind = "payout" /\ u.request = r
      BY <2>1, <2>2, <2>5, <2>6, <3>2
    <3> QED
      BY <3>1, <3>2
  <2> QED
    BY <1>q, <2>3, <2>6
<1>5. ASSUME NEW th \in Thread, IngestOwn(th) PROVE OwnInv'
  <2>1. PICK x \in Request :
           /\ job[th] = [step |-> "own", request |-> x] /\ Ingest(Own(x))
           /\ job' = [job EXCEPT ![th] = Idle] /\ sent' = sent
    BY <1>5, OwnEffect
  <2>2. PICK s \in Shift : /\ s = Own(x) /\ s.kind = "own"
                           /\ s.amount = Submitted[x].amount
                           /\ s.nonce = Submitted[x].nonce
    BY ShiftTypes
  <2>3. /\ \A u \in Thread \ {th} : job'[u] = job[u]
        /\ sent'[x] > 0 /\ Submitted[x].amount \in Nat /\ Submitted[x].nonce \in Nat
    <3>1. job[th] # Idle /\ job[th].request = x
      BY <2>1 DEF Idle
    <3> QED
      BY <1>t, <2>1, <3>1, RequestType DEF JobInv
  <2>4. \/ due' = due /\ (RecordsNonce(s) => ~(s.amount > 0))
        \/ due' = Put(due, s, DrainCycle)
    BY <2>1, <2>2, IngestEffect
  <2>5. /\ \A u \in DOMAIN due' : u \in DOMAIN due \/ u = s
        /\ RecordsNonce(s) => s \in DOMAIN due' \/ ~(s.amount > 0)
    BY <2>4 DEF Put
  <2>6. RecordsNonce(s) => Recorded(x)'
    <3>1. Submitted[x].amount = 0 \/ s.amount > 0
      BY <2>2, <2>3
    <3> QED
      BY <2>2, <2>3, <2>5, <3>1 DEF Recorded, Own
  <2>7. /\ RecordsNonce(s) => /\ NonceOf(s) \in DOMAIN nonces'
                              /\ nonces'[NonceOf(s)] = s.nonce
        /\ \A k \in DOMAIN nonces' \ {NonceOf(s)} :
              k \in DOMAIN nonces /\ nonces'[k] = nonces[k]
        /\ ~RecordsNonce(s) => nonces' = nonces
    BY <1>t, <2>1, <2>2, NonceGrows
  <2>8. \A k \in DOMAIN nonces' :
           \/ k \in DOMAIN nonces /\ nonces'[k] = nonces[k]
           \/ \E q \in Request : /\ NonceOf(Own(q)) = k
                                 /\ Submitted[q].nonce = nonces'[k]
                                 /\ Recorded(q)'
    BY <2>2, <2>6, <2>7
  <2>9. Admissible(Own(x)) => Used(x)'
    <3>1. CASE RecordsNonce(s)
      <4>1. NonceOf(s) \in DOMAIN nonces' /\ nonces'[NonceOf(s)] >= Submitted[x].nonce
        BY <2>2, <2>3, <2>7, <3>1
      <4> QED
        BY <2>2, <4>1 DEF Used, NonceOf, Own
    <3>2. CASE ~RecordsNonce(s)
      <4>1. Admissible(s) => /\ NonceOf(s) \in DOMAIN nonces
                             /\ nonces[NonceOf(s)] >= Submitted[x].nonce
        BY <1>t, <2>2, <2>3, <3>2 DEF RecordsNonce, FreshNonce
      <4>2. Admissible(Own(x)) => Used(x)
        BY <2>2, <4>1 DEF Used
      <4> QED
        BY <1>r, <4>2
    <3> QED
      BY <3>1, <3>2
  <2>10. ASSUME NEW r \in Request,
                \E u \in DOMAIN due' : u.kind = "payout" /\ u.request = r
         PROVE  /\ Submitted[r].amount > 0
                /\ \/ Own(r) \in DOMAIN due' \/ ~Admissible(Own(r)) \/ Used(r)'
                   \/ \E u \in Thread : job'[u] = [step |-> "own", request |-> r]
    <3>1. \E u \in DOMAIN due : u.kind = "payout" /\ u.request = r
      BY <2>2, <2>5, <2>10
    <3>2. /\ Submitted[r].amount > 0
          /\ \/ Own(r) \in DOMAIN due \/ ~Admissible(Own(r)) \/ Used(r)
             \/ \E u \in Thread : job[u] = [step |-> "own", request |-> r]
      BY <1>o, <3>1
    <3>3. CASE r = x
      BY <2>9, <3>2, <3>3
    <3>4. CASE r # x
      <4>1. \A u \in Thread : job[u] = [step |-> "own", request |-> r] => u # th
        BY <2>1, <3>4
      <4> QED
        BY <1>r, <2>3, <3>2, <4>1
    <3> QED
      BY <3>3, <3>4
  <2> QED
    BY <1>q, <2>8, <2>10
<1> QED
  BY <1>2, <1>3, <1>4, <1>5, StepKinds

(* When a payout is left without the client's shift after the handler is   *)
(* done, one of these is the cause and there is no other: the policy of    *)
(* the domain the client named refuses it, another request recorded the    *)
(* nonce or a higher one, its signature was taken by a commutative signal, *)
(* a predecessor was missing, or the draining cycle did not know the key.  *)
THEOREM PayoutsHaveTheirShifts == Spec => []PayoutHasItsShift
<1>1. Init => OwnInv
  BY InitEmpty DEF OwnInv
<1>2. SwapInv /\ JobInv /\ NonceInv /\ OwnInv /\ [Next]_vars => OwnInv'
  BY OwnStep
<1>3. SwapInv /\ NonceInv /\ OwnInv /\ TraceInv => PayoutHasItsShift
  <2> SUFFICES ASSUME SwapInv, NonceInv, OwnInv, TraceInv, NEW r \in Request,
                      PayoutsOf(r) # {}, ~InProgress(r), Own(r) \notin Present,
                      Admissible(Own(r)), ~SignatureTaken(Own(r)),
                      Own(r) \notin rejected, ~KeyTooLate(Own(r))
               PROVE  \E q \in Request \ {r} : Supersedes(q, r)
    BY DEF PayoutHasItsShift
  <2>1. \E s \in DOMAIN due : s.kind = "payout" /\ s.request = r
    BY DEF PayoutsOf, NonceInv
  <2>2. ~\E th \in Thread : job[th] = [step |-> "own", request |-> r]
    BY DEF InProgress, Idle
  <2>3. Own(r) \notin DOMAIN due
    BY DEF TraceInv, Traced
  <2>4. Submitted[r].amount > 0 /\ Used(r)
    BY <2>1, <2>2, <2>3 DEF OwnInv
  <2>5. PICK k \in DOMAIN nonces :
           k = NonceOf(Own(r)) /\ nonces[k] >= Submitted[r].nonce
    BY <2>4 DEF Used
  <2>6. k[1] \notin {PoolWave, PoolUsdc}
    BY <2>5, ShiftTypes, RequestType
  <2>7. PICK q \in Request : /\ NonceOf(Own(q)) = k /\ Submitted[q].nonce = nonces[k]
                             /\ Recorded(q)
    BY <2>6 DEF OwnInv
  <2>8. q # r
    BY <2>3, <2>4, <2>7 DEF Recorded
  <2>9. Supersedes(q, r)
    BY <2>5, <2>7 DEF Supersedes, Recorded
  <2> QED
    BY <2>8, <2>9
<1> QED
  BY <1>1, <1>2, <1>3, NoncesKept, TraceKept, PTL DEF Spec
=============================================================================
