--------------------------- MODULE VectorClockDag ---------------------------
(***************************************************************************)
(* The causal DAG of stateful phase-shifts (src/src/consensus/dag.rs).     *)
(*                                                                         *)
(* A shift is known by its hash.  Hashes are collision free, and are       *)
(* numbers because the code compares them to break ties.  The HashMap      *)
(* nodes: TxHash -> DagNode is split by field: nodes holds the keys, and   *)
(* children, status, inserted_at, depth, finalized_at and applied hold the *)
(* fields of each DagNode.  HashMaps of amounts are functions whose domain *)
(* is their key set, because a missing account and an account with 0 are   *)
(* treated differently when balances are copied.                           *)
(*                                                                         *)
(* The module defines the DAG's state and the effect of each of its        *)
(* operations; Oscillator.tla decides when they are called.                *)
(***************************************************************************)
EXTENDS CausalClock, PartialMaps, FiniteSetsExt, SequencesExt

CONSTANTS Hash,      \* hashes of the shifts that can be submitted
          Account,   \* account ids, which are also the ids in vector clocks
          Domain,    \* concurrency domain ids
          Shift      \* the signed content behind each hash

(* A StatefulShift.  signed says whether verify_signature succeeds.        *)
ShiftRecord ==
    [from : Account, to : Account, amount : Nat, domain : Domain,
     nonce : Nat, predecessors : SUBSET Hash, clock : Clock(Account),
     signed : BOOLEAN]

ASSUME HashAssumption == Hash \subseteq Nat /\ IsFiniteSet(Hash)
ASSUME AccountAssumption == IsFiniteSet(Account)
ASSUME ShiftAssumption == Shift \in [Hash -> ShiftRecord]

VARIABLES
    nodes,          \* hashes in the DAG
    roots,          \* nodes without predecessors
    children,       \* DagNode.children
    status,         \* DagNode.status; "None" outside the DAG
    inserted_at,    \* DagNode.inserted_at_tick
    depth,          \* DagNode.finalization_depth
    finalized_at,   \* DagNode.finalized_at_tick; NotFinal is None
    applied,        \* nodes whose DagNode.applied flag is set
    tips,           \* latest shift of each sender
    rejected,       \* hashes that failed insertion
    balances,       \* cumulative balances
    max_clock,      \* largest time observed for each clock entry
    account_tips    \* latest clock of each sender (absent reads as zero)

dagVars == <<nodes, roots, children, status, inserted_at, depth,
             finalized_at, applied, tips, rejected, balances, max_clock,
             account_tips>>

NotFinal == -1

DagTypeOK ==
    /\ nodes \in SUBSET Hash
    /\ roots \in SUBSET Hash
    /\ children \in [Hash -> SUBSET Hash]
    /\ status \in [Hash -> {"None", "Accepted", "Rejected", "Finalized"}]
    /\ inserted_at \in [Hash -> Nat]
    /\ depth \in [Hash -> Nat]
    /\ finalized_at \in [Hash -> Nat \cup {NotFinal}]
    /\ applied \in SUBSET Hash
    /\ IsMap(tips, Account, Hash)
    /\ rejected \in SUBSET Hash
    /\ IsMap(balances, Account, Nat)
    /\ max_clock \in Clock(Account)
    /\ account_tips \in [Account -> Clock(Account)]

(* VectorClockDag::new, with the balances that genesis seeded.             *)
DagInit(genesis) ==
    /\ nodes = {} /\ roots = {} /\ applied = {} /\ rejected = {}
    /\ children = [h \in Hash |-> {}]
    /\ status = [h \in Hash |-> "None"]
    /\ inserted_at = [h \in Hash |-> 0]
    /\ depth = [h \in Hash |-> 0]
    /\ finalized_at = [h \in Hash |-> NotFinal]
    /\ tips = [a \in {} |-> 0]
    /\ balances = genesis
    /\ max_clock = ZeroClock(Account)
    /\ account_tips = [a \in Account |-> ZeroClock(Account)]

-----------------------------------------------------------------------------
(* insert *)

(* Mutant: the clocks are compared the wrong way round.                    *)
NewTipSwapped(h) ==
    LET a == Shift[h].from
    IN  IF a \in DOMAIN tips
            /\ ~happened_before(Shift[h].clock, Shift[tips[a]].clock)
        THEN tips[a]
        ELSE h

(* The shift that tips names for sender a once h from a is a node.         *)
NewTip(h) ==
    LET a == Shift[h].from
    IN  IF a \in DOMAIN tips
            /\ ~happened_before(Shift[tips[a]].clock, Shift[h].clock)
        THEN tips[a]
        ELSE h

(* A shift whose signature holds and whose predecessors are all present    *)
(* becomes a node: it is linked below its predecessors and the clocks and  *)
(* the sender's tip advance.                                               *)
LinkNode(h, t, d) ==
    LET s == Shift[h] IN
    /\ nodes' = nodes \cup {h}
    /\ roots' = IF s.predecessors = {} THEN roots \cup {h} ELSE roots
    /\ children' = [p \in Hash |-> IF p \in s.predecessors
                                   THEN children[p] \cup {h}
                                   ELSE children[p]]
    /\ status' = [status EXCEPT ![h] = "Accepted"]
    /\ inserted_at' = [inserted_at EXCEPT ![h] = t]
    /\ depth' = [depth EXCEPT ![h] = d]
    /\ tips' = Put(tips, s.from, NewTip(h))
    /\ max_clock' = merge(max_clock, s.clock)
    /\ account_tips' = [account_tips EXCEPT ![s.from] = merge(@, s.clock)]
    /\ UNCHANGED <<finalized_at, applied, rejected, balances>>

(* A failed insertion is only remembered in the rejected map.              *)
RefuseNode(h) ==
    /\ rejected' = rejected \cup {h}
    /\ UNCHANGED <<nodes, roots, children, status, inserted_at, depth,
                   finalized_at, applied, tips, balances, max_clock,
                   account_tips>>

(* Mutant: predecessors are not looked up.                                 *)
InsertOrphans(h, t, d) ==
    IF ~Shift[h].signed THEN RefuseNode(h)
    ELSE IF h \in nodes THEN UNCHANGED dagVars
    ELSE LinkNode(h, t, d)

(* Mutant: a missing predecessor is an error that nobody records.          *)
InsertForgetsOrphans(h, t, d) ==
    IF ~Shift[h].signed THEN RefuseNode(h)
    ELSE IF h \in nodes \/ ~(Shift[h].predecessors \subseteq nodes)
    THEN UNCHANGED dagVars
    ELSE LinkNode(h, t, d)

(* insert: the signature is checked before the duplicate test, and the     *)
(* predecessors last.                                                      *)
InsertShift(h, t, d) ==
    IF ~Shift[h].signed THEN RefuseNode(h)
    ELSE IF h \in nodes THEN UNCHANGED dagVars
    ELSE IF ~(Shift[h].predecessors \subseteq nodes) THEN RefuseNode(h)
    ELSE LinkNode(h, t, d)

-----------------------------------------------------------------------------
(* detect_double_spends and promote_to_finalized *)

(* The order in which one sender's shifts are examined.                    *)
Earlier(g, h) ==
    \/ inserted_at[g] < inserted_at[h]
    \/ inserted_at[g] = inserted_at[h] /\ g < h

Concurrent(g, h) == concurrent_with(Shift[g].clock, Shift[h].clock)

(* What g and the shifts between g and h concurrent with g spend.          *)
SpentBefore(g, h) ==
    LET between == {k \in nodes : /\ Shift[k].from = Shift[g].from
                                  /\ Earlier(g, k) /\ Earlier(k, h)
                                  /\ Concurrent(g, k)}
    IN  Shift[g].amount + MapThenSumSet(LAMBDA k : Shift[k].amount, between)

(* Every node counts, whatever its status and whether applied or not, and  *)
(* is measured against the sender's current balance.                       *)
DoubleSpends ==
    {h \in nodes : \E g \in nodes :
        /\ Shift[g].from = Shift[h].from
        /\ Earlier(g, h) /\ Concurrent(g, h)
        /\ SpentBefore(g, h) + Shift[h].amount > Get(balances, Shift[h].from)}

(* Mutant: the operands of the saturating subtraction are swapped.         *)
RipeSwapped(h, t) ==
    /\ h \in nodes \ DoubleSpends
    /\ status[h] = "Accepted"
    /\ IF t <= inserted_at[h] THEN inserted_at[h] - t >= depth[h]
                              ELSE depth[h] = 0

(* A node still accepted after this tick's marking whose age reached its   *)
(* depth.  The subtraction saturates.                                      *)
Ripe(h, t) ==
    /\ h \in nodes \ DoubleSpends
    /\ status[h] = "Accepted"
    /\ IF t >= inserted_at[h] THEN t - inserted_at[h] >= depth[h]
                                 ELSE depth[h] = 0

(* Double spends are marked first, then what is ripe is finalized.         *)
MarkAndPromote(t) ==
    /\ status' = [h \in Hash |-> IF h \in DoubleSpends THEN "Rejected"
                                 ELSE IF Ripe(h, t) THEN "Finalized"
                                 ELSE status[h]]
    /\ finalized_at' = [h \in Hash |-> IF Ripe(h, t) THEN t
                                       ELSE finalized_at[h]]
    /\ UNCHANGED <<nodes, roots, children, inserted_at, depth, applied, tips,
                   rejected, balances, max_clock, account_tips>>

-----------------------------------------------------------------------------
(* topological_order and pick_minimal_ready *)

(* in_degree: how many nodes list h among their children.                  *)
InDegree(h) == Cardinality({p \in nodes : h \in children[p]})

(* The orders in which a HashSet may be iterated.                          *)
Iterations(S) == SetToSeqs(S)

(* The scan replaces its current best by a shift that precedes it, or by a *)
(* concurrent one with a smaller hash.                                     *)
Replaces(h, best) ==
    \/ happened_before(Shift[h].clock, Shift[best].clock)
    \/ Concurrent(h, best) /\ h < best

(* i is the index pick_minimal_ready returns for the non-empty sequence s: *)
(* best[j] is the index held after the first j entries were examined.      *)
PickMinimalReady(s, i) ==
    \E best \in [1..Len(s) -> 1..Len(s)] :
        /\ best[1] = 1
        /\ \A j \in 2..Len(s) :
              best[j] = IF Replaces(s[j], s[best[j - 1]]) THEN j
                                                          ELSE best[j - 1]
        /\ i = best[Len(s)]

(* Vec::swap_remove: the last entry takes the place of the removed one.    *)
SwapRemove(s, i) ==
    [j \in 1..(Len(s) - 1) |-> IF j = i THEN s[Len(s)] ELSE s[j]]
=============================================================================
