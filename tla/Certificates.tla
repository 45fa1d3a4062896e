---------------------------- MODULE Certificates ----------------------------
(***************************************************************************)
(* Operators' stake and synthesis certificates as one node sees them:      *)
(* src/src/operator/stake.rs (StakeTable), src/src/consensus/certificate.rs*)
(* (CertificateTracker) and the calls of src/src/consensus/oscillator.rs   *)
(* that tie them together.                                                 *)
(*                                                                         *)
(* Self is the node observed.  Its gossip task takes peers' stake          *)
(* announcements and certificates off the wire one after the other; its    *)
(* synthesis thread signs and counts Self's own certificates at the same   *)
(* time.  A certificate is applied in three steps: the stake table is      *)
(* asked whether the operator is staked; then the entry of the (operator,  *)
(* tick) pair is locked and the stake is read; then, with that entry still *)
(* locked and the stake table free again, what was read is counted.        *)
(*                                                                         *)
(* What is on the wire may be lost, delivered twice or out of order.  A    *)
(* peer in Honest runs the program: it signs one certificate per tick, and *)
(* counts its ticks from 0 again when it restarts, because the snapshot    *)
(* does not hold the tick.  An operator in Rogue signs whatever it likes.  *)
(* Self may be in Rogue: a second node was started with Self's id.         *)
(***************************************************************************)
EXTENDS Integers, PartialMaps, FiniteSetsExt, Functions

CONSTANTS Operator,    \* accounts that announce stake
          Self,        \* the operator of the node observed
          Honest,      \* peers that run the program
          Rogue,       \* operators whose key signs anything
          View,        \* the result roots certificates can report
          MinStake,    \* StakingConfig.min_stake
          Liquid,      \* balances the node knows at start-up
          HonestStake, \* what Self and each honest peer announce
          RogueStake,  \* what a rogue operator may announce
          MaxNonce,    \* bound: rogue announcements' nonces
          MaxTick,     \* bound: ticks with certificates
          PeerTick,    \* bound: ticks with certificates of honest peers
          RogueStamp,  \* bound: stamps that rogue operators sign
          MaxRestarts, \* bound: restarts of each honest peer
          MaxReceipts, \* bound: units that reach operators by transfers
          NoCert       \* no certificate

ASSUME OperatorAssumption ==
    /\ IsFiniteSet(Operator) /\ Self \in Operator
    /\ Honest \subseteq Operator \ {Self}
    /\ Rogue \subseteq Operator \ Honest
ASSUME AmountAssumption ==
    /\ MinStake \in Nat \ {0}
    /\ HonestStake \in [Honest \cup {Self} -> Nat]
    /\ RogueStake \subseteq Nat
    /\ Liquid \in [Operator -> Nat]
ASSUME LimitAssumption ==
    /\ MaxNonce \in Nat /\ MaxTick \in Nat /\ MaxRestarts \in Nat
    /\ MaxReceipts \in Nat /\ PeerTick \in 0..MaxTick

(* A SynthesisCertificate: the roots that QuorumView compares, and a stamp *)
(* for what else signing_bytes() covers (time, counters).  A restarted     *)
(* node's stamps differ from those of its earlier runs.                    *)
Certificate ==
    [operator : Operator, tick : 0..MaxTick, view : View,
     stamp : 0..MaxRestarts]
ASSUME NoCertAssumption == NoCert \notin Certificate

(* A StakeShift with a good signature.  Every one that the program signs   *)
(* has nonce 0.                                                            *)
Announcement ==
    {[operator |-> o, amount |-> HonestStake[o], nonce |-> 0] : o \in Honest}
        \cup [operator : Rogue \ {Self}, amount : RogueStake, nonce : 0..MaxNonce]

VARIABLES
    stake,       \* OperatorEntry.stake
    slashed,     \* operators whose slash_nonce is set
    nonces,      \* seen_nonces at the sentinel domain
    keys,        \* operators whose key the node knows
    liquid,      \* operators' wave-field balances
    burned,      \* stake burned from the supply
    book,        \* by_operator_tick: (operator, tick) -> certificate
    tally,       \* by_tick: (tick, view) -> stake
    own,         \* Self's certificate, signed and not yet applied
    hand,        \* per thread, a certificate that passed the stake check
    counting,    \* threads that hold the entry of their certificate
    weight,      \* per thread, the stake it read for its certificate
    wire,        \* certificates signed by honest peers
    next_tick,   \* synthesis_tick of Self and of the honest peers
    restarts,    \* restarts of each honest peer
    received,    \* units that reached operators by transfers
    shrank,      \* history: some stake was reduced
    late         \* history: entries held when their operator was slashed

stakeVars == <<stake, slashed, nonces, liquid, burned, shrank>>
trackerVars == <<book, tally>>
entryVars == <<counting, weight>>
meshVars == <<wire, next_tick, restarts>>
vars == <<stakeVars, keys, trackerVars, own, hand, entryVars, meshVars,
          received, late>>

Thread == {"gossip", "synthesis"}

TypeOK ==
    /\ stake \in [Operator -> Nat] /\ slashed \in SUBSET Operator
    /\ IsMap(nonces, Operator, Nat) /\ keys \in SUBSET Operator
    /\ liquid \in [Operator -> Nat] /\ burned \in Nat
    /\ IsMap(book, Operator \X (0..MaxTick), Certificate)
    /\ IsMap(tally, (0..MaxTick) \X View, Nat)
    /\ own \in Certificate \cup {NoCert}
    /\ hand \in [Thread -> Certificate \cup {NoCert}]
    /\ counting \in SUBSET {th \in Thread : hand[th] # NoCert}
    /\ weight \in [Thread -> Nat]
    /\ wire \in SUBSET Certificate
    /\ next_tick \in [Operator -> 0..(MaxTick + 1)]
    /\ restarts \in [Operator -> 0..MaxRestarts]
    /\ received \in 0..MaxReceipts /\ shrank \in BOOLEAN
    /\ late \in SUBSET (Operator \X (0..MaxTick))

(* Start-up: the node locked its own genesis balance as stake, with nonce  *)
(* 0, and knows its own key.                                               *)
Init ==
    /\ stake = [o \in Operator |-> IF o = Self THEN HonestStake[o] ELSE 0]
    /\ slashed = {} /\ nonces = [o \in {Self} |-> 0] /\ keys = {Self}
    /\ liquid = Liquid /\ burned = 0
    /\ book = [k \in {} |-> NoCert] /\ tally = [k \in {} |-> 0]
    /\ own = NoCert /\ hand = [t \in Thread |-> NoCert]
    /\ counting = {} /\ weight = [t \in Thread |-> 0]
    /\ wire = {} /\ next_tick = [o \in Operator |-> 0]
    /\ restarts = [o \in Operator |-> 0]
    /\ received = 0 /\ shrank = FALSE /\ late = {}

-----------------------------------------------------------------------------
(* StakeTable *)

IsStaked(o) == stake[o] >= MinStake /\ o \notin slashed

total_stake == SumFunctionOnSet(stake, Operator \ slashed)

(* Mutant: half of the stake.                                              *)
MajorityThreshold == total_stake \div 2

quorum_threshold ==
    IF total_stake = 0 THEN 0 ELSE (total_stake \div 3) * 2 + 1

(* The entries of operator o that threads hold with the stake read.        *)
HeldEntries(o) ==
    {<<o, hand[th].tick>> : th \in {th \in counting : hand[th].operator = o}}

(* Mutant: the stake of a slashed operator is burned but not taken away.   *)
SlashKeepsStake(o) ==
    /\ slashed' = slashed \cup {o}
    /\ burned' = burned + stake[o]
    /\ shrank' = (shrank \/ stake[o] > 0)
    /\ late' = late \cup HeldEntries(o)
    /\ UNCHANGED <<stake, nonces, liquid>>

(* slash, and the burn of what the operator had locked.  An operator can   *)
(* be slashed again; there is then nothing left to burn, unless it staked  *)
(* again.                                                                  *)
Slash(o) ==
    /\ slashed' = slashed \cup {o}
    /\ burned' = burned + stake[o]
    /\ stake' = [stake EXCEPT ![o] = 0]
    /\ shrank' = (shrank \/ stake[o] > 0)
    /\ late' = late \cup HeldEntries(o)
    /\ UNCHANGED <<nonces, liquid>>

(* check_quorum returns one of the views whose stake reaches the threshold.*)
check_quorum(t) ==
    {v \in View : /\ <<t, v>> \in DOMAIN tally
                  /\ tally[<<t, v>>] >= quorum_threshold}

-----------------------------------------------------------------------------
(* The gossip task *)

(* Mutant: the balance is not compared with what is to be locked.          *)
RelockUnfunded(o, amount) ==
    /\ liquid' = [liquid EXCEPT ![o] = @ - (amount - stake[o])]
    /\ stake' = [stake EXCEPT ![o] = amount]
    /\ shrank' = (shrank \/ amount < stake[o])

(* apply_stake once the nonce is recorded: the difference to what is       *)
(* locked moves between the liquid balance and the stake.  A difference    *)
(* the balance does not cover is refused.  A slashed operator may stake,   *)
(* and stays slashed.                                                      *)
Relock(o, amount) ==
    IF amount - stake[o] > liquid[o]
    THEN UNCHANGED <<stake, liquid, shrank>>
    ELSE /\ liquid' = [liquid EXCEPT ![o] = @ - (amount - stake[o])]
         /\ stake' = [stake EXCEPT ![o] = amount]
         /\ shrank' = (shrank \/ amount < stake[o])

(* A stake announcement arrives.  The key is learned whether or not the    *)
(* stake is accepted, and the nonce recorded whether or not it is funded.  *)
ApplyStake(m) ==
    /\ hand["gossip"] = NoCert
    /\ keys' = keys \cup {m.operator}
    /\ IF m.operator \in DOMAIN nonces /\ m.nonce <= nonces[m.operator]
       THEN UNCHANGED <<nonces, stake, liquid, shrank>>
       ELSE /\ nonces' = Put(nonces, m.operator, m.nonce)
            /\ Relock(m.operator, m.amount)
    /\ UNCHANGED <<slashed, burned, trackerVars, own, hand, entryVars, meshVars,
                   received, late>>

(* What the wire may deliver: honest peers' certificates, and anything a   *)
(* rogue key signs.                                                        *)
Deliverable ==
    wire \cup {c \in Certificate : c.operator \in Rogue /\ c.stamp \in RogueStamp}

(* A certificate arrives and passes the key and stake checks.  One that    *)
(* does not changes nothing.                                               *)
CheckCertificate(c) ==
    /\ hand["gossip"] = NoCert
    /\ c.operator \in keys /\ IsStaked(c.operator)
    /\ hand' = [hand EXCEPT !["gossip"] = c]
    /\ UNCHANGED <<stakeVars, keys, trackerVars, own, entryVars, meshVars,
                   received, late>>

(* No other thread holds the entry of the certificate in th's hand.        *)
EntryFree(th) ==
    \A u \in counting : \/ hand[u].operator # hand[th].operator
                         \/ hand[u].tick # hand[th].tick

(* Mutant: every certificate after the first of a tick is a conflict.      *)
EnterIntolerant(th) ==
    LET c == hand[th] IN
    /\ c # NoCert /\ th \notin counting /\ EntryFree(th)
    /\ IF <<c.operator, c.tick>> \in DOMAIN book
       THEN /\ hand' = [hand EXCEPT ![th] = NoCert]
            /\ Slash(c.operator)
            /\ UNCHANGED entryVars
       ELSE /\ counting' = counting \cup {th}
            /\ weight' = [weight EXCEPT ![th] = stake[c.operator]]
            /\ UNCHANGED <<stakeVars, hand, late>>
    /\ UNCHANGED <<keys, trackerVars, own, meshVars, received>>

(* The entry of the certificate is locked.  If it is taken, an identical   *)
(* certificate is ignored and a different one slashes.  If it is vacant,   *)
(* the stake that the operator has now is read, and the entry stays        *)
(* locked.                                                                 *)
EnterEntry(th) ==
    LET c == hand[th]
        entry == <<c.operator, c.tick>>
    IN  /\ c # NoCert /\ th \notin counting /\ EntryFree(th)
        /\ IF entry \in DOMAIN book
           THEN /\ hand' = [hand EXCEPT ![th] = NoCert]
                /\ IF book[entry] = c THEN UNCHANGED <<stakeVars, late>>
                                      ELSE Slash(c.operator)
                /\ UNCHANGED entryVars
           ELSE /\ counting' = counting \cup {th}
                /\ weight' = [weight EXCEPT ![th] = stake[c.operator]]
                /\ UNCHANGED <<stakeVars, hand, late>>
        /\ UNCHANGED <<keys, trackerVars, own, meshVars, received>>

(* What was read is added to the view's tally, whatever became of the      *)
(* stake since, and the certificate is filed.                              *)
CountCertificate(th) ==
    LET c == hand[th]
        group == <<c.tick, c.view>>
    IN  /\ th \in counting
        /\ tally' = Put(tally, group, Get(tally, group) + weight[th])
        /\ book' = Put(book, <<c.operator, c.tick>>, c)
        /\ hand' = [hand EXCEPT ![th] = NoCert]
        /\ counting' = counting \ {th}
        /\ weight' = [weight EXCEPT ![th] = 0]
        /\ UNCHANGED <<stakeVars, keys, own, meshVars, received, late>>

-----------------------------------------------------------------------------
(* The synthesis thread *)

(* The end of synthesize(): a staked operator signs the tick's results.    *)
SignCertificate(v) ==
    /\ own = NoCert /\ hand["synthesis"] = NoCert
    /\ next_tick[Self] <= MaxTick
    /\ next_tick' = [next_tick EXCEPT ![Self] = @ + 1]
    /\ own' = IF IsStaked(Self)
              THEN [operator |-> Self, tick |-> next_tick[Self], view |-> v,
                    stamp |-> 0]
              ELSE NoCert
    /\ UNCHANGED <<stakeVars, keys, trackerVars, hand, entryVars, wire, restarts,
                   received, late>>

(* ... and applies it to its own tracker, where the stake is looked up     *)
(* again.                                                                  *)
CheckOwn ==
    /\ own # NoCert
    /\ own' = NoCert
    /\ hand' = IF IsStaked(Self) THEN [hand EXCEPT !["synthesis"] = own]
                                 ELSE hand
    /\ UNCHANGED <<stakeVars, keys, trackerVars, entryVars, meshVars, received,
                   late>>

-----------------------------------------------------------------------------
(* The rest of the mesh *)

(* An honest peer ends a tick and broadcasts its certificate.              *)
PeerSigns(o, v) ==
    /\ next_tick[o] <= PeerTick
    /\ next_tick' = [next_tick EXCEPT ![o] = @ + 1]
    /\ wire' = wire \cup {[operator |-> o, tick |-> next_tick[o], view |-> v,
                           stamp |-> restarts[o]]}
    /\ UNCHANGED <<stakeVars, keys, trackerVars, own, hand, entryVars, restarts,
                   received, late>>

(* An honest peer restarts from its snapshot.  Oscillator::new sets the    *)
(* tick to 0 and load leaves it there.                                     *)
PeerRestarts(o) ==
    /\ restarts[o] < MaxRestarts
    /\ restarts' = [restarts EXCEPT ![o] = @ + 1]
    /\ next_tick' = [next_tick EXCEPT ![o] = 0]
    /\ UNCHANGED <<stakeVars, keys, trackerVars, own, hand, entryVars, wire,
                   received, late>>

(* A transfer to an operator's account.                                    *)
Receive(o) ==
    /\ received < MaxReceipts
    /\ received' = received + 1
    /\ liquid' = [liquid EXCEPT ![o] = @ + 1]
    /\ UNCHANGED <<stake, slashed, nonces, burned, shrank, keys, trackerVars,
                   own, hand, entryVars, meshVars, late>>

-----------------------------------------------------------------------------
(* Specification.  Announcements are repeated for ever, so the system      *)
(* never stops.                                                            *)

Record(th) == EnterEntry(th) \/ CountCertificate(th)

Gossip ==
    \/ \E m \in Announcement : ApplyStake(m)
    \/ \E c \in Deliverable : CheckCertificate(c)
    \/ Record("gossip")

Synthesis ==
    \/ \E v \in View : SignCertificate(v)
    \/ CheckOwn
    \/ Record("synthesis")

Mesh ==
    \/ \E o \in Honest : PeerRestarts(o) \/ \E v \in View : PeerSigns(o, v)
    \/ \E o \in Operator : Receive(o)

Next == Gossip \/ Synthesis \/ Mesh

Spec == Init /\ [][Next]_vars

-----------------------------------------------------------------------------
(* Properties *)

(* No two results of a tick have a quorum, whatever rogue operators sign   *)
(* and however the two threads interleave, as long as no stake was         *)
(* withdrawn or slashed: each operator is counted once per tick, with no   *)
(* more than the stake it still has.                                       *)
QuorumAgreement ==
    ~shrank => \A t \in 0..MaxTick : Cardinality(check_quorum(t)) <= 1

(* An honest peer is slashed only if it signed two different certificates  *)
(* for one tick; certificates that are lost, repeated or reordered by the  *)
(* mesh never cost it its stake.                                           *)
SlashedOnlyForResigning ==
    \A o \in slashed \cap Honest :
        \E c, d \in wire : c # d /\ c.operator = o /\ d.operator = o
                                /\ c.tick = d.tick

(* Staking, withdrawing and slashing move value between an operator's      *)
(* balance, the stake table and the burned supply, and lose none.  What a  *)
(* balance does not cover is not learned at all; AnnouncedIsLearned is     *)
(* about that.                                                             *)
StakeConserved ==
    SumFunction(stake) + SumFunction(liquid) + burned
        = HonestStake[Self] + SumFunction(Liquid) + received

(* Once an operator is slashed its certificates add no stake to any view,  *)
(* whatever they passed before and whatever the operator locks again, with *)
(* one exception: a certificate of the node's own operator, which both     *)
(* threads handle, for which one thread had read the stake before the      *)
(* other slashed it.                                                       *)
SlashedAddsNoWeight ==
    [][\A o \in slashed, t \in 0..MaxTick :
          <<o, t>> \in DOMAIN book' \ DOMAIN book =>
              \/ \A k \in DOMAIN tally' : tally'[k] = Get(tally, k)
              \/ o = Self /\ late = {<<o, t>>}]_vars

(* What the comment on apply_stake says: a signed announcement is trusted, *)
(* so a node that has not seen the peer's balance still learns its stake.  *)
AnnouncedIsLearned ==
    \A o \in Honest \ slashed :
        o \in DOMAIN nonces => stake[o] = HonestStake[o]
=============================================================================
