------------------------- MODULE CertificatesProofs -------------------------
(***************************************************************************)
(* Theorems about Certificates.tla, for every set of operators, every      *)
(* stake and any number of ticks, announcements and restarts.              *)
(***************************************************************************)
EXTENDS Certificates, FiniteSums

(* The entries that threads hold are entries of the book.                  *)
LEMMA HeldEntriesType ==
    ASSUME TypeOK, NEW o \in Operator
    PROVE  HeldEntries(o) \subseteq Operator \X (0..MaxTick)
<1> SUFFICES ASSUME NEW th \in counting
             PROVE  <<o, hand[th].tick>> \in Operator \X (0..MaxTick)
  BY DEF HeldEntries
<1>1. hand[th] \in Certificate
  BY DEF TypeOK
<1> QED
  BY <1>1 DEF Certificate

(* Slash keeps the types of what it changes.                               *)
LEMMA SlashType ==
    ASSUME TypeOK, NEW o \in Operator, Slash(o)
    PROVE  /\ stake' \in [Operator -> Nat] /\ slashed' \in SUBSET Operator
           /\ burned' \in Nat /\ shrank' \in BOOLEAN
           /\ nonces' = nonces /\ liquid' = liquid
           /\ late' \in SUBSET (Operator \X (0..MaxTick))
<1>1. HeldEntries(o) \subseteq Operator \X (0..MaxTick)
  BY HeldEntriesType
<1> QED
  BY <1>1 DEF TypeOK, Slash

(* A certificate is held by a thread that reached its entry.               *)
LEMMA HeldType ==
    ASSUME TypeOK, NEW th \in Thread, hand[th] # NoCert
    PROVE  /\ hand[th] \in Certificate
           /\ hand[th].operator \in Operator /\ hand[th].tick \in 0..MaxTick
           /\ hand[th].view \in View /\ stake[hand[th].operator] \in Nat
BY DEF TypeOK, Certificate

(* What locking an entry does: it is taken and the certificate is dropped, *)
(* perhaps with a slash, or it is vacant and the stake is read.            *)
LEMMA EnterEffect ==
    ASSUME TypeOK, NEW th \in Thread, EnterEntry(th)
    PROVE  /\ hand[th] # NoCert /\ th \notin counting /\ EntryFree(th)
           /\ keys' = keys /\ book' = book /\ tally' = tally /\ own' = own
           /\ wire' = wire /\ next_tick' = next_tick /\ restarts' = restarts
           /\ received' = received
           /\ \/ /\ <<hand[th].operator, hand[th].tick>> \in DOMAIN book
                 /\ hand' = [hand EXCEPT ![th] = NoCert]
                 /\ counting' = counting /\ weight' = weight
                 /\ \/ /\ book[<<hand[th].operator, hand[th].tick>>] = hand[th]
                       /\ UNCHANGED stakeVars /\ late' = late
                    \/ /\ book[<<hand[th].operator, hand[th].tick>>] # hand[th]
                       /\ Slash(hand[th].operator)
              \/ /\ <<hand[th].operator, hand[th].tick>> \notin DOMAIN book
                 /\ counting' = counting \cup {th}
                 /\ weight' = [weight EXCEPT ![th] = stake[hand[th].operator]]
                 /\ UNCHANGED stakeVars /\ hand' = hand /\ late' = late
BY DEF EnterEntry, entryVars, trackerVars, meshVars

(* Locking an entry leaves everything typed.                               *)
LEMMA EnterType ==
    ASSUME TypeOK, NEW th \in Thread, EnterEntry(th)
    PROVE  TypeOK'
<1>1. /\ hand[th] # NoCert /\ th \notin counting
      /\ keys' = keys /\ book' = book /\ tally' = tally /\ own' = own
      /\ wire' = wire /\ next_tick' = next_tick /\ restarts' = restarts
      /\ received' = received
  BY EnterEffect
<1>2. hand[th].operator \in Operator /\ stake[hand[th].operator] \in Nat
  BY <1>1, HeldType
<1>3. CASE /\ hand' = [hand EXCEPT ![th] = NoCert]
           /\ counting' = counting /\ weight' = weight
           /\ UNCHANGED stakeVars /\ late' = late
  BY <1>1, <1>3 DEF TypeOK, stakeVars
<1>4. CASE /\ hand' = [hand EXCEPT ![th] = NoCert]
           /\ counting' = counting /\ weight' = weight
           /\ Slash(hand[th].operator)
  <2>1. /\ stake' \in [Operator -> Nat] /\ slashed' \in SUBSET Operator
        /\ burned' \in Nat /\ shrank' \in BOOLEAN
        /\ nonces' = nonces /\ liquid' = liquid
        /\ late' \in SUBSET (Operator \X (0..MaxTick))
    BY <1>2, <1>4, SlashType
  <2>2. /\ hand' \in [Thread -> Certificate \cup {NoCert}]
        /\ counting' \in SUBSET {u \in Thread : hand'[u] # NoCert}
        /\ weight' \in [Thread -> Nat]
    BY <1>1, <1>4 DEF TypeOK
  <2> QED
    BY <1>1, <2>1, <2>2 DEF TypeOK
<1>5. CASE /\ counting' = counting \cup {th}
           /\ weight' = [weight EXCEPT ![th] = stake[hand[th].operator]]
           /\ UNCHANGED stakeVars /\ hand' = hand /\ late' = late
  BY <1>1, <1>2, <1>5 DEF TypeOK, stakeVars
<1> QED
  BY <1>3, <1>4, <1>5, EnterEffect

(* Counting a certificate leaves everything typed.                         *)
LEMMA CountType ==
    ASSUME TypeOK, NEW th \in Thread, CountCertificate(th)
    PROVE  TypeOK'
<1> DEFINE c == hand[th]
           entry == <<c.operator, c.tick>>
           group == <<c.tick, c.view>>
<1>1. /\ th \in counting /\ c # NoCert
      /\ hand' = [hand EXCEPT ![th] = NoCert]
      /\ counting' = counting \ {th} /\ weight' = [weight EXCEPT ![th] = 0]
      /\ book' = Put(book, entry, c)
      /\ tally' = Put(tally, group, Get(tally, group) + weight[th])
      /\ UNCHANGED <<stakeVars, keys, own, meshVars, received, late>>
  BY DEF CountCertificate, TypeOK
<1>2. /\ c \in Certificate /\ entry \in Operator \X (0..MaxTick)
      /\ group \in (0..MaxTick) \X View
  BY <1>1, HeldType
<1>3. IsMap(book', Operator \X (0..MaxTick), Certificate)
  BY <1>1, <1>2, PutType DEF TypeOK
<1>4. Get(tally, group) + weight[th] \in Nat
  BY <1>2, GetType DEF TypeOK
<1>5. IsMap(tally', (0..MaxTick) \X View, Nat)
  BY <1>1, <1>2, <1>4, PutType DEF TypeOK
<1>6. /\ hand' \in [Thread -> Certificate \cup {NoCert}]
      /\ counting' \in SUBSET {u \in Thread : hand'[u] # NoCert}
      /\ weight' \in [Thread -> Nat]
  BY <1>1 DEF TypeOK
<1> QED
  BY <1>1, <1>3, <1>5, <1>6 DEF TypeOK, stakeVars, meshVars

(* An announcement names an operator, an amount and a nonce.               *)
LEMMA AnnouncementType ==
    ASSUME NEW m \in Announcement
    PROVE  m.operator \in Operator /\ m.amount \in Nat /\ m.nonce \in Nat
<1>1. ASSUME NEW o \in Honest,
             m = [operator |-> o, amount |-> HonestStake[o], nonce |-> 0]
      PROVE  m.operator \in Operator /\ m.amount \in Nat /\ m.nonce \in Nat
  BY <1>1, OperatorAssumption, AmountAssumption
<1>2. ASSUME m \in [operator : Rogue \ {Self}, amount : RogueStake,
                    nonce : 0..MaxNonce]
      PROVE  m.operator \in Operator /\ m.amount \in Nat /\ m.nonce \in Nat
  <2>1. m.operator \in Rogue /\ m.amount \in RogueStake /\ m.nonce \in 0..MaxNonce
    BY <1>2
  <2>2. m.operator \in Operator /\ m.amount \in Nat
    BY <2>1, OperatorAssumption, AmountAssumption, Zenon
  <2>3. m.nonce \in Nat
    BY <2>1, LimitAssumption
  <2> QED
    BY <2>2, <2>3
<1> QED
  BY <1>1, <1>2 DEF Announcement

(* A stake announcement leaves everything typed: a balance covers what is  *)
(* locked of it.                                                           *)
LEMMA StakeType ==
    ASSUME TypeOK, NEW m \in Announcement, ApplyStake(m)
    PROVE  TypeOK'
<1>1. m.operator \in Operator /\ m.amount \in Nat /\ m.nonce \in Nat
  BY AnnouncementType
<1>2. /\ keys' \in SUBSET Operator
      /\ UNCHANGED <<slashed, burned, trackerVars, own, hand, entryVars, meshVars,
                     received, late>>
  BY <1>1 DEF ApplyStake, TypeOK
<1>3. CASE UNCHANGED <<nonces, stake, liquid, shrank>>
  BY <1>2, <1>3 DEF TypeOK, trackerVars, entryVars, meshVars
<1>4. CASE /\ nonces' = Put(nonces, m.operator, m.nonce)
           /\ Relock(m.operator, m.amount)
  <2>1. IsMap(nonces', Operator, Nat)
    BY <1>1, <1>4, PutType DEF TypeOK
  <2>2. stake' \in [Operator -> Nat] /\ shrank' \in BOOLEAN
    BY <1>1, <1>4 DEF TypeOK, Relock
  <2>3. liquid' \in [Operator -> Nat]
    BY <1>1, <1>4 DEF TypeOK, Relock
  <2> QED
    BY <1>2, <2>1, <2>2, <2>3 DEF TypeOK, trackerVars, entryVars, meshVars
<1> QED
  BY <1>3, <1>4 DEF ApplyStake

(* Every reachable state is typed: in particular no locked or liquid       *)
(* amount is ever negative, through slashing, withdrawals and re-staking.  *)
THEOREM CertificatesTypeCorrect == Spec => []TypeOK
<1>1. Init => TypeOK
  <2> SUFFICES ASSUME Init PROVE TypeOK
    OBVIOUS
  <2>1. IsMap(nonces, Operator, Nat)
    BY OperatorAssumption DEF Init, IsMap
  <2>2. IsMap(book, Operator \X (0..MaxTick), Certificate)
    BY DEF Init, IsMap
  <2>3. IsMap(tally, (0..MaxTick) \X View, Nat)
    BY DEF Init, IsMap
  <2>4. stake \in [Operator -> Nat] /\ liquid \in [Operator -> Nat]
    BY AmountAssumption DEF Init
  <2>5. /\ next_tick \in [Operator -> 0..(MaxTick + 1)]
        /\ restarts \in [Operator -> 0..MaxRestarts]
    <3>1. 0 \in 0..(MaxTick + 1) /\ 0 \in 0..MaxRestarts
      BY LimitAssumption
    <3>2. /\ next_tick = [o \in Operator |-> 0]
          /\ restarts = [o \in Operator |-> 0]
      BY DEF Init
    <3> QED
      BY <3>1, <3>2, Zenon
  <2>6. /\ slashed \in SUBSET Operator /\ keys \in SUBSET Operator
        /\ own \in Certificate \cup {NoCert}
        /\ hand \in [Thread -> Certificate \cup {NoCert}]
        /\ wire \in SUBSET Certificate
    BY OperatorAssumption DEF Init
  <2>7. burned \in Nat /\ received \in 0..MaxReceipts
    BY LimitAssumption DEF Init
  <2>8. shrank \in BOOLEAN
    BY Zenon DEF Init
  <2>9. /\ counting = {} /\ weight \in [Thread -> Nat] /\ late = {}
    BY DEF Init
  <2> QED
    BY <2>1, <2>2, <2>3, <2>4, <2>5, <2>6, <2>7, <2>8, <2>9 DEF TypeOK
<1>2. TypeOK /\ [Next]_vars => TypeOK'
  <2> SUFFICES ASSUME TypeOK, [Next]_vars PROVE TypeOK'
    OBVIOUS
  <2>1. ASSUME NEW m \in Announcement, ApplyStake(m) PROVE TypeOK'
    BY <2>1, StakeType
  <2>2. ASSUME NEW c \in Deliverable, CheckCertificate(c) PROVE TypeOK'
    BY <2>2, NoCertAssumption
    DEF CheckCertificate, Deliverable, TypeOK, stakeVars, trackerVars,
        entryVars, meshVars
  <2>3. ASSUME NEW th \in Thread, Record(th) PROVE TypeOK'
    BY <2>3, EnterType, CountType DEF Record
  <2>4. ASSUME NEW v \in View, SignCertificate(v) PROVE TypeOK'
    <3>1. next_tick' \in [Operator -> 0..(MaxTick + 1)]
      BY <2>4, OperatorAssumption, LimitAssumption DEF SignCertificate, TypeOK
    <3>2. own' \in Certificate \cup {NoCert}
      BY <2>4, OperatorAssumption, LimitAssumption
      DEF SignCertificate, TypeOK, Certificate
    <3> QED
      BY <2>4, <3>1, <3>2 DEF SignCertificate, TypeOK, stakeVars, trackerVars, entryVars
  <2>5. ASSUME CheckOwn PROVE TypeOK'
    BY <2>5 DEF CheckOwn, TypeOK, Thread, stakeVars, trackerVars, entryVars, meshVars
  <2>6. ASSUME NEW o \in Honest, NEW v \in View, PeerSigns(o, v)
        PROVE  TypeOK'
    <3>1. o \in Operator
      BY OperatorAssumption
    <3>2. next_tick' \in [Operator -> 0..(MaxTick + 1)]
      BY <2>6, <3>1, LimitAssumption DEF PeerSigns, TypeOK
    <3>3. wire' \in SUBSET Certificate
      BY <2>6, <3>1, LimitAssumption DEF PeerSigns, TypeOK, Certificate
    <3> QED
      BY <2>6, <3>2, <3>3 DEF PeerSigns, TypeOK, stakeVars, trackerVars, entryVars
  <2>7. ASSUME NEW o \in Honest, PeerRestarts(o) PROVE TypeOK'
    <3>1. o \in Operator
      BY OperatorAssumption
    <3>2. /\ next_tick' \in [Operator -> 0..(MaxTick + 1)]
          /\ restarts' \in [Operator -> 0..MaxRestarts]
      BY <2>7, <3>1, LimitAssumption DEF PeerRestarts, TypeOK
    <3> QED
      BY <2>7, <3>2 DEF PeerRestarts, TypeOK, stakeVars, trackerVars, entryVars
  <2>8. ASSUME NEW o \in Operator, Receive(o) PROVE TypeOK'
    BY <2>8, LimitAssumption DEF Receive, TypeOK, trackerVars, entryVars, meshVars
  <2>9. CASE UNCHANGED vars
    BY <2>9 DEF vars, TypeOK, stakeVars, trackerVars, entryVars, meshVars
  <2> QED
    BY <2>1, <2>2, <2>3, <2>4, <2>5, <2>6, <2>7, <2>8, <2>9
    DEF Next, Gossip, Synthesis, Mesh, Thread
<1> QED
  BY <1>1, <1>2, PTL DEF Spec

-----------------------------------------------------------------------------
(* What an honest peer signed, and what of it the node holds: the node     *)
(* only holds certificates of honest peers that are on the wire, and has   *)
(* filed them under their operator and tick.                               *)
HeldIsSigned ==
    /\ \A th \in Thread : hand[th] # NoCert /\ hand[th].operator \in Honest
                              => hand[th] \in wire
    /\ hand["synthesis"] # NoCert => hand["synthesis"].operator = Self
    /\ own # NoCert => own.operator = Self /\ hand["synthesis"] = NoCert
    /\ \A k \in DOMAIN book :
          /\ book[k].operator = k[1] /\ book[k].tick = k[2]
          /\ k[1] \in Honest => book[k] \in wire

(* Two certificates of one peer, tick and run of the program are the same, *)
(* and the ticks signed in the current run are below the counter.          *)
SignedOncePerRun ==
    /\ \A c \in wire :
          /\ c.operator \in Honest
          /\ c.stamp <= restarts[c.operator]
          /\ c.stamp = restarts[c.operator] => c.tick < next_tick[c.operator]
    /\ \A c, d \in wire :
          c.operator = d.operator /\ c.tick = d.tick /\ c.stamp = d.stamp
              => c = d

(* A step keeps the certificates that the node holds explained, and        *)
(* slashes an honest peer only on two different certificates of it.        *)
LEMMA HeldStep ==
    ASSUME TypeOK, HeldIsSigned, SlashedOnlyForResigning, [Next]_vars
    PROVE  HeldIsSigned' /\ SlashedOnlyForResigning'
<1>1. ASSUME NEW m \in Announcement, ApplyStake(m)
      PROVE  HeldIsSigned' /\ SlashedOnlyForResigning'
  BY <1>1 DEF ApplyStake, HeldIsSigned, SlashedOnlyForResigning,
              trackerVars, meshVars
<1>2. ASSUME NEW c \in Deliverable, CheckCertificate(c)
      PROVE  HeldIsSigned' /\ SlashedOnlyForResigning'
  <2>1. c.operator \in Honest => c \in wire
    BY OperatorAssumption DEF Deliverable
  <2>2. /\ hand' = [hand EXCEPT !["gossip"] = c]
        /\ UNCHANGED <<wire, own, book, slashed>>
    BY <1>2 DEF CheckCertificate, stakeVars, trackerVars, meshVars
  <2> QED
    BY <2>1, <2>2 DEF TypeOK, HeldIsSigned, SlashedOnlyForResigning, Thread
<1>3. ASSUME NEW th \in Thread, EnterEntry(th)
      PROVE  HeldIsSigned' /\ SlashedOnlyForResigning'
  <2> DEFINE c == hand[th]
             entry == <<c.operator, c.tick>>
  <2>1. c # NoCert /\ own' = own /\ wire' = wire /\ book' = book
    BY <1>3, EnterEffect
  <2>2. entry[1] = c.operator /\ entry[2] = c.tick
    OBVIOUS
  <2>3. CASE hand' = hand /\ slashed' = slashed
    BY <2>1, <2>3 DEF HeldIsSigned, SlashedOnlyForResigning
  <2>4. CASE hand' = [hand EXCEPT ![th] = NoCert] /\ slashed' = slashed
    BY <2>1, <2>4 DEF TypeOK, HeldIsSigned, SlashedOnlyForResigning
  <2>5. CASE /\ hand' = [hand EXCEPT ![th] = NoCert]
             /\ entry \in DOMAIN book /\ book[entry] # c
             /\ slashed' = slashed \cup {c.operator}
    <3>1. HeldIsSigned'
      BY <2>1, <2>5 DEF TypeOK, HeldIsSigned
    <3>2. c.operator \in Honest =>
             /\ c \in wire /\ book[entry] \in wire
             /\ book[entry].operator = c.operator
             /\ book[entry].tick = c.tick
      BY <2>1, <2>2, <2>5 DEF HeldIsSigned
    <3>3. SlashedOnlyForResigning'
      BY <2>1, <2>5, <3>2 DEF SlashedOnlyForResigning
    <3> QED
      BY <3>1, <3>3
  <2>6. \/ hand' = hand /\ slashed' = slashed
        \/ hand' = [hand EXCEPT ![th] = NoCert] /\ slashed' = slashed
        \/ /\ hand' = [hand EXCEPT ![th] = NoCert]
           /\ entry \in DOMAIN book /\ book[entry] # c
           /\ slashed' = slashed \cup {c.operator}
    BY <1>3, EnterEffect DEF stakeVars, Slash
  <2> QED
    BY <2>3, <2>4, <2>5, <2>6
<1>c. ASSUME NEW th \in Thread, CountCertificate(th)
      PROVE  HeldIsSigned' /\ SlashedOnlyForResigning'
  <2> DEFINE c == hand[th]
             entry == <<c.operator, c.tick>>
  <2>1. /\ c # NoCert /\ hand' = [hand EXCEPT ![th] = NoCert]
        /\ book' = Put(book, entry, c)
        /\ own' = own /\ wire' = wire /\ slashed' = slashed
    BY <1>c DEF CountCertificate, TypeOK, meshVars, stakeVars
  <2>2. entry[1] = c.operator /\ entry[2] = c.tick
    OBVIOUS
  <2>3. \A k \in DOMAIN book' :
           (k = entry /\ book'[k] = c) \/ (k \in DOMAIN book /\ book'[k] = book[k])
    BY <2>1, Zenon DEF Put
  <2>4. \A k \in DOMAIN book' :
           /\ book'[k].operator = k[1] /\ book'[k].tick = k[2]
           /\ k[1] \in Honest => book'[k] \in wire
    BY <2>1, <2>2, <2>3 DEF HeldIsSigned
  <2> QED
    BY <2>1, <2>4 DEF TypeOK, HeldIsSigned, SlashedOnlyForResigning
<1>4. ASSUME NEW v \in View, SignCertificate(v)
      PROVE  HeldIsSigned' /\ SlashedOnlyForResigning'
  <2>1. /\ own' # NoCert => own'.operator = Self
        /\ hand["synthesis"] = NoCert
        /\ UNCHANGED <<hand, wire, book, slashed>>
    BY <1>4 DEF SignCertificate, stakeVars, trackerVars
  <2> QED
    BY <2>1 DEF HeldIsSigned, SlashedOnlyForResigning
<1>5. ASSUME CheckOwn
      PROVE  HeldIsSigned' /\ SlashedOnlyForResigning'
  <2>1. /\ own # NoCert /\ own.operator = Self /\ own' = NoCert
        /\ hand' = hand \/ hand' = [hand EXCEPT !["synthesis"] = own]
        /\ UNCHANGED <<wire, book, slashed>>
    BY <1>5 DEF CheckOwn, HeldIsSigned, stakeVars, trackerVars, meshVars
  <2> QED
    BY <2>1, OperatorAssumption
    DEF TypeOK, HeldIsSigned, SlashedOnlyForResigning, Thread
<1>6. ASSUME NEW o \in Honest, NEW v \in View, PeerSigns(o, v)
      PROVE  HeldIsSigned' /\ SlashedOnlyForResigning'
  <2>1. wire \subseteq wire' /\ UNCHANGED <<own, hand, book, slashed>>
    BY <1>6 DEF PeerSigns, stakeVars, trackerVars
  <2> QED
    BY <2>1 DEF HeldIsSigned, SlashedOnlyForResigning
<1>7. ASSUME NEW o \in Honest, PeerRestarts(o)
      PROVE  HeldIsSigned' /\ SlashedOnlyForResigning'
  BY <1>7 DEF PeerRestarts, HeldIsSigned, SlashedOnlyForResigning,
              stakeVars, trackerVars
<1>8. ASSUME NEW o \in Operator, Receive(o)
      PROVE  HeldIsSigned' /\ SlashedOnlyForResigning'
  BY <1>8 DEF Receive, HeldIsSigned, SlashedOnlyForResigning,
              trackerVars, meshVars
<1>9. CASE UNCHANGED vars
  BY <1>9 DEF vars, HeldIsSigned, SlashedOnlyForResigning, stakeVars,
              trackerVars, meshVars
<1> QED
  BY <1>1, <1>2, <1>3, <1>4, <1>5, <1>6, <1>7, <1>8, <1>9, <1>c
  DEF Next, Gossip, Synthesis, Mesh, Thread, Record

(* At start nothing is held and nobody is slashed.                         *)
LEMMA HeldInit ==
    Init => HeldIsSigned /\ SlashedOnlyForResigning
<1> SUFFICES ASSUME Init PROVE HeldIsSigned /\ SlashedOnlyForResigning
  OBVIOUS
<1>1. DOMAIN book = {} /\ slashed = {} /\ own = NoCert
  BY DEF Init
<1>2. \A th \in Thread : hand[th] = NoCert
  BY DEF Init
<1> QED
  BY <1>1, <1>2 DEF HeldIsSigned, SlashedOnlyForResigning, Thread

(* An honest peer loses its stake only for two different certificates it   *)
(* signed for one tick, whatever the mesh loses, repeats or reorders.      *)
THEOREM OnlyResigningIsSlashed == Spec => []SlashedOnlyForResigning
<1>1. TypeOK /\ HeldIsSigned /\ SlashedOnlyForResigning /\ [Next]_vars
         => HeldIsSigned' /\ SlashedOnlyForResigning'
  BY HeldStep
<1> QED
  BY <1>1, HeldInit, CertificatesTypeCorrect, PTL DEF Spec

-----------------------------------------------------------------------------
(* Peers sign a tick once per run of the program.                          *)
LEMMA SignedStep ==
    ASSUME TypeOK, SignedOncePerRun, [Next]_vars
    PROVE  SignedOncePerRun'
<1>1. ASSUME NEW o \in Honest, NEW v \in View, PeerSigns(o, v)
      PROVE  SignedOncePerRun'
  <2> DEFINE c == [operator |-> o, tick |-> next_tick[o], view |-> v,
                   stamp |-> restarts[o]]
  <2>1. o \in Operator
    BY OperatorAssumption
  <2>2. /\ next_tick' = [next_tick EXCEPT ![o] = @ + 1]
        /\ wire' = wire \cup {c} /\ UNCHANGED restarts
    BY <1>1 DEF PeerSigns
  <2>3. /\ next_tick'[o] = next_tick[o] + 1 /\ next_tick[o] \in Nat
        /\ \A p \in Operator : /\ p # o => next_tick'[p] = next_tick[p]
                               /\ restarts[p] \in Nat
    BY <2>1, <2>2, LimitAssumption DEF TypeOK
  <2>4. \A d \in wire : d.operator \in Operator /\ d.tick \in Nat
                        /\ d.stamp \in Nat
    BY LimitAssumption DEF TypeOK, Certificate
  <2>5. ASSUME NEW d \in wire'
        PROVE  /\ d.operator \in Honest
               /\ d.stamp <= restarts'[d.operator]
               /\ d.stamp = restarts'[d.operator]
                      => d.tick < next_tick'[d.operator]
    <3>1. CASE d = c
      BY <2>1, <2>2, <2>3, <3>1
    <3>2. CASE d \in wire
      BY <2>2, <2>3, <2>4, <3>2 DEF SignedOncePerRun
    <3> QED
      BY <2>2, <2>5, <3>1, <3>2
  <2>6. \A d \in wire : ~(d.operator = c.operator /\ d.tick = c.tick
                               /\ d.stamp = c.stamp)
    BY <2>3, <2>4 DEF SignedOncePerRun
  <2>7. ASSUME NEW d \in wire', NEW e \in wire',
               d.operator = e.operator, d.tick = e.tick, d.stamp = e.stamp
        PROVE  d = e
    <3>1. d \in wire \cup {c} /\ e \in wire \cup {c}
      BY <2>2, <2>7
    <3> HIDE DEF c
    <3> QED
      BY <2>6, <2>7, <3>1 DEF SignedOncePerRun
  <2> QED
    BY <2>5, <2>7 DEF SignedOncePerRun
<1>2. ASSUME NEW o \in Honest, PeerRestarts(o)
      PROVE  SignedOncePerRun'
  <2>1. /\ restarts' = [restarts EXCEPT ![o] = @ + 1]
        /\ next_tick' = [next_tick EXCEPT ![o] = 0] /\ UNCHANGED wire
        /\ o \in Operator
    BY <1>2, OperatorAssumption DEF PeerRestarts
  <2>2. \A d \in wire : d.operator \in Operator /\ d.stamp \in Nat
    BY LimitAssumption DEF TypeOK, Certificate
  <2>3. \A p \in Operator : restarts[p] \in Nat
    BY LimitAssumption DEF TypeOK
  <2>4. /\ restarts'[o] = restarts[o] + 1
        /\ \A p \in Operator : p # o => restarts'[p] = restarts[p]
                                        /\ next_tick'[p] = next_tick[p]
    BY <2>1 DEF TypeOK
  <2> QED
    BY <2>1, <2>2, <2>3, <2>4 DEF SignedOncePerRun
<1>3. ASSUME NEW v \in View, SignCertificate(v)
      PROVE  SignedOncePerRun'
  <2>1. /\ next_tick' = [next_tick EXCEPT ![Self] = @ + 1]
        /\ UNCHANGED <<wire, restarts>>
    BY <1>3 DEF SignCertificate
  <2>2. \A p \in Honest : next_tick'[p] = next_tick[p]
    BY <2>1, OperatorAssumption DEF TypeOK
  <2> QED
    BY <2>1, <2>2 DEF SignedOncePerRun
<1>4. CASE UNCHANGED meshVars
  BY <1>4 DEF SignedOncePerRun, meshVars
<1>5. ASSUME NEW m \in Announcement, ApplyStake(m) PROVE UNCHANGED meshVars
  BY <1>5 DEF ApplyStake
<1>6. ASSUME NEW c \in Deliverable, CheckCertificate(c)
      PROVE  UNCHANGED meshVars
  BY <1>6 DEF CheckCertificate
<1>7. ASSUME NEW th \in Thread, Record(th)
      PROVE  UNCHANGED meshVars
  BY <1>7 DEF Record, EnterEntry, CountCertificate
<1>8. ASSUME CheckOwn PROVE UNCHANGED meshVars
  BY <1>8 DEF CheckOwn
<1>9. ASSUME NEW o \in Operator, Receive(o) PROVE UNCHANGED meshVars
  BY <1>9 DEF Receive
<1>10. ASSUME UNCHANGED vars PROVE UNCHANGED meshVars
  BY <1>10 DEF vars
<1> QED
  BY <1>1, <1>2, <1>3, <1>4, <1>5, <1>6, <1>7, <1>8, <1>9, <1>10
  DEF Next, Gossip, Synthesis, Mesh, Thread

(* No peer that runs the program was slashed.                              *)
HonestKeepTheirStake == slashed \cap Honest = {}

(* Without restarts a peer that runs the program is never slashed: the     *)
(* restart is the only reason for which the code takes an honest peer's    *)
(* stake.                                                                  *)
THEOREM WithoutRestartsNobodyHonestIsSlashed ==
    ASSUME MaxRestarts = 0
    PROVE  Spec => []HonestKeepTheirStake
<1>1. Init => SignedOncePerRun
  BY DEF Init, SignedOncePerRun
<1>2. TypeOK /\ SignedOncePerRun /\ [Next]_vars => SignedOncePerRun'
  BY SignedStep
<1>3. TypeOK /\ SignedOncePerRun /\ SlashedOnlyForResigning
         => HonestKeepTheirStake
  <2> SUFFICES ASSUME TypeOK, SignedOncePerRun, SlashedOnlyForResigning,
                      NEW o \in slashed \cap Honest
               PROVE  FALSE
    BY DEF HonestKeepTheirStake
  <2>1. PICK c \in wire, d \in wire : c # d /\ c.operator = o
                                       /\ d.operator = o /\ c.tick = d.tick
    BY DEF SlashedOnlyForResigning
  <2>2. c.stamp = 0 /\ d.stamp = 0
    BY LimitAssumption DEF TypeOK, Certificate
  <2> QED
    BY <2>1, <2>2 DEF SignedOncePerRun
<1> QED
  BY <1>1, <1>2, <1>3, OnlyResigningIsSlashed, CertificatesTypeCorrect, PTL
  DEF Spec

-----------------------------------------------------------------------------
(* A certificate whose operator was slashed since is worth nothing: the    *)
(* slash left no stake, and no announcement is applied to that operator    *)
(* before the certificate is counted.  Only a thread that had read the     *)
(* stake before still has a weight, and then the other thread slashed, so  *)
(* that the certificate is the node's own; after the slash at most one     *)
(* thread has such a certificate.                                          *)
HeldIsWorthless ==
    /\ \A th \in Thread : hand[th] # NoCert /\ hand[th].operator \in slashed =>
          /\ th \notin counting => stake[hand[th].operator] = 0
          /\ th \in counting /\ weight[th] # 0 =>
                hand[th].operator = Self /\ late = {<<Self, hand[th].tick>>}
    /\ Self \in slashed =>
          ~(/\ hand["gossip"] # NoCert /\ hand["gossip"].operator = Self
            /\ hand["synthesis"] # NoCert)
    /\ late # {} => Self \in slashed

(* The entries that are held when thread th slashes the operator of its    *)
(* certificate: that of the other thread, if both certificates are of Self.*)
LEMMA SlashHeld ==
    ASSUME TypeOK, HeldIsSigned, NEW th \in Thread, hand[th] # NoCert,
           th \notin counting
    PROVE  /\ \A u \in Thread : u # th /\ hand[u] # NoCert
                 /\ hand[u].operator = hand[th].operator
                    => hand[th].operator = Self
           /\ \A u \in counting : hand[u].operator = hand[th].operator =>
                 HeldEntries(hand[th].operator) = {<<Self, hand[u].tick>>}
           /\ (\A u \in counting : hand[u].operator # hand[th].operator)
                 => HeldEntries(hand[th].operator) = {}
<1>1. \A u \in Thread : u # th =>
         (u = "synthesis" /\ th = "gossip") \/ (u = "gossip" /\ th = "synthesis")
  BY DEF Thread
<1>2. \A u \in Thread : u # th /\ hand[u] # NoCert
         /\ hand[u].operator = hand[th].operator => hand[th].operator = Self
  BY <1>1 DEF HeldIsSigned
<1>3. ASSUME NEW u \in counting, hand[u].operator = hand[th].operator
      PROVE  HeldEntries(hand[th].operator) = {<<Self, hand[u].tick>>}
  <2>1. u # th /\ u \in Thread /\ hand[u] # NoCert
    BY <1>3 DEF TypeOK
  <2>2. hand[th].operator = Self
    BY <1>2, <1>3, <2>1
  <2>3. \A w \in counting : w = u
    BY <1>1, <2>1 DEF TypeOK
  <2> QED
    BY <1>3, <2>2, <2>3 DEF HeldEntries
<1>4. (\A u \in counting : hand[u].operator # hand[th].operator)
         => HeldEntries(hand[th].operator) = {}
  BY DEF HeldEntries
<1> QED
  BY <1>2, <1>3, <1>4

(* Every step keeps a slashed operator's certificates worthless.           *)
LEMMA WorthlessStep ==
    ASSUME TypeOK, HeldIsSigned, HeldIsWorthless, [Next]_vars
    PROVE  HeldIsWorthless'
<1>1. ASSUME NEW m \in Announcement, ApplyStake(m)
      PROVE  HeldIsWorthless'
  <2>1. m.operator # Self
    BY OperatorAssumption DEF Announcement
  <2>2. /\ UNCHANGED <<hand, slashed, counting, weight, late>>
        /\ hand["gossip"] = NoCert
        /\ stake' = stake \/ stake' = [stake EXCEPT ![m.operator] = m.amount]
    BY <1>1 DEF ApplyStake, Relock, entryVars
  <2>3. hand["synthesis"] # NoCert => /\ hand["synthesis"].operator = Self
                                      /\ stake'[Self] = stake[Self]
    BY <2>1, <2>2, OperatorAssumption DEF HeldIsSigned, TypeOK
  <2> QED
    BY <2>2, <2>3 DEF HeldIsWorthless, Thread
<1>2. ASSUME NEW c \in Deliverable, CheckCertificate(c)
      PROVE  HeldIsWorthless'
  <2>1. /\ hand["gossip"] = NoCert /\ c.operator \notin slashed
        /\ hand' = [hand EXCEPT !["gossip"] = c]
        /\ UNCHANGED <<stake, slashed, counting, weight, late>>
    BY <1>2 DEF CheckCertificate, IsStaked, stakeVars, entryVars
  <2>2. /\ hand'["gossip"] = c /\ hand'["synthesis"] = hand["synthesis"]
    BY <2>1 DEF TypeOK, Thread
  <2> QED
    BY <2>1, <2>2 DEF HeldIsWorthless, Thread
<1>3. ASSUME NEW th \in Thread, EnterEntry(th)
      PROVE  HeldIsWorthless'
  <2> DEFINE o == hand[th].operator
  <2>1. hand[th] # NoCert /\ th \notin counting /\ o \in Operator
    BY <1>3, EnterEffect, HeldType
  <2>2. CASE /\ hand' = [hand EXCEPT ![th] = NoCert]
             /\ UNCHANGED <<counting, weight, stake, slashed, late>>
    BY <2>2 DEF HeldIsWorthless, TypeOK, Thread
  <2>3. CASE /\ counting' = counting \cup {th}
             /\ weight' = [weight EXCEPT ![th] = stake[o]]
             /\ UNCHANGED <<hand, stake, slashed, late>>
    <3>1. o \in slashed => weight'[th] = 0
      BY <2>1, <2>3 DEF HeldIsWorthless, TypeOK
    <3>2. \A u \in Thread : u # th => weight'[u] = weight[u]
      BY <2>3 DEF TypeOK
    <3> QED
      BY <2>3, <3>1, <3>2 DEF HeldIsWorthless
  <2>4. CASE /\ hand' = [hand EXCEPT ![th] = NoCert]
             /\ UNCHANGED <<counting, weight>> /\ Slash(o)
    <3>1. /\ stake' = [stake EXCEPT ![o] = 0] /\ slashed' = slashed \cup {o}
          /\ late' = late \cup HeldEntries(o) /\ hand'[th] = NoCert
          /\ \A u \in Thread : u # th => hand'[u] = hand[u]
      BY <2>4 DEF Slash, TypeOK
    <3>2. stake'[o] = 0 /\ \A p \in Operator : p # o => stake'[p] = stake[p]
      BY <2>1, <3>1 DEF TypeOK
    <3>3. \A u \in Thread : hand[u] # NoCert => hand[u].operator \in Operator
      BY HeldType
    <3>4. CASE \E u \in counting : hand[u].operator = o
      <4>1. PICK u \in counting : hand[u].operator = o
        BY <3>4
      <4>2. u \in Thread /\ u # th /\ hand[u] # NoCert
        BY <2>1, <4>1 DEF TypeOK
      <4>3. o = Self /\ HeldEntries(o) = {<<Self, hand[u].tick>>}
        BY <2>1, <4>1, <4>2, SlashHeld
      <4>4. Self \notin slashed
        <5>1. \/ u = "synthesis" /\ th = "gossip"
              \/ u = "gossip" /\ th = "synthesis"
          BY <4>2 DEF Thread
        <5> QED
          BY <2>1, <4>1, <4>2, <4>3, <5>1 DEF HeldIsWorthless
      <4>5. late' = {<<Self, hand[u].tick>>}
        BY <3>1, <4>3, <4>4 DEF HeldIsWorthless
      <4>6. \A w \in Thread : w = u \/ w = th
        BY <4>2 DEF Thread
      <4> QED
        BY <2>4, <3>1, <3>2, <4>1, <4>3, <4>5, <4>6 DEF HeldIsWorthless, Thread
    <3>5. CASE \A u \in counting : hand[u].operator # o
      <4>1. late' = late
        BY <2>1, <3>1, <3>5, SlashHeld
      <4>2. ~(/\ hand'["gossip"] # NoCert /\ hand'["gossip"].operator = Self
              /\ hand'["synthesis"] # NoCert)
        BY <3>1 DEF Thread
      <4>3. ASSUME NEW u \in Thread, hand'[u] # NoCert,
                   hand'[u].operator \in slashed'
            PROVE  /\ u \notin counting' => stake'[hand'[u].operator] = 0
                   /\ u \in counting' /\ weight'[u] # 0 =>
                         /\ hand'[u].operator = Self
                         /\ late' = {<<Self, hand'[u].tick>>}
        <5>1. u # th /\ hand'[u] = hand[u] /\ hand[u].operator \in Operator
          BY <3>1, <3>3, <4>3
        <5>2. CASE hand[u].operator = o
          BY <2>4, <3>2, <3>5, <5>1, <5>2
        <5>3. CASE hand[u].operator # o
          BY <2>4, <3>1, <3>2, <4>1, <4>3, <5>1, <5>3 DEF HeldIsWorthless
        <5> QED
          BY <5>2, <5>3
      <4>4. late' # {} => Self \in slashed'
        BY <3>1, <4>1 DEF HeldIsWorthless
      <4> QED
        BY <4>2, <4>3, <4>4 DEF HeldIsWorthless
    <3> QED
      BY <3>4, <3>5
  <2> QED
    BY <1>3, <2>2, <2>3, <2>4, EnterEffect DEF stakeVars
<1>c. ASSUME NEW th \in Thread, CountCertificate(th)
      PROVE  HeldIsWorthless'
  <2>1. /\ hand' = [hand EXCEPT ![th] = NoCert] /\ counting' = counting \ {th}
        /\ weight' = [weight EXCEPT ![th] = 0]
        /\ UNCHANGED <<stake, slashed, late>>
    BY <1>c DEF CountCertificate, stakeVars
  <2>2. /\ hand'[th] = NoCert
        /\ \A u \in Thread : u # th => hand'[u] = hand[u] /\ weight'[u] = weight[u]
    BY <2>1 DEF TypeOK
  <2> QED
    BY <2>1, <2>2 DEF HeldIsWorthless, Thread
<1>5. ASSUME CheckOwn PROVE HeldIsWorthless'
  <2>1. /\ own # NoCert /\ own.operator = Self
        /\ UNCHANGED <<stake, slashed, counting, weight, late>>
        /\ \/ hand' = hand
           \/ Self \notin slashed /\ hand' = [hand EXCEPT !["synthesis"] = own]
    BY <1>5 DEF CheckOwn, IsStaked, HeldIsSigned, stakeVars, entryVars
  <2>2. CASE hand' = hand
    BY <2>1, <2>2 DEF HeldIsWorthless
  <2>3. CASE Self \notin slashed /\ hand' = [hand EXCEPT !["synthesis"] = own]
    <3>1. hand'["synthesis"] = own /\ hand'["gossip"] = hand["gossip"]
      BY <2>3 DEF TypeOK, Thread
    <3> QED
      BY <2>1, <2>3, <3>1 DEF HeldIsWorthless, Thread
  <2> QED
    BY <2>1, <2>2, <2>3
<1>6. CASE UNCHANGED <<stake, slashed, hand, counting, weight, late>>
  BY <1>6 DEF HeldIsWorthless
<1>7. \/ UNCHANGED <<stake, slashed, hand, counting, weight, late>>
      \/ \E m \in Announcement : ApplyStake(m)
      \/ \E c \in Deliverable : CheckCertificate(c)
      \/ \E th \in Thread : EnterEntry(th) \/ CountCertificate(th)
      \/ CheckOwn
  BY DEF Next, Gossip, Synthesis, Mesh, Thread, Record, SignCertificate,
         PeerSigns, PeerRestarts, Receive, vars, stakeVars, entryVars
<1> QED
  BY <1>1, <1>2, <1>3, <1>5, <1>6, <1>7, <1>c

(* What a step of the specification may not do, given the invariant.       *)
LEMMA NoWeightStep ==
    ASSUME TypeOK, HeldIsSigned, HeldIsWorthless, [Next]_vars,
           NEW o \in slashed, NEW t \in 0..MaxTick,
           <<o, t>> \in DOMAIN book' \ DOMAIN book
    PROVE  \/ \A k \in DOMAIN tally' : tally'[k] = Get(tally, k)
           \/ o = Self /\ late = {<<o, t>>}
<1>1. PICK th \in Thread : CountCertificate(th)
  <2>1. book' # book
    OBVIOUS
  <2>2. ASSUME ~\E th \in Thread : CountCertificate(th)
        PROVE  book' = book
    BY <2>2 DEF Next, Gossip, Synthesis, Mesh, Thread, Record, ApplyStake,
       CheckCertificate, EnterEntry, SignCertificate, CheckOwn, PeerSigns,
       PeerRestarts, Receive, vars, trackerVars
  <2> QED
    BY <2>1, <2>2
<1> DEFINE c == hand[th]
           entry == <<c.operator, c.tick>>
           group == <<c.tick, c.view>>
<1>2. /\ th \in counting /\ c # NoCert
      /\ book' = Put(book, entry, c)
      /\ tally' = Put(tally, group, Get(tally, group) + weight[th])
  BY <1>1 DEF CountCertificate, TypeOK
<1>3. <<o, t>> = entry
  BY <1>2, Zenon DEF Put
<1>4. CASE weight[th] # 0
  BY <1>2, <1>3, <1>4 DEF HeldIsWorthless
<1>5. CASE weight[th] = 0
  <2>1. Get(tally, group) \in Nat
    BY GetType DEF TypeOK
  <2>2. tally' = Put(tally, group, Get(tally, group))
    BY <1>2, <1>5, <2>1
  <2> QED
    BY <2>2, Zenon DEF Put, Get
<1> QED
  BY <1>4, <1>5

(* A slash takes effect for every certificate that is still to be counted, *)
(* of whatever operator and in whatever order, except for at most one of   *)
(* the node's own operator: the one for which the other thread had read    *)
(* the stake when the slash came.                                          *)
THEOREM SlashedStakeHardlyCounts == Spec => SlashedAddsNoWeight
<1>1. Init => HeldIsWorthless
  BY DEF Init, HeldIsWorthless, Thread
<1>2. TypeOK /\ HeldIsSigned /\ HeldIsWorthless /\ [Next]_vars
         => HeldIsWorthless'
  BY WorthlessStep
<1>3. TypeOK /\ HeldIsSigned /\ SlashedOnlyForResigning /\ [Next]_vars
         => HeldIsSigned' /\ SlashedOnlyForResigning'
  BY HeldStep
<1>4. TypeOK /\ HeldIsSigned /\ HeldIsWorthless /\ [Next]_vars
         => [\A o \in slashed, t \in 0..MaxTick :
                <<o, t>> \in DOMAIN book' \ DOMAIN book =>
                    \/ \A k \in DOMAIN tally' : tally'[k] = Get(tally, k)
                    \/ o = Self /\ late = {<<o, t>>}]_vars
  BY NoWeightStep
<1> QED
  BY <1>1, <1>2, <1>3, <1>4, HeldInit, CertificatesTypeCorrect, PTL
  DEF Spec, SlashedAddsNoWeight

-----------------------------------------------------------------------------
(* Writing one operator's amount changes the total by the difference.      *)
LEMMA AmountChange ==
    ASSUME NEW f \in [Operator -> Nat], NEW o \in Operator, NEW v \in Nat
    PROVE  /\ SumFunction(f) \in Nat
           /\ SumFunction([f EXCEPT ![o] = v]) = (SumFunction(f) - f[o]) + v
<1>1. IsFiniteSet(Operator)
  BY OperatorAssumption
<1>2. PICK g : g = [f EXCEPT ![o] = v]
  OBVIOUS
<1>3. SumFunction(f) \in Nat /\ SumFunction(g) = (SumFunction(f) - f[o]) + v
  BY <1>1, <1>2, SumExcept
<1> QED
  BY <1>2, <1>3

(* Every step keeps the books of stake, balances and burned units.         *)
LEMMA StakeConservedStep ==
    ASSUME TypeOK, StakeConserved, [Next]_vars
    PROVE  StakeConserved'
<1> DEFINE locked == SumFunction(stake)
           free == SumFunction(liquid)
<1>1. ASSUME UNCHANGED <<stake, liquid, burned, received>>
      PROVE  StakeConserved'
  BY <1>1 DEF StakeConserved
<1>2. ASSUME NEW m \in Announcement, ApplyStake(m)
      PROVE  StakeConserved'
  <2> DEFINE o == m.operator
  <2>1. o \in Operator /\ m.amount \in Nat /\ burned' = burned /\ received' = received
    BY <1>2, AnnouncementType DEF ApplyStake
  <2>2. CASE stake' = stake /\ liquid' = liquid
    BY <1>1, <2>1, <2>2
  <2>3. CASE /\ m.amount - stake[o] <= liquid[o]
             /\ liquid' = [liquid EXCEPT ![o] = @ - (m.amount - stake[o])]
             /\ stake' = [stake EXCEPT ![o] = m.amount]
    <3> DEFINE rest == liquid[o] - (m.amount - stake[o])
    <3>1. stake[o] \in Nat /\ liquid[o] \in Nat /\ rest \in Nat
      BY <2>1, <2>3 DEF TypeOK
    <3>2. liquid' = [liquid EXCEPT ![o] = rest]
      BY <2>3
    <3> HIDE DEF rest, o
    <3>3. /\ locked \in Nat /\ free \in Nat
          /\ SumFunction(stake') = (locked - stake[o]) + m.amount
          /\ SumFunction(liquid') = (free - liquid[o]) + rest
      <4>1. /\ stake \in [Operator -> Nat] /\ liquid \in [Operator -> Nat]
            /\ stake' = [stake EXCEPT ![o] = m.amount]
        BY <2>3 DEF TypeOK
      <4>2. /\ locked \in Nat
            /\ SumFunction([stake EXCEPT ![o] = m.amount])
                  = (locked - stake[o]) + m.amount
        BY <2>1, <4>1, AmountChange
      <4>3. /\ free \in Nat
            /\ SumFunction([liquid EXCEPT ![o] = rest])
                  = (free - liquid[o]) + rest
        BY <2>1, <3>1, <4>1, AmountChange
      <4> QED
        BY <3>2, <4>1, <4>2, <4>3
    <3>4. burned \in Nat /\ rest = liquid[o] - (m.amount - stake[o])
      BY DEF TypeOK, rest
    <3> HIDE DEF locked, free
    <3>5. SumFunction(stake') + SumFunction(liquid') + burned
             = locked + free + burned
      BY <2>1, <3>1, <3>3, <3>4
    <3> QED
      BY <2>1, <3>5 DEF StakeConserved, locked, free
  <2>4. \/ stake' = stake /\ liquid' = liquid
        \/ /\ m.amount - stake[o] <= liquid[o]
           /\ liquid' = [liquid EXCEPT ![o] = @ - (m.amount - stake[o])]
           /\ stake' = [stake EXCEPT ![o] = m.amount]
    <3>1. stake[o] \in Nat /\ liquid[o] \in Nat
      BY <2>1 DEF TypeOK
    <3> QED
      BY <1>2, <2>1, <3>1 DEF ApplyStake, Relock
  <2> QED
    BY <2>2, <2>3, <2>4
<1>3. ASSUME NEW th \in Thread, EnterEntry(th)
      PROVE  StakeConserved'
  <2> DEFINE o == hand[th].operator
  <2>1. o \in Operator /\ received' = received
    BY <1>3, EnterEffect, HeldType
  <2>2. CASE UNCHANGED stakeVars
    BY <1>1, <2>1, <2>2 DEF stakeVars
  <2>3. CASE Slash(o)
    <3>1. /\ burned' = burned + stake[o] /\ stake' = [stake EXCEPT ![o] = 0]
          /\ liquid' = liquid /\ burned \in Nat /\ stake[o] \in Nat
      BY <2>1, <2>3 DEF Slash, TypeOK
    <3> HIDE DEF o
    <3>2. /\ locked \in Nat /\ free \in Nat
          /\ SumFunction(stake') = (locked - stake[o]) + 0
      BY <2>1, <3>1, AmountChange DEF TypeOK
    <3> HIDE DEF locked, free
    <3>3. SumFunction(stake') + free + burned' = locked + free + burned
      BY <3>1, <3>2
    <3> QED
      BY <2>1, <3>1, <3>3 DEF StakeConserved, locked, free
  <2> QED
    BY <1>3, <2>2, <2>3, EnterEffect
<1>4. ASSUME NEW o \in Operator, Receive(o)
      PROVE  StakeConserved'
  <2>1. /\ liquid' = [liquid EXCEPT ![o] = liquid[o] + 1]
        /\ received' = received + 1 /\ UNCHANGED <<stake, burned>>
        /\ liquid[o] \in Nat /\ liquid[o] + 1 \in Nat
        /\ burned \in Nat /\ received \in Nat
    BY <1>4, LimitAssumption DEF Receive, TypeOK
  <2>2. /\ locked \in Nat /\ free \in Nat
        /\ SumFunction(liquid') = (free - liquid[o]) + (liquid[o] + 1)
    BY <2>1, AmountChange DEF TypeOK
  <2>3. HonestStake[Self] \in Nat /\ SumFunction(Liquid) \in Nat
    BY OperatorAssumption, AmountAssumption, AmountChange
  <2> HIDE DEF locked, free
  <2>4. locked + SumFunction(liquid') + burned = locked + free + burned + 1
    BY <2>1, <2>2
  <2> QED
    BY <2>1, <2>2, <2>3, <2>4 DEF StakeConserved, locked, free
<1>5. \/ UNCHANGED <<stake, liquid, burned, received>>
      \/ \E m \in Announcement : ApplyStake(m)
      \/ \E th \in Thread : EnterEntry(th)
      \/ \E o \in Operator : Receive(o)
  BY DEF Next, Gossip, Synthesis, Mesh, Thread, Record, CheckCertificate,
         CountCertificate,
         SignCertificate, CheckOwn, PeerSigns, PeerRestarts, vars, stakeVars
<1> QED
  BY <1>1, <1>2, <1>3, <1>4, <1>5

(* Staking, withdrawing, slashing and re-staking lose no value and create  *)
(* none, for any operators, amounts and order of announcements.            *)
THEOREM StakeIsConserved == Spec => []StakeConserved
<1>1. Init => StakeConserved
  <2> SUFFICES ASSUME Init PROVE StakeConserved
    OBVIOUS
  <2> DEFINE zero == [o \in Operator |-> 0]
  <2>1. /\ zero \in [Operator -> Nat] /\ DOMAIN zero = Operator
        /\ \A o \in Operator : zero[o] \in Nat /\ zero[o] = 0
    OBVIOUS
  <2>2. stake = [zero EXCEPT ![Self] = HonestStake[Self]]
    BY OperatorAssumption DEF Init
  <2> HIDE DEF zero
  <2>3. SumFunction(zero) = 0
    BY <2>1, OperatorAssumption, SumNat DEF SumFunction
  <2>4. HonestStake[Self] \in Nat
    BY AmountAssumption
  <2>5. SumFunction(stake) = (0 - 0) + HonestStake[Self]
    <3>1. SumFunction([zero EXCEPT ![Self] = HonestStake[Self]])
             = (SumFunction(zero) - zero[Self]) + HonestStake[Self]
      BY <2>1, <2>4, OperatorAssumption, AmountChange
    <3> QED
      BY <2>1, <2>2, <2>3, <3>1, OperatorAssumption
  <2>6. liquid = Liquid /\ burned = 0 /\ received = 0
    BY DEF Init
  <2>7. SumFunction(Liquid) \in Nat
    BY OperatorAssumption, AmountAssumption, AmountChange
  <2> QED
    BY <2>4, <2>5, <2>6, <2>7 DEF StakeConserved
<1>2. TypeOK /\ StakeConserved /\ [Next]_vars => StakeConserved'
  BY StakeConservedStep
<1> QED
  BY <1>1, <1>2, CertificatesTypeCorrect, PTL DEF Spec

-----------------------------------------------------------------------------
(* Quorums *)

(* The operators whose recorded certificate for tick t reports view v.     *)
Voters(t, v) == {o \in Operator : /\ <<o, t>> \in DOMAIN book
                                  /\ book[<<o, t>>].view = v}

(* Until a stake shrinks nobody is slashed, a certificate that passed the  *)
(* check belongs to an operator that still has the minimum, what was read  *)
(* of its stake is no more than it has, and a view's tally is covered by   *)
(* the stake that its voters have now.                                     *)
CountedOnce ==
    ~shrank =>
        /\ slashed = {}
        /\ \A th \in Thread :
              hand[th] # NoCert => stake[hand[th].operator] >= MinStake
        /\ \A th \in counting : /\ weight[th] >= MinStake
                                /\ weight[th] <= stake[hand[th].operator]
        /\ \A t \in 0..MaxTick, v \in View : <<t, v>> \in DOMAIN tally =>
              /\ MinStake <= tally[<<t, v>>]
              /\ tally[<<t, v>>] <= SumFunctionOnSet(stake, Voters(t, v))

(* An entry that a thread holds is vacant, and held by that thread only.   *)
EntriesHeld ==
    /\ \A th \in counting : <<hand[th].operator, hand[th].tick>> \notin DOMAIN book
    /\ \A th, u \in counting :
          hand[th].operator = hand[u].operator /\ hand[th].tick = hand[u].tick
             => th = u

(* Every step respects the locks of the entries.                           *)
LEMMA EntriesStep ==
    ASSUME TypeOK, HeldIsSigned, EntriesHeld, [Next]_vars
    PROVE  EntriesHeld'
<1>1. ASSUME NEW th \in Thread, EnterEntry(th) PROVE EntriesHeld'
  <2>1. th \notin counting /\ EntryFree(th) /\ book' = book
    BY <1>1, EnterEffect
  <2>2. CASE counting' = counting /\ hand' = [hand EXCEPT ![th] = NoCert]
    <3>1. \A u \in counting : hand'[u] = hand[u]
      BY <2>1, <2>2 DEF TypeOK
    <3> QED
      BY <2>1, <2>2, <3>1 DEF EntriesHeld
  <2>3. CASE /\ <<hand[th].operator, hand[th].tick>> \notin DOMAIN book
             /\ counting' = counting \cup {th} /\ hand' = hand
    BY <2>1, <2>3 DEF EntriesHeld, EntryFree
  <2> QED
    BY <1>1, <2>2, <2>3, EnterEffect
<1>2. ASSUME NEW th \in Thread, CountCertificate(th) PROVE EntriesHeld'
  <2> DEFINE c == hand[th]
  <2>1. /\ th \in counting /\ counting' = counting \ {th}
        /\ hand' = [hand EXCEPT ![th] = NoCert]
        /\ book' = Put(book, <<c.operator, c.tick>>, c)
    BY <1>2 DEF CountCertificate
  <2>2. \A u \in counting' : hand'[u] = hand[u] /\ u \in counting /\ u # th
    BY <2>1 DEF TypeOK
  <2>3. DOMAIN book' = DOMAIN book \cup {<<c.operator, c.tick>>}
    BY <2>1, Zenon DEF Put
  <2>4. ASSUME NEW u \in counting'
        PROVE  <<hand'[u].operator, hand'[u].tick>> \notin DOMAIN book'
    BY <2>1, <2>2, <2>3, <2>4 DEF EntriesHeld
  <2> QED
    BY <2>2, <2>4 DEF EntriesHeld
<1>3. ASSUME NEW c \in Deliverable, CheckCertificate(c) PROVE EntriesHeld'
  <2>1. /\ hand["gossip"] = NoCert /\ hand' = [hand EXCEPT !["gossip"] = c]
        /\ UNCHANGED <<counting, book>>
    BY <1>3 DEF CheckCertificate, entryVars, trackerVars
  <2>2. \A u \in counting : hand'[u] = hand[u]
    BY <2>1 DEF TypeOK
  <2> QED
    BY <2>1, <2>2 DEF EntriesHeld
<1>4. ASSUME CheckOwn PROVE EntriesHeld'
  <2>1. /\ UNCHANGED <<counting, book>> /\ hand["synthesis"] = NoCert
        /\ hand' = hand \/ hand' = [hand EXCEPT !["synthesis"] = own]
    BY <1>4 DEF CheckOwn, HeldIsSigned, entryVars, trackerVars
  <2>2. \A u \in counting : hand'[u] = hand[u]
    BY <2>1 DEF TypeOK
  <2> QED
    BY <2>1, <2>2 DEF EntriesHeld
<1>5. CASE UNCHANGED <<hand, counting, book>>
  BY <1>5 DEF EntriesHeld
<1>6. \/ UNCHANGED <<hand, counting, book>>
      \/ \E c \in Deliverable : CheckCertificate(c)
      \/ \E th \in Thread : EnterEntry(th) \/ CountCertificate(th)
      \/ CheckOwn
  BY DEF Next, Gossip, Synthesis, Mesh, Thread, Record, ApplyStake,
         SignCertificate, PeerSigns, PeerRestarts, Receive, vars, trackerVars,
         entryVars
<1> QED
  BY <1>1, <1>2, <1>3, <1>4, <1>5, <1>6

(* Certificates that are not recorded and stakes that only grow leave the  *)
(* tallies covered.                                                        *)
LEMMA CoveredStays ==
    ASSUME TypeOK, TypeOK', UNCHANGED trackerVars,
           \A o \in Operator : stake[o] <= stake'[o],
           NEW t \in 0..MaxTick, NEW v \in View, <<t, v>> \in DOMAIN tally,
           tally[<<t, v>>] <= SumFunctionOnSet(stake, Voters(t, v))
    PROVE  tally'[<<t, v>>] <= SumFunctionOnSet(stake', Voters(t, v)')
<1> DEFINE S == Voters(t, v)
<1>1. S \subseteq Operator /\ Voters(t, v)' = S /\ tally' = tally
  BY DEF Voters, trackerVars
<1>2. IsFiniteSet(S)
  BY <1>1, OperatorAssumption, FS_Subset
<1>3. /\ \A o \in S : stake[o] \in Nat /\ stake[o] <= stake'[o]
      /\ \A o \in S : stake'[o] \in Nat
  BY <1>1 DEF TypeOK
<1>4. tally[<<t, v>>] \in Nat
  BY DEF TypeOK, IsMap
<1> HIDE DEF S
<1>5. SumFunctionOnSet(stake, S) <= SumFunctionOnSet(stake', S)
  BY <1>2, <1>3, SumGrows
<1>6. SumFunctionOnSet(stake, S) \in Nat /\ SumFunctionOnSet(stake', S) \in Nat
  BY <1>2, <1>3, SumNat
<1>7. tally[<<t, v>>] <= SumFunctionOnSet(stake, S)
  BY DEF S
<1>8. tally[<<t, v>>] <= SumFunctionOnSet(stake', S)
  BY <1>4, <1>5, <1>6, <1>7
<1> QED
  BY <1>1, <1>8

(* A counted certificate adds no more than its operator's stake to one     *)
(* view's tally, and the operator to that view's voters.                   *)
LEMMA CountCounts ==
    ASSUME TypeOK, CountedOnce, EntriesHeld, ~shrank, NEW th \in Thread,
           CountCertificate(th)
    PROVE  CountedOnce'
<1> DEFINE c == hand[th]
           o == c.operator
           w == weight[th]
           entry == <<o, c.tick>>
           group == <<c.tick, c.view>>
<1>1. /\ th \in counting /\ c # NoCert /\ c \in Certificate
      /\ hand' = [hand EXCEPT ![th] = NoCert]
      /\ counting' = counting \ {th} /\ weight' = [weight EXCEPT ![th] = 0]
      /\ book' = Put(book, entry, c)
      /\ tally' = Put(tally, group, Get(tally, group) + w)
      /\ UNCHANGED <<stake, slashed, shrank>>
  BY DEF CountCertificate, TypeOK, stakeVars
<1>e. entry \notin DOMAIN book
  BY <1>1 DEF EntriesHeld
<1>2. /\ o \in Operator /\ c.tick \in 0..MaxTick /\ c.view \in View
      /\ stake[o] \in Nat /\ w \in Nat /\ MinStake \in Nat
      /\ w >= MinStake /\ w <= stake[o]
  BY <1>1, AmountAssumption DEF TypeOK, Certificate, CountedOnce
<1>3. ASSUME NEW t \in 0..MaxTick, NEW v \in View, <<t, v>> \in DOMAIN tally'
      PROVE  /\ MinStake <= tally'[<<t, v>>]
             /\ tally'[<<t, v>>] <= SumFunctionOnSet(stake', Voters(t, v)')
  <2> DEFINE S == Voters(t, v)
  <2>1. S \subseteq Operator /\ IsFiniteSet(S)
    BY OperatorAssumption, FS_Subset DEF Voters
  <2>2. \A p \in S : stake[p] \in Nat
    BY <2>1 DEF TypeOK
  <2>3. SumFunctionOnSet(stake, S) \in Nat
    BY <2>1, <2>2, SumNat
  <2>4. CASE <<t, v>> = group
    <3>1. o \notin S /\ t = c.tick /\ v = c.view
      BY <1>e, <2>4 DEF Voters
    <3>2. Voters(t, v)' = S \cup {o}
      <4>1. \A p \in Operator :
               /\ <<p, t>> \in DOMAIN book' <=> <<p, t>> \in DOMAIN book \/ p = o
               /\ p # o /\ <<p, t>> \in DOMAIN book
                     => book'[<<p, t>>] = book[<<p, t>>]
               /\ p = o => book'[<<p, t>>] = c
        BY <1>1, <3>1, Zenon DEF Put
      <4> QED
        BY <1>2, <3>1, <4>1 DEF Voters
    <3>3. tally'[<<t, v>>] = Get(tally, group) + w
      BY <1>1, <2>4, Zenon DEF Put
    <3>4. Get(tally, group) \in Nat
      BY GetType DEF TypeOK
    <3>5. Get(tally, group) <= SumFunctionOnSet(stake, S)
      <4>1. CASE group \in DOMAIN tally
        BY <2>4, <4>1 DEF CountedOnce, Get
      <4>2. CASE group \notin DOMAIN tally
        BY <2>3, <4>2 DEF Get
      <4> QED
        BY <4>1, <4>2
    <3> HIDE DEF S, o, group, w
    <3>6. \A p \in S \cup {o} : stake[p] \in Int
      BY <1>2, <2>2
    <3>7. SumFunctionOnSet(stake, S \cup {o}) = stake[o] + SumFunctionOnSet(stake, S)
      BY <2>1, <3>1, <3>6, SumInsert
    <3>8. stake' = stake
      BY <1>1
    <3> QED
      BY <1>2, <2>3, <3>2, <3>3, <3>4, <3>5, <3>7, <3>8
  <2>5. CASE <<t, v>> # group
    <3>1. <<t, v>> \in DOMAIN tally /\ tally'[<<t, v>>] = tally[<<t, v>>]
      BY <1>1, <1>3, <2>5, Zenon DEF Put
    <3>2. Voters(t, v)' = S
      <4>1. \A p \in Operator : <<p, t>> # entry =>
               /\ <<p, t>> \in DOMAIN book' <=> <<p, t>> \in DOMAIN book
               /\ <<p, t>> \in DOMAIN book => book'[<<p, t>>] = book[<<p, t>>]
        BY <1>1, Zenon DEF Put
      <4>2. entry \notin DOMAIN book /\ book'[entry] = c
        BY <1>1, <1>e, Zenon DEF Put
      <4>3. \A p \in Operator : <<p, t>> = entry => t = c.tick /\ v # c.view
        BY <2>5
      <4> QED
        BY <4>1, <4>2, <4>3 DEF Voters
    <3> QED
      BY <1>1, <3>1, <3>2 DEF CountedOnce
  <2> QED
    BY <2>4, <2>5
<1>4. /\ \A u \in Thread :
            hand'[u] # NoCert => stake'[hand'[u].operator] >= MinStake
      /\ \A u \in counting' : /\ weight'[u] >= MinStake
                              /\ weight'[u] <= stake'[hand'[u].operator]
  BY <1>1 DEF CountedOnce, TypeOK
<1>5. slashed' = {}
  BY <1>1 DEF CountedOnce
<1> QED
  BY <1>3, <1>4, <1>5 DEF CountedOnce

(* Every step counts each operator at most once per tick, with no more     *)
(* than it has.                                                            *)
LEMMA CountedStep ==
    ASSUME TypeOK, TypeOK', HeldIsSigned, EntriesHeld, CountedOnce, [Next]_vars
    PROVE  CountedOnce'
<1> SUFFICES ASSUME ~shrank' PROVE CountedOnce'
  BY DEF CountedOnce
<1>1. ASSUME NEW m \in Announcement, ApplyStake(m)
      PROVE  CountedOnce'
  <2>1. /\ m.operator \in Operator /\ m.operator # Self /\ m.amount \in Nat
    BY AnnouncementType, OperatorAssumption DEF Announcement
  <2>2. /\ hand["gossip"] = NoCert
        /\ UNCHANGED <<slashed, hand, counting, weight>> /\ UNCHANGED trackerVars
        /\ \/ stake' = stake /\ shrank' = shrank
           \/ /\ stake' = [stake EXCEPT ![m.operator] = m.amount]
              /\ shrank' = (shrank \/ m.amount < stake[m.operator])
    BY <1>1 DEF ApplyStake, Relock, entryVars
  <2>3. ~shrank /\ \A o \in Operator : stake[o] <= stake'[o]
    <3>1. CASE stake' = stake /\ shrank' = shrank
      BY <3>1 DEF TypeOK
    <3>2. CASE /\ stake' = [stake EXCEPT ![m.operator] = m.amount]
               /\ shrank' = (shrank \/ m.amount < stake[m.operator])
      <4>1. ~shrank /\ ~(m.amount < stake[m.operator])
        BY <3>2, Zenon
      <4> QED
        BY <2>1, <3>2, <4>1 DEF TypeOK
    <3> QED
      BY <2>2, <3>1, <3>2
  <2>4. \A th \in Thread : hand[th] # NoCert => hand[th].operator \in Operator
    BY DEF TypeOK, Certificate
  <2>5. \A th \in Thread :
           hand'[th] # NoCert => stake'[hand'[th].operator] >= MinStake
    <3> SUFFICES ASSUME NEW th \in Thread, hand[th] # NoCert
                 PROVE  stake'[hand[th].operator] >= MinStake
      BY <2>2
    <3> DEFINE o == hand[th].operator
    <3>1. o \in Operator /\ stake[o] >= MinStake /\ stake[o] <= stake'[o]
      BY <2>3, <2>4 DEF CountedOnce
    <3>2. stake[o] \in Nat /\ stake'[o] \in Nat /\ MinStake \in Nat
      BY <3>1, AmountAssumption DEF TypeOK
    <3> QED
      BY <3>1, <3>2
  <2>7. ASSUME NEW th \in counting'
        PROVE  /\ weight'[th] >= MinStake
               /\ weight'[th] <= stake'[hand'[th].operator]
    <3> DEFINE o == hand[th].operator
    <3>1. th \in counting /\ th \in Thread /\ hand[th] # NoCert
      BY <2>2, <2>7 DEF TypeOK
    <3>2. o \in Operator /\ weight[th] <= stake[o] /\ stake[o] <= stake'[o]
      BY <2>3, <2>4, <3>1 DEF CountedOnce
    <3>3. /\ stake[o] \in Nat /\ stake'[o] \in Nat /\ weight[th] \in Nat
          /\ weight'[th] = weight[th] /\ weight[th] >= MinStake /\ hand' = hand
      BY <2>2, <2>3, <3>1, <3>2 DEF TypeOK, CountedOnce
    <3> HIDE DEF o
    <3>4. weight[th] <= stake'[o]
      BY <3>2, <3>3
    <3> QED
      BY <3>3, <3>4 DEF o
  <2>6. \A t \in 0..MaxTick, v \in View : <<t, v>> \in DOMAIN tally' =>
           /\ MinStake <= tally'[<<t, v>>]
           /\ tally'[<<t, v>>] <= SumFunctionOnSet(stake', Voters(t, v)')
    BY <2>2, <2>3, CoveredStays DEF CountedOnce, trackerVars
  <2> QED
    BY <2>2, <2>3, <2>5, <2>6, <2>7 DEF CountedOnce
<1>2. ASSUME NEW th \in Thread, EnterEntry(th)
      PROVE  CountedOnce'
  <2> DEFINE o == hand[th].operator
  <2>1. /\ hand[th] # NoCert /\ book' = book /\ tally' = tally
    BY <1>2, EnterEffect
  <2>2. o \in Operator /\ stake[o] \in Nat /\ MinStake \in Nat /\ MinStake # 0
    BY <2>1, HeldType, AmountAssumption
  <2>3. ~shrank
    BY <1>2, EnterEffect DEF Slash, stakeVars
  <2>4. stake[o] >= MinStake
    BY <2>1, <2>3 DEF CountedOnce
  <2>s. stake[o] > 0
    BY <2>2, <2>4
  <2>5. ~Slash(o)
    BY <2>s, Zenon DEF Slash
  <2>6. UNCHANGED <<stake, slashed, shrank>>
    BY <1>2, <2>5, EnterEffect DEF stakeVars
  <2>7. \A t, v : Voters(t, v)' = Voters(t, v)
    BY <2>1 DEF Voters
  <2>8. CASE /\ hand' = [hand EXCEPT ![th] = NoCert]
             /\ UNCHANGED <<counting, weight>> /\ th \notin counting
    <3>1. /\ \A u \in Thread : hand'[u] # NoCert => hand'[u] = hand[u]
          /\ \A u \in counting : hand'[u] = hand[u]
      BY <2>8 DEF TypeOK
    <3> QED
      BY <2>1, <2>3, <2>6, <2>7, <2>8, <3>1 DEF CountedOnce
  <2>9. CASE /\ counting' = counting \cup {th} /\ hand' = hand
             /\ weight' = [weight EXCEPT ![th] = stake[o]]
    <3>1. \A u \in counting' : /\ weight'[u] >= MinStake
                               /\ weight'[u] <= stake'[hand'[u].operator]
      <4> SUFFICES ASSUME NEW u \in counting'
                   PROVE  /\ weight'[u] >= MinStake
                          /\ weight'[u] <= stake'[hand'[u].operator]
        OBVIOUS
      <4>1. CASE u = th
        <5>1. weight'[th] = stake[o]
          BY <2>9 DEF TypeOK
        <5> QED
          BY <2>2, <2>4, <2>6, <2>9, <4>1, <5>1
      <4>2. CASE u # th
        <5>1. u \in counting /\ weight'[u] = weight[u]
          BY <2>9, <4>2 DEF TypeOK
        <5> QED
          BY <2>3, <2>6, <2>9, <5>1 DEF CountedOnce
      <4> QED
        BY <4>1, <4>2
    <3> QED
      BY <2>1, <2>3, <2>6, <2>7, <2>9, <3>1 DEF CountedOnce
  <2> QED
    BY <1>2, <2>8, <2>9, EnterEffect
<1>c. ASSUME NEW th \in Thread, CountCertificate(th)
      PROVE  CountedOnce'
  <2>1. ~shrank
    BY <1>c DEF CountCertificate, stakeVars
  <2> QED
    BY <1>c, <2>1, CountCounts
<1>3. ASSUME /\ UNCHANGED <<stake, slashed, shrank, book, tally, counting, weight>>
             /\ \A th \in counting : hand'[th] = hand[th]
             /\ \A th \in Thread : hand'[th] # NoCert =>
                   hand'[th] = hand[th] \/ stake[hand'[th].operator] >= MinStake
      PROVE  CountedOnce'
  <2>1. \A t, v : Voters(t, v)' = Voters(t, v)
    BY <1>3 DEF Voters
  <2> QED
    BY <1>3, <2>1 DEF CountedOnce
<1>4. ASSUME NEW c \in Deliverable, CheckCertificate(c)
      PROVE  CountedOnce'
  <2>1. /\ UNCHANGED <<stake, slashed, shrank, book, tally, counting, weight>>
        /\ \A th \in Thread : hand'[th] = hand[th] \/ hand'[th] = c
        /\ \A th \in counting : hand'[th] = hand[th]
        /\ stake[c.operator] >= MinStake
    BY <1>4 DEF CheckCertificate, IsStaked, stakeVars, trackerVars, entryVars,
                TypeOK
  <2> QED
    BY <1>3, <2>1
<1>5. ASSUME CheckOwn PROVE CountedOnce'
  <2>1. /\ UNCHANGED <<stake, slashed, shrank, book, tally, counting, weight>>
        /\ \A th \in counting : hand'[th] = hand[th]
        /\ \A th \in Thread : \/ hand'[th] = hand[th]
                              \/ /\ hand'[th] = own /\ own.operator = Self
                                 /\ stake[Self] >= MinStake
    BY <1>5 DEF CheckOwn, IsStaked, HeldIsSigned, stakeVars, trackerVars,
                entryVars, TypeOK
  <2> QED
    BY <1>3, <2>1
<1>6. CASE UNCHANGED <<stake, slashed, shrank, book, tally, hand, counting, weight>>
  BY <1>3, <1>6
<1>7. \/ UNCHANGED <<stake, slashed, shrank, book, tally, hand, counting, weight>>
      \/ \E m \in Announcement : ApplyStake(m)
      \/ \E th \in Thread : EnterEntry(th) \/ CountCertificate(th)
      \/ \E c \in Deliverable : CheckCertificate(c)
      \/ CheckOwn
  BY DEF Next, Gossip, Synthesis, Mesh, Thread, Record, SignCertificate,
         PeerSigns, PeerRestarts, Receive, vars, stakeVars, trackerVars, entryVars
<1> QED
  BY <1>1, <1>2, <1>4, <1>5, <1>6, <1>7, <1>c

(* Two views of one tick that reach the threshold would need more than the *)
(* stake there is.                                                         *)
LEMMA TwoQuorums ==
    ASSUME MinStake > 1, TypeOK, CountedOnce, ~shrank,
           NEW t \in 0..MaxTick, NEW v \in check_quorum(t),
           NEW w \in check_quorum(t)
    PROVE  v = w
<1> SUFFICES ASSUME v # w PROVE FALSE
  OBVIOUS
<1> DEFINE S == Voters(t, v)
           T == Voters(t, w)
           all == SumFunctionOnSet(stake, Operator)
           a == tally[<<t, v>>]
           b == tally[<<t, w>>]
<1>1. /\ v \in View /\ w \in View
      /\ <<t, v>> \in DOMAIN tally /\ <<t, w>> \in DOMAIN tally
      /\ a >= quorum_threshold /\ b >= quorum_threshold
  BY DEF check_quorum
<1>2. S \subseteq Operator /\ T \subseteq Operator /\ S \cap T = {}
  BY DEF Voters
<1>3. IsFiniteSet(S) /\ IsFiniteSet(T)
  BY <1>2, OperatorAssumption, FS_Subset
<1>4. \A o \in Operator : /\ stake[o] \in Nat /\ stake[o] \in Int
                          /\ stake[o] <= stake[o]
  BY DEF TypeOK
<1>5. /\ MinStake <= a /\ MinStake <= b
      /\ a <= SumFunctionOnSet(stake, S) /\ b <= SumFunctionOnSet(stake, T)
  BY <1>1 DEF CountedOnce
<1>6. a \in Nat /\ b \in Nat /\ MinStake \in Nat
  BY <1>1, AmountAssumption DEF TypeOK, IsMap
<1>7. total_stake = all
  <2>1. Operator \ slashed = Operator
    BY DEF CountedOnce
  <2> QED
    BY <2>1 DEF total_stake
<1> HIDE DEF S, T, all, a, b
<1>8. SumFunctionOnSet(stake, S \cup T)
         = SumFunctionOnSet(stake, S) + SumFunctionOnSet(stake, T)
  BY <1>2, <1>3, <1>4, SumUnion
<1>9. SumFunctionOnSet(stake, S \cup T) <= all
  BY <1>2, <1>4, OperatorAssumption, SumGrows DEF all
<1>10. /\ SumFunctionOnSet(stake, S) \in Nat
       /\ SumFunctionOnSet(stake, T) \in Nat /\ all \in Nat
  BY <1>2, <1>3, <1>4, OperatorAssumption, SumNat DEF all
<1>11. a + b <= all
  BY <1>5, <1>6, <1>8, <1>9, <1>10
<1>12. all >= 4
  BY <1>5, <1>6, <1>10, <1>11
<1>13. quorum_threshold = (all \div 3) * 2 + 1
  BY <1>7, <1>12 DEF quorum_threshold
<1>14. 2 * ((all \div 3) * 2 + 1) <= all
  BY <1>1, <1>6, <1>10, <1>11, <1>13
<1> QED
  BY <1>10, <1>12, <1>14

(* No two results of a tick have a quorum while no stake is reduced,       *)
(* whatever is signed and however the two threads interleave.  The         *)
(* hypothesis is needed: the threshold divides before it multiplies, so of *)
(* a total of 2 it asks for 1, and two operators with one unit each would  *)
(* both reach it.  The code's minimum is 10^18.                            *)
THEOREM QuorumsAgree == (MinStake > 1) /\ Spec => []QuorumAgreement
<1> SUFFICES ASSUME MinStake > 1 PROVE Spec => []QuorumAgreement
  OBVIOUS
<1>1. Init => CountedOnce
  <2> SUFFICES ASSUME Init PROVE CountedOnce
    OBVIOUS
  <2>1. /\ slashed = {} /\ DOMAIN tally = {} /\ counting = {}
        /\ \A th \in Thread : hand[th] = NoCert
    BY DEF Init
  <2> QED
    BY <2>1 DEF CountedOnce
<1>2. TypeOK /\ TypeOK' /\ HeldIsSigned /\ EntriesHeld /\ CountedOnce /\ [Next]_vars
         => CountedOnce'
  BY CountedStep
<1>5. Init => EntriesHeld
  BY DEF Init, EntriesHeld
<1>6. TypeOK /\ HeldIsSigned /\ EntriesHeld /\ [Next]_vars => EntriesHeld'
  BY EntriesStep
<1>3. TypeOK /\ HeldIsSigned /\ SlashedOnlyForResigning /\ [Next]_vars
         => HeldIsSigned' /\ SlashedOnlyForResigning'
  BY HeldStep
<1>4. TypeOK /\ CountedOnce => QuorumAgreement
  <2> SUFFICES ASSUME TypeOK, CountedOnce, ~shrank, NEW t \in 0..MaxTick
               PROVE  Cardinality(check_quorum(t)) <= 1
    BY DEF QuorumAgreement
  <2>1. \A v, w \in check_quorum(t) : v = w
    BY TwoQuorums
  <2>2. CASE check_quorum(t) = {}
    BY <2>2, FS_EmptySet
  <2>3. CASE check_quorum(t) # {}
    <3> DEFINE Q == check_quorum(t)
    <3>1. Q # {} /\ \A v, w \in Q : v = w
      BY <2>1, <2>3
    <3> HIDE DEF Q
    <3>2. PICK v \in Q : TRUE
      BY <3>1
    <3>3. Q = {v}
      BY <3>1, <3>2
    <3>4. Cardinality({v}) = 1
      BY FS_Singleton
    <3> QED
      BY <3>3, <3>4 DEF Q
  <2> QED
    BY <2>2, <2>3
<1> QED
  BY <1>1, <1>2, <1>3, <1>4, <1>5, <1>6, HeldInit, CertificatesTypeCorrect, PTL
  DEF Spec

=============================================================================
