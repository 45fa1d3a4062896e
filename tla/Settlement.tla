----------------------------- MODULE Settlement -----------------------------
(***************************************************************************)
(* What synthesize() does to balances, without the DAG: the abstract       *)
(* ledger that Oscillator.tla implements and that EvmPool.tla and          *)
(* Persistence.tla build on.                                               *)
(*                                                                         *)
(* There are two copies of every balance, the wave-field's and the DAG's.  *)
(* A cycle decays the first, copies it over the second, settles any shifts *)
(* that were not settled before and that their senders can pay, one at a   *)
(* time on a third copy, charges fees to the wave-field, and writes the    *)
(* result back, to the DAG first.  Which shifts, and in which order, is    *)
(* left open: queues, clocks, signatures and domains only narrow it.       *)
(***************************************************************************)
EXTENDS PartialMaps, Integers, FiniteSetsExt

CONSTANTS Hash,      \* shifts
          Account,
          Shift,     \* Hash -> a record with from, to and amount
          Genesis,   \* balances at the start
          MaxDecay   \* bound: most units an account loses in a cycle

VARIABLES
    phase,     \* how far the cycle is
    field,     \* wave-field account units
    balances,  \* VectorClockDag.balances
    applied,   \* shifts with the applied flag
    sim,       \* simulated_balances
    settling,  \* shifts settled in this cycle
    fee        \* what each shift costs its receiver

ledgerVars == <<phase, field, balances, applied, sim, settling, fee>>

Stage == {"open", "decayed", "copied", "settling", "settled", "charged",
          "committed"}

SettlementInit ==
    /\ phase = "open"
    /\ field = Genesis /\ balances = Genesis
    /\ applied = {} /\ settling = {} /\ sim = [a \in {} |-> 0]
    /\ fee \in [Hash -> Nat]

(* Idle balances decay.                                                    *)
LoseDecay ==
    /\ phase = "open"
    /\ \E loss \in [DOMAIN field -> 0..MaxDecay] :
          /\ \A a \in DOMAIN field : loss[a] <= field[a]
          /\ field' = [a \in DOMAIN field |-> field[a] - loss[a]]
    /\ phase' = "decayed"
    /\ UNCHANGED <<balances, applied, sim, settling, fee>>

CopyField ==
    /\ phase = "decayed"
    /\ balances' = Overwrite(balances, field)
    /\ phase' = "copied"
    /\ UNCHANGED <<field, applied, sim, settling, fee>>

(* The apply loop starts on a copy; settling is emptied.                   *)
BeginSettling ==
    /\ phase = "copied"
    /\ sim' = balances /\ settling' = {}
    /\ phase' = "settling"
    /\ UNCHANGED <<field, balances, applied, fee>>

(* The sender pays the amount, the receiver gets it less the fee.          *)
Moved(m, h) ==
    LET s == Shift[h]
        paid == Put(m, s.from, Get(m, s.from) - s.amount)
    IN  Put(paid, s.to, Get(paid, s.to) + (s.amount - fee[h]))

(* A shift settles at most once, ever, and only if its sender can pay.     *)
Settle(h) ==
    /\ phase = "settling" /\ h \notin applied \cup settling
    /\ fee[h] <= Shift[h].amount
    /\ Get(sim, Shift[h].from) >= Shift[h].amount
    /\ sim' = Moved(sim, h) /\ settling' = settling \cup {h}
    /\ UNCHANGED <<phase, field, balances, applied, fee>>

EndSettling ==
    /\ phase = "settling"
    /\ phase' = "settled"
    /\ UNCHANGED <<field, balances, applied, sim, settling, fee>>

(* What account a owes in fees for the shifts of this cycle.               *)
Debt(a) == SumFunction([h \in {k \in settling : Shift[k].from = a} |-> fee[h]])

(* The senders' wave-field balances pay the fees, as far as they go.       *)
ChargeField ==
    LET senders == {Shift[h].from : h \in settling} IN
    /\ phase = "settled"
    /\ field' = IF \A h \in settling : fee[h] = 0 THEN field
                ELSE Overwrite(field, [a \in senders |->
                         IF Get(field, a) > Debt(a)
                         THEN Get(field, a) - Debt(a) ELSE 0])
    /\ phase' = "charged"
    /\ UNCHANGED <<balances, applied, sim, settling, fee>>

CommitLedger ==
    /\ phase = "charged"
    /\ applied' = applied \cup settling /\ balances' = sim
    /\ phase' = "committed"
    /\ UNCHANGED <<field, sim, settling, fee>>

PublishField ==
    /\ phase = "committed"
    /\ field' = Overwrite(field, sim)
    /\ sim' = [a \in {} |-> 0] /\ settling' = {}
    /\ phase' = "open"
    /\ UNCHANGED <<balances, applied, fee>>

SettlementNext ==
    \/ LoseDecay \/ CopyField \/ BeginSettling \/ EndSettling
    \/ \E h \in Hash : Settle(h)
    \/ ChargeField \/ CommitLedger \/ PublishField

SettlementSpec == SettlementInit /\ [][SettlementNext]_ledgerVars
=============================================================================
