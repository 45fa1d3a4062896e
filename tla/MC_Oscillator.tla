--------------------------- MODULE MC_Oscillator ---------------------------
(***************************************************************************)
(* Small instances of Oscillator.tla for TLC.  Accounts, domains and the   *)
(* tables of shifts are chosen so that double spends, shifts that depend   *)
(* on the value of others, diamonds in the DAG, shifts that arrive before  *)
(* their predecessors, bad signatures and unknown senders all occur.       *)
(***************************************************************************)
EXTENDS Oscillator

(* A shift of the table, with its clock given for the accounts a and b.    *)
Tx(from, to, amount, domain, nonce, preds, clk) ==
    [from |-> from, to |-> to, amount |-> amount, domain |-> domain,
     nonce |-> nonce, predecessors |-> preds,
     clock |-> [x \in Account |-> IF x = "a" THEN clk[1] ELSE clk[2]],
     signed |-> TRUE]

Policy(ordering, d, kind, value) ==
    [stateful |-> TRUE, ordering |-> ordering, depth |-> d,
     fee |-> [kind |-> kind, value |-> value]]

MCAccount == {"a", "b"}
MCDomain == {"dex", "paid"}
OneKey == {"a"}
TwoKeys == {"a", "b"}
OneIngester == {"api"}
TwoIngesters == {"api", "gossip"}

(* One causal domain without fees.                                         *)
FreePolicies == [dex |-> Policy("Causal", 2, "MetabolicOnly", 0)]

(* A causal domain that takes half of the amount, and a strict one that    *)
(* takes a flat fee of 1.                                                  *)
PaidPolicies == [dex |-> Policy("Causal", 1, "Percentage", 5000),
                 paid |-> Policy("Strict", 1, "Flat", 1)]

(* a holds 3.  Shifts 1 and 2 are concurrent and together overspend; 3     *)
(* spends what 1 brings; 4 closes a diamond over 1 and 3; 5 is a rival of  *)
(* 4 with the same nonce.                                                  *)
DiamondGenesis == [a |-> 3]
DiamondShifts ==
    << Tx("a", "b", 2, "dex", 1, {}, <<1, 0>>),
       Tx("a", "b", 2, "dex", 2, {}, <<1, 0>>),
       Tx("b", "a", 1, "dex", 1, {1}, <<1, 1>>),
       Tx("a", "b", 1, "dex", 3, {1, 3}, <<2, 1>>),
       Tx("a", "a", 1, "dex", 3, {}, <<2, 0>>) >>

(* Fees and refusals: 1 needs a quorum, 2 pays half of its amount, 3 has   *)
(* amount zero and 4 a bad signature; the key of b is not known at first.  *)
PaidGenesis == [a |-> 2, b |-> 2]
PaidShifts ==
    << Tx("a", "b", 2, "paid", 1, {}, <<1, 0>>),
       Tx("b", "a", 3, "dex", 1, {}, <<0, 1>>),
       Tx("a", "b", 0, "dex", 1, {}, <<1, 0>>),
       [Tx("a", "b", 1, "dex", 2, {}, <<1, 0>>) EXCEPT !.signed = FALSE] >>

(* a holds 4 and spends it in three shifts: 1 and 2 are concurrent and     *)
(* both affordable, 3 comes after both.                                    *)
SpendGenesis == [a |-> 4]
SpendShifts ==
    << Tx("a", "b", 1, "dex", 1, {}, <<1, 0>>),
       Tx("a", "b", 1, "dex", 2, {}, <<1, 0>>),
       Tx("a", "b", 2, "dex", 3, {1, 2}, <<2, 0>>) >>
=============================================================================
