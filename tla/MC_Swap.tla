------------------------------ MODULE MC_Swap ------------------------------
(***************************************************************************)
(* A small instance of Swap.tla for TLC.  Two users, with a WAVE and a     *)
(* USDC account each, swap against a pool with 4 WAVE and 8 USDC.          *)
(***************************************************************************)
EXTENDS Swap

MCAccount == {"pw", "pu", "w1", "u1", "w2", "u2"}
MCWave == [a \in MCAccount |-> CASE a \in {"w1", "u1"} -> "w1"
                                 [] a \in {"w2", "u2"} -> "w2" [] OTHER -> "pw"]
MCUsdc == [a \in MCAccount |-> CASE a \in {"w1", "u1"} -> "u1"
                                 [] a \in {"w2", "u2"} -> "u2" [] OTHER -> "pu"]

MCPolicy == [dex |-> [stateful |-> TRUE, flat |-> 0, ordering |-> "Causal"],
             vault |-> [stateful |-> TRUE, flat |-> 1, ordering |-> "Strict"],
             dear |-> [stateful |-> TRUE, flat |-> 9, ordering |-> "Causal"]]

Ask(from, to, amount, nonce, domain, needs) ==
    [from |-> from, to |-> to, amount |-> amount, nonce |-> nonce,
     clock |-> 1, domain |-> domain, needs |-> needs]

(* 1 and 2 are swaps of two users; together they want more USDC than the   *)
(* pool has.  2 is in a strict domain, its key may become known late, and  *)
(* it depends on the units of 3, a transfer with the nonce of 1.  4 and 6  *)
(* swap USDC for WAVE: one names 3 as predecessor, in a domain whose fee   *)
(* is too high, the other is in a domain that is not registered.  5 is     *)
(* over nothing and has the nonce of 1.                                    *)
MCRequests ==
    << Ask("w1", "pw", 3, 1, "dex", {}), Ask("w2", "pw", 3, 2, "vault", {}),
       Ask("w1", "w2", 1, 1, "dex", {}), Ask("u2", "pu", 2, 1, "dear", {3}),
       Ask("w1", "w2", 0, 1, "dex", {}), Ask("u1", "pu", 2, 1, "none", {}) >>
MCRequest == DOMAIN MCRequests
MCGenesis == [pw |-> 4, pu |-> 8, w1 |-> 3, u1 |-> 0, w2 |-> 2, u2 |-> 2]
=============================================================================
