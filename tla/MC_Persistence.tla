--------------------------- MODULE MC_Persistence ---------------------------
(***************************************************************************)
(* A small instance of Persistence.tla for TLC.  Account 1 sends EVM       *)
(* transactions and is funded by a shift of the pool account 8; 2 receives *)
(* them; 9 is the operator, and 101 the contract that one of them creates. *)
(***************************************************************************)
EXTENDS Persistence

MCAccount == {1, 2, 8, 9, 101}
MCPool == {8}
NoBalances == [a \in {} |-> 0]
MCShifts == << [from |-> 8, to |-> 1, amount |-> 5] >>
MCFees == << 1 >>

Evm(to, value, nonce, gas, reverts) ==
    [from |-> 1, to |-> to, value |-> value, nonce |-> nonce, chain |-> 0,
     cap |-> 2 * gas, gas |-> gas, reverts |-> reverts]

(* a and b compete for nonce 0: b creates a contract, and a, which calls   *)
(* it, reverts; c follows at nonce 1; d is for another chain.              *)
MCTransactions ==
    [a |-> Evm(101, 1, 0, 1, TRUE), b |-> Evm(99, 1, 0, 0, FALSE),
     c |-> [Evm(2, 1, 1, 0, FALSE) EXCEPT !.chain = ChainId],
     d |-> [Evm(2, 1, 0, 0, FALSE) EXCEPT !.chain = 1]]
=============================================================================
