------------------------- MODULE MC_OscillatorNode -------------------------
(***************************************************************************)
(* Small instances of OscillatorNode.tla for TLC: an operator o that pays, *)
(* stakes, withdraws and registers a domain, and the token accounts w      *)
(* (WAVE) and u (USDC) that a registration of o brings.                    *)
(***************************************************************************)
EXTENDS OscillatorNode

MCAccount == {"o", "w", "u"}
MCDomain == {"dex", "new"}
MCIngester == {"gossip"}

Policy(kind, value) ==
    [stateful |-> TRUE, ordering |-> "Causal", depth |-> 1,
     fee |-> [kind |-> kind, value |-> value]]

(* dex takes half of every amount; the new domain a flat fee of 1.         *)
MCPolicies == [dex |-> Policy("Percentage", 5000)]
MCNewPolicy == Policy("Flat", 1)

(* o holds 5.  Its shift pays 2 to w.                                      *)
MCGenesis == [o |-> 5]
MCShifts ==
    << [from |-> "o", to |-> "w", amount |-> 2, domain |-> "dex",
        nonce |-> 1, predecessors |-> {}, signed |-> TRUE,
        clock |-> [x \in MCAccount |-> IF x = "o" THEN 1 ELSE 0]] >>

MCRegistrations ==
    {[account |-> "o", wave |-> "w", usdc |-> "u", nonce |-> 1]}
NoRegistrations == {}

(* o locks 3 and later withdraws 2 of them.                                *)
MCStakes == {[account |-> "o", amount |-> 3, nonce |-> 0],
             [account |-> "o", amount |-> 1, nonce |-> 2]}
NoStakes == {}
=============================================================================
