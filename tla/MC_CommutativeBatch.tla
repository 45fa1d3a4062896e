------------------------ MODULE MC_CommutativeBatch ------------------------
(***************************************************************************)
(* A small instance of CommutativeBatch.tla for TLC.  Signal 1 adds to     *)
(* pool p; 2, in the same domain, takes from pool q, which 3, in another   *)
(* domain, must fill first.  Two copies of 1 or 3 are too large for a bin. *)
(***************************************************************************)
EXTENDS CommutativeBatch

Commute(domain, bin, delta, pool, signature) ==
    [domain |-> domain, bin |-> bin, delta |-> delta, pool |-> pool,
     signature |-> signature]

MCContent ==
    << Commute("dex", 0, 2, "p", "s1"), Commute("dex", 1, -1, "q", "s2"),
       Commute("loan", 0, 2, "q", "s3") >>

MCArriving == [api |-> {1, 2}, gossip |-> {1, 3}]
MCStakes == [o |-> 1, r |-> 2]
=============================================================================
