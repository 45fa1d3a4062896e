-------------------------- MODULE MC_Certificates --------------------------
(***************************************************************************)
(* Small instances of Certificates.tla for TLC: the node s, an honest peer *)
(* h and a rogue operator r.  Results are only compared, so the two views  *)
(* may be exchanged.                                                       *)
(***************************************************************************)
EXTENDS Certificates, TLC

CONSTANTS X, Y

OnlyH == {"h"}
SelfAndRogue == {"s", "r"}
SelfAndPeer == {"s", "h"}
SelfAndPeers == {"s", "h", "r"}
NoOperator == {}
TwoViews == {X, Y}
ViewSymmetry == Permutations(TwoViews)

(* The honest peer's balance is one short of its stake until it receives a *)
(* transfer; r can stake, withdraw and stake again.                        *)
MeshLiquid == [s |-> 0, h |-> 1, r |-> 3]
MeshStakes == {0, 3}
EqualStakes == [s |-> 2, h |-> 2]

(* For the run without r.                                                  *)
ShortLiquid == [s |-> 0, h |-> 1]
=============================================================================
