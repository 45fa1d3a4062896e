------------------------------ MODULE MC_Gossip ------------------------------
(***************************************************************************)
(* A small instance of Gossip.tla for TLC: a dialled connection, the one   *)
(* after a break, and one of a stranger.                                   *)
(***************************************************************************)
EXTENDS Gossip

MCConn == {1, 2, 3}
MCStranger == {3}
=============================================================================
