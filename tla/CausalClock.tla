---------------------------- MODULE CausalClock ----------------------------
(***************************************************************************)
(* The vector clocks that stateful phase-shifts carry                      *)
(* (src/src/crypto/phase_shift.rs, VectorClock).  A clock is a map from a  *)
(* node id to a time in which a missing entry reads as 0 (VectorClock::get)*)
(* so here it is a total function into Nat; all the clocks that are        *)
(* compared have the same domain.                                          *)
(***************************************************************************)
EXTENDS Naturals

(* The clocks over a set N of node ids; VectorClock::new() is ZeroClock.   *)
Clock(N) == [N -> Nat]
ZeroClock(N) == [n \in N |-> 0]

MaxNat(x, y) == IF x < y THEN y ELSE x

(* VectorClock::tick: advance one entry.                                   *)
tick_clock(c, n) == [c EXCEPT ![n] = @ + 1]

(* VectorClock::merge: the pointwise maximum.                              *)
merge(c, d) == [n \in DOMAIN c |-> MaxNat(c[n], d[n])]

(* No entry of c exceeds d's and some entry of d exceeds c's.              *)
happened_before(c, d) ==
    /\ \A n \in DOMAIN c : c[n] <= d[n]
    /\ \E n \in DOMAIN d : d[n] > c[n]

(* Neither precedes the other.  Equal clocks are concurrent.               *)
concurrent_with(c, d) ==
    ~happened_before(c, d) /\ ~happened_before(d, c)
=============================================================================
