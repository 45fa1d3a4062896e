---------------------------- MODULE PartialMaps ----------------------------
(***************************************************************************)
(* HashMaps and DashMaps as functions whose domain is the set of keys that *)
(* are present.                                                            *)
(***************************************************************************)

(* m is a map from some of the keys K to values in V.                      *)
IsMap(m, K, V) == DOMAIN m \subseteq K /\ m \in [DOMAIN m -> V]

(* A map of amounts reads as 0 at a missing key.                           *)
Get(m, a) == IF a \in DOMAIN m THEN m[a] ELSE 0

(* insert                                                                  *)
Put(m, a, v) == [x \in DOMAIN m \cup {a} |-> IF x = a THEN v ELSE m[x]]

(* m with the entries of f written over it.                                *)
Overwrite(m, f) ==
    [a \in DOMAIN m \cup DOMAIN f |-> IF a \in DOMAIN f THEN f[a] ELSE m[a]]
=============================================================================
