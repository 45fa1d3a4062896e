---------------------------- MODULE FiniteSums ----------------------------
(***************************************************************************)
(* Laws of SumFunction for every finite index set.  SumFunction is defined *)
(* by recursion over the subsets of its index set; the laws follow by      *)
(* induction over finite sets, taken in its set form: a non-empty set of   *)
(* subsets of a finite set has a minimal member.                           *)
(***************************************************************************)
EXTENDS PartialMaps, Functions, Integers, FiniteSetTheorems, TLAPS

-----------------------------------------------------------------------------
(* Induction *)

(* A set of subsets of a finite S that has a member T whenever it has all  *)
(* proper subsets of T has every subset of S.                              *)
LEMMA SubsetInduction ==
    ASSUME NEW S, IsFiniteSet(S), NEW Good,
           \A T \in SUBSET S :
              (\A U \in SUBSET T : U # T => U \in Good) => T \in Good
    PROVE  \A T \in SUBSET S : T \in Good
<1> DEFINE Bad == {T \in SUBSET S : T \notin Good}
<1> SUFFICES ASSUME Bad # {} PROVE FALSE
  OBVIOUS
<1>1. Bad \subseteq FiniteSubsetsOf(S)
  BY FS_Subset DEF FiniteSubsetsOf
<1>2. PICK T \in Bad : \A U \in Bad : <<U, T>> \notin StrictSubsetOrdering(S)
  <2> HIDE DEF Bad
  <2> QED
    BY <1>1, FS_StrictSubsetOrderingWellFounded, WFMin
<1>3. \A U \in SUBSET T : U # T => U \in Good
  BY <1>2 DEF StrictSubsetOrdering
<1> QED
  BY <1>3

-----------------------------------------------------------------------------
(* The recursion behind SumFunction *)

Pick(s) == CHOOSE x \in s : TRUE

Recursion(it, f, S) ==
    [s \in SUBSET S |-> IF s = {} THEN 0 ELSE f[Pick(s)] + it[s \ {Pick(s)}]]

(* The partial sums of f over the subsets of S.                            *)
PartialSums(f, S) == CHOOSE it : it = Recursion(it, f, S)

(* What the recursion says about one entry.                                *)
LEMMA RecursionAt ==
    ASSUME NEW S, NEW f, NEW g, g = Recursion(g, f, S), NEW s \in SUBSET S
    PROVE  g[s] = IF s = {} THEN 0 ELSE f[Pick(s)] + g[s \ {Pick(s)}]
BY DEF Recursion

(* Two solutions agree.                                                    *)
LEMMA RecursionAgrees ==
    ASSUME NEW S, NEW T, IsFiniteSet(S), S \subseteq T, NEW f, NEW g, NEW k,
           g = Recursion(g, f, S), k = Recursion(k, f, T)
    PROVE  g[S] = k[S]
<1> DEFINE Good == {s \in SUBSET S : g[s] = k[s]}
<1>1. ASSUME NEW s \in SUBSET S, \A u \in SUBSET s : u # s => u \in Good
      PROVE  s \in Good
  <2>1. CASE s = {}
    BY <2>1, RecursionAt
  <2>2. CASE s # {}
    <3>1. Pick(s) \in s
      BY <2>2 DEF Pick
    <3>2. g[s \ {Pick(s)}] = k[s \ {Pick(s)}]
      BY <1>1, <3>1
    <3>3. /\ g[s] = f[Pick(s)] + g[s \ {Pick(s)}]
          /\ k[s] = f[Pick(s)] + k[s \ {Pick(s)}]
      BY <2>2, RecursionAt
    <3> QED
      BY <3>2, <3>3
  <2> QED
    BY <2>1, <2>2
<1>2. S \in Good
  <2> HIDE DEF Good
  <2> QED
    BY <1>1, SubsetInduction
<1> QED
  BY <1>2

(* There is a solution.                                                    *)
LEMMA RecursionSolvable ==
    ASSUME NEW S, IsFiniteSet(S), NEW f
    PROVE  PartialSums(f, S) = Recursion(PartialSums(f, S), f, S)
<1> DEFINE P(s) == PartialSums(f, s)
           Good == {T \in SUBSET S : P(T) = Recursion(P(T), f, T)}
<1>1. ASSUME NEW T \in SUBSET S, \A U \in SUBSET T : U # T => U \in Good
      PROVE  T \in Good
  <2> DEFINE next == IF T = {} THEN 0
                     ELSE f[Pick(T)] + P(T \ {Pick(T)})[T \ {Pick(T)}]
             g == [s \in SUBSET T |-> IF s = T THEN next ELSE P(s)[s]]
  <2>1. ASSUME NEW s \in SUBSET T
        PROVE  g[s] = IF s = {} THEN 0 ELSE f[Pick(s)] + g[s \ {Pick(s)}]
    <3>1. CASE s = T
      <4>1. T # {} => T \ {Pick(T)} # T /\ T \ {Pick(T)} \in SUBSET T
        BY DEF Pick
      <4> HIDE DEF P
      <4> QED
        BY <3>1, <4>1
    <3>2. CASE s # T /\ s = {}
      <4>1. P(s) = Recursion(P(s), f, s)
        BY <1>1, <3>2
      <4>2. P(s)[s] = 0
        <5> HIDE DEF P
        <5> QED
          BY <4>1, <3>2, RecursionAt
      <4> HIDE DEF P
      <4> QED
        BY <3>2, <4>2
    <3>3. CASE s # T /\ s # {}
      <4> DEFINE u == s \ {Pick(s)}
      <4>1. Pick(s) \in s /\ u \in SUBSET T /\ u # T /\ u \subseteq s
        BY <3>3 DEF Pick
      <4>2. P(s) = Recursion(P(s), f, s) /\ P(u) = Recursion(P(u), f, u)
        BY <1>1, <3>3, <4>1
      <4>3. IsFiniteSet(u)
        BY <4>1, FS_Subset
      <4> HIDE DEF P
      <4>4. P(s)[s] = f[Pick(s)] + P(s)[u]
        BY <4>2, <3>3, RecursionAt
      <4> HIDE DEF u
      <4>5. P(u)[u] = P(s)[u]
        BY <4>1, <4>2, <4>3, RecursionAgrees
      <4>6. g[s] = P(s)[s] /\ g[u] = P(u)[u]
        BY <3>3, <4>1
      <4> HIDE DEF g
      <4> QED
        BY <3>3, <4>4, <4>5, <4>6 DEF u
    <3> QED
      BY <3>1, <3>2, <3>3
  <2>2. g = Recursion(g, f, T)
    <3>1. g = [s \in SUBSET T |-> g[s]]
      OBVIOUS
    <3> HIDE DEF g
    <3> QED
      BY <2>1, <3>1 DEF Recursion
  <2>3. \E it : it = Recursion(it, f, T)
    BY <2>2
  <2> QED
    BY <2>3, Zenon DEF PartialSums
<1>2. S \in Good
  <2> HIDE DEF Good
  <2> QED
    BY <1>1, SubsetInduction
<1> QED
  BY <1>2

(* SumFunctionOnSet is the last partial sum.                               *)
LEMMA SumIsPartialSum ==
    ASSUME NEW f, NEW S
    PROVE  SumFunctionOnSet(f, S) = PartialSums(f, S)[S]
BY DEF SumFunctionOnSet, FoldFunctionOnSet, MapThenFoldSet, PartialSums,
       Recursion, Pick

-----------------------------------------------------------------------------
(* Laws of sums *)

(* Nothing adds up to 0.                                                   *)
LEMMA SumEmpty == ASSUME NEW f PROVE SumFunctionOnSet(f, {}) = 0
BY SumIsPartialSum, RecursionSolvable, RecursionAt, FS_EmptySet

(* A sum is the picked entry and the sum of the others.                    *)
LEMMA SumPick ==
    ASSUME NEW f, NEW S, IsFiniteSet(S), S # {}
    PROVE  /\ Pick(S) \in S
           /\ SumFunctionOnSet(f, S)
                 = f[Pick(S)] + SumFunctionOnSet(f, S \ {Pick(S)})
<1> DEFINE T == S \ {Pick(S)}
<1>1. Pick(S) \in S
  BY DEF Pick
<1>2. IsFiniteSet(T) /\ T \in SUBSET S
  BY FS_Subset
<1>3. /\ PartialSums(f, S) = Recursion(PartialSums(f, S), f, S)
      /\ PartialSums(f, T) = Recursion(PartialSums(f, T), f, T)
  BY <1>2, RecursionSolvable
<1>4. PartialSums(f, S)[S] = f[Pick(S)] + PartialSums(f, S)[T]
  BY <1>3, RecursionAt
<1> HIDE DEF T
<1>5. PartialSums(f, T)[T] = PartialSums(f, S)[T]
  BY <1>2, <1>3, RecursionAgrees
<1>6. SumFunctionOnSet(f, T) = PartialSums(f, S)[T]
  BY <1>5, SumIsPartialSum
<1>7. SumFunctionOnSet(f, S) = f[Pick(S)] + SumFunctionOnSet(f, T)
  BY <1>4, <1>6, SumIsPartialSum
<1> QED
  BY <1>1, <1>7 DEF T

(* Sums of integers are integers.                                          *)
LEMMA SumInt ==
    ASSUME NEW S, IsFiniteSet(S), NEW f, \A x \in S : f[x] \in Int
    PROVE  SumFunctionOnSet(f, S) \in Int
<1> DEFINE Good == {T \in SUBSET S : SumFunctionOnSet(f, T) \in Int}
<1>1. ASSUME NEW T \in SUBSET S, \A U \in SUBSET T : U # T => U \in Good
      PROVE  T \in Good
  <2>1. IsFiniteSet(T)
    BY FS_Subset
  <2>2. CASE T = {}
    BY <2>2, SumEmpty
  <2>3. CASE T # {}
    <3>1. Pick(T) \in T /\ SumFunctionOnSet(f, T \ {Pick(T)}) \in Int
      BY <1>1, <2>1, <2>3, SumPick
    <3> QED
      BY <2>1, <2>3, <3>1, SumPick
  <2> QED
    BY <2>2, <2>3
<1>2. S \in Good
  <2> HIDE DEF Good
  <2> QED
    BY <1>1, SubsetInduction
<1> QED
  BY <1>2

(* Any entry may be taken out of a sum.                                    *)
LEMMA SumRemove ==
    ASSUME NEW S, IsFiniteSet(S), NEW f, \A x \in S : f[x] \in Int,
           NEW x \in S
    PROVE  SumFunctionOnSet(f, S) = f[x] + SumFunctionOnSet(f, S \ {x})
<1> DEFINE Sum(T) == SumFunctionOnSet(f, T)
           Good == {T \in SUBSET S : \A y \in T : Sum(T) = f[y] + Sum(T \ {y})}
<1>1. ASSUME NEW T \in SUBSET S, \A U \in SUBSET T : U # T => U \in Good
      PROVE  T \in Good
  <2> SUFFICES ASSUME NEW y \in T PROVE Sum(T) = f[y] + Sum(T \ {y})
    OBVIOUS
  <2> DEFINE p == Pick(T)
  <2>1. IsFiniteSet(T) /\ T # {}
    BY FS_Subset
  <2>2. p \in T /\ Sum(T) = f[p] + Sum(T \ {p})
    BY <2>1, SumPick
  <2> HIDE DEF p, Sum
  <2>3. CASE y = p
    BY <2>2, <2>3
  <2>4. CASE y # p
    <3>1. T \ {p} \in Good /\ T \ {y} \in Good
      BY <1>1, <2>2
    <3>2. y \in T \ {p} /\ p \in T \ {y}
      BY <2>2, <2>4
    <3>3. Sum(T \ {p}) = f[y] + Sum((T \ {p}) \ {y})
      BY <3>1, <3>2
    <3>4. Sum(T \ {y}) = f[p] + Sum((T \ {y}) \ {p})
      BY <3>1, <3>2
    <3>5. (T \ {p}) \ {y} = (T \ {y}) \ {p}
      OBVIOUS
    <3> DEFINE rest == (T \ {y}) \ {p}
    <3>6. f[y] \in Int /\ f[p] \in Int
      BY <2>2
    <3>7. Sum(rest) \in Int
      <4>1. IsFiniteSet(rest) /\ rest \subseteq S
        BY <2>1, FS_Subset
      <4> QED
        BY <4>1, SumInt DEF Sum
    <3>8. Sum(T \ {p}) = f[y] + Sum(rest) /\ Sum(T \ {y}) = f[p] + Sum(rest)
      BY <3>3, <3>4, <3>5
    <3> HIDE DEF rest
    <3> QED
      BY <2>2, <3>6, <3>7, <3>8
  <2> QED
    BY <2>3, <2>4
<1>2. S \in Good
  <2> HIDE DEF Good
  <2> QED
    BY <1>1, SubsetInduction
<1> QED
  BY <1>2

(* A new entry is added to the sum.                                        *)
LEMMA SumInsert ==
    ASSUME NEW S, IsFiniteSet(S), NEW x, x \notin S,
           NEW f, \A y \in S \cup {x} : f[y] \in Int
    PROVE  SumFunctionOnSet(f, S \cup {x}) = f[x] + SumFunctionOnSet(f, S)
<1>1. IsFiniteSet(S \cup {x}) /\ (S \cup {x}) \ {x} = S
  BY FS_AddElement
<1> DEFINE T == S \cup {x}
<1>2. x \in T /\ IsFiniteSet(T) /\ T \ {x} = S /\ \A y \in T : f[y] \in Int
  BY <1>1
<1> HIDE DEF T
<1>3. SumFunctionOnSet(f, T) = f[x] + SumFunctionOnSet(f, S)
  BY <1>2, SumRemove
<1> QED
  BY <1>3 DEF T

(* Functions that agree on the index set have the same sum.                *)
LEMMA SumEqual ==
    ASSUME NEW S, IsFiniteSet(S), NEW f, NEW g, \A x \in S : f[x] = g[x]
    PROVE  SumFunctionOnSet(f, S) = SumFunctionOnSet(g, S)
<1> DEFINE Good == {T \in SUBSET S :
                      SumFunctionOnSet(f, T) = SumFunctionOnSet(g, T)}
<1>1. ASSUME NEW T \in SUBSET S, \A U \in SUBSET T : U # T => U \in Good
      PROVE  T \in Good
  <2>1. IsFiniteSet(T)
    BY FS_Subset
  <2>2. CASE T = {}
    BY <2>2, SumEmpty
  <2>3. CASE T # {}
    <3>1. /\ Pick(T) \in T
          /\ SumFunctionOnSet(f, T \ {Pick(T)}) = SumFunctionOnSet(g, T \ {Pick(T)})
      BY <1>1, <2>1, <2>3, SumPick
    <3>2. f[Pick(T)] = g[Pick(T)]
      BY <3>1
    <3> QED
      BY <2>1, <2>3, <3>1, <3>2, SumPick
  <2> QED
    BY <2>2, <2>3
<1>2. S \in Good
  <2> HIDE DEF Good
  <2> QED
    BY <1>1, SubsetInduction
<1> QED
  BY <1>2

(* The sum of a pointwise sum.                                             *)
LEMMA SumPlus ==
    ASSUME NEW S, IsFiniteSet(S), NEW f, NEW g, NEW k,
           \A x \in S : f[x] \in Int /\ g[x] \in Int /\ k[x] = f[x] + g[x]
    PROVE  SumFunctionOnSet(k, S)
              = SumFunctionOnSet(f, S) + SumFunctionOnSet(g, S)
<1> DEFINE Sum(w, T) == SumFunctionOnSet(w, T)
           Good == {T \in SUBSET S : Sum(k, T) = Sum(f, T) + Sum(g, T)}
<1>1. ASSUME NEW T \in SUBSET S, \A U \in SUBSET T : U # T => U \in Good
      PROVE  T \in Good
  <2>1. IsFiniteSet(T)
    BY FS_Subset
  <2>2. CASE T = {}
    BY <2>2, SumEmpty
  <2>3. CASE T # {}
    <3> DEFINE p == Pick(T)
               U == T \ {p}
    <3>1. /\ p \in T
          /\ Sum(f, T) = f[p] + Sum(f, U)
          /\ Sum(g, T) = g[p] + Sum(g, U)
          /\ Sum(k, T) = k[p] + Sum(k, U)
      BY <2>1, <2>3, SumPick
    <3>2. IsFiniteSet(U) /\ U \subseteq S /\ U \in Good
      BY <1>1, <2>1, <3>1, FS_Subset
    <3>3. Sum(f, U) \in Int /\ Sum(g, U) \in Int
      BY <3>2, SumInt
    <3>4. f[p] \in Int /\ g[p] \in Int /\ k[p] = f[p] + g[p]
      BY <3>1
    <3>5. Sum(k, U) = Sum(f, U) + Sum(g, U)
      BY <3>2
    <3> HIDE DEF p, U, Sum
    <3> QED
      BY <3>1, <3>3, <3>4, <3>5
  <2> QED
    BY <2>2, <2>3
<1>2. S \in Good
  <2> HIDE DEF Good
  <2> QED
    BY <1>1, SubsetInduction
<1> QED
  BY <1>2

(* A common factor can be taken out of a sum.                              *)
LEMMA SumScale ==
    ASSUME NEW S, IsFiniteSet(S), NEW c \in Int, NEW f, NEW k,
           \A x \in S : f[x] \in Int /\ k[x] = c * f[x]
    PROVE  SumFunctionOnSet(k, S) = c * SumFunctionOnSet(f, S)
<1> DEFINE Sum(w, T) == SumFunctionOnSet(w, T)
           Good == {T \in SUBSET S : Sum(k, T) = c * Sum(f, T)}
<1>1. ASSUME NEW T \in SUBSET S, \A U \in SUBSET T : U # T => U \in Good
      PROVE  T \in Good
  <2>1. IsFiniteSet(T)
    BY FS_Subset
  <2>2. CASE T = {}
    BY <2>2, SumEmpty
  <2>3. CASE T # {}
    <3> DEFINE p == Pick(T)
               U == T \ {p}
    <3>1. /\ p \in T
          /\ Sum(f, T) = f[p] + Sum(f, U)
          /\ Sum(k, T) = k[p] + Sum(k, U)
      BY <2>1, <2>3, SumPick
    <3>2. IsFiniteSet(U) /\ U \subseteq S /\ U \in Good
      BY <1>1, <2>1, <3>1, FS_Subset
    <3>3. Sum(f, U) \in Int
      BY <3>2, SumInt
    <3>4. f[p] \in Int /\ k[p] = c * f[p]
      BY <3>1
    <3>5. Sum(k, U) = c * Sum(f, U)
      BY <3>2
    <3>6. \A a, b \in Int : c * (a + b) = c * a + c * b
      OBVIOUS
    <3> HIDE DEF p, U, Sum
    <3>7. c * Sum(f, T) = c * f[p] + c * Sum(f, U)
      BY <3>1, <3>3, <3>4, <3>6
    <3>8. Sum(k, T) = c * Sum(f, T)
      BY <3>1, <3>4, <3>5, <3>7
    <3> QED
      BY <3>8 DEF Sum
  <2> QED
    BY <2>2, <2>3
<1>2. S \in Good
  <2> HIDE DEF Good
  <2> QED
    BY <1>1, SubsetInduction
<1> QED
  BY <1>2

(* A sum of natural numbers is one, and is 0 just when all of them are.    *)
LEMMA SumNat ==
    ASSUME NEW S, IsFiniteSet(S), NEW f, \A x \in S : f[x] \in Nat
    PROVE  /\ SumFunctionOnSet(f, S) \in Nat
           /\ SumFunctionOnSet(f, S) = 0 <=> \A x \in S : f[x] = 0
<1> DEFINE Sum(T) == SumFunctionOnSet(f, T)
           Good == {T \in SUBSET S : /\ Sum(T) \in Nat
                                     /\ Sum(T) = 0 <=> \A x \in T : f[x] = 0}
<1>1. ASSUME NEW T \in SUBSET S, \A U \in SUBSET T : U # T => U \in Good
      PROVE  T \in Good
  <2>1. IsFiniteSet(T)
    BY FS_Subset
  <2>2. CASE T = {}
    BY <2>2, SumEmpty
  <2>3. CASE T # {}
    <3> DEFINE p == Pick(T)
               U == T \ {p}
    <3>1. p \in T /\ Sum(T) = f[p] + Sum(U)
      BY <2>1, <2>3, SumPick
    <3>2. U \in Good
      BY <1>1, <3>1
    <3>3. Sum(U) \in Nat /\ (Sum(U) = 0 <=> \A x \in U : f[x] = 0)
      BY <3>2
    <3>4. f[p] \in Nat
      BY <3>1
    <3> HIDE DEF Sum
    <3>5. Sum(T) \in Nat /\ (Sum(T) = 0 <=> f[p] = 0 /\ Sum(U) = 0)
      BY <3>1, <3>3, <3>4
    <3>6. (\A x \in T : f[x] = 0) <=> f[p] = 0 /\ \A x \in U : f[x] = 0
      BY <3>1
    <3> QED
      BY <3>3, <3>5, <3>6
  <2> QED
    BY <2>2, <2>3
<1>2. S \in Good
  <2> HIDE DEF Good
  <2> QED
    BY <1>1, SubsetInduction
<1> QED
  BY <1>2

(* Changing one entry changes the sum by the difference.                   *)
LEMMA SumChange ==
    ASSUME NEW S, IsFiniteSet(S), NEW f, NEW g, NEW x \in S,
           \A y \in S : f[y] \in Int /\ g[y] \in Int,
           \A y \in S \ {x} : f[y] = g[y]
    PROVE  SumFunctionOnSet(g, S) = (SumFunctionOnSet(f, S) - f[x]) + g[x]
<1> DEFINE T == S \ {x}
<1>1. IsFiniteSet(T) /\ T \subseteq S
  BY FS_Subset
<1>2. /\ SumFunctionOnSet(f, S) = f[x] + SumFunctionOnSet(f, T)
      /\ SumFunctionOnSet(g, S) = g[x] + SumFunctionOnSet(g, T)
  BY SumRemove
<1>3. SumFunctionOnSet(f, T) = SumFunctionOnSet(g, T)
  BY <1>1, SumEqual
<1>4. SumFunctionOnSet(f, T) \in Int
  BY <1>1, SumInt
<1> HIDE DEF T
<1> QED
  BY <1>2, <1>3, <1>4

(* The sum over two disjoint sets.                                         *)
LEMMA SumUnion ==
    ASSUME NEW S, IsFiniteSet(S), NEW T, IsFiniteSet(T), S \cap T = {},
           NEW f, \A x \in S \cup T : f[x] \in Int
    PROVE  SumFunctionOnSet(f, S \cup T)
              = SumFunctionOnSet(f, S) + SumFunctionOnSet(f, T)
<1> DEFINE Sum(U) == SumFunctionOnSet(f, U)
           Good == {U \in SUBSET T : Sum(S \cup U) = Sum(S) + Sum(U)}
<1>1. ASSUME NEW U \in SUBSET T, \A V \in SUBSET U : V # U => V \in Good
      PROVE  U \in Good
  <2>1. IsFiniteSet(U) /\ Sum(S) \in Int
    BY FS_Subset, SumInt
  <2>2. CASE U = {}
    <3>1. S \cup U = S /\ Sum(U) = 0
      BY <2>2, SumEmpty
    <3> HIDE DEF Sum
    <3> QED
      BY <2>1, <3>1
  <2>3. CASE U # {}
    <3> DEFINE p == Pick(U)
               V == U \ {p}
    <3>1. p \in U /\ Sum(U) = f[p] + Sum(V)
      BY <2>1, <2>3, SumPick
    <3>2. V \in Good /\ IsFiniteSet(V) /\ p \notin S \cup V
      BY <1>1, <2>1, <3>1, FS_Subset
    <3>3. Sum(S \cup V) = Sum(S) + Sum(V) /\ Sum(V) \in Int
      BY <3>2, SumInt
    <3>4. S \cup U = (S \cup V) \cup {p} /\ IsFiniteSet(S \cup V)
      BY <3>1, <3>2, FS_Union
    <3>5. Sum((S \cup V) \cup {p}) = f[p] + Sum(S \cup V)
      BY <3>1, <3>2, <3>4, SumInsert
    <3>6. f[p] \in Int
      BY <3>1
    <3> HIDE DEF Sum, p, V
    <3>7. Sum(S \cup U) = f[p] + (Sum(S) + Sum(V))
      BY <3>3, <3>4, <3>5
    <3>8. \A a, b, c \in Int : a + (b + c) = b + (a + c)
      OBVIOUS
    <3>9. Sum(S \cup U) = Sum(S) + (f[p] + Sum(V))
      BY <2>1, <3>3, <3>6, <3>7, <3>8
    <3> QED
      BY <3>1, <3>9
  <2> QED
    BY <2>2, <2>3
<1>2. T \in Good
  <2> HIDE DEF Good
  <2> QED
    BY <1>1, SubsetInduction
<1> QED
  BY <1>2

(* More of larger natural numbers have a larger sum.                       *)
LEMMA SumGrows ==
    ASSUME NEW T, IsFiniteSet(T), NEW S, S \subseteq T, NEW f, NEW g,
           \A x \in S : f[x] \in Nat /\ f[x] <= g[x],
           \A x \in T : g[x] \in Nat
    PROVE  SumFunctionOnSet(f, S) <= SumFunctionOnSet(g, T)
<1> DEFINE R == T \ S
           h == [x \in T |-> IF x \in S THEN f[x] ELSE 0]
           k == [x \in T |-> g[x] - h[x]]
<1>1. IsFiniteSet(S) /\ IsFiniteSet(R) /\ S \cap R = {} /\ S \cup R = T
  BY FS_Subset
<1>2. \A x \in T : /\ h[x] \in Nat /\ h[x] \in Int
                   /\ x \in S => h[x] = f[x]
                   /\ x \in R => h[x] = 0
  OBVIOUS
<1>3. \A x \in T : k[x] \in Nat /\ k[x] \in Int /\ g[x] = h[x] + k[x]
  OBVIOUS
<1> HIDE DEF h, k, R
<1>4. SumFunctionOnSet(g, T)
         = SumFunctionOnSet(h, T) + SumFunctionOnSet(k, T)
  BY <1>2, <1>3, SumPlus
<1>5. SumFunctionOnSet(h, S \cup R)
         = SumFunctionOnSet(h, S) + SumFunctionOnSet(h, R)
  BY <1>1, <1>2, SumUnion
<1>6. SumFunctionOnSet(h, R) = 0
  BY <1>1, <1>2, SumNat
<1>7. SumFunctionOnSet(h, S) = SumFunctionOnSet(f, S)
  BY <1>1, <1>2, SumEqual
<1>8. SumFunctionOnSet(f, S) \in Nat /\ SumFunctionOnSet(k, T) \in Nat
  BY <1>1, <1>3, SumNat
<1> QED
  BY <1>1, <1>4, <1>5, <1>6, <1>7, <1>8

(* As many times the same number.                                          *)
LEMMA SumConstant ==
    ASSUME NEW S, IsFiniteSet(S), NEW n \in Nat, NEW f, \A x \in S : f[x] = n
    PROVE  SumFunctionOnSet(f, S) = n * Cardinality(S)
<1> DEFINE Sum(T) == SumFunctionOnSet(f, T)
           Good == {T \in SUBSET S : Sum(T) = n * Cardinality(T)}
<1>1. ASSUME NEW T \in SUBSET S, \A U \in SUBSET T : U # T => U \in Good
      PROVE  T \in Good
  <2>1. IsFiniteSet(T)
    BY FS_Subset
  <2>2. CASE T = {}
    BY <2>2, SumEmpty, FS_EmptySet
  <2>3. CASE T # {}
    <3> DEFINE p == Pick(T)
               U == T \ {p}
    <3>1. p \in T /\ Sum(T) = f[p] + Sum(U)
      BY <2>1, <2>3, SumPick
    <3>2. U \in Good
      BY <1>1, <3>1
    <3>3. Sum(U) = n * Cardinality(U)
      BY <3>2
    <3>4. f[p] = n
      BY <3>1
    <3>5. Cardinality(U) = Cardinality(T) - 1 /\ Cardinality(T) \in Nat
      BY <2>1, <3>1, FS_RemoveElement, FS_CardinalityType
    <3> HIDE DEF Sum, U
    <3>6. n + n * (Cardinality(T) - 1) = n * Cardinality(T)
      BY <3>5
    <3>7. Sum(T) = n * Cardinality(T)
      BY <3>1, <3>3, <3>4, <3>5, <3>6
    <3> QED
      BY <3>7
  <2> QED
    BY <2>2, <2>3
<1>2. S \in Good
  <2> HIDE DEF Good
  <2> QED
    BY <1>1, SubsetInduction
<1> QED
  BY <1>2

(* Writing one entry of a function changes its total by the difference.    *)
LEMMA SumExcept ==
    ASSUME NEW K, IsFiniteSet(K), NEW f \in [K -> Nat], NEW x \in K,
           NEW v \in Nat
    PROVE  /\ SumFunction(f) \in Nat
           /\ SumFunction([f EXCEPT ![x] = v]) = (SumFunction(f) - f[x]) + v
<1> DEFINE g == [f EXCEPT ![x] = v]
<1>1. DOMAIN f = K /\ DOMAIN g = K /\ g[x] = v
  OBVIOUS
<1>2. /\ \A y \in K : f[y] \in Nat /\ f[y] \in Int /\ g[y] \in Int
      /\ \A y \in K \ {x} : f[y] = g[y]
  OBVIOUS
<1> HIDE DEF g
<1>3. SumFunctionOnSet(f, K) \in Nat
  BY <1>2, SumNat
<1>4. SumFunctionOnSet(g, K) = (SumFunctionOnSet(f, K) - f[x]) + g[x]
  BY <1>2, SumChange
<1> QED
  BY <1>1, <1>3, <1>4 DEF SumFunction, g

(* A function with one more entry has that much more in total.             *)
LEMMA SumExtend ==
    ASSUME NEW f, NEW g, NEW x, IsFiniteSet(DOMAIN f), x \notin DOMAIN f,
           DOMAIN g = DOMAIN f \cup {x}, \A y \in DOMAIN f : f[y] = g[y],
           \A y \in DOMAIN g : g[y] \in Int
    PROVE  SumFunction(g) = g[x] + SumFunction(f)
<1>1. SumFunctionOnSet(g, DOMAIN f \cup {x})
         = g[x] + SumFunctionOnSet(g, DOMAIN f)
  BY SumInsert
<1>2. SumFunctionOnSet(g, DOMAIN f) = SumFunctionOnSet(f, DOMAIN f)
  BY SumEqual
<1> QED
  BY <1>1, <1>2 DEF SumFunction

-----------------------------------------------------------------------------
(* Maps of amounts *)

(* Reading a map of amounts gives an amount.                               *)
LEMMA GetType ==
    ASSUME NEW K, NEW m, IsMap(m, K, Nat), NEW a
    PROVE  Get(m, a) \in Nat
BY DEF IsMap, Get

(* Writing a map entry gives a map.                                        *)
LEMMA PutType ==
    ASSUME NEW K, NEW V, NEW m, IsMap(m, K, V), NEW a \in K, NEW v \in V
    PROVE  IsMap(Put(m, a, v), K, V)
BY DEF IsMap, Put

(* Overwriting a map by another gives a map.                               *)
LEMMA OverwriteType ==
    ASSUME NEW K, NEW V, NEW m, IsMap(m, K, V), NEW f, IsMap(f, K, V)
    PROVE  IsMap(Overwrite(m, f), K, V)
BY DEF IsMap, Overwrite

(* What a written map reads.                                               *)
LEMMA GetPut ==
    ASSUME NEW m, NEW a, NEW v, NEW b
    PROVE  Get(Put(m, a, v), b) = IF b = a THEN v ELSE Get(m, b)
BY DEF Get, Put

(* Overwriting a map by one that has all its keys replaces it.             *)
LEMMA OverwriteAll ==
    ASSUME NEW K, NEW V, NEW m, NEW f, IsMap(f, K, V),
           DOMAIN m \subseteq DOMAIN f
    PROVE  Overwrite(m, f) = f
BY DEF IsMap, Overwrite

(* The total of a map is the sum of what it reads at all keys.             *)
LEMMA SumOfMap ==
    ASSUME NEW K, IsFiniteSet(K), NEW m, IsMap(m, K, Nat)
    PROVE  SumFunction(m) = SumFunctionOnSet([a \in K |-> Get(m, a)], K)
<1> DEFINE g == [a \in K |-> Get(m, a)]
           D == DOMAIN m
           R == K \ D
<1>1. D \subseteq K /\ IsFiniteSet(D) /\ IsFiniteSet(R) /\ D \cup R = K
  BY FS_Subset DEF IsMap
<1>2. \A a \in K : g[a] \in Nat
  BY GetType
<1>3. SumFunctionOnSet(g, D \cup R)
         = SumFunctionOnSet(g, D) + SumFunctionOnSet(g, R)
  BY <1>1, <1>2, SumUnion
<1>4. SumFunctionOnSet(m, D) = SumFunctionOnSet(g, D)
  <2>1. \A a \in D : m[a] = g[a]
    BY <1>1 DEF Get
  <2> QED
    BY <1>1, <2>1, SumEqual
<1>5. SumFunctionOnSet(g, R) = 0
  <2>1. \A a \in R : g[a] = 0
    BY DEF Get
  <2> QED
    BY <1>1, <2>1, SumNat
<1>6. SumFunctionOnSet(g, D) \in Nat
  BY <1>1, <1>2, SumNat
<1>7. SumFunctionOnSet(g, K) = SumFunctionOnSet(g, D)
  BY <1>1, <1>3, <1>5, <1>6
<1> QED
  BY <1>4, <1>7 DEF SumFunction

(* The total of a map of amounts is an amount.                             *)
LEMMA SumOfMapType ==
    ASSUME NEW K, IsFiniteSet(K), NEW m, IsMap(m, K, Nat)
    PROVE  SumFunction(m) \in Nat
<1> DEFINE f == [a \in K |-> Get(m, a)]
<1>1. \A a \in K : f[a] \in Nat
  BY GetType
<1>2. SumFunction(m) = SumFunctionOnSet(f, K)
  BY SumOfMap
<1> HIDE DEF f
<1> QED
  BY <1>1, <1>2, SumNat

(* Writing one entry changes the total by the difference.                  *)
LEMMA SumPut ==
    ASSUME NEW K, IsFiniteSet(K), NEW m, IsMap(m, K, Nat), NEW a \in K,
           NEW v \in Nat
    PROVE  SumFunction(Put(m, a, v)) = (SumFunction(m) - Get(m, a)) + v
<1> DEFINE n == Put(m, a, v)
           f == [b \in K |-> Get(m, b)]
           g == [b \in K |-> Get(n, b)]
<1>1. IsMap(n, K, Nat)
  BY PutType
<1>2. \A b \in K : f[b] \in Int /\ g[b] \in Int
  BY <1>1, GetType
<1>3. f[a] = Get(m, a) /\ g[a] = v /\ \A b \in K \ {a} : f[b] = g[b]
  BY GetPut
<1>4. SumFunction(m) = SumFunctionOnSet(f, K)
  BY SumOfMap
<1>5. SumFunction(n) = SumFunctionOnSet(g, K)
  BY <1>1, SumOfMap
<1> HIDE DEF f, g, n
<1>6. SumFunctionOnSet(g, K) = (SumFunctionOnSet(f, K) - f[a]) + g[a]
  BY <1>2, <1>3, SumChange
<1> QED
  BY <1>3, <1>4, <1>5, <1>6 DEF n

(* Raising some entries, each by its own amount, raises the total by their *)
(* sum.                                                                    *)
LEMMA SumAdd ==
    ASSUME NEW K, IsFiniteSet(K), NEW m, IsMap(m, K, Nat), NEW P,
           P \subseteq K, NEW d, \A a \in P : d[a] \in Nat
    PROVE  LET r == Overwrite(m, [a \in P |-> Get(m, a) + d[a]]) IN
           /\ IsMap(r, K, Nat)
           /\ SumFunction(r) = SumFunction(m) + SumFunctionOnSet(d, P)
<1> DEFINE raised == [a \in P |-> Get(m, a) + d[a]]
           r == Overwrite(m, raised)
           R == K \ P
           f == [a \in K |-> Get(m, a)]
           g == [a \in K |-> Get(r, a)]
           h == [a \in K |-> IF a \in P THEN d[a] ELSE 0]
<1>1. \A a : Get(m, a) \in Nat
  BY GetType
<1>2. IsMap(raised, K, Nat)
  BY <1>1 DEF IsMap
<1>3. IsMap(r, K, Nat)
  BY <1>2, OverwriteType
<1>4. \A a \in K : Get(r, a) = Get(m, a) + (IF a \in P THEN d[a] ELSE 0)
  <2>1. \A a \in K : a \in P => Get(r, a) = Get(m, a) + d[a]
    BY DEF Get, Overwrite
  <2>2. \A a \in K : a \notin P => Get(r, a) = Get(m, a)
    BY DEF Get, Overwrite
  <2> QED
    BY <1>1, <2>1, <2>2
<1>5. \A a \in K : f[a] \in Int /\ h[a] \in Int /\ g[a] = f[a] + h[a]
  BY <1>1, <1>4
<1>6. /\ \A a \in P : h[a] = d[a]
      /\ \A a \in R : h[a] = 0
      /\ \A a \in K : h[a] \in Nat /\ h[a] \in Int
  OBVIOUS
<1>7. IsFiniteSet(P) /\ IsFiniteSet(R) /\ P \cap R = {} /\ P \cup R = K
  BY FS_Subset
<1>8. /\ SumFunction(m) = SumFunctionOnSet(f, K)
      /\ SumFunction(r) = SumFunctionOnSet(g, K)
      /\ SumFunction(m) \in Nat
  <2> HIDE DEF r
  <2> QED
    BY <1>3, SumOfMap, SumOfMapType
<1> HIDE DEF f, g, h, R, r
<1>9. SumFunctionOnSet(g, K) = SumFunctionOnSet(f, K) + SumFunctionOnSet(h, K)
  BY <1>5, SumPlus
<1>10. SumFunctionOnSet(h, P \cup R)
          = SumFunctionOnSet(h, P) + SumFunctionOnSet(h, R)
  BY <1>6, <1>7, SumUnion
<1>11. SumFunctionOnSet(h, P) = SumFunctionOnSet(d, P)
  BY <1>6, <1>7, SumEqual
<1>12. SumFunctionOnSet(h, R) = 0
  BY <1>6, <1>7, SumNat
<1>13. SumFunctionOnSet(d, P) \in Nat
  BY <1>7, SumNat
<1>14. SumFunction(r) = SumFunction(m) + SumFunctionOnSet(d, P)
  <2>1. SumFunctionOnSet(h, K) = SumFunctionOnSet(d, P)
    BY <1>7, <1>10, <1>11, <1>12, <1>13
  <2> QED
    BY <1>8, <1>9, <2>1
<1> QED
  BY <1>3, <1>14 DEF r

(* Raising some entries by the same amount.                                *)
LEMMA SumRaise ==
    ASSUME NEW K, IsFiniteSet(K), NEW m, IsMap(m, K, Nat), NEW P,
           P \subseteq K, NEW n \in Nat
    PROVE  LET r == Overwrite(m, [a \in P |-> Get(m, a) + n]) IN
           /\ IsMap(r, K, Nat)
           /\ SumFunction(r) = SumFunction(m) + n * Cardinality(P)
<1> DEFINE d == [a \in P |-> n]
<1>1. [a \in P |-> Get(m, a) + d[a]] = [a \in P |-> Get(m, a) + n]
  OBVIOUS
<1>2. IsFiniteSet(P) /\ \A a \in P : d[a] = n
  BY FS_Subset
<1> HIDE DEF d
<1>3. SumFunctionOnSet(d, P) = n * Cardinality(P)
  BY <1>2, SumConstant
<1>4. \A a \in P : d[a] \in Nat
  BY <1>2
<1> QED
  BY <1>1, <1>3, <1>4, SumAdd

(* The sum over two keys.                                                  *)
LEMMA SumPair ==
    ASSUME NEW x, NEW y, x # y, NEW f, f[x] \in Int, f[y] \in Int
    PROVE  SumFunctionOnSet(f, {x, y}) = f[x] + f[y]
<1>1. {x, y} \ {x} = {y} /\ {y} \ {y} = {} /\ {x, y} = {y} \cup {x}
  OBVIOUS
<1>2. IsFiniteSet({y})
  BY FS_Singleton
<1>3. IsFiniteSet({y} \cup {x})
  BY <1>2, FS_AddElement
<1>4. SumFunctionOnSet(f, {x, y}) = f[x] + SumFunctionOnSet(f, {y})
  BY <1>1, <1>3, SumRemove
<1>5. SumFunctionOnSet(f, {y}) = f[y] + SumFunctionOnSet(f, {})
  BY <1>1, <1>2, SumRemove
<1> QED
  BY <1>4, <1>5, SumEmpty

-----------------------------------------------------------------------------
(* Division *)

(* Rounding down.                                                          *)
LEMMA DivRemainder ==
    ASSUME NEW a \in Nat, NEW t \in Nat, t > 0
    PROVE  /\ a \div t \in Nat
           /\ a - t * (a \div t) \in 0..(t - 1)
OBVIOUS

(* A total of h that is divided in proportion to the weights f, each share *)
(* rounded down, is never exceeded, and less than one unit per share is    *)
(* left over.                                                              *)
LEMMA ProportionalShares ==
    ASSUME NEW S, IsFiniteSet(S), NEW f, \A x \in S : f[x] \in Nat,
           NEW t \in Nat, t = SumFunctionOnSet(f, S), t > 0, NEW h \in Nat,
           NEW g, \A x \in S : g[x] = (h * f[x]) \div t
    PROVE  /\ \A x \in S : g[x] \in Nat
           /\ SumFunctionOnSet(g, S) \in 0..h
           /\ h < SumFunctionOnSet(g, S) + Cardinality(S)
<1> DEFINE hf == [x \in S |-> h * f[x]]
           tg == [x \in S |-> t * g[x]]
           r == [x \in S |-> h * f[x] - t * g[x]]
           top == [x \in S |-> t - 1]
<1>1. ASSUME NEW x \in S
      PROVE  /\ g[x] \in Nat /\ h * f[x] \in Nat /\ t * g[x] \in Nat
             /\ h * f[x] - t * g[x] \in 0..(t - 1)
  <2>1. PICK a \in Nat : a = h * f[x]
    OBVIOUS
  <2>2. g[x] = a \div t
    BY <2>1
  <2>3. g[x] \in Nat /\ a - t * g[x] \in 0..(t - 1)
    BY <2>2, DivRemainder
  <2> QED
    BY <2>1, <2>3
<1>2. \A x \in S : /\ g[x] \in Nat /\ f[x] \in Int /\ g[x] \in Int
                    /\ hf[x] = h * f[x] /\ tg[x] = t * g[x]
                    /\ r[x] \in Nat /\ r[x] <= top[x] /\ top[x] = t - 1
                    /\ r[x] \in Int /\ tg[x] \in Int
                    /\ hf[x] = r[x] + tg[x]
  BY <1>1
<1>3. t - 1 \in Nat /\ Cardinality(S) \in Nat /\ h \in Int /\ t \in Int
  BY FS_CardinalityType
<1> HIDE DEF hf, tg, r, top
<1>4. SumFunctionOnSet(hf, S) = h * t
  BY <1>2, <1>3, SumScale
<1>5. SumFunctionOnSet(tg, S) = t * SumFunctionOnSet(g, S)
  BY <1>2, <1>3, SumScale
<1>6. SumFunctionOnSet(hf, S) = SumFunctionOnSet(r, S) + SumFunctionOnSet(tg, S)
  BY <1>2, SumPlus
<1>7. SumFunctionOnSet(top, S) = (t - 1) * Cardinality(S)
  BY <1>2, <1>3, SumConstant
<1>8. SumFunctionOnSet(r, S) <= SumFunctionOnSet(top, S)
  BY <1>2, <1>3, SumGrows
<1>9. SumFunctionOnSet(r, S) \in Nat /\ SumFunctionOnSet(g, S) \in Nat
  BY <1>2, SumNat
<1>10. S # {}
  BY SumEmpty
<1>11. Cardinality(S) > 0
  BY <1>3, <1>10, FS_EmptySet
<1>12. PICK n \in Nat : n = Cardinality(S)
  BY <1>3
<1>13. PICK q \in Nat : q = SumFunctionOnSet(g, S)
  BY <1>9
<1>14. PICK w \in Nat : w = SumFunctionOnSet(r, S)
  BY <1>9
<1>15. h * t = w + t * q /\ w <= (t - 1) * n /\ n > 0
  BY <1>4, <1>5, <1>6, <1>7, <1>8, <1>11, <1>12, <1>13, <1>14
<1>16. q <= h
  <2>1. SUFFICES ASSUME q > h PROVE FALSE
    OBVIOUS
  <2>2. t * q > h * t
    <3>1. q - h \in Nat \ {0} /\ t \in Nat \ {0}
      BY <2>1
    <3>2. t * (q - h) > 0
      BY <3>1
    <3> QED
      BY <3>2
  <2> QED
    BY <1>15, <2>2
<1>17. h < q + n
  <2>1. SUFFICES ASSUME h >= q + n PROVE FALSE
    OBVIOUS
  <2>2. PICK e \in Nat : h = (q + n) + e
    <3>1. h - (q + n) \in Nat /\ h = (q + n) + (h - (q + n))
      BY <2>1
    <3> QED
      BY <3>1
  <2>3. h * t = (t * q + t * n) + t * e /\ t * e \in Nat /\ t * q \in Nat /\ t * n \in Nat
    BY <2>2
  <2>4. (t - 1) * n = t * n - n
    OBVIOUS
  <2> QED
    BY <1>15, <2>3, <2>4
<1> QED
  BY <1>2, <1>12, <1>13, <1>16, <1>17

=============================================================================
