----------------------------- MODULE SumsProofs -----------------------------
(***************************************************************************)
(* What a sum over a finite set of rows is, for every column of integers.  *)
(*                                                                         *)
(* A fold is a function over the subsets of its set that CHOOSE picks by   *)
(* an equation.  That such a function exists is proved here by taking a    *)
(* subset that has none and is minimal with respect to strict inclusion:   *)
(* an induction over sets, which needs no operator parameter.              *)
(***************************************************************************)
EXTENDS Sums, FiniteSetTheorems, WellFoundedInduction, TLAPS

Pick(S) == CHOOSE x \in S : TRUE

(* f tells the sum of c over every subset of S. *)
Tells(f, c, S) ==
    f = [s \in SUBSET S |-> IF s = {} THEN 0
                            ELSE c[Pick(s)] + f[s \ {Pick(s)}]]

(* A set of subsets that has every subset whose strict subsets it has, has
   them all. *)
LEMMA SubsetInduction ==
    ASSUME NEW A, IsFiniteSet(A), NEW G,
           \A s \in SUBSET A : (\A r \in SUBSET s : r # s => r \in G) => s \in G
    PROVE  \A s \in SUBSET A : s \in G
  <1> DEFINE Bad == {s \in SUBSET A : s \notin G}
  <1> SUFFICES ASSUME Bad # {} PROVE FALSE
    OBVIOUS
  <1> DEFINE Finite == FiniteSubsetsOf(A)
             Under == StrictSubsetOrdering(A)
  <1>1. Bad \subseteq Finite
    BY FS_FiniteSubsetsOfFinite
  <1>2. IsWellFoundedOn(Under, Finite)
    BY FS_StrictSubsetOrderingWellFounded
  <1>3. PICK m \in Bad : \A r \in Bad : ~(<<r, m>> \in Under)
    <2> HIDE DEF Bad, Finite, Under
    <2> QED
      BY <1>1, <1>2, WFMin
  <1>4. \A r \in SUBSET m : r # m => r \in G
    BY <1>3 DEF StrictSubsetOrdering
  <1> QED
    BY <1>3, <1>4

(* Two functions that tell sums of the same column tell the same. *)
LEMMA TellsOnce ==
    ASSUME NEW A, IsFiniteSet(A), NEW B, A \subseteq B, NEW c, NEW f, NEW g,
           Tells(f, c, A), Tells(g, c, B)
    PROVE  \A s \in SUBSET A : f[s] = g[s]
  <1> DEFINE G == {s \in SUBSET A : f[s] = g[s]}
  <1>1. ASSUME NEW s \in SUBSET A, \A r \in SUBSET s : r # s => r \in G
        PROVE  s \in G
    <2>1. CASE s = {}
      BY <2>1 DEF Tells
    <2>2. CASE s # {}
      <3>1. Pick(s) \in s
        BY <2>2 DEF Pick
      <3>2. s \ {Pick(s)} \in G
        BY <1>1, <3>1
      <3>3. f[s] = c[Pick(s)] + f[s \ {Pick(s)}]
        BY <2>2 DEF Tells
      <3>4. g[s] = c[Pick(s)] + g[s \ {Pick(s)}]
        BY <2>2 DEF Tells
      <3> QED
        BY <3>2, <3>3, <3>4
    <2> QED
      BY <2>1, <2>2
  <1> HIDE DEF G
  <1>2. \A s \in SUBSET A : s \in G
    BY <1>1, SubsetInduction
  <1> QED
    BY <1>2 DEF G

(* Every finite set of rows has a function that tells its sums. *)
LEMMA TellsExists ==
    ASSUME NEW A, IsFiniteSet(A), NEW c
    PROVE  \E f : Tells(f, c, A)
  <1> DEFINE G == {s \in SUBSET A : \E f : Tells(f, c, s)}
             Best(s) == CHOOSE f : Tells(f, c, s)
  <1>1. ASSUME NEW s \in SUBSET A, \A r \in SUBSET s : r # s => r \in G
        PROVE  s \in G
    <2> DEFINE f == [r \in SUBSET s |->
                       IF r = {} THEN 0
                       ELSE c[Pick(r)] + Best(r \ {Pick(r)})[r \ {Pick(r)}]]
    <2>1. \A r \in SUBSET s : r # s => Tells(Best(r), c, r)
      BY <1>1
    <2>2. ASSUME NEW r \in SUBSET s, r # s PROVE f[r] = Best(r)[r]
      <3>1. Tells(Best(r), c, r)
        BY <2>1, <2>2
      <3>2. CASE r = {}
        BY <3>1, <3>2 DEF Tells
      <3>3. CASE r # {}
        <4> DEFINE x == Pick(r)
                   q == r \ {x}
        <4>1. x \in r
          BY <3>3 DEF Pick
        <4>2. q \subseteq r /\ q # s /\ q \in SUBSET s
          BY <4>1
        <4>3. Tells(Best(q), c, q)
          BY <2>1, <4>2
        <4>4. IsFiniteSet(q)
          BY FS_Subset
        <4>5. Best(q)[q] = Best(r)[q]
          <5> HIDE DEF q, Best
          <5> QED
            BY <3>1, <4>2, <4>3, <4>4, TellsOnce
        <4>6. Best(r)[r] = c[x] + Best(r)[q]
          <5> HIDE DEF Best
          <5> QED
            BY <3>1, <3>3 DEF Tells
        <4>7. f[r] = c[x] + Best(q)[q]
          BY <3>3
        <4> QED
          BY <4>5, <4>6, <4>7
      <3> QED
        BY <3>2, <3>3
    <2>3. Tells(f, c, s)
      <3>1. ASSUME NEW r \in SUBSET s, r # {}
            PROVE  f[r] = c[Pick(r)] + f[r \ {Pick(r)}]
        <4>1. Pick(r) \in r
          BY <3>1 DEF Pick
        <4>2. r \ {Pick(r)} \in SUBSET s /\ r \ {Pick(r)} # s
          BY <4>1
        <4>3. f[r \ {Pick(r)}] = Best(r \ {Pick(r)})[r \ {Pick(r)}]
          BY <2>2, <4>2
        <4> QED
          BY <3>1, <4>3
      <3>2. f = [r \in SUBSET s |-> f[r]]
        OBVIOUS
      <3>3. f[{}] = 0
        OBVIOUS
      <3> HIDE DEF f
      <3> QED
        BY <3>1, <3>2, <3>3 DEF Tells
    <2> QED
      BY <2>3
  <1> HIDE DEF G
  <1>2. \A s \in SUBSET A : s \in G
    BY <1>1, SubsetInduction
  <1>3. A \in G
    BY <1>2
  <1> QED
    BY <1>3 DEF G

(* The sum of a finite set of rows is what such a function tells. *)
LEMMA SumTold ==
    ASSUME NEW A, IsFiniteSet(A), NEW c, NEW f, Tells(f, c, A)
    PROVE  \A s \in SUBSET A : SumOf(c, s) = f[s]
  <1> SUFFICES ASSUME NEW s \in SUBSET A PROVE SumOf(c, s) = f[s]
    OBVIOUS
  <1> DEFINE g == CHOOSE h : Tells(h, c, s)
  <1>1. IsFiniteSet(s)
    BY FS_Subset
  <1>2. Tells(g, c, s)
    BY <1>1, TellsExists
  <1>3. SumOf(c, s) = g[s]
    BY Zenon DEF SumOf, FoldFunctionOnSet, MapThenFoldSet, Tells, Plus, Pick
  <1> HIDE DEF g
  <1>4. g[s] = f[s]
    BY <1>1, <1>2, TellsOnce
  <1> QED
    BY <1>3, <1>4

(* No rows add up to nothing. *)
LEMMA SumEmpty == ASSUME NEW c PROVE SumOf(c, {}) = 0
  <1>1. IsFiniteSet({})
    BY FS_EmptySet
  <1>2. PICK f : Tells(f, c, {})
    BY <1>1, TellsExists
  <1>3. SumOf(c, {}) = f[{}]
    BY <1>1, <1>2, SumTold
  <1> QED
    BY <1>2, <1>3 DEF Tells

(* The row that the fold takes first. *)
LEMMA SumPicked ==
    ASSUME NEW c, NEW S, IsFiniteSet(S), S # {}
    PROVE  /\ Pick(S) \in S
           /\ SumOf(c, S) = c[Pick(S)] + SumOf(c, S \ {Pick(S)})
  <1>1. PICK f : Tells(f, c, S)
    BY TellsExists
  <1>2. SumOf(c, S) = f[S] /\ SumOf(c, S \ {Pick(S)}) = f[S \ {Pick(S)}]
    BY <1>1, SumTold
  <1>3. f[S] = c[Pick(S)] + f[S \ {Pick(S)}]
    BY <1>1 DEF Tells
  <1> QED
    BY <1>2, <1>3 DEF Pick

(* Integers add up to an integer. *)
LEMMA SumInt ==
    ASSUME NEW c, NEW S, IsFiniteSet(S), \A x \in S : c[x] \in Int
    PROVE  SumOf(c, S) \in Int
  <1> DEFINE G == {s \in SUBSET S : SumOf(c, s) \in Int}
  <1>1. ASSUME NEW s \in SUBSET S, \A r \in SUBSET s : r # s => r \in G
        PROVE  s \in G
    <2>1. CASE s = {}
      BY <2>1, SumEmpty
    <2>2. CASE s # {}
      <3>1. /\ Pick(s) \in s
            /\ SumOf(c, s) = c[Pick(s)] + SumOf(c, s \ {Pick(s)})
        BY <2>2, FS_Subset, SumPicked
      <3>2. s \ {Pick(s)} \in G
        BY <1>1, <3>1
      <3>3. SumOf(c, s \ {Pick(s)}) \in Int /\ c[Pick(s)] \in Int
        BY <3>1, <3>2
      <3> QED
        BY <3>1, <3>3
    <2> QED
      BY <2>1, <2>2
  <1> HIDE DEF G
  <1>2. S \in G
    BY <1>1, SubsetInduction
  <1> QED
    BY <1>2 DEF G

(* Any row may be taken first. *)
LEMMA SumApart ==
    ASSUME NEW c, NEW S, IsFiniteSet(S), \A x \in S : c[x] \in Int, NEW e \in S
    PROVE  SumOf(c, S) = c[e] + SumOf(c, S \ {e})
  <1> DEFINE G == {s \in SUBSET S :
                     \A y \in s : SumOf(c, s) = c[y] + SumOf(c, s \ {y})}
  <1>1. ASSUME NEW s \in SUBSET S, \A r \in SUBSET s : r # s => r \in G
        PROVE  s \in G
    <2> SUFFICES ASSUME NEW y \in s
                 PROVE  SumOf(c, s) = c[y] + SumOf(c, s \ {y})
      OBVIOUS
    <2> DEFINE x == Pick(s)
               rest == (s \ {x}) \ {y}
    <2>1. x \in s /\ SumOf(c, s) = c[x] + SumOf(c, s \ {x})
      BY FS_Subset, SumPicked
    <2>2. CASE y = x
      BY <2>1, <2>2
    <2>3. CASE y # x
      <3>1. s \ {x} \in G /\ y \in s \ {x}
        BY <1>1, <2>1, <2>3
      <3>2. s \ {y} \in G /\ x \in s \ {y}
        BY <1>1, <2>1, <2>3
      <3>3. rest = (s \ {y}) \ {x}
        OBVIOUS
      <3>4. SumOf(c, s \ {x}) = c[y] + SumOf(c, rest)
        BY <3>1
      <3>5. SumOf(c, s \ {y}) = c[x] + SumOf(c, rest)
        BY <3>2, <3>3
      <3>6. c[x] \in Int /\ c[y] \in Int
        BY <2>1
      <3>7. SumOf(c, rest) \in Int
        <4>1. IsFiniteSet(rest) /\ rest \subseteq S
          BY FS_Subset
        <4> HIDE DEF rest
        <4> QED
          BY <4>1, SumInt
      <3> HIDE DEF x, rest
      <3> QED
        BY <2>1, <3>4, <3>5, <3>6, <3>7
    <2> QED
      BY <2>2, <2>3
  <1> HIDE DEF G
  <1>2. S \in G
    BY <1>1, SubsetInduction
  <1> QED
    BY <1>2 DEF G

(* A new row adds its value. *)
LEMMA SumWith ==
    ASSUME NEW c, NEW S, IsFiniteSet(S), NEW e, e \notin S,
           \A x \in S \cup {e} : c[x] \in Int
    PROVE  SumOf(c, S \cup {e}) = SumOf(c, S) + c[e]
  <1>1. IsFiniteSet(S \cup {e})
    BY FS_AddElement
  <1>2. (S \cup {e}) \ {e} = S
    OBVIOUS
  <1>3. SumOf(c, S \cup {e}) = c[e] + SumOf(c, (S \cup {e}) \ {e})
    BY <1>1, SumApart
  <1>4. SumOf(c, S) \in Int
    BY SumInt
  <1>5. SumOf(c, S \cup {e}) = c[e] + SumOf(c, S) /\ c[e] \in Int
    BY <1>2, <1>3
  <1> HIDE DEF SumOf
  <1> QED
    BY <1>4, <1>5

(* Rows that read the same add up to the same. *)
LEMMA SumSame ==
    ASSUME NEW c, NEW d, NEW S, IsFiniteSet(S), \A x \in S : c[x] = d[x]
    PROVE  SumOf(c, S) = SumOf(d, S)
  <1> DEFINE G == {s \in SUBSET S : SumOf(c, s) = SumOf(d, s)}
  <1>1. ASSUME NEW s \in SUBSET S, \A r \in SUBSET s : r # s => r \in G
        PROVE  s \in G
    <2>1. CASE s = {}
      BY <2>1, SumEmpty
    <2>2. CASE s # {}
      <3>1. /\ Pick(s) \in s
            /\ SumOf(c, s) = c[Pick(s)] + SumOf(c, s \ {Pick(s)})
            /\ SumOf(d, s) = d[Pick(s)] + SumOf(d, s \ {Pick(s)})
        BY <2>2, FS_Subset, SumPicked
      <3>2. s \ {Pick(s)} \in G
        BY <1>1, <3>1
      <3> QED
        BY <3>1, <3>2
    <2> QED
      BY <2>1, <2>2
  <1> HIDE DEF G
  <1>2. S \in G
    BY <1>1, SubsetInduction
  <1> QED
    BY <1>2 DEF G

(* One row that changes by k changes the sum by k. *)
LEMMA SumMoved ==
    ASSUME NEW c, NEW d, NEW S, IsFiniteSet(S), NEW e \in S, NEW k \in Int,
           \A x \in S : c[x] \in Int,
           \A x \in S : x # e => d[x] = c[x],
           d[e] = c[e] + k
    PROVE  SumOf(d, S) = SumOf(c, S) + k
  <1>1. IsFiniteSet(S \ {e})
    BY FS_Subset
  <1>2. SumOf(d, S \ {e}) = SumOf(c, S \ {e})
    BY <1>1, SumSame
  <1>3. SumOf(c, S) = c[e] + SumOf(c, S \ {e})
    BY SumApart
  <1>4. SumOf(d, S) = d[e] + SumOf(d, S \ {e})
    <2>1. \A x \in S : d[x] \in Int
      OBVIOUS
    <2> QED
      BY <2>1, SumApart
  <1>5. SumOf(c, S \ {e}) \in Int
    BY <1>1, SumInt
  <1> QED
    BY <1>2, <1>3, <1>4, <1>5

(* Amounts that are not negative do not add up to less than nothing. *)
LEMMA SumNat ==
    ASSUME NEW c, NEW S, IsFiniteSet(S), \A x \in S : c[x] \in Nat
    PROVE  SumOf(c, S) \in Nat
  <1> DEFINE G == {s \in SUBSET S : SumOf(c, s) \in Nat}
  <1>1. ASSUME NEW s \in SUBSET S, \A r \in SUBSET s : r # s => r \in G
        PROVE  s \in G
    <2>1. CASE s = {}
      BY <2>1, SumEmpty
    <2>2. CASE s # {}
      <3>1. /\ Pick(s) \in s
            /\ SumOf(c, s) = c[Pick(s)] + SumOf(c, s \ {Pick(s)})
        BY <2>2, FS_Subset, SumPicked
      <3>2. s \ {Pick(s)} \in G
        BY <1>1, <3>1
      <3>3. SumOf(c, s \ {Pick(s)}) \in Nat /\ c[Pick(s)] \in Nat
        BY <3>1, <3>2
      <3> QED
        BY <3>1, <3>3
    <2> QED
      BY <2>1, <2>2
  <1> HIDE DEF G
  <1>2. S \in G
    BY <1>1, SubsetInduction
  <1> QED
    BY <1>2 DEF G

(* Rows that do not count may stay, with nothing in them. *)
LEMMA SumMasked ==
    ASSUME NEW c, NEW m, NEW S, IsFiniteSet(S), NEW T \in SUBSET S,
           \A x \in T : c[x] \in Int,
           \A x \in S : m[x] = IF x \in T THEN c[x] ELSE 0
    PROVE  SumOf(m, S) = SumOf(c, T)
  <1> DEFINE G == {s \in SUBSET S : SumOf(m, s) = SumOf(c, s \cap T)}
  <1>1. ASSUME NEW s \in SUBSET S, \A r \in SUBSET s : r # s => r \in G
        PROVE  s \in G
    <2>1. CASE s = {}
      <3>1. s \cap T = {}
        BY <2>1
      <3> QED
        BY <2>1, <3>1, SumEmpty
    <2>2. CASE s # {}
      <3> DEFINE e == Pick(s)
      <3>1. e \in s /\ SumOf(m, s) = m[e] + SumOf(m, s \ {e})
        BY <2>2, FS_Subset, SumPicked
      <3> HIDE DEF e
      <3>2. SumOf(m, s \ {e}) = SumOf(c, (s \ {e}) \cap T)
        BY <1>1, <3>1
      <3>3. CASE e \in T
        <4>1. IsFiniteSet(s \cap T) /\ e \in s \cap T
          BY <3>1, <3>3, FS_Subset
        <4>2. SumOf(c, s \cap T) = c[e] + SumOf(c, (s \cap T) \ {e})
          BY <4>1, SumApart
        <4>3. (s \cap T) \ {e} = (s \ {e}) \cap T
          OBVIOUS
        <4> QED
          BY <3>1, <3>2, <3>3, <4>2, <4>3
      <3>4. CASE e \notin T
        <4>1. (s \ {e}) \cap T = s \cap T /\ IsFiniteSet(s \cap T) /\ m[e] = 0
          BY <3>1, <3>4, FS_Subset
        <4>2. SumOf(c, s \cap T) \in Int
          BY <4>1, SumInt
        <4>3. SumOf(c, (s \ {e}) \cap T) = SumOf(c, s \cap T)
          BY <4>1, Zenon
        <4>4. SumOf(m, s) = 0 + SumOf(c, s \cap T)
          BY <3>1, <3>2, <4>1, <4>3
        <4> QED
          BY <4>2, <4>4
      <3> QED
        BY <3>3, <3>4
    <2> QED
      BY <2>1, <2>2
  <1> HIDE DEF G
  <1>2. S \in G
    BY <1>1, SubsetInduction
  <1>3. S \cap T = T
    OBVIOUS
  <1> QED
    BY <1>2, <1>3 DEF G

(* Row by row no more, no more in sum. *)
LEMMA SumAtMost ==
    ASSUME NEW c, NEW d, NEW S, IsFiniteSet(S),
           \A x \in S : c[x] \in Int /\ d[x] \in Int /\ c[x] <= d[x]
    PROVE  SumOf(c, S) <= SumOf(d, S)
  <1> DEFINE G == {s \in SUBSET S : SumOf(c, s) <= SumOf(d, s)}
  <1>1. ASSUME NEW s \in SUBSET S, \A r \in SUBSET s : r # s => r \in G
        PROVE  s \in G
    <2>1. CASE s = {}
      <3>1. SumOf(c, s) = 0 /\ SumOf(d, s) = 0
        BY <2>1, SumEmpty
      <3> QED
        BY <3>1
    <2>2. CASE s # {}
      <3> DEFINE e == Pick(s)
      <3>1. /\ e \in s
            /\ SumOf(c, s) = c[e] + SumOf(c, s \ {e})
            /\ SumOf(d, s) = d[e] + SumOf(d, s \ {e})
        BY <2>2, FS_Subset, SumPicked
      <3> HIDE DEF e
      <3>2. SumOf(c, s \ {e}) <= SumOf(d, s \ {e})
        BY <1>1, <3>1
      <3>3. IsFiniteSet(s \ {e})
        BY FS_Subset
      <3>4. SumOf(c, s \ {e}) \in Int /\ SumOf(d, s \ {e}) \in Int
        BY <3>3, SumInt
      <3> QED
        BY <3>1, <3>2, <3>4
    <2> QED
      BY <2>1, <2>2
  <1> HIDE DEF G
  <1>2. S \in G
    BY <1>1, SubsetInduction
  <1> QED
    BY <1>2 DEF G
=============================================================================
