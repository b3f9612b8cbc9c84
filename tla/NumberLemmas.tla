----------------------------- MODULE NumberLemmas -----------------------------
(***************************************************************************)
(* Largest and smallest elements of sets of integers, which the proofs of  *)
(* several components need: Max and Min of the community modules choose an *)
(* element, and these lemmas say when there is one to choose.              *)
(***************************************************************************)
EXTENDS Integers, Sequences, FiniteSets, FiniteSetsExt, FiniteSetTheorems, TLAPS

\* A finite set of integers that is not empty has a largest element.
LEMMA LargestThere ==
  ASSUME NEW S \in SUBSET Int, IsFiniteSet(S), S # {}
  PROVE  \E m \in S : \A x \in S : m >= x
<1> DEFINE above(m) == {x \in S : x > m}
           T == {above(m) : m \in S}
<1>1. IsWellFoundedOn(StrictSubsetOrdering(S), FiniteSubsetsOf(S)) /\ FiniteSubsetsOf(S) = SUBSET S
  BY FS_StrictSubsetOrderingWellFounded, FS_FiniteSubsetsOfFinite
<1>2. T \subseteq SUBSET S /\ T # {}
  OBVIOUS
<1>3. \E U \in T : \A V \in T : <<V, U>> \notin StrictSubsetOrdering(S)
  <2> HIDE DEF T
  <2>1. IsWellFoundedOn(StrictSubsetOrdering(S), SUBSET S)
    BY <1>1
  <2> QED BY <1>2, <2>1, WFMin, Zenon
<1>4. PICK m \in S : \A x \in S : <<above(x), above(m)>> \notin StrictSubsetOrdering(S)
  BY <1>3
<1>5. ASSUME NEW x \in S, x > m PROVE FALSE
  <2>0. m \in Int /\ x \in Int /\ \A y \in S : y \in Int
    OBVIOUS
  <2>1. above(x) \subseteq above(m) /\ x \in above(m) /\ x \notin above(x)
    <3>1. \A y \in S : y > x => y > m
      BY <1>5, <2>0
    <3>2. ~(x > x)
      BY <2>0
    <3> QED BY <1>5, <3>1, <3>2
  <2>2. <<above(x), above(m)>> \in StrictSubsetOrdering(S)
    BY <2>1 DEF StrictSubsetOrdering
  <2> QED BY <1>4, <2>2
<1> QED BY <1>5

\* And a smallest.
LEMMA SmallestThere ==
  ASSUME NEW S \in SUBSET Int, IsFiniteSet(S), S # {}
  PROVE  \E m \in S : \A x \in S : m <= x
<1> DEFINE T == {0 - x : x \in S}
           f == [x \in S |-> 0 - x]
<1>1. f \in Surjection(S, T)
  BY DEF Surjection
<1>2. IsFiniteSet(T)
  <2> HIDE DEF f, T
  <2> QED BY <1>1, FS_Surjection
<1>3. \A x \in S : x \in Int /\ 0 - x \in Int
  OBVIOUS
<1>4. T \in SUBSET Int /\ T # {}
  BY <1>3
<1>5. \E m \in T : \A x \in T : m >= x
  <2> HIDE DEF T
  <2> QED BY <1>2, <1>4, LargestThere
<1>6. PICK n \in S : \A x \in S : 0 - n >= 0 - x
  BY <1>5
<1> QED BY <1>3, <1>6

\* Max and Min of a finite set of integers.
LEMMA MaxIsLargest ==
  ASSUME NEW S \in SUBSET Int, IsFiniteSet(S), S # {}
  PROVE  Max(S) \in S /\ \A x \in S : x <= Max(S)
BY LargestThere DEF Max

LEMMA MinIsSmallest ==
  ASSUME NEW S \in SUBSET Int, IsFiniteSet(S), S # {}
  PROVE  Min(S) \in S /\ \A x \in S : Min(S) <= x
BY SmallestThere DEF Min

\* A set of natural numbers need not be finite to have a smallest element: this stands in for
\* induction.
LEMMA LeastNumber ==
  ASSUME NEW S \in SUBSET Nat, S # {}
  PROVE  \E m \in S : \A x \in S : m <= x
<1> PICK n \in S : TRUE
  OBVIOUS
<1> DEFINE T == S \cap (0 .. n)
<1>1. IsFiniteSet(0 .. n)
  BY FS_Interval
<1>2. IsFiniteSet(T) /\ T \in SUBSET Int /\ n \in T
  BY <1>1, FS_Subset
<1>3. PICK m \in T : \A x \in T : m <= x
  <2> HIDE DEF T
  <2> QED BY <1>2, SmallestThere
<1>4. ASSUME NEW x \in S PROVE m <= x
  <2>1. CASE x \in T
    BY <1>3, <2>1
  <2>2. CASE x \notin T
    BY <2>2
  <2> QED BY <2>1, <2>2
<1> QED BY <1>3, <1>4

\* A finite set of integers with an integer added.
LEMMA MaxWith ==
  ASSUME NEW S \in SUBSET Int, IsFiniteSet(S), NEW n \in Int
  PROVE  /\ Max({n} \cup S) \in Int /\ Max({n} \cup S) >= n
         /\ \A x \in S : x <= Max({n} \cup S)
         /\ Max({n} \cup S) = n \/ Max({n} \cup S) \in S
<1> DEFINE T == {n} \cup S
<1>1. T = S \cup {n} /\ IsFiniteSet(S \cup {n})
  BY FS_AddElement
<1>2. T \in SUBSET Int /\ IsFiniteSet(T) /\ T # {}
  BY <1>1
<1>3. Max(T) \in T /\ \A x \in T : x <= Max(T)
  <2> HIDE DEF T
  <2> QED BY <1>2, MaxIsLargest
<1>4. Max(T) \in Int
  BY <1>2, <1>3
<1> QED BY <1>3, <1>4

\* Positions of a list, with 0 for none.
LEMMA MaxPosition ==
  ASSUME NEW k \in Nat, NEW S \in SUBSET (1 .. k)
  PROVE  /\ Max({0} \cup S) \in 0 .. k
         /\ \A x \in S : x <= Max({0} \cup S)
         /\ Max({0} \cup S) = 0 \/ Max({0} \cup S) \in S
<1>1. IsFiniteSet(1 .. k)
  BY FS_Interval
<1>2. IsFiniteSet(S) /\ S \in SUBSET Int /\ 0 \in Int
  <2>1. IsFiniteSet(S)
    BY <1>1, FS_Subset
  <2> QED BY <2>1
<1>3. /\ Max({0} \cup S) \in Int /\ Max({0} \cup S) >= 0
      /\ \A x \in S : x <= Max({0} \cup S)
      /\ Max({0} \cup S) = 0 \/ Max({0} \cup S) \in S
  BY <1>2, MaxWith
<1> QED BY <1>3

\* As many numbers as one counts.
LEMMA CountTo ==
  ASSUME NEW k \in Nat
  PROVE  IsFiniteSet(1 .. k) /\ Cardinality(1 .. k) = k
<1>1. IsFiniteSet(1 .. k) /\ Cardinality(1 .. k) = IF 1 > k THEN 0 ELSE k - 1 + 1
  BY FS_Interval
<1> QED BY <1>1

\* The values of a function on a finite set.
LEMMA ValuesFinite ==
  ASSUME NEW D, IsFiniteSet(D), NEW f, f \in [D -> Int], D # {}
  PROVE  /\ Min({f[n] : n \in D}) \in Int /\ Max({f[n] : n \in D}) \in Int
         /\ \E n \in D : Min({f[m] : m \in D}) = f[n]
         /\ \E n \in D : Max({f[m] : m \in D}) = f[n]
         /\ \A n \in D : Min({f[m] : m \in D}) <= f[n] /\ f[n] <= Max({f[m] : m \in D})
<1> DEFINE S == {f[n] : n \in D}
<1>1. f \in Surjection(D, S)
  BY DEF Surjection
<1>2. IsFiniteSet(S)
  <2> HIDE DEF S
  <2> QED BY <1>1, FS_Surjection
<1>3. S \in SUBSET Int /\ S # {}
  OBVIOUS
<1>4. Min(S) \in S /\ Max(S) \in S /\ \A x \in S : Min(S) <= x /\ x <= Max(S)
  <2> HIDE DEF S
  <2> QED BY <1>2, <1>3, MinIsSmallest, MaxIsLargest
<1> QED BY <1>3, <1>4

LEMMA ImageFinite ==
  ASSUME NEW D, IsFiniteSet(D), NEW f
  PROVE  IsFiniteSet({f[n] : n \in D})
<1> DEFINE S == {f[n] : n \in D}
           g == [n \in D |-> f[n]]
<1>1. g \in Surjection(D, S)
  BY DEF Surjection
<1> HIDE DEF g
<1>2. IsFiniteSet(S)
  <2> HIDE DEF S
  <2> QED BY <1>1, FS_Surjection
<1> QED BY <1>2

\* Two lists, one behind the other.
LEMMA ConcatIs ==
  ASSUME NEW S, NEW a \in Seq(S), NEW b \in Seq(S)
  PROVE  /\ a \o b \in Seq(S) /\ Len(a \o b) = Len(a) + Len(b)
         /\ \A n \in 1 .. Len(a) : (a \o b)[n] = a[n]
         /\ \A n \in 1 .. Len(b) : (a \o b)[Len(a) + n] = b[n]
OBVIOUS

\* The two parts that a sequence is cut into.
LEMMA CutIs ==
  ASSUME NEW S, NEW s \in Seq(S), NEW p \in 0 .. Len(s)
  PROVE  /\ SubSeq(s, 1, p) \in Seq(S) /\ Len(SubSeq(s, 1, p)) = p
         /\ \A n \in 1 .. p : SubSeq(s, 1, p)[n] = s[n]
         /\ SubSeq(s, p + 1, Len(s)) \in Seq(S) /\ Len(SubSeq(s, p + 1, Len(s))) = Len(s) - p
         /\ \A n \in 1 .. Len(s) - p : SubSeq(s, p + 1, Len(s))[n] = s[n + p]
<1>1. Len(s) \in Nat
  OBVIOUS
<1>2. SubSeq(s, 1, p) \in Seq(S) /\ Len(SubSeq(s, 1, p)) = p
  BY <1>1
<1>3. \A n \in 1 .. p : SubSeq(s, 1, p)[n] = s[n]
  BY <1>1
<1>4. SubSeq(s, p + 1, Len(s)) \in Seq(S)
  BY <1>1
<1>5. Len(SubSeq(s, p + 1, Len(s))) = Len(s) - p
  BY <1>1
<1>6. \A n \in 1 .. Len(s) - p : SubSeq(s, p + 1, Len(s))[n] = s[n + p]
  BY <1>1
<1> QED BY <1>2, <1>3, <1>4, <1>5, <1>6
=============================================================================
