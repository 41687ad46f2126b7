------------------------------ MODULE FoldLemmas ------------------------------
(***************************************************************************)
(* What the proofs about folds and recursive functions have in common: a   *)
(* set of naturals has a least one, a fold over a finite set and a         *)
(* recursion over the naturals are well defined when their steps stay in a *)
(* set, and what every step keeps, the fold keeps.  Steps are functions    *)
(* here and not operators, so that each fold can be given as a value.      *)
(***************************************************************************)
EXTENDS Integers, SequencesExt, FiniteSetsExt, TLAPS, SequenceTheorems, FiniteSetTheorems

\* A set of naturals has a least one.
LEMMA LeastNatural ==
    ASSUME NEW S \in SUBSET Nat, S # {}
    PROVE  \E n \in S : \A m \in S : n <= m
  <1>1. \E n \in S : \A m \in S : ~ (<<m, n>> \in OpToRel(<, Nat))
    BY NatLessThanWellFounded, WFMin
  <1>2. PICK n \in S : \A m \in S : ~ (<<m, n>> \in OpToRel(<, Nat))
    BY <1>1
  <1>3. \A m \in S : ~ (m < n)
    BY <1>2 DEF OpToRel
  <1> QED
    BY <1>3

\* Induction over the numbers up to a bound, for a set in the place of a
\* predicate.
LEMMA UpTo ==
    ASSUME NEW n \in Nat, NEW T, 0 \in T,
           \A m \in 1..n : m - 1 \in T => m \in T
    PROVE  0..n \subseteq T
  <1> SUFFICES ASSUME (0..n) \ T # {}
               PROVE  FALSE
    OBVIOUS
  <1> DEFINE S == (0..n) \ T
  <1>0. S \in SUBSET Nat /\ S # {}
    OBVIOUS
  <1>1. PICK m \in S : \A k \in S : m <= k
    <2> HIDE DEF S
    <2> QED
      BY <1>0, LeastNatural
  <1>2. m \in 1..n /\ m - 1 \in 0..n
    BY <1>1
  <1>3. m - 1 \in T
    BY <1>1, <1>2
  <1> QED
    BY <1>1, <1>2, <1>3

\* The largest of a set of numbers up to a bound.
LEMMA MaxUpTo ==
    ASSUME NEW n \in Nat, NEW s \in SUBSET (1..n), s # {}
    PROVE  Max(s) \in s /\ \A m \in s : m <= Max(s)
  <1> DEFINE S == { n - m : m \in s }
  <1>1. S \in SUBSET Nat /\ S # {}
    <2>1. \A m \in s : n - m \in Nat
      OBVIOUS
    <2>2. PICK m \in s : TRUE
      OBVIOUS
    <2>3. n - m \in S
      OBVIOUS
    <2> QED
      BY <2>1, <2>3
  <1>2. PICK k \in S : \A m \in S : k <= m
    <2> HIDE DEF S
    <2> QED
      BY <1>1, LeastNatural
  <1>3. PICK l \in s : k = n - l
    OBVIOUS
  <1>4. ASSUME NEW m \in s
        PROVE  l >= m
    <2>1. n - m \in S
      OBVIOUS
    <2>2. n - l <= n - m
      BY <1>2, <1>3, <2>1
    <2> QED
      BY <2>2
  <1>5. \E x \in s : \A y \in s : x >= y
    BY <1>4
  <1>6. Max(s) \in s /\ \A m \in s : Max(s) >= m
    BY <1>5 DEF Max
  <1> QED
    BY <1>6

\* The largest of the first numbers, and what is left without it.
LEMMA MaxOfFirst ==
    ASSUME NEW m \in Nat, m > 0
    PROVE  1..m # {} /\ Max(1..m) = m /\ (1..m) \ {Max(1..m)} = 1..(m - 1)
  <1>1. 1..m \in SUBSET (1..m) /\ m \in 1..m
    OBVIOUS
  <1>2. Max(1..m) \in 1..m /\ \A k \in 1..m : k <= Max(1..m)
    BY <1>1, MaxUpTo
  <1>3. Max(1..m) = m
    BY <1>1, <1>2
  <1> QED
    BY <1>1, <1>3

-----------------------------------------------------------------------------
(* Folds over a finite set, whose elements are picked one by one.          *)

\* The picked element of every set is one of it.
Picks(pick, S) == \A s \in SUBSET S : s # {} => pick[s] \in s

\* The function that takes one step per element, from the base on.
IsSetFold(it, S, pick, base, step) ==
    \A s \in SUBSET S :
        it[s] = IF s = {} THEN base ELSE step[<<it[s \ {pick[s]}], pick[s]>>]

\* A set without one of its elements is smaller.
LEMMA Smaller ==
    ASSUME NEW S, IsFiniteSet(S), NEW s \in SUBSET S, NEW x \in s
    PROVE  /\ Cardinality(s) \in 1..Cardinality(S)
           /\ Cardinality(s \ {x}) = Cardinality(s) - 1
  <1>1. IsFiniteSet(s) /\ Cardinality(s) <= Cardinality(S)
    BY FS_Subset
  <1>2. Cardinality(s \ {x}) = Cardinality(s) - 1 /\ IsFiniteSet(s \ {x})
    BY <1>1, FS_RemoveElement
  <1>3. Cardinality(s) \in Nat /\ Cardinality(s \ {x}) \in Nat /\ Cardinality(S) \in Nat
    BY <1>1, <1>2, FS_CardinalityType
  <1> QED
    BY <1>1, <1>2, <1>3

\* The function that folds a step over every subset of a finite set exists.
LEMMA SetFoldExists ==
    ASSUME NEW S, IsFiniteSet(S), NEW G, NEW base \in G, NEW step \in [G \X S -> G],
           NEW pick, Picks(pick, S)
    PROVE  \E it \in [SUBSET S -> G] : IsSetFold(it, S, pick, base, step)
  <1> DEFINE n == Cardinality(S)
             UpToSize(m) == { s \in SUBSET S : Cardinality(s) <= m }
             Folds(it, m) ==
                 /\ it \in [UpToSize(m) -> G]
                 /\ \A s \in UpToSize(m) :
                        it[s] = IF s = {} THEN base ELSE step[<<it[s \ {pick[s]}], pick[s]>>]
             T == { m \in 0..n : \E it : Folds(it, m) }
  <1>0. n \in Nat /\ \A s \in SUBSET S : Cardinality(s) \in 0..n
    <2>1. n \in Nat
      BY FS_CardinalityType
    <2>2. ASSUME NEW s \in SUBSET S
          PROVE  Cardinality(s) \in 0..n
      <3>1. IsFiniteSet(s) /\ Cardinality(s) <= n
        BY FS_Subset
      <3>2. Cardinality(s) \in Nat
        BY <3>1, FS_CardinalityType
      <3> QED
        BY <2>1, <3>1, <3>2
    <2> QED
      BY <2>1, <2>2
  <1>1. 0 \in T
    <2> DEFINE it == [s \in UpToSize(0) |-> base]
    <2>1. ASSUME NEW s \in UpToSize(0)
          PROVE  s = {}
      <3> SUFFICES ASSUME NEW x \in s
                   PROVE  FALSE
        OBVIOUS
      <3>1. s \in SUBSET S /\ Cardinality(s) <= 0
        OBVIOUS
      <3>2. Cardinality(s) \in 1..n
        BY <3>1, Smaller
      <3> QED
        BY <1>0, <3>1, <3>2
    <2>2. Folds(it, 0)
      <3> HIDE DEF UpToSize
      <3> QED
        BY <2>1
    <2>3. 0 \in 0..n
      BY <1>0
    <2> HIDE DEF Folds
    <2> QED
      BY <2>2, <2>3
  <1>2. ASSUME NEW m \in 1..n, m - 1 \in T
        PROVE  m \in T
    <2>1. PICK it : Folds(it, m - 1)
      BY <1>2
    <2> DEFINE more == [s \in UpToSize(m) |->
                   IF s = {} THEN base ELSE step[<<it[s \ {pick[s]}], pick[s]>>]]
    <2>2. ASSUME NEW s \in UpToSize(m), s # {}
          PROVE  pick[s] \in S /\ s \ {pick[s]} \in UpToSize(m - 1)
      <3>1. pick[s] \in s /\ s \in SUBSET S /\ Cardinality(s) <= m
        BY <2>2 DEF Picks
      <3>2. Cardinality(s \ {pick[s]}) = Cardinality(s) - 1 /\ Cardinality(s) \in 1..n
        BY <3>1, Smaller
      <3> QED
        BY <1>0, <3>1, <3>2
    <2>3. more \in [UpToSize(m) -> G]
      <3> SUFFICES ASSUME NEW s \in UpToSize(m), s # {}
                   PROVE  step[<<it[s \ {pick[s]}], pick[s]>>] \in G
        OBVIOUS
      <3>1. it[s \ {pick[s]}] \in G /\ pick[s] \in S
        <4> HIDE DEF UpToSize
        <4> QED
          BY <2>1, <2>2
      <3> HIDE DEF UpToSize, Folds
      <3> QED
        BY <3>1
    <2>4. ASSUME NEW s \in UpToSize(m - 1)
          PROVE  s \in UpToSize(m) /\ more[s] = it[s]
      <3>1. s \in UpToSize(m)
        BY <1>0
      <3> HIDE DEF UpToSize
      <3> QED
        BY <2>1, <3>1
    <2>5. ASSUME NEW s \in UpToSize(m)
          PROVE  more[s] = IF s = {} THEN base ELSE step[<<more[s \ {pick[s]}], pick[s]>>]
      <3>1. s # {} => more[s \ {pick[s]}] = it[s \ {pick[s]}]
        <4> HIDE DEF UpToSize, more
        <4> QED
          BY <2>2, <2>4
      <3>2. more[s] = IF s = {} THEN base ELSE step[<<it[s \ {pick[s]}], pick[s]>>]
        <4> HIDE DEF UpToSize
        <4> QED
          OBVIOUS
      <3> HIDE DEF more
      <3> QED
        BY <3>1, <3>2
    <2> HIDE DEF more, UpToSize
    <2>6. Folds(more, m)
      BY <2>3, <2>5
    <2> HIDE DEF Folds
    <2> QED
      BY <2>6
  <1> HIDE DEF T
  <1>3. n \in T
    <2>1. 0..n \subseteq T
      <3> HIDE DEF n
      <3> QED
        BY <1>0, <1>1, <1>2, UpTo
    <2> QED
      BY <1>0, <2>1
  <1>4. PICK it : Folds(it, n)
    BY <1>3 DEF T
  <1>5. UpToSize(n) = SUBSET S
    BY <1>0
  <1> HIDE DEF UpToSize, n
  <1> QED
    BY <1>4, <1>5 DEF IsSetFold

\* What every step keeps, the fold has for every subset.
LEMMA SetFoldKeeps ==
    ASSUME NEW S, IsFiniteSet(S), NEW pick, Picks(pick, S), NEW f, NEW G, f[{}] \in G,
           \A s \in SUBSET S : s # {} /\ f[s \ {pick[s]}] \in G => f[s] \in G
    PROVE  \A s \in SUBSET S : f[s] \in G
  <1> DEFINE n == Cardinality(S)
             T == { m \in 0..n : \A s \in SUBSET S : Cardinality(s) = m => f[s] \in G }
  <1>0. n \in Nat
    BY FS_CardinalityType
  <1>1. 0 \in T
    <2>1. ASSUME NEW s \in SUBSET S, Cardinality(s) = 0
          PROVE  s = {}
      <3> SUFFICES ASSUME NEW x \in s
                   PROVE  FALSE
        OBVIOUS
      <3>1. Cardinality(s) \in 1..Cardinality(S)
        BY Smaller
      <3> HIDE DEF n
      <3> QED
        BY <1>0, <2>1, <3>1 DEF n
    <2>2. \A s \in SUBSET S : Cardinality(s) = 0 => f[s] \in G
      BY <2>1
    <2>3. 0 \in 0..n
      BY <1>0
    <2> HIDE DEF n
    <2> QED
      BY <2>2, <2>3
  <1>2. ASSUME NEW m \in 1..n, m - 1 \in T
        PROVE  m \in T
    <2> SUFFICES ASSUME NEW s \in SUBSET S, Cardinality(s) = m
                 PROVE  f[s] \in G
      OBVIOUS
    <2>1. s # {}
      <3>1. Cardinality({}) = 0
        BY FS_EmptySet
      <3>2. m # 0
        OBVIOUS
      <3> QED
        BY <3>1, <3>2
    <2>2. pick[s] \in s
      BY <2>1 DEF Picks
    <2>3. Cardinality(s \ {pick[s]}) = m - 1
      BY <2>2, Smaller
    <2>4. f[s \ {pick[s]}] \in G
      BY <1>2, <2>3
    <2> QED
      BY <2>1, <2>4
  <1> HIDE DEF T
  <1>3. 0..n \subseteq T
    <2> HIDE DEF n
    <2> QED
      BY <1>0, <1>1, <1>2, UpTo
  <1> TAKE s \in SUBSET S
  <1>4. Cardinality(s) \in 0..n
    <2>1. IsFiniteSet(s) /\ Cardinality(s) <= n
      BY FS_Subset
    <2>2. Cardinality(s) \in Nat
      BY <2>1, FS_CardinalityType
    <2> QED
      BY <1>0, <2>1, <2>2
  <1> HIDE DEF n
  <1>5. Cardinality(s) \in T
    BY <1>3, <1>4
  <1> QED
    BY <1>5 DEF T

-----------------------------------------------------------------------------
(* Folds over the numbers up to a bound, the largest taken last, which is  *)
(* how a sequence is folded from the left.                                 *)

\* The function that takes one step per number, from the base on.
IsFold(it, n, base, step) ==
    \A s \in SUBSET (1..n) :
        it[s] = IF s = {} THEN base ELSE step[<<it[s \ {Max(s)}], Max(s)>>]

\* The function that folds a step over every subset of an interval exists.
LEMMA FoldExists ==
    ASSUME NEW n \in Nat, NEW G, NEW base \in G, NEW step \in [G \X (1..n) -> G]
    PROVE  \E it \in [SUBSET (1..n) -> G] : IsFold(it, n, base, step)
  <1> DEFINE S == 1..n
             pick == [s \in SUBSET S |-> Max(s)]
  <1>1. IsFiniteSet(S)
    BY FS_Interval
  <1>2. \A s \in SUBSET S : pick[s] = Max(s)
    OBVIOUS
  <1>3. Picks(pick, S)
    BY <1>2, MaxUpTo DEF Picks
  <1> HIDE DEF pick
  <1>4. PICK it \in [SUBSET S -> G] : IsSetFold(it, S, pick, base, step)
    <2> HIDE DEF S
    <2>1. step \in [G \X S -> G]
      BY DEF S
    <2> QED
      BY <1>1, <1>3, <2>1, SetFoldExists
  <1>5. IsFold(it, n, base, step)
    BY <1>2, <1>4 DEF IsFold, IsSetFold
  <1> QED
    BY <1>4, <1>5

\* What a folding function gives for all of a sequence is in the last of the
\* sets that its steps lead through.
LEMMA FoldStays ==
    ASSUME NEW n \in Nat, NEW f, NEW Reach, f[{}] \in Reach[0],
           \A m \in 1..n : f[1..(m - 1)] \in Reach[m - 1] => f[1..m] \in Reach[m]
    PROVE  f[1..n] \in Reach[n]
  <1> DEFINE T == { m \in 0..n : f[1..m] \in Reach[m] }
  <1>1. 0 \in T
    <2>1. 1..0 = {}
      OBVIOUS
    <2> QED
      BY <2>1
  <1>2. \A m \in 1..n : m - 1 \in T => m \in T
    OBVIOUS
  <1> HIDE DEF T
  <1>3. n \in T
    <2>1. 0..n \subseteq T
      BY <1>1, <1>2, UpTo
    <2> QED
      BY <2>1
  <1> QED
    BY <1>3 DEF T

\* What every step keeps, the fold of a whole sequence has.
LEMMA FoldKeeps ==
    ASSUME NEW n \in Nat, NEW f, NEW G, f[{}] \in G,
           \A m \in 1..n : f[1..(m - 1)] \in G => f[1..m] \in G
    PROVE  f[1..n] \in G
  <1> DEFINE Reach == [m \in 0..n |-> G]
  <1>1. \A m \in 0..n : Reach[m] = G
    OBVIOUS
  <1> HIDE DEF Reach
  <1>2. f[{}] \in Reach[0]
    BY <1>1
  <1>3. \A m \in 1..n : f[1..(m - 1)] \in Reach[m - 1] => f[1..m] \in Reach[m]
    BY <1>1
  <1>4. f[1..n] \in Reach[n]
    BY <1>2, <1>3, FoldStays
  <1> QED
    BY <1>1, <1>4

-----------------------------------------------------------------------------
(* Recursion over the naturals.                                            *)

\* The function that starts from the base and takes a step for each number.
Iterates(it, base, step) ==
    \A n \in Nat : it[n] = IF n = 0 THEN base ELSE step[it[n - 1]]

\* It exists, and it stays where its steps stay.
LEMMA IterationExists ==
    ASSUME NEW G, NEW base \in G, NEW step \in [G -> G]
    PROVE  \E it \in [Nat -> G] : Iterates(it, base, step)
  <1> DEFINE Starts(f, n) == /\ f \in [0..n -> G] /\ f[0] = base
                             /\ \A m \in 1..n : f[m] = step[f[m - 1]]
  <1>1. ASSUME NEW n \in Nat
        PROVE  \E f : Starts(f, n)
    <2> DEFINE T == { m \in 0..n : \E f : Starts(f, m) }
    <2>1. 0 \in T
      <3> DEFINE f == [m \in 0..0 |-> base]
      <3>1. Starts(f, 0)
        OBVIOUS
      <3> HIDE DEF Starts
      <3> QED
        BY <3>1
    <2>2. ASSUME NEW m \in 1..n, m - 1 \in T
          PROVE  m \in T
      <3>1. PICK f : Starts(f, m - 1)
        BY <2>2
      <3> DEFINE g == [k \in 0..m |-> IF k = m THEN step[f[m - 1]] ELSE f[k]]
      <3>2. /\ \A k \in 0..(m - 1) : g[k] = f[k] /\ f[k] \in G
            /\ g[m] = step[f[m - 1]] /\ m - 1 \in 0..(m - 1)
        BY <3>1
      <3>3. g \in [0..m -> G]
        BY <3>2
      <3>4. g[0] = base
        BY <3>1, <3>2
      <3>5. \A k \in 1..m : g[k] = step[g[k - 1]]
        <4> SUFFICES ASSUME NEW k \in 1..m
                     PROVE  g[k] = step[g[k - 1]]
          OBVIOUS
        <4>1. k - 1 \in 0..(m - 1) /\ (k = m \/ k \in 1..(m - 1))
          OBVIOUS
        <4> HIDE DEF g
        <4> QED
          BY <3>1, <3>2, <4>1
      <3> HIDE DEF g
      <3>6. Starts(g, m)
        BY <3>3, <3>4, <3>5
      <3> HIDE DEF Starts
      <3> QED
        BY <3>6
    <2> HIDE DEF T
    <2>3. 0..n \subseteq T
      BY <2>1, <2>2, UpTo
    <2>4. n \in T
      BY <2>3
    <2> QED
      BY <2>4 DEF T
  <1>2. ASSUME NEW n \in Nat, NEW m \in 0..n, NEW f, NEW g, Starts(f, n), Starts(g, m)
        PROVE  f[m] = g[m]
    <2> DEFINE T == { k \in 0..m : f[k] = g[k] }
    <2>1. 0 \in T
      BY <1>2
    <2>2. \A k \in 1..m : k - 1 \in T => k \in T
      BY <1>2
    <2> HIDE DEF T
    <2>3. 0..m \subseteq T
      BY <2>1, <2>2, UpTo
    <2>4. m \in T
      BY <2>3
    <2> QED
      BY <2>4 DEF T
  <1> DEFINE start(n) == CHOOSE f : Starts(f, n)
             it == [n \in Nat |-> start(n)[n]]
  <1> HIDE DEF Starts
  <1>3. \A n \in Nat : Starts(start(n), n)
    BY <1>1
  <1>4. \A n \in Nat : it[n] = start(n)[n]
    OBVIOUS
  <1> HIDE DEF start, it
  <1>5. ASSUME NEW n \in Nat
        PROVE  it[n] \in G
    <2>1. start(n) \in [0..n -> G]
      BY <1>3 DEF Starts
    <2> QED
      BY <1>4, <2>1
  <1>6. ASSUME NEW n \in Nat
        PROVE  it[n] = IF n = 0 THEN base ELSE step[it[n - 1]]
    <2>1. CASE n = 0
      BY <1>3, <1>4, <2>1 DEF Starts
    <2>2. CASE n # 0
      <3>1. n - 1 \in Nat /\ n - 1 \in 0..n /\ n \in 1..n
        BY <2>2
      <3>2. start(n)[n - 1] = start(n - 1)[n - 1]
        BY <1>2, <1>3, <3>1
      <3>3. start(n)[n] = step[start(n)[n - 1]]
        BY <1>3, <3>1 DEF Starts
      <3> QED
        BY <1>4, <2>2, <3>1, <3>2, <3>3
    <2> QED
      BY <2>1, <2>2
  <1>7. it \in [Nat -> G]
    <2>1. it = [n \in Nat |-> start(n)[n]]
      BY DEF it
    <2>2. \A n \in Nat : start(n)[n] \in G
      BY <1>4, <1>5
    <2> QED
      BY <2>1, <2>2
  <1> QED
    BY <1>6, <1>7 DEF Iterates

-----------------------------------------------------------------------------
(* Choosing from a finite set.                                             *)

\* Elements that can all be compared have a first one in every finite set.
LEMMA FiniteFirst ==
    ASSUME NEW S, IsFiniteSet(S), S # {}, NEW R,
           \A x, y \in S : <<x, y>> \in R \/ <<y, x>> \in R,
           \A x, y, z \in S : <<x, y>> \in R /\ <<y, z>> \in R => <<x, z>> \in R
    PROVE  \E x \in S : \A y \in S : <<x, y>> \in R
  <1> DEFINE n == Cardinality(S)
             HasFirst(s) == \E x \in s : \A y \in s : <<x, y>> \in R
             T == { m \in 0..n : \A s \in SUBSET S : Cardinality(s) = m /\ s # {} => HasFirst(s) }
  <1>0. n \in Nat /\ n # 0
    BY FS_CardinalityType, FS_EmptySet
  <1>1. 0 \in T
    <2>1. \A s \in SUBSET S : Cardinality(s) = 0 => s = {}
      BY FS_Subset, FS_EmptySet
    <2>2. 0 \in 0..n
      BY <1>0
    <2> HIDE DEF HasFirst, n
    <2> QED
      BY <2>1, <2>2
  <1>2. ASSUME NEW m \in 1..n, m - 1 \in T
        PROVE  m \in T
    <2> SUFFICES ASSUME NEW s \in SUBSET S, Cardinality(s) = m, s # {}
                 PROVE  HasFirst(s)
      OBVIOUS
    <2>1. PICK z \in s : TRUE
      OBVIOUS
    <2> DEFINE rest == s \ {z}
    <2>2. Cardinality(rest) = m - 1 /\ rest \in SUBSET S
      BY Smaller
    <2>3. CASE rest = {}
      BY <2>1, <2>3
    <2>4. CASE rest # {}
      <3>1. HasFirst(rest)
        <4> HIDE DEF HasFirst, rest
        <4> QED
          BY <1>2, <2>2, <2>4
      <3>2. PICK x \in rest : \A y \in rest : <<x, y>> \in R
        BY <3>1
      <3>3. x \in s /\ \A y \in s : y = z \/ <<x, y>> \in R
        BY <3>2
      <3>4. CASE <<x, z>> \in R
        BY <3>3, <3>4
      <3>5. CASE <<x, z>> \notin R
        <4>1. <<z, x>> \in R /\ <<z, z>> \in R
          BY <3>3, <3>5
        <4>2. \A y \in s : <<z, y>> \in R
          BY <3>3, <4>1
        <4> QED
          BY <4>2
      <3> QED
        BY <3>4, <3>5
    <2> QED
      BY <2>3, <2>4
  <1> HIDE DEF T, n
  <1>3. n \in T
    <2>1. 0..n \subseteq T
      BY <1>0, <1>1, <1>2, UpTo
    <2> QED
      BY <1>0, <2>1
  <1>4. HasFirst(S)
    <2> HIDE DEF HasFirst
    <2> QED
      BY <1>3 DEF T, n
  <1> QED
    BY <1>4

-----------------------------------------------------------------------------
(* Sums over a finite set.                                                 *)

\* The function that adds up weights, picking the elements one by one.
IsSum(f, S, pick, w) ==
    \A s \in SUBSET S : f[s] = IF s = {} THEN 0 ELSE w[pick[s]] + f[s \ {pick[s]}]

\* A sum of all of them, in some order.
SumsTo(total, S, w) ==
    \E pick, f : Picks(pick, S) /\ IsSum(f, S, pick, w) /\ total = f[S]

\* The function exists.
LEMMA SumExists ==
    ASSUME NEW S, IsFiniteSet(S), NEW w \in [S -> Int], NEW pick, Picks(pick, S)
    PROVE  \E f \in [SUBSET S -> Int] : IsSum(f, S, pick, w)
  <1> DEFINE step == [q \in Int \X S |-> w[q[2]] + q[1]]
  <1>1. step \in [Int \X S -> Int] /\ 0 \in Int
    OBVIOUS
  <1>2. \A k \in Int, x \in S : step[<<k, x>>] = w[x] + k
    OBVIOUS
  <1> HIDE DEF step
  <1>3. PICK f \in [SUBSET S -> Int] : IsSetFold(f, S, pick, 0, step)
    BY <1>1, SetFoldExists
  <1>4. IsSum(f, S, pick, w)
    <2> SUFFICES ASSUME NEW s \in SUBSET S
                 PROVE  f[s] = IF s = {} THEN 0 ELSE w[pick[s]] + f[s \ {pick[s]}]
      BY DEF IsSum
    <2>1. f[s] = IF s = {} THEN 0 ELSE step[<<f[s \ {pick[s]}], pick[s]>>]
      BY <1>3 DEF IsSetFold
    <2>2. s # {} => pick[s] \in S /\ f[s \ {pick[s]}] \in Int
      BY DEF Picks
    <2> QED
      BY <1>2, <2>1, <2>2
  <1> QED
    BY <1>3, <1>4

\* Any element may be the last added.
IsFreeSum(f, S, w) ==
    \A s \in SUBSET S : f[s] \in Int /\ \A x \in s : f[s] = w[x] + f[s \ {x}]

\* A sum does not depend on the order.
LEMMA SumUnfolds ==
    ASSUME NEW S, IsFiniteSet(S), NEW w \in [S -> Int], NEW pick, Picks(pick, S),
           NEW f, IsSum(f, S, pick, w)
    PROVE  IsFreeSum(f, S, w)
  <1> DEFINE n == Cardinality(S)
             Free(s) == \A x \in s : f[s] = w[x] + f[s \ {x}]
             T == { m \in 0..n : \A s \in SUBSET S : Cardinality(s) = m => Free(s) }
  <1>9. \A s \in SUBSET S : f[s] \in Int
    <2>1. {} \in SUBSET S
      OBVIOUS
    <2>2. f[{}] \in Int
      <3>1. f[{}] = 0
        BY <2>1 DEF IsSum
      <3> QED
        BY <3>1
    <2>3. ASSUME NEW s \in SUBSET S, s # {}, f[s \ {pick[s]}] \in Int
          PROVE  f[s] \in Int
      <3>1. f[s] = w[pick[s]] + f[s \ {pick[s]}] /\ pick[s] \in S
        BY <2>3 DEF IsSum, Picks
      <3>2. w[pick[s]] \in Int
        BY <3>1
      <3> QED
        BY <2>3, <3>1, <3>2
    <2> QED
      BY <2>2, <2>3, SetFoldKeeps
  <1>0. n \in Nat
    BY FS_CardinalityType
  <1>1. 0 \in T
    <2>1. ASSUME NEW s \in SUBSET S, Cardinality(s) = 0
          PROVE  Free(s)
      <3>1. s = {}
        BY <2>1, FS_Subset, FS_EmptySet
      <3> QED
        BY <3>1
    <2>2. 0 \in 0..n
      BY <1>0
    <2> HIDE DEF Free, n
    <2> QED
      BY <2>1, <2>2
  <1>2. ASSUME NEW m \in 1..n, m - 1 \in T
        PROVE  m \in T
    <2>1. ASSUME NEW s \in SUBSET S, Cardinality(s) = m
          PROVE  Free(s)
      <3>1. s # {}
        <4>1. Cardinality({}) = 0 /\ m # 0
          BY FS_EmptySet
        <4> QED
          BY <2>1, <4>1
      <3> DEFINE c == pick[s]
      <3>2. c \in s /\ c \in S
        BY <3>1 DEF Picks
      <3>3. \A x \in s : Free(s \ {x})
        <4>1. \A x \in s : Cardinality(s \ {x}) = m - 1 /\ s \ {x} \in SUBSET S
          BY <2>1, Smaller
        <4> HIDE DEF Free
        <4> QED
          BY <1>2, <4>1
      <3>4. f[s] = w[c] + f[s \ {c}]
        BY <3>1 DEF IsSum
      <3> HIDE DEF c
      <3>5. w[c] \in Int /\ f[s \ {c}] \in Int
        BY <1>9, <3>2
      <3>6. ASSUME NEW x \in s
            PROVE  f[s] = w[x] + f[s \ {x}]
        <4>1. CASE x = c
          BY <3>4, <4>1
        <4>2. CASE x # c
          <5> DEFINE rest == (s \ {c}) \ {x}
          <5>1. /\ x \in s \ {c} /\ c \in s \ {x} /\ rest = (s \ {x}) \ {c}
                /\ rest \in SUBSET S /\ x \in S
            BY <3>2, <4>2
          <5>2. f[s \ {c}] = w[x] + f[rest]
            BY <3>2, <3>3, <5>1
          <5> HIDE DEF rest
          <5>3. f[s \ {x}] = w[c] + f[rest]
            BY <3>3, <5>1
          <5>4. w[x] \in Int /\ f[rest] \in Int
            BY <1>9, <5>1
          <5> QED
            BY <3>4, <3>5, <5>2, <5>3, <5>4
        <4> QED
          BY <4>1, <4>2
      <3> QED
        BY <3>6
    <2> HIDE DEF Free
    <2> QED
      BY <2>1
  <1> HIDE DEF T
  <1>3. 0..n \subseteq T
    <2> HIDE DEF n
    <2> QED
      BY <1>0, <1>1, <1>2, UpTo
  <1>4. ASSUME NEW s \in SUBSET S
        PROVE  Free(s)
    <2>1. Cardinality(s) \in 0..n
      <3>1. IsFiniteSet(s) /\ Cardinality(s) <= n
        BY FS_Subset
      <3>2. Cardinality(s) \in Nat
        BY <3>1, FS_CardinalityType
      <3> QED
        BY <1>0, <3>1, <3>2
    <2> HIDE DEF Free, n
    <2> QED
      BY <1>3, <2>1 DEF T
  <1> QED
    BY <1>9, <1>4 DEF IsFreeSum

\* What naturals add up to is no less than any of them.
LEMMA SumOfNaturals ==
    ASSUME NEW S, IsFiniteSet(S), NEW w \in [S -> Nat], NEW total, SumsTo(total, S, w)
    PROVE  total \in Nat /\ (\A x \in S : total >= w[x]) /\ ((\A x \in S : w[x] = 0) => total = 0)
  <1>1. PICK pick, f : Picks(pick, S) /\ IsSum(f, S, pick, w) /\ total = f[S]
    BY DEF SumsTo
  <1>2. w \in [S -> Int]
    OBVIOUS
  <1>3. IsFreeSum(f, S, w)
    BY <1>1, <1>2, SumUnfolds
  <1>4. \A s \in SUBSET S : \A x \in s : f[s] = w[x] + f[s \ {x}]
    BY <1>3 DEF IsFreeSum
  <1>5. f[{}] = 0
    <2>1. {} \in SUBSET S
      OBVIOUS
    <2> QED
      BY <1>1, <2>1 DEF IsSum
  <1>6. \A s \in SUBSET S : f[s] \in Nat
    <2>1. f[{}] \in Nat
      BY <1>5
    <2>2. ASSUME NEW s \in SUBSET S, s # {}, f[s \ {pick[s]}] \in Nat
          PROVE  f[s] \in Nat
      <3>1. pick[s] \in s /\ pick[s] \in S
        BY <1>1, <2>2 DEF Picks
      <3>2. f[s] = w[pick[s]] + f[s \ {pick[s]}] /\ w[pick[s]] \in Nat
        BY <1>4, <3>1
      <3> QED
        BY <2>2, <3>2
    <2> QED
      BY <1>1, <2>1, <2>2, SetFoldKeeps
  <1>7. \A x \in S : total >= w[x]
    <2> SUFFICES ASSUME NEW x \in S
                 PROVE  f[S] >= w[x]
      BY <1>1
    <2>1. f[S] = w[x] + f[S \ {x}] /\ f[S \ {x}] \in Nat /\ w[x] \in Nat
      BY <1>4, <1>6
    <2> QED
      BY <2>1
  <1>8. ASSUME \A x \in S : w[x] = 0
        PROVE  total = 0
    <2>1. \A s \in SUBSET S : f[s] \in {0}
      <3>1. ASSUME NEW s \in SUBSET S, s # {}, f[s \ {pick[s]}] \in {0}
            PROVE  f[s] \in {0}
        <4>1. pick[s] \in s /\ pick[s] \in S
          BY <1>1, <3>1 DEF Picks
        <4>2. f[s] = w[pick[s]] + f[s \ {pick[s]}] /\ w[pick[s]] = 0
          BY <1>4, <1>8, <4>1
        <4> QED
          BY <3>1, <4>2
      <3>2. f[{}] \in {0}
        BY <1>5
      <3> QED
        BY <1>1, <3>1, <3>2, SetFoldKeeps
    <2> QED
      BY <1>1, <2>1
  <1> QED
    BY <1>1, <1>6, <1>7, <1>8

\* The sum of the differences along a sequence of numbers is that of its ends.
LEMMA Telescope ==
    ASSUME NEW n \in Nat, NEW d, \A i \in 1..(n + 1) : d[i] \in Int,
           NEW w \in [1..n -> Int], \A i \in 1..n : d[i] + w[i] = d[i + 1],
           NEW pick, Picks(pick, 1..n), NEW f, IsSum(f, 1..n, pick, w)
    PROVE  f[1..n] = d[n + 1] - d[1]
  <1> DEFINE T == { m \in 0..n : f[1..m] = d[m + 1] - d[1] }
  <1>1. \A s \in SUBSET (1..n) : f[s] \in Int /\ \A x \in s : f[s] = w[x] + f[s \ {x}]
    <2>1. IsFiniteSet(1..n)
      BY FS_Interval
    <2>2. IsFreeSum(f, 1..n, w)
      BY <2>1, SumUnfolds
    <2> QED
      BY <2>2 DEF IsFreeSum
  <1>2. 0 \in T
    <2>1. 1..0 = {} /\ {} \in SUBSET (1..n)
      OBVIOUS
    <2>2. f[{}] = 0
      BY <2>1 DEF IsSum
    <2>3. d[0 + 1] \in Int /\ 0 \in 0..n
      OBVIOUS
    <2> QED
      BY <2>1, <2>2, <2>3
  <1>3. ASSUME NEW m \in 1..n, m - 1 \in T
        PROVE  m \in T
    <2>1. m \in 1..m /\ (1..m) \ {m} = 1..(m - 1) /\ 1..m \in SUBSET (1..n)
      OBVIOUS
    <2>2. f[1..m] = w[m] + f[1..(m - 1)]
      <3>1. f[1..m] = w[m] + f[(1..m) \ {m}]
        BY <1>1, <2>1
      <3> QED
        BY <2>1, <3>1
    <2>3. f[1..(m - 1)] = d[m] - d[1]
      BY <1>3
    <2>4. d[m] + w[m] = d[m + 1] /\ d[m] \in Int /\ d[m + 1] \in Int /\ d[1] \in Int
      OBVIOUS
    <2>5. w[m] \in Int
      OBVIOUS
    <2>6. f[1..m] = d[m + 1] - d[1]
      BY <2>2, <2>3, <2>4, <2>5
    <2> QED
      BY <2>6
  <1> HIDE DEF T
  <1>4. n \in T
    <2>1. 0..n \subseteq T
      BY <1>2, <1>3, UpTo
    <2> QED
      BY <2>1
  <1> QED
    BY <1>4 DEF T
=============================================================================
