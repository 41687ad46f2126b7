--------------------------- MODULE Geofence_proofs ---------------------------
(***************************************************************************)
(* The list of areas, for every grid and every number of areas: whatever   *)
(* was merged, added, removed or cleared, its ids are distinct, each zone  *)
(* in force is closed, and nothing is that no area in force covers.        *)
(***************************************************************************)
EXTENDS Geofence, FoldLemmas

-----------------------------------------------------------------------------
(* Lists of areas.                                                         *)

\* What an area may be, with an id below a number and squares of a set.
Areas(num, C) == [id : 0..(num - 1), cells : SUBSET C]

\* Lists whose ids are distinct and were all given, with the id counter.
Lists(C) ==
    { s \in [areas : Seq([id : Nat, cells : SUBSET C]), num : Nat] :
        /\ s.areas \in Seq(Areas(s.num, C))
        /\ \A k, m \in DOMAIN s.areas : s.areas[k].id = s.areas[m].id => k = m }

\* Lists of which nothing is left to merge.
MergedLists(C) == { s \in Lists(C) : Mergeable(s.areas) = {} }

\* What holds of the squares of a set holds of those of a larger one.
LEMMA WiderLists ==
    ASSUME NEW C, NEW D, C \subseteq D, NEW s \in Lists(C)
    PROVE  s \in Lists(D)
  <1> DEFINE A == [id : Nat, cells : SUBSET C]
             B == [id : Nat, cells : SUBSET D]
  <1>1. A \subseteq B /\ Areas(s.num, C) \subseteq Areas(s.num, D)
    BY DEF Areas
  <1>2. /\ s \in [areas : Seq(A), num : Nat] /\ s.areas \in Seq(Areas(s.num, C))
        /\ \A k, m \in DOMAIN s.areas : s.areas[k].id = s.areas[m].id => k = m
    BY DEF Lists
  <1> HIDE DEF A, B
  <1>3. Seq(A) \subseteq Seq(B)
    BY <1>1, SeqMonotonic
  <1>4. s.areas \in Seq(Areas(s.num, D))
    BY <1>1, <1>2, SeqMonotonic
  <1>5. s \in [areas : Seq(B), num : Nat]
    BY <1>2, <1>3
  <1> QED
    BY <1>2, <1>4, <1>5, Zenon DEF Lists, B

\* The list of a new manager.
LEMMA EmptyIsList ==
    ASSUME NEW C
    PROVE  [areas |-> <<>>, num |-> 0] \in Lists(C)
  <1> DEFINE s == [areas |-> <<>>, num |-> 0]
  <1>1. s.areas = <<>> /\ s.num = 0 /\ DOMAIN s.areas = {}
    OBVIOUS
  <1>2. s \in [areas : Seq([id : Nat, cells : SUBSET C]), num : Nat]
    OBVIOUS
  <1>3. s.areas \in Seq(Areas(s.num, C))
    BY <1>1
  <1> HIDE DEF s
  <1>4. s \in Lists(C)
    BY <1>1, <1>2, <1>3, Zenon DEF Lists
  <1> QED
    BY <1>4 DEF s

\* The list with one more element, a new one.
LEMMA Appended ==
    ASSUME NEW S, NEW s \in Seq(S), NEW e \in S
    PROVE  /\ Append(s, e) \in Seq(S) /\ Len(Append(s, e)) = Len(s) + 1
           /\ DOMAIN Append(s, e) = 1..(Len(s) + 1) /\ DOMAIN s = 1..Len(s)
           /\ \A k \in 1..Len(s) : Append(s, e)[k] = s[k]
           /\ Append(s, e)[Len(s) + 1] = e
  OBVIOUS

\* An element is removed and those behind it move up.
LEMMA RemovedAt ==
    ASSUME NEW S, NEW s \in Seq(S), NEW i \in 1..Len(s)
    PROVE  /\ RemoveAt(s, i) \in Seq(S)
           /\ Len(RemoveAt(s, i)) = Len(s) - 1
           /\ DOMAIN RemoveAt(s, i) = 1..(Len(s) - 1) /\ DOMAIN s = 1..Len(s)
           /\ \A k \in 1..(Len(s) - 1) :
                  RemoveAt(s, i)[k] = s[IF k < i THEN k ELSE k + 1]
  <1> DEFINE a == SubSeq(s, 1, i - 1)
             b == SubSeq(s, i + 1, Len(s))
  <1>1. /\ a \in Seq(S) /\ Len(a) = i - 1
        /\ \A k \in 1..(i - 1) : a[k] = s[k]
    OBVIOUS
  <1>2. /\ b \in Seq(S) /\ Len(b) = Len(s) - i
        /\ \A k \in 1..(Len(s) - i) : b[k] = s[i + k]
    OBVIOUS
  <1>3. RemoveAt(s, i) = a \o b
    BY DEF RemoveAt
  <1> HIDE DEF a, b
  <1>4. /\ a \o b \in Seq(S) /\ Len(a \o b) = Len(s) - 1
        /\ \A k \in 1..(Len(s) - 1) :
               (a \o b)[k] = IF k <= i - 1 THEN a[k] ELSE b[k - (i - 1)]
    <2>1. /\ a \o b \in Seq(S) /\ Len(a \o b) = Len(a) + Len(b)
          /\ \A k \in 1..(Len(a) + Len(b)) :
                 (a \o b)[k] = IF k <= Len(a) THEN a[k] ELSE b[k - Len(a)]
      BY <1>1, <1>2, ConcatProperties
    <2>3. Len(a) + Len(b) = Len(s) - 1
      BY <1>1, <1>2
    <2> QED
      BY <1>1, <2>1, <2>3
  <1>5. \A k \in 1..(Len(s) - 1) : (a \o b)[k] = s[IF k < i THEN k ELSE k + 1]
    <2> SUFFICES ASSUME NEW k \in 1..(Len(s) - 1)
                 PROVE  (a \o b)[k] = s[IF k < i THEN k ELSE k + 1]
      OBVIOUS
    <2>1. CASE k < i
      BY <1>1, <1>4, <2>1
    <2>2. CASE ~(k < i)
      <3>1. k - (i - 1) \in 1..(Len(s) - i) /\ i + (k - (i - 1)) = k + 1 /\ ~(k <= i - 1)
        BY <2>2
      <3>2. b[k - (i - 1)] = s[k + 1]
        BY <1>2, <3>1
      <3> QED
        BY <1>4, <2>2, <3>1, <3>2
    <2> QED
      BY <2>1, <2>2
  <1> QED
    BY <1>3, <1>4, <1>5

\* removeGeofenceAreaWithID: the first area with the id is taken out, if any.
LEMMA RemovedWithID ==
    ASSUME NEW S, NEW areas \in Seq(S), NEW id
    PROVE  \/ /\ \A k \in DOMAIN areas : areas[k].id # id
              /\ RemoveWithID(areas, id) = areas
           \/ \E i \in DOMAIN areas :
                  areas[i].id = id /\ RemoveWithID(areas, id) = RemoveAt(areas, i)
  <1> DEFINE at == { k \in DOMAIN areas : areas[k].id = id }
  <1>1. CASE at = {}
    BY <1>1 DEF RemoveWithID
  <1>2. CASE at # {}
    <2>1. at \in SUBSET Nat
      OBVIOUS
    <2>2. \E k \in at : \A m \in at : k <= m
      <3> HIDE DEF at
      <3> QED
        BY <1>2, <2>1, LeastNatural
    <2> DEFINE i == CHOOSE k \in at : \A m \in at : k <= m
    <2>3. i \in at
      BY <2>2
    <2>4. RemoveWithID(areas, id) = RemoveAt(areas, i)
      BY <1>2 DEF RemoveWithID
    <2> HIDE DEF i
    <2> QED
      BY <2>3, <2>4
  <1> QED
    BY <1>1, <1>2

\* What is left is a list, and an id that was there is there once less.
LEMMA RemovalKeepsList ==
    ASSUME NEW C, NEW s \in Lists(C), NEW id
    PROVE  LET areas == RemoveWithID(s.areas, id) IN
           /\ [areas |-> areas, num |-> s.num] \in Lists(C)
           /\ \A k \in DOMAIN areas : \E m \in DOMAIN s.areas : areas[k] = s.areas[m]
           /\ \A m \in DOMAIN s.areas :
                  s.areas[m].id # id => \E k \in DOMAIN areas : areas[k] = s.areas[m]
           /\ \A k \in DOMAIN areas : areas[k].id # id
           /\ \A m \in DOMAIN s.areas : s.areas[m].id = id => Len(areas) = Len(s.areas) - 1
  <1> DEFINE old == s.areas
             areas == RemoveWithID(old, id)
  <1>1. /\ old \in Seq([id : Nat, cells : SUBSET C]) /\ s.num \in Nat
        /\ old \in Seq(Areas(s.num, C))
        /\ \A k, m \in DOMAIN old : old[k].id = old[m].id => k = m
    BY DEF Lists
  <1> HIDE DEF old, areas
  <1>2. CASE areas = old /\ \A k \in DOMAIN old : old[k].id # id
    BY <1>1, <1>2 DEF Lists, old, areas
  <1>3. CASE \E i \in DOMAIN old : old[i].id = id /\ areas = RemoveAt(old, i)
    <2>1. PICK i \in DOMAIN old : old[i].id = id /\ areas = RemoveAt(old, i)
      BY <1>3
    <2>2. i \in 1..Len(old) /\ Len(old) \in Nat
      BY <1>1
    <2>3. /\ areas \in Seq([id : Nat, cells : SUBSET C])
          /\ areas \in Seq(Areas(s.num, C))
          /\ Len(areas) = Len(old) - 1
          /\ DOMAIN areas = 1..(Len(old) - 1) /\ DOMAIN old = 1..Len(old)
          /\ \A k \in 1..(Len(old) - 1) : areas[k] = old[IF k < i THEN k ELSE k + 1]
      <3>1. areas \in Seq([id : Nat, cells : SUBSET C])
        BY <1>1, <2>1, <2>2, RemovedAt
      <3>2. /\ areas \in Seq(Areas(s.num, C))
            /\ Len(areas) = Len(old) - 1
            /\ DOMAIN areas = 1..(Len(old) - 1) /\ DOMAIN old = 1..Len(old)
            /\ \A k \in 1..(Len(old) - 1) : areas[k] = old[IF k < i THEN k ELSE k + 1]
        <4> DEFINE S == Areas(s.num, C)
        <4>1. old \in Seq(S)
          BY <1>1
        <4> HIDE DEF S
        <4>2. /\ RemoveAt(old, i) \in Seq(S)
              /\ Len(RemoveAt(old, i)) = Len(old) - 1
              /\ DOMAIN RemoveAt(old, i) = 1..(Len(old) - 1) /\ DOMAIN old = 1..Len(old)
              /\ \A k \in 1..(Len(old) - 1) :
                     RemoveAt(old, i)[k] = old[IF k < i THEN k ELSE k + 1]
          BY <2>2, <4>1, RemovedAt, Zenon
        <4> QED
          BY <2>1, <4>2 DEF S
      <3> QED
        BY <3>1, <3>2
    <2> DEFINE at(k) == IF k < i THEN k ELSE k + 1
    <2>4. \A k \in DOMAIN areas : /\ at(k) \in DOMAIN old /\ at(k) # i
                                  /\ areas[k] = old[at(k)]
      <3> SUFFICES ASSUME NEW k \in DOMAIN areas
                   PROVE  at(k) \in DOMAIN old /\ at(k) # i /\ areas[k] = old[at(k)]
        OBVIOUS
      <3>1. k \in 1..(Len(old) - 1)
        BY <2>3
      <3>2. at(k) \in 1..Len(old) /\ at(k) # i
        BY <2>2, <3>1
      <3> QED
        BY <2>3, <3>1, <3>2
    <2>5. \A k, l \in DOMAIN areas : areas[k].id = areas[l].id => k = l
      <3> SUFFICES ASSUME NEW k \in DOMAIN areas, NEW l \in DOMAIN areas,
                          areas[k].id = areas[l].id
                   PROVE  k = l
        OBVIOUS
      <3>1. at(k) = at(l)
        <4> HIDE DEF at
        <4> QED
          BY <1>1, <2>4
      <3>2. k \in Nat /\ l \in Nat /\ i \in Nat
        BY <2>2, <2>3
      <3> QED
        BY <3>1, <3>2
    <2>6. \A m \in DOMAIN old : old[m].id # id => \E k \in DOMAIN areas : areas[k] = old[m]
      <3> SUFFICES ASSUME NEW m \in DOMAIN old, old[m].id # id
                   PROVE  \E k \in DOMAIN areas : areas[k] = old[m]
        OBVIOUS
      <3>1. m # i
        BY <2>1
      <3>2. CASE m < i
        <4>1. m \in 1..(Len(old) - 1)
          BY <2>2, <3>2
        <4>2. areas[m] = old[m]
          BY <2>3, <3>2, <4>1
        <4> QED
          BY <2>3, <4>1, <4>2
      <3>3. CASE m > i
        <4>1. m - 1 \in 1..(Len(old) - 1) /\ ~(m - 1 < i) /\ (m - 1) + 1 = m
          BY <2>2, <3>3
        <4>2. areas[m - 1] = old[m]
          BY <2>3, <4>1
        <4> QED
          BY <2>3, <4>1, <4>2
      <3> QED
        BY <2>2, <2>3, <3>1, <3>2, <3>3
    <2>7. \A k \in DOMAIN areas : areas[k].id # id
      BY <1>1, <2>1, <2>4
    <2>8. [areas |-> areas, num |-> s.num] \in Lists(C)
      BY <1>1, <2>3, <2>5 DEF Lists
    <2> QED
      BY <2>3, <2>4, <2>6, <2>7, <2>8 DEF old, areas
  <1> QED
    <2>1. \/ /\ \A k \in DOMAIN old : old[k].id # id
             /\ areas = old
          \/ \E i \in DOMAIN old :
                 old[i].id = id /\ areas = RemoveAt(old, i)
      BY <1>1, RemovedWithID DEF areas
    <2> QED
      BY <1>2, <1>3, <2>1

-----------------------------------------------------------------------------
(* Merging.                                                                *)

\* Of pairs of numbers there is a first one.
LEMMA FirstPairIsOne ==
    ASSUME NEW pairs \in SUBSET (Nat \X Nat), pairs # {}
    PROVE  FirstPair(pairs) \in pairs
  <1> DEFINE lefts == { p[1] : p \in pairs }
  <1>1. lefts \in SUBSET Nat /\ lefts # {}
    OBVIOUS
  <1>2. PICK i \in lefts : \A k \in lefts : i <= k
    <2> HIDE DEF lefts
    <2> QED
      BY <1>1, LeastNatural
  <1> DEFINE rights == { n \in Nat : <<i, n>> \in pairs }
  <1>3. rights \in SUBSET Nat /\ rights # {}
    <2>1. PICK p \in pairs : p[1] = i
      BY <1>2
    <2>2. p = <<i, p[2]>> /\ p[2] \in Nat
      BY <2>1
    <2> QED
      BY <2>2
  <1>4. PICK j \in rights : \A k \in rights : j <= k
    <2> HIDE DEF rights
    <2> QED
      BY <1>3, LeastNatural
  <1>5. <<i, j>> \in pairs
    BY <1>4
  <1>6. ASSUME NEW q \in pairs
        PROVE  i < q[1] \/ (i = q[1] /\ j <= q[2])
    <2>1. q = <<q[1], q[2]>> /\ q[1] \in Nat /\ q[2] \in Nat /\ i \in Nat
      BY <1>1, <1>2
    <2>2. q[1] \in lefts
      OBVIOUS
    <2>3. i <= q[1]
      BY <1>2, <2>2
    <2>4. i = q[1] => q[2] \in rights
      BY <2>1
    <2> HIDE DEF lefts, rights
    <2> QED
      BY <1>4, <2>1, <2>3, <2>4
  <1> DEFINE p == <<i, j>>
  <1>7. p \in pairs /\ \A q \in pairs : p[1] < q[1] \/ (p[1] = q[1] /\ p[2] <= q[2])
    BY <1>5, <1>6
  <1> HIDE DEF p
  <1> QED
    BY <1>7 DEF FirstPair

\* An area with the next id is added: the list is one, and no area is lost.
LEMMA AddedIsList ==
    ASSUME NEW C, NEW s \in Lists(C), NEW cells \in SUBSET C
    PROVE  LET area == [id |-> s.num, cells |-> cells]
               areas == Append(s.areas, area)
           IN  /\ [areas |-> areas, num |-> s.num + 1] \in Lists(C)
               /\ Len(areas) = Len(s.areas) + 1 /\ DOMAIN areas = 1..(Len(s.areas) + 1)
               /\ Len(s.areas) \in Nat /\ DOMAIN s.areas = 1..Len(s.areas)
               /\ \A k \in 1..Len(s.areas) : areas[k] = s.areas[k]
               /\ areas[Len(s.areas) + 1] = area
  <1> DEFINE old == s.areas
             area == [id |-> s.num, cells |-> cells]
             areas == Append(old, area)
             S == Areas(s.num, C)
  <1>1. /\ old \in Seq([id : Nat, cells : SUBSET C]) /\ s.num \in Nat
        /\ old \in Seq(S)
        /\ \A k, m \in DOMAIN old : old[k].id = old[m].id => k = m
    BY DEF Lists
  <1> HIDE DEF old
  <1>2. area \in Areas(s.num + 1, C) /\ area \in [id : Nat, cells : SUBSET C]
    BY <1>1 DEF Areas
  <1>3. area.id = s.num
    OBVIOUS
  <1> HIDE DEF area
  <1>4. /\ Len(areas) = Len(old) + 1 /\ DOMAIN areas = 1..(Len(old) + 1)
        /\ DOMAIN old = 1..Len(old) /\ Len(old) \in Nat
        /\ \A k \in 1..Len(old) : areas[k] = old[k]
        /\ areas[Len(old) + 1] = area
        /\ areas \in Seq([id : Nat, cells : SUBSET C])
    BY <1>1, <1>2, Appended
  <1>5. areas \in Seq(Areas(s.num + 1, C))
    <2>1. S \subseteq Areas(s.num + 1, C)
      BY <1>1 DEF Areas
    <2> HIDE DEF S
    <2>2. old \in Seq(Areas(s.num + 1, C))
      BY <1>1, <2>1, SeqMonotonic
    <2> QED
      BY <1>2, <2>2, AppendProperties
  <1>6. \A k \in 1..Len(old) : old[k].id < s.num
    <2> SUFFICES ASSUME NEW k \in 1..Len(old)
                 PROVE  old[k].id < s.num
      OBVIOUS
    <2>1. old[k] \in S
      <3> HIDE DEF S
      <3> QED
        BY <1>1, ElementOfSeq
    <2> QED
      BY <1>1, <2>1 DEF Areas
  <1> HIDE DEF areas, S
  <1>7. \A k, m \in DOMAIN areas : areas[k].id = areas[m].id => k = m
    <2> SUFFICES ASSUME NEW k \in 1..(Len(old) + 1), NEW m \in 1..(Len(old) + 1),
                        areas[k].id = areas[m].id
                 PROVE  k = m
      BY <1>4
    <2>1. CASE k \in 1..Len(old) /\ m \in 1..Len(old)
      BY <1>1, <1>4, <2>1
    <2>2. CASE k \in 1..Len(old) /\ m = Len(old) + 1
      <3>1. areas[k].id < s.num /\ areas[m].id = s.num
        BY <1>3, <1>4, <1>6, <2>2
      <3> QED
        BY <1>1, <3>1
    <2>3. CASE k = Len(old) + 1 /\ m \in 1..Len(old)
      <3>1. areas[k].id = s.num /\ areas[m].id < s.num
        BY <1>3, <1>4, <1>6, <2>3
      <3> QED
        BY <1>1, <3>1
    <2> QED
      BY <1>4, <2>1, <2>2, <2>3
  <1>8. [areas |-> areas, num |-> s.num + 1] \in Lists(C)
    <2> DEFINE t == [areas |-> areas, num |-> s.num + 1]
    <2>1. t \in [areas : Seq([id : Nat, cells : SUBSET C]), num : Nat]
      BY <1>1, <1>4
    <2>2. t.areas = areas /\ t.num = s.num + 1
      OBVIOUS
    <2> HIDE DEF t
    <2>3. t \in Lists(C)
      BY <1>5, <1>7, <2>1, <2>2, Zenon DEF Lists
    <2> QED
      BY <2>3 DEF t
  <1> QED
    BY <1>4, <1>8 DEF areas, area, old

\* One turn of the merge keeps the list one, and it has an area less.
LEMMA MergeFirstKeeps ==
    ASSUME NEW C, NEW s \in Lists(C)
    PROVE  /\ MergeFirst(s) \in Lists(C)
           /\ Mergeable(s.areas) = {} => MergeFirst(s) = s
           /\ Mergeable(s.areas) # {} =>
                  Len(MergeFirst(s).areas) = Len(s.areas) - 1
  <1> DEFINE areas == s.areas
             p == FirstPair(Mergeable(areas))
             union == [id |-> NewID(areas, s.num), cells |-> areas[p[1]].cells \cup areas[p[2]].cells]
             pushed == Append(areas, union)
             shifted == RemoveWithID(pushed, pushed[p[1]].id)
             left == RemoveWithID(shifted, shifted[p[2]].id)
  <1>1. CASE Mergeable(areas) = {}
    BY <1>1 DEF MergeFirst
  <1>2. CASE Mergeable(areas) # {}
    <2>1. /\ areas \in Seq([id : Nat, cells : SUBSET C]) /\ s.num \in Nat
          /\ areas \in Seq(Areas(s.num, C))
          /\ \A k, m \in DOMAIN areas : areas[k].id = areas[m].id => k = m
      BY DEF Lists
    <2>2. MergeFirst(s) = [areas |-> left, num |-> s.num + 1]
      BY <1>2 DEF MergeFirst
    <2> HIDE DEF areas
    <2>3. DOMAIN areas = 1..Len(areas) /\ Len(areas) \in Nat
      BY <2>1
    <2>4. p[1] \in 1..Len(areas) /\ p[2] \in 1..Len(areas)
      <3>1. Mergeable(areas) \in SUBSET (Nat \X Nat)
        BY <2>3 DEF Mergeable
      <3>2. p \in Mergeable(areas)
        BY <1>2, <3>1, FirstPairIsOne
      <3> HIDE DEF p
      <3> QED
        BY <2>3, <3>2 DEF Mergeable
    <2> HIDE DEF p
    <2>5. /\ [areas |-> pushed, num |-> s.num + 1] \in Lists(C)
          /\ Len(pushed) = Len(areas) + 1 /\ DOMAIN pushed = 1..(Len(areas) + 1)
      <3> DEFINE A == [id : Nat, cells : SUBSET C]
                 cells == areas[p[1]].cells \cup areas[p[2]].cells
      <3>1. areas[p[1]] \in A /\ areas[p[2]] \in A
        <4>1. areas \in Seq(A)
          BY <2>1
        <4> HIDE DEF A
        <4> QED
          BY <2>4, <4>1, ElementOfSeq
      <3>2. cells \in SUBSET C /\ pushed = Append(areas, [id |-> s.num, cells |-> cells])
        BY <3>1 DEF NewID
      <3> HIDE DEF cells, union
      <3> QED
        BY <3>2, AddedIsList DEF areas
    <2> HIDE DEF pushed
    <2>11. [areas |-> shifted, num |-> s.num + 1] \in Lists(C) /\ Len(shifted) = Len(areas)
      <3> DEFINE t == [areas |-> pushed, num |-> s.num + 1]
      <3>1. t \in Lists(C) /\ t.areas = pushed /\ t.num = s.num + 1
        BY <2>5
      <3> HIDE DEF t
      <3>2. p[1] \in DOMAIN pushed
        BY <2>3, <2>4, <2>5
      <3>3. /\ [areas |-> shifted, num |-> s.num + 1] \in Lists(C)
            /\ Len(shifted) = Len(pushed) - 1
        <4> DEFINE id == t.areas[p[1]].id
        <4>1. shifted = RemoveWithID(t.areas, id) /\ t.areas[p[1]].id = id
          BY <3>1 DEF shifted
        <4> HIDE DEF id, shifted
        <4>2. /\ [areas |-> shifted, num |-> t.num] \in Lists(C)
              /\ \A m \in DOMAIN t.areas : t.areas[m].id = id => Len(shifted) = Len(t.areas) - 1
          BY <3>1, <4>1, RemovalKeepsList
        <4> QED
          BY <3>1, <3>2, <4>1, <4>2, Zenon
      <3> QED
        BY <2>3, <2>5, <3>3
    <2> HIDE DEF shifted
    <2>12. [areas |-> left, num |-> s.num + 1] \in Lists(C) /\ Len(left) = Len(areas) - 1
      <3> DEFINE t == [areas |-> shifted, num |-> s.num + 1]
      <3>1. t \in Lists(C) /\ t.areas = shifted /\ t.num = s.num + 1
        BY <2>11
      <3>2. shifted \in Seq([id : Nat, cells : SUBSET C])
        BY <3>1 DEF Lists
      <3> HIDE DEF t
      <3>3. p[2] \in DOMAIN shifted
        BY <2>4, <2>11, <3>2
      <3>4. /\ [areas |-> left, num |-> s.num + 1] \in Lists(C)
            /\ Len(left) = Len(shifted) - 1
        <4> DEFINE id == t.areas[p[2]].id
        <4>1. left = RemoveWithID(t.areas, id) /\ t.areas[p[2]].id = id
          BY <3>1 DEF left
        <4> HIDE DEF id, left
        <4>2. /\ [areas |-> left, num |-> t.num] \in Lists(C)
              /\ \A m \in DOMAIN t.areas : t.areas[m].id = id => Len(left) = Len(t.areas) - 1
          BY <3>1, <4>1, RemovalKeepsList
        <4> QED
          BY <3>1, <3>3, <4>1, <4>2, Zenon
      <3> QED
        BY <2>11, <3>4
    <2> HIDE DEF left
    <2> QED
      BY <1>2, <2>2, <2>12 DEF areas
  <1> QED
    BY <1>1, <1>2

\* mergeGeofenceAreas, run to its end: nothing is left to merge.
LEMMA MergeMerges ==
    ASSUME NEW C, NEW s \in Lists(C)
    PROVE  Merge(s) \in MergedLists(C)
  <1> DEFINE n == Len(s.areas)
             step == [q \in Lists(C) \X (1..n) |-> MergeFirst(q[1])]
             Folds(f) == f = [x \in SUBSET DOMAIN s.areas |->
                                IF x = {} THEN s ELSE MergeFirst(f[x \ {Max(x)}])]
             Reach == [m \in 0..n |-> { t \in Lists(C) : Mergeable(t.areas) = {} \/ Len(t.areas) <= n - m }]
  <1>1. n \in Nat /\ DOMAIN s.areas = 1..n
    BY DEF Lists
  <1>2. Merge(s) = (CHOOSE f : Folds(f))[DOMAIN s.areas]
    BY DEF Merge, FoldLeft, MapThenFoldSet
  <1>3. \E f : Folds(f)
    <2>1. step \in [Lists(C) \X (1..n) -> Lists(C)]
      BY MergeFirstKeeps
    <2> DEFINE G == Lists(C)
    <2> HIDE DEF step, n
    <2>2. PICK f \in [SUBSET (1..n) -> Lists(C)] : IsFold(f, n, s, step)
      <3>1. s \in G /\ step \in [G \X (1..n) -> G]
        BY <2>1
      <3> HIDE DEF G
      <3>2. \E f \in [SUBSET (1..n) -> G] : IsFold(f, n, s, step)
        BY <1>1, <3>1, FoldExists
      <3> QED
        BY <3>2 DEF G
    <2>3. \A x \in SUBSET (1..n) : f[x] = IF x = {} THEN s ELSE MergeFirst(f[x \ {Max(x)}])
      <3> SUFFICES ASSUME NEW x \in SUBSET (1..n), x # {}
                   PROVE  step[<<f[x \ {Max(x)}], Max(x)>>] = MergeFirst(f[x \ {Max(x)}])
        BY <2>2 DEF IsFold
      <3>1. Max(x) \in 1..n /\ f[x \ {Max(x)}] \in Lists(C)
        BY <1>1, MaxUpTo
      <3> QED
        BY <3>1 DEF step
    <2>4. Folds(f)
      BY <1>1, <2>3
    <2> QED
      BY <2>4
  <1>4. PICK f : Folds(f) /\ Merge(s) = f[1..n]
    <2> HIDE DEF Folds
    <2> QED
      BY <1>1, <1>2, <1>3
  <1>5. f[{}] = s /\ \A m \in 1..n : f[1..m] = MergeFirst(f[1..(m - 1)])
    <2>1. \A x \in SUBSET (1..n) : f[x] = IF x = {} THEN s ELSE MergeFirst(f[x \ {Max(x)}])
      BY <1>1, <1>4
    <2> HIDE DEF Folds
    <2>2. ASSUME NEW m \in 1..n
          PROVE  f[1..m] = MergeFirst(f[1..(m - 1)])
      <3>1. 1..m # {} /\ (1..m) \ {Max(1..m)} = 1..(m - 1)
        BY <1>1, MaxOfFirst
      <3>2. 1..m \in SUBSET (1..n)
        BY <1>1
      <3> QED
        BY <2>1, <3>1, <3>2
    <2> QED
      BY <2>1, <2>2
  <1> HIDE DEF Folds, step
  <1>6. f[{}] \in Reach[0]
    BY <1>1, <1>5
  <1>7. \A m \in 1..n : f[1..(m - 1)] \in Reach[m - 1] => f[1..m] \in Reach[m]
    <2> SUFFICES ASSUME NEW m \in 1..n, f[1..(m - 1)] \in Reach[m - 1]
                 PROVE  f[1..m] \in Reach[m]
      OBVIOUS
    <2> DEFINE t == f[1..(m - 1)]
    <2>1. m - 1 \in 0..n /\ m \in 0..n
      BY <1>1
    <2>2. t \in Lists(C) /\ (Mergeable(t.areas) = {} \/ Len(t.areas) <= n - (m - 1))
      BY <2>1
    <2>3. f[1..m] = MergeFirst(t)
      BY <1>5
    <2> HIDE DEF t
    <2>4. MergeFirst(t) \in Lists(C)
      BY <2>2, MergeFirstKeeps
    <2>5. Mergeable(MergeFirst(t).areas) = {} \/ Len(MergeFirst(t).areas) <= n - m
      <3>1. CASE Mergeable(t.areas) = {}
        <4>1. MergeFirst(t) = t
          BY <2>2, <3>1, MergeFirstKeeps
        <4> QED
          BY <3>1, <4>1
      <3>2. CASE Mergeable(t.areas) # {}
        <4>1. Len(MergeFirst(t).areas) = Len(t.areas) - 1
          BY <2>2, <3>2, MergeFirstKeeps
        <4>2. Len(t.areas) \in Nat /\ n \in Nat /\ m \in Nat
          BY <1>1, <2>1, <2>2 DEF Lists
        <4>3. Len(t.areas) <= n - (m - 1)
          BY <2>2, <3>2
        <4> HIDE DEF n
        <4> QED
          BY <4>1, <4>2, <4>3
      <3> QED
        BY <3>1, <3>2
    <2> QED
      BY <2>1, <2>3, <2>4, <2>5
  <1> HIDE DEF Reach
  <1>8. f[1..n] \in Reach[n]
    BY <1>1, <1>6, <1>7, FoldStays
  <1>9. Merge(s) \in Lists(C) /\ (Mergeable(Merge(s).areas) = {} \/ Len(Merge(s).areas) <= 0)
    <2>1. n \in 0..n /\ n - n = 0
      BY <1>1
    <2>2. Reach[n] = { t \in Lists(C) : Mergeable(t.areas) = {} \/ Len(t.areas) <= n - n }
      BY <2>1 DEF Reach
    <2> HIDE DEF n
    <2> QED
      BY <1>4, <1>8, <2>1, <2>2
  <1>10. Len(Merge(s).areas) <= 0 => Mergeable(Merge(s).areas) = {}
    <2>1. Merge(s).areas \in Seq([id : Nat, cells : SUBSET C])
      BY <1>9 DEF Lists
    <2> QED
      BY <2>1 DEF Mergeable
  <1> QED
    BY <1>9, <1>10 DEF MergedLists

\* addGeofenceArea with merging leaves nothing to merge.
LEMMA AddMergedMerges ==
    ASSUME NEW C, NEW s \in MergedLists(C), NEW cells \in SUBSET C
    PROVE  AddMerged(s, cells) \in MergedLists(C)
  <1> DEFINE t == [areas |-> Append(s.areas, [id |-> s.num, cells |-> cells]), num |-> s.num + 1]
  <1>1. AddMerged(s, cells) = Merge(t)
    BY DEF AddMerged, NewID
  <1>2. t \in Lists(C)
    BY AddedIsList DEF MergedLists
  <1> HIDE DEF t
  <1> QED
    BY <1>1, <1>2, MergeMerges

\* loadParams: the areas of the parameter file, merged one after the other.
LEMMA LoadedIsMerged ==
    ASSUME NEW C, NEW areas \in Seq(SUBSET C)
    PROVE  FoldLeft(AddMerged, [areas |-> <<>>, num |-> 0], areas) \in MergedLists(C)
  <1> DEFINE n == Len(areas)
             base == [areas |-> <<>>, num |-> 0]
             G == MergedLists(C)
             step == [q \in G \X (1..n) |-> AddMerged(q[1], areas[q[2]])]
             Folds(f) == f = [x \in SUBSET DOMAIN areas |->
                                IF x = {} THEN base
                                ELSE AddMerged(f[x \ {Max(x)}], areas[Max(x)])]
             loaded == FoldLeft(AddMerged, base, areas)
  <1>1. n \in Nat /\ DOMAIN areas = 1..n /\ \A k \in 1..n : areas[k] \in SUBSET C
    OBVIOUS
  <1>2. loaded = (CHOOSE f : Folds(f))[DOMAIN areas]
    BY DEF FoldLeft, MapThenFoldSet
  <1> HIDE DEF loaded, n
  <1>3. base \in G
    <2>1. DOMAIN base.areas = {}
      OBVIOUS
    <2> QED
      BY <2>1, EmptyIsList DEF MergedLists, Mergeable
  <1> HIDE DEF base
  <1>4. step \in [G \X (1..n) -> G]
    <2> SUFFICES ASSUME NEW q \in G \X (1..n)
                 PROVE  AddMerged(q[1], areas[q[2]]) \in G
      OBVIOUS
    <2>1. q[1] \in MergedLists(C) /\ areas[q[2]] \in SUBSET C
      BY <1>1
    <2> QED
      BY <2>1, AddMergedMerges
  <1>5. PICK g \in [SUBSET (1..n) -> G] : IsFold(g, n, base, step)
    <2> HIDE DEF G, step
    <2> QED
      BY <1>1, <1>3, <1>4, FoldExists
  <1>6. Folds(g)
    <2> SUFFICES ASSUME NEW x \in SUBSET (1..n), x # {}
                 PROVE  step[<<g[x \ {Max(x)}], Max(x)>>]
                            = AddMerged(g[x \ {Max(x)}], areas[Max(x)])
      BY <1>1, <1>5 DEF IsFold
    <2>1. Max(x) \in 1..n /\ g[x \ {Max(x)}] \in G
      <3> HIDE DEF G
      <3> QED
        BY <1>1, MaxUpTo
    <2> HIDE DEF G
    <2> QED
      BY <2>1 DEF step
  <1>7. PICK f : Folds(f) /\ loaded = f[1..n]
    <2> HIDE DEF Folds
    <2> QED
      BY <1>1, <1>2, <1>6
  <1>8. \A x \in SUBSET (1..n) :
           f[x] = IF x = {} THEN base ELSE AddMerged(f[x \ {Max(x)}], areas[Max(x)])
    BY <1>1, <1>7
  <1> DEFINE Reach == [m \in 0..n |-> G]
  <1> HIDE DEF Folds, step, G
  <1>9. f[{}] \in Reach[0]
    <2>1. f[{}] = base
      BY <1>8
    <2>2. 0 \in 0..n
      BY <1>1
    <2> QED
      BY <1>3, <2>1, <2>2
  <1>10. \A m \in 1..n : f[1..(m - 1)] \in Reach[m - 1] => f[1..m] \in Reach[m]
    <2> SUFFICES ASSUME NEW m \in 1..n, f[1..(m - 1)] \in Reach[m - 1]
                 PROVE  f[1..m] \in Reach[m]
      OBVIOUS
    <2>1. n \in Nat
      BY <1>1
    <2>2. /\ m \in Nat /\ m > 0 /\ 1..m \in SUBSET (1..n)
          /\ m - 1 \in 0..n /\ m \in 0..n
      BY <2>1
    <2>3. 1..m # {} /\ Max(1..m) = m /\ (1..m) \ {Max(1..m)} = 1..(m - 1)
      BY <2>2, MaxOfFirst
    <2>4. f[1..m] = AddMerged(f[1..(m - 1)], areas[m])
      BY <1>8, <2>2, <2>3
    <2>5. f[1..(m - 1)] \in MergedLists(C) /\ areas[m] \in SUBSET C
      BY <1>1, <2>2 DEF G
    <2>6. f[1..m] \in MergedLists(C)
      BY <2>4, <2>5, AddMergedMerges
    <2> QED
      BY <2>2, <2>6 DEF G
  <1> HIDE DEF Reach
  <1>11. f[1..n] \in Reach[n]
    BY <1>1, <1>9, <1>10, FoldStays
  <1> QED
    BY <1>1, <1>7, <1>11 DEF Reach, G, loaded, base

-----------------------------------------------------------------------------
(* The inductive invariant.  Areas of the parameter file that are left lie *)
(* in what is configured and share no square, so removing one opens no     *)
(* square of another.                                                      *)

\* The zones in force are areas of the list; any other is configured.
OthersAreConfigured ==
    /\ zones \subseteq ToSet(list)
    /\ \A k \in DOMAIN list : list[k] \in zones \/ list[k].cells \subseteq configured

\* No square is in two of the configured areas: the merge took them together.
OthersAreApart ==
    \A k, m \in DOMAIN list :
        \/ k = m \/ list[k] \in zones \/ list[m] \in zones
        \/ list[k].cells \cap list[m].cells = {}

IInv ==
    /\ idNum \in 0..MaxZones
    /\ [areas |-> list, num |-> idNum] \in Lists(Cells)
    /\ configured \subseteq Cells
    /\ OthersAreConfigured
    /\ OthersAreApart

\* Areas with a common square are merged.
LEMMA MergedAreApart ==
    ASSUME NEW areas, Mergeable(areas) = {}, DOMAIN areas \in SUBSET Nat,
           NEW k \in DOMAIN areas, NEW m \in DOMAIN areas, k # m,
           areas[k].cells \in SUBSET Cells
    PROVE  areas[k].cells \cap areas[m].cells = {}
  <1> SUFFICES ASSUME NEW a \in areas[k].cells, a \in areas[m].cells
               PROVE  FALSE
    OBVIOUS
  <1>1. Apart(a[1], a[1]) = 0 /\ Apart(a[2], a[2]) = 0
    <2>1. a \in (1..Width) \X (1..Height)
      BY DEF Cells
    <2>2. a[1] \in Int /\ a[2] \in Int
      BY <2>1
    <2> QED
      BY <2>2 DEF Apart
  <1>2. /\ DoIntersect(areas[k].cells, areas[m].cells) /\ UnionIsOne(areas[k].cells, areas[m].cells)
        /\ DoIntersect(areas[m].cells, areas[k].cells) /\ UnionIsOne(areas[m].cells, areas[k].cells)
    BY <1>1 DEF DoIntersect, UnionIsOne
  <1>3. CASE k < m
    <2>1. <<k, m>> \in Mergeable(areas)
      BY <1>2, <1>3 DEF Mergeable
    <2> QED
      BY <2>1
  <1>4. CASE m < k
    <2>1. <<m, k>> \in Mergeable(areas)
      BY <1>2, <1>4 DEF Mergeable
    <2> QED
      BY <2>1
  <1> QED
    BY <1>3, <1>4

\* The areas of the parameter file, loaded.
LEMMA InitIInv == Init => IInv
  <1> SUFFICES ASSUME Init
               PROVE  IInv
    OBVIOUS
  <1>1. PICK areas \in SeqOf(Rectangles, MaxConfigured) :
           LET loaded == FoldLeft(AddMerged, [areas |-> <<>>, num |-> 0], areas)
           IN  /\ loaded.num <= MaxZones
               /\ list = loaded.areas
               /\ idNum = loaded.num
               /\ configured = UNION { areas[k] : k \in DOMAIN areas }
               /\ zones = {}
    BY DEF Init
  <1> DEFINE loaded == FoldLeft(AddMerged, [areas |-> <<>>, num |-> 0], areas)
             C == UNION { areas[k] : k \in DOMAIN areas }
  <1>2. areas \in Seq(SUBSET C) /\ C \subseteq Cells
    <2>1. PICK n \in 0..MaxConfigured : areas \in [1..n -> Rectangles]
      BY <1>1 DEF SeqOf
    <2>2. areas \in Seq(Rectangles) /\ DOMAIN areas = 1..n /\ n \in Nat
      BY <2>1, GridAssumption
    <2>3. \A k \in 1..n : areas[k] \in SUBSET C
      BY <2>2
    <2>4. \A r \in Rectangles : r \subseteq Cells
      BY GridAssumption DEF Rectangles, Cells
    <2>5. C \subseteq Cells
      BY <2>1, <2>2, <2>4
    <2> HIDE DEF C
    <2>6. areas \in [1..n -> SUBSET C]
      BY <2>1, <2>3
    <2> QED
      BY <2>2, <2>5, <2>6
  <1> HIDE DEF C, loaded
  <1>3. loaded \in MergedLists(C)
    BY <1>2, LoadedIsMerged DEF loaded
  <1>4. /\ list = loaded.areas /\ idNum = loaded.num /\ loaded.num <= MaxZones
        /\ configured = C /\ zones = {}
    BY <1>1 DEF loaded, C
  <1>5. /\ loaded \in Lists(C) /\ Mergeable(list) = {}
        /\ loaded = [areas |-> list, num |-> idNum]
    BY <1>3, <1>4 DEF MergedLists, Lists
  <1>6. list \in Seq([id : Nat, cells : SUBSET C]) /\ idNum \in Nat /\ idNum \in 0..MaxZones
    <2>1. loaded \in [areas : Seq([id : Nat, cells : SUBSET C]), num : Nat]
      BY <1>5 DEF Lists
    <2>2. list \in Seq([id : Nat, cells : SUBSET C]) /\ idNum \in Nat
      BY <1>4, <2>1
    <2>3. MaxZones \in Nat /\ idNum <= MaxZones
      BY <1>4, GridAssumption
    <2> QED
      BY <2>2, <2>3
  <1>7. \A k \in DOMAIN list : list[k].cells \in SUBSET C /\ k \in Nat
    <2> DEFINE A == [id : Nat, cells : SUBSET C]
    <2>1. list \in Seq(A)
      BY <1>6
    <2>2. \A k \in DOMAIN list : list[k] \in A /\ k \in Nat
      <3> HIDE DEF A
      <3> QED
        BY <2>1
    <2> QED
      BY <2>2
  <1>8. loaded \in Lists(Cells)
    BY <1>2, <1>5, WiderLists
  <1>9. OthersAreConfigured
    BY <1>4, <1>7 DEF OthersAreConfigured
  <1>10. OthersAreApart
    <2> SUFFICES ASSUME NEW k \in DOMAIN list, NEW m \in DOMAIN list, k # m
                 PROVE  list[k].cells \cap list[m].cells = {}
      BY DEF OthersAreApart
    <2> QED
      BY <1>2, <1>5, <1>7, MergedAreApart
  <1> QED
    BY <1>2, <1>4, <1>5, <1>6, <1>8, <1>9, <1>10 DEF IInv

\* Any handler keeps the invariant.
LEMMA NextIInv == IInv /\ [Next]_vars => IInv'
  <1> SUFFICES ASSUME IInv, [Next]_vars
               PROVE  IInv'
    OBVIOUS
  <1> DEFINE s == [areas |-> list, num |-> idNum]
  <1>1. /\ s \in Lists(Cells) /\ s.areas = list /\ s.num = idNum
        /\ idNum \in 0..MaxZones /\ MaxZones \in Nat
        /\ configured \subseteq Cells /\ OthersAreConfigured /\ OthersAreApart
    BY GridAssumption DEF IInv
  <1>2. /\ list \in Seq([id : Nat, cells : SUBSET Cells])
        /\ \A k, m \in DOMAIN list : list[k].id = list[m].id => k = m
        /\ zones \subseteq { list[k] : k \in DOMAIN list }
    BY <1>1 DEF Lists, OthersAreConfigured, ToSet
  <1> HIDE DEF s
  <1>3. ASSUME NEW cells \in Rectangles, AddZone(cells)
        PROVE  IInv'
    <2> DEFINE area == [id |-> idNum, cells |-> cells]
               n == Len(list)
    <2>1. /\ idNum < MaxZones /\ list' = Append(list, area) /\ idNum' = idNum + 1
          /\ zones' = zones \cup {area} /\ configured' = configured
      BY <1>3 DEF AddZone, NewID
    <2>2. cells \in SUBSET Cells
      BY GridAssumption DEF Rectangles, Cells
    <2>3. /\ [areas |-> Append(s.areas, [id |-> s.num, cells |-> cells]), num |-> s.num + 1]
                 \in Lists(Cells)
          /\ LET areas == Append(s.areas, [id |-> s.num, cells |-> cells])
             IN  /\ DOMAIN areas = 1..(Len(s.areas) + 1)
                 /\ Len(s.areas) \in Nat /\ DOMAIN s.areas = 1..Len(s.areas)
                 /\ \A k \in 1..Len(s.areas) : areas[k] = s.areas[k]
                 /\ areas[Len(s.areas) + 1] = [id |-> s.num, cells |-> cells]
      BY <1>1, <2>2, AddedIsList
    <2>4. /\ [areas |-> list', num |-> idNum'] \in Lists(Cells)
          /\ DOMAIN list' = 1..(n + 1) /\ n \in Nat /\ DOMAIN list = 1..n
          /\ \A k \in 1..n : list'[k] = list[k]
          /\ list'[n + 1] = area
      BY <1>1, <2>1, <2>3
    <2>5. idNum' \in 0..MaxZones
      BY <1>1, <2>1
    <2> HIDE DEF area, n
    <2>6. /\ \A k \in DOMAIN list : k \in DOMAIN list' /\ list'[k] = list[k]
          /\ \A k \in DOMAIN list' : k \in DOMAIN list \/ list'[k] = area
          /\ \E k \in DOMAIN list' : list'[k] = area
      BY <2>4
    <2>7. zones' \subseteq { list'[k] : k \in DOMAIN list' }
      BY <1>2, <2>1, <2>6
    <2>8. \A k \in DOMAIN list' :
             \/ list'[k] \in zones'
             \/ k \in DOMAIN list /\ list'[k] = list[k] /\ list[k] \notin zones
      BY <2>1, <2>6
    <2>9. OthersAreConfigured'
      BY <1>1, <2>1, <2>7, <2>8 DEF OthersAreConfigured, ToSet
    <2>10. OthersAreApart'
      BY <1>1, <2>8 DEF OthersAreApart
    <2> QED
      BY <1>1, <2>1, <2>4, <2>5, <2>9, <2>10 DEF IInv
  <1>4. ASSUME NEW id \in 0..(MaxZones - 1), RemoveZone(id)
        PROVE  IInv'
    <2> DEFINE gone == { list[k] : k \in DOMAIN list } \ (zones \cup ToSet(list'))
    <2>1. /\ list' = RemoveWithID(list, id) /\ idNum' = idNum
          /\ zones' = { z \in zones : z.id # id }
          /\ configured' = configured \ UNION { area.cells : area \in gone }
      BY <1>4 DEF RemoveZone
    <2> DEFINE left == RemoveWithID(s.areas, id)
    <2>a. /\ [areas |-> left, num |-> s.num] \in Lists(Cells)
          /\ \A k \in DOMAIN left : \E m \in DOMAIN s.areas : left[k] = s.areas[m]
          /\ \A m \in DOMAIN s.areas :
                 s.areas[m].id # id => \E k \in DOMAIN left : left[k] = s.areas[m]
          /\ \A k \in DOMAIN left : left[k].id # id
          /\ \A m \in DOMAIN s.areas : s.areas[m].id = id => Len(left) = Len(s.areas) - 1
      <3>1. s \in Lists(Cells)
        BY <1>1
      <3> QED
        BY <3>1, RemovalKeepsList, Zenon
    <2>2. /\ [areas |-> list', num |-> idNum'] \in Lists(Cells)
          /\ \A k \in DOMAIN list' : \E m \in DOMAIN list : list'[k] = list[m]
          /\ \A m \in DOMAIN list :
                 list[m].id # id => \E k \in DOMAIN list' : list'[k] = list[m]
          /\ \A k \in DOMAIN list' : list'[k].id # id
      BY <1>1, <2>1, <2>a
    <2>3. zones' \subseteq { list'[k] : k \in DOMAIN list' }
      BY <1>2, <2>1, <2>2
    <2>4. \A k \in DOMAIN list' : list'[k] \in zones => list'[k] \in zones'
      BY <2>1, <2>2
    <2>5. ASSUME NEW k \in DOMAIN list', list'[k] \notin zones'
          PROVE  list'[k].cells \subseteq configured'
      <3>1. PICK m \in DOMAIN list : list'[k] = list[m]
        BY <2>2
      <3>2. list[m] \notin zones /\ list[m].cells \subseteq configured
        BY <1>1, <2>4, <2>5, <3>1 DEF OthersAreConfigured
      <3>3. ASSUME NEW area \in gone
            PROVE  area.cells \cap list[m].cells = {}
        <4>1. PICK l \in DOMAIN list : area = list[l]
          OBVIOUS
        <4>2. list[l] \notin zones /\ \A i \in DOMAIN list' : list[l] # list'[i]
          BY <3>3, <4>1 DEF ToSet
        <4>3. l # m
          BY <3>1, <4>2
        <4> QED
          BY <1>1, <3>2, <4>1, <4>2, <4>3 DEF OthersAreApart
      <3> HIDE DEF gone
      <3> QED
        BY <2>1, <3>1, <3>2, <3>3
    <2> HIDE DEF gone
    <2>6. OthersAreConfigured'
      BY <2>3, <2>5 DEF OthersAreConfigured, ToSet
    <2>7. OthersAreApart'
      <3> SUFFICES ASSUME NEW k \in DOMAIN list', NEW m \in DOMAIN list', k # m,
                          list'[k] \notin zones', list'[m] \notin zones'
                   PROVE  list'[k].cells \cap list'[m].cells = {}
        BY DEF OthersAreApart
      <3>1. PICK i \in DOMAIN list : list'[k] = list[i]
        BY <2>2
      <3>2. PICK j \in DOMAIN list : list'[m] = list[j]
        BY <2>2
      <3>3. i # j
        <4>1. list'[k].id # list'[m].id
          BY <2>2 DEF Lists
        <4> QED
          BY <3>1, <3>2, <4>1
      <3>4. list[i] \notin zones /\ list[j] \notin zones
        BY <2>4, <3>1, <3>2
      <3> QED
        BY <1>1, <3>1, <3>2, <3>3, <3>4 DEF OthersAreApart
    <2> QED
      BY <1>1, <2>1, <2>2, <2>6, <2>7 DEF IInv
  <1>5. CASE ClearZones
    <2>1. list' = <<>> /\ idNum' = 0 /\ configured' = {} /\ zones' = {}
      BY <1>5 DEF ClearZones
    <2>2. DOMAIN list' = {}
      BY <2>1
    <2>3. [areas |-> list', num |-> idNum'] \in Lists(Cells)
      BY <2>1, EmptyIsList
    <2> QED
      BY <1>1, <2>1, <2>2, <2>3 DEF IInv, OthersAreConfigured, OthersAreApart
  <1>6. CASE UNCHANGED vars
    BY <1>6 DEF vars, IInv, OthersAreConfigured, OthersAreApart
  <1> QED
    BY <1>3, <1>4, <1>5, <1>6 DEF Next

\* What the invariant says of the areas, in the forms the properties use.
LEMMA IInvGives ==
    ASSUME IInv
    PROVE  TypeOK /\ IdsAreUnique /\ ZonesAreRespected /\ NothingElseIsClosed
  <1> DEFINE A == [id : 0..(MaxZones - 1), cells : SUBSET Cells]
  <1>1. /\ list \in Seq(Areas(idNum, Cells))
        /\ idNum \in 0..MaxZones /\ MaxZones \in Nat
        /\ IdsAreUnique
    BY GridAssumption DEF IInv, Lists, IdsAreUnique
  <1>2. list \in Seq(A)
    <2>1. Areas(idNum, Cells) \subseteq A
      BY <1>1 DEF Areas
    <2> HIDE DEF A
    <2> QED
      BY <1>1, <2>1, SeqMonotonic
  <1>3. zones \subseteq { list[k] : k \in DOMAIN list }
    BY DEF IInv, OthersAreConfigured, ToSet
  <1>4. TypeOK
    <2>1. \A k \in DOMAIN list : list[k] \in A
      <3> HIDE DEF A
      <3> QED
        BY <1>2
    <2>2. zones \subseteq A
      <3> HIDE DEF A
      <3> QED
        BY <1>3, <2>1
    <2> QED
      BY <1>1, <1>2, <2>2 DEF TypeOK, IInv
  <1>5. ZonesAreRespected
    BY <1>3 DEF ZonesAreRespected, CoordinateStatus, BoxStatus, DoIntersect
  <1>6. NothingElseIsClosed
    BY DEF NothingElseIsClosed, CoordinateStatus, IInv, OthersAreConfigured
  <1> QED
    BY <1>1, <1>4, <1>5, <1>6

-----------------------------------------------------------------------------
(* Theorems.                                                               *)

\* The invariant holds in every state the manager reaches.
THEOREM Invariance == Spec => []IInv
  <1> QED
    BY InitIInv, NextIInv, PTL DEF Spec

\* Every id was given by the counter, and every area lies in the grid.
THEOREM GeofenceTyping == Spec => []TypeOK
  <1>1. IInv => TypeOK
    BY IInvGives
  <1> QED
    BY <1>1, Invariance, PTL

\* removeGeofenceAreaWithID takes the area that was meant: merging, adding
\* and removing in any order never leave two areas with one id.
THEOREM IdsStayUnique == Spec => []IdsAreUnique
  <1>1. IInv => IdsAreUnique
    BY IInvGives
  <1> QED
    BY <1>1, Invariance, PTL

\* getCoordinateStatus and getBoxStatus report every zone in force, whatever
\* was merged before it was added and removed after.
THEOREM ZonesStayRespected == Spec => []ZonesAreRespected
  <1>1. IInv => ZonesAreRespected
    BY IInvGives
  <1> QED
    BY <1>1, Invariance, PTL

\* No square is closed that no area in force covers: the merge unites, and a
\* removal takes all of the area and nothing of another.
THEOREM NothingElseClosed == Spec => []NothingElseIsClosed
  <1>1. IInv => NothingElseIsClosed
    BY IInvGives
  <1> QED
    BY <1>1, Invariance, PTL
=============================================================================
