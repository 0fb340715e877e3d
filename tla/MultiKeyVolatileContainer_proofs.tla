------------------ MODULE MultiKeyVolatileContainer_proofs ------------------
(***************************************************************************)
(* The container keeps its vector sorted and in step with its hash table,  *)
(* whatever the users, the amounts and the merge function; from this every *)
(* lookup ends inside the vector.                                          *)
(***************************************************************************)
EXTENDS MultiKeyVolatileContainer, TLAPS, WellFoundedInduction, SequenceTheorems

-----------------------------------------------------------------------------
(* A non-empty set of naturals has a least element, so the "first index    *)
(* such that" searches of the container are defined.                       *)
LEMMA MinExists ==
  ASSUME NEW S, S \subseteq Nat, S # {}
  PROVE  /\ Min(S) \in S
         /\ \A y \in S : Min(S) <= y
<1>. DEFINE R == {ss \in Nat \X Nat : ss[1] < ss[2]}
<1>1. OpToRel(<, Nat) = R
  BY Zenon DEF OpToRel
<1>2. IsWellFoundedOn(R, Nat)
  BY <1>1, NatLessThanWellFounded, Zenon
<1>. HIDE DEF R
<1>3. PICK x \in S : \A y \in S : ~(<<y, x>> \in R)
  BY <1>2, WFMin, Zenon
<1>4. ASSUME NEW y \in S, ~(x <= y) PROVE FALSE
  <2>1. x \in Nat /\ y \in Nat /\ y < x
    BY <1>4, SMT
  <2>2. <<y, x>> \in R
    BY <2>1, SMT DEF R
  <2>. QED  BY <1>3, <2>2
<1>. QED
  BY <1>4 DEF Min

(* A non-empty bounded set of naturals has a greatest element: the "last   *)
(* index such that" search of a move to the left is defined.               *)
LEMMA MaxExists ==
  ASSUME NEW S, NEW b \in Nat, S \subseteq 0 .. b, S # {}
  PROVE  /\ Max(S) \in S
         /\ \A y \in S : Max(S) >= y
<1>. DEFINE T == {b - y : y \in S}
<1>1. T \subseteq Nat
  OBVIOUS
<1>2. T # {}
  <2>1. PICK y \in S : TRUE
    OBVIOUS
  <2>2. b - y \in T
    OBVIOUS
  <2>. QED  BY <2>2
<1>3. PICK m \in T : \A y \in T : m <= y
  <2>. HIDE DEF T
  <2>. QED  BY <1>1, <1>2, MinExists
<1>4. PICK x \in S : m = b - x
  BY <1>3
<1>5. \A y \in S : x >= y
  BY <1>3, <1>4
<1>. QED
  BY <1>5 DEF Max

-----------------------------------------------------------------------------
(* The search to the right stops at the first node that is not ahead of v. *)
LEMMA FirstNotAheadStops ==
  ASSUME NEW K, NEW s \in Seq(K), NEW a, NEW v, NEW from \in 1 .. Len(s) + 1
  PROVE  LET f == FirstNotAhead(s, a, v, from)
         IN  /\ f \in from .. Len(s) + 1
             /\ f # Len(s) + 1 => ~Ahead(s, a, f, v)
             /\ \A i \in from .. f - 1 : Ahead(s, a, i, v)
<1>. DEFINE S == {i \in from .. Len(s) : ~Ahead(s, a, i, v)} \cup {Len(s) + 1}
            f == FirstNotAhead(s, a, v, from)
<1>1. S \subseteq from .. Len(s) + 1 /\ S \subseteq Nat
  OBVIOUS
<1>2. Len(s) + 1 \in S
  OBVIOUS
<1>3. f = Min(S)
  BY DEF FirstNotAhead
<1>4. f \in S /\ \A y \in S : f <= y
  <2>. HIDE DEF S, f
  <2>. QED  BY <1>1, <1>2, <1>3, MinExists
<1>5. f \in from .. Len(s) + 1
  BY <1>1, <1>4
<1>6. f # Len(s) + 1 => ~Ahead(s, a, f, v)
  BY <1>4
<1>7. ASSUME NEW i \in from .. f - 1, ~Ahead(s, a, i, v) PROVE FALSE
  <2>. HIDE DEF f
  <2>1. i \in from .. Len(s) /\ i < f
    BY <1>5
  <2>2. i \in S
    BY <2>1, <1>7
  <2>. HIDE DEF S
  <2>. QED  BY <2>1, <2>2, <1>4, <1>5
<1>. QED
  BY <1>5, <1>6, <1>7

(* The search to the left stops at the last node before i that is ahead.   *)
LEMMA LastAheadStops ==
  ASSUME NEW K, NEW s \in Seq(K), NEW a, NEW v, NEW i \in 1 .. Len(s)
  PROVE  LET l == LastAhead(s, a, v, i)
         IN  /\ l \in 0 .. i - 1
             /\ l # 0 => Ahead(s, a, l, v)
             /\ \A j \in l + 1 .. i - 1 : ~Ahead(s, a, j, v)
<1>. DEFINE S == {j \in 1 .. i - 1 : Ahead(s, a, j, v)} \cup {0}
            l == LastAhead(s, a, v, i)
<1>1. S \subseteq 0 .. i - 1 /\ i - 1 \in Nat
  OBVIOUS
<1>2. 0 \in S
  OBVIOUS
<1>3. l = Max(S)
  BY DEF LastAhead
<1>4. l \in S /\ \A y \in S : l >= y
  <2>. HIDE DEF S, l
  <2>. QED  BY <1>1, <1>2, <1>3, MaxExists
<1>5. l \in 0 .. i - 1
  BY <1>1, <1>4
<1>6. l # 0 => Ahead(s, a, l, v)
  BY <1>4
<1>7. ASSUME NEW j \in l + 1 .. i - 1, Ahead(s, a, j, v) PROVE FALSE
  <2>. HIDE DEF l
  <2>1. j \in 1 .. i - 1 /\ j > l
    BY <1>5
  <2>2. j \in S
    BY <2>1, <1>7
  <2>. HIDE DEF S
  <2>. QED  BY <2>1, <2>2, <1>4, <1>5
<1>. QED
  BY <1>5, <1>6, <1>7

-----------------------------------------------------------------------------
(* t is s with e at j: the elements from j on are shifted by one.          *)
IsInsertion(t, s, j, e) ==
  /\ Len(t) = Len(s) + 1
  /\ \A n \in 1 .. Len(s) + 1 :
       t[n] = IF n < j THEN s[n] ELSE IF n = j THEN e ELSE s[n - 1]

(* t is s with the element at i carried to j: those between shift by one.  *)
IsMove(t, s, i, j) ==
  /\ Len(t) = Len(s)
  /\ \A n \in 1 .. Len(s) :
       t[n] = IF n = j THEN s[i]
              ELSE IF i <= n /\ n < j THEN s[n + 1]
              ELSE IF j < n /\ n <= i THEN s[n - 1]
              ELSE s[n]

(* Inserting at j shifts the nodes from j on by one.                       *)
LEMMA InsertAtIndexes ==
  ASSUME NEW K, NEW s \in Seq(K), NEW e \in K, NEW j \in 1 .. Len(s) + 1
  PROVE  InsertAt(s, j, e) \in Seq(K) /\ IsInsertion(InsertAt(s, j, e), s, j, e)
<1>. DEFINE front == SubSeq(s, 1, j - 1)
            back  == SubSeq(s, j, Len(s))
            fe    == front \o <<e>>
<1>1. /\ front \in Seq(K)
      /\ Len(front) = j - 1
      /\ \A n \in 1 .. j - 1 : front[n] = s[n]
  BY SubSeqProperties
<1>2. /\ back \in Seq(K)
      /\ Len(back) = Len(s) + 1 - j
      /\ \A n \in 1 .. Len(s) + 1 - j : back[n] = s[j + n - 1]
  BY SubSeqProperties
<1>3. <<e>> \in Seq(K) /\ Len(<<e>>) = 1 /\ <<e>>[1] = e
  OBVIOUS
<1>4. InsertAt(s, j, e) = fe \o back
  BY DEF InsertAt
<1>. HIDE DEF front, back
<1>5. /\ fe \in Seq(K)
      /\ Len(fe) = j
      /\ \A n \in 1 .. j : fe[n] = IF n < j THEN front[n] ELSE e
  BY <1>1, <1>3, ConcatProperties
<1>. HIDE DEF fe
<1>6. /\ fe \o back \in Seq(K)
      /\ Len(fe \o back) = Len(s) + 1
      /\ \A n \in 1 .. Len(s) + 1 :
           (fe \o back)[n] = IF n <= j THEN fe[n] ELSE back[n - j]
  <2>1. /\ fe \o back \in Seq(K)
        /\ Len(fe \o back) = Len(fe) + Len(back)
        /\ \A n \in 1 .. Len(fe) + Len(back) :
             (fe \o back)[n] = IF n <= Len(fe) THEN fe[n] ELSE back[n - Len(fe)]
    BY <1>2, <1>5, ConcatProperties
  <2>2. Len(fe) = j /\ Len(fe) + Len(back) = Len(s) + 1
    BY <1>2, <1>5
  <2>. QED  BY <2>1, <2>2
<1>7. ASSUME NEW n \in 1 .. Len(s) + 1
      PROVE  (fe \o back)[n] = IF n < j THEN s[n]
                               ELSE IF n = j THEN e ELSE s[n - 1]
  <2>1. CASE n < j   BY <2>1, <1>1, <1>5, <1>6
  <2>2. CASE n = j   BY <2>2, <1>5, <1>6
  <2>3. CASE n > j
    <3>1. n - j \in 1 .. Len(s) + 1 - j /\ j + (n - j) - 1 = n - 1
      BY <2>3
    <3>2. back[n - j] = s[n - 1]
      BY <3>1, <1>2
    <3>3. ~(n <= j)
      BY <2>3
    <3>4. (fe \o back)[n] = back[n - j]
      BY <3>3, <1>6
    <3>. QED  BY <3>2, <3>4, <2>3
  <2>4. n < j \/ n = j \/ n > j
    OBVIOUS
  <2>. QED  BY <2>1, <2>2, <2>3, <2>4, Zenon
<1>. QED
  BY <1>4, <1>6, <1>7 DEF IsInsertion

(* Removing index i shifts the nodes after i back by one.                  *)
LEMMA RemoveAtIndexes ==
  ASSUME NEW K, NEW s \in Seq(K), NEW i \in 1 .. Len(s)
  PROVE  /\ RemoveAt(s, i) \in Seq(K)
         /\ Len(RemoveAt(s, i)) = Len(s) - 1
         /\ \A n \in 1 .. Len(s) - 1 :
              RemoveAt(s, i)[n] = IF n < i THEN s[n] ELSE s[n + 1]
<1>. DEFINE front == SubSeq(s, 1, i - 1)
            back  == SubSeq(s, i + 1, Len(s))
<1>1. /\ front \in Seq(K)
      /\ Len(front) = i - 1
      /\ \A n \in 1 .. i - 1 : front[n] = s[n]
  BY SubSeqProperties
<1>2. /\ back \in Seq(K)
      /\ Len(back) = Len(s) - i
      /\ \A n \in 1 .. Len(s) - i : back[n] = s[i + n]
  BY SubSeqProperties
<1>3. RemoveAt(s, i) = front \o back
  BY DEF RemoveAt
<1>. HIDE DEF front, back
<1>4. /\ front \o back \in Seq(K)
      /\ Len(front \o back) = Len(s) - 1
      /\ \A n \in 1 .. Len(s) - 1 :
           (front \o back)[n] = IF n <= i - 1 THEN front[n] ELSE back[n - (i - 1)]
  BY <1>1, <1>2, ConcatProperties
<1>5. ASSUME NEW n \in 1 .. Len(s) - 1
      PROVE  (front \o back)[n] = IF n < i THEN s[n] ELSE s[n + 1]
  <2>1. CASE n < i   BY <2>1, <1>1, <1>4
  <2>2. CASE n >= i
    <3>1. n - (i - 1) \in 1 .. Len(s) - i /\ i + (n - (i - 1)) = n + 1
      BY <2>2
    <3>2. back[n - (i - 1)] = s[n + 1]
      BY <3>1, <1>2
    <3>3. ~(n <= i - 1)
      BY <2>2
    <3>4. (front \o back)[n] = back[n - (i - 1)]
      BY <3>3, <1>4
    <3>. QED  BY <3>2, <3>4, <2>2
  <2>3. n < i \/ n >= i
    OBVIOUS
  <2>. QED  BY <2>1, <2>2, <2>3, Zenon
<1>. QED
  BY <1>3, <1>4, <1>5

(* Carrying the node at i to j: the nodes between shift by one.            *)
LEMMA MovedIndexes ==
  ASSUME NEW K, NEW s \in Seq(K), NEW i \in 1 .. Len(s), NEW j \in 1 .. Len(s)
  PROVE  Moved(s, i, j) \in Seq(K) /\ IsMove(Moved(s, i, j), s, i, j)
<1>. DEFINE r == RemoveAt(s, i)
<1>1. /\ r \in Seq(K)
      /\ Len(r) = Len(s) - 1
      /\ \A n \in 1 .. Len(s) - 1 : r[n] = IF n < i THEN s[n] ELSE s[n + 1]
  BY RemoveAtIndexes
<1>2. s[i] \in K /\ j \in 1 .. Len(r) + 1
  BY <1>1
<1>3. Moved(s, i, j) = InsertAt(r, j, s[i])
  BY DEF Moved
<1>. HIDE DEF r
<1>4. /\ InsertAt(r, j, s[i]) \in Seq(K)
      /\ Len(InsertAt(r, j, s[i])) = Len(r) + 1
      /\ \A n \in 1 .. Len(r) + 1 :
           InsertAt(r, j, s[i])[n] = IF n < j THEN r[n]
                                     ELSE IF n = j THEN s[i] ELSE r[n - 1]
  <2>1. /\ InsertAt(r, j, s[i]) \in Seq(K)
        /\ IsInsertion(InsertAt(r, j, s[i]), r, j, s[i])
    BY <1>1, <1>2, InsertAtIndexes
  <2>. QED  BY <2>1 DEF IsInsertion
<1>5. ASSUME NEW n \in 1 .. Len(s)
      PROVE  InsertAt(r, j, s[i])[n] = IF n = j THEN s[i]
                                       ELSE IF i <= n /\ n < j THEN s[n + 1]
                                       ELSE IF j < n /\ n <= i THEN s[n - 1]
                                       ELSE s[n]
  <2>1. CASE n < j
    <3>1. n \in 1 .. Len(s) - 1 /\ n \in 1 .. Len(r) + 1 /\ n # j
      BY <1>1, <2>1
    <3>2. InsertAt(r, j, s[i])[n] = r[n]
      BY <1>4, <2>1, <3>1
    <3>3. r[n] = IF n < i THEN s[n] ELSE s[n + 1]
      BY <1>1, <3>1
    <3>. QED  BY <2>1, <3>1, <3>2, <3>3
  <2>2. CASE n = j
    <3>1. InsertAt(r, j, s[i])[j] = s[i]
      BY <1>2, <1>4
    <3>. QED  BY <2>2, <3>1
  <2>3. CASE n > j
    <3>1. n - 1 \in 1 .. Len(s) - 1
      BY <2>3
    <3>. QED  BY <3>1, <2>3, <1>1, <1>4
  <2>. QED  BY <2>1, <2>2, <2>3
<1>. QED
  BY <1>1, <1>3, <1>4, <1>5 DEF IsMove

-----------------------------------------------------------------------------

IInv == TypeOK /\ SameKeys /\ Sorted

-----------------------------------------------------------------------------
(* In a sorted vector that holds every key of the hash table, the walk     *)
(* from the lower bound meets the node of the key.                         *)
LEMMA PositionFinds ==
  ASSUME IInv, NEW k \in Key
  PROVE  /\ Matches(sortData, accessData, k) # {}
         /\ Position(sortData, accessData, k) \in 1 .. Len(sortData)
         /\ sortData[Position(sortData, accessData, k)] = k
<1>. DEFINE f == LowerBound(sortData, accessData, accessData[k])
            M == Matches(sortData, accessData, k)
<1>1. sortData \in Seq(AccessKey) /\ Index = 1 .. Len(sortData)
  BY DEF IInv, TypeOK, Index
<1>2. PICK i \in 1 .. Len(sortData) : sortData[i] = k
  BY <1>1 DEF IInv, SameKeys
<1>3. 1 \in 1 .. Len(sortData) + 1
  BY <1>1
<1>4. /\ f \in 1 .. Len(sortData) + 1
      /\ \A j \in 1 .. f - 1 : Ahead(sortData, accessData, j, accessData[k])
  BY <1>1, <1>3, FirstNotAheadStops DEF LowerBound
<1>5. accessData[k] \in Int
  BY SortKeyAssumption DEF IInv, TypeOK
<1>6. ~Ahead(sortData, accessData, i, accessData[k])
  BY <1>2, <1>5 DEF Ahead
<1>7. i \in f .. Len(sortData)
  <2>. HIDE DEF f
  <2>. QED  BY <1>1, <1>2, <1>4, <1>6
<1>8. M = {n \in f .. Len(sortData) : sortData[n] = k}
  BY DEF Matches
<1>. HIDE DEF f, M
<1>9. i \in M /\ M \subseteq Nat
  BY <1>2, <1>4, <1>7, <1>8
<1>10. Min(M) \in M
  BY <1>9, MinExists
<1>11. Position(sortData, accessData, k) = Min(M)
  BY DEF Position, M
<1>. QED
  BY <1>1, <1>4, <1>8, <1>9, <1>10, <1>11 DEF M

(* Index j is where a node that leaves index i with the value new belongs. *)
Splits(i, new, j) ==
  /\ j \in Index
  /\ \A m \in Index :
       /\ m < j /\ m < i  => accessData[sortData[m]] >= new
       /\ i < m /\ m <= j => accessData[sortData[m]] > new
       /\ j <= m /\ m < i => accessData[sortData[m]] <= new
       /\ m > j /\ m > i  => accessData[sortData[m]] <= new

(* Where an updated node stops.  Everything before it is at least as good, *)
(* everything after it at most as good, and the nodes it passes stay on    *)
(* their side.                                                             *)
LEMMA TargetSplits ==
  ASSUME IInv, NEW i \in 1 .. Len(sortData), NEW new \in Int
  PROVE  Splits(i, new, Target(sortData, accessData, i, new))
<1>. DEFINE s == sortData
            a == accessData
            j == Target(s, a, i, new)
<1>1. s \in Seq(AccessKey) /\ Index = 1 .. Len(s)
  BY DEF IInv, TypeOK, Index
<1>2. \A m \in 1 .. Len(s) : a[s[m]] \in Int
  BY <1>1, SortKeyAssumption DEF IInv, TypeOK, SameKeys
<1>3. \A m, n \in 1 .. Len(s) : m < n => a[s[m]] >= a[s[n]]
  BY <1>1 DEF IInv, Sorted
<1>4. CASE new > a[s[i]]
  <2>. DEFINE l == LastAhead(s, a, new, i)
  <2>1. /\ l \in 0 .. i - 1
        /\ l # 0 => a[s[l]] > new
        /\ \A m \in l + 1 .. i - 1 : ~(a[s[m]] > new)
    BY <1>1, LastAheadStops DEF Ahead
  <2>2. j = l + 1
    BY <1>4 DEF Target
  <2>. HIDE DEF l, j
  <2>3. ASSUME NEW m \in 1 .. Len(s), m < j PROVE a[s[m]] >= new
    <3>1. l # 0 /\ l \in 1 .. Len(s) /\ (m < l \/ m = l)
      BY <2>1, <2>2, <2>3
    <3>2. a[s[l]] > new /\ a[s[m]] >= a[s[l]]
      BY <1>2, <1>3, <2>1, <3>1
    <3>. QED  BY <1>2, <3>1, <3>2
  <2>4. ASSUME NEW m \in 1 .. Len(s), j <= m, m < i PROVE a[s[m]] <= new
    BY <1>2, <2>1, <2>2, <2>4
  <2>5. ASSUME NEW m \in 1 .. Len(s), m > i PROVE a[s[m]] <= new
    BY <1>2, <1>3, <1>4, <2>5
  <2>6. j \in 1 .. i
    BY <2>1, <2>2
  <2>7. j \in 1 .. Len(s)
    BY <1>1, <2>6
  <2>8. ASSUME NEW m \in 1 .. Len(s)
        PROVE  /\ m < j /\ m < i  => a[s[m]] >= new
               /\ i < m /\ m <= j => a[s[m]] > new
               /\ j <= m /\ m < i => a[s[m]] <= new
               /\ m > j /\ m > i  => a[s[m]] <= new
    BY <2>3, <2>4, <2>5, <2>6, <2>7
  <2>9. Splits(i, new, j)
    BY <1>1, <2>7, <2>8 DEF Splits
  <2>. QED  BY <2>9 DEF j
<1>5. CASE ~(new > a[s[i]])
  <2>. DEFINE g == FirstNotAhead(s, a, new, i + 1)
  <2>1. i + 1 \in 1 .. Len(s) + 1
    BY <1>1
  <2>2. /\ g \in i + 1 .. Len(s) + 1
        /\ g # Len(s) + 1 => ~(a[s[g]] > new)
        /\ \A m \in i + 1 .. g - 1 : a[s[m]] > new
    BY <1>1, <2>1, FirstNotAheadStops DEF Ahead
  <2>3. j = g - 1
    BY <1>5 DEF Target
  <2>. HIDE DEF g, j
  <2>4. ASSUME NEW m \in 1 .. Len(s), i < m, m <= j PROVE a[s[m]] > new
    BY <2>2, <2>3, <2>4
  <2>5. ASSUME NEW m \in 1 .. Len(s), m < i PROVE a[s[m]] >= new
    BY <1>2, <1>3, <1>5, <2>5
  <2>6. ASSUME NEW m \in 1 .. Len(s), m > j PROVE a[s[m]] <= new
    <3>1. g # Len(s) + 1 /\ g \in 1 .. Len(s) /\ (g < m \/ g = m)
      BY <2>2, <2>3, <2>6
    <3>2. a[s[g]] <= new /\ a[s[g]] >= a[s[m]]
      BY <1>2, <1>3, <2>2, <3>1
    <3>. QED  BY <1>2, <3>1, <3>2
  <2>7. j \in i .. Len(s)
    BY <2>2, <2>3
  <2>8. j \in 1 .. Len(s)
    BY <1>1, <2>7
  <2>9. ASSUME NEW m \in 1 .. Len(s)
        PROVE  /\ m < j /\ m < i  => a[s[m]] >= new
               /\ i < m /\ m <= j => a[s[m]] > new
               /\ j <= m /\ m < i => a[s[m]] <= new
               /\ m > j /\ m > i  => a[s[m]] <= new
    BY <2>4, <2>5, <2>6, <2>7, <2>8
  <2>10. Splits(i, new, j)
    BY <1>1, <2>8, <2>9 DEF Splits
  <2>. QED  BY <2>10 DEF j
<1>. QED
  BY <1>4, <1>5

(* An update that changes nothing leaves the node where it is; any other   *)
(* puts it ahead of the nodes it ties with.                                *)
LEMMA TargetTies ==
  ASSUME IInv, NEW i \in 1 .. Len(sortData), NEW new \in Int,
         NEW j, j = Target(sortData, accessData, i, new)
  PROVE  /\ new = accessData[sortData[i]] => j = i
         /\ new # accessData[sortData[i]] =>
              \A m \in Index : m < i /\ accessData[sortData[m]] = new => j <= m
<1>. DEFINE s == sortData
            a == accessData
<1>1. s \in Seq(AccessKey) /\ Index = 1 .. Len(s)
  BY DEF IInv, TypeOK, Index
<1>2. \A m \in 1 .. Len(s) : a[s[m]] \in Int
  BY <1>1, SortKeyAssumption DEF IInv, TypeOK, SameKeys
<1>3. \A m, n \in 1 .. Len(s) : m < n => a[s[m]] >= a[s[n]]
  BY <1>1 DEF IInv, Sorted
<1>4. CASE new > a[s[i]]
  <2>. DEFINE l == LastAhead(s, a, new, i)
  <2>1. l \in 0 .. i - 1 /\ (l # 0 => a[s[l]] > new)
    BY <1>1, LastAheadStops DEF Ahead
  <2>2. j = l + 1
    BY <1>4 DEF Target
  <2>. HIDE DEF l
  <2>3. ASSUME NEW m \in 1 .. Len(s), m < i, a[s[m]] = new, m < j PROVE FALSE
    <3>1. l # 0 /\ l \in 1 .. Len(s) /\ (m < l \/ m = l)
      BY <2>1, <2>2, <2>3
    <3>2. a[s[l]] > new /\ a[s[m]] >= a[s[l]]
      BY <1>2, <1>3, <2>1, <3>1
    <3>. QED  BY <1>2, <2>3, <3>1, <3>2
  <2>4. \A m \in 1 .. Len(s) : m < i /\ a[s[m]] = new => j <= m
    BY <1>1, <2>1, <2>2, <2>3
  <2>5. new # a[s[i]]
    BY <1>2, <1>4
  <2>. QED  BY <1>1, <2>4, <2>5
<1>5. CASE new = a[s[i]]
  <2>. DEFINE g == FirstNotAhead(s, a, new, i + 1)
  <2>1. i + 1 \in 1 .. Len(s) + 1
    BY <1>1
  <2>2. g \in i + 1 .. Len(s) + 1 /\ \A m \in i + 1 .. g - 1 : a[s[m]] > new
    BY <1>1, <2>1, FirstNotAheadStops DEF Ahead
  <2>3. j = g - 1
    BY <1>2, <1>5 DEF Target
  <2>. HIDE DEF g
  <2>4. ASSUME g # i + 1 PROVE FALSE
    <3>1. i + 1 \in i + 1 .. g - 1 /\ i + 1 \in 1 .. Len(s)
      BY <2>2, <2>4
    <3>2. a[s[i + 1]] > new /\ a[s[i]] >= a[s[i + 1]]
      BY <1>3, <2>2, <3>1
    <3>. QED  BY <1>2, <1>5, <3>1, <3>2
  <2>. QED  BY <1>5, <2>3, <2>4
<1>6. CASE new < a[s[i]]
  BY <1>1, <1>2, <1>3, <1>6
<1>. QED
  BY <1>2, <1>4, <1>5, <1>6

-----------------------------------------------------------------------------
(* The index a node had before the node at i was carried to j.             *)
Source(i, j, n) == IF n = j THEN i
                   ELSE IF i <= n /\ n < j THEN n + 1
                   ELSE IF j < n /\ n <= i THEN n - 1
                   ELSE n

(* A move permutes the vector and changes the order of one node only.      *)
LEMMA SourcePermutes ==
  ASSUME NEW L \in Nat, NEW i \in 1 .. L, NEW j \in 1 .. L
  PROVE  /\ \A n \in 1 .. L : Source(i, j, n) \in 1 .. L
         /\ \A n \in 1 .. L : (Source(i, j, n) = i) <=> (n = j)
         /\ \A m, n \in 1 .. L : Source(i, j, m) = Source(i, j, n) => m = n
         /\ \A m \in 1 .. L : \E n \in 1 .. L : Source(i, j, n) = m
         /\ \A m, n \in 1 .. L : m # j /\ n # j =>
              (m < n <=> Source(i, j, m) < Source(i, j, n))
<1>1. ASSUME NEW m \in 1 .. L PROVE \E n \in 1 .. L : Source(i, j, n) = m
  <2>. DEFINE n == Source(j, i, m)
  <2>1. n \in 1 .. L /\ Source(i, j, n) = m
    BY DEF Source
  <2>. QED  BY <2>1
<1>2. ASSUME NEW n \in 1 .. L
      PROVE  Source(i, j, n) \in 1 .. L /\ ((Source(i, j, n) = i) <=> (n = j))
  BY DEF Source
<1>3. ASSUME NEW m \in 1 .. L, NEW n \in 1 .. L
      PROVE  /\ Source(i, j, m) = Source(i, j, n) => m = n
             /\ m # j /\ n # j => (m < n <=> Source(i, j, m) < Source(i, j, n))
  BY DEF Source
<1>. QED
  BY <1>1, <1>2, <1>3

(* Moving an updated node to where it belongs keeps the invariant.         *)
LEMMA MoveKeepsInvariant ==
  ASSUME IInv, NEW k \in Key, NEW new \in SortKey,
         NEW i \in Index, sortData[i] = k, NEW j, Splits(i, new, j),
         sortData' = Moved(sortData, i, j),
         accessData' = [accessData EXCEPT ![k] = new]
  PROVE  IInv'
<1>. DEFINE s == sortData
            a == accessData
            L == Len(s)
            src(n) == Source(i, j, n)
<1>1. s \in Seq(AccessKey) /\ Index = 1 .. L /\ L \in Nat
  BY DEF IInv, TypeOK, Index
<1>2. i \in 1 .. L /\ j \in 1 .. L
  BY <1>1 DEF Splits
<1>3. /\ s' \in Seq(AccessKey)
      /\ Len(s') = L
      /\ Index' = 1 .. L
      /\ \A n \in 1 .. L : s'[n] = s[src(n)]
  <2>1. s' \in Seq(AccessKey) /\ IsMove(s', s, i, j)
    BY <1>1, <1>2, MovedIndexes
  <2>. QED  BY <1>1, <1>2, <2>1 DEF IsMove, Index, Source
<1>4. /\ \A n \in 1 .. L : src(n) \in 1 .. L
      /\ \A n \in 1 .. L : (src(n) = i) <=> (n = j)
      /\ \A m, n \in 1 .. L : src(m) = src(n) => m = n
      /\ \A m \in 1 .. L : \E n \in 1 .. L : src(n) = m
      /\ \A m, n \in 1 .. L : m # j /\ n # j => (m < n <=> src(m) < src(n))
  BY <1>1, <1>2, SourcePermutes
<1>5. Key' = Key /\ a' \in [Key -> SortKey]
  BY DEF IInv, TypeOK, Key
<1>6. TypeOK'
  BY <1>3, <1>5 DEF IInv, TypeOK
<1>. HIDE DEF src, L
<1>7. \A m, n \in 1 .. L : s[m] = s[n] => m = n
  BY <1>1 DEF IInv, SameKeys
<1>8. SameKeys'
  <2>1. ASSUME NEW n \in 1 .. L PROVE s'[n] \in Key
    <3>1. src(n) \in 1 .. L /\ s'[n] = s[src(n)]
      BY <1>3, <1>4
    <3>. QED  BY <1>1, <3>1 DEF IInv, SameKeys
  <2>2. ASSUME NEW x \in Key PROVE \E n \in 1 .. L : s'[n] = x
    <3>1. PICK m \in 1 .. L : s[m] = x
      BY <1>1 DEF IInv, SameKeys
    <3>2. PICK n \in 1 .. L : src(n) = m
      BY <1>4
    <3>. QED  BY <1>3, <3>1, <3>2
  <2>3. ASSUME NEW m \in 1 .. L, NEW n \in 1 .. L, s'[m] = s'[n] PROVE m = n
    <3>1. s[src(m)] = s[src(n)]
      BY <1>3, <2>3
    <3>2. src(m) \in 1 .. L /\ src(n) \in 1 .. L
      BY <1>4
    <3>3. src(m) = src(n)
      BY <1>7, <3>1, <3>2
    <3>. QED  BY <1>4, <3>3
  <2>. QED  BY <1>3, <1>5, <2>1, <2>2, <2>3 DEF SameKeys
<1>9. \A n \in 1 .. L : a'[s'[n]] = IF n = j THEN new ELSE a[s[src(n)]]
  <2>. SUFFICES ASSUME NEW n \in 1 .. L
                PROVE  a'[s'[n]] = IF n = j THEN new ELSE a[s[src(n)]]
    OBVIOUS
  <2>1. s[src(n)] \in Key /\ s'[n] = s[src(n)]
    BY <1>1, <1>3, <1>4 DEF IInv, SameKeys
  <2>2. CASE n = j
    BY <1>4, <2>1, <2>2 DEF IInv, TypeOK
  <2>3. CASE n # j
    <3>1. s[src(n)] # k
      BY <1>2, <1>4, <1>7, <2>3
    <3>. QED  BY <2>1, <2>3, <3>1 DEF IInv, TypeOK
  <2>. QED  BY <2>2, <2>3
<1>10. \A n \in 1 .. L : a[s[n]] \in Int
  BY <1>1, SortKeyAssumption DEF IInv, TypeOK, SameKeys
<1>11. ASSUME NEW n \in 1 .. L, n # j
       PROVE  /\ n < j => a[s[src(n)]] >= new
              /\ j < n => a[s[src(n)]] <= new
  <2>1. src(n) \in 1 .. L
    BY <1>4
  <2>2. CASE n < j
    <3>1. (src(n) < j /\ src(n) < i) \/ (i < src(n) /\ src(n) <= j)
      BY <1>1, <1>2, <2>2 DEF src, Source
    <3>. QED  BY <1>1, <1>10, <2>1, <2>2, <3>1, SortKeyAssumption DEF Splits
  <2>3. CASE j < n
    <3>1. (src(n) > j /\ src(n) > i) \/ (j <= src(n) /\ src(n) < i)
      BY <1>1, <1>2, <2>3 DEF src, Source
    <3>. QED  BY <1>1, <1>10, <2>1, <2>3, <3>1, SortKeyAssumption DEF Splits
  <2>. QED  BY <1>1, <1>2, <1>11, <2>2, <2>3
<1>12. Sorted'
  <2>. SUFFICES ASSUME NEW m \in 1 .. L, NEW n \in 1 .. L, m < n
                PROVE  a'[s'[m]] >= a'[s'[n]]
    BY <1>3 DEF Sorted
  <2>1. CASE m = j
    <3>1. j < n /\ n # j
      BY <1>1, <1>2, <2>1
    <3>2. a[s[src(n)]] <= new
      BY <1>11, <3>1
    <3>3. a'[s'[m]] = new /\ a'[s'[n]] = a[s[src(n)]]
      BY <1>9, <2>1, <3>1
    <3>4. new \in Int /\ a[s[src(n)]] \in Int
      BY <1>4, <1>10, SortKeyAssumption
    <3>. QED  BY <3>2, <3>3, <3>4
  <2>2. CASE n = j
    <3>1. m < j /\ m # j
      BY <1>1, <1>2, <2>2
    <3>2. a[s[src(m)]] >= new
      BY <1>11, <3>1
    <3>3. a'[s'[n]] = new /\ a'[s'[m]] = a[s[src(m)]]
      BY <1>9, <2>2, <3>1
    <3>. QED  BY <3>2, <3>3
  <2>3. CASE m # j /\ n # j
    <3>1. src(m) < src(n) /\ src(m) \in 1 .. L /\ src(n) \in 1 .. L
      BY <1>4, <2>3
    <3>2. a[s[src(m)]] >= a[s[src(n)]]
      BY <1>1, <3>1 DEF IInv, Sorted
    <3>. QED  BY <1>9, <2>3, <3>2
  <2>. QED  BY <2>1, <2>2, <2>3
<1>. QED
  BY <1>6, <1>8, <1>12 DEF IInv

(* Inserting a new node at its lower bound keeps the invariant.            *)
LEMMA InsertKeepsInvariant ==
  ASSUME IInv, NEW k \in AccessKey, NEW v \in SortKey, InsertItem(k, v)
  PROVE  IInv'
<1>. DEFINE s == sortData
            a == accessData
            L == Len(s)
            j == LowerBound(s, a, v)
<1>1. s \in Seq(AccessKey) /\ Index = 1 .. L /\ L \in Nat
  BY DEF IInv, TypeOK, Index
<1>2. /\ j \in 1 .. L + 1
      /\ j # L + 1 => ~(a[s[j]] > v)
      /\ \A n \in 1 .. j - 1 : a[s[n]] > v
  <2>1. 1 \in 1 .. L + 1
    BY <1>1
  <2>. QED  BY <1>1, <2>1, FirstNotAheadStops DEF LowerBound, Ahead
<1>3. s' = InsertAt(s, j, k) /\ k \notin Key
  BY DEF InsertItem, InsertedSort, IsPresent, Key
<1>4. a' = [x \in Key \cup {k} |-> IF x = k THEN v ELSE a[x]]
  BY DEF InsertItem, InsertedAccess, Key
<1>. HIDE DEF j
<1>5. /\ s' \in Seq(AccessKey)
      /\ Index' = 1 .. L + 1
      /\ \A n \in 1 .. L + 1 :
           s'[n] = IF n < j THEN s[n] ELSE IF n = j THEN k ELSE s[n - 1]
  <2>1. s' \in Seq(AccessKey) /\ IsInsertion(s', s, j, k)
    BY <1>1, <1>2, <1>3, InsertAtIndexes
  <2>. QED  BY <1>1, <2>1 DEF IsInsertion, Index
<1>. HIDE DEF L
<1>6. Key' = Key \cup {k} /\ a' \in [Key \cup {k} -> SortKey]
  BY <1>4 DEF IInv, TypeOK, Key
<1>7. TypeOK'
  BY <1>5, <1>6 DEF IInv, TypeOK
<1>8. /\ \A n \in 1 .. L : s[n] \in Key /\ s[n] # k
      /\ \A m, n \in 1 .. L : s[m] = s[n] => m = n
  BY <1>1, <1>3 DEF IInv, SameKeys
<1>9. \A n \in 1 .. L : a[s[n]] \in Int
  BY <1>8, SortKeyAssumption DEF IInv, TypeOK
<1>10. \A n \in 1 .. L + 1 : /\ n < j => n \in 1 .. L
                             /\ n > j => n - 1 \in 1 .. L
                             /\ n < j \/ n = j \/ n > j
  BY <1>1, <1>2
<1>11. SameKeys'
  <2>1. ASSUME NEW n \in 1 .. L + 1 PROVE s'[n] \in Key \cup {k}
    <3>1. s'[n] = IF n < j THEN s[n] ELSE IF n = j THEN k ELSE s[n - 1]
      BY <1>5
    <3>2. /\ n < j => s[n] \in Key
          /\ n > j => s[n - 1] \in Key
          /\ n < j \/ n = j \/ n > j
      BY <1>1, <1>2, <1>8, <1>10
    <3>. QED  BY <1>1, <1>2, <3>1, <3>2
  <2>2. ASSUME NEW x \in Key \cup {k} PROVE \E n \in 1 .. L + 1 : s'[n] = x
    <3>1. CASE x = k
      BY <1>2, <1>5, <3>1
    <3>2. CASE x # k
      <4>1. PICK m \in 1 .. L : s[m] = x
        BY <1>1, <3>2 DEF IInv, SameKeys
      <4>2. CASE m < j
        BY <1>1, <1>2, <1>5, <4>1, <4>2
      <4>3. CASE ~(m < j)
        <5>1. m + 1 \in 1 .. L + 1 /\ ~(m + 1 < j) /\ m + 1 # j /\ (m + 1) - 1 = m
          BY <1>1, <1>2, <4>3
        <5>2. s'[m + 1] = s[(m + 1) - 1]
          BY <1>5, <5>1
        <5>. QED  BY <4>1, <5>1, <5>2
      <4>. QED  BY <4>2, <4>3
    <3>. QED  BY <3>1, <3>2
  <2>3. ASSUME NEW m \in 1 .. L + 1, NEW n \in 1 .. L + 1, s'[m] = s'[n]
        PROVE  m = n
    <3>0. m \in Int /\ n \in Int /\ j \in Int
      BY <1>2
    <3>1. /\ m < j => m \in 1 .. L /\ s'[m] = s[m]
          /\ m = j => s'[m] = k
          /\ m > j => m - 1 \in 1 .. L /\ s'[m] = s[m - 1]
      BY <1>5, <1>10, <3>0
    <3>2. /\ n < j => n \in 1 .. L /\ s'[n] = s[n]
          /\ n = j => s'[n] = k
          /\ n > j => n - 1 \in 1 .. L /\ s'[n] = s[n - 1]
      BY <1>5, <1>10, <3>0
    <3>. DEFINE p == IF m < j THEN m ELSE m - 1
                q == IF n < j THEN n ELSE n - 1
    <3>3. m = j <=> n = j
      BY <1>8, <1>10, <2>3, <3>1, <3>2
    <3>4. ASSUME m # j, n # j PROVE m = n
      <4>1. p \in 1 .. L /\ q \in 1 .. L /\ s[p] = s[q]
        BY <2>3, <3>0, <3>1, <3>2, <3>4
      <4>. HIDE DEF p, q
      <4>2. p = q
        BY <1>8, <4>1
      <4>. QED  BY <3>0, <3>4, <4>2 DEF p, q
    <3>. QED  BY <3>3, <3>4
  <2>. QED  BY <1>5, <1>6, <2>1, <2>2, <2>3 DEF SameKeys
<1>12. \A n \in 1 .. L + 1 :
         a'[s'[n]] = IF n < j THEN a[s[n]] ELSE IF n = j THEN v ELSE a[s[n - 1]]
  <2>. SUFFICES ASSUME NEW n \in 1 .. L + 1
                PROVE  a'[s'[n]] = IF n < j THEN a[s[n]]
                                   ELSE IF n = j THEN v ELSE a[s[n - 1]]
    OBVIOUS
  <2>1. s'[n] = IF n < j THEN s[n] ELSE IF n = j THEN k ELSE s[n - 1]
    BY <1>5
  <2>2. CASE n < j
    BY <1>4, <1>8, <1>10, <2>1, <2>2
  <2>3. CASE n = j
    BY <1>1, <1>2, <1>4, <2>1, <2>3
  <2>4. CASE n > j
    BY <1>1, <1>2, <1>4, <1>8, <1>10, <2>1, <2>4
  <2>. QED  BY <1>10, <2>2, <2>3, <2>4
<1>13. \A n \in 1 .. L : (n < j => a[s[n]] >= v) /\ (j <= n => a[s[n]] <= v)
  <2>. SUFFICES ASSUME NEW n \in 1 .. L
                PROVE  (n < j => a[s[n]] >= v) /\ (j <= n => a[s[n]] <= v)
    OBVIOUS
  <2>0. v \in Int
    BY SortKeyAssumption
  <2>1. n < j => a[s[n]] >= v
    BY <1>1, <1>2, <1>9, <2>0
  <2>2. ASSUME j <= n PROVE a[s[n]] <= v
    <3>1. j \in 1 .. L /\ a[s[j]] <= v
      BY <1>1, <1>2, <1>9, <2>0, <2>2
    <3>2. j < n => a[s[j]] >= a[s[n]]
      BY <1>1, <3>1 DEF IInv, Sorted
    <3>. QED  BY <1>1, <1>2, <1>9, <2>0, <2>2, <3>1, <3>2
  <2>. QED  BY <2>1, <2>2
<1>14. Sorted'
  <2>. SUFFICES ASSUME NEW m \in 1 .. L + 1, NEW n \in 1 .. L + 1, m < n
                PROVE  a'[s'[m]] >= a'[s'[n]]
    BY <1>5 DEF Sorted
  <2>1. \A x, y \in 1 .. L : x < y => a[s[x]] >= a[s[y]]
    BY <1>1 DEF IInv, Sorted
  <2>2. v \in Int
    BY SortKeyAssumption
  <2>3. CASE n < j
    BY <1>1, <1>2, <1>10, <1>12, <2>1, <2>3
  <2>4. CASE n = j
    BY <1>1, <1>2, <1>10, <1>12, <1>13, <2>4
  <2>5. CASE n > j
    <3>1. n - 1 \in 1 .. L /\ j <= n - 1
      BY <1>1, <1>2, <2>5
    <3>2. a'[s'[n]] = a[s[n - 1]] /\ a[s[n - 1]] <= v
      BY <1>1, <1>2, <1>12, <1>13, <2>5, <3>1
    <3>3. CASE m < j
      <4>1. m \in 1 .. L /\ m < n - 1
        BY <1>1, <1>2, <2>5, <3>3
      <4>. QED  BY <1>12, <2>1, <3>1, <3>2, <3>3, <4>1
    <3>4. CASE m = j
      BY <1>1, <1>2, <1>12, <2>2, <3>2, <3>4, <1>9, <3>1
    <3>5. CASE m > j
      <4>1. m - 1 \in 1 .. L /\ m - 1 < n - 1
        BY <1>1, <1>2, <3>5
      <4>2. a'[s'[m]] = a[s[m - 1]]
        BY <1>1, <1>2, <1>12, <3>5
      <4>. QED  BY <2>1, <3>1, <3>2, <4>1, <4>2
    <3>. QED  BY <1>2, <3>3, <3>4, <3>5
  <2>. QED  BY <1>1, <1>2, <2>3, <2>4, <2>5
<1>. QED
  BY <1>7, <1>11, <1>14 DEF IInv

-----------------------------------------------------------------------------
LEMMA UpdateKeepsInvariant ==
  ASSUME IInv, NEW k \in AccessKey, NEW delta \in SortKey, UpdateItem(k, delta)
  PROVE  IInv'
<1>. DEFINE i == Position(sortData, accessData, k)
            new == Modify(accessData[k], delta)
            j == Target(sortData, accessData, i, new)
<1>1. k \in Key
  BY DEF UpdateItem, IsPresent, Key
<1>2. i \in 1 .. Len(sortData) /\ sortData[i] = k
  BY <1>1, PositionFinds
<1>3. i \in Index
  BY <1>2 DEF IInv, TypeOK, Index
<1>4. new \in SortKey /\ new \in Int
  BY <1>1, ModifyAssumption, SortKeyAssumption DEF IInv, TypeOK
<1>5. sortData' = Moved(sortData, i, j)
  BY DEF UpdateItem, UpdatedSort
<1>6. accessData' = [accessData EXCEPT ![k] = new]
  BY DEF UpdateItem, UpdatedAccess
<1>. HIDE DEF i, new
<1>7. Splits(i, new, j)
  BY <1>2, <1>4, TargetSplits
<1>. HIDE DEF j
<1>. QED
  BY <1>1, <1>2, <1>3, <1>4, <1>5, <1>6, <1>7, MoveKeepsInvariant

LEMMA InvariantInductive ==
  /\ Init => IInv
  /\ IInv /\ [Next]_vars => IInv'
<1>1. ASSUME sortData = <<>>, accessData = [k \in {} |-> 0] PROVE IInv
  <2>1. Index = {} /\ Key = {}
    BY <1>1 DEF Index, Key
  <2>2. TypeOK
    BY <1>1, <2>1 DEF TypeOK
  <2>. QED  BY <2>1, <2>2 DEF IInv, SameKeys, Sorted
<1>2. ASSUME sortData' = <<>>, accessData' = [k \in {} |-> 0] PROVE IInv'
  <2>1. Index' = {} /\ Key' = {}
    BY <1>2 DEF Index, Key
  <2>2. TypeOK'
    BY <1>2, <2>1 DEF TypeOK
  <2>. QED  BY <2>1, <2>2 DEF IInv, SameKeys, Sorted
<1>3. ASSUME IInv, [Next]_vars PROVE IInv'
  <2>1. ASSUME NEW k \in AccessKey, NEW v \in SortKey, UpdateItem(k, v)
        PROVE  IInv'
    BY <1>3, <2>1, UpdateKeepsInvariant
  <2>2. ASSUME NEW k \in AccessKey, NEW v \in SortKey, InsertItem(k, v)
        PROVE  IInv'
    BY <1>3, <2>2, InsertKeepsInvariant
  <2>3. CASE Clear
    BY <1>2, <2>3 DEF Clear
  <2>4. CASE UNCHANGED vars
    BY <1>3, <2>4 DEF IInv, TypeOK, SameKeys, Sorted, Index, Key, vars
  <2>. QED  BY <1>3, <2>1, <2>2, <2>3, <2>4 DEF Next
<1>. QED
  BY <1>1, <1>3 DEF Init

(* The inductive invariant holds in every reachable state.                 *)
THEOREM InvariantHolds == Spec => []IInv
<1>. QED
  BY InvariantInductive, PTL DEF Spec

(* Type correctness of the container.                                      *)
THEOREM TypeCorrect == Spec => []TypeOK
<1>1. IInv => TypeOK
  BY DEF IInv
<1>. QED
  BY <1>1, InvariantHolds, PTL

(* The vector and the hash table always hold the same keys, each once, and *)
(* the vector is always sorted, so std::lower_bound may be used on it.     *)
THEOREM TableStaysWellFormed == Spec => []TableWellFormed
<1>1. IInv => TableWellFormed
  BY DEF IInv, TableWellFormed
<1>. QED  BY <1>1, InvariantHolds, PTL

(* findInSortContainer never walks past the end of the vector, for any     *)
(* number of users, any amounts and any merge function.                    *)
THEOREM LookupsEndInTable == Spec => []LookupEndsInTable
<1>1. IInv => LookupEndsInTable
  BY PositionFinds DEF LookupEndsInTable
<1>. QED
  BY <1>1, InvariantHolds, PTL

-----------------------------------------------------------------------------
(* The neighbours of a user.                                               *)

(* The walk from the lower bound ends at the rank of the key.              *)
LEMMA RankIsPosition ==
  ASSUME IInv, NEW k \in Key
  PROVE  /\ Rank(k) \in 1 .. Len(sortData)
         /\ sortData[Rank(k)] = k
         /\ Rank(k) = Position(sortData, accessData, k)
<1>. DEFINE p == Position(sortData, accessData, k)
<1>1. p \in 1 .. Len(sortData) /\ sortData[p] = k
  BY PositionFinds
<1>2. Index = 1 .. Len(sortData)
  BY DEF IInv, TypeOK, Index
<1>3. \A i, j \in Index : sortData[i] = sortData[j] => i = j
  BY DEF IInv, SameKeys
<1>. HIDE DEF p
<1>4. Rank(k) \in Index /\ sortData[Rank(k)] = k
  BY <1>1, <1>2 DEF Rank
<1>5. Rank(k) = p
  BY <1>1, <1>2, <1>3, <1>4
<1>. QED
  BY <1>2, <1>4, <1>5 DEF p

(* A list of positions names the nodes of its window.                      *)
LEMMA KeysOfPositions ==
  ASSUME NEW s, NEW a, NEW first \in Int, NEW last \in Int
  PROVE  KeysOf(Positions(s, a, first, last)) = {s[i] : i \in first .. last}
<1>. DEFINE P == Positions(s, a, first, last)
<1>1. DOMAIN P = 1 .. last - first + 1
  BY DEF Positions
<1>2. \A n \in 1 .. last - first + 1 : P[n].key = s[first + n - 1]
  BY DEF Positions, PositionedData
<1>. HIDE DEF P
<1>3. \A i \in first .. last :
        i - first + 1 \in 1 .. last - first + 1 /\ first + (i - first + 1) - 1 = i
  OBVIOUS
<1>4. \A n \in 1 .. last - first + 1 : first + n - 1 \in first .. last
  OBVIOUS
<1>5. KeysOf(P) = {s[first + n - 1] : n \in 1 .. last - first + 1}
  BY <1>1, <1>2 DEF KeysOf
<1>6. {s[first + n - 1] : n \in 1 .. last - first + 1} = {s[i] : i \in first .. last}
  BY <1>3, <1>4
<1>. QED
  BY <1>5, <1>6 DEF P

(* The users nearest above and below, as the indexes they stand at.        *)
LEMMA NearestAreIndexes ==
  ASSUME IInv, NEW k \in Key, NEW n \in Nat
  PROVE  /\ NearestAbove(k, n) =
              {sortData[i] : i \in {j \in Index : j < Rank(k) /\ Rank(k) - j <= n}}
         /\ NearestBelow(k, n) =
              {sortData[i] : i \in {j \in Index : j > Rank(k) /\ j - Rank(k) <= n}}
<1>1. \A i \in Index : sortData[i] \in Key
  BY DEF IInv, SameKeys
<1>2. \A x \in Key : Rank(x) \in Index /\ sortData[Rank(x)] = x
  BY RankIsPosition DEF IInv, TypeOK, Index
<1>3. \A i \in Index : Rank(sortData[i]) = i
  BY <1>1, <1>2 DEF IInv, SameKeys
<1>4. NearestAbove(k, n) = {x \in Key : Rank(x) < Rank(k) /\ Rank(k) - Rank(x) <= n}
  BY DEF NearestAbove, Above
<1>5. NearestBelow(k, n) = {x \in Key : Rank(x) > Rank(k) /\ Rank(x) - Rank(k) <= n}
  BY DEF NearestBelow, Below
<1>6. NearestAbove(k, n) =
        {sortData[i] : i \in {j \in Index : j < Rank(k) /\ Rank(k) - j <= n}}
  BY <1>1, <1>2, <1>3, <1>4
<1>. QED
  BY <1>1, <1>2, <1>3, <1>5, <1>6

LEMMA HighIsNearest ==
  ASSUME IInv, NEW k \in Key, NEW n \in Nat
  PROVE  KeysOf(HighPositions(sortData, accessData, k, n)) = NearestAbove(k, n)
<1>. DEFINE p == Rank(k)
            first == IF p - 1 >= n THEN p - n ELSE 1
<1>1. p \in 1 .. Len(sortData) /\ p = Position(sortData, accessData, k)
  BY RankIsPosition
<1>2. Index = 1 .. Len(sortData) /\ Len(sortData) \in Nat
  BY DEF IInv, TypeOK, Index
<1>3. NearestAbove(k, n) = {sortData[i] : i \in {j \in Index : j < p /\ p - j <= n}}
  BY NearestAreIndexes
<1>4. HighPositions(sortData, accessData, k, n) = Positions(sortData, accessData, first, p - 1)
  BY <1>1 DEF HighPositions
<1>. HIDE DEF p
<1>5. first \in Int /\ p - 1 \in Int
  BY <1>1, <1>2
<1>6. {j \in Index : j < p /\ p - j <= n} = first .. p - 1
  BY <1>1, <1>2
<1>. HIDE DEF first
<1>7. KeysOf(Positions(sortData, accessData, first, p - 1)) =
        {sortData[i] : i \in first .. p - 1}
  BY <1>5, KeysOfPositions
<1>. QED
  BY <1>3, <1>4, <1>6, <1>7

LEMMA FullLowIsNearest ==
  ASSUME IInv, NEW k \in Key, NEW n \in Nat
  PROVE  LET low == KeysOf(LowPositions(sortData, accessData, k, n))
         IN  /\ low \subseteq NearestBelow(k, n)
             /\ n <= Len(sortData) - Rank(k) => low = NearestBelow(k, n)
<1>. DEFINE p == Rank(k)
            last == IF Len(sortData) - p >= n THEN p + n ELSE Len(sortData) - 1
            Lower == {j \in Index : j > p /\ j - p <= n}
<1>1. p \in 1 .. Len(sortData) /\ p = Position(sortData, accessData, k)
  BY RankIsPosition
<1>2. Index = 1 .. Len(sortData) /\ Len(sortData) \in Nat
  BY DEF IInv, TypeOK, Index
<1>3. NearestBelow(k, n) = {sortData[i] : i \in Lower}
  BY NearestAreIndexes
<1>4. LowPositions(sortData, accessData, k, n) = Positions(sortData, accessData, p + 1, last)
  BY <1>1 DEF LowPositions
<1>. HIDE DEF p
<1>5. last \in Int /\ p + 1 \in Int
  BY <1>1, <1>2
<1>6. p + 1 .. last \subseteq Lower
  BY <1>1, <1>2
<1>7. n <= Len(sortData) - p => p + 1 .. last = Lower
  BY <1>1, <1>2
<1>. HIDE DEF last, Lower
<1>8. KeysOf(Positions(sortData, accessData, p + 1, last)) =
        {sortData[i] : i \in p + 1 .. last}
  BY <1>5, KeysOfPositions
<1>9. n <= Len(sortData) - Rank(k) => p + 1 .. last = Lower
  BY <1>7 DEF p
<1>. QED
  BY <1>3, <1>4, <1>6, <1>8, <1>9

(* The lists of a message name none but the users nearest above and below; *)
(* the first is complete, and the second when as many users are below as   *)
(* it has room for: for any number of users and positions asked for.       *)
THEOREM NeighboursAreNearest == Spec => []NeighboursNearest
<1>1. ASSUME IInv PROVE NeighboursNearest
  <2>1. 0 .. MaxPositions \subseteq Nat
    BY MaxPositionsAssumption
  <2>2. HighPositionsNearest
    BY <1>1, <2>1, HighIsNearest DEF HighPositionsNearest
  <2>3. FullLowPositionsNearest
    BY <1>1, <2>1, FullLowIsNearest DEF FullLowPositionsNearest
  <2>. QED  BY <2>2, <2>3 DEF NeighboursNearest
<1>. QED  BY <1>1, InvariantHolds, PTL

-----------------------------------------------------------------------------
(* Refinement of the leaderboard.                                          *)

(* Two users are ranked as their indexes are.                              *)
LEMMA RankedAheadIsIndexOrder ==
  ASSUME IInv
  PROVE  /\ RankedAhead \subseteq Key \X Key
         /\ \A i, j \in Index :
              (<<sortData[i], sortData[j]>> \in RankedAhead) <=> i < j
<1>1. ASSUME NEW i \in Index, NEW j \in Index,
             <<sortData[i], sortData[j]>> \in RankedAhead
      PROVE  i < j
  <2>1. PICK m \in Index, n \in Index :
          m < n /\ sortData[m] = sortData[i] /\ sortData[n] = sortData[j]
    BY <1>1 DEF RankedAhead
  <2>2. m = i /\ n = j
    BY <2>1 DEF IInv, SameKeys
  <2>. QED  BY <2>1, <2>2
<1>2. ASSUME NEW i \in Index, NEW j \in Index, i < j
      PROVE  <<sortData[i], sortData[j]>> \in RankedAhead
  <2>1. sortData[i] \in Key /\ sortData[j] \in Key
    BY DEF IInv, SameKeys
  <2>. QED  BY <1>2, <2>1 DEF RankedAhead
<1>3. RankedAhead \subseteq Key \X Key
  BY DEF RankedAhead
<1>. QED
  BY <1>1, <1>2, <1>3

LEMMA VectorIsRanking ==
  ASSUME IInv
  PROVE  Board!IsRanking(accessData, RankedAhead)
<1>. SUFFICES ASSUME NEW v \in Key, NEW w \in Key
              PROVE  /\ (<<v, w>> \in RankedAhead) <=> (v # w /\ <<w, v>> \notin RankedAhead)
                     /\ <<v, w>> \in RankedAhead => accessData[v] >= accessData[w]
  BY DEF Board!IsRanking, Key
<1>1. PICK m \in Index : sortData[m] = v
  BY DEF IInv, SameKeys
<1>2. PICK n \in Index : sortData[n] = w
  BY DEF IInv, SameKeys
<1>3. m \in Int /\ n \in Int
  BY DEF IInv, TypeOK, Index
<1>4. /\ (<<v, w>> \in RankedAhead) <=> m < n
      /\ (<<w, v>> \in RankedAhead) <=> n < m
  BY <1>1, <1>2, RankedAheadIsIndexOrder
<1>5. v = w <=> m = n
  BY <1>1, <1>2 DEF IInv, SameKeys
<1>6. m < n => accessData[v] >= accessData[w]
  BY <1>1, <1>2 DEF IInv, Sorted
<1>. QED
  BY <1>3, <1>4, <1>5, <1>6

(* What the vector says of the ranking, in one state and in the next.      *)
RankingOK ==
  /\ RankedAhead \subseteq Key \X Key
  /\ \A i, j \in Index :
       (<<sortData[i], sortData[j]>> \in RankedAhead) <=> i < j
  /\ Board!IsRanking(accessData, RankedAhead)

LEMMA InvariantRanks == IInv => RankingOK
  BY RankedAheadIsIndexOrder, VectorIsRanking DEF RankingOK

LEMMA NextInvariantRanks == IInv' => RankingOK'
  BY InvariantRanks, PTL

(* Updating a present key is an Add of the leaderboard.                    *)
LEMMA UpdateRefines ==
  ASSUME IInv, IInv', NEW k \in AccessKey, NEW delta \in SortKey,
         UpdateItem(k, delta)
  PROVE  Board!Add(k, delta)
<1>. DEFINE s == sortData
            a == accessData
            L == Len(s)
            i == Position(s, a, k)
            new == Modify(a[k], delta)
            j == Target(s, a, i, new)
            src(n) == Source(i, j, n)
<1>1. s \in Seq(AccessKey) /\ Index = 1 .. L /\ L \in Nat
  BY DEF IInv, TypeOK, Index
<1>2. k \in Key
  BY DEF UpdateItem, IsPresent, Key
<1>3. i \in 1 .. L /\ s[i] = k
  BY <1>2, PositionFinds
<1>4. new \in SortKey /\ new \in Int
  BY <1>2, ModifyAssumption, SortKeyAssumption DEF IInv, TypeOK
<1>5. s' = Moved(s, i, j) /\ a' = [a EXCEPT ![k] = new]
  BY DEF UpdateItem, UpdatedSort, UpdatedAccess
<1>6. Splits(i, new, j)
  <2>. HIDE DEF i, new
  <2>. QED  BY <1>3, <1>4, TargetSplits
<1>7. /\ new = a[s[i]] => j = i
      /\ new # a[s[i]] => \A m \in Index : m < i /\ a[s[m]] = new => j <= m
  <2>. HIDE DEF i, new
  <2>. QED  BY <1>3, <1>4, TargetTies
<1>. HIDE DEF i, j, new
<1>8. j \in 1 .. L
  BY <1>1, <1>6 DEF Splits
<1>9. /\ Len(s') = L
      /\ Index' = 1 .. L
      /\ \A n \in 1 .. L : s'[n] = s[src(n)]
  <2>1. IsMove(s', s, i, j)
    BY <1>1, <1>3, <1>5, <1>8, MovedIndexes
  <2>. QED  BY <1>1, <1>3, <1>8, <2>1 DEF IsMove, Index, Source
<1>10. /\ \A n \in 1 .. L : src(n) \in 1 .. L
       /\ \A n \in 1 .. L : (src(n) = i) <=> (n = j)
       /\ \A m, n \in 1 .. L : m # j /\ n # j => (m < n <=> src(m) < src(n))
  BY <1>1, <1>3, <1>8, SourcePermutes
<1>11. Key' = Key
  BY <1>5 DEF IInv, TypeOK, Key
<1>12. RankingOK /\ RankingOK'
  BY InvariantRanks, NextInvariantRanks
<1>. HIDE DEF src, L
<1>13. \A x \in Key : \E n \in 1 .. L : s'[n] = x
  BY <1>9, <1>11 DEF IInv, SameKeys
<1>14. s'[j] = k
  BY <1>3, <1>8, <1>9, <1>10
<1>15. a' = [v \in Key \cup {k} |-> IF v = k THEN new ELSE a[v]]
  BY <1>2, <1>5 DEF IInv, TypeOK, Key
<1>16. ASSUME NEW v \in Key \ {k}, NEW w \in Key \ {k}
       PROVE  (<<v, w>> \in RankedAhead') <=> (<<v, w>> \in RankedAhead)
  <2>1. PICK m \in 1 .. L : s'[m] = v
    BY <1>13
  <2>2. PICK n \in 1 .. L : s'[n] = w
    BY <1>13
  <2>3. m # j /\ n # j
    BY <1>14, <2>1, <2>2
  <2>4. (<<v, w>> \in RankedAhead') <=> m < n
    BY <1>9, <1>12, <2>1, <2>2 DEF RankingOK
  <2>5. v = s[src(m)] /\ w = s[src(n)] /\ src(m) \in 1 .. L /\ src(n) \in 1 .. L
    BY <1>9, <1>10, <2>1, <2>2
  <2>6. (<<v, w>> \in RankedAhead) <=> src(m) < src(n)
    BY <1>1, <1>12, <2>5 DEF RankingOK
  <2>. QED  BY <1>10, <2>3, <2>4, <2>6
<1>17. ASSUME new = a[k] PROVE RankedAhead' = RankedAhead
  <2>1. j = i
    BY <1>3, <1>7, <1>17
  <2>2. \A n \in 1 .. L : s'[n] = s[n]
    BY <1>1, <1>3, <1>9, <2>1 DEF src, Source
  <2>. QED  BY <1>1, <1>9, <1>11, <2>2 DEF RankedAhead
<1>18. ASSUME new # a[k], NEW v \in Key \ {k}, a[v] = new
       PROVE  <<k, v>> \in RankedAhead'
  <2>1. PICK n \in 1 .. L : s'[n] = v
    BY <1>13
  <2>2. n # j
    BY <1>14, <2>1
  <2>3. v = s[src(n)] /\ src(n) \in 1 .. L /\ src(n) # i
    BY <1>9, <1>10, <2>1, <2>2
  <2>4. src(n) < i => j <= src(n)
    BY <1>1, <1>3, <1>7, <1>18, <2>3
  <2>5. i < src(n) => ~(src(n) <= j)
    BY <1>1, <1>4, <1>6, <1>18, <2>3 DEF Splits
  <2>6. j < n
    BY <1>1, <1>3, <1>8, <2>2, <2>3, <2>4, <2>5 DEF src, Source
  <2>. QED  BY <1>8, <1>9, <1>12, <1>14, <2>1, <2>6 DEF RankingOK
<1>19. RankedAhead' \in SUBSET ((Key \cup {k}) \X (Key \cup {k}))
  BY <1>11, <1>12 DEF RankingOK
<1>20. Board!IsRanking(a', RankedAhead')
  BY <1>12 DEF RankingOK
<1>21. Board!Total(k, delta) = new /\ Board!Ranked = Key
  BY <1>2 DEF Board!Total, Board!Ranked, Key, new
<1>22. a'[k] = new
  BY <1>15
<1>. QED
  BY <1>2, <1>15, <1>16, <1>17, <1>18, <1>19, <1>20, <1>21, <1>22 DEF Board!Add


(* Inserting an absent key is an Add of the leaderboard.                   *)
LEMMA InsertRefines ==
  ASSUME IInv, IInv', NEW k \in AccessKey, NEW v \in SortKey, InsertItem(k, v)
  PROVE  Board!Add(k, v)
<1>. DEFINE s == sortData
            a == accessData
            L == Len(s)
            j == LowerBound(s, a, v)
<1>1. s \in Seq(AccessKey) /\ Index = 1 .. L /\ L \in Nat
  BY DEF IInv, TypeOK, Index
<1>2. j \in 1 .. L + 1 /\ \A n \in 1 .. j - 1 : a[s[n]] > v
  <2>1. 1 \in 1 .. L + 1
    BY <1>1
  <2>. QED  BY <1>1, <2>1, FirstNotAheadStops DEF LowerBound, Ahead
<1>3. s' = InsertAt(s, j, k) /\ k \notin Key
  BY DEF InsertItem, InsertedSort, IsPresent, Key
<1>4. a' = [x \in Key \cup {k} |-> IF x = k THEN v ELSE a[x]]
  BY DEF InsertItem, InsertedAccess, Key
<1>. HIDE DEF j
<1>5. /\ Index' = 1 .. L + 1
      /\ \A n \in 1 .. L + 1 :
           s'[n] = IF n < j THEN s[n] ELSE IF n = j THEN k ELSE s[n - 1]
  <2>1. IsInsertion(s', s, j, k)
    BY <1>1, <1>2, <1>3, InsertAtIndexes
  <2>. QED  BY <1>1, <2>1 DEF IsInsertion, Index
<1>. HIDE DEF L
<1>6. Key' = Key \cup {k}
  BY <1>4 DEF Key
<1>7. RankingOK /\ RankingOK'
  BY InvariantRanks, NextInvariantRanks
<1>8. s'[j] = k /\ j \in Index'
  BY <1>1, <1>2, <1>5
<1>9. ASSUME NEW m \in 1 .. L
      PROVE  \E n \in 1 .. L + 1 : /\ s'[n] = s[m]
                                   /\ n = IF m < j THEN m ELSE m + 1
  <2>1. CASE m < j
    <3>1. m \in 1 .. L + 1 /\ s'[m] = s[m]
      BY <1>1, <1>5, <2>1
    <3>. QED  BY <2>1, <3>1
  <2>2. CASE ~(m < j)
    <3>1. m + 1 \in 1 .. L + 1 /\ ~(m + 1 < j) /\ m + 1 # j /\ (m + 1) - 1 = m
      BY <1>1, <1>2, <2>2
    <3>2. s'[m + 1] = s[(m + 1) - 1]
      BY <1>5, <3>1
    <3>. QED  BY <2>2, <3>1, <3>2
  <2>. QED  BY <2>1, <2>2
<1>10. ASSUME NEW x \in Key, NEW y \in Key
       PROVE  (<<x, y>> \in RankedAhead') <=> (<<x, y>> \in RankedAhead)
  <2>1. PICK m \in 1 .. L : s[m] = x
    BY <1>1 DEF IInv, SameKeys
  <2>2. PICK n \in 1 .. L : s[n] = y
    BY <1>1 DEF IInv, SameKeys
  <2>3. PICK p \in 1 .. L + 1 : s'[p] = x /\ p = IF m < j THEN m ELSE m + 1
    BY <1>9, <2>1
  <2>4. PICK q \in 1 .. L + 1 : s'[q] = y /\ q = IF n < j THEN n ELSE n + 1
    BY <1>9, <2>2
  <2>5. (<<x, y>> \in RankedAhead) <=> m < n
    BY <1>1, <1>7, <2>1, <2>2 DEF RankingOK
  <2>6. (<<x, y>> \in RankedAhead') <=> p < q
    BY <1>5, <1>7, <2>3, <2>4 DEF RankingOK
  <2>7. p < q <=> m < n
    BY <1>1, <1>2, <2>3, <2>4
  <2>. QED  BY <2>5, <2>6, <2>7
<1>11. ASSUME NEW x \in Key, a[x] = v PROVE <<k, x>> \in RankedAhead'
  <2>1. PICK m \in 1 .. L : s[m] = x
    BY <1>1 DEF IInv, SameKeys
  <2>2. v \in Int
    BY SortKeyAssumption
  <2>3. ~(m < j)
    BY <1>1, <1>2, <1>11, <2>1, <2>2
  <2>4. PICK p \in 1 .. L + 1 : s'[p] = x /\ p = m + 1
    BY <1>9, <2>1, <2>3
  <2>5. j < p
    BY <1>1, <1>2, <2>3, <2>4
  <2>. QED  BY <1>5, <1>7, <1>8, <2>4, <2>5 DEF RankingOK
<1>12. RankedAhead' \in SUBSET ((Key \cup {k}) \X (Key \cup {k}))
  BY <1>6, <1>7 DEF RankingOK
<1>13. Board!IsRanking(a', RankedAhead')
  BY <1>7 DEF RankingOK
<1>14. Board!Total(k, v) = v /\ Board!Ranked = Key
  BY <1>3 DEF Board!Total, Board!Ranked, Key
<1>15. a'[k] = v /\ Key \ {k} = Key
  BY <1>3, <1>4
<1>. QED
  BY <1>3, <1>4, <1>10, <1>11, <1>12, <1>13, <1>14, <1>15 DEF Board!Add

(* The container implements the leaderboard: an insert changes one user's  *)
(* total and moves that user only, ties go to the latest, clear empties it.*)
THEOREM ContainerRefinesLeaderboard == Spec => ImplementsLeaderboard
<1>1. Init => Board!Init
  <2>. SUFFICES ASSUME Init PROVE Board!Init
    OBVIOUS
  <2>1. RankedAhead = {}
    BY DEF Init, RankedAhead, Key, Index
  <2>. QED  BY <2>1 DEF Init, Board!Init
<1>2. IInv /\ IInv' /\ [Next]_vars => [Board!Next]_(Board!vars)
  <2>. SUFFICES ASSUME IInv, IInv', [Next]_vars
                PROVE  Board!Next \/ UNCHANGED Board!vars
    OBVIOUS
  <2>1. ASSUME NEW k \in AccessKey, NEW v \in SortKey, UpdateItem(k, v)
        PROVE  Board!Next
    BY <2>1, UpdateRefines DEF Board!Next
  <2>2. ASSUME NEW k \in AccessKey, NEW v \in SortKey, InsertItem(k, v)
        PROVE  Board!Next
    BY <2>2, InsertRefines DEF Board!Next
  <2>3. CASE Clear
    <3>1. RankedAhead' = {}
      BY <2>3 DEF Clear, RankedAhead, Key, Index
    <3>. QED  BY <2>3, <3>1 DEF Clear, Board!Next, Board!Reset
  <2>4. CASE UNCHANGED vars
    BY <2>4 DEF vars, Board!vars, RankedAhead, Key, Index
  <2>. QED  BY <2>1, <2>2, <2>3, <2>4 DEF Next
<1>. QED
  BY <1>1, <1>2, InvariantHolds, PTL DEF Spec, Board!Spec, ImplementsLeaderboard
=============================================================================
