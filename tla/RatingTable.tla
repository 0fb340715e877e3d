---------------------------- MODULE RatingTable ----------------------------
(***************************************************************************)
(* The algorithms of core::MultiKeyVolatileContainer                       *)
(* (core/include/core/MultiKeyVolatileContainer.hpp) as operators over its *)
(* two members:                                                            *)
(*                                                                         *)
(*   s   sortData_, the vector of nodes, best first.  A node is named by   *)
(*       its access key: the code makes one node per key and shares it     *)
(*       between the two containers.                                       *)
(*   a   accessData_ together with the nodes it points to: a partial       *)
(*       function from access keys to the sort key stored in the node.     *)
(*                                                                         *)
(* Indexes are 1-based; the positions the container reports are 0-based,   *)
(* as in the code.  A loop of the code is replaced by the place where it   *)
(* stops, said with the least or the greatest index of a set.              *)
(***************************************************************************)
EXTENDS Integers, SequencesExt

CONSTANTS AccessKey,     \* the key of the hash table (a user identifier)
          SortKey,       \* the values the table is ordered by (amounts)
          Modify(_, _)   \* the template parameter that merges an update

(* Comp is std::greater on the sort keys; Modify stays within them.  The   *)
(* service adds floats: NaN, which no order can place, is excluded.        *)
ASSUME SortKeyAssumption == SortKey \subseteq Int
ASSUME ModifyAssumption ==
  \A old, delta \in SortKey : Modify(old, delta) \in SortKey

(* CompPtr: does the node at index i sort strictly before sort key v?      *)
Ahead(s, a, i, v) == a[s[i]] > v

(* The first index from `from` on whose node is not ahead of v, or the end.*)
FirstNotAhead(s, a, v, from) ==
  Min({i \in from .. Len(s) : ~Ahead(s, a, i, v)} \cup {Len(s) + 1})

(* The last index before i whose node is ahead of v, or 0.                 *)
LastAhead(s, a, v, i) ==
  Max({j \in 1 .. i - 1 : Ahead(s, a, j, v)} \cup {0})

(* A slip the checks must catch: std::upper_bound for std::lower_bound.    *)
UpperBound(s, a, v) == Min({i \in 1 .. Len(s) : a[s[i]] < v} \cup {Len(s) + 1})

(* std::lower_bound over the whole vector (a binary search: it finds this  *)
(* index because the vector is sorted, which is an invariant of the users  *)
(* of this module).                                                        *)
LowerBound(s, a, v) == FirstNotAhead(s, a, v, 1)

(* findInSortContainer: from the lower bound of the key's own sort key,    *)
(* walk to the node that carries the key.  The walk dereferences before it *)
(* tests for the end, so it is only defined when the node is there.        *)
Matches(s, a, k) == {i \in LowerBound(s, a, a[k]) .. Len(s) : s[i] = k}
Position(s, a, k) == Min(Matches(s, a, k))

-----------------------------------------------------------------------------
(* insert, key present.  The swaps carry the node from index i to index j. *)
Moved(s, i, j) == InsertAt(RemoveAt(s, i), j, s[i])

(* Slips: only a rising node is moved; a rising node stops behind equals.  *)
TargetOfRisingOnly(s, a, i, new) ==
  IF new > a[s[i]] THEN LastAhead(s, a, new, i) + 1 ELSE i

TargetBehindEquals(s, a, i, new) ==
  IF new > a[s[i]]
    THEN Max({j \in 1 .. i - 1 : a[s[j]] >= new} \cup {0}) + 1
    ELSE FirstNotAhead(s, a, new, i + 1) - 1

(* Where the updated node ends.  The walk to the left passes equals, the   *)
(* walk to the right stops before them.                                    *)
Target(s, a, i, new) ==
  IF new > a[s[i]] THEN LastAhead(s, a, new, i) + 1
                   ELSE FirstNotAhead(s, a, new, i + 1) - 1

UpdatedSort(s, a, k, delta) ==
  LET i == Position(s, a, k)
  IN  Moved(s, i, Target(s, a, i, Modify(a[k], delta)))

UpdatedAccess(a, k, delta) == [a EXCEPT ![k] = Modify(@, delta)]

(* insert, key absent: the new node goes before its equals.                *)
InsertedSort(s, a, k, v) == InsertAt(s, LowerBound(s, a, v), k)

InsertedAccess(a, k, v) ==
  [x \in DOMAIN a \cup {k} |-> IF x = k THEN v ELSE a[x]]

(* insert(value) as a whole, on either branch.                             *)
IsPresent(a, k) == k \in DOMAIN a

SortAfterInsert(s, a, k, v) ==
  IF IsPresent(a, k) THEN UpdatedSort(s, a, k, v) ELSE InsertedSort(s, a, k, v)

AccessAfterInsert(a, k, v) ==
  IF IsPresent(a, k) THEN UpdatedAccess(a, k, v) ELSE InsertedAccess(a, k, v)

-----------------------------------------------------------------------------
(* The queries: sequences of PositionedData.                               *)
PositionedData(s, a, i) == [position |-> i - 1, key |-> s[i], amount |-> a[s[i]]]

Positions(s, a, first, last) ==
  [n \in 1 .. last - first + 1 |-> PositionedData(s, a, first + n - 1)]

GetPosition(s, a, k) == PositionedData(s, a, Position(s, a, k))

HeadPositions(s, a, n) == Positions(s, a, 1, Min({n, Len(s)}))

(* Slips: the n - 1 nodes above, the n - 1 nodes below.                    *)
HighPositionsOneShort(s, a, k, n) ==
  LET p == Position(s, a, k)
  IN  Positions(s, a, IF p - 1 >= n THEN p - n + 1 ELSE 1, p - 1)

LowPositionsOneShort(s, a, k, n) ==
  LET p == Position(s, a, k)
  IN  Positions(s, a, p + 1, IF Len(s) - p >= n THEN p + n - 1 ELSE Len(s) - 1)

HighPositions(s, a, k, n) ==
  LET p == Position(s, a, k)
  IN  Positions(s, a, IF p - 1 >= n THEN p - n ELSE 1, p - 1)

(* With fewer than n nodes below the key the end iterator stays at         *)
(* end() - 1, which the loop never visits.                                 *)
LowPositions(s, a, k, n) ==
  LET p == Position(s, a, k)
  IN  Positions(s, a, p + 1, IF Len(s) - p >= n THEN p + n ELSE Len(s) - 1)

KeysOf(positions) == {positions[i].key : i \in DOMAIN positions}
=============================================================================
