--------------------- MODULE MultiKeyVolatileContainer ---------------------
(***************************************************************************)
(* core::MultiKeyVolatileContainer as a state machine: a vector sorted by  *)
(* one field of its nodes and a hash table that finds a node by another.   *)
(* Its caller (tempstore::UserRatingProvider) holds a mutex around every   *)
(* call that changes it, so each call is one action.                       *)
(***************************************************************************)
EXTENDS RatingTable

CONSTANT MaxPositions     \* the longest list a caller asks for

ASSUME MaxPositionsAssumption == MaxPositions \in Nat

VARIABLES sortData,       \* sortData_:   the keys of the nodes, best first
          accessData      \* accessData_: access key -> sort key of its node

vars == <<sortData, accessData>>

Init ==
  /\ sortData = <<>>
  /\ accessData = [k \in {} |-> 0]

(* insert, first branch: the key is present, its node is updated and moved.*)
UpdateItem(k, delta) ==
  /\ IsPresent(accessData, k)
  /\ sortData' = UpdatedSort(sortData, accessData, k, delta)
  /\ accessData' = UpdatedAccess(accessData, k, delta)

(* insert, second branch: a new node.                                      *)
InsertItem(k, v) ==
  /\ ~IsPresent(accessData, k)
  /\ sortData' = InsertedSort(sortData, accessData, k, v)
  /\ accessData' = InsertedAccess(accessData, k, v)

(* A slip: the hash table keeps its keys.                                  *)
ClearSortDataOnly == sortData' = <<>> /\ UNCHANGED accessData

Clear ==
  /\ sortData' = <<>>
  /\ accessData' = [k \in {} |-> 0]

Next ==
  \/ \E k \in AccessKey, v \in SortKey : UpdateItem(k, v) \/ InsertItem(k, v)
  \/ Clear

Spec == Init /\ [][Next]_vars

-----------------------------------------------------------------------------
Index == DOMAIN sortData
Key == DOMAIN accessData

(* The two containers hold what their C++ types let them hold.             *)
TypeOK ==
  /\ sortData \in Seq(AccessKey)
  /\ Key \subseteq AccessKey
  /\ accessData \in [Key -> SortKey]

(* The two containers index the same nodes: every key of the hash table is *)
(* in the vector, exactly once, and nothing else is.  insert and clear     *)
(* keep this by changing both.                                             *)
SameKeys ==
  /\ \A i \in Index : sortData[i] \in Key
  /\ \A k \in Key : \E i \in Index : sortData[i] = k
  /\ \A i, j \in Index : sortData[i] = sortData[j] => i = j

(* The vector is sorted, which std::lower_bound requires on every call and *)
(* every update must restore by moving a single node.                      *)
Sorted ==
  \A i, j \in Index :
    i < j => accessData[sortData[i]] >= accessData[sortData[j]]

(* What every call finds the table to be, and leaves it: both containers   *)
(* in step and the vector sorted.                                          *)
TableWellFormed == SameKeys /\ Sorted

(* The walk of findInSortContainer finds its node before the end of the    *)
(* vector.  The code dereferences the iterator before comparing it with    *)
(* end(), so a walk that did not would read past the vector.               *)
LookupEndsInTable ==
  \A k \in Key : Matches(sortData, accessData, k) # {}

(* The users ranked above and below k, nearest first in the statements.    *)
Rank(k) == CHOOSE i \in Index : sortData[i] = k
Above(k) == {x \in Key : Rank(x) < Rank(k)}
Below(k) == {x \in Key : Rank(x) > Rank(k)}
NearestAbove(k, n) == {x \in Above(k) : Rank(k) - Rank(x) <= n}
NearestBelow(k, n) == {x \in Below(k) : Rank(x) - Rank(k) <= n}

(* getHighPositions gives exactly the n users next above the user.         *)
HighPositionsNearest ==
  \A k \in Key, n \in 0 .. MaxPositions :
    KeysOf(HighPositions(sortData, accessData, k, n)) = NearestAbove(k, n)

(* The same of getLowPositions, as its comment promises                    *)
(* (UserRatingProvider.hpp:79-86): the users below the user.  The code     *)
(* leaves one out.                                                         *)
LowPositionsNearest ==
  \A k \in Key, n \in 0 .. MaxPositions :
    KeysOf(LowPositions(sortData, accessData, k, n)) = NearestBelow(k, n)

(* getLowPositions gives none but users next below the user, and when      *)
(* there are n of them it gives exactly those.                             *)
FullLowPositionsNearest ==
  \A k \in Key, n \in 0 .. MaxPositions :
    LET low == KeysOf(LowPositions(sortData, accessData, k, n))
    IN  /\ low \subseteq NearestBelow(k, n)
        /\ n <= Len(sortData) - Rank(k) => low = NearestBelow(k, n)

(* The neighbours of a user in a message are its nearest ones, and a list  *)
(* that can be filled is complete.                                         *)
NeighboursNearest == HighPositionsNearest /\ FullLowPositionsNearest

-----------------------------------------------------------------------------
(* The order of the vector as the pairs <<v, w>> with v before w.          *)
RankedAhead ==
  {p \in Key \X Key :
     \E i, j \in Index : i < j /\ sortData[i] = p[1] /\ sortData[j] = p[2]}

Board == INSTANCE Leaderboard
           WITH User <- AccessKey, Amount <- SortKey, Merge <- Modify,
                total <- accessData, ahead <- RankedAhead

(* The container is a leaderboard: an update moves one user only, and of   *)
(* users with equal amounts the one that got there last is ahead.          *)
ImplementsLeaderboard == Board!Spec
=============================================================================
