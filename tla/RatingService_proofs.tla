------------------------ MODULE RatingService_proofs ------------------------
(***************************************************************************)
(* What the service promises whatever its users, workers, amounts and list *)
(* lengths are.  The table is the container of                             *)
(* MultiKeyVolatileContainer_proofs, whose lemmas are cited as P!...       *)
(***************************************************************************)
EXTENDS RatingService, Sequences, TLAPS

P == INSTANCE MultiKeyVolatileContainer_proofs
       WITH AccessKey <- User, MaxPositions <- nRatingPositions

-----------------------------------------------------------------------------
(* The container of the specification and that of the lemmas are the same: *)
(* one lemma per layer of their definitions.                               *)
LEMMA SameSearches ==
  /\ \A S : Container!Min(S) = P!Min(S)
  /\ \A S : Container!Max(S) = P!Max(S)
  /\ \A s, a, v, from : Container!FirstNotAhead(s, a, v, from) = P!FirstNotAhead(s, a, v, from)
  /\ \A s, a, v, i : Container!LastAhead(s, a, v, i) = P!LastAhead(s, a, v, i)
<1>1. \A S : Container!Min(S) = P!Min(S)
  BY DEF Container!Min, P!Min
<1>2. \A S : Container!Max(S) = P!Max(S)
  BY DEF Container!Max, P!Max
<1>3. \A s, a, v, from : Container!FirstNotAhead(s, a, v, from) = P!FirstNotAhead(s, a, v, from)
  BY <1>1 DEF Container!FirstNotAhead, P!FirstNotAhead, Container!Ahead, P!Ahead
<1>4. \A s, a, v, i : Container!LastAhead(s, a, v, i) = P!LastAhead(s, a, v, i)
  BY <1>2 DEF Container!LastAhead, P!LastAhead, Container!Ahead, P!Ahead
<1>. QED  BY <1>1, <1>2, <1>3, <1>4

LEMMA SamePositions ==
  /\ \A s, a, v : Container!LowerBound(s, a, v) = P!LowerBound(s, a, v)
  /\ \A s, a, k : Container!Position(s, a, k) = P!Position(s, a, k)
<1>1. \A s, a, v : Container!LowerBound(s, a, v) = P!LowerBound(s, a, v)
  BY SameSearches DEF Container!LowerBound, P!LowerBound
<1>2. \A s, a, k : Container!Matches(s, a, k) = P!Matches(s, a, k)
  BY <1>1 DEF Container!Matches, P!Matches
<1>3. \A s, a, k : Container!Position(s, a, k) = P!Position(s, a, k)
  BY <1>2, SameSearches DEF Container!Position, P!Position
<1>. QED  BY <1>1, <1>3

LEMMA SameOperations ==
  /\ \A k, delta : Container!UpdateItem(k, delta) <=> P!UpdateItem(k, delta)
  /\ \A k, v : Container!InsertItem(k, v) <=> P!InsertItem(k, v)
  /\ Container!Clear <=> P!Clear
<1>1. \A s, j, e : Container!InsertAt(s, j, e) = P!InsertAt(s, j, e)
  BY DEF Container!InsertAt, P!InsertAt
<1>2. \A s, i : Container!RemoveAt(s, i) = P!RemoveAt(s, i)
  BY DEF Container!RemoveAt, P!RemoveAt
<1>3. \A s, i, j : Container!Moved(s, i, j) = P!Moved(s, i, j)
  BY <1>1, <1>2 DEF Container!Moved, P!Moved
<1>4. \A s, a, i, new : Container!Target(s, a, i, new) = P!Target(s, a, i, new)
  BY SameSearches DEF Container!Target, P!Target
<1>5. \A s, a, k, delta : Container!UpdatedSort(s, a, k, delta) = P!UpdatedSort(s, a, k, delta)
  BY <1>3, <1>4, SamePositions DEF Container!UpdatedSort, P!UpdatedSort
<1>6. \A s, a, k, v : Container!InsertedSort(s, a, k, v) = P!InsertedSort(s, a, k, v)
  BY <1>1, SamePositions DEF Container!InsertedSort, P!InsertedSort
<1>7. \A k, delta : Container!UpdateItem(k, delta) <=> P!UpdateItem(k, delta)
  BY <1>5 DEF Container!UpdateItem, P!UpdateItem, Container!IsPresent, P!IsPresent,
              Container!UpdatedAccess, P!UpdatedAccess
<1>8. \A k, v : Container!InsertItem(k, v) <=> P!InsertItem(k, v)
  BY <1>6 DEF Container!InsertItem, P!InsertItem, Container!IsPresent, P!IsPresent,
              Container!InsertedAccess, P!InsertedAccess
<1>9. Container!Clear <=> P!Clear
  BY DEF Container!Clear, P!Clear
<1>. QED  BY <1>7, <1>8, <1>9

LEMMA SameQueries ==
  /\ \A s, a, k : Container!GetPosition(s, a, k) = P!GetPosition(s, a, k)
  /\ \A s, a, n : Container!HeadPositions(s, a, n) = P!HeadPositions(s, a, n)
  /\ \A s, a, k, n : Container!HighPositions(s, a, k, n) = P!HighPositions(s, a, k, n)
  /\ \A s, a, k, n : Container!LowPositions(s, a, k, n) = P!LowPositions(s, a, k, n)
  /\ \A ps : Container!KeysOf(ps) = P!KeysOf(ps)
<1>1. \A s, a, i : Container!PositionedData(s, a, i) = P!PositionedData(s, a, i)
  BY DEF Container!PositionedData, P!PositionedData
<1>2. \A s, a, first, last : Container!Positions(s, a, first, last) = P!Positions(s, a, first, last)
  BY <1>1 DEF Container!Positions, P!Positions
<1>3. \A s, a, k : Container!GetPosition(s, a, k) = P!GetPosition(s, a, k)
  BY <1>1, SamePositions DEF Container!GetPosition, P!GetPosition
<1>4. \A s, a, n : Container!HeadPositions(s, a, n) = P!HeadPositions(s, a, n)
  BY <1>2, SameSearches DEF Container!HeadPositions, P!HeadPositions
<1>5. \A s, a, k, n : Container!HighPositions(s, a, k, n) = P!HighPositions(s, a, k, n)
  BY <1>2, SamePositions DEF Container!HighPositions, P!HighPositions
<1>6. \A s, a, k, n : Container!LowPositions(s, a, k, n) = P!LowPositions(s, a, k, n)
  BY <1>2, SamePositions DEF Container!LowPositions, P!LowPositions
<1>7. \A ps : Container!KeysOf(ps) = P!KeysOf(ps)
  BY DEF Container!KeysOf, P!KeysOf
<1>. QED  BY <1>3, <1>4, <1>5, <1>6, <1>7

-----------------------------------------------------------------------------
(* Types, and that a thread deals with one user at a time.                 *)
Place == {"idle", "wait", "broadcast", "addUser", "renameUser", "insertDeal", "isPresent",
          "zeroDeal", "checkStart", "checkEnd", "insertZero", "own", "head", "high", "low", "send"}

TypeOK ==
  /\ environment \in Environments
  /\ users \subseteq User
  /\ window \in {"open", "over", "cleared", "started"}
  /\ connectedUsers \subseteq User
  /\ snapshot \subseteq User
  /\ at \in [Actor -> Place]
  /\ user \in [Actor -> SUBSET User]
  /\ \A a \in Actor : \A u, v \in user[a] : u = v
  /\ message \in [Actor -> SUBSET User]
  /\ stamp \in [Actor -> Stamp]
  /\ terminated \in BOOLEAN

LEMMA InitTypeOK == Init => TypeOK
  BY DEF Init, TypeOK, Place, Stamp

(* A query that does not fail lists registered users.                      *)
Lists(part, u) == Container!KeysOf(QueryResult(part, u))

LEMMA QueryOutcomes ==
  ASSUME NEW a, NEW part, NEW next, Query(a, part, next)
  PROVE  \E u \in user[a] :
           \/ /\ Lists(part, u) \subseteq users
              /\ message' = [message EXCEPT ![a] = @ \cup Lists(part, u)]
              /\ Goto(a, next)
              /\ UNCHANGED <<users, table, window, connectedUsers, snapshot, user, stamp, terminated>>
           \/ /\ Fails(part, u) \/ UserStoreChanging
              /\ Throw(a)
  BY DEF Query, Lists, Fails

LEMMA StepTypeOK ==
  ASSUME TypeOK, Next
  PROVE  TypeOK'
<1>. USE DEF TypeOK
<1>1. environment' \in Environments
  BY DEF Next
<1>2. ASSUME NEW w \in Worker, Dispatch(w) PROVE TypeOK'
  <2>1. w \in Actor
    BY DEF Actor
  <2>2. ASSUME NEW u \in User, UserRegistered(w, u) PROVE TypeOK'
    BY <1>1, <2>1, <2>2 DEF UserRegistered, Begin, Goto, Place
  <2>3. ASSUME NEW u \in User, UserRenamed(w, u) PROVE TypeOK'
    BY <1>1, <2>1, <2>3 DEF UserRenamed, Begin, Goto, Place
  <2>4. ASSUME NEW u \in User, UserDealWon(w, u) PROVE TypeOK'
    BY <1>1, <2>1, <2>4 DEF UserDealWon, Begin, Goto, Place
  <2>5. ASSUME NEW u \in User, UserConnected(w, u) PROVE TypeOK'
    BY <1>1, <2>1, <2>5 DEF UserConnected, Begin, Goto, Place
  <2>6. ASSUME NEW u \in User, UserDisconnected(w, u) PROVE TypeOK'
    BY <1>1, <2>1, <2>6 DEF UserDisconnected
  <2>7. CASE AddUser(w)
    BY <1>1, <2>1, <2>7 DEF AddUser, Return, Goto, Place
  <2>8. CASE RenameUser(w)
    BY <1>1, <2>1, <2>8 DEF RenameUser, Return, Goto, Place
  <2>9. CASE InsertDeal(w)
    BY <1>1, <2>1, <2>9 DEF InsertDeal, Return, Goto, Place
  <2>. QED  BY <1>2, <2>2, <2>3, <2>4, <2>5, <2>6, <2>7, <2>8, <2>9 DEF Dispatch
<1>3. ASSUME NEW a \in Actor, SendUserRelativeRating(a) PROVE TypeOK'
  <2>1. CASE IsUserPresent(a)
    BY <1>1, <2>1 DEF IsUserPresent, Goto, Place
  <2>2. CASE MakeZeroDeal(a) \/ CheckStartTime(a) \/ CheckEndTime(a)
    BY <1>1, <2>2 DEF MakeZeroDeal, CheckStartTime, CheckEndTime, Goto, Place, Stamp
  <2>3. CASE InsertZeroDeal(a)
    BY <1>1, <2>3 DEF InsertZeroDeal, Goto, Place
  <2>4. ASSUME NEW part \in Place, NEW next \in Place, Query(a, part, next) PROVE TypeOK'
    <3>1. PICK u \in user[a] :
            \/ /\ Lists(part, u) \subseteq users
               /\ message' = [message EXCEPT ![a] = @ \cup Lists(part, u)]
               /\ Goto(a, next)
               /\ UNCHANGED <<users, table, window, connectedUsers, snapshot, user, stamp, terminated>>
            \/ Throw(a)
      BY <2>4, QueryOutcomes
    <3>2. CASE Throw(a)
      BY <1>1, <3>2 DEF Throw, Return, Goto, Place
    <3>. QED  BY <1>1, <3>1, <3>2 DEF Goto
  <2>5. CASE SendToUser(a)
    BY <1>1, <2>5 DEF SendToUser, Return, Goto, Place
  <2>. QED
    BY <1>3, <2>1, <2>2, <2>3, <2>4, <2>5
       DEF SendUserRelativeRating, GetUserPosition, GetHeadPositions, GetHighPositions,
           GetLowPositions, Place
<1>4. CASE Round
  <2>1. Broadcaster \in Actor
    BY DEF Actor
  <2>2. CASE TakeSnapshot
    BY <1>1, <2>1, <2>2 DEF TakeSnapshot, Goto, Place
  <2>3. CASE BeginPush
    BY <1>1, <2>1, <2>3 DEF BeginPush, Goto, Place
  <2>4. CASE EndRound
    BY <1>1, <2>1, <2>4 DEF EndRound, Goto, Place
  <2>. QED  BY <1>4, <2>2, <2>3, <2>4 DEF Round
<1>5. CASE Rotation
  <2>1. CASE PeriodEnds \/ ClearTable
    BY <1>1, <2>1 DEF PeriodEnds, ClearTable
  <2>2. CASE WriteStartTime
    BY <1>1, <2>2 DEF WriteStartTime, Stamp
  <2>3. CASE WriteEndTime
    BY <1>1, <2>3 DEF WriteEndTime, Stamp
  <2>. QED  BY <1>5, <2>1, <2>2, <2>3 DEF Rotation
<1>. QED
  BY <1>2, <1>3, <1>4, <1>5 DEF Next, Broadcast, Actor

-----------------------------------------------------------------------------
(* The service's parameters meet what the container assumes of its own.    *)
LEMMA TableAssumptions ==
  P!SortKeyAssumption /\ P!ModifyAssumption /\ P!MaxPositionsAssumption
  BY SortKeyAssumption, ModifyAssumption, nRatingPositionsAssumption
     DEF P!SortKeyAssumption, P!ModifyAssumption, P!MaxPositionsAssumption

(* What a step may do to the table and the window.                         *)
LEMMA PeriodSteps ==
  ASSUME TypeOK, Next
  PROVE  \/ /\ UNCHANGED window
            /\ \/ \E u \in User, amount \in SortKey : InsertIntoTable(u, amount)
               \/ UNCHANGED table
         \/ Rotation
<1>. DEFINE Adds == \E u \in User, amount \in SortKey : InsertIntoTable(u, amount)
<1>. USE DEF table
<1>1. ASSUME NEW w \in Worker, Dispatch(w) PROVE UNCHANGED window /\ (Adds \/ UNCHANGED table)
  <2>1. user[w] \subseteq User
    BY DEF TypeOK, Actor
  <2>2. CASE InsertDeal(w)
    BY <2>1, <2>2 DEF InsertDeal
  <2>. QED
    BY <1>1, <2>2 DEF Dispatch, UserRegistered, UserRenamed, UserDealWon, UserConnected,
                      UserDisconnected, Begin, AddUser, RenameUser
<1>2. ASSUME NEW a \in Actor, SendUserRelativeRating(a)
      PROVE  UNCHANGED window /\ (Adds \/ UNCHANGED table)
  <2>1. CASE InsertZeroDeal(a)
    BY <2>1, SortKeyAssumption DEF InsertZeroDeal, TypeOK
  <2>2. ASSUME NEW part, NEW next, Query(a, part, next) PROVE UNCHANGED <<window, table>>
    BY <2>2 DEF Query, Throw
  <2>. QED
    BY <1>2, <2>1, <2>2
       DEF SendUserRelativeRating, GetUserPosition, GetHeadPositions, GetHighPositions,
           GetLowPositions, IsUserPresent, MakeZeroDeal, CheckStartTime,
           CheckEndTime, SendToUser
<1>3. CASE Round
  BY <1>3 DEF Round, TakeSnapshot, BeginPush, EndRound
<1>. QED  BY <1>1, <1>2, <1>3 DEF Next, Broadcast, Actor

LEMMA TableSteps ==
  ASSUME TypeOK, Next
  PROVE  \/ \E u \in User, amount \in SortKey : InsertIntoTable(u, amount)
         \/ Container!Clear /\ window = "over"
         \/ UNCHANGED table
<1>1. CASE Rotation
  BY <1>1 DEF Rotation, PeriodEnds, ClearTable, WriteStartTime, WriteEndTime
<1>. QED  BY <1>1, PeriodSteps

(* Whatever threads do, the table stays sorted and consistent.             *)
LEMMA TableStays ==
  /\ Init => P!IInv
  /\ TypeOK /\ P!IInv /\ Next => P!IInv'
<1>. USE TableAssumptions
<1>1. Init => P!IInv
  <2>1. Init => P!Init
    BY DEF Init, Container!Init, P!Init
  <2>. QED  BY <2>1, P!InvariantInductive
<1>2. ASSUME TypeOK, P!IInv, Next PROVE P!IInv'
  <2>1. [P!Next]_(P!vars)
    BY <1>2, TableSteps, SameOperations DEF InsertIntoTable, P!Next, P!vars, table
  <2>. QED  BY <1>2, <2>1, P!InvariantInductive
<1>. QED  BY <1>1, <1>2
-----------------------------------------------------------------------------
(* Every query about a user of the table lists users of the table.         *)
LEMMA QueriesListTheTable ==
  ASSUME P!IInv, NEW u \in DOMAIN accessData, NEW part \in {"own", "head", "high", "low"}
  PROVE  Lists(part, u) \subseteq DOMAIN accessData
<1>. USE TableAssumptions
<1>. DEFINE s == sortData
            a == accessData
            n == nRatingPositions
<1>1. /\ u \in P!Key
      /\ P!Key = DOMAIN a
      /\ s \in Seq(User)
      /\ \A i \in 1 .. Len(s) : s[i] \in DOMAIN a
      /\ n \in Nat
  BY nRatingPositionsAssumption DEF P!Key, P!IInv, P!TypeOK, P!SameKeys, P!Index
<1>2. CASE part = "own"
  <2>1. P!Position(s, a, u) \in 1 .. Len(s) /\ s[P!Position(s, a, u)] = u
    BY <1>1, P!PositionFinds
  <2>2. QueryResult(part, u) = <<P!GetPosition(s, a, u)>>
    BY <1>2, SameQueries DEF QueryResult
  <2>3. P!KeysOf(<<P!GetPosition(s, a, u)>>) = {u}
    BY <2>1 DEF P!KeysOf, P!GetPosition, P!PositionedData
  <2>. QED  BY <2>2, <2>3, SameQueries DEF Lists
<1>3. CASE part = "head"
  <2>. DEFINE m == P!Min({n, Len(s)})
  <2>1. {n, Len(s)} \subseteq Nat /\ {n, Len(s)} # {}
    BY <1>1
  <2>2. m \in {n, Len(s)} /\ \A y \in {n, Len(s)} : m <= y
    BY <2>1, P!MinExists
  <2>3. m \in Int /\ m <= Len(s)
    BY <1>1, <2>2
  <2>. DEFINE ps == P!Positions(s, a, 1, m)
  <2>4. DOMAIN ps = 1 .. m /\ \A i \in 1 .. m : ps[i].key = s[i]
    <3>. HIDE DEF m, s
    <3>1. m - 1 + 1 = m /\ \A i \in 1 .. m : 1 + i - 1 = i
      BY <2>3
    <3>2. ps = [i \in 1 .. m |-> P!PositionedData(s, a, 1 + i - 1)]
      BY <3>1 DEF P!Positions
    <3>3. DOMAIN ps = 1 .. m
      BY <3>2, Zenon
    <3>4. \A i \in 1 .. m : ps[i] = P!PositionedData(s, a, i)
      BY <3>1, <3>2, Zenon
    <3>5. \A i : P!PositionedData(s, a, i).key = s[i]
      BY DEF P!PositionedData
    <3>. HIDE DEF ps
    <3>. QED  BY <3>3, <3>4, <3>5, Zenon
  <2>5. QueryResult(part, u) = ps
    BY <1>3, SameQueries DEF QueryResult, P!HeadPositions
  <2>6. \A i \in 1 .. m : s[i] \in DOMAIN a
    BY <1>1, <2>3
  <2>7. P!KeysOf(ps) \subseteq DOMAIN a
    BY <2>4, <2>6 DEF P!KeysOf
  <2>. QED  BY <2>5, <2>7, SameQueries DEF Lists
<1>4. CASE part = "high"
  <2>1. QueryResult(part, u) = P!HighPositions(s, a, u, n)
    BY <1>4, SameQueries DEF QueryResult
  <2>2. P!KeysOf(P!HighPositions(s, a, u, n)) = P!NearestAbove(u, n)
    BY <1>1, P!HighIsNearest
  <2>. QED  BY <1>1, <2>1, <2>2, SameQueries DEF Lists, P!NearestAbove, P!Above
<1>5. CASE part = "low"
  <2>1. QueryResult(part, u) = P!LowPositions(s, a, u, n)
    BY <1>5, SameQueries DEF QueryResult
  <2>2. P!KeysOf(P!LowPositions(s, a, u, n)) \subseteq P!NearestBelow(u, n)
    BY <1>1, P!FullLowIsNearest
  <2>. QED  BY <1>1, <2>1, <2>2, SameQueries DEF Lists, P!NearestBelow, P!Below
<1>. QED  BY <1>2, <1>3, <1>4, <1>5
-----------------------------------------------------------------------------
(* A message grows by what a query lists, which the store knows.           *)
LEMMA StepNamesRegistered ==
  ASSUME TypeOK, NamedUsersRegistered, Next
  PROVE  NamedUsersRegistered'
<1>. USE DEF TypeOK, NamedUsersRegistered
<1>1. ASSUME NEW w \in Worker, Dispatch(w) PROVE NamedUsersRegistered'
  <2>1. w \in Actor
    BY DEF Actor
  <2>2. CASE AddUser(w)
    BY <2>1, <2>2 DEF AddUser, Return
  <2>3. CASE RenameUser(w) \/ InsertDeal(w)
    BY <2>1, <2>3 DEF RenameUser, InsertDeal, Return
  <2>. QED
    BY <1>1, <2>2, <2>3 DEF Dispatch, UserRegistered, UserRenamed, UserDealWon,
                            UserConnected, UserDisconnected, Begin
<1>2. ASSUME NEW a \in Actor, SendUserRelativeRating(a) PROVE NamedUsersRegistered'
  <2>1. ASSUME NEW part, NEW next, Query(a, part, next) PROVE NamedUsersRegistered'
    <3>1. PICK u \in user[a] :
            \/ /\ Lists(part, u) \subseteq users
               /\ message' = [message EXCEPT ![a] = @ \cup Lists(part, u)]
               /\ UNCHANGED users
            \/ Throw(a)
      BY <2>1, QueryOutcomes
    <3>2. CASE Throw(a)
      BY <3>2 DEF Throw, Return
    <3>. QED  BY <3>1, <3>2
  <2>2. CASE SendToUser(a)
    BY <2>2 DEF SendToUser, Return
  <2>. QED
    BY <1>2, <2>1, <2>2
       DEF SendUserRelativeRating, GetUserPosition, GetHeadPositions, GetHighPositions,
           GetLowPositions, IsUserPresent, MakeZeroDeal, CheckStartTime,
           CheckEndTime, InsertZeroDeal
<1>3. CASE Round
  BY <1>3 DEF Round, TakeSnapshot, BeginPush, EndRound
<1>4. CASE Rotation
  BY <1>4 DEF Rotation, PeriodEnds, ClearTable, WriteStartTime, WriteEndTime
<1>. QED  BY <1>1, <1>2, <1>3, <1>4 DEF Next, Broadcast, Actor

IInv == TypeOK /\ P!IInv /\ NamedUsersRegistered

LEMMA InvariantInductive ==
  /\ Init => IInv
  /\ IInv /\ [Next]_vars => IInv'
<1>1. Init => IInv
  BY InitTypeOK, TableStays DEF Init, IInv, NamedUsersRegistered
<1>2. ASSUME IInv, Next PROVE IInv'
  BY <1>2, StepTypeOK, TableStays, StepNamesRegistered DEF IInv
<1>3. ASSUME IInv, UNCHANGED vars PROVE IInv'
  <2>1. TypeOK'
    BY <1>3 DEF IInv, TypeOK, vars
  <2>2. NamedUsersRegistered'
    BY <1>3 DEF IInv, NamedUsersRegistered, vars
  <2>3. UNCHANGED P!vars
    BY <1>3 DEF vars, table, P!vars
  <2>4. P!IInv'
    BY <1>3, <2>3, P!InvariantInductive, TableAssumptions DEF IInv
  <2>. QED  BY <2>1, <2>2, <2>4 DEF IInv
<1>. QED  BY <1>1, <1>2, <1>3

THEOREM InvariantHolds == Spec => []IInv
<1>. QED  BY InvariantInductive, PTL DEF Spec

(* The vector and the hash table hold the same users, in order, whatever   *)
(* workers, broadcaster and the end of a period do to them.                *)
THEOREM TableStaysWellFormed == Spec => []Container!TableWellFormed
<1>1. IInv => Container!TableWellFormed
  BY DEF IInv, P!IInv, Container!TableWellFormed, Container!SameKeys, P!SameKeys,
         Container!Sorted, P!Sorted, Container!Key, P!Key, Container!Index, P!Index
<1>. QED  BY <1>1, InvariantHolds, PTL

(* No message ever names a user that is not registered, whatever clients   *)
(* do in whatever order and however periods end.                           *)
THEOREM OnlyRegisteredAreNamed == Spec => []NamedUsersRegistered
<1>1. IInv => NamedUsersRegistered
  BY DEF IInv
<1>. QED  BY <1>1, InvariantHolds, PTL
-----------------------------------------------------------------------------
(* While clients are orderly and the period does not end, whoever is       *)
(* connected, served or in the table is registered, though others may      *)
(* register meanwhile, and who is asked about is in the table.             *)
RegisteredFirst ==
  /\ connectedUsers \subseteq users
  /\ snapshot \subseteq users
  /\ DOMAIN accessData \subseteq users
  /\ \A a \in Actor : at[a] \notin {"addUser", "renameUser"} => user[a] \subseteq users

(* A zero deal is not ignored on its way.                                  *)
ZeroDealsInWindow ==
  \A a \in Actor : at[a] \in {"checkStart", "checkEnd"} => stamp[a] = "in"

AskedArePresent == \A a \in Actor : at[a] \in Asking => user[a] \subseteq DOMAIN accessData

Quiet == environment.orderly /\ ~environment.rotating

QuietInv ==
  Quiet => window = "open" /\ RegisteredFirst /\ ZeroDealsInWindow /\ AskedArePresent

LEMMA QueriesSucceed ==
  ASSUME IInv, QuietInv, Quiet, NEW a \in Actor, at[a] \in Asking, NEW u \in user[a]
  PROVE  ~Fails(at[a], u)
<1>1. u \in DOMAIN accessData /\ DOMAIN accessData \subseteq users
  BY DEF QuietInv, AskedArePresent, RegisteredFirst
<1>2. Lists(at[a], u) \subseteq users
  BY <1>1, QueriesListTheTable DEF Asking, IInv
<1>3. ~MissesUser(at[a], u)
  BY <1>1 DEF MissesUser, Container!IsPresent
<1>. QED  BY <1>2, <1>3 DEF Fails, Lists

(* While the window stays open users only enter the table.                 *)
LEMMA TableGrows ==
  ASSUME TypeOK, Next, window = "open"
  PROVE  DOMAIN accessData \subseteq DOMAIN accessData'
<1>1. ASSUME NEW u \in User, NEW amount \in SortKey, InsertIntoTable(u, amount)
      PROVE  DOMAIN accessData \subseteq DOMAIN accessData'
  BY <1>1 DEF InsertIntoTable, Container!UpdateItem, Container!InsertItem,
              Container!UpdatedAccess, Container!InsertedAccess
<1>. QED  BY <1>1, TableSteps DEF table

LEMMA InsertAddsUser ==
  ASSUME NEW u, NEW amount, InsertIntoTable(u, amount)
  PROVE  DOMAIN accessData' = DOMAIN accessData \cup {u}
  BY DEF InsertIntoTable, Container!UpdateItem, Container!InsertItem,
         Container!UpdatedAccess, Container!InsertedAccess, Container!IsPresent

LEMMA StepQuiet ==
  ASSUME IInv, QuietInv, Next, Quiet
  PROVE  window' = "open" /\ RegisteredFirst' /\ ZeroDealsInWindow' /\ AskedArePresent'
<1>1. TypeOK /\ window = "open" /\ RegisteredFirst /\ ZeroDealsInWindow /\ AskedArePresent
  BY DEF IInv, QuietInv
<1>2. DOMAIN accessData \subseteq DOMAIN accessData'
  BY <1>1, TableGrows
<1>. DEFINE Goal == window' = "open" /\ RegisteredFirst' /\ ZeroDealsInWindow' /\ AskedArePresent'
<1>. USE DEF TypeOK, RegisteredFirst, ZeroDealsInWindow, AskedArePresent, Asking, Goto
<1>3. ASSUME NEW w \in Worker, Dispatch(w) PROVE Goal
  <2>. USE DEF Begin
  <2>1. w \in Actor /\ w # Broadcaster
    BY ActorAssumption DEF Actor
  <2>2. ASSUME NEW u \in User, UserRegistered(w, u) \/ UserRenamed(w, u) PROVE Goal
    BY <1>1, <2>1, <2>2 DEF UserRegistered, UserRenamed, table
  <2>3. ASSUME NEW u \in User, UserDealWon(w, u) \/ UserConnected(w, u) PROVE Goal
    <3>1. u \in users
      BY <2>3 DEF UserDealWon, UserConnected, MayServe, Quiet
    <3>. QED  BY <1>1, <2>1, <2>3, <3>1 DEF UserDealWon, UserConnected, table
  <2>4. ASSUME NEW u \in User, UserDisconnected(w, u) PROVE Goal
    BY <1>1, <2>1, <2>4 DEF UserDisconnected, table
  <2>5. CASE AddUser(w)
    BY <1>1, <2>1, <2>5 DEF AddUser, Return, table
  <2>6. CASE RenameUser(w)
    BY <1>1, <2>1, <2>6 DEF RenameUser, Return, table
  <2>7. CASE InsertDeal(w)
    <3>1. PICK u \in user[w] : DOMAIN accessData' = DOMAIN accessData \cup {u}
      BY <2>7, InsertAddsUser DEF InsertDeal
    <3>2. u \in users
      BY <1>1, <2>1, <2>7, <3>1 DEF InsertDeal
    <3>. QED  BY <1>1, <1>2, <2>1, <2>7, <3>1, <3>2 DEF InsertDeal, Return
  <2>. QED  BY <1>3, <2>2, <2>3, <2>4, <2>5, <2>6, <2>7 DEF Dispatch
<1>4. ASSUME NEW a \in Actor, SendUserRelativeRating(a) PROVE Goal
  <2>1. CASE IsUserPresent(a)
    BY <1>1, <2>1 DEF IsUserPresent, Container!IsPresent, table
  <2>2. CASE MakeZeroDeal(a)
    BY <1>1, <2>2 DEF MakeZeroDeal, table
  <2>3. CASE CheckStartTime(a)
    BY <1>1, <2>3 DEF CheckStartTime, table
  <2>4. CASE CheckEndTime(a)
    BY <1>1, <2>4 DEF CheckEndTime, table
  <2>5. CASE InsertZeroDeal(a)
    <3>1. PICK u \in user[a] : DOMAIN accessData' = DOMAIN accessData \cup {u}
      BY <2>5, InsertAddsUser DEF InsertZeroDeal
    <3>2. user[a] \subseteq DOMAIN accessData' /\ u \in users
      BY <1>1, <2>5, <3>1 DEF InsertZeroDeal
    <3>. QED  BY <1>1, <1>2, <2>5, <3>1, <3>2 DEF InsertZeroDeal
  <2>6. ASSUME NEW part \in Asking, NEW next \in Asking \cup {"send"}, Query(a, part, next)
        PROVE  Goal
    <3>1. PICK u \in user[a] :
            \/ /\ Goto(a, next)
               /\ UNCHANGED <<users, table, window, connectedUsers, snapshot, user, stamp, terminated>>
            \/ Throw(a)
      BY <2>6, QueryOutcomes
    <3>2. at[a] = part
      BY <2>6 DEF Query
    <3>3. CASE Throw(a)
      BY <1>1, <3>3 DEF Throw, Return, table
    <3>. QED  BY <1>1, <3>1, <3>2, <3>3 DEF table
  <2>7. CASE SendToUser(a)
    BY <1>1, <2>7 DEF SendToUser, Return, table
  <2>. QED
    BY <1>4, <2>1, <2>2, <2>3, <2>4, <2>5, <2>6, <2>7
       DEF SendUserRelativeRating, GetUserPosition, GetHeadPositions, GetHighPositions,
           GetLowPositions
<1>5. CASE Round
  <2>1. Broadcaster \in Actor
    BY DEF Actor
  <2>2. CASE TakeSnapshot
    BY <1>1, <2>1, <2>2 DEF TakeSnapshot, table
  <2>3. CASE BeginPush
    BY <1>1, <2>1, <2>3 DEF BeginPush, table
  <2>4. CASE EndRound
    BY <1>1, <2>1, <2>4 DEF EndRound, table
  <2>. QED  BY <1>5, <2>2, <2>3, <2>4 DEF Round
<1>6. ~Rotation
  BY <1>1 DEF Rotation, PeriodEnds, ClearTable, WriteStartTime, WriteEndTime, Quiet
<1>. QED  BY <1>3, <1>4, <1>5, <1>6 DEF Next, Broadcast, Actor

LEMMA QuietInductive ==
  /\ Init => QuietInv
  /\ IInv /\ QuietInv /\ [Next]_vars => QuietInv'
<1>1. Init => QuietInv
  <2>. SUFFICES ASSUME Init PROVE QuietInv
    OBVIOUS
  <2>1. \A a \in Actor : at[a] \in {"wait", "idle"} /\ user[a] = {}
    BY DEF Init
  <2>. QED
    BY <2>1 DEF Init, Container!Init, QuietInv, RegisteredFirst, ZeroDealsInWindow, AskedArePresent, Asking
<1>2. ASSUME IInv, QuietInv, Next PROVE QuietInv'
  <2>1. environment' = environment
    BY <1>2 DEF Next
  <2>. QED  BY <1>2, <2>1, StepQuiet DEF QuietInv, Quiet
<1>3. ASSUME QuietInv, UNCHANGED vars PROVE QuietInv'
  BY <1>3 DEF QuietInv, vars, table, Quiet, RegisteredFirst, ZeroDealsInWindow, AskedArePresent
<1>. QED  BY <1>1, <1>2, <1>3

(* A thread leaves a query by its own step only.                           *)
LEMMA OnlyQueriesAnswer ==
  ASSUME TypeOK, Next, NEW a \in Actor, at[a] \in Asking, at'[a] # at[a]
  PROVE  \E next \in Asking \cup {"send"} : Query(a, at[a], next)
<1>. USE DEF TypeOK, Goto, Asking
<1>1. ASSUME NEW w \in Worker, Dispatch(w) PROVE at'[a] = at[a]
  <2>1. w \in Actor
    BY DEF Actor
  <2>. QED
    BY <1>1, <2>1 DEF Dispatch, UserRegistered, UserRenamed, UserDealWon, UserConnected,
                      UserDisconnected, Begin, AddUser, RenameUser, InsertDeal, Return
<1>2. ASSUME NEW b \in Actor, SendUserRelativeRating(b)
      PROVE  \/ at'[a] = at[a]
             \/ \E next \in Asking \cup {"send"} : Query(a, at[a], next)
  <2>1. CASE \/ IsUserPresent(b) \/ MakeZeroDeal(b) \/ CheckStartTime(b) \/ CheckEndTime(b)
             \/ InsertZeroDeal(b) \/ SendToUser(b)
    BY <2>1 DEF IsUserPresent, MakeZeroDeal, CheckStartTime, CheckEndTime, InsertZeroDeal,
                SendToUser, Return
  <2>2. ASSUME NEW part \in Asking, NEW next \in Asking \cup {"send"}, Query(b, part, next)
        PROVE  \/ at'[a] = at[a]
               \/ \E n \in Asking \cup {"send"} : Query(a, at[a], n)
    <3>1. at[b] = part /\ (Goto(b, next) \/ Throw(b))
      BY <2>2 DEF Query
    <3>2. CASE b = a
      BY <2>2, <3>1, <3>2
    <3>3. CASE b # a
      BY <3>1, <3>3 DEF Throw, Return
    <3>. QED  BY <3>2, <3>3
  <2>. QED
    BY <1>2, <2>1, <2>2
       DEF SendUserRelativeRating, GetUserPosition, GetHeadPositions, GetHighPositions,
           GetLowPositions
<1>3. ASSUME Round \/ Rotation PROVE at'[a] = at[a]
  BY <1>3 DEF Round, TakeSnapshot, BeginPush, EndRound, Rotation, PeriodEnds, ClearTable,
              WriteStartTime, WriteEndTime
<1>. HIDE DEF TypeOK, Goto, Asking
<1>. QED  BY <1>1, <1>2, <1>3 DEF Next, Broadcast, Actor

(* With clients each of which registers its user first, and no end of      *)
(* period, a push fails only while a newcomer's registration changes the   *)
(* map of users that its query reads.                                      *)
THEOREM OrderlyPushesSucceed == Spec => PushesSucceed
<1>1. IInv /\ QuietInv /\ [Next]_vars =>
        [environment.orderly /\ ~environment.rotating =>
           \A a \in Actor : at[a] \in Asking /\ at'[a] \notin Asking \cup {"send"} =>
             UserStoreChanging]_vars
  <2>. SUFFICES ASSUME IInv, QuietInv, Next, Quiet, NEW a \in Actor,
                       at[a] \in Asking, at'[a] \notin Asking \cup {"send"}
                PROVE  UserStoreChanging
    BY DEF Quiet
  <2>1. PICK next \in Asking \cup {"send"} : Query(a, at[a], next)
    BY OnlyQueriesAnswer DEF IInv
  <2>2. PICK u \in user[a] : Goto(a, next) \/ Fails(at[a], u) \/ UserStoreChanging
    BY <2>1, QueryOutcomes
  <2>3. ~Fails(at[a], u)
    BY QueriesSucceed
  <2>4. ~Goto(a, next)
    BY DEF Goto, IInv, TypeOK
  <2>. QED  BY <2>2, <2>3, <2>4
<1>2. Spec => []QuietInv
  BY QuietInductive, InvariantHolds, PTL DEF Spec
<1>. QED  BY <1>1, <1>2, InvariantHolds, PTL DEF Spec, PushesSucceed
-----------------------------------------------------------------------------
(* A thread leaves "insertZero" by inserting the zero deal only.           *)
LEMMA OnlyInsertLeaves ==
  ASSUME TypeOK, Next, NEW a \in Actor, at[a] = "insertZero", at'[a] # "insertZero"
  PROVE  \E u \in User : InsertIntoTable(u, 0)
<1>. USE DEF TypeOK, Goto
<1>1. ASSUME NEW w \in Worker, Dispatch(w) PROVE at'[a] = at[a]
  <2>1. w \in Actor
    BY DEF Actor
  <2>. QED
    BY <1>1, <2>1 DEF Dispatch, UserRegistered, UserRenamed, UserDealWon, UserConnected,
                      UserDisconnected, Begin, AddUser, RenameUser, InsertDeal, Return
<1>2. ASSUME NEW b \in Actor, SendUserRelativeRating(b), ~InsertZeroDeal(b)
      PROVE  at'[a] = at[a]
  <2>1. CASE \/ IsUserPresent(b) \/ MakeZeroDeal(b) \/ CheckStartTime(b) \/ CheckEndTime(b)
             \/ SendToUser(b)
    BY <2>1 DEF IsUserPresent, MakeZeroDeal, CheckStartTime, CheckEndTime, SendToUser, Return
  <2>2. ASSUME NEW part \in Asking, NEW next, Query(b, part, next) PROVE at'[a] = at[a]
    <3>1. at[b] = part /\ (Goto(b, next) \/ Throw(b))
      BY <2>2 DEF Query
    <3>. QED  BY <3>1 DEF Throw, Return, Asking
  <2>. QED
    BY <1>2, <2>1, <2>2
       DEF SendUserRelativeRating, GetUserPosition, GetHeadPositions, GetHighPositions,
           GetLowPositions, Asking
<1>3. ASSUME Round \/ Rotation PROVE at'[a] = at[a]
  BY <1>3 DEF Round, TakeSnapshot, BeginPush, EndRound, Rotation, PeriodEnds, ClearTable,
              WriteStartTime, WriteEndTime
<1>4. at'[a] # at[a]
  OBVIOUS
<1>. HIDE DEF TypeOK, Goto
<1>5. ~Round /\ ~Rotation /\ \A w \in Worker : ~Dispatch(w)
  BY <1>1, <1>3, <1>4
<1>6. \E b \in Actor : SendUserRelativeRating(b)
  BY <1>5 DEF Next, Broadcast, Actor
<1>7. \E b \in Actor : InsertZeroDeal(b)
  BY <1>2, <1>4, <1>6
<1>. QED  BY <1>7 DEF InsertZeroDeal, TypeOK

(* Inserting an amount of zero moves nobody that is in the table: the      *)
(* container implements the leaderboard.                                   *)
LEMMA ZeroInsertHarmless ==
  ASSUME P!IInv, P!IInv', NEW u \in User, InsertIntoTable(u, 0)
  PROVE  /\ \A v \in DOMAIN accessData : v \in DOMAIN accessData' /\ accessData'[v] = accessData[v]
         /\ P!RankedAhead = P!RankedAhead' \cap ((DOMAIN accessData) \X (DOMAIN accessData))
<1>. USE TableAssumptions
<1>1. 0 \in SortKey
  BY SortKeyAssumption
<1>2. P!Board!Add(u, 0)
  <2>1. P!UpdateItem(u, 0) \/ P!InsertItem(u, 0)
    BY SameOperations DEF InsertIntoTable
  <2>2. P!UpdateItem(u, 0) => P!Board!Add(u, 0)
    BY <1>1, P!UpdateRefines
  <2>3. P!InsertItem(u, 0) => P!Board!Add(u, 0)
    BY <1>1, P!InsertRefines
  <2>. QED  BY <2>1, <2>2, <2>3
<1>. DEFINE a == accessData
            r == P!RankedAhead
            K == DOMAIN a
<1>3. /\ a' = [v \in K \cup {u} |-> IF v = u THEN P!Board!Total(u, 0) ELSE a[v]]
      /\ \A v, w \in K \ {u} : (<<v, w>> \in r') <=> (<<v, w>> \in r)
      /\ u \in K /\ a'[u] = a[u] => r' = r
  BY <1>2 DEF P!Board!Add, P!Board!Ranked
<1>4. r \subseteq K \X K
  BY P!RankedAheadIsIndexOrder DEF P!Key
<1>5. u \in K => a'[u] = a[u]
  <2>. SUFFICES ASSUME u \in K PROVE a'[u] = a[u]
    OBVIOUS
  <2>1. a[u] \in SortKey
    BY DEF P!IInv, P!TypeOK, P!Key
  <2>2. P!Board!Total(u, 0) = Modify(a[u], 0)
    BY DEF P!Board!Total, P!Board!Ranked
  <2>. QED  BY <1>1, <1>3, <2>1, <2>2, ModifyAssumption
<1>6. \A v \in K : v \in DOMAIN a' /\ a'[v] = a[v]
  BY <1>3, <1>5
<1>7. r = r' \cap (K \X K)
  <2>1. CASE u \in K
    BY <1>3, <1>4, <1>5, <2>1
  <2>2. CASE u \notin K
    <3>1. \A v, w \in K : (<<v, w>> \in r') <=> (<<v, w>> \in r)
      BY <1>3, <2>2
    <3>2. \A p \in K \X K : (p \in r') <=> (p \in r)
      BY <3>1
    <3>. QED  BY <1>4, <3>2, Zenon
  <2>. QED  BY <2>1, <2>2
<1>. QED  BY <1>6, <1>7

(* A push changes nobody's amount and nobody's place, also when it inserts *)
(* the zero deal for a user that has got a deal in the meantime.           *)
THEOREM PushesAreHarmless == Spec => ZeroDealIsHarmless
<1>1. ASSUME IInv, IInv', [Next]_vars, NEW a \in Actor,
             at[a] = "insertZero", at'[a] # "insertZero"
      PROVE  /\ \A u \in DOMAIN accessData :
                  u \in DOMAIN accessData' /\ accessData'[u] = accessData[u]
             /\ Container!RankedAhead =
                  Container!RankedAhead' \cap ((DOMAIN accessData) \X (DOMAIN accessData))
  <2>1. Next
    BY <1>1 DEF vars
  <2>2. PICK u \in User : InsertIntoTable(u, 0)
    BY <1>1, <2>1, OnlyInsertLeaves DEF IInv
  <2>3. Container!RankedAhead = P!RankedAhead /\ Container!RankedAhead' = P!RankedAhead'
    BY DEF Container!RankedAhead, P!RankedAhead, Container!Key, P!Key, Container!Index, P!Index
  <2>. QED  BY <1>1, <2>2, <2>3, ZeroInsertHarmless DEF IInv
<1>2. IInv /\ IInv' /\ [Next]_vars =>
        [\A a \in Actor : at[a] = "insertZero" /\ at'[a] # "insertZero" =>
           /\ \A u \in DOMAIN accessData :
                u \in DOMAIN accessData' /\ accessData'[u] = accessData[u]
           /\ Container!RankedAhead =
                Container!RankedAhead' \cap ((DOMAIN accessData) \X (DOMAIN accessData))]_vars
  BY <1>1, Zenon
<1>. QED  BY <1>2, InvariantHolds, PTL DEF Spec, ZeroDealIsHarmless

-----------------------------------------------------------------------------
(* The operations of the leaderboards of both instances are the same.      *)
LEMMA SameBoards ==
  /\ Container!RankedAhead = P!RankedAhead
  /\ Container!Board!Init <=> P!Board!Init
  /\ P!Board!Next => Container!Board!Next
<1>1. Container!RankedAhead = P!RankedAhead /\ Container!RankedAhead' = P!RankedAhead'
  BY DEF Container!RankedAhead, P!RankedAhead, Container!Key, P!Key, Container!Index, P!Index
<1>2. Container!Board!Init <=> P!Board!Init
  BY <1>1 DEF Container!Board!Init, P!Board!Init
<1>3. P!Board!Reset => Container!Board!Reset
  BY <1>1 DEF Container!Board!Reset, P!Board!Reset
<1>4. ASSUME NEW u \in User, NEW amount \in SortKey, P!Board!Add(u, amount)
      PROVE  Container!Board!Add(u, amount)
  BY <1>1, <1>4
     DEF Container!Board!Add, P!Board!Add, Container!Board!Total, P!Board!Total,
         Container!Board!Ranked, P!Board!Ranked, Container!Board!IsRanking, P!Board!IsRanking
<1>. QED  BY <1>1, <1>2, <1>3, <1>4 DEF Container!Board!Next, P!Board!Next

(* To its clients the service is one leaderboard: a step of any thread is  *)
(* an addition for one user, the end of a period, or touches no rating.    *)
THEOREM ServiceRefinesLeaderboard == Spec => Container!ImplementsLeaderboard
<1>. USE TableAssumptions
<1>1. Init => Container!Board!Init
  <2>. SUFFICES ASSUME Init PROVE Container!Board!Init
    OBVIOUS
  <2>1. Container!RankedAhead = {}
    BY DEF Init, Container!Init, Container!RankedAhead, Container!Key, Container!Index
  <2>. QED  BY <2>1 DEF Init, Container!Init, Container!Board!Init
<1>2. IInv /\ IInv' /\ [Next]_vars => [Container!Board!Next]_(Container!Board!vars)
  <2>. SUFFICES ASSUME IInv, IInv', [Next]_vars
                PROVE  Container!Board!Next \/ UNCHANGED Container!Board!vars
    OBVIOUS
  <2>1. ASSUME NEW u \in User, NEW amount \in SortKey, InsertIntoTable(u, amount)
        PROVE  Container!Board!Next
    <3>1. P!UpdateItem(u, amount) \/ P!InsertItem(u, amount)
      BY <2>1, SameOperations DEF InsertIntoTable
    <3>2. P!Board!Add(u, amount)
      BY <3>1, P!UpdateRefines, P!InsertRefines DEF IInv
    <3>. QED  BY <3>2, SameBoards DEF P!Board!Next
  <2>2. CASE Container!Clear
    <3>1. Container!RankedAhead' = {}
      BY <2>2 DEF Container!Clear, Container!RankedAhead, Container!Key, Container!Index
    <3>. QED  BY <2>2, <3>1 DEF Container!Clear, Container!Board!Next, Container!Board!Reset
  <2>3. CASE UNCHANGED table
    BY <2>3 DEF table, Container!Board!vars, Container!RankedAhead, Container!Key, Container!Index
  <2>4. CASE UNCHANGED vars
    BY <2>3, <2>4 DEF vars
  <2>. QED  BY <2>1, <2>2, <2>3, <2>4, TableSteps DEF IInv
<1>. QED
  BY <1>1, <1>2, InvariantHolds, PTL DEF Spec, Container!Board!Spec, Container!ImplementsLeaderboard

(* For the table a period is over, cleared and set anew in this order, and *)
(* no user leaves the table but in the second of these steps.              *)
THEOREM ServiceRefinesPeriod == Spec => ImplementsPeriod
<1>1. Init => Period!Init
  BY DEF Init, Container!Init, Period!Init
<1>2. IInv /\ IInv' /\ [Next]_vars => [Period!Next]_(Period!vars)
  <2>. SUFFICES ASSUME IInv, IInv', [Next]_vars
                PROVE  Period!Next \/ UNCHANGED Period!vars
    OBVIOUS
  <2>1. ASSUME NEW u \in User, NEW amount \in SortKey, InsertIntoTable(u, amount)
        PROVE  DOMAIN accessData' = DOMAIN accessData \cup {u}
    <3>1. P!UpdateItem(u, amount) \/ P!InsertItem(u, amount)
      BY <2>1, SameOperations DEF InsertIntoTable
    <3>2. P!Board!Add(u, amount)
      BY <3>1, P!UpdateRefines, P!InsertRefines, TableAssumptions DEF IInv
    <3>. QED  BY <3>2 DEF P!Board!Add, P!Board!Ranked
  <2>2. CASE Rotation
    <3>1. CASE ClearTable
      <4>1. DOMAIN accessData' = {}
        BY <3>1 DEF ClearTable, Container!Clear
      <4>. QED  BY <3>1, <4>1 DEF ClearTable, Period!Next, Period!ClearTable
    <3>2. CASE PeriodEnds \/ WriteStartTime \/ WriteEndTime
      BY <3>2 DEF PeriodEnds, WriteStartTime, WriteEndTime, table, Period!Next, Period!PeriodEnds,
                  Period!WriteStartTime, Period!WriteEndTime
    <3>. QED  BY <2>2, <3>1, <3>2 DEF Rotation
  <2>3. CASE /\ UNCHANGED window
             /\ \/ \E u \in User, amount \in SortKey : InsertIntoTable(u, amount)
                \/ UNCHANGED table
    <3>1. CASE UNCHANGED table
      BY <2>3, <3>1 DEF table, Period!vars
    <3>2. CASE \E u \in User, amount \in SortKey : InsertIntoTable(u, amount)
      <4>1. \E u \in User : DOMAIN accessData' = DOMAIN accessData \cup {u}
        BY <2>1, <3>2
      <4>. QED  BY <2>3, <4>1 DEF Period!Next, Period!Rate
    <3>. QED  BY <2>3, <3>1, <3>2
  <2>4. CASE UNCHANGED vars
    BY <2>4 DEF vars, table, Period!vars
  <2>. QED  BY <2>2, <2>3, <2>4, PeriodSteps DEF IInv
<1>. QED
  BY <1>1, <1>2, InvariantHolds, PTL DEF Spec, Period!Spec, ImplementsPeriod
=============================================================================
