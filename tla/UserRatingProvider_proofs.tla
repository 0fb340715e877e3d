---------------------- MODULE UserRatingProvider_proofs ----------------------
(***************************************************************************)
(* The rating window is the calendar's: the one computed at any moment     *)
(* after the epoch is the week that holds the moment, and the watcher      *)
(* moves it by whole weeks, never ahead of the clock.  It admits no deal   *)
(* later than itself, for any number of concurrent callers, any week day   *)
(* and any timestamps.                                                     *)
(*                                                                         *)
(* Leaves with the seconds of a day or of a week in them name SMT: Zenon   *)
(* writes a number as that many successors of zero.                        *)
(***************************************************************************)
EXTENDS UserRatingProvider, TLAPS

(* Once the watcher has left its wait, and until startTime_ is written,    *)
(* the end it waited for is in the past.                                   *)
RotationIsDue == watcher \in {"clear", "writeStart"} => endTime <= now

(* A caller about to insert has compared its deal with an end of the       *)
(* window, and the end only grows.                                         *)
CheckedDeals == \A d \in Deal : call[d] = "insert" => timestamp[d] < endTime

IInv ==
  /\ TypeOK
  /\ WindowAligned
  /\ WindowHasBegun
  /\ RotationIsDue
  /\ CheckedDeals
  /\ NoFutureDeals

-----------------------------------------------------------------------------
(* The calendar.                                                           *)

(* Going ShiftDays back from a day reaches the week day within a week.     *)
LEMMA ShiftDaysReachesWeekDay ==
  ASSUME NEW day \in Nat, NEW wd \in WeekDay
  PROVE  /\ ShiftDays((day + 4) % 7, wd) \in 0 .. 6
         /\ (day - ShiftDays((day + 4) % 7, wd) + 4) % 7 = wd
<1>1. (day + 4) % 7 \in 0 .. 6 /\ wd \in 0 .. 6
  BY DEF WeekDay
<1>2. CASE ((day + 4) % 7) - wd >= 0
  <2>1. ShiftDays((day + 4) % 7, wd) = ((day + 4) % 7) - wd
    BY <1>2 DEF ShiftDays
  <2>. QED  BY <1>1, <1>2, <2>1, SMTT(30)
<1>3. CASE ~(((day + 4) % 7) - wd >= 0)
  <2>1. ShiftDays((day + 4) % 7, wd) = ((day + 4) % 7) - wd + 7
    BY <1>3 DEF ShiftDays
  <2>. QED  BY <1>1, <1>3, <2>1, SMTT(30)
<1>. QED  BY <1>2, <1>3

(* gmtime takes a time apart into a day and a second of the day.           *)
Today(t) == t \div Day
TimeOfDay(t) == t % Day

LEMMA DayAndTime ==
  ASSUME NEW t \in Now
  PROVE  /\ t \in Nat /\ Today(t) \in Nat /\ TimeOfDay(t) \in Nat
         /\ TimeOfDay(t) < 86400
         /\ t = Today(t) * 86400 + TimeOfDay(t)
<1>1. t \in Nat
  BY NowAssumption, SMT
<1>2. Today(t) = t \div 86400 /\ TimeOfDay(t) = t % 86400
  BY SMT DEF Today, TimeOfDay, Day
<1>. QED  BY <1>1, <1>2, SMT

LEMMA BrokenDown ==
  ASSUME NEW t \in Now
  PROVE  /\ FirstOfMonth(Today(t)) \in Int
         /\ gmtime(t) = [month |-> FirstOfMonth(Today(t)),
                         mday |-> Today(t) - FirstOfMonth(Today(t)) + 1,
                         wday |-> (Today(t) + 4) % 7,
                         time |-> TimeOfDay(t)]
  BY FirstOfMonthAssumption, SMT DEF gmtime, Today, TimeOfDay

(* Over the end of a month too, timegm undoes gmtime but for the days the  *)
(* code subtracts and the time of day it clears.                           *)
LEMMA MidnightDaysAgo ==
  ASSUME NEW today \in Nat, NEW first \in Int, NEW shift \in Int, NEW tm,
         tm.month = first, tm.mday = today - first + 1,
         DOMAIN tm = {"month", "mday", "wday", "time"},
         tm = [x \in DOMAIN tm |-> tm[x]]
  PROVE  timegm(MidnightBefore(tm, shift)) = (today - shift) * 86400
<1>1. /\ MidnightBefore(tm, shift).month = first
      /\ MidnightBefore(tm, shift).mday = today - first + 1 - shift
      /\ MidnightBefore(tm, shift).time = 0
  BY SMT DEF MidnightBefore
<1>2. timegm(MidnightBefore(tm, shift)) =
        (first + (today - first + 1 - shift) - 1) * 86400 + 0
  BY <1>1, SMT DEF timegm, Day
<1>. QED  BY <1>2, SMT

(* The midnight getPreviousWeekDay goes back to, in days since the epoch.  *)
LEMMA PreviousWeekDay ==
  ASSUME NEW t \in Now, NEW wd \in WeekDay
  PROVE  \E day \in Int :
           /\ (day + 4) % 7 = wd
           /\ getPreviousWeekDay(t, wd) = day * 86400
           /\ day * 86400 <= t /\ t < day * 86400 + 7 * 86400
<1>. DEFINE n == ShiftDays((Today(t) + 4) % 7, wd)
<1>1. n \in 0 .. 6 /\ (Today(t) - n + 4) % 7 = wd
  BY DayAndTime, ShiftDaysReachesWeekDay, SMT
<1>2. gmtime(t).wday = (Today(t) + 4) % 7
  BY BrokenDown, SMT
<1>. HIDE DEF n
<1>3. getPreviousWeekDay(t, wd) = (Today(t) - n) * 86400
  <2>1. timegm(MidnightBefore(gmtime(t), n)) = (Today(t) - n) * 86400
    BY <1>1, DayAndTime, BrokenDown, MidnightDaysAgo, SMT
  <2>. QED  BY <1>2, <2>1, SMT DEF getPreviousWeekDay, n
<1>4. /\ Today(t) - n \in Int
      /\ (Today(t) - n) * 86400 <= t
      /\ t < (Today(t) - n) * 86400 + 7 * 86400
  BY <1>1, DayAndTime, SMT
<1>. QED
  BY <1>1, <1>3, <1>4, SMT

-----------------------------------------------------------------------------
(* The periods of the calendar.                                            *)
LEMMA PeriodIsAWeek == periodDuration = Week /\ Week \in Int /\ Week > 0
  BY SMT DEF periodDuration, Week

LEMMA SinceIsLessThanAWeek ==
  ASSUME NEW t \in Int
  PROVE  SincePeriodBegan(t) \in Int /\ 0 <= SincePeriodBegan(t) /\ SincePeriodBegan(t) < Week
<1>1. startPeriodDay \in Int
  BY StartPeriodDayAssumption, SMT DEF WeekDay
<1>2. t - (startPeriodDay - 4) * 86400 \in Int
  BY <1>1, SMT
<1>. QED  BY <1>2, SMT DEF SincePeriodBegan, Day, Week

LEMMA NextPeriod ==
  ASSUME NEW s \in Int, SincePeriodBegan(s) = 0
  PROVE  SincePeriodBegan(s + Week) = 0
<1>1. startPeriodDay \in Int
  BY StartPeriodDayAssumption, SMT DEF WeekDay
<1>. DEFINE x == s - (startPeriodDay - 4) * 86400
<1>2. x \in Int /\ x % 604800 = 0
  BY <1>1, SMT DEF SincePeriodBegan, Day, Week
<1>3. (s + 604800) - (startPeriodDay - 4) * 86400 = x + 604800
  BY <1>1, SMT
<1>. HIDE DEF x
<1>4. (x + 604800) % 604800 = 0
  BY <1>2, SMT
<1>. QED  BY <1>3, <1>4, SMT DEF SincePeriodBegan, Day, Week

(* Of two times, the period of the later one does not begin before that of *)
(* the earlier; and no two periods overlap.                                *)
LEMMA PeriodsInOrder ==
  ASSUME NEW s \in Int, NEW t \in Int, SincePeriodBegan(s) = 0, s <= t
  PROVE  /\ s <= t - SincePeriodBegan(t)
         /\ t < s + Week => s = t - SincePeriodBegan(t)
<1>1. startPeriodDay \in Int
  BY StartPeriodDayAssumption, SMT DEF WeekDay
<1>. DEFINE x == s - (startPeriodDay - 4) * 86400
            y == t - (startPeriodDay - 4) * 86400
<1>2. x \in Int /\ y \in Int /\ y - x = t - s /\ x <= y
  BY <1>1, SMT
<1>3. x % 604800 = 0 /\ SincePeriodBegan(t) = y % 604800
  BY SMT DEF SincePeriodBegan, Day, Week
<1>. HIDE DEF x, y
<1>4. x <= y - (y % 604800) /\ (y < x + 604800 => x = y - (y % 604800))
  BY <1>2, <1>3, SMT
<1>. QED  BY <1>2, <1>3, <1>4, SMT DEF Week

(* What the constructor computes is the period that holds the time.        *)
LEMMA ComputedPeriod ==
  ASSUME NEW t \in Now
  PROVE  /\ getPreviousWeekDay(t, startPeriodDay) = t - SincePeriodBegan(t)
         /\ getNextWeekDay(t, startPeriodDay) = t - SincePeriodBegan(t) + Week
         /\ SincePeriodBegan(t - SincePeriodBegan(t)) = 0
<1>1. PICK day \in Int :
        /\ (day + 4) % 7 = startPeriodDay
        /\ getPreviousWeekDay(t, startPeriodDay) = day * 86400
        /\ day * 86400 <= t /\ t < day * 86400 + 7 * 86400
  BY PreviousWeekDay, StartPeriodDayAssumption, SMT
<1>2. startPeriodDay \in Int /\ t \in Int
  BY NowAssumption, StartPeriodDayAssumption, SMT DEF WeekDay
<1>3. SincePeriodBegan(day * 86400) = 0
  <2>1. (day - startPeriodDay + 4) % 7 = 0
    BY <1>1, <1>2, SMT
  <2>2. day * 86400 - (startPeriodDay - 4) * 86400 = (day - startPeriodDay + 4) * 86400
    BY <1>2, SMT
  <2>3. PICK k \in Int : day - startPeriodDay + 4 = 7 * k
    BY <1>2, <2>1, SMT
  <2>4. day * 86400 - (startPeriodDay - 4) * 86400 = 604800 * k
    BY <2>2, <2>3, SMT
  <2>. QED  BY <2>4, SMT DEF SincePeriodBegan, Day, Week
<1>4. day * 86400 \in Int /\ t < day * 86400 + Week
  BY <1>1, SMT DEF Week
<1>5. day * 86400 = t - SincePeriodBegan(t)
  BY <1>1, <1>2, <1>3, <1>4, PeriodsInOrder, SMT
<1>6. getNextWeekDay(t, startPeriodDay) = day * 86400 + Week
  BY <1>1, SMT DEF getNextWeekDay, Day, Week
<1>. QED  BY <1>1, <1>3, <1>5, <1>6, SMT

-----------------------------------------------------------------------------
LEMMA ClockIsInt == ASSUME TypeOK PROVE now \in Int /\ \A d \in Deal : timestamp[d] \in Int
<1>1. now \in Int
  BY NowAssumption DEF TypeOK
<1>2. ASSUME NEW d \in Deal PROVE timestamp[d] \in Int
  <2>1. timestamp[d] \in Timestamp
    BY DEF TypeOK
  <2>. QED  BY <2>1, TimestampAssumption
<1>. QED  BY <1>1, <1>2

LEMMA InitInvariant == Init => IInv
<1>. SUFFICES ASSUME Init PROVE IInv
  OBVIOUS
<1>1. now \in Now /\ now \in Int
  BY NowAssumption DEF Init
<1>2. /\ startTime = now - SincePeriodBegan(now) /\ endTime = startTime + Week
      /\ SincePeriodBegan(startTime) = 0
  BY <1>1, ComputedPeriod, PeriodIsAWeek DEF Init
<1>3. startTime \in Int /\ endTime \in Int /\ startTime <= now
  BY <1>1, <1>2, SinceIsLessThanAWeek, PeriodIsAWeek
<1>4. TypeOK
  <2>1. stopRequested \in BOOLEAN
    BY DEF Init
  <2>. QED  BY <1>1, <1>3, <2>1 DEF Init, TypeOK
<1>5. WindowAligned /\ WindowHasBegun
  BY <1>2, <1>3 DEF Init, WindowAligned, WindowHasBegun
<1>6. RotationIsDue /\ CheckedDeals /\ NoFutureDeals
  BY DEF Init, RotationIsDue, CheckedDeals, NoFutureDeals
<1>. QED
  BY <1>4, <1>5, <1>6 DEF IInv

(* Steps that leave the window and the clock alone.                        *)
LEMMA WindowUntouched ==
  ASSUME IInv, TypeOK', UNCHANGED <<now, startTime, endTime>>,
         watcher' = "writeEnd" <=> watcher = "writeEnd"
  PROVE  WindowAligned' /\ WindowHasBegun'
  BY DEF IInv, WindowAligned, WindowHasBegun, SincePeriodBegan

LEMMA NextInvariant == IInv /\ [Next]_vars => IInv'
<1>. SUFFICES ASSUME IInv, [Next]_vars PROVE IInv'
  OBVIOUS
<1>. USE DEF clockVars, periodVars, dealVars
<1>0. /\ now \in Int /\ startTime \in Int /\ endTime \in Int
      /\ \A d \in Deal : timestamp[d] \in Int
  BY ClockIsInt DEF IInv, TypeOK
<1>1. CASE Tick
  <2>1. /\ now' \in Now /\ now' > now
        /\ UNCHANGED <<startTime, endTime, watcher, stopRequested, call, timestamp, board>>
    BY <1>1 DEF Tick
  <2>2. now' \in Int
    BY <2>1, NowAssumption
  <2>3. TypeOK'
    BY <2>1 DEF IInv, TypeOK
  <2>4. WindowAligned'
    BY <2>1 DEF IInv, WindowAligned, SincePeriodBegan
  <2>5. WindowHasBegun'
    BY <1>0, <2>1, <2>2 DEF IInv, WindowHasBegun
  <2>6. RotationIsDue'
    BY <1>0, <2>1, <2>2 DEF IInv, RotationIsDue
  <2>7. CheckedDeals' /\ NoFutureDeals'
    BY <2>1 DEF IInv, TypeOK, CheckedDeals, NoFutureDeals
  <2>. QED  BY <2>3, <2>4, <2>5, <2>6, <2>7 DEF IInv
<1>2. CASE RequestStop
  <2>1. TypeOK'
    BY <1>2 DEF RequestStop, IInv, TypeOK
  <2>2. RotationIsDue' /\ CheckedDeals' /\ NoFutureDeals'
    BY <1>2 DEF RequestStop, IInv, TypeOK, RotationIsDue, CheckedDeals, NoFutureDeals
  <2>. QED  BY <1>2, <2>1, <2>2, WindowUntouched DEF IInv, RequestStop
<1>3. CASE PeriodOver
  <2>1. TypeOK'
    BY <1>3 DEF PeriodOver, IInv, TypeOK
  <2>2. RotationIsDue' /\ CheckedDeals' /\ NoFutureDeals'
    BY <1>3 DEF PeriodOver, IInv, TypeOK, RotationIsDue, CheckedDeals, NoFutureDeals
  <2>. QED  BY <1>3, <2>1, <2>2, WindowUntouched DEF IInv, PeriodOver
<1>4. CASE WatcherStops
  <2>1. TypeOK'
    BY <1>4 DEF WatcherStops, IInv, TypeOK
  <2>2. RotationIsDue' /\ CheckedDeals' /\ NoFutureDeals'
    BY <1>4 DEF WatcherStops, IInv, TypeOK, RotationIsDue, CheckedDeals, NoFutureDeals
  <2>. QED  BY <1>4, <2>1, <2>2, WindowUntouched DEF IInv, WatcherStops
<1>5. CASE ClearTable
  <2>1. TypeOK'
    BY <1>5 DEF ClearTable, IInv, TypeOK
  <2>2. RotationIsDue' /\ CheckedDeals' /\ NoFutureDeals'
    BY <1>5 DEF ClearTable, IInv, TypeOK, RotationIsDue, CheckedDeals, NoFutureDeals
  <2>. QED  BY <1>5, <2>1, <2>2, WindowUntouched DEF IInv, ClearTable
<1>6. CASE WriteStartTime
  <2>1. endTime = startTime + Week /\ endTime <= now /\ startTime' = endTime
    BY <1>6 DEF WriteStartTime, IInv, WindowAligned, RotationIsDue
  <2>2. TypeOK'
    BY <1>6 DEF WriteStartTime, IInv, TypeOK
  <2>3. WindowAligned'
    <3>1. SincePeriodBegan(endTime) = 0
      BY <1>0, <2>1, NextPeriod DEF IInv, WindowAligned
    <3>. QED  BY <1>6, <2>1, <3>1 DEF WriteStartTime, WindowAligned, SincePeriodBegan
  <2>4. WindowHasBegun'
    BY <1>6, <2>1 DEF WriteStartTime, WindowHasBegun
  <2>5. RotationIsDue' /\ CheckedDeals' /\ NoFutureDeals'
    BY <1>6 DEF WriteStartTime, IInv, TypeOK, RotationIsDue, CheckedDeals, NoFutureDeals
  <2>. QED  BY <2>2, <2>3, <2>4, <2>5 DEF IInv
<1>7. CASE WriteEndTime
  <2>1. endTime = startTime /\ endTime' = endTime + Week /\ UNCHANGED startTime
    BY <1>7, PeriodIsAWeek DEF WriteEndTime, IInv, WindowAligned
  <2>2. endTime' \in Int /\ endTime < endTime'
    BY <1>0, <2>1, PeriodIsAWeek
  <2>3. TypeOK'
    BY <1>7, <2>2 DEF WriteEndTime, IInv, TypeOK
  <2>4. WindowAligned' /\ WindowHasBegun'
    BY <1>7, <2>1 DEF WriteEndTime, IInv, WindowAligned, WindowHasBegun, SincePeriodBegan
  <2>5. RotationIsDue'
    BY <1>7 DEF WriteEndTime, RotationIsDue
  <2>6. CheckedDeals' /\ NoFutureDeals'
    <3>1. \A d \in Deal : timestamp[d] < endTime => timestamp[d] < endTime'
      BY <1>0, <2>2
    <3>2. UNCHANGED <<call, timestamp, board>> /\ board \subseteq Deal
      BY <1>7 DEF WriteEndTime, IInv, TypeOK
    <3>. QED  BY <3>1, <3>2 DEF IInv, CheckedDeals, NoFutureDeals
  <2>. QED  BY <2>3, <2>4, <2>5, <2>6 DEF IInv
<1>8. CASE PeriodUpdated
  <2>1. TypeOK'
    BY <1>8 DEF PeriodUpdated, IInv, TypeOK
  <2>2. RotationIsDue' /\ CheckedDeals' /\ NoFutureDeals'
    BY <1>8 DEF PeriodUpdated, IInv, TypeOK, RotationIsDue, CheckedDeals, NoFutureDeals
  <2>. QED  BY <1>8, <2>1, <2>2, WindowUntouched DEF IInv, PeriodUpdated
<1>9. ASSUME NEW d \in Deal, AddDeal(d) PROVE IInv'
  <2>1. UNCHANGED <<now, startTime, endTime, watcher, stopRequested, timestamp>>
    BY <1>9 DEF AddDeal, CallAddDeal, CheckStartTime, CheckEndTime, InsertDeal
  <2>2. TypeOK'
    BY <1>9, <2>1 DEF AddDeal, CallAddDeal, CheckStartTime, CheckEndTime,
                      InsertDeal, IInv, TypeOK
  <2>3. RotationIsDue'
    BY <2>1 DEF IInv, RotationIsDue
  <2>4. CheckedDeals'
    <3>1. timestamp[d] \in Int /\ endTime \in Int
      BY <1>0
    <3>2. call'[d] = "insert" => timestamp[d] < endTime
      BY <1>9, <3>1 DEF AddDeal, CallAddDeal, CheckStartTime, CheckEndTime,
                        InsertDeal, IInv, TypeOK
    <3>3. \A e \in Deal \ {d} : call'[e] = call[e]
      BY <1>9 DEF AddDeal, CallAddDeal, CheckStartTime, CheckEndTime,
                  InsertDeal, IInv, TypeOK
    <3>. QED  BY <2>1, <3>2, <3>3 DEF IInv, CheckedDeals
  <2>5. NoFutureDeals'
    <3>1. CASE InsertDeal(d)
      BY <2>1, <3>1 DEF InsertDeal, IInv, TypeOK, CheckedDeals, NoFutureDeals
    <3>2. CASE UNCHANGED board
      BY <2>1, <3>2 DEF IInv, NoFutureDeals
    <3>. QED
      BY <1>9, <3>1, <3>2 DEF AddDeal, CallAddDeal, CheckStartTime, CheckEndTime
  <2>. QED  BY <2>1, <2>2, <2>3, <2>4, <2>5, WindowUntouched DEF IInv
<1>10. CASE UNCHANGED vars
  <2>1. TypeOK'
    BY <1>10 DEF vars, IInv, TypeOK
  <2>2. RotationIsDue' /\ CheckedDeals' /\ NoFutureDeals'
    BY <1>10 DEF vars, IInv, RotationIsDue, CheckedDeals, NoFutureDeals
  <2>. QED  BY <1>10, <2>1, <2>2, WindowUntouched DEF IInv, vars
<1>. QED
  BY <1>1, <1>2, <1>3, <1>4, <1>5, <1>6, <1>7, <1>8, <1>9, <1>10 DEF Next, Watcher

(* The inductive invariant holds in every reachable state.                 *)
THEOREM InvariantHolds == Spec => []IInv
<1>. QED
  BY InitInvariant, NextInvariant, PTL DEF Spec

(* Type correctness of the provider.                                       *)
THEOREM TypeCorrect == Spec => []TypeOK
<1>1. IInv => TypeOK
  BY DEF IInv
<1>. QED
  BY <1>1, InvariantHolds, PTL

(* The window is a week of the calendar, but for the state a reader can    *)
(* meet while updatePeriod writes; the watcher never opens it before the   *)
(* clock reaches it; and once it has caught up, a process started now      *)
(* would compute the same.                                                 *)
THEOREM WindowStaysCurrent == Spec => []WindowCurrent
<1>1. IInv => WindowCurrent
  <2>. SUFFICES ASSUME IInv, now < endTime PROVE AgreesWithRestarted
    BY DEF IInv, WindowCurrent, AgreesWithRestarted
  <2>1. now \in Now /\ now \in Int /\ startTime \in Int /\ startTime <= now
    BY ClockIsInt DEF IInv, TypeOK, WindowHasBegun
  <2>2. endTime = startTime + Week /\ SincePeriodBegan(startTime) = 0
    BY <2>1 DEF IInv, WindowAligned
  <2>3. startTime = now - SincePeriodBegan(now)
    BY <2>1, <2>2, PeriodsInOrder
  <2>. QED  BY <2>1, <2>2, <2>3, ComputedPeriod DEF AgreesWithRestarted
<1>. QED  BY <1>1, InvariantHolds, PTL

(* No interleaving of callers and rotations counts a deal later than the   *)
(* window.                                                                 *)
THEOREM FutureDealsRefused == Spec => []NoFutureDeals
<1>1. IInv => NoFutureDeals
  BY DEF IInv
<1>. QED
  BY <1>1, InvariantHolds, PTL

(* Clearing the table drops only deals of weeks that are over.             *)
THEOREM ClearDropsOldDealsOnly == Spec => CurrentDealsKept
<1>1. IInv /\ [Next]_vars => [\A d \in board \ board' : IsOver(timestamp[d])]_vars
  <2>. SUFFICES ASSUME IInv, Next, NEW d \in board \ board'
                PROVE  IsOver(timestamp[d])
    OBVIOUS
  <2>1. ClearTable
    BY DEF Next, Watcher, AddDeal, Tick, RequestStop, PeriodOver, WatcherStops,
           WriteStartTime, WriteEndTime, PeriodUpdated, CallAddDeal,
           CheckStartTime, CheckEndTime, InsertDeal
  <2>2. endTime = startTime + Week /\ endTime <= now
    BY <2>1 DEF ClearTable, IInv, RotationIsDue, WindowAligned
  <2>3. /\ now \in Int /\ startTime \in Int /\ endTime \in Int /\ timestamp[d] \in Int
        /\ SincePeriodBegan(now) \in Int
    BY ClockIsInt, SinceIsLessThanAWeek DEF IInv, TypeOK
  <2>4. SincePeriodBegan(endTime) = 0
    BY <2>2, <2>3, NextPeriod DEF IInv, WindowAligned
  <2>5. endTime <= now - SincePeriodBegan(now)
    BY <2>2, <2>3, <2>4, PeriodsInOrder
  <2>6. timestamp[d] < endTime
    BY DEF IInv, NoFutureDeals
  <2>. QED  BY <2>3, <2>5, <2>6 DEF IsOver
<1>. QED
  BY <1>1, InvariantHolds, PTL DEF Spec, CurrentDealsKept

(* A deal is ignored because its week is over, because it is from the      *)
(* future, or while the window has yet to follow the clock.                *)
THEOREM DealsIgnoredForAReason == Spec => IgnoredForAReason
<1>. DEFINE Reason(d) == IsOver(timestamp[d]) \/ timestamp[d] > now \/ endTime <= now
<1>1. IInv /\ [Next]_vars =>
        [\A d \in Deal : call[d] # "ignored" /\ call'[d] = "ignored" => Reason(d)]_vars
  <2>. SUFFICES ASSUME IInv, Next, NEW d \in Deal,
                       call[d] # "ignored", call'[d] = "ignored"
                PROVE  Reason(d)
    OBVIOUS
  <2>0. /\ call \in [Deal -> {"idle", "readStart", "readEnd", "insert", "counted", "ignored"}]
        /\ timestamp[d] \in Int /\ startTime \in Int /\ endTime \in Int /\ now \in Int
    <3>1. call \in [Deal -> {"idle", "readStart", "readEnd", "insert", "counted", "ignored"}]
      BY DEF IInv, TypeOK
    <3>2. /\ timestamp[d] \in Int /\ startTime \in Int /\ endTime \in Int /\ now \in Int
      BY ClockIsInt DEF IInv, TypeOK
    <3>. QED  BY <3>1, <3>2
  <2>1. CheckStartTime(d) \/ CheckEndTime(d)
    <3>1. PICK e \in Deal : AddDeal(e)
      BY DEF Next, Watcher, Tick, RequestStop, PeriodOver, WatcherStops, ClearTable,
             WriteStartTime, WriteEndTime, PeriodUpdated, dealVars
    <3>2. e = d
      BY <2>0, <3>1 DEF AddDeal, CallAddDeal, CheckStartTime, CheckEndTime, InsertDeal
    <3>. QED
      BY <2>0, <3>1, <3>2 DEF AddDeal, CallAddDeal, InsertDeal
  <2>2. CASE CheckStartTime(d)
    <3>1. timestamp[d] < startTime
      BY <2>0, <2>2 DEF CheckStartTime
    <3>2. startTime <= now - SincePeriodBegan(now)
      BY <2>0, PeriodsInOrder DEF IInv, WindowAligned, WindowHasBegun
    <3>3. SincePeriodBegan(now) \in Int
      BY <2>0, SinceIsLessThanAWeek
    <3>. QED  BY <2>0, <3>1, <3>2, <3>3 DEF IsOver
  <2>3. CASE CheckEndTime(d)
    <3>1. timestamp[d] >= endTime
      BY <2>0, <2>3 DEF CheckEndTime
    <3>. QED  BY <2>0, <3>1
  <2>. QED  BY <2>1, <2>2, <2>3
<1>. QED
  BY <1>1, InvariantHolds, PTL DEF Spec, IgnoredForAReason

-----------------------------------------------------------------------------
(* The thread goes round the four phases in order, drops deals on the way  *)
(* from over to cleared only, and may oversleep whole periods.             *)
THEOREM ProviderRefinesPeriod == Spec => ImplementsPeriod
<1>1. Init => PeriodSeen!Init
  <2>. SUFFICES ASSUME Init PROVE now < endTime
    BY DEF Init, PeriodSeen!Init, window
  <2>1. now \in Now /\ now \in Int
    BY NowAssumption DEF Init
  <2>2. endTime = now - SincePeriodBegan(now) + Week
    BY <2>1, ComputedPeriod, PeriodIsAWeek DEF Init
  <2>. QED  BY <2>1, <2>2, SinceIsLessThanAWeek, PeriodIsAWeek
<1>2. IInv /\ [Next]_vars => [PeriodSeen!Next]_(PeriodSeen!vars)
  <2>. SUFFICES ASSUME IInv, [Next]_vars
                PROVE  PeriodSeen!Next \/ UNCHANGED <<window, board>>
    BY DEF PeriodSeen!vars
  <2>1. /\ now \in Int /\ startTime \in Int /\ endTime \in Int
        /\ watcher \in {"clear", "writeStart", "writeEnd"} => endTime <= now
    <3>1. now \in Int /\ startTime \in Int /\ endTime \in Int
      BY ClockIsInt DEF IInv, TypeOK
    <3>2. watcher = "writeEnd" => endTime <= now
      BY DEF IInv, WindowAligned, WindowHasBegun
    <3>. QED  BY <3>1, <3>2 DEF IInv, RotationIsDue
  <2>2. CASE Tick
    <3>1. /\ now' \in Int /\ now' > now /\ UNCHANGED <<endTime, watcher, board>>
      BY <2>2, NowAssumption DEF Tick, periodVars
    <3>2. CASE window = "open" /\ window' # "open"
      <4>1. now < endTime
        BY <3>2 DEF window
      <4>2. watcher \notin {"writeStart", "writeEnd"}
        BY <2>1, <4>1
      <4>3. window' = "over"
        BY <3>1, <3>2, <4>2 DEF window
      <4>. QED  BY <3>1, <3>2, <4>3 DEF PeriodSeen!Next, PeriodSeen!PeriodEnds
    <3>3. CASE window # "open" \/ window' = "open"
      BY <2>1, <3>1, <3>3 DEF window
    <3>. QED  BY <3>2, <3>3
  <2>3. CASE ClearTable
    <3>1. endTime <= now /\ watcher = "clear"
      BY <2>1, <2>3 DEF ClearTable
    <3>2. /\ now' = now /\ endTime' = endTime /\ watcher' = "writeStart" /\ board' = {}
      BY <2>3 DEF ClearTable, clockVars
    <3>3. window = "over" /\ window' = "cleared"
      BY <2>1, <3>1, <3>2 DEF window
    <3>. QED  BY <3>2, <3>3 DEF PeriodSeen!Next, PeriodSeen!ClearTable
  <2>4. CASE WriteStartTime
    <3>1. endTime <= now /\ watcher = "writeStart" /\ ~(now < endTime)
      BY <2>1, <2>4 DEF WriteStartTime
    <3>2. now' = now /\ endTime' = endTime /\ watcher' = "writeEnd" /\ board' = board
      BY <2>4 DEF WriteStartTime, clockVars
    <3>3. window = "cleared" /\ window' = "started"
      BY <3>1, <3>2 DEF window
    <3>. QED  BY <3>2, <3>3 DEF PeriodSeen!Next, PeriodSeen!WriteStartTime
  <2>5. CASE WriteEndTime
    <3>1. endTime <= now /\ watcher = "writeEnd" /\ ~(now < endTime)
      BY <2>1, <2>5 DEF WriteEndTime
    <3>2. watcher' = "loop" /\ board' = board
      BY <2>5 DEF WriteEndTime
    <3>3. window = "started" /\ window' \in {"open", "over"}
      BY <3>1, <3>2 DEF window
    <3>. QED  BY <3>2, <3>3 DEF PeriodSeen!Next, PeriodSeen!WriteEndTime
  <2>6. CASE RequestStop \/ PeriodOver \/ WatcherStops \/ PeriodUpdated
    <3>1. /\ now' = now /\ endTime' = endTime /\ board' = board
          /\ \/ watcher' = watcher
             \/ watcher \notin {"writeStart", "writeEnd"} /\ watcher' \notin {"writeStart", "writeEnd"}
      BY <2>6 DEF RequestStop, PeriodOver, WatcherStops, PeriodUpdated, clockVars, periodVars
    <3>. QED  BY <3>1 DEF window
  <2>7. ASSUME NEW d \in Deal, AddDeal(d)
        PROVE  PeriodSeen!Next \/ UNCHANGED <<window, board>>
    <3>1. now' = now /\ endTime' = endTime /\ watcher' = watcher
      BY <2>7 DEF AddDeal, CallAddDeal, CheckStartTime, CheckEndTime, InsertDeal, clockVars,
                  periodVars
    <3>2. window' = window
      BY <3>1 DEF window
    <3>3. board' = board \cup {d} \/ board' = board
      BY <2>7 DEF AddDeal, CallAddDeal, CheckStartTime, CheckEndTime, InsertDeal
    <3>. QED  BY <3>2, <3>3 DEF PeriodSeen!Next, PeriodSeen!Rate
  <2>8. CASE UNCHANGED vars
    BY <2>8 DEF vars, window
  <2>. QED  BY <2>2, <2>3, <2>4, <2>5, <2>6, <2>7, <2>8 DEF Next, Watcher
<1>. QED
  BY <1>1, <1>2, InvariantHolds, PTL DEF Spec, PeriodSeen!Spec, ImplementsPeriod
=============================================================================
