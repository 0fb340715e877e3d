------------------------- MODULE UserRatingProvider -------------------------
(***************************************************************************)
(* tempstore::UserRatingProvider: the rating period and the thread that    *)
(* moves it (tempstore/src/UserRatingProvider.cpp).  The watcher thread    *)
(* sleeps until endTime_, clears the table under storeMutex_ and then      *)
(* moves startTime_ and endTime_ without it; addDeal reads the two without *)
(* the mutex and then inserts under it.  Threads of the transport and the  *)
(* broadcaster call addDeal, so every read, every write and every critical *)
(* section is a step of its own.                                           *)
(*                                                                         *)
(* The clock shows the instants of Now, in order, and may leave some out.  *)
(* The table is the set of the deals it counts: the totals and their order *)
(* are the subject of MultiKeyVolatileContainer.                           *)
(***************************************************************************)
EXTENDS TimeHelper

CONSTANTS Deal,            \* the calls of addDeal
          Timestamp,       \* what a client may have put into a deal
          startPeriodDay   \* the week day the period begins on

ASSUME TimestampAssumption == Timestamp \subseteq Int
ASSUME StartPeriodDayAssumption == startPeriodDay \in WeekDay

(* periodDuration_, as the one caller of the constructor sets it.          *)
periodDuration == 7 * 24 * 3600

VARIABLES now,            \* std::chrono::system_clock
          startTime,      \* startTime_
          endTime,        \* endTime_
          watcher,        \* where the watcher thread is
          stopRequested,  \* the stop token of the watcher thread
          call,           \* where each call of addDeal is
          timestamp,      \* the timestamp of its deal
          board           \* the deals counted since the table was cleared

vars == <<now, startTime, endTime, watcher, stopRequested,
          call, timestamp, board>>

clockVars  == <<now, stopRequested>>
periodVars == <<startTime, endTime, watcher>>
dealVars   == <<call, timestamp>>

(* The constructor: updatePeriod(getPreviousWeekDay(now)), no thread yet.  *)
Init ==
  /\ now \in Now
  /\ startTime = getPreviousWeekDay(now, startPeriodDay)
  /\ endTime = startTime + periodDuration
  /\ watcher = "wait"
  /\ stopRequested = FALSE
  /\ call = [d \in Deal |-> "idle"]
  /\ timestamp \in [Deal -> Timestamp]
  /\ board = {}

-----------------------------------------------------------------------------
(* The world around: time passes, the destructor of the jthread asks it to *)
(* stop.                                                                   *)
Tick ==
  /\ \E t \in Now : t > now /\ now' = t
  /\ UNCHANGED <<stopRequested, periodVars, dealVars, board>>

RequestStop ==
  /\ ~stopRequested
  /\ stopRequested' = TRUE
  /\ UNCHANGED <<now, periodVars, dealVars, board>>

-----------------------------------------------------------------------------
(* The watcher thread.                                                     *)

(* A slip the checks must catch: a wait that ends for any reason is taken  *)
(* for the timeout.                                                        *)
PeriodOverAnyTime ==
  /\ watcher = "wait"
  /\ ~stopRequested
  /\ watcher' = "clear"
  /\ UNCHANGED <<clockVars, startTime, endTime, dealVars, board>>

(* try_acquire_until(endTime_) timed out and no stop is requested.         *)
PeriodOver ==
  /\ watcher = "wait"
  /\ now >= endTime
  /\ ~stopRequested
  /\ watcher' = "clear"
  /\ UNCHANGED <<clockVars, startTime, endTime, dealVars, board>>

(* A slip: without the stop callback the thread sleeps until the timeout.  *)
WatcherStopsAtTimeout ==
  /\ watcher = "wait"
  /\ stopRequested
  /\ now >= endTime
  /\ watcher' = "done"
  /\ UNCHANGED <<clockVars, startTime, endTime, dealVars, board>>

(* The stop callback released the semaphore, or the token was set by the   *)
(* time the thread looked: it leaves its loop.                             *)
WatcherStops ==
  /\ watcher = "wait"
  /\ stopRequested
  /\ watcher' = "done"
  /\ UNCHANGED <<clockVars, startTime, endTime, dealVars, board>>

(* sortedDealContainer_.clear() under storeMutex_.                         *)
ClearTable ==
  /\ watcher = "clear"
  /\ board' = {}
  /\ watcher' = "writeStart"
  /\ UNCHANGED <<clockVars, startTime, endTime, dealVars>>

(* A slip: the new period begins when the thread has woken up.             *)
WriteStartTimeNow ==
  /\ watcher = "writeStart"
  /\ startTime' = now
  /\ watcher' = "writeEnd"
  /\ UNCHANGED <<clockVars, endTime, dealVars, board>>

(* updatePeriod(endTime_): two plain writes that other threads see one     *)
(* after the other.  Its argument is a reference to endTime_, which the    *)
(* second write reads once more, and then changes.                         *)
WriteStartTime ==
  /\ watcher = "writeStart"
  /\ startTime' = endTime
  /\ watcher' = "writeEnd"
  /\ UNCHANGED <<clockVars, endTime, dealVars, board>>

(* A slip: the period that has just begun is counted from the clock.       *)
WriteEndTimeFromNow ==
  /\ watcher = "writeEnd"
  /\ endTime' = now + periodDuration
  /\ watcher' = "loop"
  /\ UNCHANGED <<clockVars, startTime, dealVars, board>>

WriteEndTime ==
  /\ watcher = "writeEnd"
  /\ endTime' = endTime + periodDuration
  /\ watcher' = "loop"
  /\ UNCHANGED <<clockVars, startTime, dealVars, board>>

(* Slips: the table is cleared once more after the update; the thread      *)
(* leaves after its first rotation.                                        *)
PeriodUpdatedThenCleared ==
  /\ watcher = "loop"
  /\ watcher' = IF stopRequested THEN "done" ELSE "wait"
  /\ board' = {}
  /\ UNCHANGED <<clockVars, startTime, endTime, dealVars>>

PeriodUpdatedOnce ==
  /\ watcher = "loop"
  /\ watcher' = "done"
  /\ UNCHANGED <<clockVars, startTime, endTime, dealVars, board>>

(* The head of the loop: while (!st.stop_requested()).                     *)
PeriodUpdated ==
  /\ watcher = "loop"
  /\ watcher' = IF stopRequested THEN "done" ELSE "wait"
  /\ UNCHANGED <<clockVars, startTime, endTime, dealVars, board>>

Watcher ==
  \/ PeriodOver \/ WatcherStops \/ ClearTable
  \/ WriteStartTime \/ WriteEndTime \/ PeriodUpdated

-----------------------------------------------------------------------------
(* addDeal.                                                                *)
CallAddDeal(d) ==
  /\ call[d] = "idle"
  /\ call' = [call EXCEPT ![d] = "readStart"]
  /\ UNCHANGED <<clockVars, periodVars, timestamp, board>>

(* A slip: the start of the window is taken to be outside it.              *)
CheckStartTimeExclusive(d) ==
  /\ call[d] = "readStart"
  /\ call' = [call EXCEPT ![d] = IF timestamp[d] <= startTime
                                   THEN "ignored" ELSE "readEnd"]
  /\ UNCHANGED <<clockVars, periodVars, timestamp, board>>

CheckStartTime(d) ==
  /\ call[d] = "readStart"
  /\ call' = [call EXCEPT ![d] = IF timestamp[d] < startTime
                                   THEN "ignored" ELSE "readEnd"]
  /\ UNCHANGED <<clockVars, periodVars, timestamp, board>>

(* A slip: the end of the window is taken to be inside it.                 *)
CheckEndTimeInclusive(d) ==
  /\ call[d] = "readEnd"
  /\ call' = [call EXCEPT ![d] = IF timestamp[d] > endTime
                                   THEN "ignored" ELSE "insert"]
  /\ UNCHANGED <<clockVars, periodVars, timestamp, board>>

CheckEndTime(d) ==
  /\ call[d] = "readEnd"
  /\ call' = [call EXCEPT ![d] = IF timestamp[d] >= endTime
                                   THEN "ignored" ELSE "insert"]
  /\ UNCHANGED <<clockVars, periodVars, timestamp, board>>

(* sortedDealContainer_.insert under storeMutex_.                          *)
InsertDeal(d) ==
  /\ call[d] = "insert"
  /\ call' = [call EXCEPT ![d] = "counted"]
  /\ board' = board \cup {d}
  /\ UNCHANGED <<clockVars, periodVars, timestamp>>

AddDeal(d) ==
  CallAddDeal(d) \/ CheckStartTime(d) \/ CheckEndTime(d) \/ InsertDeal(d)

Next ==
  \/ Tick
  \/ RequestStop
  \/ Watcher
  \/ \E d \in Deal : AddDeal(d)

(* The watcher thread is scheduled; callers, the clock and the destructor  *)
(* promise nothing.                                                        *)
Spec == Init /\ [][Next]_vars /\ WF_vars(Watcher)

-----------------------------------------------------------------------------
TypeOK ==
  /\ now \in Now
  /\ startTime \in Int
  /\ endTime \in Int
  /\ watcher \in {"wait", "clear", "writeStart", "writeEnd", "loop", "done"}
  /\ stopRequested \in BOOLEAN
  /\ call \in [Deal -> {"idle", "readStart", "readEnd", "insert", "counted", "ignored"}]
  /\ timestamp \in [Deal -> Timestamp]
  /\ board \subseteq Deal

(* The periods of the calendar, said without TimeHelper: one began on the  *)
(* midnight of startPeriodDay in the week of the epoch, a Thursday, and    *)
(* all others whole weeks before or after it.                              *)
SincePeriodBegan(t) == (t - (startPeriodDay - 4) * Day) % Week
IsOver(t) == t < now - SincePeriodBegan(now)

(* Between two updates the window is one of those periods: rotations never *)
(* drift, however late the thread wakes.  While the two writes are under   *)
(* way a reader can see an empty window, and nothing else.                 *)
WindowAligned ==
  /\ SincePeriodBegan(startTime) = 0
  /\ endTime = IF watcher = "writeEnd" THEN startTime ELSE startTime + Week

(* The window is never moved ahead of the clock: the watcher starts a      *)
(* period only when it has begun.                                          *)
WindowHasBegun == startTime <= now

(* A service that has kept running and one that is started anew agree: the *)
(* window that the watcher has reached by adding periods, once it has      *)
(* caught up with the clock, is the one that TimeHelper computes from the  *)
(* clock.                                                                  *)
AgreesWithRestarted ==
  now < endTime =>
    /\ startTime = getPreviousWeekDay(now, startPeriodDay)
    /\ endTime = getNextWeekDay(now, startPeriodDay)

(* Together: the window is one of the calendar's, the current or an        *)
(* earlier one, as the constructor computes it over the end of a month,    *)
(* and as the watcher moves it, whenever and however often.                *)
WindowCurrent == WindowAligned /\ WindowHasBegun /\ AgreesWithRestarted

(* No counted deal is later than the window: a timestamp from the future   *)
(* is never rated early, whatever a caller read before a rotation.         *)
NoFutureDeals == \A d \in board : timestamp[d] < endTime

(* Clearing the table drops no deal of the week the clock is in, so no     *)
(* deal counted for the new period is lost when the old one is cleared.    *)
CurrentDealsKept ==
  [][\A d \in board \ board' : IsOver(timestamp[d])]_vars

(* A deal is ignored when it is of another week, later than the clock, or  *)
(* made while the end of the period is over and the watcher has not moved  *)
(* it yet; never because of what a call read of a half-moved window.       *)
IgnoredForAReason ==
  [][\A d \in Deal :
       call[d] # "ignored" /\ call'[d] = "ignored" =>
         IsOver(timestamp[d]) \/ timestamp[d] > now \/ endTime <= now]_vars

(* The window catches up with the clock unless the provider is destroyed,  *)
(* also when the thread overslept several periods.                         *)
CatchesUp ==
  \A t \in Now : now >= t ~> endTime > t \/ stopRequested

(* The destructor's join returns.                                          *)
StopCompletes == stopRequested ~> watcher = "done"

(* What the Readme says of the table (Readme.md:7): it rates deals of the  *)
(* limited period only.  So none is counted that is older than the window, *)
(* when the update of the window is over and the watcher waits again.      *)
OnlyDealsOfThePeriod ==
  [][watcher = "wait" => \A d \in board' \ board : timestamp[d] >= startTime]_vars

-----------------------------------------------------------------------------
(* The phase the period is in for a caller that looks at the clock.        *)
window ==
  CASE now < endTime          -> "open"
    [] watcher = "writeStart" -> "cleared"
    [] watcher = "writeEnd"   -> "started"
    [] OTHER                  -> "over"

PeriodSeen == INSTANCE RatingPeriod WITH Rated <- Deal, rated <- board

(* RatingService may take the period for the four phases that its calls    *)
(* can tell: the thread goes round them in order, whatever the clock does. *)
ImplementsPeriod == PeriodSeen!Spec
=============================================================================
