----------------------------- MODULE TimeHelper -----------------------------
(***************************************************************************)
(* core::TimeHelper (core/src/TimeHelper.cpp): the week day before a time. *)
(*                                                                         *)
(* A time point is a number of seconds since the epoch, not before it.     *)
(* std::tm is reduced to what the code uses of it: hours, minutes and      *)
(* seconds are the second of the day, year and month are the day the month *)
(* begins on.                                                              *)
(***************************************************************************)
EXTENDS Integers

CONSTANTS FirstOfMonth(_),   \* the calendar: the first day of a day's month
          Now                \* bound: what the clock may show

Day == 86400     \* 3600 * 24
Week == 604800   \* 7 * Day
WeekDay == 0 .. 6   \* Sunday is 0

ASSUME NowAssumption == Now \subseteq Nat
ASSUME FirstOfMonthAssumption == \A t \in Now : FirstOfMonth(t \div Day) \in Int

(* gmtime and timegm of the C library.  The epoch was a Thursday, and      *)
(* timegm takes a day of the month that is not in the month.               *)
gmtime(t) ==
  [month |-> FirstOfMonth(t \div Day),
   mday  |-> t \div Day - FirstOfMonth(t \div Day) + 1,
   wday  |-> (t \div Day + 4) % 7,
   time  |-> t % Day]

timegm(tm) == (tm.month + tm.mday - 1) * Day + tm.time

(* Slips the checks must catch: a negative shift is kept, or wraps short;  *)
(* the time of day is kept.                                                *)
ShiftDaysUnwrapped(wday, wd) == wday - wd
ShiftDaysShort(wday, wd) == IF wday - wd >= 0 THEN wday - wd ELSE wday - wd + 6
MidnightForgotten(tm, shift) == [tm EXCEPT !.mday = @ - shift]

(* The days since the week day, and the midnight that many days ago.       *)
ShiftDays(wday, wd) == IF wday - wd >= 0 THEN wday - wd ELSE wday - wd + 7

MidnightBefore(tm, shift) == [tm EXCEPT !.mday = @ - shift, !.time = 0]

getPreviousWeekDay(t, wd) ==
  LET tm == gmtime(t)
  IN  timegm(MidnightBefore(tm, ShiftDays(tm.wday, wd)))

getNextWeekDay(t, wd) == getPreviousWeekDay(t, wd) + 7 * Day
=============================================================================
