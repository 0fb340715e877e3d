---------------------------- MODULE RatingPeriod ----------------------------
(***************************************************************************)
(* What others can tell of a rating period that a thread moves: its window *)
(* is "open" until the clock passes its end, then "over" until the table   *)
(* is cleared, then "cleared" until its start is moved, then "started"     *)
(* until its end is, which the clock may have passed as well.  The table   *)
(* loses nothing at any other time, and gains at any time: who adds to it  *)
(* has looked at the window before.                                        *)
(***************************************************************************)
CONSTANT Rated    \* what the table may hold: deals, or the users that have any

VARIABLES window, rated

vars == <<window, rated>>

Init ==
  /\ window = "open"
  /\ rated = {}

Rate(x) ==
  /\ rated' = rated \cup {x}
  /\ UNCHANGED window

PeriodEnds ==
  /\ window = "open"
  /\ window' = "over"
  /\ UNCHANGED rated

ClearTable ==
  /\ window = "over"
  /\ window' = "cleared"
  /\ rated' = {}

WriteStartTime ==
  /\ window = "cleared"
  /\ window' = "started"
  /\ UNCHANGED rated

WriteEndTime ==
  /\ window = "started"
  /\ window' \in {"open", "over"}
  /\ UNCHANGED rated

Next == PeriodEnds \/ ClearTable \/ WriteStartTime \/ WriteEndTime
        \/ \E x \in Rated : Rate(x)

Spec == Init /\ [][Next]_vars
=============================================================================
