-------------------------- MODULE MCRatingService --------------------------
(* Two users whose totals rise and tie at an upper end.  Clients that do   *)
(* anything in any order, with periods that end, and orderly clients with  *)
(* none, for what only these are promised.                                 *)
EXTENDS RatingService, FiniteSetsExt

MCSortKey == 0 .. 1
MCModify(old, delta) == Min({1, old + delta})

Rollover == [orderly |-> TRUE, rotating |-> TRUE]
Newcomer == [orderly |-> TRUE, rotating |-> FALSE]
Anything == [orderly |-> FALSE, rotating |-> TRUE]

MCEnvironments == {Anything, Newcomer}
MCRollover == {Rollover}
MCNewcomer == {Newcomer}
=============================================================================
