----------------------- MODULE MCUserRatingProvider -----------------------
(* Two calls of addDeal, and the first, a middle and the last second of    *)
(* three weeks of 1972: a call can be overtaken by one rotation or by two. *)
(* The first week has a 29 February and the first of March in it.          *)
EXTENDS UserRatingProvider, FiniteSetsExt

(* Days since the epoch: 1 February and 1 March 1972.                      *)
MCMonthBegin == {761, 790}
MCFirstOfMonth(day) == Max({m \in MCMonthBegin : m <= day})

(* Mondays 28 February, 6 and 13 March, and the Sundays before two.        *)
MCNow == {788 * Day, 790 * Day + 40000, 795 * Day - 1,
          795 * Day, 798 * Day + 40000, 802 * Day - 1, 802 * Day}

MCTimestamp == {788 * Day - 1, 788 * Day, 795 * Day - 1,
                795 * Day, 802 * Day - 1, 802 * Day}
=============================================================================
