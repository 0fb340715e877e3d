-------------------- MODULE MCMultiKeyVolatileContainer --------------------
(* Four users and amounts that can rise, fall, tie and stay.               *)
EXTENDS MultiKeyVolatileContainer

MCSortKey == -1 .. 2

(* Addition that stays within the amounts, as adding floats does at the    *)
(* ends of their range.                                                    *)
MCModify(old, delta) == Max({-1, Min({2, old + delta})})
=============================================================================
