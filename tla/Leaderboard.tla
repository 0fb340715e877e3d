---------------------------- MODULE Leaderboard ----------------------------
(***************************************************************************)
(* What the sorted container promises, without its vector or its hash      *)
(* table: every user that has a total is ranked, a better total is ranked  *)
(* ahead, adding to one user's total moves nobody else, and of equal       *)
(* totals the one reached last is ranked ahead.                            *)
(*                                                                         *)
(*   total   a partial function from users to totals                       *)
(*   ahead   the pairs <<v, w>> such that v is ranked ahead of w           *)
(***************************************************************************)
EXTENDS Integers

CONSTANTS User, Amount, Merge(_, _)

VARIABLES total, ahead

vars == <<total, ahead>>

Ranked == DOMAIN total

(* r ranks the users of t: any two of them one way round, best first.      *)
IsRanking(t, r) ==
  \A v, w \in DOMAIN t :
    /\ (<<v, w>> \in r) <=> (v # w /\ <<w, v>> \notin r)
    /\ <<v, w>> \in r => t[v] >= t[w]

Init ==
  /\ total = [u \in {} |-> 0]
  /\ ahead = {}

Total(u, amount) == IF u \in Ranked THEN Merge(total[u], amount) ELSE amount

(* One user's total changes.  The last conjunct settles the ties.          *)
Add(u, amount) ==
  /\ total' = [v \in Ranked \cup {u} |-> IF v = u THEN Total(u, amount) ELSE total[v]]
  /\ ahead' \in SUBSET ((Ranked \cup {u}) \X (Ranked \cup {u}))
  /\ IsRanking(total', ahead')
  /\ \A v, w \in Ranked \ {u} : (<<v, w>> \in ahead') <=> (<<v, w>> \in ahead)
  /\ IF u \in Ranked /\ total'[u] = total[u]
       THEN ahead' = ahead
       ELSE \A v \in Ranked \ {u} : total[v] = total'[u] => <<u, v>> \in ahead'

(* The end of a rating period.                                             *)
Reset ==
  /\ total' = [u \in {} |-> 0]
  /\ ahead' = {}

Next ==
  \/ \E u \in User, amount \in Amount : Add(u, amount)
  \/ Reset

Spec == Init /\ [][Next]_vars
=============================================================================
