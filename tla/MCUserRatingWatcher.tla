------------------------ MODULE MCUserRatingWatcher ------------------------
(* Three users over two threads: a user can leave while another is served, *)
(* and come back in the same round.                                        *)
EXTENDS UserRatingWatcher
=============================================================================
