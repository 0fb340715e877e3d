---------------------------- MODULE MCTestClient ----------------------------
(* One user, for whom nobody is notified, and five, the fewest for whom    *)
(* somebody is; two ratings whose lists differ in length and members.      *)
EXTENDS TestClient

MCUser(id, position) == UserPosition(UserInformation(id, UserName(id)), position, 3 - position)
MCRatings ==
  {UserRelativeRating(MCUser(1, 1), <<MCUser(0, 0), MCUser(1, 1)>>, <<MCUser(0, 0)>>, <<>>),
   UserRelativeRating(MCUser(0, 0), <<MCUser(0, 0)>>, <<>>, <<MCUser(1, 1), MCUser(2, 2)>>)}
=============================================================================
