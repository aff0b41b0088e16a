----------------------------- MODULE MCDiscovery -----------------------------
(* Two relays and a malformed one; the user goes back to the second relay     *)
(* alone.  One operator announces two origins: twice the first (1 and 2,      *)
(* equally old, with different domains), once the second (3); 4 is newer and  *)
(* invalid.  Both relays store the backup record x.  The frame of 2 hides its *)
(* id, so that it may come twice.                                             *)
EXTENDS Discovery
MCChoices == {{"r1", "r2"}, {"r2"}, {"r2", "bad"}}
MCOpened == {{"r1", "r2"}, {"r2", "bad"}}
MCAuthor == [c1 |-> "p", c2 |-> "p"]
MCCoord == <<"c1", "c1", "c2", "c1">>
MCCreatedAt == <<5, 5, 5, 9>>
MCAnnounces == <<{"d1"}, {"d2"}, {"d2"}, {"d2"}>>
MCStored == [r1 |-> {1, 3, 4}, r2 |-> {2}, bad |-> {}]
MCBackups == [r1 |-> {"x"}, r2 |-> {"x"}, bad |-> {}]
MCOwner == [x |-> "p"]
=============================================================================
