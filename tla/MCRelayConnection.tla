-------------------------- MODULE MCRelayConnection --------------------------
(* One relay, the query for announcements and one for counts, which the events
   do not match.  The frame of one event is padded, so that no id is found.    *)
EXTENDS RelayConnection
MCAccepts == [announcements |-> {"ann", "padded"}, counts |-> {}]
MCFrames ==
    [type : {"EOSE"}, sub : {"counts"}]
    \cup [type : {"CLOSED"}, sub : {"announcements"}]
    \cup [type : {"EVENT"}, sub : {"announcements"}, event : {"ann"}, ids : {{"ann"}}]
    \cup [type : {"EVENT"}, sub : {"announcements"}, event : {"padded"}, ids : {{}}]
    \cup [type : {"EMPTY", "BINARY"}]
=============================================================================
