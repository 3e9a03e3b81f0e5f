-------------------------------- MODULE MCRooms --------------------------------
(* Instances of RoomServer for TLC: the users, and which requests each of  *)
(* their clients makes in a run.                                           *)
EXTENDS RoomServer, TLC

CONSTANTS u1, u2

Users == {u1, u2}

\* u1 opens, rules and closes rooms; u2 opens rooms and joins those it finds.
HostAndGuest == u1 :> {"new_room", "ban_member", "del_room"} @@
                u2 :> {"new_room", "search_room", "join_room", "del_room"}

\* As above; u1 empties its rooms; u2 writes in them, and logs out and in again.
Visitors == u1 :> {"new_room", "ban_member", "del_room", "clear_room"} @@
            u2 :> {"new_room", "search_room", "join_room", "send_message", "del_room",
                   "log_out"}

\* u1 rules the only room, with its messages, and renames and describes it; u2 writes and
\* rewrites there, and logs out and in again.
Writers == u1 :> {"new_room", "ban_member", "del_room", "clear_room", "del_msg",
                  "edit_room_name", "edit_room_desc"} @@
           u2 :> {"search_room", "join_room", "send_message", "edit_message",
                  "del_msg", "new_messages", "log_out"}
===============================================================================
