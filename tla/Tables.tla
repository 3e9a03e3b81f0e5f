-------------------------------- MODULE Tables --------------------------------
(***************************************************************************)
(* The SQLite tables of the chat server and the statements it runs on them *)
(* (server/src/db and the look-ups of server/src/api/api_utils.c), as      *)
(* operators.  A table is a set of rows; every row has a field id, its     *)
(* SQLite rowid.  ROOMS and MESSAGES declare the rowid as their primary    *)
(* key, MEMBERS has only the implicit one.  A SELECT without ORDER BY on   *)
(* these tables scans them by rowid, so "the first row" is the least id.   *)
(***************************************************************************)
EXTENDS Integers, FiniteSets, FiniteSetsExt

Ids(table) == {row.id : row \in table}

\* The key SQLite gives a new row: one more than the largest key in use (the
\* tables are created without AUTOINCREMENT), so the key of a deleted last row
\* is given again.
NewId(table) == IF table = {} THEN 1 ELSE Max(Ids(table)) + 1

\* The row that the first sqlite3_step() of a SELECT returns.
Oldest(rows) == {row \in rows : \A other \in rows : row.id <= other.id}
FirstRow(rows) == CHOOSE row \in Oldest(rows) : TRUE

-------------------------------------------------------------------------------
(* MEMBERS: [id, room, user, perm].  The table has no key over room and    *)
(* user.  Only the order of the rows of one user in one room is ever read  *)
(* from their rowids, and they are deleted together: id is that order.     *)

Permission == {"ordinary", "banned"}

MemberRows(members, u, r) == {m \in members : m.user = u /\ m.room = r}

IsMember(members, u, r) == MemberRows(members, u, r) # {}

\* (Slip: the newest row decides.)
MemberTypeNewest(members, u, r) ==
  IF IsMember(members, u, r)
    THEN (CHOOSE m \in MemberRows(members, u, r) :
            \A n \in MemberRows(members, u, r) : n.id <= m.id).perm
    ELSE "none"

\* The permission of the first matching row; "none" is the code's -1.
MemberType(members, u, r) ==
  IF IsMember(members, u, r) THEN FirstRow(MemberRows(members, u, r)).perm
                             ELSE "none"

\* (Slip: a stranger, who is not banned either, passes.)
IsNotBanned(members, u, r) == MemberType(members, u, r) # "banned"

\* is_valid_member: a member, and not banned by its first row.
IsValidMember(members, u, r) ==
  /\ MemberType(members, u, r) # "banned"
  /\ IsMember(members, u, r)

\* The users of any row that is not banned: those a broadcast is for.
MembersList(members, r) ==
  {m.user : m \in {row \in members : row.room = r /\ row.perm # "banned"}}

\* (Slip: DB_ADMIN is written.)
AddAdmin(members, u, r) ==
  members \cup {[id |-> NewId(MemberRows(members, u, r)), room |-> r, user |-> u,
                 perm |-> "admin"]}

AddMember(members, u, r) ==
  members \cup {[id |-> NewId(MemberRows(members, u, r)), room |-> r, user |-> u,
                 perm |-> "ordinary"]}

\* (Slips: a WHERE clause without the room, or with the two parameters bound the wrong
\* way round.)
EditInAllRooms(members, r, u, type) ==
  {IF m.user = u THEN [m EXCEPT !.perm = type] ELSE m : m \in members}

EditSwapped(members, r, u, type) ==
  {IF m.room = u /\ m.user = r THEN [m EXCEPT !.perm = type] ELSE m : m \in members}

\* UPDATE ... WHERE room_id and user_id: every matching row.
EditMemberType(members, r, u, type) ==
  {IF m.room = r /\ m.user = u THEN [m EXCEPT !.perm = type] ELSE m : m \in members}

-------------------------------------------------------------------------------
(* ROOMS: [id, owner, date, name, desc].                                   *)

InsertRoom(rooms, u, date, name, desc) ==
  rooms \cup {[id |-> NewId(rooms), owner |-> u, date |-> date,
               name |-> name, desc |-> desc]}

\* SELECT ID FROM ROOMS WHERE DATE = ?1, read once.
RoomIdByDate(rooms, date) == FirstRow({r \in rooms : r.date = date}).id

RoomExists(rooms, r) == r \in Ids(rooms)

RoomById(rooms, r) == CHOOSE room \in rooms : room.id = r

RenameRoom(rooms, r, name) ==
  {IF room.id = r THEN [room EXCEPT !.name = name] ELSE room : room \in rooms}

DescribeRoom(rooms, r, desc) ==
  {IF room.id = r THEN [room EXCEPT !.desc = desc] ELSE room : room \in rooms}

\* The rooms a user is listed in by a row that is not banned.
RoomsOf(rooms, members, u) == {r \in rooms : u \in MembersList(members, r.id)}

\* The rooms of that name in which the user has no row at all.  A name stands
\* for the names that one search prefix matches.
SearchRooms(rooms, members, u, name) ==
  {r \in rooms : r.name = name /\ ~IsMember(members, u, r.id)}

-------------------------------------------------------------------------------
(* MESSAGES: [id, room, user, date, text].                                 *)

InsertMessage(messages, u, r, date, text) ==
  messages \cup {[id |-> NewId(messages), room |-> r, user |-> u,
                  date |-> date, text |-> text]}

\* SELECT MESSAGE_ID ... WHERE ROOM_ID and DATE, read once.
MessageIdByDate(messages, r, date) ==
  FirstRow({m \in messages : m.room = r /\ m.date = date}).id

IsMessageOwner(messages, u, msg) == \E m \in messages : m.id = msg /\ m.user = u

DeleteMessage(messages, msg) == {m \in messages : m.id # msg}

EditMessage(messages, msg, text) ==
  {IF m.id = msg THEN [m EXCEPT !.text = text] ELSE m : m \in messages}

-------------------------------------------------------------------------------
\* (Slip: one row is deleted.)
WithoutOneOf(table, r) ==
  table \ {row \in table : row.room = r /\ row = FirstRow({x \in table : x.room = r})}

\* What delete_room_by_id and delete_all_msgs leave of MEMBERS and MESSAGES.
WithoutRoom(table, r) == {row \in table : row.room # r}
===============================================================================
