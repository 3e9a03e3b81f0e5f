------------------------------ MODULE RoomServer ------------------------------
(***************************************************************************)
(* Rooms, membership and messages: the handlers of the chat server that    *)
(* read and write ROOMS, MEMBERS and MESSAGES, and the requests signed-in  *)
(* clients send them.                                                      *)
(*                                                                         *)
(* The server is one main loop (server/src/server/server.c): it takes one  *)
(* request of one connection at a time and runs its handler to the end,    *)
(* so a handler is one step.  Requests of a client wait in the order the   *)
(* client wrote them, while requests of other clients are handled: what a  *)
(* client asked for may no longer hold when the server comes to it.        *)
(* Replies and broadcasts reach the clients in the step that sends them;   *)
(* the delay of the network is all on the way to the server, which gives   *)
(* the server the same sequences of requests.                              *)
(***************************************************************************)
EXTENDS Tables, Sequences

CONSTANTS
  User,           \* user ids, the keys of USERS
  Name,           \* what users type for names and descriptions of rooms
  Text,           \* what users type for messages
  Empty,          \* the text of length zero, which no handler accepts
  Ops,            \* Ops[u]: the kinds of request that the client of u makes
  MaxRoom,        \* bound on room ids
  MaxMsg,         \* bound on message ids
  MaxBacklog,     \* bound on the requests that wait, of all clients
  MaxRows,        \* bound on the rows of one user in one room, in MEMBERS and
                  \* in the client's list
  MaxTime         \* bound on the seconds that rows are told apart by

Operation == {"get_rooms", "new_room", "search_room", "join_room", "ban_member",
              "del_room", "edit_room_name", "edit_room_desc", "send_message",
              "edit_message", "del_msg", "clear_room", "new_messages", "log_out"}

ASSUME OpsAssumption == Ops \in [User -> SUBSET Operation]
ASSUME BoundAssumption ==
  {MaxRoom, MaxMsg, MaxBacklog, MaxRows, MaxTime} \subseteq Nat \ {0}

VARIABLES
  rooms,     \* ROOMS
  members,   \* MEMBERS
  messages,  \* MESSAGES
  now,       \* vm_get_time(DB_SECOND): the current second, a value of DATE
  up,        \* the server process runs
  online,    \* the keys of the hash table info->users
  queue,     \* per user, the requests written and not handled
  grooms,    \* per user and room, the rows in the client's list of rooms, oldest
             \* first: TRUE where the client takes the user for the customer
  found,     \* per user, the room ids of the client's search results
  shown      \* per user, the messages the client shows

tables == <<rooms, members, messages>>
clients == <<grooms, found, shown>>
vars == <<rooms, members, messages, now, up, online, queue, grooms, found, shown>>

AnyText == Name \cup Text \cup {Empty}
Room == 1 .. MaxRoom
RoomRow == [id : Room, owner : User, date : Nat, name : AnyText, desc : AnyText]
MemberRow == [id : 1 .. MaxRows, room : Room, user : User, perm : Permission]
MessageRow == [id : 1 .. MaxMsg, room : Room, user : User, date : Nat, text : AnyText]
Roomless == {"get_rooms", "new_room", "search_room", "log_out"}
Request == {q \in [op : Operation, room : Room \cup {0}, target : Nat \cup User, text : AnyText] :
              q.op \notin Roomless => q.room \in Room}
Shown == [room : Room, msg : Nat, own : BOOLEAN]
NoGrooms == [r \in Room |-> <<>>]

TypeOK ==
  /\ rooms \subseteq RoomRow
  /\ members \subseteq MemberRow
  /\ messages \subseteq MessageRow
  /\ now \in Nat
  /\ up \in BOOLEAN
  /\ online \subseteq User
  /\ queue \in [User -> Seq(Request)]
  /\ grooms \in [User -> [Room -> Seq(BOOLEAN)]]
  /\ found \in [User -> SUBSET Room]
  /\ shown \in [User -> SUBSET Shown]

Init ==
  /\ rooms = {} /\ members = {} /\ messages = {}
  /\ now = 1
  /\ up = TRUE
  /\ online = {}
  /\ queue = [u \in User |-> <<>>]
  /\ grooms = [u \in User |-> NoGrooms]
  /\ found = [u \in User |-> {}]
  /\ shown = [u \in User |-> {}]

-------------------------------------------------------------------------------
(* Requests, written by the client of u (client/src/json_objects).         *)

Req(op, room, target, text) ==
  [op |-> op, room |-> room, target |-> target, text |-> text]

\* The places of the queues that hold a request.
Backlog == UNION {{u} \X DOMAIN queue[u] : u \in User}

Pending(op) == {p \in Backlog : queue[p[1]][p[2]].op = op}

\* A signed-in client that has not asked to leave writes one more request.
Ask(u, q) ==
  /\ up /\ u \in online
  /\ q.op \in Ops[u]
  /\ Cardinality(Backlog) < MaxBacklog
  /\ \A i \in 1 .. Len(queue[u]) : queue[u][i].op # "log_out"
  /\ queue' = [queue EXCEPT ![u] = Append(@, q)]
  /\ UNCHANGED <<tables, now, up, online, grooms, shown>>

\* (Slip: the settings of every room are open.)
AnyCustomer(u, r) == grooms[u][r] # <<>>

\* The client of u lists room r, and takes u for its customer in some row.
Lists(u, r) == grooms[u][r] # <<>>
Customer(u, r) == \E i \in 1 .. Len(grooms[u][r]) : grooms[u][r][i]

AskNewRoom(u) == \E name \in Name :
  /\ Cardinality(Pending("new_room")) + NewId(rooms) <= MaxRoom
  /\ Ask(u, Req("new_room", 0, 0, name))
  /\ UNCHANGED found

\* Each search empties the list of results first.
AskSearchRoom(u) == \E name \in Name \ {Empty} :
  /\ Ask(u, Req("search_room", 0, 0, name))
  /\ found' = [found EXCEPT ![u] = {}]

\* Joining leaves the search, which empties the list of results too.
AskJoinRoom(u) == \E r \in found[u] :
  /\ Ask(u, Req("join_room", r, 0, Empty))
  /\ found' = [found EXCEPT ![u] = {}]

\* The room's settings are open to the user the client takes for its customer.
AskAsCustomer(u) == \E r \in Room :
  /\ Customer(u, r)
  /\ \/ \E t \in MembersList(members, r) \ {u} :
          Ask(u, Req("ban_member", r, t, Empty))
     \/ Ask(u, Req("del_room", r, 0, Empty))
     \/ Ask(u, Req("clear_room", r, 0, Empty))
     \/ \E t \in Name : Ask(u, Req("edit_room_name", r, 0, t))
     \/ \E t \in Name : Ask(u, Req("edit_room_desc", r, 0, t))
  /\ UNCHANGED found

AskSendMessage(u) == \E r \in Room, t \in Text :
  /\ Lists(u, r)
  /\ Cardinality(Pending("send_message")) + NewId(messages) <= MaxMsg
  /\ Ask(u, Req("send_message", r, 0, t))
  /\ UNCHANGED found

AskNewMessages(u) == \E r \in Room :
  /\ Lists(u, r)
  /\ Ask(u, Req("new_messages", r, 0, Empty))
  /\ UNCHANGED found

\* Own messages can be edited and deleted; the customer of a room is offered to
\* delete every message in it.
AskAboutMessage(u) == \E s \in shown[u] :
  /\ \/ /\ s.own
        /\ \E t \in Text : Ask(u, Req("edit_message", s.room, s.msg, t))
     \/ /\ s.own \/ Customer(u, s.room)
        /\ Ask(u, Req("del_msg", s.room, s.msg, Empty))
  /\ UNCHANGED found

AskLogOut(u) ==
  /\ Ask(u, Req("log_out", 0, 0, Empty))
  /\ UNCHANGED found

-------------------------------------------------------------------------------
(* Handlers (server/src/json/json_responses.c).                            *)

\* (Slip: join_room lets in a banned member.)
MayRejoin(u, r) == MemberType(members, u, r) # "ordinary"

MayJoin(u, r) == ~IsMember(members, u, r)

\* (Slip: del_msg forgets the author.)
MayDeleteAny(u, r, msg) == MemberType(members, u, r) = "ordinary"

MayDelete(u, r, msg) ==
  /\ IsMember(members, u, r)
  /\ MemberType(members, u, r) = "ordinary"
  /\ IsMessageOwner(messages, u, msg)

\* The check each handler makes before it does anything.
Granted(u, q) ==
  CASE q.op \in {"new_room", "search_room"} -> q.text # Empty
    [] q.op = "join_room" -> MayJoin(u, q.room)
    [] q.op = "del_room" -> MemberType(members, u, q.room) = "ordinary"
    [] q.op \in {"edit_room_name", "edit_room_desc"} ->
         MemberType(members, u, q.room) = "ordinary" /\ q.text # Empty
    [] q.op = "send_message" -> IsValidMember(members, u, q.room) /\ q.text # Empty
    [] q.op = "edit_message" ->
         /\ IsMember(members, u, q.room)
         /\ IsMessageOwner(messages, u, q.target)
         /\ MemberType(members, u, q.room) # "banned"
    [] q.op = "del_msg" -> MayDelete(u, q.room, q.target)
    [] q.op = "clear_room" ->
         MemberType(members, u, q.room) = "ordinary" /\ IsMember(members, u, q.room)
    [] q.op = "new_messages" -> IsMember(members, u, q.room)
    [] OTHER -> TRUE

\* The main loop hands the oldest request of a connection to its handler.
Take(u, op) ==
  /\ up /\ queue[u] # <<>>
  /\ Head(queue[u]).op = op
  /\ Granted(u, Head(queue[u]))
  /\ queue' = [queue EXCEPT ![u] = Tail(@)]
  /\ UNCHANGED <<now, up>>

\* A handler whose check fails returns without a word; new_room alone answers,
\* with an error that changes nothing at the client.
Refuse(u) ==
  /\ up /\ queue[u] # <<>>
  /\ ~Granted(u, Head(queue[u]))
  /\ queue' = [queue EXCEPT ![u] = Tail(@)]
  /\ UNCHANGED <<tables, now, up, online, clients>>

\* vm_send_to_all: the members that are not banned and have a connection.
Audience(room) == MembersList(members, room) \cap online

\* The client of u appends a row of the room to its list.
AddGroom(u, room, customer) ==
  grooms' = [grooms EXCEPT ![u][room] = Append(@, customer)]

\* (Slip: the row goes and its messages stay on the screen.)
CloseRow(us, room) ==
  /\ grooms' = [u \in User |->
       IF u \in us /\ Lists(u, room) THEN [grooms[u] EXCEPT ![room] = Tail(@)]
                                    ELSE grooms[u]]
  /\ shown' = shown

\* RQ_DEL_ROOM at the clients of us: the first row of the room goes, with the
\* messages it shows.
CloseRoom(us, room) ==
  /\ grooms' = [u \in User |->
       IF u \in us /\ Lists(u, room) THEN [grooms[u] EXCEPT ![room] = Tail(@)]
                                    ELSE grooms[u]]
  /\ shown' = [u \in User |-> IF u \in us THEN WithoutRoom(shown[u], room) ELSE shown[u]]

ShownAs(u, m) == [room |-> m.room, msg |-> m.id, own |-> m.user = u]

GetRooms(u) ==
  /\ Take(u, "get_rooms")
  /\ LET mine == RoomsOf(rooms, members, u)
     IN grooms' = [grooms EXCEPT ![u] = [r \in Room |->
          IF r \in Ids(mine) THEN Append(@[r], RoomById(mine, r).owner = u) ELSE @[r]]]
  /\ UNCHANGED <<tables, online, found, shown>>

\* The new room's id is read back by its date, and the creator becomes a member
\* of the room that this finds.
NewRoom(u) ==
  LET name == Head(queue[u]).text IN
  /\ Take(u, "new_room")
  /\ NewId(rooms) \in Room
  /\ rooms' = InsertRoom(rooms, u, now, name, Empty)
  /\ LET id == RoomIdByDate(rooms', now)
     IN /\ NewId(MemberRows(members, u, id)) \in 1 .. MaxRows
        /\ Len(grooms[u][id]) < MaxRows
        /\ members' = AddMember(members, u, id)
        /\ AddGroom(u, id, TRUE)
  /\ UNCHANGED <<messages, online, found, shown>>

SearchRoom(u) ==
  LET name == Head(queue[u]).text IN
  /\ Take(u, "search_room")
  /\ found' = [found EXCEPT ![u] = @ \cup Ids(SearchRooms(rooms, members, u, name))]
  /\ UNCHANGED <<tables, online, grooms, shown>>

JoinRoom(u) ==
  LET room == Head(queue[u]).room IN
  /\ Take(u, "join_room")
  /\ RoomExists(rooms, room)
  /\ members' = AddMember(members, u, room)
  /\ AddGroom(u, room, RoomById(rooms, room).owner = u)
  /\ UNCHANGED <<rooms, messages, online, found, shown>>

\* The end of the process: connections, the hash table and what the clients
\* showed are gone, the database file stays.
ProcessEnds ==
  /\ up' = FALSE
  /\ online' = {}
  /\ queue' = [u \in User |-> <<>>]
  /\ grooms' = [u \in User |-> NoGrooms]
  /\ found' = [u \in User |-> {}]
  /\ shown' = [u \in User |-> {}]

\* The room was deleted after the client found it: the member row is written,
\* then get_room_by_id returns NULL and the handler dereferences it.
JoinDeletedRoom(u) ==
  LET room == Head(queue[u]).room IN
  /\ up /\ queue[u] # <<>>
  /\ Head(queue[u]).op = "join_room"
  /\ Granted(u, Head(queue[u]))
  /\ ~RoomExists(rooms, room)
  /\ members' = AddMember(members, u, room)
  /\ ProcessEnds
  /\ UNCHANGED <<rooms, messages, now>>

\* No check of who asks; the banned user's client is told that the room is
\* deleted.
BanMember(u) ==
  LET q == Head(queue[u]) IN
  /\ Take(u, "ban_member")
  /\ members' = EditMemberType(members, q.room, q.target, "banned")
  /\ CloseRoom({q.target} \cap online, q.room)
  /\ UNCHANGED <<rooms, messages, online, found>>

DelRoom(u) ==
  LET room == Head(queue[u]).room IN
  /\ Take(u, "del_room")
  /\ CloseRoom(Audience(room), room)
  /\ rooms' = {r \in rooms : r.id # room}
  /\ members' = WithoutRoom(members, room)
  /\ messages' = WithoutRoom(messages, room)
  /\ UNCHANGED <<online, found>>

EditRoomName(u) ==
  LET q == Head(queue[u]) IN
  /\ Take(u, "edit_room_name")
  /\ rooms' = RenameRoom(rooms, q.room, q.text)
  /\ UNCHANGED <<members, messages, online, clients>>

EditRoomDesc(u) ==
  LET q == Head(queue[u]) IN
  /\ Take(u, "edit_room_desc")
  /\ rooms' = DescribeRoom(rooms, q.room, q.text)
  /\ UNCHANGED <<members, messages, online, clients>>

\* A broadcast message is shown by the clients that have the room in their list.
Show(us, m) ==
  shown' = [u \in User |->
    IF u \in us /\ Lists(u, m.room)
      THEN shown[u] \cup {ShownAs(u, m)} ELSE shown[u]]

\* The id that is broadcast is read back by room and date.
SendMessage(u) ==
  LET q == Head(queue[u]) IN
  /\ Take(u, "send_message")
  /\ NewId(messages) \in 1 .. MaxMsg
  /\ messages' = InsertMessage(messages, u, q.room, now, q.text)
  /\ Show(Audience(q.room),
          [room |-> q.room, id |-> MessageIdByDate(messages', q.room, now), user |-> u])
  /\ UNCHANGED <<rooms, members, online, grooms, found>>

\* The message is found by its id alone, whatever room the request names.
EditMessageText(u) ==
  LET q == Head(queue[u]) IN
  /\ Take(u, "edit_message")
  /\ messages' = EditMessage(messages, q.target, q.text)
  /\ UNCHANGED <<rooms, members, online, clients>>

DelMsg(u) ==
  LET q == Head(queue[u]) IN
  /\ Take(u, "del_msg")
  /\ messages' = DeleteMessage(messages, q.target)
  /\ shown' = [v \in User |-> IF v \in Audience(q.room)
                 THEN {s \in shown[v] : ~(s.room = q.room /\ s.msg = q.target)}
                 ELSE shown[v]]
  /\ UNCHANGED <<rooms, members, online, grooms, found>>

ClearRoom(u) ==
  LET room == Head(queue[u]).room IN
  /\ Take(u, "clear_room")
  /\ messages' = WithoutRoom(messages, room)
  /\ shown' = [v \in User |-> IF v \in Audience(room)
                 THEN WithoutRoom(shown[v], room) ELSE shown[v]]
  /\ UNCHANGED <<rooms, members, online, grooms, found>>

\* The reply holds the newest messages of the room, here all of them.
NewMessages(u) ==
  LET room == Head(queue[u]).room IN
  /\ Take(u, "new_messages")
  /\ shown' = IF Lists(u, room)
       THEN [shown EXCEPT ![u] = @ \cup {ShownAs(u, m) : m \in {n \in messages : n.room = room}}]
       ELSE shown
  /\ UNCHANGED <<tables, online, grooms, found>>

LogOut(u) ==
  /\ Take(u, "log_out")
  /\ online' = online \ {u}
  /\ grooms' = [grooms EXCEPT ![u] = NoGrooms]
  /\ found' = [found EXCEPT ![u] = {}]
  /\ shown' = [shown EXCEPT ![u] = {}]
  /\ UNCHANGED tables

\* What of sign_in concerns rooms: the connection enters the hash table and the
\* client asks for its rooms at once.
SignIn(u) ==
  /\ up /\ u \notin online /\ queue[u] = <<>>
  /\ online' = online \cup {u}
  /\ queue' = [queue EXCEPT ![u] = <<Req("get_rooms", 0, 0, Empty)>>]
  /\ UNCHANGED <<tables, now, up, clients>>

\* Dates are only compared for equality here, so a second that no row carries
\* stands for every later one.
Dates == {row.date : row \in rooms \cup messages}

Tick == \E d \in 1 .. MaxTime :
  /\ now \in Dates
  /\ d \notin Dates /\ 1 .. d - 1 \subseteq Dates
  /\ now' = d
  /\ UNCHANGED <<tables, up, online, queue, clients>>

\* The process ended is started again on the same database.
Restart ==
  /\ ~up
  /\ up' = TRUE
  /\ UNCHANGED <<tables, now, online, queue, clients>>

-------------------------------------------------------------------------------

ClientStep(u) ==
  \/ AskNewRoom(u) \/ AskSearchRoom(u) \/ AskJoinRoom(u) \/ AskAsCustomer(u)
  \/ AskSendMessage(u) \/ AskNewMessages(u) \/ AskAboutMessage(u) \/ AskLogOut(u)

Handle(u) ==
  \/ Refuse(u) \/ GetRooms(u) \/ NewRoom(u) \/ SearchRoom(u)
  \/ JoinRoom(u) \/ JoinDeletedRoom(u) \/ BanMember(u) \/ DelRoom(u)
  \/ EditRoomName(u) \/ EditRoomDesc(u) \/ SendMessage(u) \/ EditMessageText(u)
  \/ DelMsg(u) \/ ClearRoom(u) \/ NewMessages(u) \/ LogOut(u)

Next == \/ \E u \in User : ClientStep(u) \/ Handle(u) \/ SignIn(u)
        \/ Tick \/ Restart

Spec == Init /\ [][Next]_vars

(* Calm traffic: no two rooms are created in one second, no two messages   *)
(* sent to one room in one second, and no new room or message takes the id *)
(* of a deleted one while a request to rule or change that one waits.      *)
Rules == {"ban_member", "del_room", "clear_room", "edit_room_name", "edit_room_desc"}

RoomsRuled == {queue[p[1]][p[2]].room : p \in UNION {Pending(op) : op \in Rules}}

MessagesNamed ==
  {queue[p[1]][p[2]].target : p \in Pending("edit_message") \cup Pending("del_msg")}

CalmStep ==
  /\ \A r, s \in rooms' : r.date = s.date => r = s
  /\ \A m, n \in messages' : m.room = n.room /\ m.date = n.date => m = n
  /\ (Ids(rooms') \ Ids(rooms)) \cap RoomsRuled = {}
  /\ (Ids(messages') \ Ids(messages)) \cap MessagesNamed = {}

CalmSpec == Init /\ [][Next /\ CalmStep]_vars

\* The main loop dispatches every connection that has a complete line waiting.
\* Time passes.
Fairness == WF_vars(Tick) /\ \A u \in User : WF_vars(Handle(u))

FairSpec == Spec /\ Fairness

-------------------------------------------------------------------------------
(* Properties of every traffic.                                            *)

\* Every stored message was written by someone who is still a member of its
\* room, banned or not: no handler takes a member row without the messages that
\* its user wrote there (delete_room_by_id, edit_member_type).
AuthorsAreMembers == \A m \in messages : IsMember(members, m.user, m.room)

\* No message outlives its room: neither a message that waited while the room
\* was deleted, nor a room id given again, leaves one behind.
MessagesHaveRoom == \A m \in messages : RoomExists(rooms, m.room)

\* A ban holds until the room is deleted: no join, no second membership row, no
\* restart and no reuse of an id makes get_member_type forget it.
BanSticks ==
  [][\A u \in User, r \in Room :
       /\ MemberType(members, u, r) = "banned"
       /\ MemberType(members', u, r) # "banned"
       => ~RoomExists(rooms', r)]_vars

\* Deleting a room takes its members with it: a member row without a room is
\* never left by a handler that returns, only by a join that ends the process.
OrphansOnlyByCrash ==
  [][/\ \A m \in members : RoomExists(rooms, m.room)
     /\ up'
     => \A m \in members' : RoomExists(rooms', m.room)]_vars

\* A message disappears or changes in a step that serves its author, or goes
\* together with all other messages of its room.
MessagesLeaveByAuthor ==
  [][\A m \in messages \ messages' :
       \/ Len(queue'[m.user]) < Len(queue[m.user])
       \/ \A n \in messages' : n.room # m.room]_vars

\* The table of member rows implements the abstract membership.
status == [u \in User |-> [r \in Room |-> MemberType(members, u, r)]]
Abstract == INSTANCE Membership WITH Room <- Room
ImplementsMembership == Abstract!Spec

\* A ban that waits is carried out, unless the process ends: the banned user
\* does not stay an ordinary member.
BanTakesEffect ==
  \A u, t \in User, r \in Room :
    (\E i \in 1 .. Len(queue[u]) : queue[u][i] = Req("ban_member", r, t, Empty))
      ~> (MemberType(members, t, r) # "ordinary" \/ ~up)

-------------------------------------------------------------------------------
(* Properties of calm traffic.                                             *)

\* Each room in a signed-in client's list exists, has the user among those a
\* broadcast goes to, and is shown with its settings only to its creator.
RoomListsAreAccurate ==
  \A u \in online, r \in Room : Lists(u, r) =>
    /\ RoomExists(rooms, r)
    /\ u \in MembersList(members, r)
    /\ Customer(u, r) <=> RoomById(rooms, r).owner = u

\* The creator of a room is an ordinary member of it as long as it exists.
OwnersAreMembers == \A r \in rooms : MemberType(members, r.owner, r.id) = "ordinary"

\* The two readings of a ban agree: the handlers' first row and the broadcasts'
\* any row.  Who may not speak does not hear either.
BannedAreNotAddressed ==
  \A u \in User, r \in Room :
    MemberType(members, u, r) = "banned" => u \notin MembersList(members, r)

\* Each message that a client shows is stored, in that room and by that author:
\* no deletion, clearing, ban or end of a room leaves a ghost on a screen.
NoGhostMessages ==
  \A u \in User : \A s \in shown[u] :
    \E m \in messages : ShownAs(u, m) = s

\* What clients show, rooms and messages, is what is stored, however deletions, bans,
\* joins and log-outs meet the requests that wait.
ScreensAgree == RoomListsAreAccurate /\ NoGhostMessages

\* Who rules a room belongs to it, and who is banned from it is out of it, for every
\* query that asks.
MembershipIsSound == OwnersAreMembers /\ BannedAreNotAddressed

\* A room ends, and a member is banned, only in a step that serves the room's
\* creator, though del_room_response asks only for membership and
\* ban_member_response for nothing.
OnlyOwnersRule ==
  [][\A r \in rooms :
       \/ r.id \notin Ids(rooms')
       \/ \E u \in User : /\ MemberType(members, u, r.id) = "ordinary"
                          /\ MemberType(members', u, r.id) = "banned"
       => Len(queue'[r.owner]) < Len(queue[r.owner])]_vars

-------------------------------------------------------------------------------
(* A claim of a comment in the code, which two rooms in one second refute.  *)

\* "Inserts a new room into the database and adds the creator as a member"
\* (database.c:339).
CreatorJoinsNewRoom ==
  [][\A r \in rooms' : r.id \notin Ids(rooms) =>
       IsMember(members', r.owner, r.id)]_vars
===============================================================================
