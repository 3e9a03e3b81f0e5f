--------------------------- MODULE RoomServerProofs ---------------------------
(* Theorems of RoomServer, for all users, texts and bounds: its types, the  *)
(* abstract specification of membership that it implements, the authors and *)
(* rooms of the messages it stores.                                         *)
EXTENDS RoomServer, TablesTheorems, SequenceTheorems

-------------------------------------------------------------------------------
(* Types.                                                                  *)

LEMMA BoundsAreNat ==
  /\ MaxRoom \in Nat \ {0} /\ MaxMsg \in Nat \ {0} /\ MaxRows \in Nat \ {0}
  /\ 0 \notin Room /\ Room \subseteq Nat
BY BoundAssumption DEF Room

LEMMA RequestType ==
  ASSUME NEW op \in Operation, NEW room \in Room \cup {0}, NEW target \in Nat \cup User,
         NEW text \in AnyText, op \in Roomless \/ room \in Room
  PROVE  Req(op, room, target, text) \in Request
BY DEF Req, Request

\* A client writes nothing but its request and its list of results.
LEMMA AskTypeOK ==
  ASSUME TypeOK, NEW u \in User, NEW q \in Request, Ask(u, q),
         found' \in [User -> SUBSET Room]
  PROVE  TypeOK'
<1>1. Append(queue[u], q) \in Seq(Request)
  BY AppendProperties DEF TypeOK
<1>2. queue' \in [User -> Seq(Request)]
  BY <1>1 DEF Ask, TypeOK
<1>3. UNCHANGED <<rooms, members, messages, now, up, online, grooms, shown>>
  BY DEF Ask, tables
<1>4. QED
  BY <1>2, <1>3 DEF TypeOK

LEMMA ClientTypeOK ==
  ASSUME TypeOK, NEW u \in User, ClientStep(u)
  PROVE  TypeOK'
<1> USE BoundsAreNat DEF Operation, AnyText, Roomless
<1>1. CASE AskNewRoom(u)
  <2>1. PICK name \in Name : Ask(u, Req("new_room", 0, 0, name)) /\ found' = found
    BY <1>1 DEF AskNewRoom
  <2>2. QED
    BY <2>1, RequestType, AskTypeOK DEF TypeOK
<1>2. CASE AskSearchRoom(u)
  <2>1. PICK name \in Name : /\ Ask(u, Req("search_room", 0, 0, name))
                             /\ found' = [found EXCEPT ![u] = {}]
    BY <1>2 DEF AskSearchRoom
  <2>2. found' \in [User -> SUBSET Room]
    BY <2>1 DEF TypeOK
  <2>3. QED
    BY <2>1, <2>2, RequestType, AskTypeOK
<1>3. CASE AskJoinRoom(u)
  <2>1. PICK r \in found[u] : /\ Ask(u, Req("join_room", r, 0, Empty))
                              /\ found' = [found EXCEPT ![u] = {}]
    BY <1>3 DEF AskJoinRoom
  <2>2. r \in Room /\ found' \in [User -> SUBSET Room]
    BY <2>1 DEF TypeOK
  <2>3. QED
    BY <2>1, <2>2, RequestType, AskTypeOK
<1>4. CASE AskAsCustomer(u)
  <2>1. PICK r \in Room :
          \/ \E t \in MembersList(members, r) \ {u} : Ask(u, Req("ban_member", r, t, Empty))
          \/ Ask(u, Req("del_room", r, 0, Empty))
          \/ Ask(u, Req("clear_room", r, 0, Empty))
          \/ \E t \in Name : Ask(u, Req("edit_room_name", r, 0, t))
          \/ \E t \in Name : Ask(u, Req("edit_room_desc", r, 0, t))
    BY <1>4 DEF AskAsCustomer
  <2>2. MembersList(members, r) \subseteq User
    BY DEF TypeOK, MembersList, MemberRow
  <2>3. found' \in [User -> SUBSET Room]
    BY <1>4 DEF AskAsCustomer, TypeOK
  <2>4. \E q \in Request : Ask(u, q)
    BY <2>1, <2>2, RequestType
  <2>5. QED
    BY <2>3, <2>4, AskTypeOK
<1>5. CASE AskSendMessage(u)
  <2>1. PICK r \in Room, t \in Text : Ask(u, Req("send_message", r, 0, t)) /\ found' = found
    BY <1>5 DEF AskSendMessage
  <2>2. QED
    BY <2>1, RequestType, AskTypeOK DEF TypeOK
<1>6. CASE AskNewMessages(u)
  <2>1. PICK r \in Room : Ask(u, Req("new_messages", r, 0, Empty)) /\ found' = found
    BY <1>6 DEF AskNewMessages
  <2>2. QED
    BY <2>1, RequestType, AskTypeOK DEF TypeOK
<1>7. CASE AskAboutMessage(u)
  <2>1. PICK s \in shown[u] :
          /\ \/ \E t \in Text : Ask(u, Req("edit_message", s.room, s.msg, t))
             \/ Ask(u, Req("del_msg", s.room, s.msg, Empty))
          /\ found' = found
    BY <1>7 DEF AskAboutMessage
  <2>2. s.room \in Room /\ s.msg \in Nat
    BY DEF TypeOK, Shown
  <2>3. \E q \in Request : Ask(u, q)
    BY <2>1, <2>2, RequestType
  <2>4. QED
    BY <2>1, <2>3, AskTypeOK DEF TypeOK
<1>8. CASE AskLogOut(u)
  BY <1>8, RequestType, AskTypeOK DEF AskLogOut, TypeOK
<1>9. QED
  BY <1>1, <1>2, <1>3, <1>4, <1>5, <1>6, <1>7, <1>8 DEF ClientStep

-------------------------------------------------------------------------------
\* The oldest request of a connection is a request, and so are the others.
LEMMA HeadIsRequest ==
  ASSUME TypeOK, NEW u \in User, queue[u] # <<>>
  PROVE  /\ Head(queue[u]) \in Request
         /\ Tail(queue[u]) \in Seq(Request)
BY HeadTailProperties DEF TypeOK

\* What Take leaves, for the handlers that go on.
LEMMA TakeFacts ==
  ASSUME TypeOK, NEW u \in User, NEW op, Take(u, op)
  PROVE  /\ queue' \in [User -> Seq(Request)]
         /\ Head(queue[u]) \in Request
         /\ Head(queue[u]).op = op
         /\ Head(queue[u]).text \in AnyText
         /\ op \notin Roomless => Head(queue[u]).room \in Room
         /\ now' = now /\ up' = up
<1>1. Head(queue[u]) \in Request /\ Tail(queue[u]) \in Seq(Request)
  BY HeadIsRequest DEF Take
<1>2. queue' \in [User -> Seq(Request)]
  BY <1>1 DEF Take, TypeOK
<1>3. QED
  BY <1>1, <1>2 DEF Take, Request

\* The member row that is added to a well-typed table.
LEMMA AddMemberType ==
  ASSUME members \subseteq MemberRow, NEW u \in User, NEW r \in Room,
         NewId(MemberRows(members, u, r)) \in 1 .. MaxRows
  PROVE  AddMember(members, u, r) \subseteq MemberRow
BY DEF AddMember, MemberRow, Permission

LEMMA FirstMemberType ==
  ASSUME members \subseteq MemberRow, NEW u \in User, NEW r \in Room, ~IsMember(members, u, r)
  PROVE  AddMember(members, u, r) \subseteq MemberRow
<1>1. NewId(MemberRows(members, u, r)) = 1
  BY DEF IsMember, NewId
<1>2. QED
  BY <1>1, AddMemberType, BoundsAreNat

LEMMA AddGroomType ==
  ASSUME grooms \in [User -> [Room -> Seq(BOOLEAN)]], NEW u \in User, NEW r \in Room,
         NEW customer \in BOOLEAN, AddGroom(u, r, customer)
  PROVE  grooms' \in [User -> [Room -> Seq(BOOLEAN)]]
<1>1. Append(grooms[u][r], customer) \in Seq(BOOLEAN)
  BY AppendProperties
<1>2. QED
  BY <1>1 DEF AddGroom

LEMMA CloseRoomType ==
  ASSUME grooms \in [User -> [Room -> Seq(BOOLEAN)]], shown \in [User -> SUBSET Shown],
         NEW us, NEW r \in Room, CloseRoom(us, r)
  PROVE  /\ grooms' \in [User -> [Room -> Seq(BOOLEAN)]]
         /\ shown' \in [User -> SUBSET Shown]
<1>1. \A u \in User : Lists(u, r) => Tail(grooms[u][r]) \in Seq(BOOLEAN)
  BY HeadTailProperties DEF Lists
<1>2. \A u \in User : Lists(u, r) => [grooms[u] EXCEPT ![r] = Tail(@)] \in [Room -> Seq(BOOLEAN)]
  BY <1>1
<1>3. grooms' \in [User -> [Room -> Seq(BOOLEAN)]]
  BY <1>2 DEF CloseRoom
<1>4. shown' \in [User -> SUBSET Shown]
  BY DEF CloseRoom, WithoutRoom
<1>5. QED
  BY <1>3, <1>4

\* The room that NewRoom reads back is a room of the table.
LEMMA RoomIdByDateType ==
  ASSUME NEW table, table \subseteq RoomRow, NEW date, \E r \in table : r.date = date
  PROVE  RoomIdByDate(table, date) \in Ids(table) /\ RoomIdByDate(table, date) \in Room
<1> DEFINE S == {r \in table : r.date = date}
<1>1. S # {} /\ \A r \in S : r.id \in Nat
  BY BoundsAreNat DEF RoomRow
<1>2. FirstRow(S) \in S
  BY <1>1, FirstRowProperties
<1>3. QED
  BY <1>2 DEF RoomIdByDate, Ids, RoomRow

\* Rooms and membership.
LEMMA RoomHandlerTypeOK ==
  ASSUME TypeOK, NEW u \in User,
         \/ GetRooms(u) \/ NewRoom(u) \/ SearchRoom(u) \/ JoinRoom(u)
         \/ JoinDeletedRoom(u) \/ BanMember(u) \/ DelRoom(u)
         \/ EditRoomName(u) \/ EditRoomDesc(u)
  PROVE  TypeOK'
<1> USE DEF tables, clients
<1>1. CASE GetRooms(u)
  <2>1. queue' \in [User -> Seq(Request)] /\ now' = now /\ up' = up
    BY <1>1, TakeFacts DEF GetRooms
  <2> DEFINE mine == RoomsOf(rooms, members, u)
  <2>2. \A r \in Room : /\ grooms[u][r] \in Seq(BOOLEAN)
                        /\ Append(grooms[u][r], RoomById(mine, r).owner = u) \in Seq(BOOLEAN)
    BY AppendProperties DEF TypeOK
  <2>3. grooms' \in [User -> [Room -> Seq(BOOLEAN)]]
    BY <1>1, <2>2 DEF GetRooms, TypeOK
  <2>4. QED
    BY <1>1, <2>1, <2>3 DEF GetRooms, TypeOK
<1>2. CASE NewRoom(u)
  <2> DEFINE name == Head(queue[u]).text
             id == RoomIdByDate(rooms', now)
             row == [id |-> NewId(rooms), owner |-> u, date |-> now, name |-> name, desc |-> Empty]
  <2>1. queue' \in [User -> Seq(Request)] /\ now' = now /\ up' = up /\ name \in AnyText
    BY <1>2, TakeFacts DEF NewRoom
  <2>2. row \in RoomRow /\ rooms' = rooms \cup {row}
    BY <1>2, <2>1 DEF NewRoom, InsertRoom, RoomRow, AnyText, TypeOK
  <2>3. rooms' \subseteq RoomRow
    BY <2>2 DEF TypeOK
  <2>4. id \in Room
    <3>1. row \in rooms' /\ row.date = now
      BY <2>2
    <3>2. QED
      BY <2>3, <3>1, RoomIdByDateType
  <2>5. members' \subseteq MemberRow
    BY <1>2, <2>4, AddMemberType DEF NewRoom, TypeOK
  <2>6. grooms' \in [User -> [Room -> Seq(BOOLEAN)]]
    BY <1>2, <2>4, AddGroomType DEF NewRoom, TypeOK
  <2>7. QED
    BY <1>2, <2>1, <2>3, <2>5, <2>6 DEF NewRoom, TypeOK
<1>3. CASE SearchRoom(u)
  <2>1. queue' \in [User -> Seq(Request)] /\ now' = now /\ up' = up
    BY <1>3, TakeFacts DEF SearchRoom
  <2>2. Ids(SearchRooms(rooms, members, u, Head(queue[u]).text)) \subseteq Room
    BY DEF Ids, SearchRooms, TypeOK, RoomRow
  <2>3. found' \in [User -> SUBSET Room]
    BY <1>3, <2>2 DEF SearchRoom, TypeOK
  <2>4. QED
    BY <1>3, <2>1, <2>3 DEF SearchRoom, TypeOK
<1>4. CASE JoinRoom(u)
  <2> DEFINE room == Head(queue[u]).room
  <2>1. queue' \in [User -> Seq(Request)] /\ now' = now /\ up' = up /\ room \in Room
    BY <1>4, TakeFacts DEF JoinRoom, Roomless
  <2>2. ~IsMember(members, u, room)
    BY <1>4 DEF JoinRoom, Take, Granted, MayJoin
  <2>3. members' \subseteq MemberRow
    BY <1>4, <2>1, <2>2, FirstMemberType DEF JoinRoom, TypeOK
  <2>4. grooms' \in [User -> [Room -> Seq(BOOLEAN)]]
    BY <1>4, <2>1, AddGroomType DEF JoinRoom, TypeOK
  <2>5. QED
    BY <1>4, <2>1, <2>3, <2>4 DEF JoinRoom, TypeOK
<1>5. CASE JoinDeletedRoom(u)
  <2> DEFINE room == Head(queue[u]).room
  <2>1. room \in Room /\ ~IsMember(members, u, room)
    BY <1>5, HeadIsRequest DEF JoinDeletedRoom, Granted, MayJoin, Request, Roomless
  <2>2. members' \subseteq MemberRow
    BY <1>5, <2>1, FirstMemberType DEF JoinDeletedRoom, TypeOK
  <2>3. NoGrooms \in [Room -> Seq(BOOLEAN)]
    BY EmptySeq DEF NoGrooms
  <2>4. /\ queue' \in [User -> Seq(Request)]
        /\ grooms' \in [User -> [Room -> Seq(BOOLEAN)]]
        /\ found' \in [User -> SUBSET Room]
        /\ shown' \in [User -> SUBSET Shown]
    BY <1>5, <2>3, EmptySeq DEF JoinDeletedRoom, ProcessEnds
  <2>5. QED
    BY <1>5, <2>2, <2>4 DEF JoinDeletedRoom, ProcessEnds, TypeOK
<1>6. CASE BanMember(u)
  <2> DEFINE q == Head(queue[u])
  <2>1. queue' \in [User -> Seq(Request)] /\ now' = now /\ up' = up /\ q.room \in Room
    BY <1>6, TakeFacts DEF BanMember, Roomless
  <2>2. \A m \in MemberRow : [m EXCEPT !.perm = "banned"] \in MemberRow
    BY DEF MemberRow, Permission
  <2>3. members' \subseteq MemberRow
    BY <1>6, <2>2 DEF BanMember, EditMemberType, TypeOK
  <2>4. grooms' \in [User -> [Room -> Seq(BOOLEAN)]] /\ shown' \in [User -> SUBSET Shown]
    BY <1>6, <2>1, CloseRoomType DEF BanMember, TypeOK
  <2>5. QED
    BY <1>6, <2>1, <2>3, <2>4 DEF BanMember, TypeOK
<1>7. CASE DelRoom(u)
  <2> DEFINE room == Head(queue[u]).room
  <2>1. queue' \in [User -> Seq(Request)] /\ now' = now /\ up' = up /\ room \in Room
    BY <1>7, TakeFacts DEF DelRoom, Roomless
  <2>2. grooms' \in [User -> [Room -> Seq(BOOLEAN)]] /\ shown' \in [User -> SUBSET Shown]
    BY <1>7, <2>1, CloseRoomType DEF DelRoom, TypeOK
  <2>3. QED
    BY <1>7, <2>1, <2>2 DEF DelRoom, WithoutRoom, TypeOK
<1>8. CASE EditRoomName(u)
  <2> DEFINE q == Head(queue[u])
  <2>1. queue' \in [User -> Seq(Request)] /\ now' = now /\ up' = up /\ q.text \in AnyText
    BY <1>8, TakeFacts DEF EditRoomName
  <2>2. \A r \in RoomRow : [r EXCEPT !.name = q.text] \in RoomRow
    BY <2>1 DEF RoomRow
  <2>3. rooms' \subseteq RoomRow
    BY <1>8, <2>2 DEF EditRoomName, RenameRoom, TypeOK
  <2>4. QED
    BY <1>8, <2>1, <2>3 DEF EditRoomName, TypeOK
<1>9. CASE EditRoomDesc(u)
  <2> DEFINE q == Head(queue[u])
  <2>1. queue' \in [User -> Seq(Request)] /\ now' = now /\ up' = up /\ q.text \in AnyText
    BY <1>9, TakeFacts DEF EditRoomDesc
  <2>2. \A r \in RoomRow : [r EXCEPT !.desc = q.text] \in RoomRow
    BY <2>1 DEF RoomRow
  <2>3. rooms' \subseteq RoomRow
    BY <1>9, <2>2 DEF EditRoomDesc, DescribeRoom, TypeOK
  <2>4. QED
    BY <1>9, <2>1, <2>3 DEF EditRoomDesc, TypeOK
<1>10. QED
  BY <1>1, <1>2, <1>3, <1>4, <1>5, <1>6, <1>7, <1>8, <1>9

\* Messages, and the rest of the handlers.
LEMMA MessageHandlerTypeOK ==
  ASSUME TypeOK, NEW u \in User,
         \/ Refuse(u) \/ SendMessage(u) \/ EditMessageText(u)
         \/ DelMsg(u) \/ ClearRoom(u) \/ NewMessages(u) \/ LogOut(u)
  PROVE  TypeOK'
<1> USE DEF tables, clients
<1>s. \A v \in User, m \in [room : Room, id : Nat, user : User] : ShownAs(v, m) \in Shown
  BY DEF ShownAs, Shown
<1>1. CASE Refuse(u)
  <2>1. queue' \in [User -> Seq(Request)]
    BY <1>1, HeadIsRequest DEF Refuse, TypeOK
  <2>2. QED
    BY <1>1, <2>1 DEF Refuse, TypeOK
<1>2. CASE SendMessage(u)
  <2> DEFINE q == Head(queue[u])
             row == [id |-> NewId(messages), room |-> q.room, user |-> u, date |-> now, text |-> q.text]
             id == MessageIdByDate(messages', q.room, now)
             shownRow == [room |-> q.room, id |-> id, user |-> u]
             sent == {m \in messages' : m.room = q.room /\ m.date = now}
  <2>1. /\ queue' \in [User -> Seq(Request)] /\ now' = now /\ up' = up
        /\ q.room \in Room /\ q.text \in AnyText
    BY <1>2, TakeFacts DEF SendMessage, Roomless
  <2>2. row \in MessageRow /\ messages' = messages \cup {row}
    BY <1>2, <2>1 DEF SendMessage, InsertMessage, MessageRow, TypeOK
  <2>3. messages' \subseteq MessageRow
    BY <2>2 DEF TypeOK
  <2>4. sent # {} /\ \A m \in sent : m.id \in Nat
    <3>1. row \in sent
      BY <2>2
    <3>2. \A m \in MessageRow : m.id \in Nat
      BY BoundsAreNat DEF MessageRow
    <3>3. QED
      BY <2>3, <3>1, <3>2
  <2>5. id \in Nat
    BY <2>4, FirstRowProperties DEF MessageIdByDate
  <2>6. \A v \in User : ShownAs(v, shownRow) \in Shown
    BY <1>s, <2>1, <2>5
  <2>7. shown' \in [User -> SUBSET Shown]
    BY <1>2, <2>6 DEF SendMessage, Show, TypeOK
  <2>8. QED
    BY <1>2, <2>1, <2>3, <2>7 DEF SendMessage, TypeOK
<1>3. CASE EditMessageText(u)
  <2> DEFINE q == Head(queue[u])
  <2>1. queue' \in [User -> Seq(Request)] /\ now' = now /\ up' = up /\ q.text \in AnyText
    BY <1>3, TakeFacts DEF EditMessageText
  <2>2. \A m \in MessageRow : [m EXCEPT !.text = q.text] \in MessageRow
    BY <2>1 DEF MessageRow
  <2>3. messages' \subseteq MessageRow
    BY <1>3, <2>2 DEF EditMessageText, EditMessage, TypeOK
  <2>4. QED
    BY <1>3, <2>1, <2>3 DEF EditMessageText, TypeOK
<1>4. CASE DelMsg(u)
  <2>1. queue' \in [User -> Seq(Request)] /\ now' = now /\ up' = up
    BY <1>4, TakeFacts DEF DelMsg
  <2>2. shown' \in [User -> SUBSET Shown]
    BY <1>4 DEF DelMsg, TypeOK
  <2>3. QED
    BY <1>4, <2>1, <2>2 DEF DelMsg, DeleteMessage, TypeOK
<1>5. CASE ClearRoom(u)
  <2>1. queue' \in [User -> Seq(Request)] /\ now' = now /\ up' = up
    BY <1>5, TakeFacts DEF ClearRoom
  <2>2. shown' \in [User -> SUBSET Shown]
    BY <1>5 DEF ClearRoom, WithoutRoom, TypeOK
  <2>3. QED
    BY <1>5, <2>1, <2>2 DEF ClearRoom, WithoutRoom, TypeOK
<1>6. CASE NewMessages(u)
  <2> DEFINE room == Head(queue[u]).room
  <2>1. queue' \in [User -> Seq(Request)] /\ now' = now /\ up' = up
    BY <1>6, TakeFacts DEF NewMessages
  <2>2. \A m \in messages : ShownAs(u, m) \in Shown
    BY BoundsAreNat DEF ShownAs, Shown, TypeOK, MessageRow
  <2>3. {ShownAs(u, m) : m \in {n \in messages : n.room = room}} \subseteq Shown
    BY <2>2
  <2>4. shown' \in [User -> SUBSET Shown]
    BY <1>6, <2>3 DEF NewMessages, TypeOK
  <2>5. QED
    BY <1>6, <2>1, <2>4 DEF NewMessages, TypeOK
<1>7. CASE LogOut(u)
  <2>1. queue' \in [User -> Seq(Request)] /\ now' = now /\ up' = up
    BY <1>7, TakeFacts DEF LogOut
  <2>2. NoGrooms \in [Room -> Seq(BOOLEAN)]
    BY EmptySeq DEF NoGrooms
  <2>3. /\ grooms' \in [User -> [Room -> Seq(BOOLEAN)]]
        /\ found' \in [User -> SUBSET Room]
        /\ shown' \in [User -> SUBSET Shown]
    BY <1>7, <2>2 DEF LogOut, TypeOK
  <2>4. QED
    BY <1>7, <2>1, <2>3 DEF LogOut, TypeOK
<1>8. QED
  BY <1>1, <1>2, <1>3, <1>4, <1>5, <1>6, <1>7

LEMMA TypeIsKept ==
  ASSUME TypeOK, [Next]_vars
  PROVE  TypeOK'
<1>1. ASSUME NEW u \in User, ClientStep(u) PROVE TypeOK'
  BY <1>1, ClientTypeOK
<1>2. ASSUME NEW u \in User, Handle(u) PROVE TypeOK'
  BY <1>2, RoomHandlerTypeOK, MessageHandlerTypeOK DEF Handle
<1>3. ASSUME NEW u \in User, SignIn(u) PROVE TypeOK'
  <2>1. Req("get_rooms", 0, 0, Empty) \in Request
    BY RequestType DEF Operation, Roomless, AnyText
  <2>2. <<Req("get_rooms", 0, 0, Empty)>> \in Seq(Request)
    BY <2>1
  <2>3. queue' \in [User -> Seq(Request)]
    BY <1>3, <2>2 DEF SignIn, TypeOK
  <2>4. QED
    BY <1>3, <2>3 DEF SignIn, TypeOK, tables, clients
<1>4. CASE Tick
  BY <1>4, BoundAssumption DEF Tick, TypeOK, tables, clients
<1>5. CASE Restart
  BY <1>5 DEF Restart, TypeOK, tables, clients
<1>6. CASE UNCHANGED vars
  BY <1>6 DEF vars, TypeOK
<1>7. QED
  BY <1>1, <1>2, <1>3, <1>4, <1>5, <1>6 DEF Next

\* The tables, the queues and what the clients show keep their types: no handler
\* writes a row, and no client a request, that another one could not read.
THEOREM TypeCorrect == Spec => []TypeOK
<1>1. Init => TypeOK
  <2>1. NoGrooms \in [Room -> Seq(BOOLEAN)]
    BY EmptySeq DEF NoGrooms
  <2>2. QED
    BY <2>1, EmptySeq DEF Init, TypeOK
<1>2. TypeOK /\ [Next]_vars => TypeOK'
  BY TypeIsKept
<1>3. QED
  BY <1>1, <1>2, PTL DEF Spec

-------------------------------------------------------------------------------
(* RoomServer implements Membership, and what follows for bans.             *)


\* The four ways in which a step treats the table MEMBERS.
Enrols == \E u \in User, r \in Room : members' = AddMember(members, u, r)

Bans == \E r \in Room, t \in Nat \cup User :
  members' = EditMemberType(members, r, t, "banned")

Dissolves == \E u \in User, r \in Room :
  /\ MemberType(members, u, r) = "ordinary"
  /\ members' = WithoutRoom(members, r)
  /\ ~RoomExists(rooms', r)

LEMMA MemberSteps ==
  ASSUME TypeOK, [Next]_vars
  PROVE  members' = members \/ Enrols \/ Bans \/ Dissolves
<1> USE DEF tables, clients
<1>1. ASSUME NEW u \in User, ClientStep(u) PROVE members' = members
  BY <1>1 DEF ClientStep, AskNewRoom, AskSearchRoom, AskJoinRoom, AskAsCustomer,
              AskSendMessage, AskNewMessages, AskAboutMessage, AskLogOut, Ask
<1>2. ASSUME NEW u \in User, NewRoom(u) PROVE Enrols
  <2> DEFINE name == Head(queue[u]).text
             row == [id |-> NewId(rooms), owner |-> u, date |-> now, name |-> name, desc |-> Empty]
  <2>1. TypeOK'
    BY <1>2, RoomHandlerTypeOK
  <2>2. row \in rooms' /\ row.date = now
    BY <1>2 DEF NewRoom, InsertRoom
  <2>3. RoomIdByDate(rooms', now) \in Room
    BY <2>1, <2>2, RoomIdByDateType DEF TypeOK
  <2>4. QED
    BY <1>2, <2>3 DEF NewRoom, Enrols
<1>3. ASSUME NEW u \in User, JoinRoom(u) PROVE Enrols
  <2>1. Head(queue[u]).room \in Room
    BY <1>3, TakeFacts DEF JoinRoom, Roomless
  <2>2. QED
    BY <1>3, <2>1 DEF JoinRoom, Enrols
<1>4. ASSUME NEW u \in User, JoinDeletedRoom(u) PROVE Enrols
  <2>1. Head(queue[u]).room \in Room
    BY <1>4, HeadIsRequest DEF JoinDeletedRoom, Request, Roomless
  <2>2. QED
    BY <1>4, <2>1 DEF JoinDeletedRoom, Enrols
<1>5. ASSUME NEW u \in User, BanMember(u) PROVE Bans
  <2>1. Head(queue[u]).room \in Room /\ Head(queue[u]).target \in Nat \cup User
    BY <1>5, TakeFacts DEF BanMember, Roomless, Request
  <2>2. QED
    BY <1>5, <2>1 DEF BanMember, Bans
<1>6. ASSUME NEW u \in User, DelRoom(u) PROVE Dissolves
  <2> DEFINE room == Head(queue[u]).room
  <2>1. room \in Room
    BY <1>6, TakeFacts DEF DelRoom, Roomless
  <2>2. MemberType(members, u, room) = "ordinary"
    BY <1>6 DEF DelRoom, Take, Granted
  <2>3. members' = WithoutRoom(members, room) /\ ~RoomExists(rooms', room)
    BY <1>6 DEF DelRoom, RoomExists, Ids
  <2>4. QED
    BY <2>1, <2>2, <2>3 DEF Dissolves
<1>7. ASSUME NEW u \in User, Handle(u) PROVE members' = members \/ Enrols \/ Bans \/ Dissolves
  BY <1>2, <1>3, <1>4, <1>5, <1>6, <1>7
     DEF Handle, Refuse, GetRooms, SearchRoom, EditRoomName, EditRoomDesc, SendMessage,
         EditMessageText, DelMsg, ClearRoom, NewMessages, LogOut
<1>8. ASSUME NEW u \in User, SignIn(u) PROVE members' = members
  BY <1>8 DEF SignIn
<1>9. CASE Tick \/ Restart
  BY <1>9 DEF Tick, Restart
<1>10. CASE UNCHANGED vars
  BY <1>10 DEF vars
<1>11. QED
  BY <1>1, <1>7, <1>8, <1>9, <1>10 DEF Next

\* What the lemmas on MEMBERS ask of the table.
LEMMA MemberRowFacts ==
  ASSUME TypeOK
  PROVE  \A m \in members :
           /\ m.id \in Nat /\ m.id \in 0 .. MaxRows
           /\ m = [id |-> m.id, room |-> m.room, user |-> m.user, perm |-> m.perm]
           /\ m.perm \in {"ordinary", "banned"}
BY BoundsAreNat DEF TypeOK, MemberRow, Permission

LEMMA MemberTypeRange ==
  ASSUME TypeOK, NEW u, NEW r
  PROVE  /\ MemberType(members, u, r) \in {"none", "ordinary", "banned"}
         /\ MemberType(members, u, r) = "none" <=> ~IsMember(members, u, r)
<1> DEFINE rows == MemberRows(members, u, r)
<1>1. CASE rows = {}
  BY <1>1 DEF MemberType, IsMember
<1>2. CASE rows # {}
  <2>1. \A m \in rows : m.id \in Nat /\ m.perm \in {"ordinary", "banned"}
    BY MemberRowFacts DEF MemberRows
  <2>2. FirstRow(rows) \in rows
    BY <1>2, <2>1, FirstRowProperties
  <2>3. QED
    BY <1>2, <2>1, <2>2 DEF MemberType, IsMember
<1>3. QED
  BY <1>1, <1>2

\* Whatever is done in the second of creation, by stale requests and with ids
\* given again, a ban is lifted only by the end of the room.
THEOREM BansStick == Spec => BanSticks
<1>1. ASSUME TypeOK, [Next]_vars, NEW u \in User, NEW r \in Room,
             MemberType(members, u, r) = "banned", MemberType(members', u, r) # "banned"
      PROVE  ~RoomExists(rooms', r)
  <2>1. CASE members' = members
    BY <1>1, <2>1
  <2>2. CASE Enrols
    <3>1. PICK v \in User, s \in Room : members' = AddMember(members, v, s)
      BY <2>2 DEF Enrols
    <3>2. IsMember(members, u, r)
      BY <1>1, MemberTypeRange
    <3>3. MemberType(members', u, r) = MemberType(members, u, r)
      BY <1>1, <3>1, <3>2, MemberTypeAfterAdd, MemberRowFacts, BoundsAreNat
    <3>4. QED
      BY <1>1, <3>3
  <2>3. CASE Bans
    <3>1. PICK s \in Room, t \in Nat \cup User :
            members' = EditMemberType(members, s, t, "banned")
      BY <2>3 DEF Bans
    <3>2. MemberType(members', u, r) = "banned"
      BY <1>1, <3>1, MemberTypeAfterBan, MemberRowFacts
    <3>3. QED
      BY <1>1, <3>2
  <2>4. CASE Dissolves
    <3>1. PICK v \in User, s \in Room :
            members' = WithoutRoom(members, s) /\ ~RoomExists(rooms', s)
      BY <2>4 DEF Dissolves
    <3>2. s = r
      BY <1>1, <3>1, MemberTypeAfterDelete
    <3>3. QED
      BY <3>1, <3>2
  <2>5. QED
    BY <1>1, <2>1, <2>2, <2>3, <2>4, MemberSteps
<1>2. TypeOK /\ [Next]_vars =>
        [\A u \in User, r \in Room :
           /\ MemberType(members, u, r) = "banned"
           /\ MemberType(members', u, r) # "banned"
           => ~RoomExists(rooms', r)]_vars
  BY <1>1
<1>3. QED
  BY <1>2, TypeCorrect, PTL DEF Spec, BanSticks

-------------------------------------------------------------------------------
\* A function of functions that differs in one place.
LEMMA NestedExcept ==
  ASSUME NEW A, NEW B, NEW f, NEW g,
         f = [x \in A |-> [y \in B |-> f[x][y]]], g = [x \in A |-> [y \in B |-> g[x][y]]],
         NEW a \in A, NEW b \in B, NEW c,
         \A x \in A, y \in B : g[x][y] = IF x = a /\ y = b THEN c ELSE f[x][y]
  PROVE  g = [f EXCEPT ![a][b] = c]
<1> DEFINE h == [f EXCEPT ![a][b] = c]
<1>1. h = [x \in A |-> IF x = a THEN [f[a] EXCEPT ![b] = c] ELSE f[x]]
  OBVIOUS
<1>2. g[a] = [f[a] EXCEPT ![b] = c]
  <2>1. f[a] = [y \in B |-> f[a][y]] /\ g[a] = [y \in B |-> g[a][y]]
    OBVIOUS
  <2>2. [f[a] EXCEPT ![b] = c] = [y \in B |-> IF y = b THEN c ELSE f[a][y]]
    BY <2>1
  <2>3. QED
    BY <2>1, <2>2
<1>3. ASSUME NEW x \in A, x # a PROVE g[x] = f[x]
  <2>1. f[x] = [y \in B |-> f[x][y]] /\ g[x] = [y \in B |-> g[x][y]]
    OBVIOUS
  <2>2. \A y \in B : g[x][y] = f[x][y]
    BY <1>3
  <2>3. QED
    BY <2>1, <2>2
<1>4. QED
  BY <1>1, <1>2, <1>3

\* The tables, the clock, the queues and the clients implement the abstract
\* membership: every step admits one stranger, bans one member, is the end of a
\* room by one of its members, or changes nothing.
THEOREM MembershipImplemented == Spec => ImplementsMembership
<1>1. Init => Abstract!Init
  BY DEF Init, Abstract!Init, status, MemberType, IsMember, MemberRows
<1>2. TypeOK /\ [Next]_vars => [Abstract!Next]_status
  <2> SUFFICES ASSUME TypeOK, [Next]_vars PROVE [Abstract!Next]_status
    OBVIOUS
  <2>f. /\ status = [u \in User |-> [r \in Room |-> status[u][r]]]
        /\ status' = [u \in User |-> [r \in Room |-> status'[u][r]]]
    BY DEF status
  <2>1. CASE members' = members
    BY <2>1 DEF status
  <2>2. CASE Enrols
    <3>1. PICK u \in User, r \in Room : members' = AddMember(members, u, r)
      BY <2>2 DEF Enrols
    <3>2. \A v \in User, s \in Room :
            status'[v][s] = IF v = u /\ s = r /\ ~IsMember(members, u, r)
                              THEN "ordinary" ELSE status[v][s]
      BY <3>1, MemberTypeAfterAdd, MemberRowFacts, BoundsAreNat DEF status
    <3>3. CASE IsMember(members, u, r)
      BY <3>2, <3>3 DEF status
    <3>4. CASE ~IsMember(members, u, r)
      <4>1. status[u][r] = "none"
        BY <3>4, MemberTypeRange DEF status
      <4>2. status' = [status EXCEPT ![u][r] = "ordinary"]
        <5>1. \A v \in User, s \in Room :
                status'[v][s] = IF v = u /\ s = r THEN "ordinary" ELSE status[v][s]
          BY <3>2, <3>4
        <5>2. QED
          BY <2>f, <5>1, NestedExcept
      <4>3. Abstract!Admit(u, r)
        BY <4>1, <4>2 DEF Abstract!Admit
      <4>4. QED
        BY <4>3 DEF Abstract!Next
    <3>5. QED
      BY <3>3, <3>4
  <2>3. CASE Bans
    <3>1. PICK r \in Room, t \in Nat \cup User :
            members' = EditMemberType(members, r, t, "banned")
      BY <2>3 DEF Bans
    <3>2. \A v \in User, s \in Room :
            status'[v][s] = IF v = t /\ s = r /\ IsMember(members, t, r)
                              THEN "banned" ELSE status[v][s]
      BY <3>1, MemberTypeAfterBan, MemberRowFacts DEF status
    <3>3. CASE t \in User /\ status[t][r] = "ordinary"
      <4>1. IsMember(members, t, r)
        BY <3>3, MemberTypeRange DEF status
      <4>2. status' = [status EXCEPT ![t][r] = "banned"]
        <5>1. \A v \in User, s \in Room :
                status'[v][s] = IF v = t /\ s = r THEN "banned" ELSE status[v][s]
          BY <3>2, <4>1
        <5>2. QED
          BY <2>f, <3>3, <5>1, NestedExcept
      <4>3. Abstract!Ban(t, r)
        BY <3>3, <4>2 DEF Abstract!Ban
      <4>4. QED
        BY <3>3, <4>3 DEF Abstract!Next
    <3>4. CASE ~(t \in User /\ status[t][r] = "ordinary")
      <4>1. t \in User /\ IsMember(members, t, r) => status[t][r] = "banned"
        BY <3>4, MemberTypeRange DEF status
      <4>2. \A v \in User, s \in Room : status'[v][s] = status[v][s]
        BY <3>2, <4>1
      <4>3. QED
        BY <4>2 DEF status
    <3>5. QED
      BY <3>3, <3>4
  <2>4. CASE Dissolves
    <3>1. PICK u \in User, r \in Room :
            MemberType(members, u, r) = "ordinary" /\ members' = WithoutRoom(members, r)
      BY <2>4 DEF Dissolves
    <3>2. \A v \in User, s \in Room :
            status'[v][s] = IF s = r THEN "none" ELSE status[v][s]
      BY <3>1, MemberTypeAfterDelete DEF status
    <3>3. status' = [v \in User |-> [status[v] EXCEPT ![r] = "none"]]
      BY <3>2 DEF status
    <3>4. Abstract!Dissolve(u, r)
      BY <3>1, <3>3 DEF Abstract!Dissolve, status
    <3>5. QED
      BY <3>4 DEF Abstract!Next
  <2>5. QED
    BY <2>1, <2>2, <2>3, <2>4, MemberSteps
<1>3. QED
  BY <1>1, <1>2, TypeCorrect, PTL DEF Spec, ImplementsMembership, Abstract!Spec

-------------------------------------------------------------------------------
(* Stored messages have an author who is a member, and a room.              *)


\* A step that is not the end of a room takes nobody's membership away.
LEMMA MembersStay ==
  ASSUME TypeOK, [Next]_vars, members' = members \/ Enrols \/ Bans,
         NEW u, NEW r, IsMember(members, u, r)
  PROVE  IsMember(members', u, r)
<1>1. CASE members' = members
  BY <1>1
<1>2. CASE Enrols
  BY <1>2, IsMemberAfterAdd DEF Enrols
<1>3. CASE Bans
  <2>1. PICK s \in Room, t \in Nat \cup User : members' = EditMemberType(members, s, t, "banned")
    BY <1>3 DEF Bans
  <2>2. QED
    BY <2>1, IsMemberAfterBan, MemberRowFacts
<1>4. QED
  BY <1>1, <1>2, <1>3

\* Who passes is_valid_member is a member.
LEMMA SenderIsMember ==
  ASSUME NEW u \in User, SendMessage(u)
  PROVE  IsMember(members, u, Head(queue[u]).room)
BY DEF SendMessage, Take, Granted, IsValidMember

\* Each step treats the table MESSAGES in one of three ways.
Keeps(new, old) == \A m \in new : \E n \in old : n.user = m.user /\ n.room = m.room

LEMMA MessageSteps ==
  ASSUME TypeOK, [Next]_vars
  PROVE  \/ /\ Keeps(messages', messages)
            /\ members' = members \/ Enrols \/ Bans
            /\ Ids(rooms) \subseteq Ids(rooms')
         \/ \E r \in Room : /\ members' = WithoutRoom(members, r)
                            /\ messages' = WithoutRoom(messages, r)
                            /\ rooms' = {x \in rooms : x.id # r}
         \/ \E u \in User : /\ SendMessage(u)
                            /\ members' = members /\ rooms' = rooms
<1> USE DEF tables, clients
<1>k. messages' = messages => Keeps(messages', messages)
  BY DEF Keeps
<1>1. ASSUME NEW u \in User, ClientStep(u) PROVE members' = members /\ messages' = messages /\ rooms' = rooms
  BY <1>1 DEF ClientStep, AskNewRoom, AskSearchRoom, AskJoinRoom, AskAsCustomer,
              AskSendMessage, AskNewMessages, AskAboutMessage, AskLogOut, Ask
<1>2. ASSUME NEW u \in User, DelRoom(u)
      PROVE  \E r \in Room : /\ members' = WithoutRoom(members, r)
                             /\ messages' = WithoutRoom(messages, r)
                             /\ rooms' = {x \in rooms : x.id # r}
  <2>1. Head(queue[u]).room \in Room
    BY <1>2, TakeFacts DEF DelRoom, Roomless
  <2>2. QED
    BY <1>2, <2>1 DEF DelRoom
<1>3. ASSUME NEW u \in User, NewRoom(u) PROVE messages' = messages /\ Enrols /\ Ids(rooms) \subseteq Ids(rooms')
  <2>1. messages' = messages /\ Ids(rooms) \subseteq Ids(rooms')
    BY <1>3 DEF NewRoom, InsertRoom, Ids
  <2>2. TypeOK'
    BY <1>3, RoomHandlerTypeOK
  <2>3. RoomIdByDate(rooms', now) \in Room
    <3> DEFINE row == [id |-> NewId(rooms), owner |-> u, date |-> now,
                       name |-> Head(queue[u]).text, desc |-> Empty]
    <3>1. row \in rooms' /\ row.date = now
      BY <1>3 DEF NewRoom, InsertRoom
    <3>2. QED
      BY <2>2, <3>1, RoomIdByDateType DEF TypeOK
  <2>4. QED
    BY <1>3, <2>1, <2>3 DEF NewRoom, Enrols
<1>4. ASSUME NEW u \in User, JoinRoom(u) \/ JoinDeletedRoom(u)
      PROVE  messages' = messages /\ rooms' = rooms /\ Enrols
  <2>1. Head(queue[u]).room \in Room
    BY <1>4, TakeFacts, HeadIsRequest DEF JoinRoom, JoinDeletedRoom, Roomless, Request
  <2>2. QED
    BY <1>4, <2>1 DEF JoinRoom, JoinDeletedRoom, Enrols
<1>5. ASSUME NEW u \in User, BanMember(u) PROVE messages' = messages /\ rooms' = rooms /\ Bans
  <2>1. Head(queue[u]).room \in Room /\ Head(queue[u]).target \in Nat \cup User
    BY <1>5, TakeFacts DEF BanMember, Roomless, Request
  <2>2. QED
    BY <1>5, <2>1 DEF BanMember, Bans
<1>6. ASSUME NEW u \in User, EditRoomName(u) \/ EditRoomDesc(u)
      PROVE  messages' = messages /\ members' = members /\ Ids(rooms) \subseteq Ids(rooms')
  <2> DEFINE text == Head(queue[u]).text
  <2>1. \A r \in rooms : [r EXCEPT !.name = text].id = r.id /\ [r EXCEPT !.desc = text].id = r.id
    BY DEF TypeOK, RoomRow
  <2>2. \A r \in rooms : \E s \in rooms' : s.id = r.id
    BY <1>6, <2>1 DEF EditRoomName, EditRoomDesc, RenameRoom, DescribeRoom
  <2>3. QED
    BY <1>6, <2>2 DEF EditRoomName, EditRoomDesc, Ids
<1>7. ASSUME NEW u \in User, EditMessageText(u)
      PROVE  Keeps(messages', messages) /\ members' = members /\ rooms' = rooms
  <2> DEFINE q == Head(queue[u])
  <2>1. \A m \in messages : /\ [m EXCEPT !.text = q.text].user = m.user
                            /\ [m EXCEPT !.text = q.text].room = m.room
    BY DEF TypeOK, MessageRow
  <2>2. QED
    BY <1>7, <2>1 DEF EditMessageText, EditMessage, Keeps
<1>8. ASSUME NEW u \in User, DelMsg(u) \/ ClearRoom(u)
      PROVE  Keeps(messages', messages) /\ members' = members /\ rooms' = rooms
  BY <1>8 DEF DelMsg, ClearRoom, DeleteMessage, WithoutRoom, Keeps
<1>9. ASSUME NEW u \in User,
             \/ Refuse(u) \/ GetRooms(u) \/ SearchRoom(u) \/ NewMessages(u) \/ LogOut(u) \/ SignIn(u)
      PROVE  messages' = messages /\ members' = members /\ rooms' = rooms
  BY <1>9 DEF Refuse, GetRooms, SearchRoom, NewMessages, LogOut, SignIn
<1>10. ASSUME NEW u \in User, SendMessage(u) PROVE members' = members /\ rooms' = rooms
  BY <1>10 DEF SendMessage
<1>11. CASE Tick \/ Restart \/ UNCHANGED vars
  <2>1. messages' = messages /\ members' = members /\ rooms' = rooms
    BY <1>11 DEF Tick, Restart, vars
  <2>2. QED
    BY <1>k, <2>1
<1>12. CASE \E u \in User : ClientStep(u) \/ SignIn(u)
  BY <1>k, <1>1, <1>9, <1>12
<1>13. CASE \E u \in User : Handle(u)
  <2>1. PICK u \in User : Handle(u)
    BY <1>13
  <2>2. CASE Refuse(u) \/ GetRooms(u) \/ SearchRoom(u) \/ NewMessages(u) \/ LogOut(u)
    BY <1>k, <1>9, <2>2
  <2>3. CASE NewRoom(u) \/ JoinRoom(u) \/ JoinDeletedRoom(u) \/ BanMember(u)
    BY <1>k, <1>3, <1>4, <1>5, <2>3
  <2>4. CASE EditRoomName(u) \/ EditRoomDesc(u) \/ EditMessageText(u) \/ DelMsg(u) \/ ClearRoom(u)
    BY <1>k, <1>6, <1>7, <1>8, <2>4
  <2>5. CASE DelRoom(u) \/ SendMessage(u)
    BY <1>2, <1>10, <2>5
  <2>6. QED
    BY <2>1, <2>2, <2>3, <2>4, <2>5 DEF Handle
<1>14. QED
  BY <1>11, <1>12, <1>13 DEF Next

\* Every stored message is by a member of its room: the end of a room, the only
\* step that takes member rows away, takes the messages of that room too.
THEOREM MessagesByMembers == Spec => []AuthorsAreMembers
<1>1. Init => AuthorsAreMembers
  BY DEF Init, AuthorsAreMembers
<1>2. TypeOK /\ AuthorsAreMembers /\ [Next]_vars => AuthorsAreMembers'
  <2> SUFFICES ASSUME TypeOK, AuthorsAreMembers, [Next]_vars,
                      NEW m \in messages'
               PROVE  IsMember(members', m.user, m.room)
    BY DEF AuthorsAreMembers
  <2>1. CASE /\ Keeps(messages', messages)
             /\ members' = members \/ Enrols \/ Bans
    <3>1. PICK n \in messages : n.user = m.user /\ n.room = m.room
      BY <2>1 DEF Keeps
    <3>2. IsMember(members, m.user, m.room)
      BY <3>1 DEF AuthorsAreMembers
    <3>3. QED
      BY <2>1, <3>2, MembersStay
  <2>2. ASSUME NEW r \in Room, members' = WithoutRoom(members, r), messages' = WithoutRoom(messages, r)
        PROVE  IsMember(members', m.user, m.room)
    <3>1. m \in messages /\ m.room # r
      BY <2>2 DEF WithoutRoom
    <3>2. PICK x \in members : x.user = m.user /\ x.room = m.room
      BY <3>1 DEF AuthorsAreMembers, IsMember, MemberRows
    <3>3. QED
      BY <2>2, <3>1, <3>2 DEF WithoutRoom, IsMember, MemberRows
  <2>3. ASSUME NEW u \in User, SendMessage(u), members' = members
        PROVE  IsMember(members', m.user, m.room)
    <3>1. m \in messages \/ (m.user = u /\ m.room = Head(queue[u]).room)
      BY <2>3 DEF SendMessage, InsertMessage
    <3>2. QED
      BY <2>3, <3>1, SenderIsMember DEF AuthorsAreMembers
  <2>4. QED
    BY <2>1, <2>2, <2>3, MessageSteps
<1>3. QED
  BY <1>1, <1>2, TypeCorrect, PTL DEF Spec

-------------------------------------------------------------------------------
(* A join that ends the process leaves a member row without a room.  It is *)
(* harmless to the messages only because the end of the process empties    *)
(* every queue and every list of rooms: its user cannot write until a room *)
(* takes the id.                                                           *)

\* Nothing on u's side can still write to room r.
Silent(u, r) ==
  /\ ~Lists(u, r)
  /\ \A i \in 1 .. Len(queue[u]) : queue[u][i].op = "send_message" => queue[u][i].room # r

OrphansAreSilent ==
  \A u \in User, r \in Room :
    IsMember(members, u, r) /\ ~RoomExists(rooms, r) => Silent(u, r)

\* A client that does not list the room writes no message to it.
LEMMA AskKeepsSilence ==
  ASSUME TypeOK, NEW u \in User, ClientStep(u), NEW v \in User, NEW r \in Room, Silent(v, r)
  PROVE  Silent(v, r)'
<1> USE DEF tables
<1>1. \E q : Ask(u, q) /\ (q.op = "send_message" => Lists(u, q.room))
  <2>1. \A op, room, target, text : /\ Req(op, room, target, text).op = op
                                    /\ Req(op, room, target, text).room = room
    BY DEF Req
  <2>2. CASE AskNewRoom(u) \/ AskSearchRoom(u) \/ AskJoinRoom(u) \/ AskLogOut(u)
    BY <2>1, <2>2 DEF AskNewRoom, AskSearchRoom, AskJoinRoom, AskLogOut
  <2>3. CASE AskAsCustomer(u)
    BY <2>1, <2>3 DEF AskAsCustomer
  <2>4. CASE AskSendMessage(u) \/ AskNewMessages(u)
    BY <2>1, <2>4 DEF AskSendMessage, AskNewMessages
  <2>5. CASE AskAboutMessage(u)
    BY <2>1, <2>5 DEF AskAboutMessage
  <2>6. QED
    BY <2>2, <2>3, <2>4, <2>5 DEF ClientStep
<1>2. PICK q : Ask(u, q) /\ (q.op = "send_message" => Lists(u, q.room))
  BY <1>1
<1>3. grooms' = grooms /\ Lists(v, r)' = Lists(v, r)
  BY <1>2 DEF Ask, Lists
<1>4. CASE v # u
  BY <1>2, <1>3, <1>4 DEF Ask, Silent, TypeOK
<1>5. CASE v = u
  <2>1. q.op = "send_message" => q.room # r
    BY <1>2, <1>5 DEF Silent
  <2>2. queue'[u] = Append(queue[u], q) /\ queue[u] \in Seq(Request)
    BY <1>2 DEF Ask, TypeOK
  <2>3. \A i \in 1 .. Len(queue'[u]) :
          \/ i \in 1 .. Len(queue[u]) /\ queue'[u][i] = queue[u][i]
          \/ queue'[u][i] = q
    BY <2>2
  <2>4. QED
    BY <1>3, <1>5, <2>1, <2>3 DEF Silent
<1>6. QED
  BY <1>4, <1>5

LEMMA TailShifts ==
  ASSUME NEW S, NEW s \in Seq(S), s # <<>>
  PROVE  \A i \in 1 .. Len(Tail(s)) : i + 1 \in 1 .. Len(s) /\ Tail(s)[i] = s[i + 1]
<1>1. Len(Tail(s)) = Len(s) - 1 /\ Len(s) \in Nat
  BY HeadTailProperties, LenProperties
<1>2. \A i \in 1 .. Len(Tail(s)) : i + 1 \in 1 .. Len(s)
  BY <1>1
<1>3. \A i \in 1 .. Len(Tail(s)) : Tail(s)[i] = s[i + 1]
  BY HeadTailProperties
<1>4. QED
  BY <1>2, <1>3

\* Taking a request from a queue adds none, and a handler other than get_rooms,
\* new_room and join_room lists no room.
LEMMA ShorterQueueIsSilent ==
  ASSUME TypeOK, NEW u \in User, queue[u] # <<>>, queue' = [queue EXCEPT ![u] = Tail(@)],
         NEW v \in User, NEW r \in Room, Silent(v, r), ~Lists(v, r)'
  PROVE  Silent(v, r)'
<1>1. CASE v # u
  BY <1>1 DEF Silent, TypeOK
<1>2. CASE v = u
  <2>1. queue[u] \in Seq(Request) /\ queue'[u] = Tail(queue[u])
    BY DEF TypeOK
  <2>2. \A i \in 1 .. Len(queue'[u]) : i + 1 \in 1 .. Len(queue[u]) /\ queue'[u][i] = queue[u][i + 1]
    BY <2>1, TailShifts
  <2>3. QED
    BY <1>2, <2>2 DEF Silent
<1>3. QED
  BY <1>1, <1>2

\* Lists of rooms that do not grow by a room that does not exist.
LEMMA HandlersListRooms ==
  ASSUME TypeOK, NEW u \in User, Handle(u), NEW v \in User, NEW r \in Room,
         ~Lists(v, r), ~RoomExists(rooms', r)
  PROVE  ~Lists(v, r)'
<1> USE DEF tables, clients
<1>g. grooms' = grooms => ~Lists(v, r)'
  BY DEF Lists
<1>a. ASSUME NEW s \in Room, NEW c, AddGroom(u, s, c), r # s PROVE ~Lists(v, r)'
  BY <1>a DEF AddGroom, Lists, TypeOK
<1>c. ASSUME NEW us, NEW s \in Room, CloseRoom(us, s) PROVE ~Lists(v, r)'
  BY <1>c DEF CloseRoom, Lists, TypeOK
<1>1. CASE GetRooms(u)
  <2>1. r \notin Ids(RoomsOf(rooms, members, u))
    BY <1>1 DEF GetRooms, RoomExists, RoomsOf, Ids
  <2>2. QED
    BY <1>1, <2>1 DEF GetRooms, Lists, TypeOK
<1>2. CASE NewRoom(u)
  <2> DEFINE id == RoomIdByDate(rooms', now)
             row == [id |-> NewId(rooms), owner |-> u, date |-> now,
                     name |-> Head(queue[u]).text, desc |-> Empty]
  <2>1. row \in rooms' /\ row.date = now
    BY <1>2 DEF NewRoom, InsertRoom
  <2>2. TypeOK'
    BY <1>2, RoomHandlerTypeOK
  <2>3. id \in Room /\ RoomExists(rooms', id)
    BY <2>1, <2>2, RoomIdByDateType DEF TypeOK, RoomExists
  <2>4. QED
    BY <1>2, <1>a, <2>3 DEF NewRoom
<1>3. CASE JoinRoom(u)
  <2>1. Head(queue[u]).room \in Room
    BY <1>3, TakeFacts DEF JoinRoom, Roomless
  <2>2. RoomExists(rooms', Head(queue[u]).room)
    BY <1>3 DEF JoinRoom
  <2>3. QED
    BY <1>3, <1>a, <2>1, <2>2 DEF JoinRoom
<1>4. CASE BanMember(u)
  <2>1. Head(queue[u]).room \in Room
    BY <1>4, TakeFacts DEF BanMember, Roomless
  <2>2. QED
    BY <1>4, <1>c, <2>1 DEF BanMember
<1>5. CASE DelRoom(u)
  <2>1. Head(queue[u]).room \in Room
    BY <1>5, TakeFacts DEF DelRoom, Roomless
  <2>2. QED
    BY <1>5, <1>c, <2>1 DEF DelRoom
<1>6. CASE JoinDeletedRoom(u)
  BY <1>6 DEF JoinDeletedRoom, ProcessEnds, Lists, NoGrooms
<1>7. CASE LogOut(u)
  BY <1>7 DEF LogOut, Lists, NoGrooms, TypeOK
<1>8. CASE \/ Refuse(u) \/ SearchRoom(u) \/ EditRoomName(u) \/ EditRoomDesc(u)
           \/ SendMessage(u) \/ EditMessageText(u) \/ DelMsg(u) \/ ClearRoom(u) \/ NewMessages(u)
  BY <1>8, <1>g DEF Refuse, SearchRoom, EditRoomName, EditRoomDesc, SendMessage,
                    EditMessageText, DelMsg, ClearRoom, NewMessages
<1>9. QED
  BY <1>1, <1>2, <1>3, <1>4, <1>5, <1>6, <1>7, <1>8 DEF Handle

\* Only new_room and join_room add member rows.
LEMMA OnlyThreeEnrol ==
  ASSUME TypeOK, [Next]_vars, Ids(rooms) \subseteq Ids(rooms'),
         ~ \E u \in User : NewRoom(u) \/ JoinRoom(u) \/ JoinDeletedRoom(u)
  PROVE  members' = members \/ Bans \/ \E s \in Room : /\ members' = WithoutRoom(members, s)
                                                       /\ rooms' = {x \in rooms : x.id # s}
<1> USE DEF tables, clients
<1>1. ASSUME NEW u \in User, ClientStep(u) PROVE members' = members
  BY <1>1 DEF ClientStep, AskNewRoom, AskSearchRoom, AskJoinRoom, AskAsCustomer,
              AskSendMessage, AskNewMessages, AskAboutMessage, AskLogOut, Ask
<1>2. ASSUME NEW u \in User, BanMember(u) PROVE Bans
  <2>1. Head(queue[u]).room \in Room /\ Head(queue[u]).target \in Nat \cup User
    BY <1>2, TakeFacts DEF BanMember, Roomless, Request
  <2>2. QED
    BY <1>2, <2>1 DEF BanMember, Bans
<1>3. ASSUME NEW u \in User, DelRoom(u)
      PROVE  \E s \in Room : members' = WithoutRoom(members, s) /\ rooms' = {x \in rooms : x.id # s}
  <2>1. Head(queue[u]).room \in Room
    BY <1>3, TakeFacts DEF DelRoom, Roomless
  <2>2. QED
    BY <1>3, <2>1 DEF DelRoom
<1>4. ASSUME NEW u \in User,
             \/ Refuse(u) \/ GetRooms(u) \/ SearchRoom(u) \/ EditRoomName(u) \/ EditRoomDesc(u)
             \/ SendMessage(u) \/ EditMessageText(u) \/ DelMsg(u) \/ ClearRoom(u)
             \/ NewMessages(u) \/ LogOut(u) \/ SignIn(u)
      PROVE  members' = members
  BY <1>4 DEF Refuse, GetRooms, SearchRoom, EditRoomName, EditRoomDesc, SendMessage,
              EditMessageText, DelMsg, ClearRoom, NewMessages, LogOut, SignIn
<1>5. CASE Tick \/ Restart \/ UNCHANGED vars
  BY <1>5 DEF Tick, Restart, vars
<1>6. QED
  BY <1>1, <1>2, <1>3, <1>4, <1>5 DEF Next, Handle

\* Every handler but the one that ends the process takes one request.
LEMMA HandlersTake ==
  ASSUME NEW u \in User, Handle(u), ~JoinDeletedRoom(u)
  PROVE  queue[u] # <<>> /\ queue' = [queue EXCEPT ![u] = Tail(@)]
BY DEF Handle, Refuse, GetRooms, NewRoom, SearchRoom, JoinRoom, BanMember, DelRoom, EditRoomName,
       EditRoomDesc, SendMessage, EditMessageText, DelMsg, ClearRoom, NewMessages, LogOut, Take

\* Only a join that ends the process leaves a member row without a room.
LEMMA NoNewOrphans ==
  ASSUME TypeOK, [Next]_vars, ~(\E u \in User : JoinDeletedRoom(u)),
         NEW v, NEW r, IsMember(members', v, r), ~RoomExists(rooms', r)
  PROVE  IsMember(members, v, r) /\ ~RoomExists(rooms, r)
<1> USE DEF tables, clients
<1>1. CASE Ids(rooms) \subseteq Ids(rooms') /\ (members' = members \/ Bans)
  <2>1. ~RoomExists(rooms, r)
    BY <1>1 DEF RoomExists
  <2>2. CASE members' = members
    BY <2>1, <2>2
  <2>3. CASE Bans
    <3>1. PICK s \in Room, t \in Nat \cup User : members' = EditMemberType(members, s, t, "banned")
      BY <2>3 DEF Bans
    <3>2. IsMember(members, v, r)
      BY <3>1, IsMemberAfterBan, MemberRowFacts
    <3>3. QED
      BY <2>1, <3>2
  <2>4. QED
    BY <1>1, <2>2, <2>3
<1>2. ASSUME NEW u \in User, NewRoom(u) PROVE IsMember(members, v, r) /\ ~RoomExists(rooms, r)
  <2> DEFINE id == RoomIdByDate(rooms', now)
             row == [id |-> NewId(rooms), owner |-> u, date |-> now,
                     name |-> Head(queue[u]).text, desc |-> Empty]
  <2>1. row \in rooms' /\ row.date = now /\ rooms \subseteq rooms'
    BY <1>2 DEF NewRoom, InsertRoom
  <2>2. TypeOK'
    BY <1>2, RoomHandlerTypeOK
  <2>3. RoomExists(rooms', id)
    BY <2>1, <2>2, RoomIdByDateType DEF TypeOK, RoomExists
  <2>4. members' = AddMember(members, u, id) /\ r # id
    BY <1>2, <2>3 DEF NewRoom
  <2>5. IsMember(members, v, r)
    BY <2>4, IsMemberAfterAdd
  <2>6. QED
    BY <2>1, <2>5 DEF RoomExists, Ids
<1>3. ASSUME NEW u \in User, JoinRoom(u) PROVE IsMember(members, v, r) /\ ~RoomExists(rooms, r)
  <2>1. rooms' = rooms /\ members' = AddMember(members, u, Head(queue[u]).room) /\ r # Head(queue[u]).room
    BY <1>3 DEF JoinRoom
  <2>2. QED
    BY <2>1, IsMemberAfterAdd
<1>4. ASSUME NEW s \in Room, members' = WithoutRoom(members, s), rooms' = {x \in rooms : x.id # s}
      PROVE  IsMember(members, v, r) /\ ~RoomExists(rooms, r)
  <2>1. r # s /\ IsMember(members, v, r)
    BY <1>4 DEF WithoutRoom, IsMember, MemberRows
  <2>2. QED
    BY <1>4, <2>1 DEF RoomExists, Ids
<1>5. CASE \E u \in User : NewRoom(u) \/ JoinRoom(u)
  BY <1>2, <1>3, <1>5
<1>6. CASE ~ \E u \in User : NewRoom(u) \/ JoinRoom(u)
  <2>1. CASE \E s \in Room : members' = WithoutRoom(members, s) /\ rooms' = {x \in rooms : x.id # s}
    BY <1>4, <2>1
  <2>2. CASE /\ members' = members \/ Enrols \/ Bans
             /\ Ids(rooms) \subseteq Ids(rooms')
    BY <1>1, <1>4, <1>6, <2>2, OnlyThreeEnrol
  <2>3. CASE members' = members /\ rooms' = rooms
    BY <1>1, <2>3
  <2>4. QED
    BY <2>1, <2>2, <2>3, MessageSteps
<1>7. QED
  BY <1>5, <1>6

LEMMA SilenceInvariant ==
  ASSUME TypeOK, OrphansAreSilent, [Next]_vars
  PROVE  OrphansAreSilent'
<1> USE DEF tables, clients
<1> SUFFICES ASSUME NEW v \in User, NEW r \in Room,
                    IsMember(members', v, r), ~RoomExists(rooms', r)
             PROVE  Silent(v, r)'
  BY DEF OrphansAreSilent
<1>1. ASSUME NEW u \in User, JoinDeletedRoom(u) PROVE Silent(v, r)'
  BY <1>1, EmptySeq DEF JoinDeletedRoom, ProcessEnds, Silent, Lists, NoGrooms
<1>2. ASSUME ~(\E u \in User : JoinDeletedRoom(u)) PROVE IsMember(members, v, r) /\ ~RoomExists(rooms, r)
  BY <1>2, NoNewOrphans
<1>3. CASE ~(\E u \in User : JoinDeletedRoom(u))
  <2>1. Silent(v, r)
    BY <1>2, <1>3 DEF OrphansAreSilent
  <2>2. ASSUME NEW u \in User, ClientStep(u) PROVE Silent(v, r)'
    BY <2>1, <2>2, AskKeepsSilence
  <2>3. ASSUME NEW u \in User, Handle(u) PROVE Silent(v, r)'
    <3>1. ~Lists(v, r)'
      BY <2>1, <2>3, HandlersListRooms DEF Silent
    <3>2. queue[u] # <<>> /\ queue' = [queue EXCEPT ![u] = Tail(@)]
      BY <1>3, <2>3, HandlersTake
    <3>3. QED
      BY <2>1, <3>1, <3>2, ShorterQueueIsSilent
  <2>4. ASSUME NEW u \in User, SignIn(u) PROVE Silent(v, r)'
    <3>1. grooms' = grooms /\ queue' = [queue EXCEPT ![u] = <<Req("get_rooms", 0, 0, Empty)>>]
      BY <2>4 DEF SignIn
    <3>2. Lists(v, r)' = Lists(v, r)
      BY <3>1 DEF Lists
    <3>3. CASE v = u
      <4>1. queue'[v] = <<Req("get_rooms", 0, 0, Empty)>>
        BY <3>1, <3>3 DEF TypeOK
      <4>2. \A i \in 1 .. Len(queue'[v]) : queue'[v][i].op = "get_rooms"
        BY <4>1 DEF Req
      <4>3. QED
        BY <2>1, <3>2, <4>2 DEF Silent
    <3>4. CASE v # u
      BY <2>1, <3>1, <3>2, <3>4 DEF Silent, TypeOK
    <3>5. QED
      BY <3>3, <3>4
  <2>5. CASE Tick \/ Restart \/ UNCHANGED vars
    BY <2>1, <2>5 DEF Tick, Restart, vars, Silent, Lists
  <2>6. QED
    BY <2>2, <2>3, <2>4, <2>5 DEF Next
<1>4. QED
  BY <1>1, <1>3

\* No message is stored without its room, though rooms end while messages to
\* them wait, ids of rooms are given again, and a crash leaves member rows behind.
THEOREM MessagesInRooms == Spec => []MessagesHaveRoom
<1>1. Init => OrphansAreSilent /\ MessagesHaveRoom
  BY DEF Init, OrphansAreSilent, MessagesHaveRoom, IsMember, MemberRows
<1>2. TypeOK /\ OrphansAreSilent /\ MessagesHaveRoom /\ [Next]_vars => MessagesHaveRoom'
  <2> SUFFICES ASSUME TypeOK, OrphansAreSilent, MessagesHaveRoom, [Next]_vars,
                      NEW m \in messages'
               PROVE  RoomExists(rooms', m.room)
    BY DEF MessagesHaveRoom
  <2>1. CASE Keeps(messages', messages) /\ Ids(rooms) \subseteq Ids(rooms')
    <3>1. PICK n \in messages : n.room = m.room
      BY <2>1 DEF Keeps
    <3>2. RoomExists(rooms, m.room)
      BY <3>1 DEF MessagesHaveRoom
    <3>3. QED
      BY <2>1, <3>2 DEF RoomExists
  <2>2. ASSUME NEW r \in Room, messages' = WithoutRoom(messages, r), rooms' = {x \in rooms : x.id # r}
        PROVE  RoomExists(rooms', m.room)
    <3>1. m \in messages /\ m.room # r
      BY <2>2 DEF WithoutRoom
    <3>2. RoomExists(rooms, m.room)
      BY <3>1 DEF MessagesHaveRoom
    <3>3. QED
      BY <2>2, <3>1, <3>2 DEF RoomExists, Ids
  <2>3. ASSUME NEW u \in User, SendMessage(u), rooms' = rooms
        PROVE  RoomExists(rooms', m.room)
    <3> DEFINE room == Head(queue[u]).room
    <3>1. CASE m \in messages
      BY <2>3, <3>1 DEF MessagesHaveRoom
    <3>2. CASE m \notin messages
      <4>1. m.room = room
        BY <2>3, <3>2 DEF SendMessage, InsertMessage
      <4>2. room \in Room /\ IsMember(members, u, room)
        BY <2>3, SenderIsMember, TakeFacts DEF SendMessage, Roomless
      <4>3. ~Silent(u, room)
        <5>1. queue[u] \in Seq(Request) /\ queue[u] # <<>> /\ Head(queue[u]).op = "send_message"
          BY <2>3 DEF SendMessage, Take, TypeOK
        <5>2. 1 \in 1 .. Len(queue[u]) /\ queue[u][1] = Head(queue[u])
          BY <5>1, HeadTailProperties, LenProperties
        <5>3. QED
          BY <5>1, <5>2 DEF Silent
      <4>4. RoomExists(rooms, room)
        BY <4>2, <4>3 DEF OrphansAreSilent
      <4>5. QED
        BY <2>3, <4>1, <4>4
    <3>3. QED
      BY <3>1, <3>2
  <2>4. QED
    BY <2>1, <2>2, <2>3, MessageSteps
<1>3. TypeOK /\ OrphansAreSilent /\ [Next]_vars => OrphansAreSilent'
  BY SilenceInvariant
<1>4. QED
  BY <1>1, <1>2, <1>3, TypeCorrect, PTL DEF Spec

\* Every handler but the join that ends the process cleans up after itself: each
\* member row it leaves has its room, if each had before.
THEOREM OrphansByCrash == Spec => OrphansOnlyByCrash
<1>1. ASSUME TypeOK, [Next]_vars, up',
             \A m \in members : RoomExists(rooms, m.room), NEW m \in members'
      PROVE  RoomExists(rooms', m.room)
  <2>1. ~(\E u \in User : JoinDeletedRoom(u))
    BY <1>1 DEF JoinDeletedRoom, ProcessEnds
  <2>2. IsMember(members', m.user, m.room)
    BY <1>1 DEF IsMember, MemberRows
  <2>3. SUFFICES ASSUME ~RoomExists(rooms', m.room) PROVE FALSE
    OBVIOUS
  <2>4. IsMember(members, m.user, m.room) /\ ~RoomExists(rooms, m.room)
    BY <1>1, <2>1, <2>2, <2>3, NoNewOrphans
  <2>5. QED
    BY <1>1, <2>4 DEF IsMember, MemberRows
<1>2. TypeOK /\ [Next]_vars =>
        [/\ \A m \in members : RoomExists(rooms, m.room)
         /\ up'
         => \A m \in members' : RoomExists(rooms', m.room)]_vars
  BY <1>1
<1>3. QED
  BY <1>2, TypeCorrect, PTL DEF Spec, OrphansOnlyByCrash

-------------------------------------------------------------------------------
(* A message is found by its id alone, so that only its author's requests  *)
(* reach it rests on the ids: one message per id, though the id of the     *)
(* last one is given again when it goes.                                   *)

OneMessagePerId == \A m, n \in messages : m.id = n.id => m = n

\* The five handlers that write the table MESSAGES.
LEMMA MessageWriters ==
  ASSUME TypeOK, [Next]_vars, messages' # messages
  PROVE  \E u \in User : \/ DelRoom(u) \/ ClearRoom(u) \/ DelMsg(u)
                         \/ EditMessageText(u) \/ SendMessage(u)
<1> USE DEF tables, clients
<1>1. ASSUME NEW u \in User, ClientStep(u) PROVE messages' = messages
  BY <1>1 DEF ClientStep, AskNewRoom, AskSearchRoom, AskJoinRoom, AskAsCustomer,
              AskSendMessage, AskNewMessages, AskAboutMessage, AskLogOut, Ask
<1>2. ASSUME NEW u \in User,
             \/ Refuse(u) \/ GetRooms(u) \/ NewRoom(u) \/ SearchRoom(u) \/ JoinRoom(u)
             \/ JoinDeletedRoom(u) \/ BanMember(u) \/ EditRoomName(u) \/ EditRoomDesc(u)
             \/ NewMessages(u) \/ LogOut(u) \/ SignIn(u)
      PROVE  messages' = messages
  BY <1>2 DEF Refuse, GetRooms, NewRoom, SearchRoom, JoinRoom, JoinDeletedRoom, BanMember,
              EditRoomName, EditRoomDesc, NewMessages, LogOut, SignIn
<1>3. CASE Tick \/ Restart \/ UNCHANGED vars
  BY <1>3 DEF Tick, Restart, vars
<1>4. QED
  BY <1>1, <1>2, <1>3 DEF Next, Handle

LEMMA IdsStayApart ==
  ASSUME TypeOK, OneMessagePerId, [Next]_vars
  PROVE  OneMessagePerId'
<1>1. CASE messages' \subseteq messages
  BY <1>1 DEF OneMessagePerId
<1>2. ASSUME NEW u \in User, EditMessageText(u) PROVE OneMessagePerId'
  <2> DEFINE q == Head(queue[u])
             Edited(m) == IF m.id = q.target THEN [m EXCEPT !.text = q.text] ELSE m
  <2>1. messages' = {Edited(m) : m \in messages}
    BY <1>2 DEF EditMessageText, EditMessage
  <2>2. \A m \in messages : Edited(m).id = m.id
    BY DEF TypeOK, MessageRow
  <2> HIDE DEF Edited
  <2>3. SUFFICES ASSUME NEW m \in messages', NEW n \in messages', m.id = n.id PROVE m = n
    BY DEF OneMessagePerId
  <2>4. PICK a \in messages, b \in messages : m = Edited(a) /\ n = Edited(b)
    BY <2>1
  <2>5. a = b
    BY <2>2, <2>3, <2>4 DEF OneMessagePerId
  <2>6. QED
    BY <2>4, <2>5
<1>3. ASSUME NEW u \in User, SendMessage(u) PROVE OneMessagePerId'
  <2>1. Ids(messages) \subseteq 0 .. MaxMsg /\ MaxMsg \in Nat
    BY BoundsAreNat DEF TypeOK, MessageRow, Ids
  <2>2. NewId(messages) \in Nat /\ \A m \in messages : m.id < NewId(messages) /\ m.id \in Nat
    BY <2>1, NewIdProperties DEF Ids
  <2>3. \A m \in messages' : m \in messages \/ m.id = NewId(messages)
    BY <1>3 DEF SendMessage, InsertMessage
  <2>4. \A m, n \in messages' : m \notin messages /\ n \notin messages => m = n
    BY <1>3 DEF SendMessage, InsertMessage
  <2>5. QED
    BY <2>2, <2>3, <2>4 DEF OneMessagePerId
<1>4. ASSUME NEW u \in User, DelRoom(u) \/ ClearRoom(u) \/ DelMsg(u)
      PROVE  messages' \subseteq messages
  BY <1>4 DEF DelRoom, ClearRoom, DelMsg, WithoutRoom, DeleteMessage
<1>5. QED
  BY <1>1, <1>2, <1>3, <1>4, MessageWriters

\* What a deletion or an edit takes out of the table is by the user it serves.
LEMMA OwnMessageLeaves ==
  ASSUME TypeOK, OneMessagePerId, NEW u \in User, DelMsg(u) \/ EditMessageText(u),
         NEW m \in messages \ messages'
  PROVE  m.user = u /\ Len(queue'[u]) < Len(queue[u])
<1> DEFINE q == Head(queue[u])
<1>1. queue[u] # <<>> /\ queue' = [queue EXCEPT ![u] = Tail(@)] /\ IsMessageOwner(messages, u, q.target)
  BY DEF DelMsg, EditMessageText, Take, Granted, MayDelete
<1>2. m.id = q.target
  BY DEF DelMsg, EditMessageText, DeleteMessage, EditMessage
<1>3. m.user = u
  BY <1>1, <1>2 DEF IsMessageOwner, OneMessagePerId
<1>4. queue[u] \in Seq(Request) /\ queue'[u] = Tail(queue[u])
  BY <1>1 DEF TypeOK
<1>5. Len(queue'[u]) = Len(queue[u]) - 1 /\ Len(queue[u]) \in Nat
  BY <1>1, <1>4, HeadTailProperties, LenProperties
<1>6. QED
  BY <1>3, <1>5

\* A message changes or goes by a request of its author, or with its whole room,
\* whatever ids and rooms the requests that wait name.
THEOREM MessagesLeave == Spec => MessagesLeaveByAuthor
<1>1. Init => OneMessagePerId
  BY DEF Init, OneMessagePerId
<1>2. TypeOK /\ OneMessagePerId /\ [Next]_vars => OneMessagePerId'
  BY IdsStayApart
<1>3. ASSUME TypeOK, OneMessagePerId, [Next]_vars, NEW m \in messages \ messages'
      PROVE  \/ Len(queue'[m.user]) < Len(queue[m.user])
             \/ \A n \in messages' : n.room # m.room
  <2>1. PICK u \in User : \/ DelRoom(u) \/ ClearRoom(u) \/ DelMsg(u)
                          \/ EditMessageText(u) \/ SendMessage(u)
    BY <1>3, MessageWriters
  <2>2. CASE DelRoom(u) \/ ClearRoom(u)
    BY <1>3, <2>2 DEF DelRoom, ClearRoom, WithoutRoom
  <2>3. CASE DelMsg(u) \/ EditMessageText(u)
    BY <1>3, <2>3, OwnMessageLeaves
  <2>4. CASE SendMessage(u)
    BY <1>3, <2>4 DEF SendMessage, InsertMessage
  <2>5. QED
    BY <2>1, <2>2, <2>3, <2>4
<1>4. TypeOK /\ OneMessagePerId /\ [Next]_vars =>
        [\A m \in messages \ messages' :
           \/ Len(queue'[m.user]) < Len(queue[m.user])
           \/ \A n \in messages' : n.room # m.room]_vars
  BY <1>3
<1>5. QED
  BY <1>1, <1>2, <1>4, TypeCorrect, PTL DEF Spec, MessagesLeaveByAuthor

-------------------------------------------------------------------------------
(* Calm traffic: in it the clients show what is stored, and a room is     *)
(* ruled by its creator.                                                   *)

(* What the requests that wait may still ask for.                           *)

Rule(q) == q.op \in Rules
Named(q) == q.op \in {"edit_message", "del_msg"}

\* A request to rule a room that is there is by its creator, and bans another; a
\* room that is not there, but has a member row left by a crash, is asked nothing; a
\* message that a request names by its id is in the room that it names.
RequestFits(u, q) ==
  /\ Rule(q) => /\ \A x \in rooms : x.id = q.room => x.owner = u
                /\ \A m \in members : m.room = q.room => RoomExists(rooms, q.room)
                /\ q.op = "ban_member" => q.target # u
  /\ Named(q) => \A m \in messages : m.id = q.target => m.room = q.room

RequestsFit == \A u \in User : \A i \in 1 .. Len(queue[u]) : RequestFits(u, queue[u][i])

\* A session begins by asking for the rooms, with none in the list, and its end is
\* the last that is asked; who is not signed in asks nothing and shows nothing.
SessionInOrder(u) ==
  /\ \A i \in 1 .. Len(queue[u]) :
       /\ queue[u][i].op = "get_rooms" => i = 1 /\ \A r \in Room : ~Lists(u, r)
       /\ queue[u][i].op = "log_out" => i = Len(queue[u])
  /\ u \notin online => /\ queue[u] = <<>> /\ shown[u] = {}
                        /\ \A r \in Room : ~Lists(u, r)

SessionsInOrder == \A u \in User : SessionInOrder(u)

(* The tables by their rows.                                                *)

OneRoomPerId == \A r, s \in rooms : r.id = s.id => r = s

Ordinary(u, r) == \E m \in members : m.user = u /\ m.room = r /\ m.perm = "ordinary"
Banned(u, r) == \E m \in members : m.user = u /\ m.room = r /\ m.perm = "banned"

\* A user's rows in a room agree; the creator of a room is an ordinary member; and a
\* row without a room bans nobody.
RowsAgree ==
  /\ \A u \in User, r \in Room : ~(Ordinary(u, r) /\ Banned(u, r))
  /\ \A x \in rooms : Ordinary(x.owner, x.id)
  /\ \A m \in members : m.perm = "banned" => RoomExists(rooms, m.room)

(* The clients' lists and screens.                                          *)

\* A room is listed once, only where it exists and its broadcasts go, and the user
\* is taken for the customer of the rooms that are his.
ListFits(u, r) == Lists(u, r) =>
  /\ Len(grooms[u][r]) = 1
  /\ RoomExists(rooms, r)
  /\ Ordinary(u, r)
  /\ \A x \in rooms : x.id = r => (grooms[u][r][1] <=> x.owner = u)

ListsFit == \A u \in User, r \in Room : ListFits(u, r)

\* What is shown is stored, and its room is listed.
ScreensFit == \A u \in User : \A s \in shown[u] :
  /\ Lists(u, s.room)
  /\ \E m \in messages : ShownAs(u, m) = s

CalmInv ==
  /\ OneRoomPerId /\ OneMessagePerId /\ RowsAgree
  /\ RequestsFit /\ SessionsInOrder /\ ListsFit /\ ScreensFit

-------------------------------------------------------------------------------
(* What waits, before a step and after it.                                  *)

Waits(u, q) == \E i \in 1 .. Len(queue[u]) : queue[u][i] = q

\* The oldest request of u is taken from its queue.
Taken(u) == queue[u] # <<>> /\ queue' = [queue EXCEPT ![u] = Tail(@)]

LEMMA TakenFacts ==
  ASSUME TypeOK, NEW u \in User, Taken(u)
  PROVE  /\ \A v \in User : v # u => queue'[v] = queue[v]
         /\ Len(queue[u]) \in Nat /\ Len(queue'[u]) = Len(queue[u]) - 1
         /\ \A i \in 1 .. Len(queue'[u]) : /\ i + 1 \in 1 .. Len(queue[u])
                                           /\ queue'[u][i] = queue[u][i + 1]
         /\ 1 \in 1 .. Len(queue[u]) /\ queue[u][1] = Head(queue[u])
         /\ Head(queue[u]) \in Request
<1>1. queue[u] \in Seq(Request) /\ queue[u] # <<>> /\ queue'[u] = Tail(queue[u])
  BY DEF TypeOK, Taken
<1>2. \A v \in User : v # u => queue'[v] = queue[v]
  BY DEF TypeOK, Taken
<1>3. Len(queue[u]) \in Nat /\ Len(queue'[u]) = Len(queue[u]) - 1
  BY <1>1, HeadTailProperties, LenProperties
<1>4. 1 \in 1 .. Len(queue[u]) /\ queue[u][1] = Head(queue[u]) /\ Head(queue[u]) \in Request
  BY <1>1, HeadTailProperties, LenProperties
<1>5. QED
  BY <1>1, <1>2, <1>3, <1>4, TailShifts

\* A request that is taken leaves those that wait behind it, which still fit when
\* each of them did before and does after the step.
LEMMA StillFit ==
  ASSUME TypeOK, RequestsFit, NEW u \in User, Taken(u),
         \A v \in User : \A q : Waits(v, q) /\ RequestFits(v, q) => RequestFits(v, q)'
  PROVE  RequestsFit'
<1> SUFFICES ASSUME NEW v \in User, NEW i \in 1 .. Len(queue'[v]),
                    NEW q, q = queue'[v][i]
             PROVE  RequestFits(v, q)'
  BY DEF RequestsFit, RequestFits, Rule, Named
<1>1. Waits(v, q)
  BY TakenFacts DEF Waits
<1>2. RequestFits(v, q)
  BY <1>1 DEF RequestsFit, Waits
<1>3. QED
  BY <1>1, <1>2

LEMMA StillInOrder ==
  ASSUME TypeOK, SessionsInOrder, NEW u \in User, Taken(u), online' = online,
         \A v \in User, r \in Room : v # u /\ ~Lists(v, r) => ~Lists(v, r)',
         \A v \in User : v \notin online => shown'[v] \subseteq shown[v]
  PROVE  SessionsInOrder'
<1> SUFFICES ASSUME NEW v \in User PROVE SessionInOrder(v)'
  BY DEF SessionsInOrder
<1>1. SessionInOrder(v)
  BY DEF SessionsInOrder
<1>2. CASE v # u
  BY <1>1, <1>2, TakenFacts DEF SessionInOrder
<1>3. CASE v = u
  <2>1. u \in online
    BY <1>1, <1>3 DEF SessionInOrder, Taken
  <2>2. \A i \in 1 .. Len(queue'[u]) : /\ queue'[u][i].op # "get_rooms"
                                       /\ queue'[u][i].op = "log_out" => i = Len(queue'[u])
    <3> SUFFICES ASSUME NEW i \in 1 .. Len(queue'[u])
                 PROVE  /\ queue'[u][i].op # "get_rooms"
                        /\ queue'[u][i].op = "log_out" => i = Len(queue'[u])
      OBVIOUS
    <3>1. /\ i + 1 \in 1 .. Len(queue[u]) /\ queue'[u][i] = queue[u][i + 1]
          /\ Len(queue'[u]) = Len(queue[u]) - 1 /\ Len(queue[u]) \in Nat
      BY TakenFacts
    <3>2. /\ queue[u][i + 1].op = "get_rooms" => i + 1 = 1
          /\ queue[u][i + 1].op = "log_out" => i + 1 = Len(queue[u])
      BY <1>1, <1>3, <3>1 DEF SessionInOrder
    <3>3. i \in 1 .. Len(queue[u]) - 1
      BY <3>1
    <3>4. QED
      BY <3>1, <3>2, <3>3
  <2>3. QED
    BY <1>3, <2>1, <2>2 DEF SessionInOrder
<1>4. QED
  BY <1>2, <1>3

\* While the three tables stay, so does what is said of them.
LEMMA TablesStay ==
  ASSUME CalmInv, UNCHANGED tables
  PROVE  /\ OneRoomPerId' /\ OneMessagePerId' /\ RowsAgree'
         /\ \A v, q : RequestFits(v, q) => RequestFits(v, q)'
BY DEF CalmInv, tables, OneRoomPerId, OneMessagePerId, RowsAgree, Ordinary, Banned, RequestFits,
       Rule, Named

\* While tables, lists and screens stay, a handler disturbs nothing.
LEMMA QuietHandler ==
  ASSUME TypeOK, CalmInv, NEW u \in User, Taken(u), UNCHANGED <<tables, grooms, shown, online>>
  PROVE  CalmInv'
<1>1. RequestsFit'
  BY TablesStay, StillFit DEF CalmInv
<1>2. SessionsInOrder'
  BY StillInOrder DEF CalmInv, Lists
<1>3. ListsFit' /\ ScreensFit'
  BY DEF CalmInv, tables, ListsFit, ListFits, ScreensFit, Lists, Ordinary
<1>4. QED
  BY <1>1, <1>2, <1>3, TablesStay DEF CalmInv

-------------------------------------------------------------------------------
(* Steps of the clients.                                                    *)

LEMMA ReqParts ==
  ASSUME NEW op, NEW room, NEW target, NEW text, NEW q, q = Req(op, room, target, text)
  PROVE  q.op = op /\ q.room = room /\ q.target = target
BY DEF Req

\* A client asks to rule what it was told is its user's, and for messages that it
\* shows.
LEMMA AskFits ==
  ASSUME TypeOK, CalmInv, NEW u \in User, ClientStep(u)
  PROVE  \E q : Ask(u, q) /\ q.op # "get_rooms" /\ RequestFits(u, q)
<1>1. CASE AskNewRoom(u) \/ AskSearchRoom(u) \/ AskJoinRoom(u) \/ AskSendMessage(u)
           \/ AskNewMessages(u) \/ AskLogOut(u)
  <2>1. PICK q : Ask(u, q) /\ q.op \in {"new_room", "search_room", "join_room", "send_message",
                                      "new_messages", "log_out"}
    BY <1>1, ReqParts DEF AskNewRoom, AskSearchRoom, AskJoinRoom, AskSendMessage, AskNewMessages,
                          AskLogOut
  <2>2. QED
    BY <2>1 DEF RequestFits, Rule, Rules, Named
<1>2. CASE AskAsCustomer(u)
  <2>1. PICK r \in Room : /\ Customer(u, r)
                          /\ \E q : /\ Ask(u, q) /\ q.op \in Rules /\ q.room = r
                                    /\ q.op = "ban_member" => q.target # u
    BY <1>2, ReqParts DEF AskAsCustomer, Rules
  <2>2. PICK i \in 1 .. Len(grooms[u][r]) : grooms[u][r][i]
    BY <2>1 DEF Customer
  <2>3. grooms[u][r] \in Seq(BOOLEAN)
    BY DEF TypeOK
  <2>4. Lists(u, r) /\ ListFits(u, r)
    BY <2>2, <2>3, LenProperties DEF Lists, CalmInv, ListsFit
  <2>5. RoomExists(rooms, r) /\ \A x \in rooms : x.id = r => x.owner = u
    BY <2>2, <2>4 DEF ListFits
  <2>6. QED
    BY <2>1, <2>5 DEF RequestFits, Rule, Rules, Named
<1>3. CASE AskAboutMessage(u)
  <2>1. PICK s \in shown[u] : \E q : /\ Ask(u, q) /\ Named(q)
                                     /\ q.room = s.room /\ q.target = s.msg
    BY <1>3, ReqParts DEF AskAboutMessage, Named
  <2>2. PICK m \in messages : ShownAs(u, m) = s
    BY DEF CalmInv, ScreensFit
  <2>3. \A n \in messages : n.id = s.msg => n.room = s.room
    BY <2>2 DEF ShownAs, CalmInv, OneMessagePerId
  <2>4. QED
    BY <2>1, <2>3 DEF RequestFits, Rule, Rules, Named
<1>4. QED
  BY <1>1, <1>2, <1>3 DEF ClientStep

LEMMA ClientCalm ==
  ASSUME TypeOK, CalmInv, NEW u \in User, ClientStep(u)
  PROVE  CalmInv'
<1>1. PICK q : Ask(u, q) /\ q.op # "get_rooms" /\ RequestFits(u, q)
  BY AskFits
<1>2. UNCHANGED tables /\ grooms' = grooms /\ shown' = shown /\ online' = online
  BY <1>1 DEF Ask
<1>3. /\ \A v \in User : v # u => queue'[v] = queue[v]
      /\ queue'[u] = Append(queue[u], q) /\ queue[u] \in Seq(Request) /\ u \in online
      /\ \A i \in 1 .. Len(queue[u]) : queue[u][i].op # "log_out"
  BY <1>1 DEF Ask, TypeOK
<1>4. /\ Len(queue[u]) \in Nat /\ Len(queue'[u]) = Len(queue[u]) + 1
      /\ \A i \in 1 .. Len(queue[u]) : queue'[u][i] = queue[u][i]
      /\ queue'[u][Len(queue[u]) + 1] = q
  BY <1>3, LenProperties
<1>5. RequestsFit'
  <2> SUFFICES ASSUME NEW v \in User, NEW i \in 1 .. Len(queue'[v]),
                      NEW p, p = queue'[v][i]
               PROVE  RequestFits(v, p)'
    BY DEF RequestsFit, RequestFits, Rule, Named
  <2>1. RequestFits(v, p)
    <3>1. CASE v # u
      BY <1>3, <3>1 DEF CalmInv, RequestsFit
    <3>2. CASE v = u /\ i \in 1 .. Len(queue[u])
      BY <1>4, <3>2 DEF CalmInv, RequestsFit
    <3>3. CASE v = u /\ i = Len(queue[u]) + 1
      BY <1>1, <1>4, <3>3
    <3>4. QED
      BY <1>4, <3>1, <3>2, <3>3
  <2>2. QED
    BY <1>2, <2>1, TablesStay
<1>6. SessionsInOrder'
  <2> SUFFICES ASSUME NEW v \in User PROVE SessionInOrder(v)'
    BY DEF SessionsInOrder
  <2>1. SessionInOrder(v) /\ \A r : Lists(v, r)' = Lists(v, r)
    BY <1>2 DEF CalmInv, SessionsInOrder, Lists
  <2>2. CASE v # u
    BY <1>2, <1>3, <2>1, <2>2 DEF SessionInOrder
  <2>3. CASE v = u
    BY <1>1, <1>2, <1>3, <1>4, <2>1, <2>3 DEF SessionInOrder
  <2>4. QED
    BY <2>2, <2>3
<1>7. ListsFit' /\ ScreensFit'
  BY <1>2 DEF CalmInv, tables, ListsFit, ListFits, ScreensFit, Lists, Ordinary
<1>8. QED
  BY <1>2, <1>5, <1>6, <1>7, TablesStay DEF CalmInv

-------------------------------------------------------------------------------
(* Handlers that change what one client lists or shows.                     *)

LEMMA OneElement == \A b : Append(<<>>, b) = <<b>> /\ Len(<<b>>) = 1 /\ <<b>>[1] = b /\ <<b>> # <<>>
  OBVIOUS

LEMMA GetRoomsCalm ==
  ASSUME TypeOK, CalmInv, NEW u \in User, GetRooms(u)
  PROVE  CalmInv'
<1> DEFINE mine == RoomsOf(rooms, members, u)
<1>1. Taken(u) /\ UNCHANGED tables /\ online' = online /\ shown' = shown
  BY DEF GetRooms, Take, Taken
<1>2. \A r \in Room : grooms[u][r] = <<>>
  <2>1. queue[u][1].op = "get_rooms" /\ 1 \in 1 .. Len(queue[u])
    BY <1>1, TakenFacts DEF GetRooms, Take
  <2>2. QED
    BY <2>1 DEF CalmInv, SessionsInOrder, SessionInOrder, Lists
<1>3. /\ \A v \in User : v # u => grooms'[v] = grooms[v]
      /\ \A r \in Room : grooms'[u][r] = IF r \in Ids(mine)
                                           THEN Append(<<>>, RoomById(mine, r).owner = u) ELSE <<>>
  BY <1>2 DEF GetRooms, TypeOK
<1>4. RequestsFit'
  BY <1>1, TablesStay, StillFit DEF CalmInv
<1>5. SessionsInOrder'
  BY <1>1, <1>3, StillInOrder DEF CalmInv, Lists
<1>6. ListsFit'
  <2> SUFFICES ASSUME NEW v \in User, NEW r \in Room, Lists(v, r)' PROVE ListFits(v, r)'
    BY DEF ListsFit, ListFits
  <2>1. CASE v # u
    BY <1>1, <1>3, <2>1 DEF CalmInv, ListsFit, ListFits, Lists, Ordinary, tables
  <2>2. CASE v = u
    <3> DEFINE flag == RoomById(mine, r).owner = u
    <3>0. grooms'[u][r] = IF r \in Ids(mine) THEN Append(<<>>, flag) ELSE <<>>
      BY <1>3
    <3> HIDE DEF flag
    <3>1. r \in Ids(mine) /\ grooms'[u][r] = <<flag>>
      BY <2>2, <3>0, OneElement DEF Lists
    <3>2. PICK x \in mine : x.id = r
      BY <3>1 DEF Ids
    <3>3. x \in rooms /\ u \in MembersList(members, r)
      BY <3>2 DEF RoomsOf
    <3>4. RoomById(mine, r) \in mine /\ RoomById(mine, r).id = r
      BY <3>2 DEF RoomById
    <3>5. \A y \in rooms : y.id = r => y = RoomById(mine, r)
      BY <3>4 DEF RoomsOf, CalmInv, OneRoomPerId
    <3>6. Ordinary(u, r)
      BY <3>3, MemberRowFacts DEF MembersList, Ordinary
    <3>7. Len(grooms'[u][r]) = 1 /\ grooms'[u][r][1] = (RoomById(mine, r).owner = u)
      BY <3>1, OneElement, Zenon DEF flag
    <3>8. RoomExists(rooms, r)
      BY <3>2, <3>3 DEF RoomExists, Ids
    <3>9. QED
      BY <1>1, <2>2, <3>5, <3>6, <3>7, <3>8 DEF ListFits, Ordinary, tables
  <2>3. QED
    BY <2>1, <2>2
<1>7. ScreensFit'
  <2>1. \A v \in User, r \in Room : Lists(v, r) => Lists(v, r)'
    BY <1>2, <1>3 DEF Lists
  <2>2. \A v \in User : \A t \in shown[v] : t.room \in Room
    BY DEF TypeOK, Shown
  <2>3. QED
    BY <1>1, <2>1, <2>2 DEF CalmInv, ScreensFit, tables, ShownAs
<1>8. QED
  BY <1>1, <1>4, <1>5, <1>6, <1>7, TablesStay DEF CalmInv

LEMMA NewMessagesCalm ==
  ASSUME TypeOK, CalmInv, NEW u \in User, NewMessages(u)
  PROVE  CalmInv'
<1> DEFINE room == Head(queue[u]).room
<1>1. Taken(u) /\ UNCHANGED tables /\ online' = online /\ grooms' = grooms
  BY DEF NewMessages, Take, Taken
<1>2. \A v \in User : v # u => shown'[v] = shown[v]
  BY DEF NewMessages, TypeOK
<1>3. \A t \in shown'[u] : \/ t \in shown[u]
                           \/ Lists(u, room) /\ \E m \in messages : m.room = room /\ t = ShownAs(u, m)
  BY DEF NewMessages, TypeOK
<1>4. u \in online
  BY <1>1 DEF CalmInv, SessionsInOrder, SessionInOrder, Taken
<1>5. RequestsFit'
  BY <1>1, TablesStay, StillFit DEF CalmInv
<1>6. SessionsInOrder'
  BY <1>1, <1>2, <1>4, StillInOrder DEF CalmInv, Lists
<1>7. ListsFit'
  BY <1>1 DEF CalmInv, tables, ListsFit, ListFits, Lists, Ordinary
<1>8. ScreensFit'
  <2>1. \A m \in messages : ShownAs(u, m).room = m.room
    BY DEF ShownAs
  <2>2. \A t \in shown'[u] : Lists(u, t.room) /\ \E m \in messages : ShownAs(u, m) = t
    BY <1>3, <2>1 DEF CalmInv, ScreensFit
  <2>3. QED
    BY <1>1, <1>2, <2>2 DEF CalmInv, ScreensFit, tables, Lists, ShownAs
<1>9. QED
  BY <1>1, <1>5, <1>6, <1>7, <1>8, TablesStay DEF CalmInv

LEMMA LogOutCalm ==
  ASSUME TypeOK, CalmInv, NEW u \in User, LogOut(u)
  PROVE  CalmInv'
<1>1. Taken(u) /\ UNCHANGED tables /\ online' = online \ {u}
  BY DEF LogOut, Take, Taken
<1>2. /\ \A v \in User : v # u => grooms'[v] = grooms[v] /\ shown'[v] = shown[v]
      /\ shown'[u] = {} /\ \A r \in Room : grooms'[u][r] = <<>>
  BY DEF LogOut, TypeOK, NoGrooms
<1>3. queue'[u] = <<>>
  <2>1. queue[u][1].op = "log_out" /\ 1 \in 1 .. Len(queue[u])
    BY <1>1, TakenFacts DEF LogOut, Take
  <2>2. Len(queue'[u]) = 0
    BY <1>1, <2>1, TakenFacts DEF CalmInv, SessionsInOrder, SessionInOrder
  <2>3. queue'[u] \in Seq(Request)
    BY TakeFacts DEF LogOut
  <2>4. QED
    BY <2>2, <2>3, EmptySeq
<1>4. RequestsFit'
  BY <1>1, TablesStay, StillFit DEF CalmInv
<1>5. SessionsInOrder'
  <2> SUFFICES ASSUME NEW v \in User PROVE SessionInOrder(v)'
    BY DEF SessionsInOrder
  <2>1. CASE v # u
    BY <1>1, <1>2, <2>1, TakenFacts DEF CalmInv, SessionsInOrder, SessionInOrder, Lists
  <2>2. CASE v = u
    BY <1>2, <1>3, <2>2, EmptySeq DEF SessionInOrder, Lists
  <2>3. QED
    BY <2>1, <2>2
<1>6. ListsFit' /\ ScreensFit'
  BY <1>1, <1>2 DEF CalmInv, tables, ListsFit, ListFits, ScreensFit, Lists, Ordinary, ShownAs
<1>7. QED
  BY <1>1, <1>4, <1>5, <1>6, TablesStay DEF CalmInv

LEMMA SignInCalm ==
  ASSUME TypeOK, CalmInv, NEW u \in User, SignIn(u)
  PROVE  CalmInv'
<1> DEFINE q == Req("get_rooms", 0, 0, Empty)
<1>1. /\ u \notin online /\ online' = online \cup {u}
      /\ UNCHANGED tables /\ grooms' = grooms /\ shown' = shown
  BY DEF SignIn, clients
<1>2. /\ \A v \in User : v # u => queue'[v] = queue[v]
      /\ queue'[u] = <<q>>
  BY DEF SignIn, TypeOK
<1>3. /\ \A i \in 1 .. Len(queue'[u]) : i = 1 /\ queue'[u][i].op = "get_rooms"
  BY <1>2 DEF Req
<1>4. RequestsFit'
  <2> SUFFICES ASSUME NEW v \in User, NEW i \in 1 .. Len(queue'[v]),
                      NEW p, p = queue'[v][i]
               PROVE  RequestFits(v, p)'
    BY DEF RequestsFit, RequestFits, Rule, Named
  <2>1. CASE v # u
    BY <1>1, <1>2, <2>1, TablesStay DEF CalmInv, RequestsFit
  <2>2. CASE v = u
    BY <1>3, <2>2 DEF RequestFits, Rule, Rules, Named
  <2>3. QED
    BY <2>1, <2>2
<1>5. SessionsInOrder'
  <2> SUFFICES ASSUME NEW v \in User PROVE SessionInOrder(v)'
    BY DEF SessionsInOrder
  <2>1. SessionInOrder(v) /\ \A r : Lists(v, r)' = Lists(v, r)
    BY <1>1 DEF CalmInv, SessionsInOrder, Lists
  <2>2. CASE v # u
    BY <1>1, <1>2, <2>1, <2>2 DEF SessionInOrder
  <2>3. CASE v = u
    BY <1>1, <1>3, <2>1, <2>3 DEF SessionInOrder
  <2>4. QED
    BY <2>2, <2>3
<1>6. ListsFit' /\ ScreensFit'
  BY <1>1 DEF CalmInv, tables, ListsFit, ListFits, ScreensFit, Lists, Ordinary, ShownAs
<1>7. QED
  BY <1>1, <1>4, <1>5, <1>6, TablesStay DEF CalmInv

-------------------------------------------------------------------------------
(* Handlers that write the table MESSAGES.                                  *)

\* What waits is what calm traffic gives no new id to.
LEMMA WaitingIds ==
  ASSUME TypeOK, NEW v \in User, NEW q, Waits(v, q)
  PROVE  /\ Rule(q) => q.room \in RoomsRuled
         /\ Named(q) => q.target \in MessagesNamed
<1>1. PICK i \in 1 .. Len(queue[v]) : queue[v][i] = q
  BY DEF Waits
<1>2. queue[v] \in Seq(Request)
  BY DEF TypeOK
<1>3. <<v, i>> \in {v} \X DOMAIN queue[v]
  BY <1>2, LenProperties
<1>4. <<v, i>> \in Backlog /\ queue[<<v, i>>[1]][<<v, i>>[2]] = q
  BY <1>1, <1>3 DEF Backlog
<1>5. <<v, i>> \in Pending(q.op)
  BY <1>4 DEF Pending
<1>6. Rule(q) => q.room \in RoomsRuled
  BY <1>4, <1>5 DEF Rule, RoomsRuled
<1>7. Named(q) => q.target \in MessagesNamed
  BY <1>4, <1>5 DEF Named, MessagesNamed
<1>8. QED
  BY <1>6, <1>7

\* A handler that leaves rooms, members and lists alone, gives no message an id that a
\* waiting request names, and shows to those who list a room what it stores there.
LEMMA MessageHandlerCalm ==
  ASSUME TypeOK, CalmInv, [Next]_vars, NEW u \in User, Taken(u),
         rooms' = rooms, members' = members, online' = online, grooms' = grooms,
         \A m \in messages' : \/ m.id \notin MessagesNamed
                              \/ \E n \in messages : n.id = m.id /\ n.room = m.room,
         \A v \in User : \A t \in shown'[v] : /\ Lists(v, t.room)
                                              /\ \E m \in messages' : ShownAs(v, m) = t
  PROVE  CalmInv'
<1>1. OneRoomPerId' /\ OneMessagePerId' /\ RowsAgree'
  BY IdsStayApart DEF CalmInv, OneRoomPerId, RowsAgree, Ordinary, Banned
<1>2. RequestsFit'
  <2>1. ASSUME NEW v \in User, NEW q, Waits(v, q), RequestFits(v, q) PROVE RequestFits(v, q)'
    BY <2>1, WaitingIds DEF RequestFits, Rule, Named
  <2>2. QED
    BY <2>1, StillFit DEF CalmInv
<1>3. \A v \in User, r \in Room : Lists(v, r)' = Lists(v, r)
  BY DEF Lists
<1>4. SessionsInOrder'
  <2>1. ASSUME NEW v \in User, v \notin online PROVE shown'[v] \subseteq shown[v]
    <3>1. \A r \in Room : ~Lists(v, r)
      BY <2>1 DEF CalmInv, SessionsInOrder, SessionInOrder
    <3>2. TypeOK'
      BY TypeIsKept
    <3>3. \A t \in shown'[v] : t.room \in Room
      BY <3>2 DEF TypeOK, Shown
    <3>4. QED
      BY <3>1, <3>3
  <2>2. QED
    BY <1>3, <2>1, StillInOrder DEF CalmInv
<1>5. ListsFit' /\ ScreensFit'
  BY <1>3 DEF CalmInv, ListsFit, ListFits, ScreensFit, Lists, Ordinary, ShownAs
<1>6. QED
  BY <1>1, <1>2, <1>4, <1>5 DEF CalmInv

LEMMA SendMessageCalm ==
  ASSUME TypeOK, CalmInv, [Next]_vars, CalmStep, NEW u \in User, SendMessage(u)
  PROVE  CalmInv'
<1> DEFINE q == Head(queue[u])
           new == [id |-> NewId(messages), room |-> q.room, user |-> u,
                   date |-> now, text |-> q.text]
<1>1. /\ Taken(u) /\ online' = online /\ grooms' = grooms
      /\ rooms' = rooms /\ members' = members
  BY DEF SendMessage, Take, Taken
<1>2. messages' = messages \cup {new} /\ new.id = NewId(messages) /\ new.room = q.room
      /\ new.user = u /\ new.date = now
  BY DEF SendMessage, InsertMessage
<1>3. NewId(messages) \notin Ids(messages)
  <2>1. Ids(messages) \subseteq 0 .. MaxMsg /\ MaxMsg \in Nat
    BY BoundsAreNat DEF TypeOK, MessageRow, Ids
  <2>2. NewId(messages) \in Nat /\ \A m \in messages : m.id < NewId(messages) /\ m.id \in Nat
    BY <2>1, NewIdProperties DEF Ids
  <2>3. QED
    BY <2>2 DEF Ids
<1>4. NewId(messages) \notin MessagesNamed
  BY <1>2, <1>3 DEF CalmStep, Ids
<1>5. MessageIdByDate(messages', q.room, now) = new.id
  <2> DEFINE S == {m \in messages' : m.room = q.room /\ m.date = now}
  <2>1. new \in S /\ \A m \in S : m = new
    BY <1>2 DEF CalmStep
  <2>2. S = {new}
    BY <2>1
  <2>3. \A m \in S : m.id \in Nat
    BY <2>2, TypeIsKept, BoundsAreNat, <1>2 DEF TypeOK, MessageRow
  <2>4. FirstRow(S) \in S
    BY <2>1, <2>3, FirstRowProperties
  <2>5. QED
    BY <2>2, <2>4 DEF MessageIdByDate
<1>6. ASSUME NEW v \in User, NEW t \in shown'[v]
      PROVE  Lists(v, t.room) /\ \E m \in messages' : ShownAs(v, m) = t
  <2> DEFINE sent == [room |-> q.room, id |-> new.id, user |-> u]
  <2>1. sent.room = new.room /\ sent.id = new.id /\ sent.user = new.user
    BY <1>2
  <2>2. ShownAs(v, sent) = ShownAs(v, new)
    BY <2>1 DEF ShownAs
  <2> HIDE DEF new
  <2>3. \/ t \in shown[v]
        \/ Lists(v, sent.room) /\ t = ShownAs(v, sent)
    BY <1>5, <1>6 DEF SendMessage, Show, TypeOK
  <2>4. CASE t \in shown[v]
    BY <1>2, <2>4 DEF CalmInv, ScreensFit
  <2>5. CASE Lists(v, sent.room) /\ t = ShownAs(v, sent)
    <3>1. t.room = sent.room
      BY <2>5 DEF ShownAs
    <3>2. QED
      BY <1>2, <2>2, <2>5, <3>1
  <2>6. QED
    BY <2>3, <2>4, <2>5
<1>7. \A m \in messages' : \/ m.id \notin MessagesNamed
                           \/ \E n \in messages : n.id = m.id /\ n.room = m.room
  BY <1>2, <1>4
<1>8. QED
  BY <1>1, <1>6, <1>7, MessageHandlerCalm

LEMMA EditMessageCalm ==
  ASSUME TypeOK, CalmInv, [Next]_vars, NEW u \in User, EditMessageText(u)
  PROVE  CalmInv'
<1> DEFINE q == Head(queue[u])
           Edited(m) == IF m.id = q.target THEN [m EXCEPT !.text = q.text] ELSE m
<1>1. /\ Taken(u) /\ online' = online /\ grooms' = grooms /\ shown' = shown
      /\ rooms' = rooms /\ members' = members
  BY DEF EditMessageText, Take, Taken, clients
<1>2. messages' = {Edited(m) : m \in messages}
  BY DEF EditMessageText, EditMessage
<1>3. \A m \in messages : /\ Edited(m).id = m.id /\ Edited(m).room = m.room
                          /\ Edited(m).user = m.user
  BY DEF TypeOK, MessageRow
<1> HIDE DEF Edited
<1>4. \A m \in messages' : \E n \in messages : n.id = m.id /\ n.room = m.room
  BY <1>2, <1>3
<1>5. ASSUME NEW v \in User, NEW t \in shown'[v]
      PROVE  Lists(v, t.room) /\ \E m \in messages' : ShownAs(v, m) = t
  <2>1. PICK n \in messages : ShownAs(v, n) = t
    BY <1>1, <1>5 DEF CalmInv, ScreensFit
  <2>2. Edited(n) \in messages' /\ ShownAs(v, Edited(n)) = t
    BY <1>2, <1>3, <2>1 DEF ShownAs
  <2>3. QED
    BY <1>1, <1>5, <2>2 DEF CalmInv, ScreensFit
<1>6. QED
  BY <1>1, <1>4, <1>5, MessageHandlerCalm

\* Who lists a room is among those a broadcast to it goes to.
LEMMA ListersHear ==
  ASSUME TypeOK, CalmInv, NEW v \in User, NEW r \in Room, Lists(v, r)
  PROVE  v \in Audience(r)
<1>1. v \in online
  BY DEF CalmInv, SessionsInOrder, SessionInOrder
<1>2. Ordinary(v, r)
  BY DEF CalmInv, ListsFit, ListFits
<1>3. v \in MembersList(members, r)
  BY <1>2 DEF Ordinary, MembersList
<1>4. QED
  BY <1>1, <1>3 DEF Audience

LEMMA DeleteCalm ==
  ASSUME TypeOK, CalmInv, [Next]_vars, NEW u \in User, DelMsg(u) \/ ClearRoom(u)
  PROVE  CalmInv'
<1> DEFINE q == Head(queue[u])
<1>1. /\ Taken(u) /\ online' = online /\ grooms' = grooms
      /\ rooms' = rooms /\ members' = members /\ messages' \subseteq messages
  BY DEF DelMsg, ClearRoom, Take, Taken, DeleteMessage, WithoutRoom
<1>2. \A v \in User : shown'[v] \subseteq shown[v]
  BY DEF DelMsg, ClearRoom, WithoutRoom, TypeOK
<1>3. ASSUME NEW v \in User, NEW t \in shown'[v]
      PROVE  Lists(v, t.room) /\ \E m \in messages' : ShownAs(v, m) = t
  <2>1. PICK m \in messages : ShownAs(v, m) = t
    BY <1>2, <1>3 DEF CalmInv, ScreensFit
  <2>2. Lists(v, t.room) /\ t.room = m.room /\ t.msg = m.id /\ t.room \in Room
    BY <1>2, <1>3, <2>1 DEF CalmInv, ScreensFit, ShownAs, TypeOK, MessageRow
  <2>3. v \in Audience(t.room)
    BY <2>2, ListersHear
  <2>4. CASE ClearRoom(u)
    BY <1>3, <2>1, <2>2, <2>3, <2>4 DEF ClearRoom, WithoutRoom
  <2>5. CASE DelMsg(u)
    <3>1. m.id = q.target => m.room = q.room
      <4>1. queue[u][1] = q /\ 1 \in 1 .. Len(queue[u]) /\ Named(q)
        BY <1>1, <2>5, TakenFacts DEF DelMsg, Take, Named
      <4>2. QED
        BY <4>1 DEF CalmInv, RequestsFit, RequestFits
    <3>2. m.id # q.target
      BY <1>3, <2>2, <2>3, <2>5, <3>1 DEF DelMsg
    <3>3. QED
      BY <2>1, <2>2, <2>5, <3>2 DEF DelMsg, DeleteMessage
  <2>6. QED
    BY <2>4, <2>5
<1>4. QED
  BY <1>1, <1>3, MessageHandlerCalm

-------------------------------------------------------------------------------
(* Handlers that write the tables ROOMS and MEMBERS.                        *)

LEMMA RoomEditCalm ==
  ASSUME TypeOK, CalmInv, NEW u \in User, EditRoomName(u) \/ EditRoomDesc(u)
  PROVE  CalmInv'
<1> DEFINE text == Head(queue[u]).text
<1>1. /\ Taken(u) /\ online' = online /\ grooms' = grooms /\ shown' = shown
      /\ members' = members /\ messages' = messages
  BY DEF EditRoomName, EditRoomDesc, Take, Taken, clients
<1>2. \A x \in rooms : /\ [x EXCEPT !.name = text].id = x.id
                       /\ [x EXCEPT !.name = text].owner = x.owner
                       /\ [x EXCEPT !.desc = text].id = x.id
                       /\ [x EXCEPT !.desc = text].owner = x.owner
  BY DEF TypeOK, RoomRow
<1>3. /\ \A x \in rooms' : \E y \in rooms : y.id = x.id /\ y.owner = x.owner
      /\ \A y \in rooms : \E x \in rooms' : y.id = x.id
  BY <1>2 DEF EditRoomName, EditRoomDesc, RenameRoom, DescribeRoom
<1>4. OneRoomPerId'
  <2> DEFINE room == Head(queue[u]).room
             Renamed(x) == IF x.id = room THEN [x EXCEPT !.name = text] ELSE x
             Told(x) == IF x.id = room THEN [x EXCEPT !.desc = text] ELSE x
  <2>1. \A x \in rooms : Renamed(x).id = x.id /\ Told(x).id = x.id
    BY <1>2
  <2>2. rooms' = {Renamed(x) : x \in rooms} \/ rooms' = {Told(x) : x \in rooms}
    BY DEF EditRoomName, EditRoomDesc, RenameRoom, DescribeRoom
  <2> HIDE DEF Renamed, Told
  <2>3. CASE rooms' = {Renamed(x) : x \in rooms}
    <3>1. \A x, y \in rooms : Renamed(x).id = Renamed(y).id => Renamed(x) = Renamed(y)
      BY <2>1 DEF CalmInv, OneRoomPerId
    <3>2. QED
      BY <2>3, <3>1 DEF OneRoomPerId
  <2>4. CASE rooms' = {Told(x) : x \in rooms}
    <3>1. \A x, y \in rooms : Told(x).id = Told(y).id => Told(x) = Told(y)
      BY <2>1 DEF CalmInv, OneRoomPerId
    <3>2. QED
      BY <2>4, <3>1 DEF OneRoomPerId
  <2>5. QED
    BY <2>2, <2>3, <2>4
<1>5. \A r : RoomExists(rooms, r) => RoomExists(rooms', r)
  BY <1>3 DEF RoomExists, Ids
<1>6. OneMessagePerId' /\ RowsAgree'
  <2>1. \A v, r : (Ordinary(v, r) <=> Ordinary(v, r)') /\ (Banned(v, r) <=> Banned(v, r)')
    BY <1>1 DEF Ordinary, Banned
  <2>2. \A x \in rooms' : Ordinary(x.owner, x.id)
    BY <1>3 DEF CalmInv, RowsAgree
  <2>3. QED
    BY <1>1, <1>5, <2>1, <2>2 DEF CalmInv, RowsAgree, OneMessagePerId
<1>7. RequestsFit'
  <2>1. ASSUME NEW v \in User, NEW q, RequestFits(v, q) PROVE RequestFits(v, q)'
    BY <1>1, <1>3, <1>5, <2>1 DEF RequestFits, Rule, Named
  <2>2. QED
    BY <1>1, <2>1, StillFit DEF CalmInv
<1>8. SessionsInOrder'
  BY <1>1, StillInOrder DEF CalmInv, Lists
<1>9. ListsFit' /\ ScreensFit'
  <2>1. ASSUME NEW v \in User, NEW r \in Room, Lists(v, r)' PROVE ListFits(v, r)'
    <3>1. Lists(v, r) /\ ListFits(v, r)
      BY <1>1, <2>1 DEF Lists, CalmInv, ListsFit
    <3>2. \A x \in rooms' : x.id = r => (grooms[v][r][1] <=> x.owner = v)
      BY <1>3, <3>1 DEF ListFits
    <3>3. QED
      BY <1>1, <1>5, <3>1, <3>2 DEF ListFits, Ordinary
  <2>2. QED
    BY <1>1, <2>1 DEF CalmInv, ListsFit, ListFits, ScreensFit, Lists, ShownAs
<1>10. QED
  BY <1>4, <1>6, <1>7, <1>8, <1>9 DEF CalmInv

LEMMA RowsAfterAdd ==
  ASSUME NEW u, NEW r, members' = AddMember(members, u, r)
  PROVE  /\ \A v, s : Ordinary(v, s)' <=> Ordinary(v, s) \/ (v = u /\ s = r)
         /\ \A v, s : Banned(v, s)' <=> Banned(v, s)
         /\ \A m \in members' : m \in members \/ (m.room = r /\ m.perm = "ordinary")
<1> DEFINE row == [id |-> NewId(MemberRows(members, u, r)), room |-> r, user |-> u,
                   perm |-> "ordinary"]
<1>1. members' = members \cup {row} /\ row.user = u /\ row.room = r /\ row.perm = "ordinary"
  BY DEF AddMember
<1> HIDE DEF row
<1>2. QED
  BY <1>1 DEF Ordinary, Banned

LEMMA RowsAfterBan ==
  ASSUME TypeOK, NEW u, NEW r, members' = EditMemberType(members, r, u, "banned")
  PROVE  /\ \A v, s : Ordinary(v, s)' <=> Ordinary(v, s) /\ ~(v = u /\ s = r)
         /\ \A v, s : ~(v = u /\ s = r) => (Banned(v, s)' <=> Banned(v, s))
         /\ \A m \in members' : m \in members \/ (m.room = r /\ \E n \in members : n.room = r)
<1> DEFINE Edited(m) == IF m.room = r /\ m.user = u THEN [m EXCEPT !.perm = "banned"] ELSE m
<1>1. members' = {Edited(m) : m \in members}
  BY DEF EditMemberType
<1>2. \A m \in members : /\ Edited(m).room = m.room /\ Edited(m).user = m.user
                         /\ m.room = r /\ m.user = u => Edited(m).perm = "banned"
                         /\ ~(m.room = r /\ m.user = u) => Edited(m) = m
  BY DEF TypeOK, MemberRow
<1> HIDE DEF Edited
<1>3. \A v, s : Ordinary(v, s)' <=> Ordinary(v, s) /\ ~(v = u /\ s = r)
  BY <1>1, <1>2 DEF Ordinary
<1>4. \A v, s : ~(v = u /\ s = r) => (Banned(v, s)' <=> Banned(v, s))
  BY <1>1, <1>2 DEF Banned
<1>5. \A m \in members' : m \in members \/ (m.room = r /\ \E n \in members : n.room = r)
  <2>1. ASSUME NEW n \in members
        PROVE  Edited(n) \in members \/ (Edited(n).room = r /\ n.room = r)
    BY <1>2
  <2>2. QED
    BY <1>1, <2>1
<1>6. QED
  BY <1>3, <1>4, <1>5

\* What the clients of us list and show when a room is closed for them.
LEMMA CloseRoomFacts ==
  ASSUME TypeOK, ListsFit, NEW us, NEW r \in Room, CloseRoom(us, r)
  PROVE  /\ \A v \in User, s \in Room :
              grooms'[v][s] = IF v \in us /\ s = r THEN <<>> ELSE grooms[v][s]
         /\ \A v \in User :
              shown'[v] = IF v \in us THEN {t \in shown[v] : t.room # r} ELSE shown[v]
<1>1. ASSUME NEW v \in User, Lists(v, r) PROVE Tail(grooms[v][r]) = <<>>
  <2>1. grooms[v][r] \in Seq(BOOLEAN) /\ grooms[v][r] # <<>> /\ Len(grooms[v][r]) = 1
    BY <1>1 DEF TypeOK, ListsFit, ListFits, Lists
  <2> DEFINE list == grooms[v][r]
  <2> HIDE DEF list
  <2>2. list \in Seq(BOOLEAN) /\ list # <<>> /\ Len(list) = 1
    BY <2>1 DEF list
  <2>3. Tail(list) \in Seq(BOOLEAN) /\ Len(Tail(list)) = 0
    BY <2>2, HeadTailProperties
  <2>4. QED
    BY <2>3, EmptySeq DEF list
<1>2. ASSUME NEW v \in User, NEW s \in Room
      PROVE  grooms'[v][s] = IF v \in us /\ s = r THEN <<>> ELSE grooms[v][s]
  BY <1>1 DEF CloseRoom, TypeOK, Lists
<1>3. QED
  BY <1>2 DEF CloseRoom, WithoutRoom

\* The new room's id is the creator's way back to it: no other room of that second.
LEMMA NewRoomFacts ==
  ASSUME TypeOK, [Next]_vars, CalmStep, NEW u \in User, NewRoom(u)
  PROVE  \E x \in rooms' :
           /\ rooms' = rooms \cup {x} /\ x.owner = u
           /\ x.id \in Room /\ x.id \notin Ids(rooms) /\ x.id \notin RoomsRuled
           /\ members' = AddMember(members, u, x.id)
           /\ AddGroom(u, x.id, TRUE)
<1> DEFINE x == [id |-> NewId(rooms), owner |-> u, date |-> now,
                 name |-> Head(queue[u]).text, desc |-> Empty]
<1>1. rooms' = rooms \cup {x} /\ x.owner = u /\ x.date = now /\ x.id = NewId(rooms)
  BY DEF NewRoom, InsertRoom
<1> HIDE DEF x
<1>2. NewId(rooms) \notin Ids(rooms)
  <2>1. Ids(rooms) \subseteq 0 .. MaxRoom /\ MaxRoom \in Nat
    BY BoundsAreNat DEF TypeOK, RoomRow, Room, Ids
  <2>2. NewId(rooms) \in Nat /\ \A y \in rooms : y.id < NewId(rooms) /\ y.id \in Nat
    BY <2>1, NewIdProperties DEF Ids
  <2>3. QED
    BY <2>2 DEF Ids
<1>3. x.id \notin RoomsRuled
  BY <1>1, <1>2 DEF CalmStep, Ids
<1>4. RoomIdByDate(rooms', now) = x.id
  <2> DEFINE S == {r \in rooms' : r.date = now}
  <2>1. x \in S /\ \A r \in S : r = x
    BY <1>1 DEF CalmStep
  <2>2. \A r \in S : r.id \in Nat
    BY TypeIsKept, BoundsAreNat DEF TypeOK, RoomRow
  <2>3. FirstRow(S) \in S
    BY <2>1, <2>2, FirstRowProperties
  <2>4. QED
    BY <2>1, <2>3 DEF RoomIdByDate
<1>5. x.id \in Room
  BY <1>1 DEF NewRoom
<1>6. QED
  BY <1>1, <1>2, <1>3, <1>4, <1>5 DEF NewRoom

LEMMA NewRoomCalm ==
  ASSUME TypeOK, CalmInv, [Next]_vars, CalmStep, NEW u \in User, NewRoom(u)
  PROVE  CalmInv'
<1>1. Taken(u) /\ online' = online /\ shown' = shown /\ messages' = messages
  BY DEF NewRoom, Take, Taken
<1>2. PICK x \in rooms' : /\ rooms' = rooms \cup {x} /\ x.owner = u
                          /\ x.id \in Room /\ x.id \notin Ids(rooms) /\ x.id \notin RoomsRuled
                          /\ members' = AddMember(members, u, x.id)
                          /\ AddGroom(u, x.id, TRUE)
  BY NewRoomFacts
<1>3. /\ \A y \in rooms : y.id # x.id
      /\ \A r : RoomExists(rooms', r) <=> RoomExists(rooms, r) \/ r = x.id
  BY <1>2 DEF RoomExists, Ids
<1>4. grooms'[u][x.id] = <<TRUE>> /\ ~Lists(u, x.id)
  <2>1. ~RoomExists(rooms, x.id) /\ ListFits(u, x.id)
    BY <1>2 DEF CalmInv, ListsFit, RoomExists
  <2>2. ~Lists(u, x.id)
    BY <2>1 DEF ListFits
  <2>3. QED
    BY <1>2, <2>2, OneElement DEF Lists, AddGroom, TypeOK
<1>5. \A v \in User, r \in Room : v # u \/ r # x.id => grooms'[v][r] = grooms[v][r]
  BY <1>2 DEF AddGroom, TypeOK
<1>6. OneRoomPerId' /\ OneMessagePerId'
  BY <1>1, <1>2, <1>3 DEF CalmInv, OneRoomPerId, OneMessagePerId
<1>7. RowsAgree'
  <2>1. ~Banned(u, x.id)
    BY <1>2 DEF CalmInv, RowsAgree, Banned, RoomExists
  <2>2. \A v \in User, r \in Room : ~(Ordinary(v, r)' /\ Banned(v, r)')
    BY <1>2, <2>1, RowsAfterAdd DEF CalmInv, RowsAgree
  <2>3. \A y \in rooms' : Ordinary(y.owner, y.id)'
    BY <1>2, RowsAfterAdd DEF CalmInv, RowsAgree
  <2>4. \A m \in members' : m.perm = "banned" => RoomExists(rooms', m.room)
    BY <1>2, <1>3, RowsAfterAdd DEF CalmInv, RowsAgree
  <2>5. QED
    BY <2>2, <2>3, <2>4 DEF RowsAgree, Ordinary
<1>8. RequestsFit'
  <2>1. ASSUME NEW v \in User, NEW q, Waits(v, q), RequestFits(v, q) PROVE RequestFits(v, q)'
    <3>1. Rule(q) => q.room # x.id
      BY <1>2, <2>1, WaitingIds
    <3>2. Rule(q) => \A y \in rooms' : y.id = q.room => y.owner = v
      BY <1>2, <2>1, <3>1 DEF RequestFits
    <3>3. Rule(q) => \A m \in members' : m.room = q.room => RoomExists(rooms', q.room)
      BY <1>2, <1>3, <2>1, <3>1, RowsAfterAdd DEF RequestFits
    <3>4. QED
      BY <1>1, <2>1, <3>2, <3>3 DEF RequestFits, Rule, Named
  <2>2. QED
    BY <1>1, <2>1, StillFit DEF CalmInv
<1>9. SessionsInOrder'
  BY <1>1, <1>5, StillInOrder DEF CalmInv, Lists
<1>10. ListsFit'
  <2> SUFFICES ASSUME NEW v \in User, NEW r \in Room, Lists(v, r)' PROVE ListFits(v, r)'
    BY DEF ListsFit, ListFits
  <2>1. CASE v # u \/ r # x.id
    <3>1. Lists(v, r) /\ ListFits(v, r) /\ grooms'[v][r] = grooms[v][r]
      BY <1>5, <2>1 DEF Lists, CalmInv, ListsFit
    <3>2. r # x.id
      BY <1>2, <3>1 DEF ListFits, RoomExists
    <3>3. \A y \in rooms' : y.id = r => (grooms'[v][r][1] <=> y.owner = v)
      BY <1>2, <3>1, <3>2 DEF ListFits
    <3>4. Ordinary(v, r)'
      BY <1>2, <3>1, RowsAfterAdd DEF ListFits
    <3>5. QED
      BY <1>3, <3>1, <3>3, <3>4 DEF ListFits
  <2>2. CASE v = u /\ r = x.id
    <3>1. Len(grooms'[u][x.id]) = 1 /\ grooms'[u][x.id][1] = TRUE
      BY <1>4, OneElement
    <3>2. Ordinary(u, x.id)'
      BY <1>2, RowsAfterAdd
    <3>3. \A y \in rooms' : y.id = r => y.owner = u
      BY <1>2, <1>3, <2>2
    <3>4. QED
      BY <1>3, <2>2, <3>1, <3>2, <3>3 DEF ListFits
  <2>3. QED
    BY <2>1, <2>2
<1>11. ScreensFit'
  <2>1. \A v \in User : \A t \in shown[v] : t.room \in Room
    BY DEF TypeOK, Shown
  <2>2. \A v \in User, r \in Room : Lists(v, r) => Lists(v, r)'
    BY <1>4, <1>5 DEF Lists
  <2>3. QED
    BY <1>1, <2>1, <2>2 DEF CalmInv, ScreensFit, ShownAs
<1>12. QED
  BY <1>6, <1>7, <1>8, <1>9, <1>10, <1>11 DEF CalmInv

LEMMA JoinRoomCalm ==
  ASSUME TypeOK, CalmInv, NEW u \in User, JoinRoom(u)
  PROVE  CalmInv'
<1>2. PICK room \in Room : room = Head(queue[u]).room
  BY TakeFacts DEF JoinRoom, Roomless
<1> DEFINE flag == RoomById(rooms, room).owner = u
<1>1. /\ Taken(u) /\ online' = online /\ shown' = shown /\ messages' = messages
      /\ rooms' = rooms /\ members' = AddMember(members, u, room) /\ RoomExists(rooms, room)
      /\ grooms' = [grooms EXCEPT ![u][room] = Append(@, flag)]
  BY <1>2 DEF JoinRoom, Take, Taken, AddGroom
<1>3. ~IsMember(members, u, room)
  BY <1>2 DEF JoinRoom, Take, Granted, MayJoin
<1>4. ~Ordinary(u, room) /\ ~Banned(u, room)
  BY <1>3 DEF IsMember, MemberRows, Ordinary, Banned
<1> HIDE DEF flag
<1>5. grooms'[u][room] = <<flag>> /\ ~Lists(u, room)
  <2>1. ~Lists(u, room)
    BY <1>2, <1>4 DEF CalmInv, ListsFit, ListFits
  <2>2. QED
    BY <1>1, <1>2, <2>1, OneElement DEF Lists, TypeOK
<1>6. \A v \in User, r \in Room : v # u \/ r # room => grooms'[v][r] = grooms[v][r]
  BY <1>1, <1>2 DEF TypeOK
<1>7. OneRoomPerId' /\ OneMessagePerId'
  BY <1>1 DEF CalmInv, OneRoomPerId, OneMessagePerId
<1>8. RowsAgree'
  <2>1. \A v \in User, r \in Room : ~(Ordinary(v, r)' /\ Banned(v, r)')
    BY <1>1, <1>4, RowsAfterAdd DEF CalmInv, RowsAgree
  <2>2. \A y \in rooms' : Ordinary(y.owner, y.id)'
    BY <1>1, RowsAfterAdd DEF CalmInv, RowsAgree
  <2>3. \A m \in members' : m.perm = "banned" => RoomExists(rooms', m.room)
    BY <1>1, RowsAfterAdd DEF CalmInv, RowsAgree
  <2>4. QED
    BY <2>1, <2>2, <2>3 DEF RowsAgree, Ordinary
<1>9. RequestsFit'
  <2>1. ASSUME NEW v \in User, NEW q, RequestFits(v, q) PROVE RequestFits(v, q)'
    <3>1. Rule(q) => \A m \in members' : m.room = q.room => RoomExists(rooms, q.room)
      BY <1>1, <2>1, RowsAfterAdd DEF RequestFits
    <3>2. QED
      BY <1>1, <2>1, <3>1 DEF RequestFits, Rule, Named
  <2>2. QED
    BY <1>1, <2>1, StillFit DEF CalmInv
<1>10. SessionsInOrder'
  BY <1>1, <1>6, StillInOrder DEF CalmInv, Lists
<1>11. ListsFit'
  <2> SUFFICES ASSUME NEW v \in User, NEW r \in Room, Lists(v, r)' PROVE ListFits(v, r)'
    BY DEF ListsFit, ListFits
  <2>1. CASE v # u \/ r # room
    <3>1. Lists(v, r) /\ ListFits(v, r) /\ grooms'[v][r] = grooms[v][r]
      BY <1>6, <2>1 DEF Lists, CalmInv, ListsFit
    <3>2. Ordinary(v, r)'
      BY <1>1, <3>1, RowsAfterAdd DEF ListFits
    <3>3. QED
      BY <1>1, <3>1, <3>2 DEF ListFits
  <2>2. CASE v = u /\ r = room
    <3>1. Len(grooms'[u][room]) = 1 /\ grooms'[u][room][1] = flag
      BY <1>5, OneElement
    <3>2. Ordinary(u, room)'
      BY <1>1, RowsAfterAdd
    <3>3. RoomById(rooms, room) \in rooms /\ RoomById(rooms, room).id = room
      BY <1>1 DEF RoomExists, Ids, RoomById
    <3>4. \A y \in rooms : y.id = room => y = RoomById(rooms, room)
      BY <3>3 DEF CalmInv, OneRoomPerId
    <3>5. \A y \in rooms : y.id = room => (flag <=> y.owner = u)
      BY <3>4 DEF flag
    <3>6. Len(grooms'[v][r]) = 1 /\ \A y \in rooms' : y.id = r => (grooms'[v][r][1] <=> y.owner = v)
      BY <1>1, <2>2, <3>1, <3>5
    <3>7. QED
      BY <1>1, <2>2, <3>2, <3>6 DEF ListFits
  <2>3. QED
    BY <2>1, <2>2
<1>12. ScreensFit'
  <2>1. \A v \in User : \A t \in shown[v] : t.room \in Room
    BY DEF TypeOK, Shown
  <2>2. \A v \in User, r \in Room : Lists(v, r) => Lists(v, r)'
    BY <1>5, <1>6, OneElement DEF Lists
  <2>3. QED
    BY <1>1, <2>1, <2>2 DEF CalmInv, ScreensFit, ShownAs
<1>13. QED
  BY <1>7, <1>8, <1>9, <1>10, <1>11, <1>12 DEF CalmInv

LEMMA JoinDeletedRoomCalm ==
  ASSUME TypeOK, CalmInv, NEW u \in User, JoinDeletedRoom(u)
  PROVE  CalmInv'
<1>1. PICK room : room = Head(queue[u]).room
  OBVIOUS
<1>2. /\ rooms' = rooms /\ messages' = messages /\ members' = AddMember(members, u, room)
      /\ ~IsMember(members, u, room) /\ ProcessEnds
  BY <1>1 DEF JoinDeletedRoom, Granted, MayJoin
<1>3. ~Banned(u, room)
  BY <1>2 DEF IsMember, MemberRows, Banned
<1>4. OneRoomPerId' /\ OneMessagePerId'
  BY <1>2 DEF CalmInv, OneRoomPerId, OneMessagePerId
<1>5. RowsAgree'
  <2>1. \A v \in User, r \in Room : ~(Ordinary(v, r)' /\ Banned(v, r)')
    BY <1>2, <1>3, RowsAfterAdd DEF CalmInv, RowsAgree
  <2>2. \A y \in rooms' : Ordinary(y.owner, y.id)'
    BY <1>2, RowsAfterAdd DEF CalmInv, RowsAgree
  <2>3. \A m \in members' : m.perm = "banned" => RoomExists(rooms', m.room)
    BY <1>2, RowsAfterAdd DEF CalmInv, RowsAgree
  <2>4. QED
    BY <2>1, <2>2, <2>3 DEF RowsAgree, Ordinary
<1>6. \A v \in User : /\ queue'[v] = <<>> /\ Len(queue'[v]) = 0 /\ shown'[v] = {}
                      /\ \A r \in Room : ~Lists(v, r)'
  BY <1>2, EmptySeq DEF ProcessEnds, NoGrooms, Lists
<1>7. RequestsFit' /\ SessionsInOrder'
  BY <1>6 DEF RequestsFit, SessionsInOrder, SessionInOrder
<1>8. ListsFit' /\ ScreensFit'
  BY <1>6 DEF ListsFit, ListFits, ScreensFit
<1>9. QED
  BY <1>4, <1>5, <1>7, <1>8 DEF CalmInv

\* The request that a handler takes fits.
LEMMA TakenFits ==
  ASSUME TypeOK, CalmInv, NEW u \in User, Taken(u)
  PROVE  RequestFits(u, Head(queue[u]))
BY TakenFacts DEF CalmInv, RequestsFit

LEMMA BanMemberCalm ==
  ASSUME TypeOK, CalmInv, NEW u \in User, BanMember(u)
  PROVE  CalmInv'
<1>1. PICK q : q = Head(queue[u])
  OBVIOUS
<1>2. PICK us : us = {q.target} \cap online
  OBVIOUS
<1>3. /\ Taken(u) /\ online' = online /\ messages' = messages /\ rooms' = rooms
      /\ members' = EditMemberType(members, q.room, q.target, "banned")
      /\ CloseRoom(us, q.room) /\ q.op = "ban_member"
  BY <1>1, <1>2 DEF BanMember, Take, Taken
<1>4. q.room \in Room
  BY <1>1, TakeFacts DEF BanMember, Roomless
<1>5. /\ q.target # u
      /\ \A x \in rooms : x.id = q.room => x.owner = u
      /\ \A m \in members : m.room = q.room => RoomExists(rooms, q.room)
  BY <1>1, <1>3, TakenFits DEF RequestFits, Rule, Rules
<1>6. /\ \A v \in User, s \in Room :
           grooms'[v][s] = IF v \in us /\ s = q.room THEN <<>> ELSE grooms[v][s]
      /\ \A v \in User :
           shown'[v] = IF v \in us THEN {t \in shown[v] : t.room # q.room} ELSE shown[v]
  BY <1>3, <1>4, CloseRoomFacts DEF CalmInv
<1>7. OneRoomPerId' /\ OneMessagePerId'
  BY <1>3 DEF CalmInv, OneRoomPerId, OneMessagePerId
<1>8. RowsAgree'
  <2>1. \A v \in User, r \in Room : ~(Ordinary(v, r)' /\ Banned(v, r)')
    BY <1>3, RowsAfterBan DEF CalmInv, RowsAgree
  <2>2. \A y \in rooms' : Ordinary(y.owner, y.id)'
    BY <1>3, <1>5, RowsAfterBan DEF CalmInv, RowsAgree
  <2>3. \A m \in members' : m.perm = "banned" => RoomExists(rooms', m.room)
    BY <1>3, <1>5, RowsAfterBan DEF CalmInv, RowsAgree
  <2>4. QED
    BY <2>1, <2>2, <2>3 DEF RowsAgree, Ordinary
<1>9. RequestsFit'
  <2>1. ASSUME NEW v \in User, NEW p, RequestFits(v, p) PROVE RequestFits(v, p)'
    <3>1. Rule(p) => \A m \in members' : m.room = p.room => RoomExists(rooms, p.room)
      BY <1>3, <2>1, RowsAfterBan DEF RequestFits
    <3>2. QED
      BY <1>3, <2>1, <3>1 DEF RequestFits, Rule, Named
  <2>2. QED
    BY <1>3, <2>1, StillFit DEF CalmInv
<1>10. SessionsInOrder'
  BY <1>3, <1>6, StillInOrder DEF CalmInv, Lists
<1>11. ASSUME NEW v \in User, NEW r \in Room, Lists(v, r), r # q.room \/ v \notin us
       PROVE  /\ ~(v = q.target /\ r = q.room)
              /\ grooms'[v][r] = grooms[v][r]
  BY <1>2, <1>6, <1>11 DEF CalmInv, SessionsInOrder, SessionInOrder
<1>12. ListsFit'
  <2> SUFFICES ASSUME NEW v \in User, NEW r \in Room, Lists(v, r)' PROVE ListFits(v, r)'
    BY DEF ListsFit, ListFits
  <2>1. Lists(v, r) /\ ListFits(v, r) /\ (r # q.room \/ v \notin us)
    BY <1>6 DEF Lists, CalmInv, ListsFit
  <2>2. Ordinary(v, r)' /\ grooms'[v][r] = grooms[v][r]
    BY <1>3, <1>11, <2>1, RowsAfterBan DEF ListFits
  <2>3. QED
    BY <1>3, <2>1, <2>2 DEF ListFits
<1>13. ScreensFit'
  <2> SUFFICES ASSUME NEW v \in User, NEW t \in shown'[v]
               PROVE  Lists(v, t.room)' /\ \E m \in messages : ShownAs(v, m) = t
    BY <1>3 DEF ScreensFit, ShownAs
  <2>1. t \in shown[v] /\ (t.room # q.room \/ v \notin us)
    BY <1>6
  <2>2. t.room \in Room /\ Lists(v, t.room) /\ \E m \in messages : ShownAs(v, m) = t
    BY <2>1 DEF TypeOK, Shown, CalmInv, ScreensFit
  <2>3. QED
    BY <1>11, <2>1, <2>2 DEF Lists
<1>14. QED
  BY <1>7, <1>8, <1>9, <1>10, <1>12, <1>13 DEF CalmInv

LEMMA DelRoomCalm ==
  ASSUME TypeOK, CalmInv, NEW u \in User, DelRoom(u)
  PROVE  CalmInv'
<1>1. PICK room \in Room : room = Head(queue[u]).room
  BY TakeFacts DEF DelRoom, Roomless
<1>2. PICK us : us = Audience(room)
  OBVIOUS
<1>3. /\ Taken(u) /\ online' = online /\ CloseRoom(us, room)
      /\ rooms' = {r \in rooms : r.id # room}
      /\ members' = {m \in members : m.room # room}
      /\ messages' = {m \in messages : m.room # room}
  BY <1>1, <1>2 DEF DelRoom, Take, Taken, WithoutRoom
<1>4. /\ \A v \in User, s \in Room :
           grooms'[v][s] = IF v \in us /\ s = room THEN <<>> ELSE grooms[v][s]
      /\ \A v \in User :
           shown'[v] = IF v \in us THEN {t \in shown[v] : t.room # room} ELSE shown[v]
  BY <1>3, CloseRoomFacts DEF CalmInv
<1>5. \A v \in User : Lists(v, room) => v \in us
  BY <1>2, ListersHear
<1>6. /\ \A r : RoomExists(rooms', r) <=> RoomExists(rooms, r) /\ r # room
      /\ \A v, s : Ordinary(v, s)' <=> Ordinary(v, s) /\ s # room
      /\ \A v, s : Banned(v, s)' <=> Banned(v, s) /\ s # room
  BY <1>3 DEF RoomExists, Ids, Ordinary, Banned
<1>7. OneRoomPerId' /\ OneMessagePerId'
  BY <1>3 DEF CalmInv, OneRoomPerId, OneMessagePerId
<1>8. RowsAgree'
  <2>1. \A v \in User, r \in Room : ~(Ordinary(v, r)' /\ Banned(v, r)')
    BY <1>6 DEF CalmInv, RowsAgree
  <2>2. \A y \in rooms' : Ordinary(y.owner, y.id)'
    BY <1>3, <1>6 DEF CalmInv, RowsAgree
  <2>3. \A m \in members' : m.perm = "banned" => RoomExists(rooms', m.room)
    BY <1>3, <1>6 DEF CalmInv, RowsAgree
  <2>4. QED
    BY <2>1, <2>2, <2>3 DEF RowsAgree, Ordinary
<1>9. RequestsFit'
  <2>1. ASSUME NEW v \in User, NEW p, RequestFits(v, p) PROVE RequestFits(v, p)'
    <3>1. Rule(p) => \A m \in members' : m.room = p.room => RoomExists(rooms', p.room)
      BY <1>3, <1>6, <2>1 DEF RequestFits
    <3>2. QED
      BY <1>3, <2>1, <3>1 DEF RequestFits, Rule, Named
  <2>2. QED
    BY <1>3, <2>1, StillFit DEF CalmInv
<1>10. SessionsInOrder'
  BY <1>3, <1>4, StillInOrder DEF CalmInv, Lists
<1>11. ListsFit'
  <2> SUFFICES ASSUME NEW v \in User, NEW r \in Room, Lists(v, r)' PROVE ListFits(v, r)'
    BY DEF ListsFit, ListFits
  <2>1. Lists(v, r) /\ ListFits(v, r) /\ (r # room \/ v \notin us)
    BY <1>4 DEF Lists, CalmInv, ListsFit
  <2>2. r # room /\ grooms'[v][r] = grooms[v][r]
    BY <1>4, <1>5, <2>1
  <2>3. QED
    BY <1>3, <1>6, <2>1, <2>2 DEF ListFits
<1>12. ScreensFit'
  <2> SUFFICES ASSUME NEW v \in User, NEW t \in shown'[v]
               PROVE  Lists(v, t.room)' /\ \E m \in messages' : ShownAs(v, m) = t
    BY DEF ScreensFit, ShownAs
  <2>1. t \in shown[v] /\ (t.room # room \/ v \notin us)
    BY <1>4
  <2>2. PICK m \in messages : ShownAs(v, m) = t
    BY <2>1 DEF CalmInv, ScreensFit
  <2>3. t.room \in Room /\ Lists(v, t.room) /\ t.room = m.room
    BY <2>1, <2>2 DEF TypeOK, Shown, CalmInv, ScreensFit, ShownAs
  <2>4. t.room # room
    BY <1>5, <2>1, <2>3
  <2>5. QED
    BY <1>3, <1>4, <2>2, <2>3, <2>4 DEF Lists
<1>13. QED
  BY <1>7, <1>8, <1>9, <1>10, <1>11, <1>12 DEF CalmInv

-------------------------------------------------------------------------------
(* The invariant of calm traffic, and what it is for.                       *)

LEMMA InitCalm == Init => CalmInv
  BY EmptySeq DEF Init, NoGrooms, CalmInv, OneRoomPerId, OneMessagePerId, RowsAgree, Ordinary, Banned,
                  RequestsFit, SessionsInOrder, SessionInOrder, ListsFit, ListFits, ScreensFit, Lists

LEMMA CalmIsKept ==
  ASSUME TypeOK, CalmInv, [Next /\ CalmStep]_vars
  PROVE  CalmInv'
<1> USE DEF tables, clients
<1>1. [Next]_vars
  OBVIOUS
<1>2. ASSUME NEW u \in User, Refuse(u) \/ SearchRoom(u) PROVE CalmInv'
  BY <1>2, QuietHandler DEF Refuse, SearchRoom, Take, Taken
<1>3. CASE CalmStep /\ \E u \in User : Handle(u)
  <2>1. PICK u \in User : Handle(u)
    BY <1>3
  <2>2. CASE Refuse(u) \/ SearchRoom(u) \/ GetRooms(u) \/ NewMessages(u) \/ LogOut(u)
    BY <1>2, <2>2, GetRoomsCalm, NewMessagesCalm, LogOutCalm
  <2>3. CASE SendMessage(u) \/ EditMessageText(u) \/ DelMsg(u) \/ ClearRoom(u)
    BY <1>1, <1>3, <2>3, SendMessageCalm, EditMessageCalm, DeleteCalm
  <2>4. CASE NewRoom(u) \/ JoinRoom(u) \/ JoinDeletedRoom(u) \/ BanMember(u) \/ DelRoom(u)
             \/ EditRoomName(u) \/ EditRoomDesc(u)
    BY <1>1, <1>3, <2>4, NewRoomCalm, JoinRoomCalm, JoinDeletedRoomCalm, BanMemberCalm, DelRoomCalm,
       RoomEditCalm
  <2>5. QED
    BY <2>1, <2>2, <2>3, <2>4 DEF Handle
<1>4. CASE Tick \/ Restart \/ UNCHANGED vars
  <2>1. UNCHANGED <<rooms, members, messages, grooms, shown, queue, online>>
    BY <1>4 DEF Tick, Restart, vars
  <2>2. QED
    BY <2>1 DEF CalmInv, OneRoomPerId, OneMessagePerId, RowsAgree, Ordinary, Banned, RequestsFit,
                RequestFits, Rule, Named, SessionsInOrder, SessionInOrder, ListsFit, ListFits,
                ScreensFit, Lists
<1>5. CASE \E u \in User : ClientStep(u) \/ SignIn(u)
  BY <1>5, ClientCalm, SignInCalm
<1>6. QED
  BY <1>3, <1>4, <1>5 DEF Next

LEMMA CalmHolds == CalmSpec => [](TypeOK /\ CalmInv)
<1>1. Init /\ [][Next /\ CalmStep]_vars => Spec
  <2>1. [Next /\ CalmStep]_vars => [Next]_vars
    OBVIOUS
  <2>2. QED
    BY <2>1, PTL DEF Spec
<1>2. TypeOK /\ CalmInv /\ [Next /\ CalmStep]_vars => CalmInv'
  BY CalmIsKept
<1>3. QED
  BY <1>1, <1>2, InitCalm, TypeCorrect, PTL DEF CalmSpec

\* The permission that the first row gives is that of every row.
LEMMA TypeByRows ==
  ASSUME TypeOK, RowsAgree, NEW u \in User, NEW r \in Room
  PROVE  /\ MemberType(members, u, r) = "ordinary" <=> Ordinary(u, r)
         /\ MemberType(members, u, r) = "banned" <=> Banned(u, r)
<1> DEFINE rows == MemberRows(members, u, r)
<1>1. CASE rows = {}
  BY <1>1 DEF MemberType, IsMember, MemberRows, Ordinary, Banned
<1>2. CASE rows # {}
  <2>1. \A m \in rows : m.id \in Nat
    BY MemberRowFacts DEF MemberRows
  <2>2. PICK m \in rows : m = FirstRow(rows)
    BY <1>2, <2>1, FirstRowProperties
  <2>3. MemberType(members, u, r) = m.perm
    BY <1>2, <2>2 DEF MemberType, IsMember
  <2>4. m \in members /\ m.user = u /\ m.room = r /\ m.perm \in {"ordinary", "banned"}
    BY MemberRowFacts DEF MemberRows
  <2>5. QED
    BY <2>3, <2>4 DEF RowsAgree, Ordinary, Banned
<1>3. QED
  BY <1>1, <1>2

\* In calm traffic the creator of a room belongs to it, and no broadcast goes to who is
\* banned: the first row of a member and any row of his say the same.
THEOREM MembershipSound == CalmSpec => []MembershipIsSound
<1>1. TypeOK /\ CalmInv => MembershipIsSound
  <2> SUFFICES ASSUME TypeOK, CalmInv PROVE OwnersAreMembers /\ BannedAreNotAddressed
    BY DEF MembershipIsSound
  <2>1. OwnersAreMembers
    <3>1. \A x \in rooms : x.owner \in User /\ x.id \in Room /\ Ordinary(x.owner, x.id)
      BY DEF CalmInv, RowsAgree, TypeOK, RoomRow
    <3>2. QED
      BY <3>1, TypeByRows DEF OwnersAreMembers, CalmInv
  <2>2. BannedAreNotAddressed
    <3>1. ASSUME NEW u \in User, NEW r \in Room, u \in MembersList(members, r)
          PROVE  Ordinary(u, r)
      BY <3>1, MemberRowFacts DEF MembersList, Ordinary
    <3>2. QED
      BY <3>1, TypeByRows DEF BannedAreNotAddressed, CalmInv, RowsAgree
  <2>3. QED
    BY <2>1, <2>2
<1>2. QED
  BY <1>1, CalmHolds, PTL

\* In calm traffic the rooms and messages on every client's screen are those stored,
\* whatever waits in the queues when rooms end, members are banned and messages go.
THEOREM ScreensAgreeCalmly == CalmSpec => []ScreensAgree
<1>1. TypeOK /\ CalmInv => ScreensAgree
  <2> SUFFICES ASSUME TypeOK, CalmInv PROVE RoomListsAreAccurate /\ NoGhostMessages
    BY DEF ScreensAgree
  <2>1. ASSUME NEW u \in online, NEW r \in Room, Lists(u, r)
        PROVE  /\ RoomExists(rooms, r)
               /\ u \in MembersList(members, r)
               /\ Customer(u, r) <=> RoomById(rooms, r).owner = u
    <3>1. u \in User
      BY DEF TypeOK
    <3>2. ListFits(u, r)
      BY <3>1 DEF CalmInv, ListsFit
    <3>3. u \in MembersList(members, r)
      BY <2>1, <3>2 DEF ListFits, Ordinary, MembersList
    <3>4. RoomExists(rooms, r) /\ RoomById(rooms, r) \in rooms /\ RoomById(rooms, r).id = r
      BY <2>1, <3>2 DEF ListFits, RoomExists, Ids, RoomById
    <3>5. Customer(u, r) <=> grooms[u][r][1]
      BY <2>1, <3>2 DEF Customer, ListFits
    <3>6. grooms[u][r][1] <=> RoomById(rooms, r).owner = u
      BY <2>1, <3>2, <3>4 DEF ListFits
    <3>7. QED
      BY <3>3, <3>4, <3>5, <3>6
  <2>2. NoGhostMessages
    BY DEF NoGhostMessages, CalmInv, ScreensFit
  <2>3. QED
    BY <2>1, <2>2 DEF RoomListsAreAccurate
<1>2. QED
  BY <1>1, CalmHolds, PTL

\* A ban in the member table is read from a row.
LEMMA BanIsRow ==
  ASSUME NEW table, \A m \in table : m.id \in Nat, NEW u, NEW r, MemberType(table, u, r) = "banned"
  PROVE  \E m \in table : m.user = u /\ m.room = r /\ m.perm = "banned"
<1> DEFINE rows == MemberRows(table, u, r)
<1>1. rows # {} /\ FirstRow(rows).perm = "banned"
  BY DEF MemberType, IsMember
<1>2. \A m \in rows : m.id \in Nat
  BY DEF MemberRows
<1>3. FirstRow(rows) \in rows
  BY <1>1, <1>2, FirstRowProperties
<1>4. QED
  BY <1>1, <1>3 DEF MemberRows

\* Rooms end and bans appear in the handlers of two requests.
LEMMA RulingSteps ==
  ASSUME TypeOK, [Next]_vars, ~(\E u \in User : DelRoom(u) \/ BanMember(u))
  PROVE  Ids(rooms) \subseteq Ids(rooms') /\ \A v, r : Banned(v, r)' => Banned(v, r)
<1> USE DEF tables, clients
<1>a. ASSUME NEW u, NEW s, members' = AddMember(members, u, s), rooms \subseteq rooms'
      PROVE  Ids(rooms) \subseteq Ids(rooms') /\ \A v, r : Banned(v, r)' => Banned(v, r)
  BY <1>a, RowsAfterAdd DEF Ids
<1>b. ASSUME members' = members, Ids(rooms) \subseteq Ids(rooms')
      PROVE  Ids(rooms) \subseteq Ids(rooms') /\ \A v, r : Banned(v, r)' => Banned(v, r)
  BY <1>b DEF Banned
<1>1. ASSUME NEW u \in User, ClientStep(u) PROVE members' = members /\ rooms' = rooms
  BY <1>1 DEF ClientStep, AskNewRoom, AskSearchRoom, AskJoinRoom, AskAsCustomer,
              AskSendMessage, AskNewMessages, AskAboutMessage, AskLogOut, Ask
<1>2. ASSUME NEW u \in User,
             \/ Refuse(u) \/ GetRooms(u) \/ SearchRoom(u) \/ SendMessage(u) \/ EditMessageText(u)
             \/ DelMsg(u) \/ ClearRoom(u) \/ NewMessages(u) \/ LogOut(u) \/ SignIn(u)
      PROVE  members' = members /\ rooms' = rooms
  BY <1>2 DEF Refuse, GetRooms, SearchRoom, SendMessage, EditMessageText, DelMsg, ClearRoom,
              NewMessages, LogOut, SignIn
<1>3. ASSUME NEW u \in User, EditRoomName(u) \/ EditRoomDesc(u)
      PROVE  members' = members /\ Ids(rooms) \subseteq Ids(rooms')
  <2> DEFINE text == Head(queue[u]).text
  <2>1. \A r \in rooms : [r EXCEPT !.name = text].id = r.id /\ [r EXCEPT !.desc = text].id = r.id
    BY DEF TypeOK, RoomRow
  <2>2. \A r \in rooms : \E s \in rooms' : s.id = r.id
    BY <1>3, <2>1 DEF EditRoomName, EditRoomDesc, RenameRoom, DescribeRoom
  <2>3. QED
    BY <1>3, <2>2 DEF EditRoomName, EditRoomDesc, Ids
<1>4. ASSUME NEW u \in User, NewRoom(u) \/ JoinRoom(u) \/ JoinDeletedRoom(u)
      PROVE  \E s : members' = AddMember(members, u, s) /\ rooms \subseteq rooms'
  BY <1>4 DEF NewRoom, InsertRoom, JoinRoom, JoinDeletedRoom
<1>5. CASE Tick \/ Restart \/ UNCHANGED vars
  BY <1>b, <1>5 DEF Tick, Restart, vars
<1>6. CASE \E u \in User : ClientStep(u) \/ SignIn(u)
  BY <1>b, <1>1, <1>2, <1>6
<1>7. CASE \E u \in User : Handle(u)
  <2>1. PICK u \in User : Handle(u)
    BY <1>7
  <2>2. CASE NewRoom(u) \/ JoinRoom(u) \/ JoinDeletedRoom(u)
    BY <1>a, <1>4, <2>2
  <2>3. CASE EditRoomName(u) \/ EditRoomDesc(u)
    BY <1>b, <1>3, <2>3
  <2>4. CASE \/ Refuse(u) \/ GetRooms(u) \/ SearchRoom(u) \/ SendMessage(u) \/ EditMessageText(u)
             \/ DelMsg(u) \/ ClearRoom(u) \/ NewMessages(u) \/ LogOut(u)
    BY <1>b, <1>2, <2>4
  <2>5. QED
    BY <2>1, <2>2, <2>3, <2>4 DEF Handle
<1>8. QED
  BY <1>5, <1>6, <1>7 DEF Next

\* Who ends a room or bans a member of it is its creator, though the handlers do not
\* ask: no request of another's, and none that waited while ids changed hands, rules.
THEOREM OwnersRule == CalmSpec => OnlyOwnersRule
<1>1. ASSUME TypeOK, CalmInv, [Next /\ CalmStep]_vars, NEW x \in rooms,
             \/ x.id \notin Ids(rooms')
             \/ \E u \in User : /\ MemberType(members, u, x.id) = "ordinary"
                                /\ MemberType(members', u, x.id) = "banned"
      PROVE  Len(queue'[x.owner]) < Len(queue[x.owner])
  <2>0. TypeOK' /\ CalmInv' /\ x.id \in Room /\ x.owner \in User
    BY <1>1, TypeIsKept, CalmIsKept DEF TypeOK, RoomRow
  <2>1. \/ x.id \notin Ids(rooms')
        \/ \E u \in User : ~Banned(u, x.id) /\ Banned(u, x.id)'
    <3>1. ASSUME NEW u \in User, MemberType(members, u, x.id) = "ordinary",
                 MemberType(members', u, x.id) = "banned"
          PROVE  ~Banned(u, x.id) /\ Banned(u, x.id)'
      <4>1. ~Banned(u, x.id)
        BY <1>1, <2>0, <3>1, TypeByRows DEF CalmInv
      <4>2. \A m \in members' : m.id \in Nat
        BY <2>0, BoundsAreNat DEF TypeOK, MemberRow
      <4>3. \E m \in members' : m.user = u /\ m.room = x.id /\ m.perm = "banned"
        BY <3>1, <4>2, BanIsRow
      <4>4. QED
        BY <4>1, <4>3 DEF Banned
    <3>2. QED
      BY <1>1, <3>1
  <2>2. PICK u \in User : DelRoom(u) \/ BanMember(u)
    <3>1. [Next]_vars /\ x.id \in Ids(rooms)
      BY <1>1 DEF Ids
    <3>2. QED
      BY <1>1, <2>1, <3>1, RulingSteps
  <2>3. Taken(u) /\ Rule(Head(queue[u])) /\ Head(queue[u]).room = x.id
    <3>1. CASE DelRoom(u)
      BY <2>1, <3>1 DEF DelRoom, Take, Taken, Rule, Rules, Ids, WithoutRoom, Banned
    <3>2. CASE BanMember(u)
      <4>1. PICK q : q = Head(queue[u])
        OBVIOUS
      <4>2. rooms' = rooms /\ members' = EditMemberType(members, q.room, q.target, "banned")
            /\ Taken(u) /\ Rule(q)
        BY <3>2, <4>1 DEF BanMember, Take, Taken, Rule, Rules
      <4>3. q.room = x.id
        BY <1>1, <2>1, <4>2, RowsAfterBan DEF Ids
      <4>4. QED
        BY <4>1, <4>2, <4>3
    <3>3. QED
      BY <2>2, <3>1, <3>2
  <2>4. x.owner = u
    BY <1>1, <2>3, TakenFits DEF RequestFits
  <2>5. QED
    BY <1>1, <2>3, <2>4, TakenFacts
<1>2. TypeOK /\ CalmInv /\ [Next /\ CalmStep]_vars =>
        [\A r \in rooms :
           \/ r.id \notin Ids(rooms')
           \/ \E u \in User : /\ MemberType(members, u, r.id) = "ordinary"
                              /\ MemberType(members', u, r.id) = "banned"
           => Len(queue'[r.owner]) < Len(queue[r.owner])]_vars
  BY <1>1
<1>3. QED
  BY <1>2, CalmHolds, PTL DEF CalmSpec, OnlyOwnersRule
===============================================================================
