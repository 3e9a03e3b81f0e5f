----------------------------- MODULE ClientHistory -----------------------------
(***************************************************************************)
(* What a client shows of its rooms' messages: the newest ones that it     *)
(* asks for when it opens a room, those that are broadcast while it is     *)
(* signed in, and the older ones it asks for, a page at a time, when its   *)
(* user scrolls to the top of a room.                                      *)
(*                                                                         *)
(* One client is followed, from the messages written before it signs in to *)
(* the end of its process; the other members are whoever makes the server  *)
(* broadcast.  A handler of the server is one step, and so is a handler of *)
(* the client; between them lines wait in order, in both directions.       *)
(***************************************************************************)
EXTENDS Tables, Sequences, SequencesExt

CONSTANTS
  Room,        \* rooms that the client's user is a member of
  Page,        \* BUF_MSGS: the length of a page, and of what is kept of a room
  Calm,        \* which traffic there is: see Post, EndRoom and ReachBottom
  MaxMsg,      \* bound on message ids
  MaxTime,     \* bound on seconds
  MaxBacklog,  \* bound on the lines that wait, in each direction, when one is added
  MaxRows      \* bound on the rows of a room when more are asked for

ASSUME RoomAssumption == IsFiniteSet(Room)
ASSUME CalmAssumption == Calm \in BOOLEAN
ASSUME BoundAssumption == {Page, MaxMsg, MaxTime, MaxBacklog, MaxRows} \subseteq Nat \ {0}

VARIABLES
  messages,  \* MESSAGES: [id, room, date]
  now,       \* the current second
  joined,    \* the rooms where the user is a member and not banned
  banned,    \* the rooms where it is banned
  screen,    \* the client: "before" it signs in, "on", or "dead"
  listed,    \* the rooms in its list (t_groom)
  rows,      \* per room, the messages in its list box, from the top
  uploaded,  \* per room, t_groom.uploaded
  waiting,   \* t_chat.upl_old_msgs
  up,        \* requests on their way to the server
  down       \* replies and broadcasts on their way to the client

server == <<messages, now, joined, banned>>
client == <<screen, listed, rows, uploaded, waiting>>
vars == <<messages, now, joined, banned, screen, listed, rows, uploaded, waiting, up, down>>

MessageRow == [id : 1 .. MaxMsg, room : Room, date : 1 .. MaxTime]
Shown == [id : 1 .. MaxMsg, date : 1 .. MaxTime]
ShownAs(m) == [id |-> m.id, date |-> m.date]

Request ==
  [op : {"rooms"}] \cup [op : {"new"}, room : Room]
                   \cup [op : {"old"}, room : Room, date : 1 .. MaxTime]
Reply ==
  [op : {"rooms"}, rooms : SUBSET Room]
    \cup [op : {"message"}, room : Room, msg : Shown]
    \cup [op : {"new", "old"}, room : Room, page : Seq(Shown)]
    \cup [op : {"deleted"}, room : Room, id : 1 .. MaxMsg]
    \cup [op : {"cleared", "ended"}, room : Room]

TypeOK ==
  /\ messages \subseteq MessageRow
  /\ now \in 1 .. MaxTime
  /\ joined \subseteq Room /\ banned \subseteq Room \ joined
  /\ screen \in {"before", "on", "dead"}
  /\ listed \subseteq Room
  /\ rows \in [Room -> Seq(Shown)]
  /\ uploaded \in [Room -> Nat]
  /\ waiting \in BOOLEAN
  /\ up \in Seq(Request)
  /\ down \in Seq(Reply)

Init ==
  /\ messages = {} /\ now = 1 /\ joined = Room /\ banned = {}
  /\ screen = "before" /\ listed = {}
  /\ rows = [r \in Room |-> <<>>] /\ uploaded = [r \in Room |-> 0] /\ waiting = FALSE
  /\ up = <<>> /\ down = <<>>

Among(ops, lines) == \E i \in 1 .. Len(lines) : lines[i].op \in ops

\* The client has asked for its rooms, or for what to show in them.
Opening == Among({"rooms", "new"}, up) \/ Among({"rooms", "new"}, down)

-------------------------------------------------------------------------------
(* The server: other members' requests, with their broadcasts.             *)

\* A line for each member that is signed in.
Broadcast(r, line) ==
  /\ screen # "dead" /\ r \in joined /\ Len(down) < MaxBacklog
  /\ down' = IF screen = "on" THEN Append(down, line) ELSE down

\* send_message_response: the id is read back by room and date.
Post(r) ==
  /\ Calm => ~Opening /\ \A m \in messages : m.date # now
  /\ NewId(messages) <= MaxMsg
  /\ messages' = messages \cup {[id |-> NewId(messages), room |-> r, date |-> now]}
  /\ Broadcast(r, [op |-> "message", room |-> r,
                   msg |-> [id |-> MessageIdByDate(messages', r, now), date |-> now]])
  /\ UNCHANGED <<now, joined, banned, client, up>>

\* del_msg_response.
DelMsg(r) == \E m \in messages :
  /\ m.room = r
  /\ messages' = DeleteMessage(messages, m.id)
  /\ Broadcast(r, [op |-> "deleted", room |-> r, id |-> m.id])
  /\ UNCHANGED <<now, joined, banned, client, up>>

\* clear_room_response.
ClearRoom(r) ==
  /\ messages' = WithoutRoom(messages, r)
  /\ Broadcast(r, [op |-> "cleared", room |-> r])
  /\ UNCHANGED <<now, joined, banned, client, up>>

\* del_room_response, or ban_member_response for the client's user.
EndRoom(r) ==
  /\ \/ /\ Calm => ~Among({"rooms"}, up)
        /\ messages' = WithoutRoom(messages, r) /\ banned' = banned
     \/ /\ Calm => ~Opening
        /\ messages' = messages /\ banned' = banned \cup {r}
  /\ joined' = joined \ {r}
  /\ Broadcast(r, [op |-> "ended", room |-> r])
  /\ UNCHANGED <<now, client, up>>

\* Seconds without a message are left out: only the order of dates counts.
Tick ==
  /\ now < MaxTime /\ \E m \in messages : m.date = now
  /\ now' = now + 1
  /\ UNCHANGED <<messages, joined, banned, client, up, down>>

-------------------------------------------------------------------------------
(* The server: the client's own requests.                                  *)

Serve(op) ==
  /\ screen = "on" /\ up # <<>> /\ Head(up).op = op /\ Len(down) <= MaxBacklog
  /\ up' = Tail(up)
  /\ UNCHANGED <<server, client>>

\* The newest rows, the newest first, a page of them or all: ORDER BY MESSAGE_ID
\* DESC and the count of get_messages_by_id.
PagesOf(table) ==
  {p \in UNION {[1 .. n -> {ShownAs(m) : m \in table}] : n \in 0 .. Page} :
     LET taken == {p[i].id : i \in DOMAIN p}  left == Ids(table) \ taken IN
       /\ \A i, j \in DOMAIN p : i < j => p[i].id > p[j].id
       /\ \A t \in taken, l \in left : t > l
       /\ left # {} => DOMAIN p = 1 .. Page}

\* message_old.
Before(r, date) == {m \in messages : m.room = r /\ m.date < date}

\* get_rooms_response.
GetRooms ==
  /\ Serve("rooms")
  /\ down' = Append(down, [op |-> "rooms", rooms |-> joined])

\* new_messages_response asks for a member, banned or not, and is always asked
\* with date 0.
NewMessages ==
  /\ Serve("new")
  /\ LET r == Head(up).room IN
       \/ /\ r \in joined \cup banned
          /\ \E p \in PagesOf({m \in messages : m.room = r}) :
               down' = Append(down, [op |-> "new", room |-> r, page |-> p])
       \/ /\ r \notin joined \cup banned
          /\ UNCHANGED down

\* (Slip: a member is enough, as for the newest messages.)
MayReadAsMember(r) == r \in joined \cup banned

MayReadOlder(r) == r \in joined

\* old_messages_response; who is refused gets no answer.
OldMessages ==
  /\ Serve("old")
  /\ LET r == Head(up).room IN
       \/ /\ MayReadOlder(r)
          /\ \E p \in PagesOf(Before(r, Head(up).date)) :
               down' = Append(down, [op |-> "old", room |-> r, page |-> p])
       \/ /\ ~MayReadOlder(r)
          /\ UNCHANGED down

-------------------------------------------------------------------------------
(* The client: its user.                                                   *)

\* sign_in_response of the client asks for the rooms; the server has the client's
\* stream in info->users already.
SignIn ==
  /\ screen = "before"
  /\ screen' = "on"
  /\ up' = <<[op |-> "rooms"]>>
  /\ UNCHANGED <<server, listed, rows, uploaded, waiting, down>>

\* (Slip: another request although one is under way.)
MayAsk(r) == r \in listed /\ rows[r] # <<>>

\* my_gtk_post_top: older messages than the first row's, if none are asked for.
MayAskOlder(r) == r \in listed /\ ~waiting /\ rows[r] # <<>>

ReachTop(r) ==
  /\ screen = "on" /\ MayAskOlder(r)
  /\ Len(up) < MaxBacklog /\ Len(rows[r]) <= MaxRows
  /\ up' = Append(up, [op |-> "old", room |-> r, date |-> rows[r][1].date])
  /\ waiting' = TRUE
  /\ UNCHANGED <<server, screen, listed, rows, uploaded, down>>

\* (Slips: the loop counts too often, or once.)
TrimmedByPage(r) == uploaded[r] - Page

TrimmedByOne(r) == IF uploaded[r] > Page THEN uploaded[r] - 1 ELSE uploaded[r]

\* What the loop of box_messages_reached leaves of the count.
Trimmed(r) == IF uploaded[r] > Page THEN Page ELSE uploaded[r]

\* box_messages_reached at the bottom: the oldest rows go, and the flag is reset,
\* whether or not an answer is awaited.
ReachBottom(r) ==
  /\ screen = "on" /\ r \in listed
  /\ Calm => ~waiting
  /\ LET gone == IF uploaded[r] > Page THEN uploaded[r] - Page ELSE 0 IN
       rows' = [rows EXCEPT ![r] = SubSeq(@, gone + 1, Len(@))]
  /\ uploaded' = [uploaded EXCEPT ![r] = Trimmed(r)]
  /\ waiting' = FALSE
  /\ UNCHANGED <<server, screen, listed, up, down>>

-------------------------------------------------------------------------------
(* The client: what it receives.  A handler that needs the t_groom of a    *)
(* room that is not in the list dereferences NULL, and the process ends.   *)

Read(op) ==
  /\ screen = "on" /\ down # <<>> /\ Head(down).op = op
  /\ down' = Tail(down)
  /\ UNCHANGED server

Needs(r) == screen' = IF r \in listed THEN screen ELSE "dead"

Show(r, new) == rows' = [rows EXCEPT ![r] = new]

\* get_rooms_response: each room is opened and its newest messages are asked for.
ReadRooms ==
  /\ Read("rooms")
  /\ listed' = listed \cup Head(down).rooms
  /\ \E order \in [1 .. Cardinality(Head(down).rooms) -> Head(down).rooms] :
       /\ \A r \in Head(down).rooms : \E i \in DOMAIN order : order[i] = r
       /\ up' = up \o [i \in DOMAIN order |-> [op |-> "new", room |-> order[i]]]
  /\ UNCHANGED <<screen, rows, uploaded, waiting>>

\* send_message_response, for a message that is broadcast ...
ReadMessage ==
  /\ Read("message")
  /\ LET r == Head(down).room IN
       /\ Needs(r)
       /\ Show(r, Append(rows[r], Head(down).msg))
       /\ uploaded' = [uploaded EXCEPT ![r] = @ + 1]
  /\ UNCHANGED <<listed, waiting, up>>

\* ... and new_messages_response, for each message of the page, the oldest first.
ReadNew ==
  /\ Read("new")
  /\ LET r == Head(down).room  page == Head(down).page IN
       /\ IF page = <<>> THEN UNCHANGED screen ELSE Needs(r)
       /\ Show(r, rows[r] \o Reverse(page))
       /\ uploaded' = [uploaded EXCEPT ![r] = @ + Len(page)]
  /\ UNCHANGED <<listed, waiting, up>>

\* (Slip: the flag stays.)
KeepWaiting(r) == waiting' = waiting

StopWaiting(r) == waiting' = (waiting /\ r \notin listed)

\* old_messages_response: each is put above the others, the newest first.
ReadOld ==
  /\ Read("old")
  /\ LET r == Head(down).room  page == Head(down).page IN
       /\ IF page = <<>> THEN UNCHANGED screen ELSE Needs(r)
       /\ Show(r, Reverse(page) \o rows[r])
       /\ uploaded' = [uploaded EXCEPT ![r] = @ + Len(page)]
       /\ StopWaiting(r)
  /\ UNCHANGED <<listed, up>>

\* del_msg_response: the first row with that id, if there is one.
RowsOf(r, id) == {i \in 1 .. Len(rows[r]) : rows[r][i].id = id}

ReadDeleted ==
  /\ Read("deleted")
  /\ LET r == Head(down).room  found == RowsOf(Head(down).room, Head(down).id) IN
       \/ /\ found # {}
          /\ Show(r, RemoveAt(rows[r], CHOOSE i \in found : \A j \in found : i <= j))
          /\ uploaded' = [uploaded EXCEPT ![r] = @ - 1]
       \/ /\ found = {}
          /\ UNCHANGED <<rows, uploaded>>
  /\ UNCHANGED <<screen, listed, waiting, up>>

\* gupd_clear_history.
ReadCleared ==
  /\ Read("cleared")
  /\ LET r == Head(down).room IN
       /\ Show(r, <<>>)
       /\ uploaded' = [uploaded EXCEPT ![r] = @ - Len(rows[r])]
  /\ UNCHANGED <<screen, listed, waiting, up>>

\* del_room_response: the room goes from the list, and its rows with it.
ReadEnded ==
  /\ Read("ended")
  /\ LET r == Head(down).room IN
       /\ Needs(r)
       /\ listed' = listed \ {r}
       /\ Show(r, <<>>)
       /\ uploaded' = [uploaded EXCEPT ![r] = 0]
  /\ UNCHANGED <<waiting, up>>

-------------------------------------------------------------------------------

Others == \E r \in Room : Post(r) \/ DelMsg(r) \/ ClearRoom(r) \/ EndRoom(r)
Handle == GetRooms \/ NewMessages \/ OldMessages
Scroll == \E r \in Room : ReachTop(r) \/ ReachBottom(r)
Receiver ==
  \/ ReadRooms \/ ReadMessage \/ ReadNew \/ ReadOld \/ ReadDeleted \/ ReadCleared
  \/ ReadEnded

Next == Others \/ Tick \/ Handle \/ SignIn \/ Scroll \/ Receiver

Spec == Init /\ [][Next]_vars

\* The server's main loop serves the client's connection, and the client reads.
Fairness == WF_vars(Handle) /\ WF_vars(Receiver)

FairSpec == Spec /\ Fairness

-------------------------------------------------------------------------------
(* Properties.                                                             *)

\* uploaded, by which rows are dropped, is the number of rows of the room: over
\* pages, broadcasts, deletions and drops in any order, in any traffic.
RowsCounted == \A r \in Room : uploaded[r] = Len(rows[r])

(* Properties of calm traffic: messages have seconds of their own, nobody  *)
(* writes or is banned while the client opens its rooms, no room is        *)
(* deleted before they are listed, and the user does not scroll down       *)
(* before the older messages have come.                                    *)

\* No message is shown twice, though it may be broadcast, be among the newest and
\* be among the older ones.
NothingTwice ==
  \A r \in Room : \A i, j \in 1 .. Len(rows[r]) :
    rows[r][i].id = rows[r][j].id => i = j

\* Between the first row of a room and its newest message nothing is missing but
\* what is on its way to the client.
NoGaps ==
  \A r \in joined : rows[r] # <<>> =>
    \A m \in messages : m.room = r /\ m.date >= rows[r][1].date =>
      \/ ShownAs(m) \in ToSet(rows[r])
      \/ \E i \in 1 .. Len(down) : /\ down[i].op = "message"
                                   /\ down[i].room = r /\ down[i].msg = ShownAs(m)

\* What is shown of a room is one stretch of its history, each message once.
ShowsOneStretch == NothingTwice /\ NoGaps

\* No handler of the client meets a room that is not in its list.
ClientSurvives == screen # "dead"

\* The flag that keeps the client from asking again is reset, unless a room has
\* ended, whose answer is then perhaps the one that does not come.
WaitEnds == waiting ~> (~waiting \/ joined # Room)
===============================================================================
