------------------------------ MODULE ClientRooms ------------------------------
(***************************************************************************)
(* The rooms of one client: those its user is a member of, the members it  *)
(* knows of each (the hash table t_groom.members that get_members fills    *)
(* and that the lines of the server keep up to date), the members it       *)
(* offers to ban, and the rooms that it finds to join.                     *)
(*                                                                         *)
(* The client of Me writes requests and reads lines over one connection,   *)
(* both in order and both delayed.  The requests of the other users reach  *)
(* the handlers at any moment; what their clients offer may be as old as   *)
(* the room.  There is one room, whose id is given again after its end.    *)
(***************************************************************************)
EXTENDS Tables, TextSearch

CONSTANTS
  User,       \* user ids
  Me,         \* the user of the client
  None,       \* no user
  RoomName,   \* the name of the room, a text
  Typed,      \* texts that Me looks for
  Symbol,     \* symbols that texts are made of
  MaxLines,   \* bound on the lines on their way, for those who cause more
  MaxAsked    \* bound on the requests on their way, for a user who asks more

ASSUME UserAssumption == Me \in User /\ None \notin User

\* An entry that is empty does not search: it stops the search.
ASSUME TextAssumption == RoomName \in Seq(Symbol) /\ Typed \subseteq Seq(Symbol) \ {<<>>}

VARIABLES
  owner,      \* ROOMS: whose room it is, None if there is no room
  members,    \* MEMBERS
  written,    \* MESSAGES: there are messages of the room
  up,         \* the server process runs
  online,     \* info->users holds the stream of Me
  asked,      \* the requests of Me that no handler has taken
  lines,      \* the lines to Me that its client has not read
  alive,      \* the client process runs
  window,     \* the window it shows
  listed,     \* the rooms that sign_in asks for have been listed
  groom,      \* the client's t_groom of the room, or NoGroom
  offers,     \* listbox_sett_members: the users with a Ban button
  open,       \* btn_show_room_sett is shown
  entry,      \* sentry_rooms, and what listbox_rooms is filtered by; or Empty
  found,      \* the rows of the room in listbox_global_rooms
  picked,     \* one of them is selected
  dialog,     \* dialog_join_to_room is shown
  hasty       \* the last search began, or ended, before one that was asked was answered

server == <<owner, members, written, up, online>>
search == <<entry, found, picked, dialog, hasty>>
screen == <<offers, open, search>>
vars == <<server, asked, lines, alive, window, listed, groom, screen>>

Room == 1

Empty == <<>>

NoGroom == [is |-> "none"]

\* owner is user_id of the struct; answered is no field of it, but tells whether
\* get_members has been answered.
Groom(user, customer, known, answered) ==
  [is |-> "groom", owner |-> user, customer |-> customer, members |-> known,
   answered |-> answered]

Line(token, user, list) == [token |-> token, user |-> user, list |-> list]
About(token, user) == Line(token, user, {})
Plain(token) == About(token, None)
Req(op, user) == [op |-> op, user |-> user, text |-> Empty]
SearchReq(text) == [op |-> "search_room", user |-> None, text |-> text]

\* Lines that list a room; the user is its owner.
Listing == {"get_rooms", "join_room", "new_room"}

Token == Listing \cup {"sign_in", "get_members", "new_messages", "new_member",
                       "ban_member", "del_room", "send_message", "log_out",
                       "search_room"}

TypeOK ==
  /\ owner \in User \cup {None}
  /\ members \subseteq [id : {1}, room : {Room}, user : User, perm : Permission]
  /\ {written, up, online, alive, listed, open, picked, dialog, hasty} \subseteq BOOLEAN
  /\ asked \in Seq([op : Token \ {"sign_in", "new_member"}, user : User \cup {None},
                  text : Typed \cup {Empty}])
  /\ lines \in Seq([token : Token, user : User \cup {None}, list : SUBSET User])
  /\ window \in {"auth", "main"}
  /\ groom \in {NoGroom} \cup [is : {"groom"}, owner : User, customer : User \cup {None},
                               members : SUBSET User, answered : BOOLEAN]
  /\ offers \subseteq User
  /\ entry \in Typed \cup {Empty} /\ found \in Nat

Init ==
  /\ owner = None /\ members = {} /\ written = FALSE
  /\ up = TRUE /\ online = FALSE
  /\ asked = <<>> /\ lines = <<>>
  /\ alive = TRUE /\ window = "auth" /\ listed = FALSE
  /\ groom = NoGroom /\ offers = {} /\ open = FALSE
  /\ entry = Empty /\ found = 0
  /\ picked = FALSE /\ dialog = FALSE /\ hasty = FALSE

-------------------------------------------------------------------------------
(* The client reads a line.                                                *)

\* (Slip: a member is kept who is banned before the list has come.)
WithoutMemberLate(g, user) == IF g.answered THEN [g EXCEPT !.members = @ \ {user}] ELSE g

WithoutMember(g, user) == [g EXCEPT !.members = @ \ {user}]

WithMember(g, user) == [g EXCEPT !.members = @ \cup {user}]

\* insert_member for each, which finds the customer among them.
WithMembers(g, list) ==
  [g EXCEPT !.members = @ \cup list, !.answered = TRUE,
            !.customer = IF g.owner \in list THEN g.owner ELSE @]

\* The client's room after a line, where the handler comes to its end.
After(g, l) ==
  CASE l.token \in Listing /\ l.user # None -> Groom(l.user, None, {}, FALSE)
    [] l.token \in {"del_room", "log_out"} -> NoGroom
    [] g # NoGroom /\ l.token = "get_members" -> WithMembers(g, l.list)
    [] g # NoGroom /\ l.token = "new_member" -> WithMember(g, l.user)
    [] g # NoGroom /\ l.token = "ban_member" -> WithoutMember(g, l.user)
    [] OTHER -> g

\* The handlers that look the room up and do not ask whether it was found.
NeedsRoom(l) ==
  \/ l.token \in {"ban_member", "del_room", "send_message"}
  \/ l.token \in {"get_members", "new_messages"} /\ l.list # {}

\* (Slip: the members are not asked for.)
AsksNothing(l) == <<>>

\* What a handler asks for in turn.
AsksFor(l) ==
  CASE l.token = "sign_in" -> <<Req("get_rooms", None)>>
    [] l.token \in {"get_rooms", "join_room"} /\ l.user # None ->
         <<Req("get_members", None), Req("new_messages", None)>>
    [] l.token = "new_room" -> <<Req("get_members", None)>>
    [] OTHER -> <<>>

\* What comes after the end of one of the two processes is left out.
Running == alive /\ up

\* With the process go its windows and its end of the connection.
ProcessEnds ==
  /\ alive' = FALSE /\ asked' = <<>> /\ lines' = <<>>
  /\ window' = "auth" /\ listed' = FALSE /\ groom' = NoGroom
  /\ offers' = {} /\ open' = FALSE
  /\ entry' = Empty /\ found' = 0 /\ picked' = FALSE /\ dialog' = FALSE /\ hasty' = FALSE
  /\ UNCHANGED server

Requested(op) == \E n \in DOMAIN asked : asked[n].op = op

Coming(tokens) == \E n \in DOMAIN lines : lines[n].token \in tokens

\* (Slip: the rows stay and the new ones come after them.)
ClearSelection ==
  /\ found' = found /\ picked' = FALSE
  /\ hasty' = (Requested("search_room") \/ Coming({"search_room"}))

\* clear_global_search: the row goes, also that of the room to join.
ClearGlobalSearch ==
  /\ found' = 0 /\ picked' = FALSE
  /\ hasty' = (Requested("search_room") \/ Coming({"search_room"}))

Take(l) == lines # <<>> /\ l = Head(lines) /\ lines' = Tail(lines)

\* The row of the room is hidden with its settings.
Receive ==
  LET l == Head(lines) IN
  /\ Running
  /\ Take(l)
  /\ NeedsRoom(l) => groom # NoGroom
  /\ groom' = After(groom, l)
  /\ asked' = asked \o AsksFor(l)
  /\ window' = CASE l.token = "sign_in" -> "main" [] l.token = "log_out" -> "auth"
                 [] OTHER -> window
  /\ listed' = (l.token = "get_rooms" \/ (listed /\ l.token # "log_out"))
  /\ open' = (open /\ groom' # NoGroom /\ ~(l.token = "log_out" /\ picked))
  /\ IF l.token = "log_out" THEN ClearGlobalSearch
     ELSE found' = found + (IF l.token = "search_room" /\ l.list # {} THEN 1 ELSE 0)
          /\ UNCHANGED <<picked, hasty>>
  /\ UNCHANGED <<server, alive, offers, entry, dialog>>

\* The filter of listbox_rooms is asked, after t_filter_data was freed with the request
\* that made it: about the row of a room that is listed, and again with each message
\* that is shown, since add_message_row calls gtk_list_box_row_changed.
AsksFilter(l) ==
  /\ entry # Empty
  /\ \/ l.token \in Listing /\ l.user # None
     \/ groom # NoGroom /\ l.token = "send_message"
     \/ groom # NoGroom /\ l.token = "new_messages" /\ l.list # {}

\* groom->members, groom->row_room of NULL; data->search_name of what was freed, where
\* the filter may also answer by what it finds there.
Crash ==
  LET l == Head(lines) IN
  /\ Running
  /\ lines # <<>>
  /\ (NeedsRoom(l) /\ groom = NoGroom) \/ AsksFilter(l)
  /\ ProcessEnds

-------------------------------------------------------------------------------
(* The user of the client.                                                 *)

\* add_to_sett_members for each.
Offered(g) == g.members \ {g.customer}

\* set_current_room_sett of the room that is open: for a click on another room and
\* back, or because the name of any room has changed, which leaves the button.
Select ==
  /\ Running /\ groom # NoGroom
  /\ offers' = Offered(groom)
  /\ open' \in {open, groom.customer = Me}
  /\ UNCHANGED <<server, asked, lines, alive, window, listed, groom, search>>

\* Who has clicked on Log out waits for the answer.
Ask(q) ==
  /\ Running /\ window = "main"
  /\ Len(asked) < MaxAsked /\ Len(lines) < MaxLines
  /\ "log_out" \notin {asked[n].op : n \in DOMAIN asked} \cup {lines[n].token : n \in DOMAIN lines}
  /\ asked' = Append(asked, q)
  /\ UNCHANGED <<server, lines, alive, window, listed, groom, offers>>

AskNewRoom == Ask(Req("new_room", None)) /\ UNCHANGED <<open, search>>

AskAsCustomer ==
  /\ open
  /\ Ask(Req("del_room", None)) \/ (\E t \in offers : Ask(Req("ban_member", t)))
  /\ UNCHANGED <<open, search>>

AskMessage ==
  groom # NoGroom /\ Ask(Req("send_message", None)) /\ UNCHANGED <<open, search>>

AskLogOut == Ask(Req("log_out", None)) /\ UNCHANGED <<open, search>>

\* search_room_request, some time after the last key, perhaps with the dialog shown;
\* what a selected row takes along is hidden.
SearchRoom(text) ==
  /\ Ask(SearchReq(text))
  /\ entry' = text
  /\ ClearGlobalSearch
  /\ open' = (open /\ ~picked) /\ UNCHANGED dialog

\* The text is taken away, which clears the search and stops it, or the entry is left,
\* which stops it unless a row is selected.
StopSearch ==
  /\ Running /\ window = "main"
  /\ entry' = Empty
  /\ ClearGlobalSearch
  /\ open' = (open /\ ~picked)
  /\ UNCHANGED <<server, asked, lines, alive, window, listed, groom, offers, dialog>>

\* show_join_to_room.
PickFound ==
  /\ Running /\ window = "main" /\ found > 0 /\ ~dialog
  /\ picked' = TRUE /\ dialog' = TRUE
  /\ UNCHANGED <<server, asked, lines, alive, window, listed, groom, offers, open,
                 entry, found, hasty>>

CancelJoin ==
  /\ Running /\ dialog
  /\ dialog' = FALSE
  /\ UNCHANGED <<server, asked, lines, alive, window, listed, groom, offers, open,
                 entry, found, picked, hasty>>

AskJoin ==
  /\ dialog /\ picked
  /\ Ask(Req("join_room", None))
  /\ dialog' = FALSE /\ entry' = Empty
  /\ ClearGlobalSearch
  /\ UNCHANGED open

\* get_selected_groom finds nothing: the row was cleared behind the dialog.
JoinNothing ==
  /\ Running /\ dialog /\ ~picked
  /\ ProcessEnds

-------------------------------------------------------------------------------
(* The server.                                                             *)

\* (Slip: who is banned is told all the same.)
ToAll(rows, l) == IF online /\ IsMember(rows, Me, Room) THEN <<l>> ELSE <<>>

\* vm_send_to_all, as far as the client of Me hears it.
ToMembers(rows, l) == IF online /\ Me \in MembersList(rows, Room) THEN <<l>> ELSE <<>>

\* (Slip: get_json_members does not look at PERMISSION.)
AnyRows(rows) == {m.user : m \in rows}

Members(rows) == MembersList(rows, Room)

Joins(u) ==
  /\ owner # None /\ ~IsMember(members, u, Room)
  /\ members' = AddMember(members, u, Room)
  /\ UNCHANGED <<owner, written, up, online>>

Makes(u) ==
  /\ owner = None
  /\ owner' = u
  /\ members' = AddMember(members, u, Room)
  /\ UNCHANGED <<written, up, online>>

\* ban_member_response does not ask who sends it.
Bans(t) ==
  /\ members' = EditMemberType(members, Room, t, "banned")
  /\ UNCHANGED <<owner, written, up, online>>

BanLines(t) ==
  (IF t = Me /\ online THEN <<Plain("del_room")>> ELSE <<>>)
  \o ToMembers(members', About("ban_member", t))

Deletes(u) ==
  /\ MemberType(members, u, Room) = "ordinary"
  /\ owner' = None /\ members' = WithoutRoom(members, Room) /\ written' = FALSE
  /\ UNCHANGED <<up, online>>

Writes(u) ==
  /\ IsValidMember(members, u, Room)
  /\ written' = TRUE
  /\ UNCHANGED <<owner, members, up, online>>

\* A handler that changes no table and answers.
Answers(l) == UNCHANGED server /\ lines' = Append(lines, l)

Ignores == UNCHANGED <<server, lines>>

Serve(op) ==
  /\ Running /\ asked # <<>> /\ Head(asked).op = op
  /\ asked' = Tail(asked)
  /\ UNCHANGED <<alive, window, listed, groom, screen>>

ServeGetRooms ==
  /\ Serve("get_rooms")
  /\ Answers(About("get_rooms", IF Me \in Members(members) THEN owner ELSE None))

\* get_members_response does not ask who sends it.
ServeGetMembers ==
  /\ Serve("get_members")
  /\ Answers(Line("get_members", None, Members(members)))

\* The list stands for whether there are messages.
ServeNewMessages ==
  /\ Serve("new_messages")
  /\ IF IsMember(members, Me, Room)
     THEN Answers(Line("new_messages", None, IF written THEN {Me} ELSE {}))
     ELSE Ignores

\* search_rooms_in_db: the list stands for whether the room is among those found.
ServeSearch ==
  /\ Serve("search_room")
  /\ LET fits == /\ owner # None /\ ~IsMember(members, Me, Room)
                 /\ RoomMatches(Head(asked).text, RoomName)
     IN Answers(Line("search_room", None, IF fits THEN {Me} ELSE {}))

ServeJoin ==
  /\ owner # None \/ IsMember(members, Me, Room)
  /\ Serve("join_room")
  /\ \/ /\ Joins(Me)
        /\ lines' = lines \o <<About("join_room", owner)>>
                          \o ToMembers(members', About("new_member", Me))
     \/ IsMember(members, Me, Room) /\ Ignores

\* join_to_room_response on a deleted room: the end of the process.
ServerEnds ==
  /\ Running /\ asked # <<>> /\ Head(asked).op = "join_room"
  /\ owner = None /\ ~IsMember(members, Me, Room)
  /\ up' = FALSE
  /\ members' = AddMember(members, Me, Room)
  /\ UNCHANGED <<owner, written, online, asked, lines, alive, window, listed, groom, screen>>

\* A second room has another id and is of no account here.
ServeNewRoom ==
  /\ Serve("new_room")
  /\ \/ Makes(Me) /\ lines' = Append(lines, About("new_room", Me))
     \/ owner # None /\ Ignores

ServeBan ==
  LET t == Head(asked).user IN
  /\ Serve("ban_member")
  /\ Bans(t)
  /\ lines' = lines \o BanLines(t)

ServeDelRoom ==
  /\ Serve("del_room")
  /\ \/ Deletes(Me) /\ lines' = lines \o ToMembers(members, Plain("del_room"))
     \/ MemberType(members, Me, Room) # "ordinary" /\ Ignores

ServeMessage ==
  /\ Serve("send_message")
  /\ \/ Writes(Me) /\ lines' = lines \o ToMembers(members, About("send_message", Me))
     \/ ~IsValidMember(members, Me, Room) /\ Ignores

ServeLogOut ==
  /\ Serve("log_out")
  /\ online' = FALSE
  /\ lines' = Append(lines, Plain("log_out"))
  /\ UNCHANGED <<owner, members, written, up>>

\* Me signs in: its stream is in info->users before it has listed a room.
SignIn ==
  /\ Running /\ window = "auth" /\ ~online /\ asked = <<>> /\ lines = <<>>
  /\ online' = TRUE
  /\ lines' = <<Plain("sign_in")>>
  /\ UNCHANGED <<owner, members, written, up, asked, alive, window, listed, groom, screen>>

\* A request of another user is handled.
Other ==
  /\ Running /\ Len(lines) < MaxLines
  /\ \/ \E u \in User \ {Me} :
          \/ Joins(u) /\ lines' = lines \o ToMembers(members', About("new_member", u))
          \/ Makes(u) /\ UNCHANGED lines
          \/ Writes(u) /\ lines' = lines \o ToMembers(members, About("send_message", u))
     \/ /\ owner \notin {None, Me}
        /\ \/ /\ Deletes(owner)
              /\ lines' = lines \o ToMembers(members, Plain("del_room"))
           \/ \E t \in User \ {owner} : /\ IsMember(members, t, Room)
                                        /\ Bans(t) /\ lines' = lines \o BanLines(t)
  /\ UNCHANGED <<asked, alive, window, listed, groom, screen>>

Asks ==
  \/ AskNewRoom \/ AskAsCustomer \/ AskMessage \/ AskLogOut
  \/ \E text \in Typed : SearchRoom(text)
  \/ StopSearch \/ PickFound \/ CancelJoin \/ AskJoin \/ JoinNothing

Handle ==
  \/ ServeGetRooms \/ ServeGetMembers \/ ServeNewMessages \/ ServeSearch
  \/ ServeJoin \/ ServerEnds
  \/ ServeNewRoom \/ ServeBan \/ ServeDelRoom \/ ServeMessage \/ ServeLogOut

Next == Receive \/ Crash \/ Select \/ Asks \/ Handle \/ SignIn \/ Other

Spec == Init /\ [][Next]_vars

\* The main loop dispatches a connection with a line waiting, the client reads.
FairSpec == Spec /\ WF_vars(Handle) /\ WF_vars(Receive)

-------------------------------------------------------------------------------
(* Properties.                                                             *)

\* The client's room after each line of ls, from g on, and once it has read all that is
\* on its way.
Reading(g, ls) ==
  LET room[n \in 0 .. Len(ls)] == IF n = 0 THEN g ELSE After(room[n - 1], ls[n]) IN room

Read == Reading(groom, lines)[Len(lines)]

\* However joins, bans, messages and the two answers overtake each other in the
\* handlers, a client that reads what is on its way ends up with the room exactly if
\* its user is a member, and with exactly the members that a broadcast goes to.
MembersAgree ==
  alive /\ up /\ online /\ ~Coming({"sign_in"}) /\ ~Requested("get_rooms") =>
    /\ (Read # NoGroom) <=> (Me \in Members(members))
    /\ Read # NoGroom /\ Read.answered => Read.members = Members(members)

\* Who speaks in a room is known to those who got its members: create_gmsg finds the
\* author's login, since who joins is announced before it can write and who is
\* banned is not heard after it.
SpeakersAreKnown ==
  /\ alive /\ lines # <<>> /\ Head(lines).token = "send_message"
  /\ groom # NoGroom /\ groom.answered
  => Head(lines).user \in groom.members

\* Once a client has listed its rooms, no ban of another and no message reaches it
\* about a room that it does not list, which would end it: the ban or the end of the
\* room is the last it hears.
BroadcastsAreListed ==
  alive /\ lines # <<>> /\ listed /\ groom = NoGroom =>
    Head(lines).token \notin {"ban_member", "send_message"}

\* The lines of other users find the room and the member that they are about.
LinesFindTheirRoom == SpeakersAreKnown /\ BroadcastsAreListed

\* The settings of a room are open to its customer only, unless its end is on its
\* way, and offer to ban members, and those who were, but never the customer.
OffersFit ==
  open /\ ~Coming({"del_room", "log_out"}) =>
    /\ owner = Me
    /\ \A t \in offers : t # Me /\ IsMember(members, t, Room)

\* Unless a search overtook the answer to an earlier one, the room is found once at
\* most, and only by a text that listbox_rooms is filtered by, too.
FoundFits ==
  ~hasty => /\ found <= 1
            /\ found = 1 => entry # Empty /\ FilterName(entry, RoomName)

\* What is offered, to ban or to join, is what there is.
OffersAndFindsFit == TypeOK /\ OffersFit /\ FoundFits

\* What LIKE finds is what was typed, letter by letter: the rooms that the server
\* finds begin with it, as those that the client leaves in its list, and the messages
\* have it somewhere.  (Looked at once.)
SearchesAgree ==
  Init => \A text \in BoundedSeq(Symbol, 2), name \in BoundedSeq(Symbol, 3) :
            /\ RoomMatches(text, name) <=> FilterName(text, name)
            /\ MsgMatches(text, name) <=>
                 \E n \in 1 .. Len(name) + 1 : FilterName(text, SubSeq(name, n, Len(name)))

\* The members of a room that is listed arrive.
MembersArrive ==
  (groom # NoGroom /\ ~groom.answered) ~>
    (groom = NoGroom \/ groom.answered \/ ~alive \/ ~up)
===============================================================================
