-------------------------------- MODULE Session --------------------------------
(***************************************************************************)
(* Signing up, in and out: the hash table info->users of the server, the   *)
(* user that each connection acts for, the tokens that USERS keeps, and    *)
(* the windows of the clients.                                             *)
(*                                                                         *)
(* A client is a process with one connection for its requests; files go    *)
(* over connections of their own, which name their user by its token.      *)
(* Requests and replies are delivered in order.  A line that a client has  *)
(* written is read even after the client is gone; the end of a connection  *)
(* is never noticed, since vm_is_connected only knows of the ends the      *)
(* server made itself (libraries/vmchat/vmchat.c).                         *)
(***************************************************************************)
EXTENDS Integers, Sequences, FiniteSets

CONSTANTS
  Client,      \* places for client processes
  Login,       \* logins
  Pass,        \* passwords
  Patient,     \* users wait for an answer before they do the next thing, and
               \* sign in once per process
  MaxToken,    \* bound on the tokens that one login can be given
  MaxBacklog,  \* bound on the requests and answers on their way, of all clients
  MaxHooks     \* bound on the handlers of "destroy" that are counted

ASSUME PatientAssumption == Patient \in BOOLEAN
ASSUME BoundAssumption == {MaxToken, MaxBacklog, MaxHooks} \subseteq Nat \ {0}

VARIABLES
  users,    \* USERS: per login, no row or the password and the token
  up,       \* the server process runs
  online,   \* info->users: per login, whose output stream is in the hash table
  user,     \* per connection, t_client.user
  queue,    \* per connection, the requests written and not handled
  replies,  \* per connection, the answers sent and not received
  files,    \* the tokens that requests for files carry on their way
  link,     \* per client, it has a connection to this server process
  view,     \* per client, the window it shows
  me,       \* per client, chat->login and chat->auth_token
  hooks     \* per client, the times "destroy" is connected to log_out_request

server == <<users, up, online, user>>
wires == <<queue, replies, files, link>>
screen == <<view, me, hooks>>
vars == <<users, up, online, user, queue, replies, files, link, view, me, hooks>>

\* create_user_token: a random part, which may come out as one before did, and
\* the login.
Token == [login : Login, k : 1 .. MaxToken]
TokenOf(l, k) == [login |-> l, k |-> k]

Absent == [is |-> "absent"]                  \* no row, no user, no stream
Gone == [is |-> "gone"]                      \* the stream of a client that is gone
StreamOf(c) == [is |-> "stream", of |-> c]
Row(pass, token) == [is |-> "row", pass |-> pass, token |-> token]
\* known: the structure was read from USERS, so that its user_id is set.
Acting(token, known) == [is |-> "user", token |-> token, known |-> known]

Streams == {Absent, Gone} \cup {StreamOf(c) : c \in Client}
Rows == {Absent} \cup {Row(p, t) : p \in Pass, t \in Token}
Users == {Absent} \cup {Acting(t, k) : t \in Token, k \in BOOLEAN}
Request == [op : {"sign_in", "sign_up"}, login : Login, pass : Pass]
             \cup [op : {"log_out"}, token : Token]
Reply == [op : {"sign_in", "log_out"}, valid : BOOLEAN, token : Token]
           \cup [op : {"sign_up"}, valid : {FALSE}]

TypeOK ==
  /\ users \in [Login -> Rows]
  /\ up \in BOOLEAN
  /\ online \in [Login -> Streams]
  /\ user \in [Client -> Users]
  /\ queue \in [Client -> Seq(Request)]
  /\ replies \in [Client -> Seq(Reply)]
  /\ files \subseteq Token
  /\ link \in [Client -> BOOLEAN]
  /\ view \in [Client -> {"off", "auth", "main"}]
  /\ me \in [Client -> Token \cup {Absent}]
  /\ hooks \in [Client -> 0 .. MaxHooks]

Init ==
  /\ users = [l \in Login |-> Absent]
  /\ up = TRUE
  /\ online = [l \in Login |-> Absent]
  /\ user = [c \in Client |-> Absent]
  /\ queue = [c \in Client |-> <<>>]
  /\ replies = [c \in Client |-> <<>>]
  /\ files = {}
  /\ link = [c \in Client |-> FALSE]
  /\ view = [c \in Client |-> "off"]
  /\ me = [c \in Client |-> Absent]
  /\ hooks = [c \in Client |-> 0]

-------------------------------------------------------------------------------
(* The clients.                                                            *)

\* A client process starts and connects: server/src/server/server.c, incoming.
Start(c) ==
  /\ up /\ view[c] = "off" /\ queue[c] = <<>>
  /\ online' = [l \in Login |-> IF online[l] = StreamOf(c) THEN Gone ELSE online[l]]
  /\ user' = [user EXCEPT ![c] = Absent]
  /\ link' = [link EXCEPT ![c] = TRUE]
  /\ view' = [view EXCEPT ![c] = "auth"]
  /\ me' = [me EXCEPT ![c] = Absent]
  /\ hooks' = [hooks EXCEPT ![c] = 0]
  /\ UNCHANGED <<users, up, queue, replies, files>>

\* What is written to a server that is gone is lost.
Write(c, requests) ==
  queue' = IF link[c] THEN [queue EXCEPT ![c] = @ \o requests] ELSE queue

Quiet(c) == queue[c] = <<>> /\ replies[c] = <<>>

Backlog == {p \in Client \X (1 .. MaxBacklog) : p[2] <= Len(queue[p[1]]) + Len(replies[p[1]])}

Ask(c, window, q) ==
  /\ view[c] = window
  /\ Patient => Quiet(c) /\ (window = "auth" => hooks[c] = 0)
  /\ Cardinality(Backlog) < MaxBacklog
  /\ Write(c, <<q>>)
  /\ UNCHANGED <<server, replies, files, link, screen>>

AskSignIn(c) == \E l \in Login, p \in Pass :
  Ask(c, "auth", [op |-> "sign_in", login |-> l, pass |-> p])

AskSignUp(c) == \E l \in Login, p \in Pass :
  Ask(c, "auth", [op |-> "sign_up", login |-> l, pass |-> p])

\* (Slip: offered before anyone is signed in.)
AskLogOutEarly(c) == Ask(c, "auth", [op |-> "log_out", token |-> me[c]])

AskLogOut(c) == Ask(c, "main", [op |-> "log_out", token |-> me[c]])

\* A file is sent or fetched over a new connection.
AskFile(c) ==
  /\ up /\ view[c] = "main"
  /\ files' = files \cup {me[c]}
  /\ UNCHANGED <<server, queue, replies, link, screen>>

\* The window is closed: "destroy" calls log_out_request as often as it was
\* connected, if it is the main window that shows.
Close(c) ==
  LET goodbye == [i \in 1 .. hooks[c] |-> [op |-> "log_out", token |-> me[c]]] IN
  /\ view[c] # "off"
  /\ Patient => Quiet(c)
  /\ Write(c, IF view[c] = "main" THEN goodbye ELSE <<>>)
  /\ replies' = [replies EXCEPT ![c] = <<>>]
  /\ view' = [view EXCEPT ![c] = "off"]
  /\ UNCHANGED <<server, files, link, me, hooks>>

\* The client process, its machine or the network between is gone.
Kill(c) ==
  /\ view[c] # "off"
  /\ replies' = [replies EXCEPT ![c] = <<>>]
  /\ view' = [view EXCEPT ![c] = "off"]
  /\ UNCHANGED <<server, queue, files, link, me, hooks>>

\* start_main_window: hides the window that shows and shows the other, and
\* connects "destroy" once more.
SwitchWindow(c) ==
  /\ view' = [view EXCEPT ![c] = IF @ = "auth" THEN "main" ELSE "auth"]
  /\ hooks' = [hooks EXCEPT ![c] = IF @ < MaxHooks THEN @ + 1 ELSE @]

Receive(c) ==
  LET r == Head(replies[c]) IN
  /\ replies[c] # <<>>
  /\ replies' = [replies EXCEPT ![c] = Tail(@)]
  /\ \/ /\ r.op = "sign_in" /\ r.valid
        /\ me' = [me EXCEPT ![c] = r.token]
        /\ SwitchWindow(c)
     \/ /\ r.op = "log_out" /\ r.token = me[c]
        /\ SwitchWindow(c)
        /\ UNCHANGED me
     \/ /\ ~r.valid \/ (r.op = "log_out" /\ r.token # me[c])
        /\ UNCHANGED screen
  /\ UNCHANGED <<server, queue, files, link>>

-------------------------------------------------------------------------------
(* The server: server/src/json/json_responses.c.                           *)

Take(c, op) ==
  /\ up /\ queue[c] # <<>>
  /\ Head(queue[c]).op = op
  /\ queue' = [queue EXCEPT ![c] = Tail(@)]

\* What is sent to a client that is gone is lost.
Send(c, r) ==
  replies' = IF view[c] = "off" THEN replies ELSE [replies EXCEPT ![c] = Append(@, r)]

\* (Slip: a second stream replaces the first.)
MayEnterAgain(rows, q) == rows[q.login] # Absent /\ rows[q.login].pass = q.pass

\* The checks of sign_in.
MayEnter(rows, q) ==
  /\ rows[q.login] # Absent
  /\ rows[q.login].pass = q.pass
  /\ online[q.login] = Absent

\* sign_in, on the given rows of USERS: the new token is written, and the
\* connection acts for the user it named, before anything is checked.
Enter(c, q, rows) == \E k \in 1 .. MaxToken :
  LET token == TokenOf(q.login, k)
      valid == MayEnter(rows, q)
  IN /\ users' = IF rows[q.login] = Absent THEN rows
                                           ELSE [rows EXCEPT ![q.login].token = token]
     /\ user' = [user EXCEPT ![c] = Acting(token, valid)]
     /\ online' = IF valid THEN [online EXCEPT ![q.login] = StreamOf(c)] ELSE online
     /\ Send(c, [op |-> "sign_in", valid |-> valid, token |-> token])

SignIn(c) ==
  /\ Take(c, "sign_in")
  /\ Enter(c, Head(queue[c]), users)
  /\ UNCHANGED <<up, files, link, screen>>

\* sign_up of a new login writes its row and goes on as sign_in.
SignUp(c) ==
  LET q == Head(queue[c]) IN
  /\ Take(c, "sign_up")
  /\ \/ /\ users[q.login] = Absent
        /\ Enter(c, q, [users EXCEPT ![q.login] = Row(q.pass, TokenOf(q.login, 1))])
     \/ /\ users[q.login] # Absent
        /\ Send(c, [op |-> "sign_up", valid |-> FALSE])
        /\ UNCHANGED <<users, online, user>>
  /\ UNCHANGED <<up, files, link, screen>>

\* (Slip: the token of the request is not looked at.)
MayLeaveAnyhow(c, q) == TRUE

\* (Slip: the token is compared with the one in USERS.)
MayLeaveByRow(c, q) == users[q.token.login].token = q.token

MayLeave(c, q) == user[c].token = q.token

LogOut(c) ==
  LET q == Head(queue[c]) IN
  /\ Take(c, "log_out")
  /\ MayLeave(c, q)
  /\ online' = [online EXCEPT ![user[c].token.login] = Absent]
  /\ Send(c, [op |-> "log_out", valid |-> TRUE, token |-> q.token])
  /\ UNCHANGED <<users, up, user, files, link, screen>>

\* Another token than the connection's: no reply.
RefuseLogOut(c) ==
  /\ Take(c, "log_out")
  /\ ~MayLeave(c, Head(queue[c]))
  /\ UNCHANGED <<server, replies, files, link, screen>>

\* get_user_by_token finds the user of a request for a file ...
HandleFile == \E t \in files :
  /\ up
  /\ \E l \in Login : users[l] # Absent /\ users[l].token = t
  /\ files' = files \ {t}
  /\ UNCHANGED <<server, queue, replies, link, screen>>

\* ... or returns NULL, which upload_file_response and download_file_response
\* dereference: the process ends, the database stays.
HandleFileOfNobody == \E t \in files :
  /\ up
  /\ \A l \in Login : users[l] # Absent => users[l].token # t
  /\ up' = FALSE
  /\ online' = [l \in Login |-> Absent]
  /\ user' = [c \in Client |-> Absent]
  /\ queue' = [c \in Client |-> <<>>]
  /\ files' = {}
  /\ link' = [c \in Client |-> FALSE]
  /\ UNCHANGED <<users, replies, screen>>

Restart ==
  /\ ~up
  /\ up' = TRUE
  /\ UNCHANGED <<users, online, user, wires, screen>>

-------------------------------------------------------------------------------

ClientStep(c) ==
  \/ Start(c) \/ AskSignIn(c) \/ AskSignUp(c) \/ AskLogOut(c) \/ AskFile(c)
  \/ Close(c) \/ Kill(c) \/ Receive(c)

Handle(c) == SignIn(c) \/ SignUp(c) \/ LogOut(c) \/ RefuseLogOut(c)

Next == \/ \E c \in Client : ClientStep(c) \/ Handle(c)
        \/ HandleFile \/ HandleFileOfNobody \/ Restart

Spec == Init /\ [][Next]_vars

\* The main loop dispatches every connection that has a line waiting, and each
\* client reads what it is sent.
Fairness == \A c \in Client : WF_vars(Handle(c)) /\ WF_vars(Receive(c))

FairSpec == Spec /\ Fairness

-------------------------------------------------------------------------------
(* Properties.                                                             *)

Leaving(c) ==
  \/ \E i \in 1 .. Len(queue[c]) : queue[c][i].op = "log_out"
  \/ \E i \in 1 .. Len(replies[c]) : replies[c][i].op = "log_out"

\* The client shows the main window, over a live connection, and has not asked
\* to leave.
SignedIn(c) == view[c] = "main" /\ link[c] /\ ~Leaving(c)

\* A place in the hash table is given up only at the end of the process or for
\* a log-out with a token that was made for that login: no refused sign-in, no
\* log-out of another login frees it.
\* (A second log-out with one token, of an impatient user, may find another client
\* there that has signed in under the login since, and frees the place all the same.)
LogOutsAreOwn ==
  [][\A l \in Login :
       online[l] # Absent /\ online'[l] = Absent /\ up' =>
         \E c \in Client : /\ queue'[c] # queue[c]
                           /\ Head(queue[c]).op = "log_out"
                           /\ Head(queue[c]).token.login = l]_vars

\* With patient users: client, connection and hash table agree on who is signed
\* in, whatever other clients try under the same login; and a log-out that is next
\* to be handled, however late, finds its own connection signed in with its token,
\* and in the hash table its own stream, not that of another client of the login.
SessionsAgree ==
  \A c \in Client :
    /\ SignedIn(c) =>
         /\ user[c] = Acting(me[c], TRUE)
         /\ online[me[c].login] = StreamOf(c)
    /\ queue[c] # <<>> /\ Head(queue[c]).op = "log_out" =>
         /\ user[c] = Acting(Head(queue[c]).token, TRUE)
         /\ online[Head(queue[c]).token.login] = StreamOf(c)

\* With patient users: who asks to leave is taken out of the hash table.
LogOutTakesEffect ==
  \A c \in Client, l \in Login :
    (\E i \in 1 .. Len(queue[c]) : queue[c][i].op = "log_out" /\ queue[c][i].token.login = l)
      ~> (online[l] # StreamOf(c) \/ ~up)
===============================================================================
