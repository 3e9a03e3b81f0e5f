------------------------------ MODULE SessionProofs ------------------------------
(* What holds of sessions, for every number of clients, logins and tokens.  *)
EXTENDS Session, TLAPS

\* A client that shows the main window knows the token it was given.
Known == \A c \in Client : view[c] = "main" => me[c] \in Token

Inv == TypeOK /\ Known

(* The parts of a request and of a reply.                                  *)
LEMMA Parts ==
  /\ \A q \in Request : q.op # "log_out" => /\ q.op \in {"sign_in", "sign_up"}
                                            /\ q.login \in Login /\ q.pass \in Pass
  /\ \A q \in Request : q.op = "log_out" => q.token \in Token
  /\ \A r \in Reply : r.op \in {"sign_in", "log_out"} => r.token \in Token
  BY DEF Request, Reply

(* The first of a connection's requests is one, and the others are too.    *)
LEMMA FirstRequest ==
  ASSUME TypeOK, NEW c \in Client, queue[c] # <<>>
  PROVE  Head(queue[c]) \in Request /\ Tail(queue[c]) \in Seq(Request)
                                    /\ Tail(queue[c]) # queue[c]
<1>1. queue[c] \in Seq(Request)
  BY DEF TypeOK
<1>2. Head(queue[c]) \in Request /\ Tail(queue[c]) \in Seq(Request)
  BY <1>1
<1>3. Len(Tail(queue[c])) = Len(queue[c]) - 1 /\ Len(queue[c]) \in Nat
  BY <1>1
<1>4. ASSUME Tail(queue[c]) = queue[c]
      PROVE  FALSE
  <2>1. Len(queue[c]) = Len(queue[c]) - 1
    BY <1>3, <1>4
  <2> QED
    BY <1>3, <2>1
<1> QED
  BY <1>2, <1>4

(* As for a client's answers.                                              *)
LEMMA FirstReply ==
  ASSUME TypeOK, NEW c \in Client, replies[c] # <<>>
  PROVE  Head(replies[c]) \in Reply /\ Tail(replies[c]) \in Seq(Reply)
<1>1. replies[c] \in Seq(Reply)
  BY DEF TypeOK
<1> QED
  BY <1>1

(* What is written or sent keeps the types of the wires.                   *)
LEMMA WriteType ==
  ASSUME TypeOK, NEW c \in Client, NEW s \in Seq(Request), Write(c, s)
  PROVE  queue' \in [Client -> Seq(Request)]
<1>1. queue[c] \o s \in Seq(Request)
  BY DEF TypeOK
<1> QED
  BY <1>1 DEF Write, TypeOK

\* The answer sent is one.
LEMMA SendType ==
  ASSUME TypeOK, NEW c \in Client, NEW r \in Reply, Send(c, r)
  PROVE  replies' \in [Client -> Seq(Reply)]
<1>1. Append(replies[c], r) \in Seq(Reply)
  BY DEF TypeOK
<1> QED
  BY <1>1 DEF Send, TypeOK

\* What handle_request takes is a request, and it is gone then.
LEMMA TakeType ==
  ASSUME TypeOK, NEW c \in Client, NEW op, Take(c, op)
  PROVE  /\ up
         /\ queue[c] # <<>>
         /\ queue'[c] # queue[c]
         /\ Head(queue[c]) \in Request
         /\ Head(queue[c]).op = op
         /\ queue' \in [Client -> Seq(Request)]
<1>1. up /\ queue[c] # <<>> /\ Head(queue[c]).op = op
  BY DEF Take
<1>2. Tail(queue[c]) \in Seq(Request) /\ Tail(queue[c]) # queue[c] /\ Head(queue[c]) \in Request
  BY <1>1, FirstRequest
<1>3. queue \in [Client -> Seq(Request)] /\ queue' = [queue EXCEPT ![c] = Tail(@)]
  BY DEF TypeOK, Take
<1> QED
  BY <1>1, <1>2, <1>3

(* The row of a new user.                                                  *)
LEMMA NewRow ==
  ASSUME TypeOK, NEW q \in Request, q.op # "log_out"
  PROVE  [users EXCEPT ![q.login] = Row(q.pass, TokenOf(q.login, 1))] \in [Login -> Rows]
<1>1. q.login \in Login /\ q.pass \in Pass
  BY Parts
<1>2. TokenOf(q.login, 1) \in Token
  BY <1>1, BoundAssumption DEF TokenOf, Token
<1> QED
  BY <1>1, <1>2 DEF TypeOK, Rows, Row

(* Sign-in and sign-up give out tokens of the login and nothing else.      *)
LEMMA EnterType ==
  ASSUME TypeOK, NEW c \in Client, NEW q \in Request, q.op # "log_out",
         NEW rows \in [Login -> Rows], Enter(c, q, rows)
  PROVE  /\ users' \in [Login -> Rows]
         /\ user' \in [Client -> Users]
         /\ online' \in [Login -> Streams]
         /\ \A l \in Login : online[l] # Absent => online'[l] # Absent
         /\ replies' \in [Client -> Seq(Reply)]
<1> DEFINE token(k) == TokenOf(q.login, k)
           valid == MayEnter(rows, q)
<1>1. PICK k \in 1 .. MaxToken :
        /\ users' = IF rows[q.login] = Absent THEN rows
                                              ELSE [rows EXCEPT ![q.login].token = token(k)]
        /\ user' = [user EXCEPT ![c] = Acting(token(k), valid)]
        /\ online' = IF valid THEN [online EXCEPT ![q.login] = StreamOf(c)] ELSE online
        /\ Send(c, [op |-> "sign_in", valid |-> valid, token |-> token(k)])
  BY DEF Enter
<1>2. q.login \in Login /\ valid \in BOOLEAN
  BY Parts DEF MayEnter
<1>3. token(k) \in Token
  BY <1>2 DEF Token, TokenOf
<1> HIDE DEF token, valid
<1>4. users' \in [Login -> Rows]
  <2>1. rows[q.login] # Absent => [rows[q.login] EXCEPT !.token = token(k)] \in Rows
    BY <1>2, <1>3 DEF Rows, Row, Absent
  <2> QED
    BY <1>1, <1>2, <2>1
<1>5. user' \in [Client -> Users]
  BY <1>1, <1>2, <1>3 DEF TypeOK, Users
<1>6. StreamOf(c) \in Streams /\ StreamOf(c) # Absent
  BY DEF Streams, StreamOf, Absent
<1>7. online' \in [Login -> Streams] /\ \A l \in Login : online[l] # Absent => online'[l] # Absent
  BY <1>1, <1>2, <1>6 DEF TypeOK
<1>8. [op |-> "sign_in", valid |-> valid, token |-> token(k)] \in Reply
  BY <1>2, <1>3 DEF Reply
<1> QED
  BY <1>1, <1>4, <1>5, <1>7, <1>8, SendType

(* The invariant holds before anyone has signed up.                        *)
LEMMA InitInv == Init => Inv
  BY BoundAssumption DEF Init, Inv, Known, TypeOK, Rows, Streams, Users

(* No step of a client breaks the invariant.                               *)
LEMMA ClientInv ==
  ASSUME Inv, NEW c \in Client, ClientStep(c)
  PROVE  Inv'
<1> USE DEF Inv, Known, server, wires, screen
<1>1. CASE Start(c)
  <2>1. online' \in [Login -> Streams]
    BY <1>1 DEF Start, TypeOK, Streams
  <2>2. user' \in [Client -> Users] /\ me' \in [Client -> Token \cup {Absent}]
    BY <1>1 DEF Start, TypeOK, Users
  <2>3. hooks' \in [Client -> 0 .. MaxHooks]
    BY <1>1, BoundAssumption DEF Start, TypeOK
  <2> QED
    BY <1>1, <2>1, <2>2, <2>3 DEF Start, TypeOK
<1>2. ASSUME NEW window, NEW q \in Request, Ask(c, window, q)
      PROVE  Inv'
  <2>1. <<q>> \in Seq(Request)
    OBVIOUS
  <2>2. queue' \in [Client -> Seq(Request)]
    BY <1>2, <2>1, WriteType DEF Ask
  <2> QED
    BY <1>2, <2>2 DEF Ask, TypeOK
<1>3. CASE AskSignIn(c)
  BY <1>2, <1>3 DEF AskSignIn, Request
<1>4. CASE AskSignUp(c)
  BY <1>2, <1>4 DEF AskSignUp, Request
<1>5. CASE AskLogOut(c)
  <2>1. me[c] \in Token
    BY <1>5 DEF AskLogOut, Ask
  <2> QED
    BY <1>2, <1>5, <2>1 DEF AskLogOut, Request
<1>6. CASE AskFile(c)
  BY <1>6 DEF AskFile, TypeOK
<1>7. CASE Close(c)
  <2> DEFINE goodbye == [i \in 1 .. hooks[c] |-> [op |-> "log_out", token |-> me[c]]]
             said == IF view[c] = "main" THEN goodbye ELSE <<>>
  <2>1. said \in Seq(Request)
    <3>1. CASE view[c] = "main"
      <4>1. [op |-> "log_out", token |-> me[c]] \in Request
        BY <3>1 DEF Request
      <4>2. hooks[c] \in Nat
        BY BoundAssumption DEF TypeOK
      <4> HIDE DEF Inv
      <4>3. goodbye \in Seq(Request)
        BY <4>1, <4>2
      <4> QED
        BY <3>1, <4>3
    <3> QED
      BY <3>1
  <2>2. Write(c, said)
    BY <1>7 DEF Close
  <2> HIDE DEF said
  <2>3. queue' \in [Client -> Seq(Request)]
    BY <2>1, <2>2, WriteType
  <2>4. replies' \in [Client -> Seq(Reply)]
    BY <1>7 DEF Close, TypeOK
  <2> QED
    BY <1>7, <2>3, <2>4 DEF Close, TypeOK
<1>8. CASE Kill(c)
  <2>1. replies' \in [Client -> Seq(Reply)]
    BY <1>8 DEF Kill, TypeOK
  <2> QED
    BY <1>8, <2>1 DEF Kill, TypeOK
<1>9. CASE Receive(c)
  <2> DEFINE r == Head(replies[c])
  <2>1. r \in Reply /\ replies' \in [Client -> Seq(Reply)]
    BY <1>9, FirstReply DEF Receive, TypeOK
  <2>2. SwitchWindow(c) => /\ view' \in [Client -> {"off", "auth", "main"}]
                           /\ \A d \in Client \ {c} : view'[d] = view[d]
                           /\ hooks' \in [Client -> 0 .. MaxHooks]
    BY BoundAssumption DEF SwitchWindow, TypeOK
  <2>3. CASE r.op = "sign_in" /\ r.valid
    <3>1. r.token \in Token
      BY <2>1, <2>3, Parts
    <3>2. SwitchWindow(c) /\ me' = [me EXCEPT ![c] = r.token]
      BY <1>9, <2>3 DEF Receive
    <3> QED
      BY <1>9, <2>1, <2>2, <3>1, <3>2 DEF Receive, TypeOK
  <2>4. CASE r.op = "log_out" /\ r.token = me[c] /\ SwitchWindow(c) /\ UNCHANGED me
    <3>1. r.token \in Token
      BY <2>1, <2>4, Parts
    <3> QED
      BY <1>9, <2>1, <2>2, <2>4, <3>1 DEF Receive, TypeOK
  <2>5. CASE UNCHANGED screen
    BY <1>9, <2>1, <2>5 DEF Receive, TypeOK
  <2> QED
    BY <1>9, <2>3, <2>4, <2>5 DEF Receive
<1> QED
  BY <1>1, <1>3, <1>4, <1>5, <1>6, <1>7, <1>8, <1>9, ClientStep(c) DEF ClientStep

(* No step of the server breaks it.                                        *)
LEMMA ServerInv ==
  ASSUME Inv,
         (\E c \in Client : Handle(c)) \/ HandleFile \/ HandleFileOfNobody \/ Restart
  PROVE  Inv'
<1> USE DEF Inv, Known, server, wires, screen
<1>1. ASSUME NEW c \in Client, SignIn(c)
      PROVE  Inv'
  <2> DEFINE q == Head(queue[c])
  <2>1. q \in Request /\ q.op # "log_out" /\ queue' \in [Client -> Seq(Request)]
    BY <1>1, TakeType DEF SignIn
  <2>2. users \in [Login -> Rows] /\ Enter(c, q, users)
    BY <1>1 DEF SignIn, TypeOK
  <2> QED
    BY <1>1, <2>1, <2>2, EnterType DEF SignIn, TypeOK
<1>2. ASSUME NEW c \in Client, SignUp(c)
      PROVE  Inv'
  <2> DEFINE q == Head(queue[c])
             rows == [users EXCEPT ![q.login] = Row(q.pass, TokenOf(q.login, 1))]
  <2>1. q \in Request /\ q.op # "log_out" /\ queue' \in [Client -> Seq(Request)]
    BY <1>2, TakeType DEF SignUp
  <2>2. rows \in [Login -> Rows]
    BY <2>1, NewRow
  <2> HIDE DEF rows
  <2>3. CASE users[q.login] = Absent /\ Enter(c, q, rows)
    BY <1>2, <2>1, <2>2, <2>3, EnterType DEF SignUp, TypeOK
  <2>4. CASE /\ Send(c, [op |-> "sign_up", valid |-> FALSE])
             /\ UNCHANGED <<users, online, user>>
    <3>1. [op |-> "sign_up", valid |-> FALSE] \in Reply
      BY DEF Reply
    <3>2. replies' \in [Client -> Seq(Reply)]
      BY <2>4, <3>1, SendType
    <3> QED
      BY <1>2, <2>1, <2>4, <3>2 DEF SignUp, TypeOK
  <2> QED
    BY <1>2, <2>3, <2>4 DEF SignUp, rows
<1>3. ASSUME NEW c \in Client, LogOut(c)
      PROVE  Inv'
  <2> DEFINE q == Head(queue[c])
  <2>1. q \in Request /\ q.op = "log_out" /\ queue' \in [Client -> Seq(Request)]
    BY <1>3, TakeType DEF LogOut
  <2>2. [op |-> "log_out", valid |-> TRUE, token |-> q.token] \in Reply
    BY <2>1, Parts DEF Reply
  <2>3. replies' \in [Client -> Seq(Reply)]
    BY <1>3, <2>2, SendType DEF LogOut
  <2>4. online' \in [Login -> Streams]
    BY <1>3 DEF LogOut, TypeOK, Streams
  <2> QED
    BY <1>3, <2>1, <2>3, <2>4 DEF LogOut, TypeOK
<1>4. ASSUME NEW c \in Client, RefuseLogOut(c)
      PROVE  Inv'
  <2>1. queue' \in [Client -> Seq(Request)]
    BY <1>4, TakeType DEF RefuseLogOut
  <2> QED
    BY <1>4, <2>1 DEF RefuseLogOut, TypeOK
<1>5. CASE HandleFile
  BY <1>5 DEF HandleFile, TypeOK
<1>6. CASE HandleFileOfNobody
  <2>1. queue' \in [Client -> Seq(Request)]
    BY <1>6 DEF HandleFileOfNobody
  <2>2. online' \in [Login -> Streams] /\ user' \in [Client -> Users]
    BY <1>6 DEF HandleFileOfNobody, Streams, Users
  <2> QED
    BY <1>6, <2>1, <2>2 DEF HandleFileOfNobody, TypeOK
<1>7. CASE Restart
  BY <1>7 DEF Restart, TypeOK
<1> QED
  BY <1>1, <1>2, <1>3, <1>4, <1>5, <1>6, <1>7 DEF Handle

(* Every reachable state satisfies the invariant, however impatient the    *)
(* users are.                                                              *)
THEOREM Invariance == Spec => []Inv
<1>1. Inv /\ [Next]_vars => Inv'
  <2>1. Inv /\ UNCHANGED vars => Inv'
    BY DEF Inv, Known, TypeOK, vars
  <2> QED
    BY <2>1, ClientInv, ServerInv DEF Next
<1> QED
  BY InitInv, <1>1, PTL DEF Spec

(* Rows, tokens, requests, answers and windows keep their types; above all *)
(* a client never asks to leave with a token that it was not given:        *)
(* json_requests.c, log_out_request.                                       *)
THEOREM TypeCorrect == Spec => []TypeOK
<1>1. Inv => TypeOK
  BY DEF Inv
<1> QED
  BY Invariance, <1>1, PTL

(* A place in the hash table is given up only at the end of the process or *)
(* for a log-out with a token of that login: log_out_response, and no      *)
(* other handler.                                                          *)
THEOREM OwnLogOuts == Spec => LogOutsAreOwn
<1> DEFINE Freed(l) == online[l] # Absent /\ online'[l] = Absent /\ up'
           Cause(l) == \E c \in Client : /\ queue'[c] # queue[c]
                                         /\ Head(queue[c]).op = "log_out"
                                         /\ Head(queue[c]).token.login = l
<1>1. ASSUME Inv, [Next]_vars, NEW l \in Login, Freed(l)
      PROVE  Cause(l)
  <2> USE DEF server, wires, screen
  <2>1. TypeOK
    BY <1>1 DEF Inv
  <2>2. ASSUME NEW c \in Client, ClientStep(c)
        PROVE  FALSE
    <3>1. CASE Start(c)
      BY <1>1, <2>1, <3>1 DEF Start, TypeOK, Absent, Gone
    <3>2. CASE ~Start(c)
      BY <1>1, <2>2, <3>2 DEF ClientStep, AskSignIn, AskSignUp, AskLogOut, AskFile, Ask,
                              Close, Kill, Receive
    <3> QED
      BY <3>1, <3>2
  <2>3. ASSUME NEW c \in Client, SignIn(c)
        PROVE  FALSE
    <3>1. Head(queue[c]) \in Request /\ Head(queue[c]).op # "log_out"
      BY <2>1, <2>3, TakeType DEF SignIn
    <3>2. users \in [Login -> Rows] /\ Enter(c, Head(queue[c]), users)
      BY <2>1, <2>3 DEF SignIn, TypeOK
    <3> QED
      BY <1>1, <2>1, <3>1, <3>2, EnterType
  <2>4. ASSUME NEW c \in Client, SignUp(c)
        PROVE  FALSE
    <3> DEFINE q == Head(queue[c])
               rows == [users EXCEPT ![q.login] = Row(q.pass, TokenOf(q.login, 1))]
    <3>1. q \in Request /\ q.op # "log_out"
      BY <2>1, <2>4, TakeType DEF SignUp
    <3>2. rows \in [Login -> Rows]
      BY <2>1, <3>1, NewRow
    <3>3. Enter(c, q, rows)
      BY <1>1, <2>4 DEF SignUp
    <3> HIDE DEF rows
    <3> QED
      BY <1>1, <2>1, <3>1, <3>2, <3>3, EnterType
  <2>5. ASSUME NEW c \in Client, LogOut(c)
        PROVE  Cause(l)
    <3>1. /\ queue'[c] # queue[c]
          /\ Head(queue[c]).op = "log_out"
      BY <2>1, <2>5, TakeType DEF LogOut
    <3>2. user[c].token = Head(queue[c]).token
      BY <2>5 DEF LogOut, MayLeave
    <3>3. online' = [online EXCEPT ![user[c].token.login] = Absent]
      BY <2>5 DEF LogOut
    <3>4. l = user[c].token.login
      BY <1>1, <2>1, <3>3 DEF TypeOK
    <3> QED
      BY <3>1, <3>2, <3>4
  <2>6. CASE UNCHANGED vars \/ HandleFile \/ HandleFileOfNobody \/ Restart
    BY <1>1, <2>6 DEF vars, HandleFile, HandleFileOfNobody, Restart
  <2>7. ASSUME NEW c \in Client, RefuseLogOut(c)
        PROVE  FALSE
    BY <1>1, <2>7 DEF RefuseLogOut
  <2> QED
    BY <1>1, <2>2, <2>3, <2>4, <2>5, <2>6, <2>7 DEF Next, Handle
<1>2. Inv /\ [Next]_vars =>
        [\A l \in Login :
           online[l] # Absent /\ online'[l] = Absent /\ up' =>
             \E c \in Client : /\ queue'[c] # queue[c]
                               /\ Head(queue[c]).op = "log_out"
                               /\ Head(queue[c]).token.login = l]_vars
  BY <1>1
<1> QED
  BY Invariance, <1>2, PTL DEF Spec, LogOutsAreOwn

-------------------------------------------------------------------------------
(* With patient users, client, connection and hash table agree on who is    *)
(* signed in.                                                               *)

LogOutOf(t) == [op |-> "log_out", token |-> t]
SignInOf(t) == [op |-> "sign_in", valid |-> TRUE, token |-> t]
LeftOf(t) == [op |-> "log_out", valid |-> TRUE, token |-> t]

\* A patient user waits: nothing is on its way, or one request, or one answer;
\* and only to a server that is there.
OneAtATime(c) ==
  /\ queue[c] = <<>> \/ \E q \in Request : queue[c] = <<q>>
  /\ replies[c] = <<>> \/ \E r \in Reply : replies[c] = <<r>>
  /\ queue[c] = <<>> \/ replies[c] = <<>>
  /\ ~link[c] => queue[c] = <<>>

\* What is on its way fits the window: who is gone hears nothing, who has not
\* signed in does not leave, who has signed in can only leave, and who has left
\* asks for nothing.
FitsWindow(c) ==
  /\ view[c] = "off" => replies[c] = <<>>
  /\ view[c] = "auth" => /\ hooks[c] = 0 \/ Quiet(c)
                         /\ \A q \in Request : queue[c] = <<q>> => q.op # "log_out"
                         /\ \A r \in Reply : replies[c] = <<r>> => r.op # "log_out"
  /\ view[c] = "main" => /\ hooks[c] = 1
                         /\ queue[c] = <<>> \/ queue[c] = <<LogOutOf(me[c])>>
                         /\ replies[c] = <<>> \/ replies[c] = <<LeftOf(me[c])>>

\* The connection of the client is signed in with token t, or so the client will
\* find when it has read its answer.
In(c, t) ==
  /\ link[c]
  /\ \/ view[c] = "main" /\ Quiet(c) /\ me[c] = t
     \/ queue[c] = <<LogOutOf(t)>>
     \/ view[c] = "auth" /\ replies[c] = <<SignInOf(t)>>

\* Who is in is in the hash table, under the token's login.
Placed(c) == \A t \in Token :
  In(c, t) => user[c] = Acting(t, TRUE) /\ online[t.login] = StreamOf(c)

AgreedOf(c) == OneAtATime(c) /\ FitsWindow(c) /\ Placed(c)

Agreed == \A c \in Client : AgreedOf(c)

-------------------------------------------------------------------------------

(* Sequences of no element and of one.                                     *)
LEMMA Short ==
  /\ \A q : Head(<<q>>) = q /\ Tail(<<q>>) = <<>> /\ <<q>> # <<>>
  /\ \A q : <<>> \o <<q>> = <<q>> /\ Append(<<>>, q) = <<q>>
  /\ \A p, q : <<p>> = <<q>> => p = q
  OBVIOUS

\* What has no end added to it stays as it is.
LEMMA ShortRequests == \A s \in Seq(Request) : s \o <<>> = s
  OBVIOUS

(* Requests and answers are told apart by what they ask for.               *)
LEMMA Apart ==
  /\ \A t : LogOutOf(t).op = "log_out" /\ LogOutOf(t).token = t
  /\ \A t : LeftOf(t).op = "log_out" /\ LeftOf(t).token = t
  /\ \A t : SignInOf(t).op = "sign_in" /\ SignInOf(t).token = t
  /\ \A q \in Request : q.op = "log_out" => q = LogOutOf(q.token)
  /\ \A c, d \in Client : StreamOf(c) = StreamOf(d) => c = d
  /\ \A c \in Client : StreamOf(c) # Absent
  BY DEF LogOutOf, LeftOf, SignInOf, Request, StreamOf, Absent

(* A client that a step does not touch, and whose stream stays where it is, *)
(* agrees as before.                                                       *)
LEMMA Untouched ==
  ASSUME Inv, NEW d \in Client, AgreedOf(d),
         queue'[d] = queue[d], replies'[d] = replies[d], link'[d] = link[d],
         view'[d] = view[d], me'[d] = me[d], hooks'[d] = hooks[d], user'[d] = user[d],
         \A l \in Login : online[l] = StreamOf(d) => online'[l] = StreamOf(d)
  PROVE  AgreedOf(d)'
<1>1. OneAtATime(d)' /\ FitsWindow(d)'
  BY DEF AgreedOf, OneAtATime, FitsWindow, Quiet
<1>2. ASSUME NEW t \in Token, In(d, t)'
      PROVE  user'[d] = Acting(t, TRUE) /\ online'[t.login] = StreamOf(d)
  <2>1. In(d, t)
    BY <1>2 DEF In, Quiet
  <2>2. user[d] = Acting(t, TRUE) /\ online[t.login] = StreamOf(d)
    BY <2>1 DEF AgreedOf, Placed
  <2> QED
    BY <2>2 DEF Token
<1> QED
  BY <1>1, <1>2 DEF AgreedOf, Placed

\* The agreement holds when nobody has signed up.
LEMMA InitAgreed == Init => Agreed
  BY DEF Init, Agreed, AgreedOf, OneAtATime, FitsWindow, Placed, In

-------------------------------------------------------------------------------
(* Steps of a client.                                                      *)

\* A request of a patient user fits its window: choose_auth,
\* log_out_request.
LEMMA AskAgreed ==
  ASSUME Patient, Inv, Agreed, NEW c \in Client, NEW window, NEW q \in Request,
         Ask(c, window, q),
         \/ window = "auth" /\ q.op # "log_out"
         \/ window = "main" /\ q = LogOutOf(me[c])
  PROVE  Agreed'
<1>1. AgreedOf(c) /\ Quiet(c) /\ view[c] = window /\ (window = "auth" => hooks[c] = 0)
  BY DEF Agreed, Ask
<1>2. queue' = IF link[c] THEN [queue EXCEPT ![c] = <<q>>] ELSE queue
  BY <1>1, Short DEF Ask, Write, Quiet
<1>3. UNCHANGED <<users, up, online, user, replies, files, link, view, me, hooks>>
  BY DEF Ask, server, screen
<1>4. queue \in [Client -> Seq(Request)]
  BY DEF Inv, TypeOK
<1>5. ASSUME NEW d \in Client \ {c}
      PROVE  AgreedOf(d)'
  BY <1>2, <1>3, <1>4, <1>5, Untouched DEF Agreed
<1>6. CASE ~link[c]
  BY <1>1, <1>2, <1>3, <1>5, <1>6, Untouched DEF Agreed
<1>7. CASE link[c]
  <2>1. queue'[c] = <<q>> /\ replies'[c] = <<>>
    BY <1>1, <1>2, <1>3, <1>4, <1>7 DEF Quiet
  <2>2. OneAtATime(c)'
    BY <1>3, <1>7, <2>1 DEF OneAtATime
  <2>3. FitsWindow(c)'
    BY <1>1, <1>3, <2>1, Short DEF AgreedOf, FitsWindow
  <2>4. ASSUME NEW t \in Token, In(c, t)'
        PROVE  In(c, t)
    <3>1. <<q>> # <<>>
      BY Short
    <3>2. <<q>> = <<LogOutOf(t)>>
      BY <1>3, <2>1, <2>4, <3>1, Short DEF In, Quiet
    <3>3. q = LogOutOf(t)
      BY <3>2, Short
    <3>4. window = "main" /\ me[c] = t
      BY <3>3, Apart
    <3> QED
      BY <1>1, <1>7, <3>4 DEF In
  <2>5. Placed(c)'
    BY <1>1, <1>3, <2>4 DEF AgreedOf, Placed
  <2> QED
    BY <1>5, <2>2, <2>3, <2>5 DEF Agreed, AgreedOf
<1> QED
  BY <1>6, <1>7

\* A closed main window says goodbye once: start_main_window's handler.
LEMMA CloseAgreed ==
  ASSUME Patient, Inv, Agreed, NEW c \in Client, Close(c)
  PROVE  Agreed'
<1> DEFINE goodbye == [i \in 1 .. hooks[c] |-> [op |-> "log_out", token |-> me[c]]]
           said == IF view[c] = "main" THEN goodbye ELSE <<>>
<1>1. AgreedOf(c) /\ Quiet(c) /\ view[c] # "off"
  BY DEF Agreed, Close
<1>2. said = IF view[c] = "main" THEN <<LogOutOf(me[c])>> ELSE <<>>
  <2>1. CASE view[c] = "main"
    <3>1. hooks[c] = 1
      BY <1>1, <2>1 DEF AgreedOf, FitsWindow
    <3> QED
      BY <2>1, <3>1 DEF LogOutOf
  <2> QED
    BY <2>1
<1>3. Write(c, said)
  BY DEF Close
<1> HIDE DEF said
<1>4. queue \in [Client -> Seq(Request)] /\ view \in [Client -> {"off", "auth", "main"}]
                                         /\ replies \in [Client -> Seq(Reply)]
  BY DEF Inv, TypeOK
<1>5. queue' = IF link[c] THEN [queue EXCEPT ![c] = said] ELSE queue
  BY <1>1, <1>2, <1>3, <1>4, Short, ShortRequests DEF Write, Quiet
<1>6. /\ replies' = [replies EXCEPT ![c] = <<>>]
      /\ view' = [view EXCEPT ![c] = "off"]
      /\ UNCHANGED <<users, up, online, user, files, link, me, hooks>>
  BY DEF Close, server
<1>7. ASSUME NEW d \in Client \ {c}
      PROVE  AgreedOf(d)'
  BY <1>4, <1>5, <1>6, <1>7, Untouched DEF Agreed
<1>8. replies'[c] = <<>> /\ view'[c] = "off"
  BY <1>4, <1>6
<1>9. queue'[c] = <<>> \/ (link[c] /\ view[c] = "main" /\ queue'[c] = <<LogOutOf(me[c])>>)
  BY <1>1, <1>2, <1>4, <1>5 DEF Quiet
<1>10. view[c] = "main" => LogOutOf(me[c]) \in Request
  BY DEF Inv, Known, Request, LogOutOf
<1>11. OneAtATime(c)' /\ FitsWindow(c)'
  BY <1>6, <1>8, <1>9, <1>10 DEF OneAtATime, FitsWindow
<1>12. ASSUME NEW t \in Token, In(c, t)'
       PROVE  In(c, t)
  <2>1. queue'[c] = <<LogOutOf(t)>>
    BY <1>8, <1>12 DEF In
  <2>2. link[c] /\ view[c] = "main" /\ <<LogOutOf(me[c])>> = <<LogOutOf(t)>>
    BY <1>9, <2>1, Short
  <2>3. LogOutOf(me[c]) = LogOutOf(t)
    BY <2>2, Short
  <2>4. me[c] = t
    BY <2>3, Apart
  <2> QED
    BY <1>1, <2>2, <2>4 DEF In
<1>13. Placed(c)'
  BY <1>1, <1>6, <1>12 DEF AgreedOf, Placed
<1> QED
  BY <1>7, <1>11, <1>13 DEF Agreed, AgreedOf

\* A new process, a killed one, and files over connections of their own.
LEMMA StartAgreed ==
  ASSUME Inv, Agreed, NEW c \in Client, Start(c) \/ Kill(c) \/ AskFile(c)
  PROVE  Agreed'
<1> USE DEF server, screen
<1>1. CASE Start(c)
  <2>1. replies[c] = <<>> /\ queue[c] = <<>>
    BY <1>1 DEF Start, Agreed, AgreedOf, FitsWindow
  <2>2. ASSUME NEW d \in Client \ {c}
        PROVE  AgreedOf(d)'
    <3>1. \A l \in Login : online[l] = StreamOf(d) => online'[l] = StreamOf(d)
      BY <1>1, <2>2, Apart DEF Start
    <3> QED
      BY <1>1, <2>2, <3>1, Untouched DEF Start, Inv, TypeOK, Agreed
  <2>3. queue'[c] = <<>> /\ replies'[c] = <<>> /\ view'[c] = "auth" /\ hooks'[c] = 0
    BY <1>1, <2>1 DEF Start, Inv, TypeOK
  <2>4. AgreedOf(c)'
    BY <2>3, Short DEF AgreedOf, OneAtATime, FitsWindow, Placed, In
  <2> QED
    BY <2>2, <2>4 DEF Agreed
<1>2. CASE Kill(c)
  <2>1. ASSUME NEW d \in Client \ {c}
        PROVE  AgreedOf(d)'
    BY <1>2, <2>1, Untouched DEF Kill, Inv, TypeOK, Agreed
  <2>2. replies'[c] = <<>> /\ view'[c] = "off"
    BY <1>2 DEF Kill, Inv, TypeOK
  <2>3. OneAtATime(c)' /\ FitsWindow(c)'
    BY <1>2, <2>2 DEF Kill, Agreed, AgreedOf, OneAtATime, FitsWindow
  <2>4. \A t \in Token : In(c, t)' => In(c, t)
    BY <1>2, <2>2 DEF Kill, In
  <2>5. Placed(c)'
    BY <1>2, <2>4 DEF Kill, Agreed, AgreedOf, Placed
  <2> QED
    BY <2>1, <2>3, <2>5 DEF Agreed, AgreedOf
<1>3. CASE AskFile(c)
  BY <1>3, Untouched DEF AskFile, Agreed
<1> QED
  BY <1>1, <1>2, <1>3

\* An answer that is read moves the client where its connection is already:
\* sign_in_response, sign_up_response, log_out_response.
LEMMA ReceiveAgreed ==
  ASSUME Inv, Agreed, NEW c \in Client, Receive(c)
  PROVE  Agreed'
<1> DEFINE r == Head(replies[c])
<1>1. AgreedOf(c) /\ replies[c] # <<>>
  BY DEF Agreed, Receive
<1>2. r \in Reply /\ replies[c] = <<r>> /\ queue[c] = <<>>
  BY <1>1, Short DEF AgreedOf, OneAtATime
<1>3. replies' = [replies EXCEPT ![c] = <<>>]
  BY <1>2, Short DEF Receive
<1>4. /\ UNCHANGED <<users, up, online, user, queue, files, link>>
      /\ replies'[c] = <<>> /\ queue'[c] = <<>>
  BY <1>2, <1>3 DEF Receive, server, Inv, TypeOK
<1>5. \A d \in Client \ {c} : /\ view'[d] = view[d] /\ me'[d] = me[d] /\ hooks'[d] = hooks[d]
                              /\ replies'[d] = replies[d]
  BY <1>3 DEF Receive, SwitchWindow, screen, Inv, TypeOK
<1>6. ASSUME NEW d \in Client \ {c}
      PROVE  AgreedOf(d)'
  BY <1>4, <1>5, <1>6, Untouched DEF Agreed
<1>7. OneAtATime(c)'
  BY <1>4 DEF OneAtATime
<1>8. CASE r.op = "sign_in" /\ r.valid
  <2>1. view[c] = "auth" /\ hooks[c] = 0
    <3>1. view[c] # "off" /\ ~Quiet(c)
      BY <1>1 DEF AgreedOf, FitsWindow, Quiet
    <3>2. view[c] # "main"
      BY <1>1, <1>2, <1>8, Apart, Short DEF AgreedOf, FitsWindow
    <3>3. view[c] = "auth"
      BY <3>1, <3>2 DEF Inv, TypeOK
    <3> QED
      BY <1>1, <3>1, <3>3 DEF AgreedOf, FitsWindow
  <2>2. /\ me' = [me EXCEPT ![c] = r.token]
        /\ SwitchWindow(c)
    BY <1>8 DEF Receive
  <2>3. view'[c] = "main" /\ hooks'[c] = 1 /\ me'[c] = r.token
    BY <2>1, <2>2, BoundAssumption DEF SwitchWindow, Inv, TypeOK
  <2>4. FitsWindow(c)'
    BY <1>4, <2>3 DEF FitsWindow
  <2>5. r = SignInOf(r.token)
    BY <1>2, <1>8 DEF Reply, SignInOf
  <2>6. ASSUME NEW t \in Token, In(c, t)'
        PROVE  In(c, t)
    <3>1. r.token = t
      BY <1>4, <2>3, <2>6, Short DEF In
    <3> QED
      BY <1>2, <1>4, <2>1, <2>5, <2>6, <3>1 DEF In
  <2>7. Placed(c)'
    BY <1>1, <1>4, <2>6 DEF AgreedOf, Placed
  <2> QED
    BY <1>6, <1>7, <2>4, <2>7 DEF Agreed, AgreedOf
<1>9. CASE r.op = "log_out" /\ r.token = me[c] /\ SwitchWindow(c) /\ UNCHANGED me
  <2>1. view[c] # "off"
    BY <1>1 DEF AgreedOf, FitsWindow
  <2>2. view[c] # "auth"
    BY <1>1, <1>2, <1>9 DEF AgreedOf, FitsWindow
  <2>3. view'[c] = "auth"
    BY <1>9, <2>1, <2>2 DEF SwitchWindow, Inv, TypeOK
  <2>4. FitsWindow(c)'
    BY <1>4, <2>3, Short DEF FitsWindow, Quiet
  <2>5. Placed(c)'
    BY <1>4, <2>3, Short DEF Placed, In
  <2> QED
    BY <1>6, <1>7, <2>4, <2>5 DEF Agreed, AgreedOf
<1>10. CASE UNCHANGED screen /\ (~r.valid \/ r.token # me[c])
  <2>1. view[c] # "main"
    BY <1>1, <1>2, <1>10, Short, Apart DEF AgreedOf, FitsWindow, LeftOf
  <2>2. FitsWindow(c)'
    BY <1>1, <1>4, <1>10, <2>1, Short DEF AgreedOf, FitsWindow, Quiet, screen
  <2>3. Placed(c)'
    BY <1>4, <1>10, <2>1, Short DEF Placed, In, screen
  <2> QED
    BY <1>6, <1>7, <2>2, <2>3 DEF Agreed, AgreedOf
<1> QED
  BY <1>8, <1>9, <1>10 DEF Receive

-------------------------------------------------------------------------------
(* Steps of the server.                                                    *)

\* A sign-in or sign-up that is handled, let in or not: sign_in, sign_up.
LEMMA EnterAgreed ==
  ASSUME Inv, Agreed, NEW c \in Client, NEW q \in Request, q.op # "log_out",
         queue[c] = <<q>>, queue' = [queue EXCEPT ![c] = <<>>],
         UNCHANGED <<link, view, me, hooks>>,
         \/ \E rows : Enter(c, q, rows)
         \/ Send(c, [op |-> "sign_up", valid |-> FALSE]) /\ UNCHANGED <<online, user>>
  PROVE  Agreed'
<1>1. AgreedOf(c) /\ replies[c] = <<>> /\ queue'[c] = <<>>
  BY Short DEF Agreed, AgreedOf, OneAtATime, Inv, TypeOK
<1>2. view[c] # "main" /\ (view[c] = "auth" => hooks[c] = 0)
  BY <1>1, Short, Apart DEF AgreedOf, FitsWindow, Quiet
<1>3. PICK r \in Reply, t \in Token :
        /\ r.op # "log_out"
        /\ Send(c, r)
        /\ \/ /\ user' = [user EXCEPT ![c] = Acting(t, TRUE)]
              /\ online' = [online EXCEPT ![t.login] = StreamOf(c)]
              /\ online[t.login] = Absent
              /\ \A s : r = SignInOf(s) => s = t
           \/ /\ \E x : user' = [user EXCEPT ![c] = x]
              /\ online' = online
              /\ \A s : r # SignInOf(s)
  <2>1. CASE \E rows : Enter(c, q, rows)
    <3>1. PICK rows : Enter(c, q, rows)
      BY <2>1
    <3> DEFINE t(k) == TokenOf(q.login, k)
               r(k) == [op |-> "sign_in", valid |-> MayEnter(rows, q), token |-> t(k)]
    <3>2. PICK k \in 1 .. MaxToken :
            /\ user' = [user EXCEPT ![c] = Acting(t(k), MayEnter(rows, q))]
            /\ online' = IF MayEnter(rows, q) THEN [online EXCEPT ![q.login] = StreamOf(c)]
                                              ELSE online
            /\ Send(c, r(k))
      BY <3>1 DEF Enter
    <3>3. t(k) \in Token /\ t(k).login = q.login
      BY Parts DEF TokenOf, Token
    <3>4. MayEnter(rows, q) \in BOOLEAN /\ (MayEnter(rows, q) => online[q.login] = Absent)
      BY DEF MayEnter
    <3> HIDE DEF t
    <3>5. r(k) \in Reply /\ r(k).op # "log_out"
      BY <3>3, <3>4 DEF Reply
    <3>6. \A s : r(k) = SignInOf(s) => s = t(k) /\ MayEnter(rows, q) = TRUE
      BY <3>4 DEF SignInOf
    <3> HIDE DEF r
    <3>7. CASE MayEnter(rows, q)
      <4>1. Acting(t(k), MayEnter(rows, q)) = Acting(t(k), TRUE)
        BY <3>4, <3>7 DEF Acting
      <4> QED
        BY <3>2, <3>3, <3>4, <3>5, <3>6, <3>7, <4>1
    <3>8. CASE ~MayEnter(rows, q)
      <4>1. \A s : r(k) # SignInOf(s)
        BY <3>6, <3>8
      <4> QED
        BY <3>2, <3>3, <3>5, <3>8, <4>1
    <3> QED
      BY <3>7, <3>8
  <2>2. CASE Send(c, [op |-> "sign_up", valid |-> FALSE]) /\ UNCHANGED <<online, user>>
    <3> DEFINE r == [op |-> "sign_up", valid |-> FALSE]
               t == TokenOf(q.login, 1)
    <3>1. r \in Reply /\ r.op # "log_out" /\ \A s : r # SignInOf(s)
      BY DEF Reply, SignInOf
    <3>2. t \in Token
      BY Parts, BoundAssumption DEF TokenOf, Token
    <3>3. user' = [user EXCEPT ![c] = user[c]]
      BY <2>2 DEF Inv, TypeOK
    <3> HIDE DEF r, t
    <3> QED
      BY <2>2, <3>1, <3>2, <3>3 DEF r
  <2> QED
    BY <2>1, <2>2
<1>4. replies' = IF view[c] = "off" THEN replies ELSE [replies EXCEPT ![c] = <<r>>]
  BY <1>1, <1>3, Short DEF Send
<1>5. /\ view[c] = "off" => replies'[c] = <<>>
      /\ view[c] # "off" => replies'[c] = <<r>>
      /\ \A d \in Client \ {c} : replies'[d] = replies[d] /\ user'[d] = user[d]
  BY <1>1, <1>3, <1>4 DEF Inv, TypeOK
<1>6. ASSUME NEW d \in Client \ {c}
      PROVE  AgreedOf(d)'
  <2>1. \A l \in Login : online[l] = StreamOf(d) => online'[l] = StreamOf(d)
    BY <1>3, Apart DEF Inv, TypeOK
  <2> QED
    BY <1>5, <1>6, <2>1, Untouched DEF Agreed, Inv, TypeOK
<1>7. OneAtATime(c)'
  BY <1>1, <1>5 DEF OneAtATime
<1>8. FitsWindow(c)'
  BY <1>1, <1>2, <1>3, <1>5, Short DEF FitsWindow
<1>9. ASSUME NEW s \in Token, In(c, s)'
      PROVE  user'[c] = Acting(s, TRUE) /\ online'[s.login] = StreamOf(c)
  <2>1. replies'[c] = <<SignInOf(s)>> /\ view[c] = "auth"
    BY <1>1, <1>2, <1>9, Short DEF In
  <2>2. r = SignInOf(s)
    BY <1>5, <2>1, Short
  <2>3. /\ s = t
        /\ user' = [user EXCEPT ![c] = Acting(t, TRUE)]
        /\ online' = [online EXCEPT ![t.login] = StreamOf(c)]
    BY <1>3, <2>2
  <2> QED
    BY <2>3 DEF Inv, TypeOK, Token
<1> QED
  BY <1>6, <1>7, <1>8, <1>9 DEF Agreed, AgreedOf, Placed

(* The one request of a connection is the one that is taken.               *)
LEMMA TakeOne ==
  ASSUME Inv, Agreed, NEW c \in Client, NEW op, Take(c, op)
  PROVE  /\ Head(queue[c]) \in Request /\ Head(queue[c]).op = op
         /\ queue[c] = <<Head(queue[c])>> /\ replies[c] = <<>> /\ link[c]
         /\ queue' = [queue EXCEPT ![c] = <<>>]
         /\ queue'[c] = <<>>
<1>1. PICK q \in Request : queue[c] = <<q>>
  BY DEF Take, Agreed, AgreedOf, OneAtATime
<1>2. Head(queue[c]) = q /\ Tail(queue[c]) = <<>> /\ queue[c] # <<>>
  BY <1>1, Short
<1> QED
  BY <1>1, <1>2 DEF Take, Agreed, AgreedOf, OneAtATime, Inv, TypeOK

(* A client that asks to leave is the one its connection and the hash table *)
(* say it is.                                                              *)
LEMMA LeaverIsIn ==
  ASSUME Inv, Agreed, NEW c \in Client, Take(c, "log_out")
  PROVE  LET t == Head(queue[c]).token IN
         /\ t \in Token /\ queue[c] = <<LogOutOf(t)>>
         /\ user[c] = Acting(t, TRUE) /\ online[t.login] = StreamOf(c)
<1>1. Head(queue[c]) = LogOutOf(Head(queue[c]).token) /\ Head(queue[c]).token \in Token
  BY TakeOne, Apart, Parts
<1>2. In(c, Head(queue[c]).token)
  BY <1>1, TakeOne DEF In
<1> QED
  BY <1>1, <1>2, TakeOne DEF Agreed, AgreedOf, Placed

\* A log-out that is handled frees the place of its sender only:
\* log_out_response.
LEMMA LogOutAgreed ==
  ASSUME Inv, Agreed, NEW c \in Client, LogOut(c)
  PROVE  Agreed'
<1> DEFINE t == Head(queue[c]).token
<1>1. Take(c, "log_out")
  BY DEF LogOut
<1>2. /\ t \in Token /\ queue[c] = <<LogOutOf(t)>>
      /\ user[c] = Acting(t, TRUE) /\ online[t.login] = StreamOf(c)
  BY <1>1, LeaverIsIn
<1>3. /\ AgreedOf(c) /\ replies[c] = <<>> /\ queue'[c] = <<>>
      /\ queue' = [queue EXCEPT ![c] = <<>>]
  BY <1>1, TakeOne DEF Agreed
<1>4. /\ online' = [online EXCEPT ![t.login] = Absent]
      /\ Send(c, LeftOf(t))
      /\ UNCHANGED <<users, up, user, files, link, view, me, hooks>>
  BY <1>2 DEF LogOut, Acting, LeftOf, screen
<1> HIDE DEF t
<1>5. replies' = IF view[c] = "off" THEN replies ELSE [replies EXCEPT ![c] = <<LeftOf(t)>>]
  BY <1>3, <1>4, Short DEF Send
<1>6. /\ view[c] = "off" => replies'[c] = <<>>
      /\ view[c] # "off" => replies'[c] = <<LeftOf(t)>>
      /\ \A d \in Client \ {c} : replies'[d] = replies[d] /\ queue'[d] = queue[d]
  BY <1>3, <1>5 DEF Inv, TypeOK
<1>7. ASSUME NEW d \in Client \ {c}
      PROVE  AgreedOf(d)'
  <2>1. \A l \in Login : online[l] = StreamOf(d) => l # t.login
    BY <1>2, <1>7, Apart
  <2>2. \A l \in Login : online[l] = StreamOf(d) => online'[l] = StreamOf(d)
    BY <1>4, <2>1 DEF Inv, TypeOK
  <2> QED
    BY <1>4, <1>6, <1>7, <2>2, Untouched DEF Agreed
<1>8. LeftOf(t) \in Reply
  BY <1>2 DEF LeftOf, Reply
<1>9. OneAtATime(c)'
  BY <1>3, <1>6, <1>8 DEF OneAtATime
<1>10. view[c] # "auth"
  <2>1. LogOutOf(t) \in Request
    BY <1>2 DEF LogOutOf, Request
  <2> QED
    BY <1>2, <1>3, <2>1, Apart DEF AgreedOf, FitsWindow
<1>11. view[c] = "main" => me[c] = t /\ hooks[c] = 1
  <2>1. ASSUME view[c] = "main"
        PROVE  <<LogOutOf(me[c])>> = <<LogOutOf(t)>> /\ hooks[c] = 1
    BY <1>2, <1>3, <2>1, Short DEF AgreedOf, FitsWindow
  <2>2. ASSUME view[c] = "main"
        PROVE  LogOutOf(me[c]) = LogOutOf(t)
    BY <2>1, <2>2, Short
  <2> QED
    BY <2>1, <2>2, Apart
<1>12. FitsWindow(c)'
  BY <1>3, <1>4, <1>6, <1>10, <1>11 DEF FitsWindow
<1>13. ASSUME NEW s \in Token
       PROVE  ~In(c, s)'
  BY <1>3, <1>4, <1>6, <1>10, Short DEF In, Quiet
<1> QED
  BY <1>7, <1>9, <1>12, <1>13 DEF Agreed, AgreedOf, Placed

\* All the steps of the server.
LEMMA ServerAgreed ==
  ASSUME Inv, Agreed,
         (\E c \in Client : Handle(c)) \/ HandleFile \/ HandleFileOfNobody \/ Restart
  PROVE  Agreed'
<1> USE DEF server, screen, wires
<1>1. ASSUME NEW c \in Client, SignIn(c)
      PROVE  Agreed'
  <2>1. Take(c, "sign_in") /\ Enter(c, Head(queue[c]), users) /\ UNCHANGED <<link, view, me, hooks>>
    BY <1>1 DEF SignIn
  <2>2. /\ Head(queue[c]) \in Request /\ Head(queue[c]).op # "log_out"
        /\ queue[c] = <<Head(queue[c])>> /\ queue' = [queue EXCEPT ![c] = <<>>]
    BY <2>1, TakeOne
  <2> QED
    BY <2>1, <2>2, EnterAgreed
<1>2. ASSUME NEW c \in Client, SignUp(c)
      PROVE  Agreed'
  <2>1. Take(c, "sign_up") /\ UNCHANGED <<link, view, me, hooks>>
    BY <1>2 DEF SignUp
  <2>2. \/ \E rows : Enter(c, Head(queue[c]), rows)
        \/ Send(c, [op |-> "sign_up", valid |-> FALSE]) /\ UNCHANGED <<online, user>>
    BY <1>2 DEF SignUp
  <2>3. /\ Head(queue[c]) \in Request /\ Head(queue[c]).op # "log_out"
        /\ queue[c] = <<Head(queue[c])>> /\ queue' = [queue EXCEPT ![c] = <<>>]
    BY <2>1, TakeOne
  <2> QED
    BY <2>1, <2>2, <2>3, EnterAgreed
<1>3. ASSUME NEW c \in Client, RefuseLogOut(c)
      PROVE  FALSE
  <2>1. user[c] = Acting(Head(queue[c]).token, TRUE)
    BY <1>3, LeaverIsIn DEF RefuseLogOut
  <2> QED
    BY <1>3, <2>1 DEF RefuseLogOut, MayLeave, Acting
<1>4. CASE HandleFile \/ Restart
  BY <1>4, Untouched DEF HandleFile, Restart, Agreed
<1>5. CASE HandleFileOfNobody
  <2> SUFFICES ASSUME NEW d \in Client
               PROVE  AgreedOf(d)'
    BY DEF Agreed
  <2>1. /\ queue'[d] = <<>> /\ ~link'[d]
        /\ UNCHANGED <<replies, view, me, hooks>>
    BY <1>5 DEF HandleFileOfNobody
  <2>2. OneAtATime(d) /\ FitsWindow(d)
    BY DEF Agreed, AgreedOf
  <2>3. OneAtATime(d)'
    BY <2>1, <2>2 DEF OneAtATime
  <2>4. FitsWindow(d)'
    BY <2>1, <2>2, Short DEF FitsWindow, Quiet
  <2>5. Placed(d)'
    BY <2>1 DEF Placed, In
  <2> QED
    BY <2>3, <2>4, <2>5 DEF AgreedOf
<1> QED
  BY <1>1, <1>2, <1>3, <1>4, <1>5, LogOutAgreed DEF Handle

-------------------------------------------------------------------------------

(* With patient users no step parts the client, the connection and the     *)
(* hash table: the double click that does is the user's impatience.        *)
THEOREM PatientSessionsAgree ==
  ASSUME Patient = TRUE
  PROVE  Spec => []SessionsAgree
<1>1. Inv /\ Agreed /\ [Next]_vars => Agreed'
  <2> SUFFICES ASSUME Inv, Agreed, [Next]_vars
               PROVE  Agreed'
    OBVIOUS
  <2>1. ASSUME NEW c \in Client, ClientStep(c)
        PROVE  Agreed'
    <3>1. CASE AskSignIn(c) \/ AskSignUp(c)
      BY <3>1, AskAgreed DEF AskSignIn, AskSignUp, Request
    <3>2. CASE AskLogOut(c)
      <4>1. LogOutOf(me[c]) \in Request
        BY <3>2 DEF AskLogOut, Ask, Inv, Known, LogOutOf, Request
      <4> QED
        BY <3>2, <4>1, AskAgreed DEF AskLogOut, LogOutOf
    <3> QED
      BY <2>1, <3>1, <3>2, StartAgreed, CloseAgreed, ReceiveAgreed DEF ClientStep
  <2>2. CASE UNCHANGED vars
    BY <2>2, Untouched DEF vars, Agreed
  <2> QED
    BY <2>1, <2>2, ServerAgreed DEF Next
<1>2. Inv /\ Agreed => SessionsAgree
  <2> SUFFICES ASSUME Inv, Agreed, NEW c \in Client
               PROVE  /\ SignedIn(c) => /\ user[c] = Acting(me[c], TRUE)
                                        /\ online[me[c].login] = StreamOf(c)
                      /\ queue[c] # <<>> /\ Head(queue[c]).op = "log_out" =>
                           /\ user[c] = Acting(Head(queue[c]).token, TRUE)
                           /\ online[Head(queue[c]).token.login] = StreamOf(c)
    BY DEF SessionsAgree
  <2>1. ASSUME SignedIn(c)
        PROVE  user[c] = Acting(me[c], TRUE) /\ online[me[c].login] = StreamOf(c)
    <3>1. AgreedOf(c) /\ view[c] = "main" /\ link[c] /\ ~Leaving(c)
      BY <2>1 DEF Agreed, SignedIn
    <3>2. queue[c] = <<>>
      <4>1. ASSUME queue[c] = <<LogOutOf(me[c])>>
            PROVE  Leaving(c)
        <5>1. Len(queue[c]) = 1 /\ queue[c][1] = LogOutOf(me[c])
          BY <4>1
        <5> QED
          BY <5>1, Apart DEF Leaving
      <4> QED
        BY <3>1, <4>1 DEF AgreedOf, FitsWindow
    <3>3. replies[c] = <<>>
      <4>1. ASSUME replies[c] = <<LeftOf(me[c])>>
            PROVE  Leaving(c)
        <5>1. Len(replies[c]) = 1 /\ replies[c][1] = LeftOf(me[c])
          BY <4>1
        <5> QED
          BY <5>1, Apart DEF Leaving
      <4> QED
        BY <3>1, <4>1 DEF AgreedOf, FitsWindow
    <3>4. me[c] \in Token /\ In(c, me[c])
      BY <3>1, <3>2, <3>3 DEF Inv, Known, In, Quiet
    <3> QED
      BY <3>1, <3>4 DEF AgreedOf, Placed
  <2>2. ASSUME queue[c] # <<>>, Head(queue[c]).op = "log_out"
        PROVE  /\ user[c] = Acting(Head(queue[c]).token, TRUE)
               /\ online[Head(queue[c]).token.login] = StreamOf(c)
    <3>1. PICK q \in Request : queue[c] = <<q>>
      BY <2>2 DEF Agreed, AgreedOf, OneAtATime
    <3>2. Head(queue[c]) = q /\ q = LogOutOf(q.token)
      BY <2>2, <3>1, Short, Apart
    <3>3. q.token \in Token
      BY <2>2, <3>2 DEF Request
    <3>4. In(c, q.token)
      BY <3>1, <3>2, <3>3 DEF In, Agreed, AgreedOf, OneAtATime
    <3> QED
      BY <3>2, <3>3, <3>4 DEF Agreed, AgreedOf, Placed
  <2> QED
    BY <2>1, <2>2
<1> QED
  BY Invariance, InitAgreed, <1>1, <1>2, PTL DEF Spec
===============================================================================
