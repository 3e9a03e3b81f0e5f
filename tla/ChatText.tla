-------------------------------- MODULE ChatText -------------------------------
(***************************************************************************)
(* What becomes of what people type: messages on their way from the field  *)
(* to the table and to the labels, the names of files in messages, the     *)
(* names and descriptions of a profile and of a room, logins, and the      *)
(* arguments of the client.  There is no state here but the texts: each    *)
(* definition is a function of the code, and the properties compare them,  *)
(* or chains of them, with what they are for.                              *)
(*                                                                         *)
(* A text is a sequence of symbols, one byte each.                         *)
(***************************************************************************)
EXTENDS Integers, SequencesExt

CONSTANTS
  Typing,       \* the texts that somebody types as a message
  Marking,      \* the messages with delimiters in them
  Login, File,  \* the logins that are tried, the names of files
  Info,         \* what is typed as a name or a description
  Argument,     \* the arguments that the client is started with
  MaxMessage,   \* MAX_MESSAGE
  MaxDesc,      \* MAX_DESC
  MaxName,      \* MAX_NAME
  MaxRoomName,  \* VM_MAX_ROOM_NAME in the client, MAX_ROOM_LEN in the server
  MinLogin, MaxLogin   \* the repetitions in VM_LOGIN_REGEX

-------------------------------------------------------------------------------
(* Lengths and blanks.                                                     *)

Blanks == {" ", "\n"}

\* g_strstrip
Stripped(t) ==
  LET kept == {i \in DOMAIN t : t[i] \notin Blanks}
  IN IF kept = {} THEN <<>> ELSE SubSeq(t, Min(kept), Max(kept))

\* g_strndup
First(t, n) == SubSeq(t, 1, IF Len(t) < n THEN Len(t) ELSE n)

TrimMessage(t) == First(t, MaxMessage)

\* is_valid_info and is_valid_room_name, for their limits.
IsValidInfo(t, max) == Len(t) \in 1 .. max

\* (Slip: room for a closing zero is counted as text.)
SendOneMore(t) == First(Stripped(t), MaxMessage + 1)

\* The request that a typed message makes; <<>> when it makes none.
SendMessageRequest(t) == TrimMessage(Stripped(t))

GetDbMessage(t) == Stripped(t)

\* The message that the server stores and sends to all: none or one.
SendMessageResponse(t) ==
  LET msg == GetDbMessage(t) IN IF IsValidInfo(msg, MaxMessage) THEN {msg} ELSE {}

\* The request to put t for a message; the server takes its text as it comes.
EditMessageRequest(msg, t) ==
  LET new == Stripped(t) IN IF new \in {msg, <<>>} THEN {} ELSE {TrimMessage(new)}

-------------------------------------------------------------------------------
(* Formatting.                                                             *)

\* g_strsplit: where it cuts, and the parts.
Cuts(t, delim) ==
  LET L == Len(delim)
      from[i \in 1 .. Len(t) + L] ==
        IF i + L > Len(t) + 1 THEN {}
        ELSE IF SubSeq(t, i, i + L - 1) = delim THEN {i} \cup from[i + L] ELSE from[i + 1]
  IN from[1]

\* The positions in t that are in S, in their order.
Ordered(S, t) == SelectSeq([i \in DOMAIN t |-> i], LAMBDA i : i \in S)

Split(t, delim) ==
  LET cuts == Ordered(Cuts(t, delim), t)
      n == Len(cuts)
  IN [i \in 1 .. n + 1 |-> SubSeq(t, IF i = 1 THEN 1 ELSE cuts[i - 1] + Len(delim),
                                     IF i > n THEN Len(t) ELSE cuts[i] - 1)]

\* VM_FT_UNDER, VM_FT_BOLD, VM_FT_SCRATCH, VM_FT_ITALIC, VM_FT_IMPORTANT are each twice
\* one of these (' for the grave accent); format_text looks for them in this order.
Styles == <<"_", "*", "~", "#", "'">>
StyleSet == Range(Styles)

\* VM_OP_UNDER ... and what closes them all.
Span(style) == "<" \o style \o ">"
CloseSpan == "</>"

\* Every second part is put in a span.
SetTag(t, style) ==
  LET parts == Split(t, <<style, style>>)
  IN FlattenSeq([i \in DOMAIN parts |->
       IF i % 2 = 0 THEN <<Span(style)>> \o parts[i] \o <<CloseSpan>> ELSE parts[i]])

FormatText(t) == FoldLeft(SetTag, t, Styles)

\* gtk_label_set_markup: the symbols that a label shows, each with its styles; nothing
\* when Pango does not understand the markup.
Label(markup) ==
  LET Take(label, c) ==
        CASE ~label.ok -> label
          [] c = CloseSpan -> IF label.open = <<>> THEN [label EXCEPT !.ok = FALSE]
                              ELSE [label EXCEPT !.open = Front(@)]
          [] \E s \in StyleSet : c = Span(s) ->
               [label EXCEPT !.open = Append(@, CHOOSE s \in StyleSet : c = Span(s))]
          [] c \in {"<", "&"} -> [label EXCEPT !.ok = FALSE]
          [] OTHER -> [label EXCEPT !.shown = Append(@, <<c, Range(label.open)>>)]
      end == FoldLeft(Take, [ok |-> TRUE, open |-> <<>>, shown |-> <<>>], markup)
  IN IF end.ok /\ end.open = <<>> THEN end.shown ELSE <<>>

-------------------------------------------------------------------------------
(* Files in messages.                                                      *)

\* VM_FILE_DELIM
FileDelim == <<"_", "_">>

\* The path that upload_file_thread makes up: time stands for the directory and the time.
Filename(login, name) == <<"time">> \o login \o FileDelim \o name

\* (Slip: what follows the last delimiter.)
GetFilenameLast(path) ==
  LET at == {i \in 1 .. Len(path) - 1 : SubSeq(path, i, i + 1) = FileDelim}
      rest == IF at = {} THEN <<>> ELSE SubSeq(path, Max(at), Len(path))
  IN IF Len(rest) > 2 THEN SubSeq(rest, 3, Len(rest)) ELSE rest

\* get_filename: what follows the first delimiter, or the delimiter when nothing does.
GetFilename(path) ==
  LET at == {i \in 1 .. Len(path) - 1 : SubSeq(path, i, i + 1) = FileDelim}
      rest == IF at = {} THEN <<>> ELSE SubSeq(path, Min(at), Len(path))
  IN IF Len(rest) > 2 THEN SubSeq(rest, 3, Len(rest)) ELSE rest

\* is_file_image, is_file_animation: by the end of the name.
IsFileImage(path) == path # <<>> /\ Last(path) \in {".png", ".jpg", ".jpeg"}
IsFileAnimation(path) == path # <<>> /\ Last(path) = ".gif"

\* The icon of create_image_btn.
ImageBtn(path, exists) ==
  IF ~exists THEN "download"
  ELSE IF IsFileImage(path) \/ IsFileAnimation(path) THEN "image" ELSE "document"

\* open_files_dir: what a click on the button does, and the icon after it.
OpenFilesDir(path, exists) ==
  LET viewed == IsFileImage(path) \/ IsFileAnimation(path)
  IN IF exists THEN [does |-> IF viewed THEN "viewer" ELSE "folder", icon |-> ImageBtn(path, TRUE)]
     ELSE [does |-> "download_file_request", icon |-> IF viewed THEN "image" ELSE "document"]

\* What the row of a message holds: msgcreate_content, msgcreate_own_content.
Content(type, msg) ==
  CASE type = "DB_TEXT_MSG" -> Label(FormatText(msg))
    [] type = "DB_STICKER" -> msg
    [] OTHER -> GetFilename(msg)

-------------------------------------------------------------------------------
(* Profiles, rooms, logins.                                                *)

\* A profile in three places: the row of USERS, chat->name and chat->desc, and the
\* dialog of another user.
EditUserRequest(name, desc) == [name |-> name, desc |-> TrimMessage(desc)]

\* edit_user_name and edit_user_desc.
StoreUser(row, req) == [row EXCEPT !.name = req.name, !.desc = req.desc]

\* The row after the request, and the answers: none or one.
EditUserResponse(row, req) ==
  IF IsValidInfo(req.desc, MaxDesc) /\ IsValidInfo(req.name, MaxName)
    THEN [row |-> StoreUser(row, req), answers |-> {req}]
    ELSE [row |-> row, answers |-> {}]

\* What a client shows after the answers: of its own profile, or of another's.
TakeProfile(chat, answers) ==
  IF answers = {} THEN chat ELSE CHOOSE answer \in answers : TRUE
MemberInfo(row) == {[login |-> row.login, name |-> row.name, desc |-> row.desc]}

\* req_room_sett: the name that is asked for.
RoomNameRequest(t) == First(t, MaxRoomName)

\* match_search with VM_LOGIN_REGEX, whose $ stands before a last line break, too.
LoginSymbol == {"a", "0", "_", "-"}
MatchLogin(t) ==
  LET core == IF t # <<>> /\ Last(t) = "\n" THEN Front(t) ELSE t
  IN Len(core) \in MinLogin .. MaxLogin /\ Range(core) \subseteq LoginSymbol

\* is_valid_auth_data
IsValidAuthData(login, pass) == login # <<>> /\ pass # <<>> /\ MatchLogin(login)

-------------------------------------------------------------------------------
(* The arguments of the client.                                            *)

Digit == {"0", "1"}

CheckPort(port) ==
  Len(port) = 4 /\ Range(port) \subseteq Digit /\ "1" \in Range(port)

\* An argument follows the zero byte of the one before it, and ends with one.
CheckIp(ip) ==
  LET At(i) == IF i \in DOMAIN ip THEN ip[i] ELSE "zero"
      dots == {i \in DOMAIN ip : ip[i] = "."}
  IN /\ Cardinality(dots) = 3
     /\ \A i \in DOMAIN ip \ dots : ip[i] \in Digit
     /\ \A i \in dots : At(i + 1) \in Digit /\ At(i - 1) \in Digit

\* valid_argv: the address and the port that are connected to; none when the client
\* ends.  strtok takes the first part that is not empty.
ValidArgv(args) ==
  IF Len(args) = 2 THEN
    IF CheckIp(args[1]) /\ CheckPort(args[2]) THEN {[host |-> args[1], port |-> args[2]]} ELSE {}
  ELSE
    LET parts == Split(args[1], <<":">>)
        hosts == {i \in DOMAIN parts : parts[i] # <<>>}
    IN IF Len(parts) = 2 /\ hosts # {} /\ CheckPort(parts[2])
         THEN {[host |-> parts[Min(hosts)], port |-> parts[2]]} ELSE {}

-------------------------------------------------------------------------------
(* Properties.  They have no variables: one state is enough to look at them. *)

\* What the client sends the server takes: the limits, and the order of stripping and
\* trimming, agree on both sides, so no message and no name of a room is dropped without
\* a word; a message that is short enough comes whole; and who edits a stored message and
\* changes nothing asks for nothing.
TextsTaken ==
  /\ \A t \in Typing : SendMessageRequest(t) # <<>> =>
       /\ \E msg \in SendMessageResponse(SendMessageRequest(t)) :
            /\ IsPrefix(msg, Stripped(t))
            /\ Len(Stripped(t)) <= MaxMessage => msg = Stripped(t)
            /\ EditMessageRequest(msg, msg) = {}
       /\ \A s \in Typing : \A new \in EditMessageRequest(t, s) : IsValidInfo(new, MaxMessage)
  /\ \A t \in Info : t # <<>> => IsValidInfo(RoomNameRequest(t), MaxRoomName)

\* The symbols of t that are no delimiters, and the delimiters before each of them.
Delimiters(t) == UNION {Cuts(t, <<s, s>>) : s \in StyleSet}
Kept(t) ==
  LET at == Delimiters(t)
  IN Ordered({i \in DOMAIN t : i \notin at /\ i - 1 \notin at}, t)
StylesAt(t, i) ==
  {s \in StyleSet : Cardinality({c \in Cuts(t, <<s, s>>) : c < i}) % 2 = 1}

\* No span begins within another and ends after it.
SpansNest(t) ==
  \A s, u \in StyleSet : \A c \in Cuts(t, <<u, u>>) :
    s # u /\ s \in StylesAt(t, c) /\ u \notin StylesAt(t, c) =>
      LET ends == {d \in Cuts(t, <<s, s>>) : d > c}
      IN ends # {} => u \notin StylesAt(t, Min(ends))

\* Whatever delimiters a message has, its label shows all its other symbols in their
\* order, where it has no symbol that means something to Pango; and each in the styles
\* of the delimiters around it, where these nest.
TextsShown ==
  \A t \in Marking :
    LET shown == Content("DB_TEXT_MSG", t)
        kept == Kept(t)
    IN Range(t) \cap {"<", "&"} = {} =>
         /\ [n \in DOMAIN shown |-> shown[n][1]] = [n \in DOMAIN kept |-> t[kept[n]]]
         /\ SpansNest(t) => \A n \in DOMAIN shown : shown[n][2] = StylesAt(t, kept[n])

\* The row of a file shows the name that the file had, whoever uploaded it, and the path
\* in the message is that of the file; but for logins with the delimiter at their end or
\* in them, and names with blanks at the end.  And the icon that a click on a download
\* leaves is the one that the row is given when it is made again.
FilesNamed ==
  \A login \in Login, name \in File :
    LET path == Filename(login, name)
        row == GetDbMessage(path)
    IN /\ IsValidAuthData(login, <<"pass">>) /\ Cuts(login, FileDelim) = {} /\ Last(login) \notin {"_", "\n"}
            /\ Last(name) \notin Blanks
          => row = path /\ Content("DB_FILE_MSG", row) = name
       /\ OpenFilesDir(row, FALSE).icon = ImageBtn(row, TRUE)

\* The profile that a user sees as theirs, the one in the table and the one that others
\* are shown are the same after any two attempts to change it, refused ones too.
ProfilesEqual ==
  \A n1, d1, n2, d2 \in Info :
    LET chat == [name |-> <<>>, desc |-> <<>>]
        row == [login |-> "me", name |-> <<>>, desc |-> <<>>]
        one == EditUserResponse(row, EditUserRequest(n1, d1))
        two == EditUserResponse(one.row, EditUserRequest(n2, d2))
        mine == TakeProfile(TakeProfile(chat, one.answers), two.answers)
        shown == TakeProfile(row, MemberInfo(two.row))
    IN mine = [name |-> shown.name, desc |-> shown.desc] /\ shown = two.row

\* A port that is connected to is four digits, an address four groups of digits, and a
\* host what was named before the colon.  Of an argument that begins with its colon,
\* what comes after it is taken for the host, and for the port too: that is allowed here.
ArgumentsValid ==
  /\ \A ip \in {a \in Argument : "." \in Range(a)}, port \in {a \in Argument : Len(a) \in 3 .. 5} :
     \A to \in ValidArgv(<<ip, port>>) :
       /\ Len(Split(ip, <<".">>)) = 4
       /\ \A group \in Range(Split(ip, <<".">>)) : group # <<>> /\ Range(group) \subseteq Digit
       /\ to = [host |-> ip, port |-> port] /\ CheckPort(port)
  /\ \A arg \in Argument : \A to \in ValidArgv(<<arg>>) :
       \/ arg = to.host \o <<":">> \o to.port
       \/ arg = <<":">> \o to.port /\ to.host = to.port
===============================================================================
