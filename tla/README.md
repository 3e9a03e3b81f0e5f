# uchat: verification of the chat server and its clients

This directory is a TLA+ development kept beside the code of `uchat-main`: modules that model
the server and its clients, TLC configurations that check them on small instances, and theorems
with proofs that TLAPS checks. Paths below are relative to `src/uchat-main/`.

## 1. The system

`uchat` is a chat: one server process (GLib/GIO main loop, cJSON, SQLite) and GTK clients. A client
opens one TCP connection, signs in, and exchanges JSON lines with the server; files travel over
connections of their own.

| Component | State it keeps | Operations | Interacts with |
|---|---|---|---|
| Main loop, `server/src/server/server.c`, `json_manager.c` | one `t_client` per connection | read a line, dispatch by token, sleep `VM_DELAY` | every handler |
| Sessions, `sign_in`, `sign_up`, `log_out_response`, `init_info.c` | hash table `info->users` (login -> output stream), `USERS` | sign up, sign in, log out, end of a connection | broadcasts go to the hash table |
| Rooms and membership, `json_responses.c` | `ROOMS`, `MEMBERS` | create, search, join, list, ban, rename, describe, delete | members list decides who hears |
| Messages, `json_responses.c` | `MESSAGES` | send, edit, delete, clear, newest, older, search | clients' rows |
| Statements, `server/src/db` | the SQLite file | one or more SQL statements each | all handlers |
| File transfer, `read_file.c`, `download_file.c`, `upload_file_thread` | `is_file`, `upload_file`, files | upload in a thread, download in the main loop | main loop shares the stream |
| Client model, `client/src/json_objects`, `client/src/gui` | list of rooms (`t_groom`), rows of messages, members, search results | one handler per reply or broadcast, one request per gesture | `receiver.c` reads lines in order |
| Shared library, `libraries/vmchat` | none | JSON look-ups, time, send, logging | both programs |
| Main window, `client/src/gui-utils`, `api/event_handler.c` | open room, selection and its counters, the field, the header | one handler per signal of GTK | the same thread reads the lines |
| JSON, `libraries/cjson` | trees of cells, buffers | build, print, parse, copy, delete | every request and answer |
| Themes, icons, layout, daemonisation | GTK objects | presentation | not modelled |

### What is hard

* *Interleaving of requests.* The server is single-threaded, but a request waits in its connection
  while others are handled. What a client saw when it wrote a request may be gone when the server
  comes to it: the room deleted, the user banned, the id given to something else.
* *Time in seconds as a key.* The ids of new rooms and messages are read back by their date.
* *Row ids given again.* The tables have no `AUTOINCREMENT`.
* *Ends of the process in the middle of a handler*, with the database file staying.
* *A thread beside the main loop* during uploads.
* *Broadcasts that meet a client in the wrong state*: a room that is not listed (yet, or any more), members that are not
  known, a dialog over a room that has ended, a selection whose rows are destroyed.
* *State kept twice*: counters beside a selection, a header beside both, `sett_members` beside `members`, `uploaded`
  beside the rows, links of a list in both directions.
* *Answers that are overtaken*: each key of a search is a request.

### What makes each component correct

* Membership: a ban holds until the room ends; nobody is let in, banned or out by anything but the
  operation that says so; the creator of a room stays its ordinary member; only it rules.
* Messages: a stored message has a room and an author who belongs to it; it leaves only by its
  author or with its room; a message on a screen is stored.
* Clients: a client's list of rooms agrees with the tables.
* Sessions: one connection per login at a time, a connection that signed in can sign out, a lost
  connection is forgotten.
* Members: what a client that has read its lines believes about a room is what the server broadcasts by.
* Window: what is asked for is what the user was shown; nothing dereferences what is gone.
* JSON: a message is one line, and is read as what was sent; lists keep their links; no write leaves its buffer.
* Texts: what the client sends the server takes, and a label shows all of it.
* File transfer: a file that is stored is complete, and was sent by a member.
* History: what is shown of a room is a stretch of its messages without gaps, none of them twice; the client's
  count of rows is right; a request for older messages does not block all later ones.

## 2. Modules

| | Module | Models | State |
|---|---|---|---|
| A | `Tables` | the rows of `ROOMS`, `MEMBERS`, `MESSAGES` and the statements on them, pure operators | done |
| A | `RoomServer` (EXTENDS `Tables`) | handlers, clients' requests, room lists and shown messages | done |
| A | `Membership` | abstract: a status per user and room | done, implemented by `RoomServer` |
| B | `Session` | accounts, tokens, `info->users`, the clients' two windows | done |
| C | `FileTransfer` | uploads, their thread, downloads, the shared stream | done |
| D | `ClientHistory` (EXTENDS `Tables`) | newest and older pages, broadcasts, the window of `BUF_MSGS` rows, `upl_old_msgs` | done |
| E | `TextSearch` | patterns for `LIKE`, and the filters of the client's lists, pure operators | done |
| E | `ClientRooms` (EXTENDS `Tables`, `TextSearch`) | a room joined, listed, ruled and left, with its members, the search of rooms, lines delayed both ways | done |
| F | `ClientScreen` | the open room, selected messages, the field, editing, dialogs | done |
| G | `JsonTree` | cells and links of cJSON | done |
| G | `JsonText` | printing, buffers, lines, parsing, minifying | done |
| H | `ChatText` | stripping, limits, formatting, names of files, profiles, logins, arguments, pure operators | done |

`MCRooms`, `MCSession`, `MCFiles`, `MCClient`, `MCScreen`, `MCJson` and `MCText` instantiate them for TLC.

The state machines are separate. What they would share is small: `RoomServer` takes "signed in"
as a set, which `Session` justifies; `FileTransfer` has one room, in which each client is a member,
banned, or the room gone, moved by one action (`Rule`) that stands for the handlers of
`RoomServer`. The message that a finished upload inserts is not among the messages of `RoomServer`.
`ClientHistory` follows one client of `RoomServer` with the delay of the network in both directions; its other
members are four actions that broadcast. `ClientRooms` does the same for one room that comes, goes and is searched for,
without its messages' texts; `ClientScreen` begins where the lines are read: it takes any line that the others could bring.

A theorem that would be worth a proof and has none: an agreement of `Session` with an abstract "one client per login"
specification (`LogOutsAreOwn` exists for impatient users). For the texts of `JsonText` see the end of section 4.

### `Tables`

`rooms`, `members` and `messages` are sets of records with an `id`. `NewId` is SQLite's rule for a
table without `AUTOINCREMENT`: one more than the largest row id, so the id of the last row is given
again after its deletion. `FirstRow` is the first `sqlite3_step`: rows are scanned by row id.
`RoomIdByDate` and `MessageIdByDate` are the look-ups by date with which an insertion reads its id
back (`server/src/db/database.c`). `MemberType` reads the first row of a user in a room
(`get_member_type`), `MembersList` any row (`get_members_list`).

The repository is in the middle of a renaming: handlers call `insert_room_into_db`,
`insert_message_into_db`, `insert_user_into_db`, `sign_in_response`, while `database.c` and
`json_responses.c` define `add_room_to_db`, `add_message_to_db`, `create_new_user`, `sign_in`. The
modules take each call to mean the definition with the same arguments and purpose.

### `RoomServer`

One action per handler of `json_responses.c` that touches the three tables: check, statements,
reply and broadcast are one step, since the server's main loop runs a handler to its end. A client
writes requests (`AskNewRoom`, `AskAsCustomer`, ...) into `queue[u]`, with what its widgets offer at
that moment: only the creator of a listed room finds the buttons that rename, clear, ban and delete
(`Customer`). `Refuse` is a handler that returns early. `JoinDeletedRoom` is
`join_to_room_response` for a room that no longer exists: the row is written, and the NULL of
`get_room_by_id` ends the process; `Restart` begins with the same tables and an empty
`info->users`. `grooms[u][r]` are the rows for room `r` in the client's list, `shown[u]` the
messages under them. Replies and broadcasts reach a client in the step that sends them; the delay of
the network is all put on the way to the server.

### `Membership`

`status[u][r]` is `"none"`, `"ordinary"` or `"banned"`; a step admits one user, bans one, or dissolves one
room. `status` of `RoomServer` (the value of `MemberType`) is the refinement mapping; handlers
that leave it alone are stuttering steps. `BanSticks` is then a property of the abstract view too:
nothing but dissolution ends a ban.

### `Session`

`users` is `USERS`; `online` is the hash table; `user[c]` is the connection's `t_client.user`;
`me[c]`, `view[c]` and `hooks[c]` are the client's token, the window that shows, and how often
`"destroy"` is connected to `log_out_request` (`start_main_window` connects it again at each sign-in).
`sign_in` is one step in the order of the code: the token is replaced in `USERS` *before* password
and hash table are looked at. The token's random part may repeat. `Close` closes the window, which
sends a log-out per hook; `Kill` ends the process without a word. `AskFile` puts a request on a
connection of its own, which is known by its token; `HandleFileOfNobody` is that token not being in
`USERS` any more: `get_user_by_token` returns NULL, and the process ends.

### `FileTransfer`

Two actors of the server work on one stream: `upload_file_thread` splices it into a file
(`SpliceRead`, `SpliceGet`), while `handle_request` has asked for another line of it (`ReadLine`,
`TakeChunk`, `TakeLine`, `TakeEnd`). GLib allows one pending operation per stream, so a read by one
while the other's is pending fails. A read is a step; `MaxSize` counts reads. `gui[c]` is what the one
thread of the client does; it stands still while it waits in `is_server_ready` and while it saves.
`main` is `"loop"`, or the client whose answer `download` waits for inside the main loop.

### `ClientHistory`

A handler of the server is a step (`GetRooms`, `NewMessages`, `OldMessages`, and `Post`, `DelMsg`, `ClearRoom`,
`EndRoom` for the others' requests with their broadcasts), and so is a handler of the client (`Read...`); `up` and
`down` are the lines between. `rows[r]` is the list box of a room, `uploaded[r]` the count kept beside it, by which
`box_messages_reached` drops rows at the bottom (`ReachBottom`), `waiting` is `upl_old_msgs`, one flag for all rooms.
`PagesOf` says what `ORDER BY MESSAGE_ID DESC` with a count returns: the newest rows, in order, and fewer than a page
only if there are no more. `screen = "dead"` is the dereferenced NULL of a room that is not in the list. Texts, authors
and the scroll bar's position are left out: the user reaches top or bottom at any moment. The rooms are those of
the client's user at sign-in; joining one later has the same two requests.

### `ClientRooms`

The client of one user, `Me`, in full, against a server whose other users act at any moment, as their clients could
(`Other`). `asked` and `lines` are the two directions of the connection. A handler of the server is one step
(`Serve...`), each with the lines it writes; so is each line that the client reads (`Receive`, by `After`, which says
what a line does to the `t_groom`). `groom.answered` says that `get_members` was answered: until then the table of
members is what joins and bans alone made of it. `offers` is the list box of members with Ban buttons, filled when a room
is opened. `entry`, `found`, `picked` and `dialog` are the search of rooms. A room's id is given again after its end,
so a line or a request may be about the room before.
What is left out: what comes after the end of either process, where nothing is left to go wrong (`Running`); a user
who has clicked Log out waits for the answer.

### `ClientScreen`

One client, one thread; a signal of GTK or a line of the server is a step. GTK is modelled from its use: what is
hidden cannot be clicked, a modal dialog keeps the user from everything else, a destroyed row leaves list and
selection, list boxes select nothing by themselves (the boxes in the rows take the clicks), and whether shift is held is any
choice. `upset` is a ghost that names which of four moments the code does not provide for have come: new settings of a
room while messages are selected, rows that are changed under a selection, the end of the open room
under something begun in it, and the field of an editing that is emptied and left. Properties that such a moment
breaks say so; what breaks is listed below.

### `JsonTree` and `JsonText`

`JsonTree` has `next`, `prev`, `child`, the type with the bit of a reference and the key of each cell, and each
function that changes them, an error return included. The caller keeps the contract of the program: it adds what
it holds by itself, into nothing below it, and leaves alone what a reference shows. `holder` is a ghost: the container an
item was put into. A container is a sequence to those callers, and `CallsActOnSequences` says so, in every state, of adding,
inserting, detaching and replacing: `cJSON.c` does with its links what `Append`, `InsertAt`, `RemoveAt` and `ReplaceAt` do. `JsonText` is the way of a document to a line and back: `PrintValue` as the list of writes
with what each asks of `ensure`, `ParseValue` with its places in the text, `Utf16` with its bytes. Bytes are numbers; a
literal, a number and the `uXXXX` of an escape are one symbol each. `Meaning` is what a text means, written from
the grammar and not from the parser, except that a mark may come first, nesting has its limit, and a string is told up to a
zero byte, as C reads it. The parser takes two things that the grammar has not: an escape whose digits are not
hexadecimal (`Malformed`), which means nothing, which `TextsAreUnderstood` and `EscapesAreUtf8` exempt, and of which
`MalformedIsReadAsZero` says what the code does with it; and raw control bytes, as blanks or in a string, which are not
among the symbols that the run puts into texts. Printing, parsing and `Meaning` are recursive operators, so no theorem is
about them. Trees with references in them are not copied (`DuplicateItem`): the program copies only what it has
parsed, and a copy through references may need several cells for one.

### `TextSearch` and `ChatText`

Pure functions over texts, which are sequences of symbols of one byte. `ParseStrSearch` and `Like` are the way of a
search to the table, `FilterName` the client's own. `ChatText` has the functions that a text passes between two
people: `SendMessageRequest`, `SendMessageResponse` (with the `g_strstrip` of `get_db_message`), `FormatText` and the
`Label` that Pango makes of it; `Filename`, which the server makes up, and `GetFilename`, which the client cuts from it;
`EditUserRequest`, `EditUserResponse` and `MemberInfo`, through which a profile reaches three places; `ValidArgv`. Their properties
speak about all texts of the bounds at once: `MCText` looks at them in one state of `JsonText` (`Once`).

## 3. Runs

| Run | Question | Result |
|---|---|---|
| `rooms_busy` | Do bans and the member table survive everything: one-second creations, ids given again, processes that end, joins of deleted rooms? | `BanSticks`, `OrphansOnlyByCrash`, `ImplementsMembership` hold |
| `rooms_calm` | In traffic where dates tell rooms apart, do clients' lists and the rule of the creator hold? Does a screen show what is not stored? | `ScreensAgree` (`RoomListsAreAccurate`, `NoGhostMessages`), `MembershipIsSound` (`OwnersAreMembers`, `BannedAreNotAddressed`), `OnlyOwnersRule` hold |
| `messages_busy` | Can a message lose its author or its room, or leave by a stranger? Is a ban carried out? | `AuthorsAreMembers`, `MessagesHaveRoom`, `MessagesLeaveByAuthor`, `BanTakesEffect` hold |
| `sessions_busy` | Can anything but a log-out of its own login free a place in `info->users`? | `LogOutsAreOwn` holds |
| `sessions_patient` | Do client, connection and hash table agree, whatever others try under the login? Can who is in get out, and only out of its own place? | `SessionsAgree`, `LogOutTakesEffect` hold |
| `files` | With thread and main loop on one stream: are stored files whole, leftovers deleted, sessions left alone, uploads ended? | `UploadsAreWhole` (`StoredIsWhole`, `NoPartsLeft`), `TransfersKeepSession`, `UploadsEnd` hold |
| `history` | Does a client that scrolls while messages come and go show each once and in one stretch, count its rows, survive, and stop waiting? | `RowsCounted`, `ShowsOneStretch` (`NothingTwice`, `NoGaps`), `ClientSurvives`, `WaitEnds` hold |
| `client` | With joins, bans, messages, ends of the room, searches and answers overtaking each other: does the client know whom it talks to, and what it found? | `MembersAgree`, `LinesFindTheirRoom` (`SpeakersAreKnown`, `BroadcastsAreListed`), `OffersAndFindsFit` (`OffersFit`, `FoundFits`), `SearchesAgree`, `MembersArrive` hold |
| `screen` | While lines change rooms and messages: do selection, counters, header, field and requests agree? | `SelectionAgrees` (`SelectionIsShown`, `CountsMatch`, `ButtonsFit`), `EditingIsSafe` (`EditingIsAlone`, `ScreenSurvives`), `WhatIsSentWasMeant` (`DraftsStay`, `PromptIsNotSent`), `AsksWhatItShows` hold, up to the moments in `upset` |
| `json` | Can any sequence of calls break a list, lose an item, leave a dangling link, or hide a key? Is a container a sequence to its callers? | `ListsAreWhole` (`LinksAgree`, `WalksFindAll`, `NothingDangles`), `ReadersAgree` (`LookupsFindFirst`, `CopiesAreEqual`), `CallsActOnSequences`, `OrderStays` hold |
| `text` | Is what is sent one line and read as sent; is a text taken for what it means; do buffers hold? And what becomes of typed texts, names of files, profiles, arguments? | `TextsKeepMeaning` (`WhatIsSentIsRead`, `TextsAreUnderstood`, `MalformedIsReadAsZero`, `EscapesAreUtf8`, `MinifyKeepsMeaning`), `BuffersHold` (`WritesFit`, `StringsFit`), `TextsArrive` (`TextsTaken`, `TextsShown`, `FilesNamed`, `ProfilesEqual`, `ArgumentsValid`) hold |
| `claim_creator` | "Inserts a new room into the database and adds the creator as a member" | violated: the second room of a second |

A name before a parenthesis is the conjunction of the properties in it, each of which its module states and explains.
Each state machine but `JsonText`, whose state is one document and one text, has a `TypeOK`, by itself in a `.cfg` or, in the modules of the client and of JSON, among such conjuncts. For every property of a passing
run `PROJECT.json` names a plausible slip of one definition (an operator marked *Slip* beside it)
under which TLC finds the property violated.

### Bounds

* `rooms_*`, `messages_busy`: two users, one who creates and rules and one who joins. Two rooms, so that
  one can be created in the second of another, and the id of one can be given again while the other
  stands; two messages likewise. `MaxBacklog = 2` requests wait in all, enough for every race between one
  request and another. `MaxRows = 2` member rows per user and room, so that a second row can exist and be read
  or not. `MaxTime = 3` (2 in `messages_busy`): seconds matter only as equal or not, so a second that no
  row carries stands for all later ones (`Tick`), and these tell the rows of a run apart. `Ops` gives each client the requests a run is about.
* `sessions_*`: two clients contend for one login (`sessions_patient`: two passwords, two tokens) or two
  logins (`sessions_busy`, with symmetry). `MaxHooks = 1` counts the handlers of `"destroy"` up to one; the second
  and later ones send the same request again, which `MaxBacklog` admits as a double click.
* `files`: two clients; one uploads, both download, so that a download meets an upload of the same client and
  of another. Files of zero, one and two reads: empty, whole in one read, and with a "between".
* `history`: two rooms, since the flag is one for all and a room may end while the other waits. Pages of two, so that
  a page can be full, short or empty and the window can overflow; four messages make a second page.
  `MaxBacklog = 2` lines wait in each direction, `MaxRows = 4` rows before more are asked for; a client that
  opens rooms sends its requests regardless.

* `client`: two users and one room, since a handler looks at one room; two searches, of which one finds it. `MaxLines = 2` and
  `MaxAsked = 2` bound what others and the user add; answers and the requests that the client makes by itself come on
  top, so an answer, the request it causes and a broadcast between them do meet. About 650,000 states.
* `screen`: two rooms, one of them ruled by the user, each with two messages, one the user's own (a sticker in the second):
  one selected message, two, of both kinds, and a message in another room than the open one. `BufMsgs = 1`, so that scrolling drops
  rows. `MaxCount = 2` is where drifting counters stop.
* `json`: four cells hold every list of three items and a container of a container. Two keys that differ in case only.
  An allocation fails when no cell is free, so every path of failure is taken.
* `text`: documents of up to three nodes, over strings that hold each kind of byte that the printer tells apart, and each text
  that one symbol put in, left out or replaced makes of their prints; pairs of escapes at the borders of UTF-8 and of UTF-16,
  malformed ones among them; and for `cJSON_Minify` pretty prints with comments of three kinds between their symbols. `IntMax`, `NestingLimit` and `FirstSize` are small so that limits are reached.
  Messages: all of a letter, a blank and a newline, up to 5 symbols for a limit of 3. Formatting: all of a letter and two
  delimiters' halves up to 8, all five and `<` up to 4. Logins up to 4 for 2 to 3, names of files up to 3, arguments up to 9.

### Fairness

`RoomServer!Fairness` and `Session!Fairness`: the main loop is woken for each connection with a line
waiting and dispatches it (`handle_request` asks for the next line at its end), and clients read
(`receiver.c`). `ClientHistory!Fairness` says the same of one client: the server handles its requests, it reads. `ClientRooms!FairSpec` the same again (`Handle`, `Receive`). No fairness for anything that users do, for ends of a process or for restarts, so a liveness
property allows the process to end. `FileTransfer!Fairness`: each connection's steps of the main loop,
each upload's thread, and the windows' thread of each client that is not killed go on.

### Calm and patient traffic

Four properties of rooms and one of messages hold only if no two rooms are created in one second, no two messages
reach a room in one second, and no new row takes the id of a deleted one while a request for the old one
waits. `CalmStep` says this as a restriction on steps: it is the assumption under which the lists can be
trusted, since the code has no defence against the other case (`claim_creator` shows it). The properties are
therefore not claimed of other traffic; those in `rooms_busy` and `messages_busy` are.
`Patient` is the same for sessions: users who wait for each answer and sign in once per process. With double
clicks, the answer to a second log-out switches the main window on again for a client that is
no longer in the hash table; and a second log-out that is handled after another client has signed in under the login takes
the stream of that client out of the table. `LogOutsAreOwn` holds even so: it speaks of the login of the token, not of the
stream. That a log-out finds its sender's own stream is a part of `SessionsAgree`.
`Calm` of `ClientHistory` is of this kind: messages have seconds of their own, nobody writes to the client's rooms or bans
its user while it opens them, no room is deleted before the client lists it, and the user does not scroll to the bottom
before the older messages have come. `RowsCounted` and the types do not need it, and the proof does without.

`upset` of `ClientScreen` and `hasty` of `ClientRooms` are of the other kind: nothing is kept from happening, and a
property says until when it holds.

### Behaviours met while modelling

Besides the one that `claim_creator` shows, the modules contain these behaviours, which are the code's:

* A client that is lost without a log-out keeps its login in `info->users` for as long as the server runs:
  `vm_is_connected` looks at the server's own stream, though `server.c:12` says "Check if the client is still connected; if not,
  deinitialize and return" (`Kill` of `Session`).
* A client that asks for a file and then offers one waits in `is_server_ready` for the main loop, which waits in
  `download` (`server/src/api/download_file.c:7`) for the client, and every other client waits with them (`AskDownload`, `AskUpload`).
* Two messages to one room in one second: the second is broadcast with the id of the first (`get_id_msg`),
  so later edits and deletions reach the wrong one.
* `join_to_room_response` writes the member row, then dereferences the NULL of `get_room_by_id`; the row
  outlives the process, and the next room with that id has a member nobody let in.
* A refused sign-in replaces the token of the client that is signed in under the login; its next file request
  ends the server.
* `handle_request` asks for the next line of an upload's connection while the thread splices it: a read of the thread
  that finds the main loop's pending fails, and the file that the client has sent is deleted.
* A room deleted during an upload gets the upload's message (`upload_file_thread` looks at nothing again).
* The thread writes `client->upload_file` after closing the connection, when `deinit_client` may have
  freed the structure.
* A user who may not upload gets no answer, and the client's one thread waits for it.
* Older messages are those with `date <` that of the first row: what shares its second is never shown.
* A message broadcast after the rooms are listed and before their newest messages are read is shown twice.
* Scrolling to the bottom while older messages are on their way resets `upl_old_msgs`: a second request brings the same
  page again, and rows dropped meanwhile leave a gap under the page that comes.
* A request for older messages of a room that has ended or banned the user is not answered, and the flag keeps the
  client from asking in any other room until its user scrolls to a bottom.
* A broadcast, page or deletion for a room the client does not list ends the client (`create_gmsg`,
  `del_room_response`); `new_messages_response` answers banned users too, which is one way there.

Rooms and search (`ClientRooms`):

* A ban, a message or the deletion of a room between the answers to `sign_in` and to `get_rooms` ends the client; so does an
  answer about members or messages that is read after the room has ended. `get_members_response` looks at no permission.
* Ban buttons are those of the moment the room was opened: who was banned can be banned again, and the second ban finds
  no member.
* A log-out that is answered before a join is, a join from a row that a new search has cleared, and a join of a found
  room that has been deleted: the first two end the client, the last one the server.
* `t_filter_data` is freed with the request that set it and stays the filter of the list of rooms, which is asked
  about each room that is listed and, by `gtk_list_box_row_changed`, with each message that is shown.
* The answer to an older search puts its rooms under a newer text.
* `search_msg_response` (`server/src/json/json_responses.c:346`) gives the user's id where the room's is meant.
* A page of history with messages of users who are banned since shows "(null)" for their names.

Main window (`ClientScreen`):

* A new name or description of any room resets the counters of the open one and leaves its messages selected, and a
  cleared room does the opposite, though `structs.h:58` says "select_all: count of all selected messages". Then the header
  offers to edit a message that `get_selected_gmsg` does not find, and `show_edit_msg` dereferences NULL.
* A message that anyone deletes or edits, in any room, takes the user's selection and draft; the header for messages may stay.
* A draft, `btn_edit_msg_apply` and an open dialog outlive their room: the draft goes to the next, the dialog ends the client.
* The placeholder is put into the emptied field of an editing, and `edit_message_request` sends it.
* A search of rooms deletes a found room that stayed selected like an open one, and hides the header of the room that is open.

JSON and texts (`JsonTree`, `JsonText`, `ChatText`):

* The server's answers show lists by reference and never delete the lists. `insert_old_msg` adds a second `room_id`,
  of which the first is found; `insert_room` appends to a copy whose first item has no `prev`, which `add_item_to_array` provides for.
* `\uZZZZ` is parsed, as U+0000 (`libraries/cjson/cJSON.c:629`: `parse_hex4` returns 0 for what its comment calls
  "invalid"; `:665`: "check that the code is valid" refuses second halves of pairs only): what the string says after it is lost.
* `cJSON_Minify` runs on after a string that ends in a backslash; the program does not call it.
* All spans of the formatting end alike, so delimiters that cross swap their styles; no text is lost. A `<` or `&` is not
  escaped, and the label of such a message is empty.
* A login with `__` in it, or `_` at its end, shifts the name of an uploaded file, and so does a newline, which `$` of the login's
  pattern lets through. Blanks at the end of a name are stripped in the table and not on the disk.
* The client trims descriptions at 800 bytes and the server refuses more than 40 without a word.
  `new_room_request` does not trim. `edit_message_response` neither strips nor looks at lengths.
* `:8080` as the argument connects to the host `8080` (`ArgumentsValid` allows it); groups of an address have no upper bound; a port has four digits.

## 4. Proofs

TLAPS checks every leaf; the constants are arbitrary, under the named assumptions of the modules
(`OpsAssumption`, `BoundAssumption`, `PatientAssumption`, `RoleAssumption`, `SizeAssumption`, `RoomAssumption`,
`CalmAssumption`, `MsgAssumption`, `BufAssumption`, `UserAssumption`, `TextAssumption`; `ItemsAreFinite`, `LowerFolds`,
`BoundsAreNumbers` and `LeavesAreTyped`: memory is finite, and no type of a leaf is that of a container).

* `TablesTheorems`: lemmas on the statements: `NewId` is not in use, the first row exists and is unique, what an
  insertion, an update and a deletion do to `MemberType` and `MembersList`. Finite tables matter here: the least
  row id exists because the ids are natural numbers, the next because the set is bounded.
* `RoomServerProofs`: `TypeCorrect`, `Spec => []TypeOK`; `TypeOK` is inductive as it stands
  (`TypeIsKept`), and the other invariants of the server rest on it. `MembershipImplemented` and `BansStick`: each handler's effect on
  `MemberType` comes from `TablesTheorems`; an added row has the largest id, so it is first only if there was none.
  `MessagesByMembers`, and `MessagesInRooms`. The latter is not inductive: a row left by a join
  that ended the process makes its user a member of a room that is not there, and a room with that id
  may come and go again. The strengthening (`OrphansAreSilent`) says that the user of a member row without
  a room is silent there: neither does the client list the room nor does a message to it wait. It holds
  because the end of the process empties every queue and every list.
  `OrphansByCrash` needs no more than the effect of each handler on the two tables (`NoNewOrphans`). `MessagesLeave`
  needs that no two messages have one id, although ids are given again (`OneMessagePerId`).
  `MembershipSound`, `ScreensAgreeCalmly` and `OwnersRule` are proved there too, under `CalmSpec`. None of them is
  inductive, because the handlers trust what they are asked. The inductive invariant `CalmInv` says what makes that
  trust good: the requests that wait name rooms of their sender and messages of that room (`RequestsFit`); a session begins with
  the rooms and ends with the log-out (`SessionsInOrder`); several rows of one user in a room agree (`RowsAgree`); lists and
  screens fit the tables (`ListsFit`, `ScreensFit`); ids are unique (`OneRoomPerId`, `OneMessagePerId`). `CalmHolds` proves it handler by
  handler; a deletion is the hard case, since its id may be given again while others' requests wait, which is what calm
  traffic excludes. TLC checked `CalmInv` first, on two instances.
* `SessionProofs`: `TypeCorrect` and `OwnLogOuts`, by `TypeOK` and `Known`: a client that shows the main window was
  given a token; and `PatientSessionsAgree`, for patient users. The inductive invariant `Agreed` places each client
  in one of the phases of its process, at most one line being on its way (`OneAtATime`), the window fitting what
  is on the way (`FitsWindow`), and connection and hash table fitting the phase (`Placed`), also while a log-out waits. TLC
  checked it first.
* `FileProofs`: `TypeCorrect`, `FilesAreWhole`, `SessionsSurvive`. `TypeOK` is strengthened by `Flow` (no more is
  read than was sent, nor sent than announced), `FileFollows` (the file on the disk follows the thread's stage) and
  `Marked` (a connection whose thread has begun is a file's). Hence what is stored was read whole, and nothing was
  lost to the main loop.
* `HistoryProofs`: `TypeCorrect` and `CountsAgree`, for both values of `Calm`. The two are inductive only together: rows
  are dropped by the count, so a count that is wrong would drop what is not there, and types that are wrong leave a
  count below zero. The lemmas on sequences say what reversing, joining and removing do to the length.
  `CalmClientSurvives`, for `Calm = TRUE`: the invariant `Alive` follows the lines on their way to the client. One that
  needs its room comes after the line that lists the room and before the one that ends it (`Readable`), and no request for
  the newest messages waits for a room where the user is banned.
  `OneStretchShown`, for `Calm = TRUE` too: what waits for the client is what will be shown, so the invariant `Scrolls` takes the
  rows and the lines together, as places in order. An entry that a line says is *live* unless a later line deletes it, clears
  the room or ends it. `InOrder` says that what comes later is newer, except for older messages, which are older than all
  before them; `Kept`, that what is live is in the table; `Whole`, that everything in the table since the oldest entry is live;
  `Asked`, that a request for older messages names the oldest date of all that is shown or waits; `Opens`, that the newest
  messages of a room come before anything else is said of it; `OneOld`, that one request for older messages is under way.
  Each line that is appended or read, each row that is dropped, is then a lemma about places (`LineStretched`,
  `ReadStretched`, `BottomScrolls`). TLC checked `Scrolls` first, on the instance of the run.

* `ScreenProofs`: `SelectionHolds`, `EditingHolds`, `SendingHolds` and `AskingHolds` from one invariant. Its part `Basic`
  (types, what is selected is shown, how the placeholder is marked) is inductive alone; `Effects` sums up what groups of
  handlers do, once for all parts. Those say what the code never checks: the bar over an editing fits what is selected
  (`BarFits`, `EditFits`), a dialog fits its room (`PendingFits`), a draft its room (`DraftFits`), the placeholder the field
  (`PromptFits`). Counters are cardinalities, so each row that comes or goes costs a theorem on finite sets.
* `ClientProofs`: `TablesAgree`, `LinesFind` and `OffersHold`. What the client knows is late, so the invariant speaks of what it
  *will* know: `Reading(groom, lines)` is the room after each line on its way, and the parts of `Inv` say, line by line, that the
  line finds its room and its member (`Flow`), that a room which no line ends belongs to the tables (`Lives`), and that after
  the last line the room and its members are those of the tables, once the members have been asked for (`Standing`).
  `Phases` orders sign-in, listing and log-out, which decides who hears a broadcast; `Opens` is about the buttons to ban. Two
  lemmas carry it all: a line that is appended extends the reading, a line that is taken shifts it (`ReadingPost`,
  `ReadingTake`). TLC checked the invariant first. `Searches` says that a client that is not hasty waits for one answer at most.
  `SearchesFind` is about texts of any length: `Spelling` says where each symbol of the text stands in the escaped pattern,
  `TextPlaces` that the pattern then finds the text exactly where it stands, from the end of the text backwards; `RoomsFound` and
  `MessagesFound` follow, of which the run compares texts of up to three symbols. `Like` and `ParseStrSearch` are recursive functions
  over an interval: that such a function exists is proved with a least counterexample (`TableExists`, `WritingExists`,
  `ReadingExists`), since theorems of induction take an operator as a parameter, which the provers cannot instantiate.
* `JsonProofs`: `ListsStayWhole`, `ReadersFindWhatIsThere`, `OrderIsKept` and `CallsOnSequences`, for any number of cells. `ListsAreWhole` is not
  inductive: it says what a walk visits, and a call changes two or three links. The invariant `Inv` is `Shaped`, which says
  of each place what it knows of its neighbours, and `Acyclic`, that no containers are in one another all around. `Held` is about
  the item of a list, with both forms that the `prev` of a first item has; `Begins` about where a `child` leads, from an owner
  and from a reference; `Full` says without a walk that the list leads to all that its container holds: every set that has the first
  item and is closed under `next` has them all, and some item has no `next`. `ElementsFacts` draws from it what the walk of
  `Elements` visits, a recursive function over an interval, by a least counterexample. `DeletedFacts` does so for what
  `cJSON_Delete` visits, which is a *branch*: what is below an item, and nothing else (`OneBranch`).
  The functions of `cJSON.c` reduce to five changes: a gap filled (`Filled`: adding, inserting, the second half of a replacement),
  an item taken out (`Emptied`: detaching, and the first half), a list made at once (`Listed`), a branch copied (`Copied`) and a
  branch given back (`Delete`). Each keeps `Shaped`, and with one more lemma for `Acyclic` every call does.
  `ReadersAgree` needs no more invariant: a search is the first place of a walk (`KeysFindFirst`); for `cJSON_Compare` its table
  of answers is shown to exist (`CompareTable`), and an item and its copy are equal at every depth that their branch is not larger
  than, since the branch below an item of theirs is smaller (`BranchShrinks`, `PairsAreEqual`). The assumption `KeysDiffer` of
  `CopiesAreEqual` is used where a key must find the same place in both. For `OrderStays`, `Ahead(h, i, j)` says that `next`
  leads from `i` to `j`; each change keeps it between items that stay (`Keeps`, `Orderly`), and along a walk it is the order of places.
  For `CallsActOnSequences`, a list is whatever sequence starts at the first item, follows `next` and ends (`IsList`), which leaves
  but one (`ListIsElements`): a gap filled before the k-th item makes it `InsertAt`, an item taken out `RemoveAt`
  (`FilledSequence`, `EmptiedSequence`), and a replacement is one after the other (`PutBack`).

Only model-checked: liveness (`BanTakesEffect`, `LogOutTakesEffect`, `UploadsEnd`, `MembersArrive`, `WaitEnds`), which is beyond the prover;
`text`, whose readers and writers of JSON are recursive operators, out of the prover's reach (`TextsKeepMeaning`, `BuffersHold`), and
whose short texts are enumerated by `MCText` (`TextsArrive`); and the claim, which is false.

## 5. Not modelled

Hashing of passwords; which room a search of messages looks through, and the rows it shows; the microseconds in names of
uploads, and 32-bit dates; uploads refused by `VM_MAX_FILE_SIZE`, failures to create or open a file, several uploads of
one client process, broadcasts of uploads; unread marks and scrolling; hooks and unused constructors of cJSON, the digits of its numbers;
themes, icons, emoticons and layout; daemon and log; SQLite itself, of which the repository has the header only, and
whose behaviour is used where handlers rely on it. Replies are records without their wording.
