------------------------------ MODULE ClientScreen ------------------------------
(***************************************************************************)
(* The main window of one client: which room is open, which of its         *)
(* messages are selected, what the field for a new message holds, and the  *)
(* editing of a message in that same field, while broadcasts of the server *)
(* take rooms, messages and names from under the user's hands.             *)
(*                                                                         *)
(* The client has one thread: a handler of a signal of GTK, or of a line   *)
(* from the server, is one step.  GTK is modelled from how the code uses   *)
(* it: what is hidden cannot be clicked, a modal dialog keeps the user     *)
(* from everything else, a destroyed row leaves its list and selection.    *)
(* The boxes in the rows take the clicks (select_msg, select_room), so the *)
(* list boxes select nothing by themselves.                                *)
(***************************************************************************)
EXTENDS Integers, FiniteSets, FiniteSetsExt

CONSTANTS
  Room,      \* rooms the user may be a member of
  Mine,      \* those among them whose customer the user is
  Msg,       \* message ids; the rows of a room are in the order of the ids
  RoomOf,    \* RoomOf[m]: the room of message m
  Own,       \* the messages that the user wrote
  NotEdit,   \* stickers and files
  BufMsgs,   \* BUF_MSGS: how many rows are kept of a room scrolled to its end
  None,      \* no room, no message
  MaxCount   \* bound on the counters of a room, which lost rows let drift

ASSUME RoomAssumption == Mine \subseteq Room /\ None \notin Room
ASSUME MsgAssumption == /\ IsFiniteSet(Msg) /\ Msg \subseteq Nat /\ None \notin Msg
                        /\ RoomOf \in [Msg -> Room]
                        /\ Own \subseteq Msg /\ NotEdit \subseteq Msg
ASSUME BufAssumption == BufMsgs \in Nat /\ MaxCount \in Nat

VARIABLES
  alive,     \* the client's process runs
  listed,    \* the rooms in listbox_rooms
  current,   \* the selected one, or None
  shown,     \* box_entry_field and box_room_header are shown
  rows,      \* the messages in the list boxes of the rooms
  selected,  \* the selected ones among them
  count,     \* select_own, select_another, select_notedit, select_all of current
  header,    \* stack_room_header: page box_room_ctrl or box_msg_ctrl, and whether
             \* btn_edit_msg and btn_delete_msg are shown on the latter
  bar,       \* box_editing_msg, btn_edit_msg_apply and btn_send_msg are shown; label:
             \* the message whose text box_editing_msg shows
  entry,     \* msg_entry: its text, the focus, chat->msg_placeholder
  pending,   \* what the user began elsewhere: a modal dialog, or a search in the
             \* 150 ms that GtkSearchEntry waits; and for which room
  out,       \* the requests that the last step wrote
  upset      \* ghost: what came at a moment that the code does not provide for

screen == <<listed, current, shown, rows, selected, count, header, bar, entry, pending>>
vars == <<alive, listed, current, shown, rows, selected, count, header, bar, entry,
          pending, out, upset>>

Nothing == [kind |-> "none", of |-> None]    \* an empty field
Blank == [kind |-> "blank", of |-> None]     \* spaces and line breaks
Prompt == [kind |-> "prompt", of |-> None]   \* "Enter your message"
Typed(r) == [kind |-> "typed", of |-> r]     \* a text begun in room r
Copy(m) == [kind |-> "copy", of |-> m]       \* the text of message m

Draft == {Nothing, Blank, Prompt} \cup {Typed(r) : r \in Room} \cup {Copy(m) : m \in Msg}
Idle == [kind |-> "none", room |-> None]
Closed == [box |-> FALSE, apply |-> FALSE, send |-> TRUE, label |-> None]
NoCount == [own |-> 0, another |-> 0, notedit |-> 0, all |-> 0]

Req(op, room, msg, text) == [op |-> op, room |-> room, msg |-> msg, text |-> text]

TypeOK ==
  /\ alive \in BOOLEAN
  /\ listed \subseteq Room
  /\ current \in listed \cup {None}
  /\ shown \in BOOLEAN
  /\ rows \subseteq {m \in Msg : RoomOf[m] \in listed}
  /\ selected \subseteq Msg
  /\ count \in [{"own", "another", "notedit", "all"} -> Int]
  /\ header \in [page : {"room", "message"}, edit : BOOLEAN, delete : BOOLEAN]
  /\ bar \in [box : BOOLEAN, apply : BOOLEAN, send : BOOLEAN, label : Msg \cup {None}]
  /\ entry \in [text : Draft, focus : BOOLEAN, prompt : BOOLEAN]
  /\ pending \in [kind : {"none", "file", "settings", "search"}, room : Room \cup {None}]
  /\ out \subseteq [op : {"message", "edit", "delete", "sticker", "file", "rule", "search"},
                    room : Room, msg : Msg \cup {None}, text : Draft]
  /\ upset \subseteq {"settings", "messages", "ended", "left"}

Init ==
  /\ alive = TRUE /\ listed = {} /\ current = None /\ shown = FALSE /\ rows = {} /\ selected = {}
  /\ count = NoCount
  /\ header = [page |-> "room", edit |-> TRUE, delete |-> TRUE]
  /\ bar = Closed
  /\ entry = [text |-> Prompt, focus |-> FALSE, prompt |-> TRUE]
  /\ pending = Idle /\ out = {} /\ upset = {}

-------------------------------------------------------------------------------
(* Parts that handlers share.                                              *)

OfRoom(r) == {m \in Msg : RoomOf[m] = r}

\* get_selected_gmsg: the message to edit.  None stands for the NULL that its
\* callers dereference, and for the NULL list that it dereferences itself.
Target == LET here == selected \cap OfRoom(current)
          IN IF count.all = 1 /\ here # {} THEN Min(here) ELSE None

\* clear_buffer_text, and the handlers of focus-in-event and focus-out-event.
Emptied(e) == [e EXCEPT !.text = Nothing]
Focused(e) == [text |-> IF e.prompt THEN Nothing ELSE e.text, focus |-> TRUE, prompt |-> FALSE]
Blurred(e) == IF e.focus /\ e.text = Nothing
                THEN [text |-> Prompt, focus |-> FALSE, prompt |-> TRUE]
                ELSE [e EXCEPT !.focus = FALSE]

\* What set_room_widgets_visibility hides of the editing.
HideBox(b) == [b EXCEPT !.box = FALSE, !.label = None]

ShowPage(page) == header' = [header EXCEPT !.page = page]

UnselectCurrent ==
  IF current = None THEN UNCHANGED <<selected, count, bar, entry>>
  ELSE /\ selected' = selected \ OfRoom(current)
       /\ count' = NoCount
       /\ bar' = Closed
       /\ entry' = Emptied(entry)

EndSearch == pending' = IF pending.kind = "search" THEN Idle ELSE pending

\* (Slip: the rows stay selected.)
ResetCounts ==
  /\ ShowPage("room")
  /\ selected' = selected
  /\ count' = NoCount
  /\ bar' = Closed
  /\ entry' = Emptied(entry)
  /\ EndSearch

\* reset_room_message, which ends a search too, when a room is open.
ResetRoom ==
  /\ ShowPage("room")
  /\ selected' = selected \ OfRoom(current)
  /\ count' = NoCount
  /\ bar' = Closed
  /\ entry' = Emptied(entry)
  /\ EndSearch

Crash == alive' = FALSE /\ out' = {} /\ UNCHANGED <<screen, upset>>

Fine == alive' = alive

\* The user can use the main window, and what it shows of the open room.
AtMain == alive /\ pending.kind \notin {"file", "settings"}
InRoom == AtMain /\ shown

\* The user's field loses the focus.
Leave(why) ==
  /\ entry' = Blurred(entry)
  /\ upset' = IF entry'.prompt /\ bar.apply THEN upset \cup {why} ELSE upset

-------------------------------------------------------------------------------
(* Rooms and messages under the pointer.                                   *)

\* (Slip: the room that is left is not reset.)
LeaveRoomAsItIs(r) ==
  /\ AtMain /\ r \in listed \ {current}
  /\ current' = r /\ shown' = TRUE
  /\ count' = NoCount
  /\ header' = [header EXCEPT !.page = "room", !.delete = TRUE]
  /\ bar' = [bar EXCEPT !.send = TRUE]
  /\ entry' = Focused(entry)
  /\ Fine /\ out' = {} /\ UNCHANGED <<listed, rows, selected, pending, upset>>

\* Only a room that is left is reset.  All buttons of the room appear, but for
\* those with no_show_all, and the field takes the focus.
SelectRoom(r) ==
  /\ AtMain /\ r \in listed \ {current}
  /\ current' = r /\ shown' = TRUE
  /\ selected' = selected \ OfRoom(current)
  /\ count' = NoCount
  /\ header' = [header EXCEPT !.page = "room", !.delete = TRUE]
  /\ bar' = IF current = None THEN [bar EXCEPT !.send = TRUE] ELSE Closed
  /\ entry' = Focused(IF current = None THEN entry ELSE Emptied(entry))
  /\ pending' = IF current = None THEN pending ELSE Idle
  /\ Fine /\ out' = {} /\ UNCHANGED <<listed, rows, upset>>

\* What select_row and unselect_row add to the counts, and show_msg_control_btn.
Counted(m, d) ==
  LET own == count.own + (IF m \in Own THEN d ELSE 0)
      another == count.another + (IF m \in Own THEN 0 ELSE d)
  IN [own |-> own, another |-> another, all |-> own + another,
      notedit |-> count.notedit + (IF m \in NotEdit THEN d ELSE 0)]

\* (Slip: the messages of others are not counted.)
EditAmongOthers(c) == c.own = 1 /\ c.notedit = 0

MayEdit(c) == c.all = 1 /\ c.notedit = 0 /\ c.another = 0

\* (Slip: everyone is taken for the customer.)
DeleteAnything(c) == c.all > 0

MayDelete(c) == c.another = 0 \/ current \in Mine

HeaderFor(c) ==
  IF c.all > 0 THEN [page |-> "message", edit |-> MayEdit(c), delete |-> MayDelete(c)]
               ELSE [header EXCEPT !.page = "room"]

SelectMsg(m) ==
  /\ InRoom /\ m \in rows \cap OfRoom(current)
  /\ ~bar.box
  /\ IF m \in selected
       THEN selected' = selected \ {m} /\ count' = Counted(m, -1)
       ELSE selected' = selected \cup {m} /\ count' = Counted(m, 1)
  /\ \A c \in DOMAIN count : count'[c] \in -MaxCount .. MaxCount
  /\ header' = HeaderFor(count')
  /\ Fine /\ out' = {}
  /\ UNCHANGED <<listed, current, shown, rows, bar, entry, pending, upset>>

UnselectMsg ==
  /\ InRoom /\ header.page = "message"
  /\ UnselectCurrent
  /\ ShowPage("room")
  /\ Fine /\ out' = {} /\ UNCHANGED <<listed, current, shown, rows, pending, upset>>

DeleteSelectedMsgs ==
  /\ InRoom /\ header.page = "message" /\ header.delete
  /\ out' = {Req("delete", current, m, Nothing) : m \in selected \cap OfRoom(current)}
  /\ Fine /\ UNCHANGED <<screen, upset>>

\* btn_edit_msg: three widgets change places, then show_edit_msg.
ShowEditMsg ==
  /\ InRoom /\ header.page = "message" /\ header.edit
  /\ IF Target = None THEN Crash
     ELSE /\ bar' = [box |-> ~bar.box, apply |-> ~bar.apply, send |-> ~bar.send,
                     label |-> IF bar.box THEN None ELSE Target]
          /\ entry' = [text |-> Copy(Target), focus |-> TRUE, prompt |-> FALSE]
          /\ ShowPage("room")
          /\ Fine /\ out' = {}
          /\ UNCHANGED <<listed, current, shown, rows, selected, count, pending, upset>>

\* search_room_request with a found room still selected: its row goes the way of
\* the row of an open room, and hides what is shown of the room that is open.
SearchRooms ==
  /\ AtMain
  /\ shown' = FALSE
  /\ bar' = HideBox(bar)
  /\ Leave("left")
  /\ Fine /\ out' = {}
  /\ UNCHANGED <<listed, current, rows, selected, count, header, pending>>

\* btn_edit_msg_cancel: sig_hide_msg_editing, then sig_switch_to_msg_ctrl.
CancelEdit ==
  /\ AtMain /\ bar.box
  /\ bar' = Closed
  /\ entry' = Emptied(entry)
  /\ ShowPage("message")
  /\ Fine /\ out' = {}
  /\ UNCHANGED <<listed, current, shown, rows, selected, count, pending, upset>>

-------------------------------------------------------------------------------
(* The field.                                                              *)

\* Keys, Enter with shift among them.
Type ==
  /\ InRoom /\ entry.focus
  /\ LET t == entry.text
         start == CASE t.kind = "typed" -> t.of
                    [] t.kind = "copy" -> RoomOf[t.of]
                    [] OTHER -> current
     IN \E next \in {Nothing, Blank, Typed(start)} \ {t} : entry' = [entry EXCEPT !.text = next]
  /\ Fine /\ out' = {}
  /\ UNCHANGED <<listed, current, shown, rows, selected, count, header, bar, pending, upset>>

FocusIn ==
  /\ InRoom /\ ~entry.focus
  /\ entry' = Focused(entry)
  /\ Fine /\ out' = {}
  /\ UNCHANGED <<listed, current, shown, rows, selected, count, header, bar, pending, upset>>

FocusOut ==
  /\ AtMain /\ entry.focus
  /\ Leave("left")
  /\ Fine /\ out' = {}
  /\ UNCHANGED <<listed, current, shown, rows, selected, count, header, bar, pending>>

\* The request that send_message_request writes.
Message ==
  IF ~entry.prompt /\ entry.text.kind \in {"typed", "copy", "prompt"}
    THEN {Req("message", current, None, entry.text)} ELSE {}

SendMessage ==
  /\ InRoom /\ bar.send
  /\ out' = Message
  /\ ResetRoom
  /\ Fine /\ UNCHANGED <<listed, current, shown, rows, upset>>

\* edit_message_request, which leaves text in the field.
EditMessage(text) ==
  IF Target = None THEN Crash
  ELSE /\ IF entry.text \notin {Nothing, Blank, Copy(Target)}
            THEN out' = {Req("edit", current, Target, entry.text)} /\ header' = header
            ELSE out' = {} /\ ShowPage("message")
       /\ bar' = Closed
       /\ entry' = [entry EXCEPT !.text = text]
       /\ Fine /\ UNCHANGED <<listed, current, shown, rows, selected, count, pending, upset>>

\* btn_edit_msg_apply does not take the focus.
ApplyEdit ==
  /\ InRoom /\ bar.apply
  /\ EditMessage(Nothing)

\* Enter without shift.  The handler of key-press-event returns no value, so GTK
\* may or may not go on to break the line.
Enter ==
  /\ InRoom /\ entry.focus
  /\ \E left \in {Nothing, Blank} :
       IF bar.box THEN EditMessage(left)
       ELSE /\ out' = Message
            /\ ShowPage("room")
            /\ selected' = selected \ OfRoom(current)
            /\ count' = NoCount /\ bar' = Closed /\ EndSearch
            /\ entry' = [entry EXCEPT !.text = left]
            /\ Fine /\ UNCHANGED <<listed, current, shown, rows, upset>>

\* Stickers cannot be reached while a message is edited.
SendSticker ==
  /\ InRoom /\ ~bar.box
  /\ out' = {Req("sticker", current, None, Nothing)}
  /\ ResetRoom
  /\ Fine /\ UNCHANGED <<listed, current, shown, rows, upset>>

-------------------------------------------------------------------------------
(* Dialogs and the search, which end in another step than they begin.      *)

\* btn_attachment, and btn_show_room_sett, which the room's customer sees.
OpenDialog(kind) ==
  /\ InRoom /\ pending = Idle
  /\ kind = "settings" => current \in Mine /\ header.page = "room"
  /\ pending' = [kind |-> kind, room |-> current]
  /\ Leave("left")
  /\ Fine /\ out' = {}
  /\ UNCHANGED <<listed, current, shown, rows, selected, count, header, bar>>

CloseDialog ==
  /\ alive /\ pending.kind \in {"file", "settings"}
  /\ pending' = Idle
  /\ Fine /\ out' = {}
  /\ UNCHANGED <<listed, current, shown, rows, selected, count, header, bar, entry, upset>>

\* open_file.
OpenFile ==
  /\ alive /\ pending.kind = "file"
  /\ IF current = None THEN Crash
     ELSE /\ out' = {Req("file", current, None, Nothing)}
          /\ ShowPage("room")
          /\ UnselectCurrent
          /\ pending' = Idle
          /\ Fine /\ UNCHANGED <<listed, current, shown, rows, upset>>

\* req_room_sett, del_room_request, clear_room_request, ban_member_request: a
\* request to rule the room that is open when the dialog is confirmed.
ConfirmSettings ==
  /\ alive /\ pending.kind = "settings"
  /\ IF current = None THEN Crash
     ELSE /\ out' = {Req("rule", current, None, Nothing)}
          /\ pending' = Idle
          /\ Fine
          /\ UNCHANGED <<listed, current, shown, rows, selected, count, header, bar, entry, upset>>

\* The user types in sentry_messages.
TypeSearch ==
  /\ InRoom /\ header.page = "room" /\ pending = Idle
  /\ pending' = [kind |-> "search", room |-> current]
  /\ Leave("left")
  /\ Fine /\ out' = {}
  /\ UNCHANGED <<listed, current, shown, rows, selected, count, header, bar>>

\* search_msg_request, with a text to look for or with none.
SearchMsg ==
  /\ alive /\ pending.kind = "search"
  /\ \/ current = None /\ Crash
     \/ /\ current # None
        /\ ResetRoom
        /\ out' \in {{Req("search", current, None, Nothing)}, {}}
        /\ Fine /\ UNCHANGED <<listed, current, shown, rows, upset>>

-------------------------------------------------------------------------------
(* Lines from the server.                                                  *)

\* new_room_response and join_to_room_response.
NewRoom(r) ==
  /\ alive /\ r \notin listed
  /\ listed' = listed \cup {r}
  /\ Fine /\ out' = {}
  /\ UNCHANGED <<current, shown, rows, selected, count, header, bar, entry, pending, upset>>

\* A message that is broadcast, or comes with a page of newer or older ones; a
\* row may come back, since older ones are asked for again and ids given again.
AddMessageRow(m) ==
  /\ alive /\ RoomOf[m] \in listed /\ m \notin rows
  /\ rows' = rows \cup {m}
  /\ Fine /\ out' = {}
  /\ UNCHANGED <<listed, current, shown, selected, count, header, bar, entry, pending, upset>>

\* del_msg_response: the open room is unselected, whichever room the message was in.
DelMsg(m) ==
  /\ alive /\ m \in rows
  /\ rows' = rows \ {m}
  /\ header' = [header EXCEPT !.page = IF m \in selected THEN "room" ELSE @]
  /\ IF current = None
       THEN selected' = selected \ {m} /\ UNCHANGED <<count, bar, entry>>
       ELSE UnselectCurrent
  /\ upset' = IF current # None /\ header'.page = "message" THEN upset \cup {"messages"}
                                                            ELSE upset
  /\ Fine /\ out' = {} /\ UNCHANGED <<listed, current, shown, pending>>

\* edit_message_response.
MsgText(m) ==
  /\ alive /\ m \in rows
  /\ UnselectCurrent
  /\ upset' = IF current # None /\ header.page = "message" THEN upset \cup {"messages"}
                                                           ELSE upset
  /\ Fine /\ out' = {} /\ UNCHANGED <<listed, current, shown, rows, header, pending>>

\* clear_room_response: counts and header stay as they are.
ClearHistory(r) ==
  /\ alive /\ rows \cap OfRoom(r) # {}
  /\ rows' = rows \ OfRoom(r)
  /\ selected' = selected \ OfRoom(r)
  /\ bar' = Closed
  /\ entry' = Emptied(entry)
  /\ upset' = IF selected \cap OfRoom(r) # {} THEN upset \cup {"messages"} ELSE upset
  /\ Fine /\ out' = {} /\ UNCHANGED <<listed, current, shown, count, header, pending>>

\* edit_room_name_response and edit_room_desc_response, for any room of the list:
\* the field takes the focus, and the counts of the open room are reset.
RoomSett ==
  /\ alive /\ current # None
  /\ entry' = Focused(entry)
  /\ count' = NoCount
  /\ upset' = IF selected # {} THEN upset \cup {"settings"} ELSE upset
  /\ Fine /\ out' = {} /\ UNCHANGED <<listed, current, shown, rows, selected, header, bar, pending>>

\* The rooms of gone end: del_room_response for one, log_out_response for all.
\* What box_entry_field holds is hidden with it and stays as it is.
EndRooms(gone) ==
  /\ alive /\ gone # {}
  /\ listed' = listed \ gone
  /\ rows' = rows \ {m \in Msg : RoomOf[m] \in gone}
  /\ selected' = selected \ {m \in Msg : RoomOf[m] \in gone}
  /\ IF current \notin gone THEN UNCHANGED <<current, shown, count, bar, entry, upset>>
     ELSE /\ current' = None /\ shown' = FALSE
          /\ count' = NoCount
          /\ bar' = HideBox(bar)
          /\ entry' = Blurred(entry)
          /\ upset' = IF \/ entry.text.kind \in {"typed", "copy"}
                         \/ bar.apply \/ pending # Idle
                        THEN upset \cup {"ended"} ELSE upset
  /\ Fine /\ out' = {} /\ UNCHANGED <<header, pending>>

EndRoom(r) == r \in listed /\ EndRooms({r})

LogOut == EndRooms(listed)

\* box_messages_reached at the bottom: the room is reset and the oldest rows go.
ReachBottom ==
  LET here == rows \cap OfRoom(current) IN
  /\ alive /\ current # None
  /\ Cardinality(here) > BufMsgs
  /\ rows' = rows \ {m \in here : Cardinality({n \in here : n >= m}) > BufMsgs}
  /\ ResetRoom
  /\ Fine /\ out' = {} /\ UNCHANGED <<listed, current, shown, upset>>

-------------------------------------------------------------------------------

UserStep ==
  \/ \E r \in Room : SelectRoom(r)
  \/ \E m \in Msg : SelectMsg(m)
  \/ SearchRooms \/ UnselectMsg \/ DeleteSelectedMsgs \/ ShowEditMsg \/ CancelEdit
  \/ Type \/ FocusIn \/ FocusOut \/ SendMessage \/ ApplyEdit \/ Enter \/ SendSticker
  \/ \E kind \in {"file", "settings"} : OpenDialog(kind)
  \/ CloseDialog \/ OpenFile \/ ConfirmSettings \/ TypeSearch \/ SearchMsg \/ ReachBottom

ServerStep ==
  \/ \E r \in Room : NewRoom(r) \/ ClearHistory(r) \/ EndRoom(r)
  \/ \E m \in Msg : AddMessageRow(m) \/ DelMsg(m) \/ MsgText(m)
  \/ RoomSett \/ LogOut

Next == UserStep \/ ServerStep

Spec == Init /\ [][Next]_vars

-------------------------------------------------------------------------------
(* Properties.  Four things that may come at a bad moment are left out     *)
(* where they break a property, each by its name in upset:                 *)
(*   "settings": the name or description of any room changes while         *)
(*       messages are selected (the counts are reset, the rows are not);   *)
(*   "messages": a message is deleted or edited, or a room cleared, while  *)
(*       others are selected (the rows are reset, the header is not);      *)
(*   "ended": the open room ends under a draft, an editing, a dialog or a  *)
(*       search (all of which stay);                                       *)
(*   "left": the field of an editing is emptied and left (the placeholder  *)
(*       is put into it).                                                  *)

Tally(ms) ==
  [own |-> Cardinality(ms \cap Own), another |-> Cardinality(ms \ Own),
   notedit |-> Cardinality(ms \cap NotEdit), all |-> Cardinality(ms)]

\* Only messages that the open room shows are selected: none that was deleted,
\* cleared, scrolled away, or left behind with another room, so the buttons act
\* on nothing that the user does not see.
SelectionIsShown == selected \subseteq rows \cap OfRoom(current)

\* The four counters of a room are those of its selected messages (structs.h:58),
\* through every way in which rows come, go and change.
CountsMatch == upset \cap {"settings", "messages"} = {} => count = Tally(selected)

\* While a message is edited it is the selected one, the user's own and no sticker
\* or file; its text or what became of it is in the field, the button to apply is
\* there in the place of the one to send, and so is the room's header.
EditingIsAlone ==
  bar.box /\ upset = {} =>
    /\ selected = {bar.label} /\ Target = bar.label
    /\ bar.label \in Own \ NotEdit
    /\ bar.apply /\ ~bar.send
    /\ header.page = "room" /\ ~entry.prompt
    /\ entry.text.kind = "copy" => entry.text.of = bar.label

\* The header for messages is there only over a selection, with the buttons that
\* fit it: to edit one message of the user's own, to delete what the user wrote
\* or anything in the user's own room.
ButtonsFit ==
  header.page = "message" /\ current # None /\ upset = {} =>
    /\ selected # {}
    /\ header.edit <=> Cardinality(selected) = 1 /\ selected \subseteq Own \ NotEdit
    /\ header.delete <=> selected \subseteq Own \/ current \in Mine

\* Rows, selection, counters and header are four pieces of state that agree: the
\* buttons that are offered are those of the messages that the user sees selected.
SelectionAgrees == TypeOK /\ SelectionIsShown /\ CountsMatch /\ ButtonsFit

\* A message goes to the room in which the user began to write it.
DraftsStay ==
  "ended" \notin upset =>
    \A q \in out : /\ q.op \in {"message", "edit"} /\ q.text.kind = "typed"
                  => q.room = q.text.of

\* "Enter your message" is never sent.
PromptIsNotSent == "left" \notin upset => \A q \in out : q.text # Prompt

\* No handler dereferences a room or message that is not there.
ScreenSurvives == upset = {} => alive

\* An edited message stays there, and the one that is edited, until the editing ends; and
\* no other handler goes by a room or message that is gone, either.
EditingIsSafe == EditingIsAlone /\ ScreenSurvives

\* What is sent is what the user wrote, to the room it was written for.
WhatIsSentWasMeant == DraftsStay /\ PromptIsNotSent

\* What a step asks the server for is what the user was shown when the step began:
\* an edit of the message in the editing box, by its author; deletions of messages
\* on the screen, each of the user's own or in the user's own room; the rule of a
\* room by its customer, from the dialog that was opened in that room.
AsksWhatItShows ==
  [][upset = {} => \A q \in out' :
       /\ q.room = current
       /\ q.op = "edit" => bar.box /\ q.msg = bar.label /\ q.msg \in Own
       /\ q.op = "delete" => q.msg \in rows /\ (q.msg \in Own \/ q.room \in Mine)
       /\ q.op = "rule" => q.room \in Mine /\ q.room = pending.room
       /\ q.op = "message" => ~bar.box]_vars
===============================================================================
