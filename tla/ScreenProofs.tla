------------------------------ MODULE ScreenProofs ------------------------------
(* What the main window shows and what it asks the server for agree, for     *)
(* every number of rooms and messages, unless one of the upsets came.        *)
EXTENDS ClientScreen, FiniteSetTheorems, WellFoundedInduction, TLAPS

-------------------------------------------------------------------------------
(* The counters of a selection.                                             *)

LEMMA TallyEmpty == Tally({}) = NoCount
<1>1. {} \cap Own = {} /\ {} \ Own = {} /\ {} \cap NotEdit = {}
  OBVIOUS
<1>2. QED
  BY <1>1, FS_EmptySet DEF Tally, NoCount

\* The counters tell no message from some, and own messages from those of others.
LEMMA TallyFacts ==
  ASSUME NEW S, S \subseteq Msg
  PROVE  /\ Tally(S) \in [own : Nat, another : Nat, notedit : Nat, all : Nat]
         /\ Tally(S).all = Tally(S).own + Tally(S).another
         /\ Tally(S).all = Cardinality(S)
         /\ Tally(S).all = 0 <=> S = {}
         /\ Tally(S).all = 1 <=> \E m : S = {m}
         /\ Tally(S).another = 0 <=> S \subseteq Own
         /\ Tally(S).notedit = 0 <=> S \cap NotEdit = {}
<1>1. /\ IsFiniteSet(S) /\ IsFiniteSet(S \cap Own) /\ IsFiniteSet(S \ Own)
      /\ IsFiniteSet(S \cap NotEdit)
  BY MsgAssumption, FS_Subset
<1>2. /\ Cardinality(S) \in Nat /\ Cardinality(S \cap Own) \in Nat
      /\ Cardinality(S \ Own) \in Nat /\ Cardinality(S \cap NotEdit) \in Nat
  BY <1>1, FS_CardinalityType
<1>3. Cardinality(S) = Cardinality(S \cap Own) + Cardinality(S \ Own)
  <2> DEFINE A == S \cap Own
             B == S \ Own
  <2>1. A \cup B = S /\ A \cap B = {}
    OBVIOUS
  <2>2. /\ IsFiniteSet(A) /\ IsFiniteSet(B)
        /\ Cardinality(A) \in Nat /\ Cardinality(B) \in Nat
    BY <1>1, <1>2
  <2> HIDE DEF A, B
  <2>3. Cardinality(A \cup B) = Cardinality(A) + Cardinality(B) - Cardinality(A \cap B)
    BY <2>2, FS_Union
  <2>4. Cardinality({}) = 0
    BY FS_EmptySet
  <2>5. Cardinality(A \cup B) = Cardinality(S) /\ Cardinality(A \cap B) = 0
    BY <2>1, <2>4, Zenon
  <2>6. Cardinality(S) = Cardinality(A) + Cardinality(B)
    BY <2>2, <2>3, <2>5
  <2>7. QED
    BY <2>6 DEF A, B
<1>4. /\ Cardinality(S) = 0 <=> S = {}
      /\ Cardinality(S \ Own) = 0 <=> S \ Own = {}
      /\ Cardinality(S \cap NotEdit) = 0 <=> S \cap NotEdit = {}
  BY <1>1, FS_EmptySet
<1>5. Cardinality(S) = 1 <=> \E m : S = {m}
  BY <1>1, FS_Singleton
<1>6. S \ Own = {} <=> S \subseteq Own
  OBVIOUS
<1>7. QED
  BY <1>2, <1>3, <1>4, <1>5, <1>6 DEF Tally

\* One message more is counted where it belongs.
LEMMA TallyAdd ==
  ASSUME NEW S, S \subseteq Msg, NEW m \in Msg, m \notin S
  PROVE  /\ Tally(S) \in [own : Nat, another : Nat, notedit : Nat, all : Nat]
         /\ Tally(S).all = Tally(S).own + Tally(S).another
         /\ Tally(S \cup {m}).own = Tally(S).own + (IF m \in Own THEN 1 ELSE 0)
         /\ Tally(S \cup {m}).another = Tally(S).another + (IF m \in Own THEN 0 ELSE 1)
         /\ Tally(S \cup {m}).notedit = Tally(S).notedit + (IF m \in NotEdit THEN 1 ELSE 0)
         /\ Tally(S \cup {m}).all = Tally(S).all + 1
<1>1. /\ IsFiniteSet(S) /\ IsFiniteSet(S \cap Own) /\ IsFiniteSet(S \ Own)
      /\ IsFiniteSet(S \cap NotEdit)
  BY MsgAssumption, FS_Subset
<1>2. /\ Cardinality(S \cup {m}) = Cardinality(S) + 1
      /\ Cardinality((S \cap Own) \cup {m}) = Cardinality(S \cap Own) + 1
      /\ Cardinality((S \ Own) \cup {m}) = Cardinality(S \ Own) + 1
      /\ Cardinality((S \cap NotEdit) \cup {m}) = Cardinality(S \cap NotEdit) + 1
  BY <1>1, FS_AddElement
<1>3. \A X : /\ Tally(X).own = Cardinality(X \cap Own) /\ Tally(X).another = Cardinality(X \ Own)
             /\ Tally(X).notedit = Cardinality(X \cap NotEdit) /\ Tally(X).all = Cardinality(X)
  BY DEF Tally
<1>4. /\ Tally(S) \in [own : Nat, another : Nat, notedit : Nat, all : Nat]
      /\ Tally(S).all = Tally(S).own + Tally(S).another
  BY TallyFacts
<1>5. ASSUME m \in Own
      PROVE  /\ Tally(S \cup {m}).own = Tally(S).own + 1
             /\ Tally(S \cup {m}).another = Tally(S).another
  <2>1. (S \cup {m}) \cap Own = (S \cap Own) \cup {m} /\ (S \cup {m}) \ Own = S \ Own
    BY <1>5
  <2>2. QED
    BY <1>2, <1>3, <2>1, Zenon
<1>6. ASSUME m \notin Own
      PROVE  /\ Tally(S \cup {m}).own = Tally(S).own
             /\ Tally(S \cup {m}).another = Tally(S).another + 1
  <2>1. (S \cup {m}) \cap Own = S \cap Own /\ (S \cup {m}) \ Own = (S \ Own) \cup {m}
    BY <1>6
  <2>2. QED
    BY <1>2, <1>3, <2>1, Zenon
<1>7. ASSUME m \in NotEdit PROVE Tally(S \cup {m}).notedit = Tally(S).notedit + 1
  <2>1. (S \cup {m}) \cap NotEdit = (S \cap NotEdit) \cup {m}
    BY <1>7
  <2>2. QED
    BY <1>2, <1>3, <2>1, Zenon
<1>8. ASSUME m \notin NotEdit PROVE Tally(S \cup {m}).notedit = Tally(S).notedit
  <2>1. (S \cup {m}) \cap NotEdit = S \cap NotEdit
    BY <1>8
  <2>2. QED
    BY <1>3, <2>1, Zenon
<1>9. Tally(S \cup {m}).all = Tally(S).all + 1
  BY <1>2, <1>3, Zenon
<1>10. QED
  BY <1>4, <1>5, <1>6, <1>7, <1>8, <1>9

\* select_row and unselect_row keep the counters in step with the selection.
LEMMA TallySelect ==
  ASSUME NEW m \in Msg, selected \subseteq Msg, count = Tally(selected)
  PROVE  /\ m \notin selected => Counted(m, 1) = Tally(selected \cup {m})
         /\ m \in selected => Counted(m, -1) = Tally(selected \ {m})
<1>1. \A X : Tally(X) = [own |-> Tally(X).own, another |-> Tally(X).another,
                         notedit |-> Tally(X).notedit, all |-> Tally(X).all]
  BY DEF Tally
<1>2. ASSUME NEW S, NEW T, S \subseteq Msg, m \notin S, T = S \cup {m}
      PROVE  /\ Tally(S) \in [own : Nat, another : Nat, notedit : Nat, all : Nat]
             /\ Tally(S).all = Tally(S).own + Tally(S).another
             /\ Tally(T).own = Tally(S).own + (IF m \in Own THEN 1 ELSE 0)
             /\ Tally(T).another = Tally(S).another + (IF m \in Own THEN 0 ELSE 1)
             /\ Tally(T).notedit = Tally(S).notedit + (IF m \in NotEdit THEN 1 ELSE 0)
             /\ Tally(T).all = Tally(S).all + 1
  BY <1>2, TallyAdd, Zenon
<1>3. ASSUME m \notin selected PROVE Counted(m, 1) = Tally(selected \cup {m})
  <2> DEFINE T == selected \cup {m}
  <2> HIDE DEF T
  <2>1. T = selected \cup {m}
    BY DEF T
  <2>2. Counted(m, 1) = Tally(T)
    BY <1>1, <1>2, <1>3, <2>1 DEF Counted
  <2>3. QED
    BY <2>2 DEF T
<1>4. ASSUME m \in selected PROVE Counted(m, -1) = Tally(selected \ {m})
  <2> DEFINE S == selected \ {m}
  <2>1. selected = S \cup {m} /\ S \subseteq Msg /\ m \notin S
    BY <1>4
  <2> HIDE DEF S
  <2>2. Counted(m, -1) = Tally(S)
    BY <1>1, <1>2, <2>1 DEF Counted
  <2>3. QED
    BY <2>2 DEF S
<1>5. QED
  BY <1>3, <1>4

-------------------------------------------------------------------------------
(* The field.                                                               *)

Entry == [text : Draft, focus : BOOLEAN, prompt : BOOLEAN]

LEMMA Drafts ==
  /\ {Nothing, Blank, Prompt} \subseteq Draft
  /\ \A r \in Room : Typed(r) \in Draft
  /\ \A m \in Msg : Copy(m) \in Draft
  /\ \A t \in Draft : /\ t.kind = "none" <=> t = Nothing
                      /\ t.kind = "blank" <=> t = Blank
                      /\ t.kind = "prompt" <=> t = Prompt
                      /\ t.kind = "typed" => t.of \in Room
                      /\ t.kind = "copy" => t.of \in Msg
  /\ \A x : Typed(x).kind = "typed" /\ Typed(x).of = x /\ Copy(x).kind = "copy" /\ Copy(x).of = x
  /\ Nothing.kind = "none" /\ Blank.kind = "blank" /\ Prompt.kind = "prompt"
<1>1. \A t \in Draft : \/ t \in {Nothing, Blank, Prompt}
                       \/ \E r \in Room : t = Typed(r)
                       \/ \E m \in Msg : t = Copy(m)
  BY DEF Draft
<1>2. /\ \A x : Typed(x).kind = "typed" /\ Typed(x).of = x /\ Copy(x).kind = "copy" /\ Copy(x).of = x
      /\ Nothing.kind = "none" /\ Blank.kind = "blank" /\ Prompt.kind = "prompt"
  BY DEF Nothing, Blank, Prompt, Typed, Copy
<1>3. \A t \in Draft : /\ t.kind = "none" <=> t = Nothing
                       /\ t.kind = "blank" <=> t = Blank
                       /\ t.kind = "prompt" <=> t = Prompt
                       /\ t.kind = "typed" => t.of \in Room
                       /\ t.kind = "copy" => t.of \in Msg
  BY <1>1, <1>2
<1>4. QED
  BY <1>2, <1>3 DEF Draft

LEMMA Fields ==
  ASSUME NEW e \in Entry
  PROVE  /\ Emptied(e) \in Entry /\ Focused(e) \in Entry /\ Blurred(e) \in Entry
         /\ Emptied(e).text = Nothing /\ Emptied(e).focus = e.focus /\ Emptied(e).prompt = e.prompt
         /\ Focused(e).focus /\ ~Focused(e).prompt
         /\ Focused(e).text = IF e.prompt THEN Nothing ELSE e.text
         /\ ~Blurred(e).focus
         /\ Blurred(e).text = IF e.focus /\ e.text = Nothing THEN Prompt ELSE e.text
         /\ Blurred(e).prompt <=> e.prompt \/ (e.focus /\ e.text = Nothing)
<1>1. Nothing \in Draft /\ Prompt \in Draft
  BY Drafts
<1>2. /\ Emptied(e) \in Entry
      /\ Emptied(e).text = Nothing /\ Emptied(e).focus = e.focus /\ Emptied(e).prompt = e.prompt
  BY <1>1 DEF Entry, Emptied
<1>3. /\ Focused(e) \in Entry /\ Focused(e).focus /\ ~Focused(e).prompt
      /\ Focused(e).text = IF e.prompt THEN Nothing ELSE e.text
  BY <1>1 DEF Entry, Focused
<1>4. CASE e.focus /\ e.text = Nothing
  BY <1>1, <1>2, <1>3, <1>4 DEF Entry, Blurred
<1>5. CASE ~(e.focus /\ e.text = Nothing)
  BY <1>1, <1>2, <1>3, <1>5 DEF Entry, Blurred
<1>6. QED
  BY <1>4, <1>5

-------------------------------------------------------------------------------
(* What holds whatever came: types, the selection, the placeholder.         *)

PromptMarked == entry.text = Prompt => entry.prompt /\ ~entry.focus

Basic == TypeOK /\ SelectionIsShown /\ (shown => current # None) /\ PromptMarked

\* The message to edit is one of those selected.
LEMMA TargetSelected ==
  ASSUME Basic
  PROVE  /\ Target \in Msg \cup {None}
         /\ Target # None => Target \in selected /\ RoomOf[Target] = current
         /\ Target = None => count.all # 1 \/ selected = {}
         /\ \A m : selected = {m} /\ count.all = 1 => Target = m
<1> DEFINE here == selected \cap OfRoom(current)
<1>1. here \subseteq Msg /\ here \subseteq Nat /\ here = selected
  BY MsgAssumption DEF Basic, TypeOK, SelectionIsShown, OfRoom
<1>2. ASSUME here # {} PROVE Min(here) \in here
  <2>1. PICK x \in here : \A y \in here : ~(<<y, x>> \in OpToRel(<, Nat))
    BY <1>1, <1>2, NatLessThanWellFounded, WFMin
  <2>2. \A y \in here : ~(y < x)
    BY <1>1, <2>1, Zenon DEF OpToRel
  <2>3. \A y \in here : x <= y
    BY <1>1, <2>2
  <2>4. QED
    BY <2>1, <2>3, Zenon DEF Min
<1>3. Target = IF count.all = 1 /\ here # {} THEN Min(here) ELSE None
  BY DEF Target
<1>4. \A m \in here : m \in selected /\ RoomOf[m] = current /\ m # None
  BY MsgAssumption, <1>1 DEF OfRoom
<1> HIDE DEF here
<1>5. \A m : selected = {m} => m \in here /\ \A n \in here : n = m
  BY <1>1
<1>6. QED
  BY <1>1, <1>2, <1>3, <1>4, <1>5

LEMMA Counters ==
  /\ NoCount \in [{"own", "another", "notedit", "all"} -> Int]
  /\ count \in [{"own", "another", "notedit", "all"} -> Int]
       => \A m, d : d \in Int => Counted(m, d) \in [{"own", "another", "notedit", "all"} -> Int]
<1>1. NoCount \in [{"own", "another", "notedit", "all"} -> Int]
  BY DEF NoCount
<1>2. ASSUME count \in [{"own", "another", "notedit", "all"} -> Int], NEW m, NEW d \in Int
      PROVE  Counted(m, d) \in [{"own", "another", "notedit", "all"} -> Int]
  BY <1>2 DEF Counted
<1>3. QED
  BY <1>1, <1>2

LEMMA BasicInit == Init => Basic
<1> SUFFICES ASSUME Init PROVE Basic
  OBVIOUS
<1> USE DEF Init
<1>1. TypeOK
  <2>1. /\ alive \in BOOLEAN /\ listed \subseteq Room /\ current \in listed \cup {None}
        /\ shown \in BOOLEAN /\ rows \subseteq {m \in Msg : RoomOf[m] \in listed}
        /\ selected \subseteq Msg /\ out \subseteq {} /\ upset \subseteq {}
    OBVIOUS
  <2>2. count \in [{"own", "another", "notedit", "all"} -> Int]
    BY Counters
  <2>3. /\ header \in [page : {"room", "message"}, edit : BOOLEAN, delete : BOOLEAN]
        /\ bar \in [box : BOOLEAN, apply : BOOLEAN, send : BOOLEAN, label : Msg \cup {None}]
        /\ pending \in [kind : {"none", "file", "settings", "search"}, room : Room \cup {None}]
    BY DEF Closed, Idle
  <2>4. entry \in [text : Draft, focus : BOOLEAN, prompt : BOOLEAN]
    BY Drafts
  <2>5. QED
    BY <2>1, <2>2, <2>3, <2>4 DEF TypeOK
<1>2. SelectionIsShown /\ (shown => current # None) /\ PromptMarked
  BY DEF SelectionIsShown, PromptMarked
<1>3. QED
  BY <1>1, <1>2 DEF Basic

\* The field after a step.
Fills(t) == entry' = [entry EXCEPT !.text = t]

LEMMA FieldStep ==
  ASSUME Basic,
         \/ entry' \in {entry, Emptied(entry), Focused(entry), Focused(Emptied(entry)), Blurred(entry)}
         \/ \E t \in Draft \ {Prompt} : Fills(t) \/ entry' = [text |-> t, focus |-> TRUE, prompt |-> FALSE]
  PROVE  entry' \in [text : Draft, focus : BOOLEAN, prompt : BOOLEAN] /\ PromptMarked'
<1>1. entry \in Entry /\ Nothing # Prompt
  BY Drafts DEF Basic, TypeOK, Entry
<1>2. CASE entry' \in {entry, Emptied(entry), Focused(entry), Focused(Emptied(entry)), Blurred(entry)}
  <2>1. entry' \in Entry
    BY <1>1, <1>2, Fields
  <2>2. ASSUME entry'.text = Prompt PROVE entry'.prompt /\ ~entry'.focus
    <3>1. CASE entry' = entry
      BY <2>2, <3>1 DEF Basic, PromptMarked
    <3>2. CASE entry' = Focused(entry)
      BY <1>1, <2>2, <3>2, Fields DEF Basic, PromptMarked
    <3>3. CASE entry' = Blurred(entry)
      BY <1>1, <2>2, <3>3, Fields DEF Basic, PromptMarked
    <3>4. CASE entry' \in {Emptied(entry), Focused(Emptied(entry))}
      BY <1>1, <2>2, <3>4, Fields
    <3>5. QED
      BY <1>2, <3>1, <3>2, <3>3, <3>4
  <2>3. QED
    BY <2>1, <2>2 DEF Entry, PromptMarked
<1>3. ASSUME NEW t \in Draft \ {Prompt},
             Fills(t) \/ entry' = [text |-> t, focus |-> TRUE, prompt |-> FALSE]
      PROVE  entry' \in Entry /\ entry'.text = t
  <2>1. CASE Fills(t)
    BY <1>1, <2>1 DEF Fills, Entry
  <2>2. CASE entry' = [text |-> t, focus |-> TRUE, prompt |-> FALSE]
    BY <1>1, <2>2 DEF Entry
  <2>3. QED
    BY <1>3, <2>1, <2>2
<1>4. CASE \E t \in Draft \ {Prompt} : Fills(t) \/ entry' = [text |-> t, focus |-> TRUE, prompt |-> FALSE]
  <2>1. PICK t \in Draft \ {Prompt} : Fills(t) \/ entry' = [text |-> t, focus |-> TRUE, prompt |-> FALSE]
    BY <1>4
  <2>2. entry' \in Entry /\ entry'.text = t
    BY <1>3, <2>1
  <2>3. QED
    BY <2>2 DEF Entry, PromptMarked
<1>5. QED
  BY <1>2, <1>4

-------------------------------------------------------------------------------
(* What a step does to the window: most handlers have one of a few effects. *)

\* Nothing of what the window shows of the open room changes.
Stays ==
  /\ alive' = alive /\ upset' = upset
  /\ current' = current /\ shown' = shown /\ selected' = selected /\ count' = count
  /\ header' = header /\ bar' = bar /\ entry' = entry /\ pending' = pending

\* reset_room_message and what is like it, for the open room.
Resets ==
  /\ alive' = alive /\ upset' = upset
  /\ current # None /\ current' = current /\ shown' = shown
  /\ selected' = {} /\ count' = NoCount /\ bar' = Closed
  /\ header' = [header EXCEPT !.page = "room"]
  /\ pending' \in {pending, Idle}
  /\ entry' = Emptied(entry) \/ \E t \in {Nothing, Blank} : Fills(t)

\* The server deletes or edits a message.
Loses ==
  /\ alive' = alive
  /\ upset' = IF header'.page = "message" THEN upset \cup {"messages"} ELSE upset
  /\ current # None /\ current' = current /\ shown' = shown
  /\ selected' = {} /\ count' = NoCount /\ bar' = Closed
  /\ header' \in {header, [header EXCEPT !.page = "room"]}
  /\ pending' = pending /\ entry' = Emptied(entry)

\* The user writes.
Writes ==
  /\ alive' = alive /\ upset' = upset
  /\ current' = current /\ shown' = shown /\ selected' = selected /\ count' = count
  /\ header' = header /\ bar' = bar /\ pending' = pending
  /\ Type \/ entry' = Focused(entry)

\* The user turns to something else.
Leaves ==
  /\ alive' = alive /\ Leave("left")
  /\ current' = current /\ shown' = shown /\ selected' = selected /\ count' = count
  /\ header' = header /\ bar' = bar
  /\ \/ pending' = pending
     \/ /\ pending' \in [kind : {"file", "settings", "search"}, room : {current}]
        /\ pending'.kind = "settings" => current \in Mine
        /\ current # None

\* A dialog closes.
Closes ==
  /\ alive' = alive /\ upset' = upset
  /\ current' = current /\ shown' = shown /\ selected' = selected /\ count' = count
  /\ header' = header /\ bar' = bar /\ entry' = entry /\ pending' = Idle

\* An editing is applied.
Applies ==
  /\ alive' = alive /\ upset' = upset
  /\ current' = current /\ shown' = shown /\ selected' = selected /\ count' = count
  /\ shown /\ (bar.apply \/ bar.box) /\ Target # None
  /\ header' \in {header, [header EXCEPT !.page = "message"]}
  /\ bar' = Closed /\ pending' = pending
  /\ \E t \in {Nothing, Blank} : Fills(t)

\* The open room ends.
Ends ==
  /\ alive' = alive
  /\ upset' = IF \/ entry.text.kind \in {"typed", "copy"}
                 \/ bar.apply \/ pending # Idle
                THEN upset \cup {"ended"} ELSE upset
  /\ current' = None /\ shown' = FALSE /\ selected' = {} /\ count' = NoCount
  /\ header' = header /\ bar' = HideBox(bar) /\ entry' = Blurred(entry) /\ pending' = pending

\* A handler goes by a room or a message that is not there.
Dangles ==
  /\ upset' = upset
  /\ current' = current /\ shown' = shown /\ selected' = selected /\ count' = count
  /\ header' = header /\ bar' = bar /\ entry' = entry /\ pending' = pending
  /\ \/ shown /\ Target = None /\ (bar.apply \/ bar.box)
     \/ shown /\ Target = None /\ header.page = "message" /\ header.edit
     \/ current = None /\ pending # Idle

\* btn_edit_msg, over the one message that is selected.
ShowsEdit == ShowEditMsg /\ Target # None

LEMMA ShowsEditDoes ==
  ASSUME ShowsEdit
  PROVE  /\ shown /\ header.page = "message" /\ header.edit /\ Target # None
         /\ alive' = alive /\ upset' = upset
         /\ current' = current /\ shown' = shown /\ selected' = selected /\ count' = count
         /\ header' = [header EXCEPT !.page = "room"] /\ pending' = pending
         /\ entry' = [text |-> Copy(Target), focus |-> TRUE, prompt |-> FALSE]
         /\ bar' = [box |-> ~bar.box, apply |-> ~bar.apply, send |-> ~bar.send,
                    label |-> IF bar.box THEN None ELSE Target]
BY DEF ShowsEdit, ShowEditMsg, InRoom, ShowPage, Fine

LEMMA CrashStays ==
  ASSUME Crash
  PROVE  /\ upset' = upset /\ current' = current /\ shown' = shown /\ selected' = selected
         /\ count' = count /\ header' = header /\ bar' = bar /\ entry' = entry
         /\ pending' = pending
BY DEF Crash, screen

LEMMA EditDoes ==
  ASSUME Basic, shown, bar.apply \/ bar.box, NEW t \in {Nothing, Blank}, EditMessage(t)
  PROVE  Applies \/ Dangles
<1>1. CASE Target = None
  <2>1. Crash
    BY <1>1 DEF EditMessage
  <2>2. QED
    BY <1>1, <2>1, CrashStays DEF Dangles
<1>2. CASE Target # None
  BY <1>2 DEF EditMessage, Applies, Fills, Fine, ShowPage
<1>3. QED
  BY <1>1, <1>2

LEMMA Effects ==
  ASSUME Basic, [Next]_vars
  PROVE  \/ Stays \/ Resets \/ Loses \/ Writes \/ Leaves \/ Closes \/ Applies \/ Ends \/ Dangles
         \/ \E r \in Room : SelectRoom(r) \/ ClearHistory(r)
         \/ \E m \in Msg : SelectMsg(m)
         \/ SearchRooms \/ ShowsEdit \/ CancelEdit \/ RoomSett
<1>1. /\ selected \ OfRoom(current) = {}
      /\ shown => current # None
      /\ current = None => selected = {}
      /\ current # None => current \in Room
      /\ header \in [page : {"room", "message"}, edit : BOOLEAN, delete : BOOLEAN]
  BY RoomAssumption, MsgAssumption DEF Basic, TypeOK, SelectionIsShown, OfRoom
<1>2. CASE UnselectMsg
  BY <1>1, <1>2 DEF UnselectMsg, InRoom, UnselectCurrent, ShowPage, Fine, Resets
<1>3. CASE DeleteSelectedMsgs
  BY <1>3 DEF DeleteSelectedMsgs, screen, Fine, Stays
<1>4. CASE ShowEditMsg
  <2>1. CASE Target = None
    <3>1. Crash /\ shown /\ header.page = "message" /\ header.edit
      BY <1>4, <2>1 DEF ShowEditMsg, InRoom
    <3>2. QED
      BY <2>1, <3>1, CrashStays DEF Dangles
  <2>2. QED
    BY <1>4, <2>1 DEF ShowsEdit
<1>5. CASE Type
  BY <1>5 DEF Type, Fine, Writes
<1>6. CASE FocusIn
  BY <1>6 DEF FocusIn, Fine, Writes
<1>7. CASE FocusOut
  BY <1>7 DEF FocusOut, Fine, Leaves
<1>8. CASE SendMessage
  BY <1>1, <1>8 DEF SendMessage, InRoom, ResetRoom, ShowPage, EndSearch, Fine, Resets
<1>9. CASE ApplyEdit
  BY <1>9, EditDoes DEF ApplyEdit, InRoom
<1>10. CASE Enter
  <2>1. PICK t \in {Nothing, Blank} :
          IF bar.box THEN EditMessage(t)
          ELSE /\ out' = Message
               /\ ShowPage("room")
               /\ selected' = selected \ OfRoom(current)
               /\ count' = NoCount /\ bar' = Closed /\ EndSearch
               /\ entry' = [entry EXCEPT !.text = t]
               /\ Fine /\ UNCHANGED <<listed, current, shown, rows, upset>>
    BY <1>10 DEF Enter
  <2>2. shown
    BY <1>10 DEF Enter, InRoom
  <2>3. CASE bar.box
    BY <2>1, <2>2, <2>3, EditDoes
  <2>4. CASE ~bar.box
    BY <1>1, <2>1, <2>2, <2>4 DEF ShowPage, EndSearch, Fine, Fills, Resets
  <2>5. QED
    BY <2>3, <2>4
<1>11. CASE SendSticker
  BY <1>1, <1>11 DEF SendSticker, InRoom, ResetRoom, ShowPage, EndSearch, Fine, Resets
<1>12. ASSUME NEW kind \in {"file", "settings"}, OpenDialog(kind) PROVE Leaves
  BY <1>1, <1>12 DEF OpenDialog, InRoom, Fine, Leaves
<1>13. CASE CloseDialog
  BY <1>13 DEF CloseDialog, Fine, Closes
<1>14. CASE OpenFile
  <2>1. CASE current = None
    <3>1. Crash /\ pending # Idle
      BY <1>14, <2>1 DEF OpenFile, Idle
    <3>2. QED
      BY <2>1, <3>1, CrashStays DEF Dangles
  <2>2. CASE current # None
    BY <1>1, <1>14, <2>2 DEF OpenFile, UnselectCurrent, ShowPage, Fine, Resets
  <2>3. QED
    BY <2>1, <2>2
<1>15. CASE ConfirmSettings
  <2>1. CASE current = None
    <3>1. Crash /\ pending # Idle
      BY <1>15, <2>1 DEF ConfirmSettings, Idle
    <3>2. QED
      BY <2>1, <3>1, CrashStays DEF Dangles
  <2>2. CASE current # None
    BY <1>15, <2>2 DEF ConfirmSettings, Fine, Closes
  <2>3. QED
    BY <2>1, <2>2
<1>16. CASE TypeSearch
  BY <1>1, <1>16 DEF TypeSearch, InRoom, Fine, Leaves
<1>17. CASE SearchMsg
  <2>1. CASE current = None
    <3>1. Crash /\ pending # Idle
      BY <1>17, <2>1 DEF SearchMsg, Idle
    <3>2. QED
      BY <2>1, <3>1, CrashStays DEF Dangles
  <2>2. CASE current # None
    BY <1>1, <1>17, <2>2 DEF SearchMsg, ResetRoom, ShowPage, EndSearch, Fine, Resets
  <2>3. QED
    BY <2>1, <2>2
<1>18. CASE ReachBottom
  BY <1>1, <1>18 DEF ReachBottom, ResetRoom, ShowPage, EndSearch, Fine, Resets
<1>19. ASSUME NEW r \in Room, NewRoom(r) PROVE Stays
  BY <1>19 DEF NewRoom, Fine, Stays
<1>20. ASSUME NEW gone, EndRooms(gone) PROVE Stays \/ Ends
  <2>1. CASE current \in gone
    <3>1. selected \ {m \in Msg : RoomOf[m] \in gone} = {}
      BY <1>1, <2>1 DEF OfRoom
    <3>2. QED
      BY <1>20, <2>1, <3>1 DEF EndRooms, Fine, Ends
  <2>2. CASE current \notin gone
    <3>1. selected \ {m \in Msg : RoomOf[m] \in gone} = selected
      BY <1>1, <2>2 DEF OfRoom
    <3>2. QED
      BY <1>20, <2>2, <3>1 DEF EndRooms, Fine, Stays
  <2>3. QED
    BY <2>1, <2>2
<1>21. ASSUME NEW m \in Msg, AddMessageRow(m) PROVE Stays
  BY <1>21 DEF AddMessageRow, Fine, Stays
<1>22. ASSUME NEW m \in Msg, DelMsg(m) PROVE Stays \/ Loses
  <2>1. header' = IF m \in selected THEN [header EXCEPT !.page = "room"] ELSE header
    BY <1>1, <1>22 DEF DelMsg
  <2>2. CASE current = None
    BY <1>1, <1>22, <2>1, <2>2 DEF DelMsg, Fine, Stays
  <2>3. CASE current # None
    BY <1>1, <1>22, <2>1, <2>3 DEF DelMsg, UnselectCurrent, Fine, Loses
  <2>4. QED
    BY <2>2, <2>3
<1>23. ASSUME NEW m \in Msg, MsgText(m) PROVE Stays \/ Loses
  <2>1. CASE current = None
    BY <1>1, <1>23, <2>1 DEF MsgText, UnselectCurrent, Fine, Stays
  <2>2. CASE current # None
    BY <1>1, <1>23, <2>2 DEF MsgText, UnselectCurrent, Fine, Loses
  <2>3. QED
    BY <2>1, <2>2
<1>24. CASE UNCHANGED vars
  BY <1>24 DEF vars, Stays
<1>25. QED
  BY <1>2, <1>3, <1>4, <1>5, <1>6, <1>7, <1>8, <1>9, <1>10, <1>11, <1>12, <1>13, <1>14, <1>15,
     <1>16, <1>17, <1>18, <1>19, <1>20, <1>21, <1>22, <1>23, <1>24
     DEF Next, UserStep, ServerStep, EndRoom, LogOut

-------------------------------------------------------------------------------
(* What holds whatever came is kept.                                        *)

Records ==
  /\ count \in [{"own", "another", "notedit", "all"} -> Int]
  /\ header \in [page : {"room", "message"}, edit : BOOLEAN, delete : BOOLEAN]
  /\ bar \in [box : BOOLEAN, apply : BOOLEAN, send : BOOLEAN, label : Msg \cup {None}]
  /\ pending \in [kind : {"none", "file", "settings", "search"}, room : Room \cup {None}]
  /\ upset \subseteq {"settings", "messages", "ended", "left"}

LEMMA RecordShapes ==
  ASSUME Records,
         count' \in {count, NoCount},
         header' = header \/ \E p \in {"room", "message"} : header' = [header EXCEPT !.page = p],
         bar' \in {bar, Closed, HideBox(bar)},
         pending' \in {pending, Idle},
         upset' \subseteq upset \cup {"settings", "messages", "ended", "left"}
  PROVE  Records'
<1>1. count' \in [{"own", "another", "notedit", "all"} -> Int]
  BY Counters DEF Records
<1>2. header' \in [page : {"room", "message"}, edit : BOOLEAN, delete : BOOLEAN]
  BY DEF Records
<1>3. /\ Closed \in [box : BOOLEAN, apply : BOOLEAN, send : BOOLEAN, label : Msg \cup {None}]
      /\ HideBox(bar) \in [box : BOOLEAN, apply : BOOLEAN, send : BOOLEAN, label : Msg \cup {None}]
  BY DEF Records, Closed, HideBox
<1>4. pending' \in [kind : {"none", "file", "settings", "search"}, room : Room \cup {None}]
  BY DEF Records, Idle
<1>5. QED
  BY <1>1, <1>2, <1>3, <1>4 DEF Records

LEMMA RecordsStep ==
  ASSUME Basic, [Next]_vars
  PROVE  Records'
<1>1. Records /\ current \in Room \cup {None} /\ Target \in Msg \cup {None}
  BY TargetSelected DEF Basic, TypeOK, Records
<1>2. CASE Stays \/ Resets \/ Loses \/ Writes \/ Closes \/ Applies \/ Ends \/ Dangles
  BY <1>1, <1>2, RecordShapes DEF Stays, Resets, Loses, Writes, Closes, Applies, Ends, Dangles
<1>3. CASE Leaves
  <2>1. count' = count /\ header' = header /\ bar' = bar /\ upset' \subseteq upset \cup {"left"}
    BY <1>3 DEF Leaves, Leave
  <2>2. pending' \in [kind : {"none", "file", "settings", "search"}, room : Room \cup {None}]
    BY <1>1, <1>3 DEF Leaves, Records
  <2>3. QED
    BY <1>1, <2>1, <2>2 DEF Records
<1>4. ASSUME NEW r \in Room, SelectRoom(r) PROVE Records'
  BY <1>1, <1>4, Counters DEF Records, SelectRoom, Closed, Idle
<1>5. ASSUME NEW r \in Room, ClearHistory(r) PROVE Records'
  BY <1>1, <1>5, RecordShapes DEF ClearHistory
<1>6. ASSUME NEW m \in Msg, SelectMsg(m) PROVE Records'
  <2>1. count' \in {Counted(m, 1), Counted(m, -1)} /\ header' = HeaderFor(count')
    BY <1>6 DEF SelectMsg
  <2>2. header' \in [page : {"room", "message"}, edit : BOOLEAN, delete : BOOLEAN]
    BY <1>1, <2>1 DEF Records, HeaderFor, MayEdit, MayDelete
  <2>3. QED
    BY <1>1, <1>6, <2>1, <2>2, Counters DEF Records, SelectMsg
<1>7. CASE SearchRooms
  BY <1>1, <1>7, RecordShapes DEF SearchRooms, Leave
<1>8. CASE ShowsEdit
  <2>1. header' \in [page : {"room", "message"}, edit : BOOLEAN, delete : BOOLEAN]
    BY <1>1, <1>8, ShowsEditDoes DEF Records
  <2>2. PICK l \in Msg \cup {None} :
          bar' = [box |-> ~bar.box, apply |-> ~bar.apply, send |-> ~bar.send, label |-> l]
    BY <1>1, <1>8, ShowsEditDoes
  <2>3. bar' \in [box : BOOLEAN, apply : BOOLEAN, send : BOOLEAN, label : Msg \cup {None}]
    BY <2>2
  <2>4. QED
    BY <1>1, <1>8, <2>1, <2>3, ShowsEditDoes DEF Records
<1>9. CASE CancelEdit
  BY <1>1, <1>9, RecordShapes DEF CancelEdit, ShowPage
<1>10. CASE RoomSett
  BY <1>1, <1>10, RecordShapes DEF RoomSett
<1>11. QED
  BY <1>2, <1>3, <1>4, <1>5, <1>6, <1>7, <1>8, <1>9, <1>10, Effects

LEMMA EntryStep ==
  ASSUME Basic, [Next]_vars
  PROVE  entry' \in [text : Draft, focus : BOOLEAN, prompt : BOOLEAN] /\ PromptMarked'
<1> DEFINE Old == entry' \in {entry, Emptied(entry), Focused(entry), Focused(Emptied(entry)),
                              Blurred(entry)}
           New == \E t \in Draft \ {Prompt} :
                    Fills(t) \/ entry' = [text |-> t, focus |-> TRUE, prompt |-> FALSE]
<1>1. Nothing \in Draft \ {Prompt} /\ Blank \in Draft \ {Prompt}
  BY Drafts
<1>2. CASE Stays \/ Resets \/ Loses \/ Leaves \/ Closes \/ Applies \/ Ends \/ Dangles
  <2>1. Old \/ New
    BY <1>1, <1>2 DEF Stays, Resets, Loses, Leaves, Leave, Closes, Applies, Ends, Dangles
  <2>2. QED
    BY <2>1, FieldStep
<1>3. CASE Writes
  <2>1. CASE Type
    <3> DEFINE t == entry.text
               start == CASE t.kind = "typed" -> t.of
                          [] t.kind = "copy" -> RoomOf[t.of]
                          [] OTHER -> current
    <3>1. t \in Draft /\ current \in Room
      BY <2>1, RoomAssumption DEF Basic, TypeOK, Type, InRoom
    <3>2. start \in Room
      BY <3>1, Drafts, MsgAssumption
    <3>3. Typed(start) \in Draft \ {Prompt}
      BY <3>2, Drafts
    <3>4. \E next \in {Nothing, Blank, Typed(start)} : Fills(next)
      BY <2>1 DEF Type, Fills
    <3> HIDE DEF start
    <3>5. New
      BY <1>1, <3>3, <3>4
    <3>6. QED
      BY <3>5, FieldStep
  <2>2. QED
    BY <1>3, <2>1, FieldStep DEF Writes
<1>4. ASSUME NEW r \in Room, SelectRoom(r) \/ ClearHistory(r) PROVE Old
  BY <1>4 DEF SelectRoom, ClearHistory
<1>5. ASSUME NEW m \in Msg, SelectMsg(m) PROVE Old
  BY <1>5 DEF SelectMsg
<1>6. CASE SearchRooms \/ CancelEdit \/ RoomSett
  BY <1>6, FieldStep DEF SearchRooms, Leave, CancelEdit, RoomSett
<1>7. CASE ShowsEdit
  <2>1. Target \in Msg
    BY <1>7, TargetSelected DEF ShowsEdit
  <2>2. Copy(Target) \in Draft \ {Prompt}
    BY <2>1, Drafts
  <2>3. entry' = [text |-> Copy(Target), focus |-> TRUE, prompt |-> FALSE]
    BY <1>7, ShowsEditDoes
  <2>4. QED
    BY <2>2, <2>3, FieldStep
<1>8. QED
  BY <1>2, <1>3, <1>4, <1>5, <1>6, <1>7, Effects, FieldStep

Sets ==
  /\ alive \in BOOLEAN /\ listed \subseteq Room /\ current \in listed \cup {None}
  /\ shown \in BOOLEAN /\ rows \subseteq {m \in Msg : RoomOf[m] \in listed}
  /\ selected \subseteq rows /\ selected \subseteq OfRoom(current)
  /\ shown => current # None

LEMMA SetsStep ==
  ASSUME Basic, [Next]_vars
  PROVE  Sets'
<1>1. Sets /\ None \notin Room
  BY RoomAssumption DEF Basic, TypeOK, SelectionIsShown, Sets
<1>2. ASSUME listed' = listed, current' = current, rows' = rows, selected' \subseteq selected,
             shown' = shown \/ shown' = FALSE, alive' = alive \/ alive' = FALSE
      PROVE  Sets'
  <2>1. /\ listed' \subseteq Room /\ current' \in listed' \cup {None}
        /\ rows' \subseteq {m \in Msg : RoomOf[m] \in listed'}
        /\ selected' \subseteq rows' /\ selected' \subseteq OfRoom(current')
    BY <1>1, <1>2 DEF Sets, OfRoom
  <2>2. alive' \in BOOLEAN
    BY <1>1, <1>2 DEF Sets
  <2>3. shown' \in BOOLEAN
    BY <1>1, <1>2 DEF Sets
  <2>4. shown' => current' # None
    BY <1>1, <1>2 DEF Sets
  <2>5. QED
    BY <2>1, <2>2, <2>3, <2>4 DEF Sets, OfRoom
<1>3. SUFFICES ASSUME ~Crash PROVE Sets'
  <2>1. CASE Crash
    <3>1. /\ listed' = listed /\ current' = current /\ rows' = rows /\ selected' = selected
          /\ shown' = shown /\ alive' = FALSE
      BY <2>1 DEF Crash, screen
    <3>2. QED
      BY <1>2, <3>1
  <2>2. QED
    BY <2>1
<1>4. ASSUME NEW r \in Room, SelectRoom(r) PROVE Sets'
  <2>1. selected \ OfRoom(current) = {}
    BY <1>1 DEF Sets
  <2>2. QED
    BY <1>1, <1>4, <2>1 DEF Sets, SelectRoom, Fine
<1>5. ASSUME NEW m \in Msg, SelectMsg(m) PROVE Sets'
  BY <1>1, <1>5 DEF Sets, OfRoom, SelectMsg, Fine
<1>6. CASE SearchRooms
  BY <1>2, <1>6 DEF SearchRooms, Fine
<1>7. CASE UnselectMsg
  BY <1>2, <1>7 DEF UnselectMsg, UnselectCurrent, Fine
<1>8. CASE DeleteSelectedMsgs
  BY <1>2, <1>8 DEF DeleteSelectedMsgs, screen, Fine
<1>9. CASE ShowEditMsg
  BY <1>2, <1>3, <1>9 DEF ShowEditMsg, Fine
<1>10. CASE CancelEdit \/ Type \/ FocusIn \/ FocusOut
  BY <1>2, <1>10 DEF CancelEdit, Type, FocusIn, FocusOut, Fine
<1>11. CASE SendMessage \/ SendSticker \/ SearchMsg
  BY <1>2, <1>3, <1>11 DEF SendMessage, SendSticker, SearchMsg, ResetRoom, Fine
<1>12. CASE ApplyEdit \/ Enter
  BY <1>2, <1>3, <1>12 DEF ApplyEdit, Enter, EditMessage, Fine
<1>13. ASSUME NEW kind \in {"file", "settings"}, OpenDialog(kind) PROVE Sets'
  BY <1>2, <1>13 DEF OpenDialog, Fine
<1>14. CASE CloseDialog \/ ConfirmSettings \/ TypeSearch
  BY <1>2, <1>3, <1>14 DEF CloseDialog, ConfirmSettings, TypeSearch, Fine
<1>15. CASE OpenFile
  BY <1>2, <1>3, <1>15 DEF OpenFile, UnselectCurrent, Fine
<1>16. CASE ReachBottom
  BY <1>1, <1>16 DEF Sets, OfRoom, ReachBottom, ResetRoom, Fine
<1>17. ASSUME NEW r \in Room, NewRoom(r) PROVE Sets'
  BY <1>1, <1>17 DEF Sets, OfRoom, NewRoom, Fine
<1>18. ASSUME NEW r \in Room, ClearHistory(r) PROVE Sets'
  BY <1>1, <1>18 DEF Sets, OfRoom, ClearHistory, Fine
<1>19. ASSUME NEW gone, EndRooms(gone) PROVE Sets'
  BY <1>1, <1>19 DEF Sets, OfRoom, EndRooms, Fine
<1>20. ASSUME NEW m \in Msg, AddMessageRow(m) PROVE Sets'
  BY <1>1, <1>20 DEF Sets, OfRoom, AddMessageRow, Fine
<1>21. ASSUME NEW m \in Msg, DelMsg(m) PROVE Sets'
  BY <1>1, <1>21 DEF Sets, OfRoom, DelMsg, UnselectCurrent, Fine
<1>22. ASSUME NEW m \in Msg, MsgText(m) PROVE Sets'
  BY <1>2, <1>22 DEF MsgText, UnselectCurrent, Fine
<1>23. CASE RoomSett \/ UNCHANGED vars
  BY <1>2, <1>23 DEF RoomSett, Fine, vars
<1>24. QED
  BY <1>4, <1>5, <1>6, <1>7, <1>8, <1>9, <1>10, <1>11, <1>12, <1>13, <1>14, <1>15, <1>16,
     <1>17, <1>18, <1>19, <1>20, <1>21, <1>22, <1>23
     DEF Next, UserStep, ServerStep, EndRoom, LogOut

\* Every request of a step, from what the window held before it.
LEMMA Asked ==
  ASSUME Basic, Next, NEW q \in out'
  PROVE  /\ current \in Room
         /\ \/ /\ q = Req("message", current, None, entry.text)
               /\ ~entry.prompt /\ (bar.send \/ ~bar.box)
            \/ /\ q = Req("edit", current, Target, entry.text)
               /\ Target # None /\ shown
               /\ bar.apply \/ (bar.box /\ entry.focus)
            \/ \E m \in selected : /\ q = Req("delete", current, m, Nothing)
                                   /\ header.page = "message" /\ header.delete
            \/ q = Req("rule", current, None, Nothing) /\ pending.kind = "settings"
            \/ \E op \in {"sticker", "file", "search"} : q = Req(op, current, None, Nothing)
<1>1. /\ shown => current # None
      /\ current # None => current \in Room
  BY DEF Basic, TypeOK
<1>2. ~Crash
  BY DEF Crash
<1>3. CASE DeleteSelectedMsgs
  BY <1>1, <1>3 DEF DeleteSelectedMsgs, InRoom
<1>4. CASE SendMessage
  BY <1>1, <1>4 DEF SendMessage, InRoom, Message
<1>5. CASE ApplyEdit
  BY <1>1, <1>2, <1>5 DEF ApplyEdit, InRoom, EditMessage
<1>6. CASE Enter
  <2>1. shown /\ entry.focus
    BY <1>6 DEF Enter, InRoom
  <2>2. CASE bar.box
    <3>1. \E left : EditMessage(left)
      BY <1>6, <2>2 DEF Enter
    <3>2. QED
      BY <1>1, <1>2, <2>1, <2>2, <3>1 DEF EditMessage
  <2>3. CASE ~bar.box
    <3>1. out' = Message
      BY <1>6, <2>3 DEF Enter
    <3>2. QED
      BY <1>1, <2>1, <2>3, <3>1 DEF Message
  <2>4. QED
    BY <2>2, <2>3
<1>7. CASE SendSticker
  BY <1>1, <1>7 DEF SendSticker, InRoom
<1>8. CASE OpenFile
  BY <1>1, <1>2, <1>8 DEF OpenFile
<1>9. CASE ConfirmSettings
  BY <1>1, <1>2, <1>9 DEF ConfirmSettings
<1>10. CASE SearchMsg
  BY <1>1, <1>2, <1>10 DEF SearchMsg
<1>11. CASE ShowEditMsg
  BY <1>2, <1>11 DEF ShowEditMsg
<1>12. CASE \/ \E r \in Room : SelectRoom(r) \/ NewRoom(r) \/ ClearHistory(r)
            \/ \E m \in Msg : SelectMsg(m) \/ AddMessageRow(m) \/ DelMsg(m) \/ MsgText(m)
            \/ \E gone : EndRooms(gone)
            \/ \E kind \in {"file", "settings"} : OpenDialog(kind)
  BY <1>12 DEF SelectRoom, NewRoom, ClearHistory, SelectMsg, AddMessageRow, DelMsg, MsgText,
               EndRooms, OpenDialog
<1>13. CASE \/ SearchRooms \/ UnselectMsg \/ CancelEdit \/ Type \/ FocusIn \/ FocusOut
            \/ CloseDialog \/ TypeSearch \/ ReachBottom \/ RoomSett
  BY <1>13 DEF SearchRooms, UnselectMsg, CancelEdit, Type, FocusIn, FocusOut, CloseDialog,
               TypeSearch, ReachBottom, RoomSett
<1>14. QED
  BY <1>3, <1>4, <1>5, <1>6, <1>7, <1>8, <1>9, <1>10, <1>11, <1>12, <1>13
     DEF Next, UserStep, ServerStep, EndRoom, LogOut

LEMMA RequestsStep ==
  ASSUME Basic, [Next]_vars
  PROVE  out' \subseteq [op : {"message", "edit", "delete", "sticker", "file", "rule", "search"},
                         room : Room, msg : Msg \cup {None}, text : Draft]
<1>1. CASE UNCHANGED vars
  BY <1>1 DEF Basic, TypeOK, vars
<1>2. ASSUME Next, NEW q \in out'
      PROVE  q \in [op : {"message", "edit", "delete", "sticker", "file", "rule", "search"},
                    room : Room, msg : Msg \cup {None}, text : Draft]
  <2>1. /\ Target \in Msg \cup {None} /\ entry.text \in Draft /\ Nothing \in Draft
        /\ selected \subseteq Msg
    BY TargetSelected, Drafts DEF Basic, TypeOK
  <2>2. QED
    BY <1>2, <2>1, Asked DEF Req
<1>3. QED
  BY <1>1, <1>2

LEMMA BasicStep == Basic /\ [Next]_vars => Basic'
<1> SUFFICES ASSUME Basic, [Next]_vars PROVE Basic'
  OBVIOUS
<1>1. selected' \subseteq Msg
  BY SetsStep DEF Sets
<1>2. TypeOK'
  BY <1>1, SetsStep, RecordsStep, EntryStep, RequestsStep DEF Sets, Records, TypeOK
<1>3. QED
  BY <1>2, SetsStep, EntryStep DEF Sets, Basic, SelectionIsShown

-------------------------------------------------------------------------------
(* What holds unless one of the upsets came.                                *)

\* The field's buttons: to apply stands where to send stood, from the moment an
\* editing begins; a search of rooms leaves it there, under a field that is hidden.
BarFits ==
  /\ bar.send <=> ~bar.apply
  /\ bar.box => bar.apply /\ shown
  /\ bar.apply => current # None /\ (bar.box \/ ~shown)

\* Over an editing, the header keeps the buttons it will show again: those of one
\* message of the user's own.
EditFits ==
  bar.box =>
    /\ bar.label \in Own \ NotEdit /\ selected = {bar.label}
    /\ header.page = "room" /\ header.edit /\ header.delete /\ ~entry.prompt
    /\ entry.text.kind = "copy" => entry.text.of = bar.label

\* What the user began elsewhere is about the room that is open.
PendingFits ==
  pending # Idle =>
    /\ current # None /\ pending.room = current
    /\ pending.kind = "settings" => current \in Mine

Calm == alive /\ ButtonsFit /\ BarFits /\ EditFits /\ PendingFits

Fits == CountsMatch /\ (upset = {} => Calm)

LEMMA UpsetsStay ==
  ASSUME Basic, [Next]_vars
  PROVE  upset \subseteq upset'
<1>1. CASE Stays \/ Resets \/ Loses \/ Writes \/ Leaves \/ Closes \/ Applies \/ Ends \/ Dangles
  BY <1>1 DEF Stays, Resets, Loses, Writes, Leaves, Leave, Closes, Applies, Ends, Dangles
<1>2. CASE SearchRooms \/ ShowsEdit \/ CancelEdit \/ RoomSett
  BY <1>2, ShowsEditDoes DEF SearchRooms, Leave, CancelEdit, RoomSett
<1>3. CASE \/ \E r \in Room : SelectRoom(r) \/ ClearHistory(r)
           \/ \E m \in Msg : SelectMsg(m)
  BY <1>3 DEF SelectRoom, ClearHistory, SelectMsg
<1>4. QED
  BY <1>1, <1>2, <1>3, Effects

LEMMA CountsStep ==
  ASSUME Basic, CountsMatch, [Next]_vars
  PROVE  CountsMatch'
<1> SUFFICES ASSUME upset' \cap {"settings", "messages"} = {} PROVE count' = Tally(selected')
  BY DEF CountsMatch, Tally
<1>1. count = Tally(selected) /\ selected \subseteq Msg /\ selected \subseteq OfRoom(current)
  BY UpsetsStay DEF CountsMatch, Basic, TypeOK, SelectionIsShown
<1>2. ASSUME selected' = selected, count' = count PROVE count' = Tally(selected')
  BY <1>1, <1>2
<1>3. ASSUME selected' = {}, count' = NoCount PROVE count' = Tally(selected')
  BY <1>3, TallyEmpty
<1>4. CASE Stays \/ Writes \/ Leaves \/ Closes \/ Applies \/ Dangles
  BY <1>2, <1>4 DEF Stays, Writes, Leaves, Closes, Applies, Dangles
<1>5. CASE Resets \/ Loses \/ Ends
  BY <1>3, <1>5 DEF Resets, Loses, Ends
<1>6. ASSUME NEW r \in Room, SelectRoom(r) PROVE count' = Tally(selected')
  BY <1>1, <1>3, <1>6 DEF SelectRoom
<1>7. ASSUME NEW r \in Room, ClearHistory(r) PROVE count' = Tally(selected')
  BY <1>2, <1>7 DEF ClearHistory
<1>8. ASSUME NEW m \in Msg, SelectMsg(m) PROVE count' = Tally(selected')
  BY <1>1, <1>8, TallySelect DEF SelectMsg
<1>9. CASE SearchRooms \/ ShowsEdit \/ CancelEdit
  BY <1>2, <1>9, ShowsEditDoes DEF SearchRooms, CancelEdit
<1>10. CASE RoomSett
  BY <1>3, <1>10 DEF RoomSett
<1>11. QED
  BY <1>4, <1>5, <1>6, <1>7, <1>8, <1>9, <1>10, Effects

\* While a message is edited, or could be, it is the one that is selected.
LEMMA EditedIsTarget ==
  ASSUME Basic, CountsMatch, Calm, upset = {}
  PROVE  /\ bar.box => Target = bar.label /\ bar.label # None
         /\ shown /\ header.page = "message" /\ header.edit
              => /\ selected = {Target} /\ Target \in Own \ NotEdit /\ header.delete
                 /\ ~bar.box /\ ~bar.apply /\ bar.send
<1>1. count = Tally(selected) /\ selected \subseteq Msg
  BY DEF CountsMatch, Basic, TypeOK
<1>2. ASSUME NEW m, selected = {m} PROVE Target = m /\ m # None
  <2>1. count.all = 1
    BY <1>1, <1>2, TallyFacts
  <2>2. QED
    BY <1>1, <1>2, <2>1, TargetSelected, MsgAssumption
<1>3. bar.box => Target = bar.label /\ bar.label # None
  BY <1>2 DEF Calm, EditFits
<1>4. ASSUME shown, header.page = "message", header.edit
      PROVE  /\ selected = {Target} /\ Target \in Own \ NotEdit /\ header.delete
             /\ ~bar.box /\ ~bar.apply /\ bar.send
  <2>1. /\ Cardinality(selected) = 1 /\ selected \subseteq Own \ NotEdit /\ header.delete
    BY <1>4 DEF Calm, ButtonsFit, Basic
  <2>2. PICK m : selected = {m}
    BY <1>1, <2>1, MsgAssumption, FS_Subset, FS_Singleton
  <2>3. ~bar.box /\ ~bar.apply /\ bar.send
    BY <1>4 DEF Calm, BarFits, EditFits
  <2>4. QED
    BY <1>2, <2>1, <2>2, <2>3
<1>5. QED
  BY <1>3, <1>4

LEMMA ButtonsStep ==
  ASSUME Basic, CountsMatch, Calm, upset = {}, upset' = {}, [Next]_vars
  PROVE  ButtonsFit'
<1> SUFFICES ASSUME header'.page = "message", current' # None
             PROVE  /\ selected' # {}
                    /\ header'.edit <=> Cardinality(selected') = 1 /\ selected' \subseteq Own \ NotEdit
                    /\ header'.delete <=> selected' \subseteq Own \/ current' \in Mine
  BY DEF ButtonsFit
<1>1. /\ header \in [page : {"room", "message"}, edit : BOOLEAN, delete : BOOLEAN]
      /\ header.page = "message" /\ current # None =>
           /\ selected # {}
           /\ header.edit <=> Cardinality(selected) = 1 /\ selected \subseteq Own \ NotEdit
           /\ header.delete <=> selected \subseteq Own \/ current \in Mine
  BY DEF Calm, ButtonsFit, Basic, TypeOK
<1>2. ASSUME header' = header, current' = current, selected' = selected
      PROVE  /\ selected' # {}
             /\ header'.edit <=> Cardinality(selected') = 1 /\ selected' \subseteq Own \ NotEdit
             /\ header'.delete <=> selected' \subseteq Own \/ current' \in Mine
  BY <1>1, <1>2
\* Back from an editing.
<1>3. ASSUME bar.box, header' = [header EXCEPT !.page = "message"], selected' = selected
      PROVE  /\ selected' # {}
             /\ header'.edit <=> Cardinality(selected') = 1 /\ selected' \subseteq Own \ NotEdit
             /\ header'.delete <=> selected' \subseteq Own \/ current' \in Mine
  <2>1. bar.label \in Own \ NotEdit /\ selected = {bar.label} /\ header.edit /\ header.delete
    BY <1>3 DEF Calm, EditFits
  <2>2. Cardinality({bar.label}) = 1
    BY FS_Singleton
  <2>3. header'.edit /\ header'.delete
    BY <1>1, <1>3, <2>1
  <2>4. Cardinality(selected') = 1
    BY <1>3, <2>1, <2>2, Zenon
  <2>5. selected' # {} /\ selected' \subseteq Own \ NotEdit /\ selected' \subseteq Own
    BY <1>3, <2>1
  <2>6. QED
    BY <2>3, <2>4, <2>5, Zenon
<1>4. CASE Stays \/ Writes \/ Leaves \/ Closes \/ Dangles
  BY <1>2, <1>4 DEF Stays, Writes, Leaves, Closes, Dangles
<1>5. CASE Resets \/ Loses \/ Ends
  BY <1>1, <1>5 DEF Resets, Loses, Ends
<1>6. CASE Applies
  <2>1. bar.box
    BY <1>6 DEF Applies, Calm, BarFits
  <2>2. QED
    BY <1>2, <1>3, <1>6, <2>1 DEF Applies
<1>7. ASSUME NEW r \in Room, SelectRoom(r) PROVE FALSE
  BY <1>1, <1>7 DEF SelectRoom
<1>8. ASSUME NEW r \in Room, ClearHistory(r)
      PROVE  header' = header /\ current' = current /\ selected' = selected
  BY <1>8 DEF ClearHistory
<1>9. ASSUME NEW m \in Msg, SelectMsg(m)
      PROVE  /\ selected' # {}
             /\ header'.edit <=> Cardinality(selected') = 1 /\ selected' \subseteq Own \ NotEdit
             /\ header'.delete <=> selected' \subseteq Own \/ current' \in Mine
  <2>1. selected' \subseteq Msg /\ count' = Tally(selected')
    BY <1>9, CountsStep, BasicStep DEF CountsMatch, Basic, TypeOK, Tally
  <2> DEFINE S == selected'
             c == Tally(S)
  <2> HIDE DEF S
  <2>2. /\ c \in [own : Nat, another : Nat, notedit : Nat, all : Nat]
        /\ c.all = Cardinality(S)
        /\ c.all = 0 <=> S = {}
        /\ c.another = 0 <=> S \subseteq Own
        /\ c.notedit = 0 <=> S \cap NotEdit = {}
    BY <2>1, TallyFacts DEF S
  <2> HIDE DEF c
  <2>3. header' = HeaderFor(c) /\ current' = current
    BY <1>9, <2>1 DEF SelectMsg, S, c
  <2>4. /\ c.all > 0
        /\ header' = [page |-> "message", edit |-> MayEdit(c), delete |-> MayDelete(c)]
    BY <1>1, <2>3 DEF HeaderFor
  <2>5. S # {}
    BY <2>2, <2>4
  <2>6. header'.edit <=> Cardinality(S) = 1 /\ S \subseteq Own \ NotEdit
    BY <2>2, <2>4 DEF MayEdit
  <2>7. header'.delete <=> S \subseteq Own \/ current' \in Mine
    <3>1. header'.delete <=> MayDelete(c)
      BY <2>4
    <3>2. MayDelete(c) <=> S \subseteq Own \/ current \in Mine
      BY <2>2 DEF MayDelete
    <3>3. QED
      BY <2>3, <3>1, <3>2, Zenon
  <2>8. QED
    BY <2>5, <2>6, <2>7 DEF S
<1>10. CASE SearchRooms \/ RoomSett
  BY <1>2, <1>10 DEF SearchRooms, RoomSett
<1>11. CASE ShowsEdit
  BY <1>1, <1>11, ShowsEditDoes
<1>12. CASE CancelEdit
  BY <1>3, <1>12 DEF CancelEdit, ShowPage
<1>13. QED
  BY <1>2, <1>4, <1>5, <1>6, <1>7, <1>8, <1>9, <1>10, <1>11, <1>12, Effects

LEMMA BarStep ==
  ASSUME Basic, CountsMatch, Calm, upset = {}, upset' = {}, [Next]_vars
  PROVE  BarFits'
<1>1. /\ bar.send <=> ~bar.apply
      /\ bar.box => bar.apply /\ shown
      /\ bar.apply => current # None /\ (bar.box \/ ~shown)
  BY DEF Calm, BarFits
<1>2. bar \in [box : BOOLEAN, apply : BOOLEAN, send : BOOLEAN, label : Msg \cup {None}]
  BY DEF Basic, TypeOK
<1>3. ASSUME bar' = bar, shown' = shown, current' = current PROVE BarFits'
  BY <1>1, <1>3 DEF BarFits
<1>4. ASSUME bar' = Closed PROVE BarFits'
  BY <1>4 DEF BarFits, Closed
<1>5. CASE Stays \/ Writes \/ Leaves \/ Closes \/ Dangles
  BY <1>3, <1>5 DEF Stays, Writes, Leaves, Closes, Dangles
<1>6. CASE Resets \/ Loses \/ Applies
  BY <1>4, <1>6 DEF Resets, Loses, Applies
<1>7. CASE Ends
  <2>1. ~bar.apply /\ ~shown' /\ bar' = [bar EXCEPT !.box = FALSE, !.label = None]
    BY <1>7 DEF Ends, HideBox
  <2>2. QED
    BY <1>1, <1>2, <2>1 DEF BarFits
<1>8. ASSUME NEW r \in Room, SelectRoom(r) PROVE BarFits'
  <2>1. CASE current = None
    <3>1. bar' = [bar EXCEPT !.send = TRUE]
      BY <1>8, <2>1 DEF SelectRoom
    <3>2. QED
      BY <1>1, <1>2, <2>1, <3>1 DEF BarFits
  <2>2. CASE current # None
    BY <1>4, <1>8, <2>2 DEF SelectRoom
  <2>3. QED
    BY <2>1, <2>2
<1>9. ASSUME NEW r \in Room, ClearHistory(r) PROVE BarFits'
  BY <1>4, <1>9 DEF ClearHistory
<1>10. ASSUME NEW m \in Msg, SelectMsg(m) PROVE BarFits'
  BY <1>3, <1>10 DEF SelectMsg
<1>11. CASE SearchRooms
  <2>1. shown' = FALSE /\ current' = current /\ bar' = [bar EXCEPT !.box = FALSE, !.label = None]
    BY <1>11 DEF SearchRooms, HideBox
  <2>2. QED
    BY <1>1, <1>2, <2>1 DEF BarFits
<1>12. CASE ShowsEdit
  <2>1. ~bar.box /\ ~bar.apply /\ bar.send /\ shown' /\ current' # None
    BY <1>12, ShowsEditDoes, EditedIsTarget DEF Basic
  <2>2. bar'.box = ~bar.box /\ bar'.apply = ~bar.apply /\ bar'.send = ~bar.send
    BY <1>12, ShowsEditDoes
  <2>3. QED
    BY <2>1, <2>2, Zenon DEF BarFits
<1>13. CASE CancelEdit
  BY <1>4, <1>13 DEF CancelEdit
<1>14. CASE RoomSett
  BY <1>3, <1>14 DEF RoomSett
<1>15. QED
  BY <1>5, <1>6, <1>7, <1>8, <1>9, <1>10, <1>11, <1>12, <1>13, <1>14, Effects

LEMMA EditStep ==
  ASSUME Basic, CountsMatch, Calm, upset = {}, upset' = {}, [Next]_vars
  PROVE  EditFits'
<1>1. entry \in Entry /\ header \in [page : {"room", "message"}, edit : BOOLEAN, delete : BOOLEAN]
  BY DEF Basic, TypeOK, Entry
<1>2. bar.box => /\ bar.label \in Own \ NotEdit /\ selected = {bar.label}
                 /\ header.page = "room" /\ header.edit /\ header.delete /\ ~entry.prompt
                 /\ entry.text.kind = "copy" => entry.text.of = bar.label
                 /\ bar.apply /\ shown /\ current # None
  BY DEF Calm, EditFits, BarFits
<1>3. ASSUME bar' = bar, selected' = selected, header' = header,
             bar.box => ~entry'.prompt /\ (entry'.text = entry.text \/ entry'.text.kind # "copy")
      PROVE  EditFits'
  BY <1>2, <1>3, Zenon DEF EditFits
<1>4. ASSUME ~bar'.box PROVE EditFits'
  BY <1>4 DEF EditFits
<1>5. ~Closed.box /\ ~HideBox(bar).box
  BY DEF Closed, HideBox, Basic, TypeOK
<1>6. CASE Stays \/ Closes \/ Dangles
  BY <1>2, <1>3, <1>6 DEF Stays, Closes, Dangles
<1>7. CASE Resets \/ Loses \/ Applies \/ Ends
  BY <1>4, <1>5, <1>7 DEF Resets, Loses, Applies, Ends
<1>8. CASE Writes
  <2>1. CASE entry' = Focused(entry)
    BY <1>1, <1>2, <1>3, <1>8, <2>1, Fields DEF Writes
  <2>2. CASE Type
    <3>1. PICK t : entry' = [entry EXCEPT !.text = t]
                   /\ (t \in {Nothing, Blank} \/ \E r : t = Typed(r))
      BY <2>2 DEF Type
    <3>2. t.kind # "copy"
      BY <3>1 DEF Nothing, Blank, Typed
    <3>3. entry'.prompt = entry.prompt /\ entry'.text = t
      BY <1>1, <3>1 DEF Entry
    <3>4. QED
      BY <1>2, <1>3, <1>8, <3>2, <3>3 DEF Writes
  <2>3. QED
    BY <1>8, <2>1, <2>2 DEF Writes
<1>9. CASE Leaves
  <2>1. entry' = Blurred(entry) /\ ~(entry'.prompt /\ bar.apply)
    BY <1>9 DEF Leaves, Leave
  <2>2. bar.box => ~entry'.prompt /\ entry'.text = entry.text
    BY <1>1, <1>2, <2>1, Fields
  <2>3. QED
    BY <1>3, <1>9, <2>2 DEF Leaves
<1>10. ASSUME NEW r \in Room, SelectRoom(r) PROVE EditFits'
  <2>1. CASE current = None
    <3>1. ~bar.box /\ bar' = [bar EXCEPT !.send = TRUE]
      BY <1>2, <1>10, <2>1 DEF SelectRoom
    <3>2. QED
      BY <1>4, <3>1 DEF Basic, TypeOK
  <2>2. CASE current # None
    BY <1>4, <1>5, <1>10, <2>2 DEF SelectRoom
  <2>3. QED
    BY <2>1, <2>2
<1>11. ASSUME NEW r \in Room, ClearHistory(r) PROVE EditFits'
  BY <1>4, <1>5, <1>11 DEF ClearHistory
<1>12. ASSUME NEW m \in Msg, SelectMsg(m) PROVE EditFits'
  BY <1>4, <1>12 DEF SelectMsg
<1>13. CASE SearchRooms \/ CancelEdit
  BY <1>4, <1>5, <1>13 DEF SearchRooms, CancelEdit
<1>14. CASE RoomSett
  BY <1>1, <1>2, <1>4, <1>14 DEF RoomSett
<1>15. CASE ShowsEdit
  <2>1. /\ selected = {Target} /\ Target \in Own \ NotEdit /\ header.delete
        /\ ~bar.box /\ header.edit
    BY <1>15, ShowsEditDoes, EditedIsTarget
  <2>2. /\ selected' = selected /\ header' = [header EXCEPT !.page = "room"]
        /\ entry' = [text |-> Copy(Target), focus |-> TRUE, prompt |-> FALSE]
        /\ bar'.label = IF bar.box THEN None ELSE Target
    BY <1>15, ShowsEditDoes
  <2>3. bar'.label = Target /\ header'.page = "room" /\ header'.edit /\ header'.delete
    BY <1>1, <2>1, <2>2
  <2>4. ~entry'.prompt /\ entry'.text.of = Target
    BY <2>2, Drafts
  <2>5. QED
    BY <2>1, <2>2, <2>3, <2>4, Zenon DEF EditFits
<1>16. QED
  BY <1>6, <1>7, <1>8, <1>9, <1>10, <1>11, <1>12, <1>13, <1>14, <1>15, Effects

LEMMA PendingStep ==
  ASSUME Basic, CountsMatch, Calm, upset = {}, upset' = {}, [Next]_vars
  PROVE  PendingFits'
<1>1. pending # Idle => /\ current # None /\ pending.room = current
                        /\ pending.kind = "settings" => current \in Mine
  BY DEF Calm, PendingFits
<1>2. ASSUME pending' = pending, current' = current PROVE PendingFits'
  BY <1>1, <1>2 DEF PendingFits
<1>3. ASSUME pending' = Idle PROVE PendingFits'
  BY <1>3 DEF PendingFits, Idle
<1>4. CASE Stays \/ Writes \/ Loses \/ Applies \/ Dangles
  BY <1>2, <1>4 DEF Stays, Writes, Loses, Applies, Dangles
<1>5. CASE Resets \/ Closes
  BY <1>2, <1>3, <1>5 DEF Resets, Closes
<1>6. CASE Leaves
  <2>1. CASE pending' = pending
    BY <1>2, <1>6, <2>1 DEF Leaves
  <2>2. CASE pending' # pending
    <3>1. /\ pending'.room = current /\ current # None /\ current' = current
          /\ pending'.kind = "settings" => current \in Mine
      BY <1>6, <2>2 DEF Leaves
    <3>2. QED
      BY <3>1 DEF PendingFits
  <2>3. QED
    BY <2>1, <2>2
<1>7. CASE Ends
  BY <1>3, <1>7 DEF Ends
<1>8. ASSUME NEW r \in Room, SelectRoom(r) PROVE PendingFits'
  BY <1>1, <1>3, <1>8 DEF SelectRoom
<1>9. CASE \/ SearchRooms \/ CancelEdit \/ RoomSett
           \/ \E r \in Room : ClearHistory(r)
           \/ \E m \in Msg : SelectMsg(m)
  BY <1>2, <1>9 DEF SearchRooms, CancelEdit, RoomSett, ClearHistory, SelectMsg
<1>10. CASE ShowsEdit
  BY <1>2, <1>10, ShowsEditDoes
<1>11. QED
  BY <1>4, <1>5, <1>6, <1>7, <1>8, <1>9, <1>10, Effects

LEMMA AliveStep ==
  ASSUME Basic, CountsMatch, Calm, upset = {}, upset' = {}, [Next]_vars
  PROVE  alive'
<1>1. alive
  BY DEF Calm
<1>2. ~Dangles
  <2>1. /\ bar.box => Target # None
        /\ shown /\ header.page = "message" /\ header.edit => Target # None
    BY EditedIsTarget, MsgAssumption
  <2>2. shown /\ bar.apply => bar.box
    BY DEF Calm, BarFits
  <2>3. pending # Idle => current # None
    BY DEF Calm, PendingFits
  <2>4. QED
    BY <2>1, <2>2, <2>3 DEF Dangles
<1>3. CASE Stays \/ Resets \/ Loses \/ Writes \/ Leaves \/ Closes \/ Applies \/ Ends
  BY <1>1, <1>3 DEF Stays, Resets, Loses, Writes, Leaves, Closes, Applies, Ends
<1>4. CASE \/ SearchRooms \/ CancelEdit \/ RoomSett
           \/ \E r \in Room : SelectRoom(r) \/ ClearHistory(r)
           \/ \E m \in Msg : SelectMsg(m)
  BY <1>1, <1>4 DEF SearchRooms, CancelEdit, RoomSett, SelectRoom, ClearHistory, SelectMsg, Fine
<1>5. CASE ShowsEdit
  BY <1>1, <1>5, ShowsEditDoes
<1>6. QED
  BY <1>2, <1>3, <1>4, <1>5, Effects

LEMMA FitsInit == Init => Fits
<1>1. Init => count = Tally(selected) /\ ButtonsFit /\ BarFits /\ EditFits /\ PendingFits /\ alive
  BY TallyEmpty DEF Init, ButtonsFit, BarFits, EditFits, PendingFits, Closed
<1>2. QED
  BY <1>1 DEF Fits, CountsMatch, Calm

LEMMA FitsStep == Basic /\ Fits /\ [Next]_vars => Fits'
<1> SUFFICES ASSUME Basic, Fits, [Next]_vars PROVE Fits'
  OBVIOUS
<1>1. CountsMatch'
  BY CountsStep DEF Fits
<1>2. ASSUME upset' = {} PROVE Calm'
  <2>1. upset = {} /\ Calm /\ CountsMatch
    BY <1>2, UpsetsStay DEF Fits
  <2>2. QED
    BY <1>2, <2>1, ButtonsStep, BarStep, EditStep, PendingStep, AliveStep DEF Calm
<1>3. QED
  BY <1>1, <1>2 DEF Fits

-------------------------------------------------------------------------------
(* The field is the room's.                                                 *)

\* The text in the field was begun in the open room, or copied from it.
DraftFits ==
  "ended" \notin upset =>
    /\ entry.text.kind = "typed" => entry.text.of = current
    /\ entry.text.kind = "copy" => RoomOf[entry.text.of] = current

\* The placeholder is not in a field whose text can be applied.
PromptFits == "left" \notin upset /\ bar.apply /\ shown => entry.text # Prompt

LEMMA DraftStep == Basic /\ DraftFits /\ [Next]_vars => DraftFits'
<1> SUFFICES ASSUME Basic, DraftFits, [Next]_vars, "ended" \notin upset'
             PROVE  /\ entry'.text.kind = "typed" => entry'.text.of = current'
                    /\ entry'.text.kind = "copy" => RoomOf[entry'.text.of] = current'
  BY DEF DraftFits
<1>1. /\ entry \in Entry /\ entry.text \in Draft
      /\ entry.text.kind = "typed" => entry.text.of = current
      /\ entry.text.kind = "copy" => RoomOf[entry.text.of] = current
  BY UpsetsStay DEF DraftFits, Basic, TypeOK, Entry
<1>2. ASSUME entry'.text.kind \notin {"typed", "copy"}
      PROVE  /\ entry'.text.kind = "typed" => entry'.text.of = current'
             /\ entry'.text.kind = "copy" => RoomOf[entry'.text.of] = current'
  BY <1>2
<1>3. ASSUME entry'.text = entry.text, current' = current
      PROVE  /\ entry'.text.kind = "typed" => entry'.text.of = current'
             /\ entry'.text.kind = "copy" => RoomOf[entry'.text.of] = current'
  BY <1>1, <1>3
<1>4. /\ Emptied(entry).text = Nothing /\ Focused(Emptied(entry)).text = Nothing
      /\ Focused(entry).text \in {Nothing, entry.text}
      /\ Blurred(entry).text \in {Prompt, entry.text}
      /\ \A t : Fills(t) => entry'.text = t
  <2>1. Emptied(entry) \in Entry /\ Emptied(entry).text = Nothing
    BY <1>1, Fields
  <2>2. Focused(Emptied(entry)).text = Nothing
    BY <2>1, Fields
  <2>3. Focused(entry).text \in {Nothing, entry.text} /\ Blurred(entry).text \in {Prompt, entry.text}
    BY <1>1, Fields
  <2>4. \A t : Fills(t) => entry'.text = t
    BY <1>1 DEF Fills, Entry
  <2>5. QED
    BY <2>1, <2>2, <2>3, <2>4
<1>5. \A t \in {Nothing, Blank, Prompt} : t.kind \notin {"typed", "copy"}
  BY DEF Nothing, Blank, Prompt
<1>6. CASE Stays \/ Closes \/ Dangles
  BY <1>3, <1>6 DEF Stays, Closes, Dangles
<1>7. CASE Resets \/ Loses \/ Applies
  BY <1>2, <1>4, <1>5, <1>7 DEF Resets, Loses, Applies
<1>8. CASE Writes
  <2>1. CASE entry' = Focused(entry)
    BY <1>2, <1>3, <1>4, <1>5, <1>8, <2>1 DEF Writes
  <2>2. CASE Type
    <3> DEFINE t == entry.text
               start == CASE t.kind = "typed" -> t.of
                          [] t.kind = "copy" -> RoomOf[t.of]
                          [] OTHER -> current
    <3>1. start = current
      BY <1>1
    <3>2. PICK next \in {Nothing, Blank, Typed(start)} : entry' = [entry EXCEPT !.text = next]
      BY <2>2 DEF Type
    <3> HIDE DEF start
    <3>3. entry'.text = next
      BY <1>4, <3>2 DEF Fills
    <3>4. current' = current
      BY <1>8 DEF Writes
    <3>5. CASE next = Typed(start)
      BY <3>1, <3>3, <3>4, <3>5, Drafts
    <3>6. CASE next \in {Nothing, Blank}
      BY <1>2, <1>5, <3>3, <3>6
    <3>7. QED
      BY <3>2, <3>5, <3>6
  <2>3. QED
    BY <1>8, <2>1, <2>2 DEF Writes
<1>9. CASE Leaves
  BY <1>2, <1>3, <1>4, <1>5, <1>9 DEF Leaves, Leave
<1>10. CASE Ends
  <2>1. entry.text.kind \notin {"typed", "copy"} /\ entry'.text \in {Prompt, entry.text}
    BY <1>4, <1>10 DEF Ends
  <2>2. QED
    BY <1>2, <1>5, <2>1
<1>11. ASSUME NEW r \in Room, SelectRoom(r)
       PROVE  entry'.text.kind \notin {"typed", "copy"}
  <2>1. CASE current = None
    <3>1. /\ entry.text.kind = "typed" => entry.text.of \in Room
          /\ entry.text.kind = "copy" => entry.text.of \in Msg
      BY <1>1, Drafts
    <3>2. entry.text.kind \notin {"typed", "copy"}
      BY <1>1, <2>1, <3>1, MsgAssumption, RoomAssumption
    <3>3. QED
      BY <1>4, <1>5, <1>11, <2>1, <3>2 DEF SelectRoom
  <2>2. CASE current # None
    BY <1>4, <1>5, <1>11, <2>2 DEF SelectRoom
  <2>3. QED
    BY <2>1, <2>2
<1>12. ASSUME NEW r \in Room, ClearHistory(r)
       PROVE  entry'.text.kind \notin {"typed", "copy"}
  BY <1>4, <1>5, <1>12 DEF ClearHistory
<1>13. ASSUME NEW m \in Msg, SelectMsg(m) PROVE entry'.text = entry.text /\ current' = current
  BY <1>13 DEF SelectMsg
<1>14. CASE SearchRooms \/ CancelEdit \/ RoomSett
  BY <1>2, <1>3, <1>4, <1>5, <1>14 DEF SearchRooms, Leave, CancelEdit, RoomSett
<1>15. CASE ShowsEdit
  <2>1. current' = current /\ entry'.text = Copy(Target) /\ RoomOf[Target] = current
    BY <1>15, ShowsEditDoes, TargetSelected
  <2>2. QED
    BY <2>1, Drafts
<1>16. QED
  BY <1>2, <1>3, <1>6, <1>7, <1>8, <1>9, <1>10, <1>11, <1>12, <1>13, <1>14, <1>15, Effects

LEMMA PromptStep == Basic /\ PromptFits /\ [Next]_vars => PromptFits'
<1> SUFFICES ASSUME Basic, PromptFits, [Next]_vars, "left" \notin upset', bar'.apply, shown'
             PROVE  entry'.text # Prompt
  BY DEF PromptFits
<1>1. /\ entry \in Entry
      /\ entry.text = Prompt => entry.prompt
      /\ bar.apply /\ shown => entry.text # Prompt
      /\ bar \in [box : BOOLEAN, apply : BOOLEAN, send : BOOLEAN, label : Msg \cup {None}]
  BY UpsetsStay DEF PromptFits, PromptMarked, Basic, TypeOK, Entry
<1>2. ~Closed.apply /\ Nothing # Prompt
  BY DEF Closed, Nothing, Prompt
<1>3. /\ Emptied(entry).text # Prompt /\ Focused(entry).text # Prompt
      /\ Blurred(entry).text = Prompt => Blurred(entry).prompt
  BY <1>1, <1>2, Fields
<1>4. CASE Stays \/ Closes \/ Dangles
  BY <1>1, <1>4 DEF Stays, Closes, Dangles
<1>5. CASE Resets \/ Loses \/ Applies \/ Ends
  BY <1>2, <1>5 DEF Resets, Loses, Applies, Ends
<1>6. CASE Writes
  <2>1. CASE Type
    <3>1. PICK t : entry' = [entry EXCEPT !.text = t]
                   /\ (t \in {Nothing, Blank} \/ \E r : t = Typed(r))
      BY <2>1 DEF Type
    <3>2. entry'.text = t /\ t # Prompt
      BY <1>1, <3>1 DEF Entry, Nothing, Blank, Prompt, Typed
    <3>3. QED
      BY <3>2
  <2>2. QED
    BY <1>3, <1>6, <2>1 DEF Writes
<1>7. CASE Leaves
  BY <1>3, <1>7 DEF Leaves, Leave
<1>8. ASSUME NEW r \in Room, SelectRoom(r) PROVE entry'.text # Prompt
  <2>1. CASE current = None
    BY <1>3, <1>8, <2>1 DEF SelectRoom
  <2>2. CASE current # None
    BY <1>2, <1>8, <2>2 DEF SelectRoom
  <2>3. QED
    BY <2>1, <2>2
<1>9. ASSUME NEW r \in Room, ClearHistory(r) PROVE FALSE
  BY <1>2, <1>9 DEF ClearHistory
<1>10. ASSUME NEW m \in Msg, SelectMsg(m) PROVE entry'.text # Prompt
  BY <1>1, <1>10 DEF SelectMsg
<1>11. CASE SearchRooms \/ CancelEdit
  BY <1>2, <1>11 DEF SearchRooms, CancelEdit
<1>12. CASE RoomSett
  BY <1>3, <1>12 DEF RoomSett
<1>13. CASE ShowsEdit
  BY <1>13, ShowsEditDoes DEF Copy, Prompt
<1>14. QED
  BY <1>4, <1>5, <1>6, <1>7, <1>8, <1>9, <1>10, <1>11, <1>12, <1>13, Effects

\* What a step sends, when the field is the room's.
LEMMA SendStep ==
  ASSUME Basic, Next
  PROVE  /\ DraftFits /\ "ended" \notin upset => DraftsStay'
         /\ PromptFits /\ "left" \notin upset => PromptIsNotSent'
<1>1. entry.text = Prompt => entry.prompt /\ ~entry.focus
  BY DEF Basic, PromptMarked
<1>2. ASSUME DraftFits, "ended" \notin upset, NEW q \in out',
             q.op \in {"message", "edit"}, q.text.kind = "typed"
      PROVE  q.room = q.text.of
  BY <1>2, Asked DEF DraftFits, Req
<1>3. ASSUME PromptFits, "left" \notin upset, NEW q \in out'
      PROVE  q.text # Prompt
  <2>1. Nothing # Prompt
    BY DEF Nothing, Prompt
  <2>2. q.text \in {Nothing, entry.text}
    BY <1>3, Asked DEF Req
  <2>3. ASSUME q.text = entry.text, entry.text = Prompt PROVE FALSE
    <3>1. \/ ~entry.prompt
          \/ shown /\ (bar.apply \/ entry.focus)
      BY <1>3, <2>1, <2>3, Asked DEF Req
    <3>2. QED
      BY <1>1, <1>3, <2>3, <3>1 DEF PromptFits
  <2>4. QED
    BY <2>1, <2>2, <2>3
<1>4. QED
  BY <1>2, <1>3 DEF DraftsStay, PromptIsNotSent

-------------------------------------------------------------------------------
(* The theorems.                                                            *)

Inv == Basic /\ Fits /\ DraftFits /\ PromptFits /\ WhatIsSentWasMeant

LEMMA InvInit == Init => Inv
<1>1. Init => DraftFits /\ PromptFits /\ WhatIsSentWasMeant
  BY DEF Init, DraftFits, PromptFits, WhatIsSentWasMeant, DraftsStay, PromptIsNotSent, Prompt, Closed
<1>2. QED
  BY <1>1, BasicInit, FitsInit DEF Inv

LEMMA InvStep == Inv /\ [Next]_vars => Inv'
<1> SUFFICES ASSUME Inv, [Next]_vars PROVE Inv'
  OBVIOUS
<1>1. Basic' /\ Fits' /\ DraftFits' /\ PromptFits'
  BY BasicStep, FitsStep, DraftStep, PromptStep DEF Inv
<1>2. DraftsStay' /\ PromptIsNotSent'
  <2>1. CASE UNCHANGED vars
    BY <2>1 DEF Inv, WhatIsSentWasMeant, DraftsStay, PromptIsNotSent, vars
  <2>2. CASE Next
    <3>1. upset \subseteq upset'
      BY UpsetsStay DEF Inv
    <3>2. /\ "ended" \notin upset => DraftsStay'
          /\ "left" \notin upset => PromptIsNotSent'
      BY <2>2, SendStep DEF Inv
    <3>3. QED
      BY <3>1, <3>2 DEF DraftsStay, PromptIsNotSent
  <2>3. QED
    BY <2>1, <2>2
<1>3. QED
  BY <1>1, <1>2 DEF Inv, WhatIsSentWasMeant

\* What is open, selected, edited and asked fits together, whatever the user does and
\* whatever lines the client reads (the handlers of event_handler.c and of the lines).
THEOREM Invariant == Spec => []Inv
BY InvInit, InvStep, PTL DEF Spec

\* Rows, selection, counters and header of any window agree, however rooms and
\* messages come and go, as long as no name changes and no message is deleted or
\* edited under a selection, and no editing or dialog outlives its room.
THEOREM SelectionHolds == Spec => []SelectionAgrees
<1>1. Inv => SelectionAgrees
  BY DEF Inv, Basic, Fits, Calm, SelectionAgrees, ButtonsFit
<1>2. QED
  BY <1>1, Invariant, PTL

\* The message under the editing box is the selected one, the user's own, and there
\* until the editing ends; no handler goes by a room or message that is gone.
THEOREM EditingHolds == Spec => []EditingIsSafe
<1>1. Inv => EditingIsSafe
  <2> SUFFICES ASSUME Inv, upset = {} PROVE alive /\ (bar.box => EditingIsAlone)
    BY DEF EditingIsSafe, EditingIsAlone, ScreenSurvives
  <2>1. Basic /\ CountsMatch /\ Calm
    BY DEF Inv, Fits
  <2>2. QED
    BY <2>1, EditedIsTarget DEF EditingIsAlone, Calm, EditFits, BarFits
<1>2. QED
  BY <1>1, Invariant, PTL

\* A message goes to the room in which it was begun, and is never the placeholder.
THEOREM SendingHolds == Spec => []WhatIsSentWasMeant
<1>1. Inv => WhatIsSentWasMeant
  BY DEF Inv
<1>2. QED
  BY <1>1, Invariant, PTL

\* Whatever a step asks the server for is about the open room, the message in the
\* editing box, the messages on the screen, or the room of the open dialog.
THEOREM AskingHolds == Spec => AsksWhatItShows
<1> DEFINE Asks == upset = {} => \A q \in out' :
             /\ q.room = current
             /\ q.op = "edit" => bar.box /\ q.msg = bar.label /\ q.msg \in Own
             /\ q.op = "delete" => q.msg \in rows /\ (q.msg \in Own \/ q.room \in Mine)
             /\ q.op = "rule" => q.room \in Mine /\ q.room = pending.room
             /\ q.op = "message" => ~bar.box
<1>1. Inv /\ Next => Asks
  <2> SUFFICES ASSUME Inv, Next, upset = {}, NEW q \in out'
               PROVE  /\ q.room = current
                      /\ q.op = "edit" => bar.box /\ q.msg = bar.label /\ q.msg \in Own
                      /\ q.op = "delete" => q.msg \in rows /\ (q.msg \in Own \/ q.room \in Mine)
                      /\ q.op = "rule" => q.room \in Mine /\ q.room = pending.room
                      /\ q.op = "message" => ~bar.box
    OBVIOUS
  <2>1. Basic /\ CountsMatch /\ Calm
    BY DEF Inv, Fits
  <2>2. /\ bar.box => Target = bar.label /\ bar.label \in Own
        /\ bar.send => ~bar.box
        /\ shown /\ bar.apply => bar.box
    BY <2>1, EditedIsTarget DEF Calm, BarFits, EditFits
  <2>3. header.page = "message" /\ header.delete => selected \subseteq Own \/ current \in Mine
    <3>1. current # None
      BY <2>1, Asked, RoomAssumption
    <3>2. QED
      BY <2>1, <3>1 DEF Calm, ButtonsFit
  <2>4. pending.kind = "settings" => pending.room = current /\ current \in Mine
    BY <2>1 DEF Calm, PendingFits, Idle
  <2>5. selected \subseteq rows
    BY <2>1 DEF Basic, SelectionIsShown
  <2>6. QED
    BY <2>1, <2>2, <2>3, <2>4, <2>5, Asked DEF Req
<1>2. Inv /\ [Next]_vars => [Asks]_vars
  BY <1>1
<1>3. QED
  BY <1>2, Invariant, PTL DEF Spec, AsksWhatItShows
===============================================================================
