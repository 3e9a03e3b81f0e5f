----------------------------- MODULE HistoryProofs -----------------------------
(* A client counts the rows that it shows, in every traffic; in calm        *)
(* traffic it does not end, and shows one stretch of each room's history.   *)
EXTENDS ClientHistory, TablesTheorems, SequenceTheorems, FiniteSetTheorems

Inv == TypeOK /\ RowsCounted

-------------------------------------------------------------------------------
(* Sequences.                                                              *)

\* The helpers of SequencesExt keep to the elements, and to the length.
LEMMA ReverseFacts ==
  ASSUME NEW S, NEW s \in Seq(S)
  PROVE  Reverse(s) \in Seq(S) /\ Len(Reverse(s)) = Len(s)
BY DEF Reverse

LEMMA AppendFacts ==
  ASSUME NEW S, NEW s \in Seq(S), NEW e \in S
  PROVE  Append(s, e) \in Seq(S)
OBVIOUS

LEMMA ConcatFacts ==
  ASSUME NEW S, NEW s \in Seq(S), NEW t \in Seq(S)
  PROVE  s \o t \in Seq(S) /\ Len(s \o t) = Len(s) + Len(t)
OBVIOUS

LEMMA RemoveAtFacts ==
  ASSUME NEW S, NEW s \in Seq(S), NEW i \in 1 .. Len(s)
  PROVE  RemoveAt(s, i) \in Seq(S) /\ Len(RemoveAt(s, i)) = Len(s) - 1
<1>1. SubSeq(s, 1, i - 1) \in Seq(S) /\ Len(SubSeq(s, 1, i - 1)) = i - 1
  BY SubSeqProperties
<1>2. SubSeq(s, i + 1, Len(s)) \in Seq(S) /\ Len(SubSeq(s, i + 1, Len(s))) = Len(s) - i
  BY SubSeqProperties
<1>3. SubSeq(s, 1, i - 1) \o SubSeq(s, i + 1, Len(s)) \in Seq(S)
  BY <1>1, <1>2, ConcatFacts
<1>4. Len(SubSeq(s, 1, i - 1) \o SubSeq(s, i + 1, Len(s))) = i - 1 + (Len(s) - i)
  BY <1>1, <1>2, ConcatFacts
<1>5. Len(s) \in Nat /\ i - 1 + (Len(s) - i) = Len(s) - 1
  OBVIOUS
<1>6. RemoveAt(s, i) = SubSeq(s, 1, i - 1) \o SubSeq(s, i + 1, Len(s))
  BY Zenon DEF RemoveAt
<1>7. QED
  BY <1>3, <1>4, <1>5, <1>6, Zenon

\* A page is a sequence of messages as they are shown.
LEMMA PageFacts ==
  ASSUME NEW table, table \subseteq MessageRow, NEW p \in PagesOf(table)
  PROVE  p \in Seq(Shown)
<1>1. PICK n \in 0 .. Page : p \in [1 .. n -> {ShownAs(m) : m \in table}]
  BY DEF PagesOf
<1>2. {ShownAs(m) : m \in table} \subseteq Shown
  BY DEF ShownAs, MessageRow, Shown
<1>3. n \in Nat
  BY <1>1, BoundAssumption
<1>4. QED
  BY <1>1, <1>2, <1>3

\* The first of the lines that wait, and what is left.
LEMMA Waits ==
  ASSUME NEW S, NEW s \in Seq(S), s # <<>>
  PROVE  Head(s) \in S /\ Tail(s) \in Seq(S)
OBVIOUS

-------------------------------------------------------------------------------
(* The server.                                                             *)

\* The id that a new row gets, and the one that is read back.
LEMMA PostFacts ==
  ASSUME TypeOK, NEW r \in Room, Post(r)
  PROVE  /\ messages' \subseteq MessageRow
         /\ MessageIdByDate(messages', r, now) \in 1 .. MaxMsg
<1> DEFINE new == [id |-> NewId(messages), room |-> r, date |-> now]
<1>1. Ids(messages) \subseteq 1 .. MaxMsg /\ MaxMsg \in Nat
  BY BoundAssumption DEF TypeOK, Ids, MessageRow
<1>2. NewId(messages) \in Nat /\ \A row \in messages : row.id < NewId(messages)
  <2>1. Ids(messages) \subseteq 0 .. MaxMsg
    BY <1>1
  <2>2. QED
    BY <1>1, <2>1, NewIdProperties
<1>3. NewId(messages) \in 1 .. MaxMsg
  <2>1. CASE messages = {}
    BY <2>1, <1>1 DEF Post, NewId
  <2>2. CASE messages # {}
    <3>1. PICK row \in messages : TRUE
      BY <2>2
    <3>2. row.id \in 1 .. MaxMsg
      BY <1>1 DEF Ids
    <3>3. QED
      BY <1>1, <1>2, <3>1, <3>2 DEF Post
  <2>3. QED
    BY <2>1, <2>2
<1>4. messages' = messages \cup {new} /\ messages' \subseteq MessageRow
  BY <1>3 DEF Post, TypeOK, MessageRow
<1>5. new \in {m \in messages' : m.room = r /\ m.date = now}
  BY <1>4
<1>6. FirstRow({m \in messages' : m.room = r /\ m.date = now}) \in messages'
  <2>1. \A m \in messages' : m.id \in Nat
    BY <1>4 DEF MessageRow
  <2>2. QED
    BY <1>5, <2>1, FirstRowProperties
<1>7. QED
  BY <1>4, <1>6 DEF MessageIdByDate, MessageRow

\* No step of the others breaks the invariant.
LEMMA OthersInv ==
  ASSUME Inv, NEW r \in Room, Post(r) \/ DelMsg(r) \/ ClearRoom(r) \/ EndRoom(r)
  PROVE  Inv'
<1> USE DEF Inv, TypeOK, RowsCounted, client
<1>11. ASSUME NEW line \in Reply, Broadcast(r, line) PROVE down' \in Seq(Reply)
  BY <1>11 DEF Broadcast
<1>1. CASE Post(r)
  <2>1. [op |-> "message", room |-> r,
         msg |-> [id |-> MessageIdByDate(messages', r, now), date |-> now]] \in Reply
    BY <1>1, PostFacts DEF Reply, Shown
  <2>2. QED
    BY <1>1, <1>11, <2>1, PostFacts DEF Post
<1>2. CASE DelMsg(r)
  <2>1. PICK m \in messages : /\ messages' = DeleteMessage(messages, m.id)
                              /\ Broadcast(r, [op |-> "deleted", room |-> r, id |-> m.id])
    BY <1>2 DEF DelMsg
  <2>2. [op |-> "deleted", room |-> r, id |-> m.id] \in Reply
    BY DEF Reply, MessageRow
  <2>3. QED
    BY <1>2, <1>11, <2>1, <2>2 DEF DelMsg, DeleteMessage
<1>3. CASE ClearRoom(r)
  <2>1. [op |-> "cleared", room |-> r] \in Reply
    BY DEF Reply
  <2>2. QED
    BY <1>3, <1>11, <2>1 DEF ClearRoom, WithoutRoom
<1>4. CASE EndRoom(r)
  <2>1. [op |-> "ended", room |-> r] \in Reply
    BY DEF Reply
  <2>2. joined' \subseteq Room /\ banned' \subseteq Room \ joined' /\ messages' \subseteq MessageRow
    BY <1>4 DEF EndRoom, WithoutRoom
  <2>3. QED
    BY <1>4, <1>11, <2>1, <2>2 DEF EndRoom
<1>5. QED
  BY <1>1, <1>2, <1>3, <1>4

\* No request that is handled breaks the invariant.
LEMMA HandleInv ==
  ASSUME Inv, Handle
  PROVE  Inv'
<1>1. PICK op \in {"rooms", "new", "old"} : Serve(op)
  BY DEF Handle, GetRooms, NewMessages, OldMessages
<1>2. up # <<>> /\ UNCHANGED <<server, client>> /\ up' = Tail(up)
  BY <1>1 DEF Serve
<1>3. Head(up) \in Request /\ up' \in Seq(Request)
  BY <1>2, Waits DEF Inv, TypeOK
<1>4. SUFFICES down' \in Seq(Reply)
  BY <1>2, <1>3 DEF Inv, TypeOK, RowsCounted, server, client
<1>5. down \in Seq(Reply) /\ messages \subseteq MessageRow
  BY DEF Inv, TypeOK
<1>6. CASE GetRooms
  <2>1. [op |-> "rooms", rooms |-> joined] \in Reply
    BY DEF Reply, Inv, TypeOK
  <2>2. QED
    BY <1>5, <1>6, <2>1 DEF GetRooms
<1>7. CASE NewMessages
  <2> DEFINE r == Head(up).room  asked == {m \in messages : m.room = r}
  <2>1. r \in Room
    BY <1>3, <1>7 DEF NewMessages, Serve, Request
  <2>2. ASSUME NEW p \in PagesOf(asked) PROVE [op |-> "new", room |-> r, page |-> p] \in Reply
    <3>1. p \in Seq(Shown)
      BY <1>5, PageFacts
    <3>2. QED
      BY <2>1, <3>1 DEF Reply
  <2>3. \/ \E p \in PagesOf(asked) :
             down' = Append(down, [op |-> "new", room |-> r, page |-> p])
        \/ down' = down
    BY <1>7 DEF NewMessages
  <2> HIDE DEF asked, r
  <2>4. ASSUME NEW p \in PagesOf(asked),
               down' = Append(down, [op |-> "new", room |-> r, page |-> p])
        PROVE  down' \in Seq(Reply)
    BY <1>5, <2>2, <2>4, AppendFacts
  <2>5. QED
    BY <1>5, <2>3, <2>4
<1>8. CASE OldMessages
  <2> DEFINE r == Head(up).room  asked == Before(r, Head(up).date)
  <2>1. r \in Room
    BY <1>3, <1>8 DEF OldMessages, Serve, Request
  <2>2. ASSUME NEW p \in PagesOf(asked) PROVE [op |-> "old", room |-> r, page |-> p] \in Reply
    <3>1. asked \subseteq MessageRow
      BY <1>5 DEF Before
    <3>2. p \in Seq(Shown)
      BY <3>1, PageFacts
    <3>3. QED
      BY <2>1, <3>2 DEF Reply
  <2>3. \/ \E p \in PagesOf(asked) :
             down' = Append(down, [op |-> "old", room |-> r, page |-> p])
        \/ down' = down
    BY <1>8 DEF OldMessages
  <2> HIDE DEF asked, r
  <2>4. ASSUME NEW p \in PagesOf(asked),
               down' = Append(down, [op |-> "old", room |-> r, page |-> p])
        PROVE  down' \in Seq(Reply)
    BY <1>5, <2>2, <2>4, AppendFacts
  <2>5. QED
    BY <1>5, <2>3, <2>4
<1>9. QED
  BY <1>6, <1>7, <1>8 DEF Handle

-------------------------------------------------------------------------------
(* The client.                                                             *)

\* No scrolling breaks the invariant.
LEMMA ScrollInv ==
  ASSUME Inv, NEW r \in Room, ReachTop(r) \/ ReachBottom(r)
  PROVE  Inv'
<1>1. /\ Page \in Nat
      /\ rows \in [Room -> Seq(Shown)] /\ uploaded[r] = Len(rows[r])
  BY BoundAssumption DEF Inv, TypeOK, RowsCounted
<1>2. CASE ReachTop(r)
  <2>1. rows[r][1] \in Shown
    BY <1>1, <1>2 DEF ReachTop, MayAskOlder
  <2>2. [op |-> "old", room |-> r, date |-> rows[r][1].date] \in Request
    BY <2>1 DEF Request, Shown
  <2>3. QED
    BY <1>2, <2>2 DEF ReachTop, Inv, TypeOK, RowsCounted, server
<1>3. CASE ReachBottom(r)
  <2> DEFINE gone == IF uploaded[r] > Page THEN uploaded[r] - Page ELSE 0
             kept == SubSeq(rows[r], gone + 1, Len(rows[r]))
  <2>1. rows' = [rows EXCEPT ![r] = kept] /\ uploaded' = [uploaded EXCEPT ![r] = Trimmed(r)]
    BY <1>3 DEF ReachBottom
  <2>2. gone \in Nat /\ gone <= Len(rows[r]) /\ Len(rows[r]) - gone = Trimmed(r)
    BY <1>1 DEF Trimmed
  <2>3. kept \in Seq(Shown) /\ Len(kept) = Trimmed(r) /\ Trimmed(r) \in Nat
    <3>1. rows[r] \in Seq(Shown) /\ Len(rows[r]) \in Nat
      BY <1>1
    <3> HIDE DEF gone
    <3>2. kept \in Seq(Shown) /\ Len(kept) = Len(rows[r]) - gone
      BY <2>2, <3>1, SubSeqProperties
    <3>3. QED
      BY <2>2, <3>1, <3>2
  <2> HIDE DEF kept
  <2>4. rows' \in [Room -> Seq(Shown)] /\ uploaded' \in [Room -> Nat]
    <3>1. uploaded \in [Room -> Nat]
      BY DEF Inv, TypeOK
    <3>2. QED
      BY <1>1, <2>1, <2>3, <3>1
  <2>5. \A k \in Room : uploaded'[k] = Len(rows'[k])
    <3>1. ASSUME NEW k \in Room PROVE uploaded'[k] = Len(rows'[k])
      <4>1. uploaded[k] = Len(rows[k])
        BY DEF Inv, RowsCounted
      <4> uploaded \in [Room -> Nat] /\ rows \in [Room -> Seq(Shown)]
        BY DEF Inv, TypeOK
      <4>2. CASE k = r
        BY <2>1, <2>3, <4>2
      <4>3. CASE k # r
        BY <2>1, <4>1, <4>3
      <4>4. QED
        BY <4>2, <4>3
    <3>2. QED
      BY <3>1
  <2>6. TypeOK'
    BY <1>3, <2>4 DEF ReachBottom, Inv, TypeOK, server
  <2>7. QED
    BY <2>5, <2>6 DEF Inv, RowsCounted
<1>4. QED
  BY <1>2, <1>3

\* A handler of the client that gives one room other rows, and counts them.
LEMMA ShowInv ==
  ASSUME Inv, NEW op, Read(op), NEW r \in Room, NEW new \in Seq(Shown), Show(r, new),
         uploaded' = [uploaded EXCEPT ![r] = Len(new)],
         screen' \in {"before", "on", "dead"}, listed' \subseteq Room, waiting' \in BOOLEAN,
         up' = up
  PROVE  Inv'
<1>1. down' \in Seq(Reply) /\ UNCHANGED server
  BY Waits DEF Read, Inv, TypeOK
<1>2. QED
  BY <1>1 DEF Show, Inv, TypeOK, RowsCounted, server

\* No handler of the client breaks the invariant.
LEMMA ReceiverInv ==
  ASSUME Inv, Receiver
  PROVE  Inv'
<1>1. PICK op : Read(op)
  BY DEF Receiver, ReadRooms, ReadMessage, ReadNew, ReadOld, ReadDeleted, ReadCleared, ReadEnded
<1> DEFINE r == Head(down).room  page == Head(down).page
<1>2. Head(down) \in Reply /\ down' \in Seq(Reply) /\ UNCHANGED server
  BY <1>1, Waits DEF Read, Inv, TypeOK
<1>3. /\ rows \in [Room -> Seq(Shown)] /\ uploaded \in [Room -> Nat] /\ listed \subseteq Room
      /\ screen \in {"before", "on", "dead"} /\ waiting \in BOOLEAN /\ up \in Seq(Request)
      /\ \A s \in Room : uploaded[s] = Len(rows[s])
  BY DEF Inv, TypeOK, RowsCounted
<1>4. CASE ReadRooms
  <2> DEFINE R == Head(down).rooms
  <2>1. R \subseteq Room
    BY <1>2, <1>4 DEF ReadRooms, Read, Reply
  <2>2. Cardinality(R) \in Nat
    BY <2>1, RoomAssumption, FS_Subset, FS_CardinalityType
  <2>3. PICK order \in [1 .. Cardinality(R) -> R] :
          up' = up \o [i \in DOMAIN order |-> [op |-> "new", room |-> order[i]]]
    BY <1>4 DEF ReadRooms
  <2>4. [i \in DOMAIN order |-> [op |-> "new", room |-> order[i]]] \in Seq(Request)
    <3>1. \A s \in Room : [op |-> "new", room |-> s] \in Request
      BY DEF Request
    <3>2. QED
      BY <2>1, <2>2, <3>1
  <2>5. up' \in Seq(Request)
    BY <1>3, <2>3, <2>4, ConcatFacts
  <2>6. QED
    BY <1>2, <1>4, <2>1, <2>5 DEF ReadRooms, Inv, TypeOK, RowsCounted, server
<1>5. CASE ReadMessage
  <2>1. r \in Room /\ Head(down).msg \in Shown
    BY <1>2, <1>5 DEF ReadMessage, Read, Reply
  <2>2. /\ Append(rows[r], Head(down).msg) \in Seq(Shown)
        /\ Len(Append(rows[r], Head(down).msg)) = uploaded[r] + 1
    BY <1>3, <2>1
  <2>3. QED
    BY <1>3, <1>5, <2>1, <2>2, ShowInv DEF ReadMessage, Needs
<1>6. CASE ReadNew
  <2>1. r \in Room /\ page \in Seq(Shown)
    BY <1>2, <1>6 DEF ReadNew, Read, Reply
  <2>2. /\ rows[r] \o Reverse(page) \in Seq(Shown)
        /\ Len(rows[r] \o Reverse(page)) = uploaded[r] + Len(page)
    <3>1. rows[r] \in Seq(Shown) /\ Len(rows[r]) = uploaded[r]
      BY <1>3, <2>1
    <3>2. Reverse(page) \in Seq(Shown) /\ Len(Reverse(page)) = Len(page)
      BY <2>1, ReverseFacts
    <3> HIDE DEF r, page
    <3>3. QED
      BY <3>1, <3>2, ConcatFacts
  <2>3. QED
    BY <1>3, <1>6, <2>1, <2>2, ShowInv DEF ReadNew, Needs
<1>7. CASE ReadOld
  <2>1. r \in Room /\ page \in Seq(Shown)
    BY <1>2, <1>7 DEF ReadOld, Read, Reply
  <2>2. /\ Reverse(page) \o rows[r] \in Seq(Shown)
        /\ Len(Reverse(page) \o rows[r]) = uploaded[r] + Len(page)
    <3>1. rows[r] \in Seq(Shown) /\ Len(rows[r]) = uploaded[r]
      BY <1>3, <2>1
    <3>2. Reverse(page) \in Seq(Shown) /\ Len(Reverse(page)) = Len(page)
      BY <2>1, ReverseFacts
    <3>3. Len(Reverse(page)) + Len(rows[r]) = uploaded[r] + Len(page)
      BY <1>3, <2>1, <3>1, <3>2
    <3> HIDE DEF r, page
    <3>4. QED
      BY <3>1, <3>2, <3>3, ConcatFacts
  <2>3. QED
    BY <1>3, <1>7, <2>1, <2>2, ShowInv DEF ReadOld, Needs, StopWaiting
<1>8. CASE ReadDeleted
  <2> DEFINE found == RowsOf(r, Head(down).id)
             first == CHOOSE i \in found : \A j \in found : i <= j
  <2>1. r \in Room
    BY <1>2, <1>8 DEF ReadDeleted, Read, Reply
  <2>2. CASE found # {}
    <3>1. found \subseteq 1 .. Len(rows[r]) /\ found \subseteq Nat
      BY <1>3, <2>1 DEF RowsOf
    <3>2. \E i \in found : \A j \in found : i <= j
      BY <2>2, <3>1, LeastExists
    <3>3. first \in 1 .. Len(rows[r])
      BY <3>1, <3>2
    <3>4. /\ RemoveAt(rows[r], first) \in Seq(Shown)
          /\ Len(RemoveAt(rows[r], first)) = uploaded[r] - 1
      BY <1>3, <2>1, <3>3, RemoveAtFacts
    <3>5. Show(r, RemoveAt(rows[r], first)) /\ uploaded' = [uploaded EXCEPT ![r] = @ - 1]
      BY <1>8, <2>2 DEF ReadDeleted
    <3>6. QED
      BY <1>3, <1>8, <2>1, <3>4, <3>5, ShowInv DEF ReadDeleted
  <2>3. CASE found = {}
    BY <1>2, <1>8, <2>3 DEF ReadDeleted, Inv, TypeOK, RowsCounted, server
  <2>4. QED
    BY <2>2, <2>3
<1>9. CASE ReadCleared
  <2>1. r \in Room
    BY <1>2, <1>9 DEF ReadCleared, Read, Reply
  <2>2. uploaded[r] - Len(rows[r]) = 0 /\ <<>> \in Seq(Shown) /\ Len(<<>>) = 0
    BY <1>3, <2>1
  <2>3. QED
    BY <1>3, <1>9, <2>1, <2>2, ShowInv DEF ReadCleared
<1>10. CASE ReadEnded
  <2>1. r \in Room
    BY <1>2, <1>10 DEF ReadEnded, Read, Reply
  <2>2. <<>> \in Seq(Shown) /\ Len(<<>>) = 0
    OBVIOUS
  <2>3. QED
    BY <1>3, <1>10, <2>1, <2>2, ShowInv DEF ReadEnded, Needs
<1>11. QED
  BY <1>4, <1>5, <1>6, <1>7, <1>8, <1>9, <1>10 DEF Receiver

-------------------------------------------------------------------------------

\* The types and the count are invariant.
THEOREM Invariance == Spec => []Inv
<1>1. Init => Inv
  <2>1. <<>> \in Seq(Shown) /\ Len(<<>>) = 0 /\ <<>> \in Seq(Request) /\ <<>> \in Seq(Reply)
    OBVIOUS
  <2>2. 1 \in 1 .. MaxTime
    BY BoundAssumption
  <2>3. ASSUME Init PROVE rows \in [Room -> Seq(Shown)] /\ uploaded \in [Room -> Nat] /\ RowsCounted
    BY <2>1, <2>3 DEF Init, RowsCounted
  <2>4. QED
    BY <2>1, <2>2, <2>3 DEF Init, Inv, TypeOK
<1>2. Inv /\ [Next]_vars => Inv'
  <2> SUFFICES ASSUME Inv, [Next]_vars PROVE Inv'
    OBVIOUS
  <2>1. CASE Others
    BY <2>1, OthersInv DEF Others
  <2>2. CASE Tick
    <3>1. now' \in 1 .. MaxTime
      BY <2>2, BoundAssumption DEF Tick, Inv, TypeOK
    <3>2. QED
      BY <2>2, <3>1 DEF Tick, Inv, TypeOK, RowsCounted, client
  <2>3. CASE Handle
    BY <2>3, HandleInv
  <2>4. CASE SignIn
    <3>1. <<[op |-> "rooms"]>> \in Seq(Request)
      BY DEF Request
    <3>2. QED
      BY <2>4, <3>1 DEF SignIn, Inv, TypeOK, RowsCounted, server
  <2>5. CASE Scroll
    BY <2>5, ScrollInv DEF Scroll
  <2>6. CASE Receiver
    BY <2>6, ReceiverInv
  <2>7. CASE UNCHANGED vars
    BY <2>7 DEF vars, Inv, TypeOK, RowsCounted
  <2>8. QED
    BY <2>1, <2>2, <2>3, <2>4, <2>5, <2>6, <2>7 DEF Next
<1>3. QED
  BY <1>1, <1>2, PTL DEF Spec

\* Requests, replies and rows keep their types.
THEOREM TypeCorrect == Spec => []TypeOK
<1>1. Inv => TypeOK
  BY DEF Inv
<1>2. QED
  BY <1>1, Invariance, PTL

\* uploaded is the number of rows (box_messages_reached drops rows by it), in
\* every traffic, however pages, broadcasts, deletions and drops interleave.
THEOREM CountsAgree == Spec => []RowsCounted
<1>1. Inv => RowsCounted
  BY DEF Inv
<1>2. QED
  BY <1>1, Invariance, PTL

-------------------------------------------------------------------------------
(* In calm traffic the client does not end.  A line that needs its room in  *)
(* the list comes after the line that lists the room, and before the one    *)
(* that says that it has ended.                                             *)

NeedsRoom(line) == line.op \in {"message", "new", "old", "ended"}

\* Before the place i of d, room r is listed, or over.
Announced(d, i, r) == \E j \in 1 .. i - 1 : d[j].op = "rooms" /\ r \in d[j].rooms
Over(d, i, r) == \E j \in 1 .. i - 1 : d[j].op = "ended" /\ d[j].room = r

\* With the rooms l in its list the client can read the lines d.
Readable(d, l) == \A i \in 1 .. Len(d) : NeedsRoom(d[i]) =>
  /\ d[i].room \in l \/ Announced(d, i, d[i].room)
  /\ ~Over(d, i, d[i].room)

Alive ==
  /\ screen # "dead"
  /\ screen = "before" => up = <<>> /\ down = <<>>
  /\ Readable(down, listed)
  /\ \A i \in 1 .. Len(down) :
       /\ down[i].op = "ended" => down[i].room \notin joined
       /\ down[i].op = "rooms" => down[i].rooms \cap banned = {}
  /\ \A i \in 1 .. Len(up) : /\ up[i].op = "rooms" => i = 1
                             /\ up[i].op = "new" => up[i].room \notin banned
  /\ screen = "on" /\ ~Among({"rooms"}, up) =>
       \A r \in joined : r \in listed \/ Announced(down, Len(down) + 1, r)

\* A line put at the end is read after the others.
LEMMA LineAdded ==
  ASSUME NEW d \in Seq(Reply), NEW line, NEW l, Readable(d, l),
         NeedsRoom(line) => /\ line.room \in l \/ Announced(d, Len(d) + 1, line.room)
                            /\ ~Over(d, Len(d) + 1, line.room)
  PROVE  /\ Readable(Append(d, line), l)
         /\ \A r : Announced(d, Len(d) + 1, r) =>
                    Announced(Append(d, line), Len(Append(d, line)) + 1, r)
<1> DEFINE e == Append(d, line)
<1>1. /\ Len(d) \in Nat /\ Len(e) = Len(d) + 1 /\ e[Len(d) + 1] = line
      /\ \A i \in 1 .. Len(d) : e[i] = d[i]
  BY LenProperties
<1> HIDE DEF e
<1>2. ASSUME NEW i \in 1 .. Len(d) + 1, NEW r
      PROVE  /\ Announced(d, i, r) => Announced(e, i, r)
             /\ Over(e, i, r) => Over(d, i, r)
  <2>1. \A j : j \in 1 .. i - 1 => j \in 1 .. Len(d) /\ e[j] = d[j]
    BY <1>1
  <2>2. QED
    BY <2>1 DEF Announced, Over
<1>3. ASSUME NEW i \in 1 .. Len(e), NeedsRoom(e[i])
      PROVE  (e[i].room \in l \/ Announced(e, i, e[i].room)) /\ ~Over(e, i, e[i].room)
  <2>1. CASE i \in 1 .. Len(d)
    <3>1. e[i] = d[i] /\ i \in 1 .. Len(d) + 1
      BY <1>1, <2>1
    <3>2. (d[i].room \in l \/ Announced(d, i, d[i].room)) /\ ~Over(d, i, d[i].room)
      BY <1>3, <2>1, <3>1 DEF Readable
    <3>3. QED
      BY <1>2, <3>1, <3>2
  <2>2. CASE i = Len(d) + 1
    <3>1. e[i] = line /\ i \in 1 .. Len(d) + 1
      BY <1>1, <2>2
    <3>2. (line.room \in l \/ Announced(d, i, line.room)) /\ ~Over(d, i, line.room)
      BY <1>3, <2>2, <3>1
    <3>3. QED
      BY <1>2, <3>1, <3>2
  <2>3. QED
    BY <1>1, <2>1, <2>2
<1>4. ASSUME NEW r, Announced(d, Len(d) + 1, r) PROVE Announced(e, Len(e) + 1, r)
  BY <1>1, <1>4 DEF Announced
<1>5. QED
  BY <1>3, <1>4 DEF Readable, e

\* The first line is read: it may list rooms, or end one.
LEMMA LineRead ==
  ASSUME NEW d \in Seq(Reply), d # <<>>, NEW l, NEW l2, Readable(d, l),
         Head(d).op = "rooms" => Head(d).rooms \subseteq l2,
         \A r \in l : r \in l2 \/ (Head(d).op = "ended" /\ Head(d).room = r)
  PROVE  /\ Readable(Tail(d), l2)
         /\ \A r : Announced(d, Len(d) + 1, r) =>
                    r \in l2 \/ Announced(Tail(d), Len(Tail(d)) + 1, r)
<1> DEFINE e == Tail(d)
<1>1. /\ Len(d) \in Nat \ {0} /\ Len(e) = Len(d) - 1 /\ d[1] = Head(d)
      /\ \A i \in 1 .. Len(e) : e[i] = d[i + 1]
  BY HeadTailProperties, LenProperties
<1> HIDE DEF e
<1>2. ASSUME NEW i \in 1 .. Len(e) + 1, NEW r, Announced(d, i + 1, r)
      PROVE  r \in l2 \/ Announced(e, i, r)
  <2>1. PICK j \in 1 .. i : d[j].op = "rooms" /\ r \in d[j].rooms
    BY <1>2 DEF Announced
  <2>2. CASE j = 1
    BY <1>1, <2>1, <2>2
  <2>3. CASE j # 1
    <3>1. j - 1 \in 1 .. i - 1 /\ j - 1 \in 1 .. Len(e) /\ e[j - 1] = d[j]
      BY <1>1, <2>3
    <3>2. QED
      BY <2>1, <3>1 DEF Announced
  <2>4. QED
    BY <2>2, <2>3
<1>3. ASSUME NEW i \in 1 .. Len(e), NeedsRoom(e[i])
      PROVE  (e[i].room \in l2 \/ Announced(e, i, e[i].room)) /\ ~Over(e, i, e[i].room)
  <2>1. i + 1 \in 1 .. Len(d) /\ e[i] = d[i + 1]
    BY <1>1
  <2>2. /\ e[i].room \in l \/ Announced(d, i + 1, e[i].room)
        /\ ~Over(d, i + 1, e[i].room)
    BY <1>3, <2>1 DEF Readable
  <2>3. ~(Head(d).op = "ended" /\ Head(d).room = e[i].room)
    BY <1>1, <2>1, <2>2 DEF Over
  <2>4. ~Over(e, i, e[i].room)
    <3>1. ASSUME NEW j \in 1 .. i - 1, e[j].op = "ended" /\ e[j].room = e[i].room PROVE FALSE
      <4>1. j + 1 \in 1 .. (i + 1) - 1 /\ e[j] = d[j + 1]
        BY <1>1
      <4>2. QED
        BY <2>2, <3>1, <4>1 DEF Over
    <3>2. QED
      BY <3>1 DEF Over
  <2>5. QED
    BY <1>2, <2>2, <2>3, <2>4
<1>4. QED
  BY <1>1, <1>2, <1>3 DEF Readable, e

\* A room that the user is in can be written of, once its rooms are asked for and
\* answered; a line of a room that is not over is not too late.
LEMMA OpenRoom ==
  ASSUME Inv, Alive, screen = "on", NEW r \in joined, ~Among({"rooms"}, up)
  PROVE  /\ r \in listed \/ Announced(down, Len(down) + 1, r)
         /\ ~Over(down, Len(down) + 1, r)
<1>1. Len(down) \in Nat
  BY LenProperties DEF Inv, TypeOK
<1>2. QED
  BY <1>1 DEF Alive, Over

LEMMA BroadcastAlive ==
  ASSUME Inv, Alive, NEW r \in Room, NEW line, Broadcast(r, line), UNCHANGED <<client, up>>,
         line.room = r, line.op \in {"message", "deleted", "cleared", "ended"},
         line.op \in {"message", "ended"} => ~Among({"rooms"}, up),
         joined' \subseteq joined, line.op = "ended" => r \notin joined',
         banned' = banned \/ ~Opening
  PROVE  Alive'
<1>1. screen' = screen /\ listed' = listed /\ up' = up /\ screen # "dead" /\ r \in joined
  BY DEF client, Broadcast
<1>2. down \in Seq(Reply) /\ Len(down) \in Nat /\ up \in Seq(Request)
  BY LenProperties DEF Inv, TypeOK
<1>3. \A i \in 1 .. Len(up) : up[i].op = "new" => up[i].room \notin banned'
  BY DEF Alive, Opening, Among
<1>4. \A i \in 1 .. Len(down) : down[i].op = "rooms" => down[i].rooms \cap banned' = {}
  BY DEF Alive, Opening, Among
<1>5. CASE screen # "on"
  <2>1. down' = down /\ screen = "before"
    BY <1>1, <1>5 DEF Broadcast, Inv, TypeOK
  <2>2. QED
    BY <1>1, <1>3, <1>4, <2>1 DEF Alive
<1>6. CASE screen = "on"
  <2>1. down' = Append(down, line)
    BY <1>6 DEF Broadcast
  <2>2. NeedsRoom(line) => /\ line.room \in listed \/ Announced(down, Len(down) + 1, line.room)
                           /\ ~Over(down, Len(down) + 1, line.room)
    BY <1>1, <1>6, OpenRoom DEF NeedsRoom
  <2>3. /\ Readable(down', listed)
        /\ \A s : Announced(down, Len(down) + 1, s) => Announced(down', Len(down') + 1, s)
    BY <1>2, <2>1, <2>2, LineAdded DEF Alive
  <2>4. /\ Len(down') = Len(down) + 1 /\ down'[Len(down) + 1] = line
        /\ \A i \in 1 .. Len(down) : down'[i] = down[i]
    BY <1>2, <2>1
  <2>5. \A i \in 1 .. Len(down') : /\ down'[i].op = "ended" => down'[i].room \notin joined'
                                   /\ down'[i].op = "rooms" => down'[i].rooms \cap banned' = {}
    <3>1. ASSUME NEW i \in 1 .. Len(down)
          PROVE  /\ down'[i].op = "ended" => down'[i].room \notin joined'
                 /\ down'[i].op = "rooms" => down'[i].rooms \cap banned' = {}
      BY <1>4, <2>4 DEF Alive
    <3>2. \A i \in 1 .. Len(down') : i \in 1 .. Len(down) \/ i = Len(down) + 1
      BY <1>2, <2>4
    <3>3. QED
      BY <2>4, <3>1, <3>2
  <2>6. Among({"rooms"}, up)' = Among({"rooms"}, up)
    BY <1>1 DEF Among
  <2>7. QED
    BY <1>1, <1>3, <1>6, <2>3, <2>5, <2>6 DEF Alive
<1>7. QED
  BY <1>5, <1>6

LEMMA OthersAlive ==
  ASSUME Inv, Alive, Calm = TRUE, NEW r \in Room, Post(r) \/ DelMsg(r) \/ ClearRoom(r) \/ EndRoom(r)
  PROVE  Alive'
<1>1. \E line : /\ Broadcast(r, line) /\ line.room = r
                /\ line.op \in {"message", "deleted", "cleared", "ended"}
                /\ line.op \in {"message", "ended"} => ~Among({"rooms"}, up)
                /\ line.op = "ended" => r \notin joined'
  <2>1. CASE Post(r)
    <3> DEFINE line == [op |-> "message", room |-> r,
                        msg |-> [id |-> MessageIdByDate(messages', r, now), date |-> now]]
    <3>1. line.op = "message" /\ line.room = r
      OBVIOUS
    <3>2. Broadcast(r, line) /\ ~Opening
      BY <2>1 DEF Post
    <3> HIDE DEF line
    <3>3. QED
      BY <3>1, <3>2 DEF Opening, Among
  <2>2. CASE DelMsg(r)
    <3>1. PICK m \in messages : Broadcast(r, [op |-> "deleted", room |-> r, id |-> m.id])
      BY <2>2 DEF DelMsg
    <3>2. QED
      BY <3>1
  <2>3. CASE ClearRoom(r)
    BY <2>3 DEF ClearRoom
  <2>4. CASE EndRoom(r)
    BY <2>4 DEF EndRoom, Opening, Among
  <2>5. QED
    BY <2>1, <2>2, <2>3, <2>4
<1>2. /\ UNCHANGED <<client, up>> /\ joined' \subseteq joined
      /\ banned' = banned \/ ~Opening
  BY DEF Post, DelMsg, ClearRoom, EndRoom
<1>3. QED
  BY <1>1, <1>2, BroadcastAlive

\* A request is taken: it was the only one for the rooms, if it was one.
LEMMA RequestTaken ==
  ASSUME Inv, Alive, NEW op, Serve(op)
  PROVE  /\ \A i \in 1 .. Len(up') : /\ up'[i].op = "rooms" => i = 1
                                     /\ up'[i].op = "new" => up'[i].room \notin banned
         /\ op # "rooms" => ~Among({"rooms"}, up)
         /\ op = "new" => Head(up).room \notin banned
<1>1. up \in Seq(Request) /\ up # <<>> /\ up' = Tail(up) /\ Head(up).op = op
  BY DEF Serve, Inv, TypeOK
<1>2. /\ Len(up) \in Nat \ {0} /\ Len(up') = Len(up) - 1 /\ up[1] = Head(up)
      /\ \A i \in 1 .. Len(up') : i + 1 \in 1 .. Len(up) /\ up'[i] = up[i + 1]
  BY <1>1, HeadTailProperties, LenProperties
<1>3. \A i \in 1 .. Len(up') : /\ up'[i].op # "rooms"
                               /\ up'[i].op = "new" => up'[i].room \notin banned
  BY <1>2 DEF Alive
<1>4. op # "rooms" => ~Among({"rooms"}, up)
  BY <1>1, <1>2 DEF Alive, Among
<1>5. QED
  BY <1>1, <1>2, <1>3, <1>4 DEF Alive, Among

LEMMA HandleAlive ==
  ASSUME Inv, Alive, Handle
  PROVE  Alive'
<1>1. PICK op \in {"rooms", "new", "old"} : Serve(op)
  BY DEF Handle, GetRooms, NewMessages, OldMessages
<1>2. screen = "on" /\ UNCHANGED <<server, client>> /\ Head(up).op = op
  BY <1>1 DEF Serve
<1>3. down \in Seq(Reply) /\ Len(down) \in Nat /\ joined \cap banned = {}
  BY LenProperties DEF Inv, TypeOK
<1>4. /\ screen' = screen /\ listed' = listed
      /\ joined' = joined /\ banned' = banned
  BY <1>2 DEF server, client
<1>5. \A i \in 1 .. Len(up') : /\ up'[i].op = "rooms" => i = 1
                               /\ up'[i].op = "new" => up'[i].room \notin banned
  BY <1>1, RequestTaken
<1>6. op # "rooms" => ~Among({"rooms"}, up)
  BY <1>1, RequestTaken
<1>7. ASSUME down' = down, op # "rooms" PROVE Alive'
  <2>1. \A r \in joined : r \in listed \/ Announced(down, Len(down) + 1, r)
    BY <1>2, <1>6, <1>7, OpenRoom
  <2>2. Readable(down', listed') /\ screen' = "on"
    BY <1>2, <1>4, <1>7 DEF Alive
  <2>3. \A i \in 1 .. Len(down') : /\ down'[i].op = "ended" => down'[i].room \notin joined'
                                   /\ down'[i].op = "rooms" => down'[i].rooms \cap banned' = {}
    BY <1>4, <1>7 DEF Alive
  <2>4. \A r \in joined' : r \in listed' \/ Announced(down', Len(down') + 1, r)
    BY <1>4, <1>7, <2>1
  <2>5. QED
    BY <1>4, <1>5, <2>2, <2>3, <2>4 DEF Alive
<1>8. ASSUME NEW line, down' = Append(down, line),
             \/ line.op = "rooms" /\ line.rooms = joined
             \/ line.op \in {"new", "old"} /\ line.room \in joined /\ op # "rooms"
      PROVE  Alive'
  <2>1. NeedsRoom(line) => /\ line.room \in listed \/ Announced(down, Len(down) + 1, line.room)
                           /\ ~Over(down, Len(down) + 1, line.room)
    BY <1>1, <1>2, <1>8, OpenRoom, RequestTaken DEF NeedsRoom
  <2>2. /\ Readable(down', listed)
        /\ \A s : Announced(down, Len(down) + 1, s) => Announced(down', Len(down') + 1, s)
    BY <1>3, <1>8, <2>1, LineAdded DEF Alive
  <2>3. /\ Len(down') = Len(down) + 1 /\ down'[Len(down) + 1] = line
        /\ \A i \in 1 .. Len(down) : down'[i] = down[i]
    BY <1>3, <1>8
  <2>4. \A i \in 1 .. Len(down') : /\ down'[i].op = "ended" => down'[i].room \notin joined
                                   /\ down'[i].op = "rooms" => down'[i].rooms \cap banned = {}
    <3>1. ASSUME NEW i \in 1 .. Len(down)
          PROVE  /\ down'[i].op = "ended" => down'[i].room \notin joined
                 /\ down'[i].op = "rooms" => down'[i].rooms \cap banned = {}
      BY <2>3 DEF Alive
    <3>2. \A i \in 1 .. Len(down') : i \in 1 .. Len(down) \/ i = Len(down) + 1
      BY <1>3, <2>3
    <3>3. QED
      BY <1>3, <1>8, <2>3, <3>1, <3>2
  <2>5. \A r \in joined : r \in listed \/ Announced(down', Len(down') + 1, r)
    <3>1. CASE op # "rooms"
      BY <1>1, <1>2, <2>2, <3>1, OpenRoom, RequestTaken
    <3>2. CASE op = "rooms"
      <4>1. line.op = "rooms" /\ line.rooms = joined
        BY <1>8, <3>2
      <4>2. Len(down') \in 1 .. Len(down') + 1 - 1 /\ down'[Len(down')] = line
        BY <1>3, <2>3
      <4>3. QED
        BY <4>1, <4>2 DEF Announced
    <3>3. QED
      BY <3>1, <3>2
  <2>6. screen' = "on" /\ Readable(down', listed')
    BY <1>2, <1>4, <2>2
  <2>7. \A i \in 1 .. Len(down') : /\ down'[i].op = "ended" => down'[i].room \notin joined'
                                   /\ down'[i].op = "rooms" => down'[i].rooms \cap banned' = {}
    BY <1>4, <2>4
  <2>8. \A r \in joined' : r \in listed' \/ Announced(down', Len(down') + 1, r)
    BY <1>4, <2>5
  <2>9. QED
    BY <1>4, <1>5, <2>6, <2>7, <2>8 DEF Alive
<1>9. CASE GetRooms
  BY <1>2, <1>8, <1>9 DEF GetRooms, Serve
<1>10. CASE NewMessages
  <2> DEFINE r == Head(up).room
  <2>1. op = "new" /\ r \notin banned
    BY <1>1, <1>2, <1>10, RequestTaken DEF NewMessages, Serve
  <2>2. CASE r \in joined \cup banned
    <3>1. PICK p : down' = Append(down, [op |-> "new", room |-> r, page |-> p])
      BY <1>10, <2>2 DEF NewMessages
    <3>2. QED
      BY <1>8, <2>1, <2>2, <3>1
  <2>3. CASE r \notin joined \cup banned
    BY <1>7, <1>10, <2>1, <2>3 DEF NewMessages
  <2>4. QED
    BY <2>2, <2>3
<1>11. CASE OldMessages
  <2> DEFINE r == Head(up).room
  <2>1. op = "old"
    BY <1>1, <1>2, <1>11 DEF OldMessages, Serve
  <2>2. CASE r \in joined
    <3>1. PICK p : down' = Append(down, [op |-> "old", room |-> r, page |-> p])
      BY <1>11, <2>2 DEF OldMessages, MayReadOlder
    <3>2. QED
      BY <1>8, <2>1, <2>2, <3>1
  <2>3. CASE r \notin joined
    BY <1>7, <1>11, <2>1, <2>3 DEF OldMessages, MayReadOlder
  <2>4. QED
    BY <2>2, <2>3
<1>12. QED
  BY <1>9, <1>10, <1>11 DEF Handle

\* What the client's user does: older messages are no request that Alive is about.
LEMMA UserAlive ==
  ASSUME Inv, Alive, SignIn \/ Scroll
  PROVE  Alive'
<1>1. up \in Seq(Request) /\ Len(up) \in Nat
  BY LenProperties DEF Inv, TypeOK
<1>2. CASE SignIn
  <2>1. /\ screen' = "on" /\ down' = down /\ listed' = listed
        /\ joined' = joined /\ banned' = banned
    BY <1>2 DEF SignIn, server
  <2>2. down = <<>> /\ Len(<<>>) = 0
    BY <1>2 DEF SignIn, Alive
  <2>3. Len(up') = 1 /\ up'[1].op = "rooms"
    BY <1>2 DEF SignIn
  <2>4. /\ \A i \in 1 .. Len(up') : i = 1 /\ up'[i].op = "rooms"
        /\ Among({"rooms"}, up')
    BY <2>3 DEF Among
  <2>5. QED
    BY <2>1, <2>2, <2>4 DEF Alive, Readable
<1>3. ASSUME NEW r \in Room, ReachTop(r) PROVE Alive'
  <2>1. /\ screen' = screen /\ screen = "on" /\ down' = down /\ listed' = listed
        /\ joined' = joined /\ banned' = banned
    BY <1>3 DEF ReachTop, server
  <2>2. PICK q : up' = Append(up, q) /\ q.op = "old"
    BY <1>3 DEF ReachTop
  <2>3. /\ Len(up') = Len(up) + 1 /\ up'[Len(up) + 1] = q
        /\ \A i \in 1 .. Len(up) : up'[i] = up[i]
    BY <1>1, <2>2
  <2>4. \A i \in 1 .. Len(up') : /\ up'[i].op = "rooms" => i = 1
                                 /\ up'[i].op = "new" => up'[i].room \notin banned
    <3>1. \A i \in 1 .. Len(up') : i \in 1 .. Len(up) \/ i = Len(up) + 1
      BY <1>1, <2>3
    <3>2. QED
      BY <2>2, <2>3, <3>1 DEF Alive
  <2>5. Among({"rooms"}, up) => Among({"rooms"}, up')
    BY <1>1, <2>3 DEF Among
  <2>6. QED
    BY <2>1, <2>4, <2>5 DEF Alive
<1>4. ASSUME NEW r \in Room, ReachBottom(r) PROVE Alive'
  BY <1>4 DEF ReachBottom, server, Alive
<1>5. QED
  BY <1>2, <1>3, <1>4 DEF Scroll

\* What the client reads: l is its list after it, and more its new requests.
LEMMA ReadAlive ==
  ASSUME Inv, Alive, down # <<>>, down' = Tail(down), UNCHANGED server,
         screen = "on", screen' = "on", NEW more, up' = up \o more,
         more \in Seq([op : {"new"}, room : Room \ banned]),
         Head(down).op = "rooms" => Head(down).rooms \subseteq listed',
         \A r \in listed : r \in listed' \/ (Head(down).op = "ended" /\ Head(down).room = r)
  PROVE  Alive'
<1>1. /\ down \in Seq(Reply) /\ Len(down) \in Nat \ {0} /\ Len(down') = Len(down) - 1
      /\ \A i \in 1 .. Len(down') : i + 1 \in 1 .. Len(down) /\ down'[i] = down[i + 1]
      /\ down[1] = Head(down) /\ Len(down) \in Nat
  BY HeadTailProperties, LenProperties DEF Inv, TypeOK
<1>2. joined' = joined /\ banned' = banned
  BY DEF server
<1>3. /\ Readable(down', listed')
      /\ \A r : Announced(down, Len(down) + 1, r) =>
                 r \in listed' \/ Announced(down', Len(down') + 1, r)
  BY <1>1, LineRead DEF Alive
<1>4. \A i \in 1 .. Len(down') : /\ down'[i].op = "ended" => down'[i].room \notin joined'
                                 /\ down'[i].op = "rooms" => down'[i].rooms \cap banned' = {}
  BY <1>1, <1>2 DEF Alive
<1>5. /\ up \in Seq(Request) /\ Len(up) \in Nat /\ Len(more) \in Nat
      /\ Len(up') = Len(up) + Len(more)
      /\ \A i \in 1 .. Len(up) : up'[i] = up[i]
      /\ \A i \in Len(up) + 1 .. Len(up') : up'[i] \in [op : {"new"}, room : Room \ banned]
  <2> DEFINE New == [op : {"new"}, room : Room \ banned]
  <2>1. more \in Seq(New) /\ up \in Seq(Request)
    BY DEF Inv, TypeOK
  <2> HIDE DEF New
  <2>2. Len(up) \in Nat /\ Len(more) \in Nat /\ \A i \in 1 .. Len(more) : more[i] \in New
    BY <2>1, LenProperties, ElementOfSeq
  <2>3. /\ Len(up') = Len(up) + Len(more)
        /\ \A i \in 1 .. Len(up') : up'[i] = IF i <= Len(up) THEN up[i] ELSE more[i - Len(up)]
    BY <2>1, ConcatProperties
  <2>4. \A i \in Len(up) + 1 .. Len(up') : i - Len(up) \in 1 .. Len(more) /\ ~(i <= Len(up))
    BY <2>2, <2>3
  <2>5. QED
    BY <2>1, <2>2, <2>3, <2>4 DEF New
<1>6. \A i \in 1 .. Len(up') : i \in 1 .. Len(up) \/ i \in Len(up) + 1 .. Len(up')
  BY <1>5
<1>7. \A i \in 1 .. Len(up') : /\ up'[i].op = "rooms" => i = 1
                               /\ up'[i].op = "new" => up'[i].room \notin banned'
  BY <1>2, <1>5, <1>6 DEF Alive
<1>8. Among({"rooms"}, up) => Among({"rooms"}, up')
  BY <1>5 DEF Among
<1>9. ~Among({"rooms"}, up') => \A r \in joined' : r \in listed' \/ Announced(down', Len(down') + 1, r)
  <2> SUFFICES ASSUME ~Among({"rooms"}, up'), NEW r \in joined
               PROVE  r \in listed' \/ Announced(down', Len(down') + 1, r)
    BY <1>2
  <2>1. CASE r \in listed
    <3>1. CASE Head(down).op = "ended" /\ Head(down).room = r
      <4>1. 1 \in 1 .. Len(down)
        BY <1>1
      <4>2. QED
        BY <1>1, <3>1, <4>1 DEF Alive
    <3>2. QED
      BY <2>1, <3>1
  <2>2. CASE Announced(down, Len(down) + 1, r)
    BY <1>3, <2>2
  <2>3. QED
    BY <1>8, <2>1, <2>2 DEF Alive
<1>10. QED
  BY <1>3, <1>4, <1>7, <1>9 DEF Alive

\* The first line is not about a room that the client does not have.
LEMMA FirstLine ==
  ASSUME Inv, Alive, down # <<>>, NeedsRoom(Head(down))
  PROVE  Head(down).room \in listed
<1>1. 1 \in 1 .. Len(down) /\ down[1] = Head(down)
  BY HeadTailProperties, LenProperties DEF Inv, TypeOK
<1>2. ~Announced(down, 1, Head(down).room)
  BY DEF Announced
<1>3. QED
  BY <1>1, <1>2 DEF Alive, Readable

LEMMA ReceiverAlive ==
  ASSUME Inv, Alive, Receiver
  PROVE  Alive'
<1>1. /\ down # <<>> /\ down' = Tail(down) /\ UNCHANGED server /\ screen = "on"
      /\ down \in Seq(Reply) /\ up \in Seq(Request)
  BY DEF Receiver, ReadRooms, ReadMessage, ReadNew, ReadOld, ReadDeleted, ReadCleared,
         ReadEnded, Read, Inv, TypeOK
<1>2. <<>> \in Seq([op : {"new"}, room : Room \ banned]) /\ up = up \o <<>>
  BY <1>1
<1>3. CASE ReadRooms
  <2>1. /\ Head(down).op = "rooms" /\ screen' = "on"
        /\ listed' = listed \cup Head(down).rooms
    BY <1>1, <1>3 DEF ReadRooms, Read
  <2>2. Head(down).rooms \subseteq Room \ banned
    <3>1. 1 \in 1 .. Len(down) /\ down[1] = Head(down) /\ Head(down) \in Reply
      BY <1>1, HeadTailProperties, LenProperties
    <3>2. QED
      BY <2>1, <3>1 DEF Alive, Reply
  <2>3. PICK order \in [1 .. Cardinality(Head(down).rooms) -> Head(down).rooms] :
               up' = up \o [i \in DOMAIN order |-> [op |-> "new", room |-> order[i]]]
    BY <1>3 DEF ReadRooms
  <2>4. [i \in DOMAIN order |-> [op |-> "new", room |-> order[i]]]
          \in Seq([op : {"new"}, room : Room \ banned])
    <3>1. Cardinality(Head(down).rooms) \in Nat
      BY <2>2, RoomAssumption, FS_Subset, FS_CardinalityType
    <3>2. \A i \in DOMAIN order : [op |-> "new", room |-> order[i]]
                                    \in [op : {"new"}, room : Room \ banned]
      BY <2>2, <2>3
    <3>3. DOMAIN order = 1 .. Cardinality(Head(down).rooms)
      BY <2>3
    <3> DEFINE n == Cardinality(Head(down).rooms)
               New == [op : {"new"}, room : Room \ banned]
               asked == [i \in DOMAIN order |-> [op |-> "new", room |-> order[i]]]
    <3>4. asked \in [1 .. n -> New]
      BY <3>2, <3>3
    <3> HIDE DEF n, New, asked
    <3>5. asked \in Seq(New)
      BY <3>1, <3>4 DEF n
    <3>6. QED
      BY <3>5 DEF New, asked
  <2>5. QED
    BY <1>1, <2>1, <2>3, <2>4, ReadAlive
<1>4. CASE ~ReadRooms
  <2>1. Head(down).op # "rooms" /\ up' = up
    BY <1>4 DEF Receiver, ReadRooms, ReadMessage, ReadNew, ReadOld, ReadDeleted, ReadCleared,
                ReadEnded, Read
  <2>2. screen' = "on"
    BY <1>1, <1>4, FirstLine
       DEF Receiver, ReadMessage, ReadNew, ReadOld, ReadDeleted, ReadCleared, ReadEnded,
           Read, Needs, NeedsRoom
  <2>3. \A r \in listed : r \in listed' \/ (Head(down).op = "ended" /\ Head(down).room = r)
    BY <1>4 DEF Receiver, ReadMessage, ReadNew, ReadOld, ReadDeleted, ReadCleared, ReadEnded,
                Read
  <2>4. QED
    BY <1>1, <1>2, <2>1, <2>2, <2>3, ReadAlive
<1>5. QED
  BY <1>3, <1>4

\* That the lines can be read is kept, in calm traffic.
LEMMA CalmAlive ==
  ASSUME Calm = TRUE
  PROVE  Spec => []Alive
<1>1. Init => Alive
  <2>1. Len(<<>>) = 0
    OBVIOUS
  <2>2. QED
    BY <2>1 DEF Init, Alive, Readable
<1>2. Inv /\ Alive /\ [Next]_vars => Alive'
  <2> SUFFICES ASSUME Inv, Alive, [Next]_vars PROVE Alive'
    OBVIOUS
  <2>1. CASE Others
    BY <2>1, OthersAlive DEF Others
  <2>2. CASE Tick
    BY <2>2 DEF Tick, client, Alive
  <2>3. CASE Handle
    BY <2>3, HandleAlive
  <2>4. CASE SignIn \/ Scroll
    BY <2>4, UserAlive
  <2>5. CASE Receiver
    BY <2>5, ReceiverAlive
  <2>6. CASE UNCHANGED vars
    BY <2>6 DEF vars, Alive
  <2>7. QED
    BY <2>1, <2>2, <2>3, <2>4, <2>5, <2>6 DEF Next
<1>3. QED
  BY <1>1, <1>2, Invariance, PTL DEF Spec

\* No handler of the client meets a room that is not in its list, in calm traffic:
\* nobody writes while the client opens its rooms, and no room ends before its page
\* of newest messages has come.
THEOREM CalmClientSurvives ==
  ASSUME Calm = TRUE
  PROVE  Spec => []ClientSurvives
<1>1. Alive => ClientSurvives
  BY DEF Alive, ClientSurvives
<1>2. QED
  BY <1>1, CalmAlive, PTL

-------------------------------------------------------------------------------
(* In calm traffic what is shown is one stretch.  What waits in down is what *)
(* will be shown, so both are taken together: place 0 is the list box of a   *)
(* room, w, and place i the line i of d.  An entry that no later line takes  *)
(* back is live.                                                             *)

\* What a line says of a room, and which entries it takes back.
Said(line, r) ==
  IF line.op = "message" /\ line.room = r THEN {line.msg}
  ELSE IF line.op \in {"new", "old"} /\ line.room = r THEN ToSet(line.page)
  ELSE {}

Kills(line, r, id) ==
  /\ line.op \in {"cleared", "ended", "deleted"} /\ line.room = r
  /\ line.op = "deleted" => line.id = id

At(d, w, r, i) == IF i = 0 THEN ToSet(w) ELSE Said(d[i], r)

\* A line between the places i and j takes the entry id of place i back.
Killed(d, r, id, i, j) == \E k \in i + 1 .. j - 1 : Kills(d[k], r, id)

LiveAt(d, w, r, e, i) == e \in At(d, w, r, i) /\ ~Killed(d, r, e.id, i, Len(d) + 1)

Live(d, w, r, e) == \E i \in 0 .. Len(d) : LiveAt(d, w, r, e, i)

Rising(s) == \A a, b \in 1 .. Len(s) : a < b => s[a].date < s[b].date /\ s[a].id # s[b].id
Falling(s) == \A a, b \in 1 .. Len(s) : a < b => s[b].date < s[a].date /\ s[a].id # s[b].id

\* How f, of the place j, stands to e, of the place i before it: older messages
\* are older than all others, and the others come in order of time.
Follows(d, r, i, j, e, f) ==
  /\ e.id # f.id \/ Killed(d, r, e.id, i, j)
  /\ d[j].op = "old" => f.date < e.date
  /\ d[j].op # "old" => e.date < f.date \/ (e.date = f.date /\ Killed(d, r, e.id, i, j))

InOrder(d, w, r) ==
  /\ Rising(w)
  /\ \A i \in 1 .. Len(d) : d[i].op \in {"new", "old"} => Falling(d[i].page)
  /\ \A i, j \in 0 .. Len(d) : i < j =>
       \A e \in At(d, w, r, i), f \in At(d, w, r, j) : Follows(d, r, i, j, e, f)

\* What is live is in the table ms ...
Kept(d, w, r, ms) ==
  \A i \in 0 .. Len(d) : \A e \in At(d, w, r, i) :
    LiveAt(d, w, r, e, i) => \E m \in ms : m.room = r /\ ShownAs(m) = e

\* ... and what is in the table since the date is live.
ShownSince(d, w, r, ms, date) ==
  \A m \in ms : m.room = r /\ m.date >= date => Live(d, w, r, ShownAs(m))

Whole(d, w, r, ms) ==
  \A i \in 0 .. Len(d) : \A e \in At(d, w, r, i) : ShownSince(d, w, r, ms, e.date)

\* A request for older messages asks for what is older than all that is live or shown.
Asked == \A u \in 1 .. Len(up) : up[u].op = "old" =>
  LET r == up[u].room IN
    /\ up[u].date <= now
    /\ \A i \in 0 .. Len(down) : \A e \in At(down, rows[r], r, i) : e.date >= up[u].date
    /\ r \in joined => ShownSince(down, rows[r], r, messages, up[u].date)

\* Ids and dates come in the same order.
Dates ==
  /\ \A m \in messages : m.date <= now
  /\ \A m, n \in messages : (m.id < n.id <=> m.date < n.date) /\ (m.id = n.id => m = n)
  /\ \A r \in Room : \A i \in 0 .. Len(down) : \A e \in At(down, rows[r], r, i) : e.date <= now

Stretched ==
  /\ \A r \in Room : InOrder(down, rows[r], r) /\ Kept(down, rows[r], r, messages)
  /\ \A r \in joined : Whole(down, rows[r], r, messages)

IsNew(line, r) == line.op = "new" /\ line.room = r
IsOld(line, r) == line.op = "old" /\ line.room = r

\* Nothing is said of the room in these places, and nothing older is asked for.
Silent(r, places) ==
  /\ \A i \in places : At(down, rows[r], r, i) = {}
  /\ \A u \in 1 .. Len(up) : ~IsOld(up[u], r)

\* The rooms, and what is new in each, are asked for once, before anything is said
\* of a room.
Opens ==
  /\ screen = "before" => \A r \in Room : rows[r] = <<>>
  /\ Opening => ~Among({"message"}, down)
  /\ Among({"rooms"}, up) \/ Among({"rooms"}, down) =>
       ~Among({"new"}, up) /\ ~Among({"new"}, down) /\ \A r \in Room : Silent(r, 0 .. Len(down))
  /\ \A u, v \in 1 .. Len(down) : down[u].op = "rooms" /\ down[v].op = "rooms" => u = v
  /\ ~(Among({"rooms"}, up) /\ Among({"rooms"}, down))
  /\ \A r \in Room :
       /\ \A u, v \in 1 .. Len(up) : IsNew(up[u], r) /\ IsNew(up[v], r) => u = v
       /\ \A u, v \in 1 .. Len(down) : IsNew(down[u], r) /\ IsNew(down[v], r) => u = v
       /\ \A u \in 1 .. Len(up) : IsNew(up[u], r) =>
            Silent(r, 0 .. Len(down)) /\ \A v \in 1 .. Len(down) : ~IsNew(down[v], r)
       /\ \A j \in 1 .. Len(down) : IsNew(down[j], r) => Silent(r, (0 .. Len(down)) \ {j})

\* One request for older messages is under way, and then the flag is set.
OneOld ==
  /\ \A u, v \in 1 .. Len(up) : up[u].op = "old" /\ up[v].op = "old" => u = v
  /\ \A u, v \in 1 .. Len(down) : down[u].op = "old" /\ down[v].op = "old" => u = v
  /\ ~(Among({"old"}, up) /\ Among({"old"}, down))
  /\ ~waiting => ~Among({"old"}, up) /\ ~Among({"old"}, down)

\* The stretch, with what it needs.
Scrolls == Stretched /\ Asked /\ Dates /\ Opens /\ OneOld

\* What is said is of the type of what is shown.
LEMMA SaidFacts ==
  ASSUME NEW line \in Reply, NEW r \in Room
  PROVE  Said(line, r) \subseteq Shown
<1>1. CASE line.op = "message"
  BY <1>1 DEF Said, Reply
<1>2. CASE line.op \in {"new", "old"}
  <2>1. line.page \in Seq(Shown)
    BY <1>2 DEF Reply
  <2>2. ToSet(line.page) \subseteq Shown
    BY <2>1 DEF ToSet
  <2>3. QED
    BY <1>2, <2>2 DEF Said
<1>3. QED
  BY <1>1, <1>2 DEF Said

LEMMA AtFacts ==
  ASSUME NEW d \in Seq(Reply), NEW w \in Seq(Shown), NEW r \in Room, NEW i \in 0 .. Len(d)
  PROVE  At(d, w, r, i) \subseteq Shown
<1>1. CASE i = 0
  BY <1>1 DEF At, ToSet
<1>2. CASE i # 0
  <2>1. d[i] \in Reply
    BY <1>2, LenProperties, ElementOfSeq
  <2>2. QED
    BY <1>2, <2>1, SaidFacts DEF At
<1>3. QED
  BY <1>1, <1>2

\* The places of e, which is d with a line at its end.
Lengthened(d, line, w, r, e) ==
  /\ Len(d) \in Nat /\ Len(e) = Len(d) + 1 /\ e[Len(d) + 1] = line
  /\ \A i \in 1 .. Len(d) : e[i] = d[i]
  /\ \A i \in 0 .. Len(d) : At(e, w, r, i) = At(d, w, r, i)
  /\ At(e, w, r, Len(d) + 1) = Said(line, r)
  /\ \A id : \A i, j \in 0 .. Len(d) + 1 : Killed(e, r, id, i, j) <=> Killed(d, r, id, i, j)
  /\ \A id : \A i \in 0 .. Len(d) :
       Killed(e, r, id, i, Len(e) + 1) <=> Killed(d, r, id, i, Len(d) + 1) \/ Kills(line, r, id)
  /\ \A id : ~Killed(e, r, id, Len(d) + 1, Len(e) + 1)

LEMMA PlacesAppended ==
  ASSUME NEW d \in Seq(Reply), NEW line \in Reply, NEW w, NEW r
  PROVE  Lengthened(d, line, w, r, Append(d, line))
<1> DEFINE e == Append(d, line)
<1>1. /\ Len(d) \in Nat /\ Len(e) = Len(d) + 1 /\ e[Len(d) + 1] = line
      /\ \A i \in 1 .. Len(d) : e[i] = d[i]
  BY LenProperties
<1> HIDE DEF e
<1>2. \A i \in 0 .. Len(d) : At(e, w, r, i) = At(d, w, r, i)
  BY <1>1 DEF At
<1>3. At(e, w, r, Len(d) + 1) = Said(line, r)
  BY <1>1 DEF At
<1>4. \A id : \A i, j \in 0 .. Len(d) + 1 : Killed(e, r, id, i, j) <=> Killed(d, r, id, i, j)
  BY <1>1 DEF Killed
<1>5. ASSUME NEW id, NEW i \in 0 .. Len(d)
      PROVE  Killed(e, r, id, i, Len(e) + 1) <=> Killed(d, r, id, i, Len(d) + 1) \/ Kills(line, r, id)
  <2>1. \A k : k \in i + 1 .. Len(e) + 1 - 1 <=> k \in i + 1 .. Len(d) + 1 - 1 \/ k = Len(d) + 1
    BY <1>1
  <2>2. QED
    BY <1>1, <2>1 DEF Killed
<1>6. \A id : ~Killed(e, r, id, Len(d) + 1, Len(e) + 1)
  BY <1>1 DEF Killed
<1>7. QED
  BY <1>1, <1>2, <1>3, <1>4, <1>5, <1>6 DEF Lengthened, e

\* What is live stays so, if the line does not take it back, and what it says is.
LEMMA LiveAppended ==
  ASSUME NEW d \in Seq(Reply), NEW line \in Reply, NEW w, NEW r, NEW x
  PROVE  /\ Live(d, w, r, x) /\ ~Kills(line, r, x.id) => Live(Append(d, line), w, r, x)
         /\ x \in Said(line, r) => Live(Append(d, line), w, r, x)
<1> DEFINE e == Append(d, line)
<1>0. e = Append(d, line)
  OBVIOUS
<1> HIDE DEF e
<1>1. Lengthened(d, line, w, r, e)
  BY <1>0, PlacesAppended
<1> USE DEF Lengthened
<1>2. ASSUME Live(d, w, r, x), ~Kills(line, r, x.id) PROVE Live(e, w, r, x)
  <2>1. PICK i \in 0 .. Len(d) : LiveAt(d, w, r, x, i)
    BY <1>2 DEF Live
  <2>2. i \in 0 .. Len(e) /\ LiveAt(e, w, r, x, i)
    BY <1>1, <1>2, <2>1 DEF LiveAt
  <2>3. QED
    BY <2>2 DEF Live
<1>3. ASSUME x \in Said(line, r) PROVE Live(e, w, r, x)
  <2>1. Len(d) + 1 \in 0 .. Len(e) /\ LiveAt(e, w, r, x, Len(d) + 1)
    BY <1>1, <1>3 DEF LiveAt
  <2>2. QED
    BY <2>1 DEF Live
<1>4. QED
  BY <1>2, <1>3 DEF e

\* The rest of the order, of what is kept and of what is whole, follows.
LEMMA InOrderAppended ==
  ASSUME NEW d \in Seq(Reply), NEW line \in Reply, NEW w, NEW r, InOrder(d, w, r),
         line.op \in {"new", "old"} => Falling(line.page),
         \A i \in 0 .. Len(d) : \A e \in At(d, w, r, i), f \in Said(line, r) :
           /\ e.id # f.id \/ Killed(d, r, e.id, i, Len(d) + 1)
           /\ line.op = "old" => f.date < e.date
           /\ line.op # "old" =>
                e.date < f.date \/ (e.date = f.date /\ Killed(d, r, e.id, i, Len(d) + 1))
  PROVE  InOrder(Append(d, line), w, r)
<1> DEFINE l == Append(d, line)
<1>0. l = Append(d, line)
  OBVIOUS
<1> HIDE DEF l
<1>1. Lengthened(d, line, w, r, l)
  BY <1>0, PlacesAppended
<1> USE DEF Lengthened
<1>2. \A i \in 1 .. Len(l) : l[i].op \in {"new", "old"} => Falling(l[i].page)
  <2>1. \A i \in 1 .. Len(l) : i \in 1 .. Len(d) \/ i = Len(d) + 1
    BY <1>1
  <2>2. QED
    BY <1>1, <2>1 DEF InOrder
<1>3. ASSUME NEW i \in 0 .. Len(l), NEW j \in 0 .. Len(l), i < j,
             NEW e \in At(l, w, r, i), NEW f \in At(l, w, r, j)
      PROVE  Follows(l, r, i, j, e, f)
  <2>1. i \in 0 .. Len(d) /\ e \in At(d, w, r, i) /\ j \in 1 .. Len(d) + 1
    BY <1>1, <1>3
  <2>2. Killed(l, r, e.id, i, j) <=> Killed(d, r, e.id, i, j)
    BY <1>1, <2>1
  <2>3. CASE j \in 1 .. Len(d)
    <3>1. f \in At(d, w, r, j) /\ l[j] = d[j] /\ j \in 0 .. Len(d)
      BY <1>1, <2>3
    <3>2. Follows(d, r, i, j, e, f)
      BY <1>3, <2>1, <3>1 DEF InOrder
    <3>3. QED
      BY <2>2, <3>1, <3>2 DEF Follows
  <2>4. CASE j = Len(d) + 1
    <3>1. f \in Said(line, r) /\ l[j] = line
      BY <1>1, <2>4
    <3>2. QED
      BY <2>1, <2>2, <2>4, <3>1 DEF Follows
  <2>5. QED
    BY <2>1, <2>3, <2>4, <1>1
<1>4. QED
  BY <1>2, <1>3 DEF InOrder, l

LEMMA KeptAppended ==
  ASSUME NEW d \in Seq(Reply), NEW line \in Reply, NEW w, NEW r, NEW ms, NEW ms2, Kept(d, w, r, ms),
         \A m \in ms : m.room = r /\ ~Kills(line, r, m.id) => m \in ms2,
         \A e \in Said(line, r) : \E m \in ms2 : m.room = r /\ ShownAs(m) = e
  PROVE  Kept(Append(d, line), w, r, ms2)
<1> DEFINE l == Append(d, line)
<1>0. l = Append(d, line)
  OBVIOUS
<1> HIDE DEF l
<1>1. Lengthened(d, line, w, r, l)
  BY <1>0, PlacesAppended
<1> USE DEF Lengthened
<1>2. ASSUME NEW i \in 0 .. Len(l), NEW e \in At(l, w, r, i), LiveAt(l, w, r, e, i)
      PROVE  \E m \in ms2 : m.room = r /\ ShownAs(m) = e
  <2>1. CASE i \in 0 .. Len(d)
    <3>1. e \in At(d, w, r, i) /\ LiveAt(d, w, r, e, i) /\ ~Kills(line, r, e.id)
      BY <1>1, <1>2, <2>1 DEF LiveAt
    <3>2. PICK m \in ms : m.room = r /\ ShownAs(m) = e
      BY <2>1, <3>1 DEF Kept
    <3>3. m.id = e.id
      BY <3>2 DEF ShownAs
    <3>4. QED
      BY <3>1, <3>2, <3>3
  <2>2. CASE i = Len(d) + 1
    BY <1>1, <1>2, <2>2
  <2>3. QED
    BY <1>1, <2>1, <2>2
<1>3. QED
  BY <1>2 DEF Kept, l

LEMMA ShownAppended ==
  ASSUME NEW d \in Seq(Reply), NEW line \in Reply, NEW w, NEW r, NEW ms, NEW ms2, NEW date,
         ShownSince(d, w, r, ms, date),
         \A m \in ms2 : m.room = r =>
           (m \in ms /\ ~Kills(line, r, m.id)) \/ ShownAs(m) \in Said(line, r)
  PROVE  ShownSince(Append(d, line), w, r, ms2, date)
<1>1. ASSUME NEW m \in ms2, m.room = r, m.date >= date
      PROVE  Live(Append(d, line), w, r, ShownAs(m))
  <2>1. CASE m \in ms /\ ~Kills(line, r, m.id)
    <3>1. Live(d, w, r, ShownAs(m)) /\ ShownAs(m).id = m.id
      BY <1>1, <2>1 DEF ShownSince, ShownAs
    <3>2. QED
      BY <2>1, <3>1, LiveAppended
  <2>2. CASE ShownAs(m) \in Said(line, r)
    BY <2>2, LiveAppended
  <2>3. QED
    BY <1>1, <2>1, <2>2
<1>2. QED
  BY <1>1 DEF ShownSince

LEMMA WholeAppended ==
  ASSUME NEW d \in Seq(Reply), NEW line \in Reply, NEW w, NEW r, NEW ms, NEW ms2,
         Whole(d, w, r, ms),
         \A m \in ms2 : m.room = r =>
           (m \in ms /\ ~Kills(line, r, m.id)) \/ ShownAs(m) \in Said(line, r),
         \A e \in Said(line, r) : ShownSince(Append(d, line), w, r, ms2, e.date)
  PROVE  Whole(Append(d, line), w, r, ms2)
<1> DEFINE l == Append(d, line)
<1>0. l = Append(d, line)
  OBVIOUS
<1> HIDE DEF l
<1>1. Lengthened(d, line, w, r, l)
  BY <1>0, PlacesAppended
<1> USE DEF Lengthened
<1>2. ASSUME NEW i \in 0 .. Len(l), NEW e \in At(l, w, r, i)
      PROVE  ShownSince(l, w, r, ms2, e.date)
  <2>1. CASE i \in 0 .. Len(d)
    <3>1. ShownSince(d, w, r, ms, e.date)
      BY <1>1, <2>1 DEF Whole
    <3>2. QED
      BY <1>0, <3>1, ShownAppended
  <2>2. CASE i = Len(d) + 1
    BY <1>0, <1>1, <2>2
  <2>3. QED
    BY <1>1, <2>1, <2>2
<1>3. QED
  BY <1>2 DEF Whole, l

\* The first line is read: what it says comes to be shown, what it takes back goes.
Takes(line, r, w, w2) ==
  ToSet(w2) = {x \in ToSet(w) : ~Kills(line, r, x.id)} \cup Said(line, r)

\* The places of l, which is d without its first line.
Shortened(d, r, w, w2, l) ==
  /\ Len(d) \in Nat \ {0} /\ Len(l) = Len(d) - 1 /\ d[1] = Head(d)
  /\ \A i \in 1 .. Len(l) : l[i] = d[i + 1]
  /\ \A i \in 1 .. Len(l) : At(l, w2, r, i) = At(d, w, r, i + 1)
  /\ \A x : x \in At(l, w2, r, 0) <=> \/ x \in At(d, w, r, 0) /\ ~Kills(d[1], r, x.id)
                                      \/ x \in At(d, w, r, 1)
  /\ \A id : \A i, j \in 0 .. Len(l) + 1 : Killed(l, r, id, i, j) <=> Killed(d, r, id, i + 1, j + 1)
  /\ \A id : \A j \in 0 .. Len(l) + 1 :
       Killed(d, r, id, 0, j + 1) <=> Killed(d, r, id, 1, j + 1) \/ (j # 0 /\ Kills(d[1], r, id))

LEMMA PlacesRead ==
  ASSUME NEW d \in Seq(Reply), d # <<>>, NEW w, NEW w2, NEW r, Takes(Head(d), r, w, w2)
  PROVE  Shortened(d, r, w, w2, Tail(d))
<1> DEFINE l == Tail(d)
<1>1. /\ Len(d) \in Nat \ {0} /\ Len(l) = Len(d) - 1 /\ d[1] = Head(d)
      /\ \A i \in 1 .. Len(l) : l[i] = d[i + 1]
  BY HeadTailProperties, LenProperties
<1> HIDE DEF l
<1>2. \A i \in 1 .. Len(l) : At(l, w2, r, i) = At(d, w, r, i + 1)
  BY <1>1 DEF At
<1>3. ASSUME NEW x
      PROVE  x \in At(l, w2, r, 0) <=> \/ x \in At(d, w, r, 0) /\ ~Kills(d[1], r, x.id)
                                       \/ x \in At(d, w, r, 1)
  BY <1>1 DEF At, Takes
<1>4. ASSUME NEW id, NEW i \in 0 .. Len(l) + 1, NEW j \in 0 .. Len(l) + 1
      PROVE  Killed(l, r, id, i, j) <=> Killed(d, r, id, i + 1, j + 1)
  <2>1. ASSUME Killed(l, r, id, i, j) PROVE Killed(d, r, id, i + 1, j + 1)
    <3>1. PICK k \in i + 1 .. j - 1 : Kills(l[k], r, id)
      BY <2>1 DEF Killed
    <3>2. k + 1 \in i + 1 + 1 .. j + 1 - 1 /\ l[k] = d[k + 1]
      BY <1>1
    <3>3. QED
      BY <3>1, <3>2 DEF Killed
  <2>2. ASSUME Killed(d, r, id, i + 1, j + 1) PROVE Killed(l, r, id, i, j)
    <3>1. PICK k \in i + 1 + 1 .. j + 1 - 1 : Kills(d[k], r, id)
      BY <2>2 DEF Killed
    <3>2. k - 1 \in i + 1 .. j - 1 /\ l[k - 1] = d[k]
      BY <1>1
    <3>3. QED
      BY <3>1, <3>2 DEF Killed
  <2>3. QED
    BY <2>1, <2>2
<1>5. ASSUME NEW id, NEW j \in 0 .. Len(l) + 1
      PROVE  Killed(d, r, id, 0, j + 1)
               <=> Killed(d, r, id, 1, j + 1) \/ (j # 0 /\ Kills(d[1], r, id))
  <2>1. \A k : k \in 0 + 1 .. j + 1 - 1 <=> k \in 1 + 1 .. j + 1 - 1 \/ (j # 0 /\ k = 1)
    BY <1>1
  <2>2. QED
    BY <2>1 DEF Killed
<1>6. QED
  BY <1>1, <1>2, <1>3, <1>4, <1>5 DEF Shortened, l

\* Reading a line makes nothing live, and leaves what is live as it is.
LEMMA LiveRead ==
  ASSUME NEW d \in Seq(Reply), d # <<>>, NEW w, NEW w2, NEW r, Takes(Head(d), r, w, w2), NEW x
  PROVE  Live(Tail(d), w2, r, x) <=> Live(d, w, r, x)
<1> DEFINE l == Tail(d)
<1>1. Shortened(d, r, w, w2, l)
  BY PlacesRead
<1> HIDE DEF l
<1> USE DEF Shortened
<1>2. ASSUME Live(l, w2, r, x) PROVE Live(d, w, r, x)
  <2>1. PICK i \in 0 .. Len(l) : LiveAt(l, w2, r, x, i)
    BY <1>2 DEF Live
  <2>2. i + 1 \in 0 .. Len(d) /\ 0 \in 0 .. Len(d) /\ Len(l) + 1 \in 0 .. Len(l) + 1 /\ Len(d) = Len(l) + 1
    BY <1>1
  <2>3. ~Killed(d, r, x.id, i + 1, Len(d) + 1)
    BY <1>1, <2>1, <2>2 DEF LiveAt
  <2>4. CASE i # 0 \/ x \in At(d, w, r, 1)
    <3>1. LiveAt(d, w, r, x, i + 1)
      BY <1>1, <2>1, <2>3, <2>4 DEF LiveAt
    <3>2. QED
      BY <2>2, <3>1 DEF Live
  <2>5. CASE i = 0 /\ x \notin At(d, w, r, 1)
    <3>1. x \in At(d, w, r, 0) /\ ~Kills(d[1], r, x.id)
      BY <1>1, <2>1, <2>5 DEF LiveAt
    <3>2. ~Killed(d, r, x.id, 0, Len(d) + 1)
      BY <1>1, <2>2, <2>3, <2>5, <3>1
    <3>3. QED
      BY <2>2, <3>1, <3>2 DEF Live, LiveAt
  <2>6. QED
    BY <2>4, <2>5
<1>3. ASSUME Live(d, w, r, x) PROVE Live(l, w2, r, x)
  <2>1. PICK i \in 0 .. Len(d) : LiveAt(d, w, r, x, i)
    BY <1>3 DEF Live
  <2>2. Len(l) + 1 \in 0 .. Len(l) + 1 /\ Len(d) = Len(l) + 1 /\ 0 \in 0 .. Len(l)
    BY <1>1
  <2>3. CASE i = 0
    <3>1. ~Killed(d, r, x.id, 1, Len(d) + 1) /\ ~Kills(d[1], r, x.id) /\ x \in At(d, w, r, 0)
      BY <1>1, <2>1, <2>2, <2>3 DEF LiveAt
    <3>2. ~Killed(l, r, x.id, 0, Len(l) + 1)
      <4>1. Killed(l, r, x.id, 0, Len(l) + 1) <=> Killed(d, r, x.id, 0 + 1, Len(l) + 1 + 1)
        BY <1>1, <2>2
      <4>2. QED
        BY <2>2, <3>1, <4>1
    <3>3. LiveAt(l, w2, r, x, 0)
      BY <1>1, <3>1, <3>2 DEF LiveAt
    <3>4. QED
      BY <2>2, <3>3 DEF Live
  <2>4. CASE i # 0
    <3>1. i - 1 \in 0 .. Len(l) /\ i = i - 1 + 1
      BY <1>1, <2>4
    <3>2. Killed(l, r, x.id, i - 1, Len(l) + 1) <=> Killed(d, r, x.id, i - 1 + 1, Len(l) + 1 + 1)
      BY <1>1, <2>2, <3>1
    <3>3. ~Killed(l, r, x.id, i - 1, Len(l) + 1)
      BY <2>1, <2>2, <3>1, <3>2 DEF LiveAt
    <3>4. x \in At(l, w2, r, i - 1)
      <4>1. CASE i = 1
        BY <1>1, <2>1, <4>1 DEF LiveAt
      <4>2. CASE i # 1
        <5>1. i - 1 \in 1 .. Len(l)
          BY <1>1, <2>4, <4>2
        <5>2. At(l, w2, r, i - 1) = At(d, w, r, i - 1 + 1)
          BY <1>1, <5>1
        <5>3. QED
          BY <2>1, <3>1, <5>2 DEF LiveAt
      <4>3. QED
        BY <4>1, <4>2
    <3>5. QED
      BY <3>1, <3>3, <3>4 DEF Live, LiveAt
  <2>5. QED
    BY <2>3, <2>4
<1>4. QED
  BY <1>2, <1>3 DEF l

\* An entry was in the place after, or it was shown.
LEMMA PlaceBefore ==
  ASSUME NEW d \in Seq(Reply), d # <<>>, NEW w, NEW w2, NEW r, Takes(Head(d), r, w, w2),
         NEW i \in 0 .. Len(Tail(d)), NEW e \in At(Tail(d), w2, r, i)
  PROVE  \/ i + 1 \in 1 .. Len(d) /\ e \in At(d, w, r, i + 1)
         \/ i = 0 /\ 0 \in 0 .. Len(d) /\ e \in At(d, w, r, 0) /\ ~Kills(d[1], r, e.id)
<1>1. Shortened(d, r, w, w2, Tail(d))
  BY PlacesRead
<1>2. CASE i = 0
  BY <1>1, <1>2 DEF Shortened
<1>3. CASE i # 0
  <2>1. i \in 1 .. Len(Tail(d)) /\ i + 1 \in 1 .. Len(d)
    BY <1>1, <1>3 DEF Shortened
  <2>2. QED
    BY <1>1, <2>1 DEF Shortened
<1>4. QED
  BY <1>2, <1>3

LEMMA InOrderRead ==
  ASSUME NEW d \in Seq(Reply), d # <<>>, NEW w, NEW w2, NEW r, Takes(Head(d), r, w, w2),
         InOrder(d, w, r), Rising(w2)
  PROVE  InOrder(Tail(d), w2, r)
<1> DEFINE l == Tail(d)
<1>1. Shortened(d, r, w, w2, l)
  BY PlacesRead
<1>2. ASSUME NEW i \in 0 .. Len(l), NEW e \in At(l, w2, r, i)
      PROVE  \/ i + 1 \in 1 .. Len(d) /\ e \in At(d, w, r, i + 1)
             \/ i = 0 /\ 0 \in 0 .. Len(d) /\ e \in At(d, w, r, 0) /\ ~Kills(d[1], r, e.id)
  BY PlaceBefore
<1> HIDE DEF l
<1> USE DEF Shortened
<1>3. \A i \in 1 .. Len(l) : l[i].op \in {"new", "old"} => Falling(l[i].page)
  <2>1. ASSUME NEW i \in 1 .. Len(l) PROVE i + 1 \in 1 .. Len(d) /\ l[i] = d[i + 1]
    BY <1>1
  <2>2. QED
    BY <2>1 DEF InOrder
<1>4. ASSUME NEW i \in 0 .. Len(l), NEW j \in 0 .. Len(l), i < j,
             NEW e \in At(l, w2, r, i), NEW f \in At(l, w2, r, j)
      PROVE  Follows(l, r, i, j, e, f)
  <2>1. j \in 1 .. Len(l) /\ j + 1 \in 0 .. Len(d) /\ l[j] = d[j + 1] /\ f \in At(d, w, r, j + 1)
    BY <1>1, <1>2, <1>4
  <2>2. Killed(l, r, e.id, i, j) <=> Killed(d, r, e.id, i + 1, j + 1)
    <3>1. i \in 0 .. Len(l) + 1 /\ j \in 0 .. Len(l) + 1
      BY <1>1
    <3>2. QED
      BY <1>1, <3>1
  <2>3. CASE i + 1 \in 1 .. Len(d) /\ e \in At(d, w, r, i + 1)
    <3>1. i + 1 \in 0 .. Len(d) /\ i + 1 < j + 1
      BY <1>4, <2>3
    <3>2. Follows(d, r, i + 1, j + 1, e, f)
      BY <2>1, <2>3, <3>1 DEF InOrder
    <3>3. QED
      BY <2>1, <2>2, <3>2 DEF Follows
  <2>4. CASE i = 0 /\ 0 \in 0 .. Len(d) /\ e \in At(d, w, r, 0) /\ ~Kills(d[1], r, e.id)
    <3>1. 0 < j + 1
      BY <2>1
    <3>2. Follows(d, r, 0, j + 1, e, f)
      BY <2>1, <2>4, <3>1 DEF InOrder
    <3>3. Killed(d, r, e.id, 0, j + 1) <=> Killed(d, r, e.id, 1, j + 1)
      BY <1>1, <2>1, <2>4
    <3>4. QED
      BY <2>1, <2>2, <2>4, <3>2, <3>3 DEF Follows
  <2>5. QED
    BY <1>2, <2>3, <2>4
<1>5. QED
  BY <1>3, <1>4 DEF InOrder, l

LEMMA KeptRead ==
  ASSUME NEW d \in Seq(Reply), d # <<>>, NEW w, NEW w2, NEW r, Takes(Head(d), r, w, w2),
         NEW ms, Kept(d, w, r, ms)
  PROVE  Kept(Tail(d), w2, r, ms)
<1> DEFINE l == Tail(d)
<1>1. ASSUME NEW i \in 0 .. Len(l), NEW e \in At(l, w2, r, i), LiveAt(l, w2, r, e, i)
      PROVE  \E m \in ms : m.room = r /\ ShownAs(m) = e
  <2>1. Live(l, w2, r, e)
    BY <1>1 DEF Live
  <2>2. Live(d, w, r, e)
    BY <2>1, LiveRead
  <2>3. PICK k \in 0 .. Len(d) : LiveAt(d, w, r, e, k)
    BY <2>2 DEF Live
  <2>4. QED
    BY <2>3 DEF Kept, LiveAt
<1>2. QED
  BY <1>1 DEF Kept

LEMMA ShownRead ==
  ASSUME NEW d \in Seq(Reply), d # <<>>, NEW w, NEW w2, NEW r, Takes(Head(d), r, w, w2),
         NEW ms, NEW date, ShownSince(d, w, r, ms, date)
  PROVE  ShownSince(Tail(d), w2, r, ms, date)
BY LiveRead DEF ShownSince

LEMMA WholeRead ==
  ASSUME NEW d \in Seq(Reply), d # <<>>, NEW w, NEW w2, NEW r, Takes(Head(d), r, w, w2),
         NEW ms, Whole(d, w, r, ms)
  PROVE  Whole(Tail(d), w2, r, ms)
<1>1. ASSUME NEW i \in 0 .. Len(Tail(d)), NEW e \in At(Tail(d), w2, r, i)
      PROVE  ShownSince(d, w, r, ms, e.date)
  <2>1. CASE i + 1 \in 1 .. Len(d) /\ e \in At(d, w, r, i + 1)
    <3>1. i + 1 \in 0 .. Len(d)
      BY <2>1
    <3>2. QED
      BY <2>1, <3>1 DEF Whole
  <2>2. CASE 0 \in 0 .. Len(d) /\ e \in At(d, w, r, 0)
    BY <2>2 DEF Whole
  <2>3. QED
    BY <2>1, <2>2, PlaceBefore
<1>2. QED
  BY <1>1, ShownRead DEF Whole

-------------------------------------------------------------------------------
(* What the client shows, as sequences.                                    *)

LEMMA ToSetFacts ==
  ASSUME NEW s \in Seq(Shown), NEW x
  PROVE  x \in ToSet(s) <=> \E i \in 1 .. Len(s) : x = s[i]
BY DEF ToSet

LEMMA ReverseRises ==
  ASSUME NEW s \in Seq(Shown), Falling(s)
  PROVE  Rising(Reverse(s)) /\ ToSet(Reverse(s)) = ToSet(s) /\ Reverse(s) \in Seq(Shown)
<1> DEFINE t == Reverse(s)
<1>1. /\ Len(s) \in Nat /\ t \in Seq(Shown) /\ Len(t) = Len(s)
      /\ DOMAIN s = 1 .. Len(s) /\ DOMAIN t = 1 .. Len(s)
      /\ \A i \in 1 .. Len(s) : t[i] = s[Len(s) - i + 1]
  BY ReverseFacts, LenProperties DEF Reverse
<1> HIDE DEF t
<1>2. \A i \in 1 .. Len(s) : Len(s) - i + 1 \in 1 .. Len(s) /\ t[Len(s) - i + 1] = s[i]
  BY <1>1
<1>3. ASSUME NEW a \in 1 .. Len(t), NEW b \in 1 .. Len(t), a < b
      PROVE  t[a].date < t[b].date /\ t[a].id # t[b].id
  <2>1. Len(s) - b + 1 \in 1 .. Len(s) /\ Len(s) - a + 1 \in 1 .. Len(s)
        /\ Len(s) - b + 1 < Len(s) - a + 1
    BY <1>1, <1>3
  <2>2. QED
    BY <1>1, <1>3, <2>1 DEF Falling
<1>4. ToSet(t) = ToSet(s)
  <2>1. ASSUME NEW x \in ToSet(t) PROVE x \in ToSet(s)
    <3>1. PICK i \in 1 .. Len(t) : x = t[i]
      BY <1>1, <2>1, ToSetFacts
    <3>2. Len(s) - i + 1 \in 1 .. Len(s) /\ x = s[Len(s) - i + 1]
      BY <1>1, <3>1
    <3>3. QED
      BY <3>2, ToSetFacts
  <2>2. ASSUME NEW x \in ToSet(s) PROVE x \in ToSet(t)
    <3>1. PICK i \in 1 .. Len(s) : x = s[i]
      BY <2>2, ToSetFacts
    <3>2. Len(s) - i + 1 \in 1 .. Len(t) /\ x = t[Len(s) - i + 1]
      BY <1>1, <1>2, <3>1
    <3>3. QED
      BY <1>1, <3>2, ToSetFacts
  <2>3. QED
    BY <2>1, <2>2
<1>5. QED
  BY <1>1, <1>3, <1>4 DEF Rising, t

LEMMA ConcatRises ==
  ASSUME NEW s \in Seq(Shown), NEW t \in Seq(Shown), Rising(s), Rising(t),
         \A e \in ToSet(s), f \in ToSet(t) : e.date < f.date /\ e.id # f.id
  PROVE  Rising(s \o t) /\ ToSet(s \o t) = ToSet(s) \cup ToSet(t)
<1> DEFINE u == s \o t
<1>1. /\ Len(s) \in Nat /\ Len(t) \in Nat /\ Len(u) = Len(s) + Len(t) /\ u \in Seq(Shown)
      /\ \A i \in 1 .. Len(u) : u[i] = IF i <= Len(s) THEN s[i] ELSE t[i - Len(s)]
      /\ DOMAIN s = 1 .. Len(s) /\ DOMAIN t = 1 .. Len(t) /\ DOMAIN u = 1 .. Len(u)
  BY ConcatProperties, LenProperties
<1> HIDE DEF u
<1>2. \A i \in 1 .. Len(s) : i \in 1 .. Len(u) /\ u[i] = s[i] /\ s[i] \in ToSet(s)
  BY <1>1, ToSetFacts
<1>3. \A i \in 1 .. Len(t) : i + Len(s) \in 1 .. Len(u) /\ u[i + Len(s)] = t[i] /\ t[i] \in ToSet(t)
  <2>1. TAKE i \in 1 .. Len(t)
  <2>2. i + Len(s) \in 1 .. Len(u) /\ ~(i + Len(s) <= Len(s)) /\ i + Len(s) - Len(s) = i
    BY <1>1
  <2>3. u[i + Len(s)] = t[i]
    BY <1>1, <2>2
  <2>4. t[i] \in ToSet(t)
    BY ToSetFacts
  <2>5. QED
    BY <2>2, <2>3, <2>4
<1>4. \A i \in 1 .. Len(u) : i \in 1 .. Len(s) \/ i - Len(s) \in 1 .. Len(t)
  BY <1>1
<1>5. ToSet(u) = ToSet(s) \cup ToSet(t)
  <2>1. ASSUME NEW x \in ToSet(u) PROVE x \in ToSet(s) \cup ToSet(t)
    <3>1. PICK i \in 1 .. Len(u) : x = u[i]
      BY <1>1, <2>1, ToSetFacts
    <3>2. CASE i \in 1 .. Len(s)
      BY <1>2, <3>1, <3>2
    <3>3. CASE i - Len(s) \in 1 .. Len(t)
      <4>1. i - Len(s) + Len(s) = i
        BY <1>1
      <4>2. QED
        BY <1>3, <3>1, <3>3, <4>1
    <3>4. QED
      BY <1>4, <3>2, <3>3
  <2>2. ASSUME NEW x \in ToSet(s) \cup ToSet(t) PROVE x \in ToSet(u)
    <3>1. CASE x \in ToSet(s)
      <4>1. PICK i \in 1 .. Len(s) : x = s[i]
        BY <3>1, ToSetFacts
      <4>2. QED
        BY <1>1, <1>2, <4>1, ToSetFacts
    <3>2. CASE x \in ToSet(t)
      <4>1. PICK i \in 1 .. Len(t) : x = t[i]
        BY <3>2, ToSetFacts
      <4>2. i + Len(s) \in 1 .. Len(u) /\ x = u[i + Len(s)]
        BY <1>3, <4>1
      <4>3. QED
        BY <1>1, <4>2, ToSetFacts
    <3>3. QED
      BY <2>2, <3>1, <3>2
  <2>3. QED
    BY <2>1, <2>2
<1>6. ASSUME NEW a \in 1 .. Len(u), NEW b \in 1 .. Len(u), a < b
      PROVE  u[a].date < u[b].date /\ u[a].id # u[b].id
  <2>1. CASE b \in 1 .. Len(s)
    <3>1. a \in 1 .. Len(s)
      BY <1>1, <1>6, <2>1
    <3>2. QED
      BY <1>2, <1>6, <2>1, <3>1 DEF Rising
  <2>2. CASE a \notin 1 .. Len(s)
    <3>1. a - Len(s) \in 1 .. Len(t) /\ b - Len(s) \in 1 .. Len(t) /\ a - Len(s) < b - Len(s)
      BY <1>1, <1>6, <2>2
    <3>2. u[a] = t[a - Len(s)] /\ u[b] = t[b - Len(s)]
      BY <1>1, <2>2, <1>6, <3>1
    <3>3. QED
      BY <3>1, <3>2 DEF Rising
  <2>3. CASE a \in 1 .. Len(s) /\ b \notin 1 .. Len(s)
    <3>1. b - Len(s) \in 1 .. Len(t) /\ u[b] = t[b - Len(s)]
      BY <1>1, <2>3, <1>6
    <3>2. QED
      BY <1>2, <1>3, <2>3, <3>1
  <2>4. QED
    BY <2>1, <2>2, <2>3
<1>7. QED
  BY <1>5, <1>6 DEF Rising, u

\* A part of a rising sequence rises.
LEMMA SubSeqRises ==
  ASSUME NEW s \in Seq(Shown), Rising(s), NEW a \in 1 .. Len(s) + 1, NEW b \in a - 1 .. Len(s)
  PROVE  /\ Rising(SubSeq(s, a, b)) /\ SubSeq(s, a, b) \in Seq(Shown)
         /\ ToSet(SubSeq(s, a, b)) = {s[i] : i \in a .. b}
<1> DEFINE t == SubSeq(s, a, b)
<1>1. /\ Len(s) \in Nat /\ t \in Seq(Shown) /\ Len(t) = b - a + 1
      /\ DOMAIN t = 1 .. b - a + 1
      /\ \A i \in 1 .. b - a + 1 : t[i] = s[a + i - 1]
  BY SubSeqProperties, LenProperties
<1> HIDE DEF t
<1>2. \A i \in 1 .. b - a + 1 : a + i - 1 \in a .. b /\ a + i - 1 \in 1 .. Len(s)
  BY <1>1
<1>3. Rising(t)
  <2>1. ASSUME NEW i \in 1 .. Len(t), NEW j \in 1 .. Len(t), i < j
        PROVE  t[i].date < t[j].date /\ t[i].id # t[j].id
    <3>1. a + i - 1 < a + j - 1
      BY <1>1, <2>1
    <3>2. /\ a + i - 1 \in 1 .. Len(s) /\ a + j - 1 \in 1 .. Len(s)
          /\ t[i] = s[a + i - 1] /\ t[j] = s[a + j - 1]
      BY <1>1, <1>2, <2>1
    <3>3. QED
      BY <3>1, <3>2 DEF Rising
  <2>2. QED
    BY <2>1 DEF Rising
<1>4. ToSet(t) = {s[i] : i \in a .. b}
  <2>1. \A i \in a .. b : i - a + 1 \in 1 .. b - a + 1 /\ t[i - a + 1] = s[i]
    BY <1>1
  <2>2. \A x \in ToSet(t) : \E i \in a .. b : x = s[i]
    <3>1. ASSUME NEW x \in ToSet(t) PROVE \E i \in a .. b : x = s[i]
      <4>1. PICK i \in 1 .. Len(t) : x = t[i]
        BY <1>1, <3>1, ToSetFacts
      <4>2. a + i - 1 \in a .. b /\ x = s[a + i - 1]
        BY <1>1, <1>2, <4>1
      <4>3. QED
        BY <4>2
    <3>2. QED
      BY <3>1
  <2>3. \A i \in a .. b : s[i] \in ToSet(t)
    BY <1>1, <2>1, ToSetFacts
  <2>4. QED
    BY <2>2, <2>3
<1>5. QED
  BY <1>1, <1>3, <1>4 DEF t

LEMMA RemoveRises ==
  ASSUME NEW s \in Seq(Shown), Rising(s), NEW i \in 1 .. Len(s)
  PROVE  /\ Rising(RemoveAt(s, i))
         /\ ToSet(RemoveAt(s, i)) = {x \in ToSet(s) : x.id # s[i].id}
<1>1. Len(s) \in Nat /\ DOMAIN s = 1 .. Len(s) /\ \A j \in 1 .. Len(s) : s[j] \in Shown
  BY LenProperties, ElementOfSeq
<1> DEFINE p == SubSeq(s, 1, i - 1)  q == SubSeq(s, i + 1, Len(s))
<1>2. Rising(p) /\ p \in Seq(Shown) /\ ToSet(p) = {s[j] : j \in 1 .. i - 1}
  <2>1. 1 \in 1 .. Len(s) + 1 /\ i - 1 \in 1 - 1 .. Len(s)
    BY <1>1
  <2>2. QED
    BY <2>1, SubSeqRises
<1>3. Rising(q) /\ q \in Seq(Shown) /\ ToSet(q) = {s[j] : j \in i + 1 .. Len(s)}
  <2>1. i + 1 \in 1 .. Len(s) + 1 /\ Len(s) \in i + 1 - 1 .. Len(s)
    BY <1>1
  <2>2. QED
    BY <2>1, SubSeqRises
<1>4. RemoveAt(s, i) = p \o q
  BY Zenon DEF RemoveAt
<1> HIDE DEF p, q
<1>5. \A e \in ToSet(p), f \in ToSet(q) : e.date < f.date /\ e.id # f.id
  <2>1. ASSUME NEW j \in 1 .. i - 1, NEW k \in i + 1 .. Len(s)
        PROVE  s[j].date < s[k].date /\ s[j].id # s[k].id
    <3>1. j \in 1 .. Len(s) /\ k \in 1 .. Len(s) /\ j < k
      BY <1>1
    <3>2. QED
      BY <3>1 DEF Rising
  <2>2. QED
    BY <1>2, <1>3, <2>1
<1>6. Rising(p \o q) /\ ToSet(p \o q) = ToSet(p) \cup ToSet(q)
  BY <1>2, <1>3, <1>5, ConcatRises
<1>7. \A j \in 1 .. Len(s) : s[j].id # s[i].id <=> j \in 1 .. i - 1 \/ j \in i + 1 .. Len(s)
  <2>1. ASSUME NEW j \in 1 .. Len(s), j # i PROVE s[j].id # s[i].id
    <3>1. j < i \/ i < j
      BY <1>1, <2>1
    <3>2. QED
      BY <3>1 DEF Rising
  <2>2. \A j \in 1 .. Len(s) : j # i <=> j \in 1 .. i - 1 \/ j \in i + 1 .. Len(s)
    BY <1>1
  <2>3. QED
    BY <2>1, <2>2
<1>8. \A j : j \in 1 .. i - 1 \/ j \in i + 1 .. Len(s) => j \in 1 .. Len(s)
  BY <1>1
<1>9. ToSet(p) \cup ToSet(q) = {x \in ToSet(s) : x.id # s[i].id}
  BY <1>1, <1>2, <1>3, <1>7, <1>8 DEF ToSet
<1>10. QED
  BY <1>4, <1>6, <1>9

\* What the first line says follows what is shown, or comes before it.
LEMMA FirstSaid ==
  ASSUME Inv, NEW r \in Room, InOrder(down, rows[r], r), down # <<>>,
         NEW e \in ToSet(rows[r]), NEW f \in Said(Head(down), r)
  PROVE  /\ e.id # f.id
         /\ Head(down).op = "old" => f.date < e.date
         /\ Head(down).op # "old" => e.date < f.date
<1>1. down \in Seq(Reply)
  BY DEF Inv, TypeOK
<1>2. 0 \in 0 .. Len(down) /\ 1 \in 0 .. Len(down) /\ 1 \in 1 .. Len(down) /\ down[1] = Head(down)
  BY <1>1, HeadTailProperties, LenProperties
<1>3. e \in At(down, rows[r], r, 0) /\ f \in At(down, rows[r], r, 1)
  BY <1>2 DEF At
<1>4. Follows(down, r, 0, 1, e, f)
  BY <1>2, <1>3 DEF InOrder
<1>5. ~Killed(down, r, e.id, 0, 1)
  BY DEF Killed
<1>6. QED
  BY <1>2, <1>4, <1>5 DEF Follows

\* One entry, as a sequence.
LEMMA OneRises ==
  ASSUME NEW m \in Shown
  PROVE  <<m>> \in Seq(Shown) /\ Rising(<<m>>) /\ ToSet(<<m>>) = {m}
<1> DEFINE s == <<m>>
<1>1. s \in Seq(Shown) /\ Len(s) = 1 /\ s[1] = m
  OBVIOUS
<1> HIDE DEF s
<1>2. ASSUME NEW x PROVE x \in ToSet(s) <=> x = m
  BY <1>1, ToSetFacts
<1>3. QED
  BY <1>1, <1>2 DEF Rising, s

LEMMA NoneRises == Rising(<<>>) /\ ToSet(<<>>) = {} /\ <<>> \in Seq(Shown)
<1> DEFINE s == <<>>
<1>1. s \in Seq(Shown) /\ Len(s) = 0
  OBVIOUS
<1> HIDE DEF s
<1>2. ASSUME NEW x, x \in ToSet(s) PROVE FALSE
  <2>1. s \in Seq(Shown)
    BY <1>1
  <2>2. \E i \in 1 .. Len(s) : x = s[i]
    BY <1>2, <2>1, ToSetFacts
  <2>3. QED
    BY <1>1, <2>2
<1>3. QED
  BY <1>1, <1>2 DEF Rising, s

\* A room's rows after the first line, where it is about the room.
LEMMA ReadShows ==
  ASSUME Inv, \A r \in Room : InOrder(down, rows[r], r), Receiver,
         ~ReadRooms, NEW q, q = Head(down).room
  PROVE  /\ q \in Room /\ \A r \in Room : r # q => rows'[r] = rows[r]
         /\ Takes(Head(down), q, rows[q], rows'[q]) /\ Rising(rows'[q])
<1> DEFINE line == Head(down)
<1>1. /\ down \in Seq(Reply) /\ down # <<>> /\ line \in Reply /\ rows \in [Room -> Seq(Shown)]
      /\ 1 \in 1 .. Len(down) /\ down[1] = line /\ line.op # "rooms"
  BY HeadTailProperties, LenProperties
     DEF Inv, TypeOK, Receiver, ReadMessage, ReadNew, ReadOld, ReadDeleted, ReadCleared, ReadEnded, Read
<1>2. q \in Room
  BY <1>1 DEF Reply
<1>3. InOrder(down, rows[q], q) /\ Rising(rows[q]) /\ rows[q] \in Seq(Shown)
  BY <1>1, <1>2 DEF InOrder
<1>4. line.op \in {"new", "old"} => Falling(line.page)
  BY <1>1, <1>3 DEF InOrder
<1>5. \A e \in ToSet(rows[q]), f \in Said(line, q) :
        /\ e.id # f.id
        /\ line.op = "old" => f.date < e.date
        /\ line.op # "old" => e.date < f.date
  BY <1>1, <1>2, <1>3, FirstSaid
<1>6. ASSUME NEW new, Show(q, new)
      PROVE  rows'[q] = new /\ \A r \in Room : r # q => rows'[r] = rows[r]
  BY <1>1, <1>2, <1>6 DEF Show
<1>7. CASE ReadMessage
  <2>1. line.op = "message" /\ Show(q, Append(rows[q], line.msg))
    BY <1>7 DEF ReadMessage, Read
  <2>2. line.msg \in Shown /\ Said(line, q) = {line.msg} /\ \A id : ~Kills(line, q, id)
    BY <1>1, <2>1 DEF Reply, Said, Kills
  <2>3. Append(rows[q], line.msg) = rows[q] \o <<line.msg>>
    BY <1>3, <2>2, AppendIsConcat
  <2>4. <<line.msg>> \in Seq(Shown) /\ Rising(<<line.msg>>) /\ ToSet(<<line.msg>>) = {line.msg}
    BY <2>2, OneRises
  <2>5. /\ Rising(rows[q] \o <<line.msg>>)
        /\ ToSet(rows[q] \o <<line.msg>>) = ToSet(rows[q]) \cup {line.msg}
    <3>1. \A e \in ToSet(rows[q]), f \in ToSet(<<line.msg>>) : e.date < f.date /\ e.id # f.id
      BY <1>5, <2>1, <2>2, <2>4
    <3>2. QED
      BY <1>3, <2>4, <3>1, ConcatRises
  <2>6. rows'[q] = rows[q] \o <<line.msg>> /\ \A r \in Room : r # q => rows'[r] = rows[r]
    BY <1>6, <2>1, <2>3
  <2>7. QED
    BY <1>2, <2>2, <2>5, <2>6 DEF Takes
<1>8. CASE ReadNew
  <2>1. line.op = "new" /\ Show(q, rows[q] \o Reverse(line.page))
    BY <1>8 DEF ReadNew, Read
  <2>2. line.page \in Seq(Shown) /\ Said(line, q) = ToSet(line.page) /\ \A id : ~Kills(line, q, id)
    BY <1>1, <2>1 DEF Reply, Said, Kills
  <2>3. /\ Rising(Reverse(line.page)) /\ ToSet(Reverse(line.page)) = ToSet(line.page)
        /\ Reverse(line.page) \in Seq(Shown)
    BY <1>4, <2>1, <2>2, ReverseRises
  <2>4. /\ Rising(rows[q] \o Reverse(line.page))
        /\ ToSet(rows[q] \o Reverse(line.page)) = ToSet(rows[q]) \cup ToSet(line.page)
    <3>1. \A e \in ToSet(rows[q]), f \in ToSet(Reverse(line.page)) : e.date < f.date /\ e.id # f.id
      BY <1>5, <2>1, <2>2, <2>3
    <3>2. QED
      BY <1>3, <2>3, <3>1, ConcatRises
  <2>5. rows'[q] = rows[q] \o Reverse(line.page) /\ \A r \in Room : r # q => rows'[r] = rows[r]
    BY <1>6, <2>1
  <2>6. QED
    BY <1>2, <2>2, <2>4, <2>5 DEF Takes
<1>9. CASE ReadOld
  <2>1. line.op = "old" /\ Show(q, Reverse(line.page) \o rows[q])
    BY <1>9 DEF ReadOld, Read
  <2>2. line.page \in Seq(Shown) /\ Said(line, q) = ToSet(line.page) /\ \A id : ~Kills(line, q, id)
    BY <1>1, <2>1 DEF Reply, Said, Kills
  <2>3. /\ Rising(Reverse(line.page)) /\ ToSet(Reverse(line.page)) = ToSet(line.page)
        /\ Reverse(line.page) \in Seq(Shown)
    BY <1>4, <2>1, <2>2, ReverseRises
  <2>4. /\ Rising(Reverse(line.page) \o rows[q])
        /\ ToSet(Reverse(line.page) \o rows[q]) = ToSet(line.page) \cup ToSet(rows[q])
    <3>1. \A f \in ToSet(Reverse(line.page)), e \in ToSet(rows[q]) : f.date < e.date /\ f.id # e.id
      BY <1>5, <2>1, <2>2, <2>3
    <3>2. QED
      BY <1>3, <2>3, <3>1, ConcatRises
  <2>5. rows'[q] = Reverse(line.page) \o rows[q] /\ \A r \in Room : r # q => rows'[r] = rows[r]
    BY <1>6, <2>1
  <2>6. QED
    BY <1>2, <2>2, <2>4, <2>5 DEF Takes
<1>10. CASE ReadDeleted
  <2>1. line.op = "deleted" /\ Said(line, q) = {} /\ \A id : Kills(line, q, id) <=> line.id = id
    BY <1>10 DEF ReadDeleted, Read, Said, Kills
  <2> DEFINE found == RowsOf(q, line.id)
  <2>2. CASE found # {}
    <3> DEFINE i == CHOOSE i \in found : \A j \in found : i <= j
    <3>1. found \subseteq 1 .. Len(rows[q]) /\ Len(rows[q]) \in Nat
      BY <1>3, LenProperties DEF RowsOf
    <3>2. i \in found
      <4>1. \E k \in found : \A j \in found : k <= j
        BY <2>2, <3>1, LeastExists
      <4>2. QED
        BY <4>1
    <3>3. i \in 1 .. Len(rows[q]) /\ rows[q][i].id = line.id
      BY <3>2 DEF RowsOf
    <3>4. Show(q, RemoveAt(rows[q], i))
      BY <1>10, <2>2 DEF ReadDeleted
    <3> HIDE DEF i
    <3>5. /\ Rising(RemoveAt(rows[q], i))
          /\ ToSet(RemoveAt(rows[q], i)) = {x \in ToSet(rows[q]) : x.id # rows[q][i].id}
      BY <1>3, <3>3, RemoveRises
    <3>6. rows'[q] = RemoveAt(rows[q], i) /\ \A r \in Room : r # q => rows'[r] = rows[r]
      BY <1>6, <3>4
    <3>7. QED
      BY <1>2, <2>1, <3>3, <3>5, <3>6 DEF Takes
  <2>3. CASE found = {}
    <3>1. rows' = rows
      BY <1>10, <2>3 DEF ReadDeleted
    <3>2. \A x \in ToSet(rows[q]) : x.id # line.id
      BY <1>3, <2>3, ToSetFacts DEF RowsOf
    <3>3. QED
      BY <1>2, <1>3, <2>1, <3>1, <3>2 DEF Takes
  <2>4. QED
    BY <2>2, <2>3
<1>11. CASE ReadCleared \/ ReadEnded
  <2>1. line.op \in {"cleared", "ended"} /\ Show(q, <<>>)
    BY <1>11 DEF ReadCleared, ReadEnded, Read
  <2>2. Said(line, q) = {} /\ \A id : Kills(line, q, id)
    BY <2>1 DEF Said, Kills
  <2>3. rows'[q] = <<>> /\ \A r \in Room : r # q => rows'[r] = rows[r]
    BY <1>6, <2>1
  <2>4. QED
    BY <1>2, <2>2, <2>3, NoneRises DEF Takes
<1>12. QED
  BY <1>7, <1>8, <1>9, <1>10, <1>11 DEF Receiver

LEMMA ReadTakes ==
  ASSUME Inv, \A r \in Room : InOrder(down, rows[r], r), Receiver, NEW r \in Room
  PROVE  Takes(Head(down), r, rows[r], rows'[r]) /\ Rising(rows'[r])
<1>1. Rising(rows[r])
  BY DEF InOrder
<1>2. CASE ReadRooms
  <2>1. rows' = rows /\ Head(down).op = "rooms"
    BY <1>2 DEF ReadRooms, Read
  <2>2. Said(Head(down), r) = {} /\ \A id : ~Kills(Head(down), r, id)
    BY <2>1 DEF Said, Kills
  <2>3. QED
    BY <1>1, <2>1, <2>2 DEF Takes
<1>3. CASE ~ReadRooms /\ r = Head(down).room
  BY <1>3, ReadShows
<1>4. CASE ~ReadRooms /\ r # Head(down).room
  <2>1. rows'[r] = rows[r]
    BY <1>4, ReadShows
  <2>2. Said(Head(down), r) = {} /\ \A id : ~Kills(Head(down), r, id)
    BY <1>4 DEF Said, Kills
  <2>3. QED
    BY <1>1, <2>1, <2>2 DEF Takes
<1>5. QED
  BY <1>2, <1>3, <1>4

\* The new requests of a client that reads are those for what is new, once for each
\* room, when it has got its rooms.
LEMMA ReadRequests ==
  ASSUME Inv, Receiver
  PROVE  /\ Len(up) \in Nat /\ Len(up') \in Nat /\ Len(up) <= Len(up')
         /\ \A u \in 1 .. Len(up) : up'[u] = up[u]
         /\ \A u \in Len(up) + 1 .. Len(up') : up'[u].op = "new" /\ Head(down).op = "rooms"
         /\ \A u, v \in Len(up) + 1 .. Len(up') : up'[u].room = up'[v].room => u = v
<1>1. up \in Seq(Request) /\ Len(up) \in Nat
  BY LenProperties DEF Inv, TypeOK
<1>2. CASE ~ReadRooms
  <2>1. up' = up
    BY <1>2 DEF Receiver, ReadMessage, ReadNew, ReadOld, ReadDeleted, ReadCleared, ReadEnded, Read
  <2>2. QED
    BY <1>1, <2>1
<1>3. CASE ReadRooms
  <2> DEFINE T == Head(down).rooms  n == Cardinality(T)
  <2>1. Head(down).op = "rooms" /\ Head(down) \in Reply
    BY <1>3, Waits DEF ReadRooms, Read, Inv, TypeOK
  <2>2. T \subseteq Room /\ IsFiniteSet(T) /\ n \in Nat
    <3>1. T \subseteq Room
      BY <2>1 DEF Reply
    <3>2. QED
      BY <3>1, RoomAssumption, FS_Subset, FS_CardinalityType
  <2>3. PICK order \in [1 .. n -> T] :
               /\ \A r \in T : \E i \in DOMAIN order : order[i] = r
               /\ up' = up \o [i \in DOMAIN order |-> [op |-> "new", room |-> order[i]]]
    BY <1>3 DEF ReadRooms
  <2>4. \A i, j \in 1 .. n : order[i] = order[j] => i = j
    <3>1. order \in Surjection(1 .. n, T)
      BY <2>3 DEF Surjection
    <3>2. IsFiniteSet(1 .. n) /\ Cardinality(1 .. n) = n
      <4>1. 1 \in Int /\ n \in Int /\ (IF 1 > n THEN 0 ELSE n - 1 + 1) = n
        BY <2>2
      <4>2. QED
        BY <4>1, FS_Interval
    <3>3. order \in Injection(1 .. n, T)
      BY <2>2, <3>1, <3>2, FS_SurjSameCardinalityImpliesInj
    <3>4. QED
      BY <3>3 DEF Injection, IsInjective
  <2> DEFINE more == [i \in DOMAIN order |-> [op |-> "new", room |-> order[i]]]
  <2>5. /\ more \in Seq(Request) /\ Len(more) = n
        /\ \A i \in 1 .. n : more[i].op = "new" /\ more[i].room = order[i]
    <3>1. DOMAIN order = 1 .. n
      BY <2>3
    <3>2. more \in [1 .. n -> Request]
      BY <2>2, <2>3, <3>1 DEF Request
    <3> HIDE DEF n
    <3>3. \A i \in 1 .. n : more[i].op = "new" /\ more[i].room = order[i]
      BY <3>1
    <3> HIDE DEF more
    <3>4. more \in Seq(Request) /\ Len(more) = n
      BY <2>2, <3>2
    <3>5. QED
      BY <3>3, <3>4
  <2> HIDE DEF more, n, T
  <2>6. /\ Len(up') = Len(up) + n
        /\ \A i \in 1 .. Len(up') : up'[i] = IF i <= Len(up) THEN up[i] ELSE more[i - Len(up)]
    <3>1. up' = up \o more
      BY <2>3 DEF more
    <3>2. QED
      BY <1>1, <2>5, <3>1, ConcatProperties
  <2>7. Len(up') \in Nat /\ Len(up) <= Len(up') /\ \A u \in 1 .. Len(up) : up'[u] = up[u]
    BY <1>1, <2>2, <2>6
  <2>8. ASSUME NEW u \in Len(up) + 1 .. Len(up')
        PROVE  u - Len(up) \in 1 .. n /\ up'[u] = more[u - Len(up)]
    BY <1>1, <2>2, <2>6
  <2>9. \A u \in Len(up) + 1 .. Len(up') : up'[u].op = "new" /\ Head(down).op = "rooms"
    BY <2>1, <2>5, <2>8
  <2>10. ASSUME NEW u \in Len(up) + 1 .. Len(up'), NEW v \in Len(up) + 1 .. Len(up'),
                up'[u].room = up'[v].room
         PROVE  u = v
    <3>1. u - Len(up) = v - Len(up)
      BY <2>4, <2>5, <2>8, <2>10
    <3>2. QED
      BY <1>1, <2>7, <3>1
  <2>11. QED
    BY <1>1, <2>7, <2>9, <2>10
<1>4. QED
  BY <1>2, <1>3

\* Reading keeps the stretch ...
LEMMA ReadStretched ==
  ASSUME Inv, Stretched, Asked, Dates, Receiver
  PROVE  Stretched' /\ Asked' /\ Dates'
<1>1. /\ down \in Seq(Reply) /\ down # <<>> /\ down' = Tail(down)
      /\ messages' = messages /\ joined' = joined /\ now' = now
  BY DEF Receiver, ReadRooms, ReadMessage, ReadNew, ReadOld, ReadDeleted, ReadCleared,
         ReadEnded, Read, server, Inv, TypeOK
<1>2. ASSUME NEW r \in Room
      PROVE  Takes(Head(down), r, rows[r], rows'[r]) /\ Rising(rows'[r])
  BY ReadTakes DEF Stretched
<1>3. \A r \in Room : InOrder(down', rows'[r], r) /\ Kept(down', rows'[r], r, messages')
  BY <1>1, <1>2, InOrderRead, KeptRead DEF Stretched
<1>4. \A r \in joined' : Whole(down', rows'[r], r, messages')
  <2>1. joined \subseteq Room
    BY DEF Inv, TypeOK
  <2>2. QED
    BY <1>1, <1>2, <2>1, WholeRead DEF Stretched
<1>5. ASSUME NEW r \in Room, NEW i \in 0 .. Len(down'), NEW e \in At(down', rows'[r], r, i)
      PROVE  \E k \in 0 .. Len(down) : e \in At(down, rows[r], r, k)
  <2>1. CASE i + 1 \in 1 .. Len(down) /\ e \in At(down, rows[r], r, i + 1)
    <3>1. i + 1 \in 0 .. Len(down)
      BY <2>1
    <3>2. QED
      BY <2>1, <3>1
  <2>2. CASE 0 \in 0 .. Len(down) /\ e \in At(down, rows[r], r, 0)
    BY <2>2
  <2>3. QED
    BY <1>1, <1>2, <1>5, <2>1, <2>2, PlaceBefore
<1>6. Dates'
  BY <1>1, <1>5 DEF Dates
<1>7. Asked'
  <2> SUFFICES ASSUME NEW u \in 1 .. Len(up'), up'[u].op = "old"
               PROVE  LET r == up'[u].room IN
                        /\ up'[u].date <= now
                        /\ \A i \in 0 .. Len(down') : \A e \in At(down', rows'[r], r, i) :
                             e.date >= up'[u].date
                        /\ r \in joined => ShownSince(down', rows'[r], r, messages, up'[u].date)
    BY <1>1 DEF Asked
  <2>1. u \in 1 .. Len(up) /\ up'[u] = up[u]
    <3>1. u \in 1 .. Len(up) \/ u \in Len(up) + 1 .. Len(up')
      BY ReadRequests
    <3>2. QED
      BY <3>1, ReadRequests
  <2> DEFINE r == up[u].room
  <2>2. r \in Room
    <3>1. up[u] \in Request
      BY <2>1, ElementOfSeq DEF Inv, TypeOK
    <3>2. QED
      BY <2>1, <3>1 DEF Request
  <2>3. /\ up[u].date <= now
        /\ \A i \in 0 .. Len(down) : \A e \in At(down, rows[r], r, i) : e.date >= up[u].date
        /\ r \in joined => ShownSince(down, rows[r], r, messages, up[u].date)
    BY <2>1 DEF Asked
  <2> HIDE DEF r
  <2>4. \A i \in 0 .. Len(down') : \A e \in At(down', rows'[r], r, i) : e.date >= up[u].date
    BY <1>5, <2>2, <2>3
  <2>5. r \in joined => ShownSince(down', rows'[r], r, messages, up[u].date)
    BY <1>1, <1>2, <2>2, <2>3, ShownRead
  <2>6. QED
    BY <2>1, <2>3, <2>4, <2>5 DEF r
<1>8. QED
  BY <1>3, <1>4, <1>6, <1>7 DEF Stretched

\* Every line but the first stays, a place nearer.
LEMMA LinesRead ==
  ASSUME Inv, Receiver
  PROVE  /\ down \in Seq(Reply) /\ down # <<>> /\ down' = Tail(down) /\ screen = "on"
         /\ Len(down) \in Nat \ {0} /\ Len(down') = Len(down) - 1
         /\ 1 \in 1 .. Len(down) /\ down[1] = Head(down)
         /\ \A i \in 1 .. Len(down') : i + 1 \in 1 .. Len(down) /\ down'[i] = down[i + 1]
<1>1. down \in Seq(Reply) /\ down # <<>> /\ down' = Tail(down) /\ screen = "on"
  BY DEF Receiver, ReadRooms, ReadMessage, ReadNew, ReadOld, ReadDeleted, ReadCleared,
         ReadEnded, Read, Inv, TypeOK
<1> DEFINE d == down  l == down'
<1>2. d \in Seq(Reply) /\ d # <<>> /\ l = Tail(d)
  BY <1>1
<1> HIDE DEF d, l
<1>3. /\ Len(d) \in Nat \ {0} /\ Len(l) = Len(d) - 1 /\ d[1] = Head(d)
      /\ \A i \in 1 .. Len(l) : l[i] = d[i + 1]
  BY <1>2, HeadTailProperties, LenProperties
<1>4. 1 \in 1 .. Len(d) /\ \A i \in 1 .. Len(l) : i + 1 \in 1 .. Len(d)
  BY <1>3
<1>5. QED
  BY <1>1, <1>3, <1>4 DEF d, l

\* A room of which nothing is said has no rows, and the other way round.
LEMMA NoRows ==
  ASSUME NEW w \in Seq(Shown)
  PROVE  ToSet(w) = {} <=> w = <<>>
<1>1. ASSUME w # <<>> PROVE ToSet(w) # {}
  <2>1. 1 \in 1 .. Len(w)
    BY <1>1
  <2>2. w[1] \in ToSet(w)
    BY <2>1, ToSetFacts
  <2>3. QED
    BY <2>2
<1>2. QED
  BY <1>1, NoneRises

\* ... and that what is new is asked for once, and what is older one at a time.
LEMMA ReadOpens ==
  ASSUME Inv, Stretched, Opens, Receiver
  PROVE  Opens'
<1>1. /\ down \in Seq(Reply) /\ down # <<>> /\ down' = Tail(down) /\ screen = "on"
      /\ Len(down) \in Nat \ {0} /\ Len(down') = Len(down) - 1
      /\ 1 \in 1 .. Len(down) /\ down[1] = Head(down)
      /\ \A i \in 1 .. Len(down') : i + 1 \in 1 .. Len(down) /\ down'[i] = down[i + 1]
  BY LinesRead
<1>2. ASSUME NEW r \in Room
      PROVE  Takes(Head(down), r, rows[r], rows'[r]) /\ Rising(rows'[r])
  BY ReadTakes DEF Stretched
<1>3. screen' # "before"
  BY <1>1 DEF Receiver, ReadRooms, ReadMessage, ReadNew, ReadOld, ReadDeleted, ReadCleared,
              ReadEnded, Read, Needs
<1>4. /\ Len(up) \in Nat /\ Len(up') \in Nat /\ Len(up) <= Len(up')
      /\ \A u \in 1 .. Len(up) : up'[u] = up[u] /\ u \in 1 .. Len(up')
      /\ \A u \in Len(up) + 1 .. Len(up') : up'[u].op = "new" /\ Head(down).op = "rooms"
      /\ \A u \in 1 .. Len(up') : u \in 1 .. Len(up) \/ u \in Len(up) + 1 .. Len(up')
  BY ReadRequests
<1>5. ASSUME NEW r \in Room, NEW j \in 1 .. Len(down'),
             Silent(r, (0 .. Len(down)) \ {j + 1})
      PROVE  Silent(r, (0 .. Len(down)) \ {j})'
  <2>1. ASSUME NEW i \in (0 .. Len(down')) \ {j}, NEW e \in At(down', rows'[r], r, i) PROVE FALSE
    <3>1. CASE i + 1 \in 1 .. Len(down) /\ e \in At(down, rows[r], r, i + 1)
      <4>1. i + 1 \in (0 .. Len(down)) \ {j + 1}
        BY <2>1, <3>1
      <4>2. QED
        BY <1>5, <3>1, <4>1 DEF Silent
    <3>2. CASE 0 \in 0 .. Len(down) /\ e \in At(down, rows[r], r, 0)
      <4>1. 0 \in (0 .. Len(down)) \ {j + 1}
        BY <3>2
      <4>2. QED
        BY <1>5, <3>2, <4>1 DEF Silent
    <3>3. QED
      BY <1>1, <1>2, <2>1, <3>1, <3>2, PlaceBefore
  <2>2. \A u \in 1 .. Len(up') : ~IsOld(up'[u], r)
    BY <1>4, <1>5 DEF Silent, IsOld
  <2>3. QED
    BY <2>1, <2>2 DEF Silent
<1>6. ASSUME NEW r \in Room, Silent(r, 0 .. Len(down))
      PROVE  Silent(r, 0 .. Len(down))'
  <2>1. ASSUME NEW i \in 0 .. Len(down'), NEW e \in At(down', rows'[r], r, i) PROVE FALSE
    <3>1. CASE i + 1 \in 1 .. Len(down) /\ e \in At(down, rows[r], r, i + 1)
      <4>1. i + 1 \in 0 .. Len(down)
        BY <3>1
      <4>2. QED
        BY <1>6, <3>1, <4>1 DEF Silent
    <3>2. CASE 0 \in 0 .. Len(down) /\ e \in At(down, rows[r], r, 0)
      BY <1>6, <3>2 DEF Silent
    <3>3. QED
      BY <1>1, <1>2, <2>1, <3>1, <3>2, PlaceBefore
  <2>2. \A u \in 1 .. Len(up') : ~IsOld(up'[u], r)
    BY <1>4, <1>6 DEF Silent, IsOld
  <2>3. QED
    BY <2>1, <2>2 DEF Silent
<1>7. ASSUME NEW op, Among({op}, down') PROVE Among({op}, down)
  BY <1>1, <1>7 DEF Among
<1>8. ASSUME Among({"rooms"}, up') PROVE Among({"rooms"}, up)
  BY <1>4, <1>8 DEF Among
<1>9. ASSUME Head(down).op = "rooms"
      PROVE  /\ Among({"rooms"}, down) /\ ~Among({"rooms"}, up) /\ ~Among({"rooms"}, down')
             /\ ~Among({"new"}, up) /\ ~Among({"new"}, down)
             /\ \A r \in Room : Silent(r, 0 .. Len(down))
  <2>1. Among({"rooms"}, down)
    BY <1>1, <1>9 DEF Among
  <2>2. ~Among({"rooms"}, down')
    <3>1. ASSUME NEW i \in 1 .. Len(down'), down'[i].op = "rooms" PROVE FALSE
      <4>1. i + 1 \in 1 .. Len(down) /\ down[i + 1].op = "rooms" /\ i + 1 # 1
        BY <1>1, <3>1
      <4>2. QED
        BY <1>1, <1>9, <4>1 DEF Opens
    <3>2. QED
      BY <3>1 DEF Among
  <2>3. QED
    BY <2>1, <2>2 DEF Opens
<1>10. Among({"rooms"}, up) \/ Among({"rooms"}, down') => Head(down).op # "rooms"
  BY <1>9
<1>11. Opening' => ~Among({"message"}, down')
  <2> SUFFICES ASSUME Opening', Among({"message"}, down') PROVE FALSE
    OBVIOUS
  <2>1. Opening
    <3>1. CASE Among({"rooms", "new"}, up')
      BY <1>1, <1>4, <3>1 DEF Among, Opening
    <3>2. CASE Among({"rooms", "new"}, down')
      BY <1>1, <3>2 DEF Among, Opening
    <3>3. QED
      BY <3>1, <3>2 DEF Opening
  <2>2. QED
    BY <1>7, <2>1 DEF Opens
<1>12. Among({"rooms"}, up') \/ Among({"rooms"}, down') =>
         /\ ~Among({"new"}, up') /\ ~Among({"new"}, down')
         /\ \A r \in Room : Silent(r, 0 .. Len(down))'
  <2> SUFFICES ASSUME Among({"rooms"}, up') \/ Among({"rooms"}, down')
               PROVE  /\ ~Among({"new"}, up') /\ ~Among({"new"}, down')
                      /\ \A r \in Room : Silent(r, 0 .. Len(down))'
    OBVIOUS
  <2>1. Head(down).op # "rooms" /\ (Among({"rooms"}, up) \/ Among({"rooms"}, down))
    BY <1>7, <1>8, <1>10
  <2>2. ~Among({"new"}, up) /\ ~Among({"new"}, down) /\ \A r \in Room : Silent(r, 0 .. Len(down))
    BY <2>1 DEF Opens
  <2>3. ~Among({"new"}, up')
    BY <1>4, <2>1, <2>2 DEF Among
  <2>4. QED
    BY <1>6, <1>7, <2>2, <2>3
<1>13. \A u, v \in 1 .. Len(down') : down'[u].op = "rooms" /\ down'[v].op = "rooms" => u = v
  <2>1. ASSUME NEW u \in 1 .. Len(down'), NEW v \in 1 .. Len(down'),
               down'[u].op = "rooms", down'[v].op = "rooms"
        PROVE  u + 1 = v + 1
    BY <1>1, <2>1 DEF Opens
  <2>2. QED
    BY <2>1
<1>14. ~(Among({"rooms"}, up') /\ Among({"rooms"}, down'))
  BY <1>7, <1>8 DEF Opens
<1>15. ASSUME NEW r \in Room
       PROVE  \A u, v \in 1 .. Len(up') : IsNew(up'[u], r) /\ IsNew(up'[v], r) => u = v
  <2> SUFFICES ASSUME NEW u \in 1 .. Len(up'), NEW v \in 1 .. Len(up'),
                      IsNew(up'[u], r), IsNew(up'[v], r)
               PROVE  u = v
    OBVIOUS
  <2>1. CASE Head(down).op = "rooms"
    <3>1. \A k \in 1 .. Len(up) : ~IsNew(up'[k], r)
      BY <1>4, <1>9, <2>1 DEF Among, IsNew
    <3>2. u \in Len(up) + 1 .. Len(up') /\ v \in Len(up) + 1 .. Len(up')
      BY <1>4, <3>1
    <3>3. QED
      BY <3>2, ReadRequests DEF IsNew
  <2>2. CASE Head(down).op # "rooms"
    <3>1. u \in 1 .. Len(up) /\ v \in 1 .. Len(up)
      BY <1>4, <2>2
    <3>2. QED
      BY <1>4, <3>1 DEF Opens
  <2>3. QED
    BY <2>1, <2>2
<1>16. ASSUME NEW r \in Room
       PROVE  \A u, v \in 1 .. Len(down') : IsNew(down'[u], r) /\ IsNew(down'[v], r) => u = v
  <2>1. ASSUME NEW u \in 1 .. Len(down'), NEW v \in 1 .. Len(down'),
               IsNew(down'[u], r), IsNew(down'[v], r)
        PROVE  u + 1 = v + 1
    BY <1>1, <2>1 DEF Opens
  <2>2. QED
    BY <2>1
<1>17. ASSUME NEW r \in Room, NEW u \in 1 .. Len(up'), IsNew(up'[u], r)
       PROVE  Silent(r, 0 .. Len(down))' /\ \A v \in 1 .. Len(down') : ~IsNew(down'[v], r)
  <2>1. Silent(r, 0 .. Len(down)) /\ \A v \in 1 .. Len(down) : ~IsNew(down[v], r)
    <3>1. CASE u \in 1 .. Len(up)
      BY <1>4, <1>17, <3>1 DEF Opens
    <3>2. CASE Head(down).op = "rooms"
      BY <1>9, <3>2 DEF Among, IsNew
    <3>3. QED
      BY <1>4, <3>1, <3>2
  <2>2. QED
    BY <1>1, <1>6, <2>1
<1>18. ASSUME NEW r \in Room, NEW j \in 1 .. Len(down'), IsNew(down'[j], r)
       PROVE  Silent(r, (0 .. Len(down)) \ {j})'
  <2>1. j + 1 \in 1 .. Len(down) /\ IsNew(down[j + 1], r)
    BY <1>1, <1>18
  <2>2. Silent(r, (0 .. Len(down)) \ {j + 1})
    BY <2>1 DEF Opens
  <2>3. QED
    BY <1>5, <2>2
<1>19. QED
  BY <1>3, <1>11, <1>12, <1>13, <1>14, <1>15, <1>16, <1>17, <1>18 DEF Opens

LEMMA ReadOneOld ==
  ASSUME Inv, OneOld, Receiver
  PROVE  OneOld'
<1>1. /\ down \in Seq(Reply) /\ down # <<>> /\ down' = Tail(down)
      /\ Len(down) \in Nat \ {0} /\ Len(down') = Len(down) - 1
      /\ 1 \in 1 .. Len(down) /\ down[1] = Head(down)
      /\ \A i \in 1 .. Len(down') : i + 1 \in 1 .. Len(down) /\ down'[i] = down[i + 1]
  BY LinesRead
<1>2. \A u \in 1 .. Len(up') : up'[u].op = "old" => u \in 1 .. Len(up) /\ up'[u] = up[u]
  <2>1. \A u \in 1 .. Len(up') : u \in 1 .. Len(up) \/ u \in Len(up) + 1 .. Len(up')
    BY ReadRequests
  <2>2. QED
    BY <2>1, ReadRequests
<1>3. Among({"old"}, up') => Among({"old"}, up)
  BY <1>2 DEF Among
<1>4. Among({"old"}, down') => Among({"old"}, down)
  BY <1>1 DEF Among
<1>5. \A u, v \in 1 .. Len(up') : up'[u].op = "old" /\ up'[v].op = "old" => u = v
  BY <1>2 DEF OneOld
<1>6. \A u, v \in 1 .. Len(down') : down'[u].op = "old" /\ down'[v].op = "old" => u = v
  <2>1. ASSUME NEW u \in 1 .. Len(down'), NEW v \in 1 .. Len(down'),
               down'[u].op = "old", down'[v].op = "old"
        PROVE  u + 1 = v + 1
    BY <1>1, <2>1 DEF OneOld
  <2>2. QED
    BY <2>1
<1>7. ~waiting' => ~Among({"old"}, up') /\ ~Among({"old"}, down')
  <2>1. CASE ReadOld
    <3>1. Head(down).op = "old" /\ Among({"old"}, down)
      BY <1>1, <2>1 DEF ReadOld, Read, Among
    <3>2. ~Among({"old"}, up')
      BY <1>3, <3>1 DEF OneOld
    <3>3. ~Among({"old"}, down')
      <4>1. ASSUME NEW i \in 1 .. Len(down'), down'[i].op = "old" PROVE FALSE
        <5>1. i + 1 \in 1 .. Len(down) /\ down[i + 1].op = "old" /\ i + 1 # 1
          BY <1>1, <4>1
        <5>2. QED
          BY <1>1, <3>1, <5>1 DEF OneOld
      <4>2. QED
        BY <4>1 DEF Among
    <3>4. QED
      BY <3>2, <3>3
  <2>2. CASE ~ReadOld
    <3>1. waiting' = waiting
      BY <2>2 DEF Receiver, ReadRooms, ReadMessage, ReadNew, ReadDeleted, ReadCleared, ReadEnded
    <3>2. QED
      BY <1>3, <1>4, <3>1 DEF OneOld
  <2>3. QED
    BY <2>1, <2>2
<1>8. QED
  BY <1>3, <1>4, <1>5, <1>6, <1>7 DEF OneOld

-------------------------------------------------------------------------------
(* What the server does to the stretch.                                    *)

\* A message that is posted gets an id after all others, and reads back its own.
LEMMA PostNew ==
  ASSUME Inv, Dates, Calm = TRUE, NEW r \in Room, Post(r)
  PROVE  LET new == [id |-> NewId(messages), room |-> r, date |-> now] IN
         /\ messages' = messages \cup {new} /\ new \in MessageRow
         /\ \A m \in messages : m.id < new.id /\ m.date < new.date
         /\ MessageIdByDate(messages', r, now) = new.id
<1> DEFINE new == [id |-> NewId(messages), room |-> r, date |-> now]
<1>1. messages' = messages \cup {new} /\ \A m \in messages : m.date # now
  BY DEF Post
<1>2. messages' \subseteq MessageRow /\ new \in MessageRow
  BY <1>1, PostFacts DEF Inv
<1>3. \A m \in messages : m.id < new.id
  <2>1. Ids(messages) \subseteq 0 .. MaxMsg /\ MaxMsg \in Nat
    BY BoundAssumption DEF Inv, TypeOK, Ids, MessageRow
  <2>2. QED
    BY <2>1, NewIdProperties
<1>4. \A m \in messages : m.date < new.date
  <2>1. \A m \in messages : m.date \in Int /\ m.date <= now /\ m.date # now
    BY <1>1, <1>2 DEF Dates, MessageRow
  <2>2. now \in Int
    BY DEF Inv, TypeOK
  <2>3. QED
    BY <2>1, <2>2
<1>5. {m \in messages' : m.room = r /\ m.date = now} = {new}
  BY <1>1
<1>6. FirstRow({new}) = new
  <2>1. new.id \in Nat
    BY <1>2 DEF MessageRow
  <2>2. FirstRow({new}) \in {new}
    BY <2>1, FirstRowProperties
  <2>3. QED
    BY <2>2
<1>7. MessageIdByDate(messages', r, now) = new.id
  BY <1>5, <1>6 DEF MessageIdByDate
<1>8. QED
  BY <1>1, <1>2, <1>3, <1>4, <1>7

\* A page falls, and leaves out nothing of the table that is newer than its end.
LEMMA PageWhole ==
  ASSUME Inv, Dates, NEW table \in SUBSET messages, NEW p \in PagesOf(table)
  PROVE  /\ Falling(p) /\ p \in Seq(Shown)
         /\ \A e \in ToSet(p) : \E m \in table : e = ShownAs(m)
         /\ \A e \in ToSet(p) : \A m \in table : m.date >= e.date => ShownAs(m) \in ToSet(p)
<1>1. messages \subseteq MessageRow /\ table \subseteq MessageRow
  BY DEF Inv, TypeOK
<1>2. p \in Seq(Shown)
  BY <1>1, PageFacts
<1>3. /\ Len(p) \in Nat /\ DOMAIN p = 1 .. Len(p)
      /\ \A i \in 1 .. Len(p) : \E m \in table : p[i] = ShownAs(m)
      /\ \A i, j \in 1 .. Len(p) : i < j => p[i].id > p[j].id
      /\ \A t \in {p[i].id : i \in DOMAIN p}, l \in Ids(table) \ {p[i].id : i \in DOMAIN p} : t > l
  <2>1. PICK n \in 0 .. Page : p \in [1 .. n -> {ShownAs(m) : m \in table}]
    BY DEF PagesOf
  <2>2. DOMAIN p = 1 .. Len(p) /\ Len(p) \in Nat
    BY <1>2, LenProperties
  <2>3. \A i \in 1 .. Len(p) : \E m \in table : p[i] = ShownAs(m)
    BY <2>1, <2>2
  <2>4. QED
    BY <2>2, <2>3 DEF PagesOf
<1>4. ASSUME NEW m \in table PROVE /\ ShownAs(m).id = m.id /\ ShownAs(m).date = m.date
                                   /\ m.id \in Int /\ m.date \in Int
  BY <1>1 DEF ShownAs, MessageRow
<1>5. Falling(p)
  <2>1. ASSUME NEW i \in 1 .. Len(p), NEW j \in 1 .. Len(p), i < j
        PROVE  p[j].date < p[i].date /\ p[i].id # p[j].id
    <3>1. PICK m \in table : p[i] = ShownAs(m)
      BY <1>3
    <3>2. PICK n \in table : p[j] = ShownAs(n)
      BY <1>3
    <3>3. n.id < m.id
      BY <1>3, <1>4, <2>1, <3>1, <3>2
    <3>4. n.date < m.date
      BY <3>3 DEF Dates
    <3>5. QED
      BY <1>4, <3>1, <3>2, <3>3, <3>4
  <2>2. QED
    BY <2>1 DEF Falling
<1>6. \A e \in ToSet(p) : \E m \in table : e = ShownAs(m)
  BY <1>2, <1>3, ToSetFacts
<1>7. ASSUME NEW e \in ToSet(p), NEW m \in table, m.date >= e.date
      PROVE  ShownAs(m) \in ToSet(p)
  <2>1. PICK i \in 1 .. Len(p) : e = p[i]
    BY <1>2, ToSetFacts
  <2>2. PICK n \in table : p[i] = ShownAs(n)
    BY <1>3
  <2>3. ~(m.id < n.id)
    <3>1. m.id < n.id => m.date < n.date
      BY DEF Dates
    <3>2. QED
      BY <1>4, <1>7, <2>1, <2>2, <3>1
  <2>4. m.id \in {p[k].id : k \in DOMAIN p}
    <3>1. m.id \in Ids(table) /\ p[i].id \in {p[k].id : k \in DOMAIN p}
      BY <1>3 DEF Ids
    <3>2. QED
      BY <1>3, <1>4, <2>2, <2>3, <3>1
  <2>5. PICK k \in 1 .. Len(p) : m.id = p[k].id
    BY <1>3, <2>4
  <2>6. PICK o \in table : p[k] = ShownAs(o)
    BY <1>3
  <2>7. o = m
    BY <1>4, <2>5, <2>6 DEF Dates
  <2>8. QED
    BY <1>2, <2>6, <2>7, ToSetFacts
<1>8. QED
  BY <1>2, <1>5, <1>6, <1>7

\* A line that the server adds: what follows for the stretch.
LEMMA LineStretched ==
  ASSUME Inv, Stretched, NEW line \in Reply, down' = Append(down, line), rows' = rows,
         joined' \subseteq joined,
         line.op \in {"new", "old"} => Falling(line.page),
         \A r \in Room : \A i \in 0 .. Len(down) :
           \A e \in At(down, rows[r], r, i), f \in Said(line, r) :
             /\ e.id # f.id \/ Killed(down, r, e.id, i, Len(down) + 1)
             /\ line.op = "old" => f.date < e.date
             /\ line.op # "old" =>
                  e.date < f.date \/ (e.date = f.date /\ Killed(down, r, e.id, i, Len(down) + 1)),
         \A r \in Room : \A e \in Said(line, r) : \E m \in messages' : m.room = r /\ ShownAs(m) = e,
         \A r \in Room : \A m \in messages : m.room = r /\ ~Kills(line, r, m.id) => m \in messages',
         \A r \in joined' : \A m \in messages' : m.room = r =>
           (m \in messages /\ ~Kills(line, r, m.id)) \/ ShownAs(m) \in Said(line, r),
         \A r \in joined' : \A e \in Said(line, r) :
           ShownSince(Append(down, line), rows[r], r, messages', e.date)
  PROVE  Stretched'
<1>1. down \in Seq(Reply) /\ joined \subseteq Room
  BY DEF Inv, TypeOK
<1>2. ASSUME NEW r \in Room
      PROVE  InOrder(down', rows'[r], r) /\ Kept(down', rows'[r], r, messages')
  <2>1. InOrder(down, rows[r], r) /\ Kept(down, rows[r], r, messages)
    BY DEF Stretched
  <2>2. InOrder(Append(down, line), rows[r], r)
    BY <1>1, <2>1, InOrderAppended
  <2>3. Kept(Append(down, line), rows[r], r, messages')
    BY <1>1, <2>1, KeptAppended
  <2>4. QED
    BY <2>2, <2>3
<1>3. ASSUME NEW r \in joined' PROVE Whole(down', rows'[r], r, messages')
  <2>1. Whole(down, rows[r], r, messages)
    BY <1>3 DEF Stretched
  <2>2. QED
    BY <1>1, <1>3, <2>1, WholeAppended
<1>4. QED
  BY <1>2, <1>3 DEF Stretched

\* ... for the requests, of which k are taken ...
Taken(k) ==
  /\ Len(up) \in Nat /\ Len(up') = Len(up) - k
  /\ \A u \in 1 .. Len(up') : u + k \in 1 .. Len(up) /\ up'[u] = up[u + k]

LEMMA LineAsked ==
  ASSUME Inv, Asked, NEW line \in Reply, down' = Append(down, line), rows' = rows, now' = now,
         joined' \subseteq joined, NEW k \in {0, 1}, Taken(k),
         \A r \in joined' : \A m \in messages' : m.room = r =>
           (m \in messages /\ ~Kills(line, r, m.id)) \/ ShownAs(m) \in Said(line, r),
         \A u \in 1 .. Len(up') : up'[u].op = "old" =>
           \A e \in Said(line, up'[u].room) : e.date >= up'[u].date
  PROVE  Asked'
<1>1. down \in Seq(Reply)
  BY DEF Inv, TypeOK
<1>2. ASSUME NEW u \in 1 .. Len(up'), up'[u].op = "old", NEW r, r = up'[u].room
      PROVE  /\ up'[u].date <= now
             /\ \A i \in 0 .. Len(down') : \A e \in At(down', rows'[r], r, i) : e.date >= up'[u].date
             /\ r \in joined' => ShownSince(down', rows'[r], r, messages', up'[u].date)
  <2>1. u + k \in 1 .. Len(up) /\ up'[u] = up[u + k]
    BY DEF Taken
  <2>2. /\ up'[u].date <= now
        /\ \A i \in 0 .. Len(down) : \A e \in At(down, rows[r], r, i) : e.date >= up'[u].date
        /\ r \in joined => ShownSince(down, rows[r], r, messages, up'[u].date)
    BY <1>2, <2>1 DEF Asked
  <2>3. ASSUME NEW i \in 0 .. Len(down'), NEW e \in At(down', rows[r], r, i)
        PROVE  e.date >= up'[u].date
    <3>1. Lengthened(down, line, rows[r], r, down')
      BY <1>1, PlacesAppended
    <3>2. i \in 0 .. Len(down) \/ i = Len(down) + 1
      BY <3>1 DEF Lengthened
    <3>3. CASE i \in 0 .. Len(down)
      BY <2>2, <2>3, <3>1, <3>3 DEF Lengthened
    <3>4. CASE i = Len(down) + 1
      BY <1>2, <2>3, <3>1, <3>4 DEF Lengthened
    <3>5. QED
      BY <3>2, <3>3, <3>4
  <2>4. r \in joined' => ShownSince(down', rows[r], r, messages', up'[u].date)
    BY <1>1, <2>2, ShownAppended
  <2>5. QED
    BY <2>2, <2>3, <2>4
<1>3. QED
  BY <1>2 DEF Asked

\* ... and for the dates.
LEMMA LineDates ==
  ASSUME Inv, Dates, NEW line \in Reply, down' = Append(down, line), rows' = rows, now' = now,
         \A m \in messages' : m.date <= now,
         \A m, n \in messages' : (m.id < n.id <=> m.date < n.date) /\ (m.id = n.id => m = n),
         \A r \in Room : \A e \in Said(line, r) : e.date <= now
  PROVE  Dates'
<1>1. down \in Seq(Reply)
  BY DEF Inv, TypeOK
<1>2. ASSUME NEW r \in Room, NEW i \in 0 .. Len(down'), NEW e \in At(down', rows[r], r, i)
      PROVE  e.date <= now
  <2>1. Lengthened(down, line, rows[r], r, down')
    BY <1>1, PlacesAppended
  <2>2. i \in 0 .. Len(down) \/ i = Len(down) + 1
    BY <2>1 DEF Lengthened
  <2>3. CASE i \in 0 .. Len(down)
    BY <1>2, <2>1, <2>3 DEF Dates, Lengthened
  <2>4. CASE i = Len(down) + 1
    BY <1>2, <2>1, <2>4 DEF Lengthened
  <2>5. QED
    BY <2>2, <2>3, <2>4
<1>3. QED
  BY <1>2 DEF Dates

\* A line leaves a room silent of which it says nothing.
LEMMA LineSilent ==
  ASSUME Inv, NEW line \in Reply, down' = Append(down, line), rows' = rows,
         NEW k \in {0, 1}, Taken(k), NEW r \in Room, NEW P \in SUBSET (0 .. Len(down)),
         Silent(r, P), Said(line, r) = {}
  PROVE  /\ \A i \in P \cup {Len(down) + 1} : At(down', rows'[r], r, i) = {}
         /\ \A u \in 1 .. Len(up') : ~IsOld(up'[u], r)
<1>1. down \in Seq(Reply)
  BY DEF Inv, TypeOK
<1>2. Lengthened(down, line, rows[r], r, down')
  BY <1>1, PlacesAppended
<1>3. \A i \in P \cup {Len(down) + 1} : At(down', rows'[r], r, i) = {}
  BY <1>2 DEF Lengthened, Silent
<1>4. \A u \in 1 .. Len(up') : ~IsOld(up'[u], r)
  BY DEF Taken, Silent
<1>5. QED
  BY <1>3, <1>4

\* The lines that wait, when there is one more and k requests are taken.
LEMMA LinePlaces ==
  ASSUME Inv, NEW line \in Reply, down' = Append(down, line), NEW k \in {0, 1}, Taken(k)
  PROVE  /\ Len(down) \in Nat /\ Len(down') = Len(down) + 1 /\ down'[Len(down) + 1] = line
         /\ \A i \in 1 .. Len(down) : down'[i] = down[i] /\ i \in 1 .. Len(down')
         /\ \A i \in 1 .. Len(down') : i \in 1 .. Len(down) \/ i = Len(down) + 1
         /\ \A op : Among({op}, up') => Among({op}, up)
         /\ \A op : Among({op}, down') => Among({op}, down) \/ line.op = op
<1>1. down \in Seq(Reply)
  BY DEF Inv, TypeOK
<1>2. /\ Len(down) \in Nat /\ Len(down') = Len(down) + 1 /\ down'[Len(down) + 1] = line
      /\ \A i \in 1 .. Len(down) : down'[i] = down[i]
  BY <1>1, LenProperties
<1>3. /\ \A i \in 1 .. Len(down) : i \in 1 .. Len(down')
      /\ \A i \in 1 .. Len(down') : i \in 1 .. Len(down) \/ i = Len(down) + 1
  BY <1>2
<1>4. ASSUME NEW op, Among({op}, up') PROVE Among({op}, up)
  BY <1>4 DEF Among, Taken
<1>5. ASSUME NEW op, Among({op}, down') PROVE Among({op}, down) \/ line.op = op
  BY <1>2, <1>3, <1>5 DEF Among
<1>6. QED
  BY <1>2, <1>3, <1>4, <1>5

\* A line that is not about what the client opens leaves that as it is.
LEMMA LineOpens ==
  ASSUME Inv, Opens, NEW line \in Reply, down' = Append(down, line), rows' = rows,
         screen' = "on", NEW k \in {0, 1}, Taken(k), line.op \notin {"rooms", "new"},
         line.op = "message" => ~Opening,
         \A r \in Room : Said(line, r) # {} => ~Opening \/ \E u \in 1 .. Len(up) : IsOld(up[u], r)
  PROVE  Opens'
<1>1. /\ Len(down) \in Nat /\ Len(down') = Len(down) + 1 /\ down'[Len(down) + 1] = line
      /\ \A i \in 1 .. Len(down) : down'[i] = down[i] /\ i \in 1 .. Len(down')
      /\ \A i \in 1 .. Len(down') : i \in 1 .. Len(down) \/ i = Len(down) + 1
  BY LinePlaces
<1>2. /\ Among({"rooms"}, up') => Among({"rooms"}, up)
      /\ Among({"new"}, up') => Among({"new"}, up)
      /\ Among({"rooms"}, down') => Among({"rooms"}, down)
      /\ Among({"new"}, down') => Among({"new"}, down)
      /\ Among({"message"}, down') => Among({"message"}, down) \/ line.op = "message"
  BY LinePlaces
<1>3. Opening' => Opening
  BY <1>2 DEF Opening, Among
<1>4. ASSUME NEW r \in Room, Opening, Silent(r, 0 .. Len(down))
      PROVE  Silent(r, 0 .. Len(down))'
  <2>1. Said(line, r) = {}
    BY <1>4 DEF Silent
  <2>2. \A i \in 0 .. Len(down') : i \in (0 .. Len(down)) \cup {Len(down) + 1}
    BY <1>1
  <2>3. QED
    BY <1>4, <2>1, <2>2, LineSilent DEF Silent
<1>5. ASSUME NEW r \in Room, NEW j \in 1 .. Len(down), Opening, Silent(r, (0 .. Len(down)) \ {j})
      PROVE  Silent(r, (0 .. Len(down)) \ {j})'
  <2>1. Said(line, r) = {}
    BY <1>5 DEF Silent
  <2>2. \A i \in (0 .. Len(down')) \ {j} : i \in ((0 .. Len(down)) \ {j}) \cup {Len(down) + 1}
    BY <1>1
  <2> DEFINE P == (0 .. Len(down)) \ {j}
  <2>3. P \in SUBSET (0 .. Len(down)) /\ Silent(r, P)
    BY <1>5
  <2> HIDE DEF P
  <2>4. /\ \A i \in P \cup {Len(down) + 1} : At(down', rows'[r], r, i) = {}
        /\ \A u \in 1 .. Len(up') : ~IsOld(up'[u], r)
    BY <2>1, <2>3, LineSilent
  <2>5. QED
    BY <2>2, <2>4 DEF Silent, P
<1>6. ASSUME NEW r \in Room, NEW u \in 1 .. Len(up), IsNew(up[u], r) PROVE Opening
  BY <1>6 DEF IsNew, Opening, Among
<1>7. ASSUME NEW r \in Room, NEW j \in 1 .. Len(down), IsNew(down[j], r) PROVE Opening
  BY <1>7 DEF IsNew, Opening, Among
<1>8. Among({"rooms"}, up) \/ Among({"rooms"}, down) => Opening
  BY DEF Opening, Among
<1>9. Opening' => ~Among({"message"}, down')
  BY <1>2, <1>3 DEF Opens
<1>10. Among({"rooms"}, up') \/ Among({"rooms"}, down') =>
         /\ ~Among({"new"}, up') /\ ~Among({"new"}, down')
         /\ \A r \in Room : Silent(r, 0 .. Len(down))'
  BY <1>2, <1>4, <1>8 DEF Opens
<1>11. \A u, v \in 1 .. Len(down') : down'[u].op = "rooms" /\ down'[v].op = "rooms" => u = v
  BY <1>1 DEF Opens
<1>12. ~(Among({"rooms"}, up') /\ Among({"rooms"}, down'))
  BY <1>2 DEF Opens
<1>13. ASSUME NEW r \in Room, NEW u \in 1 .. Len(up'), NEW v \in 1 .. Len(up'),
              IsNew(up'[u], r), IsNew(up'[v], r)
       PROVE  u = v
  <2>1. u + k = v + k
    BY <1>13 DEF Taken, Opens
  <2>2. QED
    BY <2>1 DEF Taken
<1>14. ASSUME NEW r \in Room, NEW u \in 1 .. Len(down'), IsNew(down'[u], r)
       PROVE  u \in 1 .. Len(down) /\ IsNew(down[u], r)
  BY <1>1, <1>14 DEF IsNew
<1>15. ASSUME NEW r \in Room, NEW u \in 1 .. Len(up'), IsNew(up'[u], r)
       PROVE  Silent(r, 0 .. Len(down))' /\ \A v \in 1 .. Len(down') : ~IsNew(down'[v], r)
  <2>1. u + k \in 1 .. Len(up) /\ IsNew(up[u + k], r)
    BY <1>15 DEF Taken
  <2>2. Silent(r, 0 .. Len(down)) /\ \A v \in 1 .. Len(down) : ~IsNew(down[v], r)
    BY <2>1 DEF Opens
  <2>3. QED
    BY <1>4, <1>6, <1>14, <2>1, <2>2
<1>16. ASSUME NEW r \in Room, NEW j \in 1 .. Len(down'), IsNew(down'[j], r)
       PROVE  Silent(r, (0 .. Len(down)) \ {j})'
  <2>1. j \in 1 .. Len(down) /\ IsNew(down[j], r)
    BY <1>14, <1>16
  <2>2. Silent(r, (0 .. Len(down)) \ {j})
    BY <2>1 DEF Opens
  <2>3. QED
    BY <1>5, <1>7, <2>1, <2>2
<1>17. \A r \in Room : \A u, v \in 1 .. Len(down') :
         IsNew(down'[u], r) /\ IsNew(down'[v], r) => u = v
  BY <1>14 DEF Opens
<1>18. QED
  BY <1>9, <1>10, <1>11, <1>12, <1>13, <1>15, <1>16, <1>17 DEF Opens

LEMMA LineOneOld ==
  ASSUME Inv, OneOld, NEW line \in Reply, down' = Append(down, line), waiting' = waiting,
         NEW k \in {0, 1}, Taken(k), line.op # "old"
  PROVE  OneOld'
<1>1. /\ Len(down) \in Nat /\ Len(down') = Len(down) + 1 /\ down'[Len(down) + 1] = line
      /\ \A i \in 1 .. Len(down) : down'[i] = down[i] /\ i \in 1 .. Len(down')
      /\ \A i \in 1 .. Len(down') : i \in 1 .. Len(down) \/ i = Len(down) + 1
  BY LinePlaces
<1>2. /\ Among({"old"}, up') => Among({"old"}, up)
      /\ Among({"old"}, down') => Among({"old"}, down)
  BY LinePlaces
<1>3. ASSUME NEW u \in 1 .. Len(up'), NEW v \in 1 .. Len(up'), up'[u].op = "old", up'[v].op = "old"
      PROVE  u = v
  <2>1. u + k = v + k
    BY <1>3 DEF Taken, OneOld
  <2>2. QED
    BY <2>1 DEF Taken
<1>4. \A u, v \in 1 .. Len(down') : down'[u].op = "old" /\ down'[v].op = "old" => u = v
  BY <1>1 DEF OneOld
<1>5. QED
  BY <1>2, <1>3, <1>4 DEF OneOld

\* A request that gets no answer.
LEMMA RefusedScrolls ==
  ASSUME Inv, Scrolls, Taken(1), UNCHANGED <<server, client, down>>
  PROVE  Scrolls'
<1>1. /\ messages' = messages /\ now' = now /\ joined' = joined /\ screen' = screen
      /\ rows' = rows /\ waiting' = waiting /\ down' = down
  BY DEF server, client
<1>2. \A u \in 1 .. Len(up') : u + 1 \in 1 .. Len(up) /\ up'[u] = up[u + 1]
  BY DEF Taken
<1>3. \A op : Among({op}, up') => Among({op}, up)
  BY <1>2 DEF Among
<1>4. Stretched' /\ Dates'
  BY <1>1 DEF Scrolls, Stretched, Dates
<1>5. Asked'
  <2> SUFFICES ASSUME NEW u \in 1 .. Len(up'), up'[u].op = "old"
               PROVE  LET r == up'[u].room IN
                        /\ up'[u].date <= now
                        /\ \A i \in 0 .. Len(down) : \A e \in At(down, rows[r], r, i) :
                             e.date >= up'[u].date
                        /\ r \in joined => ShownSince(down, rows[r], r, messages, up'[u].date)
    BY <1>1 DEF Asked
  <2>1. QED
    BY <1>2 DEF Scrolls, Asked
<1>6. ASSUME NEW r, NEW P, Silent(r, P)
      PROVE  /\ \A i \in P : At(down, rows[r], r, i) = {}
             /\ \A u \in 1 .. Len(up') : ~IsOld(up'[u], r)
  BY <1>2, <1>6 DEF Silent
<1>7. Opens'
  <2>1. Opening' => Opening
    BY <1>1, <1>2 DEF Opening, Among
  <2>2. Opening' => ~Among({"message"}, down')
    BY <1>1, <2>1 DEF Scrolls, Opens
  <2>3. Among({"rooms"}, up') \/ Among({"rooms"}, down') =>
         /\ ~Among({"new"}, up') /\ ~Among({"new"}, down')
         /\ \A r \in Room : Silent(r, 0 .. Len(down))'
    <3>1. Among({"rooms"}, up') \/ Among({"rooms"}, down') =>
             /\ ~Among({"new"}, up) /\ ~Among({"new"}, down)
             /\ \A r \in Room : Silent(r, 0 .. Len(down))
      BY <1>1, <1>3 DEF Scrolls, Opens
    <3>2. QED
      BY <1>1, <1>3, <1>6, <3>1 DEF Silent
  <2>4. \A u, v \in 1 .. Len(down') : down'[u].op = "rooms" /\ down'[v].op = "rooms" => u = v
    BY <1>1 DEF Scrolls, Opens
  <2>5. ~(Among({"rooms"}, up') /\ Among({"rooms"}, down'))
    BY <1>1, <1>3 DEF Scrolls, Opens
  <2>6. ASSUME NEW r \in Room
        PROVE  /\ \A u, v \in 1 .. Len(up') : IsNew(up'[u], r) /\ IsNew(up'[v], r) => u = v
               /\ \A u, v \in 1 .. Len(down') : IsNew(down'[u], r) /\ IsNew(down'[v], r) => u = v
    <3>1. ASSUME NEW u \in 1 .. Len(up'), NEW v \in 1 .. Len(up'), IsNew(up'[u], r), IsNew(up'[v], r)
          PROVE  u = v
      <4>1. u + 1 = v + 1
        BY <1>2, <3>1 DEF Scrolls, Opens
      <4>2. QED
        BY <4>1
    <3>2. QED
      BY <1>1, <3>1 DEF Scrolls, Opens
  <2>7. ASSUME NEW r \in Room, NEW u \in 1 .. Len(up'), IsNew(up'[u], r)
        PROVE  Silent(r, 0 .. Len(down))' /\ \A v \in 1 .. Len(down') : ~IsNew(down'[v], r)
    <3>1. Silent(r, 0 .. Len(down)) /\ \A v \in 1 .. Len(down) : ~IsNew(down[v], r)
      BY <1>2, <2>7 DEF Scrolls, Opens
    <3>2. QED
      BY <1>1, <1>6, <3>1 DEF Silent
  <2>8. ASSUME NEW r \in Room, NEW j \in 1 .. Len(down'), IsNew(down'[j], r)
        PROVE  Silent(r, (0 .. Len(down)) \ {j})'
    <3>1. Silent(r, (0 .. Len(down)) \ {j})
      BY <1>1, <2>8 DEF Scrolls, Opens
    <3>2. QED
      BY <1>1, <1>6, <3>1 DEF Silent
  <2>9. screen' = "before" => \A r \in Room : rows'[r] = <<>>
    BY <1>1 DEF Scrolls, Opens
  <2>10. QED
    BY <2>2, <2>3, <2>4, <2>5, <2>6, <2>7, <2>8, <2>9 DEF Opens
<1>8. OneOld'
  <2>1. ASSUME NEW u \in 1 .. Len(up'), NEW v \in 1 .. Len(up'), up'[u].op = "old", up'[v].op = "old"
        PROVE  u = v
    <3>1. u + 1 = v + 1
      BY <1>2, <2>1 DEF Scrolls, OneOld
    <3>2. QED
      BY <3>1
  <2>2. QED
    BY <1>1, <1>3, <2>1 DEF Scrolls, OneOld
<1>9. QED
  BY <1>4, <1>5, <1>7, <1>8 DEF Scrolls

-------------------------------------------------------------------------------
(* The other members.                                                      *)

\* Before it signs in the client has no rows, and nothing waits.
LEMMA BeforeScrolls ==
  ASSUME Inv, Alive, Scrolls, screen = "before", UNCHANGED <<client, up, down>>,
         joined' \subseteq Room,
         \A m \in messages' : m.date <= now',
         \A m, n \in messages' : (m.id < n.id <=> m.date < n.date) /\ (m.id = n.id => m = n)
  PROVE  Scrolls'
<1>1. screen' = "before" /\ rows' = rows /\ waiting' = waiting /\ up' = up /\ down' = down
  BY DEF client
<1>2. up = <<>> /\ down = <<>> /\ \A r \in Room : rows[r] = <<>>
  BY DEF Alive, Scrolls, Opens
<1>3. Len(<<>>) = 0 /\ ToSet(<<>>) = {}
  <2>1. <<>> \in Seq(Shown) /\ Len(<<>>) = 0
    OBVIOUS
  <2>2. QED
    BY <2>1, NoRows
<1>4. ASSUME NEW r \in Room, NEW i \in 0 .. Len(down') PROVE i = 0 /\ At(down', rows'[r], r, i) = {}
  <2>1. i = 0
    BY <1>1, <1>2, <1>3
  <2>2. QED
    BY <1>1, <1>2, <1>3, <2>1 DEF At
<1>5. Stretched'
  <2>1. ASSUME NEW r \in Room
        PROVE  InOrder(down', rows'[r], r) /\ Kept(down', rows'[r], r, messages')
    <3>1. Rising(rows'[r])
      BY <1>1, <1>2, <1>3 DEF Rising
    <3>2. \A i \in 1 .. Len(down') : FALSE
      BY <1>1, <1>2, <1>3
    <3>3. QED
      BY <1>4, <3>1, <3>2 DEF InOrder, Kept
  <2>2. ASSUME NEW r \in Room PROVE Whole(down', rows'[r], r, messages')
    BY <1>4 DEF Whole
  <2>3. QED
    BY <2>1, <2>2 DEF Stretched
<1>6. Asked'
  BY <1>1, <1>2, <1>3 DEF Asked
<1>7. Dates'
  BY <1>4 DEF Dates
<1>8. Opens' /\ OneOld'
  <2>1. Opening' = Opening
    BY <1>1 DEF Opening, Among
  <2>2. \A r \in Room : \A P : Silent(r, P)' <=> Silent(r, P)
    BY <1>1 DEF Silent
  <2>3. QED
    BY <1>1, <1>2, <1>3, <2>1, <2>2 DEF Scrolls, Opens, OneOld, Among, Silent
<1>9. QED
  BY <1>5, <1>6, <1>7, <1>8 DEF Scrolls

\* The others' requests, while the client is signed in: a message is new ...
LEMMA PostScrolls ==
  ASSUME Inv, Scrolls, Calm = TRUE, screen = "on", NEW r \in Room, Post(r)
  PROVE  Scrolls'
<1> DEFINE new == [id |-> NewId(messages), room |-> r, date |-> now]
           line == [op |-> "message", room |-> r, msg |-> ShownAs(new)]
<1>1. /\ messages' = messages \cup {new} /\ new \in MessageRow
      /\ \A m \in messages : m.id < new.id /\ m.date < new.date
      /\ MessageIdByDate(messages', r, now) = new.id
  BY PostNew DEF Scrolls
<1>2. /\ now' = now /\ joined' = joined /\ screen' = "on" /\ rows' = rows /\ waiting' = waiting
      /\ up' = up /\ down' = Append(down, line) /\ ~Opening
  BY <1>1 DEF Post, Broadcast, client, ShownAs
<1>3. new.room = r /\ new.date = now /\ ShownAs(new).id = new.id /\ ShownAs(new).date = now
  BY DEF ShownAs
<1>4. /\ line \in Reply /\ line.op = "message" /\ \A s \in Room : \A id : ~Kills(line, s, id)
      /\ \A s \in Room : Said(line, s) = IF s = r THEN {ShownAs(new)} ELSE {}
  <2>1. ShownAs(new) \in Shown
    BY <1>1 DEF ShownAs, Shown, MessageRow
  <2>2. line \in Reply
    BY <2>1 DEF Reply
  <2>3. QED
    BY <2>2 DEF Kills, Said
<1>5. \A m \in messages : ShownAs(m).id = m.id /\ ShownAs(m).date = m.date
  BY DEF ShownAs
<1>6. /\ messages \subseteq MessageRow /\ now \in Int /\ down \in Seq(Reply)
      /\ rows \in [Room -> Seq(Shown)] /\ Len(up) \in Nat
  BY LenProperties DEF Inv, TypeOK
<1> HIDE DEF new, line
<1>7. Taken(0)
  BY <1>2, <1>6 DEF Taken
<1>8. ASSUME NEW i \in 0 .. Len(down), NEW e \in At(down, rows[r], r, i)
      PROVE  /\ e.id # new.id \/ Killed(down, r, e.id, i, Len(down) + 1)
             /\ e.date < now \/ (e.date = now /\ Killed(down, r, e.id, i, Len(down) + 1))
  <2>1. CASE Killed(down, r, e.id, i, Len(down) + 1)
    <3>1. e \in Shown /\ e.date <= now
      BY <1>6, AtFacts DEF Scrolls, Dates
    <3>2. QED
      BY <1>6, <2>1, <3>1 DEF Shown
  <2>2. CASE ~Killed(down, r, e.id, i, Len(down) + 1)
    <3>1. PICK m \in messages : m.room = r /\ ShownAs(m) = e
      BY <2>2 DEF Scrolls, Stretched, Kept, LiveAt
    <3>2. m.id \in Int /\ new.id \in Int /\ m.id < new.id /\ m.date < now
      BY <1>1, <1>3, <1>6 DEF MessageRow
    <3>3. QED
      BY <1>5, <3>1, <3>2
  <2>3. QED
    BY <2>1, <2>2
<1>9. \A s \in Room : \A m \in messages' : m.room = s =>
        (m \in messages /\ ~Kills(line, s, m.id)) \/ ShownAs(m) \in Said(line, s)
  BY <1>1, <1>3, <1>4
<1>10. joined \subseteq Room
  BY DEF Inv, TypeOK
<1>11. Stretched'
  <2>1. ASSUME NEW s \in Room, NEW e \in Said(line, s)
        PROVE  ShownSince(Append(down, line), rows[s], s, messages', e.date)
    <3>1. s = r /\ e = ShownAs(new)
      BY <1>4, <2>1
    <3>2. ASSUME NEW m \in messages', m.date >= now PROVE m = new
      <4>1. \A n \in messages : n.date \in Int /\ n.date < now
        BY <1>1, <1>3, <1>6 DEF MessageRow
      <4>2. QED
        BY <1>1, <1>6, <3>2, <4>1
    <3>3. Live(Append(down, line), rows[s], s, e)
      BY <1>4, <1>6, <2>1, LiveAppended
    <3>4. QED
      BY <1>3, <3>1, <3>2, <3>3 DEF ShownSince
  <2>2. \A s \in Room : \A i \in 0 .. Len(down) :
          \A e \in At(down, rows[s], s, i), f \in Said(line, s) :
             /\ e.id # f.id \/ Killed(down, s, e.id, i, Len(down) + 1)
             /\ line.op = "old" => f.date < e.date
             /\ line.op # "old" =>
                  e.date < f.date \/ (e.date = f.date /\ Killed(down, s, e.id, i, Len(down) + 1))
    BY <1>3, <1>4, <1>8
  <2>3. \A s \in Room : \A e \in Said(line, s) : \E m \in messages' : m.room = s /\ ShownAs(m) = e
    BY <1>1, <1>3, <1>4
  <2>4. \A s \in Room : \A m \in messages : m.room = s /\ ~Kills(line, s, m.id) => m \in messages'
    BY <1>1
  <2>5. QED
    BY <1>2, <1>4, <1>9, <1>10, <2>1, <2>2, <2>3, <2>4, LineStretched DEF Scrolls
<1>12. Asked'
  <2>1. ASSUME NEW u \in 1 .. Len(up'), up'[u].op = "old", NEW e \in Said(line, up'[u].room)
        PROVE  e.date >= up'[u].date
    <3>1. up'[u] \in Request
      BY <1>2, ElementOfSeq DEF Inv, TypeOK
    <3>2. up'[u].room \in Room /\ up'[u].date \in Int
      BY <2>1, <3>1 DEF Request
    <3>3. e.date = now /\ up'[u].date <= now
      BY <1>2, <1>3, <1>4, <2>1, <3>2 DEF Scrolls, Asked
    <3>4. QED
      BY <1>6, <3>2, <3>3
  <2>2. QED
    BY <1>2, <1>4, <1>7, <1>9, <1>10, <2>1, LineAsked DEF Scrolls
<1>13. Dates'
  <2>1. \A m \in messages' : m.date <= now
    BY <1>1, <1>3, <1>6 DEF Scrolls, Dates
  <2>2. \A m, n \in messages' : (m.id < n.id <=> m.date < n.date) /\ (m.id = n.id => m = n)
    <3>1. \A m \in messages' : m.id \in Int /\ m.date \in Int
      BY <1>1, <1>6 DEF MessageRow
    <3>2. \A m, n \in messages : (m.id < n.id <=> m.date < n.date) /\ (m.id = n.id => m = n)
      BY DEF Scrolls, Dates
    <3>3. QED
      BY <1>1, <3>1, <3>2
  <2>3. \A s \in Room : \A e \in Said(line, s) : e.date <= now
    BY <1>3, <1>4, <1>6
  <2>4. QED
    BY <1>2, <1>4, <2>1, <2>2, <2>3, LineDates DEF Scrolls
<1>14. Opens' /\ OneOld'
  BY <1>2, <1>4, <1>7, LineOpens, LineOneOld DEF Scrolls
<1>15. QED
  BY <1>11, <1>12, <1>13, <1>14 DEF Scrolls

\* ... and the other lines take back what goes from the table.
LEMMA TakenBack ==
  ASSUME Inv, Scrolls, screen = "on", NEW r \in Room, NEW line \in Reply, Broadcast(r, line),
         UNCHANGED <<now, client, up>>, joined' \subseteq joined, messages' \subseteq messages,
         line.op \in {"deleted", "cleared", "ended"},
         \A s \in Room : \A m \in messages : m.room = s /\ ~Kills(line, s, m.id) => m \in messages',
         \A s \in joined' : \A m \in messages' : m.room = s => ~Kills(line, s, m.id)
  PROVE  Scrolls'
<1>1. /\ now' = now /\ screen' = "on" /\ rows' = rows /\ waiting' = waiting
      /\ up' = up /\ down' = Append(down, line) /\ Len(up) \in Nat
  BY LenProperties DEF Broadcast, client, Inv, TypeOK
<1>2. \A s : Said(line, s) = {}
  BY DEF Said
<1>3. Taken(0)
  BY <1>1 DEF Taken
<1>4. Stretched'
  BY <1>1, <1>2, LineStretched DEF Scrolls
<1>5. Asked'
  BY <1>1, <1>2, <1>3, LineAsked DEF Scrolls
<1>6. Dates'
  <2>1. \A m, n \in messages' : (m.id < n.id <=> m.date < n.date) /\ (m.id = n.id => m = n)
    BY DEF Scrolls, Dates
  <2>2. \A m \in messages' : m.date <= now
    BY DEF Scrolls, Dates
  <2>3. QED
    BY <1>1, <1>2, <2>1, <2>2, LineDates DEF Scrolls
<1>7. Opens' /\ OneOld'
  BY <1>1, <1>2, <1>3, LineOpens, LineOneOld DEF Scrolls
<1>8. QED
  BY <1>4, <1>5, <1>6, <1>7 DEF Scrolls

LEMMA OthersScroll ==
  ASSUME Inv, Alive, Scrolls, Calm = TRUE, NEW r \in Room,
         Post(r) \/ DelMsg(r) \/ ClearRoom(r) \/ EndRoom(r)
  PROVE  Scrolls'
<1>1. /\ UNCHANGED <<now, client, up>> /\ joined' \subseteq joined /\ joined \subseteq Room
      /\ messages \subseteq MessageRow /\ screen \in {"before", "on"}
  BY DEF Post, DelMsg, ClearRoom, EndRoom, Broadcast, Inv, TypeOK
<1>2. CASE screen = "before"
  <2>1. down' = down
    BY <1>2 DEF Post, DelMsg, ClearRoom, EndRoom, Broadcast
  <2>2. ASSUME messages' \subseteq messages PROVE Scrolls'
    <3>1. \A m \in messages' : m.date <= now'
      BY <1>1, <2>2 DEF Scrolls, Dates
    <3>2. \A m, n \in messages' : (m.id < n.id <=> m.date < n.date) /\ (m.id = n.id => m = n)
      BY <2>2 DEF Scrolls, Dates
    <3>3. joined' \subseteq Room
      BY <1>1
    <3>4. QED
      BY <1>1, <1>2, <2>1, <3>1, <3>2, <3>3, BeforeScrolls
  <2>3. CASE Post(r)
    <3> DEFINE new == [id |-> NewId(messages), room |-> r, date |-> now]
    <3>1. /\ messages' = messages \cup {new} /\ new \in MessageRow
          /\ \A m \in messages : m.id < new.id /\ m.date < new.date
      BY <2>3, PostNew DEF Scrolls
    <3>2. new.date = now /\ now \in Int
      BY DEF Inv, TypeOK
    <3> HIDE DEF new
    <3>3. \A m \in messages' : m.date <= now'
      BY <1>1, <3>1, <3>2 DEF Scrolls, Dates
    <3>4. \A m, n \in messages' : (m.id < n.id <=> m.date < n.date) /\ (m.id = n.id => m = n)
      <4>1. \A m \in messages' : m.id \in Int /\ m.date \in Int
        BY <1>1, <3>1 DEF MessageRow
      <4>2. \A m, n \in messages : (m.id < n.id <=> m.date < n.date) /\ (m.id = n.id => m = n)
        BY DEF Scrolls, Dates
      <4>3. QED
        BY <3>1, <4>1, <4>2
    <3>5. joined' \subseteq Room
      BY <1>1
    <3>6. QED
      BY <1>1, <1>2, <2>1, <3>3, <3>4, <3>5, BeforeScrolls
  <2>4. QED
    BY <2>2, <2>3 DEF DelMsg, ClearRoom, EndRoom, DeleteMessage, WithoutRoom
<1>3. CASE screen = "on"
  <2>1. CASE Post(r)
    BY <1>3, <2>1, PostScrolls
  <2>2. CASE DelMsg(r)
    <3>1. PICK m \in messages :
            /\ m.room = r /\ messages' = DeleteMessage(messages, m.id)
            /\ Broadcast(r, [op |-> "deleted", room |-> r, id |-> m.id])
      BY <2>2 DEF DelMsg
    <3> DEFINE line == [op |-> "deleted", room |-> r, id |-> m.id]
    <3>2. line \in Reply
      BY <1>1 DEF MessageRow, Reply
    <3>3. \A s \in Room : \A id : Kills(line, s, id) <=> s = r /\ id = m.id
      BY DEF Kills
    <3>4. line.op = "deleted" /\ Broadcast(r, line)
      BY <3>1
    <3> HIDE DEF line
    <3>5. \A n \in messages : n.id = m.id => n.room = r
      BY <3>1 DEF Scrolls, Dates
    <3>6. messages' = {n \in messages : n.id # m.id}
      BY <3>1 DEF DeleteMessage
    <3>7. /\ \A s \in Room : \A n \in messages : n.room = s /\ ~Kills(line, s, n.id) => n \in messages'
          /\ \A s \in joined' : \A n \in messages' : n.room = s => ~Kills(line, s, n.id)
      BY <1>1, <3>3, <3>5, <3>6
    <3>8. QED
      BY <1>1, <1>3, <3>2, <3>4, <3>6, <3>7, TakenBack
  <2>3. CASE ClearRoom(r)
    <3> DEFINE line == [op |-> "cleared", room |-> r]
    <3>1. line \in Reply /\ \A s \in Room : \A id : Kills(line, s, id) <=> s = r
      BY DEF Reply, Kills
    <3>2. line.op = "cleared" /\ Broadcast(r, line) /\ messages' = {n \in messages : n.room # r}
      BY <2>3 DEF ClearRoom, WithoutRoom
    <3> HIDE DEF line
    <3>3. QED
      BY <1>1, <1>3, <3>1, <3>2, TakenBack
  <2>4. CASE EndRoom(r)
    <3> DEFINE line == [op |-> "ended", room |-> r]
    <3>1. line \in Reply /\ \A s \in Room : \A id : Kills(line, s, id) <=> s = r
      BY DEF Reply, Kills
    <3>2. /\ line.op = "ended" /\ Broadcast(r, line) /\ joined' = joined \ {r}
          /\ messages' = messages \/ messages' = {n \in messages : n.room # r}
      BY <2>4 DEF EndRoom, WithoutRoom
    <3> HIDE DEF line
    <3>3. QED
      BY <1>1, <1>3, <3>1, <3>2, TakenBack
  <2>5. QED
    BY <2>1, <2>2, <2>3, <2>4
<1>4. QED
  BY <1>1, <1>2, <1>3

LEMMA TickScrolls ==
  ASSUME Inv, Scrolls, Tick
  PROVE  Scrolls'
<1>1. /\ now' = now + 1 /\ messages' = messages /\ joined' = joined /\ up' = up /\ down' = down
      /\ screen' = screen /\ rows' = rows /\ waiting' = waiting
  BY DEF Tick, client
<1>2. /\ now \in Int /\ messages \subseteq MessageRow /\ down \in Seq(Reply)
      /\ rows \in [Room -> Seq(Shown)] /\ up \in Seq(Request)
  BY DEF Inv, TypeOK
<1>3. Dates'
  <2>1. \A m \in messages : m.date <= now + 1
    BY <1>2 DEF Scrolls, Dates, MessageRow
  <2>2. ASSUME NEW r \in Room, NEW i \in 0 .. Len(down), NEW e \in At(down, rows[r], r, i)
        PROVE  e.date <= now + 1
    <3>1. e \in Shown /\ e.date <= now
      BY <1>2, AtFacts DEF Scrolls, Dates
    <3>2. QED
      BY <1>2, <3>1 DEF Shown
  <2>3. QED
    BY <1>1, <2>1, <2>2 DEF Scrolls, Dates
<1>4. Asked'
  <2> SUFFICES ASSUME NEW u \in 1 .. Len(up), up[u].op = "old"
               PROVE  LET r == up[u].room IN
                        /\ up[u].date <= now + 1
                        /\ \A i \in 0 .. Len(down) : \A e \in At(down, rows[r], r, i) :
                             e.date >= up[u].date
                        /\ r \in joined => ShownSince(down, rows[r], r, messages, up[u].date)
    BY <1>1 DEF Asked
  <2>1. up[u].date \in Int
    <3>1. up[u] \in Request
      BY <1>2, ElementOfSeq
    <3>2. QED
      BY <3>1 DEF Request
  <2>2. up[u].date <= now + 1
    BY <1>2, <2>1 DEF Scrolls, Asked
  <2>3. QED
    BY <2>2 DEF Scrolls, Asked
<1>5. Stretched'
  BY <1>1 DEF Scrolls, Stretched
<1>6. Opens' /\ OneOld'
  <2>1. Opening' = Opening
    BY <1>1 DEF Opening, Among
  <2>2. \A r \in Room : \A P : Silent(r, P)' <=> Silent(r, P)
    BY <1>1 DEF Silent
  <2>3. QED
    BY <1>1, <2>1, <2>2 DEF Scrolls, Opens, OneOld, Among, Silent
<1>7. QED
  BY <1>3, <1>4, <1>5, <1>6 DEF Scrolls

-------------------------------------------------------------------------------
(* The server's answers.                                                   *)

LEMMA Served ==
  ASSUME Inv, NEW op, Serve(op)
  PROVE  /\ Taken(1) /\ up[1] = Head(up) /\ up[1].op = op /\ 1 \in 1 .. Len(up)
         /\ up[1] \in Request /\ \A u \in 1 .. Len(up') : up'[u] \in Request
         /\ UNCHANGED <<server, client>>
         /\ messages' = messages /\ now' = now /\ joined' = joined /\ screen' = "on"
         /\ rows' = rows /\ waiting' = waiting
<1>1. up \in Seq(Request) /\ up # <<>> /\ up' = Tail(up) /\ Head(up).op = op
  BY DEF Serve, Inv, TypeOK
<1>2. /\ Len(up) \in Nat \ {0} /\ Len(up') = Len(up) - 1 /\ up[1] = Head(up)
      /\ \A u \in 1 .. Len(up') : u + 1 \in 1 .. Len(up) /\ up'[u] = up[u + 1]
  BY <1>1, HeadTailProperties, LenProperties
<1>3. \A u \in 1 .. Len(up) : up[u] \in Request
  BY <1>1, ElementOfSeq
<1>4. Taken(1)
  BY <1>2 DEF Taken
<1>5. QED
  BY <1>1, <1>2, <1>3, <1>4 DEF Serve, server, client

\* The rooms are listed before anything is said of them.
LEMMA GetRoomsScrolls ==
  ASSUME Inv, Alive, Scrolls, GetRooms
  PROVE  Scrolls'
<1> DEFINE line == [op |-> "rooms", rooms |-> joined]
<1>1. /\ Taken(1) /\ up[1].op = "rooms" /\ 1 \in 1 .. Len(up)
      /\ messages' = messages /\ now' = now /\ joined' = joined /\ screen' = "on"
      /\ rows' = rows /\ waiting' = waiting
  BY Served DEF GetRooms
<1>2. /\ line \in Reply /\ line.op = "rooms"
      /\ \A s : Said(line, s) = {} /\ \A id : ~Kills(line, s, id)
  BY DEF Reply, Said, Kills, Inv, TypeOK
<1>3. down' = Append(down, line)
  BY DEF GetRooms
<1> HIDE DEF line
<1>4. Stretched'
  BY <1>1, <1>2, <1>3, LineStretched DEF Scrolls
<1>5. Asked'
  BY <1>1, <1>2, <1>3, LineAsked DEF Scrolls
<1>6. Dates'
  BY <1>1, <1>2, <1>3, LineDates DEF Scrolls, Dates
<1>7. OneOld'
  BY <1>1, <1>2, <1>3, LineOneOld DEF Scrolls
<1>8. Opens'
  <2>1. /\ Len(down) \in Nat /\ Len(down') = Len(down) + 1 /\ down'[Len(down) + 1] = line
        /\ \A i \in 1 .. Len(down) : down'[i] = down[i]
        /\ \A i \in 1 .. Len(down') : i \in 1 .. Len(down) \/ i = Len(down) + 1
    BY <1>1, <1>2, <1>3, LinePlaces
  <2>2. Among({"rooms"}, up) /\ Opening
    BY <1>1 DEF Among, Opening
  <2>3. /\ ~Among({"new"}, up) /\ ~Among({"new"}, down) /\ ~Among({"rooms"}, down)
        /\ ~Among({"message"}, down) /\ \A r \in Room : Silent(r, 0 .. Len(down))
    BY <2>2 DEF Scrolls, Opens
  <2>4. ASSUME NEW r \in Room PROVE Silent(r, 0 .. Len(down))'
    <3>1. /\ \A i \in (0 .. Len(down)) \cup {Len(down) + 1} : At(down', rows'[r], r, i) = {}
          /\ \A u \in 1 .. Len(up') : ~IsOld(up'[u], r)
      BY <1>1, <1>2, <1>3, <2>3, LineSilent
    <3>2. \A i \in 0 .. Len(down') : i \in (0 .. Len(down)) \cup {Len(down) + 1}
      BY <2>1
    <3>3. QED
      BY <3>1, <3>2 DEF Silent
  <2>5. \A i \in 1 .. Len(up') : up'[i].op # "rooms" /\ up'[i].op # "new"
    <3>1. ASSUME NEW i \in 1 .. Len(up') PROVE up'[i].op # "rooms" /\ up'[i].op # "new"
      <4>1. i + 1 \in 1 .. Len(up) /\ up'[i] = up[i + 1] /\ i + 1 # 1
        BY <1>1 DEF Taken
      <4>2. QED
        BY <2>3, <4>1 DEF Alive, Among
    <3>2. QED
      BY <3>1
  <2>6. \A i \in 1 .. Len(down') : /\ down'[i].op # "new" /\ down'[i].op # "message"
                                   /\ down'[i].op = "rooms" => i = Len(down) + 1
    BY <1>2, <2>1, <2>3 DEF Among
  <2>7. \A r : /\ \A i \in 1 .. Len(up') : ~IsNew(up'[i], r)
               /\ \A i \in 1 .. Len(down') : ~IsNew(down'[i], r)
    BY <2>5, <2>6 DEF IsNew
  <2>8. ~Among({"message"}, down') /\ ~Among({"new"}, up') /\ ~Among({"new"}, down')
        /\ ~Among({"rooms"}, up')
    BY <2>5, <2>6 DEF Among
  <2>9. QED
    BY <1>1, <2>4, <2>6, <2>7, <2>8 DEF Opens
<1>9. QED
  BY <1>4, <1>5, <1>6, <1>7, <1>8 DEF Scrolls

\* What is new in a room is the first that is said of it.
LEMMA NewScrolls ==
  ASSUME Inv, Scrolls, NEW r, r = Head(up).room, Serve("new"),
         NEW p \in PagesOf({m \in messages : m.room = r}),
         down' = Append(down, [op |-> "new", room |-> r, page |-> p])
  PROVE  Scrolls'
<1> DEFINE line == [op |-> "new", room |-> r, page |-> p]
           table == {m \in messages : m.room = r}
<1>1. /\ Taken(1) /\ up[1] = Head(up) /\ up[1].op = "new" /\ 1 \in 1 .. Len(up)
      /\ up[1] \in Request /\ \A u \in 1 .. Len(up') : up'[u] \in Request
      /\ messages' = messages /\ now' = now /\ joined' = joined /\ screen' = "on"
      /\ rows' = rows /\ waiting' = waiting
  BY Served
<1>2. r \in Room
  BY <1>1 DEF Request
<1>3. /\ Falling(p) /\ p \in Seq(Shown)
      /\ \A e \in ToSet(p) : \E m \in table : e = ShownAs(m)
      /\ \A e \in ToSet(p) : \A m \in table : m.date >= e.date => ShownAs(m) \in ToSet(p)
  BY PageWhole DEF Scrolls
<1>4. /\ line \in Reply /\ line.op = "new" /\ line.page = p
      /\ \A s \in Room : \A id : ~Kills(line, s, id)
      /\ \A s \in Room : Said(line, s) = IF s = r THEN ToSet(p) ELSE {}
      /\ \A s : IsNew(line, s) <=> s = r
  BY <1>2, <1>3 DEF Reply, Kills, Said, IsNew
<1>5. down' = Append(down, line) /\ joined \subseteq Room /\ down \in Seq(Reply)
  BY DEF Inv, TypeOK
<1> HIDE DEF line
<1>6. IsNew(up[1], r)
  BY <1>1 DEF IsNew
<1>7. Silent(r, 0 .. Len(down)) /\ \A v \in 1 .. Len(down) : ~IsNew(down[v], r)
  BY <1>1, <1>2, <1>6 DEF Scrolls, Opens
<1>8. \A u \in 1 .. Len(up') : ~IsOld(up'[u], r)
  BY <1>1, <1>7 DEF Taken, Silent
<1>9. Stretched'
  <2>1. ASSUME NEW s \in Room, NEW e \in Said(line, s)
        PROVE  ShownSince(Append(down, line), rows[s], s, messages, e.date)
    <3>1. s = r /\ e \in ToSet(p)
      BY <1>4, <2>1
    <3>2. \A m \in messages : m.room = r /\ m.date >= e.date => ShownAs(m) \in Said(line, s)
      BY <1>3, <1>4, <3>1
    <3>3. QED
      BY <1>4, <1>5, <3>1, <3>2, LiveAppended DEF ShownSince
  <2>2. \A s \in Room : \A e \in Said(line, s) : \E m \in messages : m.room = s /\ ShownAs(m) = e
    BY <1>3, <1>4
  <2>3. \A s \in Room : \A i \in 0 .. Len(down) :
          \A e \in At(down, rows[s], s, i), f \in Said(line, s) : FALSE
    BY <1>4, <1>7 DEF Silent
  <2>4. QED
    BY <1>1, <1>3, <1>4, <1>5, <2>1, <2>2, <2>3, LineStretched DEF Scrolls
<1>10. Asked'
  <2>1. ASSUME NEW u \in 1 .. Len(up'), up'[u].op = "old" PROVE Said(line, up'[u].room) = {}
    <3>1. up'[u].room \in Room /\ up'[u].room # r
      BY <1>1, <1>8, <2>1 DEF Request, IsOld
    <3>2. QED
      BY <1>4, <3>1
  <2>2. QED
    BY <1>1, <1>4, <1>5, <2>1, LineAsked DEF Scrolls
<1>11. Dates'
  <2>1. ASSUME NEW s \in Room, NEW e \in Said(line, s) PROVE e.date <= now
    <3>1. PICK m \in table : e = ShownAs(m)
      BY <1>3, <1>4, <2>1
    <3>2. QED
      BY <3>1 DEF Scrolls, Dates, ShownAs
  <2>2. QED
    BY <1>1, <1>4, <1>5, <2>1, LineDates DEF Scrolls, Dates
<1>12. OneOld'
  BY <1>1, <1>4, <1>5, LineOneOld DEF Scrolls
<1>13. Opens'
  <2>1. /\ Len(down) \in Nat /\ Len(down') = Len(down) + 1 /\ down'[Len(down) + 1] = line
        /\ \A i \in 1 .. Len(down) : down'[i] = down[i]
        /\ \A i \in 1 .. Len(down') : i \in 1 .. Len(down) \/ i = Len(down) + 1
        /\ Among({"rooms"}, up') => Among({"rooms"}, up)
        /\ Among({"rooms"}, down') => Among({"rooms"}, down) \/ line.op = "rooms"
        /\ Among({"message"}, down') => Among({"message"}, down) \/ line.op = "message"
    BY <1>1, <1>4, <1>5, LinePlaces
  <2>2. Among({"new"}, up) /\ Opening
    BY <1>1 DEF Among, Opening
  <2>3. ~Among({"message"}, down') /\ ~Among({"rooms"}, up') /\ ~Among({"rooms"}, down')
    BY <1>4, <2>1, <2>2 DEF Scrolls, Opens
  <2>4. ASSUME NEW s \in Room \ {r}, NEW P \in SUBSET (0 .. Len(down)), Silent(s, P)
        PROVE  /\ \A i \in P \cup {Len(down) + 1} : At(down', rows'[s], s, i) = {}
               /\ \A u \in 1 .. Len(up') : ~IsOld(up'[u], s)
    BY <1>1, <1>4, <1>5, <2>4, LineSilent
  <2>5. ASSUME NEW s \in Room, NEW u \in 1 .. Len(up'), IsNew(up'[u], s)
        PROVE  s # r /\ u + 1 \in 1 .. Len(up) /\ IsNew(up[u + 1], s)
    <3>1. u + 1 \in 1 .. Len(up) /\ u + 1 # 1 /\ up'[u] = up[u + 1]
      BY <1>1 DEF Taken
    <3>2. QED
      BY <1>1, <1>6, <2>5, <3>1 DEF Scrolls, Opens
  <2>6. ASSUME NEW s \in Room, NEW u \in 1 .. Len(up'), NEW v \in 1 .. Len(up'),
               IsNew(up'[u], s), IsNew(up'[v], s)
        PROVE  u = v
    <3>1. u + 1 = v + 1
      BY <2>5, <2>6 DEF Scrolls, Opens
    <3>2. QED
      BY <3>1
  <2>7. ASSUME NEW s \in Room, NEW j \in 1 .. Len(down'), IsNew(down'[j], s)
        PROVE  \/ j \in 1 .. Len(down) /\ IsNew(down[j], s) /\ s # r
               \/ j = Len(down) + 1 /\ s = r
    BY <1>4, <1>7, <2>1, <2>7
  <2>8. \A s \in Room : \A u, v \in 1 .. Len(down') :
          IsNew(down'[u], s) /\ IsNew(down'[v], s) => u = v
    BY <2>7 DEF Scrolls, Opens
  <2>9. ASSUME NEW s \in Room, NEW u \in 1 .. Len(up'), IsNew(up'[u], s)
        PROVE  Silent(s, 0 .. Len(down))' /\ \A v \in 1 .. Len(down') : ~IsNew(down'[v], s)
    <3>1. s # r /\ u + 1 \in 1 .. Len(up) /\ IsNew(up[u + 1], s)
      BY <2>5, <2>9
    <3>2. Silent(s, 0 .. Len(down)) /\ \A v \in 1 .. Len(down) : ~IsNew(down[v], s)
      BY <3>1 DEF Scrolls, Opens
    <3>3. \A i \in 0 .. Len(down') : i \in (0 .. Len(down)) \cup {Len(down) + 1}
      BY <2>1
    <3>4. Silent(s, 0 .. Len(down))'
      BY <2>4, <3>1, <3>2, <3>3 DEF Silent
    <3>5. QED
      BY <2>7, <3>1, <3>2, <3>4
  <2>10. ASSUME NEW s \in Room, NEW j \in 1 .. Len(down'), IsNew(down'[j], s)
         PROVE  Silent(s, (0 .. Len(down)) \ {j})'
    <3>1. CASE j \in 1 .. Len(down) /\ IsNew(down[j], s) /\ s # r
      <4> DEFINE P == (0 .. Len(down)) \ {j}
      <4>1. P \in SUBSET (0 .. Len(down)) /\ Silent(s, P)
        BY <3>1 DEF Scrolls, Opens
      <4>2. \A i \in (0 .. Len(down')) \ {j} : i \in P \cup {Len(down) + 1}
        BY <2>1
      <4> HIDE DEF P
      <4>3. /\ \A i \in P \cup {Len(down) + 1} : At(down', rows'[s], s, i) = {}
            /\ \A u \in 1 .. Len(up') : ~IsOld(up'[u], s)
        BY <2>4, <3>1, <4>1
      <4>4. QED
        BY <4>2, <4>3 DEF Silent
    <3>2. CASE j = Len(down) + 1 /\ s = r
      <4>1. \A i \in (0 .. Len(down')) \ {j} : i \in 0 .. Len(down)
        BY <2>1, <3>2
      <4>2. \A i \in 0 .. Len(down) : At(down', rows'[r], r, i) = {}
        <5>1. Lengthened(down, line, rows[r], r, down')
          BY <1>2, <1>4, <1>5, PlacesAppended
        <5>2. QED
          BY <1>1, <1>7, <5>1 DEF Lengthened, Silent
      <4>3. QED
        BY <1>8, <3>2, <4>1, <4>2 DEF Silent
    <3>3. QED
      BY <2>7, <2>10, <3>1, <3>2
  <2>11. QED
    BY <1>1, <2>3, <2>6, <2>8, <2>9, <2>10 DEF Opens, Among
<1>14. QED
  BY <1>9, <1>10, <1>11, <1>12, <1>13 DEF Scrolls

\* What is older than all that is shown goes before it.
LEMMA OldScrolls ==
  ASSUME Inv, Scrolls, NEW r, r = Head(up).room, Serve("old"), r \in joined,
         NEW p \in PagesOf(Before(r, Head(up).date)),
         down' = Append(down, [op |-> "old", room |-> r, page |-> p])
  PROVE  Scrolls'
<1> DEFINE line == [op |-> "old", room |-> r, page |-> p]
           date == Head(up).date
           table == Before(r, date)
<1>1. /\ Taken(1) /\ up[1] = Head(up) /\ up[1].op = "old" /\ 1 \in 1 .. Len(up)
      /\ up[1] \in Request
      /\ messages' = messages /\ now' = now /\ joined' = joined /\ screen' = "on"
      /\ rows' = rows /\ waiting' = waiting
  BY Served
<1>2. r \in Room /\ date \in Int /\ up[1].room = r /\ up[1].date = date
  BY <1>1 DEF Request
<1>3. table \subseteq messages /\ \A m \in table : m.room = r /\ m.date < date
  BY DEF Before
<1>4. /\ Falling(p) /\ p \in Seq(Shown)
      /\ \A e \in ToSet(p) : \E m \in table : e = ShownAs(m)
      /\ \A e \in ToSet(p) : \A m \in table : m.date >= e.date => ShownAs(m) \in ToSet(p)
  BY <1>3, PageWhole DEF Scrolls
<1>5. /\ line \in Reply /\ line.op = "old" /\ line.page = p
      /\ \A s \in Room : \A id : ~Kills(line, s, id)
      /\ \A s \in Room : Said(line, s) = IF s = r THEN ToSet(p) ELSE {}
  BY <1>2, <1>4 DEF Reply, Kills, Said
<1>6. /\ down' = Append(down, line) /\ joined \subseteq Room /\ down \in Seq(Reply)
      /\ messages \subseteq MessageRow /\ rows \in [Room -> Seq(Shown)]
  BY DEF Inv, TypeOK
<1> HIDE DEF line
<1>7. /\ \A i \in 0 .. Len(down) : \A e \in At(down, rows[r], r, i) : e.date >= date
      /\ ShownSince(down, rows[r], r, messages, date)
  BY <1>1, <1>2 DEF Scrolls, Asked
<1>8. \A m \in messages : /\ ShownAs(m).id = m.id /\ ShownAs(m).date = m.date
                          /\ m.id \in Int /\ m.date \in Int
  BY <1>6 DEF ShownAs, MessageRow
<1>9. ASSUME NEW i \in 0 .. Len(down), NEW e \in At(down, rows[r], r, i), NEW f \in ToSet(p)
      PROVE  f.date < e.date /\ (e.id # f.id \/ Killed(down, r, e.id, i, Len(down) + 1))
  <2>1. PICK m \in messages : f = ShownAs(m) /\ m.date < date
    BY <1>3, <1>4
  <2>2. e \in Shown /\ e.date >= date
    BY <1>2, <1>6, <1>7, AtFacts
  <2>3. f.date < e.date
    BY <1>2, <1>8, <2>1, <2>2 DEF Shown
  <2>4. ASSUME ~Killed(down, r, e.id, i, Len(down) + 1) PROVE e.id # f.id
    <3>1. PICK n \in messages : ShownAs(n) = e
      BY <1>2, <2>4 DEF Scrolls, Stretched, Kept, LiveAt
    <3>2. m.date < n.date
      BY <1>8, <2>1, <2>3, <3>1
    <3>3. m.id < n.id
      BY <3>2 DEF Scrolls, Dates
    <3>4. QED
      BY <1>8, <2>1, <3>1, <3>3
  <2>5. QED
    BY <2>3, <2>4
<1>10. Stretched'
  <2>1. ASSUME NEW s \in Room, NEW e \in Said(line, s)
        PROVE  ShownSince(Append(down, line), rows[s], s, messages, e.date)
    <3>1. s = r /\ e \in ToSet(p)
      BY <1>5, <2>1
    <3>2. ASSUME NEW m \in messages, m.room = r, m.date >= e.date
          PROVE  Live(Append(down, line), rows[r], r, ShownAs(m))
      <4>1. CASE m.date >= date
        <5>1. Live(down, rows[r], r, ShownAs(m))
          BY <1>7, <3>2, <4>1 DEF ShownSince
        <5>2. QED
          BY <1>2, <1>5, <1>6, <5>1, LiveAppended
      <4>2. CASE ~(m.date >= date)
        <5>1. m \in table
          BY <1>2, <1>8, <3>2, <4>2 DEF Before
        <5>2. ShownAs(m) \in Said(line, r)
          BY <1>2, <1>4, <1>5, <3>1, <3>2, <5>1
        <5>3. QED
          BY <1>2, <1>5, <1>6, <5>2, LiveAppended
      <4>3. QED
        BY <4>1, <4>2
    <3>3. QED
      BY <3>1, <3>2 DEF ShownSince
  <2>2. \A s \in Room : \A e \in Said(line, s) : \E m \in messages : m.room = s /\ ShownAs(m) = e
    BY <1>3, <1>4, <1>5
  <2>3. \A s \in Room : \A i \in 0 .. Len(down) :
          \A e \in At(down, rows[s], s, i), f \in Said(line, s) :
             /\ e.id # f.id \/ Killed(down, s, e.id, i, Len(down) + 1)
             /\ line.op = "old" => f.date < e.date
             /\ line.op # "old" =>
                  e.date < f.date \/ (e.date = f.date /\ Killed(down, s, e.id, i, Len(down) + 1))
    BY <1>5, <1>9
  <2>4. QED
    BY <1>1, <1>4, <1>5, <1>6, <2>1, <2>2, <2>3, LineStretched DEF Scrolls
<1>11. \A u \in 1 .. Len(up') : up'[u].op # "old"
  <2>1. ASSUME NEW u \in 1 .. Len(up') PROVE up'[u].op # "old"
    <3>1. u + 1 \in 1 .. Len(up) /\ u + 1 # 1 /\ up'[u] = up[u + 1]
      BY <1>1 DEF Taken
    <3>2. QED
      BY <1>1, <3>1 DEF Scrolls, OneOld
  <2>2. QED
    BY <2>1
<1>12. Asked'
  BY <1>11 DEF Asked
<1>13. Dates'
  <2>1. ASSUME NEW s \in Room, NEW e \in Said(line, s) PROVE e.date <= now
    <3>1. PICK m \in messages : e = ShownAs(m)
      BY <1>3, <1>4, <1>5, <2>1
    <3>2. QED
      BY <3>1 DEF Scrolls, Dates, ShownAs
  <2>2. QED
    BY <1>1, <1>5, <1>6, <2>1, LineDates DEF Scrolls, Dates
<1>14. Opens'
  <2>1. \A s \in Room : Said(line, s) # {} => \E u \in 1 .. Len(up) : IsOld(up[u], s)
    BY <1>1, <1>2, <1>5 DEF IsOld
  <2>2. QED
    BY <1>1, <1>5, <1>6, <2>1, LineOpens DEF Scrolls
<1>15. OneOld'
  <2>1. /\ Len(down) \in Nat /\ Len(down') = Len(down) + 1
        /\ \A i \in 1 .. Len(down) : down'[i] = down[i]
        /\ \A i \in 1 .. Len(down') : i \in 1 .. Len(down) \/ i = Len(down) + 1
    BY <1>1, <1>5, <1>6, LinePlaces
  <2>2. Among({"old"}, up)
    BY <1>1 DEF Among
  <2>3. waiting /\ ~Among({"old"}, down)
    BY <2>2 DEF Scrolls, OneOld
  <2>4. \A i \in 1 .. Len(down') : down'[i].op = "old" => i = Len(down) + 1
    BY <2>1, <2>3 DEF Among
  <2>5. QED
    BY <1>1, <1>11, <2>3, <2>4 DEF OneOld, Among
<1>16. QED
  BY <1>10, <1>12, <1>13, <1>14, <1>15 DEF Scrolls

LEMMA HandleScrolls ==
  ASSUME Inv, Alive, Scrolls, Handle
  PROVE  Scrolls'
<1>1. CASE GetRooms
  BY <1>1, GetRoomsScrolls
<1>2. CASE NewMessages
  <2> DEFINE r == Head(up).room
  <2>1. Serve("new") /\ (down' = down \/ \E p \in PagesOf({m \in messages : m.room = r}) :
          down' = Append(down, [op |-> "new", room |-> r, page |-> p]))
    BY <1>2 DEF NewMessages
  <2>2. CASE down' = down
    BY <2>1, <2>2, Served, RefusedScrolls
  <2>3. CASE down' # down
    BY <2>1, <2>3, NewScrolls
  <2>4. QED
    BY <2>2, <2>3
<1>3. CASE OldMessages
  <2> DEFINE r == Head(up).room
  <2>1. Serve("old")
        /\ (down' = down \/ (r \in joined /\ \E p \in PagesOf(Before(r, Head(up).date)) :
              down' = Append(down, [op |-> "old", room |-> r, page |-> p])))
    BY <1>3 DEF OldMessages, MayReadOlder
  <2>2. CASE down' = down
    BY <2>1, <2>2, Served, RefusedScrolls
  <2>3. CASE down' # down
    BY <2>1, <2>3, OldScrolls
  <2>4. QED
    BY <2>2, <2>3
<1>4. QED
  BY <1>1, <1>2, <1>3 DEF Handle

-------------------------------------------------------------------------------
(* The client's user.                                                      *)

\* Signed in, the client has asked for its rooms only.
LEMMA SignInScrolls ==
  ASSUME Inv, Alive, Scrolls, SignIn
  PROVE  Scrolls'
<1>1. /\ screen = "before" /\ screen' = "on" /\ up' = <<[op |-> "rooms"]>> /\ down' = down
      /\ messages' = messages /\ now' = now /\ joined' = joined /\ rows' = rows
      /\ waiting' = waiting
  BY DEF SignIn, server
<1>2. up = <<>> /\ down = <<>> /\ Len(<<>>) = 0 /\ \A r \in Room : rows[r] = <<>>
  BY <1>1 DEF Alive, Scrolls, Opens
<1>3. Len(up') = 1 /\ up'[1].op = "rooms" /\ \A u \in 1 .. Len(up') : u = 1
  BY <1>1
<1>4. Stretched' /\ Dates'
  BY <1>1 DEF Scrolls, Stretched, Dates
<1>5. Asked'
  BY <1>3 DEF Asked
<1>6. \A r \in Room : Silent(r, 0 .. Len(down))'
  <2>1. ASSUME NEW r \in Room, NEW i \in 0 .. Len(down) PROVE At(down, rows[r], r, i) = {}
    <3>1. i = 0
      BY <1>2
    <3>2. <<>> \in Seq(Shown)
      OBVIOUS
    <3>3. ToSet(<<>>) = {}
      BY <3>2, NoRows
    <3>4. QED
      BY <1>2, <3>1, <3>3 DEF At
  <2>2. QED
    BY <1>1, <1>3, <2>1 DEF Silent, IsOld
<1>7. Opens'
  BY <1>1, <1>2, <1>3, <1>6 DEF Opens, Among, IsNew
<1>8. OneOld'
  <2>1. \A i \in 1 .. Len(down') : FALSE
    BY <1>1, <1>2
  <2>2. QED
    BY <1>3, <2>1 DEF OneOld, Among
<1>9. QED
  BY <1>4, <1>5, <1>7, <1>8 DEF Scrolls

\* What is older than the first row is older than all that is shown or waits.
LEMMA TopScrolls ==
  ASSUME Inv, Scrolls, NEW r \in Room, ReachTop(r)
  PROVE  Scrolls'
<1> DEFINE top == rows[r][1]
           q == [op |-> "old", room |-> r, date |-> top.date]
<1>1. /\ screen = "on" /\ screen' = "on" /\ up' = Append(up, q) /\ down' = down
      /\ messages' = messages /\ now' = now /\ joined' = joined /\ rows' = rows
      /\ waiting' = TRUE /\ ~waiting /\ rows[r] # <<>>
  BY DEF ReachTop, MayAskOlder, server
<1>2. /\ up \in Seq(Request) /\ down \in Seq(Reply) /\ Len(up) \in Nat /\ Len(down) \in Nat
      /\ rows[r] \in Seq(Shown) /\ joined \subseteq Room /\ now \in Int
  BY LenProperties DEF Inv, TypeOK
<1>3. /\ Len(up') = Len(up) + 1 /\ up'[Len(up) + 1] = q
      /\ \A u \in 1 .. Len(up) : up'[u] = up[u]
      /\ \A u \in 1 .. Len(up') : u \in 1 .. Len(up) \/ u = Len(up) + 1
  BY <1>1, <1>2
<1>4. 1 \in 1 .. Len(rows[r]) /\ Len(rows[r]) \in Nat /\ top \in Shown
  BY <1>1, <1>2
<1>5. /\ 0 \in 0 .. Len(down) /\ At(down, rows[r], r, 0) = ToSet(rows[r])
      /\ top \in ToSet(rows[r])
  BY <1>2, <1>4, ToSetFacts DEF At
<1>6. /\ q.op = "old" /\ q.room = r /\ q.date = top.date /\ \A s : IsOld(q, s) <=> s = r
      /\ \A s : ~IsNew(q, s)
  BY DEF IsOld, IsNew
<1> HIDE DEF q
<1>7. ~Among({"old"}, up) /\ ~Among({"old"}, down)
  BY <1>1 DEF Scrolls, OneOld
<1>8. \A i \in 1 .. Len(down) : down[i].op # "old"
  BY <1>7 DEF Among
<1>9. ASSUME NEW P, 0 \in P, Silent(r, P) PROVE FALSE
  BY <1>5, <1>9 DEF Silent
<1>10. Stretched' /\ Dates'
  BY <1>1 DEF Scrolls, Stretched, Dates
<1>11. Asked'
  <2>1. top.date <= now
    BY <1>5 DEF Scrolls, Dates
  <2>2. ASSUME NEW i \in 0 .. Len(down), NEW e \in At(down, rows[r], r, i) PROVE e.date >= top.date
    <3>1. e \in Shown
      BY <1>2, AtFacts
    <3>2. CASE i = 0
      <4>1. PICK a \in 1 .. Len(rows[r]) : e = rows[r][a]
        BY <1>2, <1>5, <2>2, <3>2, ToSetFacts
      <4>2. a = 1 \/ 1 < a
        BY <1>4
      <4>3. Rising(rows[r])
        BY DEF Scrolls, Stretched, InOrder
      <4>4. QED
        BY <1>4, <3>1, <4>1, <4>2, <4>3 DEF Rising, Shown
    <3>3. CASE i # 0
      <4>1. i \in 1 .. Len(down) /\ 0 < i
        BY <1>2, <3>3
      <4>2. Follows(down, r, 0, i, top, e)
        BY <1>5, <2>2, <4>1 DEF Scrolls, Stretched, InOrder
      <4>3. QED
        BY <1>4, <1>8, <3>1, <4>1, <4>2 DEF Follows, Shown
    <3>4. QED
      BY <3>2, <3>3
  <2>3. r \in joined => ShownSince(down, rows[r], r, messages, top.date)
    BY <1>5 DEF Scrolls, Stretched, Whole
  <2>4. ASSUME NEW u \in 1 .. Len(up'), up'[u].op = "old" PROVE up'[u] = q
    BY <1>3, <1>7, <2>4 DEF Among
  <2>5. ASSUME NEW u \in 1 .. Len(up'), up'[u].op = "old"
        PROVE  LET s == up'[u].room IN
                 /\ up'[u].date <= now
                 /\ \A i \in 0 .. Len(down) : \A e \in At(down, rows[s], s, i) : e.date >= up'[u].date
                 /\ s \in joined => ShownSince(down, rows[s], s, messages, up'[u].date)
    <3>1. up'[u].room = r /\ up'[u].date = top.date
      BY <1>6, <2>4, <2>5
    <3>2. QED
      BY <2>1, <2>2, <2>3, <3>1
  <2>6. QED
    BY <1>1, <2>5 DEF Asked
<1>12. ASSUME NEW s \in Room, NEW P, s # r, Silent(s, P)
       PROVE  /\ \A i \in P : At(down, rows[s], s, i) = {}
              /\ \A u \in 1 .. Len(up') : ~IsOld(up'[u], s)
  BY <1>3, <1>6, <1>12 DEF Silent
<1>13. Opens'
  <2>1. ~Among({"rooms"}, up) /\ ~Among({"rooms"}, down)
    BY <1>5, <1>9 DEF Scrolls, Opens
  <2>2. ~Among({"rooms"}, up') /\ ~Among({"rooms"}, down')
    BY <1>1, <1>3, <1>6, <2>1 DEF Among
  <2>3. Opening' => ~Among({"message"}, down')
    <3>1. Opening' => Opening
      BY <1>1, <1>3, <1>6 DEF Opening, Among
    <3>2. QED
      BY <1>1, <3>1 DEF Scrolls, Opens
  <2>4. ASSUME NEW s \in Room, NEW u \in 1 .. Len(up'), IsNew(up'[u], s)
        PROVE  /\ u \in 1 .. Len(up) /\ IsNew(up[u], s)
               /\ Silent(s, 0 .. Len(down))' /\ \A v \in 1 .. Len(down) : ~IsNew(down[v], s)
    <3>1. u \in 1 .. Len(up) /\ IsNew(up[u], s)
      BY <1>3, <1>6, <2>4
    <3>2. Silent(s, 0 .. Len(down)) /\ \A v \in 1 .. Len(down) : ~IsNew(down[v], s)
      BY <3>1 DEF Scrolls, Opens
    <3>3. s # r
      BY <1>5, <1>9, <3>2
    <3>4. QED
      BY <1>1, <1>12, <3>1, <3>2, <3>3 DEF Silent
  <2>5. ASSUME NEW s \in Room, NEW j \in 1 .. Len(down), IsNew(down[j], s)
        PROVE  Silent(s, (0 .. Len(down)) \ {j})'
    <3>1. Silent(s, (0 .. Len(down)) \ {j}) /\ 0 \in (0 .. Len(down)) \ {j}
      BY <1>2, <2>5 DEF Scrolls, Opens
    <3>2. s # r
      BY <1>9, <3>1
    <3>3. QED
      BY <1>1, <1>12, <3>1, <3>2 DEF Silent
  <2>6. \A s \in Room : \A u, v \in 1 .. Len(up') : IsNew(up'[u], s) /\ IsNew(up'[v], s) => u = v
    BY <2>4 DEF Scrolls, Opens
  <2>7. /\ \A s \in Room : \A u, v \in 1 .. Len(down) :
             IsNew(down[u], s) /\ IsNew(down[v], s) => u = v
        /\ \A u, v \in 1 .. Len(down) : down[u].op = "rooms" /\ down[v].op = "rooms" => u = v
    BY DEF Scrolls, Opens
  <2>8. QED
    BY <1>1, <2>2, <2>3, <2>4, <2>5, <2>6, <2>7 DEF Opens
<1>14. OneOld'
  <2>1. \A u \in 1 .. Len(up') : up'[u].op = "old" => u = Len(up) + 1
    BY <1>3, <1>7 DEF Among
  <2>2. QED
    BY <1>1, <1>7, <1>8, <2>1 DEF OneOld
<1>15. QED
  BY <1>10, <1>11, <1>13, <1>14 DEF Scrolls

\* The rows that go are older than those that stay, and than all that waits.
LEMMA BottomScrolls ==
  ASSUME Inv, Scrolls, Calm = TRUE, NEW r \in Room, ReachBottom(r)
  PROVE  Scrolls'
<1> DEFINE w == rows[r]
           gone == IF uploaded[r] > Page THEN uploaded[r] - Page ELSE 0
           left == SubSeq(w, gone + 1, Len(w))
<1>1. /\ screen = "on" /\ screen' = "on" /\ up' = up /\ down' = down /\ messages' = messages
      /\ now' = now /\ joined' = joined /\ waiting' = FALSE /\ ~waiting
      /\ rows' = [rows EXCEPT ![r] = left]
  BY DEF ReachBottom, server
<1>2. /\ down \in Seq(Reply) /\ Len(down) \in Nat /\ rows \in [Room -> Seq(Shown)]
      /\ w \in Seq(Shown) /\ Len(w) \in Nat /\ joined \subseteq Room
  BY LenProperties DEF Inv, TypeOK
<1>3. gone \in 0 .. Len(w)
  BY <1>2, BoundAssumption DEF Inv, RowsCounted
<1> HIDE DEF gone
<1>4. Rising(w)
  BY DEF Scrolls, Stretched, InOrder
<1>5. Rising(left) /\ left \in Seq(Shown) /\ ToSet(left) = {w[i] : i \in gone + 1 .. Len(w)}
  <2>1. gone + 1 \in 1 .. Len(w) + 1 /\ Len(w) \in gone + 1 - 1 .. Len(w)
    BY <1>2, <1>3
  <2> DEFINE a == gone + 1
             b == Len(w)
  <2>2. a \in 1 .. Len(w) + 1 /\ b \in a - 1 .. Len(w)
    BY <2>1
  <2> HIDE DEF a, b, w
  <2>3. /\ Rising(SubSeq(w, a, b)) /\ SubSeq(w, a, b) \in Seq(Shown)
        /\ ToSet(SubSeq(w, a, b)) = {w[i] : i \in a .. b}
    BY <1>2, <1>4, <2>2, SubSeqRises
  <2>4. QED
    BY <2>3 DEF a, b
<1> HIDE DEF left
<1>6. rows'[r] = left /\ \A s \in Room \ {r} : rows'[s] = rows[s]
  BY <1>1, <1>2
<1>7. ~Among({"old"}, up) /\ ~Among({"old"}, down)
  BY <1>1 DEF Scrolls, OneOld
<1>8. ToSet(left) \subseteq ToSet(w)
  BY <1>2, <1>3, <1>5, ToSetFacts
<1>9. /\ \A i \in 0 .. Len(down) : At(down, left, r, i) \subseteq At(down, w, r, i)
      /\ \A i : i # 0 => At(down, left, r, i) = At(down, w, r, i)
  BY <1>8 DEF At
<1>10. Stretched'
  <2>1. InOrder(down, w, r) /\ Kept(down, w, r, messages)
    BY DEF Scrolls, Stretched
  <2>2. InOrder(down, left, r)
    BY <1>5, <1>9, <2>1 DEF InOrder
  <2>3. Kept(down, left, r, messages)
    BY <1>9, <2>1 DEF Kept, LiveAt
  <2>4. ASSUME r \in joined PROVE Whole(down, left, r, messages)
    <3>1. ASSUME NEW i \in 0 .. Len(down), NEW e \in At(down, left, r, i),
                 NEW m \in messages, m.room = r, m.date >= e.date
          PROVE  Live(down, left, r, ShownAs(m))
      <4>1. Live(down, w, r, ShownAs(m))
        BY <1>9, <2>4, <3>1 DEF Scrolls, Stretched, Whole, ShownSince
      <4>2. PICK k \in 0 .. Len(down) : LiveAt(down, w, r, ShownAs(m), k)
        BY <4>1 DEF Live
      <4>3. CASE k # 0
        BY <1>9, <4>2, <4>3 DEF Live, LiveAt
      <4>4. CASE k = 0
        <5>1. ShownAs(m) \in ToSet(w) /\ ~Killed(down, r, ShownAs(m).id, 0, Len(down) + 1)
          BY <4>2, <4>4 DEF LiveAt, At
        <5>2. PICK a \in 1 .. Len(w) : ShownAs(m) = w[a]
          BY <1>2, <5>1, ToSetFacts
        <5>3. ShownAs(m).date = m.date /\ w[a] \in Shown /\ e \in Shown
          BY <1>2, <1>9, <3>1, <5>2, AtFacts DEF ShownAs
        <5>4. CASE a > gone
          <6>1. ShownAs(m) \in At(down, left, r, 0)
            BY <1>2, <1>3, <1>5, <5>2, <5>4 DEF At
          <6>2. QED
            BY <1>2, <5>1, <6>1 DEF Live, LiveAt
        <5>5. CASE ~(a > gone) /\ i = 0
          <6>1. PICK b \in gone + 1 .. Len(w) : e = w[b]
            BY <1>5, <3>1, <5>5 DEF At
          <6>2. a < b /\ b \in 1 .. Len(w)
            BY <1>3, <5>5
          <6>3. w[a].date < e.date
            BY <1>4, <6>1, <6>2 DEF Rising
          <6>4. QED
            BY <3>1, <5>2, <5>3, <6>3 DEF Shown
        <5>6. CASE ~(a > gone) /\ i # 0
          <6>1. i \in 1 .. Len(down) /\ 0 < i /\ 0 \in 0 .. Len(down)
            BY <1>2, <5>6
          <6>2. w[a] \in At(down, w, r, 0) /\ e \in At(down, w, r, i)
            BY <1>9, <3>1, <5>1, <5>2, <6>1 DEF At
          <6>3. Follows(down, r, 0, i, w[a], e)
            BY <2>1, <6>1, <6>2 DEF InOrder
          <6>4. ~Killed(down, r, w[a].id, 0, i)
            BY <1>2, <5>1, <5>2, <6>1 DEF Killed
          <6>5. w[a].date < e.date
            BY <1>7, <6>1, <6>3, <6>4 DEF Follows, Among
          <6>6. QED
            BY <3>1, <5>2, <5>3, <6>5 DEF Shown
        <5>7. QED
          BY <1>2, <1>3, <5>4, <5>5, <5>6
      <4>5. QED
        BY <4>3, <4>4
    <3>2. QED
      BY <3>1 DEF Whole, ShownSince
  <2>5. ASSUME NEW s \in Room
        PROVE  /\ InOrder(down, rows'[s], s) /\ Kept(down, rows'[s], s, messages)
               /\ s \in joined => Whole(down, rows'[s], s, messages)
    <3>1. CASE s = r
      BY <1>6, <2>2, <2>3, <2>4, <3>1
    <3>2. CASE s # r
      BY <1>6, <3>2 DEF Scrolls, Stretched
    <3>3. QED
      BY <3>1, <3>2
  <2>6. QED
    BY <1>1, <1>2, <2>5 DEF Stretched
<1>11. \A s \in Room : \A i \in 0 .. Len(down) : At(down, rows'[s], s, i) \subseteq At(down, rows[s], s, i)
  BY <1>6, <1>9
<1>12. Asked'
  BY <1>1, <1>7 DEF Asked, Among
<1>13. Dates'
  BY <1>1, <1>11 DEF Scrolls, Dates
<1>14. OneOld'
  BY <1>1, <1>7 DEF Scrolls, OneOld, Among
<1>15. Opens'
  <2>1. Opening' = Opening
    BY <1>1 DEF Opening, Among
  <2>2. ASSUME NEW s \in Room, NEW P, P \subseteq 0 .. Len(down), Silent(s, P)
        PROVE  /\ \A i \in P : At(down', rows'[s], s, i) = {}
               /\ \A u \in 1 .. Len(up') : ~IsOld(up'[u], s)
    BY <1>1, <1>11, <2>2 DEF Silent
  <2>3. \A s \in Room : Silent(s, 0 .. Len(down)) => Silent(s, 0 .. Len(down))'
    BY <1>1, <2>2 DEF Silent
  <2>4. \A s \in Room : \A j : Silent(s, (0 .. Len(down)) \ {j}) => Silent(s, (0 .. Len(down)) \ {j})'
    <3> SUFFICES ASSUME NEW s \in Room, NEW j, NEW P, P = (0 .. Len(down)) \ {j}, Silent(s, P)
                 PROVE  /\ \A i \in P : At(down', rows'[s], s, i) = {}
                        /\ \A u \in 1 .. Len(up') : ~IsOld(up'[u], s)
      BY <1>1 DEF Silent
    <3>1. QED
      BY <2>2
  <2>5. QED
    BY <1>1, <2>1, <2>3, <2>4 DEF Scrolls, Opens, Among
<1>16. QED
  BY <1>10, <1>12, <1>13, <1>14, <1>15 DEF Scrolls

-------------------------------------------------------------------------------

\* What the invariant says of the rows.
LEMMA ScrollsShow ==
  ASSUME Inv, Scrolls
  PROVE  ShowsOneStretch
<1>1. /\ rows \in [Room -> Seq(Shown)] /\ joined \subseteq Room /\ messages \subseteq MessageRow
      /\ down \in Seq(Reply) /\ Len(down) \in Nat
  BY LenProperties DEF Inv, TypeOK
<1>2. NothingTwice
  <2>1. ASSUME NEW r \in Room, NEW i \in 1 .. Len(rows[r]), NEW j \in 1 .. Len(rows[r]),
               rows[r][i].id = rows[r][j].id
        PROVE  i = j
    <3>1. Rising(rows[r])
      BY DEF Scrolls, Stretched, InOrder
    <3>2. ~(i < j) /\ ~(j < i)
      BY <2>1, <3>1 DEF Rising
    <3>3. QED
      BY <3>2
  <2>2. QED
    BY <2>1 DEF NothingTwice
<1>3. NoGaps
  <2> SUFFICES ASSUME NEW r \in joined, rows[r] # <<>>, NEW m \in messages, m.room = r,
                      m.date >= rows[r][1].date
               PROVE  \/ ShownAs(m) \in ToSet(rows[r])
                      \/ \E i \in 1 .. Len(down) : /\ down[i].op = "message"
                                                   /\ down[i].room = r /\ down[i].msg = ShownAs(m)
    BY DEF NoGaps
  <2> DEFINE top == rows[r][1]
             x == ShownAs(m)
  <2>1. rows[r] \in Seq(Shown) /\ 1 \in 1 .. Len(rows[r]) /\ top \in Shown
    BY <1>1
  <2>2. 0 \in 0 .. Len(down) /\ At(down, rows[r], r, 0) = ToSet(rows[r]) /\ top \in ToSet(rows[r])
    BY <1>1, <2>1, ToSetFacts DEF At
  <2>3. Live(down, rows[r], r, x)
    BY <2>2 DEF Scrolls, Stretched, Whole, ShownSince
  <2>4. PICK i \in 0 .. Len(down) : x \in At(down, rows[r], r, i)
    BY <2>3 DEF Live, LiveAt
  <2>5. CASE i = 0
    BY <2>2, <2>4, <2>5
  <2>6. CASE i # 0
    <3>1. i \in 1 .. Len(down) /\ 0 < i /\ x \in Said(down[i], r)
      BY <1>1, <2>4, <2>6 DEF At
    <3>2. CASE down[i].op = "message"
      BY <3>1, <3>2 DEF Said
    <3>3. CASE down[i].op = "new"
      <4>1. IsNew(down[i], r)
        BY <3>1, <3>3 DEF Said, IsNew
      <4>2. Silent(r, (0 .. Len(down)) \ {i}) /\ 0 \in (0 .. Len(down)) \ {i}
        BY <1>1, <3>1, <4>1 DEF Scrolls, Opens
      <4>3. QED
        BY <2>2, <4>2 DEF Silent
    <3>4. CASE down[i].op = "old"
      <4>1. Follows(down, r, 0, i, top, x)
        BY <1>1, <2>2, <2>4, <3>1 DEF Scrolls, Stretched, InOrder
      <4>2. x.date = m.date /\ m.date \in Int /\ top.date \in Int
        BY <1>1, <2>1 DEF ShownAs, MessageRow, Shown
      <4>3. QED
        BY <3>4, <4>1, <4>2 DEF Follows
    <3>5. QED
      BY <3>1, <3>2, <3>3, <3>4 DEF Said
  <2>7. QED
    BY <2>5, <2>6
<1>4. QED
  BY <1>2, <1>3 DEF ShowsOneStretch

\* In calm traffic a room shows one stretch of its history, each message once, and
\* without a gap but for what is on its way: whatever else comes, the newest, older
\* ones, broadcasts, what is deleted, cleared or ended, and rows that are dropped.
THEOREM OneStretchShown ==
  ASSUME Calm = TRUE
  PROVE  Spec => []ShowsOneStretch
<1>1. Init => Scrolls
  <2> SUFFICES ASSUME Init PROVE Scrolls
    OBVIOUS
  <2>1. /\ screen = "before" /\ messages = {} /\ up = <<>> /\ down = <<>> /\ joined = Room
        /\ \A r \in Room : rows[r] = <<>>
    BY DEF Init
  <2>2. Len(<<>>) = 0 /\ <<>> \in Seq(Shown)
    OBVIOUS
  <2>3. ASSUME NEW r \in Room, NEW i \in 0 .. Len(down) PROVE At(down, rows[r], r, i) = {}
    <3>1. i = 0
      BY <2>1, <2>2
    <3>2. ToSet(<<>>) = {}
      BY <2>2, NoRows
    <3>3. QED
      BY <2>1, <3>1, <3>2 DEF At
  <2>4. \A i \in 1 .. Len(down), u \in 1 .. Len(up) : FALSE
    BY <2>1, <2>2
  <2>5. \A op : ~Among(op, up) /\ ~Among(op, down)
    BY <2>1, <2>2 DEF Among
  <2>6. \A r \in Room : Rising(rows[r])
    BY <2>1, <2>2 DEF Rising
  <2>7. \A i \in 1 .. Len(down) : FALSE
    BY <2>1, <2>2
  <2>8. \A u \in 1 .. Len(up) : FALSE
    BY <2>1, <2>2
  <2>9. Stretched
    <3>1. ASSUME NEW r \in Room
          PROVE  InOrder(down, rows[r], r) /\ Kept(down, rows[r], r, messages)
      BY <2>3, <2>6, <2>7 DEF InOrder, Kept
    <3>2. ASSUME NEW r \in joined PROVE Whole(down, rows[r], r, messages)
      BY <2>1, <2>3 DEF Whole
    <3>3. QED
      BY <3>1, <3>2 DEF Stretched
  <2>10. Asked /\ Dates
    BY <2>1, <2>3, <2>8 DEF Asked, Dates
  <2>11. Opens /\ OneOld
    BY <2>1, <2>5, <2>7, <2>8 DEF Opens, OneOld, Opening
  <2>12. QED
    BY <2>9, <2>10, <2>11 DEF Scrolls
<1>2. Inv /\ Alive /\ Scrolls /\ [Next]_vars => Scrolls'
  <2> SUFFICES ASSUME Inv, Alive, Scrolls, [Next]_vars PROVE Scrolls'
    OBVIOUS
  <2>1. CASE Others
    BY <2>1, OthersScroll DEF Others
  <2>2. CASE Tick
    BY <2>2, TickScrolls
  <2>3. CASE Handle
    BY <2>3, HandleScrolls
  <2>4. CASE SignIn
    BY <2>4, SignInScrolls
  <2>5. CASE Scroll
    BY <2>5, TopScrolls, BottomScrolls DEF Scroll
  <2>6. CASE Receiver
    BY <2>6, ReadStretched, ReadOpens, ReadOneOld DEF Scrolls
  <2>7. CASE UNCHANGED vars
    <3>1. Opening' = Opening /\ \A r, P : Silent(r, P)' = Silent(r, P)
      BY <2>7 DEF vars, Opening, Among, Silent
    <3>2. QED
      BY <2>7, <3>1 DEF vars, Scrolls, Stretched, Asked, Dates, Opens, OneOld, Among
  <2>8. QED
    BY <2>1, <2>2, <2>3, <2>4, <2>5, <2>6, <2>7 DEF Next
<1>3. Inv /\ Scrolls => ShowsOneStretch
  BY ScrollsShow
<1>4. Init /\ [][Next]_vars => []Alive
  BY CalmAlive DEF Spec
<1>5. QED
  BY <1>1, <1>2, <1>3, <1>4, Invariance, PTL DEF Spec
===============================================================================
