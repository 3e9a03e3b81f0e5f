------------------------------ MODULE ClientProofs -----------------------------
(* What the client of ClientRooms knows of a room, offers to do in it, and  *)
(* finds, agrees with the tables of the server, for every number of users,  *)
(* of requests and lines on their way, and for every text.                  *)
EXTENDS ClientRooms, TablesTheorems, SequenceTheorems

-------------------------------------------------------------------------------
(* The client's room along the lines that are on their way.                 *)

LineType == [token : Token, user : User \cup {None}, list : SUBSET User]

ReqType == [op : Token \ {"sign_in", "new_member"}, user : User \cup {None},
            text : Typed \cup {Empty}]

LEMMA AppendFacts ==
  ASSUME NEW S, NEW s \in Seq(S), NEW e \in S
  PROVE  /\ Append(s, e) \in Seq(S) /\ Len(Append(s, e)) = Len(s) + 1 /\ Append(s, e) # <<>>
         /\ Append(s, e)[Len(s) + 1] = e
         /\ \A n \in 1 .. Len(s) : Append(s, e)[n] = s[n]
OBVIOUS

LEMMA TailFacts ==
  ASSUME NEW S, NEW s \in Seq(S), s # <<>>
  PROVE  /\ Tail(s) \in Seq(S) /\ Len(Tail(s)) = Len(s) - 1 /\ Len(s) \in Nat \ {0}
         /\ Head(s) = s[1] /\ s[1] \in S
         /\ \A n \in 1 .. Len(Tail(s)) : Tail(s)[n] = s[n + 1]
OBVIOUS

\* Room is what is read of the first N lines.
Follows(room, g, ls, N) ==
  room = [n \in 0 .. N |-> IF n = 0 THEN g ELSE After(room[n - 1], ls[n])]

\* A reading is defined for every line, since it is for each one line longer.
LEMMA ReadingExists ==
  ASSUME NEW g, NEW ls, NEW N \in Nat
  PROVE  \E room : Follows(room, g, ls, N)
<1> DEFINE Is(room, M) == Follows(room, g, ls, M)
           Without == {M \in Nat : ~ \E room : Is(room, M)}
<1>1. SUFFICES ASSUME Without # {} PROVE FALSE
  OBVIOUS
<1>2. PICK M \in Without : \A K \in Without : M <= K
  BY <1>1, LeastExists
<1>3. M # 0
  <2> DEFINE room == [n \in 0 .. 0 |-> g]
  <2>1. Is(room, 0)
    BY DEF Follows
  <2>2. QED
    BY <1>2, <2>1
<1>4. M - 1 \in Nat /\ M - 1 \notin Without
  <2>1. Without \subseteq Nat
    OBVIOUS
  <2> HIDE DEF Without
  <2>2. QED
    BY <1>2, <1>3, <2>1
<1>5. PICK old : Is(old, M - 1)
  BY <1>4
<1> DEFINE new == [n \in 0 .. M |-> IF n = M THEN After(old[M - 1], ls[M]) ELSE old[n]]
<1>6. Is(new, M)
  <2>1. \A n \in 0 .. M - 1 : new[n] = old[n]
    BY <1>4
  <2>2. \A n \in 0 .. M : new[n] = IF n = 0 THEN g ELSE After(new[n - 1], ls[n])
    <3>1. \A n \in 0 .. M - 1 : old[n] = IF n = 0 THEN g ELSE After(old[n - 1], ls[n])
      BY <1>5 DEF Follows
    <3>2. \A n \in 1 .. M : n - 1 \in 0 .. M - 1
      BY <1>4
    <3>3. new[M] = After(old[M - 1], ls[M])
      BY <1>4
    <3> HIDE DEF new
    <3>4. QED
      BY <1>3, <1>4, <2>1, <3>1, <3>2, <3>3
  <2>3. QED
    BY <2>2 DEF Follows
<1>7. QED
  BY <1>2, <1>6

LEMMA ReadingFacts ==
  ASSUME NEW g, NEW ls, Len(ls) \in Nat
  PROVE  /\ Reading(g, ls)[0] = g
         /\ \A n \in 1 .. Len(ls) : Reading(g, ls)[n] = After(Reading(g, ls)[n - 1], ls[n])
<1>1. \E room : Follows(room, g, ls, Len(ls))
  BY ReadingExists
<1>2. Follows(Reading(g, ls), g, ls, Len(ls))
  BY <1>1 DEF Reading, Follows
<1>3. QED
  BY <1>2 DEF Follows

\* T repeats N lines of s, after the first i.
Repeats(t, s, i, N) == \A n \in 1 .. N : s[i + n] = t[n]

\* Two readings that begin alike and read the same go on alike.
LEMMA ReadingsAgree ==
  ASSUME NEW g, NEW s, NEW h, NEW t, Len(s) \in Nat, Len(t) \in Nat,
         NEW i \in 0 .. Len(s), NEW N \in Nat, i + N <= Len(s), N <= Len(t),
         Reading(g, s)[i] = h, Repeats(t, s, i, N)
  PROVE  \A n \in 0 .. N : Reading(g, s)[i + n] = Reading(h, t)[n]
<1> DEFINE Differs == {n \in 0 .. N : Reading(g, s)[i + n] # Reading(h, t)[n]}
<1>1. SUFFICES ASSUME Differs # {} PROVE FALSE
  OBVIOUS
<1>2. PICK m \in Differs : \A n \in Differs : m <= n
  <2>1. Differs \subseteq Nat
    OBVIOUS
  <2> HIDE DEF Differs
  <2>2. QED
    BY <1>1, <2>1, LeastExists
<1>3. /\ Reading(h, t)[0] = h
      /\ \A n \in 1 .. Len(t) : Reading(h, t)[n] = After(Reading(h, t)[n - 1], t[n])
      /\ \A n \in 1 .. Len(s) : Reading(g, s)[n] = After(Reading(g, s)[n - 1], s[n])
  BY ReadingFacts
<1>4. m # 0
  BY <1>2, <1>3
<1>5. m - 1 \in 0 .. N /\ m - 1 \notin Differs
  BY <1>2, <1>4
<1>6. Reading(g, s)[i + (m - 1)] = Reading(h, t)[m - 1]
  BY <1>5
<1>7. i + m \in 1 .. Len(s) /\ m \in 1 .. Len(t) /\ (i + m) - 1 = i + (m - 1) /\ m \in 1 .. N
  BY <1>2, <1>4
<1>8. Reading(g, s)[i + m] = Reading(h, t)[m]
  BY <1>3, <1>6, <1>7 DEF Repeats
<1>9. QED
  BY <1>2, <1>8

LEMMA ReadingPost ==
  ASSUME NEW g, NEW ls \in Seq(LineType), NEW l \in LineType
  PROVE  /\ \A n \in 0 .. Len(ls) : Reading(g, Append(ls, l))[n] = Reading(g, ls)[n]
         /\ Reading(g, Append(ls, l))[Len(ls) + 1] = After(Reading(g, ls)[Len(ls)], l)
<1> DEFINE more == Append(ls, l)
<1>1. /\ Len(ls) \in Nat /\ Len(more) = Len(ls) + 1 /\ more[Len(ls) + 1] = l
      /\ \A n \in 1 .. Len(ls) : more[n] = ls[n]
  BY AppendFacts
<1> HIDE DEF more
<1>2. \A n \in 0 .. Len(ls) : Reading(g, more)[0 + n] = Reading(g, ls)[n]
  BY <1>1, ReadingsAgree, ReadingFacts DEF Repeats
<1>3. \A n \in 0 .. Len(ls) : Reading(g, more)[n] = Reading(g, ls)[n]
  BY <1>1, <1>2
<1>4. Reading(g, more)[Len(ls) + 1] = After(Reading(g, more)[(Len(ls) + 1) - 1], l)
  BY <1>1, ReadingFacts
<1>5. QED
  BY <1>1, <1>3, <1>4 DEF more

LEMMA ReadingTake ==
  ASSUME NEW g, NEW ls \in Seq(LineType), ls # <<>>
  PROVE  \A n \in 0 .. Len(ls) - 1 :
           Reading(After(g, Head(ls)), Tail(ls))[n] = Reading(g, ls)[n + 1]
<1> DEFINE less == Tail(ls)
           h == After(g, Head(ls))
<1>1. /\ Len(ls) \in Nat \ {0} /\ Len(less) = Len(ls) - 1 /\ Head(ls) = ls[1]
      /\ \A n \in 1 .. Len(less) : less[n] = ls[n + 1]
  BY TailFacts
<1>2. Reading(g, ls)[1] = h
  <2>1. Reading(g, ls)[0] = g /\ Reading(g, ls)[1] = After(Reading(g, ls)[1 - 1], ls[1])
    BY <1>1, ReadingFacts
  <2>2. QED
    BY <1>1, <2>1
<1> HIDE DEF less, h
<1>3. Repeats(less, ls, 1, Len(ls) - 1)
  BY <1>1 DEF Repeats
<1>4. \A n \in 0 .. Len(ls) - 1 : Reading(g, ls)[1 + n] = Reading(h, less)[n]
  <2>1. /\ 1 \in 0 .. Len(ls) /\ Len(ls) - 1 \in Nat /\ Len(less) \in Nat
        /\ 1 + (Len(ls) - 1) <= Len(ls) /\ Len(ls) - 1 <= Len(less)
    BY <1>1
  <2>2. QED
    BY <1>2, <1>3, <2>1, ReadingsAgree
<1>5. QED
  BY <1>1, <1>4 DEF less, h

\* A client that has no room has none after lines that list none.
LEMMA NothingListed ==
  ASSUME NEW ls \in Seq(LineType), \A n \in 1 .. Len(ls) : ls[n].token \notin Listing
  PROVE  \A n \in 0 .. Len(ls) : Reading(NoGroom, ls)[n] = NoGroom
<1> DEFINE Somewhere == {n \in 0 .. Len(ls) : Reading(NoGroom, ls)[n] # NoGroom}
<1>1. SUFFICES ASSUME Somewhere # {} PROVE FALSE
  OBVIOUS
<1>2. Len(ls) \in Nat
  OBVIOUS
<1>3. PICK m \in Somewhere : \A n \in Somewhere : m <= n
  <2>1. Somewhere \subseteq Nat
    BY <1>2
  <2> HIDE DEF Somewhere
  <2>2. QED
    BY <1>1, <2>1, LeastExists
<1>4. /\ Reading(NoGroom, ls)[0] = NoGroom
      /\ \A n \in 1 .. Len(ls) : Reading(NoGroom, ls)[n] = After(Reading(NoGroom, ls)[n - 1], ls[n])
  BY <1>2, ReadingFacts
<1>5. m # 0 /\ m \in 1 .. Len(ls) /\ m - 1 \in 0 .. Len(ls) /\ m - 1 \notin Somewhere
  BY <1>2, <1>3, <1>4
<1>6. Reading(NoGroom, ls)[m] = After(NoGroom, ls[m])
  BY <1>4, <1>5
<1>7. After(NoGroom, ls[m]) = NoGroom
  BY <1>5 DEF After
<1>8. QED
  BY <1>3, <1>6, <1>7

-------------------------------------------------------------------------------
(* What a line does to the client's room.                                   *)

Reply == {"get_members", "new_messages"}
Cast == {"new_member", "send_message", "ban_member", "del_room"}
Closing == {"del_room", "log_out"}

GroomType == [is : {"groom"}, owner : User, customer : User \cup {None},
              members : SUBSET User, answered : BOOLEAN]

IsRoom(r) == r = NoGroom \/ (r \in GroomType /\ r.customer \in {None, r.owner})

LEMMA NotARoom == \A r \in GroomType : r # NoGroom
<1> SUFFICES ASSUME NEW r \in GroomType PROVE r # NoGroom
  OBVIOUS
<1>1. r.is = "groom" /\ NoGroom.is = "none"
  BY DEF GroomType, NoGroom
<1>2. QED
  BY <1>1

LEMMA ListedRoom ==
  ASSUME NEW r, NEW l, l.token \in Listing, l.user # None
  PROVE  After(r, l) = Groom(l.user, None, {}, FALSE)
BY DEF After, Listing

LEMMA GroomFields ==
  ASSUME NEW u \in User
  PROVE  /\ Groom(u, None, {}, FALSE) \in GroomType
         /\ Groom(u, None, {}, FALSE).owner = u
         /\ Groom(u, None, {}, FALSE).customer = None
         /\ Groom(u, None, {}, FALSE).members = {}
         /\ Groom(u, None, {}, FALSE).answered = FALSE
BY DEF Groom, GroomType

LEMMA ClosedRoom ==
  ASSUME NEW r, NEW l, l.token \in Closing
  PROVE  After(r, l) = NoGroom
BY DEF After, Closing, Listing

\* What the lines do that neither list a room nor end it.
LEMMA KeptRoom ==
  ASSUME NEW r, IsRoom(r), NEW l \in LineType, l.token \notin Closing,
         ~(l.token \in Listing /\ l.user # None)
  PROVE  /\ r = NoGroom => After(r, l) = NoGroom
         /\ r # NoGroom /\ l.token \notin {"get_members", "new_member", "ban_member"}
              => After(r, l) = r
         /\ r # NoGroom /\ l.token = "get_members" => After(r, l) = WithMembers(r, l.list)
         /\ r # NoGroom /\ l.token = "new_member" => After(r, l) = WithMember(r, l.user)
         /\ r # NoGroom /\ l.token = "ban_member" => After(r, l) = WithoutMember(r, l.user)
<1>1. l.token \notin {"del_room", "log_out"}
  BY DEF Closing
<1>2. QED
  BY <1>1 DEF After

LEMMA WithMembersFields ==
  ASSUME NEW r \in GroomType, NEW list \in SUBSET User
  PROVE  /\ WithMembers(r, list) \in GroomType /\ WithMembers(r, list).owner = r.owner
         /\ WithMembers(r, list).customer = IF r.owner \in list THEN r.owner ELSE r.customer
         /\ WithMembers(r, list).members = r.members \cup list
         /\ WithMembers(r, list).answered = TRUE
BY DEF WithMembers, GroomType

LEMMA WithMemberFields ==
  ASSUME NEW r \in GroomType, NEW u \in User
  PROVE  /\ WithMember(r, u) \in GroomType /\ WithMember(r, u).owner = r.owner
         /\ WithMember(r, u).customer = r.customer
         /\ WithMember(r, u).members = r.members \cup {u}
         /\ WithMember(r, u).answered = r.answered
BY DEF WithMember, GroomType

LEMMA WithoutMemberFields ==
  ASSUME NEW r \in GroomType, NEW u
  PROVE  /\ WithoutMember(r, u) \in GroomType /\ WithoutMember(r, u).owner = r.owner
         /\ WithoutMember(r, u).customer = r.customer
         /\ WithoutMember(r, u).members = r.members \ {u}
         /\ WithoutMember(r, u).answered = r.answered
BY DEF WithoutMember, GroomType

\* A line that neither lists nor ends the room leaves one where there was one, of the
\* same owner, whose customer, once found, stays.
LEMMA StillARoom ==
  ASSUME NEW r, IsRoom(r), r # NoGroom, NEW l \in LineType, l.token \notin Closing,
         ~(l.token \in Listing /\ l.user # None),
         l.token = "new_member" => l.user \in User
  PROVE  /\ After(r, l) # NoGroom /\ IsRoom(After(r, l)) /\ After(r, l).owner = r.owner
         /\ r.customer # None => After(r, l).customer = r.customer
         /\ After(r, l).members \subseteq
              r.members \cup l.list \cup (IF l.token = "new_member" THEN {l.user} ELSE {})
<1>1. r \in GroomType /\ r.customer \in {None, r.owner}
  BY DEF IsRoom
<1>2. l.list \in SUBSET User
  BY DEF LineType
<1>3. CASE l.token = "get_members"
  <2>1. After(r, l) = WithMembers(r, l.list)
    BY <1>3, KeptRoom
  <2>2. /\ After(r, l) \in GroomType /\ After(r, l).owner = r.owner
        /\ After(r, l).customer = IF r.owner \in l.list THEN r.owner ELSE r.customer
        /\ After(r, l).members = r.members \cup l.list
    <3>1. /\ WithMembers(r, l.list) \in GroomType /\ WithMembers(r, l.list).owner = r.owner
          /\ WithMembers(r, l.list).customer = IF r.owner \in l.list THEN r.owner ELSE r.customer
          /\ WithMembers(r, l.list).members = r.members \cup l.list
      BY <1>1, <1>2, WithMembersFields
    <3>2. QED
      BY <2>1, <3>1
  <2>3. QED
    BY <1>1, <2>2, NotARoom DEF IsRoom
<1>4. CASE l.token = "new_member"
  <2>1. After(r, l) = WithMember(r, l.user) /\ l.user \in User
    BY <1>4, KeptRoom
  <2>2. /\ After(r, l) \in GroomType /\ After(r, l).owner = r.owner
        /\ After(r, l).customer = r.customer
        /\ After(r, l).members = r.members \cup {l.user}
    BY <1>1, <2>1, WithMemberFields
  <2>3. QED
    BY <1>1, <1>4, <2>2, NotARoom DEF IsRoom
<1>5. CASE l.token = "ban_member"
  <2>1. After(r, l) = WithoutMember(r, l.user)
    BY <1>5, KeptRoom
  <2>2. /\ After(r, l) \in GroomType /\ After(r, l).owner = r.owner
        /\ After(r, l).customer = r.customer
        /\ After(r, l).members = r.members \ {l.user}
    BY <1>1, <2>1, WithoutMemberFields
  <2>3. QED
    BY <1>1, <2>2, NotARoom DEF IsRoom
<1>6. CASE l.token \notin {"get_members", "new_member", "ban_member"}
  <2>1. After(r, l) = r
    BY <1>6, KeptRoom
  <2>2. QED
    BY <2>1
<1>7. QED
  BY <1>3, <1>4, <1>5, <1>6

LEMMA AfterIsRoom ==
  ASSUME NEW r, IsRoom(r), NEW l \in LineType, l.token = "new_member" => l.user \in User
  PROVE  IsRoom(After(r, l))
<1>1. CASE l.token \in Closing
  BY <1>1, ClosedRoom DEF IsRoom
<1>2. CASE l.token \in Listing /\ l.user # None
  <2>1. l.user \in User
    BY <1>2 DEF LineType
  <2>2. QED
    <3>1. After(r, l) = Groom(l.user, None, {}, FALSE)
      BY <1>2, ListedRoom
    <3>2. After(r, l) \in GroomType /\ After(r, l).customer = None
      BY <2>1, <3>1, GroomFields
    <3>3. QED
      BY <3>2 DEF IsRoom
<1>3. CASE l.token \notin Closing /\ ~(l.token \in Listing /\ l.user # None)
  <2>1. CASE r = NoGroom
    BY <1>3, <2>1, KeptRoom DEF IsRoom
  <2>2. CASE r # NoGroom
    BY <1>3, <2>2, StillARoom
  <2>3. QED
    BY <2>1, <2>2
<1>4. QED
  BY <1>1, <1>2, <1>3

-------------------------------------------------------------------------------
(* What is on its way to the client, line by line.                          *)

\* The line finds the client's room as its handler needs it; late says that the client
\* will have listed its rooms.
Finds(l, r, late) ==
  /\ l.token \in Listing /\ l.user # None => r = NoGroom
  /\ l.token = "new_member" => l.user \in User
  /\ l.token = "send_message" /\ r # NoGroom /\ r.answered => l.user \in r.members
  /\ l.token \in {"ban_member", "send_message"} /\ late => r # NoGroom

Late(ls, h, n) == h \/ \E k \in 1 .. n : ls[k].token = "get_rooms"

Flow(g, ls, h) ==
  /\ \A n \in 0 .. Len(ls) : IsRoom(Reading(g, ls)[n])
  /\ \A n \in 1 .. Len(ls) : Finds(ls[n], Reading(g, ls)[n - 1], Late(ls, h, n - 1))

\* The client's room once it has read all.
Of(g, ls) == Reading(g, ls)[Len(ls)]

LEMMA OfPost ==
  ASSUME NEW g, NEW ls \in Seq(LineType), NEW l \in LineType
  PROVE  Of(g, Append(ls, l)) = After(Of(g, ls), l)
BY ReadingPost, AppendFacts DEF Of

LEMMA OfTake ==
  ASSUME NEW g, NEW ls \in Seq(LineType), ls # <<>>
  PROVE  Of(After(g, Head(ls)), Tail(ls)) = Of(g, ls)
<1>1. Len(Tail(ls)) = Len(ls) - 1 /\ Len(ls) \in Nat \ {0} /\ Len(ls) - 1 \in 0 .. Len(ls) - 1
  BY TailFacts
<1>2. Reading(After(g, Head(ls)), Tail(ls))[Len(ls) - 1] = Reading(g, ls)[(Len(ls) - 1) + 1]
  BY <1>1, ReadingTake
<1>3. QED
  BY <1>1, <1>2 DEF Of

LEMMA FlowPost ==
  ASSUME NEW g, NEW ls \in Seq(LineType), NEW l \in LineType, NEW h, Flow(g, ls, h),
         Finds(l, Of(g, ls), Late(ls, h, Len(ls)))
  PROVE  Flow(g, Append(ls, l), h)
<1> DEFINE more == Append(ls, l)
<1>1. /\ Len(ls) \in Nat /\ Len(more) = Len(ls) + 1 /\ more[Len(ls) + 1] = l
      /\ \A n \in 1 .. Len(ls) : more[n] = ls[n]
  BY AppendFacts
<1>2. /\ \A n \in 0 .. Len(ls) : Reading(g, more)[n] = Reading(g, ls)[n]
      /\ Reading(g, more)[Len(ls) + 1] = After(Of(g, ls), l)
  BY ReadingPost DEF Of
<1> HIDE DEF more
<1>3. \A n \in 0 .. Len(more) : IsRoom(Reading(g, more)[n])
  <2>1. IsRoom(Of(g, ls))
    BY <1>1 DEF Flow, Of
  <2>2. IsRoom(After(Of(g, ls), l))
    BY <2>1, AfterIsRoom DEF Finds
  <2>3. \A n \in 0 .. Len(ls) : IsRoom(Reading(g, more)[n])
    BY <1>2 DEF Flow
  <2>4. QED
    BY <1>1, <1>2, <2>2, <2>3
<1>4. \A n \in 1 .. Len(more) : Finds(more[n], Reading(g, more)[n - 1], Late(more, h, n - 1))
  <2>1. ASSUME NEW n \in 0 .. Len(ls) PROVE Late(more, h, n) <=> Late(ls, h, n)
    <3>1. \A k \in 1 .. n : more[k] = ls[k]
      BY <1>1
    <3>2. QED
      BY <3>1 DEF Late
  <2>2. ASSUME NEW n \in 1 .. Len(ls)
        PROVE  Finds(more[n], Reading(g, more)[n - 1], Late(more, h, n - 1))
    <3>1. n - 1 \in 0 .. Len(ls)
      BY <1>1
    <3>2. /\ more[n] = ls[n] /\ Reading(g, more)[n - 1] = Reading(g, ls)[n - 1]
          /\ Late(more, h, n - 1) <=> Late(ls, h, n - 1)
          /\ Finds(ls[n], Reading(g, ls)[n - 1], Late(ls, h, n - 1))
      BY <1>1, <1>2, <2>1, <3>1 DEF Flow
    <3>3. QED
      BY <3>2 DEF Finds
  <2>3. Finds(more[Len(ls) + 1], Reading(g, more)[(Len(ls) + 1) - 1], Late(more, h, (Len(ls) + 1) - 1))
    <3>1. (Len(ls) + 1) - 1 = Len(ls) /\ Len(ls) \in 0 .. Len(ls)
      BY <1>1
    <3>2. more[Len(ls) + 1] = l /\ Reading(g, more)[Len(ls)] = Of(g, ls)
          /\ (Late(more, h, Len(ls)) <=> Late(ls, h, Len(ls)))
      BY <1>1, <1>2, <2>1, <3>1 DEF Of
    <3>3. QED
      BY <3>1, <3>2 DEF Finds
  <2>4. QED
    BY <1>1, <2>2, <2>3
<1>5. QED
  BY <1>3, <1>4 DEF Flow, more

LEMMA FlowTake ==
  ASSUME NEW g, NEW ls \in Seq(LineType), ls # <<>>, NEW h, Flow(g, ls, h), NEW j,
         j => h \/ Head(ls).token = "get_rooms"
  PROVE  Flow(After(g, Head(ls)), Tail(ls), j)
<1> DEFINE less == Tail(ls)
           k == After(g, Head(ls))
<1>1. /\ Len(ls) \in Nat \ {0} /\ Len(less) = Len(ls) - 1 /\ Head(ls) = ls[1]
      /\ \A n \in 1 .. Len(less) : less[n] = ls[n + 1]
  BY TailFacts
<1>2. \A n \in 0 .. Len(less) : Reading(k, less)[n] = Reading(g, ls)[n + 1]
  BY <1>1, ReadingTake
<1> HIDE DEF less, k
<1>3. \A n \in 0 .. Len(less) : n + 1 \in 0 .. Len(ls)
  BY <1>1
<1>4. \A n \in 0 .. Len(less) : IsRoom(Reading(k, less)[n])
  BY <1>2, <1>3 DEF Flow
<1>5. ASSUME NEW n \in 1 .. Len(less)
      PROVE  Finds(less[n], Reading(k, less)[n - 1], Late(less, j, n - 1))
  <2>1. n + 1 \in 1 .. Len(ls) /\ n - 1 \in 0 .. Len(less) /\ (n - 1) + 1 = n /\ (n + 1) - 1 = n
    BY <1>1
  <2>2. Finds(ls[n + 1], Reading(g, ls)[(n + 1) - 1], Late(ls, h, (n + 1) - 1))
    BY <2>1 DEF Flow
  <2>3. less[n] = ls[n + 1] /\ Reading(k, less)[n - 1] = Reading(g, ls)[n]
    BY <1>1, <1>2, <2>1
  <2>4. Late(less, j, n - 1) => Late(ls, h, n)
    <3>1. ASSUME NEW m \in 1 .. n - 1, less[m].token = "get_rooms"
          PROVE  \E q \in 1 .. n : ls[q].token = "get_rooms"
      <4>1. m + 1 \in 1 .. n /\ m \in 1 .. Len(less)
        BY <1>1
      <4>2. ls[m + 1].token = "get_rooms"
        BY <1>1, <3>1, <4>1
      <4>3. QED
        BY <4>1, <4>2
    <3>2. 1 \in 1 .. n
      BY <1>1
    <3>3. QED
      BY <1>1, <3>1, <3>2 DEF Late
  <2>5. QED
    BY <2>1, <2>2, <2>3, <2>4 DEF Finds
<1>6. QED
  BY <1>4, <1>5 DEF Flow, less, k

\* Nothing is on its way.
LEMMA FlowEmpty ==
  ASSUME NEW h PROVE Flow(NoGroom, <<>>, h) /\ Of(NoGroom, <<>>) = NoGroom
<1>1. Len(<<>>) = 0
  OBVIOUS
<1>2. Reading(NoGroom, <<>>)[0] = NoGroom
  BY <1>1, ReadingFacts
<1>3. QED
  BY <1>1, <1>2 DEF Flow, Of, IsRoom

-------------------------------------------------------------------------------
(* A room of the client whose end is not on its way is the one of the tables. *)

Live(g, ls, n) ==
  /\ Reading(g, ls)[n] # NoGroom
  /\ \A k \in n + 1 .. Len(ls) : ls[k].token \notin Closing

Belongs(r, own, rows) == r.owner = own /\ \A u \in r.members : IsMember(rows, u, Room)

Lives(g, ls, own, rows) ==
  \A n \in 0 .. Len(ls) : Live(g, ls, n) =>
    Of(g, ls) # NoGroom /\ Belongs(Reading(g, ls)[n], own, rows)

\* Every user with a row in rows has one in more.
Grows(rows, more) == \A u : IsMember(rows, u, Room) => IsMember(more, u, Room)

LEMMA LastBelongs ==
  ASSUME NEW g, NEW ls \in Seq(LineType), NEW own, NEW rows, Lives(g, ls, own, rows),
         Of(g, ls) # NoGroom
  PROVE  Belongs(Of(g, ls), own, rows)
<1>1. Len(ls) \in Nat /\ Len(ls) \in 0 .. Len(ls) /\ Len(ls) + 1 .. Len(ls) = {}
  OBVIOUS
<1>2. Live(g, ls, Len(ls))
  BY <1>1 DEF Live, Of
<1>3. QED
  BY <1>1, <1>2 DEF Lives, Of

LEMMA LivesKeep ==
  ASSUME NEW g, NEW ls, NEW own, NEW rows, Lives(g, ls, own, rows),
         NEW own1, NEW rows1, Of(g, ls) = NoGroom \/ (own1 = own /\ Grows(rows, rows1))
  PROVE  Lives(g, ls, own1, rows1)
BY DEF Lives, Grows, Belongs

LEMMA LivesClose ==
  ASSUME NEW g, NEW ls \in Seq(LineType), NEW l \in LineType, l.token \in Closing,
         NEW own, NEW rows
  PROVE  Lives(g, Append(ls, l), own, rows) /\ Of(g, Append(ls, l)) = NoGroom
<1> DEFINE more == Append(ls, l)
<1>1. Len(ls) \in Nat /\ Len(more) = Len(ls) + 1 /\ more[Len(ls) + 1] = l
  BY AppendFacts
<1>2. Reading(g, more)[Len(more)] = NoGroom
  <2>1. Of(g, more) = After(Of(g, ls), l)
    BY OfPost
  <2>2. After(Of(g, ls), l) = NoGroom
    BY ClosedRoom
  <2>3. QED
    BY <2>1, <2>2 DEF Of
<1> HIDE DEF more
<1>3. ASSUME NEW n \in 0 .. Len(more) PROVE ~Live(g, more, n)
  <2>1. CASE n = Len(more)
    BY <1>2, <2>1 DEF Live
  <2>2. CASE n # Len(more)
    <3>1. Len(more) \in n + 1 .. Len(more)
      BY <1>1, <2>2
    <3>2. QED
      BY <1>1, <3>1 DEF Live
  <2>3. QED
    BY <2>1, <2>2
<1>4. QED
  BY <1>2, <1>3 DEF Lives, Of, more

LEMMA LivesPost ==
  ASSUME NEW g, NEW ls \in Seq(LineType), NEW l \in LineType, l.token \notin Closing,
         NEW own, NEW rows, Lives(g, ls, own, rows), NEW own1, NEW rows1,
         IsRoom(Of(g, ls)), l.token = "new_member" => l.user \in User,
         Of(g, ls) = NoGroom \/ (own1 = own /\ Grows(rows, rows1)),
         Of(g, Append(ls, l)) # NoGroom => Belongs(Of(g, Append(ls, l)), own1, rows1)
  PROVE  Lives(g, Append(ls, l), own1, rows1)
<1> DEFINE more == Append(ls, l)
<1>1. /\ Len(ls) \in Nat /\ Len(more) = Len(ls) + 1 /\ more[Len(ls) + 1] = l
      /\ \A n \in 1 .. Len(ls) : more[n] = ls[n]
  BY AppendFacts
<1>2. \A n \in 0 .. Len(ls) : Reading(g, more)[n] = Reading(g, ls)[n]
  BY ReadingPost
<1>3. Of(g, ls) # NoGroom => Of(g, more) # NoGroom
  <2>1. SUFFICES ASSUME Of(g, ls) # NoGroom PROVE Of(g, more) # NoGroom
    OBVIOUS
  <2>2. Of(g, more) = After(Of(g, ls), l)
    BY OfPost
  <2>3. CASE l.token \in Listing /\ l.user # None
    <3>1. l.user \in User
      BY <2>3 DEF LineType
    <3>2. After(Of(g, ls), l) \in GroomType
      <4>1. After(Of(g, ls), l) = Groom(l.user, None, {}, FALSE)
        BY <2>3, ListedRoom
      <4>2. QED
        BY <3>1, <4>1, GroomFields
    <3>3. QED
      BY <2>2, <3>2, NotARoom
  <2>4. CASE ~(l.token \in Listing /\ l.user # None)
    BY <2>1, <2>2, <2>4, StillARoom
  <2>5. QED
    BY <2>3, <2>4
<1> HIDE DEF more
<1>4. SUFFICES ASSUME NEW n \in 0 .. Len(more), Live(g, more, n)
               PROVE  Of(g, more) # NoGroom /\ Belongs(Reading(g, more)[n], own1, rows1)
  BY DEF Lives, more
<1>5. CASE n = Len(more)
  <2>1. Of(g, more) # NoGroom /\ Reading(g, more)[n] = Of(g, more)
    BY <1>4, <1>5 DEF Live, Of
  <2>2. QED
    BY <2>1 DEF more
<1>6. CASE n # Len(more)
  <2>1. n \in 0 .. Len(ls)
    BY <1>1, <1>6
  <2>2. Live(g, ls, n)
    <3>1. \A k \in n + 1 .. Len(ls) : k \in n + 1 .. Len(more) /\ k \in 1 .. Len(ls)
      BY <1>1, <2>1
    <3>2. QED
      BY <1>1, <1>2, <1>4, <2>1, <3>1 DEF Live
  <2>3. Of(g, ls) # NoGroom /\ Belongs(Reading(g, ls)[n], own, rows)
    BY <2>1, <2>2 DEF Lives
  <2>4. QED
    BY <1>2, <1>3, <2>1, <2>3 DEF Belongs, Grows
<1>7. QED
  BY <1>5, <1>6

LEMMA LiveTaken ==
  ASSUME NEW g, NEW ls \in Seq(LineType), ls # <<>>, NEW n \in 0 .. Len(ls) - 1
  PROVE  Live(After(g, Head(ls)), Tail(ls), n) <=> Live(g, ls, n + 1)
<1>1. /\ Len(ls) \in Nat \ {0} /\ Len(Tail(ls)) = Len(ls) - 1
      /\ \A m \in 1 .. Len(Tail(ls)) : Tail(ls)[m] = ls[m + 1]
  BY TailFacts
<1>2. Reading(After(g, Head(ls)), Tail(ls))[n] = Reading(g, ls)[n + 1]
  BY ReadingTake
<1>3. /\ \A k \in n + 1 .. Len(ls) - 1 : k \in 1 .. Len(ls) - 1 /\ k + 1 \in (n + 1) + 1 .. Len(ls)
      /\ \A k \in (n + 1) + 1 .. Len(ls) : k - 1 \in n + 1 .. Len(ls) - 1 /\ (k - 1) + 1 = k
                                           /\ k - 1 \in 1 .. Len(ls) - 1
  BY <1>1
<1>4. QED
  BY <1>1, <1>2, <1>3 DEF Live

LEMMA LivesTake ==
  ASSUME NEW g, NEW ls \in Seq(LineType), ls # <<>>, NEW own, NEW rows, Lives(g, ls, own, rows)
  PROVE  Lives(After(g, Head(ls)), Tail(ls), own, rows)
<1>1. Len(ls) \in Nat \ {0} /\ Len(Tail(ls)) = Len(ls) - 1
  BY TailFacts
<1>2. SUFFICES ASSUME NEW n \in 0 .. Len(ls) - 1, Live(After(g, Head(ls)), Tail(ls), n)
               PROVE  /\ Of(g, ls) # NoGroom
                      /\ Belongs(Reading(After(g, Head(ls)), Tail(ls))[n], own, rows)
  BY <1>1, OfTake DEF Lives
<1>3. n + 1 \in 0 .. Len(ls) /\ Live(g, ls, n + 1)
  BY <1>1, <1>2, LiveTaken
<1>4. Reading(After(g, Head(ls)), Tail(ls))[n] = Reading(g, ls)[n + 1]
  BY ReadingTake
<1>5. QED
  BY <1>3, <1>4 DEF Lives

-------------------------------------------------------------------------------
(* The table of the members.                                                *)

MemberRow == [id : {1}, room : {Room}, user : User, perm : Permission]

LEMMA RowFields ==
  ASSUME NEW rows \in SUBSET MemberRow, NEW m \in rows
  PROVE  /\ m.id = 1 /\ m.room = Room /\ m.user \in User /\ m.perm \in Permission
         /\ m = [id |-> m.id, room |-> m.room, user |-> m.user, perm |-> m.perm]
BY DEF MemberRow

LEMMA MembersHaveRows ==
  ASSUME NEW rows \in SUBSET MemberRow, NEW u \in Members(rows)
  PROVE  u \in User /\ IsMember(rows, u, Room)
BY RowFields DEF Members, MembersList, IsMember, MemberRows

LEMMA NobodyThere ==
  /\ Members({}) = {}
  /\ \A u : ~IsMember({}, u, Room)
BY DEF Members, MembersList, IsMember, MemberRows

LEMMA RoomGone ==
  ASSUME NEW rows \in SUBSET MemberRow
  PROVE  WithoutRoom(rows, Room) = {}
BY RowFields DEF WithoutRoom

\* Who is a member by its first row gets the broadcasts.
LEMMA OrdinaryIsMember ==
  ASSUME NEW rows \in SUBSET MemberRow, NEW u, MemberType(rows, u, Room) = "ordinary"
  PROVE  u \in Members(rows)
<1> DEFINE mine == MemberRows(rows, u, Room)
<1>1. mine # {} /\ FirstRow(mine).perm = "ordinary"
  BY DEF MemberType, IsMember
<1>2. mine \subseteq rows /\ \A m \in mine : m.user = u /\ m.room = Room
  BY DEF MemberRows
<1> HIDE DEF mine
<1>3. \A m \in mine : m.id \in Nat
  BY <1>2, RowFields
<1>4. FirstRow(mine) \in mine
  BY <1>1, <1>3, FirstRowProperties
<1>5. QED
  BY <1>1, <1>2, <1>4 DEF Members, MembersList

LEMMA ValidIsMember ==
  ASSUME NEW rows \in SUBSET MemberRow, NEW u, IsValidMember(rows, u, Room)
  PROVE  u \in Members(rows)
<1> DEFINE mine == MemberRows(rows, u, Room)
<1>1. mine # {} /\ FirstRow(mine).perm # "banned"
  BY DEF IsValidMember, MemberType, IsMember
<1>2. mine \subseteq rows /\ \A m \in mine : m.user = u /\ m.room = Room
  BY DEF MemberRows
<1> HIDE DEF mine
<1>3. \A m \in mine : m.id \in Nat
  BY <1>2, RowFields
<1>4. FirstRow(mine) \in mine
  BY <1>1, <1>3, FirstRowProperties
<1>5. QED
  BY <1>1, <1>2, <1>4 DEF Members, MembersList

LEMMA RowAdded ==
  ASSUME NEW rows \in SUBSET MemberRow, NEW u \in User, ~IsMember(rows, u, Room)
  PROVE  /\ AddMember(rows, u, Room) \in SUBSET MemberRow
         /\ Members(AddMember(rows, u, Room)) = Members(rows) \cup {u}
         /\ Grows(rows, AddMember(rows, u, Room))
<1> DEFINE new == [id |-> 1, room |-> Room, user |-> u, perm |-> "ordinary"]
<1>1. AddMember(rows, u, Room) = rows \cup {new}
  BY DEF AddMember, IsMember, NewId
<1>2. new \in MemberRow /\ new.room = Room /\ new.user = u /\ new.perm = "ordinary"
  BY DEF MemberRow, Permission
<1> HIDE DEF new
<1>3. Members(rows \cup {new}) = Members(rows) \cup {u}
  BY <1>2 DEF Members, MembersList
<1>4. QED
  BY <1>1, <1>2, <1>3, IsMemberAfterAdd DEF Grows

LEMMA RowBanned ==
  ASSUME NEW rows \in SUBSET MemberRow, NEW t
  PROVE  /\ EditMemberType(rows, Room, t, "banned") \in SUBSET MemberRow
         /\ Members(EditMemberType(rows, Room, t, "banned")) = Members(rows) \ {t}
         /\ Grows(rows, EditMemberType(rows, Room, t, "banned"))
<1> DEFINE Edited(m) == IF m.room = Room /\ m.user = t THEN [m EXCEPT !.perm = "banned"] ELSE m
<1>1. EditMemberType(rows, Room, t, "banned") = {Edited(m) : m \in rows}
  BY DEF EditMemberType
<1>2. ASSUME NEW m \in rows
      PROVE  /\ Edited(m) \in MemberRow /\ Edited(m).user = m.user /\ Edited(m).room = m.room
             /\ Edited(m).perm = IF m.user = t THEN "banned" ELSE m.perm
  BY RowFields DEF MemberRow, Permission
<1> HIDE DEF Edited
<1>3. {Edited(m) : m \in rows} \in SUBSET MemberRow
  BY <1>2
<1>4. Members({Edited(m) : m \in rows}) = Members(rows) \ {t}
  BY <1>2, RowFields DEF Members, MembersList
<1>5. Grows(rows, EditMemberType(rows, Room, t, "banned"))
  <2>1. \A m \in rows : m = [id |-> m.id, room |-> m.room, user |-> m.user, perm |-> m.perm]
    BY RowFields
  <2>2. QED
    BY <2>1, IsMemberAfterBan DEF Grows
<1>6. QED
  BY <1>1, <1>3, <1>4, <1>5

-------------------------------------------------------------------------------
(* A handler's step, as far as the client hears it.                         *)

Agreement(r, rows) ==
  /\ (r # NoGroom) <=> (Me \in Members(rows))
  /\ r # NoGroom => /\ r.members \subseteq Members(rows)
                    /\ r.answered => r.members = Members(rows)

\* A client that listens has logged in and asked for its rooms; before and after, it
\* will have none.
Standing(g, ls, own, rows, listens) ==
  /\ own = None => rows = {}
  /\ IF listens THEN Agreement(Of(g, ls), rows) ELSE Of(g, ls) = NoGroom

Good(g, ls, h, own, rows, listens) ==
  Flow(g, ls, h) /\ Lives(g, ls, own, rows) /\ Standing(g, ls, own, rows, listens)

LEMMA AboutFields ==
  ASSUME NEW token \in Token, NEW u \in User \cup {None}
  PROVE  /\ About(token, u) \in LineType /\ About(token, u).token = token
         /\ About(token, u).user = u /\ About(token, u).list = {}
BY DEF About, Line, LineType

LEMMA OfIsRoom ==
  ASSUME NEW g, NEW ls \in Seq(LineType), NEW h, Flow(g, ls, h)
  PROVE  IsRoom(Of(g, ls))
<1>1. Len(ls) \in 0 .. Len(ls)
  OBVIOUS
<1>2. QED
  BY <1>1 DEF Flow, Of

\* What is cast to the members finds the client's room, or comes before it has listed it.
LEMMA CastFinds ==
  ASSUME NEW g, NEW ls \in Seq(LineType), NEW h, NEW own, NEW rows, NEW listens \in BOOLEAN,
         Good(g, ls, h, own, rows, listens), ~listens => ~Late(ls, h, Len(ls)),
         Me \in Members(rows),
         NEW l \in LineType, l.token \in Cast,
         l.token = "new_member" => l.user \in User,
         l.token = "send_message" => l.user \in Members(rows)
  PROVE  Finds(l, Of(g, ls), Late(ls, h, Len(ls)))
<1>1. l.token \notin Listing
  BY DEF Cast, Listing
<1>2. CASE listens
  BY <1>1, <1>2 DEF Finds, Good, Standing, Agreement
<1>3. CASE ~listens
  BY <1>1, <1>3 DEF Finds, Good, Standing
<1>4. QED
  BY <1>2, <1>3

\* A message.
LEMMA MessageCast ==
  ASSUME NEW g, NEW ls \in Seq(LineType), NEW h, NEW own, NEW rows \in SUBSET MemberRow,
         NEW listens \in BOOLEAN, Good(g, ls, h, own, rows, listens),
         ~listens => ~Late(ls, h, Len(ls)), Me \in Members(rows), NEW u \in Members(rows)
  PROVE  Good(g, Append(ls, About("send_message", u)), h, own, rows, listens)
<1> DEFINE l == About("send_message", u)
<1>1. l \in LineType /\ l.token = "send_message" /\ l.user = u
  BY MembersHaveRows, AboutFields DEF Token
<1>2. l.token \in Cast /\ l.token \notin Closing /\ l.token \notin Listing
  BY <1>1 DEF Cast, Closing, Listing
<1> HIDE DEF l
<1>3. Flow(g, ls, h) /\ Lives(g, ls, own, rows) /\ Standing(g, ls, own, rows, listens)
  BY DEF Good
<1>4. IsRoom(Of(g, ls))
  BY <1>3, OfIsRoom
<1>5. Flow(g, Append(ls, l), h)
  <2>1. Finds(l, Of(g, ls), Late(ls, h, Len(ls)))
    BY <1>1, <1>2, CastFinds
  <2>2. QED
    BY <1>1, <1>3, <2>1, FlowPost
<1>6. Of(g, Append(ls, l)) = Of(g, ls)
  <2>1. After(Of(g, ls), l) = Of(g, ls)
    BY <1>1, <1>2, <1>4, KeptRoom
  <2>2. QED
    BY <1>1, <2>1, OfPost
<1>7. Lives(g, Append(ls, l), own, rows)
  <2>1. Of(g, Append(ls, l)) # NoGroom => Belongs(Of(g, Append(ls, l)), own, rows)
    BY <1>3, <1>6, LastBelongs
  <2>2. Grows(rows, rows)
    BY DEF Grows
  <2>3. QED
    BY <1>1, <1>2, <1>3, <1>4, <2>1, <2>2, LivesPost
<1>8. QED
  BY <1>3, <1>5, <1>6, <1>7 DEF Good, Standing, l

\* An answer that does not change the client's room.
LEMMA PlainAnswer ==
  ASSUME NEW g, NEW ls \in Seq(LineType), NEW h, NEW own, NEW rows \in SUBSET MemberRow,
         NEW listens \in BOOLEAN, Good(g, ls, h, own, rows, listens),
         NEW l \in LineType, l.token \in {"new_messages", "search_room", "sign_in"}
  PROVE  Good(g, Append(ls, l), h, own, rows, listens)
<1>2. l.token \notin Closing /\ l.token \notin Listing
  BY DEF Closing, Listing
<1>3. Flow(g, ls, h) /\ Lives(g, ls, own, rows) /\ Standing(g, ls, own, rows, listens)
  BY DEF Good
<1>4. IsRoom(Of(g, ls))
  BY <1>3, OfIsRoom
<1>5. Flow(g, Append(ls, l), h)
  <2>1. Finds(l, Of(g, ls), Late(ls, h, Len(ls)))
    BY <1>2 DEF Finds
  <2>2. QED
    BY <1>3, <2>1, FlowPost
<1>6. Of(g, Append(ls, l)) = Of(g, ls)
  <2>1. After(Of(g, ls), l) = Of(g, ls)
    BY <1>2, <1>4, KeptRoom
  <2>2. QED
    BY <2>1, OfPost
<1>7. Lives(g, Append(ls, l), own, rows)
  <2>1. Of(g, Append(ls, l)) # NoGroom => Belongs(Of(g, Append(ls, l)), own, rows)
    BY <1>3, <1>6, LastBelongs
  <2>2. Grows(rows, rows) /\ (l.token # "new_member")
    BY DEF Grows
  <2>3. QED
    BY <1>2, <1>3, <1>4, <2>1, <2>2, LivesPost
<1>8. QED
  BY <1>3, <1>5, <1>6, <1>7 DEF Good, Standing

\* A member more, of whom the client hears if its user is one.
LEMMA MemberCast ==
  ASSUME NEW g, NEW ls \in Seq(LineType), NEW h, NEW own, NEW rows \in SUBSET MemberRow,
         NEW listens \in BOOLEAN, Good(g, ls, h, own, rows, listens),
         ~listens => ~Late(ls, h, Len(ls)), Me \in Members(rows), own # None,
         NEW u \in User, ~IsMember(rows, u, Room)
  PROVE  Good(g, Append(ls, About("new_member", u)), h, own, AddMember(rows, u, Room), listens)
<1> DEFINE l == About("new_member", u)
           more == AddMember(rows, u, Room)
<1>1. l \in LineType /\ l.token = "new_member" /\ l.user = u /\ l.list = {}
  BY AboutFields DEF Token
<1>2. l.token \in Cast /\ l.token \notin Closing /\ l.token \notin Listing
  BY <1>1 DEF Cast, Closing, Listing
<1>9. /\ Members(more) = Members(rows) \cup {u} /\ Grows(rows, more) /\ IsMember(more, u, Room)
  BY RowAdded, IsMemberAfterAdd
<1> HIDE DEF l, more
<1>3. Flow(g, ls, h) /\ Lives(g, ls, own, rows) /\ Standing(g, ls, own, rows, listens)
  BY DEF Good
<1>4. IsRoom(Of(g, ls))
  BY <1>3, OfIsRoom
<1>5. Flow(g, Append(ls, l), h)
  <2>1. Finds(l, Of(g, ls), Late(ls, h, Len(ls)))
    BY <1>1, <1>2, CastFinds
  <2>2. QED
    BY <1>1, <1>3, <2>1, FlowPost
<1>6. Of(g, Append(ls, l)) = After(Of(g, ls), l)
  BY <1>1, OfPost
<1>7. CASE Of(g, ls) = NoGroom
  <2>1. Of(g, Append(ls, l)) = NoGroom
    BY <1>1, <1>2, <1>4, <1>6, <1>7, KeptRoom
  <2>2. Lives(g, Append(ls, l), own, more)
    BY <1>1, <1>2, <1>3, <1>4, <1>7, <2>1, LivesPost
  <2>3. ~listens
    BY <1>3, <1>7 DEF Standing, Agreement
  <2>4. QED
    BY <1>5, <2>1, <2>2, <2>3 DEF Good, Standing, l, more
<1>8. CASE Of(g, ls) # NoGroom
  <2> DEFINE r == Of(g, ls)
             s == Of(g, Append(ls, l))
  <2>1. s = WithMember(r, u) /\ r \in GroomType
    BY <1>1, <1>2, <1>4, <1>6, <1>8, KeptRoom DEF IsRoom
  <2> HIDE DEF r, s
  <2>2. /\ s \in GroomType /\ s.owner = r.owner
        /\ s.members = r.members \cup {u} /\ s.answered = r.answered
    BY <2>1, WithMemberFields
  <2>3. Belongs(r, own, rows) /\ listens /\ Agreement(r, rows)
    BY <1>3, <1>8, LastBelongs DEF Standing, r
  <2>4. Belongs(s, own, more)
    BY <1>9, <2>2, <2>3 DEF Belongs, Grows
  <2>5. Lives(g, Append(ls, l), own, more)
    BY <1>1, <1>2, <1>3, <1>4, <1>9, <2>4, LivesPost DEF s
  <2>6. Agreement(s, more)
    BY <1>9, <2>2, <2>3, NotARoom DEF Agreement
  <2>7. QED
    BY <1>5, <2>3, <2>5, <2>6 DEF Good, Standing, l, more, s
<1>10. QED
  BY <1>7, <1>8

\* A member more of whom the client does not hear.
LEMMA MemberUnheard ==
  ASSUME NEW g, NEW ls \in Seq(LineType), NEW h, NEW own, NEW rows \in SUBSET MemberRow,
         NEW listens \in BOOLEAN, Good(g, ls, h, own, rows, listens),
         ~listens \/ Me \notin Members(rows),
         NEW u \in User \ {Me}, ~IsMember(rows, u, Room), NEW own1, own1 # None,
         own # None => own1 = own
  PROVE  Good(g, ls, h, own1, AddMember(rows, u, Room), listens)
<1> DEFINE more == AddMember(rows, u, Room)
<1>1. Members(more) = Members(rows) \cup {u} /\ Grows(rows, more)
  BY RowAdded
<1> HIDE DEF more
<1>2. Of(g, ls) = NoGroom
  BY DEF Good, Standing, Agreement
<1>3. Lives(g, ls, own1, more)
  BY <1>2, LivesKeep DEF Good
<1>4. listens => Agreement(Of(g, ls), more)
  <2>1. listens => Me \notin Members(more)
    BY <1>1
  <2>2. QED
    BY <1>2, <2>1 DEF Agreement
<1>5. QED
  BY <1>2, <1>3, <1>4 DEF Good, Standing, more

\* The user's own new room.
LEMMA RoomMade ==
  ASSUME UserAssumption, NEW g, NEW ls \in Seq(LineType), NEW h, NEW rows \in SUBSET MemberRow,
         Good(g, ls, h, None, rows, TRUE)
  PROVE  Good(g, Append(ls, About("new_room", Me)), h, Me, AddMember(rows, Me, Room), TRUE)
<1> DEFINE l == About("new_room", Me)
           more == AddMember(rows, Me, Room)
           s == Of(g, Append(ls, l))
<1>1. l \in LineType /\ l.token = "new_room" /\ l.user = Me
  BY AboutFields DEF Token, Listing, UserAssumption
<1>2. l.token \in Listing /\ l.token \notin Closing /\ l.user # None
  BY <1>1 DEF Listing, Closing, UserAssumption
<1>3. Flow(g, ls, h) /\ Lives(g, ls, None, rows) /\ rows = {} /\ Agreement(Of(g, ls), rows)
  BY DEF Good, Standing
<1>4. Of(g, ls) = NoGroom
  BY <1>3, NobodyThere DEF Agreement
<1>5. Members(more) = {Me}
  BY <1>3, NobodyThere, RowAdded DEF UserAssumption
<1>6. IsRoom(Of(g, ls))
  BY <1>3, OfIsRoom
<1> HIDE DEF l, more
<1>7. Flow(g, Append(ls, l), h)
  <2>1. Finds(l, Of(g, ls), Late(ls, h, Len(ls)))
    BY <1>1, <1>4 DEF Finds
  <2>2. QED
    BY <1>1, <1>3, <2>1, FlowPost
<1>8. s \in GroomType /\ s.owner = Me /\ s.members = {} /\ s.answered = FALSE
  <2>1. s = Groom(Me, None, {}, FALSE)
    <3>1. s = After(Of(g, ls), l)
      BY <1>1, OfPost
    <3>2. After(Of(g, ls), l) = Groom(Me, None, {}, FALSE)
      BY <1>1, <1>2, ListedRoom
    <3>3. QED
      BY <3>1, <3>2
  <2>2. QED
    BY <2>1, GroomFields DEF UserAssumption
<1> HIDE DEF s
<1>9. Belongs(s, Me, more)
  BY <1>8 DEF Belongs
<1>10. Lives(g, Append(ls, l), Me, more)
  BY <1>1, <1>2, <1>3, <1>4, <1>6, <1>9, LivesPost DEF s
<1>11. Agreement(s, more)
  BY <1>5, <1>8, NotARoom DEF Agreement
<1>12. QED
  BY <1>2, <1>7, <1>10, <1>11 DEF Good, Standing, l, more, s, UserAssumption

\* The user joins: the room is listed, and then the user announced.
LEMMA RoomJoined ==
  ASSUME UserAssumption, NEW g, NEW ls \in Seq(LineType), NEW h, NEW own \in User,
         NEW rows \in SUBSET MemberRow, Good(g, ls, h, own, rows, TRUE),
         ~IsMember(rows, Me, Room)
  PROVE  Good(g, Append(Append(ls, About("join_room", own)), About("new_member", Me)),
              h, own, AddMember(rows, Me, Room), TRUE)
<1> DEFINE l == About("join_room", own)
           n == About("new_member", Me)
           more == AddMember(rows, Me, Room)
           some == Append(ls, l)
           r == Of(g, some)
           s == Of(g, Append(some, n))
<1>1. /\ l \in LineType /\ l.token = "join_room" /\ l.user = own /\ own # None
      /\ n \in LineType /\ n.token = "new_member" /\ n.user = Me /\ Me \in User
  BY AboutFields DEF Token, Listing, UserAssumption
<1>2. /\ l.token \in Listing /\ l.token \notin Closing /\ l.user # None
      /\ n.token \notin Listing /\ n.token \notin Closing
  BY <1>1 DEF Listing, Closing
<1>3. Flow(g, ls, h) /\ Lives(g, ls, own, rows) /\ Agreement(Of(g, ls), rows)
  BY DEF Good, Standing
<1>4. Of(g, ls) = NoGroom
  BY <1>3, MembersHaveRows DEF Agreement
<1>5. /\ Members(more) = Members(rows) \cup {Me} /\ Grows(rows, more) /\ IsMember(more, Me, Room)
  BY <1>1, RowAdded, IsMemberAfterAdd
<1> HIDE DEF l, more, n
<1>6. IsRoom(Of(g, ls))
  BY <1>3, OfIsRoom
<1>7. Flow(g, some, h) /\ some \in Seq(LineType)
  <2>1. Finds(l, Of(g, ls), Late(ls, h, Len(ls)))
    BY <1>1, <1>4 DEF Finds
  <2>2. QED
    BY <1>1, <1>3, <2>1, FlowPost, AppendFacts
<1>8. r \in GroomType /\ r.owner = own /\ r.members = {} /\ r.answered = FALSE
  <2>1. r = Groom(own, None, {}, FALSE)
    <3>1. r = After(Of(g, ls), l)
      BY <1>1, OfPost
    <3>2. After(Of(g, ls), l) = Groom(own, None, {}, FALSE)
      BY <1>1, <1>2, ListedRoom
    <3>3. QED
      BY <3>1, <3>2
  <2>2. QED
    BY <2>1, GroomFields
<1>9. Lives(g, some, own, rows)
  <2>1. Belongs(r, own, rows)
    BY <1>8 DEF Belongs
  <2>2. QED
    BY <1>1, <1>2, <1>3, <1>4, <1>6, <2>1, LivesPost
<1>10. r # NoGroom /\ IsRoom(r)
  BY <1>7, <1>8, NotARoom, OfIsRoom
<1> HIDE DEF some, r
<1>11. Flow(g, Append(some, n), h)
  <2>1. Finds(n, Of(g, some), Late(some, h, Len(some)))
    BY <1>1, <1>2 DEF Finds
  <2>2. QED
    BY <1>1, <1>7, <2>1, FlowPost
<1>12. s \in GroomType /\ s.owner = own /\ s.members = {Me} /\ s.answered = FALSE
  <2>1. s = After(r, n)
    BY <1>1, <1>7, OfPost DEF r
  <2>2. s = WithMember(r, Me)
    BY <1>1, <1>2, <1>10, <2>1, KeptRoom
  <2>3. QED
    BY <1>1, <1>8, <2>2, WithMemberFields
<1> HIDE DEF s
<1>13. Belongs(s, own, more)
  BY <1>5, <1>12 DEF Belongs
<1>14. Lives(g, Append(some, n), own, more)
  BY <1>1, <1>2, <1>5, <1>7, <1>9, <1>10, <1>13, LivesPost DEF s, r
<1>15. Agreement(s, more)
  BY <1>5, <1>12, NotARoom DEF Agreement
<1>16. QED
  BY <1>1, <1>11, <1>14, <1>15 DEF Good, Standing, l, more, n, s, some

\* The client's user is banned, or its room deleted, and it hears so.
LEMMA RoomClosed ==
  ASSUME NEW g, NEW ls \in Seq(LineType), NEW h, NEW own, NEW rows,
         NEW listens \in BOOLEAN, Good(g, ls, h, own, rows, listens),
         NEW l \in LineType, l.token \in Closing,
         NEW own1, NEW rows1, NEW listens1 \in BOOLEAN, own1 = None => rows1 = {},
         listens1 => Me \notin Members(rows1)
  PROVE  Good(g, Append(ls, l), h, own1, rows1, listens1)
<1>1. Flow(g, ls, h)
  BY DEF Good
<1>2. Flow(g, Append(ls, l), h)
  <2>1. l.token \notin {"new_member", "ban_member", "send_message"} \cup Listing
    BY DEF Closing, Listing
  <2>2. Finds(l, Of(g, ls), Late(ls, h, Len(ls)))
    BY <2>1 DEF Finds
  <2>3. QED
    BY <1>1, <2>2, FlowPost
<1>3. Lives(g, Append(ls, l), own1, rows1) /\ Of(g, Append(ls, l)) = NoGroom
  BY LivesClose
<1>4. QED
  BY <1>2, <1>3 DEF Good, Standing, Agreement

\* Another is banned, and the client hears so.
LEMMA BanCast ==
  ASSUME NEW g, NEW ls \in Seq(LineType), NEW h, NEW own, NEW rows \in SUBSET MemberRow,
         NEW listens \in BOOLEAN, Good(g, ls, h, own, rows, listens),
         ~listens => ~Late(ls, h, Len(ls)), NEW t \in User \cup {None}, t # Me,
         Me \in Members(rows)
  PROVE  Good(g, Append(ls, About("ban_member", t)), h, own,
              EditMemberType(rows, Room, t, "banned"), listens)
<1> DEFINE l == About("ban_member", t)
           more == EditMemberType(rows, Room, t, "banned")
<1>1. l \in LineType /\ l.token = "ban_member" /\ l.user = t /\ l.list = {}
  BY AboutFields DEF Token
<1>2. l.token \in Cast /\ l.token \notin Closing /\ l.token \notin Listing
  BY <1>1 DEF Cast, Closing, Listing
<1>9. /\ Members(more) = Members(rows) \ {t} /\ Grows(rows, more)
      /\ own # None
  <2>1. rows # {}
    BY NobodyThere
  <2>2. QED
    BY <2>1, RowBanned DEF Good, Standing
<1> HIDE DEF l, more
<1>3. Flow(g, ls, h) /\ Lives(g, ls, own, rows) /\ Standing(g, ls, own, rows, listens)
  BY DEF Good
<1>4. IsRoom(Of(g, ls))
  BY <1>3, OfIsRoom
<1>5. Flow(g, Append(ls, l), h)
  <2>1. Finds(l, Of(g, ls), Late(ls, h, Len(ls)))
    BY <1>1, <1>2, CastFinds
  <2>2. QED
    BY <1>1, <1>3, <2>1, FlowPost
<1>6. Of(g, Append(ls, l)) = After(Of(g, ls), l)
  BY <1>1, OfPost
<1>7. CASE Of(g, ls) = NoGroom
  <2>1. Of(g, Append(ls, l)) = NoGroom
    BY <1>1, <1>2, <1>4, <1>6, <1>7, KeptRoom
  <2>2. Lives(g, Append(ls, l), own, more)
    BY <1>1, <1>2, <1>3, <1>4, <1>7, <2>1, LivesPost
  <2>3. ~listens
    BY <1>3, <1>7 DEF Standing, Agreement
  <2>4. QED
    BY <1>5, <1>9, <2>1, <2>2, <2>3 DEF Good, Standing, l, more
<1>8. CASE Of(g, ls) # NoGroom
  <2> DEFINE r == Of(g, ls)
             s == Of(g, Append(ls, l))
  <2>1. s = WithoutMember(r, t) /\ r \in GroomType
    BY <1>1, <1>2, <1>4, <1>6, <1>8, KeptRoom DEF IsRoom
  <2> HIDE DEF r, s
  <2>2. /\ s \in GroomType /\ s.owner = r.owner
        /\ s.members = r.members \ {t} /\ s.answered = r.answered
    BY <2>1, WithoutMemberFields
  <2>3. Belongs(r, own, rows) /\ listens /\ Agreement(r, rows)
    BY <1>3, <1>8, LastBelongs DEF Standing, r
  <2>4. Belongs(s, own, more)
    BY <1>9, <2>2, <2>3 DEF Belongs, Grows
  <2>5. Lives(g, Append(ls, l), own, more)
    BY <1>1, <1>2, <1>3, <1>4, <1>9, <2>4, LivesPost DEF s
  <2>6. Agreement(s, more)
    BY <1>9, <2>2, <2>3, NotARoom DEF Agreement
  <2>7. QED
    BY <1>5, <1>9, <2>3, <2>5, <2>6 DEF Good, Standing, l, more, s
<1>10. QED
  BY <1>7, <1>8

\* A ban of which the client does not hear, since it is no member or not online.
LEMMA BanUnheard ==
  ASSUME NEW g, NEW ls \in Seq(LineType), NEW h, NEW own, NEW rows \in SUBSET MemberRow,
         NEW listens \in BOOLEAN, Good(g, ls, h, own, rows, listens),
         ~listens \/ Me \notin Members(rows), NEW t
  PROVE  Good(g, ls, h, own, EditMemberType(rows, Room, t, "banned"), listens)
<1> DEFINE more == EditMemberType(rows, Room, t, "banned")
<1>1. Members(more) = Members(rows) \ {t} /\ Grows(rows, more)
  BY RowBanned
<1>2. rows = {} => more = {}
  BY DEF EditMemberType
<1> HIDE DEF more
<1>3. Of(g, ls) = NoGroom
  BY DEF Good, Standing, Agreement
<1>4. Lives(g, ls, own, more)
  BY <1>3, LivesKeep DEF Good
<1>5. listens => Me \notin Members(more)
  BY <1>1
<1>6. QED
  BY <1>2, <1>3, <1>4, <1>5 DEF Good, Standing, Agreement, more

\* The end of a room of which the client does not hear.
LEMMA EndUnheard ==
  ASSUME NEW g, NEW ls \in Seq(LineType), NEW h, NEW own, NEW rows \in SUBSET MemberRow,
         NEW listens \in BOOLEAN, Good(g, ls, h, own, rows, listens),
         ~listens \/ Me \notin Members(rows)
  PROVE  Good(g, ls, h, None, {}, listens)
<1>1. Of(g, ls) = NoGroom
  BY DEF Good, Standing, Agreement
<1>2. Lives(g, ls, None, {})
  BY <1>1, LivesKeep DEF Good
<1>3. QED
  BY <1>1, <1>2, NobodyThere DEF Good, Standing, Agreement

\* The answer to a client that asks for its rooms: from then on it listens.
LEMMA RoomsAnswer ==
  ASSUME UserAssumption, NEW g, NEW ls \in Seq(LineType), NEW h, NEW own \in User \cup {None},
         NEW rows \in SUBSET MemberRow, Good(g, ls, h, own, rows, FALSE)
  PROVE  Good(g, Append(ls, About("get_rooms", IF Me \in Members(rows) THEN own ELSE None)),
              h, own, rows, TRUE)
<1>1. PICK u \in User \cup {None} : u = IF Me \in Members(rows) THEN own ELSE None
  OBVIOUS
<1> DEFINE l == About("get_rooms", u)
           s == Of(g, Append(ls, l))
<1>2. l \in LineType /\ l.token = "get_rooms" /\ l.user = u
  BY AboutFields DEF Token, Listing
<1>3. l.token \in Listing /\ l.token \notin Closing
  BY <1>2 DEF Listing, Closing
<1> HIDE DEF l
<1>4. Flow(g, ls, h) /\ Lives(g, ls, own, rows) /\ Of(g, ls) = NoGroom /\ (own = None => rows = {})
  BY DEF Good, Standing
<1>5. IsRoom(Of(g, ls))
  BY <1>4 DEF IsRoom
<1>6. Flow(g, Append(ls, l), h)
  <2>1. Finds(l, Of(g, ls), Late(ls, h, Len(ls)))
    BY <1>2, <1>4 DEF Finds
  <2>2. QED
    BY <1>2, <1>4, <2>1, FlowPost
<1>7. s = After(NoGroom, l)
  BY <1>2, <1>4, OfPost
<1>8. CASE Me \in Members(rows)
  <2>1. u = own /\ own \in User /\ own # None
    BY <1>1, <1>4, <1>8, NobodyThere DEF UserAssumption
  <2>2. s = Groom(own, None, {}, FALSE)
    BY <1>2, <1>3, <1>7, <2>1, ListedRoom
  <2>3. s \in GroomType /\ s.owner = own /\ s.members = {} /\ s.answered = FALSE
    BY <2>1, <2>2, GroomFields
  <2> HIDE DEF s
  <2>4. Belongs(s, own, rows) /\ Agreement(s, rows)
    BY <1>8, <2>3, NotARoom DEF Belongs, Agreement
  <2>5. Lives(g, Append(ls, l), own, rows)
    BY <1>2, <1>3, <1>4, <1>5, <2>4, LivesPost DEF s
  <2>6. QED
    BY <1>1, <1>4, <1>6, <2>4, <2>5 DEF Good, Standing, l, s
<1>9. CASE Me \notin Members(rows)
  <2>1. l.user = None
    BY <1>1, <1>2, <1>9
  <2>2. s = NoGroom
    BY <1>2, <1>3, <1>4, <1>5, <1>7, <2>1, KeptRoom
  <2>3. Lives(g, Append(ls, l), own, rows)
    BY <1>2, <1>3, <1>4, <1>5, <2>2, LivesPost
  <2>4. QED
    BY <1>1, <1>4, <1>6, <1>9, <2>2, <2>3 DEF Good, Standing, Agreement, l
<1>10. QED
  BY <1>8, <1>9

\* The answer to a client that asks for the members of its room.
LEMMA MembersAnswer ==
  ASSUME NEW g, NEW ls \in Seq(LineType), NEW h, NEW own,
         NEW rows \in SUBSET MemberRow, NEW listens \in BOOLEAN, Good(g, ls, h, own, rows, listens)
  PROVE  Good(g, Append(ls, Line("get_members", None, Members(rows))), h, own, rows, listens)
<1> DEFINE l == Line("get_members", None, Members(rows))
<1>1. Members(rows) \subseteq User
  BY MembersHaveRows
<1>2. l \in LineType /\ l.token = "get_members" /\ l.list = Members(rows)
  BY <1>1 DEF Line, LineType, Token
<1>3. l.token \notin Closing /\ l.token \notin Listing
  BY <1>2 DEF Closing, Listing
<1> HIDE DEF l
<1>4. Flow(g, ls, h) /\ Lives(g, ls, own, rows) /\ Standing(g, ls, own, rows, listens)
  BY DEF Good
<1>5. IsRoom(Of(g, ls))
  BY <1>4, OfIsRoom
<1>6. Flow(g, Append(ls, l), h)
  <2>1. Finds(l, Of(g, ls), Late(ls, h, Len(ls)))
    BY <1>2, <1>3 DEF Finds
  <2>2. QED
    BY <1>2, <1>4, <2>1, FlowPost
<1>7. Of(g, Append(ls, l)) = After(Of(g, ls), l)
  BY <1>2, OfPost
<1>8. CASE Of(g, ls) = NoGroom
  <2>1. Of(g, Append(ls, l)) = NoGroom
    BY <1>2, <1>3, <1>5, <1>7, <1>8, KeptRoom
  <2>2. Lives(g, Append(ls, l), own, rows)
    BY <1>2, <1>3, <1>4, <1>5, <1>8, <2>1, LivesPost
  <2>3. QED
    BY <1>4, <1>6, <1>8, <2>1, <2>2 DEF Good, Standing, l
<1>9. CASE Of(g, ls) # NoGroom
  <2> DEFINE r == Of(g, ls)
             s == Of(g, Append(ls, l))
  <2>1. s = WithMembers(r, Members(rows)) /\ r \in GroomType
    BY <1>2, <1>3, <1>5, <1>7, <1>9, KeptRoom DEF IsRoom
  <2> HIDE DEF r, s
  <2>2. /\ s \in GroomType /\ s.owner = r.owner
        /\ s.members = r.members \cup Members(rows)
    BY <1>1, <2>1, WithMembersFields
  <2>3. Belongs(r, own, rows) /\ listens /\ Agreement(r, rows)
    BY <1>4, <1>9, LastBelongs DEF Standing, r
  <2>4. Belongs(s, own, rows)
    BY <2>2, <2>3, MembersHaveRows DEF Belongs
  <2>5. Lives(g, Append(ls, l), own, rows)
    <3>1. Grows(rows, rows)
      BY DEF Grows
    <3>2. QED
      BY <1>2, <1>3, <1>4, <1>5, <2>4, <3>1, LivesPost DEF s
  <2>6. Agreement(s, rows)
    BY <1>9, <2>2, <2>3, NotARoom DEF Agreement, r
  <2>7. QED
    BY <1>4, <1>6, <2>3, <2>5, <2>6 DEF Good, Standing, l, s
<1>10. QED
  BY <1>8, <1>9

\* The client reads a line.
LEMMA GoodTaken ==
  ASSUME NEW g, NEW ls \in Seq(LineType), ls # <<>>, NEW h, NEW own, NEW rows,
         NEW listens \in BOOLEAN, Good(g, ls, h, own, rows, listens),
         NEW j, j => h \/ Head(ls).token = "get_rooms"
  PROVE  Good(After(g, Head(ls)), Tail(ls), j, own, rows, listens)
BY FlowTake, LivesTake, OfTake DEF Good, Standing

-------------------------------------------------------------------------------
(* The invariant.                                                           *)

Core ==
  /\ owner \in User \cup {None} /\ members \in SUBSET MemberRow
  /\ asked \in Seq(ReqType) /\ lines \in Seq(LineType)

\* Before the answer to its login a client has no room, and nothing is read or answered
\* but what is left of the session before.
PhaseAuth ==
  alive /\ window = "auth" =>
    /\ groom = NoGroom /\ ~listed
    /\ \A n \in 1 .. Len(asked) : asked[n].op \in Reply
    /\ online => /\ asked = <<>> /\ lines # <<>> /\ lines[1].token = "sign_in"
                 /\ \A n \in 2 .. Len(lines) : lines[n].token \in Cast
    /\ ~online => \A n \in 1 .. Len(lines) : lines[n].token \in Reply

\* A session lasts until the answer to its end is read.
PhaseMain ==
  window = "main" =>
    /\ \A n \in 1 .. Len(lines) : lines[n].token # "sign_in"
    /\ online \/ \E n \in 1 .. Len(lines) : lines[n].token = "log_out"

\* The rooms are asked for first.
PhaseListing ==
  \A n \in 1 .. Len(asked) : asked[n].op = "get_rooms" =>
    /\ n = 1 /\ window = "main" /\ online /\ groom = NoGroom /\ ~listed
    /\ \A k \in 1 .. Len(lines) : lines[k].token \in Cast

\* After the end of a session is asked for, only what the handlers of the client asked
\* for on their own follows.
PhaseOut ==
  /\ \A n \in 1 .. Len(asked) : asked[n].op = "log_out" =>
       /\ online /\ \A k \in n + 1 .. Len(asked) : asked[k].op \in Reply
  /\ \A n \in 1 .. Len(lines) : lines[n].token = "log_out" =>
       /\ ~online /\ \A k \in n + 1 .. Len(lines) : lines[k].token \in Reply
  /\ ~online => \A n \in 1 .. Len(asked) : asked[n].op \in Reply

Phases == PhaseAuth /\ PhaseMain /\ PhaseListing /\ PhaseOut

Listens ==
  online /\ window = "main" /\ \A n \in 1 .. Len(asked) : asked[n].op # "get_rooms"

Opens ==
  open => /\ groom # NoGroom /\ groom.customer = Me /\ Me \notin offers
          /\ Live(groom, lines, 0) => \A t \in offers : IsMember(members, t, Room)

\* The lines new are the lines old and others, with one of these tokens.
Extends(new, old, tokens) ==
  /\ Len(old) <= Len(new)
  /\ \A n \in 1 .. Len(old) : new[n] = old[n]
  /\ \A n \in Len(old) + 1 .. Len(new) : new[n].token \in tokens

LEMMA ExtendsSame ==
  ASSUME NEW ls \in Seq(LineType), NEW tokens
  PROVE  Extends(ls, ls, tokens)
<1>1. Len(ls) \in Nat
  OBVIOUS
<1>2. QED
  BY <1>1 DEF Extends

LEMMA ExtendsPost ==
  ASSUME NEW ls \in Seq(LineType), NEW old \in Seq(LineType), NEW l \in LineType, NEW tokens,
         Extends(ls, old, tokens), l.token \in tokens
  PROVE  Append(ls, l) \in Seq(LineType) /\ Extends(Append(ls, l), old, tokens)
<1> DEFINE more == Append(ls, l)
<1>1. /\ more \in Seq(LineType) /\ Len(ls) \in Nat /\ Len(old) \in Nat
      /\ Len(more) = Len(ls) + 1 /\ more[Len(ls) + 1] = l
      /\ \A n \in 1 .. Len(ls) : more[n] = ls[n]
  BY AppendFacts
<1> HIDE DEF more
<1>2. \A n \in 1 .. Len(old) : more[n] = old[n]
  BY <1>1 DEF Extends
<1>3. \A n \in Len(old) + 1 .. Len(more) : more[n].token \in tokens
  BY <1>1 DEF Extends
<1>4. QED
  BY <1>1, <1>2, <1>3 DEF Extends, more

\* A live room was live before the lines were posted.
LEMMA LiveBefore ==
  ASSUME NEW g, NEW ls \in Seq(LineType), NEW more \in Seq(LineType), NEW tokens,
         Extends(more, ls, tokens), Live(g, more, 0)
  PROVE  Live(g, ls, 0)
<1>1. Reading(g, ls)[0] = g /\ Reading(g, more)[0] = g /\ Len(ls) \in Nat /\ Len(more) \in Nat
  BY ReadingFacts
<1>2. \A k \in 0 + 1 .. Len(ls) : k \in 0 + 1 .. Len(more) /\ k \in 1 .. Len(ls)
  BY <1>1 DEF Extends
<1>3. QED
  BY <1>1, <1>2 DEF Live, Extends

\* A client that is online and does not listen yet hears only of what it has not listed.
LEMMA NotYet ==
  ASSUME Core, Phases, alive, online, window \in {"auth", "main"}, ~Listens
  PROVE  ~Late(lines, listed, Len(lines))
<1>1. Len(lines) \in Nat
  BY DEF Core
<1>2. CASE window = "auth"
  <2>1. ~listed /\ lines[1].token = "sign_in" /\ \A n \in 2 .. Len(lines) : lines[n].token \in Cast
    BY <1>2 DEF Phases, PhaseAuth
  <2>2. \A n \in 1 .. Len(lines) : lines[n].token # "get_rooms"
    BY <1>1, <2>1 DEF Cast
  <2>3. QED
    BY <2>1, <2>2 DEF Late
<1>3. CASE window = "main"
  <2>1. PICK n \in 1 .. Len(asked) : asked[n].op = "get_rooms"
    BY <1>3 DEF Listens
  <2>2. ~listed /\ \A k \in 1 .. Len(lines) : lines[k].token \in Cast
    BY <2>1 DEF Phases, PhaseListing
  <2>3. QED
    BY <2>2 DEF Late, Cast
<1>4. QED
  BY <1>2, <1>3

\* A handler that answers, and perhaps casts.
LEMMA PhaseServe ==
  ASSUME Core, Phases, alive, window \in {"auth", "main"}, lines' \in Seq(LineType),
         asked # <<>>, asked' = Tail(asked),
         alive' = alive, window' = window, listed' = listed, groom' = groom, online' = online,
         \/ Head(asked).op \in Reply /\ Extends(lines', lines, Reply)
         \/ Head(asked).op \notin Reply /\ Extends(lines', lines, Token \ {"sign_in", "log_out"})
  PROVE  /\ Phases'
         /\ \A n \in 1 .. Len(asked') : asked'[n].op # "get_rooms"
         /\ Head(asked).op \notin Reply => window = "main" /\ online
         /\ Head(asked).op # "get_rooms" => (Listens' <=> Listens)
<1>1. /\ Len(asked) \in Nat \ {0} /\ Len(asked') = Len(asked) - 1 /\ Head(asked) = asked[1]
      /\ \A n \in 1 .. Len(asked') : asked'[n] = asked[n + 1] /\ n + 1 \in 2 .. Len(asked)
      /\ Len(lines) \in Nat /\ Len(lines') \in Nat /\ 1 \in 1 .. Len(asked)
  BY TailFacts DEF Core
<1>2. Head(asked).op \notin Reply => window = "main" /\ online
  <2>1. \E n \in 1 .. Len(asked) : asked[n] = Head(asked)
    BY <1>1
  <2>2. QED
    BY <2>1 DEF Phases, PhaseAuth, PhaseOut
<1>3. \A n \in 1 .. Len(asked') : asked'[n].op # "get_rooms"
  BY <1>1 DEF Phases, PhaseListing
<1>4. Head(asked).op # "get_rooms" => \A n \in 1 .. Len(asked) : asked[n].op # "get_rooms"
  BY <1>1 DEF Phases, PhaseListing
<1>5. /\ \A n \in 1 .. Len(lines) : lines'[n] = lines[n] /\ n \in 1 .. Len(lines')
      /\ \A n \in Len(lines) + 1 .. Len(lines') : lines'[n].token \notin {"sign_in", "log_out"}
      /\ Head(asked).op \in Reply =>
           \A n \in Len(lines) + 1 .. Len(lines') : lines'[n].token \in Reply
  BY <1>1 DEF Extends, Reply
<1>6. PhaseAuth'
  <2>1. CASE window = "main"
    BY <2>1 DEF PhaseAuth
  <2>2. CASE window = "auth"
    <3>1. ~online /\ Head(asked).op \in Reply
      BY <1>2, <2>2 DEF Phases, PhaseAuth
    <3>2. \A n \in 1 .. Len(asked') : asked'[n].op \in Reply
      BY <1>1, <2>2 DEF Phases, PhaseAuth
    <3>3. \A n \in 1 .. Len(lines') : lines'[n].token \in Reply
      <4>1. \A n \in 1 .. Len(lines) : lines[n].token \in Reply
        BY <2>2, <3>1 DEF Phases, PhaseAuth
      <4>2. QED
        BY <1>1, <1>5, <3>1, <4>1
    <3>4. groom' = NoGroom /\ ~listed'
      BY <2>2 DEF Phases, PhaseAuth
    <3>5. QED
      BY <3>1, <3>2, <3>3, <3>4 DEF PhaseAuth
  <2>3. QED
    BY <2>1, <2>2
<1>7. PhaseMain'
  <2>1. SUFFICES ASSUME window = "main"
                 PROVE  /\ \A n \in 1 .. Len(lines') : lines'[n].token # "sign_in"
                        /\ online \/ \E n \in 1 .. Len(lines') : lines'[n].token = "log_out"
    BY DEF PhaseMain
  <2>2. \A n \in 1 .. Len(lines) : lines[n].token # "sign_in"
    BY <2>1 DEF Phases, PhaseMain
  <2>3. online \/ \E n \in 1 .. Len(lines) : lines[n].token = "log_out"
    BY <2>1 DEF Phases, PhaseMain
  <2>4. \A n \in 1 .. Len(lines') : lines'[n].token # "sign_in"
    BY <1>1, <1>5, <2>2
  <2>5. QED
    BY <1>5, <2>3, <2>4
<1>8. PhaseListing'
  BY <1>3 DEF PhaseListing
<1>9. PhaseOut'
  <2>1. ASSUME NEW n \in 1 .. Len(asked'), asked'[n].op = "log_out"
        PROVE  online /\ \A k \in n + 1 .. Len(asked') : asked'[k].op \in Reply
    <3>1. n + 1 \in 1 .. Len(asked) /\ asked[n + 1].op = "log_out"
      BY <1>1, <2>1
    <3>2. online /\ \A k \in (n + 1) + 1 .. Len(asked) : asked[k].op \in Reply
      BY <3>1 DEF Phases, PhaseOut
    <3>3. \A k \in n + 1 .. Len(asked') : k + 1 \in (n + 1) + 1 .. Len(asked) /\ k \in 1 .. Len(asked')
      BY <1>1
    <3>4. QED
      BY <1>1, <3>2, <3>3
  <2>2. ASSUME NEW n \in 1 .. Len(lines'), lines'[n].token = "log_out"
        PROVE  ~online /\ \A k \in n + 1 .. Len(lines') : lines'[k].token \in Reply
    <3>1. n \in 1 .. Len(lines) /\ lines[n].token = "log_out"
      BY <1>1, <1>5, <2>2
    <3>2. ~online /\ \A k \in n + 1 .. Len(lines) : lines[k].token \in Reply
      BY <3>1 DEF Phases, PhaseOut
    <3>3. ASSUME NEW k \in n + 1 .. Len(lines') PROVE lines'[k].token \in Reply
      <4>1. k \in n + 1 .. Len(lines) \/ k \in Len(lines) + 1 .. Len(lines')
        BY <1>1
      <4>2. k \in n + 1 .. Len(lines) => k \in 1 .. Len(lines)
        BY <3>1
      <4>3. QED
        BY <1>2, <1>5, <3>2, <4>1, <4>2
    <3>4. QED
      BY <3>2, <3>3
  <2>3. ~online => \A n \in 1 .. Len(asked') : asked'[n].op \in Reply
    BY <1>1 DEF Phases, PhaseOut
  <2>4. QED
    BY <2>1, <2>2, <2>3 DEF PhaseOut
<1>10. Head(asked).op # "get_rooms" => (Listens' <=> Listens)
  BY <1>3, <1>4 DEF Listens
<1>11. QED
  BY <1>2, <1>3, <1>6, <1>7, <1>8, <1>9, <1>10 DEF Phases

\* What others do.
LEMMA PhaseCast ==
  ASSUME Core, Phases, alive, window \in {"auth", "main"}, lines' \in Seq(LineType),
         asked' = asked,
         alive' = alive, window' = window, listed' = listed, groom' = groom, online' = online,
         lines' = lines \/ (online /\ Extends(lines', lines, Cast))
  PROVE  Phases' /\ (Listens' <=> Listens)
<1>1. Listens' <=> Listens
  BY DEF Listens
<1>2. CASE lines' = lines
  BY <1>1, <1>2 DEF Phases, PhaseAuth, PhaseMain, PhaseListing, PhaseOut
<1>3. CASE online /\ Extends(lines', lines, Cast)
  <2>1. /\ \A n \in 1 .. Len(lines) : lines'[n] = lines[n] /\ n \in 1 .. Len(lines')
        /\ \A n \in Len(lines) + 1 .. Len(lines') : lines'[n].token \in Cast
        /\ Len(lines) \in Nat /\ Len(lines') \in Nat
    BY <1>3 DEF Extends, Core
  <2>2. PhaseAuth'
    <3>1. SUFFICES ASSUME window = "auth" PROVE PhaseAuth'
      BY DEF PhaseAuth
    <3>2. /\ groom = NoGroom /\ ~listed /\ asked = <<>> /\ lines # <<>> /\ lines[1].token = "sign_in"
          /\ \A n \in 2 .. Len(lines) : lines[n].token \in Cast
      BY <1>3, <3>1 DEF Phases, PhaseAuth
    <3>3. 1 \in 1 .. Len(lines)
      BY <3>2 DEF Core
    <3>4. lines' # <<>> /\ lines'[1].token = "sign_in"
      BY <2>1, <3>2, <3>3
    <3>5. \A n \in 2 .. Len(lines') : lines'[n].token \in Cast
      BY <2>1, <3>2
    <3>6. Len(asked) = 0
      BY <3>2
    <3>7. QED
      BY <1>3, <3>2, <3>4, <3>5, <3>6 DEF PhaseAuth
  <2>3. PhaseMain'
    <3>1. window = "main" => \A n \in 1 .. Len(lines) : lines[n].token # "sign_in"
      BY DEF Phases, PhaseMain
    <3>2. "sign_in" \notin Cast
      BY DEF Cast
    <3>3. window = "main" => \A n \in 1 .. Len(lines') : lines'[n].token # "sign_in"
      BY <2>1, <3>1, <3>2
    <3>4. QED
      BY <1>3, <3>3 DEF PhaseMain
  <2>4. PhaseListing'
    <3>1. SUFFICES ASSUME NEW n \in 1 .. Len(asked), asked[n].op = "get_rooms"
                   PROVE  /\ n = 1 /\ window = "main" /\ online /\ groom = NoGroom /\ ~listed
                          /\ \A k \in 1 .. Len(lines') : lines'[k].token \in Cast
      BY DEF PhaseListing
    <3>2. /\ n = 1 /\ window = "main" /\ online /\ groom = NoGroom /\ ~listed
          /\ \A k \in 1 .. Len(lines) : lines[k].token \in Cast
      BY <3>1 DEF Phases, PhaseListing
    <3>3. \A k \in 1 .. Len(lines') : lines'[k].token \in Cast
      BY <2>1, <3>2
    <3>4. QED
      BY <3>2, <3>3
  <2>5. PhaseOut'
    <3>1. \A n \in 1 .. Len(lines) : lines[n].token # "log_out"
      BY <1>3 DEF Phases, PhaseOut
    <3>2. "log_out" \notin Cast
      BY DEF Cast
    <3>3. \A n \in 1 .. Len(lines') : lines'[n].token # "log_out"
      BY <2>1, <3>1, <3>2
    <3>4. QED
      BY <1>3, <3>3 DEF Phases, PhaseOut
  <2>6. QED
    BY <1>1, <2>2, <2>3, <2>4, <2>5 DEF Phases
<1>4. QED
  BY <1>2, <1>3

\* The client reads a line.
LEMMA PhaseTake ==
  ASSUME Core, Phases, alive, window \in {"auth", "main"}, Flow(groom, lines, listed), Receive
  PROVE  /\ Phases' /\ asked' \in Seq(ReqType)
         /\ Listens' <=> Listens
<1> DEFINE l == Head(lines)
<1>1. /\ lines # <<>> /\ lines' = Tail(lines) /\ groom' = After(groom, l)
      /\ asked' = asked \o AsksFor(l) /\ online' = online /\ alive' = alive
      /\ window' = CASE l.token = "sign_in" -> "main" [] l.token = "log_out" -> "auth"
                     [] OTHER -> window
      /\ listed' = (l.token = "get_rooms" \/ (listed /\ l.token # "log_out"))
  BY DEF Receive, Take, server
<1>2. /\ Len(lines) \in Nat \ {0} /\ Len(lines') = Len(lines) - 1 /\ l = lines[1] /\ l \in LineType
      /\ \A n \in 1 .. Len(lines') : lines'[n] = lines[n + 1] /\ n + 1 \in 2 .. Len(lines)
      /\ 1 \in 1 .. Len(lines)
  BY <1>1, TailFacts DEF Core
<1> HIDE DEF l
<1>3. Len(asked) \in Nat
  BY DEF Core
<1>4. CASE l.token = "sign_in"
  <2>1. window = "auth" /\ online /\ asked = <<>>
    BY <1>2, <1>4 DEF Phases, PhaseMain, PhaseAuth, Reply
  <2>2. groom = NoGroom /\ ~listed /\ \A n \in 2 .. Len(lines) : lines[n].token \in Cast
    BY <2>1 DEF Phases, PhaseAuth
  <2>3. asked' = <<Req("get_rooms", None)>>
    BY <1>1, <1>4, <2>1 DEF AsksFor
  <2>4. /\ asked' \in Seq(ReqType) /\ Len(asked') = 1 /\ asked'[1].op = "get_rooms"
    BY <2>3 DEF Req, ReqType, Token, Listing
  <2>5. groom' = NoGroom /\ ~listed' /\ window' = "main" /\ online'
    BY <1>1, <1>4, <2>1, <2>2 DEF After, Listing
  <2>6. \A n \in 1 .. Len(lines') : lines'[n].token \in Cast
    BY <1>2, <2>2
  <2>7. ~Listens' /\ ~Listens
    BY <2>1, <2>4 DEF Listens
  <2>8. \A n \in 1 .. Len(lines') : lines'[n].token \notin {"sign_in", "log_out"}
    BY <2>6 DEF Cast
  <2>9. PhaseOut'
    BY <2>4, <2>5, <2>8 DEF PhaseOut
  <2>10. PhaseAuth' /\ PhaseMain' /\ PhaseListing'
    BY <2>4, <2>5, <2>6, <2>8 DEF PhaseAuth, PhaseMain, PhaseListing
  <2>11. QED
    BY <2>4, <2>7, <2>9, <2>10 DEF Phases
<1>5. CASE l.token = "log_out"
  <2>1. ~online /\ \A k \in 2 .. Len(lines) : lines[k].token \in Reply
    BY <1>2, <1>5 DEF Phases, PhaseOut
  <2>2. asked' = asked
    BY <1>1, <1>5 DEF AsksFor, Core, Listing
  <2>3. groom' = NoGroom /\ ~listed' /\ window' = "auth" /\ ~online'
    BY <1>1, <1>5, <2>1 DEF After, Listing
  <2>4. \A n \in 1 .. Len(lines') : lines'[n].token \in Reply
    BY <1>2, <2>1
  <2>5. \A n \in 1 .. Len(asked') : asked'[n].op \in Reply
    BY <2>1, <2>2 DEF Phases, PhaseOut
  <2>6. \A n \in 1 .. Len(lines') : lines'[n].token # "log_out"
    BY <2>4 DEF Reply
  <2>7. \A n \in 1 .. Len(asked') : asked'[n].op \notin {"log_out", "get_rooms"}
    BY <2>5 DEF Reply
  <2>8. PhaseAuth' /\ PhaseMain'
    BY <2>3, <2>4, <2>5 DEF PhaseAuth, PhaseMain
  <2>9. PhaseListing' /\ PhaseOut'
    BY <2>5, <2>6, <2>7 DEF PhaseListing, PhaseOut
  <2>10. ~Listens' /\ ~Listens
    BY <2>1, <2>3 DEF Listens
  <2>11. QED
    BY <2>2, <2>8, <2>9, <2>10 DEF Phases, Core
<1>6. CASE l.token \notin {"sign_in", "log_out"}
  <2>1. window' = window
    BY <1>1, <1>6
  <2>2. /\ AsksFor(l) \in Seq(ReqType)
        /\ \A n \in 1 .. Len(AsksFor(l)) : AsksFor(l)[n].op \in Reply
        /\ l.token \notin Listing => AsksFor(l) = <<>>
    <3> DEFINE m == Req("get_members", None)
               n == Req("new_messages", None)
    <3>1. m \in ReqType /\ n \in ReqType /\ m.op \in Reply /\ n.op \in Reply
      BY DEF Req, ReqType, Token, Reply
    <3>2. l.token \notin Listing => AsksFor(l) = <<>>
      BY <1>6 DEF AsksFor, Listing
    <3>3. AsksFor(l) \in {<<>>, <<m, n>>, <<m>>}
      BY <1>6 DEF AsksFor
    <3> HIDE DEF m, n
    <3>4. CASE AsksFor(l) = <<>>
      BY <3>2, <3>4
    <3>5. CASE AsksFor(l) = <<m, n>>
      BY <3>1, <3>2, <3>5
    <3>6. CASE AsksFor(l) = <<m>>
      BY <3>1, <3>2, <3>6
    <3>7. QED
      BY <3>3, <3>4, <3>5, <3>6
  <2>3. /\ asked' \in Seq(ReqType) /\ Len(asked') = Len(asked) + Len(AsksFor(l))
        /\ Len(AsksFor(l)) \in Nat
        /\ \A n \in 1 .. Len(asked) : asked'[n] = asked[n] /\ n \in 1 .. Len(asked')
        /\ \A n \in Len(asked) + 1 .. Len(asked') :
             /\ asked'[n] = AsksFor(l)[n - Len(asked)]
             /\ n - Len(asked) \in 1 .. Len(AsksFor(l))
    BY <1>1, <1>3, <2>2 DEF Core
  <2>4. /\ \A n \in Len(asked) + 1 .. Len(asked') : asked'[n].op \in Reply
        /\ \A n \in 1 .. Len(asked') : n \in 1 .. Len(asked) \/ n \in Len(asked) + 1 .. Len(asked')
    <3>1. \A n \in Len(asked) + 1 .. Len(asked') : asked'[n].op \in Reply
      <4> DEFINE more == AsksFor(l)
      <4>1. \A n \in 1 .. Len(more) : more[n].op \in Reply
        BY <2>2
      <4>2. \A n \in Len(asked) + 1 .. Len(asked') :
              asked'[n] = more[n - Len(asked)] /\ n - Len(asked) \in 1 .. Len(more)
        BY <2>3
      <4> HIDE DEF more
      <4>3. QED
        BY <4>1, <4>2
    <3>2. QED
      BY <1>3, <2>3, <3>1
  <2>5. Listens' <=> Listens
    <3>1. \A n \in 1 .. Len(asked') : asked'[n].op = "get_rooms" => n \in 1 .. Len(asked)
      BY <2>4 DEF Reply
    <3>2. QED
      BY <1>1, <2>1, <2>3, <3>1 DEF Listens
  <2>6. PhaseAuth'
    <3>1. SUFFICES ASSUME window = "auth" PROVE PhaseAuth'
      BY <2>1 DEF PhaseAuth
    <3>2. ~online
      BY <1>2, <1>6, <3>1 DEF Phases, PhaseAuth
    <3>3. /\ groom = NoGroom /\ ~listed
          /\ \A n \in 1 .. Len(asked) : asked[n].op \in Reply
          /\ \A n \in 1 .. Len(lines) : lines[n].token \in Reply
      BY <3>1, <3>2 DEF Phases, PhaseAuth
    <3>4. l.token \in Reply
      BY <1>2, <3>3
    <3>5. groom' = NoGroom /\ ~listed'
      BY <1>1, <3>3, <3>4 DEF After, Listing, Reply
    <3>6. \A n \in 1 .. Len(lines') : lines'[n].token \in Reply
      BY <1>2, <3>3
    <3>7. \A n \in 1 .. Len(asked') : asked'[n].op \in Reply
      BY <2>3, <2>4, <3>3
    <3>8. QED
      BY <1>1, <3>2, <3>5, <3>6, <3>7 DEF PhaseAuth
  <2>7. PhaseMain'
    <3>1. SUFFICES ASSUME window = "main"
                   PROVE  /\ \A n \in 1 .. Len(lines') : lines'[n].token # "sign_in"
                          /\ online \/ \E n \in 1 .. Len(lines') : lines'[n].token = "log_out"
      BY <1>1, <2>1 DEF PhaseMain
    <3>2. \A n \in 1 .. Len(lines) : lines[n].token # "sign_in"
      BY <3>1 DEF Phases, PhaseMain
    <3>3. \A n \in 1 .. Len(lines') : lines'[n].token # "sign_in"
      BY <1>2, <3>2
    <3>4. ASSUME NEW n \in 1 .. Len(lines), lines[n].token = "log_out"
          PROVE  \E k \in 1 .. Len(lines') : lines'[k].token = "log_out"
      <4>1. n # 1
        BY <1>2, <1>6, <3>4
      <4>2. n - 1 \in 1 .. Len(lines') /\ (n - 1) + 1 = n
        BY <1>2, <4>1
      <4>3. lines'[n - 1].token = "log_out"
        BY <1>2, <3>4, <4>2
      <4>4. QED
        BY <4>2, <4>3
    <3>5. online \/ \E n \in 1 .. Len(lines) : lines[n].token = "log_out"
      BY <3>1 DEF Phases, PhaseMain
    <3>6. QED
      BY <3>3, <3>4, <3>5
  <2>8. PhaseListing'
    <3>1. SUFFICES ASSUME NEW n \in 1 .. Len(asked'), asked'[n].op = "get_rooms"
                   PROVE  /\ n = 1 /\ window = "main" /\ online /\ groom' = NoGroom /\ ~listed'
                          /\ \A k \in 1 .. Len(lines') : lines'[k].token \in Cast
      BY <1>1, <2>1 DEF PhaseListing
    <3>2. n \in 1 .. Len(asked) /\ asked[n].op = "get_rooms"
      BY <2>3, <2>4, <3>1 DEF Reply
    <3>3. /\ n = 1 /\ window = "main" /\ online /\ groom = NoGroom /\ ~listed
          /\ \A k \in 1 .. Len(lines) : lines[k].token \in Cast
      BY <3>2 DEF Phases, PhaseListing
    <3>4. l.token \in Cast
      BY <1>2, <3>3
    <3>5. groom' = NoGroom /\ ~listed'
      BY <1>1, <3>3, <3>4 DEF After, Listing, Cast
    <3>6. QED
      BY <1>2, <3>3, <3>5
  <2>9. PhaseOut'
    <3>1. ASSUME NEW n \in 1 .. Len(asked'), asked'[n].op = "log_out"
          PROVE  online /\ \A k \in n + 1 .. Len(asked') : asked'[k].op \in Reply
      <4>1. n \in 1 .. Len(asked) /\ asked[n].op = "log_out"
        BY <2>3, <2>4, <3>1 DEF Reply
      <4>2. online /\ \A k \in n + 1 .. Len(asked) : asked[k].op \in Reply
        BY <4>1 DEF Phases, PhaseOut
      <4>3. \A k \in n + 1 .. Len(asked') :
              \/ k \in Len(asked) + 1 .. Len(asked')
              \/ k \in 1 .. Len(asked) /\ k \in n + 1 .. Len(asked)
        BY <1>3, <2>3, <4>1
      <4>4. QED
        BY <2>3, <2>4, <4>2, <4>3
    <3>2. ASSUME NEW n \in 1 .. Len(lines'), lines'[n].token = "log_out"
          PROVE  ~online /\ \A k \in n + 1 .. Len(lines') : lines'[k].token \in Reply
      <4>1. n + 1 \in 1 .. Len(lines) /\ lines[n + 1].token = "log_out"
        BY <1>2, <3>2
      <4>2. ~online /\ \A k \in (n + 1) + 1 .. Len(lines) : lines[k].token \in Reply
        BY <4>1 DEF Phases, PhaseOut
      <4>3. \A k \in n + 1 .. Len(lines') :
              k + 1 \in (n + 1) + 1 .. Len(lines) /\ k \in 1 .. Len(lines')
        BY <1>2
      <4>4. QED
        BY <1>2, <4>2, <4>3
    <3>3. ~online => \A n \in 1 .. Len(asked') : asked'[n].op \in Reply
      <4>1. ~online => \A n \in 1 .. Len(asked) : asked[n].op \in Reply
        BY DEF Phases, PhaseOut
      <4>2. QED
        BY <2>3, <2>4, <4>1
    <3>4. QED
      BY <1>1, <3>1, <3>2, <3>3 DEF PhaseOut
  <2>10. QED
    BY <2>3, <2>5, <2>6, <2>7, <2>8, <2>9 DEF Phases
<1>7. QED
  BY <1>4, <1>5, <1>6

\* The user asks for something.
LEMMA PhaseAsk ==
  ASSUME Core, Phases, alive, NEW q \in ReqType, q.op # "get_rooms", Ask(q)
  PROVE  Phases' /\ asked' \in Seq(ReqType) /\ (Listens' <=> Listens)
<1>1. /\ asked' = Append(asked, q) /\ window = "main"
      /\ lines' = lines /\ window' = window /\ listed' = listed /\ groom' = groom
      /\ online' = online /\ alive' = alive
      /\ "log_out" \notin {asked[n].op : n \in DOMAIN asked}
      /\ "log_out" \notin {lines[n].token : n \in DOMAIN lines}
  BY DEF Ask, server
<1>2. /\ Len(asked) \in Nat /\ asked' \in Seq(ReqType) /\ Len(asked') = Len(asked) + 1
      /\ asked'[Len(asked) + 1] = q
      /\ \A n \in 1 .. Len(asked) : asked'[n] = asked[n]
  BY <1>1, AppendFacts DEF Core
<1>3. /\ \A n \in 1 .. Len(asked) : asked[n].op # "log_out"
      /\ \A n \in 1 .. Len(lines) : lines[n].token # "log_out"
  BY <1>1 DEF Core
<1>4. online
  BY <1>1, <1>3 DEF Phases, PhaseMain
<1>5. PhaseAuth' /\ PhaseMain'
  BY <1>1 DEF Phases, PhaseAuth, PhaseMain
<1>6. \A n \in 1 .. Len(asked') : asked'[n].op = "get_rooms" => n \in 1 .. Len(asked)
  BY <1>2
<1>7. PhaseListing'
  BY <1>1, <1>2, <1>6 DEF Phases, PhaseListing
<1>8. PhaseOut'
  <2>1. ASSUME NEW n \in 1 .. Len(asked'), asked'[n].op = "log_out"
        PROVE  n + 1 .. Len(asked') = {}
    BY <1>2, <1>3, <2>1
  <2>2. QED
    BY <1>1, <1>3, <1>4, <2>1 DEF PhaseOut
<1>9. Listens' <=> Listens
  <2>1. \A n \in 1 .. Len(asked) : n \in 1 .. Len(asked')
    BY <1>2
  <2>2. QED
    BY <1>1, <1>2, <1>6, <2>1 DEF Listens
<1>10. QED
  BY <1>2, <1>5, <1>7, <1>8, <1>9 DEF Phases

\* The user signs in.
LEMMA PhaseSignIn ==
  ASSUME Core, Phases, alive, SignIn
  PROVE  Phases' /\ ~Listens' /\ ~Listens
<1>1. /\ window = "auth" /\ ~online /\ asked = <<>> /\ lines = <<>> /\ online'
      /\ lines' = <<Plain("sign_in")>> /\ asked' = <<>> /\ alive' = alive
      /\ window' = window /\ listed' = listed /\ groom' = groom
  BY DEF SignIn, screen
<1>2. groom = NoGroom /\ ~listed
  BY <1>1 DEF Phases, PhaseAuth
<1>3. Len(lines') = 1 /\ lines'[1].token = "sign_in" /\ Len(asked') = 0 /\ lines' # <<>>
  BY <1>1 DEF Plain, About, Line
<1>4. \A n \in 2 .. Len(lines') : FALSE
  BY <1>3
<1>5. PhaseAuth' /\ PhaseMain'
  BY <1>1, <1>2, <1>3, <1>4 DEF PhaseAuth, PhaseMain
<1>6. PhaseListing' /\ PhaseOut'
  BY <1>1, <1>3 DEF PhaseListing, PhaseOut
<1>7. QED
  BY <1>1, <1>5, <1>6 DEF Phases, Listens

-------------------------------------------------------------------------------
(* The handlers' steps in the two processes' states.                        *)

AllGood == Good(groom, lines, listed, owner, members, Listens)

\* A step of the server that leaves the client's room and what is posted in agreement.
Cleanly ==
  /\ owner' \in User \cup {None} /\ members' \in SUBSET MemberRow /\ lines' \in Seq(LineType)
  /\ lines' = lines \/ (online /\ Extends(lines', lines, Cast))
  /\ Good(groom, lines', listed, owner', members', Listens)
  /\ Grows(members, members') \/ members' = {}

LEMMA Hearing ==
  ASSUME Core, NEW rows, NEW l \in LineType
  PROVE  lines \o ToMembers(rows, l) =
           IF online /\ Me \in Members(rows) THEN Append(lines, l) ELSE lines
<1>1. lines \o <<l>> = Append(lines, l) /\ lines \o <<>> = lines
  BY DEF Core
<1>2. QED
  BY <1>1 DEF ToMembers, Members

LEMMA OnePosted ==
  ASSUME Core, NEW l \in LineType, l.token \in Cast, online
  PROVE  /\ Append(lines, l) \in Seq(LineType)
         /\ Extends(Append(lines, l), lines, Cast)
BY ExtendsSame, ExtendsPost DEF Core

LEMMA InTime ==
  ASSUME Core, Phases, alive, window \in {"auth", "main"}, online
  PROVE  ~Listens => ~Late(lines, listed, Len(lines))
BY NotYet

LEMMA ListensOnline == Listens \in BOOLEAN /\ (Listens => online)
BY DEF Listens

LEMMA MessageStep ==
  ASSUME Core, Phases, alive, window \in {"auth", "main"}, AllGood, NEW u, Writes(u),
         lines' = lines \o ToMembers(members, About("send_message", u))
  PROVE  Cleanly
<1>1. members' = members /\ owner' = owner /\ IsValidMember(members, u, Room)
  BY DEF Writes
<1>2. u \in Members(members) /\ u \in User
  BY <1>1, ValidIsMember, MembersHaveRows DEF Core
<1> DEFINE l == About("send_message", u)
<1>3. l \in LineType /\ l.token \in Cast
  BY <1>2, AboutFields DEF Cast, Token
<1>4. lines' = IF online /\ Me \in Members(members) THEN Append(lines, l) ELSE lines
  BY <1>3, Hearing
<1>5. Grows(members, members')
  BY <1>1 DEF Grows
<1>6. CASE online /\ Me \in Members(members)
  <2>1. Good(groom, Append(lines, l), listed, owner, members, Listens)
    BY <1>2, <1>6, InTime, ListensOnline, MessageCast DEF AllGood, Core
  <2>2. Append(lines, l) \in Seq(LineType) /\ Extends(Append(lines, l), lines, Cast)
    BY <1>3, <1>6, OnePosted
  <2> HIDE DEF l
  <2>3. QED
    BY <1>1, <1>4, <1>5, <1>6, <2>1, <2>2 DEF Cleanly, Core
<1>7. CASE ~(online /\ Me \in Members(members))
  <2> HIDE DEF l
  <2>1. lines' = lines
    BY <1>4, <1>7
  <2>2. QED
    BY <1>1, <1>5, <2>1 DEF Cleanly, Core, AllGood
<1>8. QED
  BY <1>6, <1>7

LEMMA JoinStep ==
  ASSUME UserAssumption, Core, Phases, alive, window \in {"auth", "main"}, AllGood,
         NEW u \in User \ {Me}, Joins(u),
         lines' = lines \o ToMembers(members', About("new_member", u))
  PROVE  Cleanly
<1>1. /\ members' = AddMember(members, u, Room) /\ owner' = owner /\ owner # None
      /\ ~IsMember(members, u, Room)
  BY DEF Joins
<1> DEFINE l == About("new_member", u)
<1>2. l \in LineType /\ l.token \in Cast
  <2>1. u \in User \cup {None} /\ "new_member" \in Token
    BY DEF Token
  <2>2. l \in LineType /\ l.token = "new_member"
    BY <2>1, AboutFields
  <2>3. QED
    BY <2>2 DEF Cast
<1>3. /\ members' \in SUBSET MemberRow /\ Members(members') = Members(members) \cup {u}
      /\ Grows(members, members')
  BY <1>1, RowAdded DEF Core
<1>4. lines' = IF online /\ Me \in Members(members) THEN Append(lines, l) ELSE lines
  <2>1. lines' = IF online /\ Me \in Members(members') THEN Append(lines, l) ELSE lines
    BY <1>2, Hearing
  <2>2. QED
    BY <1>3, <2>1
<1>5. CASE online /\ Me \in Members(members)
  <2>1. Good(groom, Append(lines, l), listed, owner, members', Listens)
    BY <1>1, <1>5, InTime, ListensOnline, MemberCast DEF AllGood, Core
  <2>2. Append(lines, l) \in Seq(LineType) /\ Extends(Append(lines, l), lines, Cast)
    BY <1>2, <1>5, OnePosted
  <2> HIDE DEF l
  <2>3. QED
    BY <1>1, <1>3, <1>4, <1>5, <2>1, <2>2 DEF Cleanly, Core
<1>6. CASE ~(online /\ Me \in Members(members))
  <2>1. Good(groom, lines, listed, owner, members', Listens)
    BY <1>1, <1>6, ListensOnline, MemberUnheard DEF AllGood, Core
  <2> HIDE DEF l
  <2>2. lines' = lines
    BY <1>4, <1>6
  <2>3. QED
    BY <1>1, <1>3, <2>1, <2>2 DEF Cleanly, Core
<1>7. QED
  BY <1>5, <1>6

\* Without a room there is no member.
LEMMA NoRows ==
  ASSUME AllGood, owner = None
  PROVE  members = {} /\ \A u : ~IsMember(members, u, Room) /\ u \notin Members(members)
BY NobodyThere DEF AllGood, Good, Standing

LEMMA MakeStep ==
  ASSUME UserAssumption, Core, Phases, alive, window \in {"auth", "main"}, AllGood,
         NEW u \in User \ {Me}, Makes(u), lines' = lines
  PROVE  Cleanly
<1>1. owner' = u /\ members' = AddMember(members, u, Room) /\ owner = None /\ u # None
  BY DEF Makes, UserAssumption
<1>2. ~IsMember(members, u, Room) /\ Me \notin Members(members)
  BY <1>1, NoRows
<1>3. members' \in SUBSET MemberRow /\ Grows(members, members')
  BY <1>1, <1>2, RowAdded DEF Core
<1>4. Good(groom, lines, listed, owner', members', Listens)
  BY <1>1, <1>2, ListensOnline, MemberUnheard DEF AllGood, Core
<1>5. QED
  BY <1>1, <1>3, <1>4 DEF Cleanly, Core

LEMMA DeleteStep ==
  ASSUME UserAssumption, Core, Phases, alive, window \in {"auth", "main"}, AllGood,
         NEW u, Deletes(u), lines' = lines \o ToMembers(members, Plain("del_room"))
  PROVE  Cleanly
<1> DEFINE l == Plain("del_room")
<1>1. owner' = None /\ members' = {}
  BY RoomGone DEF Deletes, Core
<1>2. l \in LineType /\ l.token \in Cast /\ l.token \in Closing
  BY AboutFields DEF Plain, Token, Cast, Closing
<1>3. lines' = IF online /\ Me \in Members(members) THEN Append(lines, l) ELSE lines
  BY <1>2, Hearing
<1>4. CASE online /\ Me \in Members(members)
  <2>1. Good(groom, Append(lines, l), listed, None, {}, Listens)
    BY <1>2, ListensOnline, NobodyThere, RoomClosed DEF AllGood, Core
  <2>2. Append(lines, l) \in Seq(LineType) /\ Extends(Append(lines, l), lines, Cast)
    BY <1>2, <1>4, OnePosted
  <2> HIDE DEF l
  <2>3. QED
    BY <1>1, <1>3, <1>4, <2>1, <2>2 DEF Cleanly, Core
<1>5. CASE ~(online /\ Me \in Members(members))
  <2>1. Good(groom, lines, listed, None, {}, Listens)
    BY <1>5, ListensOnline, EndUnheard DEF AllGood, Core
  <2> HIDE DEF l
  <2>2. lines' = lines
    BY <1>3, <1>5
  <2>3. QED
    BY <1>1, <2>1, <2>2 DEF Cleanly, Core
<1>6. QED
  BY <1>4, <1>5

LEMMA BanStep ==
  ASSUME UserAssumption, Core, Phases, alive, window \in {"auth", "main"}, AllGood,
         NEW t \in User \cup {None}, Bans(t), lines' = lines \o BanLines(t)
  PROVE  Cleanly
<1>1. members' = EditMemberType(members, Room, t, "banned") /\ owner' = owner
  BY DEF Bans
<1>2. /\ members' \in SUBSET MemberRow /\ Members(members') = Members(members) \ {t}
      /\ Grows(members, members')
  BY <1>1, RowBanned DEF Core
<1>3. (owner = None => members' = {})
  BY <1>1, NoRows DEF EditMemberType
<1> DEFINE l == About("ban_member", t)
           d == Plain("del_room")
<1>4. /\ l \in LineType /\ l.token \in Cast
      /\ d \in LineType /\ d.token \in Cast /\ d.token \in Closing
  BY AboutFields DEF Plain, Token, Cast, Closing
<1>5. CASE t = Me
  <2>1. ToMembers(members', l) = <<>>
    BY <1>2, <1>5 DEF ToMembers, Members
  <2>2. lines' = IF online THEN Append(lines, d) ELSE lines
    <3>1. BanLines(t) = IF online THEN <<d>> ELSE <<>>
      <4>1. BanLines(t) = (IF t = Me /\ online THEN <<d>> ELSE <<>>) \o <<>>
        BY <2>1 DEF BanLines
      <4> HIDE DEF d
      <4>2. <<d>> \o <<>> = <<d>> /\ <<>> \o <<>> = <<>>
        OBVIOUS
      <4>3. QED
        BY <1>5, <4>1, <4>2
    <3> HIDE DEF d
    <3>2. lines \o <<d>> = Append(lines, d) /\ lines \o <<>> = lines
      BY DEF Core
    <3>3. QED
      BY <3>1, <3>2
  <2>3. CASE online
    <3>1. Good(groom, Append(lines, d), listed, owner, members', Listens)
      BY <1>2, <1>3, <1>4, <1>5, ListensOnline, RoomClosed DEF AllGood, Core
    <3>2. Append(lines, d) \in Seq(LineType) /\ Extends(Append(lines, d), lines, Cast)
      BY <1>4, <2>3, OnePosted
    <3> HIDE DEF d
    <3>3. QED
      BY <1>1, <1>2, <2>2, <2>3, <3>1, <3>2 DEF Cleanly, Core
  <2>4. CASE ~online
    <3>1. Good(groom, lines, listed, owner, members', Listens)
      BY <1>1, <2>4, ListensOnline, BanUnheard DEF AllGood, Core
    <3> HIDE DEF d
    <3>2. QED
      BY <1>1, <1>2, <2>2, <2>4, <3>1 DEF Cleanly, Core
  <2>5. QED
    BY <2>3, <2>4
<1>6. CASE t # Me
  <2>1. lines' = IF online /\ Me \in Members(members) THEN Append(lines, l) ELSE lines
    <3>1. lines \o ToMembers(members', l)
            = IF online /\ Me \in Members(members') THEN Append(lines, l) ELSE lines
      BY <1>4, Hearing
    <3>2. BanLines(t) = <<>> \o ToMembers(members', l)
      BY <1>6 DEF BanLines
    <3>3. ToMembers(members', l) \in Seq(LineType)
      BY <1>4 DEF ToMembers
    <3>4. BanLines(t) = ToMembers(members', l)
      BY <3>2, <3>3
    <3>5. QED
      BY <1>2, <1>6, <3>1, <3>4
  <2>2. CASE online /\ Me \in Members(members)
    <3>1. Good(groom, Append(lines, l), listed, owner, members', Listens)
      BY <1>1, <1>6, <2>2, InTime, ListensOnline, BanCast DEF AllGood, Core
    <3>2. Append(lines, l) \in Seq(LineType) /\ Extends(Append(lines, l), lines, Cast)
      BY <1>4, <2>2, OnePosted
    <3> HIDE DEF l
    <3>3. QED
      BY <1>1, <1>2, <2>1, <2>2, <3>1, <3>2 DEF Cleanly, Core
  <2>3. CASE ~(online /\ Me \in Members(members))
    <3>1. Good(groom, lines, listed, owner, members', Listens)
      BY <1>1, <2>3, ListensOnline, BanUnheard DEF AllGood, Core
    <3> HIDE DEF l
    <3>2. lines' = lines
      BY <2>1, <2>3
    <3>3. QED
      BY <1>1, <1>2, <3>1, <3>2 DEF Cleanly, Core
  <2>4. QED
    BY <2>2, <2>3
<1>7. QED
  BY <1>5, <1>6

\* What others do, whole.
LEMMA OtherStep ==
  ASSUME UserAssumption, Core, Phases, alive, window \in {"auth", "main"}, AllGood, Other
  PROVE  /\ Cleanly
         /\ asked' = asked /\ alive' = alive /\ window' = window /\ listed' = listed
         /\ groom' = groom /\ offers' = offers /\ open' = open /\ online' = online /\ up' = up
<1>1. /\ asked' = asked /\ alive' = alive /\ window' = window /\ listed' = listed
      /\ groom' = groom /\ offers' = offers /\ open' = open
  BY DEF Other, screen
<1>2. CASE \E u \in User \ {Me} : Joins(u) /\ lines' = lines \o ToMembers(members', About("new_member", u))
  <2>1. PICK u \in User \ {Me} :
          Joins(u) /\ lines' = lines \o ToMembers(members', About("new_member", u))
    BY <1>2
  <2>2. online' = online /\ up' = up
    BY <2>1 DEF Joins
  <2>3. QED
    BY <1>1, <2>1, <2>2, JoinStep
<1>3. CASE \E u \in User \ {Me} : Makes(u) /\ UNCHANGED lines
  <2>1. PICK u \in User \ {Me} : Makes(u) /\ lines' = lines
    BY <1>3
  <2>2. online' = online /\ up' = up
    BY <2>1 DEF Makes
  <2>3. QED
    BY <1>1, <2>1, <2>2, MakeStep
<1>4. CASE \E u \in User \ {Me} : Writes(u) /\ lines' = lines \o ToMembers(members, About("send_message", u))
  <2>1. PICK u \in User \ {Me} :
          Writes(u) /\ lines' = lines \o ToMembers(members, About("send_message", u))
    BY <1>4
  <2>2. online' = online /\ up' = up
    BY <2>1 DEF Writes
  <2>3. QED
    BY <1>1, <2>1, <2>2, MessageStep
<1>5. CASE Deletes(owner) /\ lines' = lines \o ToMembers(members, Plain("del_room"))
  <2>1. online' = online /\ up' = up
    BY <1>5 DEF Deletes
  <2>2. QED
    BY <1>1, <1>5, <2>1, DeleteStep
<1>6. CASE \E t \in User \ {owner} : /\ IsMember(members, t, Room)
                                     /\ Bans(t) /\ lines' = lines \o BanLines(t)
  <2>1. PICK t \in User \ {owner} : Bans(t) /\ lines' = lines \o BanLines(t)
    BY <1>6
  <2>2. online' = online /\ up' = up
    BY <2>1 DEF Bans
  <2>3. QED
    BY <1>1, <2>1, <2>2, BanStep
<1>7. QED
  BY <1>2, <1>3, <1>4, <1>5, <1>6 DEF Other

\* What every step of the server, other than its end, keeps.
ServerStep ==
  /\ Core' /\ Phases' /\ AllGood'
  /\ Extends(lines', lines, Token)
  /\ Grows(members, members') \/ members' = {}
  /\ groom' = groom /\ offers' = offers /\ open' = open
  /\ alive' = alive /\ window' = window /\ up' = up

LEMMA GoodSame ==
  ASSUME NEW g, NEW ls, NEW h, NEW own, NEW rows, NEW p, NEW q, p <=> q,
         Good(g, ls, h, own, rows, p)
  PROVE  Good(g, ls, h, own, rows, q)
BY DEF Good, Standing

LEMMA ExtendsMore ==
  ASSUME NEW new, NEW old, NEW some, NEW more, Extends(new, old, some), some \subseteq more
  PROVE  Extends(new, old, more)
BY DEF Extends

LEMMA TokenSets ==
  /\ Cast \subseteq Token \ {"sign_in", "log_out"} /\ Reply \subseteq Token
  /\ Cast \subseteq Token
BY DEF Cast, Reply, Token, Listing

LEMMA Serving ==
  ASSUME Core, NEW op, Serve(op)
  PROVE  /\ asked # <<>> /\ asked' = Tail(asked) /\ asked' \in Seq(ReqType)
         /\ Head(asked) \in ReqType /\ Head(asked).op = op
         /\ alive' = alive /\ window' = window /\ listed' = listed /\ groom' = groom
         /\ offers' = offers /\ open' = open
BY DEF Serve, screen, Core

LEMMA OthersServed ==
  ASSUME UserAssumption, Core, Phases, alive, window \in {"auth", "main"}, AllGood, Other
  PROVE  ServerStep
<1>1. /\ Cleanly
      /\ asked' = asked /\ alive' = alive /\ window' = window /\ listed' = listed
      /\ groom' = groom /\ offers' = offers /\ open' = open /\ online' = online /\ up' = up
  BY OtherStep
<1>2. Core'
  BY <1>1 DEF Cleanly, Core
<1>3. Phases' /\ (Listens' <=> Listens)
  BY <1>1, PhaseCast DEF Cleanly
<1>4. AllGood'
  <2>1. Good(groom, lines', listed, owner', members', Listens')
    BY <1>1, <1>3, GoodSame DEF Cleanly
  <2>2. QED
    BY <1>1, <2>1 DEF AllGood
<1>5. Extends(lines', lines, Token)
  BY <1>1, ExtendsSame, ExtendsMore, TokenSets DEF Cleanly, Core
<1>6. QED
  BY <1>1, <1>2, <1>3, <1>4, <1>5 DEF ServerStep, Cleanly

\* A request of the client's user is handled as those of others are.
LEMMA CleanServe ==
  ASSUME Core, Phases, alive, window \in {"auth", "main"}, AllGood, NEW op, Serve(op),
         op \notin Reply \cup {"get_rooms"}, Cleanly, online' = online, up' = up
  PROVE  ServerStep
<1>1. /\ asked # <<>> /\ asked' = Tail(asked) /\ asked' \in Seq(ReqType)
      /\ Head(asked) \in ReqType /\ Head(asked).op = op
      /\ alive' = alive /\ window' = window /\ listed' = listed /\ groom' = groom
      /\ offers' = offers /\ open' = open
  BY Serving
<1>2. Core'
  BY <1>1 DEF Cleanly, Core
<1>3. Extends(lines', lines, Cast)
  BY ExtendsSame DEF Cleanly, Core
<1>4. Extends(lines', lines, Token) /\ Extends(lines', lines, Token \ {"sign_in", "log_out"})
  BY <1>3, ExtendsMore, TokenSets
<1>5. Phases' /\ (Listens' <=> Listens)
  <2>1. op # "get_rooms" /\ op \notin Reply
    OBVIOUS
  <2>2. lines' \in Seq(LineType)
    BY DEF Cleanly
  <2>3. QED
    BY <1>1, <1>4, <2>1, <2>2, PhaseServe
<1>6. AllGood'
  <2>1. Good(groom, lines', listed, owner', members', Listens')
    BY <1>5, GoodSame DEF Cleanly
  <2>2. QED
    BY <1>1, <2>1 DEF AllGood
<1>7. QED
  BY <1>1, <1>2, <1>4, <1>5, <1>6 DEF ServerStep, Cleanly

LEMMA BanServed ==
  ASSUME UserAssumption, Core, Phases, alive, window \in {"auth", "main"}, AllGood, ServeBan
  PROVE  ServerStep
<1> DEFINE t == Head(asked).user
<1>1. Serve("ban_member") /\ Bans(t) /\ lines' = lines \o BanLines(t)
  BY DEF ServeBan
<1>2. t \in User \cup {None}
  BY <1>1, Serving DEF ReqType
<1>3. online' = online /\ up' = up
  BY <1>1 DEF Bans
<1> HIDE DEF t
<1>4. Cleanly
  BY <1>1, <1>2, BanStep
<1>5. QED
  BY <1>1, <1>3, <1>4, CleanServe DEF Reply

LEMMA IgnoredServed ==
  ASSUME Core, Phases, alive, window \in {"auth", "main"}, AllGood, NEW op, Serve(op),
         op # "get_rooms", Ignores
  PROVE  ServerStep
<1>1. /\ asked # <<>> /\ asked' = Tail(asked) /\ asked' \in Seq(ReqType)
      /\ Head(asked) \in ReqType /\ Head(asked).op = op
      /\ alive' = alive /\ window' = window /\ listed' = listed /\ groom' = groom
      /\ offers' = offers /\ open' = open
  BY Serving
<1>2. owner' = owner /\ members' = members /\ up' = up /\ online' = online /\ lines' = lines
  BY DEF Ignores, server
<1>3. Core'
  BY <1>1, <1>2 DEF Core
<1>4. lines' \in Seq(LineType) /\ \A tokens : Extends(lines', lines, tokens)
  BY <1>2, ExtendsSame DEF Core
<1>5. Phases' /\ (Listens' <=> Listens)
  BY <1>1, <1>2, <1>4, PhaseServe
<1>6. AllGood'
  <2>1. Good(groom, lines, listed, owner, members, Listens')
    BY <1>5, GoodSame DEF AllGood
  <2>2. QED
    BY <1>1, <1>2, <2>1 DEF AllGood
<1>7. Grows(members, members')
  BY <1>2 DEF Grows
<1>8. QED
  BY <1>1, <1>2, <1>3, <1>4, <1>5, <1>6, <1>7 DEF ServerStep

LEMMA DelRoomServed ==
  ASSUME UserAssumption, Core, Phases, alive, window \in {"auth", "main"}, AllGood, ServeDelRoom
  PROVE  ServerStep
<1>1. Serve("del_room") /\ "del_room" \notin Reply \cup {"get_rooms"}
  BY DEF ServeDelRoom, Reply
<1>2. CASE Deletes(Me) /\ lines' = lines \o ToMembers(members, Plain("del_room"))
  <2>1. Cleanly
    BY <1>2, DeleteStep
  <2>2. online' = online /\ up' = up
    BY <1>2 DEF Deletes
  <2>3. QED
    BY <1>1, <2>1, <2>2, CleanServe
<1>3. CASE Ignores
  BY <1>1, <1>3, IgnoredServed
<1>4. QED
  BY <1>2, <1>3 DEF ServeDelRoom

LEMMA MessageServed ==
  ASSUME UserAssumption, Core, Phases, alive, window \in {"auth", "main"}, AllGood, ServeMessage
  PROVE  ServerStep
<1>1. Serve("send_message") /\ "send_message" \notin Reply \cup {"get_rooms"}
  BY DEF ServeMessage, Reply
<1>2. CASE Writes(Me) /\ lines' = lines \o ToMembers(members, About("send_message", Me))
  <2>1. Cleanly
    BY <1>2, MessageStep
  <2>2. online' = online /\ up' = up
    BY <1>2 DEF Writes
  <2>3. QED
    BY <1>1, <2>1, <2>2, CleanServe
<1>3. CASE Ignores
  BY <1>1, <1>3, IgnoredServed
<1>4. QED
  BY <1>2, <1>3 DEF ServeMessage

\* An answer that changes no table.
LEMMA Answered ==
  ASSUME Core, Phases, alive, window \in {"auth", "main"}, NEW op, Serve(op),
         NEW l \in LineType, Answers(l),
         \/ op \in Reply /\ l.token \in Reply
         \/ op \notin Reply /\ l.token \notin {"sign_in", "log_out"},
         Good(groom, Append(lines, l), listed, owner, members, IF op = "get_rooms" THEN TRUE ELSE Listens)
  PROVE  ServerStep
<1>1. /\ asked # <<>> /\ asked' = Tail(asked) /\ asked' \in Seq(ReqType)
      /\ Head(asked) \in ReqType /\ Head(asked).op = op
      /\ alive' = alive /\ window' = window /\ listed' = listed /\ groom' = groom
      /\ offers' = offers /\ open' = open
  BY Serving
<1>2. /\ owner' = owner /\ members' = members /\ up' = up /\ online' = online
      /\ lines' = Append(lines, l)
  BY DEF Answers, server
<1>3. l.token \in Token
  BY DEF LineType
<1>4. lines' \in Seq(LineType) /\ \A tokens : l.token \in tokens => Extends(lines', lines, tokens)
  BY <1>2, ExtendsSame, ExtendsPost DEF Core
<1>5. Core'
  BY <1>1, <1>2, <1>4 DEF Core
<1>6. /\ Phases' /\ (op # "get_rooms" => (Listens' <=> Listens))
      /\ \A n \in 1 .. Len(asked') : asked'[n].op # "get_rooms"
      /\ op \notin Reply => window = "main" /\ online
  <2>1. \/ Head(asked).op \in Reply /\ Extends(lines', lines, Reply)
        \/ Head(asked).op \notin Reply /\ Extends(lines', lines, Token \ {"sign_in", "log_out"})
    BY <1>1, <1>3, <1>4
  <2>2. QED
    BY <1>1, <1>2, <1>4, <2>1, PhaseServe
<1>7. (IF op = "get_rooms" THEN TRUE ELSE Listens) <=> Listens'
  BY <1>1, <1>2, <1>6 DEF Listens, Reply
<1>8. AllGood'
  <2>1. Good(groom, Append(lines, l), listed, owner, members, Listens')
    BY <1>7, GoodSame
  <2>2. QED
    BY <1>1, <1>2, <2>1 DEF AllGood
<1>9. Grows(members, members')
  BY <1>2 DEF Grows
<1>10. QED
  BY <1>1, <1>2, <1>3, <1>4, <1>5, <1>6, <1>8, <1>9 DEF ServerStep

\* Before its rooms are listed, a client has none.
LEMMA ListsFirst ==
  ASSUME Core, Phases, asked # <<>>, Head(asked).op = "get_rooms"
  PROVE  ~Listens
<1>1. 1 \in 1 .. Len(asked) /\ Head(asked) = asked[1]
  BY DEF Core
<1>2. QED
  BY <1>1 DEF Listens

LEMMA RoomsServed ==
  ASSUME UserAssumption, Core, Phases, alive, window \in {"auth", "main"}, AllGood, ServeGetRooms
  PROVE  ServerStep
<1> DEFINE l == About("get_rooms", IF Me \in Members(members) THEN owner ELSE None)
<1>1. Serve("get_rooms") /\ Answers(l)
  BY DEF ServeGetRooms
<1>2. l \in LineType /\ l.token = "get_rooms"
  <2>1. (IF Me \in Members(members) THEN owner ELSE None) \in User \cup {None}
    BY DEF Core
  <2>2. QED
    BY <2>1, AboutFields DEF Token, Listing
<1>3. Good(groom, lines, listed, owner, members, FALSE)
  <2>1. Listens <=> FALSE
    BY <1>1, Serving, ListsFirst
  <2>2. Good(groom, lines, listed, owner, members, Listens)
    BY DEF AllGood
  <2>3. QED
    BY <2>1, <2>2, GoodSame
<1>4. Good(groom, Append(lines, l), listed, owner, members, TRUE)
  BY <1>3, RoomsAnswer DEF Core
<1> HIDE DEF l
<1>5. QED
  BY <1>1, <1>2, <1>4, Answered DEF Reply

LEMMA GetMembersServed ==
  ASSUME Core, Phases, alive, window \in {"auth", "main"}, AllGood, ServeGetMembers
  PROVE  ServerStep
<1> DEFINE l == Line("get_members", None, Members(members))
<1>1. Serve("get_members") /\ Answers(l)
  BY DEF ServeGetMembers
<1>2. l \in LineType /\ l.token = "get_members"
  BY MembersHaveRows DEF Line, LineType, Token, Core
<1>3. Good(groom, Append(lines, l), listed, owner, members, Listens)
  BY ListensOnline, MembersAnswer DEF Core, AllGood
<1> HIDE DEF l
<1>4. QED
  BY <1>1, <1>2, <1>3, Answered DEF Reply

LEMMA NewMessagesServed ==
  ASSUME UserAssumption, Core, Phases, alive, window \in {"auth", "main"}, AllGood, ServeNewMessages
  PROVE  ServerStep
<1>1. Serve("new_messages")
  BY DEF ServeNewMessages
<1>2. CASE IsMember(members, Me, Room)
  <2> DEFINE l == Line("new_messages", None, IF written THEN {Me} ELSE {})
  <2>1. Answers(l)
    BY <1>2 DEF ServeNewMessages
  <2>2. l \in LineType /\ l.token = "new_messages"
    BY DEF Line, LineType, Token, UserAssumption
  <2> HIDE DEF l
  <2>3. Good(groom, Append(lines, l), listed, owner, members, Listens)
    BY <2>2, ListensOnline, PlainAnswer DEF Core, AllGood
  <2>4. QED
    BY <1>1, <2>1, <2>2, <2>3, Answered DEF Reply
<1>3. CASE ~IsMember(members, Me, Room)
  <2>1. Ignores
    BY <1>3 DEF ServeNewMessages
  <2>2. QED
    BY <1>1, <2>1, IgnoredServed
<1>4. QED
  BY <1>2, <1>3

LEMMA SearchServed ==
  ASSUME UserAssumption, Core, Phases, alive, window \in {"auth", "main"}, AllGood, ServeSearch
  PROVE  ServerStep
<1> DEFINE fits == /\ owner # None /\ ~IsMember(members, Me, Room)
                   /\ RoomMatches(Head(asked).text, RoomName)
           l == Line("search_room", None, IF fits THEN {Me} ELSE {})
<1>1. Serve("search_room") /\ Answers(l)
  BY DEF ServeSearch
<1> HIDE DEF fits
<1>2. l \in LineType /\ l.token = "search_room"
  BY DEF Line, LineType, Token, UserAssumption
<1> HIDE DEF l
<1>3. Good(groom, Append(lines, l), listed, owner, members, Listens)
  BY <1>2, ListensOnline, PlainAnswer DEF Core, AllGood
<1>4. QED
  BY <1>1, <1>2, <1>3, Answered DEF Reply

\* Requests that are not the client's own answers come from a client that listens.
LEMMA Listening ==
  ASSUME Core, Phases, alive, window \in {"auth", "main"}, asked # <<>>,
         Head(asked).op \notin Reply \cup {"get_rooms"}
  PROVE  Listens
<1>1. /\ Len(asked) \in Nat \ {0} /\ 1 \in 1 .. Len(asked) /\ Head(asked) = asked[1]
  BY DEF Core
<1>2. window = "main" /\ online
  BY <1>1 DEF Phases, PhaseAuth, PhaseOut
<1>3. \A n \in 1 .. Len(asked) : asked[n].op # "get_rooms"
  BY <1>1 DEF Phases, PhaseListing
<1>4. QED
  BY <1>2, <1>3 DEF Listens

LEMMA NewRoomServed ==
  ASSUME UserAssumption, Core, Phases, alive, window \in {"auth", "main"}, AllGood, ServeNewRoom
  PROVE  ServerStep
<1>1. Serve("new_room") /\ "new_room" \notin Reply \cup {"get_rooms"}
  BY DEF ServeNewRoom, Reply
<1>2. CASE Makes(Me) /\ lines' = Append(lines, About("new_room", Me))
  <2> DEFINE l == About("new_room", Me)
  <2>1. /\ asked # <<>> /\ asked' = Tail(asked) /\ asked' \in Seq(ReqType)
        /\ Head(asked) \in ReqType /\ Head(asked).op = "new_room"
        /\ alive' = alive /\ window' = window /\ listed' = listed /\ groom' = groom
        /\ offers' = offers /\ open' = open
    BY <1>1, Serving
  <2>2. /\ owner' = Me /\ members' = AddMember(members, Me, Room) /\ owner = None
        /\ up' = up /\ online' = online
    BY <1>2 DEF Makes
  <2>3. l \in LineType /\ l.token = "new_room"
    BY AboutFields DEF Token, Listing, UserAssumption
  <2>4. /\ lines' \in Seq(LineType)
        /\ Extends(lines', lines, Token) /\ Extends(lines', lines, Token \ {"sign_in", "log_out"})
    BY <1>2, <2>3, ExtendsSame, ExtendsPost DEF Core, Token, Listing
  <2> HIDE DEF l
  <2>5. Listens
    BY <1>1, <2>1, Listening
  <2>6. Phases' /\ (Listens' <=> Listens)
    BY <1>1, <2>1, <2>2, <2>4, PhaseServe
  <2>7. AllGood'
    <3>1. Good(groom, lines, listed, None, members, TRUE)
      BY <2>2, <2>5, GoodSame DEF AllGood
    <3>2. Good(groom, lines', listed, Me, AddMember(members, Me, Room), TRUE)
      BY <1>2, <3>1, RoomMade DEF Core
    <3>3. TRUE <=> Listens'
      BY <2>5, <2>6
    <3>4. Good(groom, lines', listed, Me, AddMember(members, Me, Room), Listens')
      BY <3>2, <3>3, GoodSame
    <3>5. QED
      BY <2>1, <2>2, <3>4 DEF AllGood
  <2>8. members' \in SUBSET MemberRow /\ Grows(members, members')
    BY <2>2, NoRows, RowAdded DEF Core, UserAssumption
  <2>9. Core'
    BY <2>1, <2>2, <2>4, <2>8 DEF Core, UserAssumption
  <2>10. QED
    BY <2>1, <2>2, <2>4, <2>6, <2>7, <2>8, <2>9 DEF ServerStep
<1>3. CASE Ignores
  BY <1>1, <1>3, IgnoredServed
<1>4. QED
  BY <1>2, <1>3 DEF ServeNewRoom

LEMMA JoinServed ==
  ASSUME UserAssumption, Core, Phases, alive, window \in {"auth", "main"}, AllGood, ServeJoin
  PROVE  ServerStep
<1>1. Serve("join_room") /\ "join_room" \notin Reply \cup {"get_rooms"}
  BY DEF ServeJoin, Reply
<1>2. CASE /\ Joins(Me)
           /\ lines' = lines \o <<About("join_room", owner)>>
                             \o ToMembers(members', About("new_member", Me))
  <2> DEFINE l == About("join_room", owner)
             n == About("new_member", Me)
  <2>1. /\ asked # <<>> /\ asked' = Tail(asked) /\ asked' \in Seq(ReqType)
        /\ Head(asked) \in ReqType /\ Head(asked).op = "join_room"
        /\ alive' = alive /\ window' = window /\ listed' = listed /\ groom' = groom
        /\ offers' = offers /\ open' = open
    BY <1>1, Serving
  <2>2. /\ owner' = owner /\ members' = AddMember(members, Me, Room) /\ owner \in User
        /\ ~IsMember(members, Me, Room) /\ up' = up /\ online' = online
    BY <1>2 DEF Joins, Core
  <2>3. /\ l \in LineType /\ l.token = "join_room"
        /\ n \in LineType /\ n.token = "new_member"
    BY <2>2, AboutFields DEF Token, Listing, UserAssumption
  <2>4. Listens
    BY <1>1, <2>1, Listening
  <2>5. /\ members' \in SUBSET MemberRow /\ Grows(members, members')
        /\ Members(members') = Members(members) \cup {Me}
    BY <2>2, RowAdded DEF Core, UserAssumption
  <2>6. lines' = Append(Append(lines, l), n)
    <3>1. ToMembers(members', n) = <<n>>
      BY <2>4, <2>5 DEF ToMembers, Members, Listens
    <3>2. lines' = (lines \o <<l>>) \o <<n>>
      BY <1>2, <3>1
    <3> HIDE DEF l, n
    <3>3. lines \o <<l>> = Append(lines, l) /\ Append(lines, l) \in Seq(LineType)
      BY <2>3 DEF Core
    <3>4. \A ls \in Seq(LineType) : ls \o <<n>> = Append(ls, n)
      BY <2>3
    <3>5. QED
      BY <3>2, <3>3, <3>4
  <2> DEFINE T == Token \ {"sign_in", "log_out"}
  <2>7. lines' \in Seq(LineType) /\ Extends(lines', lines, T)
    <3>1. l.token \in T /\ n.token \in T
      BY <2>3 DEF Token, Listing
    <3> HIDE DEF l, n, T
    <3>2. Append(lines, l) \in Seq(LineType) /\ Extends(Append(lines, l), lines, T)
      BY <2>3, <3>1, ExtendsSame, ExtendsPost DEF Core
    <3>3. QED
      BY <2>3, <2>6, <3>1, <3>2, ExtendsPost DEF Core
  <2>8. Extends(lines', lines, Token)
    BY <2>7, ExtendsMore
  <2>9. Phases' /\ (Listens' <=> Listens)
    BY <1>1, <2>1, <2>2, <2>7, PhaseServe
  <2>10. AllGood'
    <3>1. Good(groom, lines, listed, owner, members, TRUE)
      BY <2>4, GoodSame DEF AllGood
    <3>2. Good(groom, lines', listed, owner, AddMember(members, Me, Room), TRUE)
      BY <2>2, <2>6, <3>1, RoomJoined DEF Core
    <3>3. TRUE <=> Listens'
      BY <2>4, <2>9
    <3>4. Good(groom, lines', listed, owner, AddMember(members, Me, Room), Listens')
      BY <3>2, <3>3, GoodSame
    <3>5. QED
      BY <2>1, <2>2, <3>4 DEF AllGood
  <2>11. Core'
    BY <2>1, <2>2, <2>5, <2>7 DEF Core
  <2>12. QED
    BY <2>1, <2>2, <2>5, <2>8, <2>9, <2>10, <2>11 DEF ServerStep
<1>3. CASE Ignores
  BY <1>1, <1>3, IgnoredServed
<1>4. QED
  BY <1>2, <1>3 DEF ServeJoin

LEMMA LogOutServed ==
  ASSUME UserAssumption, Core, Phases, alive, window \in {"auth", "main"}, AllGood, ServeLogOut
  PROVE  ServerStep
<1> DEFINE l == Plain("log_out")
<1>1. Serve("log_out") /\ "log_out" \notin Reply \cup {"get_rooms"}
  BY DEF ServeLogOut, Reply
<1>2. /\ asked # <<>> /\ asked' = Tail(asked) /\ asked' \in Seq(ReqType)
      /\ Head(asked) \in ReqType /\ Head(asked).op = "log_out"
      /\ alive' = alive /\ window' = window /\ listed' = listed /\ groom' = groom
      /\ offers' = offers /\ open' = open
  BY <1>1, Serving
<1>3. /\ owner' = owner /\ members' = members /\ up' = up /\ ~online' /\ lines' = Append(lines, l)
  BY DEF ServeLogOut
<1>4. l \in LineType /\ l.token = "log_out" /\ l.token \in Closing
  BY AboutFields DEF Plain, Token, Closing
<1>5. Listens
  BY <1>1, <1>2, Listening
<1> HIDE DEF l
<1>6. /\ lines' \in Seq(LineType) /\ Len(lines') = Len(lines) + 1 /\ lines'[Len(lines) + 1] = l
      /\ \A n \in 1 .. Len(lines) : lines'[n] = lines[n]
      /\ Len(lines) \in Nat
      /\ Extends(lines', lines, Token)
  BY <1>3, <1>4, AppendFacts, ExtendsSame, ExtendsPost DEF Core, Token
<1>7. /\ Len(asked) \in Nat \ {0} /\ Len(asked') = Len(asked) - 1 /\ asked[1].op = "log_out"
      /\ \A n \in 1 .. Len(asked') : asked'[n] = asked[n + 1] /\ n + 1 \in 2 .. Len(asked)
      /\ 1 \in 1 .. Len(asked)
  BY <1>2, TailFacts DEF Core
<1>8. \A n \in 1 .. Len(asked') : asked'[n].op \in Reply
  <2>1. \A k \in 1 + 1 .. Len(asked) : asked[k].op \in Reply
    BY <1>7 DEF Phases, PhaseOut
  <2>2. QED
    BY <1>7, <2>1
<1>9. Phases'
  <2>1. window' = "main" /\ online
    BY <1>2, <1>5 DEF Listens
  <2>2. \A n \in 1 .. Len(lines) : lines[n].token \notin {"sign_in", "log_out"}
    <3>1. \A n \in 1 .. Len(lines) : lines[n].token # "sign_in"
      BY <1>2, <2>1 DEF Phases, PhaseMain
    <3>2. \A n \in 1 .. Len(lines) : lines[n].token # "log_out"
      BY <2>1 DEF Phases, PhaseOut
    <3>3. QED
      BY <3>1, <3>2
  <2>3. \A n \in 1 .. Len(lines') : lines'[n].token # "sign_in"
    BY <1>4, <1>6, <2>2
  <2>4. \A n \in 1 .. Len(lines') : lines'[n].token = "log_out" => n + 1 .. Len(lines') = {}
    BY <1>6, <2>2
  <2>5. PhaseMain'
    BY <1>4, <1>6, <2>3 DEF PhaseMain
  <2>6. PhaseAuth' /\ PhaseListing' /\ PhaseOut'
    <3>1. \A n \in 1 .. Len(asked') : asked'[n].op \notin {"log_out", "get_rooms"}
      BY <1>8 DEF Reply
    <3>2. PhaseOut'
      BY <1>3, <1>8, <2>4, <3>1 DEF PhaseOut
    <3>3. QED
      BY <2>1, <3>1, <3>2 DEF PhaseAuth, PhaseListing
  <2>7. QED
    BY <2>5, <2>6 DEF Phases
<1>10. AllGood'
  <2>1. Good(groom, Append(lines, l), listed, owner, members, FALSE)
    BY <1>4, ListensOnline, NoRows, RoomClosed DEF AllGood, Core
  <2>2. FALSE <=> Listens'
    BY <1>3 DEF Listens
  <2>3. Good(groom, Append(lines, l), listed, owner, members, Listens')
    BY <2>1, <2>2, GoodSame
  <2>4. QED
    BY <1>2, <1>3, <2>3 DEF AllGood
<1>11. Core' /\ Grows(members, members')
  BY <1>2, <1>3, <1>6 DEF Core, Grows
<1>12. QED
  BY <1>2, <1>3, <1>6, <1>9, <1>10, <1>11 DEF ServerStep

\* What the client offers fits after a step of the server, too.
LEMMA OpensServed ==
  ASSUME Core, AllGood, Opens, ServerStep
  PROVE  Opens'
<1>1. /\ Extends(lines', lines, Token) /\ groom' = groom /\ offers' = offers /\ open' = open
      /\ Core' /\ AllGood'
  BY DEF ServerStep
<1>2. CASE Grows(members, members')
  <2>1. Live(groom, lines', 0) => Live(groom, lines, 0)
    BY <1>1, LiveBefore DEF Core
  <2>2. QED
    BY <1>1, <1>2, <2>1 DEF Opens, Grows
<1>3. CASE members' = {}
  <2>1. Of(groom, lines') = NoGroom
    BY <1>1, <1>3, NobodyThere DEF AllGood, Good, Standing, Agreement
  <2>2. 0 \in 0 .. Len(lines')
    BY <1>1 DEF Core
  <2>3. ~Live(groom, lines', 0)
    BY <1>1, <2>1, <2>2 DEF AllGood, Good, Lives
  <2>4. QED
    BY <1>1, <2>3 DEF Opens
<1>4. QED
  BY <1>2, <1>3 DEF ServerStep

-------------------------------------------------------------------------------
(* The invariant holds.                                                     *)

Rest ==
  /\ written \in BOOLEAN /\ up \in BOOLEAN /\ online \in BOOLEAN /\ alive \in BOOLEAN
  /\ listed \in BOOLEAN /\ open \in BOOLEAN /\ picked \in BOOLEAN /\ dialog \in BOOLEAN
  /\ hasty \in BOOLEAN
  /\ window \in {"auth", "main"} /\ offers \in SUBSET User
  /\ entry \in Typed \cup {Empty} /\ found \in Nat

Inv ==
  /\ Core /\ Rest /\ Phases
  /\ Flow(groom, lines, listed) /\ Lives(groom, lines, owner, members)
  /\ alive /\ up => Standing(groom, lines, owner, members, Listens)
  /\ Opens

LEMMA InvGood ==
  ASSUME Inv, alive, up
  PROVE  AllGood
BY DEF Inv, AllGood, Good

\* The client's room as it is, and as it will be.
LEMMA NowFits ==
  ASSUME Core, Flow(groom, lines, listed)
  PROVE  IsRoom(groom)
<1>1. Len(lines) \in Nat /\ 0 \in 0 .. Len(lines)
  BY DEF Core
<1>2. Reading(groom, lines)[0] = groom
  BY <1>1, ReadingFacts
<1>3. QED
  BY <1>1, <1>2 DEF Flow

LEMMA InvTypes ==
  ASSUME Inv PROVE TypeOK
<1>1. IsRoom(groom)
  BY NowFits DEF Inv
<1>2. groom \in {NoGroom} \cup [is : {"groom"}, owner : User, customer : User \cup {None},
                               members : SUBSET User, answered : BOOLEAN]
  BY <1>1 DEF IsRoom, GroomType
<1>3. Core /\ Rest
  BY DEF Inv
<1>4. /\ owner \in User \cup {None}
      /\ members \subseteq [id : {1}, room : {Room}, user : User, perm : Permission]
      /\ asked \in Seq([op : Token \ {"sign_in", "new_member"}, user : User \cup {None},
                        text : Typed \cup {Empty}])
      /\ lines \in Seq([token : Token, user : User \cup {None}, list : SUBSET User])
  BY <1>3 DEF Core, MemberRow, ReqType, LineType
<1>5. {written, up, online, alive, listed, open, picked, dialog, hasty} \subseteq BOOLEAN
  BY <1>3 DEF Rest
<1>6. window \in {"auth", "main"} /\ offers \subseteq User /\ entry \in Typed \cup {Empty} /\ found \in Nat
  BY <1>3 DEF Rest
<1>7. QED
  BY <1>2, <1>4, <1>5, <1>6 DEF TypeOK

LEMMA InitInv ==
  ASSUME UserAssumption, Init PROVE Inv
<1>1. /\ owner = None /\ members = {} /\ written = FALSE
      /\ up = TRUE /\ online = FALSE
      /\ asked = <<>> /\ lines = <<>>
      /\ alive = TRUE /\ window = "auth" /\ listed = FALSE
      /\ groom = NoGroom /\ offers = {} /\ open = FALSE
      /\ entry = Empty /\ found = 0
      /\ picked = FALSE /\ dialog = FALSE /\ hasty = FALSE
  BY DEF Init
<1>2. Core
  BY <1>1 DEF Core
<1>3. Rest
  BY <1>1 DEF Rest
<1>4. Phases
  <2>1. Len(<<>>) = 0
    OBVIOUS
  <2>2. QED
    BY <1>1, <2>1 DEF Phases, PhaseAuth, PhaseMain, PhaseListing, PhaseOut
<1>5. Flow(groom, lines, listed) /\ Of(groom, lines) = NoGroom
  BY <1>1, FlowEmpty
<1>6. Lives(groom, lines, owner, members)
  <2>1. Len(lines) = 0 /\ Reading(groom, lines)[Len(lines)] = NoGroom
    BY <1>1, <1>5 DEF Of
  <2>2. QED
    BY <2>1 DEF Lives, Live
<1>7. Standing(groom, lines, owner, members, Listens) /\ Opens
  BY <1>1, <1>5 DEF Standing, Listens, Opens
<1>8. QED
  BY <1>2, <1>3, <1>4, <1>5, <1>6, <1>7 DEF Inv

\* With the process of the client goes all it knows.
LEMMA EndsInv ==
  ASSUME UserAssumption, Inv, ProcessEnds PROVE Inv'
<1>1. /\ alive' = FALSE /\ asked' = <<>> /\ lines' = <<>>
      /\ window' = "auth" /\ listed' = FALSE /\ groom' = NoGroom
      /\ offers' = {} /\ open' = FALSE /\ entry' = Empty /\ found' = 0
      /\ picked' = FALSE /\ dialog' = FALSE /\ hasty' = FALSE
      /\ owner' = owner /\ members' = members /\ written' = written /\ up' = up
      /\ online' = online
  BY DEF ProcessEnds, server
<1>2. Core' /\ Rest'
  <2>1. Core'
    BY <1>1 DEF Inv, Core
  <2>2. Rest'
    BY <1>1 DEF Inv, Rest
  <2>3. QED
    BY <2>1, <2>2
<1>3. Phases'
  <2>1. Len(<<>>) = 0
    OBVIOUS
  <2>2. QED
    BY <1>1, <2>1 DEF Phases, PhaseAuth, PhaseMain, PhaseListing, PhaseOut
<1>4. Flow(groom', lines', listed') /\ Of(groom', lines') = NoGroom
  BY <1>1, FlowEmpty
<1>5. Lives(groom', lines', owner', members')
  <2>1. Len(lines') = 0 /\ Reading(groom', lines')[Len(lines')] = NoGroom
    BY <1>1, <1>4 DEF Of
  <2>2. QED
    BY <2>1 DEF Lives, Live
<1>6. Opens'
  BY <1>1 DEF Opens
<1>7. QED
  BY <1>1, <1>2, <1>3, <1>4, <1>5, <1>6 DEF Inv

\* A step of the server.
LEMMA ServedInv ==
  ASSUME Inv, alive, up, ServerStep, Rest' PROVE Inv'
<1>1. Opens'
  BY InvGood, OpensServed DEF Inv
<1>2. QED
  BY <1>1 DEF Inv, ServerStep, AllGood, Good

LEMMA RestServed ==
  ASSUME Rest, NEW op, Serve(op), written' \in BOOLEAN, up' \in BOOLEAN, online' \in BOOLEAN
  PROVE  Rest'
BY DEF Serve, Rest, screen, search

LEMMA RestOther ==
  ASSUME Rest, Other PROVE Rest'
<1>1. /\ alive' = alive /\ window' = window /\ listed' = listed /\ offers' = offers
      /\ open' = open /\ entry' = entry /\ found' = found /\ picked' = picked
      /\ dialog' = dialog /\ hasty' = hasty
  BY DEF Other, screen, search
<1>2. /\ written' \in {written, TRUE, FALSE} /\ up' = up /\ online' = online
  BY DEF Other, Joins, Makes, Writes, Deletes, Bans
<1>3. QED
  BY <1>1, <1>2 DEF Rest

\* The end of the server's process, after which a row without a room stays.
LEMMA ServerEndsInv ==
  ASSUME UserAssumption, Inv, ServerEnds PROVE Inv'
<1>1. /\ alive /\ up /\ owner' = owner /\ up' = FALSE
      /\ members' = AddMember(members, Me, Room) /\ ~IsMember(members, Me, Room)
      /\ written' = written /\ online' = online /\ asked' = asked /\ lines' = lines
      /\ alive' = alive /\ window' = window /\ listed' = listed /\ groom' = groom
  BY DEF ServerEnds, Running
<1>2. /\ offers' = offers /\ open' = open /\ entry' = entry /\ found' = found
      /\ picked' = picked /\ dialog' = dialog /\ hasty' = hasty
  BY DEF ServerEnds, screen, search
<1>3. members' \in SUBSET MemberRow /\ Grows(members, members')
  BY <1>1, RowAdded DEF Inv, Core, UserAssumption
<1>4. Core' /\ Rest'
  <2>1. Core'
    BY <1>1, <1>3 DEF Inv, Core
  <2>2. Rest'
    BY <1>1, <1>2 DEF Inv, Rest
  <2>3. QED
    BY <2>1, <2>2
<1>5. Phases'
  BY <1>1 DEF Inv, Phases, PhaseAuth, PhaseMain, PhaseListing, PhaseOut
<1>6. Flow(groom', lines', listed') /\ Lives(groom', lines', owner', members')
  BY <1>1, <1>3, LivesKeep DEF Inv
<1>7. Opens'
  BY <1>1, <1>2, <1>3 DEF Inv, Opens, Grows
<1>8. QED
  BY <1>1, <1>4, <1>5, <1>6, <1>7 DEF Inv

\* A handler of a request.
LEMMA HandleInv ==
  ASSUME UserAssumption, Inv, alive, up, Handle PROVE Inv'
<1>1. /\ Core /\ Phases /\ Rest /\ window \in {"auth", "main"} /\ AllGood
      /\ written \in BOOLEAN /\ up \in BOOLEAN /\ online \in BOOLEAN
  BY InvGood DEF Inv, Rest
<1>2. CASE ServeGetRooms
  <2>1. Rest'
    BY <1>1, <1>2, RestServed DEF ServeGetRooms, Answers, server
  <2>2. QED
    BY <1>1, <1>2, <2>1, RoomsServed, ServedInv
<1>3. CASE ServeGetMembers
  <2>1. Rest'
    BY <1>1, <1>3, RestServed DEF ServeGetMembers, Answers, server
  <2>2. QED
    BY <1>1, <1>3, <2>1, GetMembersServed, ServedInv
<1>4. CASE ServeNewMessages
  <2>1. Rest'
    BY <1>1, <1>4, RestServed DEF ServeNewMessages, Answers, Ignores, server
  <2>2. QED
    BY <1>1, <1>4, <2>1, NewMessagesServed, ServedInv
<1>5. CASE ServeSearch
  <2>1. Rest'
    BY <1>1, <1>5, RestServed DEF ServeSearch, Answers, server
  <2>2. QED
    BY <1>1, <1>5, <2>1, SearchServed, ServedInv
<1>6. CASE ServeJoin
  <2>1. Rest'
    BY <1>1, <1>6, RestServed DEF ServeJoin, Joins, Ignores, server
  <2>2. QED
    BY <1>1, <1>6, <2>1, JoinServed, ServedInv
<1>7. CASE ServerEnds
  BY <1>7, ServerEndsInv
<1>8. CASE ServeNewRoom
  <2>1. Rest'
    BY <1>1, <1>8, RestServed DEF ServeNewRoom, Makes, Ignores, server
  <2>2. QED
    BY <1>1, <1>8, <2>1, NewRoomServed, ServedInv
<1>9. CASE ServeBan
  <2>1. Rest'
    BY <1>1, <1>9, RestServed DEF ServeBan, Bans
  <2>2. QED
    BY <1>1, <1>9, <2>1, BanServed, ServedInv
<1>10. CASE ServeDelRoom
  <2>1. Rest'
    BY <1>1, <1>10, RestServed DEF ServeDelRoom, Deletes, Ignores, server
  <2>2. QED
    BY <1>1, <1>10, <2>1, DelRoomServed, ServedInv
<1>11. CASE ServeMessage
  <2>1. Rest'
    BY <1>1, <1>11, RestServed DEF ServeMessage, Writes, Ignores, server
  <2>2. QED
    BY <1>1, <1>11, <2>1, MessageServed, ServedInv
<1>12. CASE ServeLogOut
  <2>1. Rest'
    BY <1>1, <1>12, RestServed DEF ServeLogOut
  <2>2. QED
    BY <1>1, <1>12, <2>1, LogOutServed, ServedInv
<1>13. QED
  BY <1>2, <1>3, <1>4, <1>5, <1>6, <1>7, <1>8, <1>9, <1>10, <1>11, <1>12 DEF Handle

LEMMA OtherInv ==
  ASSUME UserAssumption, Inv, alive, up, Other PROVE Inv'
<1>1. /\ Core /\ Phases /\ Rest /\ window \in {"auth", "main"} /\ AllGood
  BY InvGood DEF Inv, Rest
<1>2. Rest'
  BY <1>1, RestOther
<1>3. QED
  BY <1>1, <1>2, OthersServed, ServedInv

\* The client reads a line: its room is the next one on the way.
LEMMA ReceiveInv ==
  ASSUME UserAssumption, Inv, Receive PROVE Inv'
<1> DEFINE l == Head(lines)
<1>1. /\ alive /\ up /\ lines # <<>> /\ lines' = Tail(lines) /\ groom' = After(groom, l)
      /\ owner' = owner /\ members' = members /\ written' = written /\ up' = up
      /\ online' = online /\ alive' = alive /\ offers' = offers
      /\ entry' = entry /\ dialog' = dialog
  BY DEF Receive, Running, Take, server
<1>2. /\ window' = CASE l.token = "sign_in" -> "main" [] l.token = "log_out" -> "auth"
                     [] OTHER -> window
      /\ listed' = (l.token = "get_rooms" \/ (listed /\ l.token # "log_out"))
      /\ open' = (open /\ groom' # NoGroom /\ ~(l.token = "log_out" /\ picked))
      /\ IF l.token = "log_out" THEN ClearGlobalSearch
         ELSE found' = found + (IF l.token = "search_room" /\ l.list # {} THEN 1 ELSE 0)
              /\ UNCHANGED <<picked, hasty>>
  BY DEF Receive
<1>3. Core /\ Rest /\ Phases /\ Flow(groom, lines, listed) /\ window \in {"auth", "main"} /\ AllGood
  BY <1>1, InvGood DEF Inv, Rest
<1>4. Phases' /\ asked' \in Seq(ReqType) /\ (Listens' <=> Listens)
  BY <1>1, <1>3, PhaseTake
<1>5. l \in LineType /\ lines' \in Seq(LineType) /\ l = lines[1] /\ Len(lines) \in Nat \ {0}
      /\ Len(lines') = Len(lines) - 1 /\ 1 \in 1 .. Len(lines)
  BY <1>1, <1>3, TailFacts DEF Core
<1>6. Core'
  BY <1>1, <1>3, <1>4, <1>5 DEF Core
<1> HIDE DEF l
<1>7. Rest'
  <2>1. window' \in {"auth", "main"}
    BY <1>2, <1>3
  <2>2. listed' \in BOOLEAN
    BY <1>2, <1>3, Zenon DEF Rest
  <2>3. open' \in BOOLEAN
    BY <1>2, <1>3, Zenon DEF Rest
  <2>4. found' \in Nat /\ picked' \in BOOLEAN /\ hasty' \in BOOLEAN
    <3>1. CASE l.token = "log_out"
      <4>1. found' = 0 /\ picked' = FALSE
        BY <1>2, <3>1 DEF ClearGlobalSearch
      <4>2. hasty' \in BOOLEAN
        <5>1. hasty' = (Requested("search_room") \/ Coming({"search_room"}))
          BY <1>2, <3>1 DEF ClearGlobalSearch
        <5>2. QED
          BY <5>1, Zenon
      <4>3. QED
        BY <4>1, <4>2
    <3>2. CASE l.token # "log_out"
      BY <1>2, <1>3, <3>2 DEF Rest
    <3>3. QED
      BY <3>1, <3>2
  <2>5. QED
    BY <1>1, <1>3, <2>1, <2>2, <2>3, <2>4 DEF Rest
<1>8. AllGood'
  <2>1. listed' => listed \/ l.token = "get_rooms"
    BY <1>2
  <2>2. Good(After(groom, l), Tail(lines), listed', owner, members, Listens)
    BY <1>1, <1>3, <2>1, ListensOnline, GoodTaken DEF AllGood, Core, l
  <2>3. Good(After(groom, l), Tail(lines), listed', owner, members, Listens')
    BY <1>4, <2>2, GoodSame
  <2>4. QED
    BY <1>1, <2>3 DEF AllGood
<1>9. Opens'
  <2>1. SUFFICES ASSUME open'
                 PROVE  /\ groom' # NoGroom /\ groom'.customer = Me /\ Me \notin offers
                        /\ Live(groom', lines', 0) => \A t \in offers : IsMember(members, t, Room)
    BY <1>1 DEF Opens
  <2>2. open /\ groom' # NoGroom
    BY <1>2, <2>1
  <2>3. /\ groom # NoGroom /\ groom.customer = Me /\ Me \notin offers
        /\ Live(groom, lines, 0) => \A t \in offers : IsMember(members, t, Room)
    BY <2>2 DEF Inv, Opens
  <2>4. Reading(groom, lines)[0] = groom
    BY <1>5, ReadingFacts
  <2>5. Finds(l, groom, Late(lines, listed, 0))
    <3>1. Finds(lines[1], Reading(groom, lines)[1 - 1], Late(lines, listed, 1 - 1))
      BY <1>3, <1>5 DEF Flow
    <3>2. QED
      BY <1>5, <2>4, <3>1
  <2>6. l.token \notin Closing /\ ~(l.token \in Listing /\ l.user # None)
    BY <1>1, <2>2, <2>3, <2>5, ClosedRoom DEF Finds
  <2>7. groom'.customer = Me
    <3>1. groom.customer # None
      BY <2>3 DEF UserAssumption
    <3>2. After(groom, l).customer = groom.customer
      BY <1>3, <1>5, <2>3, <2>5, <2>6, <3>1, NowFits, StillARoom DEF Finds
    <3>3. QED
      BY <1>1, <2>3, <3>2
  <2>8. Live(groom', lines', 0) => Live(groom, lines, 0)
    <3>1. SUFFICES ASSUME Live(groom', lines', 0) PROVE Live(groom, lines, 0)
      OBVIOUS
    <3>2. 0 \in 0 .. Len(lines) - 1
      BY <1>5
    <3>3. Live(groom, lines, 0 + 1)
      BY <1>1, <1>3, <3>1, <3>2, LiveTaken DEF Core, l
    <3>4. \A k \in 0 + 1 .. Len(lines) : k = 1 \/ k \in (0 + 1) + 1 .. Len(lines)
      BY <1>5
    <3>5. QED
      BY <1>5, <2>3, <2>4, <2>6, <3>3, <3>4 DEF Live
  <2>9. QED
    BY <2>2, <2>3, <2>7, <2>8
<1>10. QED
  BY <1>4, <1>6, <1>7, <1>8, <1>9 DEF Inv, AllGood, Good

\* What only the screen sees, with settings of the room that fit.
LEMMA QuietInv ==
  ASSUME Inv, UNCHANGED <<server, asked, lines, alive, window, listed, groom>>, Rest', Opens'
  PROVE  Inv'
<1>1. /\ owner' = owner /\ members' = members /\ up' = up /\ online' = online
      /\ asked' = asked /\ lines' = lines /\ alive' = alive /\ window' = window
      /\ listed' = listed /\ groom' = groom
  BY DEF server
<1>2. Core' /\ Phases' /\ (Listens' <=> Listens)
  <2>1. Core'
    BY <1>1 DEF Inv, Core
  <2>2. Phases'
    BY <1>1 DEF Inv, Phases, PhaseAuth, PhaseMain, PhaseListing, PhaseOut
  <2>3. Listens' <=> Listens
    BY <1>1 DEF Listens
  <2>4. QED
    BY <2>1, <2>2, <2>3
<1>3. alive' /\ up' => Standing(groom', lines', owner', members', Listens')
  BY <1>1, <1>2 DEF Inv, Standing
<1>4. QED
  BY <1>1, <1>2, <1>3 DEF Inv

LEMMA SelectInv ==
  ASSUME UserAssumption, Inv, Select PROVE Inv'
<1>1. /\ groom # NoGroom /\ offers' = groom.members \ {groom.customer}
      /\ open' \in {open, groom.customer = Me}
      /\ UNCHANGED <<server, asked, lines, alive, window, listed, groom>>
  BY DEF Select, Offered
<1>2. /\ written' = written /\ up' = up /\ online' = online /\ alive' = alive
      /\ window' = window /\ listed' = listed /\ entry' = entry /\ found' = found
      /\ picked' = picked /\ dialog' = dialog /\ hasty' = hasty
  BY DEF Select, server, search
<1>3. groom \in GroomType
  BY <1>1, NowFits DEF Inv, IsRoom
<1>4. Rest'
  <2>1. offers' \in SUBSET User
    BY <1>1, <1>3 DEF GroomType
  <2>2. open' \in BOOLEAN
    BY <1>1 DEF Inv, Rest
  <2>3. QED
    BY <1>2, <2>1, <2>2 DEF Inv, Rest
<1>5. Opens'
  <2>1. lines' = lines /\ members' = members /\ groom' = groom
    BY <1>1 DEF server
  <2>2. open' => groom.customer = Me
    BY <1>1 DEF Inv, Opens
  <2>3. Live(groom, lines, 0) => \A t \in groom.members : IsMember(members, t, Room)
    <3>1. 0 \in 0 .. Len(lines) /\ Reading(groom, lines)[0] = groom
      BY ReadingFacts DEF Inv, Core
    <3>2. QED
      BY <3>1 DEF Inv, Lives, Belongs
  <2>4. QED
    BY <1>1, <2>1, <2>2, <2>3 DEF Opens
<1>6. QED
  BY <1>1, <1>4, <1>5, QuietInv

\* A request is written; the settings of the room stay, or are hidden.
LEMMA AskInv ==
  ASSUME Inv, NEW q \in ReqType, q.op # "get_rooms", Ask(q), Rest', open' => open
  PROVE  Inv'
<1>1. /\ alive' = alive /\ up' = up /\ alive
      /\ lines' = lines /\ groom' = groom /\ listed' = listed /\ owner' = owner
      /\ members' = members /\ offers' = offers
  BY DEF Ask, server, Running
<1>2. Phases' /\ asked' \in Seq(ReqType) /\ (Listens' <=> Listens)
  BY <1>1, PhaseAsk DEF Inv
<1>3. Core'
  BY <1>1, <1>2 DEF Inv, Core
<1>4. alive' /\ up' => Standing(groom', lines', owner', members', Listens')
  BY <1>1, <1>2 DEF Inv, Standing
<1>5. Opens'
  BY <1>1 DEF Inv, Opens
<1>6. QED
  BY <1>1, <1>2, <1>3, <1>4, <1>5 DEF Inv

LEMMA ReqFields ==
  ASSUME NEW op \in Token \ {"sign_in", "new_member"}, NEW u \in User \cup {None}
  PROVE  Req(op, u) \in ReqType /\ Req(op, u).op = op
BY DEF Req, ReqType

\* The settings and the search after a step of the user's; picks stay as they are.
LEMMA ClearedRest ==
  ASSUME ClearGlobalSearch PROVE found' = 0 /\ picked' = FALSE /\ hasty' \in BOOLEAN
<1>1. hasty' = (Requested("search_room") \/ Coming({"search_room"}))
  BY DEF ClearGlobalSearch
<1>2. hasty' \in BOOLEAN
  BY <1>1, Zenon
<1>3. QED
  BY <1>2 DEF ClearGlobalSearch

LEMMA AskedRest ==
  ASSUME Rest, NEW q, Ask(q), open' \in BOOLEAN, entry' \in Typed \cup {Empty}, found' \in Nat,
         picked' \in BOOLEAN, dialog' \in BOOLEAN, hasty' \in BOOLEAN
  PROVE  Rest'
BY DEF Ask, Rest, server

\* What the user asks for, but for searches.
LEMMA PlainAskInv ==
  ASSUME Inv, NEW q \in ReqType, q.op # "get_rooms", Ask(q), UNCHANGED <<open, search>>
  PROVE  Inv'
<1>1. /\ open' = open /\ entry' = entry /\ found' = found /\ picked' = picked
      /\ dialog' = dialog /\ hasty' = hasty
  BY DEF search
<1>2. Rest'
  BY <1>1, AskedRest DEF Inv, Rest
<1>3. QED
  BY <1>1, <1>2, AskInv

LEMMA AsksInv ==
  ASSUME UserAssumption, Inv, Asks PROVE Inv'
<1>1. CASE AskNewRoom
  <2>1. Ask(Req("new_room", None)) /\ UNCHANGED <<open, search>>
    BY <1>1 DEF AskNewRoom
  <2>2. Req("new_room", None) \in ReqType /\ Req("new_room", None).op = "new_room"
    BY ReqFields DEF Token, Listing
  <2>3. QED
    BY <2>1, <2>2, PlainAskInv
<1>2. CASE AskAsCustomer
  <2>1. UNCHANGED <<open, search>>
    BY <1>2 DEF AskAsCustomer
  <2>2. CASE Ask(Req("del_room", None))
    <3>1. Req("del_room", None) \in ReqType /\ Req("del_room", None).op = "del_room"
      BY ReqFields DEF Token, Listing
    <3>2. QED
      BY <2>1, <2>2, <3>1, PlainAskInv
  <2>3. CASE \E t \in offers : Ask(Req("ban_member", t))
    <3>1. PICK t \in offers : Ask(Req("ban_member", t))
      BY <2>3
    <3>2. t \in User \cup {None}
      BY DEF Inv, Rest
    <3>3. Req("ban_member", t) \in ReqType /\ Req("ban_member", t).op = "ban_member"
      BY <3>2, ReqFields DEF Token, Listing
    <3>4. QED
      BY <2>1, <3>1, <3>3, PlainAskInv
  <2>4. QED
    BY <1>2, <2>2, <2>3 DEF AskAsCustomer
<1>3. CASE AskMessage
  <2>1. Ask(Req("send_message", None)) /\ UNCHANGED <<open, search>>
    BY <1>3 DEF AskMessage
  <2>2. Req("send_message", None) \in ReqType /\ Req("send_message", None).op = "send_message"
    BY ReqFields DEF Token, Listing
  <2>3. QED
    BY <2>1, <2>2, PlainAskInv
<1>4. CASE AskLogOut
  <2>1. Ask(Req("log_out", None)) /\ UNCHANGED <<open, search>>
    BY <1>4 DEF AskLogOut
  <2>2. Req("log_out", None) \in ReqType /\ Req("log_out", None).op = "log_out"
    BY ReqFields DEF Token, Listing
  <2>3. QED
    BY <2>1, <2>2, PlainAskInv
<1>5. CASE \E text \in Typed : SearchRoom(text)
  <2>1. PICK text \in Typed : SearchRoom(text)
    BY <1>5
  <2>2. /\ Ask(SearchReq(text)) /\ entry' = text /\ ClearGlobalSearch
        /\ open' = (open /\ ~picked) /\ dialog' = dialog
    BY <2>1 DEF SearchRoom
  <2>3. SearchReq(text) \in ReqType /\ SearchReq(text).op = "search_room"
    BY DEF SearchReq, ReqType, Token, Listing
  <2>4. open' \in BOOLEAN /\ (open' => open)
    BY <2>2, Zenon
  <2>5. Rest'
    BY <2>2, <2>4, ClearedRest, AskedRest DEF Inv, Rest
  <2>6. QED
    BY <2>2, <2>3, <2>4, <2>5, AskInv
<1>6. CASE AskJoin
  <2>1. /\ Ask(Req("join_room", None)) /\ dialog' = FALSE /\ entry' = Empty
        /\ ClearGlobalSearch /\ open' = open
    BY <1>6 DEF AskJoin
  <2>2. Req("join_room", None) \in ReqType /\ Req("join_room", None).op = "join_room"
    BY ReqFields DEF Token, Listing
  <2>3. Rest'
    <3>1. found' = 0 /\ picked' = FALSE /\ hasty' \in BOOLEAN
      BY <2>1, ClearedRest
    <3>2. Rest /\ open' \in BOOLEAN
      BY <2>1 DEF Inv, Rest
    <3>3. QED
      BY <2>1, <3>1, <3>2, AskedRest
  <2>4. QED
    BY <2>1, <2>2, <2>3, AskInv
<1>7. CASE StopSearch \/ PickFound \/ CancelJoin
  <2>1. /\ UNCHANGED <<server, asked, lines, alive, window, listed, groom>> /\ offers' = offers
    BY <1>7 DEF StopSearch, PickFound, CancelJoin
  <2>2. open' \in BOOLEAN /\ (open' => open)
    <3>1. CASE StopSearch
      <4>1. open' = (open /\ ~picked)
        BY <3>1 DEF StopSearch
      <4>2. QED
        BY <4>1, Zenon
    <3>2. CASE PickFound \/ CancelJoin
      BY <3>2 DEF PickFound, CancelJoin, Inv, Rest
    <3>3. QED
      BY <1>7, <3>1, <3>2
  <2>3. /\ entry' \in Typed \cup {Empty} /\ found' \in Nat /\ picked' \in BOOLEAN
        /\ dialog' \in BOOLEAN /\ hasty' \in BOOLEAN
    <3>1. CASE StopSearch
      BY <3>1, ClearedRest DEF StopSearch, Inv, Rest
    <3>2. CASE PickFound \/ CancelJoin
      BY <3>2 DEF PickFound, CancelJoin, Inv, Rest
    <3>3. QED
      BY <1>7, <3>1, <3>2
  <2>4. Rest'
    BY <2>1, <2>2, <2>3 DEF Inv, Rest, server
  <2>5. Opens'
    BY <2>1, <2>2 DEF Inv, Opens, server
  <2>6. QED
    BY <2>1, <2>4, <2>5, QuietInv
<1>8. CASE JoinNothing
  BY <1>8, EndsInv DEF JoinNothing
<1>9. QED
  BY <1>1, <1>2, <1>3, <1>4, <1>5, <1>6, <1>7, <1>8 DEF Asks

LEMMA SignInInv ==
  ASSUME UserAssumption, Inv, SignIn PROVE Inv'
<1>1. /\ alive /\ up /\ online' = TRUE /\ asked = <<>> /\ lines = <<>>
      /\ lines' = <<Plain("sign_in")>> /\ owner' = owner /\ members' = members
      /\ written' = written /\ up' = up /\ asked' = asked /\ alive' = alive
      /\ window' = window /\ listed' = listed /\ groom' = groom /\ offers' = offers
      /\ open' = open
  BY DEF SignIn, Running, screen
<1>2. /\ entry' = entry /\ found' = found /\ picked' = picked /\ dialog' = dialog
      /\ hasty' = hasty
  BY DEF SignIn, screen, search
<1> DEFINE l == Plain("sign_in")
<1>3. l \in LineType /\ l.token = "sign_in"
  BY AboutFields DEF Plain, Token
<1> HIDE DEF l
<1>4. lines' = Append(lines, l) /\ lines' \in Seq(LineType)
  BY <1>1, <1>3 DEF l
<1>5. Phases' /\ ~Listens' /\ ~Listens
  BY <1>1, PhaseSignIn DEF Inv
<1>6. Good(groom, lines', listed, owner, members, Listens')
  <2>1. Good(groom, lines', listed, owner, members, Listens)
    BY <1>1, <1>3, <1>4, InvGood, ListensOnline, PlainAnswer DEF AllGood, Inv, Core
  <2>2. QED
    BY <1>5, <2>1, GoodSame
<1>7. Core' /\ Rest'
  <2>1. Core'
    BY <1>1, <1>4 DEF Inv, Core
  <2>2. Rest'
    BY <1>1, <1>2 DEF Inv, Rest
  <2>3. QED
    BY <2>1, <2>2
<1>8. Opens'
  <2>1. Extends(lines', lines, Token) /\ lines \in Seq(LineType)
    BY <1>3, <1>4, ExtendsSame, ExtendsPost DEF Inv, Core, Token
  <2>2. Live(groom, lines', 0) => Live(groom, lines, 0)
    BY <1>4, <2>1, LiveBefore
  <2>3. QED
    BY <1>1, <2>2 DEF Inv, Opens
<1>9. QED
  BY <1>1, <1>5, <1>6, <1>7, <1>8 DEF Inv, Good

LEMMA StutterInv ==
  ASSUME Inv, UNCHANGED vars PROVE Inv'
<1>1. UNCHANGED <<server, asked, lines, alive, window, listed, groom>>
  BY DEF vars
<1>2. /\ offers' = offers /\ open' = open /\ entry' = entry /\ found' = found /\ picked' = picked
      /\ dialog' = dialog /\ hasty' = hasty
  BY DEF vars, screen, search
<1>3. Rest' /\ Opens'
  <2>1. Rest'
    BY <1>1, <1>2 DEF Inv, Rest, server
  <2>2. Opens'
    BY <1>1, <1>2 DEF Inv, Opens, server
  <2>3. QED
    BY <2>1, <2>2
<1>4. QED
  BY <1>1, <1>3, QuietInv

\* Every step of the client, its user, the handlers and the others keeps the invariant.
THEOREM Invariance == Spec => []Inv
<1> USE UserAssumption
<1>1. Init => Inv
  BY InitInv
<1>2. Inv /\ [Next]_vars => Inv'
  <2> SUFFICES ASSUME Inv, [Next]_vars PROVE Inv'
    OBVIOUS
  <2>1. CASE Receive
    BY <2>1, ReceiveInv
  <2>2. CASE Crash
    BY <2>2, EndsInv DEF Crash
  <2>3. CASE Select
    BY <2>3, SelectInv
  <2>4. CASE Asks
    BY <2>4, AsksInv
  <2>5. CASE Handle
    <3>1. alive /\ up
      BY <2>5 DEF Handle, ServeGetRooms, ServeGetMembers, ServeNewMessages, ServeSearch, ServeJoin,
                  ServerEnds, ServeNewRoom, ServeBan, ServeDelRoom, ServeMessage, ServeLogOut,
                  Serve, Running
    <3>2. QED
      BY <2>5, <3>1, HandleInv
  <2>6. CASE SignIn
    BY <2>6, SignInInv
  <2>7. CASE Other
    BY <2>7, OtherInv DEF Other, Running
  <2>8. CASE UNCHANGED vars
    BY <2>8, StutterInv
  <2>9. QED
    BY <2>1, <2>2, <2>3, <2>4, <2>5, <2>6, <2>7, <2>8 DEF Next
<1>3. QED
  BY <1>1, <1>2, PTL DEF Spec

\* MembersAgree (the handlers of join_room, ban_member, get_members and the messages, and
\* the client's hash table of members): a client that has read what is on its way has
\* the room exactly if its user is a member, with exactly the members that a broadcast
\* goes to.
THEOREM TablesAgree == Spec => []MembersAgree
<1>1. Inv => MembersAgree
  <2> SUFFICES ASSUME Inv, alive, up, online, ~Coming({"sign_in"}), ~Requested("get_rooms")
               PROVE  /\ (Read # NoGroom) <=> (Me \in Members(members))
                      /\ Read # NoGroom /\ Read.answered => Read.members = Members(members)
    BY DEF MembersAgree
  <2>1. window = "main"
    <3>1. CASE window = "auth"
      <4>1. lines # <<>> /\ lines[1].token = "sign_in" /\ 1 \in DOMAIN lines
        BY <3>1 DEF Inv, Phases, PhaseAuth, Core
      <4>2. QED
        BY <4>1 DEF Coming
    <3>2. QED
      BY <3>1 DEF Inv, Rest
  <2>2. Listens
    BY <2>1 DEF Listens, Requested, Inv, Core
  <2>3. Agreement(Of(groom, lines), members)
    BY <2>2 DEF Inv, Standing
  <2>4. QED
    BY <2>3 DEF Agreement, Read, Of
<1>2. QED
  BY <1>1, Invariance, PTL

\* LinesFindTheirRoom (create_gmsg, ban_member and the other handlers of lines that look up
\* a room and its members): the author of a message is known to who got the members,
\* and no ban of another and no message comes for a room that is not listed.
THEOREM LinesFind == Spec => []LinesFindTheirRoom
<1>1. Inv => LinesFindTheirRoom
  <2> SUFFICES ASSUME Inv, lines # <<>> PROVE SpeakersAreKnown /\ BroadcastsAreListed
    BY DEF LinesFindTheirRoom, SpeakersAreKnown, BroadcastsAreListed
  <2>1. 1 \in 1 .. Len(lines) /\ Head(lines) = lines[1] /\ Reading(groom, lines)[0] = groom
    BY ReadingFacts DEF Inv, Core
  <2>2. Finds(lines[1], Reading(groom, lines)[1 - 1], Late(lines, listed, 1 - 1))
    BY <2>1 DEF Inv, Flow
  <2>3. listed => Late(lines, listed, 0)
    BY DEF Late
  <2>4. QED
    BY <2>1, <2>2, <2>3 DEF SpeakersAreKnown, BroadcastsAreListed, Finds
<1>2. QED
  BY <1>1, Invariance, PTL

-------------------------------------------------------------------------------
(* Searching, for every text.                                               *)

\* Where the pattern, from its n-th symbol on, finds all that is left of the text.
Places(from, pattern, text, n) ==
  IF n > Len(pattern) THEN {Len(text) + 1}
  ELSE LET c == pattern[n] IN
       CASE c = "%" -> {k \in 1 .. Len(text) + 1 : \E j \in k .. Len(text) + 1 : j \in from[n + 1]}
         [] c = "_" -> {k \in 1 .. Len(text) : k + 1 \in from[n + 1]}
         [] c = "\\" -> {k \in 1 .. Len(text) : /\ n < Len(pattern) /\ Same(pattern[n + 1], text[k])
                                                /\ k + 1 \in from[n + 2]}
         [] OTHER -> {k \in 1 .. Len(text) : Same(c, text[k]) /\ k + 1 \in from[n + 1]}

\* The table of these, from the N-th row on.
Tabulates(from, pattern, text, N) ==
  from = [n \in N .. Len(pattern) + 2 |-> Places(from, pattern, text, n)]

LEMMA PlacesLocal ==
  ASSUME NEW one, NEW other, NEW pattern, NEW text, NEW n,
         n > Len(pattern) \/ (one[n + 1] = other[n + 1] /\ one[n + 2] = other[n + 2])
  PROVE  Places(one, pattern, text, n) = Places(other, pattern, text, n)
<1>1. CASE n > Len(pattern)
  BY <1>1 DEF Places
<1>2. CASE one[n + 1] = other[n + 1] /\ one[n + 2] = other[n + 2]
  BY <1>2 DEF Places
<1>3. QED
  BY <1>1, <1>2

LEMMA TableExists ==
  ASSUME NEW pattern, NEW text, Len(pattern) \in Nat
  PROVE  \E from : Tabulates(from, pattern, text, 1)
<1> DEFINE P == Len(pattern)
           Without == {M \in 0 .. P + 1 : ~ \E from : Tabulates(from, pattern, text, P + 2 - M)}
<1>1. SUFFICES ASSUME Without # {} PROVE FALSE
  <2>1. P + 1 \in 0 .. P + 1 /\ P + 2 - (P + 1) = 1
    OBVIOUS
  <2>2. QED
    BY <2>1
<1>2. PICK M \in Without : \A K \in Without : M <= K
  <2>1. Without \subseteq Nat
    OBVIOUS
  <2> HIDE DEF Without
  <2>2. QED
    BY <1>1, <2>1, LeastExists
<1>3. M \in 0 .. P + 1 /\ ~ \E from : Tabulates(from, pattern, text, P + 2 - M)
  BY <1>2
<1>4. M # 0
  <2> DEFINE last == [n \in P + 2 .. P + 2 |-> {Len(text) + 1}]
  <2>1. ASSUME NEW n \in P + 2 .. P + 2
        PROVE  Places(last, pattern, text, n) = {Len(text) + 1}
    <3>1. n > Len(pattern)
      OBVIOUS
    <3>2. QED
      BY <3>1 DEF Places
  <2>2. Tabulates(last, pattern, text, P + 2)
    BY <2>1 DEF Tabulates
  <2>3. QED
    BY <1>3, <2>2
<1>5. PICK old : Tabulates(old, pattern, text, P + 2 - (M - 1))
  <2>1. M - 1 \in 0 .. P + 1 /\ ~(M <= M - 1)
    BY <1>3, <1>4
  <2>2. QED
    BY <1>2, <2>1
<1> DEFINE N == P + 2 - M
           new == [n \in N .. P + 2 |-> IF n = N THEN Places(old, pattern, text, N) ELSE old[n]]
<1>6. N \in 1 .. P + 1 /\ P + 2 - (M - 1) = N + 1
  BY <1>3, <1>4
<1>7. Tabulates(new, pattern, text, N)
  <2>0. old = [n \in N + 1 .. P + 2 |-> Places(old, pattern, text, n)]
    BY <1>5, <1>6 DEF Tabulates
  <2>1. ASSUME NEW n \in N + 1 .. P + 2
        PROVE  new[n] = old[n] /\ old[n] = Places(old, pattern, text, n)
    <3>1. n # N /\ n \in N .. P + 2
      BY <1>6
    <3> HIDE DEF N
    <3>2. new[n] = old[n]
      BY <3>1
    <3>3. QED
      BY <2>0, <3>2
  <2>2. new[N] = Places(old, pattern, text, N)
    BY <1>6
  <2>3. new = [n \in N .. P + 2 |-> new[n]]
    OBVIOUS
  <2> HIDE DEF new, N
  <2>4. ASSUME NEW n \in N .. P + 2
        PROVE  Places(new, pattern, text, n) = Places(old, pattern, text, n)
    <3>1. n > P \/ (n + 1 \in N + 1 .. P + 2 /\ n + 2 \in N + 1 .. P + 2)
      BY <1>6
    <3>2. n > P \/ (new[n + 1] = old[n + 1] /\ new[n + 2] = old[n + 2])
      BY <2>1, <3>1
    <3>3. QED
      BY <3>2, PlacesLocal
  <2>5. \A n \in N .. P + 2 : new[n] = Places(new, pattern, text, n)
    BY <1>6, <2>1, <2>2, <2>4
  <2>6. QED
    BY <2>3, <2>5 DEF Tabulates
<1>8. QED
  BY <1>3, <1>7

\* What LIKE computes.
LEMMA LikeTable ==
  ASSUME NEW pattern, NEW text, Len(pattern) \in Nat
  PROVE  \E from :
           /\ Like(pattern, text) <=> 1 \in from[1]
           /\ \A n \in 1 .. Len(pattern) + 2 : from[n] = Places(from, pattern, text, n)
<1> DEFINE from == CHOOSE from : Tabulates(from, pattern, text, 1)
<1>1. Tabulates(from, pattern, text, 1)
  BY TableExists
<1>2. Like(pattern, text) <=> 1 \in from[1]
  BY DEF Like, Tabulates, Places
<1> HIDE DEF from
<1>3. QED
  BY <1>1, <1>2 DEF Tabulates

\* The i-th symbol of text is written in w from its at[i - 1]-th symbol on.
WrittenAt(w, at, text, i) ==
  /\ at[i] = at[i - 1] + Len(Escaped(text[i])) /\ at[i] <= Len(w)
  /\ \A j \in 1 .. Len(Escaped(text[i])) : w[at[i - 1] + j] = Escaped(text[i])[j]

\* w is text with its escapes, its symbols written where at says.
Spells(w, at, text) ==
  /\ at[0] = 0 /\ at[Len(text)] = Len(w)
  /\ \A n \in 0 .. Len(text) : at[n] \in Nat
  /\ \A i \in 1 .. Len(text) : WrittenAt(w, at, text, i)

Step(done, text, n) == IF n = 0 THEN <<>> ELSE done[n - 1] \o Escaped(text[n])

WritesUpTo(done, text, N) == done = [n \in 0 .. N |-> Step(done, text, n)]

LEMMA EscapedFacts ==
  ASSUME NEW S, NEW c \in S
  PROVE  /\ Escaped(c) \in Seq(S \cup {"\\"})
         /\ c \in Wild => Len(Escaped(c)) = 2 /\ Escaped(c)[1] = "\\" /\ Escaped(c)[2] = c
         /\ c \notin Wild => Len(Escaped(c)) = 1 /\ Escaped(c)[1] = c
<1>1. CASE c \in Wild
  <2>1. Escaped(c) = <<"\\", c>>
    BY <1>1 DEF Escaped
  <2>2. <<"\\", c>> \in Seq(S \cup {"\\"})
    OBVIOUS
  <2>3. QED
    BY <1>1, <2>1, <2>2
<1>2. CASE c \notin Wild
  <2>1. Escaped(c) = <<c>>
    BY <1>2 DEF Escaped
  <2>2. <<c>> \in Seq(S \cup {"\\"})
    OBVIOUS
  <2>3. QED
    BY <1>2, <2>1, <2>2
<1>3. QED
  BY <1>1, <1>2

LEMMA WritingExists ==
  ASSUME NEW text, NEW N \in Nat
  PROVE  \E done : WritesUpTo(done, text, N)
<1> DEFINE Without == {M \in Nat : ~ \E done : WritesUpTo(done, text, M)}
<1>1. SUFFICES ASSUME Without # {} PROVE FALSE
  OBVIOUS
<1>2. PICK M \in Without : \A K \in Without : M <= K
  BY <1>1, LeastExists
<1>3. M # 0
  <2> DEFINE done == [n \in 0 .. 0 |-> <<>>]
  <2>1. WritesUpTo(done, text, 0)
    BY DEF WritesUpTo, Step
  <2>2. QED
    BY <1>2, <2>1
<1>4. M - 1 \in Nat /\ M - 1 \notin Without
  <2>1. Without \subseteq Nat
    OBVIOUS
  <2> HIDE DEF Without
  <2>2. QED
    BY <1>2, <1>3, <2>1
<1>5. PICK old : WritesUpTo(old, text, M - 1)
  BY <1>4
<1> DEFINE new == [n \in 0 .. M |-> IF n = M THEN Step(old, text, M) ELSE old[n]]
<1>6. WritesUpTo(new, text, M)
  <2>1. \A n \in 0 .. M - 1 : new[n] = old[n]
    BY <1>4
  <2>2. \A n \in 0 .. M - 1 : old[n] = Step(old, text, n)
    BY <1>5 DEF WritesUpTo
  <2>3. new[M] = Step(old, text, M)
    BY <1>4
  <2>4. new = [n \in 0 .. M |-> new[n]]
    OBVIOUS
  <2> HIDE DEF new
  <2>5. ASSUME NEW n \in 0 .. M
        PROVE  Step(new, text, n) = Step(old, text, n)
    <3>1. n = 0 \/ n - 1 \in 0 .. M - 1
      BY <1>4
    <3>2. n = 0 \/ new[n - 1] = old[n - 1]
      BY <2>1, <3>1
    <3>3. QED
      BY <3>2 DEF Step
  <2>6. \A n \in 0 .. M : n = M \/ n \in 0 .. M - 1
    BY <1>4
  <2>7. \A n \in 0 .. M : new[n] = Step(new, text, n)
    BY <2>1, <2>2, <2>3, <2>5, <2>6
  <2>8. QED
    BY <2>4, <2>7 DEF WritesUpTo
<1>7. QED
  BY <1>2, <1>6

LEMMA WritingStep ==
  ASSUME NEW S, NEW c \in S, NEW before \in Seq(S \cup {"\\"})
  PROVE  LET after == before \o Escaped(c) IN
         /\ after \in Seq(S \cup {"\\"})
         /\ Len(after) = Len(before) + Len(Escaped(c))
         /\ \A q \in 1 .. Len(before) : after[q] = before[q]
         /\ \A j \in 1 .. Len(Escaped(c)) : after[Len(before) + j] = Escaped(c)[j]
<1> DEFINE U == S \cup {"\\"}
           e == Escaped(c)
           after == before \o e
<1>1. e \in Seq(U)
  BY EscapedFacts
<1> HIDE DEF e, U
<1>2. before \in Seq(U)
  BY DEF U
<1>3. /\ after \in Seq(U) /\ Len(after) = Len(before) + Len(e)
      /\ \A i \in 1 .. Len(before) + Len(e) :
           after[i] = IF i <= Len(before) THEN before[i] ELSE e[i - Len(before)]
  BY <1>1, <1>2, ConcatProperties
<1> HIDE DEF after
<1>4. Len(e) \in Nat /\ Len(before) \in Nat
  BY <1>1, <1>2, LenProperties
<1>5. \A q \in 1 .. Len(before) : after[q] = before[q]
  <2> SUFFICES ASSUME NEW q \in 1 .. Len(before)
               PROVE  after[q] = before[q]
    OBVIOUS
  <2>1. q \in 1 .. Len(before) + Len(e) /\ q <= Len(before)
    BY <1>4
  <2>2. QED
    BY <1>3, <2>1
<1>6. \A j \in 1 .. Len(e) : after[Len(before) + j] = e[j]
  <2> SUFFICES ASSUME NEW j \in 1 .. Len(e)
               PROVE  after[Len(before) + j] = e[j]
    OBVIOUS
  <2>1. /\ Len(before) + j \in 1 .. Len(before) + Len(e)
        /\ ~(Len(before) + j <= Len(before))
        /\ (Len(before) + j) - Len(before) = j
    BY <1>4
  <2>2. QED
    BY <1>3, <2>1
<1>7. QED
  BY <1>3, <1>5, <1>6 DEF after, e, U

LEMMA Spelling ==
  ASSUME NEW S, NEW text \in Seq(S)
  PROVE  /\ ParseStrSearch(text) \in Seq(S \cup {"\\"})
         /\ \E at : Spells(ParseStrSearch(text), at, text)
<1> DEFINE L == Len(text)
           U == S \cup {"\\"}
           done == CHOOSE d : WritesUpTo(d, text, L)
<1>1. L \in Nat
  BY LenProperties
<1>2. WritesUpTo(done, text, L)
  BY <1>1, WritingExists
<1>3. ParseStrSearch(text) = done[L]
  BY DEF ParseStrSearch, WritesUpTo, Step
<1> HIDE DEF done
<1>4. \A n \in 0 .. L : done[n] = Step(done, text, n)
  BY <1>2 DEF WritesUpTo
<1>5. done[0] = <<>>
  BY <1>1, <1>4 DEF Step
<1>6. \A n \in 1 .. L : done[n] = done[n - 1] \o Escaped(text[n])
  <2> SUFFICES ASSUME NEW n \in 1 .. L
               PROVE  done[n] = done[n - 1] \o Escaped(text[n])
    OBVIOUS
  <2>1. n \in 0 .. L /\ n # 0
    BY <1>1
  <2>2. done[n] = Step(done, text, n)
    BY <1>4, <2>1
  <2>3. QED
    BY <2>1, <2>2 DEF Step
<1> DEFINE at == [n \in 0 .. L |-> Len(done[n])]
           Right(n) == done[n] \in Seq(U) /\ \A i \in 1 .. n : WrittenAt(done[n], at, text, i)
           Wrong == {n \in 0 .. L : ~Right(n)}
<1>7. \A n \in 0 .. L : at[n] = Len(done[n])
  OBVIOUS
<1> HIDE DEF at
<1>8. Wrong = {}
  <2>1. SUFFICES ASSUME Wrong # {} PROVE FALSE
    OBVIOUS
  <2>2. PICK m \in Wrong : \A n \in Wrong : m <= n
    <3>1. Wrong \subseteq Nat
      BY <1>1
    <3> HIDE DEF Wrong
    <3>2. QED
      BY <2>1, <3>1, LeastExists
  <2>3. m \in 0 .. L /\ ~Right(m)
    BY <2>2
  <2>4. m # 0
    <3>1. Right(0)
      BY <1>5
    <3>2. QED
      BY <2>3, <3>1
  <2>5. m \in 1 .. L /\ m - 1 \in 0 .. L /\ ~(m <= m - 1)
    BY <1>1, <2>3, <2>4
  <2>6. Right(m - 1)
    BY <2>2, <2>5
  <2>7. /\ done[m] \in Seq(U)
        /\ Len(done[m]) = Len(done[m - 1]) + Len(Escaped(text[m]))
        /\ \A q \in 1 .. Len(done[m - 1]) : done[m][q] = done[m - 1][q]
        /\ \A j \in 1 .. Len(Escaped(text[m])) :
             done[m][Len(done[m - 1]) + j] = Escaped(text[m])[j]
    <3>1. done[m - 1] \in Seq(U) /\ done[m] = done[m - 1] \o Escaped(text[m])
      BY <1>6, <2>5, <2>6
    <3>2. text[m] \in S
      BY <2>5, ElementOfSeq
    <3>3. LET after == done[m - 1] \o Escaped(text[m]) IN
          /\ after \in Seq(U)
          /\ Len(after) = Len(done[m - 1]) + Len(Escaped(text[m]))
          /\ \A q \in 1 .. Len(done[m - 1]) : after[q] = done[m - 1][q]
          /\ \A j \in 1 .. Len(Escaped(text[m])) :
               after[Len(done[m - 1]) + j] = Escaped(text[m])[j]
      BY <3>1, <3>2, WritingStep
    <3>4. QED
      BY <3>1, <3>3
  <2>8. Len(done[m]) \in Nat /\ Len(done[m - 1]) \in Nat
    BY <2>6, <2>7, LenProperties
  <2>9. at[m] = Len(done[m]) /\ at[m - 1] = Len(done[m - 1])
    BY <1>7, <2>3, <2>5
  <2>10. WrittenAt(done[m], at, text, m)
    BY <2>7, <2>8, <2>9 DEF WrittenAt
  <2>11. ASSUME NEW i \in 1 .. m - 1
         PROVE  WrittenAt(done[m], at, text, i)
    <3>1. WrittenAt(done[m - 1], at, text, i)
      BY <2>6
    <3>2. i \in 0 .. L /\ i - 1 \in 0 .. L
      BY <1>1, <2>5
    <3>3. text[i] \in S
      BY <2>5, ElementOfSeq
    <3>4. Len(Escaped(text[i])) \in Nat
      BY <3>3, EscapedFacts
    <3>5. /\ at[i] = at[i - 1] + Len(Escaped(text[i])) /\ at[i] <= Len(done[m - 1])
          /\ \A j \in 1 .. Len(Escaped(text[i])) :
               done[m - 1][at[i - 1] + j] = Escaped(text[i])[j]
      BY <3>1 DEF WrittenAt
    <3>6. at[i - 1] \in Nat
      <4>1. Right(i - 1)
        <5>1. i - 1 \in 0 .. L /\ ~(m <= i - 1)
          BY <2>5, <3>2
        <5>2. QED
          BY <2>2, <5>1
      <4>2. QED
        BY <1>7, <3>2, <4>1, LenProperties
    <3>7. \A j \in 1 .. Len(Escaped(text[i])) : at[i - 1] + j \in 1 .. Len(done[m - 1])
      BY <2>8, <3>4, <3>5, <3>6
    <3>8. at[i] <= Len(done[m])
      <4>1. text[m] \in S
        BY <2>5, ElementOfSeq
      <4>2. Len(Escaped(text[m])) \in Nat
        BY <4>1, EscapedFacts
      <4>3. at[i] \in Nat
        BY <3>4, <3>5, <3>6
      <4>4. Len(done[m]) = Len(done[m - 1]) + Len(Escaped(text[m]))
        BY <2>7
      <4>5. at[i] <= Len(done[m - 1])
        BY <3>5
      <4>6. ASSUME NEW j \in Nat, NEW k \in Nat, NEW l \in Nat, j <= k
            PROVE  j <= k + l
        BY <4>6
      <4>7. at[i] <= Len(done[m - 1]) + Len(Escaped(text[m]))
        BY <2>8, <4>2, <4>3, <4>5, <4>6
      <4>8. QED
        BY <4>4, <4>7
    <3>9. QED
      BY <2>7, <3>5, <3>7, <3>8 DEF WrittenAt
  <2>12. \A i \in 1 .. m : i = m \/ i \in 1 .. m - 1
    BY <2>5
  <2>13. QED
    BY <2>3, <2>7, <2>10, <2>11, <2>12
<1>9. \A n \in 0 .. L : Right(n)
  BY <1>8
<1> HIDE DEF Wrong
<1>10. L \in 0 .. L /\ 0 \in 0 .. L
  BY <1>1
<1>11. Right(L)
  BY <1>9, <1>10
<1>12. \A n \in 0 .. L : at[n] \in Nat
  BY <1>7, <1>9, LenProperties
<1>13. at[0] = 0
  BY <1>5, <1>7, <1>10
<1>14. Spells(ParseStrSearch(text), at, text)
  BY <1>3, <1>7, <1>10, <1>11, <1>12, <1>13 DEF Spells
<1>15. QED
  BY <1>3, <1>11, <1>14

\* In name, from its k-th symbol on, stands the rest of text after its first i symbols.
Here(text, name, i, k) ==
  /\ k + (Len(text) - i) <= Len(name) + 1
  /\ \A j \in i + 1 .. Len(text) : Same(text[j], name[k + (j - i) - 1])

\* pattern is w between any symbols: a of them before, which are %, and two after.
Frames(pattern, w, a) ==
  /\ Len(pattern) = a + Len(w) + 2
  /\ \A q \in 1 .. Len(w) : pattern[a + q] = w[q]
  /\ \A q \in 1 .. a : pattern[q] = "%"
  /\ pattern[a + Len(w) + 1] = "%" /\ pattern[a + Len(w) + 2] = "%"

Fits(pattern, name, from) ==
  \A n \in 1 .. Len(pattern) + 2 : from[n] = Places(from, pattern, name, n)

\* Where c stands and what follows is found in next.
Onward(c, name, next) == {k \in 1 .. Len(name) : Same(c, name[k]) /\ k + 1 \in next}

LEMMA HereStep ==
  ASSUME NEW text, NEW name, Len(text) \in Nat, Len(name) \in Nat,
         NEW i \in 1 .. Len(text), NEW k \in 1 .. Len(name) + 1
  PROVE  Here(text, name, i - 1, k) <=>
           /\ k \in 1 .. Len(name) /\ Same(text[i], name[k])
           /\ k + 1 \in 1 .. Len(name) + 1 /\ Here(text, name, i, k + 1)
<1>1. k + (Len(text) - (i - 1)) <= Len(name) + 1
        <=> k + 1 <= Len(name) + 1 /\ (k + 1) + (Len(text) - i) <= Len(name) + 1
  OBVIOUS
<1>2. (i - 1) + 1 = i /\ i \in Int /\ k \in Int
  OBVIOUS
<1>3. \A j \in i .. Len(text) : k + (j - (i - 1)) - 1 = k + (j - i)
  OBVIOUS
<1>4. \A j \in i + 1 .. Len(text) : (k + 1) + (j - i) - 1 = k + (j - i)
  OBVIOUS
<1>5. Here(text, name, i - 1, k) <=>
        /\ k + (Len(text) - (i - 1)) <= Len(name) + 1
        /\ \A j \in i .. Len(text) : Same(text[j], name[k + (j - i)])
  BY <1>2, <1>3 DEF Here
<1>6. Here(text, name, i, k + 1) <=>
        /\ (k + 1) + (Len(text) - i) <= Len(name) + 1
        /\ \A j \in i + 1 .. Len(text) : Same(text[j], name[k + (j - i)])
  BY <1>2, <1>4 DEF Here
<1>7. \A j \in i .. Len(text) : j = i \/ j \in i + 1 .. Len(text)
  OBVIOUS
<1>8. i \in i .. Len(text) /\ \A j \in i + 1 .. Len(text) : j \in i .. Len(text)
  OBVIOUS
<1>9. k + (i - i) = k
  OBVIOUS
<1>10. (\A j \in i .. Len(text) : Same(text[j], name[k + (j - i)])) <=>
         /\ Same(text[i], name[k])
         /\ \A j \in i + 1 .. Len(text) : Same(text[j], name[k + (j - i)])
  BY <1>7, <1>8, <1>9
<1>11. k + 1 <= Len(name) + 1 <=> k \in 1 .. Len(name) /\ k + 1 \in 1 .. Len(name) + 1
  OBVIOUS
<1>12. QED
  BY <1>1, <1>5, <1>6, <1>10, <1>11

\* One symbol of the text, with its escape or without.
LEMMA SymbolPlaces ==
  ASSUME NEW S, NEW text \in Seq(S), NEW name, NEW w, NEW at, NEW a \in Nat,
         NEW pattern, NEW from, NEW i \in 1 .. Len(text),
         Len(w) \in Nat, Spells(w, at, text), Frames(pattern, w, a),
         Fits(pattern, name, from)
  PROVE  from[a + at[i - 1] + 1] = Onward(text[i], name, from[a + at[i] + 1])
<1> DEFINE c == text[i]
           s == at[i - 1]
           n == a + s + 1
<1>1. c \in S
  BY ElementOfSeq
<1>2. Len(text) \in Nat
  BY LenProperties
<1>3. s \in Nat /\ at[i] \in Nat
  <2>1. i \in 0 .. Len(text) /\ i - 1 \in 0 .. Len(text)
    BY <1>2
  <2>2. QED
    BY <2>1 DEF Spells
<1>4. /\ at[i] = s + Len(Escaped(c)) /\ at[i] <= Len(w)
      /\ \A j \in 1 .. Len(Escaped(c)) : w[s + j] = Escaped(c)[j]
  BY DEF Spells, WrittenAt
<1> HIDE DEF s, c
<1>5. Len(pattern) = a + Len(w) + 2 /\ \A q \in 1 .. Len(w) : pattern[a + q] = w[q]
  BY DEF Frames
<1>6. CASE c \in Wild
  <2>1. at[i] = s + 2 /\ w[s + 1] = "\\" /\ w[s + 2] = c
    <3>1. Len(Escaped(c)) = 2 /\ Escaped(c)[1] = "\\" /\ Escaped(c)[2] = c
      BY <1>1, <1>6, EscapedFacts
    <3>2. 1 \in 1 .. 2 /\ 2 \in 1 .. 2
      OBVIOUS
    <3>3. QED
      BY <1>4, <3>1, <3>2
  <2>2. s + 1 \in 1 .. Len(w) /\ s + 2 \in 1 .. Len(w)
    BY <1>3, <1>4, <2>1
  <2>3. /\ n \in 1 .. Len(pattern) + 2 /\ ~(n > Len(pattern)) /\ n < Len(pattern)
        /\ n = a + (s + 1) /\ n + 1 = a + (s + 2) /\ n + 2 = a + at[i] + 1
    BY <1>3, <1>5, <2>1, <2>2
  <2>4. pattern[n] = "\\" /\ pattern[n + 1] = c
    BY <1>5, <2>1, <2>2, <2>3
  <2>5. from[n] = Places(from, pattern, name, n)
    BY <2>3 DEF Fits
  <2> HIDE DEF n
  <2>6. from[n] = {k \in 1 .. Len(name) : /\ n < Len(pattern) /\ Same(pattern[n + 1], name[k])
                                          /\ k + 1 \in from[n + 2]}
    BY <2>3, <2>4, <2>5 DEF Places
  <2>7. QED
    BY <2>3, <2>4, <2>6 DEF n, s, c, Onward
<1>7. CASE c \notin Wild
  <2>1. at[i] = s + 1 /\ w[s + 1] = c
    <3>1. Len(Escaped(c)) = 1 /\ Escaped(c)[1] = c
      BY <1>1, <1>7, EscapedFacts
    <3>2. 1 \in 1 .. 1
      OBVIOUS
    <3>3. QED
      BY <1>4, <3>1, <3>2
  <2>2. s + 1 \in 1 .. Len(w)
    BY <1>3, <1>4, <2>1
  <2>3. /\ n \in 1 .. Len(pattern) + 2 /\ ~(n > Len(pattern))
        /\ n = a + (s + 1) /\ n + 1 = a + at[i] + 1
    BY <1>3, <1>5, <2>1, <2>2
  <2>4. pattern[n] = c
    BY <1>5, <2>1, <2>2, <2>3
  <2>5. from[n] = Places(from, pattern, name, n)
    BY <2>3 DEF Fits
  <2> HIDE DEF n
  <2>6. from[n] = {k \in 1 .. Len(name) : Same(c, name[k]) /\ k + 1 \in from[n + 1]}
    BY <1>7, <2>3, <2>4, <2>5 DEF Places, Wild
  <2>7. QED
    BY <2>3, <2>6 DEF n, s, c, Onward
<1>8. QED
  BY <1>6, <1>7

\* After the text any symbols may follow.
LEMMA EndPlaces ==
  ASSUME NEW name, NEW w, NEW a \in Nat, NEW pattern, NEW from,
         Len(w) \in Nat, Len(name) \in Nat, Frames(pattern, w, a), Fits(pattern, name, from)
  PROVE  from[a + Len(w) + 1] = 1 .. Len(name) + 1
<1> DEFINE P == Len(pattern)
           T == Len(name)
<1>1. P = a + Len(w) + 2 /\ pattern[P - 1] = "%" /\ pattern[P] = "%"
  <2>1. P = a + Len(w) + 2 /\ P - 1 = a + Len(w) + 1
    BY DEF Frames
  <2>2. QED
    BY <2>1 DEF Frames
<1>2. /\ P \in Nat /\ P - 1 \in 1 .. P + 2 /\ P \in 1 .. P + 2 /\ P + 1 \in 1 .. P + 2
      /\ P + 1 > P /\ ~(P > P) /\ ~(P - 1 > P) /\ (P - 1) + 1 = P
  BY <1>1
<1>3. from[P + 1] = {T + 1}
  <2>1. from[P + 1] = Places(from, pattern, name, P + 1)
    BY <1>2 DEF Fits
  <2>2. QED
    BY <1>2, <2>1 DEF Places
<1>4. from[P] = {k \in 1 .. T + 1 : \E j \in k .. T + 1 : j \in from[P + 1]}
  <2>1. from[P] = Places(from, pattern, name, P)
    BY <1>2 DEF Fits
  <2>2. QED
    BY <1>1, <1>2, <2>1 DEF Places
<1>5. from[P - 1] = {k \in 1 .. T + 1 : \E j \in k .. T + 1 : j \in from[P]}
  <2>1. from[P - 1] = Places(from, pattern, name, P - 1)
    BY <1>2 DEF Fits
  <2>2. QED
    BY <1>1, <1>2, <2>1 DEF Places
<1> HIDE DEF P
<1>6. from[P] = 1 .. T + 1
  <2>1. \A k \in 1 .. T + 1 : T + 1 \in k .. T + 1
    OBVIOUS
  <2>2. QED
    BY <1>3, <1>4, <2>1
<1>7. from[P - 1] = 1 .. T + 1
  <2>1. \A k \in 1 .. T + 1 : k \in k .. T + 1
    OBVIOUS
  <2>2. QED
    BY <1>5, <1>6, <2>1
<1>8. P - 1 = a + Len(w) + 1
  BY <1>1
<1>9. QED
  BY <1>7, <1>8

\* The pattern finds the text exactly where it stands.
LEMMA TextPlaces ==
  ASSUME NEW S, NEW text \in Seq(S), NEW name, NEW w, NEW at, NEW a \in Nat,
         NEW pattern, NEW from, Len(name) \in Nat,
         Len(w) \in Nat, Spells(w, at, text), Frames(pattern, w, a),
         Fits(pattern, name, from)
  PROVE  from[a + 1] = {k \in 1 .. Len(name) + 1 : Here(text, name, 0, k)}
<1> DEFINE L == Len(text)
           Right(i) == from[a + at[i] + 1] = {k \in 1 .. Len(name) + 1 : Here(text, name, i, k)}
           Wrong == {i \in 0 .. L : ~Right(i)}
<1>1. L \in Nat
  BY LenProperties
<1>2. Right(L)
  <2>1. at[L] = Len(w)
    BY DEF Spells
  <2>2. from[a + at[L] + 1] = 1 .. Len(name) + 1
    BY <2>1, EndPlaces
  <2>3. \A k \in 1 .. Len(name) + 1 : Here(text, name, L, k)
    BY <1>1 DEF Here
  <2>4. QED
    BY <2>2, <2>3
<1>3. ASSUME NEW i \in 1 .. L, Right(i)
      PROVE  Right(i - 1)
  <2>1. from[a + at[i - 1] + 1] = Onward(text[i], name, from[a + at[i] + 1])
    BY SymbolPlaces
  <2>2. \A k \in 1 .. Len(name) : k + 1 \in from[a + at[i] + 1] <=>
          k + 1 \in 1 .. Len(name) + 1 /\ Here(text, name, i, k + 1)
    BY <1>3
  <2>3. from[a + at[i - 1] + 1] =
          {k \in 1 .. Len(name) : /\ Same(text[i], name[k])
                                  /\ k + 1 \in 1 .. Len(name) + 1 /\ Here(text, name, i, k + 1)}
    BY <2>1, <2>2 DEF Onward
  <2>4. \A k \in 1 .. Len(name) + 1 : Here(text, name, i - 1, k) <=>
          /\ k \in 1 .. Len(name) /\ Same(text[i], name[k])
          /\ k + 1 \in 1 .. Len(name) + 1 /\ Here(text, name, i, k + 1)
    BY <1>1, HereStep
  <2>5. \A k \in 1 .. Len(name) : k \in 1 .. Len(name) + 1
    OBVIOUS
  <2>6. QED
    BY <2>3, <2>4, <2>5
<1> HIDE DEF Right
<1>4. Wrong = {}
  <2>1. SUFFICES ASSUME Wrong # {} PROVE FALSE
    OBVIOUS
  <2>2. PICK m \in Wrong : \A i \in Wrong : m >= i
    <3>1. Wrong \subseteq 0 .. L
      OBVIOUS
    <3> HIDE DEF Wrong
    <3>2. QED
      BY <1>1, <2>1, <3>1, GreatestExists
  <2>3. m \in 0 .. L /\ m # L /\ ~Right(m)
    BY <1>2, <2>2
  <2>4. m + 1 \in 1 .. L /\ m + 1 \in 0 .. L /\ (m + 1) - 1 = m /\ ~(m >= m + 1)
    BY <1>1, <2>3
  <2>5. Right(m + 1)
    BY <2>2, <2>4
  <2>6. Right((m + 1) - 1)
    BY <1>3, <2>4, <2>5
  <2>7. QED
    BY <2>3, <2>4, <2>6
<1>5. Right(0)
  BY <1>1, <1>4
<1>6. at[0] = 0 /\ a + at[0] + 1 = a + 1
  BY DEF Spells
<1>7. QED
  BY <1>5, <1>6 DEF Right

LEMMA FilterHere ==
  ASSUME NEW S, NEW text \in Seq(S), NEW name \in Seq(S), NEW n \in 1 .. Len(name) + 1
  PROVE  FilterName(text, SubSeq(name, n, Len(name))) <=> Here(text, name, 0, n)
<1> DEFINE L == Len(text)
           T == Len(name)
           rest == SubSeq(name, n, T)
<1>1. L \in Nat /\ T \in Nat /\ DOMAIN text = 1 .. L
  BY LenProperties
<1>2. rest \in Seq(S) /\ Len(rest) = T + 1 - n /\ \A j \in 1 .. T + 1 - n : rest[j] = name[n + j - 1]
  <2>1. \A j \in n .. T : name[j] \in S
    BY <1>1, ElementOfSeq
  <2>2. /\ rest \in Seq(S) /\ Len(rest) = IF n <= T THEN T - n + 1 ELSE 0
        /\ \A j \in 1 .. T - n + 1 : rest[j] = name[n + j - 1]
    BY <1>1, <2>1, SubSeqProperties
  <2>3. T + 1 - n = T - n + 1 /\ (~(n <= T) => T + 1 - n = 0)
    BY <1>1
  <2>4. QED
    BY <2>2, <2>3
<1> HIDE DEF rest
<1>3. L <= Len(rest) <=> n + (L - 0) <= T + 1
  BY <1>1, <1>2
<1>4. ASSUME L <= Len(rest)
      PROVE  SameTexts(text, SubSeq(rest, 1, L)) <=>
               \A j \in 0 + 1 .. L : Same(text[j], name[n + (j - 0) - 1])
  <2> DEFINE front == SubSeq(rest, 1, L)
  <2>1. Len(front) = L /\ \A j \in 1 .. L : front[j] = rest[j]
    <3>1. \A j \in 1 .. L : rest[j] \in S
      BY <1>1, <1>2, <1>4, ElementOfSeq
    <3>2. /\ Len(front) = IF 1 <= L THEN L - 1 + 1 ELSE 0
          /\ \A j \in 1 .. L - 1 + 1 : front[j] = rest[1 + j - 1]
      BY <1>1, <1>2, <1>4, SubSeqProperties
    <3>3. L - 1 + 1 = L /\ (~(1 <= L) => L = 0) /\ \A j \in 1 .. L : 1 + j - 1 = j
      BY <1>1
    <3>4. QED
      BY <3>2, <3>3
  <2> HIDE DEF front
  <2>2. \A j \in 1 .. L : j \in 1 .. T + 1 - n /\ n + (j - 0) - 1 = n + j - 1
    BY <1>1, <1>2, <1>4
  <2>3. \A j \in 1 .. L : front[j] = name[n + (j - 0) - 1]
    BY <1>2, <2>1, <2>2
  <2>4. SameTexts(text, front) <=> \A j \in 1 .. L : Same(text[j], front[j])
    BY <1>1, <2>1 DEF SameTexts
  <2>5. 0 + 1 = 1
    OBVIOUS
  <2>6. QED
    BY <2>3, <2>4, <2>5 DEF front
<1>5. FilterName(text, rest) <=> L <= Len(rest) /\ SameTexts(text, SubSeq(rest, 1, L))
  BY DEF FilterName
<1>6. QED
  BY <1>3, <1>4, <1>5 DEF Here, rest

LEMMA FramedFacts ==
  ASSUME NEW U, NEW w \in Seq(U)
  PROVE  /\ Frames(w \o AnyRun, w, 0) /\ Len(w \o AnyRun) \in Nat
         /\ Frames(AnyRun \o w \o AnyRun, w, 2) /\ Len(AnyRun \o w \o AnyRun) \in Nat
<1> DEFINE V == U \cup {"%"}
           short == w \o AnyRun
           long == AnyRun \o w \o AnyRun
           half == AnyRun \o w
<1>1. /\ AnyRun \in Seq(V) /\ w \in Seq(V)
      /\ Len(AnyRun) = 2 /\ AnyRun[1] = "%" /\ AnyRun[2] = "%"
  <2>1. w \in Seq(V)
    BY SeqMonotonic
  <2>2. AnyRun \in Seq(V)
    BY DEF AnyRun
  <2>3. QED
    BY <2>1, <2>2 DEF AnyRun
<1> HIDE DEF V
<1>2. Len(w) \in Nat
  BY LenProperties
<1>3. /\ Len(short) = Len(w) + 2
      /\ \A q \in 1 .. Len(w) + 2 : short[q] = IF q <= Len(w) THEN w[q] ELSE AnyRun[q - Len(w)]
  <2>1. /\ Len(w \o AnyRun) = Len(w) + Len(AnyRun)
        /\ \A q \in 1 .. Len(w) + Len(AnyRun) :
             (w \o AnyRun)[q] = IF q <= Len(w) THEN w[q] ELSE AnyRun[q - Len(w)]
    BY <1>1, ConcatProperties
  <2>2. QED
    BY <1>1, <2>1
<1>4. /\ half \in Seq(V) /\ Len(half) = 2 + Len(w)
      /\ \A q \in 1 .. 2 + Len(w) : half[q] = IF q <= 2 THEN AnyRun[q] ELSE w[q - 2]
  <2>1. /\ AnyRun \o w \in Seq(V) /\ Len(AnyRun \o w) = Len(AnyRun) + Len(w)
        /\ \A q \in 1 .. Len(AnyRun) + Len(w) :
             (AnyRun \o w)[q] = IF q <= Len(AnyRun) THEN AnyRun[q] ELSE w[q - Len(AnyRun)]
    BY <1>1, ConcatProperties
  <2>2. QED
    BY <1>1, <2>1
<1> HIDE DEF half
<1>5. /\ Len(half \o AnyRun) = (2 + Len(w)) + 2
      /\ \A q \in 1 .. (2 + Len(w)) + 2 : (half \o AnyRun)[q] =
           IF q <= 2 + Len(w) THEN half[q] ELSE AnyRun[q - (2 + Len(w))]
  <2>1. /\ Len(half \o AnyRun) = Len(half) + Len(AnyRun)
        /\ \A q \in 1 .. Len(half) + Len(AnyRun) :
             (half \o AnyRun)[q] = IF q <= Len(half) THEN half[q] ELSE AnyRun[q - Len(half)]
    BY <1>1, <1>4, ConcatProperties
  <2>2. QED
    BY <1>1, <1>4, <2>1
<1>6. long = half \o AnyRun
  BY DEF half
<1> HIDE DEF short, long
<1>7. Frames(short, w, 0)
  <2>1. Len(short) = 0 + Len(w) + 2
    BY <1>2, <1>3
  <2>2. \A q \in 1 .. Len(w) : 0 + q \in 1 .. Len(w) + 2 /\ 0 + q = q /\ q <= Len(w)
    BY <1>2
  <2>3. \A q \in 1 .. Len(w) : short[0 + q] = w[q]
    BY <1>3, <2>2
  <2>4. /\ 0 + Len(w) + 1 \in 1 .. Len(w) + 2 /\ ~(0 + Len(w) + 1 <= Len(w))
        /\ 0 + Len(w) + 1 - Len(w) = 1
        /\ 0 + Len(w) + 2 \in 1 .. Len(w) + 2 /\ ~(0 + Len(w) + 2 <= Len(w))
        /\ 0 + Len(w) + 2 - Len(w) = 2
    BY <1>2
  <2>5. short[0 + Len(w) + 1] = "%" /\ short[0 + Len(w) + 2] = "%"
    BY <1>1, <1>3, <2>4
  <2>6. 1 .. 0 = {}
    OBVIOUS
  <2>7. QED
    BY <2>1, <2>3, <2>5, <2>6 DEF Frames
<1>8. Frames(long, w, 2)
  <2>1. Len(long) = 2 + Len(w) + 2
    BY <1>5, <1>6
  <2>2. ASSUME NEW q \in 1 .. Len(w)
        PROVE  long[2 + q] = w[q]
    <3>1. /\ 2 + q \in 1 .. (2 + Len(w)) + 2 /\ 2 + q \in 1 .. 2 + Len(w)
          /\ 2 + q <= 2 + Len(w) /\ ~(2 + q <= 2) /\ (2 + q) - 2 = q
      BY <1>2
    <3>2. long[2 + q] = half[2 + q]
      BY <1>5, <1>6, <3>1
    <3>3. half[2 + q] = w[q]
      BY <1>4, <3>1
    <3>4. QED
      BY <3>2, <3>3
  <2>3. ASSUME NEW q \in 1 .. 2
        PROVE  long[q] = "%"
    <3>1. /\ q \in 1 .. (2 + Len(w)) + 2 /\ q \in 1 .. 2 + Len(w)
          /\ q <= 2 + Len(w) /\ q <= 2 /\ (q = 1 \/ q = 2)
      BY <1>2
    <3>2. long[q] = half[q]
      BY <1>5, <1>6, <3>1
    <3>3. half[q] = AnyRun[q]
      BY <1>4, <3>1
    <3>4. QED
      BY <1>1, <3>1, <3>2, <3>3
  <2>4. /\ 2 + Len(w) + 1 \in 1 .. (2 + Len(w)) + 2 /\ ~(2 + Len(w) + 1 <= 2 + Len(w))
        /\ 2 + Len(w) + 1 - (2 + Len(w)) = 1
        /\ 2 + Len(w) + 2 \in 1 .. (2 + Len(w)) + 2 /\ ~(2 + Len(w) + 2 <= 2 + Len(w))
        /\ 2 + Len(w) + 2 - (2 + Len(w)) = 2
    BY <1>2
  <2>5. long[2 + Len(w) + 1] = "%" /\ long[2 + Len(w) + 2] = "%"
    BY <1>1, <1>5, <1>6, <2>4
  <2>6. QED
    BY <2>1, <2>2, <2>3, <2>5 DEF Frames
<1>9. Len(short) \in Nat /\ Len(long) \in Nat
  BY <1>2, <1>3, <1>5, <1>6
<1>10. QED
  BY <1>7, <1>8, <1>9 DEF short, long

\* The rooms that the server finds are those that the client filters by the same text.
LEMMA RoomsFound ==
  ASSUME NEW S, NEW text \in Seq(S), NEW name \in Seq(S)
  PROVE  RoomMatches(text, name) <=> FilterName(text, name)
<1> DEFINE w == ParseStrSearch(text)
           pattern == w \o AnyRun
<1>1. w \in Seq(S \cup {"\\"}) /\ \E at : Spells(w, at, text)
  BY Spelling
<1>2. PICK at : Spells(w, at, text)
  BY <1>1
<1> HIDE DEF w
<1>3. Len(w) \in Nat /\ Len(name) \in Nat
  BY <1>1, LenProperties
<1>4. Frames(pattern, w, 0) /\ Len(pattern) \in Nat
  BY <1>1, FramedFacts
<1> HIDE DEF pattern
<1>5. PICK from : /\ Like(pattern, name) <=> 1 \in from[1]
                  /\ \A n \in 1 .. Len(pattern) + 2 : from[n] = Places(from, pattern, name, n)
  BY <1>4, LikeTable
<1>6. Fits(pattern, name, from)
  BY <1>5 DEF Fits
<1>7. 0 \in Nat /\ 0 + 1 = 1
  OBVIOUS
<1>8. from[0 + 1] = {k \in 1 .. Len(name) + 1 : Here(text, name, 0, k)}
  BY <1>2, <1>3, <1>4, <1>6, <1>7, TextPlaces
<1>9. 1 \in 1 .. Len(name) + 1
  BY <1>3
<1>10. Like(pattern, name) <=> Here(text, name, 0, 1)
  BY <1>5, <1>7, <1>8, <1>9
<1>11. FilterName(text, SubSeq(name, 1, Len(name))) <=> Here(text, name, 0, 1)
  BY <1>9, FilterHere
<1>12. SubSeq(name, 1, Len(name)) = name
  BY SubSeqFull
<1>13. RoomMatches(text, name) <=> Like(pattern, name)
  BY DEF RoomMatches, pattern, w
<1>14. QED
  BY <1>10, <1>11, <1>12, <1>13

\* The messages that the server finds have the text somewhere.
LEMMA MessagesFound ==
  ASSUME NEW S, NEW text \in Seq(S), NEW name \in Seq(S)
  PROVE  MsgMatches(text, name) <=>
           \E n \in 1 .. Len(name) + 1 : FilterName(text, SubSeq(name, n, Len(name)))
<1> DEFINE w == ParseStrSearch(text)
           pattern == AnyRun \o w \o AnyRun
           T == Len(name)
<1>1. w \in Seq(S \cup {"\\"}) /\ \E at : Spells(w, at, text)
  BY Spelling
<1>2. PICK at : Spells(w, at, text)
  BY <1>1
<1> HIDE DEF w
<1>3. Len(w) \in Nat /\ T \in Nat
  BY <1>1, LenProperties
<1>4. Frames(pattern, w, 2) /\ Len(pattern) \in Nat
  BY <1>1, FramedFacts
<1> HIDE DEF pattern
<1>5. PICK from : /\ Like(pattern, name) <=> 1 \in from[1]
                  /\ \A n \in 1 .. Len(pattern) + 2 : from[n] = Places(from, pattern, name, n)
  BY <1>4, LikeTable
<1>6. Fits(pattern, name, from)
  BY <1>5 DEF Fits
<1>7. 2 \in Nat /\ 2 + 1 = 3
  OBVIOUS
<1>8. from[2 + 1] = {k \in 1 .. T + 1 : Here(text, name, 0, k)}
  BY <1>2, <1>3, <1>4, <1>6, <1>7, TextPlaces
<1>9. /\ 1 \in 1 .. Len(pattern) + 2 /\ 2 \in 1 .. Len(pattern) + 2
      /\ ~(1 > Len(pattern)) /\ ~(2 > Len(pattern)) /\ 1 + 1 = 2
      /\ pattern[1] = "%" /\ pattern[2] = "%"
  <2>1. Len(pattern) = 2 + Len(w) + 2 /\ \A q \in 1 .. 2 : pattern[q] = "%"
    BY <1>4 DEF Frames
  <2>2. QED
    BY <1>3, <2>1
<1>10. from[1] = {k \in 1 .. T + 1 : \E j \in k .. T + 1 : j \in from[2]}
  <2>1. from[1] = Places(from, pattern, name, 1)
    BY <1>5, <1>9
  <2>2. QED
    BY <1>9, <2>1 DEF Places
<1>11. from[2] = {k \in 1 .. T + 1 : \E j \in k .. T + 1 : j \in from[3]}
  <2>1. from[2] = Places(from, pattern, name, 2)
    BY <1>5, <1>9
  <2>2. QED
    BY <1>7, <1>9, <2>1 DEF Places
<1> HIDE DEF T
<1>12. 1 \in from[1] <=> \E k \in 1 .. T + 1 : k \in from[3]
  <2>1. 1 \in from[1] => \E k \in 1 .. T + 1 : k \in from[3]
    <3> SUFFICES ASSUME 1 \in from[1]
                 PROVE  \E k \in 1 .. T + 1 : k \in from[3]
      OBVIOUS
    <3>1. PICK j \in 1 .. T + 1 : j \in from[2]
      BY <1>10
    <3>2. PICK k \in j .. T + 1 : k \in from[3]
      BY <1>11, <3>1
    <3>3. k \in 1 .. T + 1
      BY <1>3
    <3>4. QED
      BY <3>2, <3>3
  <2>2. ASSUME NEW k \in 1 .. T + 1, k \in from[3]
        PROVE  1 \in from[1]
    <3>1. k \in k .. T + 1 /\ k \in 1 .. T + 1 /\ 1 \in 1 .. T + 1
      BY <1>3
    <3>2. k \in from[2]
      BY <1>11, <2>2, <3>1
    <3>3. QED
      BY <1>10, <3>1, <3>2
  <2>3. QED
    BY <2>1, <2>2
<1>13. Like(pattern, name) <=> \E k \in 1 .. T + 1 : Here(text, name, 0, k)
  BY <1>5, <1>7, <1>8, <1>12
<1>14. \A k \in 1 .. T + 1 :
         FilterName(text, SubSeq(name, k, T)) <=> Here(text, name, 0, k)
  BY FilterHere DEF T
<1>15. MsgMatches(text, name) <=> Like(pattern, name)
  BY DEF MsgMatches, pattern, w
<1>16. QED
  BY <1>13, <1>14, <1>15 DEF T

\* SearchesAgree (parse_str_search, the LIKE of search_rooms_in_db and search_msgs_in_db,
\* filter_room_name): whatever is typed, however it is escaped, LIKE finds what begins
\* with it among the names and what has it somewhere among the messages.
THEOREM SearchesFind == Spec => []SearchesAgree
<1>1. ASSUME NEW n \in Nat
      PROVE  BoundedSeq(Symbol, n) \subseteq Seq(Symbol)
  <2>1. \A m \in 0 .. n : [1 .. m -> Symbol] \subseteq Seq(Symbol)
    BY SeqDef
  <2>2. QED
    BY <2>1 DEF BoundedSeq, SeqOf
<1>2. SearchesAgree
  <2>1. BoundedSeq(Symbol, 2) \subseteq Seq(Symbol) /\ BoundedSeq(Symbol, 3) \subseteq Seq(Symbol)
    BY <1>1
  <2>2. QED
    BY <2>1, RoomsFound, MessagesFound DEF SearchesAgree
<1>3. QED
  BY <1>2, PTL

-------------------------------------------------------------------------------
(* One search at a time.                                                    *)

\* The requests of q and the lines of ls that are about a search.
Sought(q, n) == q[n].op = "search_room"
Told(ls, n) == ls[n].token = "search_room"

NoneSought(q) == \A n \in 1 .. Len(q) : ~Sought(q, n)
NoneTold(ls) == \A n \in 1 .. Len(ls) : ~Told(ls, n)
OneSought(q) == \A m, n \in 1 .. Len(q) : Sought(q, m) /\ Sought(q, n) => m = n
OneTold(ls) == \A m, n \in 1 .. Len(ls) : Told(ls, m) /\ Told(ls, n) => m = n

Matching(text) == text # Empty /\ RoomMatches(text, RoomName)

\* Unless it is hasty, a client waits for one answer at most, which is about the text of
\* its entry, and has no row while it waits.
OneSearch(q, ls, e, f) ==
  /\ OneSought(q) /\ OneTold(ls) /\ (NoneSought(q) \/ NoneTold(ls))
  /\ f = 0 \/ (f = 1 /\ NoneSought(q) /\ NoneTold(ls) /\ Matching(e))
  /\ \A n \in 1 .. Len(q) : Sought(q, n) => q[n].text = e /\ e # Empty
  /\ \A n \in 1 .. Len(ls) : Told(ls, n) /\ ls[n].list # {} => Matching(e)

Searches == ~hasty => OneSearch(asked, lines, entry, found)

\* The requests, or lines, new are the old ones after the first k, and others that are
\* not about a search.
FewerSought(new, old, k) ==
  \A n \in 1 .. Len(new) : Sought(new, n) => n + k \in 1 .. Len(old) /\ new[n] = old[n + k]
FewerTold(new, old, k) ==
  \A n \in 1 .. Len(new) : Told(new, n) => n + k \in 1 .. Len(old) /\ new[n] = old[n + k]

LEMMA StillOne ==
  ASSUME NEW q, NEW ls, NEW e, NEW f, OneSearch(q, ls, e, f),
         NEW r, NEW ms, NEW j \in Nat, NEW k \in Nat, Len(r) \in Nat, Len(ms) \in Nat,
         FewerSought(r, q, j), FewerTold(ms, ls, k)
  PROVE  OneSearch(r, ms, e, f)
<1>1. NoneSought(q) => NoneSought(r)
  BY DEF FewerSought, NoneSought, Sought
<1>2. NoneTold(ls) => NoneTold(ms)
  BY DEF FewerTold, NoneTold, Told
<1>3. OneSought(r)
  <2> SUFFICES ASSUME NEW m \in 1 .. Len(r), NEW n \in 1 .. Len(r), Sought(r, m), Sought(r, n)
               PROVE  m = n
    BY DEF OneSought
  <2>1. /\ m + j \in 1 .. Len(q) /\ r[m] = q[m + j]
        /\ n + j \in 1 .. Len(q) /\ r[n] = q[n + j]
    BY DEF FewerSought
  <2>2. Sought(q, m + j) /\ Sought(q, n + j)
    BY <2>1 DEF Sought
  <2>3. m + j = n + j
    BY <2>1, <2>2 DEF OneSearch, OneSought
  <2>4. QED
    BY <2>3
<1>4. OneTold(ms)
  <2> SUFFICES ASSUME NEW m \in 1 .. Len(ms), NEW n \in 1 .. Len(ms), Told(ms, m), Told(ms, n)
               PROVE  m = n
    BY DEF OneTold
  <2>1. /\ m + k \in 1 .. Len(ls) /\ ms[m] = ls[m + k]
        /\ n + k \in 1 .. Len(ls) /\ ms[n] = ls[n + k]
    BY DEF FewerTold
  <2>2. Told(ls, m + k) /\ Told(ls, n + k)
    BY <2>1 DEF Told
  <2>3. m + k = n + k
    BY <2>1, <2>2 DEF OneSearch, OneTold
  <2>4. QED
    BY <2>3
<1>5. \A n \in 1 .. Len(r) : Sought(r, n) => r[n].text = e /\ e # Empty
  <2> SUFFICES ASSUME NEW n \in 1 .. Len(r), Sought(r, n)
               PROVE  r[n].text = e /\ e # Empty
    OBVIOUS
  <2>1. n + j \in 1 .. Len(q) /\ r[n] = q[n + j]
    BY DEF FewerSought
  <2>2. Sought(q, n + j)
    BY <2>1 DEF Sought
  <2>3. QED
    BY <2>1, <2>2 DEF OneSearch
<1>6. \A n \in 1 .. Len(ms) : Told(ms, n) /\ ms[n].list # {} => Matching(e)
  <2> SUFFICES ASSUME NEW n \in 1 .. Len(ms), Told(ms, n), ms[n].list # {}
               PROVE  Matching(e)
    OBVIOUS
  <2>1. n + k \in 1 .. Len(ls) /\ ms[n] = ls[n + k]
    BY DEF FewerTold
  <2>2. Told(ls, n + k)
    BY <2>1 DEF Told
  <2>3. QED
    BY <2>1, <2>2 DEF OneSearch
<1>7. QED
  BY <1>1, <1>2, <1>3, <1>4, <1>5, <1>6 DEF OneSearch

LEMMA NothingSought ==
  ASSUME NEW q, NEW ls, NEW e, NoneSought(q), NoneTold(ls)
  PROVE  OneSearch(q, ls, e, 0)
BY DEF NoneSought, NoneTold, OneSearch, OneSought, OneTold

LEMMA SoughtAfter ==
  ASSUME NEW q \in Seq(ReqType)
  PROVE  /\ FewerSought(q, q, 0)
         /\ \A r \in ReqType : r.op # "search_room" => FewerSought(Append(q, r), q, 0)
         /\ q # <<>> => FewerSought(Tail(q), q, 1)
<1>1. FewerSought(q, q, 0)
  BY DEF FewerSought
<1>2. ASSUME NEW r \in ReqType, r.op # "search_room"
      PROVE  FewerSought(Append(q, r), q, 0)
  BY <1>2, AppendFacts DEF FewerSought, Sought
<1>3. ASSUME q # <<>>
      PROVE  FewerSought(Tail(q), q, 1)
  <2>1. /\ Len(q) \in Nat \ {0} /\ Len(Tail(q)) = Len(q) - 1
        /\ \A n \in 1 .. Len(Tail(q)) : Tail(q)[n] = q[n + 1]
    BY <1>3, TailFacts
  <2>2. QED
    BY <2>1 DEF FewerSought
<1>4. QED
  BY <1>1, <1>2, <1>3

LEMMA ToldAfter ==
  ASSUME NEW ls \in Seq(LineType)
  PROVE  /\ FewerTold(ls, ls, 0)
         /\ \A l \in LineType : l.token # "search_room" => FewerTold(Append(ls, l), ls, 0)
         /\ ls # <<>> => FewerTold(Tail(ls), ls, 1)
<1>1. FewerTold(ls, ls, 0)
  BY DEF FewerTold
<1>2. ASSUME NEW l \in LineType, l.token # "search_room"
      PROVE  FewerTold(Append(ls, l), ls, 0)
  BY <1>2, AppendFacts DEF FewerTold, Told
<1>3. ASSUME ls # <<>>
      PROVE  FewerTold(Tail(ls), ls, 1)
  <2>1. /\ Len(ls) \in Nat \ {0} /\ Len(Tail(ls)) = Len(ls) - 1
        /\ \A n \in 1 .. Len(Tail(ls)) : Tail(ls)[n] = ls[n + 1]
    BY <1>3, TailFacts
  <2>2. QED
    BY <2>1 DEF FewerTold
<1>4. QED
  BY <1>1, <1>2, <1>3

\* Lines that are told of something else.
LEMMA ToldExtends ==
  ASSUME NEW ls \in Seq(LineType), NEW more \in Seq(LineType), NEW tokens,
         Extends(more, ls, tokens), "search_room" \notin tokens
  PROVE  FewerTold(more, ls, 0)
<1>1. Len(ls) \in Nat /\ Len(more) \in Nat
  OBVIOUS
<1>2. ASSUME NEW n \in 1 .. Len(more), Told(more, n)
      PROVE  n + 0 \in 1 .. Len(ls) /\ more[n] = ls[n + 0]
  <2>1. n \in 1 .. Len(ls) \/ n \in Len(ls) + 1 .. Len(more)
    BY <1>1
  <2>2. n \notin Len(ls) + 1 .. Len(more)
    BY <1>2 DEF Extends, Told
  <2>3. QED
    BY <2>1, <2>2 DEF Extends
<1>3. QED
  BY <1>2 DEF FewerTold

\* A step that is not about a search.
LEMMA SearchesKept ==
  ASSUME Core, Core', Searches, NEW j \in Nat, NEW k \in Nat,
         FewerSought(asked', asked, j), FewerTold(lines', lines, k),
         entry' = entry, found' = found, hasty' = hasty
  PROVE  Searches'
<1>1. Len(asked') \in Nat /\ Len(lines') \in Nat
  BY DEF Core
<1>2. ASSUME ~hasty PROVE OneSearch(asked', lines', entry, found)
  <2>1. OneSearch(asked, lines, entry, found)
    BY <1>2 DEF Searches
  <2>2. QED
    BY <1>1, <2>1, StillOne
<1>3. QED
  BY <1>2 DEF Searches

\* What is cleared is not hasty only if nothing is on its way.
LEMMA ClearedIdle ==
  ASSUME Core, ClearGlobalSearch, ~hasty'
  PROVE  NoneSought(asked) /\ NoneTold(lines)
<1>1. ~Requested("search_room") /\ ~Coming({"search_room"})
  BY DEF ClearGlobalSearch
<1>2. DOMAIN asked = 1 .. Len(asked) /\ DOMAIN lines = 1 .. Len(lines)
  BY DEF Core
<1>3. QED
  BY <1>1, <1>2 DEF Requested, Coming, NoneSought, NoneTold, Sought, Told

\* A search that is cleared, and perhaps something else asked for.
LEMMA SearchesCleared ==
  ASSUME Core, Core', ClearGlobalSearch, NEW k \in Nat,
         FewerSought(asked', asked, 0), FewerTold(lines', lines, k)
  PROVE  Searches'
<1>1. SUFFICES ASSUME ~hasty' PROVE OneSearch(asked', lines', entry', found')
  BY DEF Searches
<1>2. found' = 0
  BY DEF ClearGlobalSearch
<1>3. NoneSought(asked) /\ NoneTold(lines)
  BY <1>1, ClearedIdle
<1>4. OneSearch(asked, lines, entry', 0)
  BY <1>3, NothingSought
<1>5. Len(asked') \in Nat /\ Len(lines') \in Nat
  BY DEF Core
<1>6. QED
  BY <1>2, <1>4, <1>5, StillOne

\* What is broadcast is not about a search.
LEMMA BroadcastTold ==
  ASSUME Core, NEW rows, NEW token \in Token, NEW u \in User \cup {None},
         token # "search_room", lines' = lines \o ToMembers(rows, About(token, u))
  PROVE  FewerTold(lines', lines, 0)
<1> DEFINE l == About(token, u)
<1>1. l \in LineType /\ l.token # "search_room"
  BY AboutFields
<1> HIDE DEF l
<1>2. lines' = lines \/ lines' = Append(lines, l)
  BY <1>1, Hearing DEF l
<1>3. QED
  BY <1>1, <1>2, ToldAfter DEF Core

LEMMA BanTold ==
  ASSUME Core, NEW t \in User \cup {None}, lines' = lines \o BanLines(t)
  PROVE  FewerTold(lines', lines, 0)
<1> DEFINE d == Plain("del_room")
           b == About("ban_member", t)
<1>1. /\ d \in LineType /\ d.token # "search_room"
      /\ b \in LineType /\ b.token # "search_room"
  <2>1. "del_room" \in Token /\ "ban_member" \in Token /\ None \in User \cup {None}
    BY DEF Token
  <2>2. d \in LineType /\ d.token = "del_room"
    BY <2>1, AboutFields DEF Plain
  <2>3. b \in LineType /\ b.token = "ban_member"
    BY <2>1, AboutFields
  <2>4. QED
    BY <2>2, <2>3
<1>2. BanLines(t) = (IF t = Me /\ online THEN <<d>> ELSE <<>>)
                      \o (IF online /\ IsMember(members', Me, Room) THEN <<b>> ELSE <<>>)
        \/ BanLines(t) = (IF t = Me /\ online THEN <<d>> ELSE <<>>)
                      \o (IF online /\ Me \in MembersList(members', Room) THEN <<b>> ELSE <<>>)
  BY DEF BanLines, ToMembers
<1> HIDE DEF d, b
<1>3. BanLines(t) \in {<<>>, <<d>>, <<b>>, <<d>> \o <<b>>}
  <2>1. <<>> \o <<>> = <<>>
    OBVIOUS
  <2>2. <<d>> \o <<>> = <<d>>
    OBVIOUS
  <2>3. <<>> \o <<b>> = <<b>>
    OBVIOUS
  <2>4. QED
    BY <1>2, <2>1, <2>2, <2>3
<1>4. /\ lines \o <<>> = lines /\ lines \o <<d>> = Append(lines, d)
      /\ lines \o <<b>> = Append(lines, b)
      /\ lines \o (<<d>> \o <<b>>) = Append(Append(lines, d), b)
  <2>1. \A ls \in Seq(LineType), l \in LineType : ls \o <<l>> = Append(ls, l)
    OBVIOUS
  <2>2. lines \in Seq(LineType) /\ <<d>> \in Seq(LineType) /\ <<b>> \in Seq(LineType)
    BY <1>1 DEF Core
  <2>3. lines \o (<<d>> \o <<b>>) = (lines \o <<d>>) \o <<b>>
    BY <2>2, ConcatAssociative
  <2>4. lines \o <<>> = lines /\ Append(lines, d) \in Seq(LineType)
    BY <1>1, <2>2
  <2>5. QED
    BY <1>1, <2>1, <2>2, <2>3, <2>4
<1>5. lines' \in {lines, Append(lines, d), Append(lines, b), Append(Append(lines, d), b)}
  BY <1>3, <1>4
<1> DEFINE tokens == {d.token, b.token}
<1>6. lines \in Seq(LineType) /\ Extends(lines, lines, tokens)
  BY ExtendsSame DEF Core
<1>7. \A ls \in Seq(LineType), l \in {d, b} :
        Extends(ls, lines, tokens) =>
          Append(ls, l) \in Seq(LineType) /\ Extends(Append(ls, l), lines, tokens)
  <2> SUFFICES ASSUME NEW ls \in Seq(LineType), NEW l \in {d, b}, Extends(ls, lines, tokens)
               PROVE  Append(ls, l) \in Seq(LineType) /\ Extends(Append(ls, l), lines, tokens)
    OBVIOUS
  <2>1. l \in LineType /\ l.token \in tokens
    BY <1>1
  <2> HIDE DEF tokens
  <2>2. QED
    BY <1>6, <2>1, ExtendsPost
<1>8. "search_room" \notin tokens
  BY <1>1
<1> HIDE DEF tokens
<1>9. lines' \in Seq(LineType) /\ Extends(lines', lines, tokens)
  BY <1>5, <1>6, <1>7
<1>10. QED
  BY <1>6, <1>8, <1>9, ToldExtends

\* The handlers of the other requests.
LEMMA SearchesServed ==
  ASSUME Core, Core', Searches, NEW op, Serve(op), op # "search_room",
         FewerTold(lines', lines, 0)
  PROVE  Searches'
<1>1. /\ asked # <<>> /\ asked' = Tail(asked)
      /\ entry' = entry /\ found' = found /\ hasty' = hasty
  BY DEF Serve, screen, search
<1>2. FewerSought(asked', asked, 1)
  BY <1>1, SoughtAfter DEF Core
<1>3. 0 \in Nat /\ 1 \in Nat
  OBVIOUS
<1>4. QED
  BY <1>1, <1>2, <1>3, SearchesKept

LEMMA AnswerTold ==
  ASSUME Core, NEW l \in LineType, l.token # "search_room", lines' = Append(lines, l)
  PROVE  FewerTold(lines', lines, 0)
BY ToldAfter DEF Core

LEMMA IgnoreTold ==
  ASSUME Core, lines' = lines
  PROVE  FewerTold(lines', lines, 0)
BY ToldAfter DEF Core

\* The answer to the one search.
LEMMA SearchAnswered ==
  ASSUME UserAssumption, Core, Core', Searches, ServeSearch
  PROVE  Searches'
<1> DEFINE q == Head(asked)
           fits == owner # None /\ ~IsMember(members, Me, Room) /\ RoomMatches(q.text, RoomName)
           l == Line("search_room", None, IF fits THEN {Me} ELSE {})
<1>1. /\ asked # <<>> /\ q.op = "search_room" /\ asked' = Tail(asked)
      /\ lines' = Append(lines, l) /\ entry' = entry /\ found' = found /\ hasty' = hasty
  BY DEF ServeSearch, Serve, Answers, screen, search
<1>2. /\ l \in LineType /\ l.token = "search_room"
      /\ l.list # {} => RoomMatches(q.text, RoomName)
  <2> HIDE DEF q
  <2>1. l.token = "search_room" /\ l.list = IF fits THEN {Me} ELSE {}
    BY DEF Line
  <2>2. l \in LineType
    <3> HIDE DEF fits
    <3>1. QED
      BY DEF Line, LineType, Token, UserAssumption
  <2>3. QED
    BY <2>1, <2>2
<1> HIDE DEF l, fits
<1>3. /\ Len(asked) \in Nat \ {0} /\ Len(asked') = Len(asked) - 1 /\ q = asked[1]
      /\ \A n \in 1 .. Len(asked') : asked'[n] = asked[n + 1]
  BY <1>1, TailFacts DEF Core
<1>4. /\ Len(lines) \in Nat /\ Len(lines') = Len(lines) + 1 /\ lines'[Len(lines) + 1] = l
      /\ \A n \in 1 .. Len(lines) : lines'[n] = lines[n]
  BY <1>1, <1>2, AppendFacts DEF Core
<1> HIDE DEF q
<1>5. SUFFICES ASSUME OneSearch(asked, lines, entry, found)
               PROVE  OneSearch(asked', lines', entry, found)
  BY <1>1 DEF Searches
<1>6. 1 \in 1 .. Len(asked) /\ Sought(asked, 1)
  BY <1>1, <1>3 DEF Sought
<1>7. NoneTold(lines) /\ found = 0 /\ q.text = entry /\ entry # Empty
  <2>1. ~NoneSought(asked)
    BY <1>6 DEF NoneSought
  <2>2. asked[1].text = entry /\ entry # Empty
    BY <1>5, <1>6 DEF OneSearch
  <2>3. QED
    BY <1>3, <1>5, <2>1, <2>2 DEF OneSearch
<1>8. NoneSought(asked')
  <2> SUFFICES ASSUME NEW n \in 1 .. Len(asked'), Sought(asked', n) PROVE FALSE
    BY DEF NoneSought
  <2>1. n + 1 \in 1 .. Len(asked) /\ n + 1 # 1 /\ Sought(asked, n + 1)
    BY <1>3 DEF Sought
  <2>2. QED
    BY <1>5, <1>6, <2>1 DEF OneSearch, OneSought
<1>9. \A n \in 1 .. Len(lines') : Told(lines', n) => n = Len(lines) + 1
  <2> SUFFICES ASSUME NEW n \in 1 .. Len(lines'), Told(lines', n), n # Len(lines) + 1
               PROVE  FALSE
    OBVIOUS
  <2>1. n \in 1 .. Len(lines)
    BY <1>4
  <2>2. Told(lines, n)
    BY <1>4, <2>1 DEF Told
  <2>3. QED
    BY <1>7, <2>1, <2>2 DEF NoneTold
<1>10. \A n \in 1 .. Len(lines') : Told(lines', n) /\ lines'[n].list # {} => Matching(entry)
  BY <1>2, <1>4, <1>7, <1>9 DEF Matching
<1>11. OneTold(lines')
  BY <1>9 DEF OneTold
<1>12. OneSought(asked')
  BY <1>8 DEF OneSought, NoneSought
<1>13. \A n \in 1 .. Len(asked') : Sought(asked', n) => asked'[n].text = entry /\ entry # Empty
  BY <1>8 DEF NoneSought
<1>14. QED
  BY <1>7, <1>8, <1>10, <1>11, <1>12, <1>13 DEF OneSearch

LEMMA HandleSearches ==
  ASSUME UserAssumption, Core, Core', Searches, Handle
  PROVE  Searches'
<1>1. CASE ServeGetRooms
  <2> DEFINE l == About("get_rooms", IF Me \in Members(members) THEN owner ELSE None)
  <2>1. Serve("get_rooms") /\ lines' = Append(lines, l)
    BY <1>1 DEF ServeGetRooms, Answers
  <2>2. l \in LineType /\ l.token # "search_room"
    BY AboutFields DEF Core, Token, Listing
  <2> HIDE DEF l
  <2>3. QED
    BY <2>1, <2>2, AnswerTold, SearchesServed
<1>2. CASE ServeGetMembers
  <2> DEFINE l == Line("get_members", None, Members(members))
  <2>1. Serve("get_members") /\ lines' = Append(lines, l)
    BY <1>2 DEF ServeGetMembers, Answers
  <2>2. l.token # "search_room"
    BY DEF Line
  <2>3. l \in LineType
    <3>1. Members(members) \in SUBSET User
      BY DEF Core, Members, MembersList, MemberRow
    <3>2. QED
      BY <3>1 DEF Line, LineType, Token
  <2> HIDE DEF l
  <2>4. QED
    BY <2>1, <2>2, <2>3, AnswerTold, SearchesServed
<1>3. CASE ServeNewMessages
  <2> DEFINE l == Line("new_messages", None, IF written THEN {Me} ELSE {})
  <2>1. Serve("new_messages") /\ (lines' = Append(lines, l) \/ lines' = lines)
    BY <1>3 DEF ServeNewMessages, Answers, Ignores
  <2>2. l.token # "search_room"
    BY DEF Line
  <2>3. l \in LineType
    BY DEF Line, LineType, Token, UserAssumption
  <2> HIDE DEF l
  <2>4. QED
    BY <2>1, <2>2, <2>3, AnswerTold, IgnoreTold, SearchesServed
<1>4. CASE ServeSearch
  BY <1>4, SearchAnswered
<1>5. CASE ServeJoin
  <2> DEFINE l == About("join_room", owner)
             b == About("new_member", Me)
  <2>1. Serve("join_room")
        /\ (lines' = lines \/ lines' = lines \o <<l>> \o ToMembers(members', b))
    BY <1>5 DEF ServeJoin, Ignores
  <2>2. l \in LineType /\ l.token = "join_room" /\ b \in LineType /\ b.token = "new_member"
    BY AboutFields DEF Core, Token, Listing, UserAssumption
  <2> HIDE DEF l, b
  <2>3. lines \in Seq(LineType) /\ lines \o <<l>> = Append(lines, l)
    BY <2>2 DEF Core
  <2>4. Append(lines, l) \in Seq(LineType)
    BY <2>2, <2>3
  <2>5. Append(lines, l) \o <<b>> = Append(Append(lines, l), b)
        /\ Append(lines, l) \o <<>> = Append(lines, l)
    BY <2>2, <2>4
  <2>6. lines' \in {lines, Append(lines, l), Append(Append(lines, l), b)}
    BY <2>1, <2>3, <2>5 DEF ToMembers
  <2> DEFINE tokens == {"join_room", "new_member"}
  <2>7. Extends(lines, lines, tokens)
    BY <2>3, ExtendsSame
  <2>8. Extends(Append(lines, l), lines, tokens)
    BY <2>2, <2>3, <2>7, ExtendsPost
  <2>9. Extends(Append(Append(lines, l), b), lines, tokens)
    BY <2>2, <2>3, <2>4, <2>8, ExtendsPost
  <2>10. lines' \in Seq(LineType) /\ Extends(lines', lines, tokens)
    <3> HIDE DEF tokens
    <3>1. QED
      BY <2>6, <2>7, <2>8, <2>9 DEF Core
  <2>11. FewerTold(lines', lines, 0)
    BY <2>3, <2>10, ToldExtends
  <2>12. QED
    BY <2>1, <2>11, SearchesServed
<1>6. CASE ServerEnds
  <2>1. /\ asked' = asked /\ lines' = lines /\ entry' = entry /\ found' = found /\ hasty' = hasty
    BY <1>6 DEF ServerEnds, screen, search
  <2>2. QED
    BY <2>1 DEF Searches
<1>7. CASE ServeNewRoom
  <2>1. About("new_room", Me) \in LineType /\ About("new_room", Me).token # "search_room"
    BY AboutFields DEF Token, Listing, UserAssumption
  <2>2. Serve("new_room") /\ (lines' = lines \/ lines' = Append(lines, About("new_room", Me)))
    BY <1>7 DEF ServeNewRoom, Ignores
  <2>3. QED
    BY <2>1, <2>2, AnswerTold, IgnoreTold, SearchesServed
<1>8. CASE ServeBan
  <2>1. Serve("ban_member") /\ lines' = lines \o BanLines(Head(asked).user)
    BY <1>8 DEF ServeBan
  <2>2. Head(asked).user \in User \cup {None}
    BY <2>1, Serving DEF ReqType
  <2>3. FewerTold(lines', lines, 0)
    BY <2>1, <2>2, BanTold
  <2>4. QED
    BY <2>1, <2>3, SearchesServed
<1>9. CASE ServeDelRoom
  <2>1. Serve("del_room")
        /\ (lines' = lines \/ lines' = lines \o ToMembers(members, About("del_room", None)))
    BY <1>9 DEF ServeDelRoom, Ignores, Plain
  <2>2. FewerTold(lines', lines, 0)
    BY <2>1, IgnoreTold, BroadcastTold DEF Token
  <2>3. QED
    BY <2>1, <2>2, SearchesServed
<1>10. CASE ServeMessage
  <2>1. Serve("send_message")
        /\ (lines' = lines \/ lines' = lines \o ToMembers(members, About("send_message", Me)))
    BY <1>10 DEF ServeMessage, Ignores
  <2>2. FewerTold(lines', lines, 0)
    BY <2>1, IgnoreTold, BroadcastTold DEF Token, UserAssumption
  <2>3. QED
    BY <2>1, <2>2, SearchesServed
<1>11. CASE ServeLogOut
  <2>0. "log_out" \in Token /\ None \in User \cup {None}
    BY DEF Token
  <2>1. Plain("log_out") \in LineType /\ Plain("log_out").token = "log_out"
    BY <2>0, AboutFields DEF Plain
  <2>2. Serve("log_out") /\ lines' = Append(lines, Plain("log_out"))
    BY <1>11 DEF ServeLogOut
  <2>3. QED
    BY <2>1, <2>2, AnswerTold, SearchesServed
<1>12. QED
  BY <1>1, <1>2, <1>3, <1>4, <1>5, <1>6, <1>7, <1>8, <1>9, <1>10, <1>11 DEF Handle

LEMMA OtherSearches ==
  ASSUME Core, Core', Searches, Other
  PROVE  Searches'
<1>1. asked' = asked /\ entry' = entry /\ found' = found /\ hasty' = hasty
  BY DEF Other, screen, search
<1>2. FewerTold(lines', lines, 0)
  <2>1. CASE \E u \in User \ {Me} : lines' = lines \o ToMembers(members', About("new_member", u))
    BY <2>1, BroadcastTold DEF Token
  <2>2. CASE lines' = lines
    BY <2>2, IgnoreTold
  <2>3. CASE \E u \in User \ {Me} : lines' = lines \o ToMembers(members, About("send_message", u))
    BY <2>3, BroadcastTold DEF Token
  <2>4. CASE lines' = lines \o ToMembers(members, About("del_room", None))
    BY <2>4, BroadcastTold DEF Token
  <2>5. CASE \E t \in User \ {owner} : lines' = lines \o BanLines(t)
    BY <2>5, BanTold
  <2>6. QED
    BY <2>1, <2>2, <2>3, <2>4, <2>5 DEF Other, Plain
<1>3. FewerSought(asked', asked, 0)
  BY <1>1, SoughtAfter DEF Core
<1>4. QED
  BY <1>1, <1>2, <1>3, SearchesKept

LEMMA SoughtJoined ==
  ASSUME NEW q \in Seq(ReqType), NEW r \in Seq(ReqType), NoneSought(r)
  PROVE  FewerSought(q \o r, q, 0)
<1>1. /\ Len(q) \in Nat /\ Len(r) \in Nat /\ Len(q \o r) = Len(q) + Len(r)
      /\ \A n \in 1 .. Len(q) + Len(r) : (q \o r)[n] = IF n <= Len(q) THEN q[n] ELSE r[n - Len(q)]
  BY ConcatProperties, LenProperties
<1> DEFINE new == q \o r
<1> HIDE DEF new
<1>2. ASSUME NEW n \in 1 .. Len(new), Sought(new, n)
      PROVE  n + 0 \in 1 .. Len(q) /\ new[n] = q[n + 0]
  <2>1. n \in 1 .. Len(q) + Len(r) /\ new[n] = IF n <= Len(q) THEN q[n] ELSE r[n - Len(q)]
    BY <1>1 DEF new
  <2>2. n <= Len(q)
    <3>1. SUFFICES ASSUME ~(n <= Len(q)) PROVE FALSE
      OBVIOUS
    <3>2. n - Len(q) \in 1 .. Len(r) /\ new[n] = r[n - Len(q)]
      BY <1>1, <2>1, <3>1
    <3>3. QED
      BY <1>2, <3>2 DEF NoneSought, Sought
  <2>3. n + 0 = n /\ n \in 1 .. Len(q)
    BY <1>1, <2>1, <2>2
  <2>4. QED
    BY <2>1, <2>2, <2>3
<1>3. QED
  BY <1>2 DEF FewerSought, new

LEMMA AsksForSought ==
  ASSUME NEW l \in LineType
  PROVE  /\ AsksFor(l) \in Seq(ReqType) /\ NoneSought(AsksFor(l))
         /\ l.token \in {"search_room", "log_out"} => AsksFor(l) = <<>>
<1> DEFINE r == Req("get_rooms", None)
           m == Req("get_members", None)
           w == Req("new_messages", None)
<1>1. /\ r \in ReqType /\ r.op # "search_room" /\ m \in ReqType /\ m.op # "search_room"
      /\ w \in ReqType /\ w.op # "search_room"
  <2>1. {"get_rooms", "get_members", "new_messages"} \subseteq Token \ {"sign_in", "new_member"}
    BY DEF Token, Listing
  <2>2. QED
    BY <2>1, ReqFields
<1>2. AsksFor(l) \in {<<>>, <<r>>, <<m, w>>, <<m>>}
  BY DEF AsksFor
<1> HIDE DEF r, m, w
<1>3. <<>> \in Seq(ReqType) /\ NoneSought(<<>>)
  BY DEF NoneSought
<1>4. <<r>> \in Seq(ReqType) /\ NoneSought(<<r>>) /\ <<m>> \in Seq(ReqType) /\ NoneSought(<<m>>)
  BY <1>1 DEF NoneSought, Sought
<1>5. <<m, w>> \in Seq(ReqType) /\ NoneSought(<<m, w>>)
  BY <1>1 DEF NoneSought, Sought
<1>6. l.token \in {"search_room", "log_out"} => AsksFor(l) = <<>>
  BY DEF AsksFor
<1>7. QED
  BY <1>2, <1>3, <1>4, <1>5, <1>6

LEMMA ReceiveSearches ==
  ASSUME Core, Core', Rest, Searches, Receive
  PROVE  Searches'
<1> DEFINE l == Head(lines)
<1>1. /\ lines # <<>> /\ lines' = Tail(lines) /\ asked' = asked \o AsksFor(l)
      /\ entry' = entry
  BY DEF Receive, Take
<1>2. IF l.token = "log_out" THEN ClearGlobalSearch
      ELSE found' = found + (IF l.token = "search_room" /\ l.list # {} THEN 1 ELSE 0)
           /\ UNCHANGED <<picked, hasty>>
  BY DEF Receive
<1>3. /\ l \in LineType /\ Len(lines) \in Nat \ {0} /\ Len(lines') = Len(lines) - 1 /\ l = lines[1]
      /\ \A n \in 1 .. Len(lines') : lines'[n] = lines[n + 1]
  BY <1>1, TailFacts DEF Core
<1> HIDE DEF l
<1>4. FewerTold(lines', lines, 1)
  BY <1>1, ToldAfter DEF Core
<1>5. FewerSought(asked', asked, 0)
  BY <1>1, <1>3, SoughtJoined, AsksForSought DEF Core
<1>6. 0 \in Nat /\ 1 \in Nat /\ found \in Nat
  BY DEF Rest
<1>7. CASE l.token = "log_out"
  BY <1>2, <1>4, <1>5, <1>6, <1>7, SearchesCleared
<1>8. CASE l.token # "log_out" /\ ~(l.token = "search_room" /\ l.list # {})
  <2>1. found' = found /\ hasty' = hasty
    BY <1>2, <1>6, <1>8
  <2>2. QED
    BY <1>1, <1>4, <1>5, <1>6, <2>1, SearchesKept
<1>9. CASE l.token = "search_room" /\ l.list # {}
  <2>1. found' = found + 1 /\ hasty' = hasty
    BY <1>2, <1>9
  <2>2. asked' = asked
    <3>1. AsksFor(l) = <<>>
      BY <1>3, <1>9, AsksForSought
    <3>2. asked \o <<>> = asked
      BY DEF Core
    <3>3. QED
      BY <1>1, <3>1, <3>2
  <2>3. SUFFICES ASSUME OneSearch(asked, lines, entry, found)
                 PROVE  OneSearch(asked, lines', entry, found + 1)
    BY <1>1, <2>1, <2>2 DEF Searches
  <2>4. 1 \in 1 .. Len(lines) /\ Told(lines, 1) /\ lines[1].list # {}
    BY <1>3, <1>9 DEF Told
  <2>5. NoneSought(asked) /\ found = 0 /\ Matching(entry)
    <3>1. ~NoneTold(lines)
      BY <2>4 DEF NoneTold
    <3>2. Matching(entry)
      BY <2>3, <2>4 DEF OneSearch
    <3>3. QED
      BY <2>3, <3>1, <3>2 DEF OneSearch
  <2>6. NoneTold(lines')
    <3> SUFFICES ASSUME NEW n \in 1 .. Len(lines'), Told(lines', n) PROVE FALSE
      BY DEF NoneTold
    <3>1. n + 1 \in 1 .. Len(lines) /\ n + 1 # 1 /\ Told(lines, n + 1)
      BY <1>3 DEF Told
    <3>2. QED
      BY <2>3, <2>4, <3>1 DEF OneSearch, OneTold
  <2>7. found + 1 = 1
    BY <2>5
  <2>8. OneSearch(asked, lines', entry, 0)
    BY <2>5, <2>6, NothingSought
  <2>9. QED
    BY <2>5, <2>6, <2>7, <2>8 DEF OneSearch
<1>10. QED
  BY <1>7, <1>8, <1>9

\* A search takes the place of the one before.
LEMMA SearchBegins ==
  ASSUME Core, Core', TextAssumption, NEW text \in Typed, SearchRoom(text)
  PROVE  Searches'
<1> DEFINE q == SearchReq(text)
<1>1. /\ asked' = Append(asked, q) /\ lines' = lines /\ entry' = text /\ ClearGlobalSearch
  BY DEF SearchRoom, Ask
<1>2. q \in ReqType /\ q.text = text
  BY DEF SearchReq, ReqType, Token, Listing
<1> HIDE DEF q
<1>3. SUFFICES ASSUME ~hasty' PROVE OneSearch(asked', lines, text, 0)
  BY <1>1 DEF Searches, ClearGlobalSearch
<1>4. NoneSought(asked) /\ NoneTold(lines)
  BY <1>1, <1>3, ClearedIdle
<1>5. /\ Len(asked) \in Nat /\ Len(asked') = Len(asked) + 1 /\ asked'[Len(asked) + 1] = q
      /\ \A n \in 1 .. Len(asked) : asked'[n] = asked[n]
  BY <1>1, <1>2, AppendFacts DEF Core
<1>6. \A n \in 1 .. Len(asked') : Sought(asked', n) => n = Len(asked) + 1
  <2> SUFFICES ASSUME NEW n \in 1 .. Len(asked'), Sought(asked', n), n # Len(asked) + 1
               PROVE  FALSE
    OBVIOUS
  <2>1. n \in 1 .. Len(asked)
    BY <1>5
  <2>2. Sought(asked, n)
    BY <1>5, <2>1 DEF Sought
  <2>3. QED
    BY <1>4, <2>1, <2>2 DEF NoneSought
<1>7. text # Empty
  BY DEF TextAssumption, Empty
<1>8. OneSought(asked') /\ OneTold(lines)
  BY <1>4, <1>6 DEF OneSought, OneTold, NoneTold
<1>9. \A n \in 1 .. Len(asked') : Sought(asked', n) => asked'[n].text = text /\ text # Empty
  BY <1>2, <1>5, <1>6, <1>7
<1>10. \A n \in 1 .. Len(lines) : Told(lines, n) /\ lines[n].list # {} => Matching(text)
  BY <1>4 DEF NoneTold
<1>11. QED
  BY <1>4, <1>8, <1>9, <1>10 DEF OneSearch

LEMMA EndsSearches ==
  ASSUME ProcessEnds PROVE Searches'
<1>1. asked' = <<>> /\ lines' = <<>> /\ found' = 0
  BY DEF ProcessEnds
<1>2. NoneSought(<<>>) /\ NoneTold(<<>>)
  BY DEF NoneSought, NoneTold
<1>3. QED
  BY <1>1, <1>2, NothingSought DEF Searches

\* What the user asks for, but for searches.
LEMMA PlainAskSearches ==
  ASSUME Core, Core', Searches, NEW op \in Token \ {"sign_in", "new_member"},
         NEW u \in User \cup {None}, op # "search_room", Ask(Req(op, u)), UNCHANGED search
  PROVE  Searches'
<1>1. /\ asked' = Append(asked, Req(op, u)) /\ lines' = lines
      /\ entry' = entry /\ found' = found /\ hasty' = hasty
  BY DEF Ask, search
<1>2. FewerSought(asked', asked, 0)
  BY <1>1, ReqFields, SoughtAfter DEF Core
<1>3. FewerTold(lines', lines, 0)
  BY <1>1, IgnoreTold
<1>4. 0 \in Nat
  OBVIOUS
<1>5. QED
  BY <1>1, <1>2, <1>3, <1>4, SearchesKept

LEMMA AsksSearches ==
  ASSUME TextAssumption, Core, Core', Rest, Searches, Asks
  PROVE  Searches'
<1>1. {"new_room", "del_room", "ban_member", "send_message", "log_out", "join_room"}
        \subseteq Token \ {"sign_in", "new_member", "search_room"}
  BY DEF Token, Listing
<1>2. CASE AskNewRoom
  BY <1>1, <1>2, PlainAskSearches DEF AskNewRoom
<1>3. CASE AskAsCustomer
  <2>1. UNCHANGED search
    BY <1>3 DEF AskAsCustomer
  <2>2. CASE Ask(Req("del_room", None))
    BY <1>1, <2>1, <2>2, PlainAskSearches
  <2>3. CASE \E t \in offers : Ask(Req("ban_member", t))
    <3>1. PICK t \in offers : Ask(Req("ban_member", t))
      BY <2>3
    <3>2. t \in User \cup {None}
      BY DEF Rest
    <3>3. QED
      BY <1>1, <2>1, <3>1, <3>2, PlainAskSearches
  <2>4. QED
    BY <1>3, <2>2, <2>3 DEF AskAsCustomer
<1>4. CASE AskMessage
  BY <1>1, <1>4, PlainAskSearches DEF AskMessage
<1>5. CASE AskLogOut
  BY <1>1, <1>5, PlainAskSearches DEF AskLogOut
<1>6. CASE \E text \in Typed : SearchRoom(text)
  BY <1>6, SearchBegins
<1>7. CASE AskJoin
  <2>1. Ask(Req("join_room", None)) /\ ClearGlobalSearch
    BY <1>7 DEF AskJoin
  <2>2. asked' = Append(asked, Req("join_room", None)) /\ lines' = lines
    BY <2>1 DEF Ask
  <2>3. FewerSought(asked', asked, 0) /\ FewerTold(lines', lines, 0)
    <3>1. Req("join_room", None) \in ReqType /\ Req("join_room", None).op # "search_room"
      BY <1>1, ReqFields
    <3>2. QED
      BY <2>2, <3>1, SoughtAfter, IgnoreTold DEF Core
  <2>4. 0 \in Nat
    OBVIOUS
  <2>5. QED
    BY <2>1, <2>3, <2>4, SearchesCleared
<1>8. CASE StopSearch
  <2>1. ClearGlobalSearch /\ asked' = asked /\ lines' = lines
    BY <1>8 DEF StopSearch
  <2>2. FewerSought(asked', asked, 0) /\ FewerTold(lines', lines, 0) /\ 0 \in Nat
    BY <2>1, SoughtAfter, IgnoreTold DEF Core
  <2>3. QED
    BY <2>1, <2>2, SearchesCleared
<1>9. CASE PickFound \/ CancelJoin
  BY <1>9 DEF PickFound, CancelJoin, Searches
<1>10. CASE JoinNothing
  BY <1>10, EndsSearches DEF JoinNothing
<1>11. QED
  BY <1>2, <1>3, <1>4, <1>5, <1>6, <1>7, <1>8, <1>9, <1>10 DEF Asks

LEMMA SignInSearches ==
  ASSUME Core, Core', Searches, SignIn
  PROVE  Searches'
<1>1. /\ lines = <<>> /\ lines' = <<Plain("sign_in")>> /\ asked' = asked
      /\ entry' = entry /\ found' = found /\ hasty' = hasty
  BY DEF SignIn, screen, search
<1>2. Plain("sign_in").token # "search_room"
  BY DEF Plain, About, Line
<1>3. FewerTold(lines', lines, 0)
  BY <1>1, <1>2 DEF FewerTold, Told
<1>4. FewerSought(asked', asked, 0) /\ 0 \in Nat
  BY <1>1, SoughtAfter DEF Core
<1>5. QED
  BY <1>1, <1>3, <1>4, SearchesKept

\* A client that is not hasty has one search at a time (search_room_request and the
\* handler of its answer).
THEOREM SearchesInvariance == Spec => []Searches
<1> USE UserAssumption, TextAssumption
<1>1. Init => Searches
  <2>1. NoneSought(<<>>) /\ NoneTold(<<>>)
    BY DEF NoneSought, NoneTold
  <2>2. QED
    BY <2>1, NothingSought DEF Init, Searches
<1>2. Inv /\ Inv' /\ Searches /\ [Next]_vars => Searches'
  <2> SUFFICES ASSUME Core, Core', Rest, Searches, [Next]_vars PROVE Searches'
    BY DEF Inv
  <2>1. CASE Receive
    BY <2>1, ReceiveSearches
  <2>2. CASE Crash
    BY <2>2, EndsSearches DEF Crash
  <2>3. CASE Select
    BY <2>3 DEF Select, search, Searches
  <2>4. CASE Asks
    BY <2>4, AsksSearches
  <2>5. CASE Handle
    BY <2>5, HandleSearches
  <2>6. CASE SignIn
    BY <2>6, SignInSearches
  <2>7. CASE Other
    BY <2>7, OtherSearches
  <2>8. CASE UNCHANGED vars
    BY <2>8 DEF vars, screen, search, Searches
  <2>9. QED
    BY <2>1, <2>2, <2>3, <2>4, <2>5, <2>6, <2>7, <2>8 DEF Next
<1>3. QED
  BY <1>1, <1>2, Invariance, PTL DEF Spec

\* TypeOK; OffersFit (set_current_room_sett and add_to_sett_members): unless the end of
\* the room is on its way, its settings are open to its customer only, and offer to ban
\* members, and those who were, but never the customer; FoundFits (search_rooms_in_db and
\* create_row_global_search): a client that is not hasty shows the room once at most, and
\* only if it begins with the text of the entry.
THEOREM OffersHold == Spec => []OffersAndFindsFit
<1>1. Inv => OffersFit
  <2> SUFFICES ASSUME Inv, open, ~Coming({"del_room", "log_out"})
               PROVE  owner = Me /\ \A t \in offers : t # Me /\ IsMember(members, t, Room)
    BY DEF OffersFit
  <2>1. /\ groom # NoGroom /\ groom.customer = Me /\ Me \notin offers
        /\ Live(groom, lines, 0) => \A t \in offers : IsMember(members, t, Room)
    BY DEF Inv, Opens
  <2>2. Len(lines) \in Nat /\ 0 \in 0 .. Len(lines) /\ Reading(groom, lines)[0] = groom
        /\ DOMAIN lines = 1 .. Len(lines)
    BY ReadingFacts DEF Inv, Core
  <2>3. Live(groom, lines, 0)
    BY <2>1, <2>2 DEF Live, Coming, Closing
  <2>4. groom.owner = owner
    BY <2>2, <2>3 DEF Inv, Lives, Belongs
  <2>5. groom.customer \in {None, groom.owner}
    BY <2>1, NowFits DEF Inv, IsRoom
  <2>6. QED
    BY <2>1, <2>3, <2>4, <2>5, UserAssumption DEF UserAssumption
<1>2. Inv => TypeOK
  BY InvTypes
<1>3. Inv /\ Searches => FoundFits
  <2> SUFFICES ASSUME Inv, Searches, ~hasty
               PROVE  found <= 1 /\ (found = 1 => entry # Empty /\ FilterName(entry, RoomName))
    BY DEF FoundFits
  <2>1. found = 0 \/ (found = 1 /\ Matching(entry))
    BY DEF Searches, OneSearch
  <2>2. CASE found = 1 /\ Matching(entry)
    <3>1. entry \in Seq(Symbol) /\ RoomName \in Seq(Symbol)
      BY <2>2, TextAssumption DEF Matching, Inv, Rest, TextAssumption
    <3>2. FilterName(entry, RoomName)
      BY <2>2, <3>1, RoomsFound DEF Matching
    <3>3. QED
      BY <2>2, <3>2 DEF Matching
  <2>3. QED
    BY <2>1, <2>2
<1>4. QED
  BY <1>1, <1>2, <1>3, Invariance, SearchesInvariance, PTL DEF OffersAndFindsFit
===============================================================================
