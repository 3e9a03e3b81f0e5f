---------------------------- MODULE TablesTheorems ----------------------------
(* Facts about the operators of Tables, for every table.                   *)
EXTENDS Tables, WellFoundedInduction, TLAPS

\* A set of naturals that is not empty has a least element.
LEMMA LeastExists ==
  ASSUME NEW S, S \subseteq Nat, S # {}
  PROVE  \E x \in S : \A y \in S : x <= y
<1>1. PICK x \in S : \A y \in S : ~(<<y, x>> \in OpToRel(<, Nat))
  BY NatLessThanWellFounded, WFMin
<1>2. \A y \in S : ~(y < x)
  BY <1>1, Zenon DEF OpToRel
<1>3. QED
  BY <1>2

\* A set of naturals up to a bound that is not empty has a greatest element.
LEMMA GreatestExists ==
  ASSUME NEW N \in Nat, NEW S, S \subseteq 0 .. N, S # {}
  PROVE  \E x \in S : \A y \in S : x >= y
<1> DEFINE D == {N - y : y \in S}
<1>1. D \subseteq Nat /\ D # {}
  <2>1. \A y \in S : N - y \in Nat
    OBVIOUS
  <2>2. D \subseteq Nat
    BY <2>1
  <2>3. PICK y \in S : TRUE
    OBVIOUS
  <2>4. N - y \in D
    BY <2>3
  <2>5. QED
    BY <2>2, <2>4
<1>2. PICK d \in D : \A e \in D : d <= e
  BY <1>1, LeastExists
<1>3. PICK x \in S : d = N - x
  BY <1>2
<1>4. \A y \in S : N - x <= N - y
  BY <1>2, <1>3
<1>5. QED
  BY <1>4

\* The row that a look-up returns is one that the statement selects, and the
\* oldest of them.
LEMMA FirstRowProperties ==
  ASSUME NEW S, S # {}, \A row \in S : row.id \in Nat
  PROVE  /\ FirstRow(S) \in S
         /\ \A row \in S : FirstRow(S).id <= row.id
<1> DEFINE I == {row.id : row \in S}
<1>1. PICK i \in I : \A j \in I : i <= j
  <2>1. I \subseteq Nat /\ I # {}
    OBVIOUS
  <2>2. QED
    BY <2>1, LeastExists
<1>2. PICK row \in S : row.id = i
  OBVIOUS
<1>3. \A other \in S : row.id <= other.id
  BY <1>1, <1>2
<1>4. row \in Oldest(S)
  BY <1>3 DEF Oldest
<1>5. FirstRow(S) \in Oldest(S)
  BY <1>4 DEF FirstRow
<1>6. QED
  BY <1>5 DEF Oldest

\* The key of a new row is larger than every key in use.
LEMMA NewIdProperties ==
  ASSUME NEW N \in Nat, NEW table, Ids(table) \subseteq 0 .. N
  PROVE  /\ NewId(table) \in Nat
         /\ \A row \in table : row.id < NewId(table)
<1>1. CASE table = {}
  BY <1>1 DEF NewId
<1>2. CASE table # {}
  <2>1. Ids(table) # {}
    BY <1>2 DEF Ids
  <2>2. \E x \in Ids(table) : \A y \in Ids(table) : x >= y
    BY <2>1, GreatestExists
  <2>3. /\ Max(Ids(table)) \in Ids(table)
        /\ \A y \in Ids(table) : Max(Ids(table)) >= y
    BY <2>2 DEF Max
  <2>4. \A row \in table : row.id \in Ids(table)
    BY DEF Ids
  <2>5. QED
    BY <1>2, <2>3, <2>4 DEF NewId
<1>3. QED
  BY <1>1, <1>2

-------------------------------------------------------------------------------
(* What the statements on MEMBERS do to the permission of every user.      *)

\* A row added makes a member of its user, and a ban of nobody.
LEMMA IsMemberAfterAdd ==
  ASSUME NEW members, NEW u, NEW r, NEW v, NEW s
  PROVE  IsMember(AddMember(members, u, r), v, s) <=>
           (v = u /\ s = r) \/ IsMember(members, v, s)
<1> DEFINE row == [id |-> NewId(MemberRows(members, u, r)), room |-> r, user |-> u,
                   perm |-> "ordinary"]
<1>1. AddMember(members, u, r) = members \cup {row} /\ row.user = u /\ row.room = r
  BY DEF AddMember
<1>2. \A table : IsMember(table, v, s) <=> \E m \in table : m.user = v /\ m.room = s
  BY DEF IsMember, MemberRows
<1>3. QED
  BY <1>1, <1>2

LEMMA IsMemberAfterBan ==
  ASSUME NEW members,
         \A m \in members : m = [id |-> m.id, room |-> m.room, user |-> m.user, perm |-> m.perm],
         NEW r, NEW u, NEW v, NEW s
  PROVE  IsMember(EditMemberType(members, r, u, "banned"), v, s) <=> IsMember(members, v, s)
<1> DEFINE Edited(m) == IF m.room = r /\ m.user = u THEN [m EXCEPT !.perm = "banned"] ELSE m
<1>1. \A m \in members : Edited(m).room = m.room /\ Edited(m).user = m.user
  OBVIOUS
<1>2. EditMemberType(members, r, u, "banned") = {Edited(m) : m \in members}
  BY DEF EditMemberType
<1>3. \A table : IsMember(table, v, s) <=> \E m \in table : m.user = v /\ m.room = s
  BY DEF IsMember, MemberRows
<1> HIDE DEF Edited
<1>4. QED
  BY <1>1, <1>2, <1>3

\* A row added for a user who has none makes an ordinary member; a further row
\* changes nothing, for the oldest row decides.
LEMMA MemberTypeAfterAdd ==
  ASSUME NEW N \in Nat, NEW members, \A m \in members : m.id \in 0 .. N,
         NEW u, NEW r, NEW v, NEW s
  PROVE  MemberType(AddMember(members, u, r), v, s) =
           IF v = u /\ s = r /\ ~IsMember(members, u, r)
             THEN "ordinary" ELSE MemberType(members, v, s)
<1> DEFINE rows == MemberRows(members, u, r)
           row == [id |-> NewId(rows), room |-> r, user |-> u, perm |-> "ordinary"]
           after == AddMember(members, u, r)
<1>1. after = members \cup {row} /\ row.user = u /\ row.room = r
      /\ row.perm = "ordinary" /\ row.id = NewId(rows)
  BY DEF AddMember
<1>2. CASE ~(v = u /\ s = r)
  <2>1. MemberRows(after, v, s) = MemberRows(members, v, s)
    BY <1>1, <1>2 DEF MemberRows
  <2>2. QED
    BY <1>2, <2>1 DEF MemberType, IsMember
<1>3. CASE v = u /\ s = r
  <2>1. MemberRows(after, v, s) = rows \cup {row}
    BY <1>1, <1>3 DEF MemberRows
  <2>2. CASE rows = {}
    <3>1. NewId(rows) = 1 /\ row.id = 1
      BY <1>1, <2>2 DEF NewId
    <3>2. Oldest({row}) = {row}
      BY <1>1, <3>1 DEF Oldest
    <3>3. FirstRow({row}) = row
      BY <3>2 DEF FirstRow
    <3>4. QED
      BY <1>1, <1>3, <2>1, <2>2, <3>3 DEF MemberType, IsMember
  <2>3. CASE rows # {}
    <3>1. \A m \in rows : m.id \in 0 .. N
      BY DEF MemberRows
    <3>2. Ids(rows) \subseteq 0 .. N
      BY <3>1 DEF Ids
    <3>3. NewId(rows) \in Nat /\ \A m \in rows : m.id < NewId(rows)
      BY <3>2, NewIdProperties
    <3>4. Oldest(rows \cup {row}) = Oldest(rows)
      <4>1. PICK m \in rows : TRUE
        BY <2>3
      <4>2. ~(row.id <= m.id)
        BY <1>1, <3>1, <3>3
      <4>3. row \notin Oldest(rows \cup {row})
        BY <4>2 DEF Oldest
      <4>4. \A x \in rows : x.id <= row.id
        BY <1>1, <3>1, <3>3
      <4>5. QED
        BY <4>3, <4>4 DEF Oldest
    <3>5. FirstRow(rows \cup {row}) = FirstRow(rows)
      BY <3>4 DEF FirstRow
    <3>6. MemberType(after, v, s) = FirstRow(rows).perm
      <4>1. rows \cup {row} # {}
        OBVIOUS
      <4>2. QED
        BY <2>1, <3>5, <4>1 DEF MemberType, IsMember
    <3>7. MemberType(members, v, s) = FirstRow(rows).perm /\ IsMember(members, u, r)
      BY <1>3, <2>3 DEF MemberType, IsMember
    <3>8. QED
      BY <3>6, <3>7
  <2>4. QED
    BY <2>2, <2>3
<1>4. QED
  BY <1>2, <1>3

\* A ban reaches every row of the user, and only where there is one.
LEMMA MemberTypeAfterBan ==
  ASSUME NEW members, \A m \in members : m.id \in Nat,
         \A m \in members : m = [id |-> m.id, room |-> m.room, user |-> m.user, perm |-> m.perm],
         NEW r, NEW u, NEW v, NEW s
  PROVE  MemberType(EditMemberType(members, r, u, "banned"), v, s) =
           IF v = u /\ s = r /\ IsMember(members, u, r)
             THEN "banned" ELSE MemberType(members, v, s)
<1> DEFINE after == EditMemberType(members, r, u, "banned")
           Edited(m) == IF m.room = r /\ m.user = u THEN [m EXCEPT !.perm = "banned"] ELSE m
<1>1. \A m \in members : /\ Edited(m).room = m.room /\ Edited(m).user = m.user
                         /\ Edited(m).id = m.id
                         /\ m.room = r /\ m.user = u => Edited(m).perm = "banned"
  OBVIOUS
<1>2. after = {Edited(m) : m \in members}
  BY DEF EditMemberType
<1>3. CASE ~(v = u /\ s = r)
  <2>1. MemberRows(after, v, s) = MemberRows(members, v, s)
    BY <1>1, <1>2, <1>3 DEF MemberRows
  <2>2. QED
    BY <1>3, <2>1 DEF MemberType, IsMember
<1>4. CASE v = u /\ s = r
  <2>1. MemberRows(after, v, s) = {Edited(m) : m \in MemberRows(members, u, r)}
    BY <1>1, <1>2, <1>4 DEF MemberRows
  <2>2. CASE MemberRows(members, u, r) = {}
    BY <1>4, <2>1, <2>2 DEF MemberType, IsMember
  <2>3. CASE MemberRows(members, u, r) # {}
    <3>1. /\ MemberRows(after, v, s) # {}
          /\ \A m \in MemberRows(after, v, s) : m.id \in Nat /\ m.perm = "banned"
      <4>1. \A n \in MemberRows(members, u, r) : /\ n \in members /\ n.room = r /\ n.user = u
                                                 /\ n.id \in Nat
        BY DEF MemberRows
      <4>2. \A n \in MemberRows(members, u, r) : /\ Edited(n).id \in Nat
                                                 /\ Edited(n).perm = "banned"
        BY <1>1, <4>1
      <4> HIDE DEF Edited, after
      <4>3. QED
        BY <2>1, <2>3, <4>2
    <3>2. FirstRow(MemberRows(after, v, s)) \in MemberRows(after, v, s)
      BY <3>1, FirstRowProperties
    <3>3. QED
      BY <1>4, <2>3, <3>1, <3>2 DEF MemberType, IsMember
  <2>4. QED
    BY <2>2, <2>3
<1>5. QED
  BY <1>3, <1>4

\* The end of a room makes everyone a stranger to it, and to no other room.
LEMMA MemberTypeAfterDelete ==
  ASSUME NEW members, NEW r, NEW v, NEW s
  PROVE  MemberType(WithoutRoom(members, r), v, s) =
           IF s = r THEN "none" ELSE MemberType(members, v, s)
<1>1. CASE s = r
  BY <1>1 DEF MemberType, IsMember, MemberRows, WithoutRoom
<1>2. CASE s # r
  <2>1. MemberRows(WithoutRoom(members, r), v, s) = MemberRows(members, v, s)
    BY <1>2 DEF MemberRows, WithoutRoom
  <2>2. QED
    BY <1>2, <2>1 DEF MemberType, IsMember
<1>3. QED
  BY <1>1, <1>2
===============================================================================
