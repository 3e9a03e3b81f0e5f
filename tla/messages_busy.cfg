SPECIFICATION FairSpec
CONSTANTS
  u1 = u1
  u2 = u2
  User <- Users
  Name = {n, empty}
  Text = {a, b}
  Empty = empty
  Ops <- Writers
  MaxRoom = 1
  MaxMsg = 2
  MaxBacklog = 2
  MaxRows = 2
  MaxTime = 2
INVARIANTS AuthorsAreMembers MessagesHaveRoom
PROPERTIES MessagesLeaveByAuthor BanTakesEffect
