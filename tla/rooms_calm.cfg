SPECIFICATION CalmSpec
CONSTANTS
  u1 = u1
  u2 = u2
  User <- Users
  Name = {n}
  Text = {a}
  Empty = empty
  Ops <- Visitors
  MaxRoom = 2
  MaxMsg = 1
  MaxBacklog = 2
  MaxRows = 2
  MaxTime = 3
INVARIANTS ScreensAgree MembershipIsSound
PROPERTIES OnlyOwnersRule
