SPECIFICATION Spec
CONSTANTS
  u1 = u1
  u2 = u2
  User <- Users
  Name = {n}
  Text = {a}
  Empty = empty
  Ops <- HostAndGuest
  MaxRoom = 2
  MaxMsg = 1
  MaxBacklog = 2
  MaxRows = 2
  MaxTime = 3
INVARIANTS TypeOK
PROPERTIES BanSticks OrphansOnlyByCrash ImplementsMembership
