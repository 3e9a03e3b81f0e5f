SPECIFICATION Spec
CONSTANTS
  r1 = r1
  r2 = r2
  None = None
  Room <- Rooms
  Mine = {r2}
  Msg = {1, 2, 3, 4}
  RoomOf <- RoomOfMsg
  Own = {2, 4}
  NotEdit = {4}
  BufMsgs = 1
  MaxCount = 2
INVARIANTS SelectionAgrees EditingIsSafe WhatIsSentWasMeant
PROPERTIES AsksWhatItShows
CHECK_DEADLOCK FALSE
