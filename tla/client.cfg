SPECIFICATION FairSpec
CONSTANTS
  User = {me, a}
  Me = me
  None = None
  RoomName <- Name
  Typed <- TypedTexts
  Symbol <- Symbols
  MaxLines = 2
  MaxAsked = 2
CHECK_DEADLOCK FALSE
INVARIANTS MembersAgree LinesFindTheirRoom OffersAndFindsFit SearchesAgree
PROPERTIES MembersArrive
