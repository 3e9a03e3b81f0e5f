SPECIFICATION Spec
CONSTANTS
    Word <- MCWord
    Number <- MCNumber
    Unit <- MCUnit
    Typed <- MCTyped
    IntMax = 90
    NestingLimit = 2
    FirstSize = 4
    MaxItems = 2
    Typing <- MCTyping
    Marking <- MCMarking
    Login <- MCLogin
    File <- MCFile
    Info <- MCInfo
    Argument <- MCArgument
    MaxMessage = 3
    MaxDesc = 3
    MaxName = 2
    MaxRoomName = 3
    MinLogin = 2
    MaxLogin = 3
INVARIANTS TextsKeepMeaning BuffersHold TextsArrive
