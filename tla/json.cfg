SPECIFICATION Spec
CONSTANTS
    Item = {c1, c2, c3, c4}
    Leaf = {one}
    Key = {"id", "Id"}
    Lower <- MCLower
    MaxIndex = 1
    MaxList = 2
    NULL = NULL
SYMMETRY Cells
INVARIANTS ListsAreWhole ReadersAgree CallsActOnSequences
PROPERTIES OrderStays
