-------------------------------- MODULE MCJson --------------------------------
EXTENDS JsonTree, TLC

MCLower == [k \in Key |-> IF k = "Id" THEN "id" ELSE k]

Cells == Permutations(Item)
===============================================================================
