-------------------------------- MODULE MCClient -------------------------------
(* An instance of ClientRooms for TLC: what is typed finds the room in one   *)
(* case and not in the other.                                                *)
EXTENDS ClientRooms, TLC

Name == <<"A", "_">>

TypedTexts == {<<"a">>, <<"_">>}

Symbols == {"a", "A", "b", "%", "_", "\\"}
===============================================================================
