-------------------------------- MODULE MCScreen --------------------------------
(* An instance of ClientScreen for TLC: a room with a message of another   *)
(* member and one of the user's own, and a room that the user rules with   *)
(* a message of another member and a sticker of the user's own.            *)
EXTENDS ClientScreen, TLC

CONSTANTS r1, r2

Rooms == {r1, r2}
RoomOfMsg == 1 :> r1 @@ 2 :> r1 @@ 3 :> r2 @@ 4 :> r2
===============================================================================
