------------------------------ MODULE Membership ------------------------------
(***************************************************************************)
(* What the server promises about membership, whatever its tables, queues  *)
(* and clock do: a user who has nothing to do with a room can be let in; a *)
(* user who is in can be banned; and nobody is ever let back in, or out,   *)
(* but by the end of the room, which makes everyone a stranger to it.      *)
(***************************************************************************)
CONSTANTS User, Room

VARIABLE status  \* status[u][r]: what user u is to room r

Status == {"none", "ordinary", "banned"}

TypeOK == status \in [User -> [Room -> Status]]

Init == status = [u \in User |-> [r \in Room |-> "none"]]

Admit(u, r) ==
  /\ status[u][r] = "none"
  /\ status' = [status EXCEPT ![u][r] = "ordinary"]

Ban(u, r) ==
  /\ status[u][r] = "ordinary"
  /\ status' = [status EXCEPT ![u][r] = "banned"]

\* Only a member that is not banned can end a room.
Dissolve(u, r) ==
  /\ status[u][r] = "ordinary"
  /\ status' = [v \in User |-> [status[v] EXCEPT ![r] = "none"]]

Next == \E u \in User, r \in Room : Admit(u, r) \/ Ban(u, r) \/ Dissolve(u, r)

Spec == Init /\ [][Next]_status
===============================================================================
