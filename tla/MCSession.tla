-------------------------------- MODULE MCSession --------------------------------
(* Instances of Session for TLC.                                           *)
EXTENDS Session, TLC

Symmetry == Permutations(Client) \cup Permutations(Login) \cup Permutations(Pass)
===============================================================================
