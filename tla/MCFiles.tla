-------------------------------- MODULE MCFiles --------------------------------
(* Instances of FileTransfer for TLC.                                      *)
EXTENDS FileTransfer, TLC

Symmetry == Permutations(Client)
===============================================================================
