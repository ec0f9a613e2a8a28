------------------------ MODULE MCClientTransaction ------------------------
(* ClientTransaction with TLC's values: see the .cfg files.                 *)
EXTENDS ClientTransaction
=============================================================================
