------------------------ MODULE MCServerTransaction ------------------------
(* ServerTransaction with TLC's values: see the .cfg files.                 *)
EXTENDS ServerTransaction
=============================================================================
