------------------------------- MODULE MCB2bCall -------------------------------
(* B2bCall with TLC's values: see the .cfg files.                           *)
EXTENDS B2bCall
=============================================================================
