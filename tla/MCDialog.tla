------------------------------ MODULE MCDialog ------------------------------
(* A chain of two proxies and two peers that the INVITE may be forked to. *)
EXTENDS Dialog
MCChain == <<"p1", "p2">>
=============================================================================
