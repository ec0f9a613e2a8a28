------------------------- MODULE MCRtpProxySession -------------------------
(* TLC instance of RtpProxySession; the constants are in the .cfg files.     *)
EXTENDS RtpProxySession
=============================================================================
