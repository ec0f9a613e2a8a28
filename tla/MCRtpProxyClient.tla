-------------------------- MODULE MCRtpProxyClient --------------------------
(* Model checking of RtpProxyClient. *)
EXTENDS RtpProxyClient
=============================================================================
