---------------------------- MODULE MCRadiusCall ----------------------------
(* Model checking of RadiusCall. *)
EXTENDS RadiusCall

\* Routes from RADIUS with an rtpproxy, a static route without accounting, and a
\* static route with accounting and no authorisation.
MCConfigs == {[auth |-> TRUE, acct |-> TRUE, static |-> FALSE, rtpp |-> TRUE],
              [auth |-> TRUE, acct |-> FALSE, static |-> TRUE, rtpp |-> FALSE],
              [auth |-> FALSE, acct |-> TRUE, static |-> TRUE, rtpp |-> FALSE]}
=============================================================================
