--------------------------- MODULE MCRegistration ---------------------------
(* Model checking of Registration. *)
EXTENDS Registration

\* One algorithm, two, one that the agent does not know before one it does, none,
\* and a challenge without parameters.
MCOffers == {<<"">>, <<"md5-sess", "sha-256">>, <<"other", "md5">>, <<>>, <<"malformed">>}
=============================================================================
