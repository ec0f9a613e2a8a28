---------------------------- MODULE Registration ----------------------------
(***************************************************************************)
(* SipRegistrationAgent, the stateful proxy that its REGISTER goes through *)
(* and a registrar, which is not part of the repository; what it does with *)
(* credentials is what the digest code of the repository does.             *)
(*                                                                         *)
(* The agent's handlers run under its lock, StopRegister too: its caller   *)
(* is taken to hold it.  A transaction delivers one final response to the  *)
(* agent, 408 after 32 s without one (module ClientTransaction).           *)
(***************************************************************************)
EXTENDS Digest, FiniteSets, Sequences, SequencesExt

CONSTANTS
    NonceIds,   \* nonces that exist at a time
    Offers      \* the lists of algorithms a registrar may challenge with

ASSUME RegistrationAssumption == IsFiniteSet(NonceIds) /\ Offers \subseteq Seq(STRING)

VARIABLES
    passw,      \* the password of the agent, or "none"
    asks,       \* how it is challenged: "WWW-Authenticate" or "Proxy-Authenticate"
    started, dead,
    atries,     \* attempts at authentication in this round
    Rmsg,       \* the two headers for credentials of the REGISTER
    timer,      \* what waits to call DoRegister: "none", "refresh", "retry"
    req,        \* those of the REGISTER on its way
    at,         \* where it or its answer is
    resp,       \* the answer
    age,        \* of every nonce
    stale,      \* history: answers of this round refused because the nonce had
                \* run out or the algorithm is unknown
    failed,     \* history: the last round ended with a 401 for no reason
    abandoned,  \* history: HandleAuth could not read the challenge
    silent      \* history: no transaction could be made for a REGISTER

agentVars == <<passw, asks, started, dead, atries, Rmsg, timer, req, at, resp, age, stale, failed,
          abandoned, silent>>

NoHeader == [algorithm |-> "no header"]
Has(auth) == auth.algorithm # "no header"

\* The headers of a message that credentials are in.
NoCredentials == [sip_authorization |-> NoHeader, sip_proxy_authorization |-> NoHeader]

\* A header for credentials takes the place of the old one and of the other kind.
AppendHeader(kind, auth) == [NoCredentials EXCEPT ![kind] = auth]

\* The header that answers a challenge of this kind.
aclass(asked) == IF asked = "WWW-Authenticate" THEN "sip_authorization"
                 ELSE "sip_proxy_authorization"
Credentials(msg) == msg[aclass(asks)]
FinalCodes == {"200", "auth failed", "401 or 407", "403", "408"}

Right == "right"    \* the password the registrar knows
Answer(code, chs) == [code |-> code, challenges |-> chs]
NoAnswer == Answer("none", <<>>)

AgentInit ==
    /\ passw \in {Right, "wrong", "none"}
    /\ asks \in {"WWW-Authenticate", "Proxy-Authenticate"}
    /\ started = FALSE /\ dead = FALSE
    /\ atries = 0 /\ Rmsg = NoCredentials /\ timer = "none"
    /\ req = NoCredentials /\ at = "nowhere" /\ resp = NoAnswer
    /\ age = [n \in NonceIds |-> 0]
    /\ stale = 0 /\ failed = FALSE /\ abandoned = FALSE /\ silent = FALSE

-----------------------------------------------------------------------------
(* The agent *)

\* A new transaction with the headers of msg, as the other side will read them.
\* When none can be made (no local server for the destination, or its address
\* cannot be determined) that is logged: nothing is sent, and no timer started.
DoRegister(msg) ==
    \/ dead /\ UNCHANGED <<req, at, resp, silent>>
    \/ /\ ~dead
       /\ req' = [kind \in DOMAIN msg |->
                     IF Has(msg[kind]) THEN parseSipAuthorizationBody(String(msg[kind]))
                                       ELSE NoHeader]
       /\ at' = "proxy" /\ resp' = NoAnswer
       /\ UNCHANGED silent
    \/ /\ ~dead
       /\ at' = "nowhere" /\ resp' = NoAnswer
       /\ silent' = TRUE
       /\ UNCHANGED req

Begin ==
    /\ ~started
    /\ started' = TRUE
    /\ DoRegister(Rmsg)
    /\ UNCHANGED <<passw, asks, dead, atries, Rmsg, timer, age, stale, failed, abandoned>>

\* The timer of RecvResponse.
Timer ==
    /\ timer # "none"
    /\ timer' = "none"
    /\ DoRegister(Rmsg)
    /\ UNCHANGED <<passw, asks, started, dead, atries, Rmsg, age, stale, failed, abandoned>>

StopRegister ==
    /\ started /\ ~dead
    /\ dead' = TRUE
    /\ UNCHANGED <<passw, asks, started, atries, Rmsg, timer, req, at, resp, age, stale,
                   failed, abandoned, silent>>

\* The first challenge is answered whatever its algorithm.  A challenge without
\* parameters cannot be read: nothing is sent and no timer started.
HandleAuth(challenges) ==
    IF ~Parses(challenges[1])
    THEN /\ abandoned' = TRUE /\ at' = "nowhere"
         /\ UNCHANGED <<atries, Rmsg, req, resp, silent>>
    ELSE LET auth == GenAuthHF(challenges[1], passw, "REGISTER")
         IN  /\ Rmsg' = AppendHeader(aclass(asks), auth)
             /\ atries' = atries + 1
             /\ DoRegister(Rmsg')
             /\ UNCHANGED abandoned

\* A round that ends with a challenge although the agent has the password.
Unjustified == resp.code = "401 or 407" /\ passw = Right /\ resp.challenges # <<>>

Retries(k) ==
    /\ timer' = k
    /\ atries' = 0 /\ stale' = 0
    /\ at' = "nowhere"
    /\ UNCHANGED <<Rmsg, req, resp, abandoned, silent>>

Received == started /\ at = "agent"

\* After the agent is dead, a provisional response too.
IgnoredResponse ==
    /\ Received
    /\ dead \/ resp.code = "1xx"
    /\ at' = IF dead THEN "nowhere" ELSE "registrar"
    /\ resp' = NoAnswer
    /\ UNCHANGED <<passw, asks, started, dead, atries, Rmsg, timer, req, age, stale, failed,
                   abandoned, silent>>

\* Mutant: the attempts of the round that succeeded count for the next one.
RecvOK_KeepsTries ==
    /\ Received /\ ~dead /\ resp.code = "200"
    /\ timer' = "refresh" /\ stale' = 0 /\ at' = "nowhere"
    /\ UNCHANGED <<passw, asks, started, dead, atries, Rmsg, req, resp, age, failed, abandoned, silent>>

\* The next REGISTER goes out when this one has expired.
RecvOK ==
    /\ Received /\ ~dead /\ resp.code = "200"
    /\ Retries("refresh")
    /\ UNCHANGED <<passw, asks, started, dead, age, failed>>

\* A challenge is answered up to three times in a round.
RecvChallenge ==
    /\ Received /\ ~dead /\ resp.code = "401 or 407" /\ passw # "none" /\ atries < 3
    /\ resp.challenges # <<>>
    /\ HandleAuth(resp.challenges)
    /\ UNCHANGED <<passw, asks, started, dead, timer, age, stale, failed>>

\* Mutant: no timer after a failure.
RecvFailure_GivesUp ==
    /\ Received /\ ~dead /\ resp.code \in FinalCodes \ {"200"}
    /\ resp.code = "401 or 407" => passw = "none" \/ atries = 3 \/ resp.challenges = <<>>
    /\ Retries("none")
    /\ failed' = (Unjustified /\ stale < 3)
    /\ UNCHANGED <<passw, asks, started, dead, age>>

\* Anything else is a failure: again after 60 s.
RecvFailure ==
    /\ Received /\ ~dead /\ resp.code \in FinalCodes \ {"200"}
    /\ resp.code = "401 or 407" => passw = "none" \/ atries = 3 \/ resp.challenges = <<>>
    /\ Retries("retry")
    /\ failed' = (Unjustified /\ stale < 3)
    /\ UNCHANGED <<passw, asks, started, dead, age>>

\* Nothing came for 32 s.
TransactionTimeout ==
    /\ at \in {"proxy", "registrar", "back"}
    /\ at' = "agent" /\ resp' = Answer("408", <<>>)
    /\ UNCHANGED <<passw, asks, started, dead, atries, Rmsg, timer, req, age, stale, failed,
                   abandoned, silent>>

-----------------------------------------------------------------------------
(* The stateful proxy *)

\* A Via is put on top and a client transaction made for the request.
ProxyRequest ==
    /\ at = "proxy" /\ at' = "registrar"
    /\ UNCHANGED <<passw, asks, started, dead, atries, Rmsg, timer, req, resp, age, stale,
                   failed, abandoned, silent>>

\* Every response, and the 408 of that transaction, goes back.
ProxyResponse ==
    /\ \/ at = "back" /\ UNCHANGED resp
       \/ at = "registrar" /\ resp' = Answer("408", <<>>)
    /\ at' = "agent"
    /\ UNCHANGED <<passw, asks, started, dead, atries, Rmsg, timer, req, age, stale, failed,
                   abandoned, silent>>

-----------------------------------------------------------------------------
(* The registrar *)

Answers(answer) == at = "registrar" /\ at' = "back" /\ resp' = answer

Good == LET auth == Credentials(req)
        IN  Has(auth) /\ Verify(auth, Right, "REGISTER", age[auth.nonce.id])

RegistrarAccepts ==
    /\ Answers(Answer("200", <<>>))
    /\ Good
    /\ UNCHANGED <<passw, asks, started, dead, atries, Rmsg, timer, req, age, stale, failed,
                   abandoned, silent>>

\* Nonces that no message holds.
FreeIds == NonceIds \ ({c.nonce.id : c \in ToSet(resp.challenges)}
                       \cup {Rmsg[kind].nonce.id : kind \in {k \in DOMAIN Rmsg : Has(Rmsg[k])}})

RegistrarChallenges ==
    /\ at = "registrar" /\ ~Good
    /\ \E offer \in Offers :
         LET ids == SetToSeq(FreeIds)
             chs == [i \in DOMAIN offer |-> Challenge(offer[i], ids[i])]
         IN  /\ Len(ids) >= Len(offer)
             /\ Answers(Answer("401 or 407", chs))
             /\ age' = [n \in NonceIds |-> IF \E i \in DOMAIN offer : ids[i] = n THEN 0
                                           ELSE age[n]]
    /\ stale' = IF /\ atries > 0
                   /\ LET auth == Credentials(Rmsg)
                      IN  age[auth.nonce.id] > VTime \/ ~Supported(auth.algorithm)
                THEN stale + 1 ELSE stale
    /\ UNCHANGED <<passw, asks, started, dead, atries, Rmsg, timer, req, failed, abandoned, silent>>

RegistrarRefuses ==
    /\ \E code \in {"1xx", "403", "auth failed"} : Answers(Answer(code, <<>>))
    /\ UNCHANGED <<passw, asks, started, dead, atries, Rmsg, timer, req, age, stale, failed,
                   abandoned, silent>>

Tick ==
    /\ age' = [n \in NonceIds |-> IF age[n] > VTime THEN age[n] ELSE age[n] + 1]
    /\ UNCHANGED <<passw, asks, started, dead, atries, Rmsg, timer, req, at, resp, stale,
                   failed, abandoned, silent>>

AgentNext ==
    \/ Begin \/ Timer \/ StopRegister
    \/ IgnoredResponse \/ RecvOK \/ RecvChallenge \/ RecvFailure \/ TransactionTimeout
    \/ ProxyRequest \/ ProxyResponse
    \/ RegistrarAccepts \/ RegistrarChallenges \/ RegistrarRefuses
    \/ Tick

AgentSpec == AgentInit /\ [][AgentNext]_agentVars

\* Timers fire and the agent handles what it gets; the proxy and the registrar
\* may lose every message.
Fairness ==
    /\ WF_agentVars(Begin) /\ WF_agentVars(Timer)
    /\ WF_agentVars(IgnoredResponse) /\ WF_agentVars(RecvOK) /\ WF_agentVars(RecvChallenge) /\ WF_agentVars(RecvFailure)
    /\ WF_agentVars(TransactionTimeout)
FairSpec == AgentSpec /\ Fairness

-----------------------------------------------------------------------------
(* Properties *)

\* An agent with the right password reports failure after a challenge only if it
\* answered three in that round whose nonces then ran out or whose algorithm it
\* does not know: earlier rounds do not use up its attempts (atries), and an old
\* Authorization header is replaced, not sent along (AppendHeader).
FailureJustified == ~failed

\* The agent goes on registering (RecvResponse, DoRegister), until it is stopped
\* or meets a challenge that it cannot read, or no transaction can be made for a
\* REGISTER: DoRegister then leaves no timer behind, and the agent is silent for
\* good.  A registrar that sends provisional responses without end keeps the
\* transaction open: each restarts timer B.
KeepsRegistering ==
    []<>(at = "proxy") \/ <>(dead \/ abandoned \/ silent) \/ []<>(resp.code = "1xx")
=============================================================================
