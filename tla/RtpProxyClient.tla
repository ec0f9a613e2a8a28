--------------------------- MODULE RtpProxyClient ---------------------------
(***************************************************************************)
(* The client of one rtpproxy: the version check, the capability queries   *)
(* and the heartbeat of Rtp_proxy_client_base, over one of its two         *)
(* transports.  The UDP transport retransmits and gives up; the stream     *)
(* transport has workers that retry and then report "".                    *)
(*                                                                         *)
(* Callbacks run in the goroutine of a timer, of a worker of the UDP       *)
(* server or of a stream worker, and take no lock: each is two steps here, *)
(* one that reads the shared fields (saw) and one that writes them.        *)
(***************************************************************************)
EXTENDS Integers, FiniteSets

CONSTANTS
    MaxReqs,    \* requests in progress at a time
    NCaps,      \* entries of CAPSTABLE (5)
    MaxTries,   \* retransmissions of a request: nretr - 1
    MaxTimers   \* timers of one kind that are told apart

ASSUME RtpProxyClientAssumption ==
    /\ MaxReqs \in Nat \ {0} /\ NCaps \in Nat \ {0}
    /\ MaxTries \in Nat /\ MaxTimers \in Nat \ {0}

Slots == 1..MaxReqs
Kinds == {"V", "VF", "I", "cmd"}
\* The part of the address before the colon chooses the transport.
rtpp_class == [p \in {"udp", "udp6", "tcp", "tcp6", "unix", "cunix", "none"} |->
                 IF p \in {"udp", "udp6"} THEN "udp" ELSE "stream"]

\* A request.  st: "sending" before it is in pending_requests, "sent" while it
\* waits for an answer, "giveup" and "callback" while a goroutine has it.
\* reg: in pending_requests.  resend: retransmit is between unlock and its end.
\* An answer is "ok", "bad" (not what was asked for) or "" (none).
Requests == [k : Kinds,
             st : {"sending", "sent", "giveup", "callback", "done"},
             reg : BOOLEAN, timer : BOOLEAN, resend : BOOLEAN, tries : 0..MaxTries,
             res : {"ok", "bad", ""}, saw : [online : BOOLEAN, received : 0..NCaps],
             calls : 0..2]

VARIABLES
    transport,      \* "udp" or "stream"
    online,
    caps_done,
    caps_received,
    shut_down,
    req,            \* the requests
    vtimers,        \* timers that call version_check (60 s)
    htimers         \* timers that call heartbeat (1 s)

vars == <<transport, online, caps_done, caps_received, shut_down, req, vtimers, htimers>>

TypeOK ==
    /\ transport \in {"udp", "stream"}
    /\ online \in BOOLEAN /\ caps_done \in BOOLEAN /\ shut_down \in BOOLEAN
    /\ caps_received \in 0..NCaps
    /\ req \in [Slots -> Requests]
    /\ vtimers \in 0..MaxTimers /\ htimers \in 0..MaxTimers

\* What the callback of a request of kind k reads of the shared fields.
Blank == [online |-> FALSE, received |-> 0]
Read(k) == [online |-> online /\ k \in {"V", "I"},
            received |-> IF k = "VF" THEN caps_received ELSE 0]

\* Send_command.  UDP: the timer is started and the datagram sent before the
\* request enters pending_requests.  Stream: the request is in the channel.
NewRequest(k) ==
    [k |-> k, st |-> IF transport = "udp" THEN "sending" ELSE "sent",
     reg |-> transport = "stream", timer |-> transport = "udp", resend |-> FALSE,
     tries |-> MaxTries, res |-> "", saw |-> Blank,
     calls |-> 0]

\* n requests of kind k are sent, in a state where the requests are rs.
Free(rs) == {r \in Slots : /\ rs[r].st = "done"
                           /\ ~rs[r].timer /\ ~rs[r].resend}
Room(rs, n) == Cardinality(Free(rs)) >= n
Sending(rs, k, n) ==
    LET new == CHOOSE S \in SUBSET Free(rs) :
                 /\ Cardinality(S) = n
                 /\ \A r \in S, q \in Free(rs) \ S : r < q
    IN  [r \in Slots |-> IF r \in new THEN NewRequest(k) ELSE rs[r]]

More(timers) == IF timers < MaxTimers THEN timers + 1 ELSE timers

Start ==
    [r \in Slots |-> [NewRequest("V") EXCEPT
        !.st = IF r = 1 THEN @ ELSE "done",
        !.k = IF r = 1 THEN @ ELSE "cmd", !.tries = IF r = 1 THEN @ ELSE 0,
        !.calls = IF r = 1 THEN 0 ELSE 1, !.reg = r = 1 /\ @, !.timer = r = 1 /\ @]]

Init ==
    /\ \E p \in DOMAIN rtpp_class : transport = rtpp_class[p]
    /\ online = FALSE /\ caps_done = FALSE /\ shut_down = FALSE
    /\ caps_received = 0
    /\ req = Start
    /\ vtimers = 0 /\ htimers = 0

InProgress(r, k) == req[r].k = k /\ req[r].st # "done"

\* The answers that are told apart: the version that was asked for, or not.
Answers(k) == IF k = "V" THEN {"ok", "bad"} ELSE {"ok"}

-----------------------------------------------------------------------------
(* The UDP transport *)

\* The end of Send_command.
Register(r) ==
    /\ req[r].st = "sending"
    /\ req' = [req EXCEPT ![r].st = "sent", ![r].reg = TRUE]
    /\ UNCHANGED <<transport, online, caps_done, caps_received, shut_down, vtimers, htimers>>

\* The timer of a request fires.  A request that is not in pending_requests yet
\* loses its timer for good.
retransmit(r) ==
    /\ transport = "udp" /\ req[r].timer
    /\ LET off == [req EXCEPT ![r].timer = FALSE]
       IN  \/ ~req[r].reg /\ req' = off
           \/ /\ req[r].reg /\ (req[r].tries = 0 \/ shut_down)
              /\ req' = [off EXCEPT ![r].reg = FALSE, ![r].st = "giveup",
                                  ![r].saw = [Blank EXCEPT !.online = online]]
           \/ /\ req[r].reg /\ req[r].tries > 0 /\ ~shut_down
              /\ req' = [off EXCEPT ![r].resend = TRUE]
    /\ UNCHANGED <<transport, online, caps_done, caps_received, shut_down, vtimers, htimers>>

\* The rest of retransmit, after the unlock: an answer may have come meanwhile.
\* Mutant: the timer is not started again.
Resend_NoTimer(r) ==
    /\ req[r].resend
    /\ req' = [req EXCEPT ![r].resend = FALSE, ![r].tries = 0]
    /\ UNCHANGED <<transport, online, caps_done, caps_received, shut_down, vtimers, htimers>>

Resend(r) ==
    /\ req[r].resend
    /\ req' = [req EXCEPT ![r].resend = FALSE, ![r].timer = TRUE, ![r].tries = IF req[r].st = "sent" THEN @ - 1 ELSE @]
    /\ UNCHANGED <<transport, online, caps_done, caps_received, shut_down, vtimers, htimers>>

\* An answer, the first one or a duplicate: only a request that is still in
\* pending_requests is looked at.
\* Mutant: the entry stays.
process_reply_Keeps(r, res) ==
    /\ transport = "udp" /\ ~shut_down
    /\ req[r].reg
    /\ req' = [req EXCEPT ![r].timer = FALSE, ![r].st = "callback",
                          ![r].res = res, ![r].saw = Read(req[r].k)]
    /\ UNCHANGED <<transport, online, caps_done, caps_received, shut_down, vtimers, htimers>>

process_reply(r, res) ==
    /\ transport = "udp" /\ ~shut_down
    /\ req[r].reg
    /\ req' = [req EXCEPT ![r].reg = FALSE, ![r].timer = FALSE, ![r].st = "callback",
                          ![r].res = res, ![r].saw = Read(req[r].k)]
    /\ UNCHANGED <<transport, online, caps_done, caps_received, shut_down, vtimers, htimers>>

\* Given up: GoOffline, then the callback with "".
GiveUp(r) ==
    /\ req[r].st = "giveup"
    /\ LET goes == ~shut_down /\ req[r].saw.online
       IN  /\ online' = (online /\ ~goes)
           /\ vtimers' = IF goes THEN More(vtimers) ELSE vtimers
    /\ req' = [req EXCEPT ![r].st = "callback",
                          ![r].saw = [Read(req[r].k) EXCEPT !.online = @ /\ online']]
    /\ UNCHANGED <<transport, caps_done, caps_received, shut_down, htimers>>

-----------------------------------------------------------------------------
(* The stream transport *)

\* A worker: send_raw returned an answer, or an error after its retries.
Worker(r, res) ==
    /\ transport = "stream" /\ req[r].st = "sent"
    /\ req' = [req EXCEPT ![r].reg = FALSE, ![r].st = "callback",
                          ![r].res = res, ![r].saw = Read(req[r].k)]
    /\ UNCHANGED <<transport, online, caps_done, caps_received, shut_down, vtimers, htimers>>

-----------------------------------------------------------------------------
(* The callbacks, with what they read before they write *)

Finished(r) == [req EXCEPT ![r].st = "done", ![r].k = "cmd", ![r].saw = Blank, ![r].res = "",
                           ![r].tries = 0, ![r].calls = IF @ < 2 THEN @ + 1 ELSE @]
Callback(r, k) == req[r].st = "callback" /\ req[r].k = k

\* GoOnline; rs are the requests before it.  caps_done is read as it is now.
GoOnline(rs, isOnline) ==
    \/ /\ shut_down \/ isOnline
       /\ req' = rs /\ UNCHANGED online
    \/ /\ ~shut_down /\ ~isOnline /\ ~caps_done'
       /\ Room(rs, NCaps)
       /\ req' = Sending(rs, "VF", NCaps) /\ UNCHANGED online
    \/ /\ ~shut_down /\ ~isOnline /\ caps_done'
       /\ Room(rs, 1)
       /\ online' = TRUE /\ req' = Sending(rs, "I", 1)

\* Mutant: a failed version check is not repeated.
version_check_reply_Once(r) ==
    /\ Callback(r, "V")
    /\ UNCHANGED <<transport, caps_done, caps_received, shut_down, htimers>>
    /\ IF req[r].res = "ok"
       THEN GoOnline(Finished(r), req[r].saw.online) /\ UNCHANGED vtimers
       ELSE req' = Finished(r) /\ UNCHANGED <<online, vtimers>>

version_check_reply(r) ==
    /\ Callback(r, "V")
    /\ UNCHANGED <<transport, caps_done, caps_received, shut_down, htimers>>
    /\ \/ /\ req[r].res = "ok"
          /\ GoOnline(Finished(r), req[r].saw.online)
          /\ UNCHANGED vtimers
       \/ /\ req[r].res # "ok"
          /\ req' = Finished(r)
          /\ online' = (online /\ (shut_down \/ ~req[r].saw.online))
          /\ vtimers' = IF shut_down THEN vtimers ELSE More(vtimers)

\* caps_query_done: the counter is incremented without a lock.  Of two that see
\* the last value, the second changes nothing: the client is online, or rtpc is
\* nil and the panic is caught.
caps_query_done(r) ==
    /\ Callback(r, "VF")
    /\ caps_received' = req[r].saw.received + 1
    /\ caps_done' = (caps_done \/ caps_received' = NCaps)
    /\ IF caps_received' = NCaps THEN GoOnline(Finished(r), online)
                                 ELSE req' = Finished(r) /\ UNCHANGED online
    /\ UNCHANGED <<transport, shut_down, vtimers, htimers>>

\* Mutant: no new heartbeat after a good one.
heartbeat_reply_Stops(r) ==
    /\ Callback(r, "I")
    /\ req' = Finished(r)
    /\ LET fails == ~shut_down /\ req[r].saw.online /\ req[r].res = ""
       IN  /\ online' = (online /\ ~fails)
           /\ vtimers' = IF fails THEN More(vtimers) ELSE vtimers
           /\ htimers' = IF fails THEN More(htimers) ELSE htimers
    /\ UNCHANGED <<transport, caps_done, caps_received, shut_down>>

\* The heartbeat goes on after a failure, too: its next answer finds the client
\* off line and ends it.
heartbeat_reply(r) ==
    /\ Callback(r, "I")
    /\ req' = Finished(r)
    /\ LET looks == ~shut_down /\ req[r].saw.online
           fails == looks /\ req[r].res = ""
       IN  /\ online' = (online /\ ~fails)
           /\ vtimers' = IF fails THEN More(vtimers) ELSE vtimers
           /\ htimers' = IF looks THEN More(htimers) ELSE htimers
    /\ UNCHANGED <<transport, caps_done, caps_received, shut_down>>

\* The callback of a command of a session.
result_callback(r) ==
    /\ Callback(r, "cmd")
    /\ req' = Finished(r)
    /\ UNCHANGED <<transport, online, caps_done, caps_received, shut_down, vtimers, htimers>>

-----------------------------------------------------------------------------
(* Timers and the owner *)

HeartbeatPending == htimers > 0 \/ \E r \in Slots : InProgress(r, "I")

version_check ==
    /\ vtimers > 0
    /\ shut_down \/ Room(req, 1)
    /\ vtimers' = vtimers - 1
    /\ req' = IF shut_down THEN req ELSE Sending(req, "V", 1)
    /\ UNCHANGED <<transport, online, caps_done, caps_received, shut_down, htimers>>

heartbeat ==
    /\ htimers > 0
    /\ shut_down \/ Room(req, 1)
    /\ htimers' = htimers - 1
    /\ req' = IF shut_down THEN req ELSE Sending(req, "I", 1)
    /\ UNCHANGED <<transport, online, caps_done, caps_received, shut_down, vtimers>>

\* A session sends a command; it chose the client when it was on line.
SendCommand ==
    /\ ~shut_down /\ caps_done
    /\ Room(req, 1)
    /\ req' = Sending(req, "cmd", 1)
    /\ UNCHANGED <<transport, online, caps_done, caps_received, shut_down, vtimers, htimers>>

\* Shutdown closes the socket, or stops the workers once the requests before it
\* in the channel are served.
Shutdown ==
    /\ ~shut_down
    /\ transport = "stream" => \A r \in Slots : req[r].st \notin {"sent", "callback"}
    /\ \A r \in Slots : req[r].st # "sending" /\ ~req[r].resend
    /\ shut_down' = TRUE
    /\ UNCHANGED <<transport, online, caps_done, caps_received, req, vtimers, htimers>>

Next ==
    \/ \E r \in Slots :
         \/ Register(r) \/ retransmit(r) \/ Resend(r) \/ GiveUp(r)
         \/ \E res \in Answers(req[r].k) : process_reply(r, res) \/ Worker(r, res)
         \/ Worker(r, "")
         \/ version_check_reply(r) \/ caps_query_done(r)
         \/ heartbeat_reply(r) \/ result_callback(r)
    \/ version_check \/ heartbeat
    \/ SendCommand
    \/ Shutdown

Spec == Init /\ [][Next]_vars

\* Goroutines run and timers fire; the network and the rtpproxy may do nothing.
Fairness == \A r \in Slots :
    /\ WF_vars(Register(r)) /\ WF_vars(retransmit(r)) /\ WF_vars(Resend(r))
    /\ WF_vars(GiveUp(r) \/ version_check_reply(r) \/ caps_query_done(r)
                 \/ heartbeat_reply(r) \/ result_callback(r))
FairSpec == Spec /\ Fairness

-----------------------------------------------------------------------------
(* Properties *)

\* The callback of a command runs at most once: an answer, its duplicates and
\* the timer that gives up exclude each other (pending_requests).
CalledOnce == \A r \in Slots : req[r].calls <= 1

\* An increment of caps_received was lost: the client stays off line for ever.
CapsLost == caps_received < NCaps /\ ~(\E r \in Slots : InProgress(r, "VF"))

\* A client that is off line is on its way back: a version check is scheduled or
\* under way, or the capability queries are, or their count was spoilt by two
\* answers at a time (GoOffline, version_check_reply, caps_query_done).
WillReturn ==
    online \/ shut_down \/ vtimers > 0
      \/ (\E r \in Slots : InProgress(r, "V") \/ InProgress(r, "VF"))
      \/ (~caps_done /\ CapsLost)

\* A client that is on line is watched: a heartbeat is scheduled or under way.
\* GoOnline is the only one to start it; heartbeat_reply may read online before
\* another goroutine changes it.
OnlineIsWatched == online /\ ~shut_down => HeartbeatPending

\* A request whose timer fired before it was in pending_requests: nothing
\* retransmits it any more.
Stranded(r) == /\ req[r].st = "sent" /\ ~req[r].timer /\ ~req[r].resend
               /\ req[r].tries = MaxTries

\* Over UDP every command is answered or given up, even if the rtpproxy is gone,
\* unless its first timer fired before Send_command entered it in
\* pending_requests (Send_command, retransmit).
CommandEnds ==
    \A r \in Slots :
        (transport = "udp" /\ req[r].st # "done")
            ~> (req[r].st = "done" \/ Stranded(r))
=============================================================================
