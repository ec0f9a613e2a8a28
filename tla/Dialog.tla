------------------------------- MODULE Dialog -------------------------------
(***************************************************************************)
(* Where the requests of a call leg go.  A Ua learns its route set from    *)
(* the Record-Routes of the responses to its INVITE (or of the INVITE it   *)
(* receives), addresses every later request by it, and hands the client    *)
(* transaction of a re-INVITE what its ACK needs; for the first INVITE the *)
(* transaction works the route of the ACK out again by itself.  The        *)
(* keep-alive controller sends re-INVITEs of its own.                      *)
(*                                                                         *)
(* Between the Ua and its peer is a chain of proxies, which are not part   *)
(* of the repository: each may record its route, be a loose or a strict    *)
(* router, and the INVITE may be forked, so that responses come from       *)
(* different peers along different record-routes.                          *)
(*                                                                         *)
(* Only what decides on addresses is kept of the states of the Ua (module  *)
(* Ua has the rest); requests of the peer do not change a route set.       *)
(***************************************************************************)
EXTENDS Naturals, Sequences, SequencesExt

CONSTANTS
    Chain,      \* the proxies between the leg and its peer, nearest first
    Peers,      \* where the INVITE is forked to: a peer is its Contact
    MaxInv,     \* INVITEs the leg sends
    MaxTimers   \* keep-alive timers that run at a time

VARIABLES
    env,        \* the role of the leg, its outbound proxy, which proxies are
                \* loose routers, and the ones that record the route to a peer
    state,      \* of the Ua
    rt,         \* its rTarget, rAddr and routes
    trs,        \* its INVITE transactions, in the order they were made
    tr, ka_tr,  \* the one of the Ua and the one of the keep-alive controller
    pending_tr, \* the ACK that waits for a body, or NoMsg
    timers,     \* keep-alive timers that run
    peer,       \* history: who the dialog is with
    out         \* history: the requests sent by the last step

dialogVars == <<env, state, rt, trs, tr, ka_tr, pending_tr, timers, peer, out>>

Nobody == "none"
ASSUME DialogAssumption == Nobody \notin Peers
Proxies == ToSet(Chain)
Routing(target, addr, routes) == [rTarget |-> target, rAddr |-> addr, routes |-> routes]
\* The initial remote target: its address is rAddr0, which is not a proxy of Chain's.
Callee == "callee"

Msg(method, ruri, routes, dest, for) ==
    [method |-> method, ruri |-> ruri, routes |-> routes, dest |-> dest, for |-> for]
NoMsg == Msg(Nobody, Nobody, <<>>, Nobody, Nobody)

\* A transaction: its INVITE, its state, whether a CANCEL waits for the first
\* provisional response, SetUAck, and what SetAckRparams left.
NewTr(inv, ack) ==
    [inv |-> inv, state |-> "TRYING", cancelPending |-> FALSE, ack |-> ack]
NoRparams == Routing(Nobody, Nobody, <<>>)

\* Some of the proxies, in the order of the chain.
Subchains ==
    {s \in SeqOf(Proxies, Len(Chain)) : \A i, j \in 1..Len(s) : i < j =>
        \E a, b \in 1..Len(Chain) : a < b /\ Chain[a] = s[i] /\ Chain[b] = s[j]}

DialogInit ==
    /\ env \in [role : {"uac", "uas"}, obp : {Nobody, Head(Chain)}, lr : SUBSET Proxies,
                rr : [Peers -> Subchains]]
    /\ env.obp = Nobody \/ env.obp \in env.lr
    /\ state = "Idle"
    /\ rt = Routing(Nobody, Nobody, <<>>)
    /\ trs = <<>> /\ tr = 0 /\ ka_tr = 0 /\ pending_tr = NoMsg
    /\ timers = 0 /\ peer = Nobody /\ out = {}

-----------------------------------------------------------------------------
(* The proxies *)

Recorded(p) == env.rr[p]

Strict(p, m) ==
    IF m.routes = <<>> THEN [m EXCEPT !.dest = m.ruri]
    ELSE [m EXCEPT !.ruri = Head(m.routes), !.routes = Tail(@), !.dest = Head(m.routes)]

\* RFC 3261, 16.4 and 16.6: undo strict routing, take the own route off, go on.
Loose(p, m) ==
    LET a == IF m.ruri = p /\ m.routes # <<>>
             THEN [m EXCEPT !.ruri = Last(m.routes), !.routes = Front(@)] ELSE m
        b == IF a.routes # <<>> /\ Head(a.routes) = p THEN [a EXCEPT !.routes = Tail(@)] ELSE a
    IN  IF b.routes = <<>> THEN [b EXCEPT !.dest = b.ruri]
        ELSE IF Head(b.routes) \in env.lr THEN [b EXCEPT !.dest = Head(b.routes)]
        ELSE [b EXCEPT !.ruri = Head(b.routes), !.dest = Head(b.routes),
                       !.routes = Append(Tail(@), b.ruri)]

Forward(m) == IF m.dest \notin Proxies THEN m
              ELSE IF m.dest \in env.lr THEN Loose(m.dest, m) ELSE Strict(m.dest, m)

\* More hops than any route of the leg has.
Hops == 2 * Len(Chain) + 3
Journey(m) == LET at[i \in 0..Hops] == IF i = 0 THEN m ELSE Forward(at[i - 1]) IN at

NoRepeats(s) == FoldLeft(LAMBDA acc, x : IF acc # <<>> /\ Last(acc) = x THEN acc ELSE Append(acc, x),
                         <<>>, s)

\* The way a request to p has to go, and that it gets there as it should.
Path(p) == NoRepeats((IF env.obp = Nobody THEN <<>> ELSE <<env.obp>>) \o Recorded(p) \o <<p>>)
GoesItsWay(m) ==
    LET at == Journey(m)
    IN  /\ NoRepeats([i \in 1..Hops + 1 |-> at[i - 1].dest]) = Path(m.for)
        /\ at[Hops].ruri = m.for /\ at[Hops].routes = <<>>

-----------------------------------------------------------------------------
(* Routes and requests *)

\* Mutant: before a strict router the remote target does not become the last route.
Addressed_DropsTarget(target, routes) ==
    IF routes = <<>> THEN Routing(target, target, <<>>)
    ELSE IF Head(routes) \in env.lr THEN Routing(target, Head(routes), routes)
    ELSE Routing(Head(routes), Head(routes), Tail(routes))

\* What the first route makes of the remote target and the next hop.
Addressed(target, routes) ==
    IF routes = <<>> THEN Routing(target, target, <<>>)
    ELSE IF Head(routes) \in env.lr THEN Routing(target, Head(routes), routes)
    ELSE Routing(Head(routes), Head(routes), Append(Tail(routes), target))

ViaOutbound(routes) == IF env.obp = Nobody THEN routes ELSE <<env.obp>> \o routes

\* Mutant: the Record-Routes of a response are not reversed.
UpdateRouting_NotReversed(r, contact, record_routes, reverse_routes) ==
    Addressed(IF contact = Nobody THEN r.rTarget ELSE contact, ViaOutbound(record_routes))

\* contact is Nobody when the response has none (or update_rtarget is not set).
UpdateRouting(r, contact, record_routes, reverse_routes) ==
    Addressed(IF contact = Nobody THEN r.rTarget ELSE contact,
              ViaOutbound(IF reverse_routes THEN Reverse(record_routes) ELSE record_routes))

\* The Record-Routes of a response are the request's: the last proxy is first.
RecordRoutes(p) == Reverse(Recorded(p))

GenRequest(method, r, for) ==
    Msg(method, r.rTarget, r.routes, IF env.obp = Nobody THEN r.rAddr ELSE env.obp, for)

GenACK(req) == [req EXCEPT !.method = "ACK", !.routes = <<>>]
GenCANCEL(req) == [req EXCEPT !.method = "CANCEL"]

isConnected == state \in {"PreConnect", "Connected", "Updating"}

PrepTr(req) ==
    NewTr(req, IF isConnected
               THEN Routing(rt.rTarget, IF env.obp = Nobody THEN rt.rAddr ELSE env.obp, rt.routes)
               ELSE NoRparams)

\* Mutant: the transaction's own route set leaves the outbound proxy out.
AckOf2xx_IgnoresOutbound(t, p) ==
    LET own == Addressed(p, Reverse(RecordRoutes(p)))
    IN  IF t.ack = NoRparams THEN Msg("ACK 2xx", own.rTarget, own.routes, own.rAddr, p)
        ELSE Msg("ACK 2xx", t.inv.ruri, t.ack.routes, t.ack.rAddr, peer)

\* The ACK of a 2xx from p.
AckOf2xx(t, p) ==
    LET own == Addressed(p, ViaOutbound(Reverse(RecordRoutes(p))))
    IN  IF t.ack = NoRparams THEN Msg("ACK 2xx", own.rTarget, own.routes, own.rAddr, p)
        ELSE Msg("ACK 2xx", t.inv.ruri, t.ack.routes, t.ack.rAddr, peer)

Open == {i \in 1..Len(trs) : trs[i].state \in {"TRYING", "RINGING"}}

\* Mutant: the CANCEL goes by the route set of the dialog.
Cancels_Readdressed(ts, i) ==
    IF i \in Open /\ ts[i].state = "RINGING" THEN {GenRequest("CANCEL", rt, ts[i].inv.for)} ELSE {}

\* clientTransaction.Cancel of transaction i in ts.
Cancel(ts, i) == IF i \notin Open \/ ts[i].state = "RINGING" THEN ts
                 ELSE [ts EXCEPT ![i].cancelPending = TRUE]
Cancels(ts, i) == IF i \in Open /\ ts[i].state = "RINGING" THEN {GenCANCEL(ts[i].inv)} ELSE {}

\* OnDeactivate of Connected: the keep-alive is cancelled, the waiting ACK goes.
Stop == Cancels(trs, ka_tr) \cup ({pending_tr} \ {NoMsg})
Leave == trs' = Cancel(trs, ka_tr) /\ pending_tr' = NoMsg

\* A new Connected state has its own controller.
Start == timers' = IF timers < MaxTimers THEN timers + 1 ELSE timers

-----------------------------------------------------------------------------
(* Setting up *)

\* CCEventTry: INVITE.
Try ==
    /\ env.role = "uac" /\ state = "Idle"
    /\ LET r == Routing(Callee, Callee, <<>>)
           inv == GenRequest("INVITE", r, Nobody)
       IN  /\ rt' = r
           /\ trs' = <<PrepTr(inv)>> /\ tr' = 1
           /\ out' = {inv}
    /\ state' = "Trying"
    /\ UNCHANGED <<env, ka_tr, pending_tr, timers, peer>>

\* An INVITE for a UAS: its Contact is the remote target, its Record-Routes the routes.
RecvInvite(p) ==
    /\ env.role = "uas" /\ state = "Idle"
    /\ rt' = UpdateRouting(Routing(p, rt.rAddr, rt.routes), Nobody, Recorded(p), FALSE)
    /\ state' = "Answering" /\ peer' = p /\ out' = {}
    /\ UNCHANGED <<env, trs, tr, ka_tr, pending_tr, timers>>

\* The UAS answers 200, and waits for the ACK; or refuses.
Answer ==
    /\ state = "Answering"
    /\ state' \in {"PreConnect", "Dead"}
    /\ out' = {}
    /\ UNCHANGED <<env, rt, trs, tr, ka_tr, pending_tr, timers, peer>>

RecvACK ==
    /\ state = "PreConnect"
    /\ state' = "Connected" /\ Start
    /\ out' = {}
    /\ UNCHANGED <<env, rt, trs, tr, ka_tr, pending_tr, peer>>

\* 101..199 from p, for transaction i.  In Trying the PRACK is sent before the
\* route set is there; in Ringing after.
RecvProvisional(i, p, contact, reliable) ==
    /\ i \in Open /\ (reliable => contact)
    /\ trs' = [trs EXCEPT ![i].state = "RINGING", ![i].cancelPending = FALSE]
    /\ LET new == UpdateRouting(rt, IF contact THEN p ELSE Nobody, RecordRoutes(p), TRUE)
           cancel == IF trs[i].cancelPending THEN {GenCANCEL(trs[i].inv)} ELSE {}
           prack == IF ~reliable THEN {}
                    ELSE {GenRequest("PRACK", IF state = "Trying" THEN rt ELSE new, p)}
       IN  IF state \in {"Trying", "Ringing"}
           THEN rt' = new /\ state' = "Ringing" /\ out' = cancel \cup prack
           ELSE out' = cancel /\ UNCHANGED <<rt, state>>
    /\ UNCHANGED <<env, tr, ka_tr, pending_tr, timers, peer>>

\* 200 from p to the INVITE that sets the dialog up; without a tag in To it is
\* hung up at once.  When uack is set its ACK waits for Connect.
RecvOK(i, p, tagged, uack) ==
    /\ i \in Open /\ state \in {"Trying", "Ringing", "Cancelling"}
    /\ uack => tagged /\ state # "Cancelling"
    /\ rt' = UpdateRouting(rt, p, RecordRoutes(p), TRUE)
    /\ peer' = p
    /\ trs' = [trs EXCEPT ![i].state = "TERMINATED"]
    /\ LET ack == AckOf2xx(trs[i], p)
           bye == IF tagged /\ state # "Cancelling" THEN {} ELSE {GenRequest("BYE", rt', p)}
       IN  /\ pending_tr' = IF uack THEN ack ELSE NoMsg
           /\ out' = bye \cup (IF uack THEN {} ELSE {ack})
    /\ IF tagged /\ state # "Cancelling" THEN state' = "Connected" /\ Start
       ELSE state' = "Disconnected" /\ UNCHANGED timers
    /\ UNCHANGED <<env, tr, ka_tr>>

\* 300 and above: ACKed by the transaction, except the 408 it makes up itself.
AckOfFailure(t, made_up) == IF made_up THEN {} ELSE {GenACK(t.inv)}

RecvFailure(i, made_up) ==
    /\ i \in Open /\ state \in {"Trying", "Ringing", "Cancelling"}
    /\ state' = "Dead"
    /\ trs' = [trs EXCEPT ![i].state = "TERMINATED"]
    /\ out' = AckOfFailure(trs[i], made_up)
    /\ UNCHANGED <<env, rt, tr, ka_tr, pending_tr, timers, peer>>

\* 401 or 407 that processChallenge can answer, in any state of the Ua.
processChallenge(i) ==
    /\ i \in Open /\ Len(trs) < MaxInv
    /\ LET inv == GenRequest("INVITE", rt, peer)
       IN  /\ trs' = Append([trs EXCEPT ![i].state = "TERMINATED"], PrepTr(inv))
           /\ tr' = Len(trs) + 1
           /\ out' = {inv, GenACK(trs[i].inv)}
    /\ UNCHANGED <<env, state, rt, ka_tr, pending_tr, timers, peer>>

\* The controller gives up.
Abandon ==
    /\ state \in {"Trying", "Ringing"}
    /\ state' = "Cancelling"
    /\ trs' = Cancel(trs, tr) /\ out' = Cancels(trs, tr)
    /\ UNCHANGED <<env, rt, tr, ka_tr, pending_tr, timers, peer>>

-----------------------------------------------------------------------------
(* The dialog *)

\* CCEventConnect for a pending ACK.
SendACK ==
    /\ state = "Connected" /\ pending_tr # NoMsg
    /\ out' = {pending_tr} /\ pending_tr' = NoMsg
    /\ UNCHANGED <<env, state, rt, trs, tr, ka_tr, timers, peer>>

\* CCEventUpdate: re-INVITE.
Update ==
    /\ state = "Connected" /\ Len(trs) < MaxInv
    /\ LET inv == GenRequest("INVITE", rt, peer)
       IN  /\ trs' = Append(Cancel(trs, ka_tr), PrepTr(inv))
           /\ tr' = Len(trs) + 1
           /\ out' = {inv} \cup Stop
    /\ state' = "Updating" /\ pending_tr' = NoMsg /\ ka_tr' = 0
    /\ UNCHANGED <<env, rt, timers, peer>>

\* The timer of a keep-alive controller, perhaps one of an earlier Connected
\* state, whose transaction the present controller does not know.
keepAlive(mine) ==
    /\ timers > 0 /\ timers' = timers - 1
    /\ IF state # "Connected" THEN out' = {} /\ UNCHANGED <<trs, ka_tr>>
       ELSE /\ Len(trs) < MaxInv
            /\ LET inv == GenRequest("INVITE", rt, peer)
               IN  trs' = Append(trs, PrepTr(inv)) /\ out' = {inv}
            /\ ka_tr' = IF mine THEN Len(trs) + 1 ELSE ka_tr
    /\ UNCHANGED <<env, state, rt, tr, pending_tr, peer>>

\* A final response to a re-INVITE or keep-alive.  PrepTr made the Ua the
\* receiver of both, and it does not tell them apart: in Updating any of them
\* ends the update (code: "2xx", "408" or "481", another failure).
RecvFinal(i, code, uack, made_up) ==
    /\ i \in Open /\ state \in {"Connected", "Updating", "Disconnected"}
    /\ uack => code = "2xx" /\ state = "Updating"
    /\ made_up => code = "gone"
    /\ LET ack == IF code = "2xx" THEN {AckOf2xx(trs[i], peer)} ELSE AckOfFailure(trs[i], made_up)
           failed == state = "Updating" /\ code = "gone"
       IN  /\ out' = (IF uack THEN {} ELSE ack)
                         \cup (IF failed THEN {GenRequest("BYE", rt, peer)} ELSE {})
           /\ pending_tr' = IF uack THEN AckOf2xx(trs[i], peer) ELSE pending_tr
           /\ IF failed THEN state' = "Disconnected" /\ UNCHANGED timers
              ELSE IF state = "Updating" THEN state' = "Connected" /\ Start
              ELSE UNCHANGED <<state, timers>>
    /\ trs' = [trs EXCEPT ![i].state = "TERMINATED"]
    /\ UNCHANGED <<env, rt, tr, ka_tr, peer>>

\* INFO, which leaves the dialog as it is.
SendInfo ==
    /\ state \in {"PreConnect", "Connected"}
    /\ out' = {GenRequest("INFO", rt, peer)}
    /\ UNCHANGED <<env, state, rt, trs, tr, ka_tr, pending_tr, timers, peer>>

\* The controller hangs up: BYE (or REFER).
Disconnect ==
    /\ isConnected
    /\ state' = "Disconnected"
    /\ LET bye == GenRequest("BYE", rt, peer)
       IN  IF state # "Updating" THEN Leave /\ out' = {bye} \cup Stop
           ELSE /\ trs' = Cancel(trs, tr) /\ out' = {bye} \cup Cancels(trs, tr)
                /\ UNCHANGED pending_tr
    /\ UNCHANGED <<env, rt, tr, ka_tr, timers, peer>>

\* The peer hangs up.
RecvBye ==
    /\ isConnected
    /\ state' = "Disconnected"
    /\ IF state # "Updating" THEN Leave /\ out' = Stop
       ELSE /\ trs' = Cancel(trs, tr) /\ out' = Cancels(trs, tr)
            /\ UNCHANGED pending_tr
    /\ UNCHANGED <<env, rt, tr, ka_tr, timers, peer>>

DialogNext ==
    \/ Try \/ Answer \/ RecvACK \/ Abandon \/ SendACK \/ Update \/ SendInfo \/ Disconnect \/ RecvBye
    \/ \E p \in Peers : RecvInvite(p)
    \/ \E mine \in BOOLEAN : keepAlive(mine)
    \/ \E i \in 1..MaxInv :
          \/ processChallenge(i)
          \/ \E p \in Peers, a, b \in BOOLEAN : RecvProvisional(i, p, a, b) \/ RecvOK(i, p, a, b)
          \/ \E made_up \in BOOLEAN : RecvFailure(i, made_up)
          \/ \E code \in {"2xx", "gone", "other"}, uack, made_up \in BOOLEAN :
                RecvFinal(i, code, uack, made_up)

DialogSpec == DialogInit /\ [][DialogNext]_dialogVars

-----------------------------------------------------------------------------
Routings == [rTarget : Proxies \cup Peers \cup {Callee, Nobody},
             rAddr : Proxies \cup Peers \cup {Callee, Nobody},
             routes : Seq(Proxies \cup Peers \cup {Callee})]

\* What the variables hold.
DialogTypes ==
    /\ env.role \in {"uac", "uas"} /\ env.lr \subseteq Proxies
    /\ state \in {"Idle", "Trying", "Ringing", "Cancelling", "Answering", "PreConnect",
                  "Connected", "Updating", "Disconnected", "Dead"}
    /\ rt \in Routings
    /\ Len(trs) <= MaxInv /\ tr \in 0..MaxInv /\ ka_tr \in 0..MaxInv
    /\ timers \in 0..MaxTimers

\* Requests of the dialog go through the outbound proxy and every proxy that
\* recorded the route to the peer, in this order, and reach the peer with its
\* Contact as Request-URI: whatever responses of other branches, or without a
\* Contact, came first, and whether a proxy routes loosely or strictly. So does the
\* ACK of a 2xx, whose route the client transaction works out itself or was given
\* with the re-INVITE, also when it waits for a body.
PathFollowed ==
    \A m \in out :
        \/ m.method \in {"BYE", "INFO", "INVITE"} /\ m.for # Nobody
        \/ m.method = "ACK 2xx"
        => GoesItsWay(m)

\* The route set that the Record-Routes of p make, behind the outbound proxy.
RouteSet(p) == Addressed(p, ViaOutbound(Recorded(p)))

\* The Ua and the client transaction work the route set out separately, from the
\* same responses: every request of the dialog, and every ACK of a 2xx, has the
\* Request-URI, the routes and the next hop of the peer's Record-Routes, and none
\* is left of another branch.
OneRouteSet ==
    \A m \in out : m.method \in {"BYE", "INFO", "INVITE", "ACK 2xx"} /\ m.for # Nobody =>
        Routing(m.ruri, m.dest, m.routes) = RouteSet(m.for)

Arrives ==
    \A p \in Peers, method \in {"BYE", "INFO", "INVITE", "ACK 2xx"} :
        LET r == RouteSet(p) IN GoesItsWay(Msg(method, r.rTarget, r.routes, r.rAddr, p))

\* A request with the route set of p takes the path to p, whatever proxies the call
\* finds: the Addressed of UpdateRouting does before a strict router what the strict
\* router undoes. (Proxies and records do not change during a call.)
RoutesArrive == state = "Idle" => Arrives

\* A CANCEL takes the way of its INVITE, although the route set of the leg may
\* have changed since.
CancelFollowsInvite ==
    \A m \in out : m.method = "CANCEL" =>
        \E i \in 1..Len(trs) : m = [trs[i].inv EXCEPT !.method = "CANCEL"]

\* uac_state_trying.go:109: "the route set must be ready for sending the PRACK".
PrackFollowsPath ==
    \A m \in out : m.method = "PRACK" /\ Recorded(m.for) # <<>> => GoesItsWay(m)
=============================================================================
