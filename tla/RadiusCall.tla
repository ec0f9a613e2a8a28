----------------------------- MODULE RadiusCall -----------------------------
(***************************************************************************)
(* A call of cmd/b2bua_radius: the call controller with its routes, the    *)
(* RADIUS authorisation request in the queue of the external command, the  *)
(* accounting of the incoming leg and of every attempt, the call map and   *)
(* its command line.                                                       *)
(*                                                                         *)
(* The legs are reduced to what the controller sees of them (module Ua has *)
(* them in full); a state change of a leg runs its callback first and then *)
(* hands its event to the controller.  A handler runs under the session    *)
(* lock.  The commands of the call map do not take it: they end a leg, and *)
(* hand its event to the controller, while a handler runs.  The handlers   *)
(* that decide something and act on it later stop in between (at).         *)
(***************************************************************************)
EXTENDS Integers, Sequences, FiniteSets, SequencesExt

CONSTANTS
    MaxRoutes,  \* routes that an authorisation returns
    Configs     \* configurations: see Configurations

\* Auth_enable, Acct_enable, a static route, rtpproxies.  main() refuses to
\* start with neither a static route nor authorisation.
Configurations == {c \in [auth : BOOLEAN, acct : BOOLEAN, static : BOOLEAN, rtpp : BOOLEAN] :
                     c.auth \/ c.static}

ASSUME RadiusCallAssumption ==
    MaxRoutes \in Nat \ {0} /\ Configs \subseteq Configurations

Early == {"trying", "ringing"}
AStates == {"none", "trying", "ringing", "connected", "over", "dead"}
\* "none": NewUA without an event; "idle": the Try waits for the rtpproxy, or has
\* gone nowhere.
OStates == {"none", "idle", "trying", "ringing", "connected", "cancelling", "over", "dead"}
Active == {"idle", "trying", "ringing", "connected"}
Ended == {"cancelling", "over", "dead"}
Gone == {"over", "dead"}

\* An attempt: bill says that its callbacks were set to acctO before it ended,
\* wait which event of it the rtpproxy still has.
Legs == [st : OStates, rnum : 1..MaxRoutes, bill : BOOLEAN,
         wait : {"no", "try", "ring", "connect"}]
\* A RadiusAccounting: on is complete, alive its goroutine; what it sent: the
\* kinds of its records, and whether the Stop has a session time.
Accounts == [on : BOOLEAN, crec : BOOLEAN, drec : BOOLEAN, alive : {"off", "on", "sending"},
             sent : SUBSET {"Start", "Alive", "Stop"}, charged : BOOLEAN]
NoAccount == [on |-> FALSE, crec |-> FALSE, drec |-> FALSE, alive |-> "off",
              sent |-> {}, charged |-> FALSE]

Calls == [state : {"Idle", "WaitRoute", "ARComplete", "Connected", "Dead", "Disconnecting"},
          A : AStates, legs : Seq(Legs),
          connect_ts : SUBSET (0..MaxRoutes), \* the legs that have one; 0: incoming
          acct : [0..MaxRoutes -> Accounts],  \* 0: the incoming leg
          acctA : BOOLEAN,                    \* acctA # nil
          acctO : 0..MaxRoutes,               \* acctO; 0: nil
          routes : Seq(1..MaxRoutes),         \* rnum of the routes left
          gts : SUBSET (2..(MaxRoutes + 2)),  \* group timers, by skipto
          auth : {"none", "queued", "taken", "done"}, cancelled : BOOLEAN,
          rtp : {"none", "open", "deleted"}, proxied : BOOLEAN,
          ending : Seq(0..MaxRoutes),         \* legs in the 32 s before Dead
          cId : BOOLEAN,                      \* cId # nil
          inMap : BOOLEAN, cmap : BOOLEAN,    \* in ccmap; cmap # nil
          owed : SUBSET (0..MaxRoutes),       \* legs that a command ended: their
                                              \* Disconnect is not emitted yet
          stray : BOOLEAN,                    \* see Refused
          late : SUBSET {"session", "attempt"}]   \* history: opened, or on its way,
                                              \* when the caller had gone

\* Where the handler is that has the session lock: rnum is of the route it will
\* try, leg an attempt it will end after that (0: none).
Handlers == [pc : {"none", "try", "session", "rDone", "route", "create", "setup", "send",
                   "connect"},
             rnum : 0..MaxRoutes, leg : 0..MaxRoutes]
NoHandler == [pc |-> "none", rnum |-> 0, leg |-> 0]

VARIABLES
    cfg,        \* the configuration
    cc,         \* the call
    at,         \* the handler that has stopped
    cclock,     \* the session lock: "free", or lost for ever
    maplock,    \* ccmap_lock: "free", "list" while "l" has it, or lost
    proc        \* the process: "run", "exit" for a restart, "crash"

vars == <<cfg, cc, at, cclock, maplock, proc>>

TypeOK ==
    /\ cfg \in Configs
    /\ cc \in Calls
    /\ at \in Handlers
    /\ cclock \in {"free", "lost"}
    /\ maplock \in {"free", "list", "lost"}
    /\ proc \in {"run", "exit", "crash"}

NewCC == [state |-> "Idle", A |-> "none", legs |-> <<>>, connect_ts |-> {},
          acct |-> [i \in 0..MaxRoutes |-> NoAccount], acctA |-> FALSE, acctO |-> 0,
          routes |-> <<>>, gts |-> {}, auth |-> "none", cancelled |-> FALSE,
          rtp |-> "none", proxied |-> FALSE, ending |-> <<>>, cId |-> FALSE,
          inMap |-> FALSE, cmap |-> TRUE, owed |-> {}, stray |-> FALSE, late |-> {}]

Init ==
    /\ cfg \in Configs
    /\ cc = NewCC /\ at = NoHandler
    /\ cclock = "free" /\ maplock = "free" /\ proc = "run"

-----------------------------------------------------------------------------
(* RadiusAccounting *)

\* SetParams: from here on the records are sent.
SetParams(c, i) == [c EXCEPT !.acct[i].on = cfg.acct]

\* Ua.GetAcct: a leg that was never connected has no duration.
GetAcct(c, u) == u \in c.connect_ts

\* A record of an account goes to the queue of the external command.
asend(a, typ, charged) ==
    IF ~a.on THEN a ELSE [a EXCEPT !.sent = @ \cup {typ}, !.charged = @ \/ charged]

\* With Start_acct_enable and an Alive_acct_int.
Conn(c, i) ==
    LET a == c.acct[i]
    IN  IF a.crec \/ ~a.on THEN c
        ELSE [c EXCEPT !.acct[i] = asend([a EXCEPT !.crec = TRUE, !.alive = "on"], "Start", FALSE)]

\* Mutant: the end of a leg is recorded only after its beginning.
Disc_Connected(c, i, u) ==
    LET a == c.acct[i]
        ended == [a EXCEPT !.drec = TRUE, !.alive = IF @ = "on" THEN "off" ELSE @]
    IN  IF a.drec \/ ~a.crec THEN c
        ELSE [c EXCEPT !.acct[i] = asend(ended, "Stop", GetAcct(c, u))]

\* Stop is sent once, with the time of the leg u; the channel el ends the
\* goroutine unless it is sending.
Disc(c, i, u) ==
    LET a == c.acct[i]
        ended == [a EXCEPT !.drec = TRUE, !.alive = IF @ = "on" THEN "off" ELSE @]
    IN  IF a.drec \/ ~a.on THEN c
        ELSE [c EXCEPT !.acct[i] = asend(ended, "Stop", GetAcct(c, u))]

-----------------------------------------------------------------------------
(* The incoming leg *)

aDisc(c) ==
    LET c1 == [c EXCEPT
                !.cancelled = @ \/ (c.state = "WaitRoute" /\ c.auth # "none"),
                !.state = IF c.legs # <<>> /\ @ # "Dead" THEN "Disconnecting" ELSE "Dead",
                !.rtp = IF @ = "open" THEN "deleted" ELSE @]
    IN  IF c.acctA THEN Disc(c1, 0, 0) ELSE c1

\* uaA.RecvEvent(Fail, Redirect or Disconnect), and a leg that ends by itself:
\* Failed or Disconnected with aFail or aDisc.
EndA(c) ==
    IF c.A \in Gone THEN c
    ELSE aDisc([c EXCEPT !.A = "over", !.ending = Append(@, 0)])

\* The controller refuses the call.
FailA(c) == [EndA(c) EXCEPT !.state = "Dead"]

aConn(c) ==
    Conn([c EXCEPT !.A = "connected", !.state = "Connected", !.connect_ts = @ \cup {0}], 0)

-----------------------------------------------------------------------------
(* The attempts *)

\* The disconnect and the failure callback of attempt i: they use the acctO of
\* the controller, whichever attempt it belongs to by now.
oDisc(c, i) == IF c.legs[i].bill /\ c.acctO # 0 THEN Disc(c, c.acctO, i) ELSE c

\* The attempt is connected; the callback too uses the acctO of the controller.
oConn(c, i) ==
    LET c1 == [c EXCEPT !.legs[i].st = "connected", !.connect_ts = @ \cup {i}]
    IN  IF c1.acctO # 0 THEN Conn(c1, c1.acctO) ELSE c1

OverO(c, i) == [c EXCEPT !.legs[i].st = "over", !.ending = Append(@, i)]

\* uaO.RecvEvent of an end: CANCEL or BYE.
HangupO(c, i) ==
    CASE c.legs[i].st \in Early -> oDisc([c EXCEPT !.legs[i].st = "cancelling"], i)
      [] c.legs[i].st \in {"none", "idle", "connected"} -> oDisc(OverO(c, i), i)
      [] OTHER -> c

Current(c) == Len(c.legs)

Hunts(c, huntstop) ==
    c.state = "ARComplete" /\ c.A \in Early /\ c.routes # <<>> /\ ~huntstop

-----------------------------------------------------------------------------
(* Handlers: each needs the session lock *)

Runs == proc = "run"
Locked == cclock = "free" /\ at.pc = "none" /\ Runs

Call(c) == cc' = c /\ UNCHANGED <<cfg, at, cclock, maplock, proc>>

\* A handler stops at h, or goes on from pc, or ends.
Goes(c, h) == cc' = c /\ at' = h /\ UNCHANGED <<cfg, cclock, maplock, proc>>
Stop(pc) == [at EXCEPT !.pc = pc]
At(pc) == at.pc = pc /\ Runs
Ends(c) == Goes(IF at.leg = 0 THEN c ELSE HangupO(c, at.leg), NoHandler)

\* OnNewDialog of an INVITE: the call is in the map before its leg has the
\* request.
OnNewDialog ==
    /\ Runs
    /\ cc = NewCC /\ maplock = "free"
    /\ Call([cc EXCEPT !.inMap = TRUE])

\* A route of the answer: its credit-time, if it has one, and its expires (-1:
\* not given).
RouteData == [crt_set : BOOLEAN, credit : 0..2, expires : -1..1]

\* customize: the credit time of the answer is the default, max_credit_time (0:
\* none) the limit.
customize(r, default, max) ==
    LET t == IF r.crt_set THEN r.credit ELSE default
    IN  IF max # 0 /\ (t = 0 \/ t > max) THEN max ELSE t

\* The rnums of the routes that are kept, in their order.
Increasing(q) == \A i, j \in DOMAIN q : i < j => q[i] < q[j]
Routing(rs, default, max) ==
    LET kept == {i \in DOMAIN rs : customize(rs[i], default, max) # 0 /\ rs[i].expires # 0}
    IN  {q \in [1..Cardinality(kept) -> kept] : Increasing(q)}

RadiusRoutes == UNION {Routing(rs, default, max) :
    rs \in UNION {[1..n -> RouteData] : n \in 0..MaxRoutes}, default \in 0..1, max \in 0..1}
StaticRoutes == UNION {Routing(<<r>>, default, max) :
    r \in RouteData, default \in 0..1, max \in 0..1}

\* Do_auth: the request goes to the queue of the external command.
Do_auth(c) == [c EXCEPT !.auth = "queued"]

Results == IF cfg.static THEN StaticRoutes ELSE RadiusRoutes

\* RecvEvent of the Try, which has found the state Idle.
RecvTry ==
    /\ Locked /\ cc.inMap /\ cc.A = "none"
    /\ Goes([cc EXCEPT !.A = "trying", !.cId = TRUE], Stop("try"))

\* It is refused (number, body, codec, translation, rtpproxy), or gets an rtpproxy
\* session, even if the leg has ended in the meantime and aDisc found none.
RecvTry_Session ==
    /\ At("try")
    /\ \/ Ends(FailA(cc))
       \/ Goes(IF cfg.rtpp
               THEN [cc EXCEPT !.rtp = "open",
                               !.late = IF cc.A \in Gone THEN @ \cup {"session"} ELSE @]
               ELSE cc, Stop("session"))

\* A session deleted behind its back makes it panic, which is caught.  Otherwise
\* the call is authorised first, refused for its Authorization header, or routed.
RecvTry_Auth ==
    /\ At("session")
    /\ LET c1 == [cc EXCEPT !.state = "WaitRoute"]
       IN  \/ cc.rtp = "deleted" /\ Ends(cc)
           \/ cfg.auth /\ (Ends(Do_auth(c1)) \/ Ends(FailA(c1)))
           \/ ~cfg.auth /\ Goes(c1, Stop("rDone"))

\* A worker of the external command takes the request.
TakeAuth ==
    /\ Runs /\ cc.auth = "queued"
    /\ Call([cc EXCEPT !.auth = IF cc.cancelled THEN "done" ELSE "taken"])

AuthDone ==
    /\ Locked /\ cc.auth = "taken"
    /\ Goes([cc EXCEPT !.auth = "done"], Stop("rDone"))

\* rDone_nolock: the incoming leg may have ended meanwhile; after aDead cmap is
\* nil, and with accounting the callback panics (and is caught).
rDone ==
    /\ At("rDone")
    /\ LET c1 == SetParams([cc EXCEPT !.acctA = TRUE], 0)
       IN  \/ ~cc.cmap /\ cfg.acct /\ Ends(cc)
           \/ (cc.cmap \/ ~cfg.acct) /\ cc.A # "trying" /\ Ends(Disc(c1, 0, 0))
           \/ cc.A = "trying" /\ Goes(c1, Stop("route"))

\* The routes: Rcode is 0 whatever the RADIUS server said, a refusal is a result
\* without routes.
rDone_Routes ==
    /\ At("route")
    /\ \E routes \in Results :
         \/ routes = <<>> /\ Ends(FailA(cc))
         \/ /\ routes # <<>>
            /\ Goes([cc EXCEPT !.state = "ARComplete", !.routes = Tail(routes)],
                    [at EXCEPT !.pc = "create", !.rnum = Head(routes)])

\* The next route instead of an attempt that failed.
Hunt(c, leg) ==
    Goes([c EXCEPT !.routes = Tail(@)],
         [pc |-> "create", rnum |-> Head(c.routes), leg |-> leg])

\* placeOriginate: static_tr_out fails, or the attempt gets its account, unless
\* the route says forward_on_fail, and its leg.
placeOriginate ==
    /\ At("create")
    /\ \/ Ends(FailA(cc))
       \/ \E bill \in {FALSE, cfg.acct} :
            LET i == Current(cc) + 1
                leg == [st |-> "none", rnum |-> at.rnum, bill |-> FALSE, wait |-> "no"]
                c1 == IF bill THEN SetParams(cc, i) ELSE cc
            IN  Goes([c1 EXCEPT !.legs = Append(@, leg), !.acctO = IF bill THEN i ELSE 0],
                     Stop("setup"))

\* The callbacks of a leg that ended before they were set are never called.
placeOriginate_Callbacks ==
    /\ At("setup")
    /\ LET i == Current(cc)
       IN  Goes([cc EXCEPT !.legs[i].bill = (cc.acctO = i /\ cc.legs[i].st = "none")],
                Stop("send"))

\* The Try: Max-Forwards is used up, the leg has ended, its transaction cannot be
\* made (the leg stays idle and nobody is told), or it goes out, at once or through
\* the rtpproxy.
SendTry(c) ==
    LET i == Current(c)
        Sent(st, wait) == [c EXCEPT !.legs[i].st = st, !.legs[i].wait = wait,
                                    !.late = IF c.A \in Gone THEN @ \cup {"attempt"} ELSE @]
    IN  {FailA(c)} \cup (IF c.legs[i].st # "none" THEN {c}
                        ELSE {Sent("trying", "no"), Sent("idle", "no")}
                             \cup (IF c.rtp = "none" THEN {} ELSE {Sent("idle", "try")}))

\* A group timer is started by the skipto of "gt" (0: none).  An rtpproxy session
\* deleted just now makes it panic.
placeOriginate_Try ==
    /\ At("send")
    /\ \/ cc.rtp = "deleted" /\ Ends(cc)
       \/ \E gt \in {0} \cup 2..(MaxRoutes + 2) :
            LET c1 == [cc EXCEPT !.gts = IF gt = 0 THEN @ ELSE @ \cup {gt},
                                 !.proxied = @ \/ cc.rtp = "open"]
            IN  \E c \in SendTry(c1) : Ends(c)

\* Mutant: the attempt is told only of a call that is connected.
ToAttempt_ConnectedOnly(c) ==
    IF c.state = "Connected" /\ c.legs # <<>> THEN HangupO(c, Current(c)) ELSE c

\* RecvEvent of the Disconnect of the incoming leg.
ToAttempt(c) ==
    IF c.state \in {"ARComplete", "Connected", "Disconnecting"} /\ c.legs # <<>>
    THEN HangupO(c, Current(c)) ELSE c

\* The caller hangs up, or the leg ends by itself.
HangupA ==
    /\ Locked /\ cc.A \in Early \cup {"connected"}
    /\ Call(ToAttempt(EndA(cc)))

\* Responses to an attempt.  With an rtpproxy an event with a body waits.
Ringing(c) == IF c.A = "trying" THEN [c EXCEPT !.A = "ringing"] ELSE c
Connect(c) == IF c.A \in Early THEN aConn(c) ELSE c

RecvRing(i) ==
    /\ Locked /\ cc.legs[i].st \in Early /\ cc.legs[i].wait = "no"
    /\ LET c1 == [cc EXCEPT !.legs[i].st = "ringing"]
       IN  \/ Call(Ringing(c1))
           \/ cc.rtp = "open" /\ Call([c1 EXCEPT !.legs[i].wait = "ring"])

\* oConn, then the event.
RecvConnect(i) ==
    /\ Locked /\ cc.legs[i].st \in Early
    /\ LET c1 == oConn(cc, i)
       IN  \/ cc.legs[i].wait = "no" /\ Goes(c1, Stop("connect"))
           \/ cc.rtp = "open" /\ Call([c1 EXCEPT !.legs[i].wait = "connect"])

RecvConnect_Event == At("connect") /\ Ends(Connect(cc))

\* A refusal: the failure callback, then Fail, or Redirect, which never hunts.
\* An event that still waits is older than this one and will be dropped.
RecvFailure(i) ==
    /\ Locked /\ cc.legs[i].st \in Early
    /\ \E huntstop \in BOOLEAN, redirect \in BOOLEAN :
         LET c1 == oDisc(OverO(cc, i), i)
         IN  IF ~redirect /\ Hunts(c1, huntstop) THEN Hunt(c1, 0) ELSE Call(EndA(c1))

\* Disconnect of an attempt: a BYE, or one of its timers.
DisconnectO(i) ==
    /\ Locked /\ cc.legs[i].st \in Early \cup {"connected"}
    /\ Call(EndA(HangupO(cc, i)))

\* The rtpproxy answered: the Try goes out, or nowhere, the event is emitted unless
\* a newer one of the leg was.
Answered(i) ==
    /\ Locked /\ cc.legs[i].wait # "no"
    /\ LET c1 == [cc EXCEPT !.legs[i].wait = "no"]
           stale == cc.legs[i].st \in Ended
       IN  \/ stale /\ Call(c1)
           \/ /\ ~stale
              /\ \/ /\ cc.legs[i].wait = "try"
                    /\ \E st \in {"trying", "idle"} : Call([c1 EXCEPT !.legs[i].st = st])
                 \/ cc.legs[i].wait = "ring" /\ Call(Ringing(c1))
                 \/ cc.legs[i].wait = "connect" /\ Call(Connect(c1))

\* The rtpproxy refused the body, or is gone: a new Fail is emitted and after
\* that given to the leg.  It is newer than everything the leg reported: it can
\* make the controller hunt although the leg has ended and another one is being
\* tried, and when it hunts, the callback of the leg finds the acctO of the next
\* one (stray).
Refused(i) ==
    /\ Locked /\ cc.legs[i].wait # "no" /\ cc.legs[i].st # "dead"
    /\ LET c0 == [cc EXCEPT !.legs[i].wait = "no", !.owed = @ \ {i}]
           c1 == [c0 EXCEPT !.stray = @ \/ Hunts(c0, FALSE) \/ i # Current(c0)]
       IN  IF Hunts(c1, FALSE) THEN Hunt(c1, i) ELSE Call(HangupO(EndA(c1), i))

\* A route group expired.  It leaves the attempt alone if the group was the last
\* one.  Otherwise it drops routes up to skipto and disconnects the attempt; that
\* is no Fail, so it ends the call.  A skipto that is no route left empties the
\* slice and the goroutine panics, with the process.
group_expires(skipto) ==
    /\ Locked /\ skipto \in cc.gts
    /\ LET c1 == [cc EXCEPT !.gts = @ \ {skipto}]
       IN  IF cc.state # "ARComplete" \/ cc.routes = <<>> \/ cc.A \notin Early
              \/ Head(cc.routes) > skipto
           THEN Call(c1)
           ELSE IF skipto = Last(cc.routes) + 1 THEN Call([c1 EXCEPT !.routes = <<>>])
           ELSE IF skipto \notin ToSet(cc.routes)
           THEN proc' = "crash" /\ UNCHANGED <<cfg, cc, at, cclock, maplock>>
           ELSE \E k \in DOMAIN cc.routes :
                  /\ cc.routes[k] = skipto
                  /\ Call(EndA(HangupO([c1 EXCEPT !.routes = SubSeq(@, k, Len(@))],
                                       Current(c1))))

\* The Alive record of a leg: the timer of the goroutine, and its end.
Alive(i) ==
    LET a == cc.acct[i]
    IN  \/ /\ Runs /\ a.alive = "on"
           /\ Call([cc EXCEPT !.acct[i] = asend([a EXCEPT !.alive = "sending"], "Alive", FALSE)])
        \/ /\ Runs /\ a.alive = "sending"
           /\ Call([cc EXCEPT !.acct[i] = [a EXCEPT !.alive = IF a.drec THEN "off" ELSE "on"]])

-----------------------------------------------------------------------------
(* The end of the call *)

\* DropCC takes ccmap_lock with the session lock held: if "l" has it, that one
\* waits for the session lock.
DropCC(c) ==
    /\ cc' = [c EXCEPT !.acctA = FALSE, !.acctO = 0,
                       !.inMap = @ /\ maplock # "free", !.cmap = @ /\ c.A # "dead"]
    /\ cclock' = IF maplock = "free" THEN "free" ELSE "lost"
    /\ UNCHANGED <<cfg, at, maplock, proc>>

\* Legs go to Dead in the order in which they ended, 32 s later: what a command
\* does does not take that long.
aDead ==
    /\ Locked /\ cc.ending # <<>> /\ Head(cc.ending) = 0 /\ 0 \notin cc.owed
    /\ LET c1 == [cc EXCEPT !.A = "dead", !.ending = Tail(@)]
       IN  IF cc.legs = <<>> \/ cc.legs[Current(cc)].st = "dead" THEN DropCC(c1) ELSE Call(c1)

\* Mutant: an attempt that outlives the incoming leg leaves the call in the map.
oDead_Keeps(c, i) == Call([c EXCEPT !.legs[i].st = "dead"])

oDead(c, i) ==
    LET c1 == [c EXCEPT !.legs[i].st = "dead"]
    IN  IF c.A = "dead" /\ c.cmap THEN DropCC(c1) ELSE Call(c1)

GoDeadO ==
    /\ Locked /\ cc.ending # <<>> /\ Head(cc.ending) \in DOMAIN cc.legs \ cc.owed
    /\ oDead([cc EXCEPT !.ending = Tail(@)], Head(cc.ending))

\* A cancelled attempt: its timer, or a final response; a 2xx gets a BYE.
CancelEnds(i) ==
    /\ Locked /\ cc.legs[i].st = "cancelling"
    /\ oDead(cc, i) \/ Call(OverO(cc, i))

-----------------------------------------------------------------------------
(* The call map: signals and the command line *)

\* Ua.Disconnect of the incoming leg, by who has not the session lock: the leg
\* ends, with its callback, before the event is emitted, also when it has ended
\* before.
DisconnectA(c) == [EndA(c) EXCEPT !.owed = @ \cup {0}]

\* The goroutine goes on: the event comes to the controller, from the incoming
\* leg or an attempt.  A dead leg has no controller.
emitPendingEvents(u) ==
    /\ Runs /\ u \in cc.owed
    /\ LET c1 == [cc EXCEPT !.owed = @ \ {u}]
           behind == cc.A \notin Gone /\ \E j \in DOMAIN cc.legs : cc.legs[j].st \in Active
       IN  \/ u = 0 /\ Call(IF cc.A = "dead" THEN c1 ELSE ToAttempt(c1))
           \/ /\ u # 0
              /\ Call(IF cc.legs[u].st = "dead" THEN c1
                      ELSE [EndA(c1) EXCEPT !.late = IF behind THEN @ \cup {"attempt"} ELSE @])

\* disconnect of "d", and of discAll: SIGHUP and SIGTERM, after which the process
\* goes on for a second.  Before the INVITE is with its leg, the leg ends all the
\* same.
Disconnect ==
    /\ Runs /\ cc.inMap /\ maplock = "free"
    /\ cc.A # "dead"
    /\ Call(DisconnectA(cc))

\* "d <call-id>" before the Try: cId is nil, the panic leaves ccmap_lock locked.
DisconnectById_Panics ==
    /\ Runs /\ cc.inMap /\ ~cc.cId /\ maplock = "free"
    /\ maplock' = "lost"
    /\ UNCHANGED <<cfg, cc, at, cclock, proc>>

\* "r <id>": the rtpproxy says that no media flows.
NoMedia ==
    /\ Runs /\ cc.inMap /\ maplock = "free" /\ cc.proxied
    /\ \/ cc.state = "Connected" /\ cc.A # "dead" /\ Call(DisconnectA(cc))
       \/ /\ cc.state = "ARComplete" /\ cc.legs[Current(cc)].st # "dead"
          /\ Call([HangupO(cc, Current(cc)) EXCEPT !.owed = @ \cup {Current(cc)}])

\* "l": ccmap_lock, then the session lock of every call.
ListCalls ==
    \/ /\ maplock = "free" /\ cc.inMap /\ Runs
       /\ maplock' = "list" /\ UNCHANGED <<cfg, cc, at, cclock, proc>>
    \/ /\ maplock = "list" /\ cclock = "free" /\ at.pc = "none"
       /\ maplock' = "free"
       /\ cclock' = IF cc.cId THEN "free" ELSE "lost"
       /\ UNCHANGED <<cfg, cc, at, proc>>

\* SIGPROF has been received when GClector finds the map empty: the process is
\* replaced.
SafeRestart ==
    /\ Runs /\ ~cc.inMap
    /\ proc' = "exit"
    /\ UNCHANGED <<cfg, cc, at, cclock, maplock>>

\* The handler that has the lock goes on.
GoOn ==
    \/ RecvTry_Session \/ RecvTry_Auth \/ rDone \/ rDone_Routes
    \/ placeOriginate \/ placeOriginate_Callbacks \/ placeOriginate_Try
    \/ RecvConnect_Event

Next ==
    \/ OnNewDialog \/ RecvTry \/ TakeAuth \/ AuthDone
    \/ GoOn
    \/ HangupA
    \/ \E i \in DOMAIN cc.legs :
         \/ RecvRing(i) \/ RecvConnect(i) \/ RecvFailure(i) \/ DisconnectO(i)
         \/ Answered(i) \/ Refused(i) \/ CancelEnds(i)
    \/ \E skipto \in cc.gts : group_expires(skipto)
    \/ \E i \in 0..MaxRoutes : Alive(i)
    \/ aDead \/ GoDeadO
    \/ \E u \in 0..MaxRoutes : emitPendingEvents(u)
    \/ Disconnect \/ DisconnectById_Panics \/ NoMedia \/ ListCalls
    \/ SafeRestart

Spec == Init /\ [][Next]_vars

\* Handlers and commands go on; the timers of ended legs fire, between commands
\* that are given again and again too.
Fairness == /\ WF_vars(GoOn)
            /\ \A u \in 0..MaxRoutes : WF_vars(emitPendingEvents(u))
            /\ SF_vars(aDead) /\ SF_vars(GoDeadO)
            /\ \A i \in 1..MaxRoutes : WF_vars(i \in DOMAIN cc.legs /\ CancelEnds(i))
FairSpec == Spec /\ Fairness

-----------------------------------------------------------------------------
(* Properties *)

\* The records of an account belong together: Start goes out when its leg is
\* connected, and a session time is charged only then.
Coherent(a) ==
    /\ a.crec <=> "Start" \in a.sent
    /\ a.charged => a.crec
    /\ a.crec /\ a.drec => a.charged
    /\ a.alive = "on" => a.crec /\ ~a.drec

\* The accounting says what became of each leg: Stop is sent when the leg ends and
\* not before, with a session time if and only if a Start went out for the same
\* leg, and no Alive loop survives it (Disc, asend, GetAcct, the callbacks of
\* placeOriginate, rDone after the caller is gone).
StopMatches ==
    /\ cc.acct[0].on => ("Stop" \in cc.acct[0].sent <=> cc.A \in {"over", "dead"})
    /\ Coherent(cc.acct[0])
    /\ cc.stray \/ \A i \in DOMAIN cc.legs :
         /\ cc.legs[i].bill => ("Stop" \in cc.acct[i].sent <=> cc.legs[i].st \in Ended)
         /\ Coherent(cc.acct[i])

\* One route is tried at a time, in the order of the list, and none while or
\* after the caller is connected or gone (RecvEvent, placeOriginate,
\* group_expires).  Excepted: a leg that a command of the call map ended without
\* the session lock, as long as its event is not emitted (owed), and if it ended
\* while a handler was about to try a route (late).
OneAttempt ==
    cc.stray \/
      /\ \A i, j \in DOMAIN cc.legs : i < j =>
           cc.legs[i].st \in Ended /\ cc.legs[i].rnum < cc.legs[j].rnum
      /\ cc.A \in Gone /\ 0 \notin cc.owed /\ "attempt" \notin cc.late =>
           \A i \in DOMAIN cc.legs : cc.legs[i].st \notin Active

\* The rtpproxy session of a call is deleted when its incoming leg ends (aDisc),
\* unless it was opened after that, by a handler that had not finished.
SessionReleased == cc.rtp = "open" /\ "session" \notin cc.late => cc.A \notin Gone

\* What an ended leg leaves behind: its records are right (StopMatches) and the
\* rtpproxy session is gone (SessionReleased).
EndsClean == StopMatches /\ SessionReleased

\* A call that is over leaves the map, unless its last attempt never got a Try
\* (its leg never dies) or one was begun for a caller who had gone, a lock was
\* lost, or the process went.
CallLeavesMap ==
    (cc.A = "over") ~>
        \/ ~cc.inMap \/ cc.stray \/ "attempt" \in cc.late
        \/ cclock = "lost" \/ maplock # "free" \/ ~Runs
        \/ cc.legs # <<>> /\ cc.legs[Current(cc)].st = "none"
=============================================================================
