-------------------------------- MODULE B2bCall --------------------------------
(***************************************************************************)
(* A call through the B2BUA: leg A to the caller, leg O to the callee, and  *)
(* the callController of cmd/b2bua_simple that hands every event of one leg *)
(* to the other.                                                            *)
(*                                                                          *)
(* All handlers of a call run under its session lock. One stimulus (a       *)
(* message, a timer) runs a handler of one leg, whose events run handlers   *)
(* of the other leg, nested, until no leg has an event left. todo is the    *)
(* stack of calls that are still to be made before the lock is released;    *)
(* while it is not empty nothing else can happen, but for Shutdown, which   *)
(* does not take the lock.                                                  *)
(***************************************************************************)
EXTENDS Ua

CONSTANTS
    LateMedia,  \* an INVITE may come without an SDP body
    ReInvites,  \* the peers may send re-INVITEs
    PrRel,      \* the caller may support 100rel
    PrepTrFails, \* an INVITE may not get out: PrepTr returns an error
    SigTerm,    \* the process may be told to stop (callMap.Shutdown)
    MaxReq,     \* bound: requests of the peers after the first INVITE
    MaxProv     \* bound: provisional responses

ASSUME B2bCallAssumption ==
    /\ LateMedia \in BOOLEAN
    /\ ReInvites \in BOOLEAN
    /\ PrRel \in BOOLEAN
    /\ PrepTrFails \in BOOLEAN
    /\ SigTerm \in BOOLEAN
    /\ MaxReq \in Nat
    /\ MaxProv \in Nat

Leg == {"A", "O"}
Other(u) == IF u = "A" THEN "O" ELSE "A"

VARIABLES
    ua,     \* uaA and uaO
    todo,   \* calls to make before the session lock is released
    ccmap,  \* the callMap has the call
    nreq, nprov,
    unsent  \* history: a re-INVITE could not be sent (UpdateError)

vars == <<ua, todo, ccmap, nreq, nprov, unsent>>

\* emitPendingEvents of a leg, RecvEvent of a leg, the return of RecvRequest
\* (which binds CancelCB).
Calls == [c : {"emit", "bind"}, u : Leg] \cup [c : {"recv"}, u : Leg, e : Events]
Emit(u) == [c |-> "emit", u |-> u]
Bind(u) == [c |-> "bind", u |-> u]
Recv(u, e) == [c |-> "recv", u |-> u, e |-> e]

TypeOK ==
    /\ ua \in [Leg -> UaRecords]
    /\ todo \in Seq(Calls)
    /\ ccmap \in BOOLEAN
    /\ nreq \in 0..MaxReq
    /\ nprov \in 0..MaxProv
    /\ unsent \in BOOLEAN

Init ==
    /\ ua = [u \in Leg |-> NewUA]
    /\ todo = <<>>
    /\ ccmap = FALSE
    /\ nreq = 0 /\ nprov = 0
    /\ unsent = FALSE

\* Leg u becomes r and the calls cs are made next. aDead and oDead take the call
\* out of ccmap.
Becomes(u, r, cs) ==
    /\ ua' = [ua EXCEPT ![u] = r]
    /\ todo' = cs
    /\ ccmap' = (ccmap /\ (r.gone => ua[u].gone))

Unlocked == todo = <<>>

-----------------------------------------------------------------------------
(* Calls under the session lock.                                            *)

\* callController.RecvEvent: an event of one leg goes to the other one.
RecvEventOf(u, e) ==
    IF u = "A" /\ ua["O"].st = "None" /\ e.k # "Try"
    THEN Recv("A", Ev("Disconnect")) ELSE Recv(Other(u), e)

emitPendingEvents ==
    /\ todo # <<>> /\ Head(todo).c = "emit"
    /\ LET u == Head(todo).u
       IN  IF ua[u].q # <<>> /\ ~ua[u].gone
           THEN Becomes(u, [ua[u] EXCEPT !.q = Tail(@)],
                        <<RecvEventOf(u, Head(ua[u].q))>> \o todo)
           ELSE Becomes(u, ua[u], Tail(todo))
    /\ UNCHANGED <<nreq, nprov, unsent>>

\* The legs do not compare SDPs and count no hops in the model: any Update may
\* repeat the last SDP or be the last hop.
HandleEvent ==
    /\ todo # <<>> /\ Head(todo).c = "recv"
    /\ LET u == Head(todo).u
           e == Head(todo).e
       IN  \E way \in IF e.k = "Update" THEN Ways ELSE {"sent"} :
               Becomes(u, RecvEvent(ua[u], e, way), <<Emit(u)>> \o Tail(todo))
    /\ UNCHANGED <<nreq, nprov, unsent>>

\* UacStateIdle.RecvEvent returns an error: leg O stays Idle, nothing is emitted.
TryError ==
    /\ PrepTrFails
    /\ todo # <<>> /\ Head(todo).c = "recv" /\ Head(todo).e.k = "Try"
    /\ Becomes("O", [ua["O"] EXCEPT !.st = "UacIdle"], Tail(todo))
    /\ UNCHANGED <<nreq, nprov, unsent>>

\* UaStateConnected.RecvEvent returns an error (PrepTr or GenRequest): the Update is
\* lost, the leg stays Connected, nothing is emitted and nobody is told.
UpdateError ==
    /\ PrepTrFails
    /\ todo # <<>> /\ Head(todo).c = "recv" /\ Head(todo).e.k = "Update"
    /\ LET u == Head(todo).u
       IN  /\ ua[u].st = "Connected"
           /\ Becomes(u, [ua[u] EXCEPT !.late_media = @ \/ ~Head(todo).e.body], Tail(todo))
    /\ unsent' = TRUE
    /\ UNCHANGED <<nreq, nprov>>

RequestDone ==
    /\ todo # <<>> /\ Head(todo).c = "bind"
    /\ LET u == Head(todo).u
       IN  Becomes(u, [ua[u] EXCEPT !.cancelCB = BoundCancel(ua[u])], Tail(todo))
    /\ UNCHANGED <<nreq, nprov, unsent>>

-----------------------------------------------------------------------------
(* The peers.                                                               *)

\* callMap.OnNewDialog and the RecvRequest of the new leg.
OnNewDialog(body, rel) ==
    /\ Unlocked /\ ua["A"].st = "None"
    /\ ua' = [ua EXCEPT !["A"] = UasIdle_RecvRequest(@, body, rel)]
    /\ todo' = <<Emit("A"), Bind("A")>>
    /\ ccmap' = TRUE
    /\ UNCHANGED <<nreq, nprov, unsent>>

\* A request within the dialog, handled as r.
InDialog(u, r) ==
    /\ Unlocked /\ ua[u].st \notin {"None", "UacIdle"} /\ ~ua[u].gone
    /\ nreq < MaxReq
    /\ nreq' = nreq + 1
    /\ Becomes(u, r, <<Emit(u)>>)
    /\ UNCHANGED <<nprov, unsent>>

BYE(u) == \E also \in BOOLEAN : InDialog(u, RecvBYE(ua[u], also))
REFER(u) == InDialog(u, RecvREFER(ua[u]))
INFO(u) == InDialog(u, RecvINFO(ua[u]))

ReINVITE(u) ==
    /\ ReInvites
    /\ Unlocked /\ ua[u].st \in IsConnected /\ nreq < MaxReq
    /\ nreq' = nreq + 1
    /\ \E body \in {TRUE, ~LateMedia}, same \in BOOLEAN :
           LET r == RecvReINVITE(ua[u], body, same)
           IN  Becomes(u, r, IF r.st # ua[u].st THEN <<Emit(u), Bind(u)>> ELSE <<Emit(u)>>)
    /\ UNCHANGED <<nprov, unsent>>

\* CANCEL, or timer E of the INVITE.
Cancelled(u) ==
    /\ Unlocked /\ ua[u].uas = "early"
    /\ Becomes(u, RecvCancel(ua[u]), <<Emit(u)>>)
    /\ UNCHANGED <<nreq, nprov, unsent>>

ACK(u) ==
    /\ Unlocked /\ ua[u].uas = "completed"
    /\ \E body \in BOOLEAN :
           LET p == ua[u].pendUpdate
           IN  Becomes(u, RecvACK(ua[u], body),
                       IF ua[u].ackw /\ ua[u].st = "PreConnect" /\ p # NoEv
                       THEN <<Emit(u), Recv(u, p)>> ELSE <<Emit(u)>>)
    /\ UNCHANGED <<nreq, nprov, unsent>>

\* Timer D: nobody acknowledged the final response, NoAckCB disconnects.
NoAck(u) ==
    /\ Unlocked /\ ua[u].uas = "completed"
    /\ Becomes(u, Disconnect([ua[u] EXCEPT !.uas = "closed"]), <<Emit(u)>>)
    /\ UNCHANGED <<nreq, nprov, unsent>>

PRACK(u) ==
    /\ Unlocked /\ ua[u].prov
    /\ LET p == ua[u].heldUpdate
       IN  Becomes(u, RecvPRACK(ua[u]),
                   IF ua[u].st = "UasRingingRel" /\ p # NoEv THEN <<Recv(u, p)>> ELSE <<>>)
    /\ UNCHANGED <<nreq, nprov, unsent>>

\* retrUasResponse gave up: unless the INVITE was answered the leg disconnects.
NoPrack(u) ==
    /\ Unlocked /\ ua[u].prov
    /\ LET r == [ua[u] EXCEPT !.prov = FALSE]
       IN  Becomes(u, IF r.uas = "early" THEN Disconnect(r) ELSE r, <<Emit(u)>>)
    /\ UNCHANGED <<nreq, nprov, unsent>>

ProvisionalResponse(u, m) ==
    /\ Unlocked /\ ua[u].uac \in {"calling", "proceeding"}
    /\ m.code \in Provisional /\ nprov < MaxProv
    /\ nprov' = nprov + 1
    /\ Becomes(u, RecvResponse(ua[u], m), <<Emit(u)>>)
    /\ UNCHANGED <<nreq, unsent>>

\* A final response, or the 408 of timer B: one for every INVITE (HearsOneOutcome
\* of ClientTransactionProofs).
FinalResponse(u, m) ==
    /\ Unlocked /\ ua[u].uac \in {"calling", "proceeding"}
    /\ m.code \notin Provisional
    /\ Becomes(u, RecvResponse(ua[u], m), <<Emit(u)>>)
    /\ UNCHANGED <<nreq, nprov, unsent>>

ReferResponse(u) ==
    /\ Unlocked /\ ua[u].refer = "open"
    /\ Becomes(u, ReferAnswered(ua[u]), <<>>)
    /\ UNCHANGED <<nreq, nprov, unsent>>

-----------------------------------------------------------------------------
(* Timers. A callback that waits for the lock when its Timeout is cancelled *)
(* still runs.                                                              *)
Pop(u, x) ==
    /\ Unlocked /\ x \in ua[u].arm /\ x \notin ua[u].pop
    /\ Becomes(u, [ua[u] EXCEPT !.arm = @ \ {x}, !.pop = @ \cup {x}], <<>>)
    /\ UNCHANGED <<nreq, nprov, unsent>>

Fire(u, x) ==
    /\ Unlocked /\ x \in ua[u].pop
    /\ Becomes(u, Expired(ua[u], x), <<Emit(u)>>)
    /\ UNCHANGED <<nreq, nprov, unsent>>

\* callMap.Shutdown, on SIGTERM, for a call it finds in ccmap. It does not take the
\* session lock: it can come between any two calls of another handler.
Shutdown ==
    /\ SigTerm /\ ccmap /\ nreq < MaxReq
    /\ nreq' = nreq + 1
    /\ Becomes("A", Disconnect(ua["A"]), <<Emit("A")>> \o todo)
    /\ UNCHANGED <<nprov, unsent>>

-----------------------------------------------------------------------------
\* Bodies, tags and RSeqs a response can have: an SDP in 1xx and 2xx, a missing To
\* tag in a 2xx, an RSeq in a 1xx.
Messages == {m \in Responses : /\ m.body => m.code \in {"1xx", "2xx"}
                               /\ ~m.tag => m.code = "2xx" /\ ~m.body
                               /\ m.bad => m.code = "1xx" /\ ~m.body}

UnderLock == emitPendingEvents \/ HandleEvent \/ TryError \/ UpdateError \/ RequestDone
Caller == \E body, rel \in BOOLEAN : (body \/ LateMedia) /\ (rel => PrRel) /\ OnNewDialog(body, rel)
PeerRequest(u) == BYE(u) \/ REFER(u) \/ INFO(u) \/ ReINVITE(u)
Transaction(u) == \/ Cancelled(u) \/ ACK(u) \/ NoAck(u) \/ PRACK(u) \/ NoPrack(u)
                  \/ ReferResponse(u)
                  \/ \E m \in Messages : ProvisionalResponse(u, m) \/ FinalResponse(u, m)
TimerStep(u) == \E x \in TimerNames : Pop(u, x) \/ Fire(u, x)

Next == \/ UnderLock \/ Caller \/ Shutdown
        \/ \E u \in Leg : PeerRequest(u) \/ Transaction(u) \/ TimerStep(u)

Spec == Init /\ [][Next]_vars

-----------------------------------------------------------------------------
(* Properties. They are about the states in which the session lock is free: *)
(* while it is held a call may be half way.                                 *)
A == ua["A"]
O == ua["O"]

\* There is no half call: when a message or timer has been dealt with, leg A is
\* over exactly if leg O is. Every way to end one leg (RecvBYE, RecvCancel, Refused,
\* Expired, ...) must reach the other one through the events the legs exchange.
LegsAgree == Unlocked /\ O.st # "None" => (A.st \in Over <=> O.st \in Over)

\* A re-INVITE that is open on one leg is being asked on the other one: sent
\* (UacUpdating), or kept for the ACK or PRACK the other leg still waits for
\* (pending_ev_update). Otherwise only its timer E would ever answer it. Excepted
\* is a call in which a re-INVITE could not be sent: that error is only logged, and
\* the leg that was asked waits for timer E (Settles).
UpdatePaired ==
    \A u \in Leg : Unlocked /\ ~unsent /\ ua[u].st = "UasUpdating" =>
        LET o == ua[Other(u)]
        IN  \/ o.st = "UacUpdating"
            \/ o.st = "PreConnect" /\ o.pendUpdate # NoEv
            \/ o.st = "UasRingingRel" /\ o.heldUpdate # NoEv

\* No final response is sent to an INVITE that already has one (SendUasResponse
\* would not find the transaction, and the peer would not see the response).
NoReplyLost == \A u \in Leg : "lost_reply" \notin ua[u].faults

\* A leg that is over has answered the INVITE it was over (487 or what the other
\* leg said), unless a BYE or REFER ended the leg while the INVITE was open.
InviteAnswered ==
    \A u \in Leg : Unlocked /\ ua[u].st \in Over /\ ~ua[u].early_bye => ua[u].uas # "early"

\* A leg whose dialog was established is not left without a BYE, or a REFER that
\* takes its place, in either direction. A cancelled INVITE that is answered all
\* the same meets a dead leg: the Cancelling state lasts 300 ns (goIdle).
HangsUp ==
    \A u \in Leg : Unlocked /\ ua[u].st \in Over /\ ua[u].dialog /\ ~ua[u].cancelled
                      => ua[u].bye \/ ua[u].refer # "none"

\* An ACK that the leg owes (SetPendingTr: the caller's answer is to come in it) is
\* not forgotten: whatever takes the leg out of Connected sends it, so that the peer
\* does not repeat its 2xx for ever.
AckOwed == \A u \in Leg : Unlocked /\ ua[u].pending_tr => ua[u].st = "Connected"

\* With a credit time, a leg has a credit timer (running, or its callback waiting
\* for the session lock) from the moment it is connected; it does not run on after
\* the leg. A leg whose offer comes in the 200 OK starts it with the ACK, if that
\* ever comes: late_media is excepted.
CreditEnforced ==
    \A u \in Leg : Unlocked /\ "cr" \in Timed /\ ~ua[u].late_media =>
        /\ ua[u].st \in (IsConnected \ IF ua[u].confirm THEN {"PreConnect"} ELSE {})
              => ua[u].pending_tr \/ "cr" \in ua[u].arm \cup ua[u].pop
        /\ "cr" \in ua[u].arm => ua[u].st \in IsConnected

\* StartCreditTimer never overwrites the pointer to a running timer ("prevent timer
\* leak").
NoCreditLeak == \A u \in Leg : "credit_leak" \notin ua[u].faults

\* With an expire time, the setup of a call is always under a timer: the no-reply
\* and no-progress timers hand over to the next one and none of them is dropped.
SetupTimed ==
    \A u \in Leg : Unlocked /\ "ex" \in Timed
                   /\ ua[u].st \in UasEarly \cup {"UacTrying", "UacRinging"}
        => {"np", "nr", "ex"} \cap (ua[u].arm \cup ua[u].pop) # {}

\* No reliable provisional response is sent while the last one waits for its PRACK
\* (server_transaction.go:328).
ReliableOneByOne == \A u \in Leg : "two_reliable" \notin ua[u].faults

\* The answers of an INVITE: each has one final response, whichever of the CANCEL,
\* the timers, the other leg and the peer's BYE comes first.
InvitesAnswered == NoReplyLost /\ InviteAnswered /\ ReliableOneByOne

\* What an established dialog still owes its peer: a BYE, and the ACK of its 2xx.
DialogClosed == HangsUp /\ AckOwed

\* The application timers cover the call from its setup to its end, also when a
\* callback waits for the lock while its timer is cancelled or handed over.
TimersRight == SetupTimed /\ CreditEnforced /\ NoCreditLeak

\* A leg that is over never comes back: no late ACK, PRACK, response or timer
\* makes it active again.
OverIsFinal == [][\A u \in Leg : ua[u].st \in Over => ua'[u].st \in Over]_vars

-----------------------------------------------------------------------------
(* The call as its two parties see it.                                      *)
Phase(r) ==
    CASE r.st \in {"None", "UacIdle"} -> "none"
      [] r.st \in UasEarly \cup {"UacTrying", "UacRinging"} -> "setup"
      [] r.st \in IsConnected -> "up"
      [] r.st \in Over -> "over"

AbstractCall == INSTANCE Call WITH
    phase <- [u \in Leg |-> Phase(ua[u])],
    answered <- {u \in Leg : ua[u].dialog}

\* The legs and their controller implement Call: no leg skips its setup, the caller
\* never gets a 200 OK for an INVITE that the callee did not answer (whatever the
\* callee sent before it, and whatever waited for a PRACK), and no late message,
\* event or timer brings a leg back that is over.
ImplementsCall == AbstractCall!Spec

-----------------------------------------------------------------------------
(* Liveness. The handlers run to their end, timers expire, and a server     *)
(* transaction ends an INVITE: timer E cancels one that is not answered,    *)
(* timer D gives up on the ACK (EventuallyGone of ServerTransaction). The   *)
(* peers owe nothing.                                                       *)
Fairness ==
    /\ WF_vars(UnderLock)
    /\ \A u \in Leg : WF_vars(Cancelled(u)) /\ WF_vars(ACK(u) \/ NoAck(u))
    /\ \A u \in Leg : WF_vars(TimerStep(u))
LiveSpec == Spec /\ Fairness

\* Neither a setup nor a re-INVITE keeps a leg waiting for ever, whatever the callee
\* does: nobody is left ringing, and both legs get out of their updates.
Settles ==
    \A u \in Leg : ua[u].st \in UasEarly \cup {"UasUpdating", "UacUpdating", "PreConnect"}
                      ~> ua[u].st = "Connected" \/ ua[u].st \in Over

\* A call that ends goes away: both legs die for good and the call leaves ccmap.
Reclaimed == (A.st \in Over \/ O.st \in Over) ~>
                 [](A.st = "Dead" /\ O.st = "Dead" /\ ~ccmap)
=============================================================================
