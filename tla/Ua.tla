---------------------------------- MODULE Ua ----------------------------------
(***************************************************************************)
(* The user agent of one call leg (Ua in ua.go and its states in            *)
(* uas_state_*.go, uac_state_*.go and ua_state_*.go): what each handler     *)
(* makes of the leg. A leg is a record, a handler maps the record before    *)
(* it to the record after it; B2bCall runs two legs against each other.     *)
(*                                                                          *)
(* The transactions are reduced to what the UA sees of them: uas is its     *)
(* INVITE server transaction (one at a time, a second INVITE gets 491) and  *)
(* uac its INVITE client transaction. on_local_sdp_change and               *)
(* on_remote_sdp_change are nil, as in cmd/b2bua_simple, so no event waits  *)
(* for an SDP update; keep-alives are off (kaInterval is 0).                *)
(***************************************************************************)
EXTENDS Naturals, Sequences

CONSTANTS
    Timed,  \* timers the application configured: np, nr, ex, cr
    Auth    \* username and password are set, so a 401 is answered

ASSUME UaAssumption ==
    /\ Timed \subseteq {"np", "nr", "ex", "cr"}
    /\ Auth \in BOOLEAN

\* The four above, goDead of Disconnected and Failed, goIdle of Cancelling.
TimerNames == {"np", "nr", "ex", "cr", "dead", "idle"}

States == {"None", "UasTrying", "UasRinging", "UasRingingRel", "PreConnect",
           "UasUpdating", "Connected", "UacIdle", "UacTrying", "UacRinging",
           "UacUpdating", "Cancelling", "Disconnected", "Failed", "Dead"}
UasEarly == {"UasTrying", "UasRinging", "UasRingingRel"}
IsConnected == {"PreConnect", "UasUpdating", "UacUpdating", "Connected"}
Over == {"Cancelling", "Disconnected", "Failed", "Dead"}

\* CCEvents: body says that it has an SDP body, url that GetRedirectURL() is set.
EventKinds == {"Try", "Ring100", "Ring", "PreConnect", "Connect", "Update",
               "Info", "Fail", "Redirect", "Disconnect"}
Ends == {"Fail", "Redirect", "Disconnect"}
Events == [k : EventKinds, body : BOOLEAN, url : BOOLEAN]
Ev(k) == [k |-> k, body |-> FALSE, url |-> k = "Redirect"]
EvBody(k, b) == [k |-> k, body |-> b, url |-> FALSE]
Transfer == [k |-> "Disconnect", body |-> FALSE, url |-> TRUE]
NoEv == [k |-> "none", body |-> FALSE, url |-> FALSE]

\* What must not happen: a final response that finds no transaction, a reliable
\* response while another one is in flight, a credit timer that cannot be stopped
\* any more.
Faults == {"lost_reply", "two_reliable", "credit_leak"}

UaRecords == [st : States, q : Seq(Events),
              uas : {"none", "early", "completed", "closed"},
              ackw : BOOLEAN,        \* an ack_cb was given with the final response
              cancelCB : {"none", "early", "updating"}, \* the state whose RecvCancel is bound
              uac : {"none", "calling", "proceeding", "done"},
              auth : BOOLEAN,        \* the INVITE in progress has credentials
              late_media : BOOLEAN,
              pending_tr : BOOLEAN,  \* the UA owes the ACK of a 2xx (SetUAck)
              confirm : BOOLEAN,     \* confirm_connect of PreConnect
              pendUpdate : Events \cup {NoEv},  \* pending_ev_update of PreConnect
              pr_rel : BOOLEAN,
              prov : BOOLEAN,        \* a reliable provisional response is in flight
              prack_wait : BOOLEAN, prack_received : BOOLEAN,
              heldRing : Events \cup {NoEv}, heldConnect : Events \cup {NoEv},
              heldUpdate : Events \cup {NoEv},  \* pending_ev_* of UasStateRingingRel
              gone : BOOLEAN,        \* OnDead has run: sip_tm and call_controller are nil
              tptr : SUBSET TimerNames,  \* timer pointers that are not nil
              arm : SUBSET TimerNames,   \* timers that run
              pop : SUBSET TimerNames,   \* callbacks that wait for the session lock
              dialog : BOOLEAN,      \* a 2xx to the first INVITE was sent or received
              bye : BOOLEAN,         \* a BYE was sent or received
              early_bye : BOOLEAN,   \* a request ended the leg while an INVITE was open
              cancelled : BOOLEAN,   \* Cancel() of the first INVITE was called
              refer : {"none", "open", "done"},  \* the REFER that takes the place of a BYE
              faults : SUBSET Faults]

NewUA == [st |-> "None", q |-> <<>>, uas |-> "none", ackw |-> FALSE,
          cancelCB |-> "none", uac |-> "none", auth |-> FALSE,
          late_media |-> FALSE, pending_tr |-> FALSE, confirm |-> FALSE,
          pendUpdate |-> NoEv, pr_rel |-> FALSE, prov |-> FALSE,
          prack_wait |-> FALSE, prack_received |-> FALSE, heldRing |-> NoEv,
          heldConnect |-> NoEv, heldUpdate |-> NoEv, gone |-> FALSE, tptr |-> {}, arm |-> {},
          pop |-> {}, dialog |-> FALSE, bye |-> FALSE, early_bye |-> FALSE,
          cancelled |-> FALSE, refer |-> "none", faults |-> {}]

-----------------------------------------------------------------------------
(* Helpers of the handlers.                                                 *)
Enqueue(r, e) == [r EXCEPT !.q = Append(@, e)]
Fault(r, f) == [r EXCEPT !.faults = @ \cup {f}]

StartTimer(r, x) ==
    IF x \in Timed THEN [r EXCEPT !.tptr = @ \cup {x}, !.arm = @ \cup {x}] ELSE r
CancelTimers(r, X) == [r EXCEPT !.tptr = @ \ X, !.arm = @ \ X]

\* The first timer of the chain no_reply, no_progress, expire that is set.
StartFirst(r, chain) ==
    IF \E i \in DOMAIN chain : chain[i] \in Timed
    THEN StartTimer(r, chain[CHOOSE i \in DOMAIN chain :
                               /\ chain[i] \in Timed
                               /\ \A j \in 1..(i - 1) : chain[j] \notin Timed])
    ELSE r

\* A timer that runs when StartCreditTimer overwrites its pointer is lost.
StartCreditTimer(r) ==
    IF "cr" \in r.tptr THEN Fault(StartTimer(r, "cr"), "credit_leak")
                       ELSE StartTimer(r, "cr")

\* Mutant: Connected does not send the ACK it owes.
OnDeactivate_NoACK(r) ==
    IF r.st \in {"PreConnect", "Connected"} THEN CancelTimers(r, {"ex"}) ELSE r

\* OnDeactivate of the old state, OnActivation of the new one. Connected sends
\* the ACK it still owes.
OnDeactivate(r) ==
    CASE r.st = "PreConnect" -> CancelTimers(r, {"ex"})
      [] r.st = "Connected"  -> [CancelTimers(r, {"ex"}) EXCEPT !.pending_tr = FALSE]
      [] OTHER               -> r
\* Mutant: OnActivation of Disconnected and Failed starts no timer.
ChangeState_NoGoDead(r, s) ==
    [OnDeactivate(r) EXCEPT !.st = s, !.gone = @ \/ s = "Dead",
                            !.arm = IF s = "Cancelling" THEN @ \cup {"idle"} ELSE @]

ChangeState(r, s) ==
    [OnDeactivate(r) EXCEPT
       !.st = s,
       !.arm = CASE s \in {"Disconnected", "Failed"} -> @ \cup {"dead"}
                 [] s = "Cancelling"                 -> @ \cup {"idle"}
                 [] OTHER                            -> @,
       !.tptr = IF s = "Dead" THEN @ \ {"np", "ex", "cr"} ELSE @,
       !.gone = @ \/ s = "Dead"]
PreConnect(r, confirm) ==
    [ChangeState(r, "PreConnect") EXCEPT !.confirm = confirm, !.pendUpdate = NoEv]

\* SendUasResponse(nil, ...): a final response finds the transaction by branch
\* only if it is the first one.
Reply(r, ackw) ==
    IF r.uas = "early" THEN [r EXCEPT !.uas = "completed", !.ackw = ackw]
                       ELSE Fault(r, "lost_reply")
ReplyOK(r) == [Reply(r, TRUE) EXCEPT !.dialog = TRUE]
ReplyRinging(r) ==
    IF r.pr_rel /\ r.prov THEN Fault(r, "two_reliable")
                          ELSE [r EXCEPT !.prov = r.pr_rel]

SendBYE(r) == IF r.gone THEN r ELSE [r EXCEPT !.bye = TRUE]
\* A redirect URL turns the BYE into a REFER.
Hangup(r, e) == IF e.url THEN [r EXCEPT !.refer = "open"] ELSE SendBYE(r)

-----------------------------------------------------------------------------
(* RecvEvent of the states.                                                 *)

\* UasStateTrying and UasStateRinging end in the same way.
UasEnd(r, e) ==
    ChangeState(CancelTimers(Reply(r, FALSE),
                             IF r.st = "UasTrying" THEN {"ex", "np"} ELSE {"ex"}),
                IF e.k = "Disconnect" THEN "Disconnected" ELSE "Failed")

UasTrying_Ring(r, e) ==
    LET s == ReplyRinging(r)
        t == IF "np" \in s.tptr THEN StartTimer(CancelTimers(s, {"np"}), "ex") ELSE s
    IN  IF r.pr_rel
        THEN [ChangeState(t, "UasRingingRel") EXCEPT
                !.prack_wait = e.body, !.prack_received = FALSE,
                !.heldRing = NoEv, !.heldConnect = NoEv, !.heldUpdate = NoEv]
        ELSE ChangeState(t, "UasRinging")

UasTrying_RecvEvent(r, e) ==
    CASE e.k = "Ring"       -> UasTrying_Ring(r, e)
      [] e.k = "PreConnect" -> PreConnect(ReplyOK(CancelTimers(r, {"np"})), TRUE)
      [] e.k = "Connect"    ->
           PreConnect(StartCreditTimer(CancelTimers(ReplyOK(r), {"ex", "np"})), FALSE)
      [] e.k \in Ends       -> UasEnd(r, e)
      [] OTHER              -> r

UasRinging_RecvEvent(r, e) ==
    CASE e.k = "Ring"       -> ReplyRinging(r)
      [] e.k = "PreConnect" -> PreConnect(ReplyOK(r), TRUE)
      [] e.k = "Connect"    ->
           PreConnect(StartCreditTimer(CancelTimers(ReplyOK(r), {"ex"})), FALSE)
      [] e.k \in Ends       -> UasEnd(r, e)
      [] OTHER              -> r

\* Mutant: a second reliable response does not wait for the PRACK of the first.
UasRingingRel_RecvEvent_NoWait(r, e) ==
    CASE e.k \in {"Ring", "Ring100"} ->
           UasRinging_RecvEvent([r EXCEPT !.prack_wait = e.body,
                                          !.prack_received = FALSE], e)
      [] e.k = "Update" -> [r EXCEPT !.heldUpdate = e]
      [] OTHER          -> UasRinging_RecvEvent(r, e)

\* Nothing goes out while the last reliable response is not acknowledged. The
\* filter also sees the Ring of a 100 Trying, which UasStateRinging drops.
UasRingingRel_RecvEvent(r, e) ==
    CASE e.k \in {"Ring", "Ring100"} /\ ~r.prack_received ->
           IF e.k = "Ring" THEN [r EXCEPT !.heldRing = e] ELSE r
      [] e.k \in {"Ring", "Ring100"} /\ r.prack_received ->
           UasRinging_RecvEvent([r EXCEPT !.prack_wait = e.body,
                                          !.prack_received = FALSE], e)
      [] e.k = "Connect" /\ r.prack_wait /\ ~r.prack_received ->
           [r EXCEPT !.heldConnect = e]
      [] e.k = "Update" -> [r EXCEPT !.heldUpdate = e]
      [] OTHER          -> UasRinging_RecvEvent(r, e)

\* Mutant: an Update that arrives before the ACK is dropped.
PreConnect_RecvEvent_Drops(r, e) ==
    IF e.k \in Ends THEN ChangeState(CancelTimers(Hangup(r, e), {"cr"}), "Disconnected")
                    ELSE r

\* Fail, Redirect and Disconnect hang up; an Update waits for the ACK.
PreConnect_RecvEvent(r, e) ==
    CASE e.k = "Update"  -> [r EXCEPT !.pendUpdate = e]
      [] e.k \in Ends    -> ChangeState(CancelTimers(Hangup(r, e), {"cr"}), "Disconnected")
      [] OTHER           -> r

UasUpdating_RecvEvent(r, e) ==
    CASE e.k = "PreConnect" -> PreConnect(Reply(r, TRUE), TRUE)
      [] e.k \in {"Connect", "Redirect", "Fail"} -> PreConnect(Reply(r, TRUE), FALSE)
      [] e.k = "Disconnect" ->
           ChangeState(CancelTimers(SendBYE(Reply(r, FALSE)), {"cr"}), "Disconnected")
      [] OTHER -> r

\* What becomes of an Update in Connected: the re-INVITE is sent; its SDP is the one
\* this leg already has (lSDP), so the answer is known; its Max-Forwards is used up.
Ways == {"sent", "known", "hops"}

\* A known answer and a 483 go straight back, and the leg stays Connected.
Connected_Update(r, e, way) ==
    LET s == [r EXCEPT !.late_media = @ \/ ~e.body]
    IN  CASE way = "known" /\ e.body -> Enqueue(r, EvBody("Connect", TRUE))
          [] way = "hops"            -> Enqueue(s, Ev("Fail"))
          [] OTHER -> ChangeState([s EXCEPT !.uac = "calling", !.auth = FALSE],
                                  "UacUpdating")
Connected_Connect(r) ==
    IF r.pending_tr
    THEN [StartCreditTimer(CancelTimers(r, {"ex", "cr"})) EXCEPT !.pending_tr = FALSE]
    ELSE r
Connected_RecvEvent(r, e, way) ==
    CASE e.k \in Ends    -> ChangeState(CancelTimers(Hangup(r, e), {"cr"}), "Disconnected")
      [] e.k = "Update"  -> Connected_Update(r, e, way)
      [] e.k = "Connect" -> Connected_Connect(r)
      [] OTHER           -> r

\* The INVITE goes out, the timers start. PrepTr may fail: the event is dropped.
UacIdle_RecvEvent(r, e) ==
    CASE e.k = "Try" ->
           StartFirst(ChangeState([r EXCEPT !.uac = "calling", !.late_media = ~e.body],
                                  "UacTrying"), <<"nr", "np", "ex">>)
      [] e.k \in Ends -> ChangeState(r, "Disconnected")
      [] OTHER        -> r

UacCancel(r) == [r EXCEPT !.cancelled = TRUE]
UacTrying_RecvEvent(r, e) ==
    IF e.k \in Ends
    THEN ChangeState(CancelTimers(UacCancel(r), {"ex", "np", "nr"}), "Cancelling")
    ELSE r
UacRinging_RecvEvent(r, e) ==
    IF e.k \in Ends
    THEN ChangeState(CancelTimers(UacCancel(r), {"ex"}), "Cancelling")
    ELSE r

UacUpdating_RecvEvent(r, e) ==
    IF e.k \in Ends
    THEN ChangeState(CancelTimers(SendBYE(r), {"cr"}), "Disconnected")
    ELSE r

\* Ua.RecvEvent up to emitPendingEvents. A leg without a state starts with Try
\* (or ends at once).
RecvEvent(r, e, way) ==
    CASE r.st = "None" -> IF e.k \in {"Try", "Fail", "Disconnect"}
                          THEN UacIdle_RecvEvent([r EXCEPT !.st = "UacIdle"], e) ELSE r
      [] r.st = "UacIdle"       -> UacIdle_RecvEvent(r, e)
      [] r.st = "UacTrying"     -> UacTrying_RecvEvent(r, e)
      [] r.st = "UacRinging"    -> UacRinging_RecvEvent(r, e)
      [] r.st = "UacUpdating"   -> UacUpdating_RecvEvent(r, e)
      [] r.st = "UasTrying"     -> UasTrying_RecvEvent(r, e)
      [] r.st = "UasRinging"    -> UasRinging_RecvEvent(r, e)
      [] r.st = "UasRingingRel" -> UasRingingRel_RecvEvent(r, e)
      [] r.st = "PreConnect"    -> PreConnect_RecvEvent(r, e)
      [] r.st = "UasUpdating"   -> UasUpdating_RecvEvent(r, e)
      [] r.st = "Connected"     -> Connected_RecvEvent(r, e, way)
      [] OTHER                  -> r

\* Enqueues a Disconnect for the other leg and handles one itself.
Disconnect(r) ==
    IF r.gone THEN r ELSE RecvEvent(Enqueue(r, Ev("Disconnect")), Ev("Disconnect"), "sent")

-----------------------------------------------------------------------------
(* Requests of the peer.                                                    *)

\* UasStateIdle: the INVITE of a new call. It can be reliable only with a body.
UasIdle_RecvRequest(r, body, rel) ==
    StartFirst(ChangeState(Enqueue([r EXCEPT !.uas = "early", !.pr_rel = rel /\ body],
                                   EvBody("Try", body)), "UasTrying"), <<"np", "ex">>)

\* Mutant: the other leg is not told.
EndedByPeer_Silent(r, e) ==
    ChangeState([CancelTimers(r, {IF r.st \in UasEarly THEN "ex" ELSE "cr"})
                   EXCEPT !.bye = TRUE, !.early_bye = r.uas = "early"], "Disconnected")

\* What ends the leg: a BYE (an Also header makes it a transfer), or a REFER.
EndedByPeer(r, e) ==
    ChangeState([CancelTimers(Enqueue(r, e), {IF r.st \in UasEarly THEN "ex" ELSE "cr"})
                   EXCEPT !.bye = TRUE, !.early_bye = r.uas = "early"], "Disconnected")

\* The 487 (200) that Ringing, PreConnect and Updating send first goes through the
\* transaction of the BYE or REFER, not that of the INVITE: the INVITE stays open.
RecvBYE(r, also) ==
    LET e == IF also THEN Transfer ELSE Ev("Disconnect")
    IN  CASE r.st \in {"UasRinging", "UasRingingRel", "Connected"} -> EndedByPeer(r, e)
          [] r.st \in {"PreConnect", "UasUpdating", "UacUpdating"} ->
               EndedByPeer(r, Ev("Disconnect"))
          [] r.st = "Disconnected" -> [r EXCEPT !.bye = TRUE]
          [] OTHER                 -> r

RecvREFER(r) ==
    CASE r.st \in {"PreConnect", "UasUpdating"} -> EndedByPeer(r, Transfer)
      [] r.st = "Connected" ->
           RecvEvent(Enqueue(r, Transfer), Ev("Disconnect"), "sent")
      [] OTHER -> r

\* A re-INVITE; anywhere else than in Connected it gets 491 or no answer. same:
\* its SDP is the one the peer sent before (rSDP), so lSDP answers it at once.
RecvReINVITE(r, body, same) ==
    IF r.st = "Connected" /\ ~(body /\ same)
    THEN ChangeState(Enqueue([r EXCEPT !.uas = "early", !.ackw = FALSE],
                             EvBody("Update", body)), "UasUpdating")
    ELSE r

RecvINFO(r) == IF r.st = "Connected" THEN Enqueue(r, EvBody("Info", FALSE)) ELSE r

\* What RecvRequest binds as CancelCB after it emitted the events.
BoundCancel(r) ==
    CASE r.st \in UasEarly      -> "early"
      [] r.st = "UasUpdating"   -> "updating"
      [] OTHER                  -> "none"

\* Mutant: 487 is sent but the state is not told.
RecvCancel_KeepsState(r) == [r EXCEPT !.uas = "completed", !.ackw = FALSE]

\* doCancel of the INVITE transaction (CANCEL, or its timer E): 487, then the
\* RecvCancel of the state that was bound, whatever the state is now.
RecvCancel(r) ==
    LET s == [r EXCEPT !.uas = "completed", !.ackw = FALSE]
        t == IF r.gone THEN s ELSE Enqueue(s, Ev("Disconnect"))
    IN  CASE r.cancelCB = "early"    -> ChangeState(t, "Disconnected")
          [] r.cancelCB = "updating" ->
               ChangeState(CancelTimers(SendBYE(t), {"cr"}), "Disconnected")
          [] OTHER                   -> s

\* The ACK of a final response that was sent with ack_cb.
RecvACK(r, body) ==
    LET s == [r EXCEPT !.uas = "closed"]
    IN  IF r.ackw /\ r.st = "PreConnect"
        THEN ChangeState(IF r.confirm
                         THEN Enqueue(StartCreditTimer(CancelTimers(s, {"ex", "cr"})),
                                      EvBody("Connect", body))
                         ELSE s, "Connected")
        ELSE s

\* The PRACK lets the event go that waited for it.
RecvPRACK(r) ==
    LET s == [r EXCEPT !.prov = FALSE, !.prack_received = TRUE]
        t == CASE r.heldConnect # NoEv -> UasRingingRel_RecvEvent(s, r.heldConnect)
               [] r.heldConnect = NoEv /\ r.heldRing # NoEv ->
                    UasRingingRel_RecvEvent(s, r.heldRing)
               [] OTHER -> s
    IN  IF r.st = "UasRingingRel"
        THEN [t EXCEPT !.heldRing = NoEv, !.heldConnect = NoEv, !.heldUpdate = NoEv]
        ELSE [r EXCEPT !.prov = FALSE]

-----------------------------------------------------------------------------
(* Responses to an INVITE of the leg. bad: the RSeq is not the next one.    *)
Responses == [code : {"100", "1xx", "2xx", "3xx", "401", "408", "fail"},
              body : BOOLEAN, tag : BOOLEAN, bad : BOOLEAN]
Provisional == {"100", "1xx"}

\* Mutant: the no_reply timer is stopped by a 100 and nothing takes its place.
UacTimers_NoHandover(r, code) ==
    IF code \in Provisional THEN CancelTimers(r, {"nr"}) ELSE CancelTimers(r, {"nr", "np"})

\* The no_reply and no_progress timers of UacStateTrying hand over to the next.
UacTimers(r, code) ==
    LET s == IF "nr" \in r.tptr
             THEN CASE code = "100" -> StartFirst(CancelTimers(r, {"nr"}), <<"np", "ex">>)
                    [] code = "1xx" -> StartTimer(CancelTimers(r, {"nr"}), "ex")
                    [] OTHER        -> CancelTimers(r, {"nr"})
             ELSE r
    IN  CASE "np" \in s.tptr /\ code = "1xx" -> StartTimer(CancelTimers(s, {"np"}), "ex")
          [] "np" \in s.tptr /\ code \notin Provisional -> CancelTimers(s, {"np"})
          [] OTHER -> s

Answered(r, m) ==
    IF r.late_media /\ m.body
    THEN Enqueue([r EXCEPT !.pending_tr = TRUE], EvBody("PreConnect", TRUE))
    ELSE Enqueue(r, EvBody("Connect", m.body))

Refused(m) == IF m.code = "3xx" THEN Ev("Redirect") ELSE Ev("Fail")

\* Final responses in UacStateTrying and UacStateRinging.
UacFinal(r, m) ==
    LET s == CancelTimers(r, {"ex"})
    IN  CASE m.code = "2xx" /\ ~m.tag ->
               ChangeState(SendBYE(Enqueue(s, Ev("Fail"))), "Failed")
          [] m.code = "2xx" /\ m.tag /\ s.late_media /\ m.body ->
               ChangeState(Answered(s, m), "Connected")
          [] m.code = "2xx" /\ m.tag /\ ~(s.late_media /\ m.body) ->
               ChangeState(StartCreditTimer(Answered([s EXCEPT !.late_media = FALSE], m)),
                           "Connected")
          [] OTHER -> ChangeState(Enqueue(s, Refused(m)), "Failed")

\* Mutant: a 183 with an SDP is handed on as an answer.
UacTrying_RecvResponse_EarlyMedia(r, m) ==
    LET s == UacTimers(r, m.code)
    IN  CASE m.code = "100" -> Enqueue(s, Ev("Ring100"))
          [] m.code = "1xx" /\ m.bad -> s
          [] m.code = "1xx" /\ ~m.bad ->
               ChangeState(Enqueue(s, EvBody(IF m.body THEN "PreConnect" ELSE "Ring", m.body)),
                           "UacRinging")
          [] OTHER -> UacFinal(s, m)

UacTrying_RecvResponse(r, m) ==
    LET s == UacTimers(r, m.code)
    IN  CASE m.code = "100" -> Enqueue(s, Ev("Ring100"))
          [] m.code = "1xx" /\ m.bad -> s
          [] m.code = "1xx" /\ ~m.bad ->
               ChangeState(Enqueue(s, EvBody("Ring", m.body)), "UacRinging")
          [] OTHER -> UacFinal(s, m)

\* "the 100 Trying can be processed later than 180 Ringing"
UacRinging_RecvResponse(r, m) ==
    CASE m.code = "100" -> Enqueue(r, Ev("Ring100"))
      [] m.code = "1xx" -> IF m.bad THEN r ELSE Enqueue(r, EvBody("Ring", m.body))
      [] OTHER          -> UacFinal(r, m)

UacUpdating_RecvResponse(r, m) ==
    CASE m.code \in Provisional -> Enqueue(r, EvBody("Ring", m.body))
      [] m.code = "2xx" -> ChangeState(Answered(r, m), "Connected")
      [] m.code = "408" ->
           ChangeState(Enqueue(CancelTimers(SendBYE(Enqueue(r, Ev("Fail"))), {"cr"}),
                               Ev("Disconnect")), "Disconnected")
      [] OTHER -> ChangeState(Enqueue(r, Refused(m)), "Connected")

\* A 2xx that crossed the CANCEL is answered with BYE.
Cancelling_RecvResponse(r, m) ==
    CASE m.code \in Provisional -> r
      [] m.code = "2xx" -> ChangeState(SendBYE(CancelTimers(r, {"idle"})), "Disconnected")
      [] OTHER          -> ChangeState(CancelTimers(r, {"idle"}), "Dead")

\* processChallenge: the INVITE is sent again with credentials, whatever the state.
processChallenge(r) == [r EXCEPT !.uac = "calling", !.auth = TRUE]

RecvResponse(r, m) ==
    LET s == [r EXCEPT !.uac = IF m.code \in Provisional THEN "proceeding" ELSE "done",
                       !.dialog = @ \/ (m.code = "2xx" /\ m.tag)]
    IN  IF m.code = "401" /\ Auth /\ ~r.auth /\ ~r.gone THEN processChallenge(r) ELSE
        CASE r.st = "UacTrying"   -> UacTrying_RecvResponse(s, m)
          [] r.st = "UacRinging"  -> UacRinging_RecvResponse(s, m)
          [] r.st = "UacUpdating" -> UacUpdating_RecvResponse(s, m)
          [] r.st = "Cancelling"  -> Cancelling_RecvResponse(s, m)
          [] OTHER                -> s

-----------------------------------------------------------------------------
(* Timers: the callback of x runs.                                          *)
\* redirectController: any response to the REFER sends the BYE.
ReferAnswered(r) == [SendBYE(r) EXCEPT !.refer = "done"]

Expired(r, x) ==
    LET s == [r EXCEPT !.pop = @ \ {x}, !.tptr = @ \ {x}]
    IN  IF x \in {"dead", "idle"} THEN ChangeState(s, "Dead") ELSE Disconnect(s)
=============================================================================
