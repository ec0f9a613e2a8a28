-------------------------- MODULE ServerTransaction --------------------------
(***************************************************************************)
(* One server transaction (serverTransaction in server_transaction.go and   *)
(* the embedded baseTransaction) with the entries that the transaction      *)
(* manager keeps for it: the keys of tserver that lead to it and the RSeq   *)
(* entries of rtid2tid.                                                     *)
(*                                                                          *)
(* Every handler runs under the session lock, so it is one atomic step.     *)
(* What is not atomic, and is modelled as separate steps:                   *)
(*   - a Timeout leaves its select (Pop...) and only then waits for the     *)
(*     lock; Cancel() no longer stops it, the callback still runs;          *)
(*   - incomingRequest looks the transaction up in tserver and only then    *)
(*     waits for its lock (inbox holds the requests in between).            *)
(* SafeCall recovers a panic but a mutex locked without defer stays locked: *)
(* provLeaked and tmLeaked record prov_inflight_lock and tserver_lock left  *)
(* locked for good, stuck that a goroutine waits for one of them while it   *)
(* holds the session lock.                                                  *)
(***************************************************************************)
EXTENDS Naturals

CONSTANTS
    PrRel,      \* the request asked for or supports 100rel (Setup100rel)
    MaxRSeq,    \* bound: reliable provisional responses the UA sends
    MaxRetr     \* retransmissions of a reliable response: 0.5s doubled past 16s

ASSUME ServerTransactionAssumption ==
    /\ PrRel \in BOOLEAN
    /\ MaxRSeq \in Nat
    /\ MaxRetr \in Nat

RSeqs == 1..MaxRSeq
Timers == {"A", "D", "E"}
NoProv == [rseq |-> 0, t |-> 0]
ProvInFlight == [rseq : RSeqs, t : RSeqs] \cup {NoProv}

\* Requests that incomingRequest matches to the transaction.
Requests == {[method |-> m, rseq |-> 0] : m \in {"INVITE", "CANCEL", "ACK"}}
            \cup {[method |-> "PRACK", rseq |-> r] : r \in RSeqs}

VARIABLES
    needack,    \* the request is an INVITE
    state,      \* sip_transaction_state
    alive,      \* sip_tm # nil: cleanup() has not run
    tid,        \* the key: by Via branch, or by To tag once completed
    tserver,    \* keys of sip_tm.tserver that lead to this transaction
    te,         \* teA, teD, teE: nil, armed, or fired (left the select)
    ready,      \* timer callbacks that wait for the lock
    rseq,       \* reliable provisional responses sent
    prov,       \* prov_inflight: its rtid and the chain its timer belongs to
    chain,      \* the chain of retrUasResponse timers each of them started
    rtid2tid,   \* sip_tm.rtid2tid
    inbox,      \* requests looked up that wait for the transaction's lock
    provLeaked, tmLeaked, stuck,
    ua,         \* the user of the transaction: active, done or none (rval nil)
    ack_cb,     \* an ack_cb was given with the final response
    finals,     \* final responses sent (retransmissions not counted)
    cbs         \* how often each callback of the UA was called

tmVars == <<tid, tserver, rtid2tid>>
timerVars == <<te, ready>>
provVars == <<rseq, prov, chain, provLeaked>>
uaVars == <<ua, ack_cb, finals, cbs>>
vars == <<needack, state, alive, inbox, tmLeaked, stuck,
          tmVars, timerVars, provVars, uaVars>>

TypeOK ==
    /\ needack \in BOOLEAN
    /\ state \in {"TRYING", "RINGING", "COMPLETED", "CONFIRMED"}
    /\ alive \in BOOLEAN
    /\ tid \in {"branch", "totag"}
    /\ tserver \subseteq {"branch", "totag"}
    /\ te \in [Timers -> {"nil", "armed", "fired"}]
    /\ ready \in [Timers -> Nat]
    /\ rseq \in 0..MaxRSeq
    /\ prov \in ProvInFlight
    /\ chain \in [RSeqs -> [n : 0..MaxRetr, st : {"off", "armed", "ready"}]]
    /\ rtid2tid \in [RSeqs -> {"none", "branch", "totag"}]
    /\ inbox \subseteq Requests
    /\ provLeaked \in BOOLEAN /\ tmLeaked \in BOOLEAN /\ stuck \in BOOLEAN
    /\ ua \in {"active", "done", "none"}
    /\ ack_cb \in BOOLEAN
    /\ finals \in Nat
    /\ cbs \in [{"ack", "noack", "cancel", "noprack"} -> Nat]

-----------------------------------------------------------------------------
(* new_server_transaction: the transaction is registered under its branch   *)
(* and an INVITE starts timer E. The UA either took it (rval # nil or it     *)
(* answers from RecvRequest) or did not; then a transaction without timers   *)
(* is removed at once.                                                       *)
NewServerTransaction ==
    /\ needack \in BOOLEAN
    /\ ua \in {"active", "none"}
    /\ alive = (needack \/ ua = "active")
    /\ state = "TRYING"
    /\ tid = "branch"
    /\ tserver = IF alive THEN {"branch"} ELSE {}
    /\ te = [x \in Timers |-> IF x = "E" /\ needack THEN "armed" ELSE "nil"]

Init ==
    /\ NewServerTransaction
    /\ ready = [x \in Timers |-> 0]
    /\ rseq = 0
    /\ prov = NoProv
    /\ chain = [r \in RSeqs |-> [n |-> 0, st |-> "off"]]
    /\ rtid2tid = [r \in RSeqs |-> "none"]
    /\ inbox = {}
    /\ provLeaked = FALSE /\ tmLeaked = FALSE /\ stuck = FALSE
    /\ ack_cb = FALSE
    /\ finals = 0
    /\ cbs = [c \in {"ack", "noack", "cancel", "noprack"} |-> 0]

Early == state \in {"TRYING", "RINGING"}

\* The session lock can be taken.
Running == ~stuck

\* A final response to an INVITE takes prov_inflight_lock and tserver_lock.
Locks == Running /\ ~tmLeaked /\ (needack => ~provLeaked)

\* cleanup(): prov_inflight and its timer are left as they are.
cleanup ==
    /\ alive' = FALSE
    /\ te' = [x \in Timers |-> "nil"]

Call(c) == cbs' = [cbs EXCEPT ![c] = @ + 1]

-----------------------------------------------------------------------------
(* SendResponseWithLossEmul with a provisional code.                        *)
StartProv ==
    /\ rseq < MaxRSeq
    /\ rseq' = rseq + 1
    /\ prov' = [rseq |-> rseq', t |-> rseq']
    /\ chain' = [chain EXCEPT ![rseq'] = [n |-> 0, st |-> "armed"]]
    /\ rtid2tid' = [rtid2tid EXCEPT ![rseq'] = "branch"]

\* 100 Trying is never reliable.
SendTrying ==
    /\ Running /\ ua = "active" /\ needack /\ alive
    /\ state' = "RINGING"
    /\ UNCHANGED <<needack, alive, inbox, tmLeaked, stuck,
                   tmVars, timerVars, provVars, uaVars>>

\* UasStateRingingRel holds back a reliable response until the previous one
\* is PRACKed, so the UA sends one only when none is in flight.
SendProvisional ==
    /\ Running /\ ua = "active" /\ needack /\ alive
    /\ state' = "RINGING"
    /\ IF PrRel THEN /\ ~provLeaked /\ prov = NoProv
                     /\ StartProv
                ELSE UNCHANGED <<rseq, prov, chain, rtid2tid>>
    /\ UNCHANGED <<needack, alive, inbox, provLeaked, tmLeaked, stuck,
                   tid, tserver, timerVars, uaVars>>

\* rtid_replace of the response p in flight: its PRACK now finds the new key.
Rekeyed(rt, p) ==
    IF p # NoProv /\ rt[p.rseq] = tid
    THEN [rt EXCEPT ![p.rseq] = "totag"] ELSE rt

\* Mutant: timer D is not started.
FinalTimers_NoTeD == [x \in Timers |-> IF x = "A" THEN "armed" ELSE "nil"]

\* Timers after a final response to an INVITE: cancelTeE, startTeD, startTeA.
FinalTimers == [x \in Timers |-> IF x = "E" THEN "nil" ELSE "armed"]

\* Mutant: the old key stays in the table.
tserver_replace_KeepsOld == tserver \cup {"totag"}

\* tserver_replace: the transaction moves to the key made of the To tag.
tserver_replace == (tserver \ {tid}) \cup {"totag"}

(* SendResponseWithLossEmul with a final code, when p is the provisional    *)
(* response in flight and rt the table of RSeqs. Only the log says that the *)
(* transaction had finished already.                                        *)
SendFinal(p, rt) ==
    /\ state' = "COMPLETED"
    /\ finals' = finals + 1
    /\ prov' = p
    /\ \/ /\ needack
          /\ te' = FinalTimers
          /\ tid' = "totag"
          /\ tserver' = tserver_replace
          /\ rtid2tid' = Rekeyed(rt, p)
          /\ UNCHANGED alive
       \/ /\ ~needack
          /\ tserver' = tserver \ {tid}
          /\ rtid2tid' = rt
          /\ cleanup
          /\ UNCHANGED tid

\* The UA sends its final response; ack is the ack_cb of a 2xx.
SendResponse(ack) ==
    /\ Locks /\ ua = "active" /\ alive
    /\ SendFinal(prov, rtid2tid)
    /\ ua' = "done"
    /\ ack_cb' = (ack /\ needack)
    /\ UNCHANGED <<needack, inbox, tmLeaked, stuck, ready,
                   rseq, chain, provLeaked, cbs>>

\* Mutant: cancel_cb is not called.
doCancel_Silent ==
    /\ SendFinal(prov, rtid2tid)
    /\ UNCHANGED <<ua, cbs>>

\* r487 is sent, then cancel_cb tells the UA.
doCancel ==
    /\ SendFinal(prov, rtid2tid)
    /\ IF ua # "none" THEN ua' = "done" /\ Call("cancel")
                      ELSE UNCHANGED <<ua, cbs>>

-----------------------------------------------------------------------------
(* Timers A, D and E.                                                       *)

\* The goroutine leaves the select of Timeout._run and waits for the lock.
Pop(x) ==
    /\ te[x] = "armed"
    /\ te' = [te EXCEPT ![x] = "fired"]
    /\ ready' = [ready EXCEPT ![x] = @ + 1]
    /\ UNCHANGED <<needack, state, alive, inbox, tmLeaked, stuck,
                   tmVars, provVars, uaVars>>

\* A callback that finds sip_tm = nil returns.
Fired(x) ==
    /\ Running
    /\ ready[x] > 0
    /\ ready' = [ready EXCEPT ![x] = @ - 1]

TimerAfterCleanup(x) ==
    /\ Fired(x)
    /\ ~alive
    /\ UNCHANGED <<needack, state, alive, inbox, tmLeaked, stuck,
                   tmVars, te, provVars, uaVars>>

\* Retransmits the response and starts itself again, whatever the state.
timerA ==
    /\ Fired("A") /\ alive
    /\ te' = [te EXCEPT !["A"] = "armed"]
    /\ UNCHANGED <<needack, state, alive, inbox, tmLeaked, stuck,
                   tmVars, provVars, uaVars>>

\* Mutant: noack_cb does not look at the state.
noack_Always == IF ua # "none" THEN Call("noack") ELSE UNCHANGED cbs

\* Nobody acknowledged the final response: noack_cb and the end.
noack == IF ua # "none" /\ state # "CONFIRMED" THEN Call("noack")
                                               ELSE UNCHANGED cbs
timerD ==
    /\ Fired("D") /\ alive /\ ~tmLeaked
    /\ noack
    /\ tserver' = tserver \ {tid}
    /\ cleanup
    /\ UNCHANGED <<needack, state, inbox, tmLeaked, stuck,
                   tid, rtid2tid, provVars, ua, ack_cb, finals>>

\* The INVITE expired.
timerE ==
    /\ Fired("E") /\ alive
    /\ \/ /\ Early /\ Locks
          /\ doCancel
       \/ /\ ~Early
          /\ te' = [te EXCEPT !["E"] = "nil"]
          /\ UNCHANGED <<state, alive, tmVars, prov, ua, finals, cbs>>
    /\ UNCHANGED <<needack, inbox, tmLeaked, stuck,
                   rseq, chain, provLeaked, ack_cb>>

-----------------------------------------------------------------------------
(* The PRACK timers. c names the chain: the reliable response that started  *)
(* it; n counts its retransmissions.                                        *)
PopProv(c) ==
    /\ chain[c].st = "armed"
    /\ chain' = [chain EXCEPT ![c].st = "ready"]
    /\ UNCHANGED <<needack, state, alive, inbox, tmLeaked, stuck, tmVars,
                   timerVars, rseq, prov, provLeaked, uaVars>>

\* retrUasResponse: retransmit, start the next timer and store it in
\* prov_inflight. If that is nil by now the store panics with
\* prov_inflight_lock held, after the next timer was started.
retrUasResponse(c) ==
    /\ Running /\ ~provLeaked
    /\ chain[c].st = "ready" /\ chain[c].n < MaxRetr
    /\ chain' = [chain EXCEPT ![c] = [n |-> @.n + 1, st |-> "armed"]]
    /\ \/ /\ prov = NoProv
          /\ provLeaked' = TRUE
          /\ UNCHANGED prov
       \/ /\ prov # NoProv
          /\ prov' = [prov EXCEPT !.t = c]
          /\ UNCHANGED provLeaked
    /\ UNCHANGED <<needack, state, alive, inbox, tmLeaked, stuck,
                   tmVars, timerVars, rseq, uaVars>>

\* The table once the response in flight is given up; a transaction that was
\* cleaned up meanwhile has no sip_tm to delete the entry with.
GivenUp == IF alive /\ prov # NoProv
           THEN [rtid2tid EXCEPT ![prov.rseq] = "none"] ELSE rtid2tid

\* No PRACK came: noprack_cb is Disconnect, which makes the UA send its final
\* response from UasStateRingingRel.
retrUasGiveUp(c) ==
    /\ Running /\ ~provLeaked
    /\ chain[c].st = "ready" /\ chain[c].n = MaxRetr
    /\ chain' = [chain EXCEPT ![c].st = "off"]
    /\ \/ /\ alive /\ state = "RINGING" /\ ua = "active" /\ ~tmLeaked
          /\ SendFinal(NoProv, GivenUp)
          /\ ua' = "done"
          /\ ack_cb' = FALSE
          /\ Call("noprack")
       \/ /\ ~(alive /\ state = "RINGING" /\ ua = "active")
          /\ prov' = NoProv
          /\ rtid2tid' = GivenUp
          /\ UNCHANGED <<state, alive, tid, tserver, te, uaVars>>
    /\ UNCHANGED <<needack, inbox, tmLeaked, stuck, ready, rseq, provLeaked>>

-----------------------------------------------------------------------------
(* Incoming requests. incomingRequest looks for the transaction by branch,  *)
(* an ACK by To tag, a PRACK through rtid2tid.                              *)
Key(m) ==
    CASE m.method = "ACK"   -> "totag"
      [] m.method = "PRACK" -> rtid2tid[m.rseq]
      [] OTHER              -> "branch"

\* The peer PRACKs what it received and acknowledges a final response;
\* CANCEL, ACK and PRACK refer to an INVITE.
Sendable(m) ==
    CASE m.method = "INVITE" -> TRUE
      [] m.method = "CANCEL" -> needack
      [] m.method = "ACK"    -> needack /\ finals > 0
      [] m.method = "PRACK"  -> m.rseq <= rseq

incomingRequest(m) ==
    /\ ~tmLeaked /\ Sendable(m)
    /\ Key(m) \in tserver
    /\ inbox' = inbox \cup {m}
    /\ UNCHANGED <<needack, state, alive, tmLeaked, stuck,
                   tmVars, timerVars, provVars, uaVars>>

\* A PRACK whose RSeq is known but whose transaction is not in tserver: the
\* only case of the second switch that returns with tserver_lock locked.
incomingPrackUnmatched(r) ==
    /\ ~tmLeaked
    /\ rtid2tid[r] # "none" /\ rtid2tid[r] \notin tserver
    /\ tmLeaked' = TRUE
    /\ UNCHANGED <<needack, state, alive, inbox, stuck,
                   tmVars, timerVars, provVars, uaVars>>

Handle(m) ==
    /\ Running
    /\ m \in inbox
    /\ inbox' = inbox \ {m}

\* A duplicate of the request (the response is sent again, if there is one),
\* or any request that gets the lock after cleanup().
IncomingDuplicate(m) ==
    /\ Handle(m)
    /\ m.method = "INVITE" \/ ~alive
    /\ UNCHANGED <<needack, state, alive, tmLeaked, stuck,
                   tmVars, timerVars, provVars, uaVars>>

IncomingCANCEL(m) ==
    /\ Handle(m) /\ m.method = "CANCEL" /\ alive
    /\ \/ /\ Early /\ Locks
          /\ doCancel
       \/ /\ ~Early
          /\ UNCHANGED <<state, alive, te, tmVars, prov, ua, finals, cbs>>
    /\ UNCHANGED <<needack, tmLeaked, stuck, ready,
                   rseq, chain, provLeaked, ack_cb>>

\* The 200 OK to the CANCEL is sent before doCancel waits for a mutex that nobody
\* will unlock.
IncomingCANCELBlocks(m) ==
    /\ Handle(m) /\ m.method = "CANCEL" /\ alive /\ Early /\ ~Locks
    /\ stuck' = TRUE
    /\ UNCHANGED <<needack, state, alive, tmLeaked,
                   tmVars, timerVars, provVars, uaVars>>

\* ACK of the final response. The transaction stays until timer D while a
\* reliable provisional response is still to be PRACKed.
IncomingACK(m) ==
    /\ Handle(m) /\ m.method = "ACK" /\ alive
    /\ \/ /\ state = "COMPLETED" /\ Locks
          /\ state' = "CONFIRMED"
          /\ IF ack_cb THEN Call("ack") ELSE UNCHANGED cbs
          /\ IF prov = NoProv
             THEN tserver' = tserver \ {tid} /\ cleanup
             ELSE /\ te' = [te EXCEPT !["A"] = "nil"]
                  /\ UNCHANGED <<tserver, alive>>
       \/ /\ state # "COMPLETED"
          /\ UNCHANGED <<state, alive, te, tserver, cbs>>
    /\ UNCHANGED <<needack, tmLeaked, stuck, tid, rtid2tid, ready,
                   provVars, ua, ack_cb, finals>>

\* PRACK: stops the timer that prov_inflight knows of, or is answered by 481.
IncomingPRACK(m) ==
    /\ Handle(m) /\ m.method = "PRACK" /\ alive /\ ~provLeaked
    /\ \/ /\ prov # NoProv /\ prov.rseq = m.rseq
          /\ chain' = [chain EXCEPT ![prov.t].st =
                          IF @ = "armed" THEN "off" ELSE @]
          /\ prov' = NoProv
          /\ rtid2tid' = [rtid2tid EXCEPT ![m.rseq] = "none"]
       \/ /\ prov = NoProv \/ prov.rseq # m.rseq
          /\ UNCHANGED <<chain, prov, rtid2tid>>
    /\ UNCHANGED <<needack, state, alive, tmLeaked, stuck, tid, tserver,
                   timerVars, rseq, provLeaked, uaVars>>

\* A handler needs a mutex that nobody will unlock: it waits for ever with the
\* session lock held.
BlockForever ==
    /\ Running
    /\ \/ /\ provLeaked
          /\ \/ alive /\ needack /\ ua = "active"
             \/ \E c \in RSeqs : chain[c].st = "ready"
             \/ \E m \in inbox : m.method = "PRACK" /\ alive
       \/ /\ tmLeaked /\ alive
          /\ \/ ua = "active" \/ ready["D"] > 0
       \/ /\ provLeaked \/ tmLeaked
          /\ alive
          /\ \/ ready["E"] > 0 /\ Early
             \/ \E m \in inbox : m.method = "ACK" /\ state = "COMPLETED"
    /\ stuck' = TRUE
    /\ UNCHANGED <<needack, state, alive, inbox, tmLeaked,
                   tmVars, timerVars, provVars, uaVars>>

-----------------------------------------------------------------------------
TimerStep == \/ \E x \in Timers : Pop(x) \/ TimerAfterCleanup(x)
             \/ timerA \/ timerD \/ timerE
ProvStep == \E c \in RSeqs : PopProv(c) \/ retrUasResponse(c) \/ retrUasGiveUp(c)
UaStep == SendTrying \/ SendProvisional \/ \E ack \in BOOLEAN : SendResponse(ack)
HandlerStep == \E m \in Requests : \/ IncomingDuplicate(m) \/ IncomingCANCEL(m)
                                   \/ IncomingCANCELBlocks(m)
                                   \/ IncomingACK(m) \/ IncomingPRACK(m)
PeerStep == \/ \E m \in Requests : incomingRequest(m)
            \/ \E r \in RSeqs : incomingPrackUnmatched(r)

Next == TimerStep \/ ProvStep \/ UaStep \/ HandlerStep \/ PeerStep \/ BlockForever

Spec == Init /\ [][Next]_vars

\* Timers run and the goroutines that wait for the lock get it; neither the UA
\* nor the peer has to do anything.
Fairness ==
    /\ \A x \in Timers : WF_vars(Pop(x)) /\ WF_vars(TimerAfterCleanup(x))
    /\ WF_vars(timerA) /\ WF_vars(timerD) /\ WF_vars(timerE)
    /\ WF_vars(ProvStep)
    /\ \A m \in Requests : WF_vars(IncomingDuplicate(m) \/ IncomingCANCEL(m)
                                   \/ IncomingCANCELBlocks(m)
                                   \/ IncomingACK(m) \/ IncomingPRACK(m))

FairSpec == Spec /\ Fairness

-----------------------------------------------------------------------------
(* Properties.                                                              *)

\* The UA's own final response, the 487 of a CANCEL, the 487 of timer E and
\* the response after a missing PRACK compete for the transaction, and
\* SendResponse only logs when one comes too late. Yet at most one is sent, and
\* the UA is told of a CANCEL only if its own response was not sent.
OneFinalResponse ==
    /\ finals <= 1
    /\ cbs["cancel"] + cbs["noprack"] <= finals
    /\ ua = "active" => finals = 0

\* ack_cb and noack_cb exclude each other: a call that was acknowledged is
\* never torn down by timer D, even when an unPRACKed response keeps the
\* transaction after the ACK.
AckedOrNot == cbs["ack"] + cbs["noack"] <= 1

\* tserver leads to the transaction under its current key exactly while it is
\* alive: no request reaches a transaction that was cleaned up for good, no
\* live one is out of reach, none is leaked in the table.
Registered == tserver = IF alive THEN {tid} ELSE {}

Pending(x) == te[x] = "armed" \/ ready[x] > 0

\* A live INVITE transaction always has a timer on its way that ends it: E
\* until the final response, D after it. (Without one it would never go.)
Reclaimable ==
    alive /\ needack => IF Early THEN Pending("E") ELSE Pending("D")

\* While a reliable response is in flight its PRACK finds the transaction, also
\* after the final response moved the transaction to another key.
PrackFindsTransaction ==
    alive /\ prov # NoProv => rtid2tid[prov.rseq] = tid

\* The tables and the timers agree with the transaction.
TablesConsistent == Registered /\ PrackFindsTransaction /\ Reclaimable

StateRank == [TRYING |-> 0, RINGING |-> 1, COMPLETED |-> 2, CONFIRMED |-> 3]

\* The transaction moves forward only: a response never takes it back from
\* COMPLETED, an ACK is never forgotten, and nothing revives it.
ForwardOnly == [][/\ StateRank[state'] >= StateRank[state]
                  /\ alive' => alive]_vars

LockLost == provLeaked \/ tmLeaked \/ stuck

\* Every INVITE transaction ends and leaves no key in tserver, and the UA that
\* sent a 2xx learns whether it was acknowledged - unless a handler lost a lock
\* (the unmatched PRACK and the CANCEL that wait for it for ever).
EventuallyGone ==
    /\ needack ~> [](~alive /\ tserver = {}) \/ LockLost
    /\ (finals = 1 /\ ack_cb) ~> cbs["ack"] + cbs["noack"] = 1 \/ LockLost

=============================================================================
