-------------------------- MODULE ClientTransaction --------------------------
(***************************************************************************)
(* One client transaction (clientTransaction in client_transaction.go and   *)
(* the embedded baseTransaction), its entry in sip_tm.tclient and the calls *)
(* of the UA that owns it.                                                  *)
(*                                                                          *)
(* Every handler runs under the session lock and is one step. A timer       *)
(* callback that already waits for the lock when its Timeout is cancelled   *)
(* still runs (ready), and a response is looked up in tclient before the    *)
(* lock is taken (inbox).                                                   *)
(***************************************************************************)
EXTENDS Naturals

CONSTANTS
    LateMedia,  \* the UA answers a 2xx with SetUAck(true) and SendACK later
    BadHeaders, \* a final response may have a To, Contact or Route that does not parse
    MaxRSeq,    \* bound: RSeq numbers of reliable provisional responses
    MaxProv,    \* bound: provisional responses that reach the transaction
    MaxFinal    \* bound: final responses that reach it

ASSUME ClientTransactionAssumption ==
    /\ LateMedia \in BOOLEAN
    /\ BadHeaders \in BOOLEAN
    /\ MaxRSeq \in Nat
    /\ MaxProv \in Nat
    /\ MaxFinal \in Nat

RSeqs == 1..MaxRSeq
Timers == {"A", "B", "C", "G"}
Provisional == [code : {"100", "18x"}, rseq : {0}, ok : {TRUE}]
               \cup [code : {"18x"}, rseq : RSeqs, ok : {TRUE}]
Final == [code : {"2xx", "fail"}, rseq : {0}, ok : {TRUE, ~BadHeaders}]
Responses == Provisional \cup Final

VARIABLES
    needack,        \* the request is an INVITE
    state,          \* sip_transaction_state
    alive,          \* sip_tm # nil: cleanup() has not run
    tclient,        \* sip_tm.tclient has the transaction
    te,             \* teA, teB, teC, teG: nil, armed, or fired
    ready,          \* timer callbacks that wait for the lock
    cancelPending,  \* Cancel() waits for a provisional response
    uack,           \* the UA sends the ACK itself
    seen_rseqs, last_rseq,
    inbox,          \* responses looked up that wait for the lock
    provs,          \* provisional responses taken from the inbox
    ua,             \* the UA: up, cancelled (Cancel called) or acked (SendACK called)
    told,           \* responses given to resp_receiver: finals and own 408s
    cancels, acks,  \* CANCEL transactions begun, ACKs sent
    pracks          \* PRACKs the UA sent for each RSeq

tmVars == <<alive, tclient>>
timerVars == <<te, ready>>
rseqVars == <<seen_rseqs, last_rseq, pracks>>
sentVars == <<cancels, acks>>
vars == <<needack, state, cancelPending, uack, inbox, provs, ua, told,
          tmVars, timerVars, rseqVars, sentVars>>

TypeOK ==
    /\ needack \in BOOLEAN
    /\ state \in {"TRYING", "RINGING", "TERMINATED", "UACK"}
    /\ alive \in BOOLEAN /\ tclient \in BOOLEAN
    /\ te \in [Timers -> {"nil", "armed", "fired"}]
    /\ ready \in [Timers -> 0..1]
    /\ cancelPending \in BOOLEAN
    /\ uack \in BOOLEAN
    /\ seen_rseqs \subseteq RSeqs
    /\ last_rseq \in 0..MaxRSeq
    /\ inbox \subseteq Responses
    /\ provs \in 0..MaxProv
    /\ ua \in {"up", "cancelled", "acked"}
    /\ told \in [{"final", "timeout"} -> Nat]
    /\ cancels \in Nat /\ acks \in Nat
    /\ pracks \in [RSeqs -> Nat]

-----------------------------------------------------------------------------
(* CreateClientTransaction registers the transaction, BeginClientTransaction *)
(* starts its timers and transmits the request.                              *)
StartTimers == [x \in Timers |-> IF x \in {"A", "B"} THEN "armed" ELSE "nil"]

Init ==
    /\ needack \in BOOLEAN
    /\ state = "TRYING"
    /\ alive = TRUE /\ tclient = TRUE
    /\ te = StartTimers
    /\ ready = [x \in Timers |-> 0]
    /\ cancelPending = FALSE
    /\ uack = FALSE
    /\ seen_rseqs = {} /\ last_rseq = 0
    /\ inbox = {}
    /\ provs = 0
    /\ ua = "up"
    /\ told = [x \in {"final", "timeout"} |-> 0]
    /\ cancels = 0 /\ acks = 0
    /\ pracks = [r \in RSeqs |-> 0]

cleanup ==
    /\ alive' = FALSE
    /\ te' = [x \in Timers |-> "nil"]

\* tclient_del and cleanup.
Unregister ==
    /\ tclient' = FALSE
    /\ cleanup

RecvResponse(x) == told' = [told EXCEPT ![x] = @ + 1]

-----------------------------------------------------------------------------
(* Timers.                                                                  *)

\* The goroutine leaves the select of Timeout._run and waits for the lock.
\* LockLatency: a callback that waits gets the lock before the next timer of
\* its kind, half a second or more later, pops.
Pop(x) ==
    /\ te[x] = "armed" /\ ready[x] = 0
    /\ te' = [te EXCEPT ![x] = "fired"]
    /\ ready' = [ready EXCEPT ![x] = 1]
    /\ UNCHANGED <<needack, state, cancelPending, uack, inbox, provs, ua, told,
                   tmVars, rseqVars, sentVars>>

Fired(x) ==
    /\ ready[x] > 0
    /\ ready' = [ready EXCEPT ![x] = 0]

TimerAfterCleanup(x) ==
    /\ Fired(x)
    /\ ~alive
    /\ UNCHANGED <<needack, state, cancelPending, uack, inbox, provs, ua, told,
                   te, tmVars, rseqVars, sentVars>>

\* Retransmits the request and starts itself again, whatever the state.
timerA ==
    /\ Fired("A") /\ alive
    /\ te' = [te EXCEPT !["A"] = "armed"]
    /\ UNCHANGED <<needack, state, cancelPending, uack, inbox, provs, ua, told,
                   tmVars, rseqVars, sentVars>>

\* Mutant: timer C, which ends the transaction, is not started.
Expired_NoTeC == [te EXCEPT !["A"] = "nil", !["B"] = "nil"]

\* No response in time: the UA gets the transaction's own 408.
Expired == [te EXCEPT !["A"] = "nil", !["B"] = "nil", !["C"] = "armed"]

timerB ==
    /\ Fired("B") /\ alive
    /\ te' = Expired
    /\ state' = "TERMINATED"
    /\ RecvResponse("timeout")
    /\ UNCHANGED <<needack, cancelPending, uack, inbox, provs, ua,
                   tmVars, rseqVars, sentVars>>

timerC ==
    /\ Fired("C") /\ alive
    /\ Unregister
    /\ UNCHANGED <<needack, state, cancelPending, uack, inbox, provs, ua, told,
                   rseqVars, sentVars>>

\* Only logs that the ACK is overdue.
timerG ==
    /\ Fired("G") /\ alive
    /\ te' = [te EXCEPT !["G"] = "nil"]
    /\ UNCHANGED <<needack, state, cancelPending, uack, inbox, provs, ua, told,
                   tmVars, rseqVars, sentVars>>

-----------------------------------------------------------------------------
(* Responses.                                                               *)

\* process_response finds the transaction and waits for its lock.
process_response(m) ==
    /\ tclient
    /\ inbox' = inbox \cup {m}
    /\ UNCHANGED <<needack, state, cancelPending, uack, provs, ua, told,
                   tmVars, timerVars, rseqVars, sentVars>>

Handle(m) ==
    /\ m \in inbox
    /\ inbox' = inbox \ {m}

\* Mutant: a transaction that timed out still takes responses.
Ignored_NotTimedOut(m) == ~alive \/ m.rseq \in seen_rseqs

\* The response comes after cleanup() or timer B, or repeats an RSeq.
Ignored(m) == \/ ~alive
              \/ state = "TERMINATED"
              \/ m.rseq \in seen_rseqs
IncomingIgnored(m) ==
    /\ Handle(m) /\ Ignored(m)
    /\ UNCHANGED <<needack, state, cancelPending, uack, provs, ua, told,
                   tmVars, timerVars, rseqVars, sentVars>>

\* Timer A is stopped by the first response only, timer B by every one.
Stopped == IF state = "TRYING" THEN [te EXCEPT !["A"] = "nil", !["B"] = "nil"]
                               ELSE [te EXCEPT !["B"] = "nil"]

CheckRSeq(r) == last_rseq = 0 \/ r = last_rseq + 1

\* The UA PRACKs a reliable response whose RSeq is the next one; in
\* UacStateCancelling it ignores every provisional response.
RecvReliable(r) ==
    IF r # 0 /\ ua = "up" /\ CheckRSeq(r)
    THEN /\ last_rseq' = r
         /\ pracks' = [pracks EXCEPT ![r] = @ + 1]
    ELSE UNCHANGED <<last_rseq, pracks>>

\* Mutant: the CANCEL that was put off is not sent.
FirstProvisional_ForgetsCancel ==
    /\ state' = IF state = "TRYING" THEN "RINGING" ELSE state
    /\ UNCHANGED <<cancels, cancelPending>>

\* The first provisional response lets a CANCEL that was put off go out.
FirstProvisional ==
    \/ /\ state = "TRYING"
       /\ state' = "RINGING"
       /\ cancels' = IF cancelPending THEN cancels + 1 ELSE cancels
       /\ cancelPending' = FALSE
    \/ /\ state # "TRYING"
       /\ UNCHANGED <<state, cancels, cancelPending>>

process_provisional_response(m) ==
    /\ Handle(m) /\ ~Ignored(m) /\ m \in Provisional /\ provs < MaxProv
    /\ provs' = provs + 1
    /\ FirstProvisional
    /\ te' = [Stopped EXCEPT !["B"] = "armed"]
    /\ seen_rseqs' = IF m.rseq = 0 THEN seen_rseqs ELSE seen_rseqs \cup {m.rseq}
    /\ RecvReliable(m.rseq)
    /\ UNCHANGED <<needack, uack, ua, told, tmVars, ready, acks>>

\* Mutant: every transaction is acknowledged, whatever its method.
FinalDone_AcksAll(m) ==
    /\ acks' = acks + 1
    /\ Unregister
    /\ UNCHANGED state

\* The UA hears of the final response first (and may call SetUAck), then an
\* INVITE is acknowledged and the transaction removed. A header that does not
\* parse makes the method return in between.
FinalDone(m) ==
    \/ /\ ~needack
       /\ Unregister
       /\ UNCHANGED <<state, acks>>
    \/ /\ needack /\ m.ok /\ ~uack'
       /\ acks' = acks + 1
       /\ Unregister
       /\ UNCHANGED state
    \/ /\ needack /\ m.ok /\ uack'
       /\ state' = "UACK"
       /\ te' = [Stopped EXCEPT !["G"] = "armed"]
       /\ UNCHANGED <<tmVars, acks>>
    \/ /\ needack /\ ~m.ok
       /\ te' = Stopped
       /\ UNCHANGED <<state, tmVars, acks>>

process_final_response(m) ==
    /\ Handle(m) /\ ~Ignored(m) /\ m \in Final /\ told["final"] < MaxFinal
    /\ RecvResponse("final")
    /\ uack' = (uack \/ (LateMedia /\ needack /\ m.code = "2xx" /\ ua = "up"))
    /\ FinalDone(m)
    /\ UNCHANGED <<needack, cancelPending, provs, ua, ready, rseqVars, cancels>>

-----------------------------------------------------------------------------
(* Calls of the UA. It cancels an INVITE once and only before it heard of a *)
(* final response, and sends the ACK it took over once.                     *)
Heard == told["final"] + told["timeout"]

Cancel ==
    /\ ua = "up" /\ needack /\ alive /\ Heard = 0
    /\ ua' = "cancelled"
    /\ IF state = "RINGING"
       THEN cancels' = cancels + 1 /\ UNCHANGED cancelPending
       ELSE cancelPending' = TRUE /\ UNCHANGED cancels
    /\ UNCHANGED <<needack, state, uack, inbox, provs, told,
                   tmVars, timerVars, rseqVars, acks>>

SendACK ==
    /\ ua = "up" /\ uack
    /\ ua' = "acked"
    /\ acks' = IF alive THEN acks + 1 ELSE acks
    /\ Unregister
    /\ UNCHANGED <<needack, state, cancelPending, uack, inbox, provs, told,
                   ready, rseqVars, cancels>>

-----------------------------------------------------------------------------
TimerStep == \/ \E x \in Timers : Pop(x) \/ TimerAfterCleanup(x)
             \/ timerA \/ timerB \/ timerC \/ timerG
HandlerStep == \E m \in Responses : \/ IncomingIgnored(m)
                                    \/ process_provisional_response(m)
                                    \/ process_final_response(m)
PeerStep == \E m \in Responses : process_response(m)

Next == TimerStep \/ HandlerStep \/ PeerStep \/ Cancel \/ SendACK

Spec == Init /\ [][Next]_vars

-----------------------------------------------------------------------------
(* Properties.                                                              *)

\* Final responses that were given to the UA and not acknowledged: the UA took
\* the ACK over (SetUAck), or the response did not parse.
Unacked == needack /\ told["final"] > acks

\* The UA hears of one outcome: a final response or the 408 of timer B, never
\* both and never twice, however the response, the timers and the goroutines
\* that wait for the lock are ordered. Only where the UA took the ACK over, or it
\* is left out, is the UA told again, although "In those two states upper level
\* already notified" (IncomingResponse).
OneOutcome == ~uack /\ ~Unacked => Heard <= 1

\* An INVITE is acknowledged exactly when a final response was given to the UA
\* (the ACK that the UA took over and responses that do not parse excepted), at
\* most once, and no other request ever is.
AckMatchesFinal ==
    /\ acks <= 1
    /\ acks = 1 => needack /\ told["final"] >= 1
    /\ needack /\ ~uack /\ ~BadHeaders => acks = told["final"]

\* CANCEL goes out at most once, never before a provisional response, and the
\* one that Cancel() put off is not forgotten when that response comes.
CancelAfterProvisional ==
    /\ cancels <= 1
    /\ cancels = 1 => provs > 0 /\ ua = "cancelled"
    /\ state = "RINGING" /\ ua = "cancelled" => cancels = 1

\* tclient has the transaction exactly while it is alive.
Registered == tclient = alive

Pending(x) == te[x] = "armed" \/ ready[x] > 0

\* A timer that ends the transaction is on its way, or the UA owes the ACK.
TimerPending ==
    alive => \/ state = "UACK"
             \/ state = "TERMINATED" /\ Pending("C")
             \/ state \in {"TRYING", "RINGING"} /\ Pending("B")

\* A live transaction has a timer on its way that ends it, unless it waits for
\* the UA to send the ACK or the ACK is left out (timerB, process_final_response):
\* "Final response - notify upper layer and remove transaction".
Reclaimable == Unacked \/ TimerPending

\* PRACKs go out in RSeq order without a gap and once for each RSeq, whatever
\* order the responses arrive in.
PrackedInOrder ==
    /\ \A r \in RSeqs : pracks[r] <= 1
    /\ \A r \in RSeqs : pracks[r] = 1 => r <= last_rseq
    /\ \A r, q \in RSeqs : pracks[r] = 1 /\ r <= q /\ q <= last_rseq => pracks[q] = 1

\* What the transaction and the UA send on behalf of the INVITE.
FollowUps == CancelAfterProvisional /\ PrackedInOrder

\* Nothing changes the transaction once it was cleaned up, no CANCEL and no ACK
\* goes out afterwards, and a transaction that timed out stays so.
EndIsFinal == [][/\ ~alive => UNCHANGED <<alive, tclient, cancels, acks>>
                 /\ state = "TERMINATED" => state' = "TERMINATED"]_vars
=============================================================================
