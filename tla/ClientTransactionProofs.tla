----------------------- MODULE ClientTransactionProofs -----------------------
(***************************************************************************)
(* The safety properties of ClientTransaction for any number of responses   *)
(* and RSeq numbers; and, at the end, of its user Registration, a module of *)
(* its own that shares no state with it.                                    *)
(***************************************************************************)
EXTENDS ClientTransaction, Registration, FiniteSetTheorems, SequenceTheorems, TLAPS

\* A CANCEL is put off exactly until the first provisional response.
CancelState ==
    /\ cancels <= 1
    /\ ua # "cancelled" => cancels = 0 /\ ~cancelPending
    /\ state = "TRYING" => cancels = 0
    /\ state = "TRYING" /\ ua = "cancelled" => cancelPending
    /\ state = "RINGING" /\ ua = "cancelled" => cancels = 1
    /\ state = "RINGING" \/ cancels = 1 => provs > 0

\* A live transaction has not been acknowledged, and has given a final response
\* to the UA only if the UA took over the ACK.
AckState ==
    /\ acks <= 1
    /\ alive => acks = 0
    /\ acks = 1 \/ uack => needack /\ told["final"] >= 1
    /\ needack /\ ~uack /\ ~BadHeaders => acks = told["final"]

\* The PRACKed numbers are an interval that ends in last_rseq.
PrackState ==
    /\ \A r \in RSeqs : pracks[r] <= 1
    /\ \A r \in RSeqs : pracks[r] = 1 => r \in seen_rseqs /\ r <= last_rseq
    /\ last_rseq # 0 => pracks[last_rseq] = 1
    /\ \A r, q \in RSeqs : pracks[r] = 1 /\ r <= q /\ q <= last_rseq => pracks[q] = 1

IInv == TypeOK /\ Registered /\ CancelState /\ AckState /\ PrackState

\* Where the transaction sends the ACK itself and every final response parses:
\* what the UA has heard is in the state, and timer B is gone with the 408.
OutcomeState ==
    /\ ~uack /\ state # "UACK"
    /\ told["final"] + told["timeout"] <= 1
    /\ alive /\ state # "TERMINATED" => told["final"] = 0 /\ told["timeout"] = 0
    /\ state = "TERMINATED" => te["B"] # "armed" /\ ready["B"] = 0

Automatic == ~LateMedia /\ ~BadHeaders

USE ClientTransactionAssumption DEF ClientTransactionAssumption

LEMMA InitIInv == Init => IInv /\ OutcomeState /\ TimerPending
  <1> SUFFICES ASSUME Init PROVE IInv /\ OutcomeState /\ TimerPending
    OBVIOUS
  <1> USE DEF Init
  <1>1. TypeOK
    <2>1. te \in [Timers -> {"nil", "armed", "fired"}] /\ te["B"] = "armed"
      BY DEF StartTimers, Timers
    <2>2. /\ ready \in [Timers -> 0..1]
          /\ told \in [{"final", "timeout"} -> Nat]
          /\ pracks \in [RSeqs -> Nat]
      OBVIOUS
    <2>3. /\ alive \in BOOLEAN /\ tclient \in BOOLEAN /\ needack \in BOOLEAN
          /\ cancelPending \in BOOLEAN /\ uack \in BOOLEAN
          /\ seen_rseqs \subseteq RSeqs /\ inbox \subseteq Responses
      OBVIOUS
    <2>4. /\ last_rseq \in 0..MaxRSeq /\ provs \in 0..MaxProv
          /\ cancels \in Nat /\ acks \in Nat
      OBVIOUS
    <2>5. /\ state \in {"TRYING", "RINGING", "TERMINATED", "UACK"}
          /\ ua \in {"up", "cancelled", "acked"}
      OBVIOUS
    <2> QED
      BY <2>1, <2>2, <2>3, <2>4, <2>5, Zenon DEF TypeOK
  <1>2. Registered /\ CancelState /\ AckState /\ PrackState
    BY DEF Registered, CancelState, AckState, PrackState
  <1>3. OutcomeState /\ TimerPending
    BY DEF OutcomeState, TimerPending, Pending, StartTimers, Timers
  <1> QED
    BY <1>1, <1>2, <1>3 DEF IInv

-----------------------------------------------------------------------------
(* What the helpers of the actions change.                                  *)

LEMMA FiredEffect ==
    ASSUME ready \in [Timers -> 0..1], NEW x \in Timers, Fired(x)
    PROVE  /\ ready' \in [Timers -> 0..1] /\ ready'[x] = 0
           /\ \A y \in Timers \ {x} : ready'[y] = ready[y]
  BY DEF Fired

LEMMA StoppedType ==
    ASSUME TypeOK
    PROVE  /\ Stopped \in [Timers -> {"nil", "armed", "fired"}]
           /\ Stopped["B"] = "nil"
  BY DEF Stopped, TypeOK, Timers

LEMMA UnregisterEffect ==
    ASSUME Unregister
    PROVE  /\ alive' = FALSE /\ tclient' = FALSE
           /\ te' \in [Timers -> {"nil", "armed", "fired"}]
  BY DEF Unregister, cleanup

LEMMA ToldEffect ==
    ASSUME told \in [{"final", "timeout"} -> Nat], NEW x \in {"final", "timeout"},
           RecvResponse(x)
    PROVE  /\ told' \in [{"final", "timeout"} -> Nat]
           /\ told'[x] = told[x] + 1
           /\ \A y \in {"final", "timeout"} \ {x} : told'[y] = told[y]
  BY DEF RecvResponse

\* A PRACK is sent only for the number after the last one.
LEMMA ReliableEffect ==
    ASSUME TypeOK, PrackState, NEW r \in 0..MaxRSeq, r \notin seen_rseqs,
           RecvReliable(r),
           seen_rseqs' = IF r = 0 THEN seen_rseqs ELSE seen_rseqs \cup {r}
    PROVE  /\ last_rseq' \in 0..MaxRSeq /\ pracks' \in [RSeqs -> Nat]
           /\ seen_rseqs' \subseteq RSeqs
           /\ PrackState'
  <1>1. CASE r # 0 /\ ua = "up" /\ CheckRSeq(r)
    <2>1. r \in RSeqs /\ last_rseq' = r /\ pracks' = [pracks EXCEPT ![r] = @ + 1]
      BY <1>1 DEF RecvReliable, RSeqs
    <2>2. pracks[r] = 0
      BY <2>1 DEF TypeOK, PrackState
    <2>3. /\ pracks' \in [RSeqs -> Nat] /\ pracks'[r] = 1
          /\ \A q \in RSeqs \ {r} : pracks'[q] = pracks[q]
      BY <2>1, <2>2 DEF TypeOK
    <2>4. seen_rseqs' \subseteq RSeqs /\ r \in seen_rseqs' /\ seen_rseqs \subseteq seen_rseqs'
      BY <1>1, <2>1 DEF TypeOK
    <2>5. CASE last_rseq = 0
      <3>1. \A q \in RSeqs : pracks[q] = 0
        BY <2>5 DEF TypeOK, PrackState, RSeqs
      <3> QED
        BY <2>1, <2>3, <2>4, <3>1 DEF PrackState, RSeqs
    <2>6. CASE last_rseq # 0
      <3>1. r = last_rseq + 1 /\ pracks[last_rseq] = 1 /\ last_rseq \in RSeqs
        BY <1>1, <2>6 DEF CheckRSeq, PrackState, TypeOK, RSeqs
      <3>2. \A q \in RSeqs : pracks'[q] <= 1 /\ (pracks'[q] = 1 => q \in seen_rseqs' /\ q <= r)
        BY <2>1, <2>3, <2>4, <3>1 DEF PrackState, RSeqs
      <3>3. \A p, q \in RSeqs : pracks'[p] = 1 /\ p <= q /\ q <= r => pracks'[q] = 1
        BY <2>1, <2>3, <3>1 DEF PrackState, RSeqs
      <3> QED
        BY <2>1, <2>3, <2>4, <3>2, <3>3 DEF PrackState, RSeqs
    <2> QED
      BY <2>5, <2>6
  <1>2. CASE ~(r # 0 /\ ua = "up" /\ CheckRSeq(r))
    BY <1>2 DEF RecvReliable, TypeOK, PrackState, RSeqs
  <1> QED
    BY <1>1, <1>2

-----------------------------------------------------------------------------
LEMMA TimerStepIInv == ASSUME IInv, TimerStep PROVE IInv'
  <1> USE DEF IInv, tmVars, timerVars, rseqVars, sentVars
  <1>1. ASSUME NEW x \in Timers, Pop(x) PROVE IInv'
    BY <1>1 DEF Pop, TypeOK, Registered, CancelState, AckState, PrackState
  <1>2. ASSUME NEW x \in Timers, TimerAfterCleanup(x) PROVE IInv'
    BY <1>2, FiredEffect
    DEF TimerAfterCleanup, TypeOK, Registered, CancelState, AckState, PrackState
  <1>3. ASSUME timerA PROVE IInv'
    BY <1>3, FiredEffect
    DEF timerA, TypeOK, Registered, CancelState, AckState, PrackState, Timers
  <1>4. ASSUME timerB PROVE IInv'
    <2>1. /\ te' \in [Timers -> {"nil", "armed", "fired"}]
          /\ ready' \in [Timers -> 0..1]
      BY <1>4, FiredEffect DEF timerB, Expired, TypeOK, Timers
    <2>2. told' \in [{"final", "timeout"} -> Nat] /\ told'["final"] = told["final"]
      BY <1>4, ToldEffect DEF timerB, TypeOK
    <2>3. TypeOK'
      BY <1>4, <2>1, <2>2 DEF timerB, TypeOK
    <2> QED
      BY <1>4, <2>2, <2>3 DEF timerB, Registered, CancelState, AckState, PrackState
  <1>5. ASSUME timerC PROVE IInv'
    <2>1. ready' \in [Timers -> 0..1]
      BY <1>5, FiredEffect DEF timerC, TypeOK, Timers
    <2>2. TypeOK'
      BY <1>5, <2>1, UnregisterEffect DEF timerC, TypeOK
    <2> QED
      BY <1>5, <2>2, UnregisterEffect
      DEF timerC, Registered, CancelState, AckState, PrackState
  <1>6. ASSUME timerG PROVE IInv'
    BY <1>6, FiredEffect
    DEF timerG, TypeOK, Registered, CancelState, AckState, PrackState, Timers
  <1> QED
    BY <1>1, <1>2, <1>3, <1>4, <1>5, <1>6 DEF TimerStep

LEMMA ProvisionalRSeq == \A m \in Provisional : m.rseq \in 0..MaxRSeq
  <1> TAKE m \in Provisional
  <1>1. CASE m \in [code : {"100", "18x"}, rseq : {0}, ok : {TRUE}]
    BY <1>1
  <1>2. CASE m \in [code : {"18x"}, rseq : RSeqs, ok : {TRUE}]
    BY <1>2 DEF RSeqs
  <1> QED
    BY <1>1, <1>2 DEF Provisional

LEMMA ProvisionalIInv ==
    ASSUME IInv, NEW m \in Responses, process_provisional_response(m)
    PROVE  IInv'
  <1> USE DEF process_provisional_response, IInv
  <1>1. m.rseq \in 0..MaxRSeq /\ m.rseq \notin seen_rseqs /\ alive
    <2>1. m \in Provisional
      OBVIOUS
    <2>2. m.rseq \in 0..MaxRSeq
      BY <2>1, ProvisionalRSeq
    <2>3. ~Ignored(m)
      OBVIOUS
    <2>4. m.rseq \notin seen_rseqs /\ alive
      BY <2>3 DEF Ignored
    <2> QED
      BY <2>2, <2>4
  <1>2. /\ last_rseq' \in 0..MaxRSeq /\ pracks' \in [RSeqs -> Nat]
        /\ seen_rseqs' \subseteq RSeqs /\ PrackState'
    BY <1>1, ReliableEffect
  <1>3. te' \in [Timers -> {"nil", "armed", "fired"}]
    BY StoppedType DEF Timers
  <1>4. /\ state' \in {"TRYING", "RINGING", "TERMINATED", "UACK"}
        /\ cancels' \in Nat /\ cancelPending' \in BOOLEAN
        /\ provs' \in 0..MaxProv /\ provs' > 0
        /\ CancelState'
    <2>1. provs' \in 0..MaxProv /\ provs' > 0
      BY DEF TypeOK
    <2>2. ua' = ua /\ FirstProvisional
      OBVIOUS
    <2> HIDE DEF process_provisional_response
    <2>3. CASE state = "TRYING"
      <3>1. state' = "RINGING" /\ ~cancelPending' /\ cancelPending' \in BOOLEAN
        BY <2>2, <2>3 DEF FirstProvisional
      <3>2. /\ ua = "cancelled" => cancels' = 1
            /\ ua # "cancelled" => cancels' = 0
        BY <2>2, <2>3 DEF FirstProvisional, CancelState
      <3> QED
        BY <2>1, <2>2, <3>1, <3>2 DEF CancelState
    <2>4. CASE state # "TRYING"
      <3>1. state' = state /\ cancelPending' = cancelPending /\ cancels' = cancels
        BY <2>2, <2>4 DEF FirstProvisional
      <3> QED
        BY <2>1, <2>2, <2>4, <3>1 DEF CancelState, TypeOK
    <2> QED
      BY <2>3, <2>4
  <1>5. inbox' \subseteq Responses
    BY DEF Handle, TypeOK
  <1>6. TypeOK'
    BY <1>2, <1>3, <1>4, <1>5 DEF TypeOK, tmVars
  <1>7. Registered' /\ AckState'
    BY DEF Registered, AckState, tmVars
  <1> QED
    BY <1>2, <1>4, <1>6, <1>7

LEMMA FinalIInv ==
    ASSUME IInv, NEW m \in Responses, process_final_response(m)
    PROVE  IInv'
  <1> USE DEF process_final_response, IInv
  <1>1. alive /\ acks = 0 /\ uack' \in BOOLEAN /\ (uack => uack')
    BY DEF Ignored, AckState, TypeOK
  <1>2. /\ told' \in [{"final", "timeout"} -> Nat]
        /\ told'["final"] = told["final"] + 1
    BY ToldEffect DEF TypeOK
  <1>3. /\ te' \in [Timers -> {"nil", "armed", "fired"}]
        /\ state' \in {state, "UACK"} /\ alive' \in BOOLEAN /\ tclient' = alive'
        /\ acks' \in {0, 1} /\ (alive' => acks' = 0)
        /\ acks' = 1 => needack
        /\ uack' /\ ~uack => needack
        /\ needack /\ ~uack' /\ ~BadHeaders => acks' = 1
    <2>1. CASE ~needack
      <3>1. Unregister /\ state' = state /\ acks' = acks /\ FinalDone(m)
        BY <2>1 DEF FinalDone
      <3>2. alive' = FALSE /\ tclient' = FALSE /\ te' \in [Timers -> {"nil", "armed", "fired"}]
        BY <3>1, UnregisterEffect
      <3>3. uack' => uack
        BY <2>1
      <3>4. alive' \in BOOLEAN /\ tclient' = alive' /\ ~alive'
        BY <3>2, Zenon
      <3> HIDE DEF process_final_response, IInv
      <3> QED
        BY <1>1, <2>1, <3>1, <3>2, <3>3, <3>4
    <2>2. CASE needack /\ m.ok /\ ~uack'
      <3>1. Unregister /\ state' = state /\ acks' = acks + 1
        BY <2>2 DEF FinalDone
      <3>2. alive' = FALSE /\ tclient' = FALSE /\ te' \in [Timers -> {"nil", "armed", "fired"}]
        BY <3>1, UnregisterEffect
      <3>4. alive' \in BOOLEAN /\ tclient' = alive' /\ ~alive'
        BY <3>2, Zenon
      <3> HIDE DEF process_final_response, IInv
      <3> QED
        BY <1>1, <2>2, <3>1, <3>2, <3>4
    <2>3. CASE needack /\ m.ok /\ uack'
      BY <1>1, <2>3, StoppedType DEF FinalDone, Registered, tmVars, TypeOK, Timers
    <2>4. CASE needack /\ ~m.ok
      <3>1. BadHeaders
        BY <2>4 DEF Final
      <3> QED
        BY <1>1, <2>4, <3>1, StoppedType DEF FinalDone, Registered, tmVars, TypeOK
    <2> QED
      BY <2>1, <2>2, <2>3, <2>4
  <1>4. needack /\ ~uack' /\ ~BadHeaders => told["final"] = 0
    BY <1>1 DEF AckState, TypeOK
  <1>5. inbox' \subseteq Responses
    BY DEF Handle, TypeOK
  <1>6. TypeOK'
    BY <1>1, <1>2, <1>3, <1>5 DEF TypeOK, rseqVars
  <1>7. Registered'
    BY <1>3 DEF Registered
  <1>8. CancelState' /\ PrackState'
    BY <1>3 DEF CancelState, PrackState, rseqVars
  <1>9. AckState'
    BY <1>1, <1>2, <1>3, <1>4 DEF AckState, TypeOK
  <1> QED
    BY <1>6, <1>7, <1>8, <1>9

LEMMA StepIInv == IInv /\ [Next]_vars => IInv'
  <1> SUFFICES ASSUME IInv, [Next]_vars PROVE IInv'
    OBVIOUS
  <1> USE DEF IInv, tmVars, timerVars, rseqVars, sentVars
  <1>1. ASSUME NEW m \in Responses, IncomingIgnored(m) \/ process_response(m)
        PROVE  IInv'
    BY <1>1 DEF IncomingIgnored, Handle, process_response, TypeOK, Registered,
                CancelState, AckState, PrackState
  <1>2. ASSUME Cancel PROVE IInv'
    <2>1. TypeOK'
      <3>1. cancels' \in Nat /\ cancelPending' \in BOOLEAN
        <4>1. CASE state = "RINGING"
          BY <1>2, <4>1 DEF Cancel, TypeOK
        <4>2. CASE state # "RINGING"
          BY <1>2, <4>2 DEF Cancel, TypeOK
        <4> QED
          BY <4>1, <4>2
      <3> QED
        BY <1>2, <3>1 DEF Cancel, TypeOK
    <2>2. CancelState'
      BY <1>2 DEF Cancel, CancelState, TypeOK
    <2> QED
      BY <1>2, <2>1, <2>2 DEF Cancel, Registered, AckState, PrackState
  <1>3. ASSUME SendACK PROVE IInv'
    <2>1. acks' \in {0, 1} /\ (acks' = 1 => acks = 1 \/ uack)
      BY <1>3 DEF SendACK, AckState, TypeOK
    <2>2. TypeOK'
      BY <1>3, <2>1, UnregisterEffect DEF SendACK, TypeOK
    <2> QED
      BY <1>3, <2>1, <2>2, UnregisterEffect
      DEF SendACK, Registered, CancelState, AckState, PrackState
  <1>4. CASE UNCHANGED vars
    BY <1>4 DEF vars, TypeOK, Registered, CancelState, AckState, PrackState
  <1> QED
    BY <1>1, <1>2, <1>3, <1>4, TimerStepIInv, ProvisionalIInv, FinalIInv
    DEF Next, HandlerStep, PeerStep

LEMMA InductiveInvariant == Spec => []IInv
  BY InitIInv, StepIInv, PTL DEF Spec

-----------------------------------------------------------------------------
\* Every variable keeps its type, whatever the interleaving.
THEOREM TypeCorrect == Spec => []TypeOK
  <1>1. IInv => TypeOK
    BY DEF IInv
  <1> QED
    BY <1>1, InductiveInvariant, PTL

\* sip_tm.tclient has exactly the live transactions: tclient_del and cleanup()
\* never come apart.
THEOREM RegisteredWhileAlive == Spec => []Registered
  <1>1. IInv => Registered
    BY DEF IInv
  <1> QED
    BY <1>1, InductiveInvariant, PTL

\* A CANCEL that Cancel() puts off goes out with the first provisional response
\* and never twice.
THEOREM CancelWaitsForProvisional == Spec => []CancelAfterProvisional
  <1>1. IInv => CancelAfterProvisional
    BY DEF IInv, CancelState, CancelAfterProvisional, TypeOK
  <1> QED
    BY <1>1, InductiveInvariant, PTL

\* An INVITE is acknowledged once, and exactly when its final response was given
\* to the UA.
THEOREM AcksTheFinalResponse == Spec => []AckMatchesFinal
  <1>1. IInv => AckMatchesFinal
    BY DEF IInv, AckState, AckMatchesFinal
  <1> QED
    BY <1>1, InductiveInvariant, PTL

\* CheckRSeq and seen_rseqs together let the UA PRACK an interval of RSeq
\* numbers, each once.
THEOREM PracksWithoutGaps == Spec => []PrackedInOrder
  <1>1. IInv => PrackedInOrder
    BY DEF IInv, PrackState, PrackedInOrder
  <1> QED
    BY <1>1, InductiveInvariant, PTL

\* The CANCEL and the PRACKs of an INVITE: both of the above.
THEOREM FollowUpsInOrder == Spec => []FollowUps
  <1> QED
    BY CancelWaitsForProvisional, PracksWithoutGaps, PTL DEF FollowUps

\* After cleanup() the transaction sends nothing and never comes back, and a
\* transaction that timed out stays terminated.
THEOREM NothingAfterTheEnd == Spec => EndIsFinal
  <1>1. IInv /\ [Next]_vars =>
          [/\ ~alive => UNCHANGED <<alive, tclient, cancels, acks>>
           /\ state = "TERMINATED" => state' = "TERMINATED"]_vars
    <2> SUFFICES ASSUME IInv, Next
                 PROVE  /\ ~alive => UNCHANGED <<alive, tclient, cancels, acks>>
                        /\ state = "TERMINATED" => state' = "TERMINATED"
      OBVIOUS
    <2> USE DEF tmVars, timerVars, rseqVars, sentVars
    <2>1. ASSUME NEW x \in Timers, Pop(x) \/ TimerAfterCleanup(x)
          PROVE  UNCHANGED <<alive, tclient, cancels, acks, state>>
      BY <2>1 DEF Pop, TimerAfterCleanup
    <2>2. ASSUME timerA \/ timerG PROVE UNCHANGED <<alive, tclient, cancels, acks, state>>
      BY <2>2 DEF timerA, timerG
    <2>3. ASSUME timerB \/ timerC
          PROVE  alive /\ (state = "TERMINATED" => state' = "TERMINATED")
      BY <2>3 DEF timerB, timerC
    <2>4. ASSUME NEW m \in Responses, IncomingIgnored(m) \/ process_response(m)
          PROVE  UNCHANGED <<alive, tclient, cancels, acks, state>>
      BY <2>4 DEF IncomingIgnored, process_response
    <2>5. ASSUME NEW m \in Responses,
                 process_provisional_response(m) \/ process_final_response(m)
          PROVE  alive /\ state # "TERMINATED"
      BY <2>5 DEF process_provisional_response, process_final_response, Ignored
    <2>6. ASSUME Cancel PROVE alive /\ state' = state
      BY <2>6 DEF Cancel
    <2>7. ASSUME SendACK
          PROVE  (~alive => UNCHANGED <<alive, tclient, cancels, acks>>) /\ state' = state
      <3>1. Unregister /\ cancels' = cancels /\ state' = state
            /\ acks' = IF alive THEN acks + 1 ELSE acks
        BY <2>7 DEF SendACK
      <3>2. alive' = FALSE /\ tclient' = FALSE
        BY <3>1, UnregisterEffect
      <3>3. ~alive => alive = FALSE /\ tclient = FALSE
        BY Zenon DEF IInv, TypeOK, Registered
      <3> QED
        BY <3>1, <3>2, <3>3
    <2> QED
      BY <2>1, <2>2, <2>3, <2>4, <2>5, <2>6, <2>7
      DEF Next, TimerStep, HandlerStep, PeerStep
  <1> QED
    BY <1>1, InductiveInvariant, PTL DEF Spec, EndIsFinal

-----------------------------------------------------------------------------
(* One outcome, where the transaction sends the ACK itself (no late media)  *)
(* and every final response parses.                                         *)

LEMMA StepOutcome ==
    ASSUME Automatic, IInv, OutcomeState, TimerPending, [Next]_vars
    PROVE  OutcomeState' /\ TimerPending'
  <1> USE DEF tmVars, timerVars, rseqVars, sentVars, Pending
  <1>0. TypeOK
    BY DEF IInv
  <1>1. ASSUME NEW x \in Timers, Pop(x) PROVE OutcomeState' /\ TimerPending'
    BY <1>0, <1>1 DEF Pop, TypeOK, OutcomeState, TimerPending, Timers
  <1>2. ASSUME NEW x \in Timers, TimerAfterCleanup(x)
        PROVE  OutcomeState' /\ TimerPending'
    BY <1>0, <1>2 DEF TimerAfterCleanup, Fired, TypeOK, OutcomeState, TimerPending, Timers
  <1>3. ASSUME timerA \/ timerG PROVE OutcomeState' /\ TimerPending'
    BY <1>0, <1>3 DEF timerA, timerG, Fired, TypeOK, OutcomeState, TimerPending, Timers
  <1>4. ASSUME timerB PROVE OutcomeState' /\ TimerPending'
    <2>1. state # "TERMINATED" /\ alive
      BY <1>4, <1>0 DEF timerB, Fired, OutcomeState
    <2>2. told'["final"] = 0 /\ told'["timeout"] = 1
      BY <1>0, <1>4, <2>1 DEF timerB, RecvResponse, OutcomeState, TypeOK
    <2>3. te'["C"] = "armed" /\ te'["B"] = "nil" /\ ready'["B"] = 0
      BY <1>0, <1>4 DEF timerB, Fired, Expired, TypeOK, Timers
    <2>4. state' = "TERMINATED" /\ uack' = uack
      BY <1>4 DEF timerB
    <2> QED
      BY <2>2, <2>3, <2>4 DEF OutcomeState, TimerPending
  <1>5. ASSUME timerC PROVE OutcomeState' /\ TimerPending'
    <2>1. ~alive' /\ te'["B"] = "nil"
      BY <1>5 DEF timerC, Unregister, cleanup, Timers
    <2>2. ready'["B"] = ready["B"]
      BY <1>0, <1>5 DEF timerC, Fired, TypeOK, Timers
    <2> QED
      BY <1>5, <2>1, <2>2 DEF timerC, OutcomeState, TimerPending
  <1>6. ASSUME NEW m \in Responses, IncomingIgnored(m) \/ process_response(m)
        PROVE  OutcomeState' /\ TimerPending'
    BY <1>6 DEF IncomingIgnored, process_response, OutcomeState, TimerPending
  <1>7. ASSUME NEW m \in Responses, process_provisional_response(m)
        PROVE  OutcomeState' /\ TimerPending'
    <2>1. state # "TERMINATED" /\ state # "UACK"
      BY <1>7 DEF process_provisional_response, Ignored, OutcomeState
    <2>2. state' \in {"TRYING", "RINGING"}
      BY <1>0, <1>7, <2>1 DEF process_provisional_response, FirstProvisional, TypeOK
    <2>3. te'["B"] = "armed"
      BY <1>0, <1>7, StoppedType DEF process_provisional_response, Timers
    <2>4. told' = told /\ uack' = uack /\ alive
      BY <1>7 DEF process_provisional_response, Ignored
    <2> QED
      BY <2>1, <2>2, <2>3, <2>4 DEF OutcomeState, TimerPending
  <1>8. ASSUME NEW m \in Responses, process_final_response(m)
        PROVE  OutcomeState' /\ TimerPending'
    <2>1. alive /\ state # "TERMINATED" /\ ~uack' /\ m \in Final /\ FinalDone(m)
      BY <1>8 DEF process_final_response, Ignored, OutcomeState, Automatic
    <2>2. m.ok
      BY <2>1 DEF Final, Automatic
    <2>3. Unregister /\ state' = state
      BY <2>1, <2>2 DEF FinalDone
    <2>4. ~alive'
      BY <2>3 DEF Unregister, cleanup
    <2>5. told'["final"] = 1 /\ told'["timeout"] = 0
      BY <1>0, <1>8, <2>1 DEF process_final_response, RecvResponse, OutcomeState, TypeOK
    <2> QED
      BY <2>1, <2>3, <2>4, <2>5 DEF OutcomeState, TimerPending
  <1>9. ASSUME Cancel PROVE OutcomeState' /\ TimerPending'
    BY <1>9 DEF Cancel, OutcomeState, TimerPending
  <1>10. ~SendACK
    BY DEF SendACK, OutcomeState
  <1>11. CASE UNCHANGED vars
    BY <1>11 DEF vars, OutcomeState, TimerPending
  <1> QED
    BY <1>1, <1>2, <1>3, <1>4, <1>5, <1>6, <1>7, <1>8, <1>9, <1>10, <1>11
    DEF Next, TimerStep, HandlerStep, PeerStep

\* The UA hears of one outcome only, however a final response, timer B and the
\* goroutines that wait for the lock are ordered.
THEOREM HearsOneOutcome == ASSUME Automatic PROVE Spec => [](OneOutcome /\ Heard <= 1)
  <1>1. Init => OutcomeState /\ TimerPending
    BY InitIInv
  <1>2. IInv /\ OutcomeState /\ TimerPending /\ [Next]_vars => (OutcomeState /\ TimerPending)'
    BY StepOutcome
  <1>3. OutcomeState => OneOutcome /\ Heard <= 1
    BY DEF OutcomeState, OneOutcome, Heard
  <1> QED
    BY <1>1, <1>2, <1>3, InductiveInvariant, PTL DEF Spec

\* A live transaction always has a timer on its way that ends it.
THEOREM AlwaysReclaimable == ASSUME Automatic PROVE Spec => [](Reclaimable /\ TimerPending)
  <1>1. Init => OutcomeState /\ TimerPending
    BY InitIInv
  <1>2. IInv /\ OutcomeState /\ TimerPending /\ [Next]_vars => (OutcomeState /\ TimerPending)'
    BY StepOutcome
  <1>3. TimerPending => Reclaimable
    BY DEF Reclaimable
  <1> QED
    BY <1>1, <1>2, <1>3, InductiveInvariant, PTL DEF Spec

-----------------------------------------------------------------------------
(* The registration agent *)

\* The challenge that credentials answer.
ChallengeOf(auth) == [algorithm |-> auth.algorithm, nonce |-> auth.nonce, qop |-> auth.qop]
IsChallenge(ch) == ch.nonce.id \in NonceIds /\ ch = Challenge(ch.algorithm, ch.nonce.id)

AgentTypes ==
    /\ asks \in {"WWW-Authenticate", "Proxy-Authenticate"}
    /\ age \in [NonceIds -> Nat] /\ stale \in Nat /\ atries \in Nat
    /\ started \in BOOLEAN /\ failed \in BOOLEAN

\* A round begins with the timer, or with StartRegister.
Waits ==
    /\ ~started => at = "nowhere" /\ timer = "none" /\ atries = 0
    /\ timer # "none" => at = "nowhere" /\ atries = 0

\* The challenge that will be answered is one that the registrar can have sent.
Genuine == resp.challenges # <<>> => IsChallenge(resp.challenges[1])

\* The credentials kept in Rmsg answer a challenge, and those in the REGISTER on its
\* way are the same.
Answering ==
    at # "nowhere" /\ atries > 0 =>
        LET auth == Credentials(Rmsg)
        IN  /\ IsChallenge(ChallengeOf(auth))
            /\ auth = GenAuthHF(ChallengeOf(auth), passw, "REGISTER")
            /\ Has(auth) => Credentials(req)
                                    = parseSipAuthorizationBody(String(auth))

\* With the right password only a stale answer is refused.
Counted ==
    passw = Right /\ at # "nowhere" =>
        /\ atries <= stale + 1
        /\ at \in {"back", "agent"} /\ resp.code = "401 or 407" => atries <= stale

AgentInv == AgentTypes /\ Waits /\ Genuine /\ Answering /\ Counted /\ FailureJustified

\* Attempts and stale answers are numbers.
LEMMA Counting ==
    ASSUME NEW n \in Nat
    PROVE  /\ 0 <= n + 1 /\ 0 <= n
           /\ ~(3 <= n /\ n < 3)
           /\ \A a \in Nat : a <= n => a <= n + 1
  OBVIOUS

\* An answer without challenges.
LEMMA AnswerFields ==
    \A code : LET r == Answer(code, <<>>) IN r.code = code /\ r.challenges = <<>>
  BY DEF Answer

\* Where there are nonces enough for an offer, its first challenge has one of them.
LEMMA FreeNonces ==
    ASSUME NEW offer \in Offers, Len(SetToSeq(FreeIds)) >= Len(offer), offer # <<>>
    PROVE  SetToSeq(FreeIds)[1] \in NonceIds
  <1>1. PICK F : F = FreeIds
    OBVIOUS
  <1>2. F \in SUBSET NonceIds /\ IsFiniteSet(NonceIds)
    BY <1>1, RegistrationAssumption DEF FreeIds, RegistrationAssumption
  <1>3. PICK n : n = Cardinality(F)
    OBVIOUS
  <1>4. IsFiniteSet(F)
    BY <1>2, FS_Subset
  <1>5. n \in Nat /\ ExistsBijection(1..n, F)
    BY <1>3, <1>4, FS_CardinalityType
  <1>6. \E f \in [1..n -> F] : IsInjective(f)
    BY <1>5 DEF ExistsBijection, Bijection, Injection, IsInjective
  <1>7. SetToSeq(F) \in [1..n -> F]
    BY <1>3, <1>6 DEF SetToSeq
  <1>8. Len(SetToSeq(F)) = n
    BY <1>5, <1>7, LenProperties
  <1>9. Len(offer) >= 1 /\ Len(offer) \in Nat
    BY RegistrationAssumption DEF RegistrationAssumption
  <1> QED  BY <1>1, <1>2, <1>5, <1>7, <1>8, <1>9

\* What is read is what was written: a parameter that is left out is empty.
LEMMA ReadAsWritten ==
    ASSUME NEW auth, auth.qop = "" => auth.cnonce = "",
           auth = [algorithm |-> auth.algorithm, nonce |-> auth.nonce, qop |-> auth.qop,
                   cnonce |-> auth.cnonce, response |-> auth.response]
    PROVE  parseSipAuthorizationBody(String(auth)) = auth
  <1>1. PICK D : D = {"nonce", "response"} \cup (IF auth.algorithm = "" THEN {} ELSE {"algorithm"})
                        \cup (IF auth.qop = "" THEN {} ELSE {"cnonce", "qop"})
    OBVIOUS
  <1>2. PICK h : h = parseSipAuthorizationBody(String(auth))
    OBVIOUS
  <1>3. h = [name \in {"nonce", "response", "algorithm", "qop", "cnonce"} |->
               IF name \in D THEN auth[name] ELSE ""]
    BY <1>1, <1>2 DEF parseSipAuthorizationBody, String
  <1>4. \A name \in {"nonce", "response", "algorithm", "qop", "cnonce"} : h[name] = auth[name]
    BY <1>1, <1>3
  <1>5. h = auth
    BY <1>3, <1>4
  <1> QED  BY <1>2, <1>5

\* An answer with the right password to a challenge of a known algorithm is good as
\* long as the nonce is.
LEMMA FreshAccepted ==
    ASSUME NEW auth, IsChallenge(ChallengeOf(auth)), NEW a \in 0..VTime,
           auth = GenAuthHF(ChallengeOf(auth), Right, "REGISTER"),
           Supported(auth.algorithm)
    PROVE  /\ Has(auth)
           /\ parseSipAuthorizationBody(String(auth)) = auth
           /\ Verify(auth, Right, "REGISTER", a)
  <1>1. PICK n, id : n = auth.algorithm /\ id = auth.nonce.id
    OBVIOUS
  <1>2. PICK nonce, qop, cnonce :
          /\ nonce = Encrypt(GetAlgorithm(n).bit, id)
          /\ qop = IF n = "" THEN "" ELSE "auth"
          /\ cnonce = IF qop = "" THEN "" ELSE "cn"
    OBVIOUS
  <1>3. PICK c : c = ChallengeOf(auth)
    OBVIOUS
  <1>4. c = [algorithm |-> n, nonce |-> nonce, qop |-> qop]
    BY <1>1, <1>2, <1>3 DEF IsChallenge, ChallengeOf, Challenge, EmitChallenge
  <1>5. PICK b : b = constructAuthHF(c)
    OBVIOUS
  <1>6. b = [algorithm |-> n, nonce |-> nonce, qop |-> qop, cnonce |-> cnonce,
             response |-> NoResponse]
    BY <1>2, <1>4, <1>5 DEF constructAuthHF
  <1>7. PICK response : response = GenResponse(b, Right, "REGISTER")
    OBVIOUS
  <1>8. auth = [b EXCEPT !.response = response]
    BY <1>3, <1>5, <1>7 DEF GenAuthHF
  <1>9. auth = [algorithm |-> n, nonce |-> nonce, qop |-> qop, cnonce |-> cnonce,
                response |-> response]
    BY <1>6, <1>8
  <1>10. parseSipAuthorizationBody(String(auth)) = auth
    <2>1. /\ auth.qop = "" => auth.cnonce = ""
          /\ auth = [algorithm |-> auth.algorithm, nonce |-> auth.nonce, qop |-> auth.qop,
                     cnonce |-> auth.cnonce, response |-> auth.response]
      BY <1>2, <1>9
    <2> QED  BY <2>1, ReadAsWritten
  <1>11. GetAlgorithm(n).bit # NoBit
    BY <1>1 DEF Supported
  <1>12. n # "no header"
    BY <1>11 DEF GetAlgorithm, NoBit
  <1>13. GenResponse(auth, Right, "REGISTER") = response
    BY <1>6, <1>7, <1>9 DEF GenResponse
  <1>14. ValidateChallenge(nonce, GetAlgorithm(n).bit, a)
    BY <1>2, <1>11 DEF ValidateChallenge, Decrypt, Encrypt
  <1>15. Verify(auth, Right, "REGISTER", a)
    BY <1>2, <1>9, <1>13, <1>14 DEF Verify
  <1> QED  BY <1>9, <1>10, <1>12, <1>15 DEF Has

LEMMA AgentBegins == AgentInit => AgentInv
  <1> SUFFICES ASSUME AgentInit PROVE AgentInv
    OBVIOUS
  <1>1. AgentTypes /\ Genuine /\ Counted
    BY DEF AgentInit, AgentTypes, Genuine, Counted, NoAnswer, Answer
  <1>2. Waits /\ Answering /\ FailureJustified
    BY Zenon DEF AgentInit, Waits, Answering, FailureJustified
  <1> QED  BY <1>1, <1>2 DEF AgentInv

\* A round begins without attempts.
LEMMA RegisterStep ==
    ASSUME AgentInv, Begin \/ Timer
    PROVE  AgentInv'
  <1>0. AgentTypes /\ Waits /\ Genuine /\ Answering /\ Counted /\ FailureJustified
    BY DEF AgentInv
  <1>1. atries = 0 /\ at = "nowhere" /\ stale \in Nat
    BY <1>0 DEF Begin, Timer, Waits, AgentTypes
  <1>2. /\ UNCHANGED <<passw, asks, atries, Rmsg, age, stale, failed>>
        /\ started' /\ timer' = "none"
        /\ \/ at' \in {"proxy", "nowhere"} /\ resp' = NoAnswer
           \/ UNCHANGED <<at, resp>>
    BY <1>0 DEF Begin, Timer, DoRegister, Waits
  <1>3. AgentTypes'
    BY <1>0, <1>1, <1>2 DEF AgentTypes
  <1>4. FailureJustified'
    BY <1>0, <1>2 DEF FailureJustified
  <1>5. Waits'
    BY <1>2, Zenon DEF Waits
  <1>6. Genuine' /\ Counted'
    <2>1. resp' = resp \/ resp'.challenges = <<>>
      BY <1>2 DEF NoAnswer, Answer
    <2>2. Genuine'
      BY <1>0, <2>1, Zenon DEF Genuine
    <2>3. atries' = 0 /\ stale' \in Nat
      BY <1>1, <1>2
    <2>4. atries' <= stale' + 1 /\ atries' <= stale'
      BY <2>3, Counting, Zenon
    <2>5. Counted'
      BY <2>4, Zenon DEF Counted
    <2> QED  BY <2>2, <2>5
  <1>7. ~(atries' > 0)
    BY <1>1, <1>2
  <1>8. Answering'
    BY <1>7, Zenon DEF Answering
  <1> QED  BY <1>3, <1>4, <1>5, <1>6, <1>8 DEF AgentInv

\* The answer to a challenge.
LEMMA ChallengeStep ==
    ASSUME AgentInv, RecvChallenge
    PROVE  AgentInv'
  <1>0. AgentTypes /\ Waits /\ Genuine /\ Answering /\ Counted /\ FailureJustified
    BY DEF AgentInv
  <1>1. /\ started /\ ~dead /\ at = "agent" /\ resp.code = "401 or 407" /\ resp.challenges # <<>>
        /\ HandleAuth(resp.challenges)
        /\ UNCHANGED <<passw, asks, started, timer, age, stale, failed>>
    BY DEF RecvChallenge, Received
  <1>2. PICK ch : ch = resp.challenges[1]
    OBVIOUS
  <1>3. IsChallenge(ch)
    BY <1>0, <1>1, <1>2 DEF Genuine
  <1>4. timer = "none"
    BY <1>0, <1>1 DEF Waits
  <1>5. Waits' /\ FailureJustified'
    BY <1>0, <1>1, <1>4, Zenon DEF Waits, FailureJustified
  <1>6. CASE ~Parses(ch)
    <2>1. at' = "nowhere" /\ UNCHANGED <<atries, Rmsg, req, resp>>
      BY <1>1, <1>2, <1>6 DEF HandleAuth
    <2>2. AgentTypes' /\ Genuine' /\ Counted'
      BY <1>0, <1>1, <2>1 DEF AgentTypes, Genuine, Counted
    <2>3. Answering'
      BY <2>1, Zenon DEF Answering
    <2> QED  BY <1>5, <2>2, <2>3 DEF AgentInv
  <1>7. CASE Parses(ch)
    <2>1. PICK auth : auth = GenAuthHF(ch, passw, "REGISTER")
      OBVIOUS
    <2>2. PICK kind : kind = aclass(asks)
      OBVIOUS
    <2>3. /\ Rmsg' = AppendHeader(kind, auth)
          /\ atries' = atries + 1
          /\ DoRegister(Rmsg')
      BY <1>1, <1>2, <1>7, <2>1, <2>2 DEF HandleAuth
    <2>4. kind \in {"sip_authorization", "sip_proxy_authorization"}
      BY <2>2 DEF aclass
    <2>5. kind \in DOMAIN Rmsg' /\ Rmsg'[kind] = auth
      BY <2>3, <2>4 DEF AppendHeader, NoCredentials
    <2>6. /\ at' \in {"proxy", "nowhere"} /\ resp' = NoAnswer
          /\ at' = "proxy" => req' = [k \in DOMAIN Rmsg' |->
                                        IF Has(Rmsg'[k])
                                        THEN parseSipAuthorizationBody(String(Rmsg'[k]))
                                        ELSE NoHeader]
      BY <1>1, <2>3 DEF DoRegister
    <2>7. at' = "proxy" /\ Has(auth) => req'[kind] = parseSipAuthorizationBody(String(auth))
      BY <2>5, <2>6
    <2>8. ChallengeOf(auth) = ch
      BY <1>3, <2>1 DEF ChallengeOf, IsChallenge, GenAuthHF, constructAuthHF,
                        Challenge
    <2>9. Answering'
      BY <1>1, <1>3, <2>1, <2>2, <2>5, <2>6, <2>7, <2>8 DEF Answering, Credentials
    <2>10. AgentTypes' /\ Genuine'
      <3>1. atries \in Nat
        BY <1>0 DEF AgentTypes
      <3>2. atries' \in Nat
        BY <2>3, <3>1
      <3>3. AgentTypes'
        BY <1>0, <1>1, <3>2, Zenon DEF AgentTypes
      <3>4. resp'.challenges = <<>>
        BY <2>6 DEF NoAnswer, Answer
      <3> QED  BY <3>3, <3>4, Zenon DEF Genuine
    <2>11. Counted'
      <3>1. passw = Right => atries <= stale
        BY <1>0, <1>1, Zenon DEF Counted
      <3>2. atries \in Nat /\ stale \in Nat /\ stale' = stale /\ passw' = passw
        BY <1>0, <1>1, Zenon DEF AgentTypes
      <3>3. passw' = Right => atries' <= stale' + 1
        BY <2>3, <3>1, <3>2
      <3>4. at' \notin {"back", "agent"}
        BY <2>6
      <3> QED  BY <3>3, <3>4, Zenon DEF Counted
    <2> QED  BY <1>5, <2>9, <2>10, <2>11 DEF AgentInv
  <1> QED  BY <1>6, <1>7

\* A round that fails with a challenge has answered three, all of them stale.
LEMMA RoundEnds ==
    ASSUME AgentInv, RecvOK \/ RecvFailure
    PROVE  AgentInv'
  <1>0. AgentTypes /\ Waits /\ Genuine /\ Answering /\ Counted /\ FailureJustified
    BY DEF AgentInv
  <1>1. /\ started /\ at = "agent"
        /\ Retries("refresh") \/ Retries("retry")
        /\ UNCHANGED <<passw, asks, started, age>>
    BY DEF RecvOK, RecvFailure, Received
  <1>2. atries' = 0 /\ stale' = 0 /\ at' = "nowhere" /\ UNCHANGED <<Rmsg, req, resp>>
    BY <1>1 DEF Retries
  <1>3. failed' = FALSE
    <2>1. CASE RecvOK
      BY <1>0, <2>1 DEF RecvOK, AgentTypes, FailureJustified
    <2>2. CASE RecvFailure
      <3>1. ASSUME Unjustified PROVE ~(stale < 3)
        <4>1. atries = 3 /\ passw = Right /\ resp.code = "401 or 407"
          BY <2>2, <3>1 DEF RecvFailure, Unjustified, Right
        <4>2. atries <= stale
          BY <1>0, <1>1, <4>1 DEF Counted
        <4>3. stale \in Nat
          BY <1>0 DEF AgentTypes
        <4> QED  BY <4>1, <4>2, <4>3, Counting, Zenon
      <3>2. failed' = (Unjustified /\ stale < 3)
        BY <2>2 DEF RecvFailure
      <3> QED  BY <3>1, <3>2, Zenon
    <2> QED  BY <2>1, <2>2
  <1>4. AgentTypes' /\ Genuine' /\ Counted'
    BY <1>0, <1>1, <1>2, <1>3 DEF AgentTypes, Genuine, Counted
  <1>5. Waits' /\ Answering' /\ FailureJustified'
    BY <1>1, <1>2, <1>3, Zenon DEF Waits, Answering, FailureJustified
  <1> QED  BY <1>4, <1>5 DEF AgentInv

\* The registrar challenges: anew only if the answer it got was stale.
LEMMA ChallengedStep ==
    ASSUME AgentInv, RegistrarChallenges
    PROVE  AgentInv'
  <1>0. AgentTypes /\ Waits /\ Genuine /\ Answering /\ Counted /\ FailureJustified
    BY DEF AgentInv
  <1>1. /\ at = "registrar" /\ at' = "back" /\ ~Good
        /\ UNCHANGED <<passw, asks, started, dead, atries, Rmsg, timer, req, failed>>
    BY DEF RegistrarChallenges, Answers
  <1>2. PICK offer \in Offers :
          LET ids == SetToSeq(FreeIds)
          IN  /\ Len(ids) >= Len(offer)
              /\ resp' = Answer("401 or 407",
                           [i \in DOMAIN offer |-> Challenge(offer[i], ids[i])])
              /\ age' = [n \in NonceIds |-> IF \E i \in DOMAIN offer : ids[i] = n THEN 0 ELSE age[n]]
    BY DEF RegistrarChallenges, Answers
  <1>3. age' \in [NonceIds -> Nat]
    BY <1>0, <1>2 DEF AgentTypes
  <1>4. PICK ids : ids = SetToSeq(FreeIds)
    OBVIOUS
  <1>5. Genuine'
    <2>1. resp'.challenges = [i \in DOMAIN offer |-> Challenge(offer[i], ids[i])]
      BY <1>2, <1>4 DEF Answer
    <2>2. offer \in Seq(STRING)
      BY RegistrationAssumption DEF RegistrationAssumption
    <2>3. CASE offer = <<>>
      BY <2>1, <2>3 DEF Genuine
    <2>4. CASE offer # <<>>
      <3>1. 1 \in DOMAIN offer
        BY <2>2, <2>4
      <3>2. ids[1] \in NonceIds
        BY <1>2, <1>4, <2>4, FreeNonces, Zenon
      <3>3. resp'.challenges[1] = Challenge(offer[1], ids[1])
        BY <2>1, <3>1
      <3>4. IsChallenge(Challenge(offer[1], ids[1]))
        BY <3>2 DEF IsChallenge, Challenge, EmitChallenge, Encrypt
      <3> QED  BY <3>3, <3>4 DEF Genuine
    <2> QED  BY <2>3, <2>4
  <1>6. PICK auth : auth = Credentials(Rmsg)
    OBVIOUS
  <1>7. stale' = IF atries > 0 /\ (age[auth.nonce.id] > VTime \/ ~Supported(auth.algorithm))
                 THEN stale + 1 ELSE stale
    BY <1>6 DEF RegistrarChallenges
  <1>8. ASSUME atries > 0, passw = Right
        PROVE  age[auth.nonce.id] > VTime \/ ~Supported(auth.algorithm)
    <2>1. /\ IsChallenge(ChallengeOf(auth))
          /\ auth = GenAuthHF(ChallengeOf(auth), Right, "REGISTER")
          /\ Has(auth) => Credentials(req)
                                  = parseSipAuthorizationBody(String(auth))
      BY <1>0, <1>1, <1>6, <1>8 DEF Answering
    <2>2. SUFFICES ASSUME age[auth.nonce.id] \in 0..VTime, Supported(auth.algorithm)
                   PROVE  FALSE
      <3>1. age[auth.nonce.id] \in Nat
        BY <1>0, <2>1 DEF IsChallenge, ChallengeOf, AgentTypes
      <3> QED  BY <3>1, DigestAssumption DEF DigestAssumption
    <2>3. /\ Has(auth) /\ parseSipAuthorizationBody(String(auth)) = auth
          /\ Verify(auth, Right, "REGISTER", age[auth.nonce.id])
      BY <2>1, <2>2, FreshAccepted
    <2> QED  BY <1>1, <2>1, <2>3 DEF Good
  <1>9. stale' \in Nat
    BY <1>0, <1>7 DEF AgentTypes
  <1>10. Counted'
    <2>1. passw = Right => atries <= stale + 1
      BY <1>0, <1>1 DEF Counted
    <2>2. passw = Right => atries <= stale'
      BY <1>0, <1>7, <1>8, <2>1 DEF AgentTypes
    <2>3. passw' = passw /\ atries' = atries /\ atries \in Nat
      BY <1>0, <1>1 DEF AgentTypes
    <2>4. passw' = Right => atries' <= stale' + 1 /\ atries' <= stale'
      BY <1>9, <2>2, <2>3, Counting, Zenon
    <2> QED  BY <2>4, Zenon DEF Counted
  <1>11. AgentTypes' /\ FailureJustified'
    BY <1>0, <1>1, <1>3, <1>9 DEF AgentTypes, FailureJustified
  <1>12. Waits' /\ Answering'
    BY <1>0, <1>1, Zenon DEF Waits, Answering, Credentials
  <1> QED  BY <1>5, <1>10, <1>11, <1>12 DEF AgentInv

\* The other steps move a message, make it age or lose it.
LEMMA AgentStep ==
    ASSUME AgentInv, [AgentNext]_agentVars
    PROVE  AgentInv'
  <1>0. AgentTypes /\ Waits /\ Genuine /\ Answering /\ Counted /\ FailureJustified
    BY DEF AgentInv
  <1>1. CASE Begin \/ Timer
    BY <1>1, RegisterStep
  <1>2. CASE RecvChallenge
    BY <1>2, ChallengeStep
  <1>3. CASE RecvOK \/ RecvFailure
    BY <1>3, RoundEnds
  <1>4. CASE RegistrarChallenges
    BY <1>4, ChallengedStep
  <1>5. CASE \/ Tick \/ StopRegister \/ UNCHANGED agentVars
             \/ IgnoredResponse \/ TransactionTimeout \/ ProxyRequest
             \/ ProxyResponse \/ RegistrarAccepts \/ RegistrarRefuses
    <2>0. age \in [NonceIds -> Nat]
      BY <1>0 DEF AgentTypes
    <2>1. age' \in [NonceIds -> Nat]
      <3>1. CASE Tick
        BY <2>0, <3>1 DEF Tick
      <3>2. CASE ~Tick
        <4>1. age' = age
          BY <1>5, <3>2, Zenon DEF StopRegister, agentVars, IgnoredResponse,
             TransactionTimeout, ProxyRequest, ProxyResponse,
             RegistrarAccepts, RegistrarRefuses
        <4> QED  BY <2>0, <4>1
      <3> QED  BY <3>1, <3>2
    <2>2. /\ UNCHANGED <<passw, asks, started, atries, Rmsg, timer, req, stale, failed>>
          /\ at = "nowhere" => at' = "nowhere"
          /\ UNCHANGED resp \/ resp'.challenges = <<>>
          /\ \/ at' = at /\ UNCHANGED resp
             \/ at' \in {"nowhere", "registrar"}
             \/ resp'.code # "401 or 407"
             \/ at = "back" /\ UNCHANGED resp
      <3>1. CASE Tick \/ StopRegister \/ UNCHANGED agentVars
        BY <3>1, Zenon DEF Tick, StopRegister, agentVars
      <3>2. CASE IgnoredResponse
        BY <3>2 DEF IgnoredResponse, Received, Answer, NoAnswer
      <3>3. CASE TransactionTimeout
        BY <3>3 DEF TransactionTimeout, Answer
      <3>4. CASE ProxyRequest
        BY <3>4 DEF ProxyRequest
      <3>5. CASE ProxyResponse
        <4>1. /\ UNCHANGED <<passw, asks, started, atries, Rmsg, timer, req, stale, failed>>
              /\ at # "nowhere"
          BY <3>5, Zenon DEF ProxyResponse
        <4>2. \/ resp'.code # "401 or 407" /\ resp'.challenges = <<>>
              \/ at = "back" /\ UNCHANGED resp
          BY <3>5, AnswerFields, Zenon DEF ProxyResponse
        <4> QED  BY <4>1, <4>2, Zenon
      <3>6. CASE RegistrarAccepts
        BY <3>6 DEF RegistrarAccepts, Answers, Answer
      <3>7. CASE RegistrarRefuses
        <4>1. /\ UNCHANGED <<passw, asks, started, atries, Rmsg, timer, req, stale, failed>>
              /\ at # "nowhere"
          BY <3>7, Zenon DEF RegistrarRefuses, Answers
        <4>2. \/ resp'.code # "401 or 407" /\ resp'.challenges = <<>>
              \/ at = "back" /\ UNCHANGED resp
          BY <3>7, AnswerFields, Zenon DEF RegistrarRefuses, Answers
        <4> QED  BY <4>1, <4>2, Zenon
      <3> QED  BY <1>5, <3>1, <3>2, <3>3, <3>4, <3>5, <3>6, <3>7
    <2>3. AgentTypes' /\ FailureJustified' /\ Genuine'
      BY <1>0, <2>1, <2>2 DEF AgentTypes, FailureJustified, Genuine
    <2>4. Counted'
      BY <1>0, <2>2 DEF Counted
    <2>5. Waits' /\ Answering'
      BY <1>0, <2>2, Zenon DEF Waits, Answering, Credentials
    <2> QED  BY <2>3, <2>4, <2>5 DEF AgentInv
  <1> QED  BY <1>1, <1>2, <1>3, <1>4, <1>5 DEF AgentNext

\* An agent with the right password reports failure after a challenge only if it
\* answered three in that round whose nonces had then run out or whose algorithm is
\* unknown (RecvResponse, HandleAuth): for any lifetime of a nonce, any finite set of
\* nonces and any offers.
THEOREM FailureJustifiedHolds == AgentSpec => []FailureJustified
  <1>1. AgentInv /\ [AgentNext]_agentVars => AgentInv'
    BY AgentStep
  <1>2. AgentInv => FailureJustified
    BY DEF AgentInv
  <1> QED  BY <1>1, <1>2, AgentBegins, PTL DEF AgentSpec
=============================================================================
