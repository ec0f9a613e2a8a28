----------------------- MODULE ServerTransactionProofs -----------------------
(***************************************************************************)
(* The safety properties of ServerTransaction for any number of reliable    *)
(* provisional responses and retransmissions, with and without 100rel.      *)
(***************************************************************************)
EXTENDS ServerTransaction, TLAPS

\* The number of final responses is what the state says, and the UA may send
\* one only on a live transaction that has sent none.
FinalsMatchState ==
    /\ finals = IF Early THEN 0 ELSE 1
    /\ ua = "active" => alive /\ Early
    /\ cbs["cancel"] + cbs["noprack"] <= finals
    /\ Early => tid = "branch" /\ te["D"] = "nil" /\ ready["D"] = 0

\* What timer D and the ACK have told the UA so far.
AckState ==
    /\ cbs["ack"] + cbs["noack"] <= 1
    /\ alive => cbs["noack"] = 0
    /\ state # "CONFIRMED" => cbs["ack"] = 0

IInv == /\ TypeOK
        /\ FinalsMatchState
        /\ AckState
        /\ Registered
        /\ Reclaimable
        /\ PrackFindsTransaction

USE ServerTransactionAssumption DEF ServerTransactionAssumption

LEMMA InitIInv == Init => IInv
  <1> SUFFICES ASSUME Init PROVE IInv
    OBVIOUS
  <1> USE DEF Init, NewServerTransaction
  <1>1. TypeOK
    <2>1. alive \in BOOLEAN /\ needack \in BOOLEAN
      OBVIOUS
    <2>2. te \in [Timers -> {"nil", "armed", "fired"}] /\ ready \in [Timers -> Nat]
      OBVIOUS
    <2>3. /\ chain \in [RSeqs -> [n : 0..MaxRetr, st : {"off", "armed", "ready"}]]
          /\ rtid2tid \in [RSeqs -> {"none", "branch", "totag"}]
          /\ prov \in ProvInFlight
          /\ rseq \in 0..MaxRSeq
      BY DEF ProvInFlight
    <2>4. tserver \subseteq {"branch", "totag"} /\ inbox \subseteq Requests
      OBVIOUS
    <2>5. /\ finals \in Nat
          /\ cbs \in [{"ack", "noack", "cancel", "noprack"} -> Nat]
      OBVIOUS
    <2>6. /\ provLeaked \in BOOLEAN /\ tmLeaked \in BOOLEAN /\ stuck \in BOOLEAN
          /\ ack_cb \in BOOLEAN
      OBVIOUS
    <2>7. /\ state \in {"TRYING", "RINGING", "COMPLETED", "CONFIRMED"}
          /\ tid \in {"branch", "totag"}
          /\ ua \in {"active", "done", "none"}
      OBVIOUS
    <2> QED
      BY <2>1, <2>2, <2>3, <2>4, <2>5, <2>6, <2>7, Zenon DEF TypeOK
  <1>2. FinalsMatchState /\ AckState
    <2>1. ua = "active" => alive
      BY Zenon
    <2> QED
      BY <2>1 DEF FinalsMatchState, AckState, Early, Timers
  <1>3. Registered /\ Reclaimable /\ PrackFindsTransaction
    BY DEF Registered, Reclaimable, PrackFindsTransaction, Pending, Early,
           Timers, NoProv
  <1> QED
    BY <1>1, <1>2, <1>3 DEF IInv

-----------------------------------------------------------------------------
(* What the helpers of the actions change.                                  *)

Cbs == {"ack", "noack", "cancel", "noprack"}

\* A callback of the UA is counted once and no other one is.
LEMMA CallEffect ==
    ASSUME cbs \in [Cbs -> Nat], NEW c \in Cbs, Call(c)
    PROVE  /\ cbs' \in [Cbs -> Nat]
           /\ cbs'[c] = cbs[c] + 1
           /\ \A d \in Cbs \ {c} : cbs'[d] = cbs[d]
  BY DEF Call

\* A timer callback that runs is no longer waiting.
LEMMA FiredEffect ==
    ASSUME ready \in [Timers -> Nat], NEW x \in Timers, Fired(x)
    PROVE  /\ ready' \in [Timers -> Nat]
           /\ \A y \in Timers \ {x} : ready'[y] = ready[y]
  BY DEF Fired

\* A final response sent while there was none: the transaction moves to its
\* new key together with the response in flight, and timer D is on its way; a
\* transaction that needs no ACK is gone.
LEMMA FinalEffect ==
    ASSUME TypeOK, Registered, alive, Early, needack' = needack,
           ready' \in [Timers -> Nat],
           NEW p \in ProvInFlight,
           NEW rt \in [RSeqs -> {"none", "branch", "totag"}],
           p # NoProv => rt[p.rseq] = tid,
           SendFinal(p, rt)
    PROVE  /\ state' = "COMPLETED" /\ ~Early' /\ finals' = finals + 1
           /\ alive' \in BOOLEAN
           /\ prov' \in ProvInFlight
           /\ tid' \in {"branch", "totag"}
           /\ tserver' \subseteq {"branch", "totag"}
           /\ te' \in [Timers -> {"nil", "armed", "fired"}]
           /\ rtid2tid' \in [RSeqs -> {"none", "branch", "totag"}]
           /\ Registered' /\ Reclaimable' /\ PrackFindsTransaction'
  <1> USE DEF SendFinal
  <1>1. /\ state' = "COMPLETED" /\ ~Early' /\ finals' = finals + 1
        /\ prov' \in ProvInFlight
    BY DEF Early
  <1>2. CASE needack
    <2>1. /\ te' \in [Timers -> {"nil", "armed", "fired"}] /\ te'["D"] = "armed"
      BY <1>2 DEF FinalTimers, Timers
    <2>2. rtid2tid' \in [RSeqs -> {"none", "branch", "totag"}]
      BY <1>2 DEF Rekeyed, ProvInFlight, NoProv
    <2>3. p # NoProv => rtid2tid'[p.rseq] = "totag"
      BY <1>2 DEF Rekeyed, ProvInFlight, NoProv
    <2>4. tid' = "totag" /\ tserver' = {"totag"} /\ alive'
      BY <1>2 DEF tserver_replace, Registered
    <2> QED
      BY <1>1, <1>2, <2>1, <2>2, <2>3, <2>4
      DEF Registered, Reclaimable, Pending, PrackFindsTransaction, SendFinal
  <1>3. CASE ~needack
    <2>1. ~alive' /\ alive' \in BOOLEAN /\ tserver' = {} /\ tid' = tid /\ rtid2tid' = rt
      BY <1>3 DEF cleanup, Registered
    <2>2. te' \in [Timers -> {"nil", "armed", "fired"}]
      BY <1>3 DEF cleanup
    <2> QED
      BY <1>1, <2>1, <2>2
      DEF Registered, Reclaimable, PrackFindsTransaction, TypeOK
  <1> QED
    BY <1>2, <1>3 DEF TypeOK

\* doCancel on a transaction without final response.
LEMMA CancelEffect ==
    ASSUME IInv, alive, Early, needack' = needack, doCancel
    PROVE  /\ SendFinal(prov, rtid2tid)
           /\ cbs' \in [Cbs -> Nat] /\ ua' \in {"done", "none"}
           /\ cbs'["cancel"] + cbs'["noprack"] <= 1
           /\ cbs'["ack"] = cbs["ack"] /\ cbs'["noack"] = cbs["noack"]
  <1>1. cbs \in [Cbs -> Nat] /\ cbs["cancel"] = 0 /\ cbs["noprack"] = 0
    BY DEF IInv, TypeOK, FinalsMatchState, Cbs
  <1>2. CASE ua # "none"
    BY <1>1, <1>2, CallEffect DEF doCancel, Cbs
  <1>3. CASE ua = "none"
    BY <1>1, <1>3 DEF doCancel, Cbs
  <1> QED
    BY <1>2, <1>3 DEF doCancel

-----------------------------------------------------------------------------
(* The steps that send a final response.                                    *)

\* After a final response that left the rest of the state in order.
LEMMA FinalStep ==
    ASSUME IInv, alive, Early, needack' = needack,
           ready' \in [Timers -> Nat], inbox' \subseteq Requests,
           chain' \in [RSeqs -> [n : 0..MaxRetr, st : {"off", "armed", "ready"}]],
           NEW p \in ProvInFlight,
           NEW rt \in [RSeqs -> {"none", "branch", "totag"}],
           p # NoProv => rt[p.rseq] = tid,
           SendFinal(p, rt),
           cbs' \in [Cbs -> Nat], ua' \in {"done", "none"}, ack_cb' \in BOOLEAN,
           cbs'["cancel"] + cbs'["noprack"] <= 1,
           cbs'["ack"] = cbs["ack"], cbs'["noack"] = cbs["noack"],
           UNCHANGED <<tmLeaked, stuck, rseq, provLeaked>>
    PROVE  IInv'
  <1>1. /\ state' = "COMPLETED" /\ ~Early' /\ finals' = finals + 1
        /\ alive' \in BOOLEAN
        /\ prov' \in ProvInFlight
        /\ tid' \in {"branch", "totag"}
        /\ tserver' \subseteq {"branch", "totag"}
        /\ te' \in [Timers -> {"nil", "armed", "fired"}]
        /\ rtid2tid' \in [RSeqs -> {"none", "branch", "totag"}]
        /\ Registered' /\ Reclaimable' /\ PrackFindsTransaction'
    BY FinalEffect DEF IInv
  <1>2. finals' = 1 /\ cbs["ack"] = 0 /\ (alive => cbs["noack"] = 0)
    BY <1>1 DEF IInv, FinalsMatchState, AckState, Early
  <1>3. TypeOK'
    BY <1>1, <1>2 DEF IInv, TypeOK, Cbs
  <1>4. FinalsMatchState' /\ AckState'
    BY <1>1, <1>2 DEF FinalsMatchState, AckState, Cbs
  <1> QED
    BY <1>1, <1>3, <1>4 DEF IInv

LEMMA CancelStep ==
    ASSUME IInv, alive, Early, needack' = needack, doCancel,
           ready' \in [Timers -> Nat], inbox' \subseteq Requests,
           UNCHANGED <<tmLeaked, stuck, rseq, chain, provLeaked, ack_cb>>
    PROVE  IInv'
  <1>1. /\ prov \in ProvInFlight
        /\ rtid2tid \in [RSeqs -> {"none", "branch", "totag"}]
        /\ chain' \in [RSeqs -> [n : 0..MaxRetr, st : {"off", "armed", "ready"}]]
        /\ ack_cb' \in BOOLEAN
    BY DEF IInv, TypeOK
  <1>2. prov # NoProv => rtid2tid[prov.rseq] = tid
    BY DEF IInv, PrackFindsTransaction
  <1> QED
    BY <1>1, <1>2, CancelEffect, FinalStep

LEMMA TimerEStep == ASSUME IInv, timerE PROVE IInv'
  <1> USE DEF timerE
  <1>1. ready' \in [Timers -> Nat] /\ \A y \in Timers \ {"E"} : ready'[y] = ready[y]
    BY FiredEffect DEF IInv, TypeOK, Timers
  <1>2. CASE Early
    BY <1>1, <1>2, CancelStep DEF IInv, TypeOK
  <1>3. CASE ~Early
    <2>1. te' \in [Timers -> {"nil", "armed", "fired"}] /\ te'["D"] = te["D"]
      BY <1>3 DEF IInv, TypeOK, Timers
    <2>2. TypeOK'
      BY <1>1, <1>3, <2>1 DEF IInv, TypeOK, tmVars
    <2> QED
      BY <1>1, <1>3, <2>1, <2>2
      DEF IInv, FinalsMatchState, AckState, Registered, Reclaimable, Pending,
          PrackFindsTransaction, Early, tmVars, Timers
  <1> QED
    BY <1>2, <1>3

LEMMA CancelRequestStep ==
    ASSUME IInv, NEW m \in Requests, IncomingCANCEL(m) PROVE IInv'
  <1> USE DEF IncomingCANCEL, Handle
  <1>1. inbox' \subseteq Requests
    BY DEF IInv, TypeOK
  <1>2. CASE Early
    BY <1>1, <1>2, CancelStep DEF IInv, TypeOK
  <1>3. CASE ~Early
    <2>1. TypeOK'
      BY <1>1, <1>3 DEF IInv, TypeOK, tmVars
    <2> QED
      BY <1>3, <2>1
      DEF IInv, FinalsMatchState, AckState, Registered, Reclaimable, Pending,
          PrackFindsTransaction, Early, tmVars
  <1> QED
    BY <1>2, <1>3

LEMMA SendResponseStep ==
    ASSUME IInv, NEW ack \in BOOLEAN, SendResponse(ack) PROVE IInv'
  <1> USE DEF SendResponse
  <1>1. /\ alive /\ Early
        /\ prov \in ProvInFlight
        /\ rtid2tid \in [RSeqs -> {"none", "branch", "totag"}]
        /\ cbs["cancel"] + cbs["noprack"] <= 1
    BY DEF IInv, TypeOK, FinalsMatchState
  <1>2. prov # NoProv => rtid2tid[prov.rseq] = tid
    BY DEF IInv, PrackFindsTransaction
  <1>3. /\ ready' \in [Timers -> Nat] /\ inbox' \subseteq Requests
        /\ chain' \in [RSeqs -> [n : 0..MaxRetr, st : {"off", "armed", "ready"}]]
        /\ cbs' \in [Cbs -> Nat] /\ ack_cb' \in BOOLEAN
    BY DEF IInv, TypeOK, Cbs
  <1> QED
    BY <1>1, <1>2, <1>3, FinalStep

LEMMA GiveUpStep ==
    ASSUME IInv, NEW c \in RSeqs, retrUasGiveUp(c) PROVE IInv'
  <1> USE DEF retrUasGiveUp
  <1>1. /\ chain' \in [RSeqs -> [n : 0..MaxRetr, st : {"off", "armed", "ready"}]]
        /\ ready' \in [Timers -> Nat] /\ inbox' \subseteq Requests
        /\ NoProv \in ProvInFlight
    BY DEF IInv, TypeOK, ProvInFlight
  <1>2. GivenUp \in [RSeqs -> {"none", "branch", "totag"}]
    BY DEF IInv, TypeOK, GivenUp, ProvInFlight, NoProv
  <1>3. CASE alive /\ state = "RINGING" /\ ua = "active"
    <2>0. Call("noprack") /\ SendFinal(NoProv, GivenUp) /\ ua' = "done" /\ ack_cb' = FALSE
      BY <1>3
    <2>1. /\ Early
          /\ cbs \in [Cbs -> Nat] /\ cbs["cancel"] = 0 /\ cbs["noprack"] = 0
      <3> HIDE DEF retrUasGiveUp
      <3>1. Early
        BY <1>3 DEF Early
      <3>2. cbs \in [Cbs -> Nat]
        BY DEF IInv, TypeOK, Cbs
      <3>3. cbs["cancel"] + cbs["noprack"] <= 0
        BY <3>1 DEF IInv, FinalsMatchState
      <3> QED
        BY <3>1, <3>2, <3>3 DEF Cbs
    <2>2. /\ cbs' \in [Cbs -> Nat] /\ cbs'["cancel"] + cbs'["noprack"] <= 1
          /\ cbs'["ack"] = cbs["ack"] /\ cbs'["noack"] = cbs["noack"]
      BY <2>0, <2>1, CallEffect DEF Cbs
    <2> QED
      BY <1>1, <1>2, <1>3, <2>0, <2>1, <2>2, FinalStep
  <1>4. CASE ~(alive /\ state = "RINGING" /\ ua = "active")
    <2>1. TypeOK'
      BY <1>1, <1>2, <1>4 DEF IInv, TypeOK, uaVars
    <2> QED
      BY <1>4, <2>1
      DEF IInv, FinalsMatchState, AckState, Registered, Reclaimable, Pending,
          PrackFindsTransaction, Early, uaVars
  <1> QED
    BY <1>3, <1>4

-----------------------------------------------------------------------------
(* Every other step. Each proves the type of what it changes first.         *)

LEMMA TimerStepIInv == ASSUME IInv, TimerStep PROVE IInv'
  <1> USE DEF IInv, vars, tmVars, timerVars, provVars, uaVars
  <1>1. ASSUME NEW x \in Timers, Pop(x) PROVE IInv'
    <2>1. TypeOK'
      BY <1>1 DEF Pop, TypeOK
    <2> QED
      BY <1>1, <2>1
      DEF Pop, TypeOK, FinalsMatchState, AckState, Registered, Reclaimable,
          PrackFindsTransaction, Pending, Early, Timers
  <1>2. ASSUME NEW x \in Timers, TimerAfterCleanup(x) PROVE IInv'
    <2>1. /\ ready' \in [Timers -> Nat]
          /\ Early => ready'["D"] = 0
      BY <1>2, FiredEffect DEF TimerAfterCleanup, Fired, TypeOK, FinalsMatchState, Timers
    <2>2. TypeOK'
      BY <1>2, <2>1 DEF TimerAfterCleanup, TypeOK
    <2> QED
      BY <1>2, <2>1, <2>2
      DEF TimerAfterCleanup, FinalsMatchState, AckState, Registered, Reclaimable,
          PrackFindsTransaction, Early
  <1>3. ASSUME timerA PROVE IInv'
    <2>1. /\ ready' \in [Timers -> Nat]
          /\ \A y \in Timers \ {"A"} : ready'[y] = ready[y]
      BY <1>3, FiredEffect DEF timerA, TypeOK, Timers
    <2>2. /\ te' \in [Timers -> {"nil", "armed", "fired"}]
          /\ \A y \in Timers \ {"A"} : te'[y] = te[y]
      BY <1>3 DEF timerA, TypeOK, Timers
    <2>3. TypeOK'
      BY <1>3, <2>1, <2>2 DEF timerA, TypeOK
    <2> QED
      BY <1>3, <2>1, <2>2, <2>3
      DEF timerA, FinalsMatchState, AckState, Registered, Reclaimable,
          PrackFindsTransaction, Pending, Early, Timers
  <1>4. ASSUME timerD PROVE IInv'
    <2>1. ready' \in [Timers -> Nat]
      BY <1>4, FiredEffect DEF timerD, TypeOK, Timers
    <2>2. ~alive' /\ alive' \in BOOLEAN /\ te' \in [Timers -> {"nil", "armed", "fired"}]
      BY <1>4 DEF timerD, cleanup
    <2>3. /\ cbs' \in [Cbs -> Nat]
          /\ cbs'["ack"] + cbs'["noack"] <= 1
          /\ cbs'["ack"] = cbs["ack"]
          /\ cbs'["cancel"] = cbs["cancel"] /\ cbs'["noprack"] = cbs["noprack"]
      <3>1. cbs \in [Cbs -> Nat] /\ cbs["noack"] = 0 /\ cbs["ack"] <= 1
            /\ (state # "CONFIRMED" => cbs["ack"] = 0)
        BY <1>4 DEF timerD, TypeOK, AckState, Cbs
      <3>2. CASE ua # "none" /\ state # "CONFIRMED"
        BY <1>4, <3>1, <3>2, CallEffect DEF timerD, noack, Cbs
      <3>3. CASE ~(ua # "none" /\ state # "CONFIRMED")
        BY <1>4, <3>1, <3>3 DEF timerD, noack, Cbs
      <3> QED
        BY <3>2, <3>3
    <2>4. tserver' = {} /\ UNCHANGED <<state, ua, finals, tid, rtid2tid, prov>>
      BY <1>4 DEF timerD, Registered
    <2>5. UNCHANGED <<needack, inbox, tmLeaked, stuck, provVars, ack_cb>>
      BY <1>4 DEF timerD
    <2>6. TypeOK'
      BY <2>1, <2>2, <2>3, <2>4, <2>5 DEF TypeOK, Cbs
    <2>7. ua # "active"
      BY <1>4 DEF timerD, Fired, FinalsMatchState
    <2>8. ~Early /\ ~Early'
      BY <1>4, <2>4 DEF timerD, Fired, FinalsMatchState, Early
    <2> QED
      BY <2>2, <2>3, <2>4, <2>6, <2>7, <2>8
      DEF FinalsMatchState, AckState, Registered, Reclaimable,
          PrackFindsTransaction, Early
  <1>5. ASSUME timerE PROVE IInv'
    BY <1>5, TimerEStep
  <1> QED
    BY <1>1, <1>2, <1>3, <1>4, <1>5 DEF TimerStep

LEMMA ProvStepIInv == ASSUME IInv, ProvStep PROVE IInv'
  <1> USE DEF IInv, vars, tmVars, timerVars, provVars, uaVars
  <1>1. ASSUME NEW c \in RSeqs, PopProv(c) PROVE IInv'
    <2>1. chain' \in [RSeqs -> [n : 0..MaxRetr, st : {"off", "armed", "ready"}]]
      BY <1>1 DEF PopProv, TypeOK
    <2>2. TypeOK'
      BY <1>1, <2>1 DEF PopProv, TypeOK
    <2> QED
      BY <1>1, <2>2
      DEF PopProv, FinalsMatchState, AckState, Registered, Reclaimable,
          PrackFindsTransaction, Pending, Early
  <1>2. ASSUME NEW c \in RSeqs, retrUasResponse(c) PROVE IInv'
    <2>1. chain' \in [RSeqs -> [n : 0..MaxRetr, st : {"off", "armed", "ready"}]]
      BY <1>2 DEF retrUasResponse, TypeOK
    <2>2. /\ prov' \in ProvInFlight /\ provLeaked' \in BOOLEAN
          /\ prov' # NoProv => prov # NoProv /\ prov'.rseq = prov.rseq
      BY <1>2 DEF retrUasResponse, TypeOK, ProvInFlight, NoProv
    <2>3. TypeOK'
      BY <1>2, <2>1, <2>2 DEF retrUasResponse, TypeOK
    <2> QED
      BY <1>2, <2>2, <2>3
      DEF retrUasResponse, FinalsMatchState, AckState, Registered, Reclaimable,
          PrackFindsTransaction, Pending, Early
  <1>3. ASSUME NEW c \in RSeqs, retrUasGiveUp(c) PROVE IInv'
    BY <1>3, GiveUpStep
  <1> QED
    BY <1>1, <1>2, <1>3 DEF ProvStep

LEMMA UaStepIInv == ASSUME IInv, UaStep PROVE IInv'
  <1> USE DEF IInv, vars, tmVars, timerVars, provVars, uaVars
  <1>1. ASSUME SendTrying PROVE IInv'
    BY <1>1
    DEF SendTrying, TypeOK, FinalsMatchState, AckState, Registered, Reclaimable,
        PrackFindsTransaction, Pending, Early
  <1>2. ASSUME SendProvisional PROVE IInv'
    <2>1. Early /\ alive /\ tid = "branch" /\ Early' /\ state' = "RINGING"
      BY <1>2 DEF SendProvisional, FinalsMatchState, Early
    <2>2. /\ rseq' \in 0..MaxRSeq /\ prov' \in ProvInFlight
          /\ prov' # NoProv => rtid2tid'[prov'.rseq] = "branch"
      BY <1>2, <2>1
      DEF SendProvisional, StartProv, TypeOK, PrackFindsTransaction,
          ProvInFlight, NoProv, RSeqs
    <2>3. /\ chain' \in [RSeqs -> [n : 0..MaxRetr, st : {"off", "armed", "ready"}]]
          /\ rtid2tid' \in [RSeqs -> {"none", "branch", "totag"}]
      BY <1>2 DEF SendProvisional, StartProv, TypeOK
    <2>4. TypeOK'
      BY <1>2, <2>2, <2>3 DEF SendProvisional, TypeOK
    <2> QED
      BY <1>2, <2>1, <2>2, <2>4
      DEF SendProvisional, FinalsMatchState, AckState, Registered, Reclaimable,
          PrackFindsTransaction, Pending, Early
  <1>3. ASSUME NEW ack \in BOOLEAN, SendResponse(ack) PROVE IInv'
    BY <1>3, SendResponseStep
  <1> QED
    BY <1>1, <1>2, <1>3 DEF UaStep

LEMMA HandlerStepIInv == ASSUME IInv, HandlerStep PROVE IInv'
  <1> USE DEF IInv, vars, tmVars, timerVars, provVars, uaVars, Handle
  <1>1. ASSUME NEW m \in Requests, IncomingDuplicate(m) PROVE IInv'
    <2>1. TypeOK'
      BY <1>1 DEF IncomingDuplicate, TypeOK
    <2> QED
      BY <1>1, <2>1
      DEF IncomingDuplicate, FinalsMatchState, AckState, Registered, Reclaimable,
          PrackFindsTransaction, Pending, Early
  <1>2. ASSUME NEW m \in Requests, IncomingCANCEL(m) PROVE IInv'
    BY <1>2, CancelRequestStep
  <1>3. ASSUME NEW m \in Requests, IncomingACK(m) PROVE IInv'
    <2> USE DEF IncomingACK
    <2>1. CASE state = "COMPLETED"
      <3>1. /\ state' = "CONFIRMED" /\ ~Early /\ ~Early'
            /\ UNCHANGED <<needack, tid, rtid2tid, ready, prov, ua, finals>>
        BY <1>3, <2>1 DEF Early
      <3>2. /\ cbs' \in [Cbs -> Nat]
            /\ cbs'["ack"] <= 1 /\ cbs'["noack"] = 0
            /\ cbs'["cancel"] = cbs["cancel"] /\ cbs'["noprack"] = cbs["noprack"]
        <4>1. cbs \in [Cbs -> Nat] /\ cbs["ack"] = 0 /\ cbs["noack"] = 0
          BY <1>3, <2>1 DEF TypeOK, AckState, Cbs
        <4>2. CASE ack_cb
          BY <1>3, <2>1, <4>1, <4>2, CallEffect DEF Cbs
        <4>3. CASE ~ack_cb
          BY <1>3, <2>1, <4>1, <4>3 DEF Cbs
        <4> QED
          BY <4>2, <4>3
      <3>3. /\ te' \in [Timers -> {"nil", "armed", "fired"}] /\ alive' \in BOOLEAN
            /\ alive' => alive /\ te'["D"] = te["D"]
            /\ Registered'
        <4>1. CASE prov = NoProv
          BY <1>3, <2>1, <3>1, <4>1 DEF TypeOK, cleanup, Registered, Timers
        <4>2. CASE prov # NoProv
          BY <1>3, <2>1, <3>1, <4>2 DEF TypeOK, Registered, Timers
        <4> QED
          BY <4>1, <4>2
      <3>4. /\ inbox' \subseteq Requests /\ tserver' \subseteq {"branch", "totag"}
            /\ UNCHANGED <<tmLeaked, stuck, provVars, ack_cb>>
        BY <1>3, <2>1, <3>1, <3>3 DEF TypeOK, Registered
      <3>5. TypeOK'
        BY <3>1, <3>2, <3>3, <3>4 DEF TypeOK, Cbs
      <3>6. FinalsMatchState' /\ AckState'
        BY <3>1, <3>2 DEF FinalsMatchState, AckState, Cbs
      <3>7. Reclaimable' /\ PrackFindsTransaction'
        BY <3>1, <3>3 DEF Reclaimable, Pending, PrackFindsTransaction
      <3> QED
        BY <3>3, <3>5, <3>6, <3>7
    <2>2. CASE state # "COMPLETED"
      <3>1. TypeOK'
        BY <1>3, <2>2 DEF TypeOK
      <3> QED
        BY <1>3, <2>2, <3>1
        DEF FinalsMatchState, AckState, Registered, Reclaimable,
            PrackFindsTransaction, Pending, Early
    <2> QED
      BY <2>1, <2>2
  <1>4. ASSUME NEW m \in Requests, IncomingPRACK(m) PROVE IInv'
    <2>1. /\ prov' \in ProvInFlight
          /\ prov' # NoProv => prov' = prov /\ rtid2tid' = rtid2tid
      BY <1>4 DEF IncomingPRACK, TypeOK, ProvInFlight
    <2>2. /\ chain' \in [RSeqs -> [n : 0..MaxRetr, st : {"off", "armed", "ready"}]]
          /\ rtid2tid' \in [RSeqs -> {"none", "branch", "totag"}]
      BY <1>4 DEF IncomingPRACK, TypeOK, ProvInFlight, NoProv
    <2>3. TypeOK'
      BY <1>4, <2>1, <2>2 DEF IncomingPRACK, TypeOK
    <2> QED
      BY <1>4, <2>1, <2>3
      DEF IncomingPRACK, FinalsMatchState, AckState, Registered, Reclaimable,
          PrackFindsTransaction, Pending, Early
  <1>5. ASSUME NEW m \in Requests, IncomingCANCELBlocks(m) PROVE IInv'
    <2>1. TypeOK'
      BY <1>5 DEF IncomingCANCELBlocks, TypeOK
    <2> QED
      BY <1>5, <2>1
      DEF IncomingCANCELBlocks, FinalsMatchState, AckState, Registered, Reclaimable,
          PrackFindsTransaction, Pending, Early
  <1> QED
    BY <1>1, <1>2, <1>3, <1>4, <1>5 DEF HandlerStep

LEMMA StepIInv == IInv /\ [Next]_vars => IInv'
  <1> SUFFICES ASSUME IInv, [Next]_vars PROVE IInv'
    OBVIOUS
  <1>1. ASSUME PeerStep \/ BlockForever \/ UNCHANGED vars PROVE IInv'
    <2>1. /\ inbox' \subseteq Requests /\ tmLeaked' \in BOOLEAN /\ stuck' \in BOOLEAN
          /\ UNCHANGED <<needack, state, alive, tmVars, timerVars, provVars, uaVars>>
      BY <1>1 DEF PeerStep, incomingRequest, incomingPrackUnmatched, BlockForever,
                  IInv, TypeOK, vars
    <2>2. TypeOK'
      BY <2>1 DEF IInv, TypeOK, tmVars, timerVars, provVars, uaVars
    <2> QED
      BY <2>1, <2>2
      DEF IInv, FinalsMatchState, AckState, Registered, Reclaimable,
          PrackFindsTransaction, Pending, Early, tmVars, timerVars, provVars, uaVars
  <1> QED
    BY <1>1, TimerStepIInv, ProvStepIInv, UaStepIInv, HandlerStepIInv DEF Next

LEMMA InductiveInvariant == Spec => []IInv
  BY InitIInv, StepIInv, PTL DEF Spec

-----------------------------------------------------------------------------
(* The theorems.                                                            *)

\* The type invariant of the transaction, its timers and its tables.
THEOREM TypeCorrect == Spec => []TypeOK
  <1>1. IInv => TypeOK
    BY DEF IInv
  <1> QED
    BY <1>1, InductiveInvariant, PTL

\* SendResponse, timer E, a CANCEL and a missing PRACK send one final response
\* between them, and the UA is told of a CANCEL only if it sent none.
THEOREM SendsOneFinalResponse == Spec => []OneFinalResponse
  <1>1. IInv => OneFinalResponse
    BY DEF IInv, FinalsMatchState, OneFinalResponse
  <1> QED
    BY <1>1, InductiveInvariant, PTL

\* ack_cb and noack_cb are never both called.
THEOREM AckExcludesNoack == Spec => []AckedOrNot
  <1>1. IInv => AckedOrNot
    BY DEF IInv, AckState, AckedOrNot
  <1> QED
    BY <1>1, InductiveInvariant, PTL

\* tserver, rtid2tid and the timers stay consistent with the transaction: it is
\* found exactly while it lives, also by the PRACK of a response in flight, and
\* a timer that ends it is always on its way.
THEOREM TablesAndTimersConsistent == Spec => []TablesConsistent
  <1>1. IInv => TablesConsistent
    BY DEF IInv, TablesConsistent
  <1> QED
    BY <1>1, InductiveInvariant, PTL

\* The transaction moves forward only.
THEOREM NeverGoesBack == Spec => ForwardOnly
  <1>1. ASSUME IInv, [Next]_vars
        PROVE  [StateRank[state'] >= StateRank[state] /\ (alive' => alive)]_vars
    <2>0. state \in {"TRYING", "RINGING", "COMPLETED", "CONFIRMED"}
      BY <1>1 DEF IInv, TypeOK
    <2>1. CASE UNCHANGED <<state, alive>>
      BY <2>0, <2>1 DEF StateRank
    <2>2. CASE Early /\ alive /\ state' \in {"RINGING", "COMPLETED"}
      BY <2>2 DEF StateRank, Early
    <2>3. CASE state = "COMPLETED" /\ alive /\ state' = "CONFIRMED"
      BY <2>3 DEF StateRank
    <2>4. CASE state' = state /\ alive
      BY <2>0, <2>4 DEF StateRank
    <2>5. ASSUME NEW p, NEW rt, SendFinal(p, rt), alive, Early
          PROVE  Early /\ alive /\ state' \in {"RINGING", "COMPLETED"}
      BY <2>5 DEF SendFinal
    <2>6. ua = "active" => Early /\ alive
      BY <1>1 DEF IInv, FinalsMatchState
    <2>7. CASE TimerStep
      BY <2>7, <2>1, <2>2, <2>4, <2>5
      DEF TimerStep, Pop, TimerAfterCleanup, timerA, timerD, timerE, doCancel
    <2>8. CASE ProvStep
      BY <2>8, <2>1, <2>2, <2>5, <2>6
      DEF ProvStep, PopProv, retrUasResponse, retrUasGiveUp
    <2>9. CASE UaStep
      BY <2>9, <2>1, <2>2, <2>5, <2>6
      DEF UaStep, SendTrying, SendProvisional, SendResponse
    <2>10. CASE HandlerStep
      BY <2>10, <2>1, <2>2, <2>3, <2>4, <2>5
      DEF HandlerStep, IncomingDuplicate, IncomingCANCEL, IncomingCANCELBlocks,
          IncomingACK, IncomingPRACK, doCancel
    <2>11. CASE PeerStep \/ BlockForever \/ UNCHANGED vars
      BY <2>11, <2>1
      DEF PeerStep, incomingRequest, incomingPrackUnmatched, BlockForever, vars
    <2> QED
      BY <1>1, <2>7, <2>8, <2>9, <2>10, <2>11 DEF Next
  <1> QED
    BY <1>1, InductiveInvariant, PTL DEF Spec, ForwardOnly
=============================================================================
