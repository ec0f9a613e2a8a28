----------------------------- MODULE B2bCallProofs -----------------------------
(***************************************************************************)
(* Theorems about B2bCall: what each leg keeps to, whatever its peer, its   *)
(* timers and the other leg do; what the two legs of a call keep to         *)
(* together, whatever is on its way from one to the other; and that the two *)
(* parties see no more of it than Call allows.                              *)
(***************************************************************************)
EXTENDS B2bCall, SequenceTheorems, TLAPS

-----------------------------------------------------------------------------
(* The invariant of a leg.                                                  *)
Setup == UasEarly \cup {"UacTrying", "UacRinging"}
Asked == UasEarly \cup {"UasUpdating"}

\* The INVITE of the peer is open while the state has to answer it, and otherwise
\* only if a BYE or REFER overtook the answer.
Answering(r) ==
    /\ r.st \in Asked => r.uas = "early"
    /\ r.uas = "early" => r.st \in Asked \/ (r.st \in Over /\ r.early_bye)

\* A state that may send a reliable response has none in flight.
Reliable(r) ==
    /\ r.st = "UasTrying" => ~r.prov
    /\ r.st = "UasRinging" => ~r.pr_rel
    /\ r.st = "UasRingingRel" /\ r.prack_received => ~r.prov

\* A leg has a dialog only after its setup, and what is over was hung up; an
\* INVITE that is still on its way may yet make a dialog.
Closing(r) ==
    /\ r.gone => r.st \in Over
    /\ r.st = "None" => r = NewUA
    /\ r.st \in UasEarly \cup {"UacIdle"} => r.uac = "none"
    /\ r.st \in Setup \cup {"UacIdle"} => ~r.dialog
    /\ r.st \in Over /\ (r.dialog \/ r.uac \in {"calling", "proceeding"})
         => r.cancelled \/ r.bye \/ r.refer # "none"
    /\ r.pending_tr => r.st = "Connected" /\ r.late_media

\* Which timers may run in which states.
Allowed(r) ==
    /\ "dead" \in r.arm \cup r.pop => r.st \in Over
    /\ "idle" \in r.arm \cup r.pop => r.st \in Over
    /\ "cr" \in r.arm => r.st \in IsConnected
    /\ "cr" \in r.tptr \cup r.pop => r.st \in IsConnected \cup Over

\* And which must.
Covered(r) ==
    /\ "cr" \in Timed /\ ~r.late_media /\ r.st \in IsConnected
         => (r.st = "PreConnect" /\ r.confirm) \/ "cr" \in r.arm \cup r.pop
    /\ "ex" \in Timed /\ r.st \in Setup
         => "np" \in r.arm \cup r.pop \/ "nr" \in r.arm \cup r.pop \/ "ex" \in r.arm \cup r.pop

Timing(r) == Allowed(r) /\ Covered(r)

\* The events that a state keeps are of the kind it keeps.
Held(r) ==
    /\ r.pendUpdate = NoEv \/ r.pendUpdate.k = "Update"
    /\ r.heldRing = NoEv \/ r.heldRing.k = "Ring"
    /\ r.heldConnect = NoEv \/ r.heldConnect.k = "Connect"
    /\ r.heldUpdate = NoEv \/ r.heldUpdate.k = "Update"

LegInv(r) ==
    /\ r.faults = {}
    /\ Answering(r) /\ Reliable(r) /\ Closing(r) /\ Timing(r) /\ Held(r)

\* A leg whose timer has just expired keeps to the rest of it.
Loose(r) ==
    /\ r.faults = {}
    /\ Answering(r) /\ Reliable(r) /\ Closing(r) /\ Allowed(r) /\ Held(r)

LEMMA LegLoose == \A r : LegInv(r) => Loose(r)
  BY DEF LegInv, Loose, Timing

-----------------------------------------------------------------------------
(* The helpers of the handlers: what they leave alone.                      *)
SameCall(r, s) == s.st = r.st /\ s.gone = r.gone
SameInvite(r, s) == s.uas = r.uas /\ s.ackw = r.ackw /\ s.cancelCB = r.cancelCB /\ s.uac = r.uac
SameMedia(r, s) == /\ s.late_media = r.late_media /\ s.pending_tr = r.pending_tr
                   /\ s.confirm = r.confirm /\ s.pendUpdate = r.pendUpdate
SameRel(r, s) == /\ s.pr_rel = r.pr_rel /\ s.prov = r.prov
                 /\ s.prack_received = r.prack_received /\ s.heldRing = r.heldRing
                 /\ s.heldConnect = r.heldConnect /\ s.heldUpdate = r.heldUpdate
SameTimers(r, s) == s.tptr = r.tptr /\ s.arm = r.arm /\ s.pop = r.pop
SameHistory(r, s) == /\ s.dialog = r.dialog /\ s.bye = r.bye /\ s.early_bye = r.early_bye
                     /\ s.cancelled = r.cancelled /\ s.refer = r.refer

LEMMA EventTypes ==
    /\ \A k \in EventKinds : Ev(k) \in Events
    /\ \A k \in EventKinds, b \in BOOLEAN : EvBody(k, b) \in Events
    /\ Transfer \in Events
  BY DEF Ev, EvBody, Transfer, Events, EventKinds

LEMMA Enqueues ==
    ASSUME NEW r \in UaRecords, NEW e \in Events
    PROVE  LET s == Enqueue(r, e)
           IN  /\ s \in UaRecords
               /\ SameCall(r, s) /\ SameInvite(r, s) /\ SameMedia(r, s) /\ SameRel(r, s)
               /\ SameTimers(r, s) /\ SameHistory(r, s) /\ s.faults = r.faults
               /\ s.q = Append(r.q, e)
  <1>1. Append(r.q, e) \in Seq(Events)
    BY DEF UaRecords
  <1>2. Enqueue(r, e) \in UaRecords
    BY <1>1 DEF Enqueue, UaRecords
  <1> QED  BY <1>2 DEF Enqueue, UaRecords, SameCall, SameInvite, SameMedia, SameRel,
                       SameTimers, SameHistory

LEMMA CancelsTimers ==
    ASSUME NEW r \in UaRecords, NEW X
    PROVE  LET s == CancelTimers(r, X)
           IN  /\ s \in UaRecords
               /\ SameCall(r, s) /\ SameInvite(r, s) /\ SameMedia(r, s) /\ SameRel(r, s)
               /\ SameHistory(r, s) /\ s.faults = r.faults /\ s.q = r.q
               /\ s.tptr = r.tptr \ X /\ s.arm = r.arm \ X /\ s.pop = r.pop
  BY DEF CancelTimers, UaRecords, SameCall, SameInvite, SameMedia, SameRel, SameHistory

Put(d, s0, arm2, tptr2, g) ==
    [d EXCEPT !.st = s0, !.arm = arm2, !.tptr = tptr2, !.gone = g]

LEMMA Puts ==
    ASSUME NEW d \in UaRecords, NEW s0 \in States, NEW arm2 \in SUBSET TimerNames,
           NEW tptr2 \in SUBSET TimerNames, NEW g \in BOOLEAN
    PROVE  LET s == Put(d, s0, arm2, tptr2, g)
           IN  /\ s \in UaRecords
               /\ s.st = s0 /\ s.gone = g
               /\ SameInvite(d, s) /\ SameRel(d, s) /\ SameHistory(d, s) /\ SameMedia(d, s)
               /\ s.faults = d.faults /\ s.q = d.q /\ s.pop = d.pop
               /\ s.arm = arm2 /\ s.tptr = tptr2
  <1>1. PICK s : s = [d EXCEPT !.st = s0, !.arm = arm2, !.tptr = tptr2, !.gone = g]  OBVIOUS
  <1>2. s \in UaRecords
    BY <1>1, ZenonT(60) DEF UaRecords
  <1>3. /\ s.st = s0 /\ s.gone = g
        /\ SameInvite(d, s) /\ SameRel(d, s) /\ SameHistory(d, s) /\ SameMedia(d, s)
        /\ s.faults = d.faults /\ s.q = d.q /\ s.pop = d.pop
        /\ s.arm = arm2 /\ s.tptr = tptr2
    BY <1>1 DEF UaRecords, SameMedia, SameInvite, SameRel, SameHistory
  <1>4. s = Put(d, s0, arm2, tptr2, g)
    BY <1>1 DEF Put
  <1> QED
    BY <1>2, <1>3, <1>4, Zenon

LEMMA ChangesState ==
    ASSUME NEW r \in UaRecords, NEW s0 \in States
    PROVE  LET s == ChangeState(r, s0)
           IN  /\ s \in UaRecords
               /\ s.st = s0 /\ (s.gone <=> r.gone \/ s0 = "Dead")
               /\ SameInvite(r, s) /\ SameRel(r, s) /\ SameHistory(r, s)
               /\ s.faults = r.faults /\ s.q = r.q
               /\ s.late_media = r.late_media
               /\ s.confirm = r.confirm /\ s.pendUpdate = r.pendUpdate
               /\ (s.pending_tr <=> r.pending_tr /\ r.st # "Connected")
               /\ s.pop = r.pop
               /\ s.arm = (r.arm \ (IF r.st \in {"PreConnect", "Connected"} THEN {"ex"} ELSE {}))
                          \cup (IF s0 \in {"Disconnected", "Failed"} THEN {"dead"} ELSE {})
                          \cup (IF s0 = "Cancelling" THEN {"idle"} ELSE {})
               /\ s.tptr = (r.tptr \ (IF r.st \in {"PreConnect", "Connected"} THEN {"ex"} ELSE {}))
                           \ (IF s0 = "Dead" THEN {"np", "ex", "cr"} ELSE {})
  <1> DEFINE d == OnDeactivate(r)
  <1>1. /\ d \in UaRecords
        /\ SameCall(r, d) /\ SameInvite(r, d) /\ SameRel(r, d) /\ SameHistory(r, d)
        /\ d.faults = r.faults /\ d.q = r.q /\ d.late_media = r.late_media
        /\ d.confirm = r.confirm /\ d.pendUpdate = r.pendUpdate
        /\ (d.pending_tr <=> r.pending_tr /\ r.st # "Connected") /\ d.pop = r.pop
        /\ d.arm = r.arm \ (IF r.st \in {"PreConnect", "Connected"} THEN {"ex"} ELSE {})
        /\ d.tptr = r.tptr \ (IF r.st \in {"PreConnect", "Connected"} THEN {"ex"} ELSE {})
    <2>1. CASE r.st = "PreConnect"
      BY <2>1, CancelsTimers DEF OnDeactivate, UaRecords, SameCall, SameInvite, SameMedia, SameRel, SameHistory
    <2>2. CASE r.st = "Connected"
      BY <2>2, ZenonT(60) DEF OnDeactivate, CancelTimers, UaRecords, SameCall, SameInvite, SameRel, SameHistory
    <2>3. CASE r.st \notin {"PreConnect", "Connected"}
      BY <2>3 DEF OnDeactivate, UaRecords, SameCall, SameInvite, SameRel, SameHistory
    <2> QED  BY <2>1, <2>2, <2>3
  <1> HIDE DEF d
  <1>2. PICK arm2 : arm2 = CASE s0 \in {"Disconnected", "Failed"} -> d.arm \cup {"dead"}
                             [] s0 = "Cancelling" -> d.arm \cup {"idle"}
                             [] OTHER -> d.arm
    OBVIOUS
  <1>3. PICK tptr2 : tptr2 = IF s0 = "Dead" THEN d.tptr \ {"np", "ex", "cr"} ELSE d.tptr  OBVIOUS
  <1>4. /\ arm2 = d.arm \cup (IF s0 \in {"Disconnected", "Failed"} THEN {"dead"} ELSE {})
                        \cup (IF s0 = "Cancelling" THEN {"idle"} ELSE {})
        /\ tptr2 = d.tptr \ (IF s0 = "Dead" THEN {"np", "ex", "cr"} ELSE {})
    BY <1>2, <1>3
  <1>5. d.arm \in SUBSET TimerNames /\ d.tptr \in SUBSET TimerNames
    BY <1>1 DEF UaRecords
  <1>6. arm2 \in SUBSET TimerNames /\ tptr2 \in SUBSET TimerNames
    BY <1>4, <1>5 DEF TimerNames
  <1>7. PICK g \in BOOLEAN : g = (d.gone \/ s0 = "Dead")
    OBVIOUS
  <1>8. ChangeState(r, s0) = Put(d, s0, arm2, tptr2, g)
    BY <1>2, <1>3, <1>7 DEF ChangeState, d, Put
  <1>9. LET s == ChangeState(r, s0)
        IN  /\ s \in UaRecords
            /\ s.st = s0 /\ s.gone = g
            /\ SameInvite(d, s) /\ SameRel(d, s) /\ SameHistory(d, s) /\ SameMedia(d, s)
            /\ s.faults = d.faults /\ s.q = d.q /\ s.pop = d.pop
            /\ s.arm = arm2 /\ s.tptr = tptr2
    BY <1>1, <1>6, <1>8, Puts
  <1> QED
    BY <1>1, <1>4, <1>7, <1>9, ZenonT(60) DEF SameMedia, SameCall, SameInvite, SameRel, SameHistory

LEMMA KeepsTimers ==
    ASSUME NEW r \in UaRecords, NEW s0 \in States, s0 \notin Over,
           r.st \notin {"PreConnect", "Connected"}
    PROVE  ChangeState(r, s0).arm = r.arm /\ ChangeState(r, s0).tptr = r.tptr
  <1>1. s0 \notin {"Disconnected", "Failed"} /\ s0 # "Cancelling" /\ s0 # "Dead"
    BY DEF Over
  <1>2. PICK v : v = ChangeState(r, s0)  OBVIOUS
  <1>3. /\ v.arm = (r.arm \ (IF r.st \in {"PreConnect", "Connected"} THEN {"ex"} ELSE {}))
                   \cup (IF s0 \in {"Disconnected", "Failed"} THEN {"dead"} ELSE {})
                   \cup (IF s0 = "Cancelling" THEN {"idle"} ELSE {})
        /\ v.tptr = (r.tptr \ (IF r.st \in {"PreConnect", "Connected"} THEN {"ex"} ELSE {}))
                    \ (IF s0 = "Dead" THEN {"np", "ex", "cr"} ELSE {})
    BY <1>2, ChangesState
  <1>4. v.arm = r.arm /\ v.tptr = r.tptr
    BY <1>1, <1>3
  <1> QED  BY <1>2, <1>4

LEMMA StartsTimer ==
    ASSUME NEW r \in UaRecords, NEW x \in TimerNames
    PROVE  LET s == StartTimer(r, x)
               X == IF x \in Timed THEN {x} ELSE {}
           IN  /\ s \in UaRecords
               /\ SameCall(r, s) /\ SameInvite(r, s) /\ SameMedia(r, s) /\ SameRel(r, s)
               /\ SameHistory(r, s) /\ s.faults = r.faults /\ s.q = r.q
               /\ s.tptr = r.tptr \cup X /\ s.arm = r.arm \cup X /\ s.pop = r.pop
  <1>1. CASE x \in Timed
    <2>1. StartTimer(r, x) \in UaRecords
      BY <1>1, ZenonT(60) DEF StartTimer, UaRecords
    <2> QED  BY <1>1, <2>1 DEF StartTimer, UaRecords, SameCall, SameInvite, SameMedia,
                               SameRel, SameHistory
  <1>2. CASE x \notin Timed
    BY <1>2 DEF StartTimer, SameCall, SameInvite, SameMedia, SameRel, SameHistory
  <1> QED  BY <1>1, <1>2

\* The timers of a setup.
Before == {"np", "nr", "ex"}

\* What starting one of several timers of the setup comes to.
LEMMA StartsFirst ==
    ASSUME NEW r \in UaRecords, NEW chain \in {<<"np", "ex">>, <<"nr", "np", "ex">>}
    PROVE  LET s == StartFirst(r, chain)
           IN  /\ s \in UaRecords
               /\ SameCall(r, s) /\ SameInvite(r, s) /\ SameMedia(r, s) /\ SameRel(r, s)
               /\ SameHistory(r, s) /\ s.faults = r.faults /\ s.q = r.q /\ s.pop = r.pop
               /\ \E X \in SUBSET Before :
                    /\ s.tptr = r.tptr \cup X /\ s.arm = r.arm \cup X
                    /\ "ex" \in Timed => X # {}
  <1>1. CASE \A i \in DOMAIN chain : chain[i] \notin Timed
    <2>1. StartFirst(r, chain) = r
      BY <1>1 DEF StartFirst
    <2>2. "ex" \notin Timed
      BY <1>1
    <2>3. r.tptr = r.tptr \cup {} /\ r.arm = r.arm \cup {} /\ {} \in SUBSET Before
      OBVIOUS
    <2> QED  BY <2>1, <2>2, <2>3 DEF SameCall, SameInvite, SameMedia, SameRel, SameHistory
  <1>2. CASE \E i \in DOMAIN chain : chain[i] \in Timed
    <2>1. \E i \in DOMAIN chain : /\ chain[i] \in Timed
                                  /\ \A j \in 1..(i - 1) : chain[j] \notin Timed
      <3>1. CASE chain = <<"np", "ex">>
        BY <3>1, <1>2
      <3>2. CASE chain = <<"nr", "np", "ex">>
        BY <3>2, <1>2
      <3> QED  BY <3>1, <3>2
    <2>2. PICK n : n = CHOOSE i \in DOMAIN chain : /\ chain[i] \in Timed
                                                   /\ \A j \in 1..(i - 1) : chain[j] \notin Timed
      OBVIOUS
    <2>3. n \in DOMAIN chain /\ chain[n] \in Timed
      BY <2>1, <2>2
    <2>4. chain[n] \in Before
      BY <2>3 DEF Before
    <2>5. PICK x : x = chain[n]  OBVIOUS
    <2>6. StartFirst(r, chain) = StartTimer(r, x)
      BY <1>2, <2>2, <2>5 DEF StartFirst
    <2>7. x \in Before /\ x \in Timed /\ x \in TimerNames
      BY <2>3, <2>4, <2>5 DEF Before, TimerNames
    <2>8. {x} \in SUBSET Before /\ {x} # {}
      BY <2>7
    <2> HIDE <2>1, <2>2, <2>5, <1>2
    <2>9. LET s == StartTimer(r, x)
          IN  /\ s \in UaRecords
              /\ SameCall(r, s) /\ SameInvite(r, s) /\ SameMedia(r, s) /\ SameRel(r, s)
              /\ SameHistory(r, s) /\ s.faults = r.faults /\ s.q = r.q /\ s.pop = r.pop
              /\ s.tptr = r.tptr \cup {x} /\ s.arm = r.arm \cup {x}
      BY <2>7, StartsTimer
    <2> QED  BY <2>6, <2>8, <2>9
  <1> QED  BY <1>1, <1>2

LEMMA StartsCredit ==
    ASSUME NEW r \in UaRecords, "cr" \notin r.tptr
    PROVE  StartCreditTimer(r) = StartTimer(r, "cr")
  BY DEF StartCreditTimer

LEMMA Replies ==
    ASSUME NEW r \in UaRecords, NEW w \in BOOLEAN, r.uas = "early"
    PROVE  LET s == Reply(r, w)
           IN  /\ s \in UaRecords
               /\ SameCall(r, s) /\ SameMedia(r, s) /\ SameRel(r, s)
               /\ SameTimers(r, s) /\ SameHistory(r, s) /\ s.faults = r.faults /\ s.q = r.q
               /\ s.cancelCB = r.cancelCB /\ s.uac = r.uac
               /\ s.uas = "completed" /\ s.ackw = w
  BY ZenonT(60) DEF Reply, UaRecords, SameCall, SameMedia, SameRel, SameTimers, SameHistory

LEMMA RepliesOK ==
    ASSUME NEW r \in UaRecords, r.uas = "early"
    PROVE  LET s == ReplyOK(r)
           IN  /\ s \in UaRecords
               /\ SameCall(r, s) /\ SameMedia(r, s) /\ SameRel(r, s)
               /\ SameTimers(r, s) /\ s.faults = r.faults /\ s.q = r.q
               /\ s.cancelCB = r.cancelCB /\ s.uac = r.uac
               /\ s.uas = "completed" /\ s.ackw = TRUE /\ s.dialog = TRUE /\ s.bye = r.bye
               /\ s.early_bye = r.early_bye /\ s.cancelled = r.cancelled /\ s.refer = r.refer
  BY ZenonT(60) DEF ReplyOK, Reply, UaRecords, SameCall, SameMedia, SameRel, SameTimers

LEMMA RepliesRinging ==
    ASSUME NEW r \in UaRecords, ~(r.pr_rel /\ r.prov)
    PROVE  LET s == ReplyRinging(r)
           IN  /\ s \in UaRecords
               /\ SameCall(r, s) /\ SameInvite(r, s) /\ SameMedia(r, s) /\ SameTimers(r, s)
               /\ SameHistory(r, s) /\ s.faults = r.faults /\ s.q = r.q
               /\ s.pr_rel = r.pr_rel /\ s.prov = r.pr_rel
               /\ s.prack_received = r.prack_received /\ s.heldRing = r.heldRing
               /\ s.heldConnect = r.heldConnect /\ s.heldUpdate = r.heldUpdate
  BY DEF ReplyRinging, UaRecords, SameCall, SameInvite, SameMedia, SameTimers, SameHistory

LEMMA SendsBYE ==
    ASSUME NEW r \in UaRecords
    PROVE  LET s == SendBYE(r)
           IN  /\ s \in UaRecords
               /\ SameCall(r, s) /\ SameInvite(r, s) /\ SameMedia(r, s) /\ SameRel(r, s)
               /\ SameTimers(r, s) /\ s.faults = r.faults /\ s.q = r.q
               /\ (s.bye <=> r.bye \/ ~r.gone) /\ s.dialog = r.dialog
               /\ s.early_bye = r.early_bye /\ s.cancelled = r.cancelled /\ s.refer = r.refer
  <1>1. CASE r.gone
    <2>1. SendBYE(r) = r /\ r.bye \in BOOLEAN
      BY <1>1 DEF SendBYE, UaRecords
    <2> QED  BY <1>1, <2>1 DEF SameCall, SameInvite, SameMedia, SameRel, SameTimers
  <1>2. CASE ~r.gone
    BY <1>2, ZenonT(60) DEF SendBYE, UaRecords, SameCall, SameInvite, SameMedia, SameRel, SameTimers
  <1> QED  BY <1>1, <1>2

LEMMA HangsUpLeg ==
    ASSUME NEW r \in UaRecords, NEW e \in Events
    PROVE  LET s == Hangup(r, e)
           IN  /\ s \in UaRecords
               /\ SameCall(r, s) /\ SameInvite(r, s) /\ SameMedia(r, s) /\ SameRel(r, s)
               /\ SameTimers(r, s) /\ s.faults = r.faults /\ s.q = r.q
               /\ r.gone \/ s.bye \/ s.refer # "none"
               /\ s.dialog = r.dialog
               /\ s.early_bye = r.early_bye /\ s.cancelled = r.cancelled
  <1>1. CASE e.url
    BY <1>1 DEF Hangup, UaRecords, SameCall, SameInvite, SameMedia, SameRel, SameTimers
  <1>2. CASE ~e.url
    BY <1>2, SendsBYE DEF Hangup, UaRecords
  <1> QED  BY <1>1, <1>2

-----------------------------------------------------------------------------
(* What a handler makes of a leg that keeps to the invariant.               *)

\* The Try events of q were already in p.
Quiet(p, q) == \A i \in DOMAIN q : q[i].k = "Try" => i \in DOMAIN p /\ p[i].k = "Try"

\* The leg keeps to the invariant, stays over if it was, does not lose the handler
\* that a CANCEL needs, and emits no Try.
Moves(r, s) ==
    /\ s \in UaRecords
    /\ LegInv(s)
    /\ r.st \in Over => s.st \in Over
    /\ s.st = "None" => r.st = "None"
    /\ BoundCancel(s) # "none" => BoundCancel(s) = BoundCancel(r) /\ s.cancelCB = r.cancelCB
    /\ Quiet(r.q, s.q)

LEMMA QuietSame == \A q : Quiet(q, q)
  BY DEF Quiet

LEMMA QuietAppend ==
    ASSUME NEW q \in Seq(Events), NEW e \in Events, e.k # "Try"
    PROVE  Quiet(q, Append(q, e))
  BY DEF Quiet

LEMMA QuietTwice ==
    ASSUME NEW p, NEW q, NEW z, Quiet(p, q), Quiet(q, z)
    PROVE  Quiet(p, z)
  BY DEF Quiet

LEMMA MovesTwice ==
    ASSUME NEW r, NEW s, NEW t, Moves(r, s), Moves(s, t)
    PROVE  Moves(r, t)
  BY QuietTwice DEF Moves

LEMMA Stays ==
    ASSUME NEW r \in UaRecords, LegInv(r)
    PROVE  Moves(r, r)
  BY QuietSame DEF Moves

\* An event for the other leg.
LEMMA EnqueueMoves ==
    ASSUME NEW r \in UaRecords, LegInv(r), NEW e \in Events, e.k # "Try", r.st # "None"
    PROVE  Moves(r, Enqueue(r, e))
  <1>1. PICK s : s = Enqueue(r, e)  OBVIOUS
  <1>2. /\ s \in UaRecords
        /\ SameCall(r, s) /\ SameInvite(r, s) /\ SameMedia(r, s) /\ SameRel(r, s)
        /\ SameTimers(r, s) /\ SameHistory(r, s) /\ s.faults = r.faults
        /\ s.q = Append(r.q, e)
    BY <1>1, Enqueues
  <1>3. Quiet(r.q, s.q)
    BY <1>2, QuietAppend DEF UaRecords
  <1>4. LegInv(s)
    BY <1>2 DEF LegInv, Answering, Reliable, Closing, Timing, Allowed, Covered, Held, SameCall, SameInvite,
                SameMedia, SameRel, SameTimers, SameHistory
  <1> QED  BY <1>1, <1>2, <1>3, <1>4 DEF Moves, BoundCancel, SameCall, SameInvite

\* A leg that is about to be over.
Ending(t) ==
    /\ t.faults = {}
    /\ t.uas = "early" => t.early_bye
    /\ t.dialog \/ t.uac \in {"calling", "proceeding"}
         => t.cancelled \/ t.bye \/ t.refer # "none"
    /\ t.pending_tr => t.st = "Connected"
    /\ "cr" \notin t.arm
    /\ Held(t)

LEMMA EndMoves ==
    ASSUME NEW r \in UaRecords, NEW t \in UaRecords, NEW s0 \in Over,
           Ending(t), Quiet(r.q, t.q)
    PROVE  Moves(r, ChangeState(t, s0))
  <1>1. PICK v : v = ChangeState(t, s0)  OBVIOUS
  <1>2. s0 \in States
    BY DEF States, Over
  <1>3. /\ v \in UaRecords
        /\ v.st = s0
        /\ SameInvite(t, v) /\ SameRel(t, v) /\ SameHistory(t, v)
        /\ v.faults = t.faults /\ v.q = t.q /\ v.pendUpdate = t.pendUpdate
        /\ (v.pending_tr <=> t.pending_tr /\ t.st # "Connected")
    BY <1>1, <1>2, ChangesState
  <1>4. "cr" \in v.arm => "cr" \in t.arm
    <2>1. v.arm = (t.arm \ (IF t.st \in {"PreConnect", "Connected"} THEN {"ex"} ELSE {}))
                          \cup (IF s0 \in {"Disconnected", "Failed"} THEN {"dead"} ELSE {})
                          \cup (IF s0 = "Cancelling" THEN {"idle"} ELSE {})
      BY <1>1, <1>2, ChangesState
    <2> QED  BY <2>1
  <1>5. Answering(v) /\ Reliable(v) /\ Timing(v)
    BY <1>3, <1>4 DEF Ending, Answering, Reliable, Timing, Allowed, Covered, SameInvite, SameHistory, Asked, Setup,
                      UasEarly, Over, IsConnected
  <1>6. Closing(v) /\ Held(v)
    BY <1>3 DEF Ending, Closing, Held, SameInvite, SameHistory, SameRel, Setup, UasEarly, Over
  <1>7. LegInv(v)
    BY <1>3, <1>5, <1>6 DEF LegInv, Ending
  <1>8. BoundCancel(v) = "none" /\ v.st # "None"
    BY <1>3 DEF BoundCancel, Over, UasEarly
  <1> QED  BY <1>1, <1>3, <1>7, <1>8 DEF Moves

LEMMA UasEndMoves ==
    ASSUME NEW r \in UaRecords, Loose(r), NEW e \in Events, r.st \in UasEarly
    PROVE  Moves(r, UasEnd(r, e))
  <1> DEFINE X == IF r.st = "UasTrying" THEN {"ex", "np"} ELSE {"ex"}
             s0 == IF e.k = "Disconnect" THEN "Disconnected" ELSE "Failed"
             s == Reply(r, FALSE)
             t == CancelTimers(s, X)
  <1>1. r.uas = "early" /\ FALSE \in BOOLEAN
    BY DEF Loose, Answering, Asked
  <1>2. /\ s \in UaRecords
        /\ SameCall(r, s) /\ SameMedia(r, s) /\ SameRel(r, s)
        /\ SameTimers(r, s) /\ SameHistory(r, s) /\ s.faults = r.faults /\ s.q = r.q
        /\ s.uac = r.uac /\ s.uas = "completed"
    BY <1>1, Replies
  <1> HIDE DEF X, s
  <1>3. /\ t \in UaRecords
        /\ SameCall(s, t) /\ SameInvite(s, t) /\ SameMedia(s, t) /\ SameRel(s, t)
        /\ SameHistory(s, t) /\ t.faults = s.faults /\ t.q = s.q /\ t.arm = s.arm \ X
    BY <1>2, CancelsTimers
  <1> HIDE DEF t
  <1>4. Ending(t)
    BY <1>2, <1>3 DEF Ending, Loose, Closing, Allowed, Held, SameCall, SameInvite,
       SameMedia, SameRel, SameTimers, SameHistory, Setup, UasEarly, IsConnected
  <1>5. s0 \in Over /\ UasEnd(r, e) = ChangeState(t, s0)
    BY DEF Over, UasEnd, X, s, t
  <1> HIDE DEF s0
  <1> QED  BY <1>2, <1>3, <1>4, <1>5, EndMoves, QuietSame

\* A leg that is about to be connected, or to go on being so: with a credit timer,
\* if it needs one.
Active(t) ==
    /\ t.faults = {} /\ ~t.gone
    /\ "dead" \notin t.arm \cup t.pop /\ "idle" \notin t.arm \cup t.pop
    /\ Held(t)
Credited(t) == "cr" \in Timed /\ ~t.late_media => "cr" \in t.arm \cup t.pop

LEMMA LegActive ==
    ASSUME NEW r \in UaRecords, Loose(r), r.st \notin Over
    PROVE  Active(r)
  BY DEF Loose, Active, Closing, Allowed

LEMMA LegCredited ==
    ASSUME NEW r \in UaRecords, LegInv(r), r.st \in IsConnected,
           ~(r.st = "PreConnect" /\ r.confirm)
    PROVE  Credited(r)
  BY DEF LegInv, Credited, Timing, Allowed, Covered

LEMMA ConfirmType ==
    ASSUME NEW v \in UaRecords, NEW c \in BOOLEAN
    PROVE  [v EXCEPT !.confirm = c, !.pendUpdate = NoEv] \in UaRecords
  <1> DEFINE E == Events \cup {NoEv}
  <1>1. NoEv \in E
    OBVIOUS
  <1> HIDE DEF E
  <1>2. ASSUME NEW n \in E PROVE [v EXCEPT !.confirm = c, !.pendUpdate = n] \in UaRecords
    BY ZenonT(60) DEF UaRecords, E
  <1> QED  BY <1>1, <1>2

LEMMA PreConnectMoves ==
    ASSUME NEW r \in UaRecords, NEW t \in UaRecords, NEW c \in BOOLEAN,
           r.st \notin Over, Quiet(r.q, t.q),
           Active(t), t.uas # "early", c \/ Credited(t),
           t.pending_tr => t.st = "Connected"
    PROVE  Moves(r, PreConnect(t, c))
  <1> DEFINE v == ChangeState(t, "PreConnect")
             w == PreConnect(t, c)
  <1>1. "PreConnect" \in States
    BY DEF States
  <1>2. /\ v \in UaRecords
        /\ v.st = "PreConnect" /\ (v.gone => t.gone)
        /\ SameInvite(t, v) /\ SameRel(t, v) /\ v.faults = t.faults
        /\ v.q = t.q /\ v.pop = t.pop /\ v.late_media = t.late_media
        /\ (v.pending_tr <=> t.pending_tr /\ t.st # "Connected")
    BY <1>1, ChangesState
  <1>3. \A x : x # "ex" => (x \in v.arm <=> x \in t.arm)
    BY <1>1, ChangesState
  <1>4. w = [v EXCEPT !.confirm = c, !.pendUpdate = NoEv]
    BY DEF PreConnect
  <1> HIDE DEF v, w
  <1>5. w \in UaRecords
    BY <1>2, <1>4, ConfirmType
  <1>6. /\ SameCall(v, w) /\ SameInvite(v, w) /\ SameRel(v, w) /\ SameTimers(v, w)
        /\ w.faults = v.faults /\ w.q = v.q /\ w.late_media = v.late_media
        /\ w.confirm = c /\ w.pendUpdate = NoEv /\ w.pending_tr = v.pending_tr
    BY <1>2, <1>4 DEF UaRecords, SameCall, SameInvite, SameRel, SameTimers
  <1>7. Answering(w) /\ Reliable(w) /\ Closing(w) /\ Held(w)
    BY <1>2, <1>6 DEF Answering, Reliable, Closing, Held, Active, SameCall, SameInvite,
       SameRel, Asked, Setup, UasEarly, Over
  <1>8. Timing(w)
    BY <1>2, <1>3, <1>6 DEF Timing, Allowed, Covered, Active, Credited, SameCall, SameTimers, Setup, UasEarly,
       Over, IsConnected
  <1>9. LegInv(w) /\ w.st = "PreConnect" /\ w.q = t.q
    BY <1>2, <1>6, <1>7, <1>8 DEF LegInv, Active, SameCall
  <1> QED  BY <1>5, <1>9 DEF Moves, BoundCancel, UasEarly, w

\* The leg becomes, or is again, connected.
LEMMA ConnectMoves ==
    ASSUME NEW t \in UaRecords, NEW s0 \in {"Connected", "UasUpdating", "UacUpdating"},
           Active(t), t.uas = "early" <=> s0 = "UasUpdating", Credited(t),
           t.pending_tr => t.st = "Connected" \/ (s0 = "Connected" /\ t.late_media),
           s0 = "Connected" => t.st # "Connected"
    PROVE  LET v == ChangeState(t, s0)
           IN  v \in UaRecords /\ LegInv(v) /\ v.st = s0 /\ v.q = t.q
  <1> DEFINE v == ChangeState(t, s0)
  <1>1. s0 \in States
    BY DEF States
  <1>2. /\ v \in UaRecords
        /\ v.st = s0 /\ (v.gone => t.gone)
        /\ SameInvite(t, v) /\ SameRel(t, v) /\ v.faults = t.faults
        /\ v.q = t.q /\ v.pop = t.pop /\ v.late_media = t.late_media
        /\ v.pendUpdate = t.pendUpdate
        /\ (v.pending_tr <=> t.pending_tr /\ t.st # "Connected")
    BY <1>1, ChangesState
  <1>3. \A x : x # "ex" => (x \in v.arm <=> x \in t.arm)
    BY <1>1, ChangesState
  <1> HIDE DEF v
  <1>4. Answering(v) /\ Reliable(v) /\ Closing(v) /\ Held(v)
    BY <1>2 DEF Answering, Reliable, Closing, Held, Active, SameInvite,
       SameRel, Asked, Setup, UasEarly, Over
  <1>5. Timing(v)
    BY <1>2, <1>3 DEF Timing, Allowed, Covered, Active, Credited, Setup, UasEarly, Over, IsConnected
  <1> QED  BY <1>2, <1>4, <1>5 DEF LegInv, Active, v

-----------------------------------------------------------------------------
(* RecvEvent of the states.                                                 *)

\* The leg goes on ringing, or starts to: the setup timers and the INVITE stay as
\* they are, or a later timer takes over.
Ringing(t) ==
    /\ Active(t) /\ t.uas = "early" /\ t.uac = "none" /\ ~t.dialog /\ ~t.pending_tr
    /\ "cr" \notin t.arm \cup t.pop /\ "cr" \notin t.tptr
    /\ "ex" \in Timed => \E x \in Before : x \in t.arm \cup t.pop

LEMMA LegRinging ==
    ASSUME NEW r \in UaRecords, LegInv(r), r.st \in UasEarly
    PROVE  Ringing(r)
  <1>1. Active(r)
    BY LegActive, LegLoose DEF UasEarly, Over
  <1>2. "ex" \in Timed => \E x \in Before : x \in r.arm \cup r.pop
    BY DEF LegInv, Timing, Allowed, Covered, Before, Setup
  <1> QED  BY <1>1, <1>2 DEF Ringing, LegInv, Answering, Closing, Timing, Allowed, Covered, UasEarly, Over,
                             IsConnected, Setup, Asked

\* In such a state.
LEMMA RingingInv ==
    ASSUME NEW t \in UaRecords, Ringing(t), t.st \in UasEarly, Reliable(t)
    PROVE  LegInv(t)
  <1>1. Answering(t) /\ Closing(t) /\ Held(t)
    BY DEF Ringing, Active, Answering, Closing, UasEarly, Over, Setup, Asked
  <1>2. Timing(t)
    BY DEF Ringing, Active, Timing, Allowed, Covered, Before, UasEarly, Over, Setup, IsConnected
  <1> QED  BY <1>1, <1>2 DEF LegInv, Ringing, Active

LEMMA RelType ==
    ASSUME NEW v \in UaRecords, NEW b \in BOOLEAN
    PROVE  [v EXCEPT !.prack_wait = b, !.prack_received = FALSE, !.heldRing = NoEv,
                     !.heldConnect = NoEv, !.heldUpdate = NoEv] \in UaRecords
  <1> DEFINE E == Events \cup {NoEv}
  <1>1. NoEv \in E /\ FALSE \in BOOLEAN
    OBVIOUS
  <1> HIDE DEF E
  <1>2. ASSUME NEW n \in E, NEW f \in BOOLEAN
        PROVE  [v EXCEPT !.prack_wait = b, !.prack_received = f, !.heldRing = n,
                         !.heldConnect = n, !.heldUpdate = n] \in UaRecords
    BY ZenonT(60) DEF UaRecords, E
  <1> QED  BY <1>1, <1>2

LEMMA TryingRingMoves ==
    ASSUME NEW r \in UaRecords, LegInv(r), NEW e \in Events, r.st = "UasTrying"
    PROVE  Moves(r, UasTrying_Ring(r, e))
  <1> DEFINE s == ReplyRinging(r)
             c == CancelTimers(s, {"np"})
             b == StartTimer(c, "ex")
             t == IF "np" \in s.tptr THEN b ELSE s
             s0 == IF r.pr_rel THEN "UasRingingRel" ELSE "UasRinging"
             v == ChangeState(t, s0)
  <1>1. ~r.prov /\ Ringing(r)
    BY LegRinging DEF LegInv, Reliable, UasEarly
  <1>2. /\ s \in UaRecords
        /\ SameCall(r, s) /\ SameInvite(r, s) /\ SameMedia(r, s) /\ SameTimers(r, s)
        /\ SameHistory(r, s) /\ s.faults = r.faults /\ s.q = r.q
        /\ s.pr_rel = r.pr_rel /\ s.heldRing = r.heldRing
        /\ s.heldConnect = r.heldConnect /\ s.heldUpdate = r.heldUpdate
    BY <1>1, RepliesRinging
  <1> HIDE DEF s
  <1>3. /\ c \in UaRecords
        /\ SameCall(s, c) /\ SameInvite(s, c) /\ SameMedia(s, c) /\ SameRel(s, c)
        /\ SameHistory(s, c) /\ c.faults = s.faults /\ c.q = s.q
        /\ c.tptr = s.tptr \ {"np"} /\ c.arm = s.arm \ {"np"} /\ c.pop = s.pop
    BY <1>2, CancelsTimers
  <1> HIDE DEF c
  <1>4. /\ b \in UaRecords
        /\ SameCall(c, b) /\ SameInvite(c, b) /\ SameMedia(c, b) /\ SameRel(c, b)
        /\ SameHistory(c, b) /\ b.faults = c.faults /\ b.q = c.q /\ b.pop = c.pop
        /\ b.tptr = c.tptr \cup (IF "ex" \in Timed THEN {"ex"} ELSE {})
        /\ b.arm = c.arm \cup (IF "ex" \in Timed THEN {"ex"} ELSE {})
    BY <1>3, StartsTimer DEF TimerNames
  <1> HIDE DEF b
  <1>5. Ringing(s)
    BY <1>1, <1>2 DEF Ringing, Active, Held, SameCall, SameInvite, SameMedia, SameTimers,
                      SameHistory
  <1>6. Ringing(b) /\ SameCall(r, b) /\ b.q = r.q /\ b.cancelCB = r.cancelCB /\ b.pr_rel = r.pr_rel
    BY <1>1, <1>2, <1>3, <1>4 DEF Ringing, Active, Held, SameCall, SameInvite, SameMedia, SameTimers,
                      SameHistory, SameRel, Before
  <1>7. /\ t \in UaRecords /\ Ringing(t) /\ SameCall(r, t) /\ t.q = r.q
        /\ t.cancelCB = r.cancelCB /\ t.pr_rel = r.pr_rel
    BY <1>2, <1>4, <1>5, <1>6 DEF SameCall, SameInvite
  <1>8. UasTrying_Ring(r, e) = IF r.pr_rel
                                 THEN [v EXCEPT !.prack_wait = e.body, !.prack_received = FALSE,
                                         !.heldRing = NoEv, !.heldConnect = NoEv, !.heldUpdate = NoEv]
                                 ELSE v
    BY DEF UasTrying_Ring, s, c, b
  <1> HIDE DEF t
  <1>9. s0 \in States
    BY DEF States
  <1> HIDE DEF s0
  <1>10. /\ v \in UaRecords
         /\ v.st = s0 /\ (v.gone => t.gone)
         /\ SameInvite(t, v) /\ SameRel(t, v) /\ SameHistory(t, v)
         /\ v.faults = t.faults /\ v.q = t.q /\ v.pendUpdate = t.pendUpdate
         /\ (v.pending_tr => t.pending_tr)
         /\ v.pop = t.pop /\ v.arm = t.arm /\ v.tptr = t.tptr
    <2>1. s0 \notin {"Disconnected", "Failed", "Cancelling", "Dead"}
      BY DEF s0
    <2>2. t.st \notin {"PreConnect", "Connected"}
      BY <1>7 DEF SameCall
    <2>3. v.arm = t.arm /\ v.tptr = t.tptr
      BY <1>7, <1>9, <2>1, <2>2, KeepsTimers DEF Over
    <2> QED  BY <1>7, <1>9, <2>1, <2>3, ChangesState
  <1> HIDE DEF v
  <1>11. Ringing(v)
    BY <1>7, <1>10 DEF Ringing, Active, Held, SameInvite, SameRel, SameHistory
  <1>12. CASE ~r.pr_rel
    <2>1. v.st = "UasRinging"
      BY <1>10, <1>12 DEF s0
    <2>2. LegInv(v)
      BY <1>7, <1>10, <1>11, <1>12, <2>1, RingingInv DEF Reliable, UasEarly, SameRel
    <2>3. Moves(r, v)
      BY <1>7, <1>10, <2>1, <2>2, QuietSame DEF Moves, BoundCancel, UasEarly, Over, SameInvite
    <2> QED  BY <1>8, <1>12, <2>3
  <1>13. CASE r.pr_rel
    <2>1. v.st = "UasRingingRel"
      BY <1>10, <1>13 DEF s0
    <2>2. PICK w : w = [v EXCEPT !.prack_wait = e.body, !.prack_received = FALSE,
                                 !.heldRing = NoEv, !.heldConnect = NoEv, !.heldUpdate = NoEv]
      OBVIOUS
    <2>3. e.body \in BOOLEAN
      BY DEF Events
    <2>4. w \in UaRecords
      BY <1>10, <2>2, <2>3, RelType
    <2>5. /\ SameCall(v, w) /\ SameInvite(v, w) /\ SameMedia(v, w) /\ SameTimers(v, w)
          /\ SameHistory(v, w) /\ w.faults = v.faults /\ w.q = v.q /\ w.prack_received = FALSE
          /\ w.heldRing = NoEv /\ w.heldConnect = NoEv /\ w.heldUpdate = NoEv
      BY <1>10, <2>2 DEF UaRecords, SameCall, SameInvite, SameMedia, SameTimers, SameHistory
    <2>6. Ringing(w) /\ Reliable(w) /\ w.st = "UasRingingRel"
      BY <1>11, <2>1, <2>5 DEF Ringing, Active, Held, SameCall, SameInvite, SameMedia, SameTimers,
                      SameHistory, Reliable
    <2>7. LegInv(w)
      BY <2>4, <2>6, RingingInv DEF UasEarly
    <2>8. w.q = r.q /\ w.cancelCB = r.cancelCB
      BY <1>7, <1>10, <2>5 DEF SameInvite
    <2>9. Moves(r, w)
      BY <2>4, <2>6, <2>7, <2>8, QuietSame DEF Moves, BoundCancel, UasEarly, Over
    <2> QED  BY <1>8, <1>13, <2>2, <2>9
  <1> QED  BY <1>12, <1>13

\* 200 OK, before the other leg is connected for good.
LEMMA ConfirmMoves ==
    ASSUME NEW r \in UaRecords, NEW t \in UaRecords, r.st \notin Over, Quiet(r.q, t.q),
           Active(t), t.uas = "early", ~t.pending_tr
    PROVE  Moves(r, PreConnect(ReplyOK(t), TRUE))
  <1> DEFINE s == ReplyOK(t)
  <1>1. /\ s \in UaRecords
        /\ SameCall(t, s) /\ SameMedia(t, s) /\ SameRel(t, s)
        /\ SameTimers(t, s) /\ s.faults = t.faults /\ s.q = t.q /\ s.uas = "completed"
    BY RepliesOK
  <1> HIDE DEF s
  <1>2. Active(s) /\ ~s.pending_tr /\ s.uas # "early"
    BY <1>1 DEF Active, Held, SameCall, SameMedia, SameRel, SameTimers
  <1>3. TRUE \in BOOLEAN /\ Quiet(r.q, s.q)
    BY <1>1
  <1>4. Moves(r, PreConnect(s, TRUE))
    BY <1>1, <1>2, <1>3, PreConnectMoves
  <1> QED  BY <1>4 DEF s

\* 200 OK, and the credit timer.
LEMMA AnswerMoves ==
    ASSUME NEW r \in UaRecords, LegInv(r), r.st \in UasEarly, NEW X, "cr" \notin X
    PROVE  Moves(r, PreConnect(StartCreditTimer(CancelTimers(ReplyOK(r), X)), FALSE))
  <1> DEFINE s == ReplyOK(r)
             c == CancelTimers(s, X)
             t == StartTimer(c, "cr")
  <1>1. Ringing(r)
    BY LegRinging
  <1>2. /\ s \in UaRecords
        /\ SameCall(r, s) /\ SameMedia(r, s) /\ SameRel(r, s)
        /\ SameTimers(r, s) /\ s.faults = r.faults /\ s.q = r.q /\ s.uas = "completed"
    BY <1>1, RepliesOK DEF Ringing
  <1> HIDE DEF s
  <1>3. /\ c \in UaRecords
        /\ SameCall(s, c) /\ SameInvite(s, c) /\ SameMedia(s, c) /\ SameRel(s, c)
        /\ c.faults = s.faults /\ c.q = s.q
        /\ c.tptr = s.tptr \ X /\ c.arm = s.arm \ X /\ c.pop = s.pop
    BY <1>2, CancelsTimers
  <1>4. c.st # "None" /\ "cr" \notin c.tptr
    BY <1>1, <1>2, <1>3 DEF Ringing, SameTimers, SameCall, UasEarly
  <1> HIDE DEF c
  <1>5. StartCreditTimer(c) = t
    BY <1>3, <1>4, StartsCredit
  <1>6. /\ t \in UaRecords
        /\ SameCall(c, t) /\ SameInvite(c, t) /\ SameMedia(c, t) /\ SameRel(c, t)
        /\ t.faults = c.faults /\ t.q = c.q
        /\ t.arm = c.arm \cup (IF "cr" \in Timed THEN {"cr"} ELSE {}) /\ t.pop = c.pop
    BY <1>3, StartsTimer DEF TimerNames
  <1> HIDE DEF t
  <1>7. Active(t) /\ t.uas # "early" /\ Credited(t) /\ ~t.pending_tr
    BY <1>1, <1>2, <1>3, <1>6 DEF Ringing, Active, Credited, Held, SameCall, SameInvite, SameMedia,
       SameRel, SameTimers
  <1>8. r.st \notin Over /\ Quiet(r.q, t.q) /\ FALSE \in BOOLEAN
    BY <1>2, <1>3, <1>6, QuietSame DEF Over, UasEarly
  <1>9. Moves(r, PreConnect(t, FALSE))
    BY <1>6, <1>7, <1>8, PreConnectMoves
  <1> QED  BY <1>5, <1>9 DEF s, c

LEMMA TryingMoves ==
    ASSUME NEW r \in UaRecords, LegInv(r), NEW e \in Events, r.st = "UasTrying"
    PROVE  Moves(r, UasTrying_RecvEvent(r, e))
  <1>1. CASE e.k = "Ring"
    <2>1. UasTrying_RecvEvent(r, e) = UasTrying_Ring(r, e)
      BY <1>1 DEF UasTrying_RecvEvent, Ends
    <2> QED  BY <2>1, TryingRingMoves
  <1>2. CASE e.k = "PreConnect"
    <2> DEFINE c == CancelTimers(r, {"np"})
    <2>1. Ringing(r)
      BY LegRinging DEF UasEarly
    <2>2. /\ c \in UaRecords
          /\ SameCall(r, c) /\ SameInvite(r, c) /\ SameMedia(r, c) /\ SameRel(r, c)
          /\ c.faults = r.faults /\ c.q = r.q /\ c.arm = r.arm \ {"np"} /\ c.pop = r.pop
      BY CancelsTimers
    <2> HIDE DEF c
    <2>3. Active(c) /\ c.uas = "early" /\ ~c.pending_tr
      BY <2>1, <2>2 DEF Ringing, Active, Held, SameCall, SameInvite, SameMedia, SameRel
    <2>4. r.st \notin Over /\ Quiet(r.q, c.q)
      BY <2>2, QuietSame DEF Over
    <2>5. Moves(r, PreConnect(ReplyOK(c), TRUE))
      BY <2>2, <2>3, <2>4, ConfirmMoves
    <2>6. UasTrying_RecvEvent(r, e) = PreConnect(ReplyOK(c), TRUE)
      BY <1>2 DEF UasTrying_RecvEvent, Ends, c
    <2> QED  BY <2>5, <2>6
  <1>3. CASE e.k = "Connect"
    <2>1. Moves(r, PreConnect(StartCreditTimer(CancelTimers(ReplyOK(r), {"ex", "np"})), FALSE))
      BY AnswerMoves DEF UasEarly
    <2>2. UasTrying_RecvEvent(r, e)
            = PreConnect(StartCreditTimer(CancelTimers(ReplyOK(r), {"ex", "np"})), FALSE)
      BY <1>3 DEF UasTrying_RecvEvent, Ends
    <2> QED  BY <2>1, <2>2
  <1>4. CASE e.k \in Ends
    <2>1. UasTrying_RecvEvent(r, e) = UasEnd(r, e)
      BY <1>4 DEF UasTrying_RecvEvent, Ends
    <2> QED  BY <2>1, UasEndMoves, LegLoose DEF UasEarly
  <1>5. CASE e.k \notin {"Ring", "PreConnect", "Connect"} \cup Ends
    <2>1. UasTrying_RecvEvent(r, e) = r
      BY <1>5 DEF UasTrying_RecvEvent
    <2> QED  BY <2>1, Stays
  <1> QED  BY <1>1, <1>2, <1>3, <1>4, <1>5

LEMMA RingingMoves ==
    ASSUME NEW r \in UaRecords, LegInv(r), NEW e \in Events,
           r.st \in {"UasRinging", "UasRingingRel"},
           e.k = "Ring" => ~(r.pr_rel /\ r.prov) /\ (r.st = "UasRingingRel" => ~r.prack_received)
    PROVE  Moves(r, UasRinging_RecvEvent(r, e))
  <1>1. CASE e.k = "Ring"
    <2> DEFINE s == ReplyRinging(r)
    <2>1. /\ s \in UaRecords
          /\ SameCall(r, s) /\ SameInvite(r, s) /\ SameMedia(r, s) /\ SameTimers(r, s)
          /\ SameHistory(r, s) /\ s.faults = r.faults /\ s.q = r.q
          /\ s.pr_rel = r.pr_rel /\ s.prov = r.pr_rel
          /\ s.prack_received = r.prack_received /\ s.heldRing = r.heldRing
          /\ s.heldConnect = r.heldConnect /\ s.heldUpdate = r.heldUpdate
      BY <1>1, RepliesRinging
    <2> HIDE DEF s
    <2>2. Ringing(r)
      BY LegRinging DEF UasEarly
    <2>3. Ringing(s)
      BY <2>1, <2>2 DEF Ringing, Active, Held, SameCall, SameInvite, SameMedia, SameTimers, SameHistory
    <2>4. Reliable(s) /\ s.st \in UasEarly
      BY <1>1, <2>1 DEF Reliable, LegInv, SameCall, UasEarly
    <2>5. LegInv(s)
      BY <2>1, <2>3, <2>4, RingingInv
    <2>6. Moves(r, s)
      BY <2>1, <2>4, <2>5, QuietSame DEF Moves, SameCall, SameInvite, BoundCancel, UasEarly, Over
    <2>7. UasRinging_RecvEvent(r, e) = s
      BY <1>1 DEF UasRinging_RecvEvent, Ends, s
    <2> QED  BY <2>6, <2>7
  <1>2. CASE e.k = "PreConnect"
    <2>1. Active(r) /\ r.uas = "early" /\ ~r.pending_tr
      BY LegRinging DEF Ringing, UasEarly
    <2>2. r.st \notin Over /\ Quiet(r.q, r.q)
      BY QuietSame DEF Over
    <2>3. Moves(r, PreConnect(ReplyOK(r), TRUE))
      BY <2>1, <2>2, ConfirmMoves
    <2>4. UasRinging_RecvEvent(r, e) = PreConnect(ReplyOK(r), TRUE)
      BY <1>2 DEF UasRinging_RecvEvent, Ends
    <2> QED  BY <2>3, <2>4
  <1>3. CASE e.k = "Connect"
    <2>1. Moves(r, PreConnect(StartCreditTimer(CancelTimers(ReplyOK(r), {"ex"})), FALSE))
      BY AnswerMoves DEF UasEarly
    <2>2. UasRinging_RecvEvent(r, e)
            = PreConnect(StartCreditTimer(CancelTimers(ReplyOK(r), {"ex"})), FALSE)
      BY <1>3 DEF UasRinging_RecvEvent, Ends
    <2> QED  BY <2>1, <2>2
  <1>4. CASE e.k \in Ends
    <2>1. UasRinging_RecvEvent(r, e) = UasEnd(r, e)
      BY <1>4 DEF UasRinging_RecvEvent, Ends
    <2> QED  BY <2>1, UasEndMoves, LegLoose DEF UasEarly
  <1>5. CASE e.k \notin {"Ring", "PreConnect", "Connect"} \cup Ends
    <2>1. UasRinging_RecvEvent(r, e) = r
      BY <1>5 DEF UasRinging_RecvEvent
    <2> QED  BY <2>1, Stays
  <1> QED  BY <1>1, <1>2, <1>3, <1>4, <1>5

\* Only what a state keeps for later changes, or an event is emitted.
LEMMA AsideMoves ==
    ASSUME NEW r \in UaRecords, NEW s \in UaRecords, LegInv(r), r.st # "None",
           SameCall(r, s), SameInvite(r, s), SameTimers(r, s), SameHistory(r, s),
           s.late_media = r.late_media, s.pending_tr = r.pending_tr, s.confirm = r.confirm,
           s.faults = r.faults, Held(s), Reliable(s), Quiet(r.q, s.q)
    PROVE  Moves(r, s)
  <1>1. Answering(s) /\ Closing(s) /\ Timing(s)
    BY DEF LegInv, Answering, Closing, Timing, Allowed, Covered, SameCall, SameInvite, SameTimers, SameHistory
  <1>2. LegInv(s)
    BY <1>1 DEF LegInv
  <1> QED  BY <1>2 DEF Moves, SameCall, SameInvite, BoundCancel

\* Nothing else changes.
Beside(r, s) ==
    /\ SameCall(r, s) /\ SameInvite(r, s) /\ SameTimers(r, s) /\ SameHistory(r, s)
    /\ s.late_media = r.late_media /\ s.pending_tr = r.pending_tr /\ s.confirm = r.confirm
    /\ s.faults = r.faults /\ Reliable(s) /\ Held(s) /\ s.q = r.q

LEMMA BesideMoves ==
    ASSUME NEW r \in UaRecords, NEW s \in UaRecords, LegInv(r), r.st # "None", Beside(r, s)
    PROVE  Moves(r, s)
  BY AsideMoves, QuietSame DEF Beside

LEMMA KeptTypes ==
    ASSUME NEW r \in UaRecords, NEW e \in Events, NEW b \in BOOLEAN
    PROVE  /\ [r EXCEPT !.heldRing = e] \in UaRecords
           /\ [r EXCEPT !.heldConnect = e] \in UaRecords
           /\ [r EXCEPT !.heldUpdate = e] \in UaRecords
           /\ [r EXCEPT !.pendUpdate = e] \in UaRecords
           /\ [r EXCEPT !.prack_wait = b, !.prack_received = FALSE] \in UaRecords
  <1> DEFINE E == Events \cup {NoEv}
  <1>1. e \in E /\ FALSE \in BOOLEAN
    OBVIOUS
  <1> HIDE DEF E
  <1>2. ASSUME NEW n \in E, NEW f \in BOOLEAN
        PROVE  /\ [r EXCEPT !.heldRing = n] \in UaRecords
               /\ [r EXCEPT !.heldConnect = n] \in UaRecords
               /\ [r EXCEPT !.heldUpdate = n] \in UaRecords
               /\ [r EXCEPT !.pendUpdate = n] \in UaRecords
               /\ [r EXCEPT !.prack_wait = b, !.prack_received = f] \in UaRecords
    <2>1. [r EXCEPT !.heldRing = n] \in UaRecords
      BY ZenonT(60) DEF UaRecords, E
    <2>2. [r EXCEPT !.heldConnect = n] \in UaRecords
      BY ZenonT(60) DEF UaRecords, E
    <2>3. [r EXCEPT !.heldUpdate = n] \in UaRecords
      BY ZenonT(60) DEF UaRecords, E
    <2>4. [r EXCEPT !.pendUpdate = n] \in UaRecords
      BY ZenonT(60) DEF UaRecords, E
    <2>5. [r EXCEPT !.prack_wait = b, !.prack_received = f] \in UaRecords
      BY ZenonT(60) DEF UaRecords
    <2> QED  BY <2>1, <2>2, <2>3, <2>4, <2>5
  <1> QED  BY <1>1, <1>2

\* Keeping an event is keeping to the invariant.
LEMMA KeepMoves ==
    ASSUME NEW r \in UaRecords, LegInv(r), NEW e \in Events, r.st # "None"
    PROVE  /\ e.k = "Ring" => Moves(r, [r EXCEPT !.heldRing = e])
           /\ e.k = "Connect" => Moves(r, [r EXCEPT !.heldConnect = e])
           /\ e.k = "Update" => Moves(r, [r EXCEPT !.heldUpdate = e])
           /\ e.k = "Update" => Moves(r, [r EXCEPT !.pendUpdate = e])
           /\ \A b \in BOOLEAN :
                r.prack_received => Moves(r, [r EXCEPT !.prack_wait = b, !.prack_received = FALSE])
  <1>1. ASSUME e.k = "Ring" PROVE Moves(r, [r EXCEPT !.heldRing = e])
    <2>1. PICK s : s = [r EXCEPT !.heldRing = e]  OBVIOUS
    <2>2. s \in UaRecords
      BY <2>1, KeptTypes
    <2>3. Beside(r, s)
      BY <1>1, <2>1 DEF UaRecords, Beside, SameCall, SameInvite, SameTimers, SameHistory, Reliable,
                  LegInv, Held
    <2> QED  BY <2>1, <2>2, <2>3, BesideMoves
  <1>2. ASSUME e.k = "Connect" PROVE Moves(r, [r EXCEPT !.heldConnect = e])
    <2>1. PICK s : s = [r EXCEPT !.heldConnect = e]  OBVIOUS
    <2>2. s \in UaRecords
      BY <2>1, KeptTypes
    <2>3. Beside(r, s)
      BY <1>2, <2>1 DEF UaRecords, Beside, SameCall, SameInvite, SameTimers, SameHistory, Reliable,
                  LegInv, Held
    <2> QED  BY <2>1, <2>2, <2>3, BesideMoves
  <1>3. ASSUME e.k = "Update" PROVE Moves(r, [r EXCEPT !.heldUpdate = e])
    <2>1. PICK s : s = [r EXCEPT !.heldUpdate = e]  OBVIOUS
    <2>2. s \in UaRecords
      BY <2>1, KeptTypes
    <2>3. Beside(r, s)
      BY <1>3, <2>1 DEF UaRecords, Beside, SameCall, SameInvite, SameTimers, SameHistory, Reliable,
                  LegInv, Held
    <2> QED  BY <2>1, <2>2, <2>3, BesideMoves
  <1>4. ASSUME e.k = "Update" PROVE Moves(r, [r EXCEPT !.pendUpdate = e])
    <2>1. PICK s : s = [r EXCEPT !.pendUpdate = e]  OBVIOUS
    <2>2. s \in UaRecords
      BY <2>1, KeptTypes
    <2>3. Beside(r, s)
      BY <1>4, <2>1 DEF UaRecords, Beside, SameCall, SameInvite, SameTimers, SameHistory, Reliable,
                  LegInv, Held
    <2> QED  BY <2>1, <2>2, <2>3, BesideMoves
  <1>5. ASSUME NEW b \in BOOLEAN, r.prack_received
        PROVE  Moves(r, [r EXCEPT !.prack_wait = b, !.prack_received = FALSE])
    <2>1. PICK s : s = [r EXCEPT !.prack_wait = b, !.prack_received = FALSE]  OBVIOUS
    <2>2. s \in UaRecords
      BY <2>1, KeptTypes
    <2>3. Beside(r, s)
      BY <2>1 DEF UaRecords, Beside, SameCall, SameInvite, SameTimers, SameHistory, Reliable,
                  LegInv, Held
    <2> QED  BY <2>1, <2>2, <2>3, BesideMoves
  <1> QED  BY <1>1, <1>2, <1>3, <1>4, <1>5

LEMMA RingingRelMoves ==
    ASSUME NEW r \in UaRecords, LegInv(r), NEW e \in Events, r.st = "UasRingingRel"
    PROVE  Moves(r, UasRingingRel_RecvEvent(r, e))
  <1>1. CASE e.k \in {"Ring", "Ring100"} /\ ~r.prack_received
    <2>1. UasRingingRel_RecvEvent(r, e) = IF e.k = "Ring" THEN [r EXCEPT !.heldRing = e] ELSE r
      BY <1>1 DEF UasRingingRel_RecvEvent
    <2> QED  BY <2>1, KeepMoves, Stays
  <1>2. CASE e.k \in {"Ring", "Ring100"} /\ r.prack_received
    <2> DEFINE s == [r EXCEPT !.prack_wait = e.body, !.prack_received = FALSE]
    <2>1. e.body \in BOOLEAN
      BY DEF Events
    <2>2. Moves(r, s) /\ s \in UaRecords
      BY <1>2, <2>1, KeepMoves, KeptTypes
    <2>3. s.st = "UasRingingRel" /\ s.prov = r.prov /\ ~s.prack_received
      BY ZenonT(60) DEF UaRecords
    <2>4. ~r.prov
      BY <1>2 DEF LegInv, Reliable
    <2>5. UasRingingRel_RecvEvent(r, e) = UasRinging_RecvEvent(s, e)
      BY <1>2 DEF UasRingingRel_RecvEvent
    <2> HIDE DEF s
    <2>6. Moves(s, UasRinging_RecvEvent(s, e))
      BY <2>2, <2>3, <2>4, RingingMoves DEF Moves
    <2> QED  BY <2>2, <2>5, <2>6, MovesTwice
  <1>3. CASE e.k = "Connect" /\ r.prack_wait /\ ~r.prack_received
    <2>1. UasRingingRel_RecvEvent(r, e) = [r EXCEPT !.heldConnect = e]
      BY <1>3 DEF UasRingingRel_RecvEvent
    <2> QED  BY <1>3, <2>1, KeepMoves
  <1>4. CASE e.k = "Update"
    <2>1. UasRingingRel_RecvEvent(r, e) = [r EXCEPT !.heldUpdate = e]
      BY <1>4 DEF UasRingingRel_RecvEvent
    <2> QED  BY <1>4, <2>1, KeepMoves
  <1>5. CASE e.k \notin {"Ring", "Ring100", "Update"}
             /\ ~(e.k = "Connect" /\ r.prack_wait /\ ~r.prack_received)
    <2>1. UasRingingRel_RecvEvent(r, e) = UasRinging_RecvEvent(r, e)
      BY <1>5 DEF UasRingingRel_RecvEvent
    <2> QED  BY <1>5, <2>1, RingingMoves
  <1> QED  BY <1>1, <1>2, <1>3, <1>4, <1>5

\* A BYE, or the REFER in its place, ends the leg.
LEMMA ByeMoves ==
    ASSUME NEW r \in UaRecords, NEW t \in UaRecords, NEW s \in UaRecords, Quiet(r.q, s.q),
           Active(t), t.pending_tr => t.st = "Connected",
           SameCall(t, s), SameInvite(t, s), SameMedia(t, s), SameRel(t, s), SameTimers(t, s),
           s.faults = t.faults, s.bye \/ s.refer # "none", s.uas = "early" => s.early_bye
    PROVE  Moves(r, ChangeState(CancelTimers(s, {"cr"}), "Disconnected"))
  <1> DEFINE c == CancelTimers(s, {"cr"})
  <1>1. /\ c \in UaRecords
        /\ SameCall(s, c) /\ SameInvite(s, c) /\ SameMedia(s, c) /\ SameRel(s, c)
        /\ SameHistory(s, c) /\ c.faults = s.faults /\ c.q = s.q /\ c.arm = s.arm \ {"cr"}
    BY CancelsTimers
  <1> HIDE DEF c
  <1>2. Ending(c)
    BY <1>1 DEF Ending, Active, Held, SameCall, SameInvite, SameMedia, SameRel, SameTimers, SameHistory
  <1>3. "Disconnected" \in Over /\ Quiet(r.q, c.q)
    BY <1>1 DEF Over
  <1>4. Moves(r, ChangeState(c, "Disconnected"))
    BY <1>1, <1>2, <1>3, EndMoves
  <1> QED  BY <1>4 DEF c

LEMMA SendBYEMoves ==
    ASSUME NEW r \in UaRecords, NEW t \in UaRecords, Quiet(r.q, t.q),
           Active(t), t.pending_tr => t.st = "Connected", t.uas = "early" => t.early_bye
    PROVE  Moves(r, ChangeState(CancelTimers(SendBYE(t), {"cr"}), "Disconnected"))
  <1> DEFINE s == SendBYE(t)
  <1>1. /\ s \in UaRecords
        /\ SameCall(t, s) /\ SameInvite(t, s) /\ SameMedia(t, s) /\ SameRel(t, s)
        /\ SameTimers(t, s) /\ s.faults = t.faults /\ s.q = t.q
        /\ (s.bye <=> t.bye \/ ~t.gone) /\ s.early_bye = t.early_bye
    BY SendsBYE
  <1> HIDE DEF s
  <1>2. s.bye /\ Quiet(r.q, s.q) /\ (s.uas = "early" => s.early_bye)
    BY <1>1 DEF Active, SameInvite
  <1>3. Moves(r, ChangeState(CancelTimers(s, {"cr"}), "Disconnected"))
    BY <1>1, <1>2, ByeMoves
  <1> QED  BY <1>3 DEF s

LEMMA HangupMoves ==
    ASSUME NEW r \in UaRecords, Loose(r), NEW e \in Events, r.st \in {"PreConnect", "Connected"}
    PROVE  Moves(r, ChangeState(CancelTimers(Hangup(r, e), {"cr"}), "Disconnected"))
  <1> DEFINE s == Hangup(r, e)
  <1>1. /\ s \in UaRecords
        /\ SameCall(r, s) /\ SameInvite(r, s) /\ SameMedia(r, s) /\ SameRel(r, s)
        /\ SameTimers(r, s) /\ s.faults = r.faults /\ s.q = r.q
        /\ r.gone \/ s.bye \/ s.refer # "none"
    BY HangsUpLeg
  <1> HIDE DEF s
  <1>2. /\ Active(r) /\ Quiet(r.q, s.q) /\ r.uas # "early"
        /\ (r.pending_tr => r.st = "Connected")
    BY <1>1, LegActive, QuietSame DEF Over, Loose, Answering, Closing, Asked, UasEarly
  <1>3. (s.bye \/ s.refer # "none") /\ (s.uas = "early" => s.early_bye)
    BY <1>1, <1>2 DEF Active, SameInvite
  <1>4. Moves(r, ChangeState(CancelTimers(s, {"cr"}), "Disconnected"))
    BY <1>1, <1>2, <1>3, ByeMoves
  <1> QED  BY <1>4 DEF s

LEMMA PreConnectEventMoves ==
    ASSUME NEW r \in UaRecords, LegInv(r), NEW e \in Events, r.st = "PreConnect"
    PROVE  Moves(r, PreConnect_RecvEvent(r, e))
  <1>1. CASE e.k = "Update"
    <2>1. PreConnect_RecvEvent(r, e) = [r EXCEPT !.pendUpdate = e]
      BY <1>1 DEF PreConnect_RecvEvent, Ends
    <2> QED  BY <1>1, <2>1, KeepMoves
  <1>2. CASE e.k \in Ends
    <2>1. PreConnect_RecvEvent(r, e)
            = ChangeState(CancelTimers(Hangup(r, e), {"cr"}), "Disconnected")
      BY <1>2 DEF PreConnect_RecvEvent, Ends
    <2> QED  BY <2>1, HangupMoves, LegLoose
  <1>3. CASE e.k \notin {"Update"} \cup Ends
    <2>1. PreConnect_RecvEvent(r, e) = r
      BY <1>3 DEF PreConnect_RecvEvent
    <2> QED  BY <2>1, Stays
  <1> QED  BY <1>1, <1>2, <1>3

LEMMA UasUpdatingEventMoves ==
    ASSUME NEW r \in UaRecords, LegInv(r), NEW e \in Events, r.st = "UasUpdating"
    PROVE  Moves(r, UasUpdating_RecvEvent(r, e))
  <1>1. r.uas = "early" /\ r.st \notin Over /\ ~r.pending_tr /\ Active(r) /\ Credited(r)
    BY LegActive, LegLoose, LegCredited DEF LegInv, Answering, Closing, Asked, Over, IsConnected
  <1>2. ASSUME NEW w \in BOOLEAN
        PROVE  LET s == Reply(r, w)
               IN  /\ s \in UaRecords /\ Active(s) /\ Credited(s) /\ s.uas # "early"
                   /\ ~s.pending_tr /\ Quiet(r.q, s.q)
    <2> DEFINE s == Reply(r, w)
    <2>1. /\ s \in UaRecords
          /\ SameCall(r, s) /\ SameMedia(r, s) /\ SameRel(r, s)
          /\ SameTimers(r, s) /\ s.faults = r.faults /\ s.q = r.q /\ s.uas = "completed"
      BY <1>1, Replies
    <2> HIDE DEF s
    <2>2. Active(s) /\ Credited(s) /\ s.uas # "early" /\ ~s.pending_tr /\ Quiet(r.q, s.q)
      BY <1>1, <2>1, QuietSame DEF Active, Credited, Held, SameCall, SameMedia, SameRel, SameTimers
    <2> QED  BY <2>1, <2>2 DEF s
  <1>3. TRUE \in BOOLEAN /\ FALSE \in BOOLEAN
    OBVIOUS
  <1>4. CASE e.k = "PreConnect"
    <2>1. UasUpdating_RecvEvent(r, e) = PreConnect(Reply(r, TRUE), TRUE)
      BY <1>4 DEF UasUpdating_RecvEvent
    <2>2. PICK s : s = Reply(r, TRUE)  OBVIOUS
    <2>3. /\ s \in UaRecords /\ Active(s) /\ Credited(s) /\ s.uas # "early"
          /\ ~s.pending_tr /\ Quiet(r.q, s.q)
      BY <1>2, <1>3, <2>2
    <2> QED  BY <1>1, <1>3, <2>1, <2>2, <2>3, PreConnectMoves
  <1>5. CASE e.k \in {"Connect", "Redirect", "Fail"}
    <2>1. UasUpdating_RecvEvent(r, e) = PreConnect(Reply(r, TRUE), FALSE)
      BY <1>5 DEF UasUpdating_RecvEvent
    <2>2. PICK s : s = Reply(r, TRUE)  OBVIOUS
    <2>3. /\ s \in UaRecords /\ Active(s) /\ Credited(s) /\ s.uas # "early"
          /\ ~s.pending_tr /\ Quiet(r.q, s.q)
      BY <1>2, <1>3, <2>2
    <2> QED  BY <1>1, <1>3, <2>1, <2>2, <2>3, PreConnectMoves
  <1>6. CASE e.k = "Disconnect"
    <2>1. UasUpdating_RecvEvent(r, e)
            = ChangeState(CancelTimers(SendBYE(Reply(r, FALSE)), {"cr"}), "Disconnected")
      BY <1>6 DEF UasUpdating_RecvEvent
    <2>2. PICK s : s = Reply(r, FALSE)  OBVIOUS
    <2>3. /\ s \in UaRecords /\ Active(s) /\ s.uas # "early" /\ ~s.pending_tr /\ Quiet(r.q, s.q)
      BY <1>2, <1>3, <2>2
    <2>4. Moves(r, ChangeState(CancelTimers(SendBYE(s), {"cr"}), "Disconnected"))
      BY <2>3, SendBYEMoves
    <2> QED  BY <2>1, <2>2, <2>4
  <1>7. CASE e.k \notin {"PreConnect", "Connect", "Redirect", "Fail", "Disconnect"}
    <2>1. UasUpdating_RecvEvent(r, e) = r
      BY <1>7 DEF UasUpdating_RecvEvent
    <2> QED  BY <2>1, Stays
  <1> QED  BY <1>4, <1>5, <1>6, <1>7

LEMMA UacUpdatingEventMoves ==
    ASSUME NEW r \in UaRecords, LegInv(r), NEW e \in Events, r.st = "UacUpdating"
    PROVE  Moves(r, UacUpdating_RecvEvent(r, e))
  <1>1. CASE e.k \in Ends
    <2>1. Active(r) /\ ~r.pending_tr /\ r.uas # "early" /\ Quiet(r.q, r.q)
      BY LegActive, LegLoose, QuietSame DEF LegInv, Answering, Closing, Asked, Over, UasEarly
    <2>2. Moves(r, ChangeState(CancelTimers(SendBYE(r), {"cr"}), "Disconnected"))
      BY <2>1, SendBYEMoves
    <2> QED  BY <1>1, <2>2 DEF UacUpdating_RecvEvent
  <1>2. CASE e.k \notin Ends
    BY <1>2, Stays DEF UacUpdating_RecvEvent
  <1> QED  BY <1>1, <1>2

LEMMA UacCancelMoves ==
    ASSUME NEW r \in UaRecords, Loose(r), r.st \in {"UacTrying", "UacRinging"}, NEW X
    PROVE  Moves(r, ChangeState(CancelTimers(UacCancel(r), X), "Cancelling"))
  <1> DEFINE s == UacCancel(r)
             c == CancelTimers(s, X)
  <1>1. s \in UaRecords
    BY ZenonT(60) DEF UacCancel, UaRecords
  <1>2. /\ SameCall(r, s) /\ SameInvite(r, s) /\ SameMedia(r, s) /\ SameRel(r, s)
        /\ SameTimers(r, s) /\ s.faults = r.faults /\ s.q = r.q /\ s.cancelled
    BY DEF UacCancel, UaRecords, SameCall, SameInvite, SameMedia, SameRel, SameTimers
  <1> HIDE DEF s
  <1>3. /\ c \in UaRecords
        /\ SameCall(s, c) /\ SameInvite(s, c) /\ SameMedia(s, c) /\ SameRel(s, c)
        /\ SameHistory(s, c) /\ c.faults = s.faults /\ c.q = s.q /\ c.arm = s.arm \ X
    BY <1>1, CancelsTimers
  <1> HIDE DEF c
  <1>4. Ending(c)
    BY <1>2, <1>3 DEF Ending, Loose, Answering, Closing, Allowed, Held, SameCall, SameInvite, SameMedia,
       SameRel, SameTimers, SameHistory, Asked, UasEarly, Over, IsConnected
  <1>5. "Cancelling" \in Over /\ Quiet(r.q, c.q)
    BY <1>2, <1>3, QuietSame DEF Over
  <1>6. Moves(r, ChangeState(c, "Cancelling"))
    BY <1>3, <1>4, <1>5, EndMoves
  <1> QED  BY <1>6 DEF c, s

LEMMA UacSetupEventMoves ==
    ASSUME NEW r \in UaRecords, LegInv(r), NEW e \in Events
    PROVE  /\ r.st = "UacTrying" => Moves(r, UacTrying_RecvEvent(r, e))
           /\ r.st = "UacRinging" => Moves(r, UacRinging_RecvEvent(r, e))
  BY UacCancelMoves, LegLoose, Stays DEF UacTrying_RecvEvent, UacRinging_RecvEvent

LEMMA CallingType ==
    ASSUME NEW r \in UaRecords, NEW l \in BOOLEAN
    PROVE  [r EXCEPT !.late_media = l, !.uac = "calling", !.auth = FALSE] \in UaRecords
  <1> DEFINE C == {"none", "calling", "proceeding", "done"}
  <1>1. "calling" \in C /\ FALSE \in BOOLEAN
    OBVIOUS
  <1> HIDE DEF C
  <1>2. ASSUME NEW c \in C, NEW a \in BOOLEAN
        PROVE  [r EXCEPT !.late_media = l, !.uac = c, !.auth = a] \in UaRecords
    BY ZenonT(60) DEF UaRecords, C
  <1> QED  BY <1>1, <1>2

\* An Update without an SDP is noted, whatever becomes of it.
LEMMA LateMoves ==
    ASSUME NEW r \in UaRecords, LegInv(r), r.st = "Connected", NEW e \in Events
    PROVE  Moves(r, [r EXCEPT !.late_media = @ \/ ~e.body])
  <1>1. PICK l \in BOOLEAN : l = (r.late_media \/ ~e.body)
    BY DEF UaRecords, Events
  <1>2. PICK t : t = [r EXCEPT !.late_media = l]  OBVIOUS
  <1>3. t \in UaRecords
    BY <1>2, ZenonT(60) DEF UaRecords
  <1>4. /\ SameCall(r, t) /\ SameInvite(r, t) /\ SameRel(r, t) /\ SameTimers(r, t)
        /\ SameHistory(r, t) /\ t.faults = r.faults /\ t.q = r.q
        /\ t.late_media = l /\ t.pending_tr = r.pending_tr /\ t.pendUpdate = r.pendUpdate
    BY <1>2 DEF UaRecords, SameCall, SameInvite, SameRel, SameTimers, SameHistory
  <1>5. r.late_media => l
    BY <1>1
  <1>6. LegInv(t)
    BY <1>4, <1>5 DEF LegInv, Answering, Reliable, Closing, Timing, Allowed, Covered, Held,
       SameCall, SameInvite, SameRel, SameTimers, SameHistory, Asked, Setup, UasEarly, Over,
       IsConnected
  <1>7. Moves(r, t)
    BY <1>3, <1>4, <1>6, QuietSame DEF Moves, BoundCancel, UasEarly, Over, SameCall, SameInvite
  <1> QED  BY <1>1, <1>2, <1>7

LEMMA UpdateMoves ==
    ASSUME NEW r \in UaRecords, LegInv(r), NEW e \in Events, NEW way \in Ways,
           r.st = "Connected"
    PROVE  Moves(r, Connected_Update(r, e, way))
  <1>1. CASE way = "known" /\ e.body
    <2>1. EvBody("Connect", TRUE) \in Events /\ EvBody("Connect", TRUE).k # "Try"
      BY DEF EvBody, Events, EventKinds
    <2>2. Moves(r, Enqueue(r, EvBody("Connect", TRUE)))
      BY <2>1, EnqueueMoves
    <2> QED  BY <1>1, <2>2 DEF Connected_Update
  <1>2. CASE way = "hops"
    <2> DEFINE t == [r EXCEPT !.late_media = @ \/ ~e.body]
    <2>1. Moves(r, t)
      BY LateMoves
    <2>2. Ev("Fail") \in Events /\ Ev("Fail").k # "Try"
      BY DEF Ev, Events, EventKinds
    <2> HIDE DEF t
    <2>3. Moves(t, Enqueue(t, Ev("Fail")))
      BY <2>1, <2>2, EnqueueMoves DEF Moves
    <2>4. Moves(r, Enqueue(t, Ev("Fail")))
      BY <2>1, <2>3, MovesTwice DEF Moves
    <2> QED  BY <1>2, <2>4 DEF Connected_Update, t
  <1>3. CASE ~(way = "known" /\ e.body) /\ way # "hops"
    <2>1. PICK l \in BOOLEAN : l = (r.late_media \/ ~e.body)
      BY DEF UaRecords, Events
    <2>2. PICK t : t = [r EXCEPT !.late_media = l, !.uac = "calling", !.auth = FALSE]  OBVIOUS
    <2>3. t \in UaRecords
      BY <2>2, CallingType
    <2>4. /\ SameCall(r, t) /\ SameRel(r, t) /\ SameTimers(r, t) /\ SameHistory(r, t)
          /\ t.uas = r.uas /\ t.cancelCB = r.cancelCB /\ t.faults = r.faults /\ t.q = r.q
          /\ t.late_media = l /\ t.pending_tr = r.pending_tr /\ t.pendUpdate = r.pendUpdate
      BY <2>2 DEF UaRecords, SameCall, SameRel, SameTimers, SameHistory
    <2>5. Active(r) /\ Credited(r) /\ r.uas # "early"
      BY LegActive, LegLoose, LegCredited DEF LegInv, Answering, Asked, Over, UasEarly, IsConnected
    <2>6. Active(t) /\ Credited(t) /\ t.uas # "early" /\ t.st = "Connected"
      BY <2>1, <2>4, <2>5 DEF Active, Credited, Held, SameCall, SameRel, SameTimers
    <2>7. LET v == ChangeState(t, "UacUpdating")
          IN  v \in UaRecords /\ LegInv(v) /\ v.st = "UacUpdating" /\ v.q = t.q
      BY <2>3, <2>6, ConnectMoves
    <2>8. Moves(r, ChangeState(t, "UacUpdating"))
      BY <2>4, <2>7, QuietSame DEF Moves, BoundCancel, UasEarly, Over
    <2>9. Connected_Update(r, e, way) = ChangeState(t, "UacUpdating")
      <3>1. t = [[r EXCEPT !.late_media = @ \/ ~e.body] EXCEPT !.uac = "calling", !.auth = FALSE]
        BY <2>1, <2>2 DEF UaRecords
      <3> HIDE <2>2
      <3> QED  BY <1>3, <3>1 DEF Connected_Update
    <2> QED  BY <2>8, <2>9
  <1> QED  BY <1>1, <1>2, <1>3

LEMMA ConnectEventMoves ==
    ASSUME NEW r \in UaRecords, LegInv(r), r.st = "Connected"
    PROVE  Moves(r, Connected_Connect(r))
  <1>1. CASE ~r.pending_tr
    BY <1>1, Stays DEF Connected_Connect
  <1>2. CASE r.pending_tr
    <2> DEFINE c == CancelTimers(r, {"ex", "cr"})
               t == StartTimer(c, "cr")
    <2>1. /\ c \in UaRecords
          /\ SameCall(r, c) /\ SameInvite(r, c) /\ SameMedia(r, c) /\ SameRel(r, c)
          /\ SameHistory(r, c) /\ c.faults = r.faults /\ c.q = r.q
          /\ c.tptr = r.tptr \ {"ex", "cr"} /\ c.arm = r.arm \ {"ex", "cr"} /\ c.pop = r.pop
      BY CancelsTimers
    <2>2. "cr" \notin c.tptr
      BY <2>1
    <2> HIDE DEF c
    <2>3. StartCreditTimer(c) = t
      BY <2>1, <2>2, StartsCredit
    <2>4. /\ t \in UaRecords
          /\ SameCall(c, t) /\ SameInvite(c, t) /\ SameMedia(c, t) /\ SameRel(c, t)
          /\ SameHistory(c, t) /\ t.faults = c.faults /\ t.q = c.q
          /\ t.tptr = c.tptr \cup (IF "cr" \in Timed THEN {"cr"} ELSE {})
          /\ t.arm = c.arm \cup (IF "cr" \in Timed THEN {"cr"} ELSE {}) /\ t.pop = c.pop
      BY <2>1, StartsTimer DEF TimerNames
    <2> HIDE DEF t
    <2>5. PICK w : w = [t EXCEPT !.pending_tr = FALSE]  OBVIOUS
    <2>6. w \in UaRecords
      BY <2>4, <2>5, ZenonT(60) DEF UaRecords
    <2>7. /\ SameCall(t, w) /\ SameInvite(t, w) /\ SameRel(t, w) /\ SameTimers(t, w)
          /\ SameHistory(t, w) /\ w.faults = t.faults /\ w.q = t.q /\ ~w.pending_tr
          /\ w.late_media = t.late_media /\ w.pendUpdate = t.pendUpdate
      BY <2>4, <2>5 DEF UaRecords, SameCall, SameInvite, SameRel, SameTimers, SameHistory
    <2>8. Answering(w) /\ Reliable(w) /\ Closing(w) /\ Held(w)
      BY <2>1, <2>4, <2>7 DEF LegInv, Answering, Reliable, Closing, Held, SameCall, SameInvite,
         SameMedia, SameRel, SameHistory, Asked, Setup, UasEarly, Over
    <2>9. Timing(w)
      BY <2>1, <2>4, <2>7 DEF LegInv, Timing, Allowed, Covered, SameCall, SameTimers, SameMedia, Setup, UasEarly,
         Over, IsConnected
    <2>10. LegInv(w) /\ w.q = r.q /\ w.st = "Connected"
      BY <2>1, <2>4, <2>7, <2>8, <2>9 DEF LegInv, SameCall
    <2>11. Connected_Connect(r) = w
      BY <1>2, <2>3, <2>5 DEF Connected_Connect, c
    <2> QED  BY <2>6, <2>10, <2>11, QuietSame DEF Moves, BoundCancel, UasEarly, Over
  <1> QED  BY <1>1, <1>2

LEMMA ConnectedEventMoves ==
    ASSUME NEW r \in UaRecords, LegInv(r), NEW e \in Events, NEW way \in Ways,
           r.st = "Connected"
    PROVE  Moves(r, Connected_RecvEvent(r, e, way))
  <1>1. CASE e.k \in Ends
    <2>1. Connected_RecvEvent(r, e, way)
            = ChangeState(CancelTimers(Hangup(r, e), {"cr"}), "Disconnected")
      BY <1>1 DEF Connected_RecvEvent, Ends
    <2> QED  BY <2>1, HangupMoves, LegLoose
  <1>2. CASE e.k = "Update"
    <2>1. Connected_RecvEvent(r, e, way) = Connected_Update(r, e, way)
      BY <1>2 DEF Connected_RecvEvent, Ends
    <2> QED  BY <2>1, UpdateMoves
  <1>3. CASE e.k = "Connect"
    <2>1. Connected_RecvEvent(r, e, way) = Connected_Connect(r)
      BY <1>3 DEF Connected_RecvEvent, Ends
    <2> QED  BY <2>1, ConnectEventMoves
  <1>4. CASE e.k \notin {"Update", "Connect"} \cup Ends
    <2>1. Connected_RecvEvent(r, e, way) = r
      BY <1>4 DEF Connected_RecvEvent
    <2> QED  BY <2>1, Stays
  <1> QED  BY <1>1, <1>2, <1>3, <1>4

\* The INVITE of leg O goes out.
LEMMA IdleMoves ==
    ASSUME NEW r \in UaRecords, LegInv(r), NEW e \in Events, r.st = "UacIdle"
    PROVE  /\ Moves(r, UacIdle_RecvEvent(r, e))
           /\ e.k = "Try" => UacIdle_RecvEvent(r, e).st # "UacIdle"
  <1>1. CASE e.k = "Try"
    <2>1. PICK l \in BOOLEAN : l = (~e.body)
      OBVIOUS
    <2> DEFINE t == [r EXCEPT !.uac = "calling", !.late_media = l]
               v == ChangeState(t, "UacTrying")
               w == StartFirst(v, <<"nr", "np", "ex">>)
    <2>2. t \in UaRecords
      BY ZenonT(60) DEF UaRecords
    <2>3. /\ SameCall(r, t) /\ SameRel(r, t) /\ SameTimers(r, t) /\ SameHistory(r, t)
          /\ t.uas = r.uas /\ t.cancelCB = r.cancelCB /\ t.faults = r.faults /\ t.q = r.q
          /\ t.pending_tr = r.pending_tr /\ t.pendUpdate = r.pendUpdate
      BY DEF UaRecords, SameCall, SameRel, SameTimers, SameHistory
    <2>4. UacIdle_RecvEvent(r, e) = w
      BY <1>1, <2>1 DEF UacIdle_RecvEvent, Ends
    <2> HIDE DEF t
    <2>5. "UacTrying" \in States /\ "UacTrying" \notin Over /\ t.st \notin {"PreConnect", "Connected"}
      BY <2>3 DEF States, Over, SameCall
    <2>6. /\ v \in UaRecords
          /\ v.st = "UacTrying" /\ (v.gone => t.gone)
          /\ SameInvite(t, v) /\ SameRel(t, v) /\ SameHistory(t, v)
          /\ v.faults = t.faults /\ v.q = t.q /\ v.pendUpdate = t.pendUpdate
          /\ (v.pending_tr => t.pending_tr) /\ v.pop = t.pop
      BY <2>2, <2>5, ChangesState
    <2>7. v.arm = t.arm /\ v.tptr = t.tptr
      BY <2>2, <2>5, KeepsTimers
    <2> HIDE DEF v
    <2>8. /\ w \in UaRecords
          /\ SameCall(v, w) /\ SameInvite(v, w) /\ SameMedia(v, w) /\ SameRel(v, w)
          /\ SameHistory(v, w) /\ w.faults = v.faults /\ w.q = v.q /\ w.pop = v.pop
          /\ \E X \in SUBSET Before :
               /\ w.tptr = v.tptr \cup X /\ w.arm = v.arm \cup X
               /\ "ex" \in Timed => X # {}
      BY <2>6, StartsFirst
    <2>9. PICK X \in SUBSET Before : /\ w.tptr = v.tptr \cup X /\ w.arm = v.arm \cup X
                                     /\ "ex" \in Timed => X # {}
      BY <2>8
    <2> HIDE DEF w
    <2>10. Answering(w) /\ Reliable(w) /\ Closing(w) /\ Held(w)
      BY <2>3, <2>6, <2>8 DEF LegInv, Answering, Reliable, Closing, Held, SameCall, SameInvite,
         SameMedia, SameRel, SameHistory, Asked, Setup, UasEarly, Over
    <2>11. Timing(w)
      <3>1. w.st = "UacTrying" /\ w.pop = r.pop /\ w.arm = r.arm \cup X /\ w.tptr = r.tptr \cup X
        BY <2>3, <2>6, <2>7, <2>8, <2>9 DEF SameCall, SameTimers
      <3>2. /\ "dead" \notin r.arm \cup r.pop /\ "idle" \notin r.arm \cup r.pop
            /\ "cr" \notin r.arm /\ "cr" \notin r.tptr \cup r.pop
        BY DEF LegInv, Timing, Allowed, Covered, Over, IsConnected
      <3>3. /\ "dead" \notin X /\ "idle" \notin X /\ "cr" \notin X
            /\ "ex" \in Timed => "np" \in X \/ "nr" \in X \/ "ex" \in X
        BY <2>9 DEF Before
      <3> QED  BY <3>1, <3>2, <3>3 DEF Timing, Allowed, Covered, IsConnected
    <2>12. LegInv(w) /\ w.q = r.q /\ w.st = "UacTrying"
      BY <2>3, <2>6, <2>8, <2>10, <2>11 DEF LegInv, SameCall
    <2>13. Moves(r, w)
      BY <2>8, <2>12, QuietSame DEF Moves, BoundCancel, UasEarly, Over
    <2> QED  BY <2>4, <2>12, <2>13
  <1>2. CASE e.k \in Ends
    <2>1. UacIdle_RecvEvent(r, e) = ChangeState(r, "Disconnected")
      BY <1>2 DEF UacIdle_RecvEvent, Ends
    <2>2. Ending(r) /\ Quiet(r.q, r.q) /\ "Disconnected" \in Over
      BY QuietSame DEF Ending, LegInv, Answering, Closing, Timing, Allowed, Covered, Asked, UasEarly, Over, Setup,
         IsConnected
    <2> QED  BY <1>2, <2>1, <2>2, EndMoves DEF Ends
  <1>3. CASE e.k \notin {"Try"} \cup Ends
    <2>1. UacIdle_RecvEvent(r, e) = r
      BY <1>3 DEF UacIdle_RecvEvent
    <2> QED  BY <1>3, <2>1, Stays
  <1> QED  BY <1>1, <1>2, <1>3

LEMMA NewLeg == NewUA \in UaRecords /\ LegInv(NewUA)
  <1>1. <<>> \in Seq(Events)
    OBVIOUS
  <1>2. NewUA \in UaRecords
    BY <1>1 DEF NewUA, UaRecords, States
  <1>3. LegInv(NewUA)
    BY DEF NewUA, LegInv, Answering, Reliable, Closing, Timing, Allowed, Covered, Held, Asked, Setup,
           UasEarly, Over, IsConnected
  <1> QED  BY <1>2, <1>3

\* Leg O gets its first state, or stays Idle when its INVITE cannot be sent.
LEMMA StartMoves ==
    ASSUME NEW r \in UaRecords, LegInv(r), r.st = "None"
    PROVE  Moves(r, [r EXCEPT !.st = "UacIdle"]) /\ [r EXCEPT !.st = "UacIdle"].st = "UacIdle"
  <1>1. r = NewUA
    BY DEF LegInv, Closing
  <1>2. PICK s : s = [r EXCEPT !.st = "UacIdle"]  OBVIOUS
  <1>3. "UacIdle" \in States
    BY DEF States
  <1>4. s \in UaRecords
    BY <1>2, <1>3, ZenonT(60) DEF UaRecords
  <1>5. /\ s.st = "UacIdle" /\ s.q = <<>> /\ s.uas = "none" /\ s.uac = "none" /\ ~s.pending_tr
        /\ s.pendUpdate = NoEv /\ s.heldRing = NoEv /\ s.heldConnect = NoEv /\ s.heldUpdate = NoEv
        /\ ~s.gone /\ s.tptr = {} /\ s.arm = {} /\ s.pop = {} /\ ~s.dialog /\ s.faults = {}
    BY <1>1, <1>2 DEF NewUA
  <1>6. LegInv(s)
    BY <1>5 DEF LegInv, Answering, Reliable, Closing, Timing, Allowed, Covered, Held, Asked, Setup,
           UasEarly, Over, IsConnected
  <1>7. r.q = <<>> /\ r.st \notin Over /\ BoundCancel(s) = "none"
    BY <1>1, <1>5 DEF NewUA, Over, BoundCancel, UasEarly
  <1> QED  BY <1>2, <1>4, <1>5, <1>6, <1>7, QuietSame DEF Moves

LEMMA EventMoves ==
    ASSUME NEW r \in UaRecords, LegInv(r), NEW e \in Events, NEW way \in Ways
    PROVE  /\ Moves(r, RecvEvent(r, e, way))
           /\ e.k = "Try" => RecvEvent(r, e, way).st # "None"
  <1>1. CASE r.st = "None"
    <2>1. CASE e.k \in {"Try", "Fail", "Disconnect"}
      <3> DEFINE s == [r EXCEPT !.st = "UacIdle"]
      <3>1. Moves(r, s) /\ s.st = "UacIdle"
        BY <1>1, StartMoves
      <3>2. RecvEvent(r, e, way) = UacIdle_RecvEvent(s, e)
        BY <1>1, <2>1 DEF RecvEvent
      <3> HIDE DEF s
      <3>3. Moves(s, UacIdle_RecvEvent(s, e))
        BY <3>1, IdleMoves DEF Moves
      <3>4. Moves(r, UacIdle_RecvEvent(s, e)) /\ UacIdle_RecvEvent(s, e).st # "None"
        BY <3>1, <3>3, MovesTwice DEF Moves
      <3> QED  BY <3>2, <3>4
    <2>2. CASE e.k \notin {"Try", "Fail", "Disconnect"}
      <3>1. RecvEvent(r, e, way) = r
        BY <1>1, <2>2 DEF RecvEvent
      <3> QED  BY <2>2, <3>1, Stays
    <2> QED  BY <2>1, <2>2
  <1>2. CASE r.st # "None"
    <2>1. Moves(r, RecvEvent(r, e, way))
      <3>1. CASE r.st = "UacIdle"
        <4>1. RecvEvent(r, e, way) = UacIdle_RecvEvent(r, e)
          BY <3>1 DEF RecvEvent
        <4> QED  BY <3>1, <4>1, IdleMoves
      <3>2. CASE r.st = "UacTrying"
        <4>1. RecvEvent(r, e, way) = UacTrying_RecvEvent(r, e)
          BY <3>2 DEF RecvEvent
        <4> QED  BY <3>2, <4>1, UacSetupEventMoves
      <3>3. CASE r.st = "UacRinging"
        <4>1. RecvEvent(r, e, way) = UacRinging_RecvEvent(r, e)
          BY <3>3 DEF RecvEvent
        <4> QED  BY <3>3, <4>1, UacSetupEventMoves
      <3>4. CASE r.st = "UacUpdating"
        <4>1. RecvEvent(r, e, way) = UacUpdating_RecvEvent(r, e)
          BY <3>4 DEF RecvEvent
        <4> QED  BY <3>4, <4>1, UacUpdatingEventMoves
      <3>5. CASE r.st = "UasTrying"
        <4>1. RecvEvent(r, e, way) = UasTrying_RecvEvent(r, e)
          BY <3>5 DEF RecvEvent
        <4> QED  BY <3>5, <4>1, TryingMoves
      <3>6. CASE r.st = "UasRinging"
        <4>1. RecvEvent(r, e, way) = UasRinging_RecvEvent(r, e)
          BY <3>6 DEF RecvEvent
        <4>2. ~r.pr_rel
          BY <3>6 DEF LegInv, Reliable
        <4> QED  BY <3>6, <4>1, <4>2, RingingMoves
      <3>7. CASE r.st = "UasRingingRel"
        <4>1. RecvEvent(r, e, way) = UasRingingRel_RecvEvent(r, e)
          BY <3>7 DEF RecvEvent
        <4> QED  BY <3>7, <4>1, RingingRelMoves
      <3>8. CASE r.st = "PreConnect"
        <4>1. RecvEvent(r, e, way) = PreConnect_RecvEvent(r, e)
          BY <3>8 DEF RecvEvent
        <4> QED  BY <3>8, <4>1, PreConnectEventMoves
      <3>9. CASE r.st = "UasUpdating"
        <4>1. RecvEvent(r, e, way) = UasUpdating_RecvEvent(r, e)
          BY <3>9 DEF RecvEvent
        <4> QED  BY <3>9, <4>1, UasUpdatingEventMoves
      <3>10. CASE r.st = "Connected"
        <4>1. RecvEvent(r, e, way) = Connected_RecvEvent(r, e, way)
          BY <3>10 DEF RecvEvent
        <4> QED  BY <3>10, <4>1, ConnectedEventMoves
      <3>11. CASE r.st \in Over
        <4>1. RecvEvent(r, e, way) = r
          BY <3>11 DEF RecvEvent, Over
        <4> QED  BY <4>1, Stays
      <3>12. r.st \in States
        BY ZenonT(60) DEF UaRecords
      <3> QED  BY <1>2, <3>1, <3>2, <3>3, <3>4, <3>5, <3>6, <3>7, <3>8, <3>9, <3>10, <3>11, <3>12
               DEF States, Over
    <2> QED  BY <1>2, <2>1 DEF Moves
  <1> QED  BY <1>1, <1>2

-----------------------------------------------------------------------------
(* Disconnect, also of a leg whose timer has just expired.                  *)
LEMMA DisconnectEventMoves ==
    ASSUME NEW r \in UaRecords, Loose(r), r.st # "None"
    PROVE  Moves(r, RecvEvent(r, Ev("Disconnect"), "sent"))
  <1> DEFINE e == Ev("Disconnect")
  <1>1. e \in Events /\ e.k = "Disconnect" /\ e.k \in Ends /\ "sent" \in Ways
    BY DEF Ev, Events, EventKinds, Ends, Ways
  <1> HIDE DEF e
  <1>2. CASE r.st = "UacIdle"
    <2>1. RecvEvent(r, e, "sent") = ChangeState(r, "Disconnected")
      BY <1>1, <1>2 DEF RecvEvent, UacIdle_RecvEvent
    <2>2. Ending(r) /\ Quiet(r.q, r.q) /\ "Disconnected" \in Over
      BY <1>2, QuietSame DEF Ending, Loose, Answering, Closing, Allowed, Asked, UasEarly, Over, Setup,
         IsConnected
    <2> QED  BY <2>1, <2>2, EndMoves DEF e
  <1>3. CASE r.st = "UacTrying"
    <2>1. RecvEvent(r, e, "sent")
            = ChangeState(CancelTimers(UacCancel(r), {"ex", "np", "nr"}), "Cancelling")
      BY <1>1, <1>3 DEF RecvEvent, UacTrying_RecvEvent
    <2> QED  BY <1>3, <2>1, UacCancelMoves DEF e
  <1>4. CASE r.st = "UacRinging"
    <2>1. RecvEvent(r, e, "sent") = ChangeState(CancelTimers(UacCancel(r), {"ex"}), "Cancelling")
      BY <1>1, <1>4 DEF RecvEvent, UacRinging_RecvEvent
    <2> QED  BY <1>4, <2>1, UacCancelMoves DEF e
  <1>5. CASE r.st = "UacUpdating"
    <2>1. RecvEvent(r, e, "sent") = ChangeState(CancelTimers(SendBYE(r), {"cr"}), "Disconnected")
      BY <1>1, <1>5 DEF RecvEvent, UacUpdating_RecvEvent
    <2>2. Active(r) /\ ~r.pending_tr /\ r.uas # "early" /\ Quiet(r.q, r.q)
      BY <1>5, LegActive, QuietSame DEF Loose, Answering, Closing, Asked, Over, UasEarly
    <2>3. Moves(r, ChangeState(CancelTimers(SendBYE(r), {"cr"}), "Disconnected"))
      BY <2>2, SendBYEMoves
    <2> QED  BY <2>1, <2>3 DEF e
  <1>6. CASE r.st \in UasEarly
    <2>1. RecvEvent(r, e, "sent") = UasEnd(r, e)
      BY <1>1, <1>6 DEF RecvEvent, UasTrying_RecvEvent, UasRinging_RecvEvent, UasRingingRel_RecvEvent,
                        UasEarly
    <2>2. Moves(r, UasEnd(r, e))
      BY <1>1, <1>6, UasEndMoves
    <2> QED  BY <2>1, <2>2 DEF e
  <1>7. CASE r.st = "PreConnect"
    <2>1. RecvEvent(r, e, "sent") = ChangeState(CancelTimers(Hangup(r, e), {"cr"}), "Disconnected")
      BY <1>1, <1>7 DEF RecvEvent, PreConnect_RecvEvent
    <2>2. Moves(r, ChangeState(CancelTimers(Hangup(r, e), {"cr"}), "Disconnected"))
      BY <1>1, <1>7, HangupMoves
    <2> QED  BY <2>1, <2>2 DEF e
  <1>8. CASE r.st = "Connected"
    <2>1. RecvEvent(r, e, "sent") = ChangeState(CancelTimers(Hangup(r, e), {"cr"}), "Disconnected")
      BY <1>1, <1>8 DEF RecvEvent, Connected_RecvEvent
    <2>2. Moves(r, ChangeState(CancelTimers(Hangup(r, e), {"cr"}), "Disconnected"))
      BY <1>1, <1>8, HangupMoves
    <2> QED  BY <2>1, <2>2 DEF e
  <1>9. CASE r.st = "UasUpdating"
    <2>1. RecvEvent(r, e, "sent")
            = ChangeState(CancelTimers(SendBYE(Reply(r, FALSE)), {"cr"}), "Disconnected")
      BY <1>1, <1>9 DEF RecvEvent, UasUpdating_RecvEvent
    <2>2. r.uas = "early" /\ Active(r) /\ ~r.pending_tr
      BY <1>9, LegActive DEF Loose, Answering, Closing, Asked, Over
    <2>3. PICK s : s = Reply(r, FALSE)  OBVIOUS
    <2>4. /\ s \in UaRecords
          /\ SameCall(r, s) /\ SameMedia(r, s) /\ SameRel(r, s)
          /\ SameTimers(r, s) /\ s.faults = r.faults /\ s.q = r.q /\ s.uas = "completed"
      BY <1>1, <2>2, <2>3, Replies
    <2>5. Active(s) /\ s.uas # "early" /\ ~s.pending_tr /\ Quiet(r.q, s.q)
      BY <2>2, <2>4, QuietSame DEF Active, Held, SameCall, SameMedia, SameRel, SameTimers
    <2>6. Moves(r, ChangeState(CancelTimers(SendBYE(s), {"cr"}), "Disconnected"))
      BY <2>4, <2>5, SendBYEMoves
    <2> QED  BY <2>1, <2>3, <2>6 DEF e
  <1>10. CASE r.st \in Over
    <2>1. RecvEvent(r, e, "sent") = r
      BY <1>10 DEF RecvEvent, Over
    <2>2. LegInv(r)
      BY <1>10 DEF Loose, LegInv, Timing, Covered, Over, Setup, UasEarly, IsConnected
    <2> QED  BY <2>1, <2>2, Stays DEF e
  <1>11. r.st \in States
    BY ZenonT(60) DEF UaRecords
  <1> QED  BY <1>2, <1>3, <1>4, <1>5, <1>6, <1>7, <1>8, <1>9, <1>10, <1>11 DEF States, Over, UasEarly

LEMMA DisconnectMoves ==
    ASSUME NEW r \in UaRecords, Loose(r), r.st # "None"
    PROVE  Moves(r, Disconnect(r))
  <1>1. CASE r.gone
    <2>1. LegInv(r)
      BY <1>1 DEF Loose, LegInv, Timing, Covered, Closing, Over, Setup, UasEarly, IsConnected
    <2> QED  BY <1>1, <2>1, Stays DEF Disconnect
  <1>2. CASE ~r.gone
    <2>1. PICK s : s = Enqueue(r, Ev("Disconnect"))  OBVIOUS
    <2>2. Ev("Disconnect") \in Events /\ Ev("Disconnect").k # "Try"
      BY DEF Ev, Events, EventKinds
    <2>3. /\ s \in UaRecords
          /\ SameCall(r, s) /\ SameInvite(r, s) /\ SameMedia(r, s) /\ SameRel(r, s)
          /\ SameTimers(r, s) /\ SameHistory(r, s) /\ s.faults = r.faults
          /\ s.q = Append(r.q, Ev("Disconnect"))
      BY <2>1, <2>2, Enqueues
    <2>4. Quiet(r.q, s.q)
      BY <2>2, <2>3, QuietAppend DEF UaRecords
    <2>5. Loose(s) /\ s.st # "None"
      BY <2>3 DEF Loose, Answering, Reliable, Closing, Allowed, Held, SameCall, SameInvite,
         SameMedia, SameRel, SameTimers, SameHistory
    <2>6. Moves(s, RecvEvent(s, Ev("Disconnect"), "sent"))
      BY <2>3, <2>5, DisconnectEventMoves
    <2>7. Moves(r, RecvEvent(s, Ev("Disconnect"), "sent"))
      <3>1. PICK v : v = RecvEvent(s, Ev("Disconnect"), "sent")  OBVIOUS
      <3>2. Moves(s, v)
        BY <2>6, <3>1
      <3>3. Quiet(r.q, v.q)
        BY <2>4, <3>2, QuietTwice DEF Moves
      <3>4. s.st = r.st /\ s.cancelCB = r.cancelCB /\ BoundCancel(s) = BoundCancel(r)
        BY <2>3 DEF SameCall, SameInvite, BoundCancel
      <3> QED  BY <3>1, <3>2, <3>3, <3>4 DEF Moves
    <2> QED  BY <1>2, <2>1, <2>7 DEF Disconnect
  <1> QED  BY <1>1, <1>2

-----------------------------------------------------------------------------
(* Requests of the peer.                                                    *)

LEMMA InviteType ==
    ASSUME NEW r \in UaRecords, NEW b \in BOOLEAN
    PROVE  [r EXCEPT !.uas = "early", !.pr_rel = b] \in UaRecords
  <1> DEFINE C == {"none", "early", "completed", "closed"}
  <1>1. "early" \in C
    OBVIOUS
  <1> HIDE DEF C
  <1>2. ASSUME NEW c \in C PROVE [r EXCEPT !.uas = c, !.pr_rel = b] \in UaRecords
    BY ZenonT(60) DEF UaRecords, C
  <1> QED  BY <1>1, <1>2

\* The INVITE of a new call starts leg A, which tells leg O to try.
LEMMA NewCallStarts ==
    ASSUME NEW r \in UaRecords, LegInv(r), r.st = "None", NEW body \in BOOLEAN, NEW rel \in BOOLEAN
    PROVE  LET w == UasIdle_RecvRequest(r, body, rel)
           IN  w \in UaRecords /\ LegInv(w) /\ w.st = "UasTrying" /\ w.q = <<EvBody("Try", body)>>
  <1>1. r = NewUA
    BY DEF LegInv, Closing
  <1>2. PICK b \in BOOLEAN : b = (rel /\ body)
    OBVIOUS
  <1> DEFINE e == EvBody("Try", body)
             s == [r EXCEPT !.uas = "early", !.pr_rel = b]
             t == Enqueue(s, e)
             v == ChangeState(t, "UasTrying")
             w == StartFirst(v, <<"np", "ex">>)
  <1>3. s \in UaRecords
    BY InviteType
  <1>4. /\ s.st = "None" /\ s.q = <<>> /\ s.uas = "early" /\ s.uac = "none" /\ ~s.pending_tr
        /\ s.pendUpdate = NoEv /\ s.heldRing = NoEv /\ s.heldConnect = NoEv /\ s.heldUpdate = NoEv
        /\ ~s.gone /\ s.tptr = {} /\ s.arm = {} /\ s.pop = {} /\ ~s.dialog /\ s.faults = {} /\ ~s.prov
    BY <1>1 DEF NewUA
  <1>5. UasIdle_RecvRequest(r, body, rel) = w
    BY <1>2 DEF UasIdle_RecvRequest
  <1> HIDE DEF s
  <1>6. e \in Events
    BY DEF EvBody, Events, EventKinds
  <1> HIDE DEF e
  <1>7. /\ t \in UaRecords
        /\ SameCall(s, t) /\ SameInvite(s, t) /\ SameMedia(s, t) /\ SameRel(s, t)
        /\ SameTimers(s, t) /\ SameHistory(s, t) /\ t.faults = s.faults /\ t.q = Append(s.q, e)
    BY <1>3, <1>6, Enqueues
  <1> HIDE DEF t
  <1>8. "UasTrying" \in States /\ "UasTrying" \notin Over /\ t.st \notin {"PreConnect", "Connected"}
    BY <1>4, <1>7 DEF States, Over, SameCall
  <1>9. /\ v \in UaRecords
        /\ v.st = "UasTrying" /\ (v.gone => t.gone)
        /\ SameInvite(t, v) /\ SameRel(t, v) /\ SameHistory(t, v)
        /\ v.faults = t.faults /\ v.q = t.q /\ v.pendUpdate = t.pendUpdate
        /\ (v.pending_tr => t.pending_tr) /\ v.pop = t.pop
    BY <1>7, <1>8, ChangesState
  <1>10. v.arm = t.arm /\ v.tptr = t.tptr
    BY <1>7, <1>8, KeepsTimers
  <1> HIDE DEF v
  <1>11. /\ w \in UaRecords
         /\ SameCall(v, w) /\ SameInvite(v, w) /\ SameMedia(v, w) /\ SameRel(v, w)
         /\ SameHistory(v, w) /\ w.faults = v.faults /\ w.q = v.q /\ w.pop = v.pop
         /\ \E X \in SUBSET Before :
              /\ w.tptr = v.tptr \cup X /\ w.arm = v.arm \cup X
              /\ "ex" \in Timed => X # {}
    BY <1>9, StartsFirst
  <1>12. PICK X \in SUBSET Before : /\ w.tptr = v.tptr \cup X /\ w.arm = v.arm \cup X
                                    /\ "ex" \in Timed => X # {}
    BY <1>11
  <1> HIDE DEF w
  <1>13. w.st = "UasTrying" /\ w.pop = {} /\ w.arm = X /\ w.tptr = X
    BY <1>4, <1>7, <1>9, <1>10, <1>11, <1>12 DEF SameCall, SameTimers
  <1>14. /\ w.uas = "early" /\ w.uac = "none" /\ ~w.dialog /\ ~w.pending_tr /\ ~w.prov
         /\ w.faults = {} /\ ~w.gone /\ Held(w)
    BY <1>4, <1>7, <1>9, <1>11 DEF SameCall, SameInvite, SameMedia, SameRel, SameHistory, Held
  <1>15. /\ "dead" \notin X /\ "idle" \notin X /\ "cr" \notin X
    BY DEF Before
  <1>16. Ringing(w)
    BY <1>12, <1>13, <1>14, <1>15 DEF Ringing, Active
  <1>17. Reliable(w) /\ w.st \in UasEarly
    BY <1>13, <1>14 DEF Reliable, UasEarly
  <1>18. LegInv(w)
    BY <1>11, <1>16, <1>17, RingingInv
  <1>19. w.q = <<e>>
    BY <1>4, <1>7, <1>9, <1>11
  <1> QED  BY <1>5, <1>11, <1>13, <1>18, <1>19 DEF e

LEMMA PeerEndType ==
    ASSUME NEW r \in UaRecords, NEW b \in BOOLEAN
    PROVE  [r EXCEPT !.bye = TRUE, !.early_bye = b] \in UaRecords
  BY ZenonT(60) DEF UaRecords

LEMMA PeerEndMoves ==
    ASSUME NEW r \in UaRecords, LegInv(r), NEW e \in Events, e.k # "Try",
           r.st \in UasEarly \cup IsConnected
    PROVE  Moves(r, EndedByPeer(r, e))
  <1> DEFINE X == {IF r.st \in UasEarly THEN "ex" ELSE "cr"}
             s == Enqueue(r, e)
             c == CancelTimers(s, X)
  <1>1. PICK b \in BOOLEAN : b = (r.uas = "early")
    OBVIOUS
  <1> DEFINE t == [c EXCEPT !.bye = TRUE, !.early_bye = b]
  <1>2. EndedByPeer(r, e) = ChangeState(t, "Disconnected")
    BY <1>1 DEF EndedByPeer
  <1>3. /\ s \in UaRecords
        /\ SameCall(r, s) /\ SameInvite(r, s) /\ SameMedia(r, s) /\ SameRel(r, s)
        /\ SameTimers(r, s) /\ SameHistory(r, s) /\ s.faults = r.faults /\ s.q = Append(r.q, e)
    BY Enqueues
  <1> HIDE DEF s, X
  <1>4. /\ c \in UaRecords
        /\ SameCall(s, c) /\ SameInvite(s, c) /\ SameMedia(s, c) /\ SameRel(s, c)
        /\ c.faults = s.faults /\ c.q = s.q /\ c.arm = s.arm \ X
    BY <1>3, CancelsTimers
  <1> HIDE DEF c
  <1>5. t \in UaRecords
    BY <1>4, PeerEndType
  <1>6. /\ SameCall(c, t) /\ SameInvite(c, t) /\ SameMedia(c, t) /\ SameRel(c, t)
        /\ t.faults = c.faults /\ t.q = c.q /\ t.arm = c.arm /\ t.bye /\ t.early_bye = b
    BY <1>4 DEF UaRecords, SameCall, SameInvite, SameMedia, SameRel
  <1> HIDE DEF t
  <1>7. "cr" \notin t.arm
    <2>1. t.arm = r.arm \ X
      BY <1>3, <1>4, <1>6 DEF SameTimers
    <2>2. r.st \in UasEarly => "cr" \notin r.arm
      BY DEF LegInv, Timing, Allowed, UasEarly, IsConnected
    <2> QED  BY <2>1, <2>2 DEF X
  <1>8. Ending(t)
    <2>1. t.uas = r.uas /\ t.st = r.st /\ t.faults = r.faults /\ t.pending_tr = r.pending_tr
      BY <1>3, <1>4, <1>6 DEF SameCall, SameInvite, SameMedia
    <2>2. t.uas = "early" => t.early_bye
      BY <1>1, <1>6, <2>1
    <2>3. Held(t)
      BY <1>3, <1>4, <1>6 DEF LegInv, Held, SameMedia, SameRel
    <2> QED  BY <1>6, <1>7, <2>1, <2>2, <2>3 DEF Ending, LegInv, Closing
  <1>9. Quiet(r.q, t.q)
    BY <1>3, <1>4, <1>6, QuietAppend DEF UaRecords
  <1>10. "Disconnected" \in Over
    BY DEF Over
  <1> QED  BY <1>2, <1>5, <1>8, <1>9, <1>10, EndMoves

\* A BYE that the leg waited for, or crossed with its own.
LEMMA ByeSeen ==
    ASSUME NEW r \in UaRecords, LegInv(r), r.st = "Disconnected"
    PROVE  Moves(r, [r EXCEPT !.bye = TRUE])
  <1>1. PICK s : s = [r EXCEPT !.bye = TRUE]  OBVIOUS
  <1>2. s \in UaRecords
    BY <1>1, ZenonT(60) DEF UaRecords
  <1>3. /\ SameCall(r, s) /\ SameInvite(r, s) /\ SameMedia(r, s) /\ SameRel(r, s) /\ SameTimers(r, s)
        /\ s.faults = r.faults /\ s.q = r.q /\ s.bye /\ s.early_bye = r.early_bye
    BY <1>1 DEF UaRecords, SameCall, SameInvite, SameMedia, SameRel, SameTimers
  <1>4. LegInv(s)
    BY <1>3 DEF LegInv, Answering, Reliable, Closing, Timing, Allowed, Covered, Held, SameCall, SameInvite,
       SameMedia, SameRel, SameTimers, Asked, Setup, UasEarly, Over, IsConnected
  <1> QED  BY <1>1, <1>2, <1>3, <1>4, QuietSame DEF Moves, SameCall, BoundCancel, Over, UasEarly

LEMMA BYEMoves ==
    ASSUME NEW r \in UaRecords, LegInv(r), NEW also \in BOOLEAN
    PROVE  Moves(r, RecvBYE(r, also))
  <1>1. PICK e : e = IF also THEN Transfer ELSE Ev("Disconnect")  OBVIOUS
  <1>2. e \in Events /\ e.k # "Try" /\ Ev("Disconnect") \in Events /\ Ev("Disconnect").k # "Try"
    BY <1>1 DEF Transfer, Ev, Events, EventKinds
  <1>3. CASE r.st \in {"UasRinging", "UasRingingRel", "Connected"}
    <2>1. RecvBYE(r, also) = EndedByPeer(r, e)
      BY <1>1, <1>3 DEF RecvBYE
    <2> QED  BY <1>2, <1>3, <2>1, PeerEndMoves DEF UasEarly, IsConnected
  <1>4. CASE r.st \in {"PreConnect", "UasUpdating", "UacUpdating"}
    <2>1. RecvBYE(r, also) = EndedByPeer(r, Ev("Disconnect"))
      BY <1>4 DEF RecvBYE
    <2> QED  BY <1>2, <1>4, <2>1, PeerEndMoves DEF IsConnected
  <1>5. CASE r.st = "Disconnected"
    <2>1. RecvBYE(r, also) = [r EXCEPT !.bye = TRUE]
      BY <1>5 DEF RecvBYE
    <2> QED  BY <1>5, <2>1, ByeSeen
  <1>6. CASE r.st \notin {"UasRinging", "UasRingingRel", "Connected", "PreConnect", "UasUpdating",
                          "UacUpdating", "Disconnected"}
    <2>1. RecvBYE(r, also) = r
      BY <1>6 DEF RecvBYE
    <2> QED  BY <2>1, Stays
  <1> QED  BY <1>3, <1>4, <1>5, <1>6

LEMMA REFERMoves ==
    ASSUME NEW r \in UaRecords, LegInv(r)
    PROVE  Moves(r, RecvREFER(r))
  <1>1. Transfer \in Events /\ Transfer.k # "Try"
    BY DEF Transfer, Events, EventKinds
  <1>2. CASE r.st \in {"PreConnect", "UasUpdating"}
    <2>1. RecvREFER(r) = EndedByPeer(r, Transfer)
      BY <1>2 DEF RecvREFER
    <2> QED  BY <1>1, <1>2, <2>1, PeerEndMoves DEF IsConnected
  <1>3. CASE r.st = "Connected"
    <2>1. PICK s : s = Enqueue(r, Transfer)  OBVIOUS
    <2>2. RecvREFER(r) = RecvEvent(s, Ev("Disconnect"), "sent")
      BY <1>3, <2>1 DEF RecvREFER
    <2>3. Moves(r, s)
      BY <1>1, <1>3, <2>1, EnqueueMoves
    <2>4. s \in UaRecords /\ Loose(s) /\ s.st # "None"
      BY <1>3, <2>3, LegLoose DEF Moves
    <2>5. Moves(s, RecvEvent(s, Ev("Disconnect"), "sent"))
      BY <2>4, DisconnectEventMoves
    <2> QED  BY <2>2, <2>3, <2>5, MovesTwice
  <1>4. CASE r.st \notin {"PreConnect", "UasUpdating", "Connected"}
    <2>1. RecvREFER(r) = r
      BY <1>4 DEF RecvREFER
    <2> QED  BY <2>1, Stays
  <1> QED  BY <1>2, <1>3, <1>4

LEMMA INFOMoves ==
    ASSUME NEW r \in UaRecords, LegInv(r)
    PROVE  Moves(r, RecvINFO(r))
  <1>1. EvBody("Info", FALSE) \in Events /\ EvBody("Info", FALSE).k # "Try"
    BY DEF EvBody, Events, EventKinds
  <1>2. CASE r.st = "Connected"
    <2>1. Moves(r, Enqueue(r, EvBody("Info", FALSE)))
      BY <1>1, <1>2, EnqueueMoves
    <2> QED  BY <1>2, <2>1 DEF RecvINFO
  <1>3. CASE r.st # "Connected"
    BY <1>3, Stays DEF RecvINFO
  <1> QED  BY <1>2, <1>3

LEMMA InviteTypes ==
    ASSUME NEW r \in UaRecords, NEW c \in {"none", "early", "completed", "closed"}, NEW w \in BOOLEAN
    PROVE  /\ [r EXCEPT !.uas = c, !.ackw = w] \in UaRecords
           /\ [r EXCEPT !.uas = c] \in UaRecords
  <1> DEFINE C == {"none", "early", "completed", "closed"}
  <1> HIDE DEF C
  <1>1. c \in C
    BY DEF C
  <1>2. [r EXCEPT !.uas = c, !.ackw = w] \in UaRecords
    BY <1>1, ZenonT(60) DEF UaRecords, C
  <1>3. [r EXCEPT !.uas = c] \in UaRecords
    BY <1>1, ZenonT(60) DEF UaRecords, C
  <1> QED  BY <1>2, <1>3

\* A re-INVITE is refused, answered at once, or makes the leg ask the other one.
LEMMA ReINVITEMoves ==
    ASSUME NEW r \in UaRecords, LegInv(r), NEW body \in BOOLEAN, NEW same \in BOOLEAN
    PROVE  LET s == RecvReINVITE(r, body, same)
           IN  \/ s = r
               \/ /\ r.st = "Connected" /\ s.st = "UasUpdating"
                  /\ s \in UaRecords /\ LegInv(s) /\ Quiet(r.q, s.q)
  <1>1. CASE r.st = "Connected" /\ ~(body /\ same)
    <2> DEFINE e == EvBody("Update", body)
               s == [r EXCEPT !.uas = "early", !.ackw = FALSE]
               t == Enqueue(s, e)
               v == ChangeState(t, "UasUpdating")
    <2>1. RecvReINVITE(r, body, same) = v
      BY <1>1 DEF RecvReINVITE
    <2>2. e \in Events /\ e.k # "Try"
      BY DEF EvBody, Events, EventKinds
    <2>3. s \in UaRecords
      BY InviteTypes
    <2>4. /\ SameCall(r, s) /\ SameMedia(r, s) /\ SameRel(r, s) /\ SameTimers(r, s)
          /\ s.faults = r.faults /\ s.q = r.q /\ s.uas = "early"
      BY DEF UaRecords, SameCall, SameMedia, SameRel, SameTimers
    <2> HIDE DEF e, s
    <2>5. /\ t \in UaRecords
          /\ SameCall(s, t) /\ SameInvite(s, t) /\ SameMedia(s, t) /\ SameRel(s, t)
          /\ SameTimers(s, t) /\ t.faults = s.faults /\ t.q = Append(s.q, e)
      BY <2>2, <2>3, Enqueues
    <2> HIDE DEF t
    <2>6. Active(r) /\ Credited(r)
      BY <1>1, LegActive, LegLoose, LegCredited DEF Over, IsConnected
    <2>7. Active(t) /\ Credited(t) /\ t.uas = "early" /\ t.st = "Connected"
      BY <1>1, <2>4, <2>5, <2>6 DEF Active, Credited, Held, SameCall, SameInvite, SameMedia, SameRel,
         SameTimers
    <2>8. v \in UaRecords /\ LegInv(v) /\ v.st = "UasUpdating" /\ v.q = t.q
      BY <2>5, <2>7, ConnectMoves
    <2>9. Quiet(r.q, t.q)
      BY <2>2, <2>4, <2>5, QuietAppend DEF UaRecords
    <2> QED  BY <1>1, <2>1, <2>8, <2>9
  <1>2. CASE ~(r.st = "Connected" /\ ~(body /\ same))
    BY <1>2 DEF RecvReINVITE
  <1> QED  BY <1>1, <1>2

\* A CANCEL, or timer E, while the INVITE is open.
LEMMA CancelMoves ==
    ASSUME NEW r \in UaRecords, LegInv(r), r.uas = "early",
           BoundCancel(r) # "none" => r.cancelCB = BoundCancel(r)
    PROVE  Moves(r, RecvCancel(r))
  <1> DEFINE e == Ev("Disconnect")
             s == [r EXCEPT !.uas = "completed", !.ackw = FALSE]
             t == IF r.gone THEN s ELSE Enqueue(s, e)
             b == SendBYE(t)
             c == CancelTimers(b, {"cr"})
  <1>1. s \in UaRecords
    BY InviteTypes
  <1>2. /\ SameCall(r, s) /\ SameMedia(r, s) /\ SameRel(r, s) /\ SameTimers(r, s) /\ SameHistory(r, s)
        /\ s.faults = r.faults /\ s.q = r.q /\ s.uas = "completed" /\ s.cancelCB = r.cancelCB
        /\ s.uac = r.uac
    BY DEF UaRecords, SameCall, SameMedia, SameRel, SameTimers, SameHistory
  <1>3. e \in Events /\ e.k # "Try"
    BY DEF Ev, Events, EventKinds
  <1>4. RecvCancel(r) = CASE r.cancelCB = "early" -> ChangeState(t, "Disconnected")
                          [] r.cancelCB = "updating" -> ChangeState(c, "Disconnected")
                          [] OTHER -> s
    BY DEF RecvCancel
  <1> HIDE DEF s, e
  <1>5. /\ t \in UaRecords
        /\ SameCall(r, t) /\ SameMedia(r, t) /\ SameRel(r, t) /\ SameTimers(r, t) /\ SameHistory(r, t)
        /\ t.faults = r.faults /\ t.uas = "completed" /\ t.uac = r.uac /\ Quiet(r.q, t.q)
    <2>1. CASE r.gone
      BY <1>1, <1>2, <2>1, QuietSame
    <2>2. CASE ~r.gone
      <3>1. /\ t \in UaRecords
            /\ SameCall(s, t) /\ SameInvite(s, t) /\ SameMedia(s, t) /\ SameRel(s, t)
            /\ SameTimers(s, t) /\ SameHistory(s, t) /\ t.faults = s.faults /\ t.q = Append(s.q, e)
        BY <1>1, <1>3, <2>2, Enqueues
      <3>2. s.q \in Seq(Events)
        BY <1>1 DEF UaRecords
      <3>3. Quiet(s.q, Append(s.q, e))
        BY <1>3, <3>2, QuietAppend
      <3> HIDE DEF t
      <3>4. Quiet(r.q, t.q)
        BY <1>2, <3>1, <3>3
      <3> QED  BY <1>2, <3>1, <3>4 DEF SameCall, SameInvite, SameMedia, SameRel, SameTimers, SameHistory
    <2> QED  BY <2>1, <2>2
  <1> HIDE DEF t
  <1>6. /\ b \in UaRecords
        /\ SameCall(t, b) /\ SameInvite(t, b) /\ SameMedia(t, b) /\ SameRel(t, b) /\ SameTimers(t, b)
        /\ b.faults = t.faults /\ b.q = t.q /\ (b.bye <=> t.bye \/ ~t.gone) /\ b.dialog = t.dialog
        /\ b.early_bye = t.early_bye /\ b.cancelled = t.cancelled /\ b.refer = t.refer
    BY <1>5, SendsBYE
  <1> HIDE DEF b
  <1>7. /\ c \in UaRecords
        /\ SameCall(b, c) /\ SameInvite(b, c) /\ SameMedia(b, c) /\ SameRel(b, c) /\ SameHistory(b, c)
        /\ c.faults = b.faults /\ c.q = b.q /\ c.arm = b.arm \ {"cr"}
    BY <1>6, CancelsTimers
  <1> HIDE DEF c
  <1>8. r.st \in Asked \/ r.st \in Over
    BY DEF LegInv, Answering
  <1>9. "Disconnected" \in Over /\ Quiet(r.q, c.q)
    BY <1>5, <1>6, <1>7 DEF Over
  <1>10. r.st \in UasEarly \cup Over => Ending(t)
    BY <1>5 DEF Ending, LegInv, Closing, Timing, Allowed, Held, SameCall, SameMedia, SameRel, SameTimers,
       SameHistory, UasEarly, Over, Setup, IsConnected
  <1>11. Ending(c)
    <2>1. c.faults = {} /\ c.uas # "early" /\ ("cr" \notin c.arm) /\ Held(c)
      BY <1>5, <1>6, <1>7 DEF LegInv, Held, SameInvite, SameMedia, SameRel
    <2>2. c.pending_tr => c.st = "Connected"
      BY <1>5, <1>6, <1>7 DEF LegInv, Closing, SameCall, SameMedia
    <2>3. c.bye \/ r.gone
      BY <1>5, <1>6, <1>7 DEF SameHistory, SameCall
    <2>4. r.gone => (c.dialog \/ c.uac \in {"calling", "proceeding"}
                       => c.cancelled \/ c.bye \/ c.refer # "none")
      BY <1>5, <1>6, <1>7 DEF LegInv, Closing, SameHistory, SameCall, SameInvite
    <2> QED  BY <2>1, <2>2, <2>3, <2>4 DEF Ending
  <1>12. CASE r.cancelCB = "early"
    <2>1. r.st \in UasEarly \cup Over
      BY <1>8, <1>12 DEF Asked, BoundCancel, UasEarly
    <2>2. RecvCancel(r) = ChangeState(t, "Disconnected")
      BY <1>4, <1>12
    <2> QED  BY <1>5, <1>9, <1>10, <2>1, <2>2, EndMoves
  <1>13. CASE r.cancelCB = "updating"
    <2>1. RecvCancel(r) = ChangeState(c, "Disconnected")
      BY <1>4, <1>13
    <2> QED  BY <1>7, <1>9, <1>11, <2>1, EndMoves
  <1>14. CASE r.cancelCB \notin {"early", "updating"}
    <2>1. r.st \in Over
      BY <1>8, <1>14 DEF Asked, BoundCancel, UasEarly
    <2>2. RecvCancel(r) = s
      BY <1>4, <1>14
    <2>3. LegInv(s)
      BY <1>2, <2>1 DEF LegInv, Answering, Reliable, Closing, Timing, Allowed, Covered, Held, SameCall,
         SameMedia, SameRel, SameTimers, SameHistory, Asked, Setup, UasEarly, Over, IsConnected
    <2> QED  BY <1>1, <1>2, <2>1, <2>2, <2>3, QuietSame DEF Moves, SameCall, BoundCancel, Over, UasEarly
  <1> QED  BY <1>12, <1>13, <1>14

\* The server transaction of a final response is over.
LEMMA ClosedMoves ==
    ASSUME NEW r \in UaRecords, LegInv(r), r.uas = "completed"
    PROVE  LET s == [r EXCEPT !.uas = "closed"]
           IN  /\ Moves(r, s) /\ s.st # "None"
               /\ SameCall(r, s) /\ SameMedia(r, s) /\ SameRel(r, s) /\ SameTimers(r, s)
               /\ s.uas = "closed" /\ s.q = r.q
  <1>1. PICK s : s = [r EXCEPT !.uas = "closed"]  OBVIOUS
  <1>2. s \in UaRecords
    BY <1>1, InviteTypes
  <1>3. /\ SameCall(r, s) /\ SameMedia(r, s) /\ SameRel(r, s) /\ SameTimers(r, s) /\ SameHistory(r, s)
        /\ s.faults = r.faults /\ s.q = r.q /\ s.uas = "closed" /\ s.uac = r.uac
    BY <1>1 DEF UaRecords, SameCall, SameMedia, SameRel, SameTimers, SameHistory
  <1>4. r.st # "None" /\ r.st \notin Asked
    BY DEF LegInv, Closing, Answering, NewUA
  <1>5. LegInv(s)
    BY <1>3, <1>4 DEF LegInv, Answering, Reliable, Closing, Timing, Allowed, Covered, Held, SameCall,
         SameMedia, SameRel, SameTimers, SameHistory
  <1>6. Moves(r, s)
    BY <1>2, <1>3, <1>4, <1>5, QuietSame DEF Moves, SameCall, BoundCancel, Asked
  <1> QED  BY <1>1, <1>3, <1>4, <1>6 DEF SameCall

LEMMA ACKMoves ==
    ASSUME NEW r \in UaRecords, LegInv(r), r.uas = "completed", NEW body \in BOOLEAN
    PROVE  Moves(r, RecvACK(r, body))
  <1> DEFINE s == [r EXCEPT !.uas = "closed"]
  <1>1. /\ Moves(r, s) /\ s.st # "None"
        /\ SameCall(r, s) /\ SameMedia(r, s) /\ SameRel(r, s) /\ SameTimers(r, s)
        /\ s.uas = "closed" /\ s.q = r.q
    BY ClosedMoves
  <1>2. RecvACK(r, body)
          = IF r.ackw /\ r.st = "PreConnect"
            THEN ChangeState(IF r.confirm
                             THEN Enqueue(StartCreditTimer(CancelTimers(s, {"ex", "cr"})),
                                          EvBody("Connect", body))
                             ELSE s, "Connected")
            ELSE s
    BY DEF RecvACK
  <1> HIDE DEF s
  <1>3. s \in UaRecords /\ LegInv(s)
    BY <1>1 DEF Moves
  <1>4. CASE ~(r.ackw /\ r.st = "PreConnect")
    BY <1>1, <1>2, <1>4
  <1>5. ASSUME NEW t \in UaRecords, r.st = "PreConnect", Active(t), Credited(t), ~t.pending_tr,
               t.uas # "early", t.st = "PreConnect", Quiet(r.q, t.q)
        PROVE  Moves(r, ChangeState(t, "Connected"))
    <2>1. LET v == ChangeState(t, "Connected")
          IN  v \in UaRecords /\ LegInv(v) /\ v.st = "Connected" /\ v.q = t.q
      BY <1>5, ConnectMoves
    <2> QED  BY <1>5, <2>1 DEF Moves, BoundCancel, UasEarly, Over
  <1>6. CASE r.ackw /\ r.st = "PreConnect" /\ ~r.confirm
    <2>1. Active(s) /\ Credited(s) /\ ~s.pending_tr /\ s.uas # "early" /\ s.st = "PreConnect"
          /\ Quiet(r.q, s.q)
      BY <1>1, <1>3, <1>6, LegActive, LegLoose, LegCredited, QuietSame DEF SameCall, SameMedia, Over,
         IsConnected, LegInv, Closing
    <2> QED  BY <1>2, <1>3, <1>5, <1>6, <2>1
  <1>7. CASE r.ackw /\ r.st = "PreConnect" /\ r.confirm
    <2> DEFINE e == EvBody("Connect", body)
               c == CancelTimers(s, {"ex", "cr"})
               u == StartTimer(c, "cr")
               t == Enqueue(u, e)
    <2>1. /\ c \in UaRecords
          /\ SameCall(s, c) /\ SameInvite(s, c) /\ SameMedia(s, c) /\ SameRel(s, c)
          /\ c.faults = s.faults /\ c.q = s.q
          /\ c.tptr = s.tptr \ {"ex", "cr"} /\ c.arm = s.arm \ {"ex", "cr"} /\ c.pop = s.pop
      BY <1>3, CancelsTimers
    <2>2. "cr" \notin c.tptr
      BY <2>1
    <2> HIDE DEF c
    <2>3. StartCreditTimer(c) = u
      BY <2>1, <2>2, StartsCredit
    <2>4. /\ u \in UaRecords
          /\ SameCall(c, u) /\ SameInvite(c, u) /\ SameMedia(c, u) /\ SameRel(c, u)
          /\ u.faults = c.faults /\ u.q = c.q
          /\ u.arm = c.arm \cup (IF "cr" \in Timed THEN {"cr"} ELSE {}) /\ u.pop = c.pop
      BY <2>1, StartsTimer DEF TimerNames
    <2> HIDE DEF u
    <2>5. e \in Events /\ e.k # "Try"
      BY DEF EvBody, Events, EventKinds
    <2> HIDE DEF e
    <2>6. /\ t \in UaRecords
          /\ SameCall(u, t) /\ SameInvite(u, t) /\ SameMedia(u, t) /\ SameRel(u, t)
          /\ SameTimers(u, t) /\ t.faults = u.faults /\ t.q = Append(u.q, e)
      BY <2>4, <2>5, Enqueues
    <2> HIDE DEF t
    <2>7. Active(s) /\ ~s.pending_tr /\ s.uas # "early" /\ s.st = "PreConnect"
      BY <1>1, <1>3, <1>7, LegActive, LegLoose DEF SameCall, Over, LegInv, Closing
    <2>8. Active(t) /\ Credited(t) /\ ~t.pending_tr /\ t.uas # "early" /\ t.st = "PreConnect"
      BY <2>1, <2>4, <2>6, <2>7 DEF Active, Credited, Held, SameCall, SameInvite, SameMedia, SameRel,
         SameTimers
    <2>9. Quiet(r.q, t.q)
      BY <1>1, <2>1, <2>4, <2>5, <2>6, QuietAppend DEF UaRecords
    <2>10. Moves(r, ChangeState(t, "Connected"))
      BY <1>5, <1>7, <2>6, <2>8, <2>9
    <2> QED  BY <1>2, <1>7, <2>3, <2>10 DEF c, e, t
  <1> QED  BY <1>4, <1>6, <1>7

\* Nobody acknowledged the final response.
LEMMA NoAckMoves ==
    ASSUME NEW r \in UaRecords, LegInv(r), r.uas = "completed"
    PROVE  Moves(r, Disconnect([r EXCEPT !.uas = "closed"]))
  <1> DEFINE s == [r EXCEPT !.uas = "closed"]
  <1>1. Moves(r, s) /\ s.st # "None"
    BY ClosedMoves
  <1> HIDE DEF s
  <1>2. s \in UaRecords /\ Loose(s)
    BY <1>1, LegLoose DEF Moves
  <1>3. Moves(s, Disconnect(s))
    BY <1>1, <1>2, DisconnectMoves
  <1>4. Moves(r, Disconnect(s))
    BY <1>1, <1>3, MovesTwice
  <1> QED  BY <1>4 DEF s

\* The reliable response is not in flight any more.
LEMMA ProvMoves ==
    ASSUME NEW r \in UaRecords, LegInv(r), r.prov
    PROVE  /\ Moves(r, [r EXCEPT !.prov = FALSE])
           /\ Moves(r, [r EXCEPT !.prov = FALSE, !.prack_received = TRUE])
           /\ r.st # "None"
  <1>1. r.st # "None"
    BY DEF LegInv, Closing, NewUA
  <1>2. Moves(r, [r EXCEPT !.prov = FALSE])
    <2>1. PICK s : s = [r EXCEPT !.prov = FALSE]  OBVIOUS
    <2>2. s \in UaRecords
      BY <2>1, ZenonT(60) DEF UaRecords
    <2>3. Beside(r, s)
      BY <2>1 DEF UaRecords, Beside, SameCall, SameInvite, SameTimers, SameHistory, Reliable,
                  LegInv, Held
    <2> QED  BY <1>1, <2>1, <2>2, <2>3, BesideMoves
  <1>3. Moves(r, [r EXCEPT !.prov = FALSE, !.prack_received = TRUE])
    <2>1. PICK s : s = [r EXCEPT !.prov = FALSE, !.prack_received = TRUE]  OBVIOUS
    <2>2. s \in UaRecords
      BY <2>1, ZenonT(60) DEF UaRecords
    <2>3. Beside(r, s)
      BY <2>1 DEF UaRecords, Beside, SameCall, SameInvite, SameTimers, SameHistory, Reliable,
                  LegInv, Held
    <2> QED  BY <1>1, <2>1, <2>2, <2>3, BesideMoves
  <1> QED  BY <1>1, <1>2, <1>3

\* What waited for the PRACK has gone out, or is dropped.
LEMMA ClearType ==
    ASSUME NEW v \in UaRecords
    PROVE  [v EXCEPT !.heldRing = NoEv, !.heldConnect = NoEv, !.heldUpdate = NoEv] \in UaRecords
  <1> DEFINE E == Events \cup {NoEv}
  <1>1. NoEv \in E
    OBVIOUS
  <1> HIDE DEF E
  <1>2. ASSUME NEW n \in E
        PROVE  [v EXCEPT !.heldRing = n, !.heldConnect = n, !.heldUpdate = n] \in UaRecords
    BY ZenonT(60) DEF UaRecords, E
  <1> QED  BY <1>1, <1>2

LEMMA ClearMoves ==
    ASSUME NEW r \in UaRecords, LegInv(r), r.st # "None"
    PROVE  Moves(r, [r EXCEPT !.heldRing = NoEv, !.heldConnect = NoEv, !.heldUpdate = NoEv])
  <1>1. PICK s : s = [r EXCEPT !.heldRing = NoEv, !.heldConnect = NoEv, !.heldUpdate = NoEv]
    OBVIOUS
  <1>2. s \in UaRecords
    BY <1>1, ClearType
  <1>3. /\ SameCall(r, s) /\ SameInvite(r, s) /\ SameTimers(r, s) /\ SameHistory(r, s)
        /\ SameMedia(r, s) /\ s.faults = r.faults /\ Reliable(s) /\ Held(s) /\ s.q = r.q
    BY <1>1 DEF UaRecords, SameCall, SameInvite, SameMedia, SameTimers, SameHistory, Reliable,
                LegInv, Held
  <1> QED  BY <1>1, <1>2, <1>3, AsideMoves, QuietSame DEF SameMedia

LEMMA PRACKMoves ==
    ASSUME NEW r \in UaRecords, LegInv(r), r.prov
    PROVE  Moves(r, RecvPRACK(r))
  <1> DEFINE s == [r EXCEPT !.prov = FALSE, !.prack_received = TRUE]
             t == CASE r.heldConnect # NoEv -> UasRingingRel_RecvEvent(s, r.heldConnect)
                    [] r.heldConnect = NoEv /\ r.heldRing # NoEv ->
                         UasRingingRel_RecvEvent(s, r.heldRing)
                    [] OTHER -> s
             w == [t EXCEPT !.heldRing = NoEv, !.heldConnect = NoEv, !.heldUpdate = NoEv]
  <1>1. RecvPRACK(r) = IF r.st = "UasRingingRel" THEN w ELSE [r EXCEPT !.prov = FALSE]
    BY DEF RecvPRACK
  <1>2. CASE r.st # "UasRingingRel"
    BY <1>1, <1>2, ProvMoves
  <1>3. CASE r.st = "UasRingingRel"
    <2>1. Moves(r, s) /\ s.st = "UasRingingRel"
      BY <1>3, ProvMoves DEF UaRecords
    <2>2. s \in UaRecords /\ LegInv(s)
      BY <2>1 DEF Moves
    <2> HIDE DEF s
    <2>3. r.heldConnect # NoEv => r.heldConnect \in Events
      BY ZenonT(60) DEF UaRecords
    <2>4. r.heldRing # NoEv => r.heldRing \in Events
      BY ZenonT(60) DEF UaRecords
    <2>5. Moves(s, t)
      <3>1. CASE r.heldConnect # NoEv
        <4>1. Moves(s, UasRingingRel_RecvEvent(s, r.heldConnect))
          BY <2>1, <2>2, <2>3, <3>1, RingingRelMoves
        <4> QED  BY <3>1, <4>1
      <3>2. CASE r.heldConnect = NoEv /\ r.heldRing # NoEv
        <4>1. Moves(s, UasRingingRel_RecvEvent(s, r.heldRing))
          BY <2>1, <2>2, <2>4, <3>2, RingingRelMoves
        <4> QED  BY <3>2, <4>1
      <3>3. CASE r.heldConnect = NoEv /\ r.heldRing = NoEv
        <4>1. t = s
          BY <3>3
        <4> QED  BY <2>2, <4>1, Stays
      <3> QED  BY <3>1, <3>2, <3>3
    <2> HIDE DEF t
    <2>6. t \in UaRecords /\ LegInv(t) /\ t.st # "None"
      BY <2>1, <2>5 DEF Moves
    <2>7. Moves(t, w)
      BY <2>6, ClearMoves
    <2> HIDE DEF w
    <2> QED  BY <1>1, <1>3, <2>1, <2>5, <2>7, MovesTwice
  <1> QED  BY <1>2, <1>3

LEMMA NoPrackMoves ==
    ASSUME NEW r \in UaRecords, LegInv(r), r.prov
    PROVE  LET s == [r EXCEPT !.prov = FALSE]
           IN  Moves(r, IF s.uas = "early" THEN Disconnect(s) ELSE s)
  <1> DEFINE s == [r EXCEPT !.prov = FALSE]
  <1>1. Moves(r, s) /\ s.st # "None"
    BY ProvMoves DEF UaRecords
  <1> HIDE DEF s
  <1>2. s \in UaRecords /\ Loose(s)
    BY <1>1, LegLoose DEF Moves
  <1>3. Moves(s, Disconnect(s))
    BY <1>1, <1>2, DisconnectMoves
  <1>4. Moves(r, IF s.uas = "early" THEN Disconnect(s) ELSE s)
    BY <1>1, <1>3, MovesTwice
  <1> QED  BY <1>4 DEF s

-----------------------------------------------------------------------------
(* Timers, and the answer to a REFER.                                       *)

\* Any response to the REFER sends the BYE.
LEMMA ReferMoves ==
    ASSUME NEW r \in UaRecords, LegInv(r), r.refer = "open"
    PROVE  Moves(r, ReferAnswered(r))
  <1> DEFINE b == SendBYE(r)
  <1>1. /\ b \in UaRecords
        /\ SameCall(r, b) /\ SameInvite(r, b) /\ SameMedia(r, b) /\ SameRel(r, b)
        /\ SameTimers(r, b) /\ b.faults = r.faults /\ b.q = r.q /\ b.dialog = r.dialog
        /\ b.early_bye = r.early_bye /\ b.cancelled = r.cancelled
    BY SendsBYE
  <1>2. PICK s : s = [b EXCEPT !.refer = "done"]  OBVIOUS
  <1>3. ReferAnswered(r) = s
    BY <1>2 DEF ReferAnswered
  <1> HIDE DEF b
  <1>4. s \in UaRecords
    BY <1>1, <1>2, ZenonT(60) DEF UaRecords
  <1>5. /\ SameCall(b, s) /\ SameInvite(b, s) /\ SameMedia(b, s) /\ SameRel(b, s)
        /\ SameTimers(b, s) /\ s.faults = b.faults /\ s.q = b.q /\ s.dialog = b.dialog
        /\ s.early_bye = b.early_bye /\ s.cancelled = b.cancelled /\ s.refer = "done"
    BY <1>1, <1>2 DEF UaRecords, SameCall, SameInvite, SameMedia, SameRel, SameTimers
  <1>6. r.st # "None"
    BY DEF LegInv, Closing, NewUA
  <1>7. /\ SameCall(r, s) /\ SameInvite(r, s) /\ SameMedia(r, s) /\ SameRel(r, s)
        /\ SameTimers(r, s) /\ s.faults = r.faults /\ s.q = r.q /\ s.dialog = r.dialog
        /\ s.early_bye = r.early_bye /\ s.cancelled = r.cancelled /\ s.refer = "done"
    BY <1>1, <1>5 DEF SameCall, SameInvite, SameMedia, SameRel, SameTimers
  <1>8. Answering(s) /\ Reliable(s) /\ Held(s)
    BY <1>7 DEF LegInv, Answering, Reliable, Held, SameCall, SameInvite, SameMedia, SameRel
  <1>9. Closing(s) /\ Timing(s)
    BY <1>6, <1>7 DEF LegInv, Closing, Timing, Allowed, Covered, SameCall, SameInvite, SameMedia, SameTimers
  <1>10. LegInv(s)
    BY <1>7, <1>8, <1>9 DEF LegInv
  <1> QED  BY <1>3, <1>4, <1>7, <1>10, QuietSame DEF Moves, SameCall, SameInvite, BoundCancel

\* The time of a timer is up: its callback waits for the session lock.
LEMMA PopMoves ==
    ASSUME NEW r \in UaRecords, LegInv(r), NEW x \in r.arm
    PROVE  Moves(r, [r EXCEPT !.arm = @ \ {x}, !.pop = @ \cup {x}])
  <1>1. PICK s : s = [r EXCEPT !.arm = @ \ {x}, !.pop = @ \cup {x}]  OBVIOUS
  <1>2. s \in UaRecords
    BY <1>1, ZenonT(60) DEF UaRecords
  <1>3. /\ SameCall(r, s) /\ SameInvite(r, s) /\ SameMedia(r, s) /\ SameRel(r, s) /\ SameHistory(r, s)
        /\ s.faults = r.faults /\ s.q = r.q /\ s.tptr = r.tptr
        /\ s.arm = r.arm \ {x} /\ s.pop = r.pop \cup {x}
    BY <1>1 DEF UaRecords, SameCall, SameInvite, SameMedia, SameRel, SameHistory
  <1>4. r.st # "None"
    BY DEF LegInv, Closing, NewUA
  <1>5. s.arm \cup s.pop = r.arm \cup r.pop
    BY <1>3
  <1>6. Answering(s) /\ Reliable(s) /\ Closing(s) /\ Held(s)
    BY <1>3, <1>4 DEF LegInv, Answering, Reliable, Closing, Held, SameCall, SameInvite, SameMedia, SameRel,
       SameHistory
  <1>7. Allowed(s)
    BY <1>3, <1>5 DEF LegInv, Timing, Allowed, SameCall
  <1>8. Covered(s)
    BY <1>3, <1>5 DEF LegInv, Timing, Covered, SameCall, SameMedia
  <1>9. LegInv(s)
    BY <1>3, <1>6, <1>7, <1>8 DEF LegInv, Timing
  <1> QED  BY <1>1, <1>2, <1>3, <1>9, QuietSame DEF Moves, SameCall, SameInvite, BoundCancel

\* The callback runs: the leg is disconnected, or dies.
LEMMA ExpiredMoves ==
    ASSUME NEW r \in UaRecords, LegInv(r), NEW x \in r.pop
    PROVE  Moves(r, Expired(r, x))
  <1> DEFINE s == [r EXCEPT !.pop = @ \ {x}, !.tptr = @ \ {x}]
  <1>1. s \in UaRecords
    BY ZenonT(60) DEF UaRecords
  <1>2. /\ SameCall(r, s) /\ SameInvite(r, s) /\ SameMedia(r, s) /\ SameRel(r, s) /\ SameHistory(r, s)
        /\ s.faults = r.faults /\ s.q = r.q /\ s.tptr = r.tptr \ {x}
        /\ s.arm = r.arm /\ s.pop = r.pop \ {x}
    BY DEF UaRecords, SameCall, SameInvite, SameMedia, SameRel, SameHistory
  <1>3. Expired(r, x) = IF x \in {"dead", "idle"} THEN ChangeState(s, "Dead") ELSE Disconnect(s)
    BY DEF Expired
  <1> HIDE DEF s
  <1>4. r.st # "None"
    BY DEF LegInv, Closing, NewUA
  <1>5. Answering(s) /\ Reliable(s) /\ Closing(s) /\ Held(s)
    BY <1>2, <1>4 DEF LegInv, Answering, Reliable, Closing, Held, SameCall, SameInvite, SameMedia, SameRel,
       SameHistory
  <1>6. Allowed(s)
    BY <1>2 DEF LegInv, Timing, Allowed, SameCall
  <1>7. Loose(s) /\ s.st # "None"
    BY <1>2, <1>4, <1>5, <1>6 DEF Loose, LegInv, SameCall
  <1>8. CASE x \in {"dead", "idle"}
    <2>1. r.st \in Over
      BY <1>8 DEF LegInv, Timing, Allowed
    <2>2. Ending(s)
      BY <1>2, <1>7, <2>1 DEF Loose, Ending, Answering, Closing, Allowed, SameCall, Asked, UasEarly, Over,
         IsConnected
    <2>3. "Dead" \in Over /\ Quiet(r.q, s.q)
      BY <1>2, QuietSame DEF Over
    <2>4. Moves(r, ChangeState(s, "Dead"))
      BY <1>1, <2>2, <2>3, EndMoves
    <2> QED  BY <1>3, <1>8, <2>4
  <1>9. CASE x \notin {"dead", "idle"}
    <2>1. PICK v : v = Disconnect(s)  OBVIOUS
    <2>2. Moves(s, v)
      BY <1>1, <1>7, <2>1, DisconnectMoves
    <2>3. Moves(r, v)
      BY <1>2, <2>2 DEF Moves, SameCall, SameInvite, BoundCancel
    <2> QED  BY <1>3, <1>9, <2>1, <2>3
  <1> QED  BY <1>8, <1>9

-----------------------------------------------------------------------------
(* Responses to an INVITE of the leg.                                       *)

\* Timers of a setup that take over from each other leave the others alone, and
\* one of them still runs.
Handover(r, s) ==
    /\ s \in UaRecords
    /\ SameCall(r, s) /\ SameInvite(r, s) /\ SameMedia(r, s) /\ SameRel(r, s)
    /\ SameHistory(r, s) /\ s.faults = r.faults /\ s.q = r.q /\ s.pop = r.pop
    /\ \A x : x \notin Before => (x \in s.arm <=> x \in r.arm) /\ (x \in s.tptr <=> x \in r.tptr)
Hands(r, s) ==
    /\ Handover(r, s)
    /\ "ex" \in Timed /\ (\E x \in Before : x \in r.arm \cup r.pop)
         => \E x \in Before : x \in s.arm \cup s.pop

LEMMA HandsTwice ==
    ASSUME NEW r, NEW s, NEW t
    PROVE  /\ Handover(r, s) /\ Handover(s, t) => Handover(r, t)
           /\ Hands(r, s) /\ Hands(s, t) => Hands(r, t)
  <1>1. Handover(r, s) /\ Handover(s, t) => Handover(r, t)
    BY DEF Handover, SameCall, SameInvite, SameMedia, SameRel, SameHistory
  <1> QED  BY <1>1 DEF Hands

LEMMA CancelHands ==
    ASSUME NEW r \in UaRecords, NEW X \in SUBSET Before
    PROVE  Handover(r, CancelTimers(r, X))
  <1>1. PICK s : s = CancelTimers(r, X)  OBVIOUS
  <1>2. /\ s \in UaRecords
        /\ SameCall(r, s) /\ SameInvite(r, s) /\ SameMedia(r, s) /\ SameRel(r, s)
        /\ SameHistory(r, s) /\ s.faults = r.faults /\ s.q = r.q
        /\ s.tptr = r.tptr \ X /\ s.arm = r.arm \ X /\ s.pop = r.pop
    BY <1>1, CancelsTimers
  <1> QED  BY <1>1, <1>2 DEF Handover

\* One timer of the setup is stopped, another one started.
LEMMA StartHands ==
    ASSUME NEW r \in UaRecords, NEW x \in Before
    PROVE  /\ Hands(r, StartTimer(CancelTimers(r, {x}), "ex"))
           /\ Hands(r, StartFirst(CancelTimers(r, {x}), <<"np", "ex">>))
  <1>1. PICK c : c = CancelTimers(r, {x})  OBVIOUS
  <1>2. c \in UaRecords /\ Handover(r, c)
    BY <1>1, CancelHands DEF Handover
  <1>3. ASSUME NEW t \in UaRecords, NEW X \in SUBSET Before,
               SameCall(c, t), SameInvite(c, t), SameMedia(c, t), SameRel(c, t),
               SameHistory(c, t), t.faults = c.faults, t.q = c.q, t.pop = c.pop,
               t.tptr = c.tptr \cup X, t.arm = c.arm \cup X, "ex" \in Timed => X # {}
        PROVE  Hands(r, t)
    <2>1. Handover(c, t)
      BY <1>3 DEF Handover
    <2>2. Handover(r, t)
      BY <1>2, <2>1, HandsTwice
    <2>3. "ex" \in Timed => \E y \in Before : y \in t.arm \cup t.pop
      BY <1>3
    <2> QED  BY <2>2, <2>3 DEF Hands
  <1>4. Hands(r, StartTimer(c, "ex"))
    <2>1. PICK t : t = StartTimer(c, "ex")  OBVIOUS
    <2>2. PICK X : X = IF "ex" \in Timed THEN {"ex"} ELSE {}  OBVIOUS
    <2>3. X \in SUBSET Before /\ ("ex" \in Timed => X # {})
      BY <2>2 DEF Before
    <2>4. /\ t \in UaRecords
          /\ SameCall(c, t) /\ SameInvite(c, t) /\ SameMedia(c, t) /\ SameRel(c, t)
          /\ SameHistory(c, t) /\ t.faults = c.faults /\ t.q = c.q
          /\ t.tptr = c.tptr \cup X /\ t.arm = c.arm \cup X /\ t.pop = c.pop
      BY <1>2, <2>1, <2>2, StartsTimer DEF TimerNames
    <2> QED  BY <1>3, <2>1, <2>3, <2>4
  <1>5. Hands(r, StartFirst(c, <<"np", "ex">>))
    <2>1. PICK t : t = StartFirst(c, <<"np", "ex">>)  OBVIOUS
    <2>2. /\ t \in UaRecords
          /\ SameCall(c, t) /\ SameInvite(c, t) /\ SameMedia(c, t) /\ SameRel(c, t)
          /\ SameHistory(c, t) /\ t.faults = c.faults /\ t.q = c.q /\ t.pop = c.pop
          /\ \E X \in SUBSET Before :
               /\ t.tptr = c.tptr \cup X /\ t.arm = c.arm \cup X
               /\ "ex" \in Timed => X # {}
      BY <1>2, <2>1, StartsFirst
    <2> QED  BY <1>3, <2>1, <2>2
  <1> QED  BY <1>1, <1>4, <1>5

LEMMA TimersHand ==
    ASSUME NEW r \in UaRecords, NEW code
    PROVE  /\ Handover(r, UacTimers(r, code))
           /\ code \in Provisional => Hands(r, UacTimers(r, code))
  <1> DEFINE s == IF "nr" \in r.tptr
                  THEN CASE code = "100" -> StartFirst(CancelTimers(r, {"nr"}), <<"np", "ex">>)
                         [] code = "1xx" -> StartTimer(CancelTimers(r, {"nr"}), "ex")
                         [] OTHER        -> CancelTimers(r, {"nr"})
                  ELSE r
  <1>1. UacTimers(r, code)
          = CASE "np" \in s.tptr /\ code = "1xx" -> StartTimer(CancelTimers(s, {"np"}), "ex")
              [] "np" \in s.tptr /\ code \notin Provisional -> CancelTimers(s, {"np"})
              [] OTHER -> s
    BY DEF UacTimers
  <1>2. "nr" \in Before /\ "np" \in Before /\ {"nr"} \in SUBSET Before /\ {"np"} \in SUBSET Before
    BY DEF Before
  <1>3. ASSUME NEW t \in UaRecords PROVE Hands(t, t) /\ Handover(t, t)
    BY <1>3 DEF Hands, Handover, SameCall, SameInvite, SameMedia, SameRel, SameHistory
  <1>4. Handover(r, s) /\ (code \in Provisional => Hands(r, s))
    <2>1. CASE "nr" \notin r.tptr
      BY <1>3, <2>1
    <2>2. CASE "nr" \in r.tptr /\ code = "100"
      <3>1. s = StartFirst(CancelTimers(r, {"nr"}), <<"np", "ex">>)
        BY <2>2
      <3> QED  BY <1>2, <3>1, StartHands DEF Hands
    <2>3. CASE "nr" \in r.tptr /\ code = "1xx"
      <3>1. s = StartTimer(CancelTimers(r, {"nr"}), "ex")
        BY <2>3
      <3> QED  BY <1>2, <3>1, StartHands DEF Hands
    <2>4. CASE "nr" \in r.tptr /\ code \notin Provisional
      <3>1. s = CancelTimers(r, {"nr"})
        BY <2>4 DEF Provisional
      <3> QED  BY <1>2, <2>4, <3>1, CancelHands
    <2> QED  BY <2>1, <2>2, <2>3, <2>4 DEF Provisional
  <1> HIDE DEF s
  <1>5. s \in UaRecords
    BY <1>4 DEF Handover
  <1>6. CASE "np" \in s.tptr /\ code = "1xx"
    <2>1. UacTimers(r, code) = StartTimer(CancelTimers(s, {"np"}), "ex")
      BY <1>1, <1>6 DEF Provisional
    <2>2. Hands(s, UacTimers(r, code))
      BY <1>2, <1>5, <2>1, StartHands
    <2> QED  BY <1>4, <1>6, <2>2, HandsTwice DEF Provisional, Hands
  <1>7. CASE "np" \in s.tptr /\ code \notin Provisional
    <2>1. UacTimers(r, code) = CancelTimers(s, {"np"})
      BY <1>1, <1>7 DEF Provisional
    <2>2. Handover(s, UacTimers(r, code))
      BY <1>2, <1>5, <2>1, CancelHands
    <2> QED  BY <1>4, <1>7, <2>2, HandsTwice
  <1>8. CASE ~("np" \in s.tptr /\ (code = "1xx" \/ code \notin Provisional))
    <2>1. UacTimers(r, code) = s
      BY <1>1, <1>8
    <2> QED  BY <1>4, <2>1
  <1> QED  BY <1>6, <1>7, <1>8

Outcomes == {"none", "calling", "proceeding", "done"}

\* What a response changes before the state sees it.
Heard(r, c, d) == [r EXCEPT !.uac = c, !.dialog = d]

LEMMA Hears ==
    ASSUME NEW r \in UaRecords, NEW c \in Outcomes, NEW d \in BOOLEAN
    PROVE  LET s == Heard(r, c, d)
           IN  /\ s \in UaRecords
               /\ SameCall(r, s) /\ SameMedia(r, s) /\ SameRel(r, s) /\ SameTimers(r, s)
               /\ s.faults = r.faults /\ s.q = r.q /\ s.uas = r.uas /\ s.cancelCB = r.cancelCB
               /\ s.uac = c /\ s.dialog = d
               /\ s.bye = r.bye /\ s.early_bye = r.early_bye /\ s.cancelled = r.cancelled
               /\ s.refer = r.refer
  <1>1. PICK s : s = [r EXCEPT !.uac = c, !.dialog = d]  OBVIOUS
  <1>2. s \in UaRecords
    BY <1>1, ZenonT(60) DEF UaRecords, Outcomes
  <1>3. /\ SameCall(r, s) /\ SameMedia(r, s) /\ SameRel(r, s) /\ SameTimers(r, s)
        /\ s.faults = r.faults /\ s.q = r.q /\ s.uas = r.uas /\ s.cancelCB = r.cancelCB
        /\ s.uac = c /\ s.dialog = d
        /\ s.bye = r.bye /\ s.early_bye = r.early_bye /\ s.cancelled = r.cancelled
        /\ s.refer = r.refer
    BY <1>1 DEF UaRecords, SameCall, SameMedia, SameRel, SameTimers
  <1> QED  BY <1>1, <1>2, <1>3 DEF Heard

\* Outside the setup of its dialog a leg may hear a response, or be challenged, in
\* every state.
LEMMA HeardMoves ==
    ASSUME NEW r \in UaRecords, LegInv(r), r.uac \in {"calling", "proceeding"},
           NEW c \in Outcomes, NEW d \in BOOLEAN,
           r.st \notin {"UacTrying", "UacRinging"} \/ d = r.dialog
    PROVE  Moves(r, Heard(r, c, d)) /\ r.st \notin UasEarly \cup {"UacIdle", "None"}
  <1>1. PICK s : s = Heard(r, c, d)  OBVIOUS
  <1>2. /\ s \in UaRecords
        /\ SameCall(r, s) /\ SameMedia(r, s) /\ SameRel(r, s) /\ SameTimers(r, s)
        /\ s.faults = r.faults /\ s.q = r.q /\ s.uas = r.uas /\ s.cancelCB = r.cancelCB
        /\ s.uac = c /\ s.dialog = d
        /\ s.bye = r.bye /\ s.early_bye = r.early_bye /\ s.cancelled = r.cancelled
        /\ s.refer = r.refer
    BY <1>1, Hears
  <1>3. r.st \notin UasEarly \cup {"UacIdle", "None"}
    BY DEF LegInv, Closing, NewUA
  <1>4. Answering(s) /\ Reliable(s) /\ Held(s) /\ Timing(s)
    BY <1>2 DEF LegInv, Answering, Reliable, Held, Timing, Allowed, Covered, SameCall, SameMedia, SameRel,
       SameTimers
  <1>5. Closing(s)
    BY <1>2, <1>3 DEF LegInv, Closing, SameCall, SameMedia, Setup
  <1>6. LegInv(s)
    BY <1>2, <1>4, <1>5 DEF LegInv
  <1> QED  BY <1>1, <1>2, <1>3, <1>6, QuietSame DEF Moves, SameCall, BoundCancel

\* The setup of a dialog by the leg.
Dialling(t) ==
    /\ t.st \in {"UacTrying", "UacRinging"}
    /\ Active(t) /\ t.uas # "early" /\ ~t.pending_tr
    /\ "cr" \notin t.arm \cup t.pop /\ "cr" \notin t.tptr

LEMMA LegDialling ==
    ASSUME NEW r \in UaRecords, LegInv(r), r.st \in {"UacTrying", "UacRinging"}
    PROVE  /\ Dialling(r) /\ ~r.dialog
           /\ "ex" \in Timed => \E x \in Before : x \in r.arm \cup r.pop
  <1>1. Active(r)
    BY LegActive, LegLoose DEF Over
  <1>2. "ex" \in Timed => \E x \in Before : x \in r.arm \cup r.pop
    BY DEF LegInv, Timing, Covered, Before, Setup
  <1> QED  BY <1>1, <1>2 DEF Dialling, LegInv, Answering, Closing, Timing, Allowed, UasEarly, Over,
                             IsConnected, Setup, Asked

LEMMA DiallingInv ==
    ASSUME NEW t \in UaRecords, Dialling(t), ~t.dialog,
           "ex" \in Timed => \E x \in Before : x \in t.arm \cup t.pop
    PROVE  LegInv(t)
  <1>1. Answering(t) /\ Reliable(t) /\ Closing(t) /\ Held(t)
    BY DEF Dialling, Active, Answering, Reliable, Closing, UasEarly, Over, Setup, Asked
  <1>2. Timing(t)
    BY DEF Dialling, Active, Timing, Allowed, Covered, Before, UasEarly, Over, Setup, IsConnected
  <1> QED  BY <1>1, <1>2 DEF LegInv, Dialling, Active

\* Other than a leg that keeps on dialling, nothing depends on the setup timers.
LEMMA DiallingHands ==
    ASSUME NEW r \in UaRecords, NEW s, Handover(r, s), Dialling(r)
    PROVE  Dialling(s)
  <1>1. "cr" \notin Before /\ "dead" \notin Before /\ "idle" \notin Before
    BY DEF Before
  <1> QED  BY <1>1 DEF Handover, Dialling, Active, Held, SameCall, SameInvite, SameMedia, SameRel

LEMMA MediaTypes ==
    ASSUME NEW r \in UaRecords
    PROVE  /\ [r EXCEPT !.pending_tr = TRUE] \in UaRecords
           /\ [r EXCEPT !.late_media = FALSE] \in UaRecords
  <1>1. [r EXCEPT !.pending_tr = TRUE] \in UaRecords
    BY ZenonT(60) DEF UaRecords
  <1>2. [r EXCEPT !.late_media = FALSE] \in UaRecords
    BY ZenonT(60) DEF UaRecords
  <1> QED  BY <1>1, <1>2

\* A leg that was answered tells the other one: with a PreConnect if the answer
\* to the offer is to come from there, and then it owes the ACK.
LEMMA AnsweredMoves ==
    ASSUME NEW r \in UaRecords, NEW m \in Responses, ~r.pending_tr, Active(r)
    PROVE  LET t == Answered(r, m)
           IN  /\ t \in UaRecords
               /\ SameCall(r, t) /\ SameInvite(r, t) /\ SameRel(r, t) /\ SameTimers(r, t)
               /\ SameHistory(r, t) /\ t.faults = r.faults /\ t.late_media = r.late_media
               /\ t.pending_tr <=> r.late_media /\ m.body
               /\ Quiet(r.q, t.q) /\ Active(t)
  <1> DEFINE p == [r EXCEPT !.pending_tr = TRUE]
             t == Answered(r, m)
  <1>1. m.body \in BOOLEAN
    BY DEF Responses
  <1>2. /\ EvBody("PreConnect", TRUE) \in Events /\ EvBody("PreConnect", TRUE).k # "Try"
        /\ EvBody("Connect", m.body) \in Events /\ EvBody("Connect", m.body).k # "Try"
    BY <1>1 DEF EvBody, Events, EventKinds
  <1>3. r.q \in Seq(Events)
    BY ZenonT(60) DEF UaRecords
  <1>4. CASE r.late_media /\ m.body
    <2>1. t = Enqueue(p, EvBody("PreConnect", TRUE))
      BY <1>4 DEF Answered
    <2>2. p \in UaRecords
      BY MediaTypes
    <2>3. /\ SameCall(r, p) /\ SameInvite(r, p) /\ SameRel(r, p) /\ SameTimers(r, p)
          /\ SameHistory(r, p) /\ p.faults = r.faults /\ p.late_media = r.late_media /\ p.pending_tr
          /\ p.q = r.q /\ p.pendUpdate = r.pendUpdate
      BY DEF UaRecords, SameCall, SameInvite, SameRel, SameTimers, SameHistory
    <2> HIDE DEF p, t
    <2>4. /\ t \in UaRecords
          /\ SameCall(p, t) /\ SameInvite(p, t) /\ SameMedia(p, t) /\ SameRel(p, t)
          /\ SameTimers(p, t) /\ SameHistory(p, t) /\ t.faults = p.faults
          /\ t.q = Append(p.q, EvBody("PreConnect", TRUE))
      BY <1>2, <2>1, <2>2, Enqueues
    <2>5. Quiet(r.q, t.q)
      BY <1>2, <1>3, <2>3, <2>4, QuietAppend
    <2>6. /\ SameCall(r, t) /\ SameInvite(r, t) /\ SameRel(r, t) /\ SameTimers(r, t)
          /\ SameHistory(r, t) /\ t.faults = r.faults /\ t.late_media = r.late_media /\ t.pending_tr
          /\ t.pendUpdate = r.pendUpdate
      BY <2>3, <2>4 DEF SameCall, SameInvite, SameMedia, SameRel, SameTimers, SameHistory
    <2>7. Active(t)
      BY <2>6 DEF Active, Held, SameCall, SameRel, SameTimers
    <2> QED  BY <1>4, <2>4, <2>5, <2>6, <2>7 DEF t
  <1>5. CASE ~(r.late_media /\ m.body)
    <2>1. t = Enqueue(r, EvBody("Connect", m.body))
      BY <1>5 DEF Answered
    <2> HIDE DEF t
    <2>2. /\ t \in UaRecords
          /\ SameCall(r, t) /\ SameInvite(r, t) /\ SameMedia(r, t) /\ SameRel(r, t)
          /\ SameTimers(r, t) /\ SameHistory(r, t) /\ t.faults = r.faults
          /\ t.q = Append(r.q, EvBody("Connect", m.body))
      BY <1>2, <2>1, Enqueues
    <2>3. Quiet(r.q, t.q)
      BY <1>2, <1>3, <2>2, QuietAppend
    <2>4. Active(t)
      BY <2>2 DEF Active, Held, SameCall, SameMedia, SameRel, SameTimers
    <2> QED  BY <1>5, <2>2, <2>3, <2>4 DEF t, SameMedia
  <1> QED  BY <1>4, <1>5

LEMMA RefusedType ==
    ASSUME NEW m \in Responses
    PROVE  Refused(m) \in Events /\ Refused(m).k # "Try"
  BY DEF Refused, Ev, Events, EventKinds

\* The INVITE of the leg has its final response: the leg is connected, or fails.
LEMMA FinalMoves ==
    ASSUME NEW r \in UaRecords, NEW m \in Responses, m.code \notin Provisional,
           Dialling(r), r.uac = "done", r.dialog <=> (m.code = "2xx" /\ m.tag)
    PROVE  Moves(r, UacFinal(r, m))
  <1> DEFINE s == CancelTimers(r, {"ex"})
  <1>1. Handover(r, s)
    BY CancelHands DEF Before
  <1>2. s \in UaRecords /\ Dialling(s) /\ s.uac = "done" /\ s.dialog = r.dialog /\ s.q = r.q
    BY <1>1, DiallingHands DEF Handover, SameInvite, SameHistory
  <1>3. UacFinal(r, m)
          = CASE m.code = "2xx" /\ ~m.tag ->
                   ChangeState(SendBYE(Enqueue(s, Ev("Fail"))), "Failed")
              [] m.code = "2xx" /\ m.tag /\ s.late_media /\ m.body ->
                   ChangeState(Answered(s, m), "Connected")
              [] m.code = "2xx" /\ m.tag /\ ~(s.late_media /\ m.body) ->
                   ChangeState(StartCreditTimer(Answered([s EXCEPT !.late_media = FALSE], m)),
                               "Connected")
              [] OTHER -> ChangeState(Enqueue(s, Refused(m)), "Failed")
    BY DEF UacFinal
  <1> HIDE DEF s
  <1>4. s.q \in Seq(Events)
    BY <1>2 DEF UaRecords
  <1>5. Ev("Fail") \in Events /\ Ev("Fail").k # "Try"
    BY DEF Ev, Events, EventKinds
  <1>6. "Failed" \in Over
    BY DEF Over
  <1>7. ASSUME NEW e \in Events, e.k # "Try"
        PROVE  LET t == Enqueue(s, e)
               IN  /\ t \in UaRecords /\ Quiet(r.q, t.q) /\ Dialling(t)
                   /\ t.uac = "done" /\ t.dialog = r.dialog /\ Held(t)
    <2> DEFINE t == Enqueue(s, e)
    <2>1. /\ t \in UaRecords
          /\ SameCall(s, t) /\ SameInvite(s, t) /\ SameMedia(s, t) /\ SameRel(s, t)
          /\ SameTimers(s, t) /\ SameHistory(s, t) /\ t.faults = s.faults /\ t.q = Append(s.q, e)
      BY <1>2, Enqueues
    <2> HIDE DEF t
    <2>2. Quiet(r.q, t.q)
      BY <1>2, <1>4, <1>7, <2>1, QuietAppend
    <2>3. Dialling(t) /\ t.uac = "done" /\ t.dialog = r.dialog /\ Held(t)
      BY <1>2, <2>1 DEF Dialling, Active, Held, SameCall, SameInvite, SameMedia, SameRel, SameTimers,
         SameHistory
    <2> QED  BY <2>1, <2>2, <2>3 DEF t
  <1>8. CASE m.code = "2xx" /\ ~m.tag
    <2> DEFINE t == Enqueue(s, Ev("Fail"))
               b == SendBYE(t)
    <2>1. /\ t \in UaRecords /\ Quiet(r.q, t.q) /\ Dialling(t)
          /\ t.uac = "done" /\ ~t.dialog
      BY <1>5, <1>7, <1>8
    <2>2. UacFinal(r, m) = ChangeState(b, "Failed")
      BY <1>3, <1>8
    <2> HIDE DEF t
    <2>3. /\ b \in UaRecords
          /\ SameCall(t, b) /\ SameInvite(t, b) /\ SameMedia(t, b) /\ SameRel(t, b)
          /\ SameTimers(t, b) /\ b.faults = t.faults /\ b.q = t.q /\ b.dialog = t.dialog
      BY <2>1, SendsBYE
    <2> HIDE DEF b
    <2>4. Ending(b)
      BY <2>1, <2>3 DEF Ending, Dialling, Active, Held, SameCall, SameInvite, SameMedia, SameRel, SameTimers
    <2> QED  BY <1>6, <2>1, <2>2, <2>3, <2>4, EndMoves
  <1>9. ASSUME NEW t \in UaRecords, Active(t), Credited(t), t.uas # "early",
               t.pending_tr => t.late_media, t.st # "Connected", Quiet(r.q, t.q)
        PROVE  Moves(r, ChangeState(t, "Connected"))
    <2>1. LET v == ChangeState(t, "Connected")
          IN  v \in UaRecords /\ LegInv(v) /\ v.st = "Connected" /\ v.q = t.q
      BY <1>9, ConnectMoves
    <2> QED  BY <1>9, <2>1 DEF Moves, BoundCancel, UasEarly, Over, Dialling
  <1>10. CASE m.code = "2xx" /\ m.tag /\ s.late_media /\ m.body
    <2>1. PICK t : t = Answered(s, m)  OBVIOUS
    <2>2. ~s.pending_tr /\ Active(s)
      BY <1>2 DEF Dialling
    <2>3. /\ t \in UaRecords
          /\ SameCall(s, t) /\ SameInvite(s, t) /\ t.late_media = s.late_media
          /\ Quiet(s.q, t.q) /\ Active(t)
      BY <1>2, <2>1, <2>2, AnsweredMoves
    <2>4. /\ Credited(t) /\ t.uas # "early" /\ t.late_media /\ t.st # "Connected" /\ Quiet(r.q, t.q)
      BY <1>2, <1>10, <2>3 DEF Credited, Dialling, SameCall, SameInvite
    <2>5. Moves(r, ChangeState(t, "Connected"))
      BY <1>9, <2>3, <2>4
    <2>6. UacFinal(r, m) = ChangeState(t, "Connected")
      BY <1>3, <1>10, <2>1
    <2> QED  BY <2>5, <2>6
  <1>11. CASE m.code = "2xx" /\ m.tag /\ ~(s.late_media /\ m.body)
    <2> DEFINE l == [s EXCEPT !.late_media = FALSE]
               t == Answered(l, m)
               u == StartTimer(t, "cr")
    <2>1. UacFinal(r, m) = ChangeState(StartCreditTimer(t), "Connected")
      BY <1>3, <1>11
    <2>2. l \in UaRecords
      BY <1>2, MediaTypes
    <2>3. /\ SameCall(s, l) /\ SameInvite(s, l) /\ SameRel(s, l) /\ SameTimers(s, l)
          /\ l.faults = s.faults /\ ~l.late_media /\ l.pending_tr = s.pending_tr
          /\ l.q = s.q /\ l.pendUpdate = s.pendUpdate
      BY <1>2 DEF UaRecords, SameCall, SameInvite, SameRel, SameTimers
    <2> HIDE DEF l
    <2>4. ~l.pending_tr /\ Active(l)
      BY <1>2, <2>3 DEF Dialling, Active, Held, SameCall, SameRel, SameTimers
    <2>5. /\ t \in UaRecords
          /\ SameCall(l, t) /\ SameInvite(l, t) /\ SameTimers(l, t) /\ t.late_media = l.late_media
          /\ Quiet(l.q, t.q) /\ Active(t) /\ (t.pending_tr <=> l.late_media /\ m.body)
      BY <2>2, <2>4, AnsweredMoves
    <2> HIDE DEF t
    <2>6. "cr" \notin t.tptr
      BY <1>2, <2>3, <2>5 DEF Dialling, SameTimers
    <2>7. StartCreditTimer(t) = u
      BY <2>5, <2>6, StartsCredit
    <2>8. /\ u \in UaRecords
          /\ SameCall(t, u) /\ SameInvite(t, u) /\ SameMedia(t, u) /\ SameRel(t, u)
          /\ u.faults = t.faults /\ u.q = t.q
          /\ u.arm = t.arm \cup (IF "cr" \in Timed THEN {"cr"} ELSE {}) /\ u.pop = t.pop
      BY <2>5, StartsTimer DEF TimerNames
    <2> HIDE DEF u
    <2>9. Active(u) /\ Credited(u) /\ ~u.pending_tr /\ u.q = t.q
      BY <2>3, <2>5, <2>8 DEF Active, Credited, Held, SameCall, SameMedia, SameRel
    <2>10. u.uas # "early" /\ u.st # "Connected" /\ Quiet(r.q, u.q)
      BY <1>2, <2>3, <2>5, <2>9, <2>8 DEF Dialling, SameCall, SameInvite
    <2>11. Moves(r, ChangeState(u, "Connected"))
      BY <1>9, <2>8, <2>9, <2>10
    <2> QED  BY <2>1, <2>7, <2>11
  <1>12. CASE m.code # "2xx"
    <2> DEFINE t == Enqueue(s, Refused(m))
    <2>1. Refused(m) \in Events /\ Refused(m).k # "Try"
      BY RefusedType
    <2>2. /\ t \in UaRecords /\ Quiet(r.q, t.q) /\ Dialling(t)
          /\ t.uac = "done" /\ ~t.dialog /\ Held(t)
      BY <1>7, <1>12, <2>1
    <2>3. UacFinal(r, m) = ChangeState(t, "Failed")
      BY <1>3, <1>12
    <2> HIDE DEF t
    <2>4. Ending(t)
      BY <2>2 DEF Ending, Dialling, Active
    <2> QED  BY <1>6, <2>2, <2>3, <2>4, EndMoves
  <1> QED  BY <1>8, <1>10, <1>11, <1>12

\* The leg goes on dialling, rings, or has its final response.
LEMMA DiallingMoves ==
    ASSUME NEW r \in UaRecords, NEW m \in Responses, Dialling(r),
           "ex" \in Timed => \E x \in Before : x \in r.arm \cup r.pop,
           r.uac = (IF m.code \in Provisional THEN "proceeding" ELSE "done"),
           r.dialog <=> (m.code = "2xx" /\ m.tag)
    PROVE  /\ r.st = "UacTrying" => Moves(r, UacTrying_RecvResponse(r, m))
           /\ r.st = "UacRinging" => Moves(r, UacRinging_RecvResponse(r, m))
  <1>1. m.body \in BOOLEAN
    BY DEF Responses
  <1>2. /\ Ev("Ring100") \in Events /\ Ev("Ring100").k # "Try"
        /\ EvBody("Ring", m.body) \in Events /\ EvBody("Ring", m.body).k # "Try"
    BY <1>1 DEF Ev, EvBody, Events, EventKinds
  <1>3. m.code \in Provisional => ~r.dialog
    BY DEF Provisional
  <1>4. ASSUME m.code \in Provisional PROVE LegInv(r) /\ r.st # "None"
    BY <1>3, <1>4, DiallingInv DEF Dialling
  <1>5. ASSUME r.st = "UacRinging" PROVE Moves(r, UacRinging_RecvResponse(r, m))
    <2>1. CASE m.code = "100"
      <3>1. UacRinging_RecvResponse(r, m) = Enqueue(r, Ev("Ring100"))
        BY <2>1 DEF UacRinging_RecvResponse
      <3> QED  BY <1>2, <1>4, <2>1, <3>1, EnqueueMoves DEF Provisional
    <2>2. CASE m.code = "1xx"
      <3>1. UacRinging_RecvResponse(r, m) = IF m.bad THEN r ELSE Enqueue(r, EvBody("Ring", m.body))
        BY <2>2 DEF UacRinging_RecvResponse
      <3>2. LegInv(r) /\ r.st # "None"
        BY <1>4, <2>2 DEF Provisional
      <3>3. Moves(r, Enqueue(r, EvBody("Ring", m.body))) /\ Moves(r, r)
        BY <1>2, <3>2, EnqueueMoves, Stays
      <3> QED  BY <3>1, <3>3
    <2>3. CASE m.code \notin Provisional
      <3>1. UacRinging_RecvResponse(r, m) = UacFinal(r, m)
        BY <2>3 DEF UacRinging_RecvResponse, Provisional
      <3> QED  BY <2>3, <3>1, FinalMoves
    <2> QED  BY <2>1, <2>2, <2>3 DEF Provisional
  <1>6. ASSUME r.st = "UacTrying" PROVE Moves(r, UacTrying_RecvResponse(r, m))
    <2> DEFINE s == UacTimers(r, m.code)
    <2>1. Handover(r, s) /\ (m.code \in Provisional => Hands(r, s))
      BY TimersHand
    <2>2. UacTrying_RecvResponse(r, m)
            = CASE m.code = "100" -> Enqueue(s, Ev("Ring100"))
                [] m.code = "1xx" /\ m.bad -> s
                [] m.code = "1xx" /\ ~m.bad ->
                     ChangeState(Enqueue(s, EvBody("Ring", m.body)), "UacRinging")
                [] OTHER -> UacFinal(s, m)
      BY DEF UacTrying_RecvResponse
    <2> HIDE DEF s
    <2>3. /\ s \in UaRecords /\ Dialling(s) /\ s.uac = r.uac /\ s.dialog = r.dialog /\ s.q = r.q
          /\ s.st = "UacTrying"
      BY <1>6, <2>1, DiallingHands DEF Handover, SameCall, SameInvite, SameHistory
    <2>4. ASSUME NEW v, Moves(s, v) PROVE Moves(r, v)
      BY <1>6, <2>3, <2>4 DEF Moves, BoundCancel, UasEarly, Over
    <2>5. CASE m.code \in Provisional
      <3>1. "ex" \in Timed => \E x \in Before : x \in s.arm \cup s.pop
        BY <2>1, <2>5 DEF Hands
      <3>2. LegInv(s)
        BY <1>3, <2>3, <2>5, <3>1, DiallingInv
      <3>3. CASE m.code = "100"
        <4>1. Moves(s, Enqueue(s, Ev("Ring100")))
          BY <1>2, <2>3, <3>2, EnqueueMoves
        <4>2. UacTrying_RecvResponse(r, m) = Enqueue(s, Ev("Ring100"))
          BY <2>2, <3>3
        <4> QED  BY <2>4, <4>1, <4>2
      <3>4. CASE m.code = "1xx" /\ m.bad
        <4>1. UacTrying_RecvResponse(r, m) = s
          BY <2>2, <3>4
        <4> QED  BY <2>3, <2>4, <3>2, <4>1, Stays
      <3>5. CASE m.code = "1xx" /\ ~m.bad
        <4> DEFINE t == Enqueue(s, EvBody("Ring", m.body))
                   v == ChangeState(t, "UacRinging")
        <4>1. UacTrying_RecvResponse(r, m) = v
          BY <2>2, <3>5
        <4>2. Moves(s, t)
          BY <1>2, <2>3, <3>2, EnqueueMoves
        <4>3. SameCall(s, t)
          BY <1>2, <2>3, Enqueues
        <4> HIDE DEF t
        <4>4. t \in UaRecords /\ LegInv(t) /\ t.st = "UacTrying" /\ Quiet(s.q, t.q)
          BY <2>3, <4>2, <4>3 DEF Moves, SameCall
        <4>5. /\ Dialling(t) /\ ~t.dialog
              /\ "ex" \in Timed => \E x \in Before : x \in t.arm \cup t.pop
          BY <4>4, LegDialling
        <4>6. "UacRinging" \in States /\ "UacRinging" \notin Over
              /\ t.st \notin {"PreConnect", "Connected"}
          BY <4>4 DEF States, Over
        <4>7. /\ v \in UaRecords
              /\ v.st = "UacRinging" /\ (v.gone => t.gone)
              /\ SameInvite(t, v) /\ SameRel(t, v) /\ SameHistory(t, v)
              /\ v.faults = t.faults /\ v.q = t.q /\ v.pendUpdate = t.pendUpdate
              /\ (v.pending_tr => t.pending_tr) /\ v.pop = t.pop
          BY <4>4, <4>6, ChangesState
        <4>8. v.arm = t.arm /\ v.tptr = t.tptr
          BY <4>4, <4>6, KeepsTimers
        <4> HIDE DEF v
        <4>9. Dialling(v) /\ ~v.dialog
          BY <4>5, <4>7, <4>8 DEF Dialling, Active, Held, SameInvite, SameRel, SameHistory
        <4>10. LegInv(v)
          BY <4>5, <4>7, <4>8, <4>9, DiallingInv
        <4>11. Moves(s, v)
          BY <2>3, <4>4, <4>7, <4>10 DEF Moves, BoundCancel, UasEarly, Over
        <4> QED  BY <2>4, <4>1, <4>11
      <3> QED  BY <2>5, <3>3, <3>4, <3>5 DEF Provisional
    <2>6. CASE m.code \notin Provisional
      <3>1. UacTrying_RecvResponse(r, m) = UacFinal(s, m)
        BY <2>2, <2>6 DEF Provisional
      <3>2. Moves(s, UacFinal(s, m))
        BY <2>3, <2>6, FinalMoves
      <3> QED  BY <2>4, <3>1, <3>2
    <2> QED  BY <2>5, <2>6
  <1> QED  BY <1>5, <1>6

\* The response to a re-INVITE.
LEMMA UpdatingResponseMoves ==
    ASSUME NEW r \in UaRecords, LegInv(r), NEW m \in Responses, r.st = "UacUpdating"
    PROVE  Moves(r, UacUpdating_RecvResponse(r, m))
  <1>1. m.body \in BOOLEAN
    BY DEF Responses
  <1>2. /\ Ev("Disconnect") \in Events /\ Ev("Disconnect").k # "Try"
        /\ Ev("Fail") \in Events /\ Ev("Fail").k # "Try"
        /\ EvBody("Ring", m.body) \in Events /\ EvBody("Ring", m.body).k # "Try"
    BY <1>1 DEF Ev, EvBody, Events, EventKinds
  <1>3. Active(r) /\ Credited(r) /\ r.uas # "early" /\ ~r.pending_tr
    BY LegActive, LegLoose, LegCredited DEF LegInv, Answering, Closing, Asked, UasEarly, Over, IsConnected
  <1>4. ASSUME NEW t \in UaRecords, Active(t), Credited(t), t.uas # "early",
               t.pending_tr => t.late_media, t.st # "Connected", Quiet(r.q, t.q)
        PROVE  Moves(r, ChangeState(t, "Connected"))
    <2>1. LET v == ChangeState(t, "Connected")
          IN  v \in UaRecords /\ LegInv(v) /\ v.st = "Connected" /\ v.q = t.q
      BY <1>4, ConnectMoves
    <2> QED  BY <1>4, <2>1 DEF Moves, BoundCancel, UasEarly, Over
  <1>5. CASE m.code \in Provisional
    <2>1. UacUpdating_RecvResponse(r, m) = Enqueue(r, EvBody("Ring", m.body))
      BY <1>5 DEF UacUpdating_RecvResponse, Provisional
    <2> QED  BY <1>2, <2>1, EnqueueMoves
  <1>6. CASE m.code = "2xx"
    <2>1. PICK t : t = Answered(r, m)  OBVIOUS
    <2>2. UacUpdating_RecvResponse(r, m) = ChangeState(t, "Connected")
      BY <1>6, <2>1 DEF UacUpdating_RecvResponse, Provisional
    <2>3. /\ t \in UaRecords
          /\ SameCall(r, t) /\ SameInvite(r, t) /\ SameTimers(r, t) /\ t.late_media = r.late_media
          /\ Quiet(r.q, t.q) /\ Active(t) /\ (t.pending_tr <=> r.late_media /\ m.body)
      BY <1>3, <2>1, AnsweredMoves
    <2>4. Credited(t) /\ t.uas # "early" /\ (t.pending_tr => t.late_media) /\ t.st # "Connected"
      BY <1>3, <2>3 DEF Credited, SameCall, SameInvite, SameTimers
    <2> QED  BY <1>4, <2>2, <2>3, <2>4
  <1>7. CASE m.code = "408"
    <2> DEFINE a == Enqueue(r, Ev("Fail"))
               b == SendBYE(a)
               c == CancelTimers(b, {"cr"})
               t == Enqueue(c, Ev("Disconnect"))
    <2>1. UacUpdating_RecvResponse(r, m) = ChangeState(t, "Disconnected")
      BY <1>7 DEF UacUpdating_RecvResponse, Provisional
    <2>2. /\ a \in UaRecords
          /\ SameCall(r, a) /\ SameInvite(r, a) /\ SameMedia(r, a) /\ SameRel(r, a)
          /\ SameTimers(r, a) /\ a.faults = r.faults /\ a.q = Append(r.q, Ev("Fail"))
      BY <1>2, Enqueues
    <2> HIDE DEF a
    <2>3. /\ b \in UaRecords
          /\ SameCall(a, b) /\ SameInvite(a, b) /\ SameMedia(a, b) /\ SameRel(a, b)
          /\ SameTimers(a, b) /\ b.faults = a.faults /\ b.q = a.q /\ (b.bye <=> a.bye \/ ~a.gone)
      BY <2>2, SendsBYE
    <2> HIDE DEF b
    <2>4. /\ c \in UaRecords
          /\ SameCall(b, c) /\ SameInvite(b, c) /\ SameMedia(b, c) /\ SameRel(b, c) /\ SameHistory(b, c)
          /\ c.faults = b.faults /\ c.q = b.q /\ c.arm = b.arm \ {"cr"}
      BY <2>3, CancelsTimers
    <2> HIDE DEF c
    <2>5. /\ t \in UaRecords
          /\ SameCall(c, t) /\ SameInvite(c, t) /\ SameMedia(c, t) /\ SameRel(c, t) /\ SameHistory(c, t)
          /\ SameTimers(c, t) /\ t.faults = c.faults /\ t.q = Append(c.q, Ev("Disconnect"))
      BY <1>2, <2>4, Enqueues
    <2> HIDE DEF t
    <2>6. t.uas # "early" /\ ~t.pending_tr /\ t.faults = {} /\ Held(t)
      BY <1>3, <2>2, <2>3, <2>4, <2>5 DEF Active, Held, SameInvite, SameMedia, SameRel
    <2>7. t.bye /\ "cr" \notin t.arm
      BY <1>3, <2>2, <2>3, <2>4, <2>5 DEF Active, SameCall, SameHistory, SameTimers
    <2>8. Ending(t)
      BY <2>6, <2>7 DEF Ending
    <2>9. Quiet(r.q, a.q)
      BY <1>2, <2>2, QuietAppend DEF UaRecords
    <2>10. Quiet(c.q, t.q)
      BY <1>2, <2>4, <2>5, QuietAppend DEF UaRecords
    <2>11. Quiet(r.q, t.q)
      BY <2>3, <2>4, <2>9, <2>10, QuietTwice
    <2>12. "Disconnected" \in Over
      BY DEF Over
    <2> QED  BY <2>1, <2>5, <2>8, <2>11, <2>12, EndMoves
  <1>8. CASE m.code \notin Provisional \cup {"2xx", "408"}
    <2>1. PICK t : t = Enqueue(r, Refused(m))  OBVIOUS
    <2>2. UacUpdating_RecvResponse(r, m) = ChangeState(t, "Connected")
      BY <1>8, <2>1 DEF UacUpdating_RecvResponse
    <2>3. Refused(m) \in Events /\ Refused(m).k # "Try"
      BY RefusedType
    <2>4. /\ t \in UaRecords
          /\ SameCall(r, t) /\ SameInvite(r, t) /\ SameMedia(r, t) /\ SameRel(r, t)
          /\ SameTimers(r, t) /\ t.faults = r.faults /\ t.q = Append(r.q, Refused(m))
      BY <2>1, <2>3, Enqueues
    <2>5. Quiet(r.q, t.q)
      BY <2>3, <2>4, QuietAppend DEF UaRecords
    <2>6. Active(t) /\ Credited(t) /\ t.uas # "early" /\ ~t.pending_tr /\ t.st # "Connected"
      BY <1>3, <2>4 DEF Active, Credited, Held, SameCall, SameInvite, SameMedia, SameRel, SameTimers
    <2> QED  BY <1>4, <2>2, <2>4, <2>5, <2>6
  <1> QED  BY <1>5, <1>6, <1>7, <1>8

\* The response that crossed a CANCEL.
LEMMA CancellingResponseMoves ==
    ASSUME NEW r \in UaRecords, LegInv(r), NEW m \in Responses, r.st = "Cancelling"
    PROVE  Moves(r, Cancelling_RecvResponse(r, m))
  <1> DEFINE c == CancelTimers(r, {"idle"})
             b == SendBYE(c)
  <1>1. /\ c \in UaRecords
        /\ SameCall(r, c) /\ SameInvite(r, c) /\ SameMedia(r, c) /\ SameRel(r, c) /\ SameHistory(r, c)
        /\ c.faults = r.faults /\ c.q = r.q /\ c.arm = r.arm \ {"idle"}
    BY CancelsTimers
  <1>2. Cancelling_RecvResponse(r, m)
          = CASE m.code \in Provisional -> r
              [] m.code = "2xx" -> ChangeState(b, "Disconnected")
              [] OTHER          -> ChangeState(c, "Dead")
    BY DEF Cancelling_RecvResponse
  <1> HIDE DEF c
  <1>3. /\ b \in UaRecords
        /\ SameCall(c, b) /\ SameInvite(c, b) /\ SameMedia(c, b) /\ SameRel(c, b) /\ SameTimers(c, b)
        /\ b.faults = c.faults /\ b.q = c.q /\ (b.bye <=> c.bye \/ ~c.gone) /\ b.dialog = c.dialog
        /\ b.early_bye = c.early_bye /\ b.cancelled = c.cancelled /\ b.refer = c.refer
    BY <1>1, SendsBYE
  <1> HIDE DEF b
  <1>4. /\ r.faults = {} /\ (r.uas = "early" => r.early_bye) /\ "cr" \notin r.arm /\ ~r.pending_tr
        /\ (r.dialog \/ r.uac \in {"calling", "proceeding"} => r.cancelled \/ r.bye \/ r.refer # "none")
        /\ Held(r)
    BY DEF LegInv, Answering, Closing, Timing, Allowed, Asked, UasEarly, Over, IsConnected
  <1>5. Ending(c)
    BY <1>1, <1>4 DEF Ending, Held, SameCall, SameInvite, SameMedia, SameRel, SameHistory
  <1>6. Ending(b)
    BY <1>3, <1>5 DEF Ending, Held, SameCall, SameInvite, SameMedia, SameRel, SameTimers
  <1>7. /\ "Disconnected" \in Over /\ "Dead" \in Over
        /\ Quiet(r.q, c.q) /\ Quiet(r.q, b.q)
    BY <1>1, <1>3, QuietSame DEF Over
  <1>8. Moves(r, ChangeState(b, "Disconnected")) /\ Moves(r, ChangeState(c, "Dead"))
    BY <1>1, <1>3, <1>5, <1>6, <1>7, EndMoves
  <1>9. Moves(r, r)
    BY Stays
  <1> QED  BY <1>2, <1>8, <1>9 DEF Provisional

LEMMA ChallengeMoves ==
    ASSUME NEW r \in UaRecords, LegInv(r), r.uac \in {"calling", "proceeding"}
    PROVE  Moves(r, processChallenge(r))
  <1> DEFINE h == Heard(r, "calling", r.dialog)
  <1>1. "calling" \in Outcomes /\ r.dialog \in BOOLEAN
    BY ZenonT(60) DEF Outcomes, UaRecords
  <1>2. Moves(r, h) /\ r.st # "None"
    BY <1>1, HeardMoves
  <1>3. PICK s : s = [h EXCEPT !.auth = TRUE]  OBVIOUS
  <1>4. processChallenge(r) = s
    BY <1>3 DEF processChallenge, Heard, UaRecords
  <1> HIDE DEF h
  <1>5. h \in UaRecords /\ LegInv(h)
    BY <1>2 DEF Moves
  <1>6. s \in UaRecords
    BY <1>3, <1>5, ZenonT(60) DEF UaRecords
  <1>7. /\ SameCall(h, s) /\ SameInvite(h, s) /\ SameTimers(h, s) /\ SameHistory(h, s)
        /\ SameMedia(h, s) /\ SameRel(h, s) /\ s.faults = h.faults /\ s.q = h.q
    BY <1>3, <1>5 DEF UaRecords, SameCall, SameInvite, SameMedia, SameTimers, SameHistory, SameRel
  <1>8. Reliable(s) /\ Held(s)
    BY <1>5, <1>7 DEF LegInv, Reliable, Held, SameCall, SameMedia, SameRel
  <1>9. h.st # "None"
    BY <1>2 DEF Moves
  <1>10. Moves(h, s)
    BY <1>5, <1>6, <1>7, <1>8, <1>9, AsideMoves, QuietSame DEF SameMedia
  <1> QED  BY <1>2, <1>4, <1>10, MovesTwice

LEMMA ResponseMoves ==
    ASSUME NEW r \in UaRecords, LegInv(r), NEW m \in Responses, r.uac \in {"calling", "proceeding"}
    PROVE  Moves(r, RecvResponse(r, m)) /\ r.st # "None"
  <1>1. PICK c : c = IF m.code \in Provisional THEN "proceeding" ELSE "done"  OBVIOUS
  <1>2. PICK d \in BOOLEAN : d <=> (r.dialog \/ (m.code = "2xx" /\ m.tag))
    OBVIOUS
  <1>3. r.dialog \in BOOLEAN /\ m.tag \in BOOLEAN
    BY DEF UaRecords, Responses
  <1>4. d = (r.dialog \/ (m.code = "2xx" /\ m.tag))
    BY <1>2, <1>3
  <1> DEFINE s == Heard(r, c, d)
  <1>5. RecvResponse(r, m)
          = IF m.code = "401" /\ Auth /\ ~r.auth /\ ~r.gone THEN processChallenge(r) ELSE
            CASE r.st = "UacTrying"   -> UacTrying_RecvResponse(s, m)
              [] r.st = "UacRinging"  -> UacRinging_RecvResponse(s, m)
              [] r.st = "UacUpdating" -> UacUpdating_RecvResponse(s, m)
              [] r.st = "Cancelling"  -> Cancelling_RecvResponse(s, m)
              [] OTHER                -> s
    BY <1>1, <1>4 DEF RecvResponse, Heard
  <1>6. c \in Outcomes
    BY <1>1 DEF Outcomes
  <1>7. /\ s \in UaRecords
        /\ SameCall(r, s) /\ SameMedia(r, s) /\ SameRel(r, s) /\ SameTimers(r, s)
        /\ s.faults = r.faults /\ s.q = r.q /\ s.uas = r.uas /\ s.cancelCB = r.cancelCB
        /\ s.uac = c /\ s.dialog = d
    BY <1>6, Hears
  <1>8. r.st # "None"
    BY DEF LegInv, Closing, NewUA
  <1>9. CASE m.code = "401" /\ Auth /\ ~r.auth /\ ~r.gone
    <2>1. RecvResponse(r, m) = processChallenge(r)
      BY <1>5, <1>9
    <2> QED  BY <1>8, <2>1, ChallengeMoves
  <1>10. CASE ~(m.code = "401" /\ Auth /\ ~r.auth /\ ~r.gone) /\ r.st \in {"UacTrying", "UacRinging"}
    <2> HIDE DEF s
    <2>1. /\ Dialling(r) /\ ~r.dialog
          /\ "ex" \in Timed => \E x \in Before : x \in r.arm \cup r.pop
      BY <1>10, LegDialling
    <2>2. /\ Dialling(s)
          /\ "ex" \in Timed => \E x \in Before : x \in s.arm \cup s.pop
      BY <1>7, <2>1 DEF Dialling, Active, Held, SameCall, SameMedia, SameRel, SameTimers
    <2>3. s.dialog <=> (m.code = "2xx" /\ m.tag)
      BY <1>2, <1>7, <2>1
    <2>4. s.uac = (IF m.code \in Provisional THEN "proceeding" ELSE "done")
      BY <1>1, <1>7
    <2>5. PICK v : v = RecvResponse(r, m)  OBVIOUS
    <2>6. s.st = r.st
      BY <1>7 DEF SameCall
    <2>7. Moves(s, v)
      <3>1. CASE r.st = "UacTrying"
        <4>1. v = UacTrying_RecvResponse(s, m)
          BY <1>5, <1>10, <2>5, <3>1
        <4> QED  BY <1>7, <2>2, <2>3, <2>4, <2>6, <3>1, <4>1, DiallingMoves
      <3>2. CASE r.st = "UacRinging"
        <4>1. v = UacRinging_RecvResponse(s, m)
          BY <1>5, <1>10, <2>5, <3>2
        <4> QED  BY <1>7, <2>2, <2>3, <2>4, <2>6, <3>2, <4>1, DiallingMoves
      <3> QED  BY <1>10, <3>1, <3>2
    <2>8. Moves(r, v)
      BY <1>7, <2>6, <2>7 DEF Moves, BoundCancel
    <2> QED  BY <1>8, <2>5, <2>8
  <1>11. CASE ~(m.code = "401" /\ Auth /\ ~r.auth /\ ~r.gone) /\ r.st \notin {"UacTrying", "UacRinging"}
    <2>1. Moves(r, s)
      BY <1>6, <1>11, HeardMoves
    <2> HIDE DEF s
    <2>2. s.st = r.st /\ LegInv(s)
      BY <1>7, <2>1 DEF SameCall, Moves
    <2>3. PICK v : v = RecvResponse(r, m)  OBVIOUS
    <2>4. Moves(s, v)
      <3>1. CASE r.st = "UacUpdating"
        <4>1. v = UacUpdating_RecvResponse(s, m)
          BY <1>5, <1>11, <2>3, <3>1
        <4> QED  BY <1>7, <2>2, <3>1, <4>1, UpdatingResponseMoves
      <3>2. CASE r.st = "Cancelling"
        <4>1. v = Cancelling_RecvResponse(s, m)
          BY <1>5, <1>11, <2>3, <3>2
        <4> QED  BY <1>7, <2>2, <3>2, <4>1, CancellingResponseMoves
      <3>3. CASE r.st \notin {"UacUpdating", "Cancelling"}
        <4>1. v = s
          BY <1>5, <1>11, <2>3, <3>3
        <4> QED  BY <1>7, <2>2, <4>1, Stays
      <3> QED  BY <3>1, <3>2, <3>3
    <2> QED  BY <1>8, <2>1, <2>3, <2>4, MovesTwice
  <1> QED  BY <1>9, <1>10, <1>11

-----------------------------------------------------------------------------
(* The invariant of the call. TryOnce: leg A asks leg O to try once, before *)
(* anything else, so a Try never finds leg O in any other state than None.  *)
IsTry(c) == c.c = "recv" /\ c.e.k = "Try"
NoTry(cs) == \A i \in DOMAIN cs : ~IsTry(cs[i])
Once(cs) == \A i, j \in DOMAIN cs : IsTry(cs[i]) /\ IsTry(cs[j]) => i = j
Asks(cs) == \A i \in DOMAIN cs : cs[i].c = "recv" /\ cs[i].u = "O" => IsTry(cs[i])
Right(cs) == \A i \in DOMAIN cs : IsTry(cs[i]) => cs[i].u = "O"
Binds(u, cs) == \E i \in DOMAIN cs : cs[i] = Bind(u)

Legs == \A u \in Leg : LegInv(ua[u])

\* A leg that a CANCEL may end has its handler bound, or the request that binds it
\* has not returned yet.
Bound == \A u \in Leg : BoundCancel(ua[u]) # "none" =>
             ua[u].cancelCB = BoundCancel(ua[u]) \/ Binds(u, todo)

TryOnce ==
    /\ \A i \in DOMAIN ua["O"].q : ua["O"].q[i].k # "Try"
    /\ \A i \in DOMAIN ua["A"].q :
           ua["A"].q[i].k = "Try" => i = 1 /\ ua["O"].st = "None" /\ NoTry(todo)
    /\ Right(todo)
    /\ ua["O"].st = "None" => Once(todo) /\ Asks(todo)
    /\ ua["O"].st # "None" => NoTry(todo)

\* Nothing happens before the call arrives on leg A.
Fresh == ua["A"].st = "None" => ua["O"].st = "None" /\ todo = <<>> /\ ~ccmap

IInv == TypeOK /\ Legs /\ Bound /\ TryOnce /\ Fresh

-----------------------------------------------------------------------------
(* The calls that are still to be made.                                     *)
LEMMA CallTypes ==
    \A u \in Leg : /\ Emit(u) \in Calls /\ Emit(u).c = "emit" /\ Emit(u).u = u
                   /\ Bind(u) \in Calls /\ Bind(u).c = "bind" /\ Bind(u).u = u
                   /\ \A e \in Events : /\ Recv(u, e) \in Calls
                                        /\ Recv(u, e).c = "recv" /\ Recv(u, e).u = u
                                        /\ Recv(u, e).e = e
  BY DEF Emit, Bind, Recv, Calls

LEMMA Empties ==
    /\ <<>> \in Seq(Calls) /\ NoTry(<<>>) /\ Once(<<>>) /\ Asks(<<>>) /\ Right(<<>>)
    /\ \A u : ~Binds(u, <<>>)
  BY DEF NoTry, Once, Asks, Right, Binds

LEMMA Pushes ==
    ASSUME NEW cs \in Seq(Calls), NEW c \in Calls
    PROVE  LET ds == <<c>> \o cs
           IN  /\ ds \in Seq(Calls)
               /\ ~IsTry(c) /\ NoTry(cs) => NoTry(ds)
               /\ Once(cs) /\ (IsTry(c) => NoTry(cs)) => Once(ds)
               /\ Asks(cs) /\ (c.c = "recv" /\ c.u = "O" => IsTry(c)) => Asks(ds)
               /\ Right(cs) /\ (IsTry(c) => c.u = "O") => Right(ds)
               /\ \A u : Binds(u, cs) => Binds(u, ds)
  <1> DEFINE ds == <<c>> \o cs
  <1>1. ds \in Seq(Calls) /\ Len(ds) = Len(cs) + 1
    OBVIOUS
  <1>2. ds[1] = c /\ \A i \in DOMAIN ds : i # 1 => i - 1 \in DOMAIN cs /\ ds[i] = cs[i - 1]
    OBVIOUS
  <1>3. \A i \in DOMAIN cs : i + 1 \in DOMAIN ds /\ ds[i + 1] = cs[i]
    OBVIOUS
  <1>4. \A i \in DOMAIN ds : i \in Nat
    OBVIOUS
  <1> HIDE DEF ds
  <1>5. /\ ~IsTry(c) /\ NoTry(cs) => NoTry(ds)
        /\ Asks(cs) /\ (c.c = "recv" /\ c.u = "O" => IsTry(c)) => Asks(ds)
        /\ Right(cs) /\ (IsTry(c) => c.u = "O") => Right(ds)
    <2>1. ~IsTry(c) /\ NoTry(cs) => NoTry(ds)
      BY <1>2 DEF NoTry
    <2>2. Asks(cs) /\ (c.c = "recv" /\ c.u = "O" => IsTry(c)) => Asks(ds)
      BY <1>2 DEF Asks
    <2>3. Right(cs) /\ (IsTry(c) => c.u = "O") => Right(ds)
      BY <1>2 DEF Right
    <2> QED  BY <2>1, <2>2, <2>3
  <1>6. Once(cs) /\ (IsTry(c) => NoTry(cs)) => Once(ds)
    <2> SUFFICES ASSUME Once(cs), IsTry(c) => NoTry(cs), NEW i \in DOMAIN ds, NEW j \in DOMAIN ds,
                        IsTry(ds[i]), IsTry(ds[j])
                 PROVE  i = j
      BY DEF Once
    <2>1. CASE i = 1 \/ j = 1
      BY <2>1, <1>2 DEF NoTry
    <2>2. CASE i # 1 /\ j # 1
      <3>1. i - 1 = j - 1
        BY <1>2, <2>2 DEF Once
      <3> QED  BY <1>4, <3>1
    <2> QED  BY <2>1, <2>2
  <1>7. \A u : Binds(u, cs) => Binds(u, ds)
    BY <1>3 DEF Binds
  <1> QED  BY <1>1, <1>5, <1>6, <1>7 DEF ds

LEMMA Pops ==
    ASSUME NEW cs \in Seq(Calls), cs # <<>>
    PROVE  /\ Head(cs) \in Calls
           /\ NoTry(cs) => NoTry(Tail(cs)) /\ ~IsTry(Head(cs))
           /\ Once(cs) => Once(Tail(cs)) /\ (IsTry(Head(cs)) => NoTry(Tail(cs)))
           /\ Asks(cs) => Asks(Tail(cs)) /\ (Head(cs).c = "recv" /\ Head(cs).u = "O" => IsTry(Head(cs)))
           /\ Right(cs) => Right(Tail(cs)) /\ (IsTry(Head(cs)) => Head(cs).u = "O")
           /\ Tail(cs) \in Seq(Calls)
           /\ \A u : Binds(u, cs) => Binds(u, Tail(cs)) \/ Head(cs) = Bind(u)
  <1>1. PICK ds : ds = Tail(cs)  OBVIOUS
  <1>2. PICK c : c = Head(cs)  OBVIOUS
  <1>3. ds \in Seq(Calls) /\ c \in Calls /\ 1 \in DOMAIN cs /\ c = cs[1]
    BY <1>1, <1>2
  <1>4. \A i \in DOMAIN ds : i + 1 \in DOMAIN cs /\ ds[i] = cs[i + 1] /\ i + 1 # 1 /\ i \in Nat
    BY <1>1
  <1>5. \A i \in DOMAIN cs : i # 1 => i - 1 \in DOMAIN ds /\ ds[i - 1] = cs[i]
    BY <1>1
  <1>6. NoTry(cs) => NoTry(ds) /\ ~IsTry(c)
    BY <1>3, <1>4 DEF NoTry
  <1>7. Asks(cs) => Asks(ds) /\ (c.c = "recv" /\ c.u = "O" => IsTry(c))
    BY <1>3, <1>4 DEF Asks
  <1>8. Right(cs) => Right(ds) /\ (IsTry(c) => c.u = "O")
    BY <1>3, <1>4 DEF Right
  <1>9. ASSUME Once(cs) PROVE Once(ds) /\ (IsTry(c) => NoTry(ds))
    <2>1. IsTry(c) => NoTry(ds)
      BY <1>3, <1>4, <1>9 DEF Once, NoTry
    <2>2. ASSUME NEW i \in DOMAIN ds, NEW j \in DOMAIN ds, IsTry(ds[i]), IsTry(ds[j])
          PROVE  i = j
      <3>1. i + 1 = j + 1 /\ i \in Nat /\ j \in Nat
        BY <1>4, <1>9, <2>2 DEF Once
      <3> QED  BY <3>1
    <2> QED  BY <2>1, <2>2 DEF Once
  <1>10. \A u : Binds(u, cs) => Binds(u, ds) \/ c = Bind(u)
    BY <1>3, <1>5 DEF Binds
  <1> QED  BY <1>1, <1>2, <1>3, <1>6, <1>7, <1>8, <1>9, <1>10

-----------------------------------------------------------------------------
(* The steps.                                                               *)
LEMMA LegTypes ==
    ASSUME IInv
    PROVE  /\ \A u \in Leg : ua[u] \in UaRecords /\ LegInv(ua[u])
           /\ "A" \in Leg /\ "O" \in Leg
           /\ todo \in Seq(Calls) /\ nreq \in 0..MaxReq /\ nprov \in 0..MaxProv
           /\ unsent \in BOOLEAN /\ MaxReq \in Nat /\ MaxProv \in Nat
           /\ \A u \in Leg : ua[u].st # "None" => ua["A"].st # "None"
           /\ todo # <<>> \/ ccmap => ua["A"].st # "None"
           /\ \A u \in Leg : ua[u].st = "None" => ua[u] = NewUA
  <1>1. /\ \A u \in Leg : ua[u] \in UaRecords /\ LegInv(ua[u])
        /\ "A" \in Leg /\ "O" \in Leg /\ MaxReq \in Nat /\ MaxProv \in Nat
        /\ todo \in Seq(Calls) /\ nreq \in 0..MaxReq /\ nprov \in 0..MaxProv /\ unsent \in BOOLEAN
    BY B2bCallAssumption DEF IInv, TypeOK, Legs, Leg
  <1>2. \A u \in Leg : ua[u].st # "None" => ua["A"].st # "None"
    BY DEF IInv, Fresh, Leg
  <1>3. todo # <<>> \/ ccmap => ua["A"].st # "None"
    BY DEF IInv, Fresh
  <1>4. \A u \in Leg : ua[u].st = "None" => ua[u] = NewUA
    BY <1>1 DEF LegInv, Closing
  <1> QED  BY <1>1, <1>2, <1>3, <1>4

\* One leg changes.
LEMMA Turned ==
    ASSUME IInv, NEW u \in Leg, NEW r, NEW cs, Becomes(u, r, cs)
    PROVE  /\ ua' = [ua EXCEPT ![u] = r]
           /\ ua'[u] = r /\ \A v \in Leg : v # u => ua'[v] = ua[v]
           /\ todo' = cs /\ ccmap' \in BOOLEAN
           /\ r \in UaRecords => ua' \in [Leg -> UaRecords]
           /\ LegInv(r) => Legs'
  <1>1. ua \in [Leg -> UaRecords] /\ ccmap \in BOOLEAN
    BY DEF IInv, TypeOK
  <1>2. ua' = [ua EXCEPT ![u] = r] /\ todo' = cs /\ ccmap' \in BOOLEAN
    BY <1>1 DEF Becomes
  <1>3. ua'[u] = r /\ \A v \in Leg : v # u => ua'[v] = ua[v]
    BY <1>1, <1>2
  <1>4. r \in UaRecords => ua' \in [Leg -> UaRecords]
    BY <1>1, <1>2
  <1>5. LegInv(r) => Legs'
    BY <1>3 DEF IInv, Legs
  <1> QED  BY <1>2, <1>3, <1>4, <1>5

\* A leg of a call that has begun changes, and makes calls that are no Try.
LEMMA Steps ==
    ASSUME IInv, ua["A"].st # "None", NEW u \in Leg, NEW r \in UaRecords, LegInv(r),
           ua[u].st = "None" <=> r.st = "None", Quiet(ua[u].q, r.q),
           NEW cs \in Seq(Calls), Becomes(u, r, cs),
           BoundCancel(r) # "none" => r.cancelCB = BoundCancel(r) \/ Binds(u, cs),
           Right(cs), NoTry(todo) => NoTry(cs), ua["O"].st = "None" => Once(cs) /\ Asks(cs),
           \A v \in Leg : v # u /\ Binds(v, todo) => Binds(v, cs),
           nreq' \in 0..MaxReq, nprov' \in 0..MaxProv /\ unsent' \in BOOLEAN
    PROVE  IInv'
  <1>1. /\ ua'[u] = r /\ \A v \in Leg : v # u => ua'[v] = ua[v]
        /\ todo' = cs /\ ccmap' \in BOOLEAN
        /\ ua' \in [Leg -> UaRecords] /\ Legs'
    BY Turned
  <1>2. TypeOK'
    BY <1>1 DEF TypeOK
  <1>3. Bound'
    <2> SUFFICES ASSUME NEW v \in Leg, BoundCancel(ua'[v]) # "none"
                 PROVE  ua'[v].cancelCB = BoundCancel(ua'[v]) \/ Binds(v, cs)
      BY <1>1 DEF Bound
    <2>1. CASE v = u
      BY <1>1, <2>1
    <2>2. CASE v # u
      <3>1. BoundCancel(ua[v]) # "none" => ua[v].cancelCB = BoundCancel(ua[v]) \/ Binds(v, todo)
        BY DEF IInv, Bound
      <3> QED  BY <1>1, <2>2, <3>1
    <2> QED  BY <2>1, <2>2
  <1>4. \A v \in Leg : /\ ua'[v].st = "None" <=> ua[v].st = "None"
                       /\ Quiet(ua[v].q, ua'[v].q)
    <2>1. ASSUME NEW v \in Leg, v = u PROVE /\ ua'[v].st = "None" <=> ua[v].st = "None"
                                            /\ Quiet(ua[v].q, ua'[v].q)
      BY <1>1, <2>1
    <2>2. ASSUME NEW v \in Leg, v # u PROVE /\ ua'[v].st = "None" <=> ua[v].st = "None"
                                            /\ Quiet(ua[v].q, ua'[v].q)
      BY <1>1, <2>2, QuietSame
    <2> QED  BY <2>1, <2>2
  <1>5. "A" \in Leg /\ "O" \in Leg
    BY DEF Leg
  <1>6. TryOnce'
    <2>1. \A i \in DOMAIN ua'["O"].q : ua'["O"].q[i].k # "Try"
      BY <1>4, <1>5 DEF IInv, TryOnce, Quiet
    <2>2. \A i \in DOMAIN ua'["A"].q :
             ua'["A"].q[i].k = "Try" => i = 1 /\ ua'["O"].st = "None" /\ NoTry(cs)
      BY <1>4, <1>5 DEF IInv, TryOnce, Quiet
    <2>3. ua'["O"].st # "None" => NoTry(cs)
      BY <1>4, <1>5 DEF IInv, TryOnce
    <2>4. ua'["O"].st = "None" => Once(cs) /\ Asks(cs)
      BY <1>4, <1>5
    <2> QED  BY <1>1, <2>1, <2>2, <2>3, <2>4 DEF TryOnce
  <1>7. Fresh'
    BY <1>4, <1>5 DEF Fresh
  <1> QED  BY <1>1, <1>2, <1>3, <1>6, <1>7 DEF IInv

\* A handler moves it.
LEMMA Turns ==
    ASSUME IInv, ua["A"].st # "None", NEW u \in Leg, NEW r, Moves(ua[u], r),
           ua[u].st = "None" => r.st = "None",
           NEW cs \in Seq(Calls), Becomes(u, r, cs),
           Right(cs), NoTry(todo) => NoTry(cs), ua["O"].st = "None" => Once(cs) /\ Asks(cs),
           \A v \in Leg : Binds(v, todo) => Binds(v, cs),
           nreq' \in 0..MaxReq, nprov' \in 0..MaxProv /\ unsent' \in BOOLEAN
    PROVE  IInv'
  <1>1. /\ r \in UaRecords /\ LegInv(r) /\ (ua[u].st = "None" <=> r.st = "None") /\ Quiet(ua[u].q, r.q)
    BY DEF Moves
  <1>2. BoundCancel(r) # "none" => r.cancelCB = BoundCancel(r) \/ Binds(u, cs)
    BY DEF Moves, IInv, Bound
  <1> QED  BY <1>1, <1>2, Steps

\* The session lock was free: the handler makes the calls cs.
LEMMA Runs ==
    ASSUME IInv, Unlocked, NEW u \in Leg, ua[u].st # "None", NEW r, Moves(ua[u], r),
           NEW cs \in Seq(Calls), Becomes(u, r, cs),
           \A i \in DOMAIN cs : ~IsTry(cs[i]),
           u = "A" /\ ua["O"].st = "None" => Asks(cs),
           nreq' \in 0..MaxReq, nprov' \in 0..MaxProv /\ unsent' \in BOOLEAN
    PROVE  IInv'
  <1>1. ua["A"].st # "None"
    BY LegTypes
  <1>2. NoTry(cs) /\ Once(cs) /\ Right(cs)
    BY DEF NoTry, Once, Right
  <1>3. \A v \in Leg : ~Binds(v, todo)
    BY Empties DEF Unlocked
  <1>4. ua["O"].st = "None" => Asks(cs)
    BY DEF Leg
  <1> QED  BY <1>1, <1>2, <1>3, <1>4, Turns

\* Most of them only emit the events of the leg.
LEMMA RunsEmit ==
    ASSUME IInv, Unlocked, NEW u \in Leg, ua[u].st # "None", NEW r, Moves(ua[u], r),
           Becomes(u, r, <<Emit(u)>>) \/ Becomes(u, r, <<>>),
           nreq' \in 0..MaxReq, nprov' \in 0..MaxProv /\ unsent' \in BOOLEAN
    PROVE  IInv'
  <1>1. <<Emit(u)>> \in Seq(Calls) /\ Emit(u).c = "emit"
    BY CallTypes
  <1>2. \A i \in DOMAIN <<Emit(u)>> : <<Emit(u)>>[i].c = "emit"
    BY <1>1
  <1>3. (\A i \in DOMAIN <<Emit(u)>> : ~IsTry(<<Emit(u)>>[i])) /\ Asks(<<Emit(u)>>)
    BY <1>2 DEF IsTry, Asks
  <1>4. CASE Becomes(u, r, <<Emit(u)>>)
    BY <1>1, <1>3, <1>4, Runs
  <1>5. CASE Becomes(u, r, <<>>)
    BY <1>5, Runs, Empties DEF NoTry
  <1> QED  BY <1>4, <1>5

LEMMA Begins == Init => IInv
  <1> SUFFICES ASSUME Init PROVE IInv
    OBVIOUS
  <1>1. \A u \in Leg : ua[u] = NewUA
    BY DEF Init
  <1>2. TypeOK
    <2>1. ua \in [Leg -> UaRecords]
      BY NewLeg DEF Init
    <2>2. <<>> \in Seq(Calls) /\ 0 \in 0..MaxReq /\ 0 \in 0..MaxProv
      BY B2bCallAssumption
    <2> QED  BY <2>1, <2>2 DEF Init, TypeOK
  <1>3. Legs
    BY <1>1, NewLeg DEF Legs
  <1>4. NewUA.st = "None" /\ NewUA.q = <<>> /\ BoundCancel(NewUA) = "none"
    BY DEF NewUA, BoundCancel, UasEarly
  <1>5. Bound
    BY <1>1, <1>4 DEF Bound
  <1>6. "A" \in Leg /\ "O" \in Leg /\ todo = <<>>
    BY DEF Leg, Init
  <1>7. TryOnce
    BY <1>1, <1>4, <1>6, Empties DEF TryOnce
  <1>8. Fresh
    BY <1>1, <1>4, <1>6 DEF Fresh, Init
  <1> QED  BY <1>2, <1>3, <1>5, <1>7, <1>8 DEF IInv

LEMMA Stutters == IInv /\ UNCHANGED vars => IInv'
  BY DEF vars, IInv, TypeOK, Legs, Bound, TryOnce, Fresh

\* The event at the head of the queue of a leg goes to the other one.
LEMMA Emits ==
    ASSUME IInv, emitPendingEvents
    PROVE  IInv' /\ \A v \in Leg : ua'[v].st = ua[v].st
  <1> DEFINE u == Head(todo).u
             q == ua[u].q
  <1>1. todo \in Seq(Calls) /\ todo # <<>> /\ Head(todo).c = "emit" /\ Head(todo) \in Calls
        /\ UNCHANGED <<nreq, nprov, unsent>>
    BY LegTypes, Pops DEF emitPendingEvents
  <1>2. u \in Leg
    BY <1>1 DEF Calls
  <1>3. /\ \A v \in Leg : ua[v] \in UaRecords /\ LegInv(ua[v])
        /\ "A" \in Leg /\ "O" \in Leg /\ ua["A"].st # "None"
        /\ nreq' \in 0..MaxReq /\ nprov' \in 0..MaxProv /\ unsent' \in BOOLEAN
    BY <1>1, LegTypes
  <1>4. CASE ~(q # <<>> /\ ~ua[u].gone)
    <2>1. Becomes(u, ua[u], Tail(todo))
      BY <1>4 DEF emitPendingEvents
    <2> HIDE DEF u
    <2>2. Moves(ua[u], ua[u])
      BY <1>2, <1>3, Stays
    <2>3. /\ Tail(todo) \in Seq(Calls) /\ Right(Tail(todo))
          /\ NoTry(todo) => NoTry(Tail(todo))
          /\ ua["O"].st = "None" => Once(Tail(todo)) /\ Asks(Tail(todo))
      BY <1>1, Pops DEF IInv, TryOnce
    <2>4. \A v \in Leg : Binds(v, todo) => Binds(v, Tail(todo))
      BY <1>1, Pops, CallTypes
    <2>5. IInv'
      BY <1>2, <1>3, <2>1, <2>2, <2>3, <2>4, Turns
    <2> QED  BY <1>2, <2>1, <2>5, Turned
  <1>5. CASE q # <<>> /\ ~ua[u].gone
    <2> DEFINE r == [ua[u] EXCEPT !.q = Tail(@)]
               e == Head(q)
               c == RecvEventOf(u, e)
               cs == <<c>> \o todo
    <2>1. Becomes(u, r, cs)
      BY <1>5 DEF emitPendingEvents
    <2> HIDE DEF u
    <2>2. ua[u] \in UaRecords /\ LegInv(ua[u])
      BY <1>2, <1>3
    <2>3. q \in Seq(Events)
      BY <2>2 DEF UaRecords
    <2>4. e \in Events /\ Tail(q) \in Seq(Events) /\ e = q[1] /\ 1 \in DOMAIN q
      BY <1>5, <2>3
    <2>5. \A i \in DOMAIN Tail(q) : i + 1 \in DOMAIN q /\ Tail(q)[i] = q[i + 1] /\ i + 1 # 1
      BY <1>5, <2>3
    <2>6. r \in UaRecords
      BY <2>2, <2>4, ZenonT(60) DEF UaRecords
    <2>7. /\ SameCall(ua[u], r) /\ SameInvite(ua[u], r) /\ SameMedia(ua[u], r) /\ SameRel(ua[u], r)
          /\ SameTimers(ua[u], r) /\ SameHistory(ua[u], r) /\ r.faults = ua[u].faults /\ r.q = Tail(q)
      BY <2>2 DEF UaRecords, SameCall, SameInvite, SameMedia, SameRel, SameTimers, SameHistory
    <2> HIDE DEF r, q, e
    <2>8. ua[u].st # "None"
      BY <1>5, <2>2 DEF LegInv, Closing, NewUA, q
    <2>9. LegInv(r) /\ BoundCancel(r) = BoundCancel(ua[u])
      BY <2>2, <2>7, <2>8 DEF LegInv, Answering, Reliable, Closing, Timing, Allowed, Covered, Held,
         SameCall, SameInvite, SameMedia, SameRel, SameTimers, SameHistory, BoundCancel
    <2>10. /\ ua'[u] = r /\ \A v \in Leg : v # u => ua'[v] = ua[v]
           /\ todo' = cs /\ ccmap' \in BOOLEAN
           /\ ua' \in [Leg -> UaRecords] /\ Legs'
      BY <1>2, <2>1, <2>6, <2>9, Turned
    <2>11. \A v \in Leg : ua'[v].st = ua[v].st
      BY <1>2, <2>7, <2>10 DEF SameCall
    <2>12. /\ c \in Calls
           /\ IsTry(c) => u = "A" /\ e.k = "Try" /\ c.u = "O"
           /\ c.c = "recv" /\ c.u = "O" /\ ua["O"].st = "None" => IsTry(c)
      <3>1. Ev("Disconnect") \in Events /\ Ev("Disconnect").k = "Disconnect"
        BY DEF Ev, Events, EventKinds
      <3>2. CASE u = "A" /\ ua["O"].st = "None" /\ e.k # "Try"
        <4>1. c = Recv("A", Ev("Disconnect"))
          BY <3>2 DEF RecvEventOf
        <4> QED  BY <1>3, <3>1, <4>1, CallTypes DEF IsTry
      <3>3. CASE u = "A" /\ ~(ua["O"].st = "None" /\ e.k # "Try")
        <4>1. c = Recv("O", e)
          BY <3>3 DEF RecvEventOf, Other
        <4> QED  BY <1>3, <2>4, <3>3, <4>1, CallTypes DEF IsTry
      <3>4. CASE u = "O"
        <4>1. c = Recv("A", e)
          BY <3>4 DEF RecvEventOf, Other
        <4>2. e.k # "Try"
          BY <2>4, <3>4 DEF IInv, TryOnce, q
        <4> QED  BY <1>3, <2>4, <4>1, <4>2, CallTypes DEF IsTry
      <3> QED  BY <1>2, <3>2, <3>3, <3>4 DEF Leg
    <2> HIDE DEF c
    <2>13. IsTry(c) => NoTry(todo) /\ ua["O"].st = "None"
      BY <2>4, <2>12 DEF IInv, TryOnce, q
    <2>14. /\ cs \in Seq(Calls) /\ Right(cs)
           /\ ~IsTry(c) /\ NoTry(todo) => NoTry(cs)
           /\ ua["O"].st = "None" => Once(cs) /\ Asks(cs)
           /\ \A v : Binds(v, todo) => Binds(v, cs)
      BY <1>1, <2>12, <2>13, Pushes DEF IInv, TryOnce
    <2> HIDE DEF cs
    <2>15. TypeOK'
      BY <1>3, <2>10, <2>14 DEF TypeOK
    <2>16. Bound'
      <3> SUFFICES ASSUME NEW v \in Leg, BoundCancel(ua'[v]) # "none"
                   PROVE  ua'[v].cancelCB = BoundCancel(ua'[v]) \/ Binds(v, cs)
        BY <2>10 DEF Bound
      <3>1. BoundCancel(ua[v]) # "none" => ua[v].cancelCB = BoundCancel(ua[v]) \/ Binds(v, todo)
        BY DEF IInv, Bound
      <3>2. BoundCancel(ua'[v]) = BoundCancel(ua[v]) /\ ua'[v].cancelCB = ua[v].cancelCB
        BY <2>7, <2>9, <2>10 DEF SameInvite
      <3> QED  BY <2>14, <3>1, <3>2
    <2>17. TryOnce'
      <3>1. \A i \in DOMAIN ua'["O"].q : ua'["O"].q[i].k # "Try"
        <4>1. CASE u = "O"
          <5>1. \A i \in DOMAIN Tail(q) : Tail(q)[i].k # "Try"
            BY <2>5, <4>1 DEF IInv, TryOnce, q
          <5> QED  BY <2>7, <2>10, <4>1, <5>1
        <4>2. CASE u # "O"
          BY <1>3, <2>10, <4>2 DEF IInv, TryOnce
        <4> QED  BY <4>1, <4>2
      <3>2. \A i \in DOMAIN ua'["A"].q :
               ua'["A"].q[i].k = "Try" => i = 1 /\ ua'["O"].st = "None" /\ NoTry(cs)
        <4>1. CASE u = "A"
          <5>1. \A i \in DOMAIN Tail(q) : Tail(q)[i].k # "Try"
            BY <2>5, <4>1 DEF IInv, TryOnce, q
          <5> QED  BY <2>7, <2>10, <4>1, <5>1
        <4>2. CASE u # "A"
          <5>1. ~IsTry(c)
            BY <2>12, <4>2
          <5> QED  BY <1>3, <2>10, <2>11, <2>14, <4>2, <5>1 DEF IInv, TryOnce
        <4> QED  BY <4>1, <4>2
      <3>3. ua["O"].st # "None" => NoTry(cs)
        BY <2>13, <2>14 DEF IInv, TryOnce
      <3> QED  BY <1>3, <2>10, <2>11, <2>14, <3>1, <3>2, <3>3 DEF TryOnce
    <2>18. Fresh'
      BY <1>3, <2>11 DEF Fresh
    <2> QED  BY <2>10, <2>11, <2>15, <2>16, <2>17, <2>18 DEF IInv
  <1> QED  BY <1>4, <1>5

\* Leg O handles its Try, or cannot.
LEMMA HandlesTry ==
    ASSUME IInv, ua["O"].st = "None", todo # <<>>, IsTry(Head(todo)),
           NEW r, Moves(ua["O"], r), r.st # "None",
           NEW cs \in Seq(Calls), Becomes("O", r, cs),
           NoTry(Tail(todo)) => NoTry(cs), \A v \in Leg : Binds(v, todo) => Binds(v, cs),
           nreq' \in 0..MaxReq, nprov' \in 0..MaxProv /\ unsent' \in BOOLEAN
    PROVE  IInv'
  <1>1. /\ ua'["O"] = r /\ ua'["A"] = ua["A"]
        /\ todo' = cs /\ ccmap' \in BOOLEAN
        /\ ua' \in [Leg -> UaRecords] /\ Legs'
    BY Turned DEF Moves, Leg
  <1>2. todo \in Seq(Calls) /\ ua["A"].st # "None"
    BY LegTypes
  <1>3. Once(todo) /\ ~NoTry(todo)
    BY <1>2, Pops DEF IInv, TryOnce
  <1>4. NoTry(cs)
    BY <1>2, <1>3, Pops
  <1>5. TypeOK'
    BY <1>1 DEF TypeOK
  <1>6. Bound'
    <2> SUFFICES ASSUME NEW v \in Leg, BoundCancel(ua'[v]) # "none"
                 PROVE  ua'[v].cancelCB = BoundCancel(ua'[v]) \/ Binds(v, cs)
      BY <1>1 DEF Bound
    <2>1. BoundCancel(ua[v]) # "none" => ua[v].cancelCB = BoundCancel(ua[v]) \/ Binds(v, todo)
      BY DEF IInv, Bound
    <2>2. CASE v = "O"
      BY <1>1, <2>1, <2>2 DEF Moves
    <2>3. CASE v = "A"
      BY <1>1, <2>1, <2>3
    <2> QED  BY <2>2, <2>3 DEF Leg
  <1>7. TryOnce'
    <2>1. Quiet(ua["O"].q, ua'["O"].q)
      BY <1>1 DEF Moves
    <2>2. \A i \in DOMAIN ua'["O"].q : ua'["O"].q[i].k # "Try"
      BY <2>1 DEF IInv, TryOnce, Quiet
    <2>3. \A i \in DOMAIN ua'["A"].q : ua'["A"].q[i].k # "Try"
      BY <1>1, <1>3 DEF IInv, TryOnce
    <2>4. Right(cs)
      BY <1>4 DEF NoTry, Right
    <2> QED  BY <1>1, <1>4, <2>2, <2>3, <2>4 DEF TryOnce
  <1>8. Fresh'
    BY <1>1, <1>2 DEF Fresh
  <1> QED  BY <1>1, <1>5, <1>6, <1>7, <1>8 DEF IInv

LEMMA Handles ==
    ASSUME IInv, HandleEvent
    PROVE  IInv' /\ \A v \in Leg : ua[v].st \in Over => ua'[v].st \in Over
  <1> DEFINE u == Head(todo).u
             e == Head(todo).e
             cs == <<Emit(u)>> \o Tail(todo)
  <1>1. todo \in Seq(Calls) /\ todo # <<>> /\ Head(todo).c = "recv" /\ Head(todo) \in Calls
        /\ UNCHANGED <<nreq, nprov, unsent>>
    BY LegTypes, Pops DEF HandleEvent
  <1>2. u \in Leg /\ e \in Events
    BY <1>1 DEF Calls
  <1>3. PICK way \in IF e.k = "Update" THEN Ways ELSE {"sent"} :
           Becomes(u, RecvEvent(ua[u], e, way), cs)
    BY DEF HandleEvent
  <1>4. way \in Ways
    BY <1>3 DEF Ways
  <1>5. PICK r : r = RecvEvent(ua[u], e, way)  OBVIOUS
  <1>6. /\ \A v \in Leg : ua[v] \in UaRecords /\ LegInv(ua[v])
        /\ "A" \in Leg /\ "O" \in Leg /\ ua["A"].st # "None"
        /\ nreq' \in 0..MaxReq /\ nprov' \in 0..MaxProv /\ unsent' \in BOOLEAN
    BY <1>1, LegTypes
  <1>7. Becomes(u, r, cs)
    BY <1>3, <1>5
  <1>8. IsTry(Head(todo)) <=> e.k = "Try"
    BY <1>1 DEF IsTry
  <1> HIDE DEF u, e
  <1>9. Moves(ua[u], r) /\ (e.k = "Try" => r.st # "None")
    BY <1>2, <1>4, <1>5, <1>6, EventMoves
  <1>10. Emit(u) \in Calls /\ ~IsTry(Emit(u)) /\ Emit(u).c # "recv"
    BY <1>2, CallTypes DEF IsTry
  <1>11. /\ Tail(todo) \in Seq(Calls)
         /\ NoTry(todo) => NoTry(Tail(todo))
         /\ Once(todo) => Once(Tail(todo))
         /\ Asks(todo) => Asks(Tail(todo)) /\ (Head(todo).u = "O" => IsTry(Head(todo)))
         /\ Right(todo) => Right(Tail(todo)) /\ (IsTry(Head(todo)) => Head(todo).u = "O")
    BY <1>1, Pops
  <1>12. /\ cs \in Seq(Calls)
         /\ NoTry(Tail(todo)) => NoTry(cs)
         /\ Once(todo) => Once(cs)
         /\ Asks(todo) => Asks(cs)
         /\ Right(todo) => Right(cs)
         /\ \A v : Binds(v, Tail(todo)) => Binds(v, cs)
    BY <1>10, <1>11, Pushes
  <1>13. \A v \in Leg : Binds(v, todo) => Binds(v, cs)
    BY <1>1, <1>12, Pops, CallTypes
  <1>14. Right(todo) /\ (ua["O"].st = "None" => Once(todo) /\ Asks(todo)) /\ (ua["O"].st # "None" => NoTry(todo))
    BY DEF IInv, TryOnce
  <1>15. \A v \in Leg : ua[v].st \in Over => ua'[v].st \in Over
    BY <1>2, <1>7, <1>9, Turned DEF Moves
  <1> HIDE DEF cs
  <1>16. CASE ua[u].st # "None"
    <2>1. ua[u].st = "None" => r.st = "None"
      BY <1>16
    <2>2. /\ Right(cs) /\ (NoTry(todo) => NoTry(cs)) /\ (ua["O"].st = "None" => Once(cs) /\ Asks(cs))
      BY <1>11, <1>12, <1>14
    <2>3. IInv'
      BY <1>2, <1>6, <1>7, <1>9, <1>12, <1>13, <2>1, <2>2, Turns
    <2> QED  BY <1>15, <2>3
  <1>17. CASE ua[u].st = "None"
    <2>1. u = "O"
      BY <1>2, <1>6, <1>17 DEF Leg
    <2>2. IsTry(Head(todo))
      BY <1>11, <1>14, <1>17, <2>1 DEF u
    <2>3. IInv'
      BY <1>1, <1>6, <1>7, <1>8, <1>9, <1>12, <1>13, <1>17, <2>1, <2>2, HandlesTry
    <2> QED  BY <1>15, <2>3
  <1> QED  BY <1>16, <1>17

\* The INVITE of leg O cannot be sent.
LEMMA Errs ==
    ASSUME IInv, TryError
    PROVE  IInv' /\ \A v \in Leg : ua[v].st \in Over => ua'[v].st \in Over
  <1> DEFINE r == [ua["O"] EXCEPT !.st = "UacIdle"]
  <1>1. todo \in Seq(Calls) /\ todo # <<>> /\ Head(todo).c = "recv" /\ IsTry(Head(todo))
        /\ UNCHANGED <<nreq, nprov, unsent>> /\ Becomes("O", r, Tail(todo))
    BY LegTypes DEF TryError, IsTry
  <1>2. ua["O"].st = "None"
    BY <1>1, Pops DEF IInv, TryOnce
  <1>3. /\ ua["O"] \in UaRecords /\ LegInv(ua["O"]) /\ "O" \in Leg
        /\ nreq' \in 0..MaxReq /\ nprov' \in 0..MaxProv /\ unsent' \in BOOLEAN
    BY <1>1, LegTypes
  <1>4. Moves(ua["O"], r) /\ r.st # "None"
    BY <1>2, <1>3, StartMoves
  <1> HIDE DEF r
  <1>5. Tail(todo) \in Seq(Calls) /\ \A v \in Leg : Binds(v, todo) => Binds(v, Tail(todo))
    BY <1>1, Pops, CallTypes
  <1>6. IInv'
    BY <1>1, <1>2, <1>3, <1>4, <1>5, HandlesTry
  <1>7. \A v \in Leg : ua[v].st \in Over => ua'[v].st \in Over
    BY <1>1, <1>3, <1>4, Turned DEF Moves
  <1> QED  BY <1>6, <1>7

\* A re-INVITE cannot be sent: the leg stays Connected and the Update is lost.
LEMMA Drops ==
    ASSUME IInv, UpdateError
    PROVE  IInv' /\ \A v \in Leg : ua'[v].st = ua[v].st
  <1> DEFINE u == Head(todo).u
             e == Head(todo).e
             r == [ua[u] EXCEPT !.late_media = @ \/ ~e.body]
  <1>1. todo \in Seq(Calls) /\ todo # <<>> /\ Head(todo).c = "recv" /\ Head(todo) \in Calls
        /\ e.k = "Update" /\ ua[u].st = "Connected" /\ Becomes(u, r, Tail(todo))
        /\ UNCHANGED <<nreq, nprov>> /\ unsent' = TRUE
    BY LegTypes, Pops DEF UpdateError
  <1>2. u \in Leg /\ e \in Events
    BY <1>1 DEF Calls
  <1>3. /\ ua[u] \in UaRecords /\ LegInv(ua[u])
        /\ nreq' \in 0..MaxReq /\ nprov' \in 0..MaxProv /\ unsent' \in BOOLEAN
    BY <1>1, <1>2, LegTypes
  <1>4. r.st = ua[u].st
    BY <1>3 DEF UaRecords
  <1>5. ua[u].st # "None" /\ ua["A"].st # "None"
    BY <1>1, <1>2, LegTypes
  <1>6. ~IsTry(Head(todo))
    BY <1>1 DEF IsTry
  <1> HIDE DEF u, e
  <1>7. Moves(ua[u], r)
    BY <1>1, <1>2, <1>3, LateMoves
  <1> HIDE DEF r
  <1>8. /\ Tail(todo) \in Seq(Calls) /\ Right(Tail(todo))
        /\ NoTry(todo) => NoTry(Tail(todo))
        /\ ua["O"].st = "None" => Once(Tail(todo)) /\ Asks(Tail(todo))
    BY <1>1, Pops DEF IInv, TryOnce
  <1>9. \A v \in Leg : Binds(v, todo) => Binds(v, Tail(todo))
    BY <1>1, Pops, CallTypes
  <1>10. IInv'
    BY <1>1, <1>2, <1>3, <1>5, <1>7, <1>8, <1>9, Turns
  <1> QED  BY <1>1, <1>2, <1>4, <1>10, Turned

\* The request returns: CancelCB is bound to the handler of the state.
LEMMA Returns ==
    ASSUME IInv, RequestDone
    PROVE  IInv' /\ \A v \in Leg : ua'[v].st = ua[v].st
  <1> DEFINE u == Head(todo).u
             b == BoundCancel(ua[u])
             r == [ua[u] EXCEPT !.cancelCB = b]
  <1>1. todo \in Seq(Calls) /\ todo # <<>> /\ Head(todo).c = "bind" /\ Head(todo) \in Calls
        /\ UNCHANGED <<nreq, nprov, unsent>> /\ Becomes(u, r, Tail(todo))
    BY LegTypes, Pops DEF RequestDone
  <1>2. u \in Leg
    BY <1>1 DEF Calls
  <1> HIDE DEF u
  <1>3. /\ ua[u] \in UaRecords /\ LegInv(ua[u]) /\ ua["A"].st # "None"
        /\ nreq' \in 0..MaxReq /\ nprov' \in 0..MaxProv /\ unsent' \in BOOLEAN
    BY <1>1, <1>2, LegTypes
  <1>4. b \in {"none", "early", "updating"}
    BY DEF BoundCancel
  <1>5. r \in UaRecords
    <2> DEFINE C == {"none", "early", "updating"}
    <2>1. b \in C
      BY <1>4
    <2> HIDE DEF b, C
    <2> QED  BY <1>3, <2>1 DEF UaRecords, C
  <1>6. /\ SameCall(ua[u], r) /\ SameMedia(ua[u], r) /\ SameRel(ua[u], r)
        /\ SameTimers(ua[u], r) /\ SameHistory(ua[u], r) /\ r.faults = ua[u].faults /\ r.q = ua[u].q
        /\ r.uas = ua[u].uas /\ r.uac = ua[u].uac /\ r.cancelCB = b
    BY <1>3 DEF UaRecords, SameCall, SameMedia, SameRel, SameTimers, SameHistory
  <1>7. ua[u].st = "None" => r = ua[u]
    <2>1. ASSUME ua[u].st = "None" PROVE b = ua[u].cancelCB
      BY <1>3, <2>1 DEF LegInv, Closing, NewUA, BoundCancel, UasEarly
    <2> HIDE DEF b
    <2> QED  BY <1>3, <2>1 DEF UaRecords
  <1> HIDE DEF r
  <1>8. LegInv(r)
    BY <1>3, <1>6, <1>7 DEF LegInv, Answering, Reliable, Closing, Timing, Allowed, Covered, Held,
       SameCall, SameMedia, SameRel, SameTimers, SameHistory
  <1>9. BoundCancel(r) = b /\ r.st = ua[u].st /\ Quiet(ua[u].q, r.q)
    BY <1>6, QuietSame DEF BoundCancel, SameCall
  <1>10. /\ Tail(todo) \in Seq(Calls) /\ Right(Tail(todo))
         /\ NoTry(todo) => NoTry(Tail(todo))
         /\ ua["O"].st = "None" => Once(Tail(todo)) /\ Asks(Tail(todo))
    BY <1>1, Pops DEF IInv, TryOnce
  <1>11. \A v \in Leg : v # u /\ Binds(v, todo) => Binds(v, Tail(todo))
    BY <1>1, Pops, CallTypes DEF u
  <1> HIDE DEF b
  <1>12. IInv'
    BY <1>1, <1>2, <1>3, <1>5, <1>6, <1>8, <1>9, <1>10, <1>11, Steps
  <1> QED  BY <1>1, <1>2, <1>9, <1>12, Turned

\* The INVITE of a new call.
LEMMA NewCall ==
    ASSUME IInv, NEW body \in BOOLEAN, NEW rel \in BOOLEAN, OnNewDialog(body, rel)
    PROVE  IInv' /\ \A v \in Leg : ua[v].st \in Over => ua'[v].st \in Over
  <1> DEFINE r == UasIdle_RecvRequest(ua["A"], body, rel)
             cs == <<Emit("A"), Bind("A")>>
  <1>1. /\ todo = <<>> /\ ua["A"].st = "None" /\ ua["O"].st = "None"
        /\ ua' = [ua EXCEPT !["A"] = r] /\ todo' = cs /\ ccmap' = TRUE
        /\ nreq' = nreq /\ nprov' = nprov /\ unsent' = unsent
    BY DEF OnNewDialog, Unlocked, IInv, Fresh
  <1>2. /\ ua["A"] \in UaRecords /\ LegInv(ua["A"]) /\ "A" \in Leg /\ "O" \in Leg
        /\ ua["O"] = NewUA
    BY <1>1, LegTypes
  <1>3. r \in UaRecords /\ LegInv(r) /\ r.st = "UasTrying" /\ r.q = <<EvBody("Try", body)>>
    BY <1>1, <1>2, NewCallStarts
  <1> HIDE DEF r
  <1>4. ua \in [Leg -> UaRecords]
    BY DEF IInv, TypeOK
  <1>5. ua'["A"] = r /\ ua'["O"] = ua["O"] /\ ua' \in [Leg -> UaRecords]
    BY <1>1, <1>2, <1>3, <1>4
  <1>6. Emit("A") \in Calls /\ Bind("A") \in Calls /\ Emit("A").c = "emit" /\ Bind("A").c = "bind"
    BY <1>2, CallTypes
  <1>7. cs \in Seq(Calls) /\ \A i \in DOMAIN cs : cs[i].c # "recv"
    BY <1>6
  <1>8. NoTry(cs) /\ Once(cs) /\ Asks(cs) /\ Right(cs)
    BY <1>7 DEF NoTry, Once, Asks, Right, IsTry
  <1>9. Binds("A", cs)
    BY DEF Binds
  <1> HIDE DEF cs
  <1>10. TypeOK'
    BY <1>1, <1>5, <1>7 DEF TypeOK, IInv
  <1>11. Legs'
    BY <1>2, <1>3, <1>5, NewLeg DEF Legs, Leg
  <1>12. Bound'
    <2>1. BoundCancel(ua'["O"]) = "none"
      BY <1>2, <1>5 DEF BoundCancel, NewUA, UasEarly
    <2> QED  BY <1>1, <1>9, <2>1 DEF Bound, Leg
  <1>13. TryOnce'
    <2>1. \A i \in DOMAIN ua'["A"].q : i = 1
      BY <1>3, <1>5
    <2>2. ua'["O"].q = <<>> /\ ua'["O"].st = "None"
      BY <1>2, <1>5 DEF NewUA
    <2> QED  BY <1>1, <1>8, <2>1, <2>2 DEF TryOnce
  <1>14. Fresh'
    BY <1>3, <1>5 DEF Fresh
  <1>15. \A v \in Leg : ua[v].st \in Over => ua'[v].st \in Over
    BY <1>1, <1>5 DEF Leg, Over
  <1> QED  BY <1>10, <1>11, <1>12, <1>13, <1>14, <1>15 DEF IInv

\* A re-INVITE that has to be asked on the other leg is also bound to the handler
\* of its CANCEL when the request returns.
LEMMA ReInvited ==
    ASSUME IInv, NEW u \in Leg, ReINVITE(u)
    PROVE  IInv' /\ \A v \in Leg : ua[v].st \in Over => ua'[v].st \in Over
  <1>1. PICK body \in BOOLEAN, same \in BOOLEAN :
           LET r == RecvReINVITE(ua[u], body, same)
           IN  Becomes(u, r, IF r.st # ua[u].st THEN <<Emit(u), Bind(u)>> ELSE <<Emit(u)>>)
    <2>1. PICK body \in {TRUE, ~LateMedia}, same \in BOOLEAN :
             LET r == RecvReINVITE(ua[u], body, same)
             IN  Becomes(u, r, IF r.st # ua[u].st THEN <<Emit(u), Bind(u)>> ELSE <<Emit(u)>>)
      BY DEF ReINVITE
    <2>2. body \in BOOLEAN
      OBVIOUS
    <2> QED  BY <2>1, <2>2
  <1>2. PICK r : r = RecvReINVITE(ua[u], body, same)  OBVIOUS
  <1>3. /\ Unlocked /\ ua[u].st \in IsConnected
        /\ nreq' \in 0..MaxReq /\ nprov' \in 0..MaxProv /\ unsent' \in BOOLEAN
    BY LegTypes DEF ReINVITE
  <1>4. ua[u] \in UaRecords /\ LegInv(ua[u]) /\ ua[u].st # "None" /\ ua["A"].st # "None"
    BY <1>3, LegTypes DEF IsConnected
  <1>5. \/ r = ua[u]
        \/ /\ ua[u].st = "Connected" /\ r.st = "UasUpdating"
           /\ r \in UaRecords /\ LegInv(r) /\ Quiet(ua[u].q, r.q)
    BY <1>2, <1>4, ReINVITEMoves
  <1>6. CASE r = ua[u]
    <2>1. Becomes(u, r, <<Emit(u)>>)
      BY <1>1, <1>2, <1>6
    <2>2. Moves(ua[u], r)
      BY <1>4, <1>6, Stays
    <2>3. IInv'
      BY <1>3, <1>4, <2>1, <2>2, RunsEmit
    <2> QED  BY <1>6, <2>1, <2>3, Turned
  <1>7. CASE /\ ua[u].st = "Connected" /\ r.st = "UasUpdating"
             /\ r \in UaRecords /\ LegInv(r) /\ Quiet(ua[u].q, r.q)
    <2> DEFINE cs == <<Emit(u), Bind(u)>>
    <2>1. Becomes(u, r, cs)
      BY <1>1, <1>2, <1>7
    <2>2. Emit(u) \in Calls /\ Bind(u) \in Calls /\ Emit(u).c = "emit" /\ Bind(u).c = "bind"
      BY CallTypes
    <2>3. cs \in Seq(Calls) /\ \A i \in DOMAIN cs : cs[i].c # "recv"
      BY <2>2
    <2>4. NoTry(cs) /\ Once(cs) /\ Asks(cs) /\ Right(cs)
      BY <2>3 DEF NoTry, Once, Asks, Right, IsTry
    <2>5. Binds(u, cs) /\ \A v \in Leg : ~Binds(v, todo)
      BY <1>3, Empties DEF Binds, Unlocked
    <2> HIDE DEF cs
    <2>6. IInv'
      BY <1>3, <1>4, <1>7, <2>1, <2>3, <2>4, <2>5, Steps
    <2> QED  BY <1>7, <2>1, <2>6, Turned DEF Over
  <1> QED  BY <1>5, <1>6, <1>7

\* An event that waited for the ACK or PRACK.
LEMMA HeldCalls ==
    ASSUME NEW u \in Leg, NEW p \in Events \cup {NoEv}, p # NoEv, p = NoEv \/ p.k = "Update"
    PROVE  \A cs \in {<<Recv(u, p)>>, <<Emit(u), Recv(u, p)>>} :
               /\ cs \in Seq(Calls) /\ \A i \in DOMAIN cs : ~IsTry(cs[i])
               /\ u = "A" => Asks(cs)
  <1>1. p \in Events /\ p.k # "Try"
    OBVIOUS
  <1>2. /\ Emit(u) \in Calls /\ Emit(u).c = "emit"
        /\ Recv(u, p) \in Calls /\ Recv(u, p).u = u /\ Recv(u, p).e = p
    BY <1>1, CallTypes
  <1>3. ~IsTry(Emit(u)) /\ ~IsTry(Recv(u, p))
    BY <1>1, <1>2 DEF IsTry
  <1>4. PICK a : a = Emit(u)  OBVIOUS
  <1>5. PICK b : b = Recv(u, p)  OBVIOUS
  <1>6. a \in Calls /\ b \in Calls /\ ~IsTry(a) /\ ~IsTry(b) /\ a.c = "emit" /\ b.u = u
    BY <1>2, <1>3, <1>4, <1>5
  <1>7. /\ <<b>> \in Seq(Calls) /\ (\A i \in DOMAIN <<b>> : ~IsTry(<<b>>[i]))
        /\ u = "A" => Asks(<<b>>)
    BY <1>6 DEF Asks
  <1>8. /\ <<a, b>> \in Seq(Calls) /\ (\A i \in DOMAIN <<a, b>> : ~IsTry(<<a, b>>[i]))
        /\ u = "A" => Asks(<<a, b>>)
    <2>1. \A i \in DOMAIN <<a, b>> : <<a, b>>[i] \in {a, b}
      OBVIOUS
    <2>2. "recv" # "emit" /\ "A" # "O"
      OBVIOUS
    <2> QED  BY <1>6, <2>1, <2>2 DEF Asks
  <1> QED  BY <1>4, <1>5, <1>7, <1>8

\* The ACK and the PRACK let the Update go that was kept for them.
LEMMA Acked ==
    ASSUME IInv, NEW u \in Leg, ACK(u) \/ PRACK(u)
    PROVE  IInv' /\ \A v \in Leg : ua[v].st \in Over => ua'[v].st \in Over
  <1>1. /\ Unlocked /\ ua[u] \in UaRecords /\ LegInv(ua[u])
        /\ nreq' \in 0..MaxReq /\ nprov' \in 0..MaxProv /\ unsent' \in BOOLEAN
    BY LegTypes DEF ACK, PRACK
  <1>2. PICK r, p : /\ Moves(ua[u], r) /\ ua[u].st # "None"
                    /\ p \in Events \cup {NoEv} /\ (p = NoEv \/ p.k = "Update")
                    /\ \/ Becomes(u, r, <<Emit(u)>>) \/ Becomes(u, r, <<>>)
                       \/ /\ p # NoEv
                          /\ \E cs \in {<<Recv(u, p)>>, <<Emit(u), Recv(u, p)>>} : Becomes(u, r, cs)
    <2>1. CASE ACK(u)
      <3>1. PICK body \in BOOLEAN :
               Becomes(u, RecvACK(ua[u], body),
                       IF ua[u].ackw /\ ua[u].st = "PreConnect" /\ ua[u].pendUpdate # NoEv
                       THEN <<Emit(u), Recv(u, ua[u].pendUpdate)>> ELSE <<Emit(u)>>)
        BY <2>1 DEF ACK
      <3>2. ua[u].uas = "completed"
        BY <2>1 DEF ACK
      <3>3. Moves(ua[u], RecvACK(ua[u], body))
        BY <1>1, <3>2, ACKMoves
      <3>4. ua[u].st # "None"
        BY <1>1, <3>2 DEF LegInv, Closing, NewUA
      <3>5. PICK r : r = RecvACK(ua[u], body)  OBVIOUS
      <3>6. PICK p : p = ua[u].pendUpdate  OBVIOUS
      <3>7. p \in Events \cup {NoEv} /\ (p = NoEv \/ p.k = "Update")
        BY <1>1, <3>6 DEF UaRecords, LegInv, Held
      <3>8. \/ Becomes(u, r, <<Emit(u)>>)
            \/ p # NoEv /\ Becomes(u, r, <<Emit(u), Recv(u, p)>>)
        BY <3>1, <3>5, <3>6
      <3>9. Moves(ua[u], r)
        BY <3>3, <3>5
      <3> HIDE <2>1, <3>1
      <3> QED  BY <3>4, <3>7, <3>8, <3>9
    <2>2. CASE PRACK(u)
      <3>1. Becomes(u, RecvPRACK(ua[u]),
                    IF ua[u].st = "UasRingingRel" /\ ua[u].heldUpdate # NoEv
                    THEN <<Recv(u, ua[u].heldUpdate)>> ELSE <<>>)
        BY <2>2 DEF PRACK
      <3>2. ua[u].prov
        BY <2>2 DEF PRACK
      <3>3. Moves(ua[u], RecvPRACK(ua[u])) /\ ua[u].st # "None"
        BY <1>1, <3>2, PRACKMoves, ProvMoves
      <3>4. PICK r : r = RecvPRACK(ua[u])  OBVIOUS
      <3>5. PICK p : p = ua[u].heldUpdate  OBVIOUS
      <3>6. p \in Events \cup {NoEv} /\ (p = NoEv \/ p.k = "Update")
        BY <1>1, <3>5 DEF UaRecords, LegInv, Held
      <3>7. \/ Becomes(u, r, <<>>)
            \/ p # NoEv /\ Becomes(u, r, <<Recv(u, p)>>)
        BY <3>1, <3>4, <3>5
      <3>8. Moves(ua[u], r)
        BY <3>3, <3>4
      <3> HIDE <2>2, <3>1
      <3> QED  BY <3>3, <3>6, <3>7, <3>8
    <2> QED  BY <2>1, <2>2
  <1>3. CASE Becomes(u, r, <<Emit(u)>>) \/ Becomes(u, r, <<>>)
    <2>1. IInv'
      BY <1>1, <1>2, <1>3, RunsEmit
    <2>2. ua'[u] = r /\ \A v \in Leg : v # u => ua'[v] = ua[v]
      BY <1>3, Turned
    <2> QED  BY <1>2, <2>1, <2>2 DEF Moves
  <1>4. ASSUME p # NoEv, NEW cs \in {<<Recv(u, p)>>, <<Emit(u), Recv(u, p)>>}, Becomes(u, r, cs)
        PROVE  IInv' /\ \A v \in Leg : ua[v].st \in Over => ua'[v].st \in Over
    <2>1. /\ cs \in Seq(Calls) /\ \A i \in DOMAIN cs : ~IsTry(cs[i])
          /\ u = "A" => Asks(cs)
      BY <1>2, <1>4, HeldCalls
    <2>2. IInv'
      BY <1>1, <1>2, <1>4, <2>1, Runs
    <2>3. ua'[u] = r /\ \A v \in Leg : v # u => ua'[v] = ua[v]
      BY <1>4, Turned
    <2> QED  BY <1>2, <2>2, <2>3 DEF Moves
  <1> QED  BY <1>2, <1>3, <1>4

\* What the other requests, responses and timers do to a leg.
Plain(u) ==
    \/ BYE(u) \/ REFER(u) \/ INFO(u) \/ Cancelled(u) \/ NoAck(u) \/ NoPrack(u) \/ ReferResponse(u)
    \/ \E m \in Messages : ProvisionalResponse(u, m) \/ FinalResponse(u, m)
    \/ TimerStep(u)

LEMMA Ran ==
    ASSUME IInv, NEW u \in Leg, Unlocked, NEW r, Moves(ua[u], r), ua[u].st # "None",
           Becomes(u, r, <<Emit(u)>>) \/ Becomes(u, r, <<>>),
           nreq' \in 0..MaxReq, nprov' \in 0..MaxProv /\ unsent' \in BOOLEAN
    PROVE  IInv' /\ \A v \in Leg : ua[v].st \in Over => ua'[v].st \in Over
  <1>1. IInv'
    BY RunsEmit
  <1>2. ua'[u] = r /\ \A v \in Leg : v # u => ua'[v] = ua[v]
    BY Turned
  <1> QED  BY <1>1, <1>2 DEF Moves

LEMMA Serves ==
    ASSUME IInv, NEW u \in Leg, Plain(u)
    PROVE  IInv' /\ \A v \in Leg : ua[v].st \in Over => ua'[v].st \in Over
  <1>1. /\ ua[u] \in UaRecords /\ LegInv(ua[u])
        /\ nreq \in 0..MaxReq /\ nprov \in 0..MaxProv /\ unsent \in BOOLEAN /\ MaxReq \in Nat /\ MaxProv \in Nat
        /\ ua[u].st = "None" => ua[u] = NewUA
    BY LegTypes
  <1>2. /\ nreq < MaxReq => nreq + 1 \in 0..MaxReq
        /\ nprov < MaxProv => nprov + 1 \in 0..MaxProv
    BY <1>1
  <1>3. ASSUME NEW r, Moves(ua[u], r), InDialog(u, r)
        PROVE  IInv' /\ \A v \in Leg : ua[v].st \in Over => ua'[v].st \in Over
    <2>1. /\ Unlocked /\ ua[u].st # "None" /\ Becomes(u, r, <<Emit(u)>>)
          /\ nreq' \in 0..MaxReq /\ nprov' \in 0..MaxProv /\ unsent' \in BOOLEAN
      BY <1>1, <1>2, <1>3 DEF InDialog
    <2> QED  BY <1>3, <2>1, Ran
  <1>4. CASE BYE(u)
    <2>1. PICK also \in BOOLEAN : InDialog(u, RecvBYE(ua[u], also))
      BY <1>4 DEF BYE
    <2> QED  BY <1>1, <1>3, <2>1, BYEMoves
  <1>5. CASE REFER(u)
    <2>1. InDialog(u, RecvREFER(ua[u]))
      BY <1>5 DEF REFER
    <2> QED  BY <1>1, <1>3, <2>1, REFERMoves
  <1>6. CASE INFO(u)
    <2>1. InDialog(u, RecvINFO(ua[u]))
      BY <1>6 DEF INFO
    <2> QED  BY <1>1, <1>3, <2>1, INFOMoves
  <1>7. CASE Cancelled(u)
    <2>1. /\ Unlocked /\ ua[u].uas = "early" /\ Becomes(u, RecvCancel(ua[u]), <<Emit(u)>>)
          /\ nreq' \in 0..MaxReq /\ nprov' \in 0..MaxProv /\ unsent' \in BOOLEAN
      BY <1>1, <1>7 DEF Cancelled
    <2>2. BoundCancel(ua[u]) # "none" => ua[u].cancelCB = BoundCancel(ua[u])
      BY <2>1, Empties DEF IInv, Bound, Unlocked
    <2>3. Moves(ua[u], RecvCancel(ua[u])) /\ ua[u].st # "None"
      BY <1>1, <2>1, <2>2, CancelMoves DEF NewUA
    <2> QED  BY <2>1, <2>3, Ran
  <1>8. CASE NoAck(u)
    <2>1. PICK r : r = Disconnect([ua[u] EXCEPT !.uas = "closed"])  OBVIOUS
    <2>2. /\ Unlocked /\ ua[u].uas = "completed" /\ Becomes(u, r, <<Emit(u)>>)
          /\ nreq' \in 0..MaxReq /\ nprov' \in 0..MaxProv /\ unsent' \in BOOLEAN
      BY <1>1, <1>8, <2>1 DEF NoAck
    <2>3. Moves(ua[u], r) /\ ua[u].st # "None"
      BY <1>1, <2>1, <2>2, NoAckMoves DEF NewUA
    <2> QED  BY <2>2, <2>3, Ran
  <1>9. CASE NoPrack(u)
    <2> DEFINE s == [ua[u] EXCEPT !.prov = FALSE]
               r == IF s.uas = "early" THEN Disconnect(s) ELSE s
    <2>1. /\ Unlocked /\ ua[u].prov /\ Becomes(u, r, <<Emit(u)>>)
          /\ nreq' \in 0..MaxReq /\ nprov' \in 0..MaxProv /\ unsent' \in BOOLEAN
      BY <1>1, <1>9 DEF NoPrack
    <2>2. Moves(ua[u], r) /\ ua[u].st # "None"
      BY <1>1, <2>1, NoPrackMoves, ProvMoves
    <2> HIDE DEF r
    <2> QED  BY <2>1, <2>2, Ran
  <1>10. CASE ReferResponse(u)
    <2>1. /\ Unlocked /\ ua[u].refer = "open" /\ Becomes(u, ReferAnswered(ua[u]), <<>>)
          /\ nreq' \in 0..MaxReq /\ nprov' \in 0..MaxProv /\ unsent' \in BOOLEAN
      BY <1>1, <1>10 DEF ReferResponse
    <2>2. Moves(ua[u], ReferAnswered(ua[u])) /\ ua[u].st # "None"
      BY <1>1, <2>1, ReferMoves DEF NewUA
    <2> QED  BY <2>1, <2>2, Ran
  <1>11. CASE \E m \in Messages : ProvisionalResponse(u, m) \/ FinalResponse(u, m)
    <2>1. PICK m \in Messages : ProvisionalResponse(u, m) \/ FinalResponse(u, m)
      BY <1>11
    <2>2. m \in Responses
      BY DEF Messages
    <2>3. /\ Unlocked /\ ua[u].uac \in {"calling", "proceeding"}
          /\ Becomes(u, RecvResponse(ua[u], m), <<Emit(u)>>)
          /\ nreq' \in 0..MaxReq /\ nprov' \in 0..MaxProv /\ unsent' \in BOOLEAN
      BY <1>1, <1>2, <2>1 DEF ProvisionalResponse, FinalResponse
    <2>4. Moves(ua[u], RecvResponse(ua[u], m)) /\ ua[u].st # "None"
      BY <1>1, <2>2, <2>3, ResponseMoves
    <2> QED  BY <2>3, <2>4, Ran
  <1>12. CASE TimerStep(u)
    <2>1. PICK x \in TimerNames : Pop(u, x) \/ Fire(u, x)
      BY <1>12 DEF TimerStep
    <2>2. CASE Pop(u, x)
      <3>1. PICK r : r = [ua[u] EXCEPT !.arm = @ \ {x}, !.pop = @ \cup {x}]  OBVIOUS
      <3>2. /\ Unlocked /\ x \in ua[u].arm /\ Becomes(u, r, <<>>)
            /\ nreq' \in 0..MaxReq /\ nprov' \in 0..MaxProv /\ unsent' \in BOOLEAN
        BY <1>1, <2>2, <3>1 DEF Pop
      <3>3. ua[u].st # "None"
        BY <1>1, <3>2 DEF NewUA
      <3>4. Moves(ua[u], [ua[u] EXCEPT !.arm = @ \ {x}, !.pop = @ \cup {x}])
        BY <1>1, <3>2, PopMoves
      <3> QED  BY <3>1, <3>2, <3>3, <3>4, Ran
    <2>3. CASE Fire(u, x)
      <3>1. /\ Unlocked /\ x \in ua[u].pop /\ Becomes(u, Expired(ua[u], x), <<Emit(u)>>)
            /\ nreq' \in 0..MaxReq /\ nprov' \in 0..MaxProv /\ unsent' \in BOOLEAN
        BY <1>1, <2>3 DEF Fire
      <3>2. Moves(ua[u], Expired(ua[u], x)) /\ ua[u].st # "None"
        BY <1>1, <3>1, ExpiredMoves DEF NewUA
      <3> QED  BY <3>1, <3>2, Ran
    <2> QED  BY <2>1, <2>2, <2>3
  <1> QED  BY <1>4, <1>5, <1>6, <1>7, <1>8, <1>9, <1>10, <1>11, <1>12 DEF Plain

\* SIGTERM, between any two calls under the session lock.
LEMMA Stops ==
    ASSUME IInv, Shutdown
    PROVE  IInv' /\ \A v \in Leg : ua[v].st \in Over => ua'[v].st \in Over
  <1> DEFINE r == Disconnect(ua["A"])
             cs == <<Emit("A")>> \o todo
  <1>1. /\ ua["A"] \in UaRecords /\ LegInv(ua["A"]) /\ "A" \in Leg /\ todo \in Seq(Calls)
        /\ nreq \in 0..MaxReq /\ nprov \in 0..MaxProv /\ unsent \in BOOLEAN /\ MaxReq \in Nat /\ MaxProv \in Nat
    BY LegTypes
  <1>2. /\ ccmap /\ Becomes("A", r, cs)
        /\ nreq' \in 0..MaxReq /\ nprov' \in 0..MaxProv /\ unsent' \in BOOLEAN
    BY <1>1 DEF Shutdown
  <1>3. ua["A"].st # "None"
    BY <1>2, LegTypes
  <1>4. Moves(ua["A"], r)
    BY <1>1, <1>3, DisconnectMoves, LegLoose
  <1> HIDE DEF r
  <1>5. Emit("A") \in Calls /\ ~IsTry(Emit("A")) /\ Emit("A").c # "recv"
    BY <1>1, CallTypes DEF IsTry
  <1>6. /\ cs \in Seq(Calls) /\ (NoTry(todo) => NoTry(cs)) /\ (Once(todo) => Once(cs))
        /\ (Asks(todo) => Asks(cs)) /\ (Right(todo) => Right(cs))
        /\ \A v : Binds(v, todo) => Binds(v, cs)
    BY <1>1, <1>5, Pushes
  <1> HIDE DEF cs
  <1>7. Right(cs) /\ (ua["O"].st = "None" => Once(cs) /\ Asks(cs))
    BY <1>6 DEF IInv, TryOnce
  <1>8. IInv'
    BY <1>1, <1>2, <1>3, <1>4, <1>6, <1>7, Turns
  <1>9. ua'["A"] = r /\ \A v \in Leg : v # "A" => ua'[v] = ua[v]
    BY <1>1, <1>2, Turned
  <1> QED  BY <1>4, <1>8, <1>9 DEF Moves

\* Every step keeps to the invariant, and to the legs that are over.
LEMMA Inductive ==
    ASSUME IInv, [Next]_vars
    PROVE  IInv' /\ \A v \in Leg : ua[v].st \in Over => ua'[v].st \in Over
  <1>1. CASE emitPendingEvents
    BY <1>1, Emits
  <1>2. CASE HandleEvent
    BY <1>2, Handles
  <1>3. CASE TryError
    BY <1>3, Errs
  <1>4. CASE RequestDone
    BY <1>4, Returns
  <1>5. CASE Caller
    <2>1. PICK body \in BOOLEAN, rel \in BOOLEAN : OnNewDialog(body, rel)
      BY <1>5 DEF Caller
    <2> QED  BY <2>1, NewCall
  <1>6. CASE Shutdown
    BY <1>6, Stops
  <1>7. ASSUME NEW u \in Leg, PeerRequest(u) \/ Transaction(u) \/ TimerStep(u)
        PROVE  IInv' /\ \A v \in Leg : ua[v].st \in Over => ua'[v].st \in Over
    <2>1. Plain(u) \/ ReINVITE(u) \/ ACK(u) \/ PRACK(u)
      BY <1>7 DEF Plain, PeerRequest, Transaction
    <2> QED  BY <2>1, Serves, ReInvited, Acked
  <1>8. CASE UNCHANGED vars
    BY <1>8, Stutters DEF vars
  <1>9. CASE UpdateError
    BY <1>9, Drops
  <1> QED  BY <1>1, <1>2, <1>3, <1>4, <1>5, <1>6, <1>7, <1>8, <1>9 DEF Next, UnderLock

-----------------------------------------------------------------------------
(* The two legs of a call. With an SDP in every INVITE, and without the     *)
(* Shutdown that does not wait for the lock, the stages of the two legs     *)
(* match whenever no event is on its way from one to the other, and the     *)
(* event that is on its way makes up for the difference.                    *)

\* An Update with an SDP.
Offers(e) == e.k = "Update" /\ e.body

\* The stage of the call that a leg has reached, as the other leg sees it. A leg
\* that rings reliably is up, for the other one, when it keeps a Connect for the
\* PRACK. late: out of the theorem's scope.
Kept(r) == IF r.st = "PreConnect" THEN r.pendUpdate ELSE r.heldUpdate
Up(r) == r.st \in {"Connected", "PreConnect"} \/ (r.st = "UasRingingRel" /\ r.heldConnect # NoEv)
Stage(r) ==
    CASE r.st \in Over -> "over"
      [] r.st \notin Over /\ (r.late_media \/ r.confirm) -> "late"
      [] r.st \notin Over /\ ~(r.late_media \/ r.confirm) ->
         CASE r.st = "None"        -> "none"
           [] r.st = "UacIdle"     -> "idle"
           [] r.st = "UasUpdating" -> "asked"
           [] r.st = "UacUpdating" -> "asking"
           [] r.st \in {"UacTrying", "UacRinging"} -> "setup"
           [] r.st \in {"UasTrying", "UasRinging"} -> "early"
           [] r.st = "UasRingingRel" /\ r.heldConnect = NoEv ->
                IF r.heldUpdate = NoEv THEN "early" ELSE "late"
           [] Up(r) -> IF r.st = "Connected" \/ Kept(r) = NoEv THEN "up"
                       ELSE IF Offers(Kept(r)) THEN "kept" ELSE "late"

Prompt(r) == ~r.late_media /\ ~r.confirm

LEMMA Stages ==
    ASSUME NEW r \in UaRecords
    PROVE  /\ Stage(r) = "over" <=> r.st \in Over
           /\ Stage(r) = "none" <=> r.st = "None" /\ Prompt(r)
           /\ Stage(r) = "idle" <=> r.st = "UacIdle" /\ Prompt(r)
           /\ Stage(r) = "setup" <=> r.st \in {"UacTrying", "UacRinging"} /\ Prompt(r)
           /\ Stage(r) = "asked" <=> r.st = "UasUpdating" /\ Prompt(r)
           /\ Stage(r) = "asking" <=> r.st = "UacUpdating" /\ Prompt(r)
           /\ Stage(r) = "early" <=>
                Prompt(r) /\ \/ r.st \in {"UasTrying", "UasRinging"}
                             \/ r.st = "UasRingingRel" /\ r.heldConnect = NoEv /\ r.heldUpdate = NoEv
           /\ Stage(r) = "up" <=>
                Prompt(r) /\ \/ r.st = "Connected"
                             \/ r.st = "PreConnect" /\ r.pendUpdate = NoEv
                             \/ r.st = "UasRingingRel" /\ r.heldConnect # NoEv /\ r.heldUpdate = NoEv
           /\ Stage(r) = "kept" <=>
                Prompt(r) /\ \/ r.st = "PreConnect" /\ Offers(r.pendUpdate)
                             \/ r.st = "UasRingingRel" /\ r.heldConnect # NoEv /\ Offers(r.heldUpdate)
  <1>1. r.st \in States /\ ~Offers(NoEv)
    BY DEF UaRecords, Offers, NoEv
  <1>2. CASE r.st \in Over
    BY <1>2 DEF Stage, Over
  <1>3. CASE r.st \notin Over /\ ~Prompt(r)
    BY <1>3 DEF Stage, Over, Prompt
  <1>4. CASE r.st \notin Over /\ Prompt(r)
    <2>1. Stage(r) =
         CASE r.st = "None"        -> "none"
           [] r.st = "UacIdle"     -> "idle"
           [] r.st = "UasUpdating" -> "asked"
           [] r.st = "UacUpdating" -> "asking"
           [] r.st \in {"UacTrying", "UacRinging"} -> "setup"
           [] r.st \in {"UasTrying", "UasRinging"} -> "early"
           [] r.st = "UasRingingRel" /\ r.heldConnect = NoEv ->
                IF r.heldUpdate = NoEv THEN "early" ELSE "late"
           [] Up(r) -> IF r.st = "Connected" \/ Kept(r) = NoEv THEN "up"
                       ELSE IF Offers(Kept(r)) THEN "kept" ELSE "late"
      BY <1>4 DEF Stage, Prompt
    <2>2. CASE r.st \in {"None", "UacIdle", "UasUpdating", "UacUpdating"}
      BY <1>4, <2>1, <2>2 DEF Up
    <2>6. CASE r.st \in {"UacTrying", "UacRinging", "UasTrying", "UasRinging"}
      BY <1>4, <2>1, <2>6 DEF Up
    <2>3. CASE r.st = "Connected"
      BY <1>4, <2>1, <2>3 DEF Up
    <2>4. CASE r.st = "PreConnect"
      BY <1>1, <1>4, <2>1, <2>4 DEF Up, Kept
    <2>5. CASE r.st = "UasRingingRel"
      BY <1>1, <1>4, <2>1, <2>5 DEF Up, Kept
    <2> QED  BY <1>1, <1>4, <2>2, <2>3, <2>4, <2>5, <2>6 DEF States, Over
  <1> QED  BY <1>2, <1>3, <1>4

\* A leg that goes to state t: what the other leg relies on stays as it was.
Into(r, s, t) ==
    /\ s \in UaRecords
    /\ s.st = t
    /\ t # "Dead" => s.gone = r.gone
    /\ s.q = r.q
    /\ s.late_media = r.late_media /\ s.confirm = r.confirm
    /\ s.pendUpdate = r.pendUpdate
    /\ s.heldConnect = r.heldConnect /\ s.heldUpdate = r.heldUpdate
Alike(r, s) ==
    /\ s.gone = r.gone
    /\ Into(r, s, r.st)

LEMMA AlikeSelf == \A r \in UaRecords : Alike(r, r)
  BY DEF Alike, Into

LEMMA AlikeStage ==
    ASSUME NEW r \in UaRecords, NEW s, Alike(r, s)
    PROVE  Stage(s) = Stage(r)
  BY DEF Alike, Into, Stage, Up, Kept

LEMMA AlikeTwice ==
    ASSUME NEW r, NEW s, NEW v, Alike(r, s), Alike(s, v)
    PROVE  Alike(r, v)
  BY DEF Alike, Into

LEMMA AlikeInto ==
    ASSUME NEW r, NEW s, NEW v, NEW t, Alike(r, s), Into(s, v, t)
    PROVE  Into(r, v, t)
  BY DEF Alike, Into

LEMMA IntoOver ==
    ASSUME NEW r \in UaRecords, NEW s, NEW t \in Over, Into(r, s, t)
    PROVE  Stage(s) = "over" /\ s.st \in Over
  BY DEF Into, Stage

LEMMA AsidesTimers ==
    ASSUME NEW r \in UaRecords
    PROVE  /\ \A X : Alike(r, CancelTimers(r, X))
           /\ \A x \in TimerNames : Alike(r, StartTimer(r, x))
           /\ \A c \in {<<"np", "ex">>, <<"nr", "np", "ex">>} : Alike(r, StartFirst(r, c))
           /\ Alike(r, StartCreditTimer(r))
  <1>1. \A X : Alike(r, CancelTimers(r, X))
    BY CancelsTimers DEF Alike, Into, SameCall, SameMedia, SameRel
  <1>2. \A x \in TimerNames : Alike(r, StartTimer(r, x))
    BY StartsTimer DEF Alike, Into, SameCall, SameMedia, SameRel
  <1>3. \A c \in {<<"np", "ex">>, <<"nr", "np", "ex">>} : Alike(r, StartFirst(r, c))
    BY StartsFirst DEF Alike, Into, SameCall, SameMedia, SameRel
  <1>4. "cr" \in TimerNames
    BY DEF TimerNames
  <1>5. PICK s : s = StartTimer(r, "cr")  OBVIOUS
  <1>6. Alike(r, s)
    BY <1>2, <1>4, <1>5
  <1>7. s \in UaRecords
    BY <1>6 DEF Alike, Into
  <1>8. Alike(s, Fault(s, "credit_leak"))
    <2>1. "credit_leak" \in Faults
      BY DEF Faults
    <2>2. PICK f : f = s.faults \cup {"credit_leak"}  OBVIOUS
    <2>3. f \in SUBSET Faults
      BY <1>7, <2>1, <2>2 DEF UaRecords
    <2>4. Fault(s, "credit_leak") = [s EXCEPT !.faults = f]
      BY <2>2 DEF Fault
    <2> QED  BY <1>7, <2>3, <2>4, ZenonT(60) DEF Alike, Into, UaRecords
  <1>9. Alike(r, Fault(s, "credit_leak"))
    BY <1>6, <1>8, AlikeTwice
  <1>10. StartCreditTimer(r) \in {s, Fault(s, "credit_leak")}
    BY <1>5 DEF StartCreditTimer
  <1> QED  BY <1>1, <1>2, <1>3, <1>6, <1>9, <1>10

LEMMA AsidesReplies ==
    ASSUME NEW r \in UaRecords
    PROVE  /\ \A w \in BOOLEAN : Alike(r, Reply(r, w))
           /\ Alike(r, ReplyOK(r))
           /\ Alike(r, ReplyRinging(r))
           /\ Alike(r, SendBYE(r))
           /\ \A e \in Events : Alike(r, Hangup(r, e))
  <1>1. ASSUME NEW s \in UaRecords, NEW f \in Faults PROVE Alike(s, Fault(s, f))
    <2>1. PICK g : g = s.faults \cup {f}  OBVIOUS
    <2>2. g \in SUBSET Faults
      BY <2>1 DEF UaRecords
    <2>3. Fault(s, f) = [s EXCEPT !.faults = g]
      BY <2>1 DEF Fault
    <2> QED  BY <2>2, <2>3, ZenonT(60) DEF Alike, Into, UaRecords
  <1>2. "lost_reply" \in Faults /\ "two_reliable" \in Faults
    BY DEF Faults
  <1>3. ASSUME NEW w \in BOOLEAN PROVE Alike(r, Reply(r, w))
    <2>1. CASE r.uas = "early"
      BY <2>1, ZenonT(60) DEF Reply, Alike, Into, UaRecords
    <2>2. CASE r.uas # "early"
      BY <1>1, <1>2, <2>2 DEF Reply
    <2> QED  BY <2>1, <2>2
  <1>4. Alike(r, ReplyOK(r))
    <2>1. PICK s : s = Reply(r, TRUE)  OBVIOUS
    <2>2. Alike(r, s)
      BY <1>3, <2>1
    <2>3. s \in UaRecords
      BY <2>2 DEF Alike, Into
    <2>4. ReplyOK(r) = [s EXCEPT !.dialog = TRUE]
      BY <2>1 DEF ReplyOK
    <2>5. PICK v : v = [s EXCEPT !.dialog = TRUE]  OBVIOUS
    <2>6. v \in UaRecords
      BY <2>3, <2>5, ZenonT(60) DEF UaRecords
    <2>7. Alike(s, v)
      BY <2>3, <2>5, <2>6, ZenonT(60) DEF Alike, Into, UaRecords
    <2> QED  BY <2>2, <2>4, <2>5, <2>7, AlikeTwice
  <1>5. Alike(r, ReplyRinging(r))
    <2>1. CASE r.pr_rel /\ r.prov
      BY <1>1, <1>2, <2>1 DEF ReplyRinging
    <2>2. CASE ~(r.pr_rel /\ r.prov)
      BY <2>2 DEF ReplyRinging, Alike, Into, UaRecords
    <2> QED  BY <2>1, <2>2
  <1>6. Alike(r, SendBYE(r))
    BY SendsBYE DEF Alike, Into, SameCall, SameMedia, SameRel
  <1>7. \A e \in Events : Alike(r, Hangup(r, e))
    BY HangsUpLeg DEF Alike, Into, SameCall, SameMedia, SameRel
  <1> QED  BY <1>3, <1>4, <1>5, <1>6, <1>7

LEMMA IntoState ==
    ASSUME NEW r \in UaRecords, NEW t \in States
    PROVE  Into(r, ChangeState(r, t), t)
  <1>1. PICK s : s = ChangeState(r, t)  OBVIOUS
  <1>2. /\ s \in UaRecords
        /\ s.st = t /\ (s.gone <=> r.gone \/ t = "Dead")
        /\ SameRel(r, s) /\ s.q = r.q
        /\ s.late_media = r.late_media
        /\ s.confirm = r.confirm /\ s.pendUpdate = r.pendUpdate
    BY <1>1, ChangesState
  <1>3. t # "Dead" => s.gone = r.gone
    BY <1>2 DEF UaRecords
  <1> QED  BY <1>1, <1>2, <1>3 DEF Into, SameRel

\* A handler takes the leg to stage x and leaves the events q to be emitted.
Reaches(r, s, x, q) ==
    /\ s \in UaRecords
    /\ Stage(s) = x
    /\ s.q = q
    /\ s.gone = r.gone

LEMMA StaysThere ==
    ASSUME NEW r \in UaRecords, NEW s, Alike(r, s)
    PROVE  Reaches(r, s, Stage(r), r.q)
  BY AlikeStage DEF Reaches, Alike, Into

LEMMA GetsOver ==
    ASSUME NEW r \in UaRecords, NEW s, Alike(r, s), NEW t \in Over, t # "Dead"
    PROVE  Reaches(r, ChangeState(s, t), "over", r.q)
  <1>1. s \in UaRecords /\ t \in States
    BY DEF Alike, Into, Over, States
  <1>2. PICK v : v = ChangeState(s, t)  OBVIOUS
  <1>3. Into(r, v, t)
    BY <1>1, <1>2, IntoState, AlikeInto
  <1>4. Stage(v) = "over"
    BY <1>3, IntoOver
  <1> QED  BY <1>2, <1>3, <1>4 DEF Reaches, Into

LEMMA GetsUp ==
    ASSUME NEW r \in UaRecords, NEW s, Alike(r, s), ~r.late_media
    PROVE  Reaches(r, PreConnect(s, FALSE), "up", r.q)
  <1>1. s \in UaRecords /\ "PreConnect" \in States
    BY DEF Alike, Into, States
  <1>2. PICK v : v = ChangeState(s, "PreConnect")  OBVIOUS
  <1>3. Into(r, v, "PreConnect")
    BY <1>1, <1>2, IntoState, AlikeInto
  <1>4. PICK w : w = [v EXCEPT !.confirm = FALSE, !.pendUpdate = NoEv]  OBVIOUS
  <1>5. PreConnect(s, FALSE) = w
    BY <1>2, <1>4 DEF PreConnect
  <1>6. v \in UaRecords
    BY <1>3 DEF Into
  <1>7. w \in UaRecords
    BY <1>4, <1>6, ZenonT(60) DEF UaRecords
  <1>8. /\ w.st = v.st /\ w.late_media = v.late_media /\ w.confirm = FALSE
        /\ w.pendUpdate = NoEv /\ w.q = v.q /\ w.gone = v.gone
    BY <1>4, <1>6 DEF UaRecords
  <1>9. Stage(w) = "up"
    BY <1>3, <1>7, <1>8, Stages DEF Into, Prompt
  <1> QED  BY <1>3, <1>5, <1>7, <1>8, <1>9 DEF Reaches, Into

-----------------------------------------------------------------------------
(* What the legs make of each other's events.                               *)

\* A Disconnect ends a leg wherever it is; a refusal ends all but a re-INVITE.
LEMMA EndsLeg ==
    ASSUME NEW r \in UaRecords, NEW e \in Events, NEW way \in Ways,
           r.st \notin Over, r.st # "None", e.k \in Ends,
           e.k = "Disconnect" \/ r.st # "UasUpdating"
    PROVE  Reaches(r, RecvEvent(r, e, way), "over", r.q)
  <1> DEFINE v == RecvEvent(r, e, way)
  <1>1. /\ "Cancelling" \in Over /\ "Disconnected" \in Over /\ "Failed" \in Over
        /\ Alike(r, r)
    BY AlikeSelf DEF Over
  <1>2. CASE r.st = "UacIdle"
    <2>1. v = ChangeState(r, "Disconnected")
      BY <1>2 DEF RecvEvent, UacIdle_RecvEvent, Ends
    <2> QED  BY <1>1, <2>1, GetsOver
  <1>3. CASE r.st \in {"UacTrying", "UacRinging"}
    <2>1. PICK X : X = IF r.st = "UacTrying" THEN {"ex", "np", "nr"} ELSE {"ex"}  OBVIOUS
    <2>2. v = ChangeState(CancelTimers(UacCancel(r), X), "Cancelling")
      BY <1>3, <2>1 DEF RecvEvent, UacTrying_RecvEvent, UacRinging_RecvEvent
    <2>3. PICK c : c = UacCancel(r)  OBVIOUS
    <2>4. c \in UaRecords /\ Alike(r, c)
      BY <2>3, ZenonT(60) DEF UacCancel, Alike, Into, UaRecords
    <2>5. Alike(r, CancelTimers(c, X))
      BY <2>4, AsidesTimers, AlikeTwice
    <2> QED  BY <1>1, <2>2, <2>3, <2>5, GetsOver
  <1>4. CASE r.st = "UacUpdating"
    <2>1. v = ChangeState(CancelTimers(SendBYE(r), {"cr"}), "Disconnected")
      BY <1>4 DEF RecvEvent, UacUpdating_RecvEvent
    <2>2. PICK c : c = SendBYE(r)  OBVIOUS
    <2>3. Alike(r, c)
      BY <2>2, AsidesReplies
    <2>4. c \in UaRecords
      BY <2>3 DEF Alike, Into
    <2>5. Alike(r, CancelTimers(c, {"cr"}))
      BY <2>3, <2>4, AsidesTimers, AlikeTwice
    <2> QED  BY <1>1, <2>1, <2>2, <2>5, GetsOver
  <1>5. CASE r.st \in UasEarly
    <2>1. v = UasEnd(r, e)
      BY <1>5 DEF RecvEvent, UasTrying_RecvEvent, UasRinging_RecvEvent, UasRingingRel_RecvEvent, UasEarly, Ends
    <2>2. PICK X : X = IF r.st = "UasTrying" THEN {"ex", "np"} ELSE {"ex"}  OBVIOUS
    <2>3. PICK t : t = IF e.k = "Disconnect" THEN "Disconnected" ELSE "Failed"  OBVIOUS
    <2>4. PICK c : c = Reply(r, FALSE)  OBVIOUS
    <2>5. v = ChangeState(CancelTimers(c, X), t)
      BY <2>1, <2>2, <2>3, <2>4 DEF UasEnd
    <2>6. Alike(r, c)
      BY <1>1, <2>4, AsidesReplies
    <2>7. c \in UaRecords
      BY <2>6 DEF Alike, Into
    <2>8. Alike(r, CancelTimers(c, X))
      BY <2>6, <2>7, AsidesTimers, AlikeTwice
    <2>9. t \in Over /\ t # "Dead"
      BY <2>3 DEF Over
    <2> QED  BY <2>5, <2>8, <2>9, GetsOver
  <1>6. CASE r.st = "UasUpdating"
    <2>1. v = ChangeState(CancelTimers(SendBYE(Reply(r, FALSE)), {"cr"}), "Disconnected")
      BY <1>6 DEF RecvEvent, UasUpdating_RecvEvent
    <2>2. PICK c : c = Reply(r, FALSE)  OBVIOUS
    <2>3. Alike(r, c)
      BY <1>1, <2>2, AsidesReplies
    <2>4. c \in UaRecords
      BY <2>3 DEF Alike, Into
    <2>5. PICK d : d = SendBYE(c)  OBVIOUS
    <2>6. Alike(r, d)
      BY <2>3, <2>4, <2>5, AsidesReplies, AlikeTwice
    <2>7. d \in UaRecords
      BY <2>6 DEF Alike, Into
    <2>8. Alike(r, CancelTimers(d, {"cr"}))
      BY <2>6, <2>7, AsidesTimers, AlikeTwice
    <2> QED  BY <1>1, <2>1, <2>2, <2>5, <2>8, GetsOver
  <1>7. CASE r.st \in {"PreConnect", "Connected"}
    <2>1. v = ChangeState(CancelTimers(Hangup(r, e), {"cr"}), "Disconnected")
      BY <1>7 DEF RecvEvent, PreConnect_RecvEvent, Connected_RecvEvent, Ends
    <2>2. PICK c : c = Hangup(r, e)  OBVIOUS
    <2>3. Alike(r, c)
      BY <2>2, AsidesReplies
    <2>4. c \in UaRecords
      BY <2>3 DEF Alike, Into
    <2>5. Alike(r, CancelTimers(c, {"cr"}))
      BY <2>3, <2>4, AsidesTimers, AlikeTwice
    <2> QED  BY <1>1, <2>1, <2>2, <2>5, GetsOver
  <1>8. \/ r.st = "UacIdle" \/ r.st \in {"UacTrying", "UacRinging"} \/ r.st = "UacUpdating"
        \/ r.st \in UasEarly \/ r.st = "UasUpdating" \/ r.st \in {"PreConnect", "Connected"}
    BY DEF UaRecords, States, Over, UasEarly
  <1> QED  BY <1>2, <1>3, <1>4, <1>5, <1>6, <1>7, <1>8

Live == {"idle", "setup", "early", "up", "kept", "asked", "asking"}

LEMMA LiveLeg ==
    ASSUME NEW r \in UaRecords, Stage(r) \in Live
    PROVE  Prompt(r) /\ r.st \notin Over /\ r.st # "None" /\ r.late_media = FALSE /\ r.confirm = FALSE
  <1>1. r.late_media \in BOOLEAN /\ r.confirm \in BOOLEAN
    BY ZenonT(60) DEF UaRecords
  <1>2. Prompt(r)
    BY Stages DEF Live
  <1>3. Stage(r) # "over" /\ Stage(r) # "none"
    BY DEF Live
  <1> QED  BY <1>1, <1>2, <1>3, Stages DEF Prompt

\* The first 180 of a leg, reliable or not.
LEMMA RingsFirst ==
    ASSUME NEW r \in UaRecords, NEW e \in Events, r.st = "UasTrying", Prompt(r)
    PROVE  Reaches(r, UasTrying_Ring(r, e), "early", r.q)
  <1> DEFINE s == ReplyRinging(r)
             t == IF "np" \in s.tptr THEN StartTimer(CancelTimers(s, {"np"}), "ex") ELSE s
  <1>1. Alike(r, s)
    BY AsidesReplies
  <1>2. Alike(r, t)
    <2> HIDE DEF s
    <2>1. s \in UaRecords /\ "ex" \in TimerNames
      BY <1>1 DEF Alike, Into, TimerNames
    <2>2. PICK c : c = CancelTimers(s, {"np"})  OBVIOUS
    <2>3. Alike(r, c)
      BY <1>1, <2>1, <2>2, AsidesTimers, AlikeTwice
    <2>4. c \in UaRecords
      BY <2>3 DEF Alike, Into
    <2>5. Alike(r, StartTimer(c, "ex"))
      BY <2>1, <2>3, <2>4, AsidesTimers, AlikeTwice
    <2> QED  BY <1>1, <2>2, <2>5
  <1>3. UasTrying_Ring(r, e) =
          IF r.pr_rel
          THEN [ChangeState(t, "UasRingingRel") EXCEPT
                  !.prack_wait = e.body, !.prack_received = FALSE,
                  !.heldRing = NoEv, !.heldConnect = NoEv, !.heldUpdate = NoEv]
          ELSE ChangeState(t, "UasRinging")
    BY DEF UasTrying_Ring
  <1> HIDE DEF t
  <1>4. t \in UaRecords /\ "UasRinging" \in States /\ "UasRingingRel" \in States
    BY <1>2 DEF Alike, Into, States
  <1>5. Reaches(r, ChangeState(t, "UasRinging"), "early", r.q)
    <2>1. PICK v : v = ChangeState(t, "UasRinging")  OBVIOUS
    <2>2. Into(r, v, "UasRinging")
      BY <1>2, <1>4, <2>1, IntoState, AlikeInto
    <2>3. v \in UaRecords /\ Prompt(v)
      BY <2>2 DEF Into, Prompt
    <2>4. Stage(v) = "early"
      BY <2>2, <2>3, Stages DEF Into
    <2> QED  BY <2>1, <2>2, <2>4 DEF Into, Reaches
  <1>6. PICK v : v = ChangeState(t, "UasRingingRel")  OBVIOUS
  <1>7. Into(r, v, "UasRingingRel")
    BY <1>2, <1>4, <1>6, IntoState, AlikeInto
  <1>8. v \in UaRecords /\ e.body \in BOOLEAN
    BY <1>7 DEF Into, Events
  <1>9. PICK w : w = [v EXCEPT !.prack_wait = e.body, !.prack_received = FALSE,
                               !.heldRing = NoEv, !.heldConnect = NoEv, !.heldUpdate = NoEv]
    OBVIOUS
  <1>10. w \in UaRecords
    BY <1>8, <1>9, RelType
  <1>11. /\ w.st = v.st /\ w.late_media = v.late_media /\ w.confirm = v.confirm
         /\ w.heldConnect = NoEv /\ w.heldUpdate = NoEv /\ w.q = v.q /\ w.gone = v.gone
    BY <1>8, <1>9 DEF UaRecords
  <1>12. Prompt(w) /\ w.st = "UasRingingRel"
    BY <1>7, <1>11 DEF Into, Prompt
  <1>13. Stage(w) = "early"
    BY <1>10, <1>11, <1>12, Stages
  <1>14. Reaches(r, w, "early", r.q)
    BY <1>7, <1>10, <1>11, <1>13 DEF Into, Reaches
  <1> QED  BY <1>3, <1>5, <1>6, <1>9, <1>14

\* A 100, 180 or INFO leaves a leg at its stage.
LEMMA PassesBy ==
    ASSUME NEW r \in UaRecords, NEW e \in Events, NEW way \in Ways,
           Stage(r) \in Live, e.k \in {"Ring", "Ring100", "Info"}
    PROVE  Reaches(r, RecvEvent(r, e, way), Stage(r), r.q)
  <1> DEFINE v == RecvEvent(r, e, way)
  <1>1. /\ Prompt(r) /\ r.st \notin Over /\ r.st # "None" /\ Alike(r, r)
        /\ e.k \notin Ends /\ e.k \notin {"Try", "PreConnect", "Connect", "Update"}
    BY LiveLeg, AlikeSelf DEF Ends
  <1>2. CASE r.st \in {"UacIdle", "UacTrying", "UacRinging", "UacUpdating", "PreConnect", "UasUpdating", "Connected"}
    <2>1. v = r
      <3>1. CASE r.st \in {"UacIdle", "UacTrying", "UacRinging", "UacUpdating"}
        BY <1>1, <3>1 DEF RecvEvent, UacIdle_RecvEvent, UacTrying_RecvEvent, UacRinging_RecvEvent, UacUpdating_RecvEvent
      <3>2. CASE r.st \in {"PreConnect", "UasUpdating", "Connected"}
        BY <1>1, <3>2 DEF RecvEvent, PreConnect_RecvEvent, UasUpdating_RecvEvent, Connected_RecvEvent, Ends
      <3> QED  BY <1>2, <3>1, <3>2
    <2> QED  BY <1>1, <2>1, StaysThere
  <1>3. CASE r.st = "UasTrying"
    <2>1. v = UasTrying_RecvEvent(r, e)
      BY <1>3 DEF RecvEvent
    <2>2. CASE e.k = "Ring"
      <3>1. v = UasTrying_Ring(r, e)
        BY <2>1, <2>2 DEF UasTrying_RecvEvent, Ends
      <3>2. Stage(r) = "early"
        BY <1>1, <1>3, Stages
      <3> QED  BY <1>1, <1>3, <3>1, <3>2, RingsFirst
    <2>3. CASE e.k # "Ring"
      <3>1. v = r
        BY <1>1, <2>1, <2>3 DEF UasTrying_RecvEvent
      <3> QED  BY <1>1, <3>1, StaysThere
    <2> QED  BY <2>2, <2>3
  <1>4. CASE r.st = "UasRinging"
    <2>1. v \in {r, ReplyRinging(r)}
      BY <1>1, <1>4 DEF RecvEvent, UasRinging_RecvEvent
    <2> QED  BY <1>1, <2>1, AsidesReplies, StaysThere
  <1>5. CASE r.st = "UasRingingRel"
    <2>1. PICK c : c = [r EXCEPT !.prack_wait = e.body, !.prack_received = FALSE]  OBVIOUS
    <2>2. PICK d : d = [r EXCEPT !.heldRing = e]  OBVIOUS
    <2>3. v \in {r, d, ReplyRinging(r), c, ReplyRinging(c)}
      BY <1>1, <1>5, <2>1, <2>2 DEF RecvEvent, UasRingingRel_RecvEvent, UasRinging_RecvEvent
    <2>4. e.body \in BOOLEAN
      BY DEF Events
    <2>5. Alike(r, c)
      BY <2>1, <2>4, ZenonT(60) DEF Alike, Into, UaRecords
    <2>6. Alike(r, d)
      BY <2>2 DEF Alike, Into, UaRecords
    <2>7. c \in UaRecords
      BY <2>5 DEF Alike, Into
    <2>8. Alike(r, ReplyRinging(c)) /\ Alike(r, ReplyRinging(r))
      BY <2>5, <2>7, AsidesReplies, AlikeTwice
    <2>9. Alike(r, v)
      BY <1>1, <2>3, <2>5, <2>6, <2>8
    <2> QED  BY <2>9, StaysThere
  <1>6. r.st \in {"UacIdle", "UacTrying", "UacRinging", "UacUpdating", "PreConnect", "UasUpdating", "Connected"}
        \/ r.st = "UasTrying" \/ r.st = "UasRinging" \/ r.st = "UasRingingRel"
    BY <1>1 DEF UaRecords, States, Over
  <1> QED  BY <1>2, <1>3, <1>4, <1>5, <1>6

\* The INVITE of leg O goes out.
LEMMA Dials ==
    ASSUME NEW r \in UaRecords, NEW e \in Events, NEW way \in Ways,
           Stage(r) = "none", e.k = "Try", e.body
    PROVE  Reaches(r, RecvEvent(r, e, way), "setup", r.q)
  <1>1. r.st = "None" /\ Prompt(r) /\ e.body = TRUE
    BY Stages DEF Events
  <1>2. PICK a : a = [r EXCEPT !.st = "UacIdle"]  OBVIOUS
  <1>3. /\ a \in UaRecords /\ a.late_media = r.late_media /\ a.confirm = r.confirm
        /\ a.q = r.q /\ a.gone = r.gone
    BY <1>2 DEF UaRecords, States
  <1>4. PICK b : b = [a EXCEPT !.uac = "calling", !.late_media = FALSE]  OBVIOUS
  <1>5. /\ b \in UaRecords /\ b.late_media = FALSE /\ b.confirm = a.confirm
        /\ b.q = a.q /\ b.gone = a.gone
    BY <1>3, <1>4, ZenonT(60) DEF UaRecords
  <1>6. PICK c : c = ChangeState(b, "UacTrying")  OBVIOUS
  <1>7. "UacTrying" \in States
    BY DEF States
  <1>8. Into(b, c, "UacTrying")
    BY <1>5, <1>6, <1>7, IntoState
  <1>9. c \in UaRecords /\ <<"nr", "np", "ex">> \in {<<"np", "ex">>, <<"nr", "np", "ex">>}
    BY <1>8 DEF Into
  <1>10. PICK d : d = StartFirst(c, <<"nr", "np", "ex">>)  OBVIOUS
  <1>11. Alike(c, d)
    BY <1>9, <1>10, AsidesTimers
  <1>12. RecvEvent(r, e, way) = d
    <2>1. RecvEvent(r, e, way) = UacIdle_RecvEvent(a, e)
      BY <1>1, <1>2 DEF RecvEvent
    <2>2. UacIdle_RecvEvent(a, e) =
            StartFirst(ChangeState([a EXCEPT !.uac = "calling", !.late_media = ~e.body],
                                   "UacTrying"), <<"nr", "np", "ex">>)
      BY DEF UacIdle_RecvEvent, Ends
    <2>3. (~e.body) = FALSE
      BY <1>1
    <2> QED  BY <1>4, <1>6, <1>10, <2>1, <2>2, <2>3
  <1>13. /\ d \in UaRecords /\ d.st = "UacTrying" /\ Prompt(d)
         /\ d.q = r.q /\ d.gone = r.gone
    BY <1>1, <1>3, <1>5, <1>8, <1>11 DEF Alike, Into, Prompt
  <1>14. Stage(d) = "setup"
    BY <1>13, Stages
  <1> QED  BY <1>12, <1>13, <1>14 DEF Reaches

\* The answer of the other leg: it goes to the peer, or waits for the PRACK.
LEMMA TakesConnect ==
    ASSUME NEW r \in UaRecords, NEW e \in Events, NEW way \in Ways,
           Stage(r) \in {"early", "asked"}, e.k = "Connect"
    PROVE  Reaches(r, RecvEvent(r, e, way), "up", r.q)
  <1> DEFINE v == RecvEvent(r, e, way)
  <1>1. Stage(r) \in Live /\ ~r.late_media /\ ~r.confirm
    BY LiveLeg DEF Live, Prompt
  <1>2. PICK a : a = ReplyOK(r)  OBVIOUS
  <1>3. Alike(r, a)
    BY <1>2, AsidesReplies
  <1>4. a \in UaRecords
    BY <1>3 DEF Alike, Into
  <1>5. \A X : Reaches(r, PreConnect(StartCreditTimer(CancelTimers(a, X)), FALSE), "up", r.q)
    <2> SUFFICES ASSUME NEW X
                 PROVE  Reaches(r, PreConnect(StartCreditTimer(CancelTimers(a, X)), FALSE), "up", r.q)
      OBVIOUS
    <2>1. PICK b : b = CancelTimers(a, X)  OBVIOUS
    <2>2. Alike(r, b)
      BY <1>3, <1>4, <2>1, AsidesTimers, AlikeTwice
    <2>3. b \in UaRecords
      BY <2>2 DEF Alike, Into
    <2>4. Alike(r, StartCreditTimer(b))
      BY <2>2, <2>3, AsidesTimers, AlikeTwice
    <2> QED  BY <1>1, <2>1, <2>4, GetsUp
  <1>6. CASE r.st = "UasTrying"
    <2>1. v = PreConnect(StartCreditTimer(CancelTimers(a, {"ex", "np"})), FALSE)
      BY <1>2, <1>6 DEF RecvEvent, UasTrying_RecvEvent, Ends
    <2> QED  BY <1>5, <2>1
  <1>7. CASE r.st = "UasRinging"
    <2>1. v = PreConnect(StartCreditTimer(CancelTimers(a, {"ex"})), FALSE)
      BY <1>2, <1>7 DEF RecvEvent, UasRinging_RecvEvent, Ends
    <2> QED  BY <1>5, <2>1
  <1>8. CASE r.st = "UasRingingRel"
    <2>1. v = UasRingingRel_RecvEvent(r, e)
      BY <1>8 DEF RecvEvent
    <2>2. CASE r.prack_wait /\ ~r.prack_received
      <3>1. PICK d : d = [r EXCEPT !.heldConnect = e]  OBVIOUS
      <3>2. v = d
        BY <2>1, <2>2, <3>1 DEF UasRingingRel_RecvEvent
      <3>3. /\ d \in UaRecords /\ d.st = "UasRingingRel" /\ Prompt(d)
            /\ d.heldConnect = e /\ d.heldUpdate = r.heldUpdate /\ d.q = r.q /\ d.gone = r.gone
        BY <1>1, <1>8, <3>1 DEF UaRecords, Prompt
      <3>4. r.heldUpdate = NoEv
        BY <1>8, Stages DEF UasEarly
      <3>5. e # NoEv
        BY DEF NoEv
      <3>6. Stage(d) = "up"
        BY <3>3, <3>4, <3>5, Stages
      <3> QED  BY <3>2, <3>3, <3>6 DEF Reaches
    <2>3. CASE ~(r.prack_wait /\ ~r.prack_received)
      <3>1. v = UasRinging_RecvEvent(r, e)
        BY <2>1, <2>3 DEF UasRingingRel_RecvEvent
      <3>2. v = PreConnect(StartCreditTimer(CancelTimers(a, {"ex"})), FALSE)
        BY <1>2, <3>1 DEF UasRinging_RecvEvent, Ends
      <3> QED  BY <1>5, <3>2
    <2> QED  BY <2>2, <2>3
  <1>9. CASE r.st = "UasUpdating"
    <2>1. v = PreConnect(Reply(r, TRUE), FALSE)
      BY <1>9 DEF RecvEvent, UasUpdating_RecvEvent
    <2>2. Alike(r, Reply(r, TRUE))
      BY AsidesReplies
    <2> QED  BY <1>1, <2>1, <2>2, GetsUp
  <1>10. r.st = "UasTrying" \/ r.st = "UasRinging" \/ r.st = "UasRingingRel" \/ r.st = "UasUpdating"
    BY Stages
  <1> QED  BY <1>6, <1>7, <1>8, <1>9, <1>10

\* The other side refused the re-INVITE: the call goes on.
LEMMA TakesRefusal ==
    ASSUME NEW r \in UaRecords, NEW e \in Events, NEW way \in Ways,
           Stage(r) = "asked", e.k \in {"Fail", "Redirect"}
    PROVE  Reaches(r, RecvEvent(r, e, way), "up", r.q)
  <1>1. r.st = "UasUpdating" /\ ~r.late_media
    BY Stages DEF Prompt
  <1>2. RecvEvent(r, e, way) = PreConnect(Reply(r, TRUE), FALSE)
    BY <1>1 DEF RecvEvent, UasUpdating_RecvEvent
  <1>3. Alike(r, Reply(r, TRUE))
    BY AsidesReplies
  <1> QED  BY <1>1, <1>2, <1>3, GetsUp

\* Both legs are asked: neither re-INVITE is for the other one to ask.
LEMMA LosesUpdate ==
    ASSUME NEW r \in UaRecords, NEW e \in Events, NEW way \in Ways,
           Stage(r) = "asked", Offers(e)
    PROVE  Reaches(r, RecvEvent(r, e, way), "asked", r.q)
  <1>1. r.st = "UasUpdating" /\ e.k = "Update"
    BY Stages DEF Offers
  <1>2. RecvEvent(r, e, way) = r
    BY <1>1 DEF RecvEvent, UasUpdating_RecvEvent
  <1> QED  BY <1>2 DEF Reaches

\* The re-INVITE of the other side: asked of the peer, answered or refused at once,
\* or kept for the ACK or PRACK.
LEMMA TakesUpdate ==
    ASSUME NEW r \in UaRecords, NEW e \in Events, NEW way \in Ways,
           Stage(r) = "up", Offers(e)
    PROVE  LET s == RecvEvent(r, e, way)
           IN  \/ Reaches(r, s, "kept", r.q)
               \/ Reaches(r, s, "asking", r.q)
               \/ Reaches(r, s, "up", Append(r.q, EvBody("Connect", TRUE)))
               \/ Reaches(r, s, "up", Append(r.q, Ev("Fail")))
  <1>0. Stage(r) \in Live
    BY DEF Live
  <1>1. Prompt(r) /\ e.k = "Update" /\ e.body = TRUE
    BY <1>0, LiveLeg DEF Offers, Events
  <1>2. CASE r.st = "Connected"
    <2>1. RecvEvent(r, e, way) = Connected_Update(r, e, way)
      BY <1>1, <1>2 DEF RecvEvent, Connected_RecvEvent, Ends
    <2>2. r.late_media = FALSE /\ (r.late_media \/ ~e.body) = FALSE
      BY <1>0, <1>1, LiveLeg
    <2>3. PICK a : a = [r EXCEPT !.late_media = @ \/ ~e.body]  OBVIOUS
    <2>4. Alike(r, a)
      BY <2>2, <2>3, ZenonT(60) DEF Alike, Into, UaRecords
    <2>5. a \in UaRecords /\ a.q = r.q /\ a.gone = r.gone
      BY <2>4 DEF Alike, Into
    <2>6. ASSUME NEW t \in UaRecords, NEW c \in Events, Alike(r, t)
          PROVE  Reaches(r, Enqueue(t, c), "up", Append(r.q, c))
      <3>1. PICK d : d = Enqueue(t, c)  OBVIOUS
      <3>2. d \in UaRecords /\ SameCall(t, d) /\ SameMedia(t, d) /\ d.q = Append(t.q, c)
        BY <2>6, <3>1, Enqueues
      <3>3. t.st = "Connected" /\ t.q = r.q /\ t.gone = r.gone /\ Prompt(t)
        BY <1>1, <1>2, <2>6 DEF Alike, Into, Prompt
      <3>4. Stage(d) = "up"
        BY <3>2, <3>3, Stages DEF SameCall, SameMedia, Prompt
      <3> QED  BY <3>1, <3>2, <3>3, <3>4 DEF Reaches, SameCall
    <2>7. CASE way = "known"
      <3>1. EvBody("Connect", TRUE) \in Events
        BY EventTypes DEF EventKinds
      <3>2. RecvEvent(r, e, way) = Enqueue(r, EvBody("Connect", TRUE))
        BY <1>1, <2>1, <2>7 DEF Connected_Update
      <3> QED  BY <2>6, <3>1, <3>2, AlikeSelf
    <2>8. CASE way = "hops"
      <3>1. Ev("Fail") \in Events
        BY EventTypes DEF EventKinds
      <3>2. RecvEvent(r, e, way) = Enqueue(a, Ev("Fail"))
        BY <2>1, <2>3, <2>8 DEF Connected_Update
      <3> QED  BY <2>4, <2>5, <2>6, <3>1, <3>2
    <2>9. CASE way = "sent"
      <3>1. PICK b : b = [a EXCEPT !.uac = "calling", !.auth = FALSE]  OBVIOUS
      <3>2. RecvEvent(r, e, way) = ChangeState(b, "UacUpdating")
        BY <2>1, <2>3, <2>9, <3>1 DEF Connected_Update
      <3>3. Alike(a, b)
        BY <2>5, <3>1, ZenonT(60) DEF Alike, Into, UaRecords
      <3>5. Alike(r, b)
        BY <2>4, <3>3, AlikeTwice
      <3>6. PICK v : v = ChangeState(b, "UacUpdating")  OBVIOUS
      <3>7. b \in UaRecords /\ "UacUpdating" \in States
        BY <3>5 DEF Alike, Into, States
      <3>8. Into(r, v, "UacUpdating")
        BY <3>5, <3>6, <3>7, IntoState, AlikeInto
      <3>9. v \in UaRecords /\ Prompt(v)
        BY <1>1, <3>8 DEF Into, Prompt
      <3>10. Stage(v) = "asking"
        BY <3>8, <3>9, Stages DEF Into
      <3> QED  BY <3>2, <3>6, <3>8, <3>10 DEF Reaches, Into
    <2> QED  BY <2>7, <2>8, <2>9 DEF Ways
  <1>3. CASE r.st = "PreConnect"
    <2>1. PICK d : d = [r EXCEPT !.pendUpdate = e]  OBVIOUS
    <2>2. RecvEvent(r, e, way) = d
      BY <1>1, <1>3, <2>1 DEF RecvEvent, PreConnect_RecvEvent, Ends
    <2>3. /\ d \in UaRecords /\ d.st = "PreConnect" /\ Prompt(d)
          /\ d.pendUpdate = e /\ d.q = r.q /\ d.gone = r.gone
      BY <1>1, <1>3, <2>1 DEF UaRecords, Prompt
    <2>4. Stage(d) = "kept"
      BY <2>3, Stages
    <2> QED  BY <2>2, <2>3, <2>4 DEF Reaches
  <1>4. CASE r.st = "UasRingingRel"
    <2>1. PICK d : d = [r EXCEPT !.heldUpdate = e]  OBVIOUS
    <2>2. RecvEvent(r, e, way) = d
      BY <1>1, <1>4, <2>1 DEF RecvEvent, UasRingingRel_RecvEvent
    <2>3. r.heldConnect # NoEv
      BY <1>4, Stages
    <2>4. /\ d \in UaRecords /\ d.st = "UasRingingRel" /\ Prompt(d)
          /\ d.heldUpdate = e /\ d.heldConnect # NoEv /\ d.q = r.q /\ d.gone = r.gone
      BY <1>1, <1>4, <2>1, <2>3 DEF UaRecords, Prompt
    <2>5. Stage(d) = "kept"
      BY <2>4, Stages
    <2> QED  BY <2>2, <2>4, <2>5 DEF Reaches
  <1>5. r.st \in {"Connected", "PreConnect", "UasRingingRel"}
    BY Stages
  <1> QED  BY <1>2, <1>3, <1>4, <1>5

-----------------------------------------------------------------------------
(* What a message or a timer makes of a leg, and what it tells the other    *)
(* one.                                                                     *)
Tells(v, w, m) ==
    \/ w = v /\ m = <<>>
    \/ \E e \in Events : m = <<e>> /\
         \/ w = v /\ e.k \in {"Ring", "Ring100", "Info"}
         \/ v \in {"setup", "asking"} /\ w = "up" /\ e.k = "Connect"
         \/ v = "asking" /\ w = "up" /\ e.k \in {"Fail", "Redirect"}
         \/ v = "up" /\ w = "asked" /\ Offers(e)
         \/ w = "over" /\ e.k = "Disconnect"
         \/ v = "setup" /\ w = "over" /\ e.k \in {"Fail", "Redirect"}
    \/ v = "asking" /\ w = "over" /\ m = <<Ev("Fail"), Ev("Disconnect")>>

Acts(r, s) ==
    /\ s \in UaRecords
    /\ s.gone = r.gone
    /\ Tells(Stage(r), Stage(s), s.q)

LEMMA ActsNot ==
    ASSUME NEW r \in UaRecords, NEW s, Alike(r, s), r.q = <<>>
    PROVE  Acts(r, s)
  BY AlikeStage DEF Acts, Tells, Alike, Into

\* A leg with one event for the other one.
LEMMA OneEvent ==
    ASSUME NEW r \in UaRecords, NEW e \in Events, r.q = <<>>
    PROVE  LET u == Enqueue(r, e)
           IN  /\ u \in UaRecords /\ u.q = <<e>> /\ u.gone = r.gone /\ u.st = r.st
               /\ u.late_media = r.late_media /\ u.confirm = r.confirm
               /\ Stage(u) = Stage(r)
  <1>1. PICK u : u = Enqueue(r, e)  OBVIOUS
  <1>2. /\ u \in UaRecords /\ SameCall(r, u) /\ SameMedia(r, u) /\ SameRel(r, u)
        /\ u.q = Append(r.q, e)
    BY <1>1, Enqueues
  <1>3. u.q = <<e>>
    BY <1>2
  <1>4. Stage(u) = Stage(r)
    BY <1>2 DEF SameCall, SameMedia, SameRel, Stage, Up, Kept
  <1> QED  BY <1>1, <1>2, <1>3, <1>4 DEF SameCall, SameMedia

LEMMA ActsOver ==
    ASSUME NEW r \in UaRecords, NEW e \in Events, r.q = <<>>,
           e.k = "Disconnect" \/ (Stage(r) = "setup" /\ e.k \in {"Fail", "Redirect"}),
           NEW t, Alike(Enqueue(r, e), t), NEW s0 \in Over, s0 # "Dead"
    PROVE  Acts(r, ChangeState(t, s0))
  <1>1. PICK u : u = Enqueue(r, e)  OBVIOUS
  <1>2. u \in UaRecords /\ u.q = <<e>> /\ u.gone = r.gone
    BY <1>1, OneEvent
  <1>3. PICK s : s = ChangeState(t, s0)  OBVIOUS
  <1>4. Reaches(u, s, "over", u.q)
    BY <1>1, <1>2, <1>3, GetsOver
  <1> QED  BY <1>2, <1>3, <1>4 DEF Reaches, Acts, Tells

LEMMA ActsDisconnect ==
    ASSUME NEW r \in UaRecords, Stage(r) \in Live, r.q = <<>>, ~r.gone, NEW s, Alike(r, s)
    PROVE  Acts(r, Disconnect(s))
  <1>1. PICK e : e = Ev("Disconnect")  OBVIOUS
  <1>2. e \in Events /\ e.k = "Disconnect" /\ e.k \in Ends
    BY <1>1, EventTypes DEF EventKinds, Ev, Ends
  <1>3. s \in UaRecords /\ s.q = <<>> /\ s.gone = r.gone
    BY DEF Alike, Into
  <1>4. PICK u : u = Enqueue(s, e)  OBVIOUS
  <1>5. u \in UaRecords /\ u.q = <<e>> /\ u.gone = r.gone /\ u.st = s.st
    BY <1>2, <1>3, <1>4, OneEvent
  <1>6. u.st \notin Over /\ u.st # "None" /\ "sent" \in Ways
    BY <1>5, LiveLeg DEF Alike, Into, Ways
  <1>7. PICK v : v = RecvEvent(u, e, "sent")  OBVIOUS
  <1>8. Reaches(u, v, "over", u.q)
    BY <1>2, <1>5, <1>6, <1>7, EndsLeg
  <1>9. Disconnect(s) = v
    BY <1>1, <1>3, <1>4, <1>7 DEF Disconnect
  <1> QED  BY <1>2, <1>5, <1>8, <1>9 DEF Reaches, Acts, Tells

\* A live leg that keeps to its invariant still has its call controller.
LEMMA LiveHere ==
    ASSUME NEW r \in UaRecords, LegInv(r), Stage(r) \in Live
    PROVE  r.gone = FALSE
  BY LiveLeg DEF LegInv, Closing, UaRecords

LEMMA ActsEnded ==
    ASSUME NEW r \in UaRecords, NEW e \in Events, r.q = <<>>, e.k = "Disconnect"
    PROVE  Acts(r, EndedByPeer(r, e))
  <1>1. PICK u : u = Enqueue(r, e)  OBVIOUS
  <1>2. u \in UaRecords
    BY <1>1, OneEvent
  <1>3. PICK X : X = {IF r.st \in UasEarly THEN "ex" ELSE "cr"}  OBVIOUS
  <1>4. PICK c : c = CancelTimers(u, X)  OBVIOUS
  <1>5. Alike(u, c)
    BY <1>2, <1>4, AsidesTimers
  <1>6. PICK b \in BOOLEAN : b = (r.uas = "early")
    OBVIOUS
  <1>7. c \in UaRecords
    BY <1>5 DEF Alike, Into
  <1>8. PICK t : t = [c EXCEPT !.bye = TRUE, !.early_bye = b]  OBVIOUS
  <1>9. t \in UaRecords
    BY <1>7, <1>8, ZenonT(60) DEF UaRecords
  <1>10. Alike(c, t)
    BY <1>7, <1>8, <1>9 DEF Alike, Into, UaRecords
  <1>11. Alike(u, t)
    BY <1>5, <1>10, AlikeTwice
  <1>12. EndedByPeer(r, e) = ChangeState(t, "Disconnected")
    BY <1>1, <1>3, <1>4, <1>6, <1>8 DEF EndedByPeer
  <1>13. "Disconnected" \in Over
    BY DEF Over
  <1> QED  BY <1>1, <1>11, <1>12, <1>13, ActsOver

LEMMA ActsRequests ==
    ASSUME NEW r \in UaRecords, LegInv(r), Stage(r) \in Live, r.q = <<>>
    PROVE  /\ \A also \in BOOLEAN : Acts(r, RecvBYE(r, also))
           /\ Acts(r, RecvREFER(r))
           /\ Acts(r, RecvINFO(r))
  <1>1. /\ r.st \notin Over /\ r.gone = FALSE /\ Alike(r, r)
        /\ r.st # "Disconnected"
    BY LiveLeg, LiveHere, AlikeSelf DEF Over
  <1>2. Acts(r, r)
    BY <1>1, ActsNot
  <1>3. PICK d : d = Ev("Disconnect")  OBVIOUS
  <1>4. d \in Events /\ d.k = "Disconnect" /\ Transfer \in Events /\ Transfer.k = "Disconnect"
    BY <1>3, EventTypes DEF Ev, Transfer, EventKinds
  <1>5. Acts(r, EndedByPeer(r, d)) /\ Acts(r, EndedByPeer(r, Transfer))
    BY <1>4, ActsEnded
  <1>6. ASSUME NEW also \in BOOLEAN PROVE Acts(r, RecvBYE(r, also))
    <2>1. RecvBYE(r, also) \in {r, EndedByPeer(r, d), EndedByPeer(r, Transfer)}
      <3>1. PICK e : e = IF also THEN Transfer ELSE d  OBVIOUS
      <3>2. RecvBYE(r, also) =
              CASE r.st \in {"UasRinging", "UasRingingRel", "Connected"} -> EndedByPeer(r, e)
                [] r.st \in {"PreConnect", "UasUpdating", "UacUpdating"} -> EndedByPeer(r, d)
                [] r.st = "Disconnected" -> [r EXCEPT !.bye = TRUE]
                [] OTHER                 -> r
        BY <1>3, <3>1 DEF RecvBYE
      <3>3. e \in {Transfer, d}
        BY <3>1
      <3> QED  BY <1>1, <3>2, <3>3
    <2> QED  BY <1>2, <1>5, <2>1
  <1>7. Acts(r, RecvREFER(r))
    <2>1. CASE r.st \in {"PreConnect", "UasUpdating"}
      <3>1. RecvREFER(r) = EndedByPeer(r, Transfer)
        BY <2>1 DEF RecvREFER
      <3> QED  BY <1>5, <3>1
    <2>2. CASE r.st = "Connected"
      <3>1. PICK u : u = Enqueue(r, Transfer)  OBVIOUS
      <3>2. u \in UaRecords /\ u.q = <<Transfer>> /\ u.gone = r.gone /\ u.st = r.st
        BY <1>4, <3>1, OneEvent
      <3>3. PICK v : v = RecvEvent(u, d, "sent")  OBVIOUS
      <3>4. u.st \notin Over /\ u.st # "None" /\ d.k \in Ends /\ "sent" \in Ways
        BY <1>1, <1>4, <2>2, <3>2 DEF Ends, Ways
      <3>5. Reaches(u, v, "over", u.q)
        BY <1>4, <3>2, <3>3, <3>4, EndsLeg
      <3>6. RecvREFER(r) = v
        BY <1>3, <2>2, <3>1, <3>3 DEF RecvREFER
      <3> QED  BY <1>4, <3>2, <3>5, <3>6 DEF Reaches, Acts, Tells
    <2>3. CASE r.st \notin {"PreConnect", "UasUpdating", "Connected"}
      <3>1. RecvREFER(r) = r
        BY <2>3 DEF RecvREFER
      <3> QED  BY <1>2, <3>1
    <2> QED  BY <2>1, <2>2, <2>3
  <1>8. Acts(r, RecvINFO(r))
    <2>1. PICK i : i = EvBody("Info", FALSE)  OBVIOUS
    <2>2. i \in Events /\ i.k = "Info"
      BY <2>1, EventTypes DEF EvBody, EventKinds
    <2>3. Acts(r, Enqueue(r, i))
      BY <2>2, OneEvent DEF Acts, Tells
    <2>4. RecvINFO(r) \in {r, Enqueue(r, i)}
      BY <2>1 DEF RecvINFO
    <2> QED  BY <1>2, <2>3, <2>4
  <1> QED  BY <1>6, <1>7, <1>8

LEMMA ActsAlike ==
    ASSUME NEW r \in UaRecords, NEW s, NEW v, Alike(r, s), Acts(s, v)
    PROVE  Acts(r, v)
  <1>1. Stage(s) = Stage(r) /\ s.gone = r.gone
    BY AlikeStage DEF Alike
  <1> QED  BY <1>1 DEF Acts

LEMMA ActsReINVITE ==
    ASSUME NEW r \in UaRecords, LegInv(r), Stage(r) \in Live, r.q = <<>>,
           NEW body \in BOOLEAN, NEW same \in BOOLEAN, body = TRUE
    PROVE  Acts(r, RecvReINVITE(r, body, same))
  <1>1. CASE ~(r.st = "Connected" /\ ~(body /\ same))
    <2>1. RecvReINVITE(r, body, same) = r
      BY <1>1 DEF RecvReINVITE
    <2> QED  BY <2>1, AlikeSelf, ActsNot
  <1>2. CASE r.st = "Connected" /\ ~(body /\ same)
    <2>1. PICK s : s = [r EXCEPT !.uas = "early", !.ackw = FALSE]  OBVIOUS
    <2>2. Alike(r, s)
      BY <2>1, ZenonT(60) DEF Alike, Into, UaRecords
    <2>3. s \in UaRecords /\ s.q = <<>>
      BY <2>2 DEF Alike, Into
    <2>4. PICK e : e = EvBody("Update", body)  OBVIOUS
    <2>5. e \in Events /\ Offers(e)
      BY <2>4, EventTypes DEF EvBody, EventKinds, Offers
    <2>6. PICK u : u = Enqueue(s, e)  OBVIOUS
    <2>7. /\ u \in UaRecords /\ u.q = <<e>> /\ u.gone = r.gone
          /\ u.late_media = s.late_media /\ u.confirm = s.confirm
      BY <2>2, <2>3, <2>5, <2>6, OneEvent DEF Alike
    <2>8. PICK v : v = ChangeState(u, "UasUpdating")  OBVIOUS
    <2>9. "UasUpdating" \in States
      BY DEF States
    <2>10. Into(u, v, "UasUpdating")
      BY <2>7, <2>8, <2>9, IntoState
    <2>11. Prompt(r)
      BY LiveLeg
    <2>12. v \in UaRecords /\ Prompt(v) /\ v.st = "UasUpdating" /\ v.q = <<e>> /\ v.gone = r.gone
      BY <2>2, <2>7, <2>10, <2>11 DEF Alike, Into, Prompt
    <2>13. Stage(v) = "asked"
      BY <2>12, Stages
    <2>14. Stage(r) = "up"
      BY <1>2, <2>11, Stages
    <2>15. RecvReINVITE(r, body, same) = v
      BY <1>2, <2>1, <2>4, <2>6, <2>8 DEF RecvReINVITE
    <2> QED  BY <2>5, <2>12, <2>13, <2>14, <2>15 DEF Acts, Tells
  <1> QED  BY <1>1, <1>2

LEMMA ActsCancel ==
    ASSUME NEW r \in UaRecords, LegInv(r), Stage(r) \in Live, r.q = <<>>, r.uas = "early",
           BoundCancel(r) # "none" => r.cancelCB = BoundCancel(r)
    PROVE  Acts(r, RecvCancel(r))
  <1>1. r.st \notin Over /\ r.gone = FALSE
    BY LiveLeg, LiveHere
  <1>2. r.st \in UasEarly \/ r.st = "UasUpdating"
    BY <1>1 DEF LegInv, Answering, Asked
  <1>3. r.cancelCB \in {"early", "updating"}
    BY <1>2 DEF BoundCancel, UasEarly
  <1>4. PICK s : s = [r EXCEPT !.uas = "completed", !.ackw = FALSE]  OBVIOUS
  <1>5. Alike(r, s)
    BY <1>4, ZenonT(60) DEF Alike, Into, UaRecords
  <1>6. s \in UaRecords /\ s.q = <<>>
    BY <1>5 DEF Alike, Into
  <1>7. PICK e : e = Ev("Disconnect")  OBVIOUS
  <1>8. e \in Events /\ e.k = "Disconnect"
    BY <1>7, EventTypes DEF Ev, EventKinds
  <1>9. PICK u : u = Enqueue(s, e)  OBVIOUS
  <1>10. u \in UaRecords
    BY <1>6, <1>8, <1>9, OneEvent
  <1>11. "Disconnected" \in Over
    BY DEF Over
  <1>12. CASE r.cancelCB = "early"
    <2>1. RecvCancel(r) = ChangeState(u, "Disconnected")
      BY <1>1, <1>4, <1>7, <1>9, <1>12 DEF RecvCancel
    <2>2. Acts(s, ChangeState(u, "Disconnected"))
      BY <1>6, <1>8, <1>9, <1>10, <1>11, AlikeSelf, ActsOver
    <2> QED  BY <1>5, <2>1, <2>2, ActsAlike
  <1>13. CASE r.cancelCB = "updating"
    <2>1. RecvCancel(r) = ChangeState(CancelTimers(SendBYE(u), {"cr"}), "Disconnected")
      BY <1>1, <1>4, <1>7, <1>9, <1>13 DEF RecvCancel
    <2>2. PICK c : c = SendBYE(u)  OBVIOUS
    <2>3. Alike(u, c)
      BY <1>10, <2>2, AsidesReplies
    <2>4. c \in UaRecords
      BY <2>3 DEF Alike, Into
    <2>5. PICK d : d = CancelTimers(c, {"cr"})  OBVIOUS
    <2>6. Alike(u, d)
      BY <2>3, <2>4, <2>5, AsidesTimers, AlikeTwice
    <2>7. Acts(s, ChangeState(d, "Disconnected"))
      BY <1>6, <1>8, <1>9, <1>11, <2>6, ActsOver
    <2> QED  BY <1>5, <2>1, <2>2, <2>5, <2>7, ActsAlike
  <1> QED  BY <1>3, <1>12, <1>13

\* The ACK makes a leg Connected that waits for it.
LEMMA ActsACK ==
    ASSUME NEW r \in UaRecords, LegInv(r), Stage(r) \in Live, r.q = <<>>, NEW body \in BOOLEAN
    PROVE  IF r.ackw /\ r.st = "PreConnect" THEN Reaches(r, RecvACK(r, body), "up", <<>>)
                                            ELSE Acts(r, RecvACK(r, body))
  <1>1. PICK s : s = [r EXCEPT !.uas = "closed"]  OBVIOUS
  <1>2. Alike(r, s)
    BY <1>1 DEF Alike, Into, UaRecords
  <1>3. r.confirm = FALSE /\ Prompt(r)
    BY LiveLeg
  <1>4. CASE r.ackw /\ r.st = "PreConnect"
    <2>1. RecvACK(r, body) = ChangeState(s, "Connected")
      BY <1>1, <1>3, <1>4 DEF RecvACK
    <2>2. PICK v : v = ChangeState(s, "Connected")  OBVIOUS
    <2>3. s \in UaRecords /\ "Connected" \in States
      BY <1>2 DEF Alike, Into, States
    <2>4. Into(r, v, "Connected")
      BY <1>2, <2>2, <2>3, IntoState, AlikeInto
    <2>5. v \in UaRecords /\ Prompt(v) /\ v.st = "Connected" /\ v.q = <<>> /\ v.gone = r.gone
      BY <1>3, <2>4 DEF Into, Prompt
    <2>6. Stage(v) = "up"
      BY <2>5, Stages
    <2> QED  BY <1>4, <2>1, <2>2, <2>5, <2>6 DEF Reaches
  <1>5. CASE ~(r.ackw /\ r.st = "PreConnect")
    <2>1. RecvACK(r, body) = s
      BY <1>1, <1>5 DEF RecvACK
    <2>2. Acts(r, s)
      BY <1>2, ActsNot
    <2> HIDE <1>1
    <2> QED  BY <1>5, <2>1, <2>2
  <1> QED  BY <1>4, <1>5

\* The PRACK lets the Connect go that was held for it.
LEMMA ActsPRACK ==
    ASSUME NEW r \in UaRecords, LegInv(r), Stage(r) \in Live, r.q = <<>>
    PROVE  IF r.st = "UasRingingRel" /\ r.heldConnect # NoEv
           THEN Reaches(r, RecvPRACK(r), "up", <<>>)
           ELSE Reaches(r, RecvPRACK(r), Stage(r), <<>>)
  <1>1. ~r.late_media /\ ~r.confirm /\ Prompt(r) /\ Held(r)
    BY LiveLeg DEF Prompt, LegInv
  <1>2. CASE r.st # "UasRingingRel"
    <2>1. PICK s : s = [r EXCEPT !.prov = FALSE]  OBVIOUS
    <2>2. RecvPRACK(r) = s
      BY <1>2, <2>1 DEF RecvPRACK
    <2>3. Alike(r, s)
      BY <2>1, ZenonT(60) DEF Alike, Into, UaRecords
    <2>4. Reaches(r, s, Stage(r), <<>>)
      BY <2>3, StaysThere
    <2> QED  BY <1>2, <2>2, <2>4
  <1>3. CASE r.st = "UasRingingRel"
    <2>1. PICK s : s = [r EXCEPT !.prov = FALSE, !.prack_received = TRUE]  OBVIOUS
    <2>2. /\ Alike(r, s) /\ s.prack_received = TRUE
      BY <2>1, ZenonT(60) DEF Alike, Into, UaRecords
    <2>3. s \in UaRecords /\ s.st = "UasRingingRel" /\ ~s.late_media
      BY <1>1, <1>3, <2>2 DEF Alike, Into
    <2>4. PICK t : t = CASE r.heldConnect # NoEv -> UasRingingRel_RecvEvent(s, r.heldConnect)
                         [] r.heldConnect = NoEv /\ r.heldRing # NoEv ->
                              UasRingingRel_RecvEvent(s, r.heldRing)
                         [] OTHER -> s
      OBVIOUS
    <2>5. PICK w : w = [t EXCEPT !.heldRing = NoEv, !.heldConnect = NoEv, !.heldUpdate = NoEv]
      OBVIOUS
    <2>6. RecvPRACK(r) = w
      BY <1>3, <2>1, <2>4, <2>5 DEF RecvPRACK
    <2>7. t \in UaRecords =>
            /\ w \in UaRecords /\ w.st = t.st /\ w.q = t.q /\ w.gone = t.gone
            /\ w.late_media = t.late_media /\ w.confirm = t.confirm /\ w.pendUpdate = t.pendUpdate
            /\ w.heldConnect = NoEv /\ w.heldUpdate = NoEv
      <3>1. SUFFICES ASSUME t \in UaRecords
                     PROVE  /\ w \in UaRecords /\ w.st = t.st /\ w.q = t.q /\ w.gone = t.gone
                            /\ w.late_media = t.late_media /\ w.confirm = t.confirm
                            /\ w.pendUpdate = t.pendUpdate
                            /\ w.heldConnect = NoEv /\ w.heldUpdate = NoEv
        OBVIOUS
      <3>2. w \in UaRecords
        BY <2>5, <3>1, ClearType
      <3> QED  BY <2>5, <3>1, <3>2 DEF UaRecords
    <2>8. CASE r.heldConnect # NoEv
      <3>1. PICK e : e = r.heldConnect  OBVIOUS
      <3>2. e.k = "Connect"
        BY <1>1, <2>8, <3>1 DEF Held
      <3>3. t = UasRinging_RecvEvent(s, e)
        BY <2>2, <2>4, <2>8, <3>1, <3>2 DEF UasRingingRel_RecvEvent
      <3>4. PICK a : a = ReplyOK(s)  OBVIOUS
      <3>5. t = PreConnect(StartCreditTimer(CancelTimers(a, {"ex"})), FALSE)
        BY <3>2, <3>3, <3>4 DEF UasRinging_RecvEvent, Ends
      <3>6. Alike(s, a)
        BY <2>3, <3>4, AsidesReplies
      <3>7. a \in UaRecords
        BY <3>6 DEF Alike, Into
      <3>8. PICK b : b = CancelTimers(a, {"ex"})  OBVIOUS
      <3>9. Alike(s, b)
        BY <3>6, <3>7, <3>8, AsidesTimers, AlikeTwice
      <3>10. b \in UaRecords
        BY <3>9 DEF Alike, Into
      <3>11. Alike(s, StartCreditTimer(b))
        BY <3>9, <3>10, AsidesTimers, AlikeTwice
      <3>12. Reaches(s, t, "up", s.q)
        BY <2>3, <3>5, <3>8, <3>11, GetsUp
      <3>13. t.st = "PreConnect"
        <4>1. PICK c : c = StartCreditTimer(b)  OBVIOUS
        <4>2. c \in UaRecords
          BY <3>11, <4>1 DEF Alike, Into
        <4>3. PICK g : g = ChangeState(c, "PreConnect")  OBVIOUS
        <4>4. "PreConnect" \in States
          BY DEF States
        <4>5. g \in UaRecords /\ g.st = "PreConnect"
          BY <4>2, <4>3, <4>4, IntoState DEF Into
        <4>6. t = [g EXCEPT !.confirm = FALSE, !.pendUpdate = NoEv]
          BY <3>5, <3>8, <4>1, <4>3 DEF PreConnect
        <4> QED  BY <4>5, <4>6 DEF UaRecords
      <3>14. t \in UaRecords /\ t.q = <<>> /\ t.gone = r.gone
        BY <2>2, <3>12 DEF Reaches, Alike, Into
      <3>15. Prompt(t) /\ t.pendUpdate = NoEv
        BY <3>12, <3>13, <3>14, Stages DEF Reaches
      <3>16. Stage(w) = "up"
        BY <2>7, <3>13, <3>14, <3>15, Stages DEF Prompt
      <3> QED  BY <1>3, <2>6, <2>7, <2>8, <3>14, <3>16 DEF Reaches
    <2>9. CASE r.heldConnect = NoEv
      <3>1. Alike(s, t)
        <4>1. CASE r.heldRing = NoEv
          <5>1. t = s
            BY <2>4, <2>9, <4>1
          <5> QED  BY <2>3, <5>1, AlikeSelf
        <4>2. CASE r.heldRing # NoEv
          <5>1. PICK e : e = r.heldRing  OBVIOUS
          <5>2. e.k = "Ring" /\ e \in Events
            BY <1>1, <4>2, <5>1 DEF Held, UaRecords
          <5>3. e.body \in BOOLEAN
            BY <5>2 DEF Events
          <5>4. PICK c : c = [s EXCEPT !.prack_wait = e.body, !.prack_received = FALSE]  OBVIOUS
          <5>5. t = ReplyRinging(c)
            BY <2>2, <2>4, <2>9, <4>2, <5>1, <5>2, <5>4 DEF UasRingingRel_RecvEvent, UasRinging_RecvEvent, Ends
          <5>6. Alike(s, c)
            BY <2>3, <5>3, <5>4, ZenonT(60) DEF Alike, Into, UaRecords
          <5>7. c \in UaRecords
            BY <5>6 DEF Alike, Into
          <5> QED  BY <5>5, <5>6, <5>7, AsidesReplies, AlikeTwice
        <4> QED  BY <4>1, <4>2
      <3>2. Alike(r, t)
        BY <2>2, <3>1, AlikeTwice
      <3>3. /\ t \in UaRecords /\ t.q = <<>> /\ t.gone = r.gone /\ t.st = "UasRingingRel"
            /\ Prompt(t)
        BY <1>1, <1>3, <3>2 DEF Alike, Into, Prompt
      <3>4. Stage(w) = "early"
        BY <2>7, <3>3, Stages DEF Prompt
      <3>5. Stage(r) = "early"
        BY <1>3, <2>9, Stages DEF Live
      <3>6. Reaches(r, w, Stage(r), <<>>)
        BY <2>7, <3>3, <3>4, <3>5 DEF Reaches
      <3> QED  BY <2>6, <2>9, <3>6
    <2> QED  BY <2>8, <2>9
  <1> QED  BY <1>2, <1>3

LEMMA ActsTimers ==
    ASSUME NEW r \in UaRecords, LegInv(r), Stage(r) \in Live, r.q = <<>>
    PROVE  /\ Acts(r, Disconnect([r EXCEPT !.uas = "closed"]))
           /\ Acts(r, [r EXCEPT !.prov = FALSE])
           /\ Acts(r, Disconnect([r EXCEPT !.prov = FALSE]))
           /\ Reaches(r, ReferAnswered(r), Stage(r), <<>>)
           /\ \A x \in TimerNames :
                  Reaches(r, [r EXCEPT !.arm = @ \ {x}, !.pop = @ \cup {x}], Stage(r), <<>>)
           /\ \A x \in r.pop : Acts(r, Expired(r, x))
  <1>1. ~r.gone /\ r.st \notin Over
    BY LiveHere, LiveLeg
  <1>2. Acts(r, Disconnect([r EXCEPT !.uas = "closed"]))
    <2>1. PICK s : s = [r EXCEPT !.uas = "closed"]  OBVIOUS
    <2>2. Alike(r, s)
      BY <2>1 DEF Alike, Into, UaRecords
    <2> QED  BY <1>1, <2>1, <2>2, ActsDisconnect
  <1>3. PICK p : p = [r EXCEPT !.prov = FALSE]  OBVIOUS
  <1>4. Alike(r, p)
    BY <1>3, ZenonT(60) DEF Alike, Into, UaRecords
  <1>5. Acts(r, p) /\ Acts(r, Disconnect(p))
    BY <1>1, <1>4, ActsNot, ActsDisconnect
  <1>6. Reaches(r, ReferAnswered(r), Stage(r), <<>>)
    <2>1. PICK b : b = SendBYE(r)  OBVIOUS
    <2>2. Alike(r, b)
      BY <2>1, AsidesReplies
    <2>3. b \in UaRecords
      BY <2>2 DEF Alike, Into
    <2>4. PICK c : c = [b EXCEPT !.refer = "done"]  OBVIOUS
    <2>5. c \in UaRecords
      BY <2>3, <2>4, ZenonT(60) DEF UaRecords
    <2>6. Alike(b, c)
      BY <2>3, <2>4, <2>5, ZenonT(60) DEF Alike, Into, UaRecords
    <2>7. ReferAnswered(r) = c
      BY <2>1, <2>4 DEF ReferAnswered
    <2>8. Alike(r, c)
      BY <2>2, <2>6, AlikeTwice
    <2> QED  BY <2>7, <2>8, StaysThere
  <1>7. ASSUME NEW x \in TimerNames
        PROVE  Reaches(r, [r EXCEPT !.arm = @ \ {x}, !.pop = @ \cup {x}], Stage(r), <<>>)
    <2>1. PICK a : a = r.arm \ {x}  OBVIOUS
    <2>2. PICK b : b = r.pop \cup {x}  OBVIOUS
    <2>3. a \in SUBSET TimerNames /\ b \in SUBSET TimerNames
      BY <2>1, <2>2 DEF UaRecords
    <2>4. PICK c : c = [r EXCEPT !.arm = a, !.pop = b]  OBVIOUS
    <2>5. Alike(r, c)
      BY <2>3, <2>4, ZenonT(60) DEF Alike, Into, UaRecords
    <2>6. [r EXCEPT !.arm = @ \ {x}, !.pop = @ \cup {x}] = c
      BY <2>1, <2>2, <2>4
    <2> QED  BY <2>5, <2>6, StaysThere
  <1>8. ASSUME NEW x \in r.pop PROVE Acts(r, Expired(r, x))
    <2>1. x \notin {"dead", "idle"}
      BY <1>1 DEF LegInv, Timing, Allowed
    <2>2. PICK a : a = r.pop \ {x}  OBVIOUS
    <2>3. PICK b : b = r.tptr \ {x}  OBVIOUS
    <2>4. a \in SUBSET TimerNames /\ b \in SUBSET TimerNames
      BY <2>2, <2>3 DEF UaRecords
    <2>5. PICK c : c = [r EXCEPT !.pop = a, !.tptr = b]  OBVIOUS
    <2>6. Alike(r, c)
      BY <2>4, <2>5, ZenonT(60) DEF Alike, Into, UaRecords
    <2>7. Expired(r, x) = Disconnect(c)
      BY <2>1, <2>2, <2>3, <2>5 DEF Expired
    <2> QED  BY <1>1, <2>6, <2>7, ActsDisconnect
  <1> QED  BY <1>2, <1>3, <1>5, <1>6, <1>7, <1>8

-----------------------------------------------------------------------------
(* Responses.                                                               *)
LEMMA AsidesUac ==
    ASSUME NEW r \in UaRecords, NEW code
    PROVE  Alike(r, UacTimers(r, code))
  <1>1. "ex" \in TimerNames /\ <<"np", "ex">> \in {<<"np", "ex">>, <<"nr", "np", "ex">>}
    BY DEF TimerNames
  <1>2. PICK c : c = CancelTimers(r, {"nr"})  OBVIOUS
  <1>3. Alike(r, c)
    BY <1>2, AsidesTimers
  <1>4. c \in UaRecords
    BY <1>3 DEF Alike, Into
  <1>5. PICK s : s = IF "nr" \in r.tptr
                     THEN CASE code = "100" -> StartFirst(c, <<"np", "ex">>)
                            [] code = "1xx" -> StartTimer(c, "ex")
                            [] OTHER        -> c
                     ELSE r
    OBVIOUS
  <1>6. Alike(r, StartFirst(c, <<"np", "ex">>)) /\ Alike(r, StartTimer(c, "ex"))
    BY <1>1, <1>3, <1>4, AsidesTimers, AlikeTwice
  <1>7. Alike(r, r)
    BY AlikeSelf
  <1>8. Alike(r, s)
    <2>1. s \in {StartFirst(c, <<"np", "ex">>), StartTimer(c, "ex"), c, r}
      BY <1>5
    <2> QED  BY <1>3, <1>6, <1>7, <2>1
  <1>9. s \in UaRecords
    BY <1>8 DEF Alike, Into
  <1>10. PICK d : d = CancelTimers(s, {"np"})  OBVIOUS
  <1>11. Alike(r, d)
    BY <1>8, <1>9, <1>10, AsidesTimers, AlikeTwice
  <1>12. d \in UaRecords
    BY <1>11 DEF Alike, Into
  <1>13. Alike(r, StartTimer(d, "ex"))
    BY <1>1, <1>11, <1>12, AsidesTimers, AlikeTwice
  <1>14. UacTimers(r, code) =
           CASE "np" \in s.tptr /\ code = "1xx" -> StartTimer(d, "ex")
             [] "np" \in s.tptr /\ code \notin Provisional -> d
             [] OTHER -> s
    BY <1>2, <1>5, <1>10 DEF UacTimers
  <1>15. UacTimers(r, code) \in {StartTimer(d, "ex"), d, s}
    BY <1>14
  <1> QED  BY <1>8, <1>11, <1>13, <1>15

\* A leg that is connected, with one event for the other one.
LEMMA ActsUp ==
    ASSUME NEW r \in UaRecords, NEW e \in Events, r.q = <<>>, Stage(r) \in {"setup", "asking"},
           \/ e.k = "Connect"
           \/ Stage(r) = "asking" /\ e.k \in {"Fail", "Redirect"},
           NEW t, Alike(Enqueue(r, e), t)
    PROVE  Acts(r, ChangeState(t, "Connected"))
  <1>1. PICK u : u = Enqueue(r, e)  OBVIOUS
  <1>2. u \in UaRecords /\ u.q = <<e>> /\ u.gone = r.gone /\ u.late_media = r.late_media /\ u.confirm = r.confirm
    BY <1>1, OneEvent
  <1>3. t \in UaRecords /\ "Connected" \in States
    BY DEF Alike, Into, States
  <1>4. PICK v : v = ChangeState(t, "Connected")  OBVIOUS
  <1>5. Into(u, v, "Connected")
    BY <1>1, <1>3, <1>4, IntoState, AlikeInto
  <1>6. Stage(r) \in Live
    BY DEF Live
  <1>7. Prompt(r)
    BY <1>6, LiveLeg
  <1>8. v \in UaRecords /\ Prompt(v) /\ v.st = "Connected" /\ v.q = <<e>> /\ v.gone = r.gone
    BY <1>2, <1>5, <1>7 DEF Into, Prompt
  <1>9. Stage(v) = "up"
    BY <1>8, Stages
  <1> QED  BY <1>4, <1>8, <1>9 DEF Acts, Tells

LEMMA RefusedEvent ==
    \A m : Refused(m) \in Events /\ Refused(m).k \in {"Fail", "Redirect"}
  BY EventTypes DEF Refused, Ev, EventKinds

LEMMA ActsFinal ==
    ASSUME NEW r \in UaRecords, NEW m \in Responses, Stage(r) = "setup", r.q = <<>>
    PROVE  Acts(r, UacFinal(r, m))
  <1>1. PICK s : s = CancelTimers(r, {"ex"})  OBVIOUS
  <1>2. Alike(r, s)
    BY <1>1, AsidesTimers
  <1>3. Stage(r) \in Live
    BY DEF Live
  <1>4. s \in UaRecords /\ s.q = <<>> /\ Stage(s) = "setup" /\ s.late_media = FALSE
    BY <1>2, <1>3, LiveLeg, AlikeStage DEF Alike, Into
  <1>5. "Failed" \in Over /\ m.body \in BOOLEAN
    BY DEF Over, Responses
  <1>6. CASE m.code = "2xx" /\ ~m.tag
    <2>1. PICK e : e = Ev("Fail")  OBVIOUS
    <2>2. e \in Events /\ e.k = "Fail"
      BY <2>1, EventTypes DEF Ev, EventKinds
    <2>3. PICK u : u = Enqueue(s, e)  OBVIOUS
    <2>4. u \in UaRecords
      BY <1>4, <2>2, <2>3, OneEvent
    <2>5. PICK t : t = SendBYE(u)  OBVIOUS
    <2>6. Alike(u, t)
      BY <2>4, <2>5, AsidesReplies
    <2>7. Acts(s, ChangeState(t, "Failed"))
      BY <1>4, <1>5, <2>2, <2>3, <2>6, ActsOver
    <2>8. UacFinal(r, m) = ChangeState(t, "Failed")
      BY <1>1, <1>6, <2>1, <2>3, <2>5 DEF UacFinal
    <2> QED  BY <1>2, <2>7, <2>8, ActsAlike
  <1>7. CASE m.code = "2xx" /\ m.tag
    <2>1. PICK a : a = [s EXCEPT !.late_media = FALSE]  OBVIOUS
    <2>2. Alike(s, a)
      BY <1>4, <2>1, ZenonT(60) DEF Alike, Into, UaRecords
    <2>3. a \in UaRecords /\ a.q = <<>> /\ Stage(a) = "setup" /\ a.late_media = FALSE
      BY <1>4, <2>2, AlikeStage DEF Alike, Into
    <2>4. PICK e : e = EvBody("Connect", m.body)  OBVIOUS
    <2>5. e \in Events /\ e.k = "Connect"
      BY <1>5, <2>4, EventTypes DEF EvBody, EventKinds
    <2>6. PICK u : u = Enqueue(a, e)  OBVIOUS
    <2>7. u \in UaRecords
      BY <2>3, <2>5, <2>6, OneEvent
    <2>8. PICK t : t = StartCreditTimer(u)  OBVIOUS
    <2>9. Alike(u, t)
      BY <2>7, <2>8, AsidesTimers
    <2>10. Acts(a, ChangeState(t, "Connected"))
      BY <2>3, <2>5, <2>6, <2>9, ActsUp
    <2>11. Answered(a, m) = u
      BY <2>3, <2>4, <2>6 DEF Answered
    <2>12. UacFinal(r, m) = ChangeState(StartCreditTimer(Answered(a, m)), "Connected")
      BY <1>1, <1>4, <1>7, <2>1 DEF UacFinal
    <2>13. Acts(s, ChangeState(t, "Connected"))
      BY <1>4, <2>2, <2>10, ActsAlike
    <2> QED  BY <1>2, <2>8, <2>11, <2>12, <2>13, ActsAlike
  <1>8. CASE m.code # "2xx"
    <2>1. PICK e : e = Refused(m)  OBVIOUS
    <2>2. e \in Events /\ e.k \in {"Fail", "Redirect"}
      BY <2>1, RefusedEvent
    <2>3. PICK u : u = Enqueue(s, e)  OBVIOUS
    <2>4. u \in UaRecords
      BY <1>4, <2>2, <2>3, OneEvent
    <2>5. Acts(s, ChangeState(u, "Failed"))
      BY <1>4, <1>5, <2>2, <2>3, <2>4, AlikeSelf, ActsOver
    <2>6. UacFinal(r, m) = ChangeState(u, "Failed")
      BY <1>1, <1>8, <2>1, <2>3 DEF UacFinal
    <2> QED  BY <1>2, <2>5, <2>6, ActsAlike
  <1> QED  BY <1>6, <1>7, <1>8

LEMMA ActsSetup ==
    ASSUME NEW r \in UaRecords, NEW m \in Responses, Stage(r) = "setup", r.q = <<>>
    PROVE  /\ r.st = "UacTrying"  => Acts(r, UacTrying_RecvResponse(r, m))
           /\ r.st = "UacRinging" => Acts(r, UacRinging_RecvResponse(r, m))
  <1>1. m.body \in BOOLEAN /\ Prompt(r)
    BY Stages DEF Responses
  <1>2. PICK h : h = Ev("Ring100")  OBVIOUS
  <1>3. PICK g : g = EvBody("Ring", m.body)  OBVIOUS
  <1>4. h \in Events /\ h.k = "Ring100" /\ g \in Events /\ g.k = "Ring"
    BY <1>1, <1>2, <1>3, EventTypes DEF Ev, EvBody, EventKinds
  <1>5. ASSUME NEW s \in UaRecords, Stage(s) = "setup", s.q = <<>>
        PROVE  Acts(s, Enqueue(s, h)) /\ Acts(s, Enqueue(s, g))
    BY <1>4, <1>5, OneEvent DEF Acts, Tells
  <1>6. CASE r.st = "UacTrying"
    <2>1. PICK s : s = UacTimers(r, m.code)  OBVIOUS
    <2>2. Alike(r, s)
      BY <2>1, AsidesUac
    <2>3. s \in UaRecords /\ s.q = <<>> /\ Stage(s) = "setup" /\ Prompt(s)
      BY <1>1, <2>2, AlikeStage DEF Alike, Into, Prompt
    <2>4. PICK u : u = Enqueue(s, g)  OBVIOUS
    <2>5. /\ u \in UaRecords /\ u.q = <<g>> /\ u.gone = s.gone
          /\ u.late_media = s.late_media /\ u.confirm = s.confirm
      BY <1>4, <2>3, <2>4, OneEvent
    <2>6. PICK v : v = ChangeState(u, "UacRinging")  OBVIOUS
    <2>7. "UacRinging" \in States
      BY DEF States
    <2>8. Into(u, v, "UacRinging")
      BY <2>5, <2>6, <2>7, IntoState
    <2>9. v \in UaRecords /\ Prompt(v) /\ v.st = "UacRinging" /\ v.q = <<g>> /\ v.gone = s.gone
      BY <2>3, <2>5, <2>8 DEF Into, Prompt
    <2>10. Stage(v) = "setup"
      BY <2>9, Stages
    <2>11. Acts(s, v)
      BY <1>4, <2>3, <2>9, <2>10 DEF Acts, Tells
    <2>12. Acts(s, UacFinal(s, m)) /\ Acts(s, s) /\ Acts(s, Enqueue(s, h))
      BY <1>5, <2>3, AlikeSelf, ActsNot, ActsFinal
    <2>13. UacTrying_RecvResponse(r, m) \in {Enqueue(s, h), s, v, UacFinal(s, m)}
      <3>1. UacTrying_RecvResponse(r, m) =
              CASE m.code = "100" -> Enqueue(s, h)
                [] m.code = "1xx" /\ m.bad -> s
                [] m.code = "1xx" /\ ~m.bad -> v
                [] OTHER -> UacFinal(s, m)
        BY <1>2, <1>3, <2>1, <2>4, <2>6 DEF UacTrying_RecvResponse
      <3> QED  BY <3>1
    <2>14. Acts(r, UacTrying_RecvResponse(r, m))
      BY <2>2, <2>11, <2>12, <2>13, ActsAlike
    <2> QED  BY <1>6, <2>14
  <1>7. CASE r.st = "UacRinging"
    <2>1. /\ Acts(r, UacFinal(r, m)) /\ Acts(r, r)
          /\ Acts(r, Enqueue(r, h)) /\ Acts(r, Enqueue(r, g))
      BY <1>5, AlikeSelf, ActsNot, ActsFinal
    <2>2. UacRinging_RecvResponse(r, m) \in {Enqueue(r, h), r, Enqueue(r, g), UacFinal(r, m)}
      BY <1>2, <1>3 DEF UacRinging_RecvResponse
    <2> QED  BY <1>7, <2>1, <2>2
  <1> QED  BY <1>6, <1>7

LEMMA Pairs ==
    ASSUME NEW E, NEW f \in E, NEW d \in E
    PROVE  Append(<<f>>, d) = <<f, d>>
  <1>1. PICK s : s = Append(<<f>>, d)  OBVIOUS
  <1>2. PICK t : t = <<f, d>>  OBVIOUS
  <1>3. s \in Seq(E) /\ Len(s) = 2 /\ s[1] = f /\ s[2] = d
    BY <1>1
  <1>4. t \in Seq(E) /\ Len(t) = 2 /\ t[1] = f /\ t[2] = d
    BY <1>2
  <1>5. \A i \in 1..Len(s) : s[i] = t[i]
    <2>1. 1..Len(s) = {1, 2}
      BY <1>3
    <2> QED  BY <1>3, <1>4, <2>1
  <1> QED  BY <1>1, <1>2, <1>3, <1>4, <1>5, SeqEqual

LEMMA Singles ==
    ASSUME NEW E, NEW q \in Seq(E), Len(q) = 1
    PROVE  q = <<q[1]>>
  <1>1. PICK t : t = <<q[1]>>  OBVIOUS
  <1>2. 1 \in 1..Len(q)
    OBVIOUS
  <1>3. q[1] \in E
    BY <1>2, ElementOfSeq
  <1>4. t \in Seq(E) /\ Len(t) = 1 /\ t[1] = q[1]
    BY <1>1, <1>3
  <1>5. \A i \in 1..Len(q) : q[i] = t[i]
    BY <1>4
  <1> QED  BY <1>1, <1>4, <1>5, SeqEqual

LEMMA ActsUpdating ==
    ASSUME NEW r \in UaRecords, NEW m \in Responses, Stage(r) = "asking", r.q = <<>>
    PROVE  Acts(r, UacUpdating_RecvResponse(r, m))
  <1> DEFINE v == UacUpdating_RecvResponse(r, m)
  <1>1. m.body \in BOOLEAN /\ Stage(r) \in Live
    BY DEF Responses, Live
  <1>2. r.late_media = FALSE
    BY <1>1, LiveLeg
  <1>3. CASE m.code \in Provisional
    <2>1. PICK g : g = EvBody("Ring", m.body)  OBVIOUS
    <2>2. g \in Events /\ g.k = "Ring"
      BY <1>1, <2>1, EventTypes DEF EvBody, EventKinds
    <2>3. v = Enqueue(r, g)
      BY <1>3, <2>1 DEF UacUpdating_RecvResponse, Provisional
    <2> QED  BY <2>2, <2>3, OneEvent DEF Acts, Tells
  <1>4. CASE m.code = "2xx"
    <2>1. PICK e : e = EvBody("Connect", m.body)  OBVIOUS
    <2>2. e \in Events /\ e.k = "Connect"
      BY <1>1, <2>1, EventTypes DEF EvBody, EventKinds
    <2>3. PICK u : u = Enqueue(r, e)  OBVIOUS
    <2>4. u \in UaRecords
      BY <2>2, <2>3, OneEvent
    <2>5. v = ChangeState(u, "Connected")
      BY <1>2, <1>4, <2>1, <2>3 DEF UacUpdating_RecvResponse, Provisional, Answered
    <2> QED  BY <2>2, <2>3, <2>4, <2>5, AlikeSelf, ActsUp
  <1>5. CASE m.code = "408"
    <2>1. PICK f : f = Ev("Fail")  OBVIOUS
    <2>2. PICK d : d = Ev("Disconnect")  OBVIOUS
    <2>3. f \in Events /\ d \in Events
      BY <2>1, <2>2, EventTypes DEF EventKinds
    <2>4. PICK u : u = Enqueue(r, f)  OBVIOUS
    <2>5. u \in UaRecords /\ u.q = <<f>> /\ u.gone = r.gone
      BY <2>3, <2>4, OneEvent
    <2>6. PICK b : b = SendBYE(u)  OBVIOUS
    <2>7. Alike(u, b)
      BY <2>5, <2>6, AsidesReplies
    <2>8. b \in UaRecords
      BY <2>7 DEF Alike, Into
    <2>9. PICK c : c = CancelTimers(b, {"cr"})  OBVIOUS
    <2>10. Alike(u, c)
      BY <2>7, <2>8, <2>9, AsidesTimers, AlikeTwice
    <2>11. c \in UaRecords /\ c.q = <<f>> /\ c.gone = r.gone
      BY <2>5, <2>10 DEF Alike, Into
    <2>12. PICK w : w = Enqueue(c, d)  OBVIOUS
    <2>13. w \in UaRecords /\ w.q = Append(<<f>>, d) /\ w.gone = r.gone
      BY <2>3, <2>11, <2>12, Enqueues, ZenonT(60) DEF SameCall
    <2>14. w.q = <<f, d>>
      <3>1. Append(<<f>>, d) = <<f, d>>
        BY <2>3, Pairs
      <3> QED  BY <2>13, <3>1
    <2>15. "Disconnected" \in Over
      BY DEF Over
    <2>16. PICK x : x = ChangeState(w, "Disconnected")  OBVIOUS
    <2>17. Reaches(w, x, "over", w.q)
      BY <2>13, <2>15, <2>16, AlikeSelf, GetsOver
    <2>18. v = x
      BY <1>5, <2>1, <2>2, <2>4, <2>6, <2>9, <2>12, <2>16 DEF UacUpdating_RecvResponse, Provisional
    <2> QED  BY <2>1, <2>2, <2>13, <2>14, <2>17, <2>18 DEF Reaches, Acts, Tells
  <1>6. CASE m.code \notin Provisional \cup {"2xx", "408"}
    <2>1. PICK e : e = Refused(m)  OBVIOUS
    <2>2. e \in Events /\ e.k \in {"Fail", "Redirect"}
      BY <2>1, RefusedEvent
    <2>3. PICK u : u = Enqueue(r, e)  OBVIOUS
    <2>4. u \in UaRecords
      BY <2>2, <2>3, OneEvent
    <2>5. v = ChangeState(u, "Connected")
      BY <1>6, <2>1, <2>3 DEF UacUpdating_RecvResponse
    <2> QED  BY <2>2, <2>3, <2>4, <2>5, AlikeSelf, ActsUp
  <1> QED  BY <1>3, <1>4, <1>5, <1>6

LEMMA ActsResponse ==
    ASSUME NEW r \in UaRecords, LegInv(r), NEW m \in Responses, Stage(r) \in Live, r.q = <<>>
    PROVE  Acts(r, RecvResponse(r, m))
  <1>1. Prompt(r) /\ r.st \notin Over
    BY LiveLeg
  <1>2. CASE m.code = "401" /\ Auth /\ ~r.auth /\ ~r.gone
    <2>1. PICK s : s = [r EXCEPT !.uac = "calling", !.auth = TRUE]  OBVIOUS
    <2>2. Alike(r, s)
      BY <2>1, ZenonT(60) DEF Alike, Into, UaRecords
    <2>3. RecvResponse(r, m) = s
      BY <1>2, <2>1 DEF RecvResponse, processChallenge
    <2> QED  BY <2>2, <2>3, ActsNot
  <1>3. CASE ~(m.code = "401" /\ Auth /\ ~r.auth /\ ~r.gone)
    <2>1. PICK c : c = IF m.code \in Provisional THEN "proceeding" ELSE "done"  OBVIOUS
    <2>2. PICK d \in BOOLEAN : d = (r.dialog \/ (m.code = "2xx" /\ m.tag))
      OBVIOUS
    <2>3. PICK s : s = Heard(r, c, d)  OBVIOUS
    <2>4. c \in Outcomes
      BY <2>1 DEF Outcomes
    <2>5. /\ s \in UaRecords /\ SameCall(r, s) /\ SameMedia(r, s) /\ SameRel(r, s) /\ s.q = r.q
      BY <2>3, <2>4, Hears
    <2>6. Alike(r, s)
      BY <2>5 DEF Alike, Into, SameCall, SameMedia, SameRel
    <2>7. Stage(s) = Stage(r) /\ s.q = <<>> /\ s.st = r.st
      BY <2>5, <2>6, AlikeStage DEF SameCall
    <2>8. RecvResponse(r, m) =
            CASE r.st = "UacTrying"   -> UacTrying_RecvResponse(s, m)
              [] r.st = "UacRinging"  -> UacRinging_RecvResponse(s, m)
              [] r.st = "UacUpdating" -> UacUpdating_RecvResponse(s, m)
              [] r.st = "Cancelling"  -> Cancelling_RecvResponse(s, m)
              [] OTHER                -> s
      BY <1>3, <2>1, <2>2, <2>3 DEF RecvResponse, Heard
    <2>9. CASE r.st \in {"UacTrying", "UacRinging"}
      <3>1. Stage(s) = "setup"
        BY <1>1, <2>7, <2>9, Stages
      <3>2. /\ r.st = "UacTrying"  => Acts(s, UacTrying_RecvResponse(s, m))
            /\ r.st = "UacRinging" => Acts(s, UacRinging_RecvResponse(s, m))
        BY <2>5, <2>7, <3>1, ActsSetup
      <3>3. Acts(s, RecvResponse(r, m))
        BY <2>8, <2>9, <3>2
      <3> QED  BY <2>6, <3>3, ActsAlike
    <2>10. CASE r.st = "UacUpdating"
      <3>1. Stage(s) = "asking"
        BY <1>1, <2>7, <2>10, Stages
      <3>2. Acts(s, UacUpdating_RecvResponse(s, m))
        BY <2>5, <2>7, <3>1, ActsUpdating
      <3>3. RecvResponse(r, m) = UacUpdating_RecvResponse(s, m)
        BY <2>8, <2>10
      <3> QED  BY <2>6, <3>2, <3>3, ActsAlike
    <2>11. CASE r.st \notin {"UacTrying", "UacRinging", "UacUpdating"}
      <3>1. r.st # "Cancelling"
        BY <1>1 DEF Over
      <3>2. RecvResponse(r, m) = s
        BY <2>8, <2>11, <3>1
      <3>3. Acts(r, s)
        BY <2>6, ActsNot
      <3> QED  BY <3>2, <3>3
    <2> QED  BY <2>9, <2>10, <2>11
  <1> QED  BY <1>2, <1>3

-----------------------------------------------------------------------------
(* The two stages together.                                                 *)
\* lost: a re-INVITE may not have been sent, which leaves one leg asked in vain.
Matched(lost, v, w) ==
    \/ <<v, w>> \in {<<"early", "idle">>, <<"idle", "early">>, <<"early", "setup">>, <<"setup", "early">>,
                     <<"up", "up">>, <<"kept", "asked">>, <<"asked", "kept">>,
                     <<"asked", "asking">>, <<"asking", "asked">>}
    \/ lost /\ <<v, w>> \in {<<"asked", "up">>, <<"up", "asked">>, <<"asked", "asked">>}

\* The events m, on their way from a leg at stage v to one at stage w.
Carried(lost, v, w, m) ==
    \/ \E e \in Events : m = <<e>> /\
         \/ e.k = "Try" /\ e.body /\ v = "early" /\ w = "none"
         \/ e.k \in {"Ring", "Ring100", "Info"} /\ Matched(lost, v, w)
         \/ e.k = "Connect" /\ v = "up" /\ w \in {"early", "asked"}
         \/ Offers(e) /\ v = "asked" /\ (w = "up" \/ (lost /\ w = "asked"))
         \/ e.k \in {"Fail", "Redirect"} /\ v = "up" /\ w = "asked"
         \/ e.k \in {"Fail", "Redirect"} /\ v = "over" /\ w = "early"
         \/ e.k = "Disconnect" /\ v = "over" /\ w \in Live
    \/ m = <<Ev("Fail"), Ev("Disconnect")>> /\ v = "over" /\ w = "asked"

LEMMA Matches ==
    ASSUME NEW lost, NEW v, NEW w, Matched(lost, v, w)
    PROVE  Matched(lost, w, v) /\ v \in Live /\ w \in Live
  BY DEF Matched, Live

LEMMA Stimulated ==
    ASSUME NEW lost, NEW v, NEW w, NEW x, NEW m, Matched(lost, v, w), Tells(v, x, m)
    PROVE  \/ m = <<>> /\ Matched(lost, x, w)
           \/ Carried(lost, x, w, m)
  <1>1. /\ v \in Live /\ w \in Live
        /\ v = "setup" => w = "early"
        /\ v = "asking" => w = "asked"
        /\ v = "up" => w = "up" \/ (lost /\ w = "asked")
    BY DEF Matched, Live
  <1>2. CASE x = v /\ m = <<>>
    BY <1>2
  <1>3. CASE v = "asking" /\ x = "over" /\ m = <<Ev("Fail"), Ev("Disconnect")>>
    BY <1>1, <1>3 DEF Carried
  <1>4. ASSUME NEW e \in Events, m = <<e>>,
               \/ x = v /\ e.k \in {"Ring", "Ring100", "Info"}
               \/ v \in {"setup", "asking"} /\ x = "up" /\ e.k = "Connect"
               \/ v = "asking" /\ x = "up" /\ e.k \in {"Fail", "Redirect"}
               \/ v = "up" /\ x = "asked" /\ Offers(e)
               \/ x = "over" /\ e.k = "Disconnect"
               \/ v = "setup" /\ x = "over" /\ e.k \in {"Fail", "Redirect"}
        PROVE  Carried(lost, x, w, m)
    <2>1. \/ e.k \in {"Ring", "Ring100", "Info"} /\ Matched(lost, x, w)
          \/ e.k = "Connect" /\ x = "up" /\ w \in {"early", "asked"}
          \/ Offers(e) /\ x = "asked" /\ (w = "up" \/ (lost /\ w = "asked"))
          \/ e.k \in {"Fail", "Redirect"} /\ x = "up" /\ w = "asked"
          \/ e.k \in {"Fail", "Redirect"} /\ x = "over" /\ w = "early"
          \/ e.k = "Disconnect" /\ x = "over" /\ w \in Live
      BY <1>1, <1>4
    <2> QED  BY <1>4, <2>1 DEF Carried
  <1> QED  BY <1>2, <1>3, <1>4 DEF Tells

LEMMA Firsts ==
    ASSUME NEW E, NEW e \in E, NEW q \in Seq(E)
    PROVE  /\ \A f \in E : <<e>> \o q = <<f>> => e = f /\ q = <<>>
           /\ \A f, d \in E : <<e>> \o q = <<f, d>> => e = f /\ q = <<d>>
           /\ q = <<>> => <<e>> \o q = <<e>>
  <1>1. PICK x : x = <<e>> \o q  OBVIOUS
  <1>2. x \in Seq(E) /\ Len(x) = 1 + Len(q) /\ x[1] = e /\ (q # <<>> => x[2] = q[1])
    BY <1>1
  <1>3. ASSUME NEW f \in E, x = <<f>> PROVE e = f /\ q = <<>>
    <2>1. Len(x) = 1 /\ x[1] = f
      BY <1>3
    <2> QED  BY <1>2, <2>1
  <1>4. ASSUME NEW f \in E, NEW d \in E, x = <<f, d>> PROVE e = f /\ q = <<d>>
    <2>1. Len(x) = 2 /\ x[1] = f /\ x[2] = d
      BY <1>4
    <2>2. x \in Seq(E) /\ Len(x) = 1 + Len(q) /\ Len(x) = 2
      BY <1>2, <2>1
    <2>3. Len(q) = 1
      <3>1. PICK n \in Nat : n = Len(q)
        BY LenProperties
      <3>2. 1 + n = 2
        BY <2>2, <3>1
      <3>3. n = 1
        BY <3>2
      <3> QED  BY <3>1, <3>3
    <2>4. q # <<>>
      BY <2>3, EmptySeq
    <2>5. q = <<q[1]>>
      BY <2>3, Singles
    <2>6. q[1] = d
      BY <1>2, <2>1, <2>4
    <2> QED  BY <1>2, <2>1, <2>5, <2>6
  <1>5. ASSUME q = <<>> PROVE x = <<e>>
    <2>1. Len(x) = 1 /\ x \in Seq(E)
      BY <1>1, <1>2, <1>5
    <2>2. x = <<x[1]>>
      BY <2>1, Singles
    <2> QED  BY <1>2, <2>2
  <1>6. /\ \A f \in E : x = <<f>> => e = f /\ q = <<>>
        /\ \A f, d \in E : x = <<f, d>> => e = f /\ q = <<d>>
        /\ q = <<>> => x = <<e>>
    BY <1>3, <1>4, <1>5
  <1> QED  BY <1>1, <1>6, Zenon

\* The first of the events that are on their way arrives.
LEMMA Delivers ==
    ASSUME NEW o \in UaRecords, o.q = <<>>, NEW e \in Events, NEW q \in Seq(Events),
           NEW way \in Ways, NEW lost, NEW v, Carried(lost, v, Stage(o), <<e>> \o q)
    PROVE  LET s == RecvEvent(o, e, way)
           IN  /\ s \in UaRecords /\ s.gone = o.gone
               /\ \/ v = "over" /\ Stage(s) = "over"
                  \/ q = <<>> /\ s.q = <<>> /\ Matched(lost, v, Stage(s))
                  \/ q = <<>> /\ Carried(lost, Stage(s), v, s.q)
                  \/ s.q = <<>> /\ Carried(lost, v, Stage(s), q)
  <1> DEFINE s == RecvEvent(o, e, way)
             w == Stage(o)
             Good(x) == /\ x \in UaRecords /\ x.gone = o.gone
                        /\ \/ v = "over" /\ Stage(x) = "over"
                           \/ q = <<>> /\ x.q = <<>> /\ Matched(lost, v, Stage(x))
                           \/ q = <<>> /\ Carried(lost, Stage(x), v, x.q)
                           \/ x.q = <<>> /\ Carried(lost, v, Stage(x), q)
  <1>1. PICK f : f = Ev("Fail")  OBVIOUS
  <1>2. PICK d : d = Ev("Disconnect")  OBVIOUS
  <1>3. f \in Events /\ d \in Events /\ f.k = "Fail" /\ d.k = "Disconnect"
    BY <1>1, <1>2, EventTypes DEF EventKinds, Ev
  <1>4. \/ q = <<>> /\ Carried(lost, v, w, <<e>>)
        \/ e = f /\ q = <<d>> /\ v = "over" /\ w = "asked"
    <2>1. CASE <<e>> \o q = <<f, d>> /\ v = "over" /\ w = "asked"
      BY <1>3, <2>1, Firsts
    <2>2. CASE \E g \in Events : <<e>> \o q = <<g>>
      <3>1. q = <<>> /\ <<e>> \o q = <<e>>
        BY <2>2, Firsts
      <3> QED  BY <3>1
    <2> QED  BY <1>1, <1>2, <2>1, <2>2 DEF Carried
  <1>5. ASSUME NEW x, Reaches(o, s, x, <<>>)
        PROVE  /\ s \in UaRecords /\ s.gone = o.gone /\ s.q = <<>> /\ Stage(s) = x
    BY <1>5 DEF Reaches
  <1> HIDE DEF s
  <1>6. CASE e = f /\ q = <<d>> /\ v = "over" /\ w = "asked"
    <2>1. Reaches(o, s, "up", <<>>)
      BY <1>3, <1>6, TakesRefusal DEF s
    <2>2. Carried(lost, "over", "up", q)
      BY <1>3, <1>6 DEF Carried, Live
    <2> QED  BY <1>5, <1>6, <2>1, <2>2 DEF s
  <1>7. CASE q = <<>> /\ Carried(lost, v, w, <<e>>)
    <2>1. \/ e.k = "Try" /\ e.body /\ v = "early" /\ w = "none"
          \/ e.k \in {"Ring", "Ring100", "Info"} /\ Matched(lost, v, w)
          \/ e.k = "Connect" /\ v = "up" /\ w \in {"early", "asked"}
          \/ Offers(e) /\ v = "asked" /\ (w = "up" \/ (lost /\ w = "asked"))
          \/ e.k \in {"Fail", "Redirect"} /\ v = "up" /\ w = "asked"
          \/ e.k \in {"Fail", "Redirect"} /\ v = "over" /\ w = "early"
          \/ e.k = "Disconnect" /\ v = "over" /\ w \in Live
      <3>1. \A g \in Events : <<e>> = <<g>> => e = g
        OBVIOUS
      <3>2. <<e>> # <<f, d>>
        OBVIOUS
      <3> QED  BY <1>1, <1>2, <1>7, <3>1, <3>2 DEF Carried
    <2>2. CASE e.k = "Try" /\ e.body /\ v = "early" /\ w = "none"
      <3>1. Reaches(o, s, "setup", <<>>)
        BY <2>2, Dials DEF s
      <3>2. Matched(lost, v, "setup")
        BY <2>2 DEF Matched
      <3> QED  BY <1>5, <1>7, <3>1, <3>2 DEF s
    <2>3. CASE e.k \in {"Ring", "Ring100", "Info"} /\ Matched(lost, v, w)
      <3>1. w \in Live
        BY <2>3, Matches
      <3>2. Reaches(o, s, w, <<>>)
        BY <2>3, <3>1, PassesBy DEF s
      <3> QED  BY <1>5, <1>7, <2>3, <3>2 DEF s
    <2>4. CASE e.k = "Connect" /\ v = "up" /\ w \in {"early", "asked"}
      <3>1. Reaches(o, s, "up", <<>>)
        BY <2>4, TakesConnect DEF s
      <3>2. Matched(lost, v, "up")
        BY <2>4 DEF Matched
      <3> QED  BY <1>5, <1>7, <3>1, <3>2 DEF s
    <2>8. CASE Offers(e) /\ v = "asked" /\ lost /\ w = "asked"
      <3>1. Reaches(o, s, "asked", <<>>)
        BY <2>8, LosesUpdate DEF s
      <3>2. Matched(lost, v, "asked")
        BY <2>8 DEF Matched
      <3> QED  BY <1>5, <1>7, <3>1, <3>2 DEF s
    <2>5. CASE Offers(e) /\ v = "asked" /\ w = "up"
      <3>1. \/ Reaches(o, s, "kept", <<>>)
            \/ Reaches(o, s, "asking", <<>>)
            \/ Reaches(o, s, "up", Append(<<>>, EvBody("Connect", TRUE)))
            \/ Reaches(o, s, "up", Append(<<>>, f))
        BY <1>1, <2>5, TakesUpdate DEF s
      <3>2. CASE Reaches(o, s, "kept", <<>>) \/ Reaches(o, s, "asking", <<>>)
        <4>1. Matched(lost, v, "kept") /\ Matched(lost, v, "asking")
          BY <2>5 DEF Matched
        <4> QED  BY <1>5, <1>7, <3>2, <4>1 DEF s
      <3>3. CASE Reaches(o, s, "up", Append(<<>>, EvBody("Connect", TRUE)))
        <4>1. PICK c : c = EvBody("Connect", TRUE)  OBVIOUS
        <4>2. c \in Events /\ c.k = "Connect"
          BY <4>1, EventTypes DEF EvBody, EventKinds
        <4>5. Append(<<>>, c) = <<c>>
          OBVIOUS
        <4>3. Carried(lost, "up", v, <<c>>)
          BY <2>5, <4>2 DEF Carried
        <4>4. s \in UaRecords /\ s.gone = o.gone /\ s.q = <<c>> /\ Stage(s) = "up"
          BY <3>3, <4>1, <4>5 DEF Reaches
        <4> QED  BY <1>7, <4>3, <4>4 DEF s
      <3>4. CASE Reaches(o, s, "up", Append(<<>>, f))
        <4>1. Append(<<>>, f) = <<f>>
          OBVIOUS
        <4>2. Carried(lost, "up", v, <<f>>)
          BY <1>3, <2>5 DEF Carried
        <4>3. s \in UaRecords /\ s.gone = o.gone /\ s.q = <<f>> /\ Stage(s) = "up"
          BY <3>4, <4>1 DEF Reaches
        <4> QED  BY <1>7, <4>2, <4>3 DEF s
      <3> QED  BY <3>1, <3>2, <3>3, <3>4
    <2>6. CASE e.k \in {"Fail", "Redirect"} /\ v = "up" /\ w = "asked"
      <3>1. Reaches(o, s, "up", <<>>)
        BY <2>6, TakesRefusal DEF s
      <3>2. Matched(lost, v, "up")
        BY <2>6 DEF Matched
      <3> QED  BY <1>5, <1>7, <3>1, <3>2 DEF s
    <2>7. CASE \/ e.k \in {"Fail", "Redirect"} /\ v = "over" /\ w = "early"
               \/ e.k = "Disconnect" /\ v = "over" /\ w \in Live
      <3>1. w \in Live /\ e.k \in Ends /\ v = "over"
        BY <2>7 DEF Live, Ends
      <3>2. o.st \notin Over /\ o.st # "None"
        BY <3>1, LiveLeg
      <3>3. e.k = "Disconnect" \/ o.st # "UasUpdating"
        BY <2>7, Stages
      <3>4. Reaches(o, s, "over", <<>>)
        BY <3>1, <3>2, <3>3, EndsLeg DEF s
      <3> QED  BY <1>5, <3>1, <3>4 DEF s
    <2> QED  BY <2>1, <2>2, <2>3, <2>4, <2>5, <2>6, <2>7, <2>8
  <1> QED  BY <1>4, <1>6, <1>7

-----------------------------------------------------------------------------
(* The call. Between two calls under the lock, either nothing is on its way *)
(* from one leg to the other (Calm), or leg u is going to emit the events   *)
(* of its queue (Speaking), or the first of them has reached the other leg  *)
(* (Hearing), or the Update that the other leg kept is let go (Waking).     *)
InFlight(u, m) == ~ua[u].gone /\ Carried(unsent, Stage(ua[u]), Stage(ua[Other(u)]), m)
NoRecv(cs) == \A i \in DOMAIN cs : cs[i].c # "recv"
WillEmit(u, cs) == \E i \in DOMAIN cs : cs[i] = Emit(u)
Silent == \A u \in Leg : ua[u].q = <<>>

BothOver == \A u \in Leg : ua[u].st \in Over
Calm == /\ NoRecv(todo) /\ Silent
        /\ \/ \A u \in Leg : Matched(unsent, Stage(ua[u]), Stage(ua[Other(u)]))
           \/ \A u \in Leg : Stage(ua[u]) = "none"
Speaking(u) == /\ NoRecv(todo) /\ WillEmit(u, todo)
               /\ ua[Other(u)].q = <<>>
               /\ InFlight(u, ua[u].q)
Hearing(u) == /\ todo # <<>> /\ Head(todo).c = "recv" /\ Head(todo).u = Other(u)
              /\ NoRecv(Tail(todo))
              /\ ua[Other(u)].q = <<>>
              /\ ua[u].q = <<>> \/ WillEmit(u, Tail(todo))
              /\ InFlight(u, <<Head(todo).e>> \o ua[u].q)
Waking(u) == \E e \in Events : /\ todo = <<Emit(Other(u)), Recv(Other(u), e)>>
                               /\ Silent
                               /\ InFlight(u, <<e>>)
Talk == Calm \/ \E u \in Leg : Speaking(u) \/ Hearing(u) \/ Waking(u)

LEMMA Others ==
    /\ Other("A") = "O" /\ Other("O") = "A"
    /\ \A u \in Leg : /\ Other(u) \in Leg /\ Other(u) # u /\ Other(Other(u)) = u
                      /\ \A v \in Leg : v = u \/ v = Other(u)
  BY DEF Leg, Other

\* One more call, and one less.
LEMMA Prepends ==
    ASSUME NEW cs \in Seq(Calls), NEW c \in Calls
    PROVE  /\ <<c>> \o cs \in Seq(Calls) /\ <<c>> \o cs # <<>>
           /\ Head(<<c>> \o cs) = c /\ Tail(<<c>> \o cs) = cs
           /\ NoRecv(cs) /\ c.c # "recv" => NoRecv(<<c>> \o cs)
           /\ \A u : c = Emit(u) \/ WillEmit(u, cs) => WillEmit(u, <<c>> \o cs)
  <1>1. PICK ds : ds = <<c>> \o cs  OBVIOUS
  <1>2. ds \in Seq(Calls) /\ ds # <<>> /\ Head(ds) = c /\ Tail(ds) = cs
    BY <1>1
  <1>3. /\ ds[1] = c /\ 1 \in DOMAIN ds
        /\ \A i \in DOMAIN ds : i # 1 => i - 1 \in DOMAIN cs /\ ds[i] = cs[i - 1]
        /\ \A i \in DOMAIN cs : i + 1 \in DOMAIN ds /\ ds[i + 1] = cs[i]
    BY <1>1
  <1>4. NoRecv(cs) /\ c.c # "recv" => NoRecv(ds)
    BY <1>3 DEF NoRecv
  <1>5. \A u : c = Emit(u) \/ WillEmit(u, cs) => WillEmit(u, ds)
    BY <1>3 DEF WillEmit
  <1> QED  BY <1>1, <1>2, <1>4, <1>5, Zenon

LEMMA Takes ==
    ASSUME NEW cs \in Seq(Calls), cs # <<>>
    PROVE  /\ Head(cs) \in Calls /\ Tail(cs) \in Seq(Calls)
           /\ NoRecv(cs) => NoRecv(Tail(cs)) /\ Head(cs).c # "recv"
           /\ \A u : WillEmit(u, cs) => WillEmit(u, Tail(cs)) \/ Head(cs) = Emit(u)
           /\ \A u : Head(cs) = Emit(u) => WillEmit(u, cs)
  <1>1. PICK ds : ds = Tail(cs)  OBVIOUS
  <1>2. PICK c : c = Head(cs)  OBVIOUS
  <1>3. ds \in Seq(Calls) /\ c \in Calls /\ 1 \in DOMAIN cs /\ c = cs[1]
    BY <1>1, <1>2
  <1>4. \A i \in DOMAIN ds : i + 1 \in DOMAIN cs /\ ds[i] = cs[i + 1]
    BY <1>1
  <1>5. \A i \in DOMAIN cs : i # 1 => i - 1 \in DOMAIN ds /\ ds[i - 1] = cs[i]
    BY <1>1
  <1>6. NoRecv(cs) => NoRecv(ds) /\ c.c # "recv"
    BY <1>3, <1>4 DEF NoRecv
  <1>7. \A u : WillEmit(u, cs) => WillEmit(u, ds) \/ c = Emit(u)
    BY <1>3, <1>5 DEF WillEmit
  <1>8. \A u : c = Emit(u) => WillEmit(u, cs)
    BY <1>3 DEF WillEmit
  <1> QED  BY <1>1, <1>2, <1>3, <1>6, <1>7, <1>8

\* The calls that a stimulus makes.
LEMMA Makes ==
    ASSUME NEW u \in Leg
    PROVE  /\ NoRecv(<<>>) /\ \A v : ~WillEmit(v, <<>>)
           /\ <<Emit(u)>> \in Seq(Calls) /\ NoRecv(<<Emit(u)>>) /\ WillEmit(u, <<Emit(u)>>)
           /\ <<Emit(u), Bind(u)>> \in Seq(Calls) /\ NoRecv(<<Emit(u), Bind(u)>>)
           /\ WillEmit(u, <<Emit(u), Bind(u)>>)
           /\ \A e \in Events :
                 /\ <<Recv(u, e)>> # <<>> /\ Head(<<Recv(u, e)>>) = Recv(u, e)
                 /\ Tail(<<Recv(u, e)>>) = <<>>
                 /\ <<Emit(u), Recv(u, e)>> # <<>>
                 /\ Head(<<Emit(u), Recv(u, e)>>) = Emit(u)
                 /\ Tail(<<Emit(u), Recv(u, e)>>) = <<Recv(u, e)>>
                 /\ ~NoRecv(<<Recv(u, e)>>)
                 /\ ~NoRecv(<<Emit(u), Recv(u, e)>>)
  <1>1. PICK a : a = Emit(u)  OBVIOUS
  <1>2. PICK b : b = Bind(u)  OBVIOUS
  <1>3. a \in Calls /\ a.c = "emit" /\ b \in Calls /\ b.c = "bind"
    BY <1>1, <1>2, CallTypes
  <1>4. NoRecv(<<>>) /\ \A v : ~WillEmit(v, <<>>)
    BY DEF NoRecv, WillEmit
  <1>5. <<a>> \in Seq(Calls) /\ NoRecv(<<a>>) /\ WillEmit(u, <<a>>)
    BY <1>1, <1>3 DEF NoRecv, WillEmit
  <1>6. <<a, b>> \in Seq(Calls) /\ NoRecv(<<a, b>>) /\ WillEmit(u, <<a, b>>)
    <2>1. \A i \in DOMAIN <<a, b>> : <<a, b>>[i] \in {a, b}
      OBVIOUS
    <2>2. NoRecv(<<a, b>>)
      BY <1>3, <2>1 DEF NoRecv
    <2>3. 1 \in DOMAIN <<a, b>> /\ <<a, b>>[1] = a
      OBVIOUS
    <2>4. WillEmit(u, <<a, b>>)
      BY <1>1, <2>3 DEF WillEmit
    <2> QED  BY <1>3, <2>2, <2>4
  <1>7. ASSUME NEW e \in Events
        PROVE  /\ <<Recv(u, e)>> # <<>> /\ Head(<<Recv(u, e)>>) = Recv(u, e)
               /\ Tail(<<Recv(u, e)>>) = <<>>
               /\ <<a, Recv(u, e)>> # <<>>
               /\ Head(<<a, Recv(u, e)>>) = a
               /\ Tail(<<a, Recv(u, e)>>) = <<Recv(u, e)>>
               /\ ~NoRecv(<<Recv(u, e)>>)
               /\ ~NoRecv(<<a, Recv(u, e)>>)
    <2>1. PICK r : r = Recv(u, e)  OBVIOUS
    <2>2. r \in Calls /\ r.c = "recv"
      BY <2>1, CallTypes
    <2>3. <<r>> # <<>> /\ Head(<<r>>) = r /\ Tail(<<r>>) = <<>>
      BY <2>2
    <2>4. <<a, r>> # <<>> /\ Head(<<a, r>>) = a
      BY <1>3, <2>2
    <2>5. Tail(<<a, r>>) = <<r>>
      BY <1>3, <2>2
    <2>6. 1 \in DOMAIN <<r>> /\ <<r>>[1] = r /\ 2 \in DOMAIN <<a, r>> /\ <<a, r>>[2] = r
      OBVIOUS
    <2>7. ~NoRecv(<<r>>) /\ ~NoRecv(<<a, r>>)
      BY <2>2, <2>6 DEF NoRecv
    <2> QED  BY <2>1, <2>3, <2>4, <2>5, <2>7
  <1> QED  BY <1>1, <1>2, <1>4, <1>5, <1>6, <1>7

LEMMA CarriesSome ==
    ASSUME NEW lost, NEW v, NEW w, NEW m, Carried(lost, v, w, m)
    PROVE  m # <<>>
  BY DEF Carried

\* Nothing is on its way while the lock is free.
LEMMA UnlockedCalm ==
    ASSUME IInv, Talk, Unlocked
    PROVE  Calm
  <1>1. \A v : ~WillEmit(v, todo)
    BY Makes DEF Unlocked, Leg
  <1>2. ASSUME NEW u \in Leg PROVE ~Speaking(u) /\ ~Hearing(u) /\ ~Waking(u)
    <2>1. Other(u) \in Leg
      BY Others
    <2>2. ~Waking(u)
      BY <2>1, Makes DEF Waking, Unlocked
    <2> QED  BY <1>1, <2>2 DEF Speaking, Hearing, Unlocked
  <1> QED  BY <1>2 DEF Talk

LEMMA CalmLegs ==
    ASSUME IInv, Calm, NEW u \in Leg, ua[u].st # "None"
    PROVE  /\ ua[u] \in UaRecords /\ LegInv(ua[u])
           /\ Matched(unsent, Stage(ua[u]), Stage(ua[Other(u)])) /\ Stage(ua[u]) \in Live
           /\ ua[u].q = <<>> /\ ua[Other(u)].q = <<>> /\ ua[u].gone = FALSE
  <1>1. ua[u] \in UaRecords /\ LegInv(ua[u])
    BY LegTypes
  <1>2. Stage(ua[u]) # "none"
    BY <1>1, Stages
  <1>3. Matched(unsent, Stage(ua[u]), Stage(ua[Other(u)]))
    BY <1>2 DEF Calm
  <1>4. Stage(ua[u]) \in Live
    BY <1>3, Matches
  <1>5. ua[u].q = <<>> /\ ua[Other(u)].q = <<>>
    BY Others DEF Calm, Silent
  <1> QED  BY <1>1, <1>3, <1>4, <1>5, LiveHere

\* Leg u changes, and the legs match, or it has something to tell the other one.
LEMMA Quieted ==
    ASSUME IInv, NEW u \in Leg, NEW r, NEW cs, Becomes(u, r, cs), NoRecv(cs),
           r.q = <<>>, ua[Other(u)].q = <<>>, Matched(unsent', Stage(r), Stage(ua[Other(u)]))
    PROVE  Calm'
  <1>1. /\ ua'[u] = r /\ ua'[Other(u)] = ua[Other(u)] /\ todo' = cs
        /\ Other(Other(u)) = u /\ \A v \in Leg : v = u \/ v = Other(u)
    BY Turned, Others
  <1>2. Matched(unsent', Stage(ua[Other(u)]), Stage(r))
    BY Matches
  <1>3. \A v \in Leg : ua'[v].q = <<>> /\ Matched(unsent', Stage(ua'[v]), Stage(ua'[Other(v)]))
    <2>1. ASSUME NEW v \in Leg, v = u
          PROVE  ua'[v].q = <<>> /\ Matched(unsent', Stage(ua'[v]), Stage(ua'[Other(v)]))
      BY <1>1, <2>1
    <2>2. ASSUME NEW v \in Leg, v = Other(u)
          PROVE  ua'[v].q = <<>> /\ Matched(unsent', Stage(ua'[v]), Stage(ua'[Other(v)]))
      BY <1>1, <1>2, <2>2
    <2> QED  BY <1>1, <2>1, <2>2
  <1> QED  BY <1>1, <1>3 DEF Calm, Silent

LEMMA Spoken ==
    ASSUME IInv, NEW u \in Leg, NEW r, NEW cs, Becomes(u, r, cs), NoRecv(cs), WillEmit(u, cs),
           ~r.gone, ua[Other(u)].q = <<>>, Carried(unsent', Stage(r), Stage(ua[Other(u)]), r.q)
    PROVE  Speaking(u)'
  <1>1. ua'[u] = r /\ ua'[Other(u)] = ua[Other(u)] /\ todo' = cs
    BY Turned, Others
  <1> QED  BY <1>1 DEF Speaking, InFlight

\* A message or a timer stirs leg u of a quiet call.
LEMMA Stirs ==
    ASSUME IInv, Calm, unsent' = unsent, NEW u \in Leg, ua[u].st # "None", NEW r, Acts(ua[u], r),
           NEW cs, Becomes(u, r, cs), NoRecv(cs), WillEmit(u, cs)
    PROVE  Talk'
  <1>1. /\ Matched(unsent, Stage(ua[u]), Stage(ua[Other(u)]))
        /\ ua[Other(u)].q = <<>> /\ ua[u].gone = FALSE
    BY CalmLegs
  <1>2. Tells(Stage(ua[u]), Stage(r), r.q) /\ ~r.gone
    BY <1>1 DEF Acts
  <1>3. \/ r.q = <<>> /\ Matched(unsent, Stage(r), Stage(ua[Other(u)]))
        \/ Carried(unsent, Stage(r), Stage(ua[Other(u)]), r.q)
    BY <1>1, <1>2, Stimulated
  <1>4. Calm' \/ Speaking(u)'
    BY <1>1, <1>2, <1>3, Quieted, Spoken
  <1> QED  BY <1>4 DEF Talk

\* It changes nothing that the other leg could notice.
LEMMA Stills ==
    ASSUME IInv, Calm, unsent' = unsent, NEW u \in Leg, ua[u].st # "None", NEW r, Reaches(ua[u], r, Stage(ua[u]), <<>>),
           NEW cs, Becomes(u, r, cs), NoRecv(cs)
    PROVE  Talk'
  <1>1. Matched(unsent, Stage(ua[u]), Stage(ua[Other(u)])) /\ ua[Other(u)].q = <<>>
    BY CalmLegs
  <1>2. r.q = <<>> /\ Stage(r) = Stage(ua[u])
    BY DEF Reaches
  <1>3. Calm'
    BY <1>1, <1>2, Quieted
  <1> QED  BY <1>3 DEF Talk

-----------------------------------------------------------------------------
(* The calls under the lock.                                                *)
LEMMA Splits ==
    ASSUME NEW E, NEW q \in Seq(E), q # <<>>
    PROVE  /\ Head(q) \in E /\ Tail(q) \in Seq(E)
           /\ <<Head(q)>> \o Tail(q) = q
  <1>1. PICK d : d = <<Head(q)>> \o Tail(q)  OBVIOUS
  <1>2. Head(q) \in E /\ Tail(q) \in Seq(E) /\ d \in Seq(E) /\ Len(d) = Len(q)
    BY <1>1
  <1>3. \A i \in 1..Len(q) : d[i] = q[i]
    BY <1>1
  <1>4. d = q
    BY <1>2, <1>3, SeqEqual
  <1> QED  BY <1>1, <1>2, <1>4

LEMMA AloneSeq ==
    ASSUME NEW e
    PROVE  <<e>> \o <<>> = <<e>>
  OBVIOUS

\* Only a Try is on its way to a leg that has not begun.
LEMMA FirstTry ==
    ASSUME NEW lost, NEW v, NEW q \in Seq(Events), Carried(lost, v, "none", q)
    PROVE  Head(q).k = "Try"
  <1>1. \A w \in Live : w # "none"
    BY DEF Live
  <1>2. ~Matched(lost, v, "none")
    BY <1>1, Matches
  <1>3. PICK e \in Events : q = <<e>> /\ e.k = "Try"
    BY <1>1, <1>2 DEF Carried
  <1> QED  BY <1>3

\* Leg u says the first of its events.
LEMMA Says ==
    ASSUME IInv, NEW u \in Leg, Speaking(u), NEW cs, cs = todo, unsent' = unsent,
           Becomes(u, [ua[u] EXCEPT !.q = Tail(@)], <<RecvEventOf(u, Head(ua[u].q))>> \o cs)
    PROVE  Hearing(u)'
  <1>1. PICK q : q = ua[u].q  OBVIOUS
  <1>2. PICK e : e = Head(q)  OBVIOUS
  <1>3. ua[u] \in UaRecords /\ todo \in Seq(Calls) /\ Other(u) \in Leg /\ Other(u) # u
    BY LegTypes, Others
  <1>4. /\ NoRecv(todo) /\ WillEmit(u, todo) /\ ua[Other(u)].q = <<>>
        /\ ~ua[u].gone /\ Carried(unsent, Stage(ua[u]), Stage(ua[Other(u)]), q)
    BY <1>1 DEF Speaking, InFlight
  <1>5. q \in Seq(Events) /\ q # <<>>
    BY <1>1, <1>3, <1>4, CarriesSome DEF UaRecords
  <1>6. e \in Events /\ Tail(q) \in Seq(Events) /\ <<e>> \o Tail(q) = q
    BY <1>5, <1>2, Splits
  <1>7. RecvEventOf(u, e) = Recv(Other(u), e)
    <2>1. ASSUME u = "A", ua["O"].st = "None" PROVE e.k = "Try"
      <3>1. ua[Other(u)] = NewUA /\ ua[Other(u)] \in UaRecords
        BY <1>3, <2>1, LegTypes, Others
      <3>2. Stage(ua[Other(u)]) = "none"
        BY <3>1, Stages DEF NewUA, Prompt
      <3> QED  BY <1>4, <1>5, <1>2, <3>2, FirstTry
    <2> QED  BY <2>1 DEF RecvEventOf
  <1>8. PICK r : r = [ua[u] EXCEPT !.q = Tail(q)]  OBVIOUS
  <1>9. PICK c : c = Recv(Other(u), e)  OBVIOUS
  <1>10. c \in Calls /\ c.c = "recv" /\ c.u = Other(u) /\ c.e = e
    BY <1>3, <1>6, <1>9, CallTypes
  <1>11. Becomes(u, r, <<c>> \o todo)
    BY <1>1, <1>2, <1>7, <1>8, <1>9
  <1>12. /\ r.q = Tail(q) /\ r.gone = ua[u].gone /\ r.st = ua[u].st
         /\ r.late_media = ua[u].late_media /\ r.confirm = ua[u].confirm
         /\ r.pendUpdate = ua[u].pendUpdate
         /\ r.heldConnect = ua[u].heldConnect /\ r.heldUpdate = ua[u].heldUpdate
    BY <1>3, <1>8 DEF UaRecords
  <1>13. Stage(r) = Stage(ua[u])
    BY <1>12 DEF Stage, Up, Kept
  <1>14. ua'[u] = r /\ ua'[Other(u)] = ua[Other(u)] /\ todo' = <<c>> \o todo
    BY <1>3, <1>11, Turned
  <1>15. todo' # <<>> /\ Head(todo') = c /\ Tail(todo') = todo
    BY <1>3, <1>10, <1>14, Prepends
  <1>16. ~ua'[u].gone /\ Carried(unsent', Stage(ua'[u]), Stage(ua'[Other(u)]), q)
    BY <1>4, <1>12, <1>13, <1>14
  <1>17. <<Head(todo').e>> \o ua'[u].q = q
    BY <1>6, <1>10, <1>12, <1>14, <1>15
  <1> QED  BY <1>4, <1>10, <1>14, <1>15, <1>16, <1>17 DEF Hearing, InFlight

LEMMA EmitsOn ==
    ASSUME IInv, Talk, emitPendingEvents
    PROVE  Talk'
  <1>0. unsent' = unsent
    BY DEF emitPendingEvents
  <1>1. PICK c : c = Head(todo)  OBVIOUS
  <1>2. PICK cs : cs = todo  OBVIOUS
  <1>3. PICK u : u = c.u  OBVIOUS
  <1>4. /\ todo \in Seq(Calls) /\ todo # <<>> /\ c \in Calls /\ c.c = "emit"
        /\ Tail(todo) \in Seq(Calls)
    BY <1>1, LegTypes, Takes DEF emitPendingEvents
  <1>5. u \in Leg /\ c = Emit(u)
    BY <1>3, <1>4 DEF Calls, Emit
  <1>6. IF ua[u].q # <<>> /\ ~ua[u].gone
        THEN Becomes(u, [ua[u] EXCEPT !.q = Tail(@)], <<RecvEventOf(u, Head(ua[u].q))>> \o cs)
        ELSE Becomes(u, ua[u], Tail(todo))
    BY <1>1, <1>2, <1>3 DEF emitPendingEvents
  <1>7. ASSUME ua[u].q = <<>>
        PROVE  (\A v \in Leg : ua'[v] = ua[v]) /\ todo' = Tail(todo)
    <2>1. Becomes(u, ua[u], Tail(todo))
      BY <1>6, <1>7
    <2> QED  BY <1>5, <2>1, Turned
  <1>8. CASE Calm
    <2>1. (\A v \in Leg : ua'[v] = ua[v]) /\ todo' = Tail(todo)
      BY <1>5, <1>7, <1>8 DEF Calm, Silent
    <2>2. NoRecv(Tail(todo))
      BY <1>4, <1>8, Takes DEF Calm
    <2>3. Calm'
      BY <1>0, <1>8, <2>1, <2>2, Others DEF Calm, Silent
    <2> QED  BY <2>3 DEF Talk
  <1>9. ASSUME NEW w \in Leg, Speaking(w) PROVE Talk'
    <2>1. CASE u = w
      <3>1. ua[w].q # <<>> /\ ~ua[w].gone
        BY <1>9, CarriesSome DEF Speaking, InFlight
      <3>2. Hearing(w)'
        BY <1>0, <1>2, <1>6, <1>9, <2>1, <3>1, Says
      <3> QED  BY <1>9, <3>2 DEF Talk
    <2>2. CASE u # w
      <3>1. u = Other(w) /\ Emit(u) # Emit(w)
        BY <1>5, <1>9, <2>2, Others DEF Emit
      <3>2. (\A v \in Leg : ua'[v] = ua[v]) /\ todo' = Tail(todo)
        BY <1>7, <1>9, <3>1 DEF Speaking
      <3>3. NoRecv(Tail(todo)) /\ WillEmit(w, Tail(todo))
        BY <1>1, <1>4, <1>5, <1>9, <3>1, Takes DEF Speaking
      <3>4. Speaking(w)'
        BY <1>0, <1>5, <1>9, <3>1, <3>2, <3>3 DEF Speaking, InFlight
      <3> QED  BY <1>9, <3>4 DEF Talk
    <2> QED  BY <2>1, <2>2
  <1>10. ASSUME NEW w \in Leg, Hearing(w) PROVE FALSE
    BY <1>1, <1>4, <1>10 DEF Hearing
  <1>11. ASSUME NEW w \in Leg, Waking(w) PROVE Talk'
    <2>1. PICK e \in Events : /\ todo = <<Emit(Other(w)), Recv(Other(w), e)>>
                              /\ Silent /\ InFlight(w, <<e>>)
      BY <1>11 DEF Waking
    <2>2. Other(w) \in Leg
      BY <1>11, Others
    <2>3. Tail(todo) = <<Recv(Other(w), e)>> /\ c = Emit(Other(w))
      BY <1>1, <2>1, <2>2, Makes
    <2>4. u = Other(w)
      BY <1>3, <2>2, <2>3, CallTypes
    <2>5. (\A v \in Leg : ua'[v] = ua[v]) /\ todo' = <<Recv(Other(w), e)>>
      BY <1>5, <1>7, <2>1, <2>3 DEF Silent
    <2>6. /\ todo' # <<>> /\ Head(todo') = Recv(Other(w), e) /\ Tail(todo') = <<>>
          /\ NoRecv(<<>>)
      BY <2>2, <2>5, Makes
    <2>7. /\ Head(todo').c = "recv" /\ Head(todo').u = Other(w) /\ Head(todo').e = e
      BY <2>2, <2>6, CallTypes
    <2>8. ua'[w].q = <<>> /\ ua'[Other(w)].q = <<>>
      BY <1>11, <2>1, <2>2, <2>5 DEF Silent
    <2>9. ~ua'[w].gone /\ Carried(unsent', Stage(ua'[w]), Stage(ua'[Other(w)]), <<e>>)
      BY <1>0, <1>11, <2>1, <2>2, <2>5 DEF InFlight
    <2>10. <<Head(todo').e>> \o ua'[w].q = <<e>>
      BY <2>7, <2>8, AloneSeq
    <2>11. Hearing(w)'
      BY <2>6, <2>7, <2>8, <2>9, <2>10 DEF Hearing, InFlight
    <2> QED  BY <1>11, <2>11 DEF Talk
  <1> QED  BY <1>8, <1>9, <1>10, <1>11 DEF Talk

\* Events are only carried to a leg that can still take them.
LEMMA CarriesTo ==
    ASSUME NEW lost, NEW v, NEW o \in UaRecords, LegInv(o), NEW m, Carried(lost, v, Stage(o), m)
    PROVE  o.gone = FALSE
  <1>1. Stage(o) \in Live \/ Stage(o) = "none"
    BY Matches DEF Carried, Live
  <1>2. CASE Stage(o) \in Live
    BY <1>2, LiveHere
  <1>3. CASE Stage(o) = "none"
    <2>1. o.st = "None"
      BY <1>3, Stages
    <2> QED  BY <2>1 DEF LegInv, Closing, NewUA
  <1> QED  BY <1>1, <1>2, <1>3

LEMMA BecomesOver ==
    ASSUME IInv, NEW w \in Leg, NEW s \in UaRecords, NEW cs, Becomes(Other(w), s, cs),
           Stage(ua[w]) = "over", Stage(s) = "over"
    PROVE  BothOver'
  <1>1. ua'[Other(w)] = s /\ ua'[w] = ua[w] /\ \A v \in Leg : v = w \/ v = Other(w)
    BY Turned, Others
  <1>2. s.st \in Over /\ ua[w].st \in Over
    BY LegTypes, Stages
  <1> QED  BY <1>1, <1>2 DEF BothOver

\* The other leg hears it.
LEMMA HearsIt ==
    ASSUME IInv, NEW w \in Leg, Hearing(w), NEW e, e = Head(todo).e, NEW way \in Ways,
           NEW s, s = RecvEvent(ua[Other(w)], e, way),
           Becomes(Other(w), s, <<Emit(Other(w))>> \o Tail(todo)), unsent' = unsent
    PROVE  BothOver' \/ Talk'
  <1>1. PICK cs : cs = <<Emit(Other(w))>> \o Tail(todo)  OBVIOUS
  <1>2. PICK o : o = ua[Other(w)]  OBVIOUS
  <1>3. PICK q : q = ua[w].q  OBVIOUS
  <1>4. /\ todo \in Seq(Calls) /\ Other(w) \in Leg /\ ua[w] \in UaRecords
        /\ o \in UaRecords /\ LegInv(o) /\ Other(w) # w /\ Other(Other(w)) = w
    BY <1>2, LegTypes, Others
  <1>5. /\ todo # <<>> /\ Head(todo).c = "recv" /\ NoRecv(Tail(todo)) /\ o.q = <<>>
        /\ q = <<>> \/ WillEmit(w, Tail(todo))
        /\ ~ua[w].gone /\ Carried(unsent, Stage(ua[w]), Stage(o), <<e>> \o q)
    BY <1>2, <1>3 DEF Hearing, InFlight
  <1>6. e \in Events /\ q \in Seq(Events) /\ Tail(todo) \in Seq(Calls)
    BY <1>3, <1>4, <1>5, Takes DEF Calls, UaRecords
  <1>7. /\ NoRecv(cs) /\ WillEmit(Other(w), cs)
        /\ q = <<>> \/ WillEmit(w, cs)
    <2>1. Emit(Other(w)) \in Calls /\ Emit(Other(w)).c # "recv"
      BY <1>4, CallTypes
    <2> QED  BY <1>1, <1>5, <1>6, <2>1, Prepends
  <1>8. o.gone = FALSE
    BY <1>4, <1>5, CarriesTo
  <1>9. /\ s \in UaRecords /\ s.gone = o.gone
        /\ \/ Stage(ua[w]) = "over" /\ Stage(s) = "over"
           \/ q = <<>> /\ s.q = <<>> /\ Matched(unsent, Stage(ua[w]), Stage(s))
           \/ q = <<>> /\ Carried(unsent, Stage(s), Stage(ua[w]), s.q)
           \/ s.q = <<>> /\ Carried(unsent, Stage(ua[w]), Stage(s), q)
    BY <1>2, <1>4, <1>5, <1>6, Delivers
  <1>10. Becomes(Other(w), s, cs)
    BY <1>1
  <1>11. CASE Stage(ua[w]) = "over" /\ Stage(s) = "over"
    BY <1>9, <1>10, <1>11, BecomesOver
  <1>12. CASE q = <<>> /\ s.q = <<>> /\ Matched(unsent, Stage(ua[w]), Stage(s))
    <2>1. Matched(unsent, Stage(s), Stage(ua[w]))
      BY <1>12, Matches
    <2>2. Calm'
      BY <1>3, <1>4, <1>7, <1>10, <1>12, <2>1, Quieted
    <2> QED  BY <2>2 DEF Talk
  <1>13. CASE q = <<>> /\ Carried(unsent, Stage(s), Stage(ua[w]), s.q)
    <2>1. Speaking(Other(w))'
      BY <1>3, <1>4, <1>7, <1>8, <1>9, <1>10, <1>13, Spoken
    <2> QED  BY <1>4, <2>1 DEF Talk
  <1>14. CASE s.q = <<>> /\ Carried(unsent, Stage(ua[w]), Stage(s), q)
    <2>1. ua'[Other(w)] = s /\ ua'[w] = ua[w] /\ todo' = cs
      BY <1>4, <1>10, Turned
    <2>2. WillEmit(w, cs)
      BY <1>7, <1>14, CarriesSome
    <2>3. Speaking(w)'
      BY <1>3, <1>5, <1>7, <1>14, <2>1, <2>2 DEF Speaking, InFlight
    <2> QED  BY <2>3 DEF Talk
  <1> QED  BY <1>9, <1>11, <1>12, <1>13, <1>14

\* What is to be handled is heard.
LEMMA HeadHeard ==
    ASSUME IInv, Talk, todo # <<>>, Head(todo).c = "recv"
    PROVE  \E w \in Leg : Hearing(w)
  <1>1. ~NoRecv(todo)
    BY LegTypes, Takes
  <1>2. ASSUME NEW w \in Leg, Waking(w) PROVE FALSE
    <2>1. Other(w) \in Leg /\ Head(todo) = Emit(Other(w))
      BY <1>2, Others, Makes DEF Waking
    <2> QED  BY <2>1, CallTypes
  <1> QED  BY <1>1, <1>2 DEF Talk, Calm, Speaking

LEMMA HandlesOn ==
    ASSUME IInv, Talk, HandleEvent
    PROVE  BothOver' \/ Talk'
  <1>1. PICK c : c = Head(todo)  OBVIOUS
  <1>2. /\ todo \in Seq(Calls) /\ todo # <<>> /\ c.c = "recv"
    BY <1>1, LegTypes DEF HandleEvent
  <1>3. PICK w \in Leg : Hearing(w)
    BY <1>1, <1>2, HeadHeard
  <1>4. PICK e : e = c.e  OBVIOUS
  <1>5. c.u = Other(w)
    BY <1>1, <1>3 DEF Hearing
  <1>6. PICK way \in IF Head(todo).e.k = "Update" THEN Ways ELSE {"sent"} :
           Becomes(Other(w), RecvEvent(ua[Other(w)], e, way), <<Emit(Other(w))>> \o Tail(todo))
    BY <1>1, <1>4, <1>5 DEF HandleEvent
  <1>7. PICK s : s = RecvEvent(ua[Other(w)], e, way)  OBVIOUS
  <1>8. way \in Ways
    BY DEF Ways
  <1>9. Becomes(Other(w), s, <<Emit(Other(w))>> \o Tail(todo))
    BY <1>6, <1>7
  <1> HIDE <1>6
  <1>10. unsent' = unsent
    BY DEF HandleEvent
  <1> QED  BY <1>1, <1>3, <1>4, <1>7, <1>8, <1>9, <1>10, HearsIt

\* A Try is alone on its way, from leg A.
LEMMA CarriesTry ==
    ASSUME NEW lost, NEW v, NEW w, NEW e \in Events, e.k = "Try", NEW q \in Seq(Events),
           Carried(lost, v, w, <<e>> \o q)
    PROVE  v = "early" /\ w = "none" /\ q = <<>>
  <1>1. Ev("Fail") \in Events /\ Ev("Disconnect") \in Events /\ Ev("Fail").k # "Try"
    BY EventTypes DEF EventKinds, Ev
  <1>2. <<e>> \o q # <<Ev("Fail"), Ev("Disconnect")>>
    BY <1>1, Firsts
  <1>3. PICK f \in Events :
           /\ <<e>> \o q = <<f>>
           /\ \/ f.k = "Try" /\ f.body /\ v = "early" /\ w = "none"
              \/ f.k \in {"Ring", "Ring100", "Info"}
              \/ f.k = "Connect"
              \/ Offers(f)
              \/ f.k \in {"Fail", "Redirect"}
              \/ f.k = "Disconnect"
    BY <1>2 DEF Carried
  <1>4. e = f /\ q = <<>>
    BY <1>3, Firsts
  <1> QED  BY <1>3, <1>4 DEF Offers

\* The INVITE of leg O cannot be sent: the leg stays idle.
LEMMA ErrsOn ==
    ASSUME IInv, Talk, TryError
    PROVE  Talk'
  <1>1. PICK c : c = Head(todo)  OBVIOUS
  <1>2. PICK r : r = [ua["O"] EXCEPT !.st = "UacIdle"]  OBVIOUS
  <1>3. /\ todo \in Seq(Calls) /\ todo # <<>> /\ c.c = "recv" /\ c.e.k = "Try"
        /\ Becomes("O", r, Tail(todo)) /\ c \in Calls /\ unsent' = unsent
    BY <1>1, <1>2, LegTypes, Takes DEF TryError
  <1>4. c.u = "O"
    BY <1>1, <1>3, Pops DEF IInv, TryOnce, IsTry
  <1>5. PICK w \in Leg : Hearing(w)
    BY <1>1, <1>3, HeadHeard
  <1>6. w = "A" /\ Other("O") = "A" /\ "O" \in Leg /\ "A" \in Leg
    BY <1>1, <1>4, <1>5, Others DEF Hearing, Leg
  <1>7. PICK q : q = ua["A"].q  OBVIOUS
  <1>8. /\ ua["A"] \in UaRecords /\ ua["O"] \in UaRecords
        /\ ua["O"].st = "None" => ua["O"] = NewUA
    BY <1>6, LegTypes
  <1>9. c.e \in Events /\ q \in Seq(Events)
    BY <1>3, <1>7, <1>8 DEF Calls, UaRecords
  <1>10. /\ NoRecv(Tail(todo)) /\ Carried(unsent, Stage(ua["A"]), Stage(ua["O"]), <<c.e>> \o q)
    BY <1>1, <1>5, <1>6, <1>7, Others DEF Hearing, InFlight
  <1>11. Stage(ua["A"]) = "early" /\ Stage(ua["O"]) = "none" /\ q = <<>>
    BY <1>3, <1>9, <1>10, CarriesTry
  <1>12. ua["O"] = NewUA
    BY <1>8, <1>11, Stages
  <1>13. r.q = <<>> /\ r.st = "UacIdle" /\ Prompt(r)
    BY <1>2, <1>12 DEF NewUA, Prompt
  <1>14. r \in UaRecords
    BY <1>2, <1>8, ZenonT(60) DEF UaRecords, States
  <1>15. Stage(r) = "idle"
    BY <1>13, <1>14, Stages
  <1>16. Matched(unsent, Stage(r), Stage(ua["A"]))
    BY <1>11, <1>15 DEF Matched
  <1>17. Calm'
    BY <1>3, <1>6, <1>7, <1>10, <1>11, <1>13, <1>16, Quieted
  <1> QED  BY <1>17 DEF Talk

\* An Update is alone on its way, from a leg that is asked.
LEMMA CarriesUpdate ==
    ASSUME NEW lost, NEW v, NEW w, NEW e \in Events, e.k = "Update", NEW q \in Seq(Events),
           Carried(lost, v, w, <<e>> \o q)
    PROVE  v = "asked" /\ w \in {"up", "asked"} /\ q = <<>> /\ e.body
  <1>1. Ev("Fail") \in Events /\ Ev("Disconnect") \in Events /\ Ev("Fail").k # "Update"
    BY EventTypes DEF EventKinds, Ev
  <1>2. <<e>> \o q # <<Ev("Fail"), Ev("Disconnect")>>
    BY <1>1, Firsts
  <1>3. PICK f \in Events :
           /\ <<e>> \o q = <<f>>
           /\ \/ f.k \in {"Try", "Ring", "Ring100", "Info", "Connect", "Fail", "Redirect", "Disconnect"}
              \/ Offers(f) /\ v = "asked" /\ (w = "up" \/ (lost /\ w = "asked"))
    BY <1>2 DEF Carried
  <1>4. e = f /\ q = <<>>
    BY <1>3, Firsts
  <1> QED  BY <1>3, <1>4 DEF Offers

\* A re-INVITE cannot be sent: the leg that was asked is left asked.
LEMMA DropsOn ==
    ASSUME IInv, Talk, UpdateError
    PROVE  Talk'
  <1>1. PICK c : c = Head(todo)  OBVIOUS
  <1>2. PICK u : u = c.u  OBVIOUS
  <1>3. PICK r : r = [ua[u] EXCEPT !.late_media = @ \/ ~c.e.body]  OBVIOUS
  <1>4. /\ todo \in Seq(Calls) /\ todo # <<>> /\ c.c = "recv" /\ c.e.k = "Update"
        /\ Becomes(u, r, Tail(todo)) /\ c \in Calls /\ unsent' = TRUE
        /\ ua[u].st = "Connected"
    BY <1>1, <1>2, <1>3, LegTypes, Takes DEF UpdateError
  <1>5. PICK w \in Leg : Hearing(w)
    BY <1>1, <1>4, HeadHeard
  <1>6. u = Other(w) /\ u \in Leg /\ Other(u) = w
    BY <1>1, <1>2, <1>5, Others DEF Hearing
  <1>7. PICK q : q = ua[w].q  OBVIOUS
  <1>8. ua[w] \in UaRecords /\ ua[u] \in UaRecords
    BY <1>6, LegTypes
  <1>9. c.e \in Events /\ q \in Seq(Events)
    BY <1>4, <1>7, <1>8 DEF Calls, UaRecords
  <1>10. /\ NoRecv(Tail(todo)) /\ ua[u].q = <<>>
         /\ Carried(unsent, Stage(ua[w]), Stage(ua[u]), <<c.e>> \o q)
    BY <1>1, <1>5, <1>6, <1>7 DEF Hearing, InFlight
  <1>11. Stage(ua[w]) = "asked" /\ q = <<>> /\ c.e.body /\ Stage(ua[u]) \in {"up", "asked"}
    BY <1>4, <1>9, <1>10, CarriesUpdate
  <1>12. Stage(ua[u]) = "up"
    BY <1>4, <1>8, <1>11, Stages
  <1>13. Alike(ua[u], r)
    BY <1>3, <1>8, <1>11 DEF UaRecords, Alike, Into
  <1>14. Stage(r) = "up" /\ r.q = <<>>
    BY <1>8, <1>10, <1>12, <1>13, AlikeStage DEF Alike, Into
  <1>15. Matched(unsent', Stage(r), Stage(ua[w]))
    BY <1>4, <1>11, <1>14 DEF Matched
  <1>16. Calm'
    BY <1>4, <1>6, <1>7, <1>10, <1>11, <1>14, <1>15, Quieted
  <1> QED  BY <1>16 DEF Talk

\* A request returns: the other leg does not notice.
LEMMA ReturnsOn ==
    ASSUME IInv, Talk, RequestDone
    PROVE  Talk'
  <1>1. PICK c : c = Head(todo)  OBVIOUS
  <1>2. PICK u : u = c.u  OBVIOUS
  <1>3. PICK r : r = [ua[u] EXCEPT !.cancelCB = BoundCancel(ua[u])]  OBVIOUS
  <1>4. /\ todo \in Seq(Calls) /\ todo # <<>> /\ c.c = "bind" /\ c \in Calls
        /\ Becomes(u, r, Tail(todo)) /\ unsent' = unsent
    BY <1>1, <1>2, <1>3, LegTypes, Takes DEF RequestDone
  <1>5. u \in Leg
    BY <1>2, <1>4 DEF Calls
  <1>6. ua[u] \in UaRecords
    BY <1>5, LegTypes
  <1>7. /\ r.q = ua[u].q /\ r.gone = ua[u].gone /\ r.st = ua[u].st
        /\ r.late_media = ua[u].late_media /\ r.confirm = ua[u].confirm
        /\ r.pendUpdate = ua[u].pendUpdate
        /\ r.heldConnect = ua[u].heldConnect /\ r.heldUpdate = ua[u].heldUpdate
    BY <1>3, <1>6 DEF UaRecords
  <1>8. Stage(r) = Stage(ua[u])
    BY <1>7 DEF Stage, Up, Kept
  <1>9. ua'[u] = r /\ todo' = Tail(todo) /\ \A v \in Leg : v # u => ua'[v] = ua[v]
    BY <1>4, <1>5, Turned
  <1>10. \A v \in Leg : /\ Stage(ua'[v]) = Stage(ua[v]) /\ ua'[v].q = ua[v].q
                        /\ ua'[v].gone = ua[v].gone
    BY <1>7, <1>8, <1>9
  <1>11. \A v \in Leg : c # Emit(v) /\ Other(v) \in Leg
    BY <1>4, CallTypes, Others
  <1>12. CASE Calm
    <2>1. NoRecv(Tail(todo))
      BY <1>4, <1>12, Takes DEF Calm
    <2>2. Calm'
      BY <1>4, <1>9, <1>10, <1>11, <1>12, <2>1 DEF Calm, Silent
    <2> QED  BY <2>2 DEF Talk
  <1>13. ASSUME NEW w \in Leg, Speaking(w) PROVE Talk'
    <2>1. NoRecv(Tail(todo)) /\ WillEmit(w, Tail(todo))
      BY <1>1, <1>4, <1>11, <1>13, Takes DEF Speaking
    <2>2. Speaking(w)'
      BY <1>4, <1>9, <1>10, <1>11, <1>13, <2>1 DEF Speaking, InFlight
    <2> QED  BY <1>13, <2>2 DEF Talk
  <1>14. ASSUME NEW w \in Leg, Hearing(w) \/ Waking(w) PROVE FALSE
    <2>1. ~Hearing(w)
      BY <1>1, <1>4 DEF Hearing
    <2>2. Waking(w) => Head(todo) = Emit(Other(w))
      BY <1>11, <1>14, Makes DEF Waking
    <2> QED  BY <1>1, <1>11, <1>14, <2>1, <2>2
  <1> QED  BY <1>12, <1>13, <1>14 DEF Talk

\* The INVITE of a new call, with an SDP.
LEMMA NewCallOffers ==
    ASSUME NEW rel \in BOOLEAN
    PROVE  LET w == UasIdle_RecvRequest(NewUA, TRUE, rel)
           IN  /\ w \in UaRecords /\ Stage(w) = "early" /\ ~w.gone
               /\ w.q = <<EvBody("Try", TRUE)>>
  <1>1. PICK b \in BOOLEAN : b = (rel /\ TRUE)
    OBVIOUS
  <1>2. PICK s : s = [NewUA EXCEPT !.uas = "early", !.pr_rel = b]  OBVIOUS
  <1>3. PICK e : e = EvBody("Try", TRUE)  OBVIOUS
  <1>4. PICK t : t = Enqueue(s, e)  OBVIOUS
  <1>5. PICK v : v = ChangeState(t, "UasTrying")  OBVIOUS
  <1>6. PICK w : w = StartFirst(v, <<"np", "ex">>)  OBVIOUS
  <1>7. NewUA \in UaRecords /\ LegInv(NewUA) /\ NewUA.st = "None"
    BY NewLeg DEF NewUA
  <1>8. s \in UaRecords
    BY <1>2, <1>7, InviteType
  <1>9. s.q = <<>> /\ ~s.late_media /\ ~s.confirm /\ ~s.gone
    BY <1>2 DEF NewUA
  <1>10. e \in Events
    BY <1>3 DEF EvBody, Events, EventKinds
  <1>11. t \in UaRecords /\ SameCall(s, t) /\ SameMedia(s, t)
    BY <1>4, <1>8, <1>10, Enqueues
  <1>12. Into(t, v, "UasTrying") /\ v \in UaRecords
    BY <1>5, <1>11, IntoState DEF States, Into
  <1>13. Alike(v, w)
    BY <1>6, <1>12, AsidesTimers
  <1>14. w \in UaRecords /\ w.st = "UasTrying" /\ Prompt(w) /\ ~w.gone
    BY <1>9, <1>11, <1>12, <1>13 DEF Alike, Into, SameCall, SameMedia, Prompt
  <1>15. Stage(w) = "early"
    BY <1>14, Stages
  <1>16. UasIdle_RecvRequest(NewUA, TRUE, rel) = w
    BY <1>1, <1>2, <1>3, <1>4, <1>5, <1>6 DEF UasIdle_RecvRequest
  <1>17. w.q = <<e>>
    BY <1>3, <1>7, <1>16, NewCallStarts
  <1> QED  BY <1>3, <1>14, <1>15, <1>16, <1>17

LEMMA NewCallOn ==
    ASSUME IInv, NEW rel \in BOOLEAN, OnNewDialog(TRUE, rel)
    PROVE  Talk'
  <1>1. PICK r : r = UasIdle_RecvRequest(ua["A"], TRUE, rel)  OBVIOUS
  <1>2. /\ todo = <<>> /\ ua["A"].st = "None" /\ ua["O"].st = "None"
        /\ ua' = [ua EXCEPT !["A"] = r] /\ todo' = <<Emit("A"), Bind("A")>>
    BY <1>1 DEF OnNewDialog, Unlocked, IInv, Fresh
  <1>3. /\ "A" \in Leg /\ "O" \in Leg /\ Other("A") = "O"
        /\ ua["A"] = NewUA /\ ua["O"] = NewUA /\ NewUA \in UaRecords
    BY <1>2, LegTypes, Others, NewLeg
  <1>4. r \in UaRecords /\ Stage(r) = "early" /\ ~r.gone /\ r.q = <<EvBody("Try", TRUE)>>
    BY <1>1, <1>3, NewCallOffers
  <1>5. ua'["A"] = r /\ ua'["O"] = ua["O"]
    BY <1>2, <1>3 DEF IInv, TypeOK
  <1>6. ua'["O"].q = <<>> /\ Stage(ua'["O"]) = "none"
    BY <1>3, <1>5, Stages DEF NewUA, Prompt
  <1>7. EvBody("Try", TRUE) \in Events /\ EvBody("Try", TRUE).k = "Try" /\ EvBody("Try", TRUE).body
    BY DEF EvBody, Events, EventKinds
  <1>8. Carried(unsent', "early", "none", <<EvBody("Try", TRUE)>>)
    BY <1>7 DEF Carried
  <1>9. NoRecv(todo') /\ WillEmit("A", todo')
    BY <1>2, <1>3, Makes
  <1>10. Speaking("A")'
    BY <1>3, <1>4, <1>5, <1>6, <1>8, <1>9 DEF Speaking, InFlight
  <1> QED  BY <1>3, <1>10 DEF Talk

-----------------------------------------------------------------------------
(* The messages and timers, while the lock is free.                         *)
LEMMA Answers ==
    ASSUME IInv, Calm, unsent' = unsent, NEW u \in Leg, ua[u].st # "None", NEW r, Acts(ua[u], r),
           Becomes(u, r, <<Emit(u)>>)
    PROVE  Talk'
  <1>1. PICK cs : cs = <<Emit(u)>>  OBVIOUS
  <1>2. NoRecv(cs) /\ WillEmit(u, cs) /\ Becomes(u, r, cs)
    BY <1>1, Makes
  <1> QED  BY <1>2, Stirs

LEMMA ServesOn ==
    ASSUME IInv, Calm, NEW u \in Leg, Plain(u)
    PROVE  Talk'
  <1>0. unsent' = unsent
    BY DEF Plain, BYE, REFER, INFO, InDialog, Cancelled, NoAck, NoPrack, ReferResponse,
       ProvisionalResponse, FinalResponse, TimerStep, Pop, Fire
  <1>1. /\ ua[u] \in UaRecords /\ LegInv(ua[u])
        /\ ua[u].st = "None" => ua[u] = NewUA
    BY LegTypes
  <1>2. ASSUME ua[u].st # "None"
        PROVE  Stage(ua[u]) \in Live /\ ua[u].q = <<>> /\ ua[u].gone = FALSE
    BY <1>2, CalmLegs
  <1>3. ASSUME NEW r, InDialog(u, r), Stage(ua[u]) \in Live /\ ua[u].q = <<>> => Acts(ua[u], r)
        PROVE  Talk'
    <2>1. ua[u].st # "None" /\ Becomes(u, r, <<Emit(u)>>)
      BY <1>3 DEF InDialog
    <2> QED  BY <1>0, <1>2, <1>3, <2>1, Answers
  <1>4. CASE BYE(u)
    <2>1. PICK also \in BOOLEAN : InDialog(u, RecvBYE(ua[u], also))
      BY <1>4 DEF BYE
    <2>2. Stage(ua[u]) \in Live /\ ua[u].q = <<>> => Acts(ua[u], RecvBYE(ua[u], also))
      BY <1>1, ActsRequests
    <2> QED  BY <1>3, <2>1, <2>2
  <1>5. CASE REFER(u)
    <2>1. InDialog(u, RecvREFER(ua[u]))
      BY <1>5 DEF REFER
    <2>2. Stage(ua[u]) \in Live /\ ua[u].q = <<>> => Acts(ua[u], RecvREFER(ua[u]))
      BY <1>1, ActsRequests
    <2> QED  BY <1>3, <2>1, <2>2
  <1>6. CASE INFO(u)
    <2>1. InDialog(u, RecvINFO(ua[u]))
      BY <1>6 DEF INFO
    <2>2. Stage(ua[u]) \in Live /\ ua[u].q = <<>> => Acts(ua[u], RecvINFO(ua[u]))
      BY <1>1, ActsRequests
    <2> QED  BY <1>3, <2>1, <2>2
  <1>7. CASE Cancelled(u)
    <2>1. /\ Unlocked /\ ua[u].uas = "early" /\ Becomes(u, RecvCancel(ua[u]), <<Emit(u)>>)
      BY <1>7 DEF Cancelled
    <2>2. BoundCancel(ua[u]) # "none" => ua[u].cancelCB = BoundCancel(ua[u])
      BY <2>1, Empties DEF IInv, Bound, Unlocked
    <2>3. ua[u].st # "None"
      BY <1>1, <2>1 DEF NewUA
    <2>4. Acts(ua[u], RecvCancel(ua[u]))
      BY <1>1, <1>2, <2>1, <2>2, <2>3, ActsCancel
    <2> QED  BY <1>0, <2>1, <2>3, <2>4, Answers
  <1>8. CASE NoAck(u)
    <2>1. PICK r : r = Disconnect([ua[u] EXCEPT !.uas = "closed"])  OBVIOUS
    <2>2. ua[u].uas = "completed" /\ Becomes(u, r, <<Emit(u)>>)
      BY <1>8, <2>1 DEF NoAck
    <2>3. ua[u].st # "None"
      BY <1>1, <2>2 DEF NewUA
    <2>4. Acts(ua[u], r)
      BY <1>1, <1>2, <2>1, <2>3, ActsTimers
    <2> QED  BY <1>0, <2>2, <2>3, <2>4, Answers
  <1>9. CASE NoPrack(u)
    <2>1. PICK s : s = [ua[u] EXCEPT !.prov = FALSE]  OBVIOUS
    <2>2. PICK r : r = IF s.uas = "early" THEN Disconnect(s) ELSE s  OBVIOUS
    <2>3. ua[u].prov /\ Becomes(u, r, <<Emit(u)>>)
      BY <1>9, <2>1, <2>2 DEF NoPrack
    <2>4. ua[u].st # "None"
      BY <1>1, <2>3, ProvMoves
    <2>5. Acts(ua[u], s) /\ Acts(ua[u], Disconnect(s))
      BY <1>1, <1>2, <2>1, <2>4, ActsTimers
    <2>6. Acts(ua[u], r)
      BY <2>2, <2>5
    <2> QED  BY <1>0, <2>3, <2>4, <2>6, Answers
  <1>10. CASE ReferResponse(u)
    <2>1. PICK r : r = ReferAnswered(ua[u])  OBVIOUS
    <2>2. ua[u].refer = "open" /\ Becomes(u, r, <<>>)
      BY <1>10, <2>1 DEF ReferResponse
    <2>3. ua[u].st # "None"
      BY <1>1, <2>2 DEF NewUA
    <2>4. Reaches(ua[u], r, Stage(ua[u]), <<>>)
      BY <1>1, <1>2, <2>1, <2>3, ActsTimers
    <2> QED  BY <1>0, <2>2, <2>3, <2>4, Makes, Stills
  <1>11. CASE \E m \in Messages : ProvisionalResponse(u, m) \/ FinalResponse(u, m)
    <2>1. PICK m \in Messages : ProvisionalResponse(u, m) \/ FinalResponse(u, m)
      BY <1>11
    <2>2. m \in Responses
      BY DEF Messages
    <2>3. /\ ua[u].uac \in {"calling", "proceeding"}
          /\ Becomes(u, RecvResponse(ua[u], m), <<Emit(u)>>)
      BY <2>1 DEF ProvisionalResponse, FinalResponse
    <2>4. ua[u].st # "None"
      BY <1>1, <2>2, <2>3, ResponseMoves
    <2>5. Acts(ua[u], RecvResponse(ua[u], m))
      BY <1>1, <1>2, <2>2, <2>4, ActsResponse
    <2> QED  BY <1>0, <2>3, <2>4, <2>5, Answers
  <1>12. CASE TimerStep(u)
    <2>1. PICK x \in TimerNames : Pop(u, x) \/ Fire(u, x)
      BY <1>12 DEF TimerStep
    <2>2. CASE Pop(u, x)
      <3>1. PICK r : r = [ua[u] EXCEPT !.arm = @ \ {x}, !.pop = @ \cup {x}]  OBVIOUS
      <3>2. x \in ua[u].arm /\ Becomes(u, r, <<>>)
        BY <2>2, <3>1 DEF Pop
      <3>3. ua[u].st # "None"
        BY <1>1, <3>2 DEF NewUA
      <3>4. Reaches(ua[u], r, Stage(ua[u]), <<>>)
        BY <1>1, <1>2, <3>1, <3>3, ActsTimers
      <3> QED  BY <1>0, <3>2, <3>3, <3>4, Makes, Stills
    <2>3. CASE Fire(u, x)
      <3>1. x \in ua[u].pop /\ Becomes(u, Expired(ua[u], x), <<Emit(u)>>)
        BY <2>3 DEF Fire
      <3>2. ua[u].st # "None"
        BY <1>1, <3>1 DEF NewUA
      <3>3. Acts(ua[u], Expired(ua[u], x))
        BY <1>1, <1>2, <3>1, <3>2, ActsTimers
      <3> QED  BY <1>0, <3>1, <3>2, <3>3, Answers
    <2> QED  BY <2>1, <2>2, <2>3
  <1> QED  BY <1>4, <1>5, <1>6, <1>7, <1>8, <1>9, <1>10, <1>11, <1>12 DEF Plain

\* A re-INVITE with an SDP.
LEMMA ReInvitedOn ==
    ASSUME ~LateMedia, IInv, Calm, NEW u \in Leg, ReINVITE(u)
    PROVE  Talk'
  <1>1. PICK same \in BOOLEAN :
           LET r == RecvReINVITE(ua[u], TRUE, same)
           IN  Becomes(u, r, IF r.st # ua[u].st THEN <<Emit(u), Bind(u)>> ELSE <<Emit(u)>>)
    BY DEF ReINVITE
  <1>2. PICK r : r = RecvReINVITE(ua[u], TRUE, same)  OBVIOUS
  <1>3. PICK cs : cs = IF r.st # ua[u].st THEN <<Emit(u), Bind(u)>> ELSE <<Emit(u)>>  OBVIOUS
  <1>4. Becomes(u, r, cs) /\ ua[u].st # "None"
    BY <1>1, <1>2, <1>3 DEF ReINVITE, IsConnected
  <1>5. NoRecv(cs) /\ WillEmit(u, cs)
    BY <1>3, Makes
  <1>6. Acts(ua[u], r)
    BY <1>2, <1>4, CalmLegs, ActsReINVITE
  <1>7. unsent' = unsent
    BY DEF ReINVITE
  <1> QED  BY <1>4, <1>5, <1>6, <1>7, Stirs

\* The Update that a live leg keeps for the ACK or the PRACK.
LEMMA KeepsUpdate ==
    ASSUME NEW r \in UaRecords, Stage(r) \in Live
    PROVE  /\ r.st = "PreConnect" =>
                \/ r.pendUpdate = NoEv /\ Stage(r) = "up"
                \/ r.pendUpdate \in Events /\ Offers(r.pendUpdate) /\ Stage(r) = "kept"
           /\ r.st = "UasRingingRel" /\ r.heldUpdate # NoEv =>
                /\ r.heldUpdate \in Events /\ Offers(r.heldUpdate) /\ Stage(r) = "kept"
                /\ r.heldConnect # NoEv
           /\ r.st = "UasRingingRel" /\ r.heldUpdate = NoEv /\ r.heldConnect # NoEv => Stage(r) = "up"
  <1>1. Prompt(r) /\ ~Offers(NoEv)
    BY LiveLeg DEF Offers, NoEv
  <1>2. r.pendUpdate \in Events \cup {NoEv} /\ r.heldUpdate \in Events \cup {NoEv}
    BY ZenonT(60) DEF UaRecords
  <1>3. CASE r.st = "PreConnect"
    <2>1. Stage(r) \in {"up", "kept"}
      BY <1>3, Stages DEF Live
    <2> QED  BY <1>1, <1>2, <1>3, <2>1, Stages
  <1>4. CASE r.st = "UasRingingRel"
    <2>1. Stage(r) \in {"early", "up", "kept"}
      BY <1>4, Stages DEF Live
    <2> QED  BY <1>1, <1>2, <1>4, <2>1, Stages
  <1> QED  BY <1>3, <1>4

\* Leg u is up when it handles the Update p that it kept: the other leg asked.
LEMMA LetsGo ==
    ASSUME IInv, Calm, NEW u \in Leg, ua[u].st # "None", Stage(ua[u]) = "kept",
           NEW r, Reaches(ua[u], r, "up", <<>>), NEW p \in Events, Offers(p),
           Becomes(u, r, <<Emit(u), Recv(u, p)>>) \/ Becomes(u, r, <<Recv(u, p)>>)
    PROVE  Talk'
  <1>1. PICK w : w = Other(u)  OBVIOUS
  <1>2. w \in Leg /\ w # u /\ Other(w) = u /\ \A v \in Leg : v = u \/ v = w
    BY <1>1, Others
  <1>3. /\ ua[w].q = <<>> /\ Stage(ua[w]) = "asked"
        /\ ua[w] \in UaRecords /\ LegInv(ua[w])
    BY <1>1, <1>2, CalmLegs, LegTypes DEF Matched
  <1>4. ua[w].gone = FALSE
    BY <1>3, LiveHere DEF Live
  <1>5. r.q = <<>> /\ Stage(r) = "up"
    BY DEF Reaches
  <1>6. ua'[u] = r /\ ua'[w] = ua[w]
    BY <1>2, Turned
  <1>7. Carried(unsent', "asked", "up", <<p>>)
    BY DEF Carried
  <1>8. InFlight(w, <<p>>)'
    BY <1>2, <1>3, <1>4, <1>5, <1>6, <1>7 DEF InFlight
  <1>9. Silent'
    BY <1>2, <1>3, <1>5, <1>6 DEF Silent
  <1>10. CASE Becomes(u, r, <<Emit(u), Recv(u, p)>>)
    <2>1. todo' = <<Emit(u), Recv(u, p)>>
      BY <1>10, Turned
    <2>2. Waking(w)'
      BY <1>2, <1>8, <1>9, <2>1 DEF Waking
    <2> QED  BY <1>2, <2>2 DEF Talk
  <1>11. CASE Becomes(u, r, <<Recv(u, p)>>)
    <2>1. todo' = <<Recv(u, p)>>
      BY <1>11, Turned
    <2>2. /\ todo' # <<>> /\ Head(todo') = Recv(u, p) /\ Tail(todo') = <<>> /\ NoRecv(<<>>)
      BY <2>1, Makes
    <2>3. Head(todo').c = "recv" /\ Head(todo').u = u /\ Head(todo').e = p
      BY <2>2, CallTypes
    <2>4. ua'[w].q = <<>> /\ ua'[u].q = <<>>
      BY <1>3, <1>5, <1>6
    <2>5. <<Head(todo').e>> \o ua'[w].q = <<p>>
      BY <2>3, <2>4, AloneSeq
    <2>6. ~ua'[w].gone /\ Carried(unsent', Stage(ua'[w]), Stage(ua'[Other(w)]), <<p>>)
      BY <1>2, <1>3, <1>4, <1>5, <1>6, <1>7
    <2>7. Hearing(w)'
      BY <1>2, <2>2, <2>3, <2>4, <2>5, <2>6 DEF Hearing, InFlight
    <2> QED  BY <1>2, <2>7 DEF Talk
  <1> QED  BY <1>10, <1>11

LEMMA AckedOn ==
    ASSUME IInv, Calm, NEW u \in Leg, ACK(u)
    PROVE  Talk'
  <1>0. unsent' = unsent
    BY DEF ACK
  <1>1. PICK body \in BOOLEAN :
           Becomes(u, RecvACK(ua[u], body),
                   IF ua[u].ackw /\ ua[u].st = "PreConnect" /\ ua[u].pendUpdate # NoEv
                   THEN <<Emit(u), Recv(u, ua[u].pendUpdate)>> ELSE <<Emit(u)>>)
    BY DEF ACK
  <1>2. PICK r : r = RecvACK(ua[u], body)  OBVIOUS
  <1>3. PICK p : p = ua[u].pendUpdate  OBVIOUS
  <1>4. ua[u].st # "None"
    <2>1. ua[u].uas = "completed"
      BY DEF ACK
    <2> QED  BY <2>1, LegTypes DEF NewUA
  <1>5. /\ ua[u] \in UaRecords /\ LegInv(ua[u]) /\ Stage(ua[u]) \in Live /\ ua[u].q = <<>>
    BY <1>4, CalmLegs
  <1>6. IF ua[u].ackw /\ ua[u].st = "PreConnect" THEN Reaches(ua[u], r, "up", <<>>)
                                                 ELSE Acts(ua[u], r)
    BY <1>2, <1>5, ActsACK
  <1>7. CASE ~(ua[u].ackw /\ ua[u].st = "PreConnect")
    <2>1. Becomes(u, r, <<Emit(u)>>)
      BY <1>1, <1>2, <1>7
    <2> QED  BY <1>0, <1>4, <1>6, <1>7, <2>1, Answers
  <1>8. CASE ua[u].ackw /\ ua[u].st = "PreConnect" /\ p = NoEv
    <2>1. ~Offers(NoEv)
      BY DEF Offers, NoEv
    <2>2. Stage(ua[u]) = "up"
      BY <1>3, <1>5, <1>8, <2>1, KeepsUpdate
    <2>3. Becomes(u, r, <<Emit(u)>>)
      BY <1>1, <1>2, <1>3, <1>8
    <2>4. Reaches(ua[u], r, Stage(ua[u]), <<>>)
      BY <1>6, <1>8, <2>2
    <2> QED  BY <1>0, <1>4, <2>3, <2>4, Makes, Stills
  <1>9. CASE ua[u].ackw /\ ua[u].st = "PreConnect" /\ p # NoEv
    <2>1. p \in Events /\ Offers(p) /\ Stage(ua[u]) = "kept"
      BY <1>3, <1>5, <1>9, KeepsUpdate
    <2>2. Becomes(u, r, <<Emit(u), Recv(u, p)>>)
      BY <1>1, <1>2, <1>3, <1>9
    <2>3. Reaches(ua[u], r, "up", <<>>)
      BY <1>6, <1>9
    <2> QED  BY <1>4, <2>1, <2>2, <2>3, LetsGo
  <1> QED  BY <1>7, <1>8, <1>9

LEMMA PrackedOn ==
    ASSUME IInv, Calm, NEW u \in Leg, PRACK(u)
    PROVE  Talk'
  <1>0. unsent' = unsent
    BY DEF PRACK
  <1>1. PICK r : r = RecvPRACK(ua[u])  OBVIOUS
  <1>2. PICK p : p = ua[u].heldUpdate  OBVIOUS
  <1>3. /\ ua[u].prov
        /\ Becomes(u, r, IF ua[u].st = "UasRingingRel" /\ p # NoEv THEN <<Recv(u, p)>> ELSE <<>>)
    BY <1>1, <1>2 DEF PRACK
  <1>4. ua[u].st # "None"
    BY <1>3, LegTypes, ProvMoves
  <1>5. /\ ua[u] \in UaRecords /\ LegInv(ua[u]) /\ Stage(ua[u]) \in Live /\ ua[u].q = <<>>
    BY <1>4, CalmLegs
  <1>6. IF ua[u].st = "UasRingingRel" /\ ua[u].heldConnect # NoEv
        THEN Reaches(ua[u], r, "up", <<>>) ELSE Reaches(ua[u], r, Stage(ua[u]), <<>>)
    BY <1>1, <1>5, ActsPRACK
  <1>7. CASE ua[u].st = "UasRingingRel" /\ p # NoEv
    <2>1. p \in Events /\ Offers(p) /\ Stage(ua[u]) = "kept" /\ ua[u].heldConnect # NoEv
      BY <1>2, <1>5, <1>7, KeepsUpdate
    <2>2. Becomes(u, r, <<Recv(u, p)>>)
      BY <1>3, <1>7
    <2>3. Reaches(ua[u], r, "up", <<>>)
      BY <1>6, <1>7, <2>1
    <2> QED  BY <1>4, <2>1, <2>2, <2>3, LetsGo
  <1>8. CASE ~(ua[u].st = "UasRingingRel" /\ p # NoEv)
    <2>1. Becomes(u, r, <<>>)
      BY <1>3, <1>8
    <2>2. Reaches(ua[u], r, Stage(ua[u]), <<>>)
      BY <1>2, <1>5, <1>6, <1>8, KeepsUpdate
    <2> QED  BY <1>0, <1>4, <2>1, <2>2, Makes, Stills
  <1> QED  BY <1>7, <1>8

-----------------------------------------------------------------------------
(* The invariant of the two legs together.                                  *)
PairInv == IInv /\ (BothOver \/ Talk)

LEMMA PairBegins == Init => PairInv
  <1> SUFFICES ASSUME Init PROVE PairInv
    OBVIOUS
  <1>1. IInv
    BY Begins
  <1>2. \A u \in Leg : ua[u] = NewUA
    BY DEF Init
  <1>3. Stage(NewUA) = "none" /\ NewUA.q = <<>>
    BY NewLeg, Stages DEF NewUA, Prompt
  <1>4. Calm
    BY <1>2, <1>3 DEF Calm, Silent, NoRecv, Init
  <1> QED  BY <1>1, <1>4 DEF PairInv, Talk

LEMMA PairInductive ==
    ASSUME ~LateMedia, ~SigTerm, PairInv, [Next]_vars
    PROVE  PairInv'
  <1>1. IInv /\ IInv' /\ (BothOver => BothOver')
    BY Inductive DEF PairInv, BothOver
  <1> SUFFICES ASSUME Talk PROVE BothOver' \/ Talk'
    BY <1>1 DEF PairInv
  <1>2. Unlocked => Calm
    BY <1>1, UnlockedCalm
  <1>3. CASE UnderLock
    BY <1>1, <1>3, EmitsOn, HandlesOn, ErrsOn, DropsOn, ReturnsOn DEF UnderLock
  <1>4. CASE Caller
    <2>1. PICK rel \in BOOLEAN : OnNewDialog(TRUE, rel)
      BY <1>4 DEF Caller
    <2> QED  BY <1>1, <2>1, NewCallOn
  <1>5. ASSUME NEW u \in Leg, PeerRequest(u) \/ Transaction(u) \/ TimerStep(u)
        PROVE  Talk'
    <2>1. Plain(u) \/ ReINVITE(u) \/ ACK(u) \/ PRACK(u)
      BY <1>5 DEF Plain, PeerRequest, Transaction
    <2>2. Unlocked
      BY <1>5 DEF PeerRequest, Transaction, TimerStep, BYE, REFER, INFO, InDialog, ReINVITE, Cancelled,
         ACK, NoAck, PRACK, NoPrack, ReferResponse, ProvisionalResponse, FinalResponse, Pop, Fire
    <2> QED  BY <1>1, <1>2, <2>1, <2>2, ServesOn, ReInvitedOn, AckedOn, PrackedOn
  <1>6. CASE UNCHANGED vars
    BY <1>6 DEF vars, Talk, Calm, Silent, Speaking, Hearing, Waking, InFlight
  <1>7. ~Shutdown
    BY DEF Shutdown
  <1> QED  BY <1>3, <1>4, <1>5, <1>6, <1>7 DEF Next

-----------------------------------------------------------------------------
(* The call as its two parties see it: what each handler makes of the part  *)
(* of a leg that Phase and the answers of the call depend on.               *)
Viewed(r) ==
    /\ {"st", "q", "dialog", "uac", "heldConnect"} \subseteq DOMAIN r
    /\ r.q \in Seq(Events)

Unseen(r, s) ==
    /\ DOMAIN s = DOMAIN r
    /\ s.st = r.st /\ s.q = r.q /\ s.dialog = r.dialog /\ s.uac = r.uac
    /\ s.heldConnect = r.heldConnect

IsAnswer(e) == e.k \in {"PreConnect", "Connect"}

\* Who is connected, or tells the other leg that it is, has a dialog.
Backed(r) ==
    r.st \in IsConnected \/ (\E i \in DOMAIN r.q : IsAnswer(r.q[i])) => r.dialog

\* The leg stays in its phase or ends, and gets no answer.
Calmly(r, s) ==
    /\ Viewed(s)
    /\ s.dialog = r.dialog
    /\ Phase(s) \in {Phase(r), "over"}
    /\ s.heldConnect # NoEv => r.heldConnect # NoEv
    /\ s.st = "UacIdle" => r.st = "UacIdle"
    /\ Backed(r) => Backed(s) /\ (s.uac # "none" => r.uac # "none" \/ r.dialog)

LEMMA ViewedLeg == \A r \in UaRecords : Viewed(r)
  BY DEF Viewed, UaRecords

LEMMA CalmlyTwice ==
    \A r, s, t : Calmly(r, s) /\ Calmly(s, t) => Calmly(r, t)
  <1> SUFFICES ASSUME NEW r, NEW s, NEW t, Calmly(r, s), Calmly(s, t)
               PROVE  Calmly(r, t)
    OBVIOUS
  <1>1. Phase(t) \in {Phase(r), "over"}
    BY DEF Calmly
  <1>2. Backed(r) => Backed(t) /\ (t.uac # "none" => r.uac # "none" \/ r.dialog)
    BY Zenon DEF Calmly
  <1>3. /\ Viewed(t) /\ t.dialog = r.dialog
        /\ t.heldConnect # NoEv => r.heldConnect # NoEv
        /\ t.st = "UacIdle" => r.st = "UacIdle"
    BY DEF Calmly
  <1> QED  BY <1>1, <1>2, <1>3, Zenon DEF Calmly

LEMMA UnseenCalmly ==
    \A r, s : Viewed(r) /\ Unseen(r, s) => Viewed(s) /\ Calmly(r, s)
  <1> SUFFICES ASSUME NEW r, NEW s, Viewed(r), Unseen(r, s)
               PROVE  Viewed(s) /\ Calmly(r, s)
    OBVIOUS
  <1>1. Viewed(s) /\ Phase(s) = Phase(r)
    BY DEF Viewed, Unseen, Phase
  <1>2. Backed(r) => Backed(s)
    BY Zenon DEF Unseen, Backed
  <1> QED  BY <1>1, <1>2, Zenon DEF Calmly, Unseen

LEMMA UnseenTwice == \A r, s, t : Unseen(r, s) /\ Unseen(s, t) => Unseen(r, t)
  BY DEF Unseen

LEMMA UnseenHelpers ==
    ASSUME NEW r, Viewed(r)
    PROVE  /\ \A X : Unseen(r, CancelTimers(r, X))
           /\ \A x : Unseen(r, StartTimer(r, x))
           /\ \A f : Unseen(r, Fault(r, f))
           /\ \A a : Unseen(r, Reply(r, a))
           /\ \A e : Unseen(r, Hangup(r, e))
           /\ Unseen(r, ReplyRinging(r))
           /\ Unseen(r, SendBYE(r))
           /\ Unseen(r, UacCancel(r))
           /\ Unseen(r, r)
  <1>1. \A X : Unseen(r, CancelTimers(r, X))
    BY DEF CancelTimers, Viewed, Unseen
  <1>2. \A x : Unseen(r, StartTimer(r, x))
    BY DEF StartTimer, Viewed, Unseen
  <1>3. \A f : Unseen(r, Fault(r, f))
    BY DEF Fault, Viewed, Unseen
  <1>4. \A a : Unseen(r, Reply(r, a))
    BY DEF Reply, Fault, Viewed, Unseen
  <1>5. \A e : Unseen(r, Hangup(r, e))
    BY DEF Hangup, SendBYE, Viewed, Unseen
  <1>6. Unseen(r, ReplyRinging(r))
    BY DEF ReplyRinging, Fault, Viewed, Unseen
  <1>7. Unseen(r, SendBYE(r)) /\ Unseen(r, UacCancel(r)) /\ Unseen(r, r)
    BY DEF SendBYE, UacCancel, Viewed, Unseen
  <1> QED  BY <1>1, <1>2, <1>3, <1>4, <1>5, <1>6, <1>7

LEMMA UnseenStarts ==
    ASSUME NEW r, Viewed(r)
    PROVE  /\ Unseen(r, StartCreditTimer(r))
           /\ \A chain : Unseen(r, StartFirst(r, chain))
  <1>1. PICK s : s = StartTimer(r, "cr")  OBVIOUS
  <1>2. Unseen(r, s) /\ Viewed(s)
    BY <1>1, UnseenHelpers, UnseenCalmly
  <1>3. Unseen(s, Fault(s, "credit_leak"))
    BY <1>2, UnseenHelpers
  <1>4. Unseen(r, StartCreditTimer(r))
    BY <1>1, <1>2, <1>3, UnseenTwice DEF StartCreditTimer
  <1>5. \A chain : Unseen(r, StartFirst(r, chain))
    BY UnseenHelpers DEF StartFirst
  <1> QED  BY <1>4, <1>5

\* The state changes, and nothing else of the view.
Turning(r, s, x) ==
    /\ DOMAIN s = DOMAIN r /\ Viewed(s)
    /\ s.st = x /\ s.q = r.q /\ s.dialog = r.dialog /\ s.uac = r.uac
    /\ s.heldConnect = r.heldConnect

LEMMA TurningState ==
    ASSUME NEW r, Viewed(r)
    PROVE  /\ \A x : Turning(r, ChangeState(r, x), x)
           /\ \A c : Turning(r, PreConnect(r, c), "PreConnect")
  <1>1. PICK d : d = OnDeactivate(r)  OBVIOUS
  <1>2. Unseen(r, d) /\ Viewed(d)
    <2>1. CASE r.st = "Connected"
      BY <1>1, <2>1, UnseenCalmly DEF OnDeactivate, CancelTimers, Viewed, Unseen
    <2>2. CASE r.st # "Connected"
      BY <1>1, <2>2, UnseenHelpers, UnseenCalmly DEF OnDeactivate
    <2> QED  BY <2>1, <2>2
  <1>3. \A x : Turning(r, ChangeState(r, x), x)
    BY <1>1, <1>2 DEF ChangeState, Viewed, Unseen, Turning
  <1>4. ASSUME NEW c PROVE Turning(r, PreConnect(r, c), "PreConnect")
    <2>1. PICK s : s = ChangeState(r, "PreConnect")  OBVIOUS
    <2>2. Turning(r, s, "PreConnect")
      BY <1>3, <2>1
    <2> QED  BY <2>1, <2>2 DEF PreConnect, Viewed, Turning
  <1> QED  BY <1>3, <1>4

LEMMA TurningCalmly ==
    ASSUME NEW r, NEW s, NEW x, Viewed(r), Turning(r, s, x), x # "UacIdle"
    PROVE  /\ x \in Over => Calmly(r, s)
           /\ x \in IsConnected /\ r.st \in IsConnected => Calmly(r, s)
           /\ x \in Setup /\ r.st \in Setup => Calmly(r, s)
  <1>1. /\ x \in Over => Phase(s) = "over"
        /\ x \in IsConnected /\ r.st \in IsConnected => Phase(s) = Phase(r)
        /\ x \in Setup /\ r.st \in Setup => Phase(s) = Phase(r)
    BY DEF Turning, Phase, Over, IsConnected, Setup, UasEarly
  <1>2. s.q = r.q /\ s.dialog = r.dialog /\ s.st = x
    BY DEF Turning
  <1>3. /\ x \in Over \cup Setup => x \notin IsConnected
    BY DEF Over, IsConnected, Setup, UasEarly
  <1>4. x \in Over \cup Setup \/ r.st \in IsConnected => (Backed(r) => Backed(s))
    BY <1>2, <1>3, Zenon DEF Backed
  <1> QED  BY <1>1, <1>4, Zenon DEF Calmly, Turning

LEMMA EnqueueCalmly ==
    ASSUME NEW r, Viewed(r), NEW e \in Events, IsAnswer(e) => r.st \in IsConnected
    PROVE  Calmly(r, Enqueue(r, e)) /\ Enqueue(r, e).st = r.st
  <1>1. PICK s : s = Enqueue(r, e)  OBVIOUS
  <1>2. /\ s.st = r.st /\ s.dialog = r.dialog /\ s.uac = r.uac
        /\ s.heldConnect = r.heldConnect /\ s.q = Append(r.q, e) /\ DOMAIN s = DOMAIN r
    BY <1>1 DEF Enqueue, Viewed
  <1>3. r.q \in Seq(Events) /\ s.q \in Seq(Events)
    BY <1>2 DEF Viewed
  <1>4. \A i \in DOMAIN s.q : s.q[i] = e \/ (i \in DOMAIN r.q /\ s.q[i] = r.q[i])
    BY <1>2, <1>3
  <1>5. Backed(r) => Backed(s)
    BY <1>2, <1>4, Zenon DEF Backed
  <1>6. Viewed(s) /\ Phase(s) = Phase(r)
    BY <1>2, <1>3 DEF Viewed, Phase
  <1>7. Calmly(r, s)
    BY <1>2, <1>5, <1>6, Zenon DEF Calmly
  <1> QED  BY <1>1, <1>2, <1>7

LEMMA EndsCalmly ==
    \A r, s, x : Viewed(r) /\ Unseen(r, s) /\ x \in Over => Calmly(r, ChangeState(s, x))
  <1> SUFFICES ASSUME NEW r, NEW s, NEW x \in Over, Viewed(r), Unseen(r, s)
               PROVE  Calmly(r, ChangeState(s, x))
    OBVIOUS
  <1>1. Viewed(s) /\ Calmly(r, s)
    BY UnseenCalmly
  <1>2. Turning(s, ChangeState(s, x), x) /\ x # "UacIdle"
    BY <1>1, TurningState DEF Over
  <1>3. Calmly(s, ChangeState(s, x))
    BY <1>1, <1>2, TurningCalmly
  <1> QED  BY <1>1, <1>3, CalmlyTwice

LEMMA PassesCalmly ==
    \A r, s, x : /\ Viewed(r) /\ Unseen(r, s)
                 /\ \/ x \in Setup /\ r.st \in Setup
                    \/ x \in IsConnected /\ r.st \in IsConnected
                 => Calmly(r, ChangeState(s, x))
  <1> SUFFICES ASSUME NEW r, NEW s, NEW x, Viewed(r), Unseen(r, s),
                      \/ x \in Setup /\ r.st \in Setup
                      \/ x \in IsConnected /\ r.st \in IsConnected
               PROVE  Calmly(r, ChangeState(s, x))
    OBVIOUS
  <1>1. Viewed(s) /\ Calmly(r, s) /\ s.st = r.st
    BY UnseenCalmly DEF Unseen
  <1>2. Turning(s, ChangeState(s, x), x) /\ x # "UacIdle"
    BY <1>1, TurningState DEF Setup, UasEarly, IsConnected
  <1>3. Calmly(s, ChangeState(s, x))
    BY <1>1, <1>2, TurningCalmly
  <1> QED  BY <1>1, <1>3, CalmlyTwice

\* The leg stays, ends, or is connected with a dialog.
Advances(r, s) ==
    /\ Viewed(s)
    /\ \/ s.dialog = r.dialog /\ Phase(s) \in {Phase(r), "over"}
       \/ Phase(r) = "setup" /\ Phase(s) = "up" /\ s.dialog
    /\ s.st = "UacIdle" => r.st = "UacIdle"
    /\ Backed(r) => Backed(s) /\ (s.uac # "none" => r.uac # "none" \/ r.dialog)

LEMMA CalmlyAdvances == \A r, s : Calmly(r, s) => Advances(r, s)
  BY DEF Calmly, Advances

\* A 200 OK to the first INVITE.
LEMMA AnswerAdvances ==
    ASSUME NEW r, NEW s, Viewed(r), r.st \in UasEarly, Unseen(r, s), NEW c
    PROVE  /\ Viewed(ReplyOK(s)) /\ ReplyOK(s).st = r.st
           /\ \A t : Unseen(ReplyOK(s), t) => Advances(r, PreConnect(t, c))
  <1>1. Viewed(s)
    BY UnseenCalmly
  <1>2. PICK a : a = Reply(s, TRUE)  OBVIOUS
  <1>3. Viewed(a) /\ Unseen(s, a)
    BY <1>1, <1>2, UnseenHelpers, UnseenCalmly
  <1>4. PICK b : b = ReplyOK(s)  OBVIOUS
  <1>5. Viewed(b) /\ b.dialog = TRUE /\ b.st = r.st /\ b.uac = r.uac
    BY <1>2, <1>3, <1>4 DEF ReplyOK, Viewed, Unseen
  <1>6. ASSUME NEW t, Unseen(b, t) PROVE Advances(r, PreConnect(t, c))
    <2>1. PICK v : v = PreConnect(t, c)  OBVIOUS
    <2>2. Viewed(t)
      BY <1>5, <1>6, UnseenCalmly
    <2>3. Turning(t, v, "PreConnect")
      BY <2>1, <2>2, TurningState
    <2>4. v.dialog = TRUE /\ v.uac = r.uac /\ v.st = "PreConnect" /\ Viewed(v)
      BY <1>5, <1>6, <2>3 DEF Turning, Unseen
    <2>5. Phase(r) = "setup" /\ Phase(v) = "up"
      BY <2>4 DEF Phase, UasEarly, IsConnected, Over
    <2> QED  BY <2>1, <2>4, <2>5 DEF Advances, Backed
  <1> QED  BY <1>4, <1>5, <1>6

LEMMA UasEndCalmly ==
    ASSUME NEW r, Viewed(r), NEW e
    PROVE  Calmly(r, UasEnd(r, e))
  <1>1. PICK a : a = Reply(r, FALSE)  OBVIOUS
  <1>2. Unseen(r, a) /\ Viewed(a)
    BY <1>1, UnseenHelpers, UnseenCalmly
  <1>3. \A X : Unseen(r, CancelTimers(a, X))
    BY <1>2, UnseenHelpers, UnseenTwice
  <1>4. "Disconnected" \in Over /\ "Failed" \in Over
    BY DEF Over
  <1> QED  BY <1>1, <1>3, <1>4, EndsCalmly DEF UasEnd

LEMMA TryingRingCalmly ==
    ASSUME NEW r, Viewed(r), NEW e, r.st \in UasEarly
    PROVE  Calmly(r, UasTrying_Ring(r, e))
  <1>1. PICK s : s = ReplyRinging(r)  OBVIOUS
  <1>2. Unseen(r, s) /\ Viewed(s)
    BY <1>1, UnseenHelpers, UnseenCalmly
  <1>3. PICK a : a = CancelTimers(s, {"np"})  OBVIOUS
  <1>4. Unseen(r, a) /\ Viewed(a)
    BY <1>2, <1>3, UnseenHelpers, UnseenTwice, UnseenCalmly
  <1>5. PICK t : t = IF "np" \in s.tptr THEN StartTimer(a, "ex") ELSE s  OBVIOUS
  <1>6. Unseen(r, t)
    BY <1>2, <1>4, <1>5, UnseenHelpers, UnseenTwice
  <1>7. "UasRinging" \in Setup /\ "UasRingingRel" \in Setup /\ r.st \in Setup
    BY DEF Setup, UasEarly
  <1>8. Calmly(r, ChangeState(t, "UasRinging")) /\ Calmly(r, ChangeState(t, "UasRingingRel"))
    BY <1>6, <1>7, PassesCalmly
  <1>9. PICK v : v = ChangeState(t, "UasRingingRel")  OBVIOUS
  <1>10. PICK w : w = [v EXCEPT !.prack_wait = e.body, !.prack_received = FALSE,
                                !.heldRing = NoEv, !.heldConnect = NoEv, !.heldUpdate = NoEv]
    OBVIOUS
  <1>11. /\ Viewed(w) /\ w.st = v.st /\ w.dialog = v.dialog /\ w.uac = v.uac /\ w.q = v.q
         /\ w.heldConnect = NoEv
    BY <1>8, <1>9, <1>10 DEF Calmly, Viewed
  <1>12. Phase(w) = Phase(v) /\ (Backed(v) <=> Backed(w))
    BY <1>11 DEF Phase, Backed
  <1>13. Calmly(r, w)
    BY <1>8, <1>9, <1>11, <1>12 DEF Calmly
  <1> QED  BY <1>1, <1>3, <1>5, <1>8, <1>9, <1>10, <1>13 DEF UasTrying_Ring

LEMMA TryingCalmly ==
    ASSUME NEW r, Viewed(r), NEW e, r.st \in UasEarly
    PROVE  /\ ~IsAnswer(e) => Calmly(r, UasTrying_RecvEvent(r, e))
           /\ Advances(r, UasTrying_RecvEvent(r, e))
  <1>1. Calmly(r, r)
    BY UnseenHelpers, UnseenCalmly
  <1>2. PICK a : a = CancelTimers(r, {"np"})  OBVIOUS
  <1>3. Advances(r, PreConnect(ReplyOK(a), TRUE))
    <2>1. Unseen(r, a)
      BY <1>2, UnseenHelpers
    <2>2. Viewed(ReplyOK(a)) /\ \A t : Unseen(ReplyOK(a), t) => Advances(r, PreConnect(t, TRUE))
      BY <2>1, AnswerAdvances
    <2> QED  BY <2>2, UnseenHelpers
  <1>4. Advances(r, PreConnect(StartCreditTimer(CancelTimers(ReplyOK(r), {"ex", "np"})), FALSE))
    <2>1. Viewed(ReplyOK(r)) /\ \A t : Unseen(ReplyOK(r), t) => Advances(r, PreConnect(t, FALSE))
      BY UnseenHelpers, AnswerAdvances
    <2>2. PICK b : b = CancelTimers(ReplyOK(r), {"ex", "np"})  OBVIOUS
    <2>3. Unseen(ReplyOK(r), b) /\ Viewed(b)
      BY <2>1, <2>2, UnseenHelpers, UnseenCalmly
    <2>4. Unseen(ReplyOK(r), StartCreditTimer(b))
      BY <2>3, UnseenStarts, UnseenTwice
    <2> QED  BY <2>1, <2>2, <2>4
  <1>5. CASE ~IsAnswer(e)
    BY <1>1, <1>5, UasEndCalmly, TryingRingCalmly, CalmlyAdvances DEF UasTrying_RecvEvent, IsAnswer
  <1>6. CASE IsAnswer(e)
    BY <1>2, <1>3, <1>4, <1>6 DEF UasTrying_RecvEvent, IsAnswer, Ends
  <1> QED  BY <1>5, <1>6

LEMMA RingingCalmly ==
    ASSUME NEW r, Viewed(r), NEW e, r.st \in UasEarly
    PROVE  /\ ~IsAnswer(e) => Calmly(r, UasRinging_RecvEvent(r, e))
           /\ Advances(r, UasRinging_RecvEvent(r, e))
  <1>1. Calmly(r, r) /\ Calmly(r, ReplyRinging(r))
    BY UnseenHelpers, UnseenCalmly
  <1>2. /\ Viewed(ReplyOK(r))
        /\ \A c : \A t : Unseen(ReplyOK(r), t) => Advances(r, PreConnect(t, c))
    BY UnseenHelpers, AnswerAdvances
  <1>3. Advances(r, PreConnect(ReplyOK(r), TRUE))
    BY <1>2, UnseenHelpers
  <1>4. Advances(r, PreConnect(StartCreditTimer(CancelTimers(ReplyOK(r), {"ex"})), FALSE))
    <2>2. PICK b : b = CancelTimers(ReplyOK(r), {"ex"})  OBVIOUS
    <2>3. Unseen(ReplyOK(r), b) /\ Viewed(b)
      BY <1>2, <2>2, UnseenHelpers, UnseenCalmly
    <2>4. Unseen(ReplyOK(r), StartCreditTimer(b))
      BY <2>3, UnseenStarts, UnseenTwice
    <2> QED  BY <1>2, <2>2, <2>4
  <1>5. CASE ~IsAnswer(e)
    BY <1>1, <1>5, UasEndCalmly, CalmlyAdvances DEF UasRinging_RecvEvent, IsAnswer
  <1>6. CASE IsAnswer(e)
    BY <1>3, <1>4, <1>6 DEF UasRinging_RecvEvent, IsAnswer, Ends
  <1> QED  BY <1>5, <1>6

LEMMA AdvancesAfter ==
    \A r, s, t : Unseen(r, s) /\ Advances(s, t) => Advances(r, t)
  <1> SUFFICES ASSUME NEW r, NEW s, NEW t, Unseen(r, s), Advances(s, t)
               PROVE  Advances(r, t)
    OBVIOUS
  <1>1. Phase(s) = Phase(r) /\ (Backed(r) <=> Backed(s))
    BY DEF Unseen, Phase, Backed
  <1> QED  BY <1>1 DEF Advances, Unseen

\* What a UasStateRingingRel keeps of an event.
LEMMA KeepsCalmly ==
    ASSUME NEW r, Viewed(r), NEW e
    PROVE  /\ Unseen(r, [r EXCEPT !.heldRing = e])
           /\ Unseen(r, [r EXCEPT !.heldUpdate = e])
           /\ Unseen(r, [r EXCEPT !.pendUpdate = e])
           /\ \A b : Unseen(r, [r EXCEPT !.prack_wait = b, !.prack_received = FALSE])
           /\ Advances(r, [r EXCEPT !.heldConnect = e])
  <1>1. /\ Unseen(r, [r EXCEPT !.heldRing = e])
        /\ Unseen(r, [r EXCEPT !.heldUpdate = e])
        /\ Unseen(r, [r EXCEPT !.pendUpdate = e])
        /\ \A b : Unseen(r, [r EXCEPT !.prack_wait = b, !.prack_received = FALSE])
    BY DEF Unseen, Viewed
  <1>2. PICK s : s = [r EXCEPT !.heldConnect = e]  OBVIOUS
  <1>3. s.st = r.st /\ s.q = r.q /\ s.dialog = r.dialog /\ s.uac = r.uac /\ Viewed(s)
    BY <1>2 DEF Viewed
  <1>4. Phase(s) = Phase(r) /\ (Backed(r) <=> Backed(s))
    BY <1>3 DEF Phase, Backed
  <1>5. Advances(r, s)
    BY <1>3, <1>4 DEF Advances
  <1> QED  BY <1>1, <1>2, <1>5

LEMMA RingingRelCalmly ==
    ASSUME NEW r, Viewed(r), NEW e, r.st \in UasEarly
    PROVE  /\ ~IsAnswer(e) => Calmly(r, UasRingingRel_RecvEvent(r, e))
           /\ Advances(r, UasRingingRel_RecvEvent(r, e))
  <1>1. PICK s : s = [r EXCEPT !.prack_wait = e.body, !.prack_received = FALSE]  OBVIOUS
  <1>2. Unseen(r, s) /\ Viewed(s) /\ s.st = r.st /\ Calmly(r, s)
    BY <1>1, KeepsCalmly, UnseenCalmly DEF Unseen
  <1>3. /\ ~IsAnswer(e) => Calmly(r, UasRinging_RecvEvent(s, e))
        /\ Advances(r, UasRinging_RecvEvent(s, e))
    BY <1>2, RingingCalmly, CalmlyTwice, AdvancesAfter
  <1>4. Calmly(r, r) /\ Calmly(r, [r EXCEPT !.heldRing = e]) /\ Calmly(r, [r EXCEPT !.heldUpdate = e])
    BY KeepsCalmly, UnseenHelpers, UnseenCalmly
  <1>5. CASE ~IsAnswer(e)
    BY <1>1, <1>3, <1>4, <1>5, RingingCalmly, CalmlyAdvances DEF UasRingingRel_RecvEvent, IsAnswer
  <1>6. CASE IsAnswer(e)
    BY <1>6, RingingCalmly, KeepsCalmly DEF UasRingingRel_RecvEvent, IsAnswer
  <1> QED  BY <1>5, <1>6

LEMMA HangupCalmly ==
    ASSUME NEW r, Viewed(r)
    PROVE  /\ \A e, X : Calmly(r, ChangeState(CancelTimers(Hangup(r, e), X), "Disconnected"))
           /\ \A X : Calmly(r, ChangeState(CancelTimers(SendBYE(r), X), "Disconnected"))
           /\ \A X : Calmly(r, ChangeState(CancelTimers(UacCancel(r), X), "Cancelling"))
           /\ \A X : Calmly(r, ChangeState(CancelTimers(SendBYE(Reply(r, FALSE)), X), "Disconnected"))
  <1>1. "Disconnected" \in Over /\ "Cancelling" \in Over
    BY DEF Over
  <1>2. \A s : Unseen(r, s) => Viewed(s) /\ \A X : Unseen(r, CancelTimers(s, X))
    BY UnseenCalmly, UnseenHelpers, UnseenTwice
  <1>3. /\ \A e : Unseen(r, Hangup(r, e))
        /\ Unseen(r, SendBYE(r)) /\ Unseen(r, UacCancel(r)) /\ Unseen(r, Reply(r, FALSE))
    BY UnseenHelpers
  <1>4. Unseen(r, SendBYE(Reply(r, FALSE)))
    <2>1. PICK a : a = Reply(r, FALSE)  OBVIOUS
    <2> QED  BY <1>2, <1>3, <2>1, UnseenHelpers, UnseenTwice
  <1> QED  BY <1>1, <1>2, <1>3, <1>4, EndsCalmly

LEMMA PreConnectPasses ==
    \A r, s, c : Viewed(r) /\ Unseen(r, s) /\ r.st \in IsConnected => Calmly(r, PreConnect(s, c))
  <1> SUFFICES ASSUME NEW r, NEW s, NEW c, Viewed(r), Unseen(r, s), r.st \in IsConnected
               PROVE  Calmly(r, PreConnect(s, c))
    OBVIOUS
  <1>1. Viewed(s) /\ Calmly(r, s) /\ s.st = r.st
    BY UnseenCalmly DEF Unseen
  <1>2. Turning(s, PreConnect(s, c), "PreConnect")
    BY <1>1, TurningState
  <1>3. Calmly(s, PreConnect(s, c))
    BY <1>1, <1>2, TurningCalmly DEF IsConnected
  <1> QED  BY <1>1, <1>3, CalmlyTwice

LEMMA UpCalmly ==
    ASSUME NEW r, Viewed(r), NEW e \in Events, NEW way
    PROVE  /\ Calmly(r, PreConnect_RecvEvent(r, e))
           /\ r.st = "UasUpdating" => Calmly(r, UasUpdating_RecvEvent(r, e))
           /\ r.st = "Connected" => Calmly(r, Connected_RecvEvent(r, e, way))
           /\ Calmly(r, UacUpdating_RecvEvent(r, e))
  <1>1. Calmly(r, r) /\ Calmly(r, [r EXCEPT !.pendUpdate = e])
    BY KeepsCalmly, UnseenHelpers, UnseenCalmly
  <1>2. Calmly(r, PreConnect_RecvEvent(r, e))
    BY <1>1, HangupCalmly DEF PreConnect_RecvEvent
  <1>3. ASSUME r.st = "UasUpdating" PROVE Calmly(r, UasUpdating_RecvEvent(r, e))
    <2>1. Unseen(r, Reply(r, TRUE)) /\ r.st \in IsConnected
      BY <1>3, UnseenHelpers DEF IsConnected
    <2>2. \A c : Calmly(r, PreConnect(Reply(r, TRUE), c))
      BY <2>1, PreConnectPasses
    <2> QED  BY <1>1, <2>2, HangupCalmly DEF UasUpdating_RecvEvent
  <1>4. ASSUME r.st = "Connected" PROVE Calmly(r, Connected_RecvEvent(r, e, way))
    <2>1. Calmly(r, Connected_Connect(r))
      <3>1. PICK a : a = CancelTimers(r, {"ex", "cr"})  OBVIOUS
      <3>2. PICK b : b = StartCreditTimer(a)  OBVIOUS
      <3>3. Unseen(r, b) /\ Viewed(b)
        BY <3>1, <3>2, UnseenHelpers, UnseenStarts, UnseenTwice, UnseenCalmly
      <3>4. Unseen(b, [b EXCEPT !.pending_tr = FALSE])
        BY <3>3 DEF Unseen, Viewed
      <3>5. Calmly(r, [b EXCEPT !.pending_tr = FALSE])
        BY <3>3, <3>4, UnseenTwice, UnseenCalmly
      <3> QED  BY <1>1, <3>1, <3>2, <3>5 DEF Connected_Connect
    <2>2. Calmly(r, Connected_Update(r, e, way))
      <3> DEFINE n == [r EXCEPT !.late_media = @ \/ ~e.body]
      <3>1. CASE way = "known" /\ e.body
        <4>1. EvBody("Connect", TRUE) \in Events /\ r.st \in IsConnected
          BY <1>4, EventTypes DEF EventKinds, IsConnected
        <4> QED  BY <3>1, <4>1, EnqueueCalmly DEF Connected_Update
      <3>3. CASE way = "hops"
        <4>1. PICK b : b = n  OBVIOUS
        <4>2. Ev("Fail") \in Events /\ ~IsAnswer(Ev("Fail"))
          BY EventTypes DEF EventKinds, IsAnswer, Ev
        <4>3. Unseen(r, b)
          BY <4>1 DEF Unseen, Viewed
        <4>4. Viewed(b) /\ Calmly(r, b)
          BY <4>3, UnseenCalmly
        <4>5. Calmly(b, Enqueue(b, Ev("Fail")))
          BY <4>2, <4>4, EnqueueCalmly
        <4> QED  BY <3>3, <4>1, <4>4, <4>5, CalmlyTwice DEF Connected_Update
      <3>2. CASE ~(way = "known" /\ e.body) /\ way # "hops"
        <4>1. PICK a : a = [n EXCEPT !.uac = "calling", !.auth = FALSE]  OBVIOUS
        <4>2. /\ Viewed(a) /\ a.st = r.st /\ a.q = r.q /\ a.dialog = r.dialog
              /\ a.heldConnect = r.heldConnect
          BY <4>1 DEF Viewed
        <4>3. (Backed(r) <=> Backed(a)) /\ (Backed(r) => r.dialog) /\ Phase(a) = Phase(r)
          BY <1>4, <4>2 DEF Backed, Phase, IsConnected
        <4>4. Calmly(r, a)
          BY <4>2, <4>3 DEF Calmly
        <4>5. "UacUpdating" \in IsConnected /\ a.st \in IsConnected
          BY <1>4, <4>2 DEF IsConnected
        <4>6. Calmly(a, ChangeState(a, "UacUpdating"))
          BY <4>2, <4>5, PassesCalmly, UnseenHelpers
        <4> QED  BY <3>2, <4>1, <4>4, <4>6, CalmlyTwice DEF Connected_Update
      <3> QED  BY <3>1, <3>2, <3>3
    <2> QED  BY <1>1, <2>1, <2>2, HangupCalmly DEF Connected_RecvEvent
  <1>5. Calmly(r, UacUpdating_RecvEvent(r, e))
    BY <1>1, HangupCalmly DEF UacUpdating_RecvEvent
  <1> QED  BY <1>2, <1>3, <1>4, <1>5

LEMMA SetupCalmly ==
    ASSUME NEW r, Viewed(r), NEW e, e.k # "Try"
    PROVE  /\ Calmly(r, UacTrying_RecvEvent(r, e))
           /\ Calmly(r, UacRinging_RecvEvent(r, e))
           /\ Calmly(r, UacIdle_RecvEvent(r, e))
  <1>1. Calmly(r, r) /\ Calmly(r, ChangeState(r, "Disconnected"))
    BY UnseenHelpers, UnseenCalmly, EndsCalmly DEF Over
  <1> QED  BY <1>1, HangupCalmly DEF UacTrying_RecvEvent, UacRinging_RecvEvent, UacIdle_RecvEvent

LEMMA StartCalmly ==
    ASSUME NEW r, Viewed(r), NEW e, r.st = "None", e.k \in Ends
    PROVE  Calmly(r, UacIdle_RecvEvent([r EXCEPT !.st = "UacIdle"], e))
  <1>1. PICK a : a = [r EXCEPT !.st = "UacIdle"]  OBVIOUS
  <1>2. /\ Viewed(a) /\ a.q = r.q /\ a.dialog = r.dialog /\ a.uac = r.uac
        /\ a.heldConnect = r.heldConnect
    BY <1>1 DEF Viewed
  <1>3. PICK s : s = ChangeState(a, "Disconnected")  OBVIOUS
  <1>4. Turning(a, s, "Disconnected")
    BY <1>2, <1>3, TurningState
  <1>5. Phase(s) = "over" /\ s.st \notin IsConnected
    BY <1>4 DEF Turning, Phase, Over, IsConnected, UasEarly
  <1>6. Backed(r) => Backed(s)
    BY <1>2, <1>4, <1>5 DEF Turning, Backed
  <1>7. Calmly(r, s)
    BY <1>2, <1>4, <1>5, <1>6 DEF Calmly, Turning
  <1> QED  BY <1>1, <1>3, <1>7 DEF UacIdle_RecvEvent, Ends

\* An event of the other leg.
LEMMA EventAdvances ==
    ASSUME NEW r, Viewed(r), NEW e \in Events, e.k # "Try", NEW way
    PROVE  /\ ~IsAnswer(e) => Calmly(r, RecvEvent(r, e, way))
           /\ Advances(r, RecvEvent(r, e, way))
  <1> DEFINE v == RecvEvent(r, e, way)
  <1>1. Calmly(r, r)
    BY UnseenHelpers, UnseenCalmly
  <1>2. CASE r.st \in UasEarly
    <2>1. v \in {UasTrying_RecvEvent(r, e), UasRinging_RecvEvent(r, e), UasRingingRel_RecvEvent(r, e)}
      BY <1>2 DEF RecvEvent, UasEarly
    <2> QED  BY <1>2, <2>1, TryingCalmly, RingingCalmly, RingingRelCalmly
  <1>3. CASE r.st \notin UasEarly
    <2>1. ASSUME r.st = "None" PROVE Calmly(r, v)
      <3>1. v = IF e.k \in {"Fail", "Disconnect"} THEN UacIdle_RecvEvent([r EXCEPT !.st = "UacIdle"], e) ELSE r
        BY <2>1 DEF RecvEvent
      <3> HIDE DEF v
      <3> QED  BY <1>1, <2>1, <3>1, StartCalmly DEF Ends
    <2>2. ASSUME r.st # "None" PROVE Calmly(r, v)
      <3>1. v \in {r, UacIdle_RecvEvent(r, e), UacTrying_RecvEvent(r, e), UacRinging_RecvEvent(r, e),
                   UacUpdating_RecvEvent(r, e), PreConnect_RecvEvent(r, e)}
            \/ (r.st = "UasUpdating" /\ v = UasUpdating_RecvEvent(r, e))
            \/ (r.st = "Connected" /\ v = Connected_RecvEvent(r, e, way))
        BY <1>3, <2>2 DEF RecvEvent, UasEarly
      <3> HIDE DEF v
      <3> QED  BY <1>1, <3>1, SetupCalmly, UpCalmly
    <2>3. Calmly(r, v)
      BY <2>1, <2>2
    <2> QED  BY <2>3, CalmlyAdvances
  <1> QED  BY <1>2, <1>3

LEMMA DisconnectCalmly == \A r : Viewed(r) => Calmly(r, Disconnect(r))
  <1> SUFFICES ASSUME NEW r, Viewed(r) PROVE Calmly(r, Disconnect(r))
    OBVIOUS
  <1>1. Ev("Disconnect") \in Events /\ Ev("Disconnect").k = "Disconnect"
    BY EventTypes DEF EventKinds, Ev
  <1>2. PICK e : e = Ev("Disconnect")  OBVIOUS
  <1>3. e \in Events /\ e.k = "Disconnect" /\ ~IsAnswer(e)
    BY <1>1, <1>2 DEF IsAnswer
  <1>4. PICK s : s = Enqueue(r, e)  OBVIOUS
  <1>5. Calmly(r, s) /\ Viewed(s)
    BY <1>3, <1>4, EnqueueCalmly DEF Calmly
  <1>6. Calmly(s, RecvEvent(s, e, "sent"))
    BY <1>3, <1>5, EventAdvances
  <1>7. Calmly(r, r)
    BY UnseenHelpers, UnseenCalmly
  <1> QED  BY <1>2, <1>4, <1>5, <1>6, <1>7, CalmlyTwice DEF Disconnect

LEMMA CalmlyEnds ==
    \A r, s, x : Calmly(r, s) /\ x \in Over => Calmly(r, ChangeState(s, x))
  <1> SUFFICES ASSUME NEW r, NEW s, NEW x \in Over, Calmly(r, s)
               PROVE  Calmly(r, ChangeState(s, x))
    OBVIOUS
  <1>1. Viewed(s)
    BY DEF Calmly
  <1>2. Calmly(s, ChangeState(s, x))
    BY <1>1, EndsCalmly, UnseenHelpers
  <1> QED  BY <1>2, CalmlyTwice

LEMMA CalmlyThen ==
    \A r, s, t : Calmly(r, s) /\ Unseen(s, t) => Calmly(r, t)
  <1> SUFFICES ASSUME NEW r, NEW s, NEW t, Calmly(r, s), Unseen(s, t) PROVE Calmly(r, t)
    OBVIOUS
  <1>1. Viewed(s)
    BY DEF Calmly
  <1> QED  BY <1>1, UnseenCalmly, CalmlyTwice

-----------------------------------------------------------------------------
(* Requests of the peer, and timers.                                        *)
LEMMA EndedByPeerCalmly ==
    ASSUME NEW r, Viewed(r), NEW e \in Events, ~IsAnswer(e)
    PROVE  Calmly(r, EndedByPeer(r, e))
  <1>1. PICK a : a = Enqueue(r, e)  OBVIOUS
  <1>2. Calmly(r, a) /\ Viewed(a)
    BY <1>1, EnqueueCalmly DEF Calmly
  <1>3. PICK b : b = CancelTimers(a, {IF r.st \in UasEarly THEN "ex" ELSE "cr"})  OBVIOUS
  <1>4. Unseen(a, b) /\ Viewed(b)
    BY <1>2, <1>3, UnseenHelpers, UnseenCalmly
  <1>5. PICK c : c = [b EXCEPT !.bye = TRUE, !.early_bye = r.uas = "early"]  OBVIOUS
  <1>6. Unseen(b, c)
    BY <1>4, <1>5 DEF Unseen, Viewed
  <1>7. Calmly(r, c)
    BY <1>2, <1>4, <1>6, UnseenTwice, CalmlyThen
  <1>8. Calmly(r, ChangeState(c, "Disconnected"))
    BY <1>7, CalmlyEnds DEF Over
  <1>9. EndedByPeer(r, e) = ChangeState(c, "Disconnected")
    BY <1>1, <1>3, <1>5, Zenon DEF EndedByPeer
  <1> QED  BY <1>8, <1>9

LEMMA RequestsCalmly ==
    ASSUME NEW r, Viewed(r), NEW also \in BOOLEAN, NEW body \in BOOLEAN, NEW same \in BOOLEAN
    PROVE  /\ Calmly(r, RecvBYE(r, also))
           /\ Calmly(r, RecvREFER(r))
           /\ Calmly(r, RecvINFO(r))
           /\ Calmly(r, RecvReINVITE(r, body, same))
  <1>1. /\ Calmly(r, r)
        /\ \A e \in Events : ~IsAnswer(e) => Calmly(r, EndedByPeer(r, e))
    BY UnseenHelpers, UnseenCalmly, EndedByPeerCalmly
  <1>2. /\ Ev("Disconnect") \in Events /\ ~IsAnswer(Ev("Disconnect"))
        /\ Transfer \in Events /\ ~IsAnswer(Transfer)
        /\ EvBody("Info", FALSE) \in Events /\ ~IsAnswer(EvBody("Info", FALSE))
        /\ EvBody("Update", body) \in Events /\ ~IsAnswer(EvBody("Update", body))
        /\ Ev("Disconnect").k # "Try"
    BY EventTypes DEF EventKinds, Ev, EvBody, Transfer, IsAnswer
  <1>3. Calmly(r, RecvBYE(r, also))
    <2>1. PICK e : e = IF also THEN Transfer ELSE Ev("Disconnect")  OBVIOUS
    <2>2. e \in Events /\ ~IsAnswer(e)
      BY <1>2, <2>1
    <2>3. Calmly(r, [r EXCEPT !.bye = TRUE])
      BY UnseenCalmly DEF Unseen, Viewed
    <2> QED  BY <1>1, <1>2, <2>1, <2>2, <2>3 DEF RecvBYE
  <1>4. Calmly(r, RecvREFER(r))
    <2>1. PICK a : a = Enqueue(r, Transfer)  OBVIOUS
    <2>2. Calmly(r, a) /\ Viewed(a)
      BY <1>2, <2>1, EnqueueCalmly DEF Calmly
    <2>3. Calmly(r, RecvEvent(a, Ev("Disconnect"), "sent"))
      BY <1>2, <2>2, EventAdvances, CalmlyTwice
    <2> QED  BY <1>1, <1>2, <2>1, <2>3 DEF RecvREFER
  <1>5. Calmly(r, RecvINFO(r))
    BY <1>1, <1>2, EnqueueCalmly DEF RecvINFO
  <1>6. Calmly(r, RecvReINVITE(r, body, same))
    <2>1. PICK a : a = [r EXCEPT !.uas = "early", !.ackw = FALSE]  OBVIOUS
    <2>2. Unseen(r, a) /\ Viewed(a) /\ Calmly(r, a)
      BY <2>1, UnseenCalmly DEF Unseen, Viewed
    <2>3. PICK b : b = Enqueue(a, EvBody("Update", body))  OBVIOUS
    <2>4. Calmly(a, b) /\ b.st = r.st /\ Viewed(b)
      BY <1>2, <2>2, <2>3, EnqueueCalmly DEF Calmly, Unseen
    <2>5. r.st = "Connected" => Calmly(b, ChangeState(b, "UasUpdating"))
      BY <2>4, PassesCalmly, UnseenHelpers DEF IsConnected
    <2>6. r.st = "Connected" => Calmly(r, ChangeState(b, "UasUpdating"))
      BY <2>2, <2>4, <2>5, CalmlyTwice
    <2> QED  BY <1>1, <2>1, <2>3, <2>6 DEF RecvReINVITE
  <1> QED  BY <1>3, <1>4, <1>5, <1>6

LEMMA CancelCalmly ==
    ASSUME NEW r, Viewed(r)
    PROVE  Calmly(r, RecvCancel(r))
  <1>1. PICK s : s = [r EXCEPT !.uas = "completed", !.ackw = FALSE]  OBVIOUS
  <1>2. Calmly(r, s) /\ Viewed(s)
    BY <1>1, UnseenCalmly DEF Unseen, Viewed
  <1>3. PICK t : t = IF r.gone THEN s ELSE Enqueue(s, Ev("Disconnect"))  OBVIOUS
  <1>4. Ev("Disconnect") \in Events /\ ~IsAnswer(Ev("Disconnect"))
    BY EventTypes DEF EventKinds, Ev, IsAnswer
  <1>5. Calmly(s, t) /\ Viewed(t)
    <2>1. Calmly(s, Enqueue(s, Ev("Disconnect"))) /\ Calmly(s, s)
      BY <1>2, <1>4, EnqueueCalmly, UnseenHelpers, UnseenCalmly
    <2> QED  BY <1>3, <2>1 DEF Calmly
  <1>6. /\ Calmly(r, ChangeState(t, "Disconnected"))
        /\ Calmly(r, ChangeState(CancelTimers(SendBYE(t), {"cr"}), "Disconnected"))
    BY <1>2, <1>5, CalmlyTwice, CalmlyEnds, HangupCalmly DEF Over
  <1> QED  BY <1>1, <1>2, <1>3, <1>6 DEF RecvCancel

LEMMA ACKCalmly ==
    ASSUME NEW r, Viewed(r), NEW body \in BOOLEAN
    PROVE  Calmly(r, RecvACK(r, body))
  <1>1. PICK s : s = [r EXCEPT !.uas = "closed"]  OBVIOUS
  <1>2. Calmly(r, s) /\ Viewed(s) /\ s.st = r.st
    BY <1>1, UnseenCalmly DEF Unseen, Viewed
  <1>3. PICK a : a = StartCreditTimer(CancelTimers(s, {"ex", "cr"}))  OBVIOUS
  <1>4. Unseen(s, a) /\ Viewed(a)
    <2>1. PICK b : b = CancelTimers(s, {"ex", "cr"})  OBVIOUS
    <2>2. Unseen(s, b) /\ Viewed(b)
      BY <1>2, <2>1, UnseenHelpers, UnseenCalmly
    <2> QED  BY <1>2, <1>3, <2>1, <2>2, UnseenStarts, UnseenTwice, UnseenCalmly
  <1>5. PICK c : c = IF r.confirm THEN Enqueue(a, EvBody("Connect", body)) ELSE s  OBVIOUS
  <1>6. CASE r.ackw /\ r.st = "PreConnect"
    <2>1. EvBody("Connect", body) \in Events /\ a.st \in IsConnected
      BY <1>2, <1>4, <1>6, EventTypes DEF EventKinds, Unseen, IsConnected
    <2>2. Calmly(a, Enqueue(a, EvBody("Connect", body))) /\ Enqueue(a, EvBody("Connect", body)).st = a.st
      BY <1>4, <2>1, EnqueueCalmly
    <2>3. Calmly(r, Enqueue(a, EvBody("Connect", body)))
      BY <1>2, <1>4, <2>2, CalmlyTwice, CalmlyThen
    <2>4. Calmly(r, c) /\ c.st = "PreConnect" /\ Viewed(c)
      BY <1>2, <1>4, <1>5, <1>6, <2>2, <2>3 DEF Unseen, Calmly
    <2>5. Calmly(c, ChangeState(c, "Connected"))
      BY <2>4, PassesCalmly, UnseenHelpers DEF IsConnected
    <2>6. RecvACK(r, body) = ChangeState(c, "Connected")
      BY <1>1, <1>3, <1>5, <1>6 DEF RecvACK
    <2> QED  BY <2>4, <2>5, <2>6, CalmlyTwice
  <1>7. CASE ~(r.ackw /\ r.st = "PreConnect")
    BY <1>1, <1>2, <1>7 DEF RecvACK
  <1> QED  BY <1>6, <1>7

\* The PRACK lets the answer go that waited for it.
LEMMA PRACKAdvances ==
    ASSUME NEW r, Viewed(r), Held(r)
    PROVE  /\ r.heldConnect = NoEv => Calmly(r, RecvPRACK(r))
           /\ Advances(r, RecvPRACK(r))
  <1>1. PICK s : s = [r EXCEPT !.prov = FALSE, !.prack_received = TRUE]  OBVIOUS
  <1>2. Unseen(r, s) /\ Viewed(s) /\ s.st = r.st /\ Calmly(r, s) /\ Calmly(s, s)
    <2>1. Unseen(r, s) /\ s.st = r.st
      BY <1>1 DEF Unseen, Viewed
    <2> QED  BY <2>1, UnseenHelpers, UnseenCalmly
  <1>3. PICK t : t = CASE r.heldConnect # NoEv -> UasRingingRel_RecvEvent(s, r.heldConnect)
                       [] r.heldConnect = NoEv /\ r.heldRing # NoEv ->
                            UasRingingRel_RecvEvent(s, r.heldRing)
                       [] OTHER -> s
    OBVIOUS
  <1>4. PICK v : v = [t EXCEPT !.heldRing = NoEv, !.heldConnect = NoEv, !.heldUpdate = NoEv]
    OBVIOUS
  <1>5. CASE r.st = "UasRingingRel"
    <2>1. /\ r.heldConnect = NoEv => Calmly(s, t)
          /\ Advances(s, t)
      <3>1. s.st \in UasEarly
        BY <1>2, <1>5 DEF UasEarly
      <3>2. r.heldRing # NoEv => ~IsAnswer(r.heldRing)
        BY DEF Held, IsAnswer
      <3> QED  BY <1>2, <1>3, <3>1, <3>2, RingingRelCalmly, CalmlyAdvances
    <2>2. /\ v.st = t.st /\ v.q = t.q /\ v.dialog = t.dialog /\ v.uac = t.uac /\ v.heldConnect = NoEv
          /\ Viewed(v)
      BY <1>4, <2>1 DEF Advances, Viewed
    <2>3. Phase(v) = Phase(t) /\ (Backed(v) <=> Backed(t))
      BY <2>2 DEF Phase, Backed
    <2>4. r.heldConnect = NoEv => Calmly(s, v)
      BY <2>1, <2>2, <2>3 DEF Calmly
    <2>5. Advances(s, v)
      BY <2>1, <2>2, <2>3 DEF Advances
    <2>6. RecvPRACK(r) = v
      BY <1>1, <1>3, <1>4, <1>5 DEF RecvPRACK
    <2> QED  BY <1>2, <2>4, <2>5, <2>6, CalmlyTwice, AdvancesAfter
  <1>6. CASE r.st # "UasRingingRel"
    <2>1. Calmly(r, [r EXCEPT !.prov = FALSE])
      BY UnseenCalmly DEF Unseen, Viewed
    <2> QED  BY <1>6, <2>1, CalmlyAdvances DEF RecvPRACK
  <1> QED  BY <1>5, <1>6

LEMMA TimersCalmly ==
    ASSUME NEW r, Viewed(r)
    PROVE  /\ Calmly(r, Disconnect([r EXCEPT !.uas = "closed"]))
           /\ Calmly(r, [r EXCEPT !.prov = FALSE])
           /\ Calmly(r, Disconnect([r EXCEPT !.prov = FALSE]))
           /\ Calmly(r, ReferAnswered(r))
           /\ \A x : Calmly(r, [r EXCEPT !.arm = @ \ {x}, !.pop = @ \cup {x}])
           /\ \A x : Calmly(r, Expired(r, x))
           /\ \A b : Calmly(r, [r EXCEPT !.cancelCB = b])
  <1>1. /\ Unseen(r, [r EXCEPT !.uas = "closed"]) /\ Unseen(r, [r EXCEPT !.prov = FALSE])
        /\ \A x : Unseen(r, [r EXCEPT !.arm = @ \ {x}, !.pop = @ \cup {x}])
        /\ \A x : Unseen(r, [r EXCEPT !.pop = @ \ {x}, !.tptr = @ \ {x}])
        /\ \A b : Unseen(r, [r EXCEPT !.cancelCB = b])
    BY DEF Unseen, Viewed
  <1>2. \A s : Unseen(r, s) => Calmly(r, s) /\ Calmly(r, Disconnect(s))
    BY UnseenCalmly, DisconnectCalmly, CalmlyTwice
  <1>3. Calmly(r, ReferAnswered(r))
    <2>1. PICK a : a = SendBYE(r)  OBVIOUS
    <2>2. Unseen(r, a) /\ Viewed(a)
      BY <2>1, UnseenHelpers, UnseenCalmly
    <2>3. Unseen(a, [a EXCEPT !.refer = "done"])
      BY <2>2 DEF Unseen, Viewed
    <2> QED  BY <1>2, <2>1, <2>2, <2>3, UnseenTwice DEF ReferAnswered
  <1>4. ASSUME NEW x PROVE Calmly(r, Expired(r, x))
    <2>1. PICK s : s = [r EXCEPT !.pop = @ \ {x}, !.tptr = @ \ {x}]  OBVIOUS
    <2>2. Unseen(r, s)
      BY <1>1, <2>1
    <2>3. Calmly(r, ChangeState(s, "Dead")) /\ Calmly(r, Disconnect(s))
      BY <1>2, <2>2, EndsCalmly DEF Over
    <2> QED  BY <2>1, <2>3 DEF Expired
  <1> QED  BY <1>1, <1>2, <1>3, <1>4

-----------------------------------------------------------------------------
(* Responses.                                                               *)
LEMMA UacTimersUnseen ==
    ASSUME NEW r, Viewed(r), NEW code
    PROVE  Unseen(r, UacTimers(r, code))
  <1>1. PICK a : a = CancelTimers(r, {"nr"})  OBVIOUS
  <1>2. Unseen(r, a) /\ Viewed(a) /\ Unseen(r, r)
    BY <1>1, UnseenHelpers, UnseenCalmly
  <1>3. PICK s : s = IF "nr" \in r.tptr
                     THEN CASE code = "100" -> StartFirst(a, <<"np", "ex">>)
                            [] code = "1xx" -> StartTimer(a, "ex")
                            [] OTHER        -> a
                     ELSE r
    OBVIOUS
  <1>4. Unseen(r, s) /\ Viewed(s)
    BY <1>2, <1>3, UnseenHelpers, UnseenStarts, UnseenTwice, UnseenCalmly
  <1>5. PICK b : b = CancelTimers(s, {"np"})  OBVIOUS
  <1>6. Unseen(r, b) /\ Unseen(r, StartTimer(b, "ex"))
    BY <1>4, <1>5, UnseenHelpers, UnseenTwice, UnseenCalmly
  <1>7. UacTimers(r, code) \in {StartTimer(b, "ex"), b, s}
    BY <1>1, <1>3, <1>5 DEF UacTimers
  <1> QED  BY <1>4, <1>6, <1>7

\* An event on its own, also one that says that the leg is connected.
LEMMA EnqueueViewed ==
    ASSUME NEW r, Viewed(r), NEW e \in Events
    PROVE  LET s == Enqueue(r, e)
           IN  Viewed(s) /\ s.st = r.st /\ s.dialog = r.dialog /\ s.uac = r.uac
  BY DEF Enqueue, Viewed

LEMMA AnsweredView ==
    ASSUME NEW r, Viewed(r), NEW m \in Responses
    PROVE  LET s == Answered(r, m)
           IN  /\ Viewed(s) /\ s.st = r.st /\ s.dialog = r.dialog /\ s.uac = r.uac
               /\ r.st \in IsConnected => Calmly(r, s)
  <1>1. PICK a : a = [r EXCEPT !.pending_tr = TRUE]  OBVIOUS
  <1>2. Unseen(r, a) /\ a.st = r.st /\ a.dialog = r.dialog /\ a.uac = r.uac
    BY <1>1 DEF Unseen, Viewed
  <1>3. Viewed(a) /\ Calmly(r, a)
    BY <1>2, UnseenCalmly
  <1>4. EvBody("PreConnect", TRUE) \in Events /\ EvBody("Connect", m.body) \in Events
    BY EventTypes DEF EventKinds, Responses
  <1>5. PICK s : s = Answered(r, m)  OBVIOUS
  <1>6. s \in {Enqueue(a, EvBody("PreConnect", TRUE)), Enqueue(r, EvBody("Connect", m.body))}
    BY <1>1, <1>5 DEF Answered
  <1>7. Viewed(s) /\ s.st = r.st /\ s.dialog = r.dialog /\ s.uac = r.uac
    BY <1>2, <1>3, <1>4, <1>6, EnqueueViewed
  <1>8. ASSUME r.st \in IsConnected PROVE Calmly(r, s)
    <2>1. Calmly(a, Enqueue(a, EvBody("PreConnect", TRUE)))
      BY <1>2, <1>3, <1>4, <1>8, EnqueueCalmly
    <2>2. Calmly(r, Enqueue(r, EvBody("Connect", m.body)))
      BY <1>4, <1>8, EnqueueCalmly
    <2>3. Calmly(r, Enqueue(a, EvBody("PreConnect", TRUE)))
      BY <1>3, <2>1, CalmlyTwice
    <2> QED  BY <1>6, <2>2, <2>3
  <1> QED  BY <1>5, <1>7, <1>8

\* A 2xx with a tag connects a leg in its setup.
Connects(s, v) == Viewed(v) /\ v.st = "Connected" /\ v.dialog = s.dialog

LEMMA FinalView ==
    ASSUME NEW r, Viewed(r), NEW m \in Responses
    PROVE  LET v == UacFinal(r, m)
           IN  IF m.code = "2xx" /\ m.tag THEN Connects(r, v) ELSE Calmly(r, v)
  <1>1. PICK s : s = CancelTimers(r, {"ex"})  OBVIOUS
  <1>2. Unseen(r, s) /\ Viewed(s) /\ Calmly(r, s) /\ s.dialog = r.dialog
    <2>1. Unseen(r, s)
      BY <1>1, UnseenHelpers
    <2>2. s.dialog = r.dialog
      BY <2>1 DEF Unseen
    <2> QED  BY <2>1, <2>2, UnseenCalmly
  <1>3. PICK v : v = UacFinal(r, m)  OBVIOUS
  <1>4. CASE m.code = "2xx" /\ m.tag
    <2>1. PICK b : b = [s EXCEPT !.late_media = FALSE]  OBVIOUS
    <2>2. Viewed(b) /\ b.dialog = s.dialog
      BY <1>2, <2>1 DEF Viewed
    <2>3. PICK x : x = Answered(s, m)  OBVIOUS
    <2>4. PICK y : y = Answered(b, m)  OBVIOUS
    <2>5. Viewed(x) /\ x.dialog = r.dialog /\ Viewed(y) /\ y.dialog = r.dialog
      BY <1>2, <2>2, <2>3, <2>4, AnsweredView
    <2>6. PICK z : z = StartCreditTimer(y)  OBVIOUS
    <2>7. Unseen(y, z)
      BY <2>5, <2>6, UnseenStarts
    <2>8. Viewed(z) /\ z.dialog = r.dialog
      BY <2>5, <2>7, UnseenCalmly DEF Unseen
    <2>9. v = ChangeState(x, "Connected") \/ v = ChangeState(z, "Connected")
      BY <1>1, <1>3, <1>4, <2>1, <2>3, <2>4, <2>6 DEF UacFinal
    <2>10. Turning(x, ChangeState(x, "Connected"), "Connected") /\ Turning(z, ChangeState(z, "Connected"), "Connected")
      BY <2>5, <2>8, TurningState
    <2>11. Connects(r, v)
      BY <2>5, <2>8, <2>9, <2>10 DEF Turning, Connects
    <2> QED  BY <1>3, <1>4, <2>11
  <1>5. CASE ~(m.code = "2xx" /\ m.tag)
    <2>1. /\ Ev("Fail") \in Events /\ ~IsAnswer(Ev("Fail"))
          /\ Refused(m) \in Events /\ ~IsAnswer(Refused(m))
      BY EventTypes DEF EventKinds, Refused, Ev, IsAnswer
    <2>2. PICK a : a = Enqueue(s, Ev("Fail"))  OBVIOUS
    <2>3. Calmly(s, a) /\ Calmly(s, Enqueue(s, Refused(m)))
      BY <1>2, <2>1, <2>2, EnqueueCalmly
    <2>4. Calmly(r, a) /\ Calmly(r, Enqueue(s, Refused(m))) /\ Viewed(a)
      BY <1>2, <2>3, CalmlyTwice DEF Calmly
    <2>5. Calmly(r, SendBYE(a))
      BY <2>4, UnseenHelpers, CalmlyThen
    <2>6. Calmly(r, ChangeState(SendBYE(a), "Failed")) /\ Calmly(r, ChangeState(Enqueue(s, Refused(m)), "Failed"))
      BY <2>4, <2>5, CalmlyEnds DEF Over
    <2>7. v = ChangeState(SendBYE(a), "Failed") \/ v = ChangeState(Enqueue(s, Refused(m)), "Failed")
      BY <1>1, <1>3, <1>5, <2>2 DEF UacFinal
    <2>8. Calmly(r, v)
      BY <2>6, <2>7
    <2> QED  BY <1>3, <1>5, <2>8
  <1> QED  BY <1>4, <1>5

LEMMA DiallingView ==
    ASSUME NEW r, Viewed(r), NEW m \in Responses, r.st \in {"UacTrying", "UacRinging"}
    PROVE  LET t == IF r.st = "UacTrying" THEN UacTrying_RecvResponse(r, m)
                                             ELSE UacRinging_RecvResponse(r, m)
           IN  IF m.code = "2xx" /\ m.tag THEN Connects(r, t) ELSE Calmly(r, t)
  <1>1. PICK s : s = UacTimers(r, m.code)  OBVIOUS
  <1>2. Unseen(r, s) /\ s.dialog = r.dialog /\ s.st = r.st
    BY <1>1, UacTimersUnseen DEF Unseen
  <1>3. Viewed(s) /\ Calmly(r, s) /\ Calmly(r, r)
    BY <1>2, UnseenCalmly, UnseenHelpers
  <1>4. /\ Ev("Ring100") \in Events /\ ~IsAnswer(Ev("Ring100"))
        /\ EvBody("Ring", m.body) \in Events /\ ~IsAnswer(EvBody("Ring", m.body))
    BY EventTypes DEF EventKinds, Responses, Ev, EvBody, IsAnswer
  <1>5. PICK a : a = Enqueue(s, EvBody("Ring", m.body))  OBVIOUS
  <1>6. Calmly(r, a) /\ Viewed(a) /\ a.st = r.st /\ Calmly(r, Enqueue(s, Ev("Ring100")))
    <2>1. Calmly(r, a) /\ a.st = r.st /\ Calmly(r, Enqueue(s, Ev("Ring100")))
      BY <1>2, <1>3, <1>4, <1>5, EnqueueCalmly, CalmlyTwice
    <2> QED  BY <2>1 DEF Calmly
  <1>7. Calmly(r, ChangeState(a, "UacRinging"))
    <2>1. a.st \in Setup /\ "UacRinging" \in Setup
      BY <1>6 DEF Setup
    <2> QED  BY <1>6, <2>1, PassesCalmly, UnseenHelpers, CalmlyTwice
  <1>8. Calmly(r, Enqueue(r, EvBody("Ring", m.body))) /\ Calmly(r, Enqueue(r, Ev("Ring100")))
    BY <1>4, EnqueueCalmly
  <1>9. /\ IF m.code = "2xx" /\ m.tag THEN Connects(r, UacFinal(s, m)) ELSE Calmly(r, UacFinal(s, m))
        /\ IF m.code = "2xx" /\ m.tag THEN Connects(r, UacFinal(r, m)) ELSE Calmly(r, UacFinal(r, m))
    BY <1>2, <1>3, FinalView, CalmlyTwice DEF Connects
  <1>10. CASE m.code \in Provisional
    BY <1>1, <1>3, <1>5, <1>6, <1>7, <1>8, <1>10 DEF UacTrying_RecvResponse, UacRinging_RecvResponse, Provisional
  <1>11. CASE m.code \notin Provisional
    BY <1>1, <1>9, <1>11 DEF UacTrying_RecvResponse, UacRinging_RecvResponse, Provisional
  <1> QED  BY <1>10, <1>11

LEMMA UpdatingView ==
    ASSUME NEW r, Viewed(r), NEW m \in Responses, r.st = "UacUpdating"
    PROVE  Calmly(r, UacUpdating_RecvResponse(r, m))
  <1>1. /\ Ev("Fail") \in Events /\ ~IsAnswer(Ev("Fail"))
        /\ Ev("Disconnect") \in Events /\ ~IsAnswer(Ev("Disconnect"))
        /\ Refused(m) \in Events /\ ~IsAnswer(Refused(m))
        /\ EvBody("Ring", m.body) \in Events /\ ~IsAnswer(EvBody("Ring", m.body))
    BY EventTypes DEF EventKinds, Responses, Refused, Ev, EvBody, IsAnswer
  <1>2. Calmly(r, Enqueue(r, EvBody("Ring", m.body)))
    BY <1>1, EnqueueCalmly
  <1>3. \A s : Calmly(r, s) /\ s.st = r.st => Calmly(r, ChangeState(s, "Connected"))
    <2> SUFFICES ASSUME NEW s, Calmly(r, s), s.st = r.st PROVE Calmly(r, ChangeState(s, "Connected"))
      OBVIOUS
    <2>1. Viewed(s) /\ s.st \in IsConnected /\ "Connected" \in IsConnected
      BY DEF Calmly, IsConnected
    <2> QED  BY <2>1, PassesCalmly, UnseenHelpers, CalmlyTwice
  <1>4. Calmly(r, ChangeState(Answered(r, m), "Connected"))
    BY <1>3, AnsweredView DEF IsConnected
  <1>5. Calmly(r, ChangeState(Enqueue(r, Refused(m)), "Connected"))
    BY <1>1, <1>3, EnqueueCalmly
  <1>6. Calmly(r, ChangeState(Enqueue(CancelTimers(SendBYE(Enqueue(r, Ev("Fail"))), {"cr"}),
                                      Ev("Disconnect")), "Disconnected"))
    <2>1. PICK a : a = Enqueue(r, Ev("Fail"))  OBVIOUS
    <2>2. Calmly(r, a) /\ Viewed(a)
      BY <1>1, <2>1, EnqueueCalmly DEF Calmly
    <2>3. PICK b : b = CancelTimers(SendBYE(a), {"cr"})  OBVIOUS
    <2>4. Unseen(a, b)
      <3>1. PICK c : c = SendBYE(a)  OBVIOUS
      <3>2. Unseen(a, c) /\ Viewed(c)
        BY <2>2, <3>1, UnseenHelpers, UnseenCalmly
      <3> QED  BY <2>3, <3>1, <3>2, UnseenHelpers, UnseenTwice
    <2>5. Calmly(r, b) /\ Viewed(b)
      BY <2>2, <2>4, CalmlyThen, UnseenCalmly
    <2>6. Calmly(r, Enqueue(b, Ev("Disconnect")))
      BY <1>1, <2>5, EnqueueCalmly, CalmlyTwice
    <2> QED  BY <2>1, <2>3, <2>6, CalmlyEnds DEF Over
  <1> QED  BY <1>2, <1>4, <1>5, <1>6 DEF UacUpdating_RecvResponse

LEMMA CancellingView ==
    ASSUME NEW r, Viewed(r), NEW m
    PROVE  Calmly(r, Cancelling_RecvResponse(r, m))
  <1>1. PICK s : s = CancelTimers(r, {"idle"})  OBVIOUS
  <1>2. Unseen(r, s) /\ Viewed(s) /\ Calmly(r, r)
    BY <1>1, UnseenHelpers, UnseenCalmly
  <1>3. Unseen(r, SendBYE(s))
    BY <1>2, UnseenHelpers, UnseenTwice
  <1>4. Calmly(r, ChangeState(SendBYE(s), "Disconnected")) /\ Calmly(r, ChangeState(s, "Dead"))
    BY <1>2, <1>3, EndsCalmly DEF Over
  <1> QED  BY <1>1, <1>2, <1>4 DEF Cancelling_RecvResponse

\* The 2xx of an INVITE that the leg has given up.
Late(r, s) == Viewed(s) /\ Phase(r) = "over" /\ Phase(s) = "over" /\ s.dialog

LEMMA ResponseAdvances ==
    ASSUME NEW r \in UaRecords, LegInv(r), Backed(r), NEW m \in Responses,
           r.uac \in {"calling", "proceeding"}
    PROVE  LET v == RecvResponse(r, m)
           IN  /\ r.dialog => Calmly(r, v)
               /\ Advances(r, v) \/ Late(r, v)
  <1>1. PICK s : s = [r EXCEPT !.uac = IF m.code \in Provisional THEN "proceeding" ELSE "done",
                               !.dialog = @ \/ (m.code = "2xx" /\ m.tag)]
    OBVIOUS
  <1>2. /\ Viewed(r) /\ Viewed(s) /\ s.st = r.st /\ s.q = r.q /\ s.heldConnect = r.heldConnect
        /\ s.dialog = (r.dialog \/ (m.code = "2xx" /\ m.tag)) /\ r.dialog \in BOOLEAN
    <2>1. Viewed(r) /\ r.dialog \in BOOLEAN
      BY ViewedLeg DEF UaRecords
    <2> QED  BY <1>1, <2>1 DEF Viewed
  <1>3. PICK v : v = RecvResponse(r, m)  OBVIOUS
  <1>4. v = IF m.code = "401" /\ Auth /\ ~r.auth /\ ~r.gone THEN processChallenge(r) ELSE
            CASE r.st = "UacTrying"   -> UacTrying_RecvResponse(s, m)
              [] r.st = "UacRinging"  -> UacRinging_RecvResponse(s, m)
              [] r.st = "UacUpdating" -> UacUpdating_RecvResponse(s, m)
              [] r.st = "Cancelling"  -> Cancelling_RecvResponse(s, m)
              [] OTHER                -> s
    BY <1>1, <1>3 DEF RecvResponse
  <1>5. /\ r.st \in {"UacTrying", "UacRinging"} \cup IsConnected \cup Over
        /\ r.st \in {"UacTrying", "UacRinging"} => ~r.dialog
        /\ r.st \in IsConnected => r.dialog
    <2>1. r.st \notin UasEarly \cup {"UacIdle", "None"}
      BY DEF LegInv, Closing, NewUA
    <2>2. r.st \in {"UacTrying", "UacRinging"} => ~r.dialog
      BY DEF LegInv, Closing, Setup
    <2>3. r.st \in IsConnected => r.dialog
      BY Zenon DEF Backed
    <2> QED  BY <2>1, <2>2, <2>3 DEF UaRecords, States, IsConnected, Over, UasEarly
  <1>6. Phase(s) = Phase(r)
    BY <1>2 DEF Phase
  <1>7. ASSUME s.dialog = r.dialog PROVE Calmly(r, s)
    <2>1. Backed(r) => Backed(s)
      BY <1>2, <1>7, Zenon DEF Backed
    <2>2. r.uac # "none"
      OBVIOUS
    <2> QED  BY <1>2, <1>6, <1>7, <2>1, <2>2, Zenon DEF Calmly
  <1>8. CASE m.code = "401" /\ Auth /\ ~r.auth /\ ~r.gone
    <2>1. v = [r EXCEPT !.uac = "calling", !.auth = TRUE]
      BY <1>4, <1>8 DEF processChallenge
    <2>2. /\ Viewed(v) /\ v.st = r.st /\ v.q = r.q /\ v.heldConnect = r.heldConnect
          /\ v.dialog = r.dialog
      BY <1>2, <2>1 DEF Viewed
    <2>3. Phase(v) = Phase(r) /\ (Backed(r) => Backed(v)) /\ r.uac # "none"
      BY <2>2 DEF Phase, Backed
    <2>4. Calmly(r, v)
      BY <2>2, <2>3 DEF Calmly
    <2> QED  BY <1>3, <2>4, CalmlyAdvances
  <1>9. CASE ~(m.code = "401" /\ Auth /\ ~r.auth /\ ~r.gone) /\ s.dialog = r.dialog
    <2>1. Calmly(r, s) /\ Calmly(s, s)
      BY <1>2, <1>7, <1>9, UnseenHelpers, UnseenCalmly
    <2>2. ASSUME r.st \in {"UacTrying", "UacRinging"} PROVE Calmly(s, v)
      <3>1. ~(m.code = "2xx" /\ m.tag)
        BY <1>2, <1>5, <1>9, <2>2
      <3>2. v = IF s.st = "UacTrying" THEN UacTrying_RecvResponse(s, m)
                                       ELSE UacRinging_RecvResponse(s, m)
        BY <1>2, <1>4, <1>9, <2>2
      <3> QED  BY <1>2, <2>2, <3>1, <3>2, DiallingView
    <2>3. ASSUME r.st \notin {"UacTrying", "UacRinging"} PROVE Calmly(s, v)
      <3>1. CASE r.st = "UacUpdating"
        BY <1>2, <1>4, <1>9, <3>1, UpdatingView
      <3>2. CASE r.st = "Cancelling"
        BY <1>2, <1>4, <1>9, <3>2, CancellingView
      <3>3. CASE r.st \notin {"UacUpdating", "Cancelling"}
        BY <1>4, <1>9, <2>1, <2>3, <3>3
      <3> QED  BY <3>1, <3>2, <3>3
    <2>4. Calmly(r, v)
      BY <2>1, <2>2, <2>3, CalmlyTwice
    <2> QED  BY <1>3, <2>4, CalmlyAdvances
  <1>10. CASE ~(m.code = "401" /\ Auth /\ ~r.auth /\ ~r.gone) /\ s.dialog # r.dialog
    <2>1. ~r.dialog /\ m.code = "2xx" /\ m.tag /\ s.dialog
      BY <1>2, <1>10
    <2>2. ASSUME r.st \in {"UacTrying", "UacRinging"} PROVE Advances(r, v)
      <3>1. v = IF s.st = "UacTrying" THEN UacTrying_RecvResponse(s, m)
                                       ELSE UacRinging_RecvResponse(s, m)
        BY <1>2, <1>4, <1>10, <2>2
      <3>2. Connects(s, v)
        BY <1>2, <2>1, <2>2, <3>1, DiallingView
      <3>3. Viewed(v) /\ v.dialog /\ v.st = "Connected" /\ r.uac # "none"
        BY <2>1, <3>2 DEF Connects
      <3>4. Phase(r) = "setup" /\ Phase(v) = "up"
        BY <2>2, <3>3 DEF Phase, UasEarly, IsConnected, Over
      <3> QED  BY <3>3, <3>4 DEF Advances, Backed
    <2>3. ASSUME r.st \notin {"UacTrying", "UacRinging"} PROVE Late(r, v)
      <3>1. r.st \in Over
        BY <1>5, <2>1, <2>3
      <3>2. v = s \/ v = Cancelling_RecvResponse(s, m)
        BY <1>4, <1>10, <2>3, <3>1 DEF Over
      <3>3. Calmly(s, v)
        BY <1>2, <3>2, CancellingView, UnseenHelpers, UnseenCalmly
      <3>4. Phase(r) = "over"
        BY <3>1 DEF Phase, UasEarly, IsConnected, Over
      <3>5. Viewed(v) /\ v.dialog = s.dialog /\ Phase(v) = "over"
        BY <1>6, <3>3, <3>4 DEF Calmly
      <3> QED  BY <2>1, <3>4, <3>5 DEF Late
    <2> QED  BY <1>3, <2>1, <2>2, <2>3
  <1> QED  BY <1>8, <1>9, <1>10

LEMMA Phases ==
    ASSUME NEW r
    PROVE  /\ r.st \in {"None", "UacIdle"} => Phase(r) = "none"
           /\ r.st \in {"UacTrying", "UacRinging"} \cup UasEarly => Phase(r) = "setup"
           /\ r.st \in IsConnected => Phase(r) = "up"
           /\ r.st \in Over => Phase(r) = "over"
  BY DEF Phase, UasEarly, IsConnected, Over

\* The leg is dialled, or cannot be.
Dialled(r, s) ==
    /\ Viewed(s) /\ Backed(s)
    /\ s.dialog = r.dialog
    /\ Phase(r) = "none" /\ Phase(s) \in {"none", "setup"}

LEMMA TryDials ==
    ASSUME NEW r, Viewed(r), r.st = "None", r.q = <<>>, NEW e, e.k = "Try", NEW way
    PROVE  Dialled(r, RecvEvent(r, e, way)) /\ Dialled(r, [r EXCEPT !.st = "UacIdle"])
  <1>1. PICK a : a = [r EXCEPT !.st = "UacIdle"]  OBVIOUS
  <1>2. Viewed(a) /\ a.st = "UacIdle" /\ a.q = <<>> /\ a.dialog = r.dialog
    BY <1>1 DEF Viewed
  <1>3. \A s : Viewed(s) /\ s.q = <<>> /\ s.st \notin IsConnected => Backed(s)
    BY DEF Backed
  <1>4. Dialled(r, a)
    <2>1. Phase(r) = "none" /\ Phase(a) = "none" /\ a.st \notin IsConnected
      BY <1>2, Phases DEF IsConnected
    <2> QED  BY <1>2, <1>3, <2>1 DEF Dialled
  <1>5. PICK b : b = [a EXCEPT !.uac = "calling", !.late_media = ~e.body]  OBVIOUS
  <1>6. Viewed(b) /\ b.q = <<>> /\ b.dialog = r.dialog
    BY <1>2, <1>5 DEF Viewed
  <1>7. PICK c : c = ChangeState(b, "UacTrying")  OBVIOUS
  <1>8. Turning(b, c, "UacTrying")
    BY <1>6, <1>7, TurningState
  <1>9. Viewed(c) /\ c.q = <<>> /\ c.dialog = r.dialog /\ c.st = "UacTrying"
    BY <1>6, <1>8 DEF Turning
  <1>10. PICK d : d = StartFirst(c, <<"nr", "np", "ex">>)  OBVIOUS
  <1>11. Unseen(c, d) /\ Viewed(d)
    BY <1>9, <1>10, UnseenStarts, UnseenCalmly
  <1>12. d.q = <<>> /\ d.dialog = r.dialog /\ d.st = "UacTrying"
    BY <1>9, <1>11 DEF Unseen
  <1>13. Phase(d) = "setup" /\ Phase(r) = "none" /\ d.st \notin IsConnected
    BY <1>12, Phases DEF IsConnected
  <1>14. Dialled(r, d)
    BY <1>3, <1>11, <1>12, <1>13 DEF Dialled
  <1>15. RecvEvent(r, e, way) = d
    <2>1. RecvEvent(r, e, way) = UacIdle_RecvEvent(a, e)
      BY <1>1 DEF RecvEvent
    <2>2. UacIdle_RecvEvent(a, e) = d
      BY <1>5, <1>7, <1>10 DEF UacIdle_RecvEvent, Ends
    <2> QED  BY <2>1, <2>2
  <1> QED  BY <1>1, <1>4, <1>14, <1>15

LEMMA OfferView ==
    ASSUME NEW r, Viewed(r), r.st = "None", r.q = <<>>, NEW body \in BOOLEAN, NEW rel \in BOOLEAN
    PROVE  LET w == UasIdle_RecvRequest(r, body, rel)
           IN  /\ Backed(w) /\ w.dialog = r.dialog /\ w.heldConnect = r.heldConnect
               /\ w.uac = r.uac /\ w.st = "UasTrying"
  <1>1. PICK a : a = [r EXCEPT !.uas = "early", !.pr_rel = rel /\ body]  OBVIOUS
  <1>2. Unseen(r, a) /\ Viewed(a)
    <2>1. Unseen(r, a)
      BY <1>1 DEF Unseen, Viewed
    <2> QED  BY <2>1, UnseenCalmly
  <1>3. PICK e : e = EvBody("Try", body)  OBVIOUS
  <1>4. e \in Events /\ ~IsAnswer(e)
    BY <1>3, EventTypes DEF EventKinds, EvBody, IsAnswer
  <1>5. PICK b : b = Enqueue(a, e)  OBVIOUS
  <1>6. b.q = <<e>> /\ Viewed(b) /\ b.dialog = r.dialog /\ b.uac = r.uac /\ b.heldConnect = r.heldConnect
    BY <1>2, <1>4, <1>5 DEF Enqueue, Viewed, Unseen
  <1>7. PICK c : c = ChangeState(b, "UasTrying")  OBVIOUS
  <1>8. Turning(b, c, "UasTrying")
    BY <1>6, <1>7, TurningState
  <1>9. PICK d : d = StartFirst(c, <<"np", "ex">>)  OBVIOUS
  <1>10. Unseen(c, d)
    BY <1>8, <1>9, UnseenStarts DEF Turning
  <1>11. /\ d.q = <<e>> /\ d.dialog = r.dialog /\ d.uac = r.uac /\ d.heldConnect = r.heldConnect
         /\ d.st = "UasTrying"
    BY <1>6, <1>8, <1>10 DEF Turning, Unseen
  <1>12. Backed(d)
    BY <1>4, <1>11 DEF Backed, IsConnected
  <1>13. UasIdle_RecvRequest(r, body, rel) = d
    BY <1>1, <1>3, <1>5, <1>7, <1>9 DEF UasIdle_RecvRequest
  <1> QED  BY <1>11, <1>12, <1>13

LEMMA TakenCalmly ==
    ASSUME NEW r, Viewed(r), r.q # <<>>
    PROVE  Calmly(r, [r EXCEPT !.q = Tail(@)])
  <1>1. PICK s : s = [r EXCEPT !.q = Tail(@)]  OBVIOUS
  <1>2. /\ s.st = r.st /\ s.dialog = r.dialog /\ s.uac = r.uac /\ s.heldConnect = r.heldConnect
        /\ s.q = Tail(r.q) /\ DOMAIN s = DOMAIN r
    BY <1>1 DEF Viewed
  <1>3. r.q \in Seq(Events) /\ s.q \in Seq(Events)
    BY <1>2 DEF Viewed
  <1>4. \A i \in DOMAIN s.q : i + 1 \in DOMAIN r.q /\ s.q[i] = r.q[i + 1]
    BY <1>2, <1>3
  <1>5. Backed(r) => Backed(s)
    BY <1>2, <1>4, Zenon DEF Backed
  <1>6. Viewed(s) /\ Phase(s) = Phase(r)
    BY <1>2, <1>3 DEF Viewed, Phase
  <1>7. Calmly(r, s)
    BY <1>2, <1>5, <1>6, Zenon DEF Calmly
  <1> QED  BY <1>1, <1>7

-----------------------------------------------------------------------------
(* The invariant that the refinement needs: leg A is told of an answer only *)
(* when leg O has one.                                                      *)
Untold(cs) ==
    \A i \in DOMAIN cs : ~(cs[i].c = "recv" /\ cs[i].u = "A" /\ IsAnswer(cs[i].e))

CallInv ==
    /\ \A u \in Leg : Backed(ua[u])
    /\ ua["A"].st # "UacIdle"
    /\ ua["A"].uac # "none" => ua["A"].dialog
    /\ ua["A"].heldConnect # NoEv => ua["O"].dialog
    /\ Untold(todo) \/ ua["O"].dialog

\* What a change of one leg is to the two parties.
LEMMA Seen ==
    ASSUME NEW u \in Leg, \A v \in Leg : v # u => ua'[v] = ua[v],
           Phase(ua["A"]) # "none" \/ (u = "A" /\ Phase(ua'["A"]) = "setup"),
           \/ ua'[u].dialog = ua[u].dialog /\ Phase(ua'[u]) = Phase(ua[u])
           \/ /\ ua'[u].dialog = ua[u].dialog
              /\ Phase(ua'[u]) = "over" /\ Phase(ua[u]) # "over"
           \/ /\ Phase(ua[u]) = "setup" /\ Phase(ua'[u]) = "up" /\ ua'[u].dialog
              /\ u = "O" \/ ua["O"].dialog
           \/ u = "O" /\ Phase(ua[u]) = "over" /\ Phase(ua'[u]) = "over" /\ ua'[u].dialog
           \/ ua'[u].dialog = ua[u].dialog /\ Phase(ua[u]) = "none" /\ Phase(ua'[u]) = "setup"
    PROVE  [AbstractCall!Next]_(AbstractCall!vars)
  <1> DEFINE p == [v \in Leg |-> Phase(ua[v])]
             q == [v \in Leg |-> Phase(ua'[v])]
             d == {v \in Leg : ua[v].dialog}
             e == {v \in Leg : ua'[v].dialog}
  <1>1. q = [p EXCEPT ![u] = Phase(ua'[u])] /\ p[u] = Phase(ua[u]) /\ p["A"] = Phase(ua["A"])
    BY DEF Leg
  <1>2. ua'[u].dialog = ua[u].dialog => e = d
    BY DEF Leg
  <1>3. ua'[u].dialog => e = d \cup {u}
    BY DEF Leg
  <1>4. ua["O"].dialog => "O" \in d
    BY DEF Leg
  <1>5. Phase(ua'[u]) = Phase(ua[u]) => q = p
    BY <1>1
  <1>6. u = "A" \/ u = "O"
    BY DEF Leg
  <1> QED
    BY <1>1, <1>2, <1>3, <1>4, <1>5, <1>6
    DEF AbstractCall!Next, AbstractCall!vars, AbstractCall!Goes, AbstractCall!Offer, AbstractCall!Dial,
        AbstractCall!Answer, AbstractCall!Tell, AbstractCall!AnswerTooLate, AbstractCall!End

LEMMA LegSeen ==
    ASSUME IInv, CallInv, ua["A"].st # "None", NEW u \in Leg, NEW s, NEW cs, Becomes(u, s, cs),
           \/ Calmly(ua[u], s)
           \/ Advances(ua[u], s) /\ (u = "O" \/ ua["O"].dialog)
           \/ u = "O" /\ (Late(ua[u], s) \/ Dialled(ua[u], s)),
           Untold(todo) => Untold(cs) \/ ua["O"].dialog
    PROVE  CallInv' /\ [AbstractCall!Next]_(AbstractCall!vars)
  <1>1. ua'[u] = s /\ (\A v \in Leg : v # u => ua'[v] = ua[v]) /\ todo' = cs
    BY Turned
  <1>2. ua["A"] \in UaRecords /\ "A" \in Leg /\ "O" \in Leg /\ (u = "A" \/ u = "O")
    BY LegTypes DEF Leg
  <1>3. PICK r : r = ua[u]  OBVIOUS
  <1>4. Backed(r)
    BY <1>3 DEF CallInv
  <1>5. Phase(ua["A"]) # "none"
    <2>1. ua["A"].st \in {"UacTrying", "UacRinging"} \cup UasEarly \cup IsConnected \cup Over
      BY <1>2 DEF CallInv, UaRecords, States, UasEarly, IsConnected, Over
    <2> QED  BY <2>1, Phases
  <1>6. PICK far : far = ua["O"].dialog  OBVIOUS
  <1>7. \/ Calmly(r, s)
        \/ Advances(r, s) /\ (u = "O" \/ far)
        \/ u = "O" /\ (Late(r, s) \/ Dialled(r, s))
    BY <1>3, <1>6
  <1>8. \/ s.dialog = r.dialog /\ Phase(s) = Phase(r)
        \/ s.dialog = r.dialog /\ Phase(s) = "over" /\ Phase(r) # "over"
        \/ /\ Phase(r) = "setup" /\ Phase(s) = "up" /\ s.dialog
           /\ u = "O" \/ far
        \/ u = "O" /\ Phase(r) = "over" /\ Phase(s) = "over" /\ s.dialog
        \/ s.dialog = r.dialog /\ Phase(r) = "none" /\ Phase(s) = "setup"
    BY <1>7 DEF Calmly, Advances, Late, Dialled
  <1>9. [AbstractCall!Next]_(AbstractCall!vars)
    BY <1>1, <1>3, <1>5, <1>6, <1>8, Seen
  <1>10. Backed(s) /\ (s.dialog = r.dialog \/ s.dialog)
    BY <1>4, <1>7, Zenon DEF Calmly, Advances, Late, Dialled, Backed
  <1>11. \A v \in Leg : Backed(ua'[v])
    BY <1>1, <1>10 DEF CallInv
  <1>12. far => ua'["O"].dialog
    BY <1>1, <1>2, <1>3, <1>6, <1>10
  <1>13. Untold(cs) \/ ua'["O"].dialog
    BY <1>6, <1>12 DEF CallInv
  <1>14. /\ ua'["A"].st # "UacIdle"
         /\ ua'["A"].uac # "none" => ua'["A"].dialog
         /\ ua'["A"].heldConnect # NoEv => far
    <2>1. CASE u = "O"
      BY <1>1, <1>2, <1>6, <2>1 DEF CallInv
    <2>2. CASE u = "A"
      <3>1. /\ r.st # "UacIdle" /\ (r.uac # "none" => r.dialog) /\ (r.heldConnect # NoEv => far)
        BY <1>3, <1>6, <2>2 DEF CallInv
      <3>2. Calmly(r, s) \/ (Advances(r, s) /\ far)
        BY <1>7, <2>2
      <3>3. s.st # "UacIdle" /\ (s.heldConnect # NoEv => far)
        BY <3>1, <3>2 DEF Calmly, Advances
      <3>4. s.uac # "none" => r.dialog
        BY <1>4, <3>1, <3>2, Zenon DEF Calmly, Advances
      <3>5. s.uac # "none" => s.dialog
        BY <1>10, <3>4
      <3> QED  BY <1>1, <2>2, <3>3, <3>5
    <2> QED  BY <1>2, <2>1, <2>2
  <1>15. CallInv'
    BY <1>1, <1>11, <1>12, <1>13, <1>14 DEF CallInv
  <1> QED  BY <1>9, <1>15

\* The calls that do not tell leg A of an answer.
LEMMA Unspoken ==
    /\ Untold(<<>>)
    /\ \A u \in Leg : Untold(<<Emit(u)>>) /\ Untold(<<Emit(u), Bind(u)>>)
    /\ \A u \in Leg, p \in Events : p.k = "Update" =>
           Untold(<<Recv(u, p)>>) /\ Untold(<<Emit(u), Recv(u, p)>>)
  <1>1. Untold(<<>>)
    BY DEF Untold
  <1>2. ASSUME NEW u \in Leg PROVE Untold(<<Emit(u)>>) /\ Untold(<<Emit(u), Bind(u)>>)
    <2>1. PICK a, b : a = Emit(u) /\ b = Bind(u)
      OBVIOUS
    <2>2. a.c # "recv" /\ b.c # "recv"
      BY <2>1, CallTypes
    <2>3. Untold(<<a>>) /\ Untold(<<a, b>>)
      BY <2>2 DEF Untold
    <2> QED  BY <2>1, <2>3
  <1>3. ASSUME NEW u \in Leg, NEW p \in Events, p.k = "Update"
        PROVE  Untold(<<Recv(u, p)>>) /\ Untold(<<Emit(u), Recv(u, p)>>)
    <2>1. PICK a, b : a = Emit(u) /\ b = Recv(u, p)
      OBVIOUS
    <2>2. a.c # "recv" /\ b.e = p /\ ~IsAnswer(p)
      BY <1>3, <2>1, CallTypes DEF IsAnswer
    <2>3. Untold(<<b>>) /\ Untold(<<a, b>>)
      BY <2>2 DEF Untold
    <2> QED  BY <2>1, <2>3
  <1> QED  BY <1>1, <1>2, <1>3

LEMMA Speech ==
    ASSUME NEW cs \in Seq(Calls)
    PROVE  /\ \A c \in Calls : Untold(cs) /\ ~(c.c = "recv" /\ c.u = "A" /\ IsAnswer(c.e))
                                  => Untold(<<c>> \o cs)
           /\ cs # <<>> /\ Untold(cs) =>
                /\ Untold(Tail(cs))
                /\ ~(Head(cs).c = "recv" /\ Head(cs).u = "A" /\ IsAnswer(Head(cs).e))
  <1>1. ASSUME NEW c \in Calls, Untold(cs), ~(c.c = "recv" /\ c.u = "A" /\ IsAnswer(c.e))
        PROVE  Untold(<<c>> \o cs)
    <2>1. PICK ds : ds = <<c>> \o cs  OBVIOUS
    <2>2. \A i \in DOMAIN ds : ds[i] = c \/ (i - 1 \in DOMAIN cs /\ ds[i] = cs[i - 1])
      BY <2>1
    <2>3. Untold(ds)
      BY <1>1, <2>2 DEF Untold
    <2> QED  BY <2>1, <2>3
  <1>2. ASSUME cs # <<>>, Untold(cs)
        PROVE  /\ Untold(Tail(cs))
               /\ ~(Head(cs).c = "recv" /\ Head(cs).u = "A" /\ IsAnswer(Head(cs).e))
    <2>1. PICK ds : ds = Tail(cs)  OBVIOUS
    <2>2. \A i \in DOMAIN ds : i + 1 \in DOMAIN cs /\ ds[i] = cs[i + 1]
      BY <1>2, <2>1
    <2>3. 1 \in DOMAIN cs /\ Head(cs) = cs[1]
      BY <1>2
    <2>4. Untold(ds) /\ ~(cs[1].c = "recv" /\ cs[1].u = "A" /\ IsAnswer(cs[1].e))
      BY <1>2, <2>2, <2>3 DEF Untold
    <2> QED  BY <2>1, <2>3, <2>4
  <1> QED  BY <1>1, <1>2

-----------------------------------------------------------------------------
(* The steps, as the two parties see them.                                  *)
LEMMA EmitsSeen ==
    ASSUME IInv, CallInv, emitPendingEvents
    PROVE  CallInv' /\ [AbstractCall!Next]_(AbstractCall!vars)
  <1>1. PICK u, q : u = Head(todo).u /\ q = ua[u].q
    OBVIOUS
  <1>2. /\ todo \in Seq(Calls) /\ todo # <<>> /\ Head(todo) \in Calls /\ u \in Leg
        /\ ua["A"].st # "None" /\ ua[u] \in UaRecords /\ "A" \in Leg
    <2>1. todo \in Seq(Calls) /\ todo # <<>> /\ Head(todo) \in Calls /\ Head(todo).c = "emit"
      BY LegTypes, Pops DEF emitPendingEvents
    <2>2. u \in Leg
      BY <1>1, <2>1 DEF Calls
    <2> QED  BY <2>1, <2>2, LegTypes
  <1>3. PICK r : r = ua[u]  OBVIOUS
  <1>4. Viewed(r) /\ Calmly(r, r)
    BY <1>2, <1>3, ViewedLeg, UnseenHelpers, UnseenCalmly
  <1>5. CASE ~(q # <<>> /\ ~r.gone)
    <2>1. Becomes(u, r, Tail(todo))
      BY <1>1, <1>3, <1>5 DEF emitPendingEvents
    <2>2. Untold(todo) => Untold(Tail(todo))
      BY <1>2, Speech
    <2> QED  BY <1>2, <1>3, <1>4, <2>1, <2>2, LegSeen
  <1>6. CASE q # <<>> /\ ~r.gone
    <2>1. PICK s : s = [r EXCEPT !.q = Tail(@)]  OBVIOUS
    <2>2. PICK e : e = Head(q)  OBVIOUS
    <2>3. PICK c : c = RecvEventOf(u, e)  OBVIOUS
    <2>4. Becomes(u, s, <<c>> \o todo)
      BY <1>1, <1>3, <1>6, <2>1, <2>2, <2>3 DEF emitPendingEvents
    <2>5. Calmly(r, s)
      BY <1>1, <1>3, <1>4, <1>6, <2>1, TakenCalmly
    <2>6. q \in Seq(Events) /\ e \in Events /\ 1 \in DOMAIN q /\ e = q[1]
      BY <1>1, <1>2, <1>6, <2>2 DEF UaRecords
    <2>7. /\ Ev("Disconnect") \in Events /\ ~IsAnswer(Ev("Disconnect"))
      BY EventTypes DEF EventKinds, Ev, IsAnswer
    <2>8. c \in Calls /\ (~(c.c = "recv" /\ c.u = "A" /\ IsAnswer(c.e)) \/ ua["O"].dialog)
      <3>1. CASE u = "A" /\ ua["O"].st = "None" /\ e.k # "Try"
        <4>1. c = Recv("A", Ev("Disconnect"))
          BY <2>3, <3>1 DEF RecvEventOf
        <4> QED  BY <1>2, <2>7, <4>1, CallTypes
      <3>2. CASE u = "A" /\ ~(ua["O"].st = "None" /\ e.k # "Try")
        <4>1. c = Recv("O", e) /\ "O" \in Leg
          BY <2>3, <3>2 DEF RecvEventOf, Other, Leg
        <4> QED  BY <2>6, <4>1, CallTypes
      <3>3. CASE u = "O"
        <4>1. c = Recv("A", e)
          BY <2>3, <3>3 DEF RecvEventOf, Other
        <4>2. Backed(ua["O"])
          BY <1>2, <3>3 DEF CallInv
        <4>3. IsAnswer(e) => ua["O"].dialog
          BY <1>1, <2>6, <3>3, <4>2, Zenon DEF Backed
        <4> QED  BY <1>2, <2>6, <4>1, <4>3, CallTypes
      <3> QED  BY <1>2, <3>1, <3>2, <3>3 DEF Leg
    <2>9. Untold(todo) => Untold(<<c>> \o todo) \/ ua["O"].dialog
      BY <1>2, <2>8, Speech
    <2> QED  BY <1>2, <1>3, <2>4, <2>5, <2>9, LegSeen
  <1> QED  BY <1>5, <1>6

LEMMA HandlesSeen ==
    ASSUME IInv, CallInv, HandleEvent
    PROVE  CallInv' /\ [AbstractCall!Next]_(AbstractCall!vars)
  <1>1. PICK u, e : u = Head(todo).u /\ e = Head(todo).e
    OBVIOUS
  <1>2. /\ todo \in Seq(Calls) /\ todo # <<>> /\ Head(todo) \in Calls /\ Head(todo).c = "recv"
        /\ ua["A"].st # "None"
    BY LegTypes, Pops DEF HandleEvent
  <1>3. u \in Leg /\ e \in Events
    BY <1>1, <1>2 DEF Calls
  <1>4. PICK way : Becomes(u, RecvEvent(ua[u], e, way), <<Emit(u)>> \o Tail(todo))
    BY <1>1 DEF HandleEvent
  <1>5. PICK r, s, cs : /\ r = ua[u] /\ s = RecvEvent(r, e, way)
                        /\ cs = <<Emit(u)>> \o Tail(todo)
    OBVIOUS
  <1>6. Becomes(u, s, cs)
    BY <1>4, <1>5
  <1>7. /\ Untold(todo) => Untold(cs)
        /\ Untold(todo) => ~(u = "A" /\ IsAnswer(e))
    <2>1. Tail(todo) \in Seq(Calls) /\ Emit(u) \in Calls /\ Emit(u).c # "recv"
      BY <1>2, <1>3, CallTypes
    <2>2. /\ Untold(todo) => Untold(Tail(todo))
          /\ Untold(todo) => ~(u = "A" /\ IsAnswer(e))
      BY <1>1, <1>2, Speech
    <2>3. Untold(Tail(todo)) => Untold(cs)
      BY <1>5, <2>1, Speech
    <2> QED  BY <2>2, <2>3
  <1>8. r \in UaRecords /\ Viewed(r)
    BY <1>3, <1>5, LegTypes, ViewedLeg
  <1>9. CASE e.k = "Try"
    <2>1. IsTry(Head(todo))
      BY <1>1, <1>2, <1>9 DEF IsTry
    <2>2. u = "O" /\ ua["O"].st = "None"
      BY <1>1, <1>2, <2>1, Pops DEF IInv, TryOnce
    <2>3. r.st = "None" /\ r.q = <<>>
      BY <1>3, <1>5, <2>2, LegTypes DEF NewUA
    <2>4. Dialled(r, s)
      BY <1>5, <1>8, <1>9, <2>3, TryDials
    <2> QED  BY <1>2, <1>3, <1>5, <1>6, <1>7, <2>2, <2>4, LegSeen
  <1>10. CASE e.k # "Try"
    <2>1. (~IsAnswer(e) => Calmly(r, s)) /\ Advances(r, s)
      BY <1>3, <1>5, <1>8, <1>10, EventAdvances
    <2>2. Calmly(r, s) \/ (Advances(r, s) /\ (u = "O" \/ ua["O"].dialog))
      BY <1>3, <1>7, <2>1 DEF CallInv, Leg
    <2> QED  BY <1>2, <1>3, <1>5, <1>6, <1>7, <2>2, LegSeen
  <1> QED  BY <1>9, <1>10

LEMMA ErrsSeen ==
    ASSUME IInv, CallInv, TryError
    PROVE  CallInv' /\ [AbstractCall!Next]_(AbstractCall!vars)
  <1>1. /\ todo \in Seq(Calls) /\ todo # <<>> /\ IsTry(Head(todo)) /\ ua["A"].st # "None"
        /\ "O" \in Leg /\ ua["O"] \in UaRecords /\ Head(todo).e.k = "Try"
    BY LegTypes DEF TryError, IsTry
  <1>2. PICK r, s, e : r = ua["O"] /\ s = [r EXCEPT !.st = "UacIdle"] /\ e = Head(todo).e
    OBVIOUS
  <1>3. Becomes("O", s, Tail(todo))
    BY <1>2 DEF TryError
  <1>4. ua["O"].st = "None"
    BY <1>1, Pops DEF IInv, TryOnce
  <1>5. r.st = "None" /\ r.q = <<>> /\ Viewed(r)
    BY <1>1, <1>2, <1>4, LegTypes, ViewedLeg DEF NewUA
  <1>6. Dialled(r, s)
    BY <1>1, <1>2, <1>5, TryDials
  <1>7. Untold(todo) => Untold(Tail(todo))
    BY <1>1, Speech
  <1> QED  BY <1>1, <1>2, <1>3, <1>6, <1>7, LegSeen

LEMMA DropsSeen ==
    ASSUME IInv, CallInv, UpdateError
    PROVE  CallInv' /\ [AbstractCall!Next]_(AbstractCall!vars)
  <1>1. PICK u : u = Head(todo).u  OBVIOUS
  <1>2. /\ todo \in Seq(Calls) /\ todo # <<>> /\ Head(todo) \in Calls /\ Head(todo).c = "recv"
        /\ ua["A"].st # "None"
    BY LegTypes, Pops DEF UpdateError
  <1>3. u \in Leg
    BY <1>1, <1>2 DEF Calls
  <1>4. PICK e : e = Head(todo).e  OBVIOUS
  <1>5. PICK r, s : r = ua[u] /\ s = [r EXCEPT !.late_media = @ \/ ~e.body]
    OBVIOUS
  <1>6. Becomes(u, s, Tail(todo))
    BY <1>1, <1>4, <1>5 DEF UpdateError
  <1>7. Viewed(r)
    BY <1>3, <1>5, LegTypes, ViewedLeg
  <1>8. Unseen(r, s)
    BY <1>5, <1>7 DEF Unseen, Viewed
  <1>9. Calmly(r, s)
    BY <1>7, <1>8, UnseenCalmly
  <1>10. Untold(todo) => Untold(Tail(todo))
    BY <1>2, Speech
  <1> QED  BY <1>2, <1>3, <1>5, <1>6, <1>9, <1>10, LegSeen

LEMMA ReturnsSeen ==
    ASSUME IInv, CallInv, RequestDone
    PROVE  CallInv' /\ [AbstractCall!Next]_(AbstractCall!vars)
  <1>1. PICK u : u = Head(todo).u  OBVIOUS
  <1>2. /\ todo \in Seq(Calls) /\ todo # <<>> /\ Head(todo) \in Calls /\ Head(todo).c = "bind"
        /\ ua["A"].st # "None"
    BY LegTypes, Pops DEF RequestDone
  <1>3. u \in Leg
    BY <1>1, <1>2 DEF Calls
  <1>4. PICK b : b = BoundCancel(ua[u])  OBVIOUS
  <1>5. PICK r, s : r = ua[u] /\ s = [r EXCEPT !.cancelCB = b]
    OBVIOUS
  <1>6. Becomes(u, s, Tail(todo))
    BY <1>1, <1>4, <1>5 DEF RequestDone
  <1>7. Viewed(r)
    BY <1>3, <1>5, LegTypes, ViewedLeg
  <1>8. Calmly(r, s)
    BY <1>5, <1>7, TimersCalmly
  <1>9. Untold(todo) => Untold(Tail(todo))
    BY <1>2, Speech
  <1> QED  BY <1>2, <1>3, <1>5, <1>6, <1>8, <1>9, LegSeen

LEMMA StopsSeen ==
    ASSUME IInv, CallInv, Shutdown
    PROVE  CallInv' /\ [AbstractCall!Next]_(AbstractCall!vars)
  <1>1. "A" \in Leg /\ todo \in Seq(Calls) /\ ua["A"].st # "None" /\ Viewed(ua["A"])
    BY LegTypes, ViewedLeg DEF Shutdown
  <1>2. PICK s, cs : s = Disconnect(ua["A"]) /\ cs = <<Emit("A")>> \o todo
    OBVIOUS
  <1>3. Becomes("A", s, cs)
    BY <1>2 DEF Shutdown
  <1>4. Calmly(ua["A"], s)
    BY <1>1, <1>2, DisconnectCalmly
  <1>5. Emit("A") \in Calls /\ Emit("A").c # "recv"
    BY <1>1, CallTypes
  <1>6. Untold(todo) => Untold(cs)
    BY <1>1, <1>2, <1>5, Speech
  <1> QED  BY <1>1, <1>3, <1>4, <1>6, LegSeen

LEMMA NewCallSeen ==
    ASSUME IInv, CallInv, NEW body \in BOOLEAN, NEW rel \in BOOLEAN, OnNewDialog(body, rel)
    PROVE  CallInv' /\ [AbstractCall!Next]_(AbstractCall!vars)
  <1>1. PICK r, w : r = ua["A"] /\ w = UasIdle_RecvRequest(r, body, rel)
    OBVIOUS
  <1>2. "A" \in Leg /\ "O" \in Leg /\ r \in UaRecords /\ r.st = "None" /\ Viewed(r) /\ r = NewUA
    BY <1>1, LegTypes, ViewedLeg DEF OnNewDialog
  <1>3. /\ r.q = <<>> /\ r.heldConnect = NoEv /\ r.uac = "none"
    BY <1>2 DEF NewUA
  <1>4. /\ Backed(w) /\ w.dialog = r.dialog /\ w.heldConnect = NoEv /\ w.uac = "none"
        /\ w.st = "UasTrying"
    BY <1>1, <1>2, <1>3, OfferView
  <1>5. ua \in [Leg -> UaRecords]
    BY DEF IInv, TypeOK
  <1>6. ua'["A"] = w /\ (\A v \in Leg : v # "A" => ua'[v] = ua[v]) /\ todo' = <<Emit("A"), Bind("A")>>
    BY <1>1, <1>2, <1>5 DEF OnNewDialog
  <1>7. Phase(r) = "none" /\ Phase(w) = "setup"
    BY <1>2, <1>4, Phases DEF UasEarly
  <1>8. [AbstractCall!Next]_(AbstractCall!vars)
    BY <1>1, <1>2, <1>4, <1>6, <1>7, Seen
  <1>9. \A u \in Leg : Backed(ua'[u])
    BY <1>4, <1>6 DEF CallInv
  <1>10. Untold(todo')
    BY <1>2, <1>6, Unspoken
  <1>11. CallInv'
    BY <1>4, <1>6, <1>9, <1>10 DEF CallInv
  <1> QED  BY <1>8, <1>11

\* Who is served has begun.
LEMMA Begun ==
    ASSUME IInv, NEW u \in Leg, PeerRequest(u) \/ Transaction(u) \/ TimerStep(u)
    PROVE  /\ ua["A"].st # "None" /\ Unlocked
           /\ ua[u] \in UaRecords /\ Viewed(ua[u]) /\ LegInv(ua[u])
  <1>1. Unlocked
    BY Zenon DEF PeerRequest, Transaction, TimerStep, BYE, REFER, INFO, ReINVITE, InDialog, Cancelled, ACK,
       NoAck, PRACK, NoPrack, ReferResponse, ProvisionalResponse, FinalResponse, Pop, Fire
  <1>2. ASSUME ua[u] = NewUA PROVE FALSE
    <2>1. /\ ua[u].st = "None" /\ ua[u].uas = "none" /\ ~ua[u].prov /\ ua[u].refer = "none"
          /\ ua[u].uac = "none" /\ ua[u].arm = {} /\ ua[u].pop = {}
      BY <1>2 DEF NewUA
    <2>2. ~PeerRequest(u)
      BY <2>1 DEF PeerRequest, BYE, REFER, INFO, ReINVITE, InDialog, IsConnected
    <2>3. ~Transaction(u)
      BY <2>1 DEF Transaction, Cancelled, ACK, NoAck, PRACK, NoPrack, ReferResponse, ProvisionalResponse,
         FinalResponse
    <2>4. ~TimerStep(u)
      BY <2>1 DEF TimerStep, Pop, Fire
    <2> QED  BY <2>2, <2>3, <2>4
  <1>3. ua[u].st # "None" /\ ua["A"].st # "None"
    BY <1>2, LegTypes
  <1> QED  BY <1>1, <1>3, LegTypes, ViewedLeg

LEMMA ServesSeen ==
    ASSUME IInv, CallInv, NEW u \in Leg, PeerRequest(u) \/ Transaction(u) \/ TimerStep(u)
    PROVE  CallInv' /\ [AbstractCall!Next]_(AbstractCall!vars)
  <1>1. /\ ua["A"].st # "None" /\ ua[u] \in UaRecords /\ Viewed(ua[u]) /\ LegInv(ua[u])
        /\ Untold(<<>>) /\ Untold(<<Emit(u)>>) /\ Untold(<<Emit(u), Bind(u)>>)
    BY Begun, Unspoken
  <1>2. PICK r : r = ua[u]  OBVIOUS
  <1>3. ASSUME NEW s, Calmly(r, s), NEW cs, Untold(cs), Becomes(u, s, cs)
        PROVE  CallInv' /\ [AbstractCall!Next]_(AbstractCall!vars)
    BY <1>1, <1>2, <1>3, LegSeen
  <1>4. CASE BYE(u) \/ REFER(u) \/ INFO(u)
    <2>1. PICK s : Calmly(r, s) /\ InDialog(u, s)
      BY <1>1, <1>2, <1>4, RequestsCalmly DEF BYE, REFER, INFO
    <2> QED  BY <1>1, <1>3, <2>1 DEF InDialog
  <1>5. CASE ReINVITE(u)
    <2>1. PICK body \in {TRUE, ~LateMedia}, same \in BOOLEAN :
             LET s == RecvReINVITE(ua[u], body, same)
             IN  Becomes(u, s, IF s.st # ua[u].st THEN <<Emit(u), Bind(u)>> ELSE <<Emit(u)>>)
      BY <1>5 DEF ReINVITE
    <2>2. PICK s : s = RecvReINVITE(ua[u], body, same)  OBVIOUS
    <2>3. Calmly(r, s)
      BY <1>1, <1>2, <2>2, RequestsCalmly
    <2>4. Becomes(u, s, <<Emit(u), Bind(u)>>) \/ Becomes(u, s, <<Emit(u)>>)
      BY <2>1, <2>2
    <2> QED  BY <1>1, <1>3, <2>3, <2>4
  <1>6. CASE Cancelled(u)
    BY <1>1, <1>2, <1>3, <1>6, CancelCalmly DEF Cancelled
  <1>7. CASE ACK(u)
    <2>1. PICK p : p = ua[u].pendUpdate  OBVIOUS
    <2>2. PICK body \in BOOLEAN :
             Becomes(u, RecvACK(ua[u], body),
                     IF ua[u].ackw /\ ua[u].st = "PreConnect" /\ p # NoEv
                     THEN <<Emit(u), Recv(u, p)>> ELSE <<Emit(u)>>)
      BY <1>7, <2>1 DEF ACK
    <2>3. PICK s : s = RecvACK(ua[u], body)  OBVIOUS
    <2>4. Calmly(r, s)
      BY <1>1, <1>2, <2>3, ACKCalmly
    <2>5. p # NoEv => p \in Events /\ p.k = "Update"
      BY <1>1, <2>1 DEF LegInv, Held, UaRecords
    <2>6. \/ Becomes(u, s, <<Emit(u)>>)
          \/ p # NoEv /\ Becomes(u, s, <<Emit(u), Recv(u, p)>>)
      BY <2>2, <2>3
    <2>7. p # NoEv => Untold(<<Emit(u), Recv(u, p)>>)
      BY <2>5, Unspoken
    <2> QED  BY <1>1, <1>3, <2>4, <2>6, <2>7
  <1>8. CASE NoAck(u) \/ ReferResponse(u)
    <2>1. Calmly(r, Disconnect([r EXCEPT !.uas = "closed"])) /\ Calmly(r, ReferAnswered(r))
      BY <1>1, <1>2, TimersCalmly
    <2>2. PICK s : Calmly(r, s) /\ (Becomes(u, s, <<Emit(u)>>) \/ Becomes(u, s, <<>>))
      BY <1>2, <1>8, <2>1 DEF NoAck, ReferResponse
    <2> QED  BY <1>1, <1>3, <2>2
  <1>9. CASE PRACK(u)
    <2>1. PICK p, s : p = ua[u].heldUpdate /\ s = RecvPRACK(ua[u])
      OBVIOUS
    <2>2. Becomes(u, s, IF ua[u].st = "UasRingingRel" /\ p # NoEv THEN <<Recv(u, p)>> ELSE <<>>)
      BY <1>9, <2>1 DEF PRACK
    <2>3. p # NoEv => p \in Events /\ p.k = "Update"
      BY <1>1, <2>1 DEF LegInv, Held, UaRecords
    <2>4. p # NoEv => Untold(<<Recv(u, p)>>)
      BY <2>3, Unspoken
    <2>5. PICK cs : Untold(cs) /\ Becomes(u, s, cs)
      BY <1>1, <2>2, <2>4
    <2>6. (r.heldConnect = NoEv => Calmly(r, s)) /\ Advances(r, s)
      BY <1>1, <1>2, <2>1, PRACKAdvances DEF LegInv
    <2>7. Calmly(r, s) \/ (Advances(r, s) /\ (u = "O" \/ ua["O"].dialog))
      BY <1>2, <2>6 DEF CallInv, Leg
    <2> QED  BY <1>1, <1>2, <2>5, <2>7, LegSeen
  <1>10. CASE NoPrack(u)
    <2>1. PICK a : a = [r EXCEPT !.prov = FALSE]  OBVIOUS
    <2>2. Calmly(r, a) /\ Calmly(r, Disconnect(a))
      BY <1>1, <1>2, <2>1, TimersCalmly
    <2>3. PICK s : Calmly(r, s) /\ Becomes(u, s, <<Emit(u)>>)
      BY <1>2, <1>10, <2>1, <2>2 DEF NoPrack
    <2> QED  BY <1>1, <1>3, <2>3
  <1>11. CASE \E m \in Messages : ProvisionalResponse(u, m) \/ FinalResponse(u, m)
    <2>1. PICK m \in Messages : ProvisionalResponse(u, m) \/ FinalResponse(u, m)
      BY <1>11
    <2>2. PICK s : s = RecvResponse(ua[u], m)  OBVIOUS
    <2>3. /\ m \in Responses /\ r.uac \in {"calling", "proceeding"}
          /\ Becomes(u, s, <<Emit(u)>>)
      BY <1>2, <2>1, <2>2 DEF ProvisionalResponse, FinalResponse, Messages
    <2>4. Backed(r) /\ (u = "A" => r.dialog)
      BY <1>2, <2>3 DEF CallInv
    <2>5. (r.dialog => Calmly(r, s)) /\ (Advances(r, s) \/ Late(r, s))
      BY <1>1, <1>2, <2>2, <2>3, <2>4, ResponseAdvances
    <2>6. Calmly(r, s) \/ (u = "O" /\ (Advances(r, s) \/ Late(r, s)))
      BY <2>4, <2>5 DEF Leg
    <2> QED  BY <1>1, <1>2, <2>3, <2>6, LegSeen
  <1>12. CASE TimerStep(u)
    <2>1. PICK x : Pop(u, x) \/ Fire(u, x)
      BY <1>12 DEF TimerStep
    <2>2. Calmly(r, [r EXCEPT !.arm = @ \ {x}, !.pop = @ \cup {x}]) /\ Calmly(r, Expired(r, x))
      BY <1>1, <1>2, TimersCalmly
    <2>3. PICK s : Calmly(r, s) /\ (Becomes(u, s, <<Emit(u)>>) \/ Becomes(u, s, <<>>))
      BY <1>2, <2>1, <2>2 DEF Pop, Fire
    <2> QED  BY <1>1, <1>3, <2>3
  <1> QED  BY <1>4, <1>5, <1>6, <1>7, <1>8, <1>9, <1>10, <1>11, <1>12 DEF PeerRequest, Transaction

LEMMA CallBegins == Init => CallInv /\ AbstractCall!Init
  <1> SUFFICES ASSUME Init PROVE CallInv /\ AbstractCall!Init
    OBVIOUS
  <1>1. /\ \A u \in Leg : ua[u] = NewUA
        /\ "A" \in Leg /\ "O" \in Leg /\ todo = <<>>
    BY DEF Init, Leg
  <1>2. /\ NewUA.st = "None" /\ NewUA.q = <<>> /\ ~NewUA.dialog /\ NewUA.uac = "none"
        /\ NewUA.heldConnect = NoEv
    BY DEF NewUA
  <1>3. Backed(NewUA)
    BY <1>2 DEF Backed, IsConnected
  <1>4. CallInv
    BY <1>1, <1>2, <1>3, Unspoken DEF CallInv
  <1>5. Phase(NewUA) = "none"
    BY <1>2, Phases
  <1>6. AbstractCall!Init
    BY <1>1, <1>2, <1>5 DEF AbstractCall!Init, Leg
  <1> QED  BY <1>4, <1>6

LEMMA CallStep ==
    ASSUME IInv, CallInv, [Next]_vars
    PROVE  CallInv' /\ [AbstractCall!Next]_(AbstractCall!vars)
  <1>1. CASE emitPendingEvents
    BY <1>1, EmitsSeen
  <1>2. CASE HandleEvent
    BY <1>2, HandlesSeen
  <1>3. CASE TryError
    BY <1>3, ErrsSeen
  <1>4. CASE RequestDone
    BY <1>4, ReturnsSeen
  <1>5. CASE Caller
    <2>1. PICK body \in BOOLEAN, rel \in BOOLEAN : OnNewDialog(body, rel)
      BY <1>5 DEF Caller
    <2> QED  BY <2>1, NewCallSeen
  <1>6. CASE Shutdown
    BY <1>6, StopsSeen
  <1>7. ASSUME NEW u \in Leg, PeerRequest(u) \/ Transaction(u) \/ TimerStep(u)
        PROVE  CallInv' /\ [AbstractCall!Next]_(AbstractCall!vars)
    BY <1>7, ServesSeen
  <1>9. CASE UpdateError
    BY <1>9, DropsSeen
  <1>8. CASE UNCHANGED vars
    <2>1. ua' = ua /\ todo' = todo
      BY <1>8 DEF vars
    <2>2. CallInv'
      BY <2>1 DEF CallInv
    <2>3. UNCHANGED AbstractCall!vars
      BY <2>1 DEF AbstractCall!vars
    <2> QED  BY <2>2, <2>3
  <1> QED  BY <1>1, <1>2, <1>3, <1>4, <1>5, <1>6, <1>7, <1>8, <1>9 DEF Next, UnderLock

-----------------------------------------------------------------------------
(* The theorems.                                                            *)

\* The legs, the calls under the lock and the counters keep their types.
THEOREM TypeCorrect == Spec => []TypeOK
  <1>1. IInv /\ [Next]_vars => IInv'
    BY Inductive
  <1>2. IInv => TypeOK
    BY DEF IInv
  <1> QED  BY <1>1, <1>2, Begins, PTL DEF Spec

\* Every INVITE of a peer has one final response, whichever of the CANCEL, the
\* timers, the other leg and the peer's BYE comes first: SendUasResponse is never
\* called for an INVITE that was answered, nor for a second reliable response while
\* the first waits for its PRACK, and a leg that is over leaves no INVITE open
\* unless a BYE or REFER overtook the answer.
THEOREM InvitesAnsweredHolds == Spec => []InvitesAnswered
  <1>1. IInv /\ [Next]_vars => IInv'
    BY Inductive
  <1>2. IInv => InvitesAnswered
    <2>1. ASSUME NEW r, LegInv(r), r.st \in Over, ~r.early_bye PROVE r.uas # "early"
      BY <2>1 DEF LegInv, Answering, Asked, UasEarly, Over
    <2> QED  BY <2>1 DEF IInv, Legs, LegInv, InvitesAnswered, NoReplyLost, InviteAnswered, ReliableOneByOne
  <1> QED  BY <1>1, <1>2, Begins, PTL DEF Spec

\* A leg whose dialog was established is hung up with a BYE, or a REFER in its
\* place, when it is over; the ACK that late media makes it owe is sent whatever
\* takes it out of Connected.
THEOREM DialogClosedHolds == Spec => []DialogClosed
  <1>1. IInv /\ [Next]_vars => IInv'
    BY Inductive
  <1>2. IInv => DialogClosed
    BY DEF IInv, Legs, LegInv, Closing, DialogClosed, HangsUp, AckOwed
  <1> QED  BY <1>1, <1>2, Begins, PTL DEF Spec

\* The setup and the credit of a call are under a timer all the time, whichever of
\* the timers the application configured; no credit timer is leaked by starting a
\* second one, nor runs on after its leg.
THEOREM TimersRightHolds == Spec => []TimersRight
  <1>1. IInv /\ [Next]_vars => IInv'
    BY Inductive
  <1>2. ASSUME NEW r, LegInv(r)
        PROVE  /\ "credit_leak" \notin r.faults
               /\ "ex" \in Timed /\ r.st \in UasEarly \cup {"UacTrying", "UacRinging"}
                    => {"np", "nr", "ex"} \cap (r.arm \cup r.pop) # {}
               /\ "cr" \in Timed /\ ~r.late_media =>
                    /\ r.st \in (IsConnected \ IF r.confirm THEN {"PreConnect"} ELSE {})
                         => r.pending_tr \/ "cr" \in r.arm \cup r.pop
                    /\ "cr" \in r.arm => r.st \in IsConnected
    BY <1>2 DEF LegInv, Timing, Allowed, Covered, Setup
  <1>3. IInv => TimersRight
    BY <1>2 DEF IInv, Legs, TimersRight, SetupTimed, CreditEnforced, NoCreditLeak
  <1> QED  BY <1>1, <1>3, Begins, PTL DEF Spec

\* No late ACK, PRACK, response, event or timer makes a leg active again that is
\* Cancelling, Disconnected, Failed or Dead.
THEOREM OverIsFinalHolds == Spec => OverIsFinal
  <1>1. IInv /\ [Next]_vars => IInv'
    BY Inductive
  <1>2. IInv /\ [Next]_vars => [\A u \in Leg : ua[u].st \in Over => ua'[u].st \in Over]_vars
    BY Inductive
  <1> QED  BY <1>1, <1>2, Begins, PTL DEF Spec, OverIsFinal

\* There is no half call: when the session lock is free, leg A is over exactly if
\* leg O is, whichever of the messages and timers ended one of them.
THEOREM LegsAgreeHolds ==
    ASSUME ~LateMedia, ~SigTerm
    PROVE  Spec => []LegsAgree
  <1>1. PairInv /\ [Next]_vars => PairInv'
    BY PairInductive
  <1>2. PairInv => LegsAgree
    <2> SUFFICES ASSUME PairInv, Unlocked, ua["O"].st # "None"
                 PROVE  ua["A"].st \in Over <=> ua["O"].st \in Over
      BY DEF LegsAgree, A, O
    <2>1. "A" \in Leg /\ "O" \in Leg /\ Other("O") = "A" /\ IInv
      BY Others DEF Leg, PairInv
    <2>2. CASE BothOver
      BY <2>1, <2>2 DEF BothOver
    <2>3. CASE Talk
      <3>1. Calm
        BY <2>1, <2>3, UnlockedCalm
      <3>2. Stage(ua["O"]) \in Live /\ Stage(ua["A"]) \in Live
        BY <2>1, <3>1, CalmLegs, Matches
      <3> QED  BY <2>1, <3>2, LegTypes, LiveLeg
    <2> QED  BY <2>2, <2>3 DEF PairInv
  <1> QED  BY <1>1, <1>2, PairBegins, PTL DEF Spec

\* A re-INVITE that is open on one leg is being asked on the other one, or kept
\* there until the ACK or PRACK lets it go: nobody waits for an answer that nobody
\* is going to give, as long as every re-INVITE of the call could be sent.
THEOREM UpdatePairedHolds ==
    ASSUME ~LateMedia, ~SigTerm
    PROVE  Spec => []UpdatePaired
  <1>1. PairInv /\ [Next]_vars => PairInv'
    BY PairInductive
  <1>2. PairInv => UpdatePaired
    <2> SUFFICES ASSUME PairInv, NEW u \in Leg, Unlocked, ~unsent, ua[u].st = "UasUpdating"
                 PROVE  LET o == ua[Other(u)]
                        IN  \/ o.st = "UacUpdating"
                            \/ o.st = "PreConnect" /\ o.pendUpdate # NoEv
                            \/ o.st = "UasRingingRel" /\ o.heldUpdate # NoEv
      BY DEF UpdatePaired
    <2>1. IInv /\ ~BothOver
      BY DEF PairInv, BothOver, Over
    <2>2. Calm
      BY <2>1, UnlockedCalm DEF PairInv
    <2>3. PICK o : o = ua[Other(u)]  OBVIOUS
    <2>4. Matched(unsent, Stage(ua[u]), Stage(o)) /\ Stage(ua[u]) \in Live /\ ua[u] \in UaRecords
      BY <2>1, <2>2, <2>3, CalmLegs
    <2>5. Stage(ua[u]) = "asked"
      BY <2>4, LiveLeg, Stages
    <2>6. Stage(o) \in {"kept", "asking"}
      BY <2>4, <2>5 DEF Matched
    <2>7. o \in UaRecords /\ ~Offers(NoEv)
      BY <2>1, <2>3, LegTypes, Others DEF Offers, NoEv
    <2>8. \/ o.st = "UacUpdating"
          \/ o.st = "PreConnect" /\ o.pendUpdate # NoEv
          \/ o.st = "UasRingingRel" /\ o.heldUpdate # NoEv
      BY <2>6, <2>7, Stages
    <2> QED  BY <2>3, <2>8
  <1> QED  BY <1>1, <1>2, PairBegins, PTL DEF Spec

\* The legs and their controller implement Call: whatever the peers send, in
\* whatever order, and whatever the timers and the process do, the caller gets a 200
\* OK only for an INVITE that the callee answered, no leg skips its setup, and none
\* comes back that is over.
THEOREM ImplementsCallHolds == Spec => ImplementsCall
  <1>1. IInv /\ [Next]_vars => IInv'
    BY Inductive
  <1>2. IInv /\ CallInv /\ [Next]_vars => CallInv' /\ [AbstractCall!Next]_(AbstractCall!vars)
    BY CallStep
  <1>3. Init => IInv /\ CallInv /\ AbstractCall!Init
    BY Begins, CallBegins
  <1> QED  BY <1>1, <1>2, <1>3, PTL DEF Spec, ImplementsCall, AbstractCall!Spec
=============================================================================
