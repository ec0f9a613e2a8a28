------------------------ MODULE RtpProxyClientProofs ------------------------
(***************************************************************************)
(* RtpProxyClient for any number of requests, of capabilities and of       *)
(* retransmissions, over both transports: no callback runs twice, a client *)
(* that is off line comes back unless a count was spoilt, and one that is  *)
(* on line is watched.                                                     *)
(***************************************************************************)
EXTENDS RtpProxyClient, WellFoundedInduction, FiniteSetTheorems, TLAPS

-----------------------------------------------------------------------------
(* The inductive invariant *)

\* The requests of kind k that are in progress among rs.
Of(rs, k) == {r \in Slots : rs[r].k = k /\ rs[r].st # "done"}

\* Who has a request: pending_requests, a goroutine, or nobody any more; only the
\* last has called back.
Owned(x) ==
    /\ x.st = "done" => x.calls = 1
    /\ x.st # "done" => x.calls = 0
    /\ x.reg => x.st = "sent"
    /\ x.resend => x.st # "sending" /\ (x.st = "sent" => x.tries > 0)

Owners == \A r \in Slots : Owned(req[r])

\* Before the capabilities are known there is one version check at most, and
\* the capabilities are asked for once.
First ==
    ~caps_done =>
      /\ ~online /\ \A r \in Slots : ~req[r].saw.online
      /\ vtimers <= 1 /\ (Of(req, "V") # {} => vtimers = 0)
      /\ \A r, q \in Of(req, "V") : r = q
      /\ vtimers > 0 \/ Of(req, "V") # {} => Of(req, "VF") = {} /\ caps_received = 0

\* What is counted and what is still to come is not more than was asked for,
\* whichever of the counts that callbacks have read is written last.
Counted ==
    /\ caps_done => Of(req, "VF") = {}
    /\ caps_received + Cardinality(Of(req, "VF")) <= NCaps
    /\ \A r \in Of(req, "VF") : req[r].st = "callback" =>
         req[r].saw.received + Cardinality(Of(req, "VF")) <= NCaps

\* The heartbeat that goes on: its callback has not read that the client is off line.
Watch ==
    online /\ ~shut_down =>
      \/ htimers > 0
      \/ \E r \in Of(req, "I") : req[r].st = "callback" => req[r].saw.online

\* The version check that brings the client back: its callback has not read that
\* the client is on line.
Return ==
    ~online /\ ~shut_down =>
      \/ vtimers > 0
      \/ \E r \in Of(req, "V") : req[r].st = "callback" /\ req[r].res = "ok" => ~req[r].saw.online
      \/ Of(req, "VF") # {}
      \/ ~caps_done /\ caps_received < NCaps

Fields ==
    /\ transport \in {"udp", "stream"}
    /\ online \in BOOLEAN /\ caps_done \in BOOLEAN /\ shut_down \in BOOLEAN
    /\ caps_received \in 0..NCaps /\ vtimers \in 0..MaxTimers /\ htimers \in 0..MaxTimers
    /\ req \in [Slots -> Requests]

IInv == Fields /\ Owners /\ First /\ Counted /\ Watch /\ Return

-----------------------------------------------------------------------------
(* Sending *)

LEMMA Least ==
    ASSUME NEW T \in SUBSET Nat, T # {}
    PROVE  \E m \in T : \A k \in T : m <= k
  <1>1. IsWellFoundedOn(OpToRel(<, Nat), Nat)
    BY NatLessThanWellFounded
  <1>2. \E m \in T : \A y \in T : ~(<<y, m>> \in OpToRel(<, Nat))
    BY <1>1, WFMin
  <1>3. PICK m \in T : \A k \in T : ~(k < m)
    BY <1>2 DEF OpToRel
  <1>4. \A k \in T : k \in Nat /\ m \in Nat
    OBVIOUS
  <1> QED
    BY <1>3, <1>4

\* The n first elements of a set, by the least n for which there were none.
LEMMA FirstElements ==
    ASSUME NEW F \in SUBSET Nat, IsFiniteSet(F), NEW n \in Nat, Cardinality(F) >= n
    PROVE  \E S \in SUBSET F : Cardinality(S) = n /\ \A r \in S, q \in F \ S : r < q
  <1> DEFINE Has(m) == \E S \in SUBSET F : Cardinality(S) = m /\ \A r \in S, q \in F \ S : r < q
             T == {m \in Nat : m <= n /\ ~Has(m)}
  <1>1. SUFFICES ASSUME T # {} PROVE FALSE
    <2>1. n \notin T
      BY <1>1
    <2> QED
      BY <2>1
  <1>2. PICK m \in T : \A k \in T : m <= k
    BY <1>1, Least
  <1>3. Has(0)
    BY FS_EmptySet
  <1>4. m # 0
    BY <1>2, <1>3
  <1>5. m - 1 \in Nat /\ m - 1 < m /\ m - 1 <= n
    BY <1>2, <1>4
  <1>6. Has(m - 1)
    BY <1>2, <1>5
  <1>7. PICK S \in SUBSET F : Cardinality(S) = m - 1 /\ \A r \in S, q \in F \ S : r < q
    BY <1>6
  <1>8. IsFiniteSet(S)
    BY FS_Subset
  <1>9. F \ S # {}
    <2> SUFFICES ASSUME F \ S = {} PROVE FALSE
      OBVIOUS
    <2>1. F = S
      OBVIOUS
    <2>2. Cardinality(S) >= n
      BY <2>1
    <2> QED
      BY <1>2, <1>7, <2>2
  <1>10. PICK x \in F \ S : \A y \in F \ S : x <= y
    BY <1>9, Least
  <1>11. Cardinality(S \union {x}) = (m - 1) + 1
    BY <1>7, <1>8, <1>10, FS_AddElement
  <1>12. Cardinality(S \union {x}) = m
    BY <1>2, <1>11
  <1>13. S \union {x} \in SUBSET F
    BY <1>10
  <1>14. ASSUME NEW r \in S \union {x}, NEW q \in F \ (S \union {x}) PROVE r < q
    <2>1. q \in F \ S /\ q # x
      OBVIOUS
    <2>2. CASE r \in S
      BY <1>7, <2>1, <2>2
    <2>3. CASE r = x
      <3>1. x <= q /\ x \in Nat /\ q \in Nat
        BY <1>10, <2>1
      <3> QED
        BY <2>1, <2>3, <3>1
    <2> QED
      BY <2>2, <2>3
  <1>15. Has(m)
    BY <1>12, <1>13, <1>14
  <1> QED
    BY <1>2, <1>15

\* What Send_command leaves: n requests of kind k in slots that were free.
Sent(rs, k, S) == [r \in Slots |-> IF r \in S THEN NewRequest(k) ELSE rs[r]]

LEMMA SendingIs ==
    ASSUME NEW rs, NEW k, NEW n \in Nat, Room(rs, n)
    PROVE  \E S \in SUBSET Free(rs) : Cardinality(S) = n /\ Sending(rs, k, n) = Sent(rs, k, S)
  <1>1. Slots \in SUBSET Nat /\ IsFiniteSet(Slots)
    <2>1. MaxReqs \in Int /\ 1 \in Int /\ MaxReqs \in Nat
      BY RtpProxyClientAssumption DEF RtpProxyClientAssumption
    <2>2. IsFiniteSet(1..MaxReqs)
      BY <2>1, FS_Interval
    <2> QED
      BY <2>1, <2>2 DEF Slots
  <1>2. Free(rs) \in SUBSET Slots
    BY DEF Free
  <1>3. IsFiniteSet(Free(rs)) /\ Free(rs) \in SUBSET Nat
    BY <1>1, <1>2, FS_Subset
  <1>4. Cardinality(Free(rs)) >= n
    BY DEF Room
  <1>5. \E S \in SUBSET Free(rs) : Cardinality(S) = n /\ \A r \in S, q \in Free(rs) \ S : r < q
    BY <1>3, <1>4, FirstElements
  <1> DEFINE new == CHOOSE S \in SUBSET Free(rs) :
                      Cardinality(S) = n /\ \A r \in S, q \in Free(rs) \ S : r < q
  <1>6. new \in SUBSET Free(rs) /\ Cardinality(new) = n
    BY <1>5
  <1>7. Sending(rs, k, n) = Sent(rs, k, new)
    BY Zenon DEF Sending, Sent
  <1> HIDE DEF new
  <1> QED
    BY <1>6, <1>7

LEMMA SlotsFinite ==
    ASSUME NEW S \in SUBSET Slots
    PROVE  IsFiniteSet(S) /\ Cardinality(S) \in Nat
  <1>1. MaxReqs \in Int /\ 1 \in Int
    BY RtpProxyClientAssumption DEF RtpProxyClientAssumption
  <1>2. IsFiniteSet(1..MaxReqs)
    BY <1>1, FS_Interval
  <1> QED
    BY <1>2, FS_Subset, FS_CardinalityType DEF Slots

LEMMA NewFacts ==
    ASSUME NEW k \in Kinds, transport \in {"udp", "stream"}
    PROVE  /\ NewRequest(k) \in Requests /\ Owned(NewRequest(k))
           /\ NewRequest(k).k = k /\ NewRequest(k).st \notin {"done", "callback"}
           /\ ~NewRequest(k).saw.online
  <1>1. NewRequest(k) \in Requests
    BY RtpProxyClientAssumption DEF RtpProxyClientAssumption, NewRequest, Requests, Blank
  <1> QED
    BY <1>1 DEF NewRequest, Owned, Blank

LEMMA SentFacts ==
    ASSUME NEW rs, NEW k \in Kinds, NEW S \in SUBSET Free(rs), transport \in {"udp", "stream"}
    PROVE  /\ \A r \in S : Sent(rs, k, S)[r] = NewRequest(k)
           /\ \A r \in Slots \ S : Sent(rs, k, S)[r] = rs[r]
           /\ Of(Sent(rs, k, S), k) = Of(rs, k) \union S /\ Of(rs, k) \cap S = {}
           /\ \A j \in Kinds \ {k} : Of(Sent(rs, k, S), j) = Of(rs, j)
  <1>1. \A r \in S : r \in Slots /\ rs[r].st = "done"
    BY DEF Free
  <1>2. /\ \A r \in S : Sent(rs, k, S)[r] = NewRequest(k)
        /\ \A r \in Slots \ S : Sent(rs, k, S)[r] = rs[r]
    BY <1>1 DEF Sent
  <1>3. NewRequest(k).k = k /\ NewRequest(k).st # "done"
    BY NewFacts
  <1> HIDE DEF Sent, NewRequest
  <1>4. Of(Sent(rs, k, S), k) = Of(rs, k) \union S /\ Of(rs, k) \cap S = {}
    BY <1>1, <1>2, <1>3 DEF Of
  <1>5. ASSUME NEW j \in Kinds, j # k PROVE Of(Sent(rs, k, S), j) = Of(rs, j)
    BY <1>1, <1>2, <1>3, <1>5 DEF Of
  <1> QED
    BY <1>2, <1>4, <1>5

States == {"sending", "sent", "giveup", "callback", "done"}
Results == {"ok", "bad", ""}
Seen == [online : BOOLEAN, received : 0..NCaps]

\* What a step makes of a request is a request.
LEMMA Registered ==
    ASSUME NEW y \in Requests, NEW s \in States, NEW a \in BOOLEAN
    PROVE  [y EXCEPT !.st = s, !.reg = a] \in Requests
  BY DEF Requests, States

LEMMA TimerChanged ==
    ASSUME NEW y \in Requests, NEW a \in BOOLEAN
    PROVE  [y EXCEPT !.timer = a] \in Requests
  BY DEF Requests

LEMMA GivenUp ==
    ASSUME NEW y \in Requests, NEW s \in States, NEW saw \in Seen, NEW a \in BOOLEAN, NEW b \in BOOLEAN
    PROVE  [y EXCEPT !.timer = a, !.reg = b, !.st = s, !.saw = saw] \in Requests
  BY DEF Requests, States, Seen

LEMMA Resending ==
    ASSUME NEW y \in Requests, NEW a \in BOOLEAN, NEW b \in BOOLEAN
    PROVE  [y EXCEPT !.timer = a, !.resend = b] \in Requests
  BY DEF Requests

LEMMA Resent ==
    ASSUME NEW y \in Requests, NEW a \in BOOLEAN, NEW b \in BOOLEAN, NEW t \in 0..MaxTries
    PROVE  [y EXCEPT !.resend = a, !.timer = b, !.tries = t] \in Requests
  BY DEF Requests

LEMMA Answered ==
    ASSUME NEW y \in Requests, NEW s \in States, NEW saw \in Seen, NEW res \in Results,
           NEW a \in BOOLEAN, NEW b \in BOOLEAN
    PROVE  /\ [y EXCEPT !.reg = a, !.timer = b, !.st = s, !.res = res, !.saw = saw] \in Requests
           /\ [y EXCEPT !.reg = a, !.st = s, !.res = res, !.saw = saw] \in Requests
  BY DEF Requests, States, Seen, Results

LEMMA CallsBack ==
    ASSUME NEW y \in Requests, NEW s \in States, NEW saw \in Seen
    PROVE  [y EXCEPT !.st = s, !.saw = saw] \in Requests
  BY DEF Requests, States, Seen

LEMMA CalledBack ==
    ASSUME NEW y \in Requests, NEW s \in States, NEW k \in Kinds, NEW saw \in Seen,
           NEW res \in Results, NEW t \in 0..MaxTries, NEW c \in 0..2
    PROVE  [y EXCEPT !.st = s, !.k = k, !.saw = saw, !.res = res, !.tries = t, !.calls = c] \in Requests
  BY DEF Requests, States, Seen, Results

\* A callback that ends.
LEMMA FinishedFacts ==
    ASSUME req \in [Slots -> Requests], NEW r \in Slots, Owned(req[r]), req[r].st = "callback"
    PROVE  /\ Finished(r) \in [Slots -> Requests] /\ Owned(Finished(r)[r])
           /\ \A q \in Slots : q # r => Finished(r)[q] = req[q]
           /\ \A j : Of(Finished(r), j) = Of(req, j) \ {r}
           /\ ~Finished(r)[r].saw.online
  <1>0. req[r] \in Requests /\ req[r].calls = 0 /\ ~req[r].reg
    BY DEF Owned
  <1>1. PICK x : x = [req[r] EXCEPT !.st = "done", !.k = "cmd", !.saw = Blank, !.res = "",
                                    !.tries = 0, !.calls = IF @ < 2 THEN @ + 1 ELSE @]
    OBVIOUS
  <1>2. Finished(r) = [req EXCEPT ![r] = x]
    BY <1>0, <1>1 DEF Finished, Requests
  <1>3. x \in Requests /\ x.st = "done" /\ x.calls = 1 /\ ~x.saw.online /\ ~x.reg
    <2>1. Blank \in [online : BOOLEAN, received : 0..NCaps] /\ ~Blank.online /\ 0 \in 0..MaxTries
      BY RtpProxyClientAssumption DEF RtpProxyClientAssumption, Blank
    <2>2. x = [req[r] EXCEPT !.st = "done", !.k = "cmd", !.saw = Blank, !.res = "",
                             !.tries = 0, !.calls = 1]
      <3>1. (IF req[r].calls < 2 THEN req[r].calls + 1 ELSE req[r].calls) = 1
        BY <1>0
      <3> QED
        BY <1>1, <3>1
    <2> HIDE DEF Blank
    <2>3. x \in Requests
      <3>1. "done" \in States /\ "cmd" \in Kinds /\ "" \in Results /\ 1 \in 0..2 /\ Blank \in Seen
        BY <2>1 DEF Kinds, States, Results, Seen
      <3> QED
        BY <1>0, <2>1, <2>2, <3>1, CalledBack
    <2>4. x.st = "done" /\ x.calls = 1 /\ x.saw = Blank
      BY <1>0, <2>2 DEF Requests
    <2>5. x.reg = req[r].reg
      BY <1>0, <2>2 DEF Requests
    <2> QED
      BY <1>0, <2>1, <2>3, <2>4, <2>5
  <1>4. /\ Finished(r) \in [Slots -> Requests] /\ Finished(r)[r] = x
        /\ \A q \in Slots : q # r => Finished(r)[q] = req[q]
    BY <1>2, <1>3
  <1>5. ASSUME NEW j PROVE Of(Finished(r), j) = Of(req, j) \ {r}
    BY <1>3, <1>4 DEF Of
  <1> QED
    BY <1>3, <1>4, <1>5 DEF Owned

LEMMA SentTyped ==
    ASSUME transport \in {"udp", "stream"}, NEW rs \in [Slots -> Requests],
           \A q \in Slots : Owned(rs[q]), NEW k \in Kinds, NEW S \in SUBSET Free(rs)
    PROVE  /\ Sent(rs, k, S) \in [Slots -> Requests]
           /\ \A q \in Slots : Owned(Sent(rs, k, S)[q])
  <1>1. NewRequest(k) \in Requests /\ Owned(NewRequest(k))
    BY NewFacts
  <1>2. /\ \A r \in S : Sent(rs, k, S)[r] = NewRequest(k)
        /\ \A r \in Slots \ S : Sent(rs, k, S)[r] = rs[r]
    BY SentFacts
  <1>3. Sent(rs, k, S) \in [Slots -> Requests]
    BY <1>1 DEF Sent
  <1> QED
    BY <1>1, <1>2, <1>3

-----------------------------------------------------------------------------
(* Steps of a request that is in progress *)

LEMMA Moves ==
    ASSUME IInv, NEW r \in Slots, NEW x \in Requests, Owned(x), req' = [req EXCEPT ![r] = x],
           x.k = req[r].k, x.st = "done" <=> req[r].st = "done", x.saw.online => caps_done,
           x.st = "callback" /\ x.k = "VF" =>
             \/ x.saw.received = caps_received
             \/ req[r].st = "callback" /\ x.saw = req[r].saw,
           x.st = "callback" /\ x.k \in {"V", "I"} =>
             \/ x.saw.online <=> online'
             \/ req[r].st = "callback" /\ x.saw = req[r].saw /\ x.res = req[r].res,
           UNCHANGED <<transport, caps_done, caps_received, shut_down, htimers>>,
           \/ UNCHANGED <<online, vtimers>>
           \/ ~online' /\ online' \in BOOLEAN /\ caps_done /\ vtimers' \in 1..MaxTimers
    PROVE  IInv'
  <1>0. Fields /\ Owners /\ First /\ Counted /\ Watch /\ Return
    BY DEF IInv
  <1>1. /\ req \in [Slots -> Requests] /\ req' \in [Slots -> Requests]
        /\ req'[r] = x /\ \A q \in Slots : q # r => req'[q] = req[q]
    BY <1>0 DEF Fields
  <1>2. \A k : Of(req', k) = Of(req, k)
    BY <1>1 DEF Of
  <1>3. Fields'
    BY <1>0, <1>1 DEF Fields
  <1>4. Owners'
    BY <1>0, <1>1 DEF Owners
  <1>5. First'
    <2> SUFFICES ASSUME ~caps_done PROVE First'
      BY DEF First
    <2>1. UNCHANGED <<online, vtimers, caps_received>> /\ ~x.saw.online
      OBVIOUS
    <2>2. \A q \in Slots : ~req'[q].saw.online
      BY <1>0, <1>1, <2>1 DEF First
    <2> QED
      BY <1>0, <1>2, <2>1, <2>2 DEF First
  <1>6. Counted'
    <2>1. ASSUME NEW q \in Of(req, "VF"), req'[q].st = "callback"
          PROVE  req'[q].saw.received + Cardinality(Of(req, "VF")) <= NCaps
      <3>1. CASE q # r
        BY <1>0, <1>1, <2>1, <3>1 DEF Counted, Of
      <3>2. CASE q = r
        <4>1. x.k = "VF" /\ x.st = "callback"
          BY <1>1, <2>1, <3>2 DEF Of
        <4> QED
          BY <1>0, <1>1, <2>1, <3>2, <4>1 DEF Counted
      <3> QED
        BY <3>1, <3>2
    <2> QED
      BY <1>0, <1>2, <2>1 DEF Counted
  <1>7. Watch'
    <2> SUFFICES ASSUME online', ~shut_down, ~(htimers > 0)
                 PROVE  \E q \in Of(req, "I") : req'[q].st = "callback" => req'[q].saw.online
      BY <1>2 DEF Watch
    <2>1. online
      OBVIOUS
    <2>2. PICK q \in Of(req, "I") : req[q].st = "callback" => req[q].saw.online
      BY <1>0, <2>1 DEF Watch
    <2>3. CASE q # r
      BY <1>1, <2>2, <2>3 DEF Of
    <2>4. CASE q = r
      <3>1. x.k = "I"
        BY <2>4 DEF Of
      <3>2. x.st = "callback" => x.saw.online
        BY <2>2, <2>4, <3>1
      <3> QED
        BY <1>1, <2>2, <2>4, <3>2
    <2> QED
      BY <2>3, <2>4
  <1>8. Return'
    <2> SUFFICES ASSUME ~online', ~shut_down, ~(vtimers' > 0), Of(req, "VF") = {},
                        ~(~caps_done /\ caps_received < NCaps)
                 PROVE  \E q \in Of(req, "V") :
                          req'[q].st = "callback" /\ req'[q].res = "ok" => ~req'[q].saw.online
      BY <1>2 DEF Return
    <2>0. vtimers' = vtimers /\ online' = online
      OBVIOUS
    <2>1. ~online /\ ~(vtimers > 0)
      BY <2>0
    <2>2. PICK q \in Of(req, "V") :
            req[q].st = "callback" /\ req[q].res = "ok" => ~req[q].saw.online
      BY <1>0, <2>1 DEF Return
    <2>3. CASE q # r
      BY <1>1, <2>2, <2>3 DEF Of
    <2>4. CASE q = r
      <3>1. x.k = "V"
        BY <2>4 DEF Of
      <3>2. x.st = "callback" /\ x.res = "ok" => ~x.saw.online
        BY <2>2, <2>4, <3>1
      <3> QED
        BY <1>1, <2>2, <2>4, <3>2
    <2> QED
      BY <2>3, <2>4
  <1> QED
    BY <1>3, <1>4, <1>5, <1>6, <1>7, <1>8 DEF IInv

\* What a callback reads.
LEMMA ReadFacts ==
    ASSUME Fields, First, NEW k \in Kinds
    PROVE  /\ Read(k) \in Seen /\ (Read(k).online => caps_done)
           /\ (k \in {"V", "I"} => (Read(k).online <=> online))
           /\ (k = "VF" => Read(k).received = caps_received)
  <1>1. /\ caps_received \in 0..NCaps /\ 0 \in 0..NCaps /\ online \in BOOLEAN
        /\ (online => caps_done)
    BY RtpProxyClientAssumption DEF RtpProxyClientAssumption, Fields, First
  <1>2. PICK o \in BOOLEAN : o = (online /\ k \in {"V", "I"})
    BY <1>1
  <1>3. PICK n \in 0..NCaps : n = IF k = "VF" THEN caps_received ELSE 0
    BY <1>1
  <1>4. Read(k) = [online |-> o, received |-> n]
    BY <1>2, <1>3 DEF Read
  <1>5. Read(k) \in Seen /\ Read(k).online = o /\ Read(k).received = n
    BY <1>4 DEF Seen
  <1>6. Read(k).online <=> (online /\ k \in {"V", "I"})
    BY <1>2, <1>5
  <1> QED
    BY <1>1, <1>3, <1>5, <1>6

LEMMA RequestFacts ==
    ASSUME IInv, NEW r \in Slots
    PROVE  /\ req[r] \in Requests /\ Owned(req[r]) /\ req[r].k \in Kinds
           /\ (req[r].saw.online => caps_done) /\ req \in [Slots -> Requests]
  <1>1. req \in [Slots -> Requests] /\ Owned(req[r]) /\ (req[r].saw.online => caps_done)
    BY DEF IInv, Fields, Owners, First
  <1> QED
    BY <1>1 DEF Requests

LEMMA RegisterStep ==
    ASSUME IInv, NEW r \in Slots, Register(r)
    PROVE  IInv'
  <1>1. PICK x : x = [req[r] EXCEPT !.st = "sent", !.reg = TRUE]
    OBVIOUS
  <1>2. /\ req' = [req EXCEPT ![r] = x] /\ req[r].st = "sending"
        /\ UNCHANGED <<transport, online, caps_done, caps_received, shut_down, vtimers, htimers>>
    BY <1>1, RequestFacts DEF Register
  <1>3. x \in Requests
    <2>1. "sent" \in States /\ TRUE \in BOOLEAN
      BY DEF States
    <2> QED
      BY <1>1, <2>1, RequestFacts, Registered
  <1>4. /\ x.k = req[r].k /\ x.st = "sent" /\ x.saw = req[r].saw /\ x.calls = req[r].calls
        /\ x.tries = req[r].tries /\ x.resend = req[r].resend
    BY <1>1, RequestFacts DEF Requests
  <1>5. Owned(x)
    BY <1>2, <1>4, RequestFacts DEF Owned
  <1> QED
    BY <1>2, <1>3, <1>4, <1>5, RequestFacts, Moves

LEMMA retransmitStep ==
    ASSUME IInv, NEW r \in Slots, retransmit(r)
    PROVE  IInv'
  <1>0. /\ req[r] \in Requests /\ Owned(req[r]) /\ req[r].k \in Kinds
        /\ (req[r].saw.online => caps_done) /\ req \in [Slots -> Requests]
        /\ UNCHANGED <<transport, online, caps_done, caps_received, shut_down, vtimers, htimers>>
    BY RequestFacts DEF retransmit
  <1>1. CASE ~req[r].reg /\ req' = [req EXCEPT ![r].timer = FALSE]
    <2>1. PICK x : x = [req[r] EXCEPT !.timer = FALSE]
      OBVIOUS
    <2>2. req' = [req EXCEPT ![r] = x]
      BY <1>0, <1>1, <2>1
    <2>3. x \in Requests
      BY <1>0, <2>1, TimerChanged
    <2>4. /\ x.k = req[r].k /\ x.st = req[r].st /\ x.saw = req[r].saw /\ x.res = req[r].res
          /\ x.calls = req[r].calls /\ x.reg = req[r].reg /\ x.resend = req[r].resend
          /\ x.tries = req[r].tries
      BY <1>0, <2>1 DEF Requests
    <2>5. Owned(x)
      BY <1>0, <2>4 DEF Owned
    <2> QED
      BY <1>0, <2>2, <2>3, <2>4, <2>5, Moves
  <1>2. CASE /\ req[r].reg
             /\ req' = [[req EXCEPT ![r].timer = FALSE]
                          EXCEPT ![r].reg = FALSE, ![r].st = "giveup",
                                 ![r].saw = [Blank EXCEPT !.online = online]]
    <2>1. PICK saw : saw = [Blank EXCEPT !.online = online]
      OBVIOUS
    <2>2. PICK x : x = [req[r] EXCEPT !.timer = FALSE, !.reg = FALSE, !.st = "giveup", !.saw = saw]
      OBVIOUS
    <2>3. req' = [req EXCEPT ![r] = x]
      BY <1>0, <1>2, <2>1, <2>2 DEF Requests
    <2>4. saw \in Seen /\ (saw.online => caps_done)
      <3>1. online \in BOOLEAN /\ (online => caps_done) /\ 0 \in 0..NCaps
        BY RtpProxyClientAssumption DEF RtpProxyClientAssumption, IInv, Fields, First
      <3>2. saw = [online |-> online, received |-> 0]
        BY <2>1 DEF Blank
      <3>3. \A o \in BOOLEAN : [online |-> o, received |-> 0] \in Seen
        BY <3>1 DEF Seen
      <3>4. saw.online = online
        BY <3>2
      <3> QED
        BY <3>1, <3>2, <3>3, <3>4
    <2>5. x \in Requests
      <3>1. "giveup" \in States
        BY DEF States
      <3> QED
        BY <1>0, <2>2, <2>4, <3>1, GivenUp
    <2>6. /\ x.k = req[r].k /\ x.st = "giveup" /\ x.saw = saw /\ x.calls = req[r].calls
          /\ ~x.reg
      BY <1>0, <2>2 DEF Requests
    <2>7. Owned(x) /\ req[r].st = "sent"
      BY <1>0, <1>2, <2>6 DEF Owned
    <2> QED
      BY <1>0, <2>3, <2>4, <2>5, <2>6, <2>7, Moves
  <1>3. CASE /\ req[r].reg /\ req[r].tries > 0
             /\ req' = [[req EXCEPT ![r].timer = FALSE] EXCEPT ![r].resend = TRUE]
    <2>1. PICK x : x = [req[r] EXCEPT !.timer = FALSE, !.resend = TRUE]
      OBVIOUS
    <2>2. req' = [req EXCEPT ![r] = x]
      BY <1>0, <1>3, <2>1 DEF Requests
    <2>3. x \in Requests
      BY <1>0, <2>1, Resending
    <2>4. /\ x.k = req[r].k /\ x.st = req[r].st /\ x.saw = req[r].saw /\ x.res = req[r].res
          /\ x.calls = req[r].calls /\ x.reg = req[r].reg /\ x.tries = req[r].tries
      BY <1>0, <2>1 DEF Requests
    <2>5. Owned(x)
      BY <1>0, <1>3, <2>4 DEF Owned
    <2> QED
      BY <1>0, <2>2, <2>3, <2>4, <2>5, Moves
  <1> QED
    BY <1>1, <1>2, <1>3 DEF retransmit

LEMMA ResendStep ==
    ASSUME IInv, NEW r \in Slots, Resend(r)
    PROVE  IInv'
  <1>0. /\ req[r] \in Requests /\ Owned(req[r]) /\ (req[r].saw.online => caps_done)
        /\ req \in [Slots -> Requests] /\ req[r].resend
        /\ UNCHANGED <<transport, online, caps_done, caps_received, shut_down, vtimers, htimers>>
    BY RequestFacts DEF Resend
  <1>1. PICK t : t = IF req[r].st = "sent" THEN req[r].tries - 1 ELSE req[r].tries
    OBVIOUS
  <1>2. t \in 0..MaxTries
    <2>1. req[r].tries \in 0..MaxTries /\ (req[r].st = "sent" => req[r].tries > 0)
      BY <1>0 DEF Owned, Requests
    <2> QED
      BY <1>1, <2>1, RtpProxyClientAssumption DEF RtpProxyClientAssumption
  <1>3. PICK x : x = [req[r] EXCEPT !.resend = FALSE, !.timer = TRUE, !.tries = t]
    OBVIOUS
  <1>4. req' = [req EXCEPT ![r] = x]
    BY <1>0, <1>1, <1>3 DEF Resend, Requests
  <1>5. x \in Requests
    BY <1>0, <1>2, <1>3, Resent
  <1>6. /\ x.k = req[r].k /\ x.st = req[r].st /\ x.saw = req[r].saw /\ x.res = req[r].res
        /\ x.calls = req[r].calls /\ x.reg = req[r].reg /\ ~x.resend
    BY <1>0, <1>3 DEF Requests
  <1>7. Owned(x)
    BY <1>0, <1>6 DEF Owned
  <1> QED
    BY <1>0, <1>4, <1>5, <1>6, <1>7, Moves

\* An answer, or a worker that is done with the request.
LEMMA AnswerStep ==
    ASSUME IInv, NEW r \in Slots, NEW res \in Results,
           process_reply(r, res) \/ Worker(r, res)
    PROVE  IInv'
  <1>0. /\ req[r] \in Requests /\ Owned(req[r]) /\ req[r].k \in Kinds
        /\ (req[r].saw.online => caps_done) /\ req \in [Slots -> Requests]
        /\ UNCHANGED <<transport, online, caps_done, caps_received, shut_down, vtimers, htimers>>
    BY RequestFacts DEF process_reply, Worker
  <1>1. req[r].st = "sent"
    BY <1>0 DEF process_reply, Worker, Owned
  <1>2. PICK saw : saw = Read(req[r].k)
    OBVIOUS
  <1>3. /\ saw \in Seen /\ (saw.online => caps_done)
        /\ (req[r].k \in {"V", "I"} => (saw.online <=> online))
        /\ (req[r].k = "VF" => saw.received = caps_received)
    BY <1>0, <1>2, ReadFacts DEF IInv
  <1>4. PICK x :
          /\ req' = [req EXCEPT ![r] = x]
          /\ \/ x = [req[r] EXCEPT !.reg = FALSE, !.timer = FALSE, !.st = "callback",
                                   !.res = res, !.saw = saw]
             \/ x = [req[r] EXCEPT !.reg = FALSE, !.st = "callback", !.res = res, !.saw = saw]
    <2>1. CASE process_reply(r, res)
      BY <1>0, <1>2, <2>1 DEF process_reply
    <2>2. CASE Worker(r, res)
      BY <1>0, <1>2, <2>2 DEF Worker
    <2> QED
      BY <2>1, <2>2
  <1>5. x \in Requests
    <2>1. "callback" \in States
      BY DEF States
    <2>2. FALSE \in BOOLEAN /\ saw \in Seen
      BY <1>3
    <2>3. /\ [req[r] EXCEPT !.reg = FALSE, !.timer = FALSE, !.st = "callback", !.res = res,
                           !.saw = saw] \in Requests
          /\ [req[r] EXCEPT !.reg = FALSE, !.st = "callback", !.res = res, !.saw = saw] \in Requests
      BY <1>0, <2>1, <2>2, Answered
    <2> QED
      BY <1>4, <2>3
  <1>6. /\ x.k = req[r].k /\ x.st = "callback" /\ x.saw = saw /\ x.calls = req[r].calls /\ ~x.reg
    BY <1>0, <1>4 DEF Requests
  <1>7. x.resend = req[r].resend
    BY <1>0, <1>4 DEF Requests
  <1>8. Owned(x)
    BY <1>0, <1>1, <1>6, <1>7 DEF Owned
  <1> QED
    BY <1>0, <1>1, <1>3, <1>4, <1>5, <1>6, <1>8, Moves

LEMMA MoreFacts ==
    ASSUME NEW t \in 0..MaxTimers
    PROVE  More(t) \in 1..MaxTimers /\ (t = 0 => More(t) = 1)
  BY RtpProxyClientAssumption DEF RtpProxyClientAssumption, More

LEMMA GiveUpStep ==
    ASSUME IInv, NEW r \in Slots, GiveUp(r)
    PROVE  IInv'
  <1>0. /\ req[r] \in Requests /\ Owned(req[r]) /\ req[r].k \in Kinds /\ req[r].st = "giveup"
        /\ (req[r].saw.online => caps_done) /\ req \in [Slots -> Requests]
        /\ UNCHANGED <<transport, caps_done, caps_received, shut_down, htimers>>
        /\ online \in BOOLEAN /\ vtimers \in 0..MaxTimers
    BY RequestFacts DEF GiveUp, IInv, Fields
  <1>1. PICK goes \in BOOLEAN : goes <=> (~shut_down /\ req[r].saw.online)
    OBVIOUS
  <1>2. /\ online' = (online /\ ~goes) /\ vtimers' = IF goes THEN More(vtimers) ELSE vtimers
        /\ req' = [req EXCEPT ![r].st = "callback",
                              ![r].saw = [Read(req[r].k) EXCEPT !.online = @ /\ online']]
    BY <1>1 DEF GiveUp
  <1>3. PICK saw : saw = [Read(req[r].k) EXCEPT !.online = @ /\ online']
    OBVIOUS
  <1>4. /\ saw \in Seen /\ (saw.online => caps_done)
        /\ (req[r].k \in {"V", "I"} => (saw.online <=> online'))
        /\ (req[r].k = "VF" => saw.received = caps_received)
    <2>1. PICK old : old = Read(req[r].k)
      OBVIOUS
    <2>2. /\ old \in Seen /\ (old.online => caps_done)
          /\ (req[r].k \in {"V", "I"} => (old.online <=> online))
          /\ (req[r].k = "VF" => old.received = caps_received)
      BY <1>0, <2>1, ReadFacts DEF IInv
    <2>3. PICK o \in BOOLEAN : o = (old.online /\ online')
      OBVIOUS
    <2>4. saw = [old EXCEPT !.online = o]
      BY <1>3, <2>1, <2>3
    <2>5. saw \in Seen /\ saw.online = o /\ saw.received = old.received
      BY <2>2, <2>4 DEF Seen
    <2>6. saw.online <=> (old.online /\ online')
      BY <2>3, <2>5
    <2>7. online' => online
      BY <1>2
    <2> QED
      BY <2>2, <2>5, <2>6, <2>7
  <1>5. PICK x : x = [req[r] EXCEPT !.st = "callback", !.saw = saw]
    OBVIOUS
  <1>6. req' = [req EXCEPT ![r] = x]
    BY <1>0, <1>2, <1>3, <1>5
  <1>7. x \in Requests
    <2>1. "callback" \in States
      BY DEF States
    <2> QED
      BY <1>0, <1>4, <1>5, <2>1, CallsBack
  <1>8. /\ x.k = req[r].k /\ x.st = "callback" /\ x.saw = saw /\ x.calls = req[r].calls
        /\ x.reg = req[r].reg /\ x.resend = req[r].resend
    BY <1>0, <1>5 DEF Requests
  <1>9. Owned(x)
    BY <1>0, <1>8 DEF Owned
  <1>10. \/ UNCHANGED <<online, vtimers>>
         \/ ~online' /\ online' \in BOOLEAN /\ caps_done /\ vtimers' \in 1..MaxTimers
    <2>1. CASE goes
      BY <1>0, <1>1, <1>2, <2>1, MoreFacts
    <2>2. CASE ~goes
      BY <1>0, <1>2, <2>2
    <2> QED
      BY <2>1, <2>2
  <1> QED
    BY <1>0, <1>4, <1>6, <1>7, <1>8, <1>9, <1>10, Moves

-----------------------------------------------------------------------------
(* Callbacks, timers and the owner *)

\* A callback ends and nothing is sent.
LEMMA EndFacts ==
    ASSUME IInv, NEW r \in Slots, req[r].st = "callback"
    PROVE  /\ Finished(r) \in [Slots -> Requests] /\ \A q \in Slots : Owned(Finished(r)[q])
           /\ \A q \in Slots : q # r => Finished(r)[q] = req[q]
           /\ \A j : Of(Finished(r), j) = Of(req, j) \ {r}
           /\ ~Finished(r)[r].saw.online
  <1>1. req \in [Slots -> Requests] /\ Owned(req[r]) /\ \A q \in Slots : Owned(req[q])
    BY DEF IInv, Fields, Owners
  <1>2. /\ Finished(r) \in [Slots -> Requests] /\ Owned(Finished(r)[r])
        /\ \A q \in Slots : q # r => Finished(r)[q] = req[q]
        /\ \A j : Of(Finished(r), j) = Of(req, j) \ {r}
        /\ ~Finished(r)[r].saw.online
    BY <1>1, FinishedFacts
  <1>3. \A q \in Slots : Owned(Finished(r)[q])
    BY <1>1, <1>2
  <1> QED
    BY <1>2, <1>3

\* The parts of First and Counted about requests that stay as they are.
LEMMA EndKeeps ==
    ASSUME IInv, NEW r \in Slots, req[r].st = "callback", req[r].k # "VF", req' = Finished(r),
           UNCHANGED <<caps_done, caps_received>>, ~caps_done => UNCHANGED online,
           \/ UNCHANGED vtimers
           \/ caps_done
           \/ req[r].k = "V" /\ vtimers' \in 0..1
    PROVE  First' /\ Counted' /\ Owners' /\ req' \in [Slots -> Requests]
  <1>0. Fields /\ Owners /\ First /\ Counted
    BY DEF IInv
  <1>1. /\ req' \in [Slots -> Requests] /\ \A q \in Slots : Owned(req'[q])
        /\ \A q \in Slots : q # r => req'[q] = req[q]
        /\ \A j : Of(req', j) = Of(req, j) \ {r}
        /\ ~req'[r].saw.online
    BY EndFacts
  <1>2. Of(req', "VF") = Of(req, "VF") /\ r \notin Of(req, "VF")
    <2>1. r \notin Of(req, "VF")
      BY DEF Of
    <2> QED
      BY <1>1, <2>1
  <1>3. Counted'
    <2>1. \A q \in Of(req, "VF") : req'[q] = req[q]
      BY <1>1, <1>2 DEF Of
    <2> QED
      BY <1>0, <1>2, <2>1 DEF Counted
  <1>4. First'
    <2> SUFFICES ASSUME ~caps_done PROVE First'
      BY DEF First
    <2>1. ~online' /\ \A q \in Slots : ~req'[q].saw.online
      BY <1>0, <1>1 DEF First
    <2>2. Of(req', "V") \subseteq Of(req, "V") /\ \A p, q \in Of(req', "V") : p = q
      BY <1>0, <1>1 DEF First
    <2>3. CASE UNCHANGED vtimers
      BY <1>0, <1>2, <2>1, <2>2, <2>3 DEF First
    <2>4. CASE req[r].k = "V" /\ vtimers' \in 0..1
      <3>1. r \in Of(req, "V")
        BY <2>4 DEF Of
      <3>2. Of(req', "V") = {}
        BY <1>0, <1>1, <3>1 DEF First
      <3> QED
        BY <1>0, <1>2, <2>1, <2>4, <3>1, <3>2 DEF First
    <2> QED
      BY <2>3, <2>4
  <1> QED
    BY <1>1, <1>3, <1>4 DEF Owners

LEMMA SendFacts ==
    ASSUME transport \in {"udp", "stream"}, NEW rs \in [Slots -> Requests],
           \A q \in Slots : Owned(rs[q]), NEW k \in Kinds, NEW n \in Nat \ {0}, Room(rs, n),
           req' = Sending(rs, k, n)
    PROVE  \E S \in SUBSET Slots :
             /\ Cardinality(S) = n /\ S # {}
             /\ req' \in [Slots -> Requests] /\ Owners'
             /\ \A q \in S : req'[q].st # "callback" /\ ~req'[q].saw.online
             /\ \A q \in Slots \ S : req'[q] = rs[q]
             /\ Of(req', k) = Of(rs, k) \union S /\ Of(rs, k) \cap S = {}
             /\ \A j \in Kinds \ {k} : Of(req', j) = Of(rs, j)
             /\ \A q \in S : rs[q].st = "done"
  <1>1. PICK S \in SUBSET Free(rs) : Cardinality(S) = n /\ Sending(rs, k, n) = Sent(rs, k, S)
    BY SendingIs
  <1>2. S \in SUBSET Slots /\ \A q \in S : rs[q].st = "done"
    BY DEF Free
  <1>3. S # {}
    BY <1>1, FS_EmptySet
  <1>4. req' \in [Slots -> Requests] /\ Owners'
    BY <1>1, SentTyped DEF Owners
  <1>5. req' = Sent(rs, k, S)
    BY <1>1
  <1>6. /\ \A r \in S : req'[r] = NewRequest(k)
        /\ \A r \in Slots \ S : req'[r] = rs[r]
        /\ Of(req', k) = Of(rs, k) \union S /\ Of(rs, k) \cap S = {}
        /\ \A j \in Kinds \ {k} : Of(req', j) = Of(rs, j)
    BY <1>5, SentFacts
  <1>7. \A q \in S : req'[q].st # "callback" /\ ~req'[q].saw.online
    BY <1>6, NewFacts
  <1> QED
    BY <1>1, <1>2, <1>3, <1>4, <1>6, <1>7

\* The witness of Return, and of Watch, is another request than the one that ends.
LEMMA OthersReturn ==
    ASSUME IInv, NEW r \in Slots, req' = Finished(r), req[r].st = "callback", req[r].k # "VF",
           UNCHANGED <<online, shut_down, vtimers, caps_done, caps_received>>,
           req[r].k = "V" => req[r].res = "ok" /\ req[r].saw.online
    PROVE  Return'
  <1>1. /\ \A q \in Slots : q # r => req'[q] = req[q]
        /\ \A j : Of(req', j) = Of(req, j) \ {r}
    BY EndFacts
  <1>2. Of(req', "VF") = Of(req, "VF")
    <2>1. r \notin Of(req, "VF")
      BY DEF Of
    <2> QED
      BY <1>1, <2>1
  <1>3. ASSUME NEW q \in Of(req, "V"),
               req[q].st = "callback" /\ req[q].res = "ok" => ~req[q].saw.online
        PROVE  /\ q \in Of(req', "V")
               /\ req'[q].st = "callback" /\ req'[q].res = "ok" => ~req'[q].saw.online
    <2>1. q # r /\ q \in Slots
      BY <1>3 DEF Of
    <2> QED
      BY <1>1, <1>3, <2>1
  <1> QED
    BY <1>2, <1>3 DEF IInv, Return

LEMMA OthersWatch ==
    ASSUME IInv, NEW r \in Slots, req' = Finished(r), req[r].st = "callback",
           UNCHANGED <<shut_down, htimers>>, online' => online,
           req[r].k = "I" => ~req[r].saw.online
    PROVE  Watch'
  <1>1. /\ \A q \in Slots : q # r => req'[q] = req[q]
        /\ \A j : Of(req', j) = Of(req, j) \ {r}
    BY EndFacts
  <1>2. ASSUME NEW q \in Of(req, "I"), req[q].st = "callback" => req[q].saw.online
        PROVE  /\ q \in Of(req', "I")
               /\ req'[q].st = "callback" => req'[q].saw.online
    <2>1. q # r /\ q \in Slots
      BY <1>2 DEF Of
    <2> QED
      BY <1>1, <1>2, <2>1
  <1> QED
    BY <1>2 DEF IInv, Watch

LEMMA heartbeat_replyStep ==
    ASSUME IInv, NEW r \in Slots, heartbeat_reply(r)
    PROVE  IInv'
  <1>0. /\ req[r].st = "callback" /\ req[r].k = "I" /\ req' = Finished(r)
        /\ UNCHANGED <<transport, caps_done, caps_received, shut_down>>
        /\ (req[r].saw.online => caps_done) /\ Fields
    BY RequestFacts DEF heartbeat_reply, Callback, IInv
  <1>1. PICK looks \in BOOLEAN : looks <=> (~shut_down /\ req[r].saw.online)
    OBVIOUS
  <1>2. PICK fails \in BOOLEAN : fails <=> (looks /\ req[r].res = "")
    OBVIOUS
  <1>3. /\ online' = (online /\ ~fails) /\ vtimers' = IF fails THEN More(vtimers) ELSE vtimers
        /\ htimers' = IF looks THEN More(htimers) ELSE htimers
    BY <1>1, <1>2 DEF heartbeat_reply
  <1>4. online' \in BOOLEAN /\ vtimers' \in 0..MaxTimers /\ htimers' \in 0..MaxTimers
    <2>1. /\ online \in BOOLEAN /\ vtimers \in 0..MaxTimers /\ htimers \in 0..MaxTimers
      BY <1>0 DEF Fields
    <2>2. More(vtimers) \in 0..MaxTimers /\ More(htimers) \in 0..MaxTimers
      BY <2>1, MoreFacts
    <2> QED
      BY <1>3, <2>1, <2>2
  <1>5. ~caps_done => ~looks /\ ~fails
    BY <1>0, <1>1, <1>2
  <1>6. First' /\ Counted' /\ Owners' /\ req' \in [Slots -> Requests]
    <2>1. ~caps_done => UNCHANGED online
      BY <1>0, <1>3, <1>5 DEF Fields
    <2>2. UNCHANGED vtimers \/ caps_done
      BY <1>3, <1>5
    <2> QED
      BY <1>0, <2>1, <2>2, EndKeeps
  <1>7. Fields'
    BY <1>0, <1>4, <1>6 DEF Fields
  <1>8. Watch'
    <2>1. CASE looks
      <3>1. htimers' > 0
        BY <1>0, <1>3, <2>1, MoreFacts DEF Fields
      <3> QED
        BY <3>1 DEF Watch
    <2>2. CASE ~looks /\ shut_down
      BY <1>0, <2>2 DEF Watch
    <2>3. CASE ~looks /\ ~shut_down
      <3>1. ~req[r].saw.online /\ UNCHANGED htimers /\ (online' => online)
        BY <1>1, <1>3, <2>3
      <3> QED
        BY <1>0, <3>1, OthersWatch
    <2> QED
      BY <2>1, <2>2, <2>3
  <1>9. Return'
    <2>1. CASE fails
      <3>1. vtimers' > 0
        BY <1>0, <1>3, <2>1, MoreFacts DEF Fields
      <3> QED
        BY <3>1 DEF Return
    <2>2. CASE ~fails
      <3>1. UNCHANGED <<online, vtimers>>
        BY <1>0, <1>3, <2>2 DEF Fields
      <3> QED
        BY <1>0, <3>1, OthersReturn
    <2> QED
      BY <2>1, <2>2
  <1> QED
    BY <1>6, <1>7, <1>8, <1>9 DEF IInv

LEMMA result_callbackStep ==
    ASSUME IInv, NEW r \in Slots, result_callback(r)
    PROVE  IInv'
  <1>0. /\ req[r].st = "callback" /\ req[r].k = "cmd" /\ req' = Finished(r)
        /\ UNCHANGED <<transport, online, caps_done, caps_received, shut_down, vtimers, htimers>>
    BY DEF result_callback, Callback
  <1>1. First' /\ Counted' /\ Owners' /\ req' \in [Slots -> Requests]
    BY <1>0, EndKeeps
  <1>2. Fields'
    BY <1>0, <1>1 DEF IInv, Fields
  <1>3. Return' /\ Watch'
    BY <1>0, OthersReturn, OthersWatch
  <1> QED
    BY <1>1, <1>2, <1>3 DEF IInv

\* GoOnline once the capabilities are known: the first heartbeat is sent.
LEMMA ComesOnline ==
    ASSUME IInv, NEW r \in Slots, req[r].st = "callback", online' = TRUE, caps_done' = TRUE,
           Room(Finished(r), 1), req' = Sending(Finished(r), "I", 1),
           Of(req, "VF") \ {r} = {}, caps_received' \in 0..NCaps,
           UNCHANGED <<transport, shut_down, vtimers, htimers>>
    PROVE  IInv'
  <1>1. /\ Finished(r) \in [Slots -> Requests] /\ \A q \in Slots : Owned(Finished(r)[q])
        /\ \A j : Of(Finished(r), j) = Of(req, j) \ {r}
    BY EndFacts
  <1>2. transport \in {"udp", "stream"} /\ {"I", "VF"} \subseteq Kinds /\ 1 \in Nat \ {0}
    BY DEF IInv, Fields, Kinds
  <1>3. PICK S \in SUBSET Slots :
          /\ S # {} /\ req' \in [Slots -> Requests] /\ Owners'
          /\ \A q \in S : req'[q].st # "callback"
          /\ Of(req', "I") = Of(Finished(r), "I") \union S
          /\ \A j \in Kinds \ {"I"} : Of(req', j) = Of(Finished(r), j)
    BY <1>1, <1>2, SendFacts
  <1>4. Of(req', "VF") = {}
    BY <1>1, <1>2, <1>3
  <1>5. Counted'
    <2>1. \A c \in 0..NCaps : c + 0 <= NCaps
      BY RtpProxyClientAssumption DEF RtpProxyClientAssumption
    <2> QED
      BY <1>4, <2>1, FS_EmptySet DEF Counted
  <1>6. Watch'
    BY <1>3 DEF Watch
  <1>7. Fields'
    BY <1>3 DEF IInv, Fields
  <1>8. First' /\ Return'
    BY DEF First, Return
  <1> QED
    BY <1>3, <1>5, <1>6, <1>7, <1>8 DEF IInv

LEMMA version_check_replyStep ==
    ASSUME IInv, NEW r \in Slots, version_check_reply(r)
    PROVE  IInv'
  <1>0. /\ req[r].st = "callback" /\ req[r].k = "V"
        /\ UNCHANGED <<transport, caps_done, caps_received, shut_down, htimers>>
        /\ (req[r].saw.online => caps_done) /\ Fields /\ First /\ Counted
        /\ r \in Of(req, "V") /\ r \notin Of(req, "VF")
    BY RequestFacts DEF version_check_reply, Callback, IInv, Of
  <1>1. CASE req[r].res # "ok"
    <2>1. /\ req' = Finished(r) /\ online' = (online /\ (shut_down \/ ~req[r].saw.online))
          /\ vtimers' = IF shut_down THEN vtimers ELSE More(vtimers)
      BY <1>1 DEF version_check_reply
    <2>2. vtimers' \in 0..MaxTimers /\ (~shut_down => vtimers' > 0) /\ (vtimers = 0 => vtimers' \in 0..1)
      BY <1>0, <2>1, MoreFacts DEF Fields
    <2>3. ~caps_done => vtimers = 0
      BY <1>0 DEF First
    <2>4. ~caps_done => UNCHANGED online
      BY <1>0, <2>1 DEF First, Fields
    <2>5. First' /\ Counted' /\ Owners' /\ req' \in [Slots -> Requests]
      BY <1>0, <2>1, <2>2, <2>3, <2>4, EndKeeps
    <2>6. Fields'
      BY <1>0, <2>1, <2>2, <2>5 DEF Fields
    <2>7. Watch'
      BY <1>0, <2>1, OthersWatch
    <2>8. Return'
      BY <1>0, <2>2 DEF Return
    <2> QED
      BY <2>5, <2>6, <2>7, <2>8 DEF IInv
  <1>2. CASE req[r].res = "ok"
    <2>0. GoOnline(Finished(r), req[r].saw.online) /\ UNCHANGED vtimers
      BY <1>2 DEF version_check_reply
    <2>1. CASE (shut_down \/ req[r].saw.online) /\ req' = Finished(r) /\ UNCHANGED online
      <3>1. First' /\ Counted' /\ Owners' /\ req' \in [Slots -> Requests]
        BY <1>0, <2>0, <2>1, EndKeeps
      <3>2. Fields'
        BY <1>0, <2>0, <2>1, <3>1 DEF Fields
      <3>3. Watch'
        BY <1>0, <2>1, OthersWatch
      <3>4. Return'
        <4>1. CASE shut_down
          BY <1>0, <4>1 DEF Return
        <4>2. CASE req[r].saw.online
          BY <1>0, <1>2, <2>0, <2>1, <4>2, OthersReturn
        <4> QED
          BY <2>1, <4>1, <4>2
      <3> QED
        BY <3>1, <3>2, <3>3, <3>4 DEF IInv
    <2>2. CASE /\ ~caps_done /\ Room(Finished(r), NCaps) /\ UNCHANGED online
               /\ req' = Sending(Finished(r), "VF", NCaps)
      <3>1. /\ Finished(r) \in [Slots -> Requests] /\ \A q \in Slots : Owned(Finished(r)[q])
            /\ \A q \in Slots : q # r => Finished(r)[q] = req[q]
            /\ \A j : Of(Finished(r), j) = Of(req, j) \ {r} /\ ~Finished(r)[r].saw.online
        BY <1>0, EndFacts
      <3>2. transport \in {"udp", "stream"} /\ {"VF", "V"} \subseteq Kinds /\ NCaps \in Nat \ {0}
        BY <1>0, RtpProxyClientAssumption DEF RtpProxyClientAssumption, Fields, Kinds
      <3>3. PICK S \in SUBSET Slots :
              /\ Cardinality(S) = NCaps /\ S # {}
              /\ req' \in [Slots -> Requests] /\ Owners'
              /\ \A q \in S : req'[q].st # "callback" /\ ~req'[q].saw.online
              /\ \A q \in Slots \ S : req'[q] = Finished(r)[q]
              /\ Of(req', "VF") = Of(Finished(r), "VF") \union S
              /\ \A j \in Kinds \ {"VF"} : Of(req', j) = Of(Finished(r), j)
        BY <2>2, <3>1, <3>2, SendFacts
      <3>4. Of(req, "VF") = {} /\ caps_received = 0 /\ vtimers = 0 /\ ~online
            /\ \A q \in Slots : ~req[q].saw.online
        BY <1>0, <2>2 DEF First
      <3>5. Of(req', "VF") = S
        BY <3>1, <3>3, <3>4
      <3>6. Of(req', "V") = {}
        <4>1. Of(req', "V") = Of(req, "V") \ {r}
          BY <3>1, <3>2, <3>3
        <4> QED
          BY <1>0, <2>2, <4>1 DEF First
      <3>7. \A q \in Slots : ~req'[q].saw.online
        BY <3>1, <3>3, <3>4
      <3>8. First'
        BY <1>0, <2>0, <2>2, <3>4, <3>6, <3>7 DEF First
      <3>9. Counted'
        <4>1. caps_received' + Cardinality(S) <= NCaps
          BY <1>0, <3>2, <3>3, <3>4
        <4> QED
          BY <1>0, <2>2, <3>3, <3>5, <4>1 DEF Counted
      <3>10. Watch' /\ Return'
        BY <2>2, <3>3, <3>4, <3>5 DEF Watch, Return
      <3>11. Fields'
        BY <1>0, <2>0, <2>2, <3>3 DEF Fields
      <3> QED
        BY <3>3, <3>8, <3>9, <3>10, <3>11 DEF IInv
    <2>3. CASE /\ caps_done /\ Room(Finished(r), 1) /\ online' = TRUE
               /\ req' = Sending(Finished(r), "I", 1)
      <3>1. Of(req, "VF") \ {r} = {} /\ caps_received' \in 0..NCaps /\ caps_done' = TRUE
        <4>1. Of(req, "VF") = {}
          BY <1>0, <2>3 DEF Counted
        <4>2. caps_done \in BOOLEAN /\ caps_done' = caps_done /\ caps_received' = caps_received
          BY <1>0 DEF Fields
        <4>3. caps_received \in 0..NCaps
          BY <1>0 DEF Fields
        <4> QED
          BY <2>3, <4>1, <4>2, <4>3
      <3> QED
        BY <1>0, <2>0, <2>3, <3>1, ComesOnline
    <2> QED
      BY <1>0, <2>0, <2>1, <2>2, <2>3 DEF GoOnline
  <1> QED
    BY <1>1, <1>2

LEMMA caps_query_doneStep ==
    ASSUME IInv, NEW r \in Slots, caps_query_done(r)
    PROVE  IInv'
  <1>0. /\ req[r].st = "callback" /\ req[r].k = "VF"
        /\ UNCHANGED <<transport, shut_down, vtimers, htimers>>
        /\ Fields /\ First /\ Counted /\ r \in Of(req, "VF")
        /\ caps_received' = req[r].saw.received + 1
        /\ caps_done' = (caps_done \/ caps_received' = NCaps)
    BY DEF caps_query_done, Callback, IInv, Of
  <1>1. PICK n : n = Cardinality(Of(req, "VF"))
    OBVIOUS
  <1>2. /\ Of(req, "VF") \in SUBSET Slots /\ IsFiniteSet(Of(req, "VF")) /\ n \in Nat
    BY <1>1, SlotsFinite DEF Of
  <1>3. n # 0
    BY <1>0, <1>1, <1>2, FS_EmptySet
  <1>4. Cardinality(Of(req, "VF") \ {r}) = n - 1
    BY <1>0, <1>1, <1>2, FS_RemoveElement
  <1>5. NCaps \in Nat
    BY RtpProxyClientAssumption DEF RtpProxyClientAssumption
  <1>6. req[r].saw.received \in 0..NCaps /\ req[r].saw.received + n <= NCaps
    <2>1. req[r] \in Requests
      BY <1>0 DEF Fields
    <2>2. req[r].saw.received \in 0..NCaps
      BY <2>1 DEF Requests
    <2> QED
      BY <1>0, <1>1, <2>2 DEF Counted
  <1>7. caps_received' \in 0..NCaps /\ caps_received' + (n - 1) <= NCaps
    BY <1>0, <1>2, <1>3, <1>5, <1>6
  <1>8. ~caps_done /\ ~online /\ Of(req, "V") = {} /\ vtimers = 0
        /\ \A q \in Slots : ~req[q].saw.online
    <2>1. ~caps_done
      BY <1>0 DEF Counted
    <2>2. ~(vtimers > 0 \/ Of(req, "V") # {}) /\ vtimers \in 0..MaxTimers
      BY <1>0, <2>1 DEF First, Fields
    <2>3. ~online /\ \A q \in Slots : ~req[q].saw.online
      BY <1>0, <2>1 DEF First
    <2> QED
      BY <2>1, <2>2, <2>3
  <1>9. /\ Finished(r) \in [Slots -> Requests] /\ \A q \in Slots : Owned(Finished(r)[q])
        /\ \A q \in Slots : q # r => Finished(r)[q] = req[q]
        /\ \A j : Of(Finished(r), j) = Of(req, j) \ {r} /\ ~Finished(r)[r].saw.online
    BY <1>0, EndFacts
  <1>10. ASSUME req' = Finished(r), UNCHANGED online,
                caps_received' = NCaps => shut_down /\ caps_done',
                caps_received' # NCaps => ~caps_done'
         PROVE  IInv'
    <2>1. Of(req', "VF") = Of(req, "VF") \ {r} /\ Of(req', "V") = {}
      BY <1>8, <1>9, <1>10
    <2>2. First'
      <3>1. ~online' /\ vtimers' = 0 /\ \A q \in Slots : ~req'[q].saw.online
        BY <1>0, <1>8, <1>9, <1>10
      <3> QED
        BY <2>1, <3>1 DEF First
    <2>3. caps_done' => Of(req', "VF") = {}
      <3> SUFFICES ASSUME caps_received' = NCaps PROVE Of(req, "VF") \ {r} = {}
        BY <1>10, <2>1
      <3>1. n - 1 = 0
        BY <1>2, <1>3, <1>5, <1>7
      <3>2. IsFiniteSet(Of(req, "VF") \ {r})
        BY <1>2, FS_RemoveElement
      <3> QED
        BY <1>4, <3>1, <3>2, FS_EmptySet
    <2>4. \A q \in Of(req', "VF") : req'[q].st = "callback" =>
            req'[q].saw.received + (n - 1) <= NCaps
      <3> SUFFICES ASSUME NEW q \in Of(req, "VF"), q # r, req[q].st = "callback"
                   PROVE  req[q].saw.received + (n - 1) <= NCaps
        BY <1>2, <1>9, <1>10, <2>1
      <3>1. req[q].saw.received + n <= NCaps
        BY <1>0, <1>1 DEF Counted
      <3>2. req[q].saw.received \in Nat
        <4>1. req[q] \in Requests
          BY <1>0, <1>2 DEF Fields
        <4>2. req[q].saw.received \in 0..NCaps
          BY <4>1 DEF Requests
        <4> QED
          BY <1>5, <4>2
      <3> QED
        BY <1>2, <1>5, <3>1, <3>2
    <2>5. Counted'
      BY <1>4, <1>7, <2>1, <2>3, <2>4 DEF Counted
    <2>6. Watch'
      BY <1>8, <1>10 DEF Watch
    <2>7. Return'
      <3>1. CASE caps_received' = NCaps
        BY <1>0, <1>10, <3>1 DEF Return
      <3>2. CASE caps_received' # NCaps
        <4>1. caps_received' < NCaps
          BY <1>5, <1>7, <3>2
        <4> QED
          BY <1>10, <3>2, <4>1 DEF Return
      <3> QED
        BY <3>1, <3>2
    <2>8. Fields'
      <3>1. caps_done' \in BOOLEAN
        BY <1>0
      <3> QED
        BY <1>0, <1>7, <1>9, <1>10, <3>1 DEF Fields
    <2>9. Owners'
      BY <1>9, <1>10 DEF Owners
    <2> QED
      BY <2>2, <2>5, <2>6, <2>7, <2>8, <2>9 DEF IInv
  <1>11. CASE caps_received' # NCaps
    <2>1. req' = Finished(r) /\ UNCHANGED online
      BY <1>11 DEF caps_query_done
    <2>2. ~caps_done'
      BY <1>0, <1>8, <1>11
    <2> QED
      BY <1>10, <1>11, <2>1, <2>2
  <1>12. CASE caps_received' = NCaps
    <2>0. GoOnline(Finished(r), online) /\ caps_done' = TRUE
      BY <1>0, <1>12 DEF caps_query_done
    <2>1. CASE shut_down /\ req' = Finished(r) /\ UNCHANGED online
      BY <1>10, <1>12, <2>0, <2>1
    <2>2. CASE Room(Finished(r), 1) /\ online' = TRUE /\ req' = Sending(Finished(r), "I", 1)
      <3>1. n - 1 = 0
        BY <1>2, <1>3, <1>5, <1>7, <1>12
      <3>2. IsFiniteSet(Of(req, "VF") \ {r})
        BY <1>2, FS_RemoveElement
      <3>3. Of(req, "VF") \ {r} = {}
        BY <1>4, <3>1, <3>2, FS_EmptySet
      <3> QED
        BY <1>0, <1>7, <2>0, <2>2, <3>3, ComesOnline
    <2> QED
      BY <1>8, <2>0, <2>1, <2>2 DEF GoOnline
  <1> QED
    BY <1>11, <1>12

\* The timers: a version check, or a heartbeat, takes the place of its timer.
LEMMA version_checkStep ==
    ASSUME IInv, version_check
    PROVE  IInv'
  <1>0. /\ vtimers > 0 /\ vtimers' = vtimers - 1 /\ vtimers \in 0..MaxTimers
        /\ UNCHANGED <<transport, online, caps_done, caps_received, shut_down, htimers>>
        /\ Fields /\ Owners /\ First /\ Counted /\ Watch /\ Return
    BY DEF version_check, IInv, Fields
  <1>1. vtimers' \in 0..MaxTimers /\ (vtimers <= 1 => vtimers' = 0)
    BY <1>0, RtpProxyClientAssumption DEF RtpProxyClientAssumption
  <1>2. ~caps_done => vtimers' = 0 /\ Of(req, "V") = {} /\ Of(req, "VF") = {} /\ caps_received = 0
    BY <1>0, <1>1 DEF First
  <1>3. CASE shut_down
    <2>1. UNCHANGED req
      BY <1>3 DEF version_check
    <2>2. Fields' /\ Owners' /\ Counted' /\ Watch' /\ Return'
      BY <1>0, <1>1, <1>3, <2>1 DEF Fields, Owners, Counted, Watch, Return, Of
    <2>3. req' = req /\ caps_done' = caps_done /\ online' = online
      BY <1>0, <2>1
    <2>4. First'
      BY <1>0, <1>2, <2>3 DEF First
    <2> QED
      BY <2>2, <2>4 DEF IInv
  <1>4. CASE ~shut_down
    <2>1. Room(req, 1) /\ req' = Sending(req, "V", 1)
      BY <1>4 DEF version_check
    <2>2. transport \in {"udp", "stream"} /\ req \in [Slots -> Requests] /\ 1 \in Nat \ {0}
          /\ \A q \in Slots : Owned(req[q])
      BY <1>0 DEF Fields, Owners
    <2>3. {"V", "VF", "I"} \subseteq Kinds
      BY DEF Kinds
    <2>4. PICK S \in SUBSET Slots :
            /\ Cardinality(S) = 1 /\ S # {}
            /\ req' \in [Slots -> Requests] /\ Owners'
            /\ \A q \in S : req'[q].st # "callback" /\ ~req'[q].saw.online
            /\ \A q \in Slots \ S : req'[q] = req[q]
            /\ Of(req', "V") = Of(req, "V") \union S
            /\ \A j \in Kinds \ {"V"} : Of(req', j) = Of(req, j)
            /\ \A q \in S : req[q].st = "done"
      BY <2>1, <2>2, <2>3, SendFacts
    <2>5. \A p, q \in S : p = q
      BY <2>4, FS_Singleton, SlotsFinite
    <2>6. Of(req', "VF") = Of(req, "VF") /\ Of(req', "I") = Of(req, "I")
      BY <2>3, <2>4
    <2>7. First'
      <3> SUFFICES ASSUME ~caps_done PROVE First'
        BY <1>0 DEF First
      <3>1. \A q \in Slots : ~req'[q].saw.online
        BY <1>0, <2>4 DEF First
      <3>2. Of(req', "V") = S
        BY <1>2, <2>4
      <3> QED
        BY <1>0, <1>2, <2>5, <2>6, <3>1, <3>2 DEF First
    <2>8. \A q \in Of(req, "VF") \union Of(req, "I") : req'[q] = req[q]
      BY <2>4 DEF Of
    <2>9. Counted'
      BY <1>0, <2>6, <2>8 DEF Counted
    <2>10. Watch'
      BY <1>0, <2>6, <2>8 DEF Watch
    <2>11. Return'
      BY <2>4 DEF Return
    <2>12. Fields'
      BY <1>0, <1>1, <2>4 DEF Fields
    <2> QED
      BY <2>4, <2>7, <2>9, <2>10, <2>11, <2>12 DEF IInv
  <1> QED
    BY <1>3, <1>4

\* A heartbeat or a command of a session is sent.
LEMMA SendOther ==
    ASSUME IInv, NEW k \in {"I", "cmd"}, Room(req, 1), req' = Sending(req, k, 1),
           UNCHANGED <<transport, online, caps_done, caps_received, shut_down, vtimers>>,
           htimers' \in 0..MaxTimers, k = "I" \/ UNCHANGED htimers
    PROVE  IInv'
  <1>0. /\ transport \in {"udp", "stream"} /\ req \in [Slots -> Requests] /\ 1 \in Nat \ {0}
        /\ \A q \in Slots : Owned(req[q])
        /\ Fields /\ Owners /\ First /\ Counted /\ Watch /\ Return
    BY DEF IInv, Fields, Owners
  <1>1. {"V", "VF", "I", "cmd"} \subseteq Kinds
    BY DEF Kinds
  <1>2. PICK S \in SUBSET Slots :
          /\ S # {} /\ req' \in [Slots -> Requests] /\ Owners'
          /\ \A q \in S : req'[q].st # "callback" /\ ~req'[q].saw.online
          /\ \A q \in Slots \ S : req'[q] = req[q]
          /\ Of(req', k) = Of(req, k) \union S
          /\ \A j \in Kinds \ {k} : Of(req', j) = Of(req, j)
          /\ \A q \in S : req[q].st = "done"
    BY <1>0, <1>1, SendFacts
  <1>3. Of(req', "V") = Of(req, "V") /\ Of(req', "VF") = Of(req, "VF")
    BY <1>1, <1>2
  <1>4. \A q \in Of(req, "V") \union Of(req, "VF") \union Of(req, "I") : req'[q] = req[q]
    BY <1>2 DEF Of
  <1>5. \A q \in Slots : req'[q].saw.online => req[q].saw.online
    BY <1>2
  <1>6. First'
    BY <1>0, <1>3, <1>5 DEF First
  <1>7. Counted'
    BY <1>0, <1>3, <1>4 DEF Counted
  <1>8. Return'
    BY <1>0, <1>3, <1>4 DEF Return
  <1>9. Watch'
    <2>1. CASE k = "I"
      BY <1>2, <2>1 DEF Watch
    <2>2. CASE k # "I"
      <3>1. Of(req', "I") = Of(req, "I") /\ UNCHANGED htimers
        BY <1>1, <1>2, <2>2
      <3> QED
        BY <1>0, <1>4, <3>1 DEF Watch
    <2> QED
      BY <2>1, <2>2
  <1>10. Fields'
    BY <1>0, <1>2 DEF Fields
  <1> QED
    BY <1>2, <1>6, <1>7, <1>8, <1>9, <1>10 DEF IInv

LEMMA heartbeatStep ==
    ASSUME IInv, heartbeat
    PROVE  IInv'
  <1>0. /\ htimers > 0 /\ htimers' = htimers - 1 /\ htimers \in 0..MaxTimers
        /\ UNCHANGED <<transport, online, caps_done, caps_received, shut_down, vtimers>>
    BY DEF heartbeat, IInv, Fields
  <1>1. htimers' \in 0..MaxTimers
    BY <1>0, RtpProxyClientAssumption DEF RtpProxyClientAssumption
  <1>2. CASE ~shut_down
    BY <1>0, <1>1, <1>2, SendOther DEF heartbeat
  <1>3. CASE shut_down
    <2>1. UNCHANGED req
      BY <1>3 DEF heartbeat
    <2> QED
      BY <1>0, <1>1, <1>3, <2>1 DEF IInv, Fields, Owners, First, Counted, Watch, Return, Of
  <1> QED
    BY <1>2, <1>3

LEMMA OwnerStep ==
    ASSUME IInv, SendCommand \/ Shutdown
    PROVE  IInv'
  <1>1. CASE SendCommand
    <2>1. htimers' \in 0..MaxTimers
      BY <1>1 DEF SendCommand, IInv, Fields
    <2> QED
      BY <1>1, <2>1, SendOther DEF SendCommand
  <1>2. CASE Shutdown
    <2>1. shut_down' = TRUE
          /\ UNCHANGED <<transport, online, caps_done, caps_received, req, vtimers, htimers>>
      BY <1>2 DEF Shutdown
    <2> QED
      BY <2>1 DEF IInv, Fields, Owners, First, Counted, Watch, Return, Of
  <1> QED
    BY <1>1, <1>2

-----------------------------------------------------------------------------
(* The theorems *)

LEMMA InitIInv == Init => IInv
  <1> SUFFICES ASSUME Init PROVE IInv
    OBVIOUS
  <1>0. /\ MaxReqs \in Nat \ {0} /\ NCaps \in Nat \ {0} /\ MaxTries \in Nat /\ MaxTimers \in Nat \ {0}
    BY RtpProxyClientAssumption DEF RtpProxyClientAssumption
  <1>1. transport \in {"udp", "stream"}
    BY DEF Init, rtpp_class
  <1>2. /\ ~online /\ ~caps_done /\ ~shut_down /\ caps_received = 0 /\ vtimers = 0 /\ htimers = 0
        /\ online \in BOOLEAN /\ caps_done \in BOOLEAN /\ shut_down \in BOOLEAN /\ req = Start
    BY DEF Init
  <1>3. 1 \in Slots
    BY <1>0 DEF Slots
  <1>4. PICK v : v = NewRequest("V")
    OBVIOUS
  <1>5. /\ v \in Requests /\ Owned(v) /\ v.k = "V" /\ v.st \notin {"done", "callback"}
        /\ ~v.saw.online
    BY <1>1, <1>4, NewFacts DEF Kinds
  <1>6. req \in [Slots -> Requests] /\ req[1] = v
        /\ \A r \in Slots : r # 1 => /\ req[r].st = "done" /\ Owned(req[r])
                                     /\ ~req[r].saw.online
    <2>1. PICK d : d = [v EXCEPT !.st = "done", !.k = "cmd", !.tries = 0, !.calls = 1,
                                 !.reg = FALSE, !.timer = FALSE]
      OBVIOUS
    <2>2. d \in Requests /\ d.st = "done" /\ d.calls = 1 /\ ~d.reg /\ d.saw = v.saw /\ d.resend = v.resend
      <3>1. \A t \in 0..MaxTries, s \in States, k \in Kinds, c \in 0..2, a, b \in BOOLEAN :
              [v EXCEPT !.st = s, !.k = k, !.tries = t, !.calls = c, !.reg = a, !.timer = b] \in Requests
        BY <1>5 DEF Requests, States
      <3>2. 0 \in 0..MaxTries /\ "done" \in States /\ "cmd" \in Kinds /\ 1 \in 0..2 /\ FALSE \in BOOLEAN
        BY <1>0 DEF States, Kinds
      <3>3. d \in Requests
        BY <2>1, <3>1, <3>2
      <3> QED
        BY <1>5, <2>1, <3>3 DEF Requests
    <2>3. ~v.resend
      BY <1>4 DEF NewRequest
    <2>4. Owned(d) /\ ~d.saw.online
      BY <1>5, <2>2, <2>3 DEF Owned
    <2>5. Start = [r \in Slots |-> IF r = 1 THEN v ELSE d]
      <3>1. ASSUME NEW r \in Slots PROVE Start[r] = IF r = 1 THEN v ELSE d
        <4>0. v.reg \in BOOLEAN /\ v.timer \in BOOLEAN /\ v.calls = 0
          BY <1>5 DEF Requests, Owned
        <4>1. Start[r] = [v EXCEPT !.st = IF r = 1 THEN v.st ELSE "done",
                                   !.k = IF r = 1 THEN v.k ELSE "cmd",
                                   !.tries = IF r = 1 THEN v.tries ELSE 0,
                                   !.calls = IF r = 1 THEN 0 ELSE 1,
                                   !.reg = r = 1 /\ v.reg, !.timer = r = 1 /\ v.timer]
          BY <1>4 DEF Start
        <4>2. CASE r = 1
          <5>1. (r = 1 /\ v.reg) = v.reg /\ (r = 1 /\ v.timer) = v.timer
            BY <4>0, <4>2
          <5>2. Start[r] = [v EXCEPT !.st = v.st, !.k = v.k, !.tries = v.tries, !.calls = v.calls,
                                     !.reg = v.reg, !.timer = v.timer]
            BY <4>0, <4>1, <4>2, <5>1
          <5> QED
            BY <1>5, <4>2, <5>2 DEF Requests
        <4>3. CASE r # 1
          <5>1. (r = 1 /\ v.reg) = FALSE /\ (r = 1 /\ v.timer) = FALSE
            BY <4>3
          <5> QED
            BY <2>1, <4>1, <4>3, <5>1
        <4> QED
          BY <4>2, <4>3
      <3> QED
        BY <3>1 DEF Start
    <2> QED
      BY <1>2, <1>3, <1>5, <2>2, <2>4, <2>5
  <1>7. Of(req, "V") = {1} /\ Of(req, "VF") = {}
    BY <1>3, <1>5, <1>6 DEF Of
  <1>8. Fields
    BY <1>0, <1>1, <1>2, <1>6 DEF Fields
  <1>9. Owners
    BY <1>5, <1>6 DEF Owners
  <1>10. First
    BY <1>2, <1>5, <1>6, <1>7 DEF First
  <1>11. Counted
    <2>1. caps_received + 0 <= NCaps
      BY <1>0, <1>2
    <2> QED
      BY <1>2, <1>7, <2>1, FS_EmptySet DEF Counted
  <1>12. Watch /\ Return
    BY <1>2, <1>5, <1>6, <1>7 DEF Watch, Return
  <1> QED
    BY <1>8, <1>9, <1>10, <1>11, <1>12 DEF IInv

LEMMA IInvStep == IInv /\ [Next]_vars => IInv'
  <1> SUFFICES ASSUME IInv, [Next]_vars PROVE IInv'
    OBVIOUS
  <1>1. ASSUME NEW r \in Slots,
               \/ Register(r) \/ retransmit(r) \/ Resend(r) \/ GiveUp(r)
               \/ \E res \in Answers(req[r].k) : process_reply(r, res) \/ Worker(r, res)
               \/ Worker(r, "")
        PROVE  IInv'
    <2>1. Answers(req[r].k) \subseteq Results /\ "" \in Results
      BY DEF Answers, Results
    <2> QED
      BY <1>1, <2>1, RegisterStep, retransmitStep, ResendStep, GiveUpStep, AnswerStep
  <1>2. ASSUME NEW r \in Slots,
               \/ version_check_reply(r) \/ caps_query_done(r)
               \/ heartbeat_reply(r) \/ result_callback(r)
        PROVE  IInv'
    BY <1>2, version_check_replyStep, caps_query_doneStep, heartbeat_replyStep, result_callbackStep
  <1>3. CASE version_check \/ heartbeat \/ SendCommand \/ Shutdown
    BY <1>3, version_checkStep, heartbeatStep, OwnerStep
  <1>4. CASE UNCHANGED vars
    BY <1>4 DEF vars, IInv, Fields, Owners, First, Counted, Watch, Return, Of
  <1> QED
    BY Zenon, <1>1, <1>2, <1>3, <1>4 DEF Next

LEMMA Invariance == Spec => []IInv
  BY InitIInv, IInvStep, PTL DEF Spec

\* The client's fields and its requests keep their type; in particular the count
\* of capabilities, which caps_query_done adds to without a lock, never passes
\* the number asked for.
THEOREM TypeCorrect == Spec => []TypeOK
  <1>1. IInv => TypeOK
    BY DEF IInv, Fields, TypeOK
  <1> QED
    BY <1>1, Invariance, PTL

\* process_reply, its duplicates and the retransmit that gives up exclude each
\* other, and so do the workers: no callback of a command runs twice, whatever
\* the number of requests in progress and of retransmissions.
THEOREM CalledOnceHolds == Spec => []CalledOnce
  <1>1. IInv => CalledOnce
    <2> SUFFICES ASSUME IInv, NEW r \in Slots PROVE req[r].calls <= 1
      BY DEF CalledOnce
    <2>1. req[r].calls \in {0, 1}
      BY DEF IInv, Owners, Owned
    <2> QED
      BY <2>1
  <1> QED
    BY <1>1, Invariance, PTL

\* However GoOnline, GoOffline and the callbacks that have read an old value of
\* online interleave, a client that is off line is on its way back, or one of
\* its capability answers was not counted.
THEOREM WillReturnHolds == Spec => []WillReturn
  <1>1. IInv => WillReturn
    <2> SUFFICES ASSUME IInv, ~online, ~shut_down, ~(vtimers > 0),
                        ~\E r \in Slots : InProgress(r, "V") \/ InProgress(r, "VF")
                 PROVE  ~caps_done /\ CapsLost
      BY DEF WillReturn
    <2>1. Of(req, "V") = {} /\ Of(req, "VF") = {}
      BY DEF Of, InProgress
    <2>2. ~caps_done /\ caps_received < NCaps
      BY <2>1 DEF IInv, Return
    <2> QED
      BY <2>2 DEF CapsLost
  <1> QED
    BY <1>1, Invariance, PTL

\* A client that is on line always has a heartbeat scheduled or under way: the
\* one that ends has read online before GoOnline started the next.
THEOREM OnlineIsWatchedHolds == Spec => []OnlineIsWatched
  <1>1. IInv => OnlineIsWatched
    BY DEF IInv, Watch, OnlineIsWatched, HeartbeatPending, InProgress, Of
  <1> QED
    BY <1>1, Invariance, PTL
=============================================================================
