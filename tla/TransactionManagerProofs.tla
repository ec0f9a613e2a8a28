----------------------- MODULE TransactionManagerProofs -----------------------
(***************************************************************************)
(* TransactionManager for any datagrams, in any number of copies, and any  *)
(* number of receivers: every datagram is handled once, its answer is kept *)
(* as long as the peer may repeat it, and neither a CANCEL nor a request   *)
(* within a dialog misses what it belongs to.                              *)
(***************************************************************************)
EXTENDS TransactionManager, SequenceTheorems, FiniteSetTheorems, TLAPS

-------------------------------------------------------------------------------
\* The inductive invariant.

\* An answer is in the newer generation until a purge moves it to the older one,
\* where nothing hides it.
Kept ==
    \A d \in Datagrams :
      /\ answered[d][2] = 0 => l1rcache[d] = answered[d][1] /\ l1rcache[d] # NoEntry
      /\ answered[d][2] = 1 => /\ l1rcache[d] = NoEntry
                               /\ l2rcache[d] = answered[d][1] /\ l2rcache[d] # NoEntry

\* What the peer may repeat is known; what it never sent is not.
Known ==
    \A d \in Datagrams :
      /\ age[d] = 0 => l1rcache[d] # NoEntry
      /\ age[d] = 1 => l1rcache[d] # NoEntry \/ l2rcache[d] # NoEntry
      /\ age[d] = Never => /\ l1rcache[d] = NoEntry /\ l2rcache[d] = NoEntry
                           /\ handled[d] = 0
                           /\ \A r \in Receivers : rcv[r].msg # d
                           /\ \A b \in Branches : checksum[b] # d

\* A datagram is with one receiver at most, which has not handed it up before it
\* is past the upper layer.
Alone ==
    /\ \A r, q \in Receivers : rcv[r].msg = rcv[q].msg /\ rcv[r].msg # Nothing => r = q
    /\ \A r \in Receivers : rcv[r].pc = "idle" <=> rcv[r].msg = Nothing
    /\ \A d \in Datagrams : handled[d] <= 1
    /\ \A r \in Receivers : rcv[r].pc \in {"request", "upcall"} => handled[rcv[r].msg] = 0

\* A request that has a provisional response only is in the table, and nothing
\* else is under its key.
Opened ==
    /\ \A b \in Branches : tserver[b] # "none" => checksum[b] \in Datagrams /\ Br(checksum[b]) = b
    /\ \A r \in Receivers : rcv[r].pc \in {"upcall", "return"} =>
         tserver[Br(rcv[r].msg)] = "busy" /\ checksum[Br(rcv[r].msg)] = rcv[r].msg
    /\ \A d \in Datagrams : handled[d] > 0 /\ answered[d][1] = "1xx" =>
         tserver[Br(d)] # "none" /\ checksum[Br(d)] = d

Has(s, e) == \E i \in DOMAIN s : s[i] = e
Once(s) == \A i, j \in DOMAIN s : s[i] = s[j] => i = j

\* The consumers of the Call-ID are the legs that have begun and not died, each
\* once; the callee's leg has one client transaction.
Registered ==
    /\ Once(consumers)
    /\ \A u \in Legs : ua[u].state \in {"live", "disc"} <=> Has(consumers, u)
    /\ ua["B"].state = "idle" => tclient = {}

Leg == [state : {"idle", "live", "disc", "dead"}, rtag : Tags, branch : Branches \union {""}]

Typed ==
    /\ age \in [Datagrams -> Never..Old] /\ arrivals \in 0..MaxArrivals
    /\ l1rcache \in [Datagrams -> {NoEntry, Placeholder} \union Answers]
    /\ l2rcache \in [Datagrams -> {NoEntry, Placeholder} \union Answers]
    /\ tserver \in [Branches -> {"none", "busy", "open"}]
    /\ checksum \in [Branches -> Datagrams \union {Nothing}]
    /\ completed \subseteq Datagrams /\ \A s, t \in tclient : s = t
    /\ consumers \in Seq(Legs)
    /\ ua \in [Legs -> Leg]
    /\ rcv \in [Receivers -> [pc : Steps, msg : Datagrams \union {Nothing}]]
    /\ handled \in [Datagrams -> Nat]
    /\ answered \in [Datagrams -> (Answers \union {"none"}) \X (Never..Old)]

IInv ==
    /\ Typed /\ Kept /\ Known /\ Alone /\ Opened /\ Registered
    /\ wronged = {}

-------------------------------------------------------------------------------
\* What is known of the datagrams.

LEMMA DatagramFacts ==
    /\ Nothing \notin Datagrams /\ Datagrams \subseteq Nat
    /\ \A d \in Datagrams : Br(d) \in Branches /\ From(d) \in Tags /\ To(d) \in Tags
  BY BoundsAssumption DEF BoundsAssumption, Datagrams, Nothing, Branches, Tags

\* A receiver at a step of a datagram.
LEMMA AtFacts ==
    ASSUME IInv, NEW r \in Receivers, NEW d \in {rcv[r].msg} \ {Nothing}
    PROVE  d \in Datagrams /\ rcv[r].msg = d /\ age[d] # Never /\ rcv[r].pc # "idle"
  <1>1. rcv[r].msg \in Datagrams \union {Nothing}
    BY DEF IInv, Typed
  <1>2. d \in Datagrams /\ rcv[r].msg = d
    BY <1>1
  <1> QED
    BY <1>2 DEF IInv, Known, Alone

-------------------------------------------------------------------------------
\* The retransmission cache.

Sends(x, a) == transmitData(x, a) /\ UNCHANGED age /\ age[x] # Never
Marks(x) ==
    /\ l1rcache[x] = NoEntry /\ l2rcache[x] = NoEntry
    /\ rcache_put(x, Placeholder) /\ UNCHANGED answered
    /\ age' = [age EXCEPT ![x] = 0] \/ (age' = age /\ age[x] # Never)
Cancels(x, y) ==
    /\ age[x] # Never /\ age[y] # Never /\ UNCHANGED <<age, l2rcache>>
    /\ l1rcache' = [l1rcache EXCEPT ![x] = "200", ![y] = "487"]
    /\ answered' = [answered EXCEPT ![x] = <<"200", 0>>, ![y] = <<"487", 0>>]

CacheSteps ==
    \/ rCachePurge
    \/ \E x \in Datagrams, a \in Answers : Sends(x, a)
    \/ \E x \in Datagrams : Marks(x)
    \/ \E x, y \in Datagrams : Cancels(x, y)
    \/ UNCHANGED <<cache, age, answered>>

\* An arrival finds an entry, or nobody has seen the datagram before.
LEMMA ArrivalCases ==
    ASSUME IInv, NEW r \in Receivers, NEW d \in Datagrams, handleIncoming(r, d)
    PROVE  \/ /\ age[d] # Never /\ UNCHANGED <<cache, rcv, age, answered>>
           \/ /\ age[d] = Never /\ Marks(d)
              /\ \E pc \in {"unparsed", "response", "request"} : Goto(r, pc, d)
  <1>1. age[d] \in {Never, 0, 1} /\ age \in [Datagrams -> Never..Old]
    <2>1. age[d] \notin {Never, Old} \/ age[d] = Never
      BY Zenon DEF handleIncoming, PeerSends
    <2>2. age \in [Datagrams -> Never..Old]
      BY DEF IInv, Typed
    <2> QED
      BY <2>1, <2>2 DEF Never, Old
  <1>2. UNCHANGED answered /\ age' = [age EXCEPT ![d] = IF age[d] = Never THEN 0 ELSE age[d]]
    BY DEF handleIncoming
  <1>3. CASE rcache_get(d) # NoEntry
    <2>1. age[d] # Never
      BY <1>3 DEF rcache_get, IInv, Known
    <2>2. UNCHANGED <<cache, rcv>>
      BY <1>3 DEF handleIncoming
    <2>3. age' = age
      BY <1>1, <1>2, <2>1
    <2> QED
      BY <1>2, <2>1, <2>2, <2>3
  <1>4. CASE rcache_get(d) = NoEntry
    <2>1. l1rcache[d] = NoEntry /\ l2rcache[d] = NoEntry
      BY <1>4 DEF rcache_get
    <2>2. age[d] = Never
      BY <1>1, <2>1 DEF IInv, Known
    <2>3. age' = [age EXCEPT ![d] = 0]
      BY <1>2, <2>2
    <2>4. rcache_put(d, Placeholder)
      BY <1>4 DEF handleIncoming
    <2>5. \E pc \in {"unparsed", "response", "request"} : Goto(r, pc, d)
      BY <1>4 DEF handleIncoming
    <2> QED
      BY <1>2, <2>1, <2>2, <2>3, <2>4, <2>5 DEF Marks
  <1> QED
    BY <1>3, <1>4

LEMMA MarkOrKeep ==
    ASSUME NEW d \in Datagrams, rcache_set_call_id(d), UNCHANGED <<answered, age>>, age[d] # Never
    PROVE  Marks(d) \/ UNCHANGED <<cache, age, answered>>
  BY DEF rcache_set_call_id, rcache_get, Marks, cache

\* The steps of a receiver that has a datagram.
Works(r, d) ==
    \/ BadResponse(r, d)
    \/ RelayResponse(r, d)
    \/ DropResponse(r, d)
    \/ \E final \in BOOLEAN : process_response(r, d, final)
    \/ process_request(r, d)
    \/ IncomingCopy(r, d)
    \/ IncomingCancel(r, d)
    \/ IncomingAck(r, d)
    \/ UnmatchedCancel(r, d)
    \/ new_server_transaction(r, d)
    \/ RecvRequest(r, d)
    \/ NoSuchDialog(r, d)
    \/ OnNewDialog(r, d)
    \/ UpcallReturns(r, d)

LEMMA NextCases ==
    ASSUME [Next]_vars
    PROVE  \/ rCachePurge
           \/ \E r \in Receivers, d \in Datagrams : handleIncoming(r, d)
           \/ \E r \in Receivers : \E d \in {rcv[r].msg} \ {Nothing} : Works(r, d)
           \/ \E b \in Branches, ok \in BOOLEAN : SendResponse(b, ok)
           \/ \E i \in completed : timerD(i)
           \/ \E d \in Datagrams : CreateClientTransaction(d)
           \/ \E tid \in tclient : tclient_del(tid)
           \/ \E u \in Legs : OnDead(u)
           \/ UNCHANGED vars
  BY Zenon DEF Next, Works

LEMMA WorkCache ==
    ASSUME IInv, NEW r \in Receivers, NEW d \in {rcv[r].msg} \ {Nothing}, Works(r, d)
    PROVE  CacheSteps
  <1>0. d \in Datagrams /\ age[d] # Never
    BY AtFacts
  <1>1. ASSUME NEW a \in Answers, transmitData(d, a), UNCHANGED age PROVE CacheSteps
    BY <1>0, <1>1 DEF CacheSteps, Sends
  <1>2. {"1xx", "200", "400", "4xx", "481", "487", "relayed"} \subseteq Answers
    BY DEF Answers
  <1>3. CASE DropResponse(r, d) \/ IncomingAck(r, d)
    BY <1>0, <1>3, MarkOrKeep DEF DropResponse, IncomingAck, CacheSteps, peers
  <1>4. CASE IncomingCancel(r, d)
    <2>1. tserver[Br(d)] # "none" /\ Br(d) \in Branches
      BY <1>0, <1>4, DatagramFacts DEF IncomingCancel
    <2>2. checksum[Br(d)] \in Datagrams
      BY <2>1 DEF IInv, Opened
    <2>3. age[checksum[Br(d)]] # Never
      BY <2>1, <2>2 DEF IInv, Known
    <2> DEFINE invite == checksum[Br(d)]
    <2>4. /\ l1rcache' = [l1rcache EXCEPT ![d] = "200", ![invite] = "487"]
          /\ answered' = [answered EXCEPT ![d] = <<"200", 0>>, ![invite] = <<"487", 0>>]
          /\ UNCHANGED <<age, l2rcache>>
      BY <1>4 DEF IncomingCancel, peers
    <2> HIDE DEF invite
    <2>5. Cancels(d, invite)
      BY <1>0, <2>3, <2>4 DEF Cancels, invite
    <2> QED
      BY <1>0, <2>2, <2>5 DEF CacheSteps, invite
  <1>5. CASE RelayResponse(r, d)
    BY <1>1, <1>2, <1>5 DEF RelayResponse, peers
  <1>6. CASE process_request(r, d)
    BY <1>1, <1>2, <1>6 DEF process_request, peers, CacheSteps
  <1>7. CASE IncomingCopy(r, d)
    BY <1>1, <1>2, <1>7 DEF IncomingCopy, peers
  <1>8. CASE UnmatchedCancel(r, d)
    BY <1>1, <1>2, <1>8 DEF UnmatchedCancel, peers
  <1>9. CASE RecvRequest(r, d)
    BY <1>1, <1>2, <1>9 DEF RecvRequest, peers
  <1>10. CASE NoSuchDialog(r, d)
    BY <1>1, <1>2, <1>10 DEF NoSuchDialog, peers
  <1>11. CASE OnNewDialog(r, d)
    BY <1>1, <1>2, <1>11 DEF OnNewDialog, peers
  <1>12. CASE \/ BadResponse(r, d) \/ (\E final \in BOOLEAN : process_response(r, d, final))
              \/ new_server_transaction(r, d) \/ UpcallReturns(r, d)
    BY <1>12 DEF BadResponse, process_response, new_server_transaction, UpcallReturns, peers,
                 CacheSteps
  <1> QED
    BY <1>3, <1>4, <1>5, <1>6, <1>7, <1>8, <1>9, <1>10, <1>11, <1>12 DEF Works

LEMMA CacheCases ==
    ASSUME IInv, [Next]_vars
    PROVE  CacheSteps
  <1>1. ASSUME NEW r \in Receivers, NEW d \in Datagrams, handleIncoming(r, d) PROVE CacheSteps
    BY <1>1, ArrivalCases DEF CacheSteps
  <1>2. ASSUME NEW b \in Branches, NEW ok \in BOOLEAN, SendResponse(b, ok) PROVE CacheSteps
    <2>1. tserver[b] # "none"
      BY <1>2 DEF SendResponse
    <2>2. checksum[b] \in Datagrams
      BY <2>1 DEF IInv, Opened
    <2>3. age[checksum[b]] # Never
      BY <2>2 DEF IInv, Known
    <2>4. (IF ok THEN "200" ELSE "4xx") \in Answers
      BY DEF Answers
    <2>5. Sends(checksum[b], IF ok THEN "200" ELSE "4xx")
      BY <1>2, <2>3 DEF Sends, SendResponse, peers
    <2> QED
      BY <2>2, <2>4, <2>5 DEF CacheSteps
  <1>3. CASE \/ (\E i \in completed : timerD(i)) \/ (\E d \in Datagrams : CreateClientTransaction(d))
             \/ (\E tid \in tclient : tclient_del(tid)) \/ (\E u \in Legs : OnDead(u))
             \/ UNCHANGED vars
    BY <1>3 DEF timerD, CreateClientTransaction, tclient_del, OnDead, vars, peers, CacheSteps
  <1> QED
    BY <1>1, <1>2, <1>3, WorkCache, NextCases DEF CacheSteps

\* The part of Typed that the cache is in.
CacheTyped ==
    /\ age \in [Datagrams -> Never..Old]
    /\ l1rcache \in [Datagrams -> {NoEntry, Placeholder} \union Answers]
    /\ l2rcache \in [Datagrams -> {NoEntry, Placeholder} \union Answers]
    /\ answered \in [Datagrams -> (Answers \union {"none"}) \X (Never..Old)]

\* The part of Known that is about the cache.
InCache ==
    \A d \in Datagrams :
      /\ age[d] = 0 => l1rcache[d] # NoEntry
      /\ age[d] = 1 => l1rcache[d] # NoEntry \/ l2rcache[d] # NoEntry
      /\ age[d] = Never => l1rcache[d] = NoEntry /\ l2rcache[d] = NoEntry

LEMMA OlderFacts ==
    ASSUME NEW t \in Never..Old
    PROVE  /\ Older(t) \in Never..Old /\ Older(t) # 0
           /\ (Older(t) = 1 => t = 0) /\ (Older(t) = Never <=> t = Never)
  BY DEF Older, Never, Old

LEMMA PurgeCache ==
    ASSUME CacheTyped, InCache, Kept, rCachePurge
    PROVE  CacheTyped' /\ InCache' /\ Kept'
  <1>1. /\ l2rcache' = l1rcache /\ l1rcache' = [d \in Datagrams |-> NoEntry]
        /\ age' = [d \in Datagrams |-> Older(age[d])]
        /\ answered' = [d \in Datagrams |-> <<answered[d][1], Older(answered[d][2])>>]
    BY DEF rCachePurge, Aged
  <1>2. \A d \in Datagrams :
          /\ age[d] \in Never..Old /\ answered[d][2] \in Never..Old
          /\ answered[d][1] \in Answers \union {"none"}
    BY DEF CacheTyped
  <1>3. \A d \in Datagrams :
          /\ age'[d] = Older(age[d]) /\ answered'[d][1] = answered[d][1]
          /\ answered'[d][2] = Older(answered[d][2])
          /\ l2rcache'[d] = l1rcache[d] /\ l1rcache'[d] = NoEntry
    BY <1>1
  <1>4. CacheTyped'
    <2>1. l2rcache' \in [Datagrams -> {NoEntry, Placeholder} \union Answers]
      BY <1>1 DEF CacheTyped
    <2>2. l1rcache' \in [Datagrams -> {NoEntry, Placeholder} \union Answers]
      BY <1>1
    <2>3. age' \in [Datagrams -> Never..Old]
      BY <1>1, <1>2, OlderFacts
    <2>4. answered' \in [Datagrams -> (Answers \union {"none"}) \X (Never..Old)]
      <3>1. \A d \in Datagrams : Older(answered[d][2]) \in Never..Old
        BY <1>2, OlderFacts
      <3> QED
        BY <1>1, <1>2, <3>1
    <2> QED
      BY <2>1, <2>2, <2>3, <2>4 DEF CacheTyped
  <1>5. InCache'
    BY <1>2, <1>3, OlderFacts DEF InCache
  <1>6. Kept'
    BY <1>2, <1>3, OlderFacts DEF Kept
  <1> QED
    BY <1>4, <1>5, <1>6

LEMMA SendsCache ==
    ASSUME CacheTyped, InCache, Kept, NEW x \in Datagrams, NEW a \in Answers, Sends(x, a)
    PROVE  CacheTyped' /\ InCache' /\ Kept'
  <1>1. /\ l2rcache' = l2rcache /\ l1rcache' = [l1rcache EXCEPT ![x] = a] /\ age' = age
        /\ answered' = [answered EXCEPT ![x] = <<a, 0>>] /\ age[x] # Never
    BY DEF Sends, transmitData, rcache_put
  <1>2. a # NoEntry /\ 0 \in Never..Old
    BY DEF Answers, NoEntry, Never, Old
  <1>3. /\ \A d \in Datagrams : d # x => l1rcache'[d] = l1rcache[d] /\ answered'[d] = answered[d]
        /\ l1rcache'[x] = a /\ answered'[x][1] = a /\ answered'[x][2] = 0
    BY <1>1 DEF CacheTyped
  <1>4. CacheTyped'
    <2>1. l1rcache' \in [Datagrams -> {NoEntry, Placeholder} \union Answers]
      BY <1>1 DEF CacheTyped
    <2>2. answered' \in [Datagrams -> (Answers \union {"none"}) \X (Never..Old)]
      BY <1>1, <1>2 DEF CacheTyped
    <2> QED
      BY <1>1, <2>1, <2>2 DEF CacheTyped
  <1>5. InCache'
    BY <1>1, <1>2, <1>3 DEF InCache
  <1>6. Kept'
    BY <1>1, <1>2, <1>3 DEF Kept
  <1> QED
    BY <1>4, <1>5, <1>6

LEMMA CancelsCache ==
    ASSUME CacheTyped, InCache, Kept, NEW x \in Datagrams, NEW y \in Datagrams, Cancels(x, y)
    PROVE  CacheTyped' /\ InCache' /\ Kept'
  <1>1. /\ l2rcache' = l2rcache /\ age' = age /\ age[x] # Never /\ age[y] # Never
        /\ l1rcache' = [l1rcache EXCEPT ![x] = "200", ![y] = "487"]
        /\ answered' = [answered EXCEPT ![x] = <<"200", 0>>, ![y] = <<"487", 0>>]
    BY DEF Cancels
  <1>2. "200" \in Answers /\ "487" \in Answers /\ "200" # NoEntry /\ "487" # NoEntry
        /\ 0 \in Never..Old
    BY DEF Answers, NoEntry, Never, Old
  <1>3. /\ \A d \in Datagrams : d # x /\ d # y =>
                l1rcache'[d] = l1rcache[d] /\ answered'[d] = answered[d]
        /\ l1rcache'[y] = "487" /\ answered'[y][1] = "487" /\ answered'[y][2] = 0
        /\ x # y => l1rcache'[x] = "200" /\ answered'[x][1] = "200" /\ answered'[x][2] = 0
    BY <1>1 DEF CacheTyped
  <1>4. CacheTyped'
    <2>1. l1rcache' \in [Datagrams -> {NoEntry, Placeholder} \union Answers]
      BY <1>1, <1>2 DEF CacheTyped
    <2>2. answered' \in [Datagrams -> (Answers \union {"none"}) \X (Never..Old)]
      BY <1>1, <1>2 DEF CacheTyped
    <2> QED
      BY <1>1, <2>1, <2>2 DEF CacheTyped
  <1>5. InCache'
    BY <1>1, <1>2, <1>3 DEF InCache
  <1>6. Kept'
    <2>1. \A d \in Datagrams : d # x /\ d # y =>
            l1rcache'[d] = l1rcache[d] /\ answered'[d] = answered[d] /\ l2rcache'[d] = l2rcache[d]
      BY <1>1, <1>3
    <2>2. \A d \in {x, y} : /\ answered'[d][2] = 0 /\ l1rcache'[d] = answered'[d][1]
                           /\ l1rcache'[d] # NoEntry
      BY <1>2, <1>3
    <2> QED
      BY <2>1, <2>2 DEF Kept
  <1> QED
    BY <1>4, <1>5, <1>6

LEMMA MarksCache ==
    ASSUME CacheTyped, InCache, Kept, NEW x \in Datagrams, Marks(x)
    PROVE  CacheTyped' /\ InCache' /\ Kept'
  <1>1. /\ l2rcache' = l2rcache /\ l1rcache' = [l1rcache EXCEPT ![x] = Placeholder]
        /\ answered' = answered /\ l1rcache[x] = NoEntry /\ l2rcache[x] = NoEntry
        /\ age' = [age EXCEPT ![x] = 0] \/ (age' = age /\ age[x] # Never)
    BY DEF Marks, rcache_put
  <1>2. Placeholder # NoEntry /\ 0 \in Never..Old /\ 0 # Never
    BY DEF Placeholder, NoEntry, Never, Old
  <1>3. /\ \A d \in Datagrams : d # x => l1rcache'[d] = l1rcache[d] /\ age'[d] = age[d]
        /\ l1rcache'[x] = Placeholder /\ age'[x] # Never
    BY <1>1, <1>2 DEF CacheTyped
  <1>4. answered[x][2] # 0 /\ answered[x][2] # 1
    BY <1>1 DEF Kept
  <1>5. CacheTyped'
    BY <1>1, <1>2 DEF CacheTyped
  <1>6. InCache'
    BY <1>1, <1>2, <1>3 DEF InCache
  <1>7. Kept'
    BY <1>1, <1>2, <1>3, <1>4 DEF Kept
  <1> QED
    BY <1>5, <1>6, <1>7

LEMMA CacheStep ==
    ASSUME IInv, [Next]_vars
    PROVE  CacheTyped' /\ InCache' /\ Kept'
  <1>1. CacheTyped /\ InCache /\ Kept
    BY DEF IInv, Typed, Known, CacheTyped, InCache
  <1>2. CASE UNCHANGED <<cache, age, answered>>
    BY <1>1, <1>2 DEF CacheTyped, InCache, Kept, cache
  <1> QED
    BY <1>1, <1>2, CacheCases, PurgeCache, SendsCache, CancelsCache, MarksCache DEF CacheSteps

-------------------------------------------------------------------------------
\* The receivers.

\* What a receiver does with its datagram: it goes on, is done with it, or hands
\* it to the upper layer.
GoesOn(r, d) ==
    /\ UNCHANGED handled
    /\ \/ Done(r) \/ Goto(r, "relayed", d)
       \/ Goto(r, "upcall", d) /\ rcv[r].pc = "request"
HandsUp(r, d) ==
    /\ rcv[r].pc = "upcall" /\ HandedUp(d)
    /\ Done(r) \/ Goto(r, "return", d)
Takes(r, d) ==
    /\ rcv[r].pc = "idle" /\ age[d] = Never /\ age'[d] # Never /\ UNCHANGED handled
    /\ \E pc \in {"unparsed", "response", "request"} : Goto(r, pc, d)

ReceiverSteps ==
    \/ \E r \in Receivers, d \in Datagrams : Takes(r, d)
    \/ \E r \in Receivers : \E d \in {rcv[r].msg} \ {Nothing} : GoesOn(r, d) \/ HandsUp(r, d)
    \/ UNCHANGED <<rcv, handled>>

LEMMA ReceiverCases ==
    ASSUME IInv, [Next]_vars
    PROVE  ReceiverSteps
  <1>1. ASSUME NEW r \in Receivers, NEW d \in Datagrams, handleIncoming(r, d) PROVE ReceiverSteps
    <2>1. UNCHANGED handled /\ rcv[r].pc = "idle"
      BY <1>1 DEF handleIncoming
    <2>2. Marks(d) /\ age[d] = Never => age'[d] # Never
      <3>0. 0 # Never
        BY DEF Never
      <3>1. age \in [Datagrams -> Never..Old]
        BY DEF IInv, Typed
      <3>2. Marks(d) /\ age[d] = Never => age' = [age EXCEPT ![d] = 0]
        BY DEF Marks
      <3> QED
        BY <3>0, <3>1, <3>2
    <2> QED
      BY <1>1, <2>1, <2>2, ArrivalCases DEF ReceiverSteps, Takes
  <1>2. ASSUME NEW r \in Receivers, NEW d \in {rcv[r].msg} \ {Nothing}, Works(r, d)
        PROVE  GoesOn(r, d) \/ HandsUp(r, d)
    <2>1. CASE RecvRequest(r, d) \/ NoSuchDialog(r, d) \/ OnNewDialog(r, d)
      BY <2>1 DEF RecvRequest, NoSuchDialog, OnNewDialog, HandsUp, At
    <2>2. CASE new_server_transaction(r, d) \/ RelayResponse(r, d)
      BY <2>2 DEF new_server_transaction, RelayResponse, GoesOn, Lookup, At
    <2>3. CASE \/ BadResponse(r, d) \/ DropResponse(r, d)
               \/ (\E final \in BOOLEAN : process_response(r, d, final)) \/ process_request(r, d)
      BY <2>3 DEF BadResponse, DropResponse, process_response, process_request, GoesOn
    <2>4. CASE \/ IncomingCopy(r, d) \/ IncomingCancel(r, d) \/ IncomingAck(r, d)
               \/ UnmatchedCancel(r, d) \/ UpcallReturns(r, d)
      BY <2>4 DEF IncomingCopy, IncomingCancel, IncomingAck, UnmatchedCancel, UpcallReturns, GoesOn
    <2> QED
      BY <1>2, <2>1, <2>2, <2>3, <2>4 DEF Works
  <1>3. CASE \/ rCachePurge \/ (\E b \in Branches, ok \in BOOLEAN : SendResponse(b, ok))
             \/ (\E i \in completed : timerD(i)) \/ (\E d \in Datagrams : CreateClientTransaction(d))
             \/ (\E tid \in tclient : tclient_del(tid)) \/ (\E u \in Legs : OnDead(u))
             \/ UNCHANGED vars
    BY <1>3 DEF rCachePurge, SendResponse, timerD, CreateClientTransaction, tclient_del, OnDead,
                vars, ReceiverSteps
  <1> QED
    BY <1>1, <1>2, <1>3, NextCases DEF ReceiverSteps

ReceiverTyped ==
    /\ rcv \in [Receivers -> [pc : Steps, msg : Datagrams \union {Nothing}]]
    /\ handled \in [Datagrams -> Nat]

\* A receiver goes to another step.
LEMMA GotoEffect ==
    ASSUME ReceiverTyped, NEW r \in Receivers, NEW p \in Steps, NEW d \in Datagrams \union {Nothing},
           Goto(r, p, d)
    PROVE  /\ rcv' \in [Receivers -> [pc : Steps, msg : Datagrams \union {Nothing}]]
           /\ rcv'[r].pc = p /\ rcv'[r].msg = d
           /\ \A q \in Receivers : q # r => rcv'[q] = rcv[q]
  BY DEF Goto, ReceiverTyped

LEMMA StepNames ==
    {"idle", "response", "relayed", "unparsed", "request", "upcall", "return"} \subseteq Steps
  BY DEF Steps

\* The part of Known that is about the receivers.
Unheard == \A d \in Datagrams : age[d] = Never =>
             handled[d] = 0 /\ \A r \in Receivers : rcv[r].msg # d

LEMMA TakesReceiver ==
    ASSUME IInv, NEW r \in Receivers, NEW d \in Datagrams, Takes(r, d),
           \A e \in Datagrams : age'[e] = Never => age[e] = Never, age'[d] # Never
    PROVE  ReceiverTyped' /\ Alone' /\ Unheard'
  <1>0. ReceiverTyped /\ Alone /\ Unheard /\ Nothing \notin Datagrams
    BY DatagramFacts DEF IInv, Typed, Known, ReceiverTyped, Unheard
  <1>1. PICK p \in {"unparsed", "response", "request"} : Goto(r, p, d)
    BY DEF Takes
  <1>2. /\ rcv' \in [Receivers -> [pc : Steps, msg : Datagrams \union {Nothing}]]
        /\ rcv'[r].pc = p /\ rcv'[r].msg = d
        /\ \A q \in Receivers : q # r => rcv'[q] = rcv[q]
    BY <1>0, <1>1, StepNames, GotoEffect
  <1>3. handled' = handled /\ handled[d] = 0 /\ \A q \in Receivers : rcv[q].msg # d
    BY <1>0 DEF Takes, Unheard
  <1>4. ReceiverTyped'
    BY <1>0, <1>2, <1>3 DEF ReceiverTyped
  <1>5. Alone'
    BY <1>0, <1>1, <1>2, <1>3 DEF Alone
  <1>6. Unheard'
    BY <1>0, <1>2, <1>3 DEF Unheard
  <1> QED
    BY <1>4, <1>5, <1>6

LEMMA GoesOnReceiver ==
    ASSUME IInv, NEW r \in Receivers, NEW d \in {rcv[r].msg} \ {Nothing}, GoesOn(r, d),
           \A e \in Datagrams : age'[e] = Never => age[e] = Never
    PROVE  ReceiverTyped' /\ Alone' /\ Unheard'
  <1>0. ReceiverTyped /\ Alone /\ Unheard /\ Nothing \notin Datagrams
    BY DatagramFacts DEF IInv, Typed, Known, ReceiverTyped, Unheard
  <1>1. d \in Datagrams /\ rcv[r].msg = d /\ rcv[r].pc # "idle" /\ handled' = handled
    BY AtFacts DEF GoesOn
  <1>2. PICK p \in {"idle", "relayed", "upcall"}, m \in {d, Nothing} :
          /\ Goto(r, p, m) /\ (p = "idle" <=> m = Nothing)
          /\ p = "upcall" => rcv[r].pc = "request"
    <2>1. CASE Done(r)
      BY <2>1 DEF Done
    <2>2. CASE Goto(r, "relayed", d)
      BY <1>0, <1>1, <2>2
    <2>3. CASE Goto(r, "upcall", d) /\ rcv[r].pc = "request"
      BY <1>0, <1>1, <2>3
    <2> QED
      BY <2>1, <2>2, <2>3 DEF GoesOn
  <1>3. /\ rcv' \in [Receivers -> [pc : Steps, msg : Datagrams \union {Nothing}]]
        /\ rcv'[r].pc = p /\ rcv'[r].msg = m
        /\ \A q \in Receivers : q # r => rcv'[q] = rcv[q]
    BY <1>0, <1>1, <1>2, StepNames, GotoEffect
  <1>4. ReceiverTyped'
    BY <1>0, <1>1, <1>3 DEF ReceiverTyped
  <1>5. Alone'
    <2>1. \A a, b \in Receivers : rcv'[a].msg = rcv'[b].msg /\ rcv'[a].msg # Nothing => a = b
      BY <1>0, <1>1, <1>2, <1>3 DEF Alone
    <2>2. \A q \in Receivers : rcv'[q].pc = "idle" <=> rcv'[q].msg = Nothing
      BY <1>0, <1>1, <1>2, <1>3 DEF Alone
    <2>3. \A q \in Receivers : rcv'[q].pc \in {"request", "upcall"} => handled[rcv'[q].msg] = 0
      BY <1>0, <1>1, <1>2, <1>3 DEF Alone
    <2> QED
      BY <1>0, <1>1, <2>1, <2>2, <2>3 DEF Alone
  <1>6. Unheard'
    BY <1>0, <1>1, <1>2, <1>3 DEF Unheard
  <1> QED
    BY <1>4, <1>5, <1>6

LEMMA HandsUpReceiver ==
    ASSUME IInv, NEW r \in Receivers, NEW d \in {rcv[r].msg} \ {Nothing}, HandsUp(r, d),
           \A e \in Datagrams : age'[e] = Never => age[e] = Never
    PROVE  ReceiverTyped' /\ Alone' /\ Unheard' /\ handled[d] = 0
  <1>0. ReceiverTyped /\ Alone /\ Unheard /\ Nothing \notin Datagrams
    BY DatagramFacts DEF IInv, Typed, Known, ReceiverTyped, Unheard
  <1>1. d \in Datagrams /\ rcv[r].msg = d /\ age[d] # Never
    BY AtFacts
  <1>2. handled[d] = 0 /\ handled' = [handled EXCEPT ![d] = @ + 1]
    BY <1>0, <1>1 DEF HandsUp, HandedUp, Alone
  <1>3. /\ handled' \in [Datagrams -> Nat] /\ handled'[d] = 1
        /\ \A e \in Datagrams : e # d => handled'[e] = handled[e]
    BY <1>0, <1>1, <1>2 DEF ReceiverTyped
  <1>4. PICK p \in {"idle", "return"}, m \in {d, Nothing} :
          Goto(r, p, m) /\ (p = "idle" <=> m = Nothing)
    <2>1. CASE Done(r)
      BY <2>1 DEF Done
    <2>2. CASE Goto(r, "return", d)
      BY <1>0, <1>1, <2>2
    <2> QED
      BY <2>1, <2>2 DEF HandsUp
  <1>5. /\ rcv' \in [Receivers -> [pc : Steps, msg : Datagrams \union {Nothing}]]
        /\ rcv'[r].pc = p /\ rcv'[r].msg = m
        /\ \A q \in Receivers : q # r => rcv'[q] = rcv[q]
    BY <1>0, <1>1, <1>4, StepNames, GotoEffect
  <1>6. ReceiverTyped'
    BY <1>3, <1>5 DEF ReceiverTyped
  <1>7. Alone'
    <2>1. \A a, b \in Receivers : rcv'[a].msg = rcv'[b].msg /\ rcv'[a].msg # Nothing => a = b
      BY <1>0, <1>1, <1>4, <1>5 DEF Alone
    <2>2. \A q \in Receivers : rcv'[q].pc = "idle" <=> rcv'[q].msg = Nothing
      BY <1>0, <1>1, <1>4, <1>5 DEF Alone
    <2>3. ASSUME NEW q \in Receivers, rcv'[q].pc \in {"request", "upcall"}
          PROVE  handled'[rcv'[q].msg] = 0
      <3>1. q # r /\ rcv'[q] = rcv[q]
        BY <1>4, <1>5, <2>3
      <3>2. rcv[q].msg # d /\ rcv[q].msg \in Datagrams
        BY <1>0, <1>1, <2>3, <3>1 DEF Alone, ReceiverTyped
      <3> QED
        BY <1>0, <1>3, <2>3, <3>1, <3>2 DEF Alone
    <2>4. \A e \in Datagrams : handled'[e] <= 1
      BY <1>0, <1>3 DEF Alone
    <2> QED
      BY <2>1, <2>2, <2>3, <2>4 DEF Alone
  <1>8. Unheard'
    BY <1>0, <1>1, <1>3, <1>4, <1>5 DEF Unheard
  <1> QED
    BY <1>2, <1>6, <1>7, <1>8

\* A datagram stays sent.
LEMMA AgeStep ==
    ASSUME IInv, [Next]_vars
    PROVE  \A e \in Datagrams : age'[e] = Never => age[e] = Never
  <1>0. age \in [Datagrams -> Never..Old]
    BY DEF IInv, Typed
  <1>1. CASE rCachePurge
    BY <1>0, <1>1, OlderFacts DEF rCachePurge, Aged
  <1>2. CASE UNCHANGED age \/ \E x \in Datagrams : age' = [age EXCEPT ![x] = 0]
    BY <1>0, <1>2 DEF Never
  <1> QED
    BY <1>1, <1>2, CacheCases DEF CacheSteps, Sends, Marks, Cancels

LEMMA ReceiverStep ==
    ASSUME IInv, [Next]_vars
    PROVE  ReceiverTyped' /\ Alone' /\ Unheard'
  <1>1. ASSUME NEW r \in Receivers, NEW d \in Datagrams, Takes(r, d)
        PROVE  age'[d] # Never
    BY <1>1 DEF Takes
  <1>2. CASE UNCHANGED <<rcv, handled>>
    <2>1. ReceiverTyped /\ Alone /\ Unheard
      BY DEF IInv, Typed, Known, ReceiverTyped, Unheard
    <2> QED
      BY <1>2, <2>1, AgeStep DEF ReceiverTyped, Alone, Unheard
  <1> QED
    BY <1>1, <1>2, ReceiverCases, AgeStep, TakesReceiver, GoesOnReceiver, HandsUpReceiver
       DEF ReceiverSteps

-------------------------------------------------------------------------------
\* The table of server transactions.

Past == {"upcall", "return"}

LEMMA TablesKept ==
    ASSUME Opened, UNCHANGED <<tserver, checksum, handled>>,
           \A q \in Receivers : rcv'[q].pc \in Past => rcv'[q] = rcv[q],
           \A d \in Datagrams : answered'[d][1] = "1xx" => answered[d][1] = "1xx" \/ ~(handled[d] > 0)
    PROVE  Opened'
  <1>1. tserver' = tserver /\ checksum' = checksum /\ handled' = handled
    OBVIOUS
  <1>2. \A q \in Receivers : rcv'[q].pc \in Past => 
          tserver'[Br(rcv'[q].msg)] = "busy" /\ checksum'[Br(rcv'[q].msg)] = rcv'[q].msg
    BY <1>1 DEF Opened, Past
  <1>3. \A d \in Datagrams : handled'[d] > 0 /\ answered'[d][1] = "1xx" =>
          tserver'[Br(d)] # "none" /\ checksum'[Br(d)] = d
    BY <1>1 DEF Opened
  <1> QED
    BY <1>1, <1>2, <1>3 DEF Opened, Past

LEMMA TablesClosed ==
    ASSUME Opened, tserver \in [Branches -> {"none", "busy", "open"}], NEW b \in Branches,
           tserver' = [tserver EXCEPT ![b] = "none"], UNCHANGED checksum,
           \A d \in Datagrams : Br(d) \in Branches,
           \A d \in Datagrams : answered'[d][1] = "1xx" => answered[d][1] = "1xx" /\ d # checksum[b],
           \A d \in Datagrams : d # checksum[b] => handled'[d] = handled[d],
           \A q \in Receivers : rcv'[q].pc \in Past => rcv'[q] = rcv[q] /\ Br(rcv[q].msg) # b,
           \A q \in Receivers : rcv[q].pc \in Past => Br(rcv[q].msg) \in Branches
    PROVE  Opened'
  <1>1. /\ checksum' = checksum /\ tserver'[b] = "none"
        /\ \A c \in Branches : c # b => tserver'[c] = tserver[c]
    OBVIOUS
  <1>2. ASSUME NEW q \in Receivers, rcv'[q].pc \in Past
        PROVE  tserver'[Br(rcv'[q].msg)] = "busy" /\ checksum'[Br(rcv'[q].msg)] = rcv'[q].msg
    <2>1. rcv'[q] = rcv[q] /\ Br(rcv[q].msg) # b /\ Br(rcv[q].msg) \in Branches
      BY <1>2
    <2> QED
      BY <1>1, <1>2, <2>1 DEF Opened, Past
  <1>3. ASSUME NEW d \in Datagrams, handled'[d] > 0, answered'[d][1] = "1xx"
        PROVE  tserver'[Br(d)] # "none" /\ checksum'[Br(d)] = d
    <2>1. d # checksum[b] /\ handled[d] > 0 /\ answered[d][1] = "1xx"
      BY <1>3
    <2>2. tserver[Br(d)] # "none" /\ checksum[Br(d)] = d
      BY <2>1 DEF Opened
    <2>3. Br(d) # b /\ Br(d) \in Branches
      BY <2>1, <2>2
    <2> QED
      BY <1>1, <2>2, <2>3
  <1>4. \A c \in Branches : tserver'[c] # "none" => checksum'[c] \in Datagrams /\ Br(checksum'[c]) = c
    BY <1>1 DEF Opened
  <1> QED
    BY <1>2, <1>3, <1>4 DEF Opened, Past

\* What holds wherever the table is looked at.
LEMMA TableFacts ==
    ASSUME IInv
    PROVE  /\ ReceiverTyped /\ CacheTyped /\ Opened /\ Alone
           /\ tserver \in [Branches -> {"none", "busy", "open"}]
           /\ checksum \in [Branches -> Datagrams \union {Nothing}]
           /\ \A d \in Datagrams : Br(d) \in Branches
           /\ Nothing \notin Datagrams
           /\ \A q \in Receivers : rcv[q].pc \in Past => 
                rcv[q].msg \in Datagrams /\ Br(rcv[q].msg) \in Branches
  <1>1. /\ ReceiverTyped /\ CacheTyped /\ Opened /\ Alone
        /\ tserver \in [Branches -> {"none", "busy", "open"}]
        /\ checksum \in [Branches -> Datagrams \union {Nothing}]
    BY DEF IInv, Typed, ReceiverTyped, CacheTyped
  <1>2. \A q \in Receivers : rcv[q].pc \in Past => rcv[q].msg \in Datagrams
    BY <1>1 DEF ReceiverTyped, Alone, Past
  <1> QED
    BY <1>1, <1>2, DatagramFacts

\* A receiver that is done, or goes to a step before the upper layer.
LEMMA NotPast ==
    ASSUME ReceiverTyped, NEW r \in Receivers, NEW p \in Steps, p \notin Past,
           NEW d \in Datagrams \union {Nothing}, Goto(r, p, d)
    PROVE  \A q \in Receivers : rcv'[q].pc \in Past => q # r /\ rcv'[q] = rcv[q]
  BY GotoEffect

LEMMA DoneNotPast ==
    ASSUME ReceiverTyped, NEW r \in Receivers, Done(r)
    PROVE  \A q \in Receivers : rcv'[q].pc \in Past => q # r /\ rcv'[q] = rcv[q]
  <1>1. "idle" \in Steps /\ "idle" \notin Past
    BY StepNames DEF Past
  <1> QED
    BY <1>1, NotPast DEF Done

\* The answer that a step leaves for each datagram.
LEMMA SentAnswer ==
    ASSUME CacheTyped, NEW x \in Datagrams, NEW a, transmitData(x, a)
    PROVE  /\ answered'[x][1] = a
           /\ \A d \in Datagrams : d # x => answered'[d] = answered[d]
  BY DEF CacheTyped, transmitData

LEMMA WorkOpened ==
    ASSUME IInv, NEW r \in Receivers, NEW d \in {rcv[r].msg} \ {Nothing}, Works(r, d)
    PROVE  Opened'
  <1>0. /\ ReceiverTyped /\ CacheTyped /\ Opened /\ Alone
        /\ tserver \in [Branches -> {"none", "busy", "open"}]
        /\ checksum \in [Branches -> Datagrams \union {Nothing}]
        /\ \A e \in Datagrams : Br(e) \in Branches
        /\ Nothing \notin Datagrams
        /\ \A q \in Receivers : rcv[q].pc \in Past => 
             rcv[q].msg \in Datagrams /\ Br(rcv[q].msg) \in Branches
        /\ d \in Datagrams /\ rcv[r].msg = d /\ Br(d) \in Branches
    BY TableFacts, AtFacts
  <1>1. ASSUME UNCHANGED <<tserver, checksum, handled, answered>>, Done(r)
        PROVE  Opened'
    BY <1>0, <1>1, DoneNotPast, TablesKept
  <1>2. ASSUME UNCHANGED <<tserver, checksum, handled>>, Done(r) \/ Goto(r, "relayed", d),
               NEW a, transmitData(d, a), a # "1xx" \/ rcv[r].pc = "request"
        PROVE  Opened'
    <2>1. \A q \in Receivers : rcv'[q].pc \in Past => rcv'[q] = rcv[q]
      <3>1. "relayed" \in Steps /\ "relayed" \notin Past
        BY StepNames DEF Past
      <3> QED
        BY <1>0, <1>2, <3>1, DoneNotPast, NotPast
    <2>2. a = "1xx" => ~(handled[d] > 0)
      BY <1>0, <1>2 DEF Alone
    <2>3. \A e \in Datagrams :
            answered'[e][1] = "1xx" => answered[e][1] = "1xx" \/ ~(handled[e] > 0)
      BY <1>0, <1>2, <2>2, SentAnswer
    <2> QED
      BY <1>0, <1>2, <2>1, <2>3, TablesKept
  <1>3. CASE \/ BadResponse(r, d) \/ DropResponse(r, d) \/ IncomingAck(r, d)
             \/ (\E final \in BOOLEAN : process_response(r, d, final))
    BY <1>1, <1>3 DEF BadResponse, DropResponse, IncomingAck, process_response, tables
  <1>4. CASE RelayResponse(r, d)
    BY <1>2, <1>4 DEF RelayResponse, tables
  <1>5. CASE process_request(r, d)
    BY <1>1, <1>2, <1>5 DEF process_request, tables
  <1>6. CASE IncomingCopy(r, d)
    BY <1>2, <1>6 DEF IncomingCopy, Lookup, At, tables
  <1>7. CASE UnmatchedCancel(r, d)
    BY <1>2, <1>7 DEF UnmatchedCancel, tables
  <1>8. CASE IncomingCancel(r, d)
    <2> DEFINE b == Br(d)
               x == checksum[b]
    <2>1. /\ tserver[b] = "open" /\ tserver' = [tserver EXCEPT ![b] = "none"]
          /\ UNCHANGED <<checksum, handled>> /\ Done(r)
          /\ answered' = [answered EXCEPT ![d] = <<"200", 0>>, ![x] = <<"487", 0>>]
      BY <1>8 DEF IncomingCancel, Complete
    <2>2. x \in Datagrams
      BY <1>0, <2>1 DEF Opened
    <2>3. \A q \in Receivers : rcv'[q].pc \in Past => rcv'[q] = rcv[q] /\ Br(rcv[q].msg) # b
      <3>1. \A q \in Receivers : rcv'[q].pc \in Past => rcv'[q] = rcv[q]
        BY <1>0, <2>1, DoneNotPast
      <3> QED
        BY <1>0, <2>1, <3>1 DEF Opened, Past
    <2> HIDE DEF x
    <2>4. \A e \in Datagrams : answered'[e][1] = "1xx" => answered[e][1] = "1xx" /\ e # x
      BY <1>0, <2>1, <2>2 DEF CacheTyped
    <2> QED
      BY <1>0, <2>1, <2>3, <2>4, TablesClosed DEF x
  <1>9. CASE RecvRequest(r, d) \/ NoSuchDialog(r, d)
    <2> DEFINE b == Br(d)
    <2>1. /\ rcv[r].pc = "upcall" /\ tserver' = [tserver EXCEPT ![b] = "none"]
          /\ UNCHANGED checksum /\ Done(r) /\ handled' = [handled EXCEPT ![d] = @ + 1]
      BY <1>9 DEF RecvRequest, NoSuchDialog, At, HandedUp
    <2>2. transmitData(d, "200") \/ transmitData(d, "481")
      BY <1>9 DEF RecvRequest, NoSuchDialog
    <2>3. checksum[b] = d
      BY <1>0, <2>1 DEF Opened
    <2>4. \A e \in Datagrams : answered'[e][1] = "1xx" => answered[e][1] = "1xx" /\ e # d
      BY <1>0, <2>2, SentAnswer
    <2>5. \A q \in Receivers : rcv'[q].pc \in Past => rcv'[q] = rcv[q] /\ Br(rcv[q].msg) # b
      <3> SUFFICES ASSUME NEW q \in Receivers, rcv'[q].pc \in Past
                   PROVE  rcv'[q] = rcv[q] /\ Br(rcv[q].msg) # b
        OBVIOUS
      <3>1. rcv'[q] = rcv[q] /\ q # r
        BY <1>0, <2>1, DoneNotPast
      <3>2. rcv[q].msg \in Datagrams /\ checksum[Br(rcv[q].msg)] = rcv[q].msg
        BY <1>0, <3>1 DEF Opened, Past
      <3>3. rcv[q].msg # d
        BY <1>0, <3>1, <3>2 DEF Alone
      <3> QED
        BY <2>3, <3>1, <3>2, <3>3
    <2>6. \A e \in Datagrams : e # checksum[b] => handled'[e] = handled[e]
      BY <1>0, <2>1, <2>3 DEF ReceiverTyped
    <2> HIDE DEF b
    <2> QED
      BY <1>0, <2>1, <2>3, <2>4, <2>5, <2>6, TablesClosed DEF b
  <1>10. CASE new_server_transaction(r, d)
    <2> DEFINE b == Br(d)
    <2>1. /\ tserver[b] = "none" /\ tserver' = [tserver EXCEPT ![b] = "busy"]
          /\ checksum' = [checksum EXCEPT ![b] = d] /\ Goto(r, "upcall", d)
          /\ UNCHANGED <<handled, answered>>
      BY <1>10 DEF new_server_transaction
    <2>2. /\ tserver'[b] = "busy" /\ checksum'[b] = d
          /\ \A c \in Branches : c # b => tserver'[c] = tserver[c] /\ checksum'[c] = checksum[c]
      BY <1>0, <2>1
    <2>3. /\ rcv'[r].msg = d /\ \A q \in Receivers : q # r => rcv'[q] = rcv[q]
      BY <1>0, <2>1, StepNames, GotoEffect
    <2>4. ASSUME NEW q \in Receivers, rcv'[q].pc \in Past
          PROVE  tserver'[Br(rcv'[q].msg)] = "busy" /\ checksum'[Br(rcv'[q].msg)] = rcv'[q].msg
      <3>1. CASE q = r
        BY <2>2, <2>3, <3>1
      <3>2. CASE q # r
        <4>1. rcv'[q] = rcv[q] /\ rcv[q].pc \in Past
          BY <2>3, <2>4, <3>2
        <4>2. tserver[Br(rcv[q].msg)] = "busy" /\ checksum[Br(rcv[q].msg)] = rcv[q].msg
              /\ Br(rcv[q].msg) \in Branches
          BY <1>0, <4>1 DEF Opened, Past
        <4>3. Br(rcv[q].msg) # b
          BY <2>1, <4>2
        <4> QED
          BY <2>2, <4>1, <4>2, <4>3
      <3> QED
        BY <3>1, <3>2
    <2>5. ASSUME NEW e \in Datagrams, handled[e] > 0, answered[e][1] = "1xx"
          PROVE  tserver'[Br(e)] # "none" /\ checksum'[Br(e)] = e
      <3>1. tserver[Br(e)] # "none" /\ checksum[Br(e)] = e /\ Br(e) \in Branches
        BY <1>0, <2>5 DEF Opened
      <3>2. Br(e) # b
        BY <2>1, <3>1
      <3> QED
        BY <2>2, <3>1, <3>2
    <2>6. \A c \in Branches : tserver'[c] # "none" => checksum'[c] \in Datagrams /\ Br(checksum'[c]) = c
      BY <1>0, <2>2 DEF Opened
    <2> QED
      BY <2>1, <2>4, <2>5, <2>6 DEF Opened, Past
  <1>11. CASE OnNewDialog(r, d)
    <2>1. /\ rcv[r].pc = "upcall" /\ UNCHANGED <<tserver, checksum>> /\ Goto(r, "return", d)
          /\ handled' = [handled EXCEPT ![d] = @ + 1] /\ transmitData(d, "1xx")
      BY <1>11 DEF OnNewDialog, HandedUp, At, tables
    <2>2. tserver[Br(d)] = "busy" /\ checksum[Br(d)] = d
      BY <1>0, <2>1 DEF Opened
    <2>3. /\ rcv'[r].msg = d /\ \A q \in Receivers : q # r => rcv'[q] = rcv[q]
      BY <1>0, <2>1, StepNames, GotoEffect
    <2>4. \A e \in Datagrams : e # d => handled'[e] = handled[e] /\ answered'[e] = answered[e]
      BY <1>0, <2>1, SentAnswer DEF ReceiverTyped
    <2>5. tserver' = tserver /\ checksum' = checksum
      BY <2>1
    <2>6. \A q \in Receivers : rcv'[q].pc \in Past =>
            tserver[Br(rcv'[q].msg)] = "busy" /\ checksum[Br(rcv'[q].msg)] = rcv'[q].msg
      BY <1>0, <2>2, <2>3 DEF Opened, Past
    <2>7. \A e \in Datagrams : handled'[e] > 0 /\ answered'[e][1] = "1xx" =>
            tserver[Br(e)] # "none" /\ checksum[Br(e)] = e
      BY <1>0, <2>2, <2>4 DEF Opened
    <2> QED
      BY <1>0, <2>5, <2>6, <2>7 DEF Opened, Past
  <1>12. CASE UpcallReturns(r, d)
    <2> DEFINE b == Br(d)
    <2>1. /\ rcv[r].pc = "return" /\ tserver' = [tserver EXCEPT ![b] = "open"]
          /\ UNCHANGED <<checksum, handled, answered>> /\ Done(r)
      BY <1>12 DEF UpcallReturns, At
    <2>2. tserver[b] = "busy" /\ checksum[b] = d
      BY <1>0, <2>1 DEF Opened
    <2>3. /\ tserver'[b] = "open" /\ checksum' = checksum
          /\ \A c \in Branches : c # b => tserver'[c] = tserver[c]
      BY <1>0, <2>1
    <2>4. ASSUME NEW q \in Receivers, rcv'[q].pc \in Past
          PROVE  tserver'[Br(rcv'[q].msg)] = "busy" /\ checksum'[Br(rcv'[q].msg)] = rcv'[q].msg
      <3>1. rcv'[q] = rcv[q] /\ q # r
        BY <1>0, <2>1, <2>4, DoneNotPast
      <3>2. /\ tserver[Br(rcv[q].msg)] = "busy" /\ checksum[Br(rcv[q].msg)] = rcv[q].msg
            /\ rcv[q].msg \in Datagrams /\ Br(rcv[q].msg) \in Branches
        BY <1>0, <2>4, <3>1 DEF Opened, Past
      <3>3. rcv[q].msg # d
        BY <1>0, <3>1, <3>2 DEF Alone
      <3>4. Br(rcv[q].msg) # b
        BY <2>2, <3>2, <3>3
      <3> QED
        BY <2>3, <3>1, <3>2, <3>4
    <2>5. \A c \in Branches : tserver'[c] # "none" => tserver[c] # "none"
      BY <2>2, <2>3
    <2>6. \A c \in Branches : tserver[c] # "none" => tserver'[c] # "none"
      BY <2>2, <2>3
    <2> HIDE DEF b
    <2> QED
      BY <1>0, <2>1, <2>3, <2>4, <2>5, <2>6 DEF Opened, Past
  <1> QED
    BY <1>3, <1>4, <1>5, <1>6, <1>7, <1>8, <1>9, <1>10, <1>11, <1>12 DEF Works

LEMMA OpenedStep ==
    ASSUME IInv, [Next]_vars
    PROVE  Opened'
  <1>0. /\ ReceiverTyped /\ CacheTyped /\ Opened /\ Alone
        /\ tserver \in [Branches -> {"none", "busy", "open"}]
        /\ checksum \in [Branches -> Datagrams \union {Nothing}]
        /\ \A e \in Datagrams : Br(e) \in Branches
        /\ \A q \in Receivers : rcv[q].pc \in Past => 
             rcv[q].msg \in Datagrams /\ Br(rcv[q].msg) \in Branches
    BY TableFacts
  <1>1. CASE rCachePurge
    <2>1. /\ UNCHANGED <<tserver, checksum, handled, rcv>>
          /\ \A d \in Datagrams : answered'[d][1] = answered[d][1]
      BY <1>1 DEF rCachePurge, Aged, tables
    <2> QED
      BY <1>0, <2>1, TablesKept
  <1>2. ASSUME NEW r \in Receivers, NEW d \in Datagrams, handleIncoming(r, d) PROVE Opened'
    <2>1. UNCHANGED <<tserver, checksum, handled, answered>>
      BY <1>2 DEF handleIncoming, tables
    <2>2. {"unparsed", "response", "request"} \subseteq Steps /\ 
          \A p \in {"unparsed", "response", "request"} : p \notin Past
      BY StepNames DEF Past
    <2>3. \A q \in Receivers : rcv'[q].pc \in Past => rcv'[q] = rcv[q]
      BY <1>0, <1>2, <2>2, ArrivalCases, NotPast
    <2> QED
      BY <1>0, <2>1, <2>3, TablesKept
  <1>3. ASSUME NEW b \in Branches, NEW ok \in BOOLEAN, SendResponse(b, ok) PROVE Opened'
    <2>1. /\ tserver[b] = "open" /\ tserver' = [tserver EXCEPT ![b] = "none"]
          /\ UNCHANGED <<checksum, handled, rcv>>
          /\ transmitData(checksum[b], IF ok THEN "200" ELSE "4xx")
      BY <1>3 DEF SendResponse, Complete
    <2>2. checksum[b] \in Datagrams
      BY <1>0, <2>1 DEF Opened
    <2>3. \A q \in Receivers : rcv'[q].pc \in Past => rcv'[q] = rcv[q] /\ Br(rcv[q].msg) # b
      BY <1>0, <2>1 DEF Opened, Past
    <2>4. (IF ok THEN "200" ELSE "4xx") # "1xx"
      OBVIOUS
    <2>5. \A e \in Datagrams : answered'[e][1] = "1xx" => answered[e][1] = "1xx" /\ e # checksum[b]
      BY <1>0, <2>1, <2>2, <2>4, SentAnswer
    <2> QED
      BY <1>0, <2>1, <2>3, <2>5, TablesClosed
  <1>4. CASE \/ (\E i \in completed : timerD(i)) \/ (\E d \in Datagrams : CreateClientTransaction(d))
             \/ (\E tid \in tclient : tclient_del(tid)) \/ (\E u \in Legs : OnDead(u))
             \/ UNCHANGED vars
    <2>1. UNCHANGED <<tserver, checksum, handled, answered, rcv>>
      BY <1>4 DEF timerD, CreateClientTransaction, tclient_del, OnDead, vars, tables
    <2> QED
      BY <1>0, <2>1, TablesKept
  <1> QED
    BY <1>1, <1>2, <1>3, <1>4, WorkOpened, NextCases

-------------------------------------------------------------------------------
\* The legs and the consumers.

LegTyped ==
    /\ consumers \in Seq(Legs) /\ \A s, t \in tclient : s = t
    /\ ua \in [Legs -> Leg]

\* A leg that joins, or leaves, consumers that are there once each.
LEMMA AppendNew ==
    ASSUME NEW S, NEW s \in Seq(S), NEW e \in S, Once(s), ~Has(s, e)
    PROVE  /\ Append(s, e) \in Seq(S) /\ Once(Append(s, e))
           /\ \A v : Has(Append(s, e), v) <=> v = e \/ Has(s, v)
  <1>1. PICK n \in Nat : n = Len(s) /\ DOMAIN s = 1..n
    BY LenProperties
  <1>2. PICK t : t = Append(s, e)
    OBVIOUS
  <1>3. /\ t \in Seq(S) /\ Len(t) = Len(s) + 1 /\ t[Len(s) + 1] = e
        /\ \A i \in 1..Len(s) : t[i] = s[i]
    BY <1>2, AppendProperties
  <1>4. DOMAIN t = 1..(n + 1)
    BY <1>1, <1>3, LenProperties
  <1>5. t[n + 1] = e /\ \A i \in 1..n : t[i] = s[i]
    BY <1>1, <1>3
  <1>6. \A i \in 1..(n + 1) : i \in 1..n \/ i = n + 1
    OBVIOUS
  <1>7. \A i \in 1..n : s[i] # e /\ i \in 1..(n + 1)
    BY <1>1 DEF Has
  <1>8. n + 1 \in 1..(n + 1)
    OBVIOUS
  <1>9. Once(t)
    <2> SUFFICES ASSUME NEW i \in 1..(n + 1), NEW j \in 1..(n + 1), t[i] = t[j] PROVE i = j
      BY <1>4 DEF Once
    <2>1. CASE i = n + 1
      BY <1>5, <1>6, <1>7, <2>1
    <2>2. CASE j = n + 1
      BY <1>5, <1>6, <1>7, <2>2
    <2>3. CASE i \in 1..n /\ j \in 1..n
      <3>1. s[i] = s[j]
        BY <1>5, <2>3
      <3> QED
        BY <1>1, <2>3, <3>1 DEF Once
    <2> QED
      BY <1>6, <2>1, <2>2, <2>3
  <1>10. ASSUME NEW v PROVE Has(t, v) <=> v = e \/ Has(s, v)
    BY <1>1, <1>4, <1>5, <1>6, <1>7, <1>8 DEF Has
  <1> QED
    BY <1>2, <1>3, <1>9, <1>10

LEMMA RemoveFirstIs ==
    ASSUME NEW S, NEW s \in Seq(S), NEW e \in S, NEW k \in 1..Len(s), s[k] = e,
           \A i \in 1..Len(s) : s[i] = e => i = k
    PROVE  RemoveFirst(s, e) = RemoveAt(s, k)
  <1> DEFINE I == {i \in 1..Len(s) : s[i] = e}
  <1>1. I = {k}
    OBVIOUS
  <1>2. SelectInSeq(s, LAMBDA v : v = e) = IF I # {} THEN Min(I) ELSE 0
    BY Zenon DEF SelectInSeq
  <1>3. Min(I) = k
    <2>0. k \in Int
      BY LenProperties
    <2>1. k \in I /\ \A y \in I : k <= y
      BY <1>1, <2>0
    <2>2. \A x \in I : x = k
      BY <1>1
    <2> HIDE DEF I
    <2>3. Min(I) = CHOOSE x \in I : \A y \in I : x <= y
      BY Zenon DEF Min
    <2> QED
      BY <2>1, <2>2, <2>3
  <1>4. SelectInSeq(s, LAMBDA v : v = e) = k
    BY <1>1, <1>2, <1>3
  <1>5. \E i \in 1..Len(s) : s[i] = e
    OBVIOUS
  <1> QED
    BY Zenon, <1>4, <1>5 DEF RemoveFirst

LEMMA RemoveAtFacts ==
    ASSUME NEW S, NEW s \in Seq(S), NEW n \in Nat, n = Len(s), NEW k \in 1..n
    PROVE  /\ RemoveAt(s, k) \in Seq(S) /\ DOMAIN RemoveAt(s, k) = 1..(n - 1)
           /\ \A i \in 1..(n - 1) : RemoveAt(s, k)[i] = IF i < k THEN s[i] ELSE s[i + 1]
  <1>0. \A i \in 1..n : s[i] \in S
    BY ElementOfSeq
  <1>1. PICK front : front = SubSeq(s, 1, k - 1)
    OBVIOUS
  <1>2. PICK back : back = SubSeq(s, k + 1, n)
    OBVIOUS
  <1>3. /\ front \in Seq(S) /\ Len(front) = k - 1
        /\ \A i \in 1..(k - 1) : front[i] = s[i]
    <2>1. k - 1 \in Int /\ 1 \in Int /\ \A i \in 1..(k - 1) : s[i] \in S
      BY <1>0
    <2>2. /\ SubSeq(s, 1, k - 1) \in Seq(S)
          /\ Len(SubSeq(s, 1, k - 1)) = IF 1 <= k - 1 THEN (k - 1) - 1 + 1 ELSE 0
          /\ \A i \in 1..((k - 1) - 1 + 1) : SubSeq(s, 1, k - 1)[i] = s[1 + i - 1]
      BY <2>1, SubSeqProperties
    <2>3. (IF 1 <= k - 1 THEN (k - 1) - 1 + 1 ELSE 0) = k - 1
      OBVIOUS
    <2>4. \A i \in 1..(k - 1) : i \in 1..((k - 1) - 1 + 1) /\ 1 + i - 1 = i
      OBVIOUS
    <2> QED
      BY <1>1, <2>2, <2>3, <2>4
  <1>4. /\ back \in Seq(S) /\ Len(back) = n - k
        /\ \A i \in 1..(n - k) : back[i] = s[k + i]
    <2>1. k + 1 \in Int /\ n \in Int /\ \A i \in (k + 1)..n : s[i] \in S
      BY <1>0
    <2>2. /\ SubSeq(s, k + 1, n) \in Seq(S)
          /\ Len(SubSeq(s, k + 1, n)) = IF k + 1 <= n THEN n - (k + 1) + 1 ELSE 0
          /\ \A i \in 1..(n - (k + 1) + 1) : SubSeq(s, k + 1, n)[i] = s[(k + 1) + i - 1]
      BY <2>1, SubSeqProperties
    <2>3. (IF k + 1 <= n THEN n - (k + 1) + 1 ELSE 0) = n - k
      OBVIOUS
    <2>4. \A i \in 1..(n - k) : i \in 1..(n - (k + 1) + 1) /\ (k + 1) + i - 1 = k + i
      OBVIOUS
    <2> QED
      BY <1>2, <2>2, <2>3, <2>4
  <1>5. PICK t : t = front \o back
    OBVIOUS
  <1>6. /\ t \in Seq(S) /\ Len(t) = Len(front) + Len(back)
        /\ \A i \in 1..(Len(front) + Len(back)) :
             t[i] = IF i <= Len(front) THEN front[i] ELSE back[i - Len(front)]
    BY <1>3, <1>4, <1>5, ConcatProperties
  <1>7. RemoveAt(s, k) = t
    BY <1>1, <1>2, <1>5 DEF RemoveAt
  <1>8. Len(front) + Len(back) = n - 1
    BY <1>3, <1>4
  <1>9. DOMAIN t = 1..(n - 1)
    BY <1>6, <1>8, LenProperties
  <1>10. ASSUME NEW i \in 1..(n - 1)
         PROVE  t[i] = IF i < k THEN s[i] ELSE s[i + 1]
    <2>1. t[i] = IF i <= k - 1 THEN front[i] ELSE back[i - (k - 1)]
      BY <1>3, <1>6, <1>8
    <2>2. CASE i < k
      <3>1. i \in 1..(k - 1) /\ i <= k - 1
        BY <2>2
      <3> QED
        BY <1>3, <2>1, <2>2, <3>1
    <2>3. CASE ~(i < k)
      <3>1. ~(i <= k - 1) /\ i - (k - 1) \in 1..(n - k) /\ k + (i - (k - 1)) = i + 1
        BY <2>3
      <3>2. back[i - (k - 1)] = s[k + (i - (k - 1))]
        BY <1>4, <3>1
      <3> QED
        BY <2>1, <2>3, <3>1, <3>2
    <2> QED
      BY <2>2, <2>3
  <1> QED
    BY <1>6, <1>7, <1>9, <1>10

LEMMA RemoveOnly ==
    ASSUME NEW S, NEW s \in Seq(S), NEW e \in S, Once(s), Has(s, e)
    PROVE  /\ RemoveFirst(s, e) \in Seq(S) /\ Once(RemoveFirst(s, e))
           /\ \A v : Has(RemoveFirst(s, e), v) <=> v # e /\ Has(s, v)
  <1>1. PICK n \in Nat : n = Len(s) /\ DOMAIN s = 1..n
    BY LenProperties
  <1>2. PICK k \in 1..n : s[k] = e
    BY <1>1 DEF Has
  <1>3. \A i \in 1..n : s[i] = e => i = k
    BY <1>1, <1>2 DEF Once
  <1>4. PICK t : t = RemoveFirst(s, e)
    OBVIOUS
  <1>5. /\ t \in Seq(S) /\ DOMAIN t = 1..(n - 1)
        /\ \A i \in 1..(n - 1) : t[i] = IF i < k THEN s[i] ELSE s[i + 1]
    <2>1. t = RemoveAt(s, k)
      BY <1>1, <1>2, <1>3, <1>4, RemoveFirstIs
    <2>2. n = Len(s) /\ k \in 1..Len(s) /\ s \in Seq(S)
      BY <1>1
    <2>3. /\ RemoveAt(s, k) \in Seq(S) /\ DOMAIN RemoveAt(s, k) = 1..(Len(s) - 1)
          /\ \A i \in 1..(Len(s) - 1) : RemoveAt(s, k)[i] = IF i < k THEN s[i] ELSE s[i + 1]
      BY <2>2, RemoveAtFacts, Zenon
    <2> QED
      BY <2>1, <2>2, <2>3
  <1>6. \A i \in 1..(n - 1) : /\ (IF i < k THEN i ELSE i + 1) \in 1..n
                              /\ (IF i < k THEN i ELSE i + 1) # k
                              /\ t[i] = s[IF i < k THEN i ELSE i + 1]
    BY <1>5
  <1>7. Once(t)
    <2> SUFFICES ASSUME NEW i \in 1..(n - 1), NEW j \in 1..(n - 1), t[i] = t[j] PROVE i = j
      BY <1>5 DEF Once
    <2>1. s[IF i < k THEN i ELSE i + 1] = s[IF j < k THEN j ELSE j + 1]
      BY <1>6
    <2>2. (IF i < k THEN i ELSE i + 1) = (IF j < k THEN j ELSE j + 1)
      BY <1>1, <1>6, <2>1 DEF Once
    <2> QED
      BY <2>2
  <1>8. ASSUME NEW v, v # e, NEW i \in 1..n, s[i] = v
        PROVE  \E j \in 1..(n - 1) : t[j] = v
    <2>1. i # k
      BY <1>2, <1>8
    <2>2. CASE i < k
      <3>1. i \in 1..(n - 1)
        BY <2>2
      <3> QED
        BY <1>5, <1>8, <2>2, <3>1
    <2>3. CASE i > k
      <3>1. i - 1 \in 1..(n - 1) /\ ~(i - 1 < k) /\ (i - 1) + 1 = i
        BY <2>3
      <3>2. t[i - 1] = s[i]
        BY <1>5, <3>1
      <3> QED
        BY <1>8, <3>1, <3>2
    <2> QED
      BY <2>1, <2>2, <2>3
  <1>9. ASSUME NEW v, NEW i \in 1..(n - 1), t[i] = v
        PROVE  v # e /\ \E j \in 1..n : s[j] = v
    BY <1>3, <1>6, <1>9
  <1>10. \A v : Has(t, v) <=> v # e /\ Has(s, v)
    BY <1>1, <1>5, <1>8, <1>9 DEF Has
  <1> QED
    BY <1>4, <1>5, <1>7, <1>10

\* Legs that change nothing but their tag, their branch or, between live and
\* disc, their state.
LEMMA LegsKept ==
    ASSUME LegTyped, Registered, UNCHANGED consumers, tclient' \subseteq tclient,
           ua' \in [Legs -> Leg],
           \A u \in Legs : \/ ua'[u].state = ua[u].state
                           \/ ua[u].state \in {"live", "disc"} /\ ua'[u].state \in {"live", "disc"}
    PROVE  LegTyped' /\ Registered'
  <1>1. consumers' = consumers
    OBVIOUS
  <1>2. LegTyped'
    BY <1>1 DEF LegTyped
  <1>3. \A u \in Legs : ua'[u].state \in {"live", "disc"} <=> ua[u].state \in {"live", "disc"}
    OBVIOUS
  <1>4. ua'["B"].state = "idle" => ua["B"].state = "idle"
    BY DEF Legs
  <1>5. \A u \in Legs : ua'[u].state \in {"live", "disc"} <=> Has(consumers, u)
    BY <1>3 DEF Registered
  <1>6. ua'["B"].state = "idle" => tclient' = {}
    BY <1>4 DEF Registered
  <1>7. Once(consumers)
    BY DEF Registered
  <1> QED
    BY <1>1, <1>2, <1>5, <1>6, <1>7 DEF Registered

LEMMA RegisterLeg ==
    ASSUME LegTyped, Registered, NEW u \in Legs, ua[u].state = "idle", RegConsumer(u),
           \A s, t \in tclient' : s = t, ua'["B"].state = "idle" => tclient' = {},
           ua' \in [Legs -> Leg], ua'[u].state = "live",
           \A v \in Legs : v # u => ua'[v] = ua[v]
    PROVE  LegTyped' /\ Registered'
  <1>1. consumers \in Seq(Legs) /\ consumers' = Append(consumers, u)
    BY DEF LegTyped, RegConsumer
  <1>2. Once(consumers) /\ ~Has(consumers, u)
    BY DEF Registered
  <1>3. /\ consumers' \in Seq(Legs) /\ Once(consumers')
        /\ \A v : Has(consumers', v) <=> v = u \/ Has(consumers, v)
    BY <1>1, <1>2, AppendNew
  <1>4. \A v \in Legs : ua'[v].state \in {"live", "disc"} <=> Has(consumers', v)
    BY <1>3 DEF Registered
  <1> QED
    BY <1>3, <1>4 DEF LegTyped, Registered

\* UnregConsumer takes out exactly the leg that leaves, also where it takes the
\* only consumer for it.
LEMMA UnregisterLeg ==
    ASSUME LegTyped, Registered, NEW u \in Legs, ua[u].state \in {"live", "disc"}, UnregConsumer(u)
    PROVE  /\ consumers' \in Seq(Legs) /\ Once(consumers')
           /\ \A v : Has(consumers', v) <=> v # u /\ Has(consumers, v)
  <1>1. consumers \in Seq(Legs) /\ Once(consumers) /\ Has(consumers, u)
    BY DEF LegTyped, Registered
  <1>2. PICK n \in Nat : n = Len(consumers) /\ DOMAIN consumers = 1..n
    BY <1>1, LenProperties
  <1>3. CASE n > 1
    BY <1>1, <1>2, <1>3, RemoveOnly DEF UnregConsumer
  <1>4. CASE ~(n > 1)
    <2>1. DOMAIN consumers = {1} /\ consumers[1] = u
      BY <1>1, <1>2, <1>4 DEF Has
    <2>2. consumers' = <<>>
      BY <1>2, <1>4 DEF UnregConsumer
    <2>3. <<>> \in Seq(Legs) /\ Once(<<>>) /\ \A v : ~Has(<<>>, v)
      BY DEF Once, Has
    <2> QED
      BY <2>1, <2>2, <2>3 DEF Has
  <1> QED
    BY <1>3, <1>4

LEMMA LegFacts ==
    ASSUME IInv
    PROVE  LegTyped /\ Registered /\ "A" \in Legs /\ "B" \in Legs
  BY DEF IInv, Typed, LegTyped, Legs

LEMMA LegsSame ==
    ASSUME IInv, UNCHANGED <<ua, consumers>>, tclient' \subseteq tclient
    PROVE  LegTyped' /\ Registered'
  <1>1. LegTyped /\ Registered /\ ua' = ua /\ ua \in [Legs -> Leg]
    BY LegFacts DEF LegTyped
  <1> QED
    BY <1>1, LegsKept

LEMMA WorkLegs ==
    ASSUME IInv, NEW r \in Receivers, NEW d \in {rcv[r].msg} \ {Nothing}, Works(r, d)
    PROVE  LegTyped' /\ Registered'
  <1>0. /\ LegTyped /\ Registered /\ "A" \in Legs /\ "B" \in Legs /\ ua \in [Legs -> Leg]
        /\ d \in Datagrams /\ Br(d) \in Branches /\ From(d) \in Tags /\ To(d) \in Tags
    BY LegFacts, AtFacts, DatagramFacts DEF LegTyped
  <1>1. CASE \/ BadResponse(r, d) \/ RelayResponse(r, d) \/ DropResponse(r, d)
             \/ process_request(r, d) \/ IncomingCopy(r, d) \/ IncomingAck(r, d)
             \/ UnmatchedCancel(r, d) \/ new_server_transaction(r, d)
             \/ NoSuchDialog(r, d) \/ UpcallReturns(r, d)
    <2>1. UNCHANGED <<ua, consumers, tclient>>
      BY <1>1 DEF BadResponse, RelayResponse, DropResponse, process_request, IncomingCopy,
                  IncomingAck, UnmatchedCancel, new_server_transaction, NoSuchDialog,
                  UpcallReturns, tables
    <2> QED
      BY <2>1, LegsSame
  <1>2. ASSUME NEW final \in BOOLEAN, process_response(r, d, final) PROVE LegTyped' /\ Registered'
    <2>1. /\ UNCHANGED consumers /\ tclient' \subseteq tclient
          /\ ua' = [ua EXCEPT !["B"].rtag = IF ua["B"].state = "live" THEN To(d) ELSE @]
      BY <1>2 DEF process_response
    <2>2. ua' \in [Legs -> Leg]
      BY <1>0, <2>1 DEF Leg
    <2>3. \A u \in Legs : ua'[u].state = ua[u].state
      BY <1>0, <2>1 DEF Leg
    <2> QED
      BY <1>0, <2>1, <2>2, <2>3, LegsKept
  <1>3. CASE IncomingCancel(r, d)
    <2>1. /\ UNCHANGED <<consumers, tclient>>
          /\ ua' = [u \in Legs |-> IF ua[u].branch = Br(d) /\ ua[u].state = "live"
                                   THEN [ua[u] EXCEPT !.state = "disc"] ELSE ua[u]]
      BY <1>3 DEF IncomingCancel, Complete
    <2>2. \A u \in Legs : ua[u] \in Leg /\ [ua[u] EXCEPT !.state = "disc"] \in Leg
      BY <1>0 DEF Leg
    <2>3. ua' \in [Legs -> Leg]
      BY <2>1, <2>2
    <2>4. \A u \in Legs : [ua[u] EXCEPT !.state = "disc"].state = "disc"
      BY <2>2 DEF Leg
    <2>5. ASSUME NEW u \in Legs
          PROVE  ua'[u] = ua[u] \/ (ua[u].state = "live" /\ ua'[u].state = "disc")
      <3>1. CASE ua[u].branch = Br(d) /\ ua[u].state = "live"
        <4>1. ua'[u] = [ua[u] EXCEPT !.state = "disc"]
          BY <2>1, <3>1
        <4> QED
          BY <2>4, <3>1, <4>1
      <3>2. CASE ~(ua[u].branch = Br(d) /\ ua[u].state = "live")
        BY <2>1, <3>2
      <3> QED
        BY <3>1, <3>2
    <2> QED
      BY <1>0, <2>1, <2>3, <2>5, LegsKept
  <1>4. CASE RecvRequest(r, d)
    <2>1. PICK u \in Consumer(d) :
            ua' = [ua EXCEPT ![u].state = IF Method(d) = "BYE" THEN "disc" ELSE @]
      BY <1>4 DEF RecvRequest
    <2>2. UNCHANGED <<consumers, tclient>>
      BY <1>4 DEF RecvRequest
    <2>3. u \in Legs /\ ua[u].state \in {"live", "disc"}
      <3>1. PICK i \in DOMAIN consumers : u = consumers[i]
        BY <2>1 DEF Consumer, Range
      <3>2. u \in Legs
        BY <1>0, <3>1, LenProperties, ElementOfSeq DEF LegTyped
      <3> QED
        BY <1>0, <3>1, <3>2 DEF Registered, Has
    <2>4. ua' \in [Legs -> Leg]
      BY <1>0, <2>1, <2>3 DEF Leg
    <2>5. /\ \A v \in Legs : v # u => ua'[v] = ua[v]
          /\ ua'[u].state \in {"live", "disc"}
      BY <1>0, <2>1, <2>3 DEF Leg
    <2> QED
      BY <1>0, <2>2, <2>3, <2>4, <2>5, LegsKept
  <1>5. CASE OnNewDialog(r, d)
    <2>1. UNCHANGED tclient
      BY <1>5 DEF OnNewDialog, tables
    <2>2. CASE ua["A"].state # "idle"
      BY <1>5, <2>1, <2>2, LegsSame DEF OnNewDialog
    <2>3. CASE ua["A"].state = "idle"
      <3>1. /\ ua' = [ua EXCEPT !["A"] = [state |-> "live", rtag |-> From(d), branch |-> Br(d)]]
            /\ RegConsumer("A")
        BY <1>5, <2>3 DEF OnNewDialog
      <3>2. [state |-> "live", rtag |-> From(d), branch |-> Br(d)] \in Leg
        BY <1>0 DEF Leg
      <3>3. /\ ua' \in [Legs -> Leg] /\ ua'["A"].state = "live"
            /\ \A v \in Legs : v # "A" => ua'[v] = ua[v]
        BY <1>0, <3>1, <3>2
      <3>4. \A s, t \in tclient' : s = t
        BY <1>0, <2>1 DEF LegTyped
      <3>5. ua'["B"].state = "idle" => tclient' = {}
        BY <1>0, <2>1, <3>3 DEF Registered
      <3> QED
        BY <1>0, <2>3, <3>1, <3>3, <3>4, <3>5, RegisterLeg
    <2> QED
      BY <2>2, <2>3
  <1> QED
    BY <1>1, <1>2, <1>3, <1>4, <1>5 DEF Works

LEMMA LegStep ==
    ASSUME IInv, [Next]_vars
    PROVE  LegTyped' /\ Registered'
  <1>0. /\ LegTyped /\ Registered /\ "A" \in Legs /\ "B" \in Legs /\ ua \in [Legs -> Leg]
        /\ tclient \subseteq tclient
    BY LegFacts DEF LegTyped
  <1>1. CASE \/ rCachePurge \/ (\E r \in Receivers, d \in Datagrams : handleIncoming(r, d))
             \/ (\E i \in completed : timerD(i)) \/ (\E tid \in tclient : tclient_del(tid))
             \/ UNCHANGED vars
    <2>1. UNCHANGED <<ua, consumers>> /\ tclient' \subseteq tclient
      BY <1>1 DEF rCachePurge, handleIncoming, timerD, tclient_del, vars, tables
    <2> QED
      BY <2>1, LegsSame
  <1>2. ASSUME NEW b \in Branches, NEW ok \in BOOLEAN, SendResponse(b, ok)
        PROVE  LegTyped' /\ Registered'
    <2>1. /\ UNCHANGED <<consumers, tclient>> /\ ua["A"].state = "live"
          /\ ua' = [ua EXCEPT !["A"] = IF ok THEN [@ EXCEPT !.branch = ""]
                                             ELSE [@ EXCEPT !.state = "disc"]]
      BY <1>2 DEF SendResponse, Complete
    <2>2. PICK leg : leg = IF ok THEN [ua["A"] EXCEPT !.branch = ""]
                                 ELSE [ua["A"] EXCEPT !.state = "disc"]
      OBVIOUS
    <2>3. leg \in Leg /\ leg.state \in {"live", "disc"}
      BY <1>0, <2>1, <2>2 DEF Leg
    <2>4. ua' = [ua EXCEPT !["A"] = leg]
      BY <2>1, <2>2
    <2>5. /\ ua' \in [Legs -> Leg] /\ ua'["A"] = leg
          /\ \A v \in Legs : v # "A" => ua'[v] = ua[v]
      BY <1>0, <2>3, <2>4
    <2> QED
      BY <1>0, <2>1, <2>3, <2>5, LegsKept
  <1>3. ASSUME NEW d \in Datagrams, CreateClientTransaction(d) PROVE LegTyped' /\ Registered'
    <2>1. /\ ua["B"].state = "idle" /\ tclient' = tclient \union {GetTId(d, TRUE, TRUE, FALSE)}
          /\ ua' = [ua EXCEPT !["B"].state = "live"] /\ RegConsumer("B")
      BY <1>3 DEF CreateClientTransaction
    <2>2. tclient = {}
      BY <1>0, <2>1 DEF Registered
    <2>3. \A s, t \in tclient' : s = t
      BY <2>1, <2>2
    <2>4. /\ ua' \in [Legs -> Leg] /\ ua'["B"].state = "live"
          /\ \A v \in Legs : v # "B" => ua'[v] = ua[v]
      BY <1>0, <2>1 DEF Leg
    <2> QED
      BY <1>0, <2>1, <2>3, <2>4, RegisterLeg
  <1>4. ASSUME NEW u \in Legs, OnDead(u) PROVE LegTyped' /\ Registered'
    <2>1. /\ ua[u].state \in {"live", "disc"} /\ ua' = [ua EXCEPT ![u].state = "dead"]
          /\ UnregConsumer(u) /\ tclient' = tclient
      BY <1>4 DEF OnDead, tables
    <2>2. /\ ua' \in [Legs -> Leg] /\ ua'[u].state = "dead"
          /\ \A v \in Legs : v # u => ua'[v] = ua[v]
      BY <1>0, <2>1 DEF Leg
    <2>3. /\ consumers' \in Seq(Legs) /\ Once(consumers')
          /\ \A v : Has(consumers', v) <=> v # u /\ Has(consumers, v)
      BY <1>0, <2>1, UnregisterLeg
    <2>4. \A v \in Legs : ua'[v].state \in {"live", "disc"} <=> Has(consumers', v)
      BY <1>0, <2>2, <2>3 DEF Registered
    <2>5. ua'["B"].state = "idle" => tclient' = {}
      BY <1>0, <2>1, <2>2 DEF Registered
    <2>6. LegTyped'
      BY <1>0, <2>1, <2>2, <2>3 DEF LegTyped
    <2> QED
      BY <2>3, <2>4, <2>5, <2>6 DEF Registered
  <1> QED
    BY <1>1, <1>2, <1>3, <1>4, WorkLegs, NextCases

-------------------------------------------------------------------------------
\* The rest of the state, and the requests that were wronged.

\* The part of Known that is about the tables.
Unopened == \A d \in Datagrams : age[d] = Never => \A b \in Branches : checksum[b] # d

LEMMA TablesTypedStep ==
    ASSUME IInv, [Next]_vars
    PROVE  tserver' \in [Branches -> {"none", "busy", "open"}] /\ arrivals' \in 0..MaxArrivals
  <1>0. /\ tserver \in [Branches -> {"none", "busy", "open"}] /\ arrivals \in 0..MaxArrivals
        /\ MaxArrivals \in Nat
    BY BoundsAssumption DEF IInv, Typed, BoundsAssumption
  <1>1. CASE rCachePurge
    BY <1>0, <1>1 DEF rCachePurge, tables
  <1>2. ASSUME NEW r \in Receivers, NEW d \in Datagrams, handleIncoming(r, d)
        PROVE  tserver' = tserver /\ arrivals' \in 0..MaxArrivals
    BY <1>0, <1>2 DEF handleIncoming, tables
  <1>3. ASSUME NEW r \in Receivers, NEW d \in {rcv[r].msg} \ {Nothing}, Works(r, d)
        PROVE  /\ arrivals' = arrivals
               /\ \/ tserver' = tserver
                  \/ \E v \in {"none", "busy", "open"} : tserver' = [tserver EXCEPT ![Br(d)] = v]
    <2>1. arrivals' = arrivals
      BY <1>3 DEF Works, BadResponse, RelayResponse, DropResponse, process_response,
                  process_request, IncomingCopy, IncomingCancel, IncomingAck, UnmatchedCancel,
                  new_server_transaction, RecvRequest, NoSuchDialog, OnNewDialog, UpcallReturns,
                  peers
    <2>2. CASE \/ BadResponse(r, d) \/ RelayResponse(r, d) \/ DropResponse(r, d)
               \/ (\E final \in BOOLEAN : process_response(r, d, final))
               \/ process_request(r, d) \/ IncomingCopy(r, d) \/ IncomingAck(r, d)
               \/ UnmatchedCancel(r, d) \/ OnNewDialog(r, d)
      BY <2>1, <2>2 DEF BadResponse, RelayResponse, DropResponse, process_response,
                  process_request, IncomingCopy, IncomingAck, UnmatchedCancel, OnNewDialog, tables
    <2>3. CASE \/ IncomingCancel(r, d) \/ new_server_transaction(r, d) \/ RecvRequest(r, d)
               \/ NoSuchDialog(r, d) \/ UpcallReturns(r, d)
      BY <2>1, <2>3 DEF IncomingCancel, Complete, new_server_transaction, RecvRequest, NoSuchDialog,
                  UpcallReturns
    <2> QED
      BY <1>3, <2>2, <2>3 DEF Works
  <1>4. ASSUME NEW b \in Branches, NEW ok \in BOOLEAN, SendResponse(b, ok)
        PROVE  arrivals' = arrivals /\ tserver' = [tserver EXCEPT ![b] = "none"]
    BY <1>4 DEF SendResponse, Complete, peers
  <1>5. CASE \/ (\E i \in completed : timerD(i)) \/ (\E d \in Datagrams : CreateClientTransaction(d))
             \/ (\E tid \in tclient : tclient_del(tid)) \/ (\E u \in Legs : OnDead(u))
             \/ UNCHANGED vars
    BY <1>0, <1>5 DEF timerD, CreateClientTransaction, tclient_del, OnDead, vars, tables, peers
  <1>6. ASSUME NEW b, NEW v \in {"none", "busy", "open"}, tserver' = [tserver EXCEPT ![b] = v]
        PROVE  tserver' \in [Branches -> {"none", "busy", "open"}]
    BY <1>0, <1>6
  <1> QED
    BY <1>0, <1>1, <1>2, <1>3, <1>4, <1>5, <1>6, NextCases

LEMMA ChecksumStep ==
    ASSUME IInv, [Next]_vars
    PROVE  checksum' \in [Branches -> Datagrams \union {Nothing}] /\ Unopened'
  <1>0. /\ checksum \in [Branches -> Datagrams \union {Nothing}] /\ Unopened
        /\ \A e \in Datagrams : age'[e] = Never => age[e] = Never
    BY AgeStep DEF IInv, Typed, Known, Unopened
  <1>1. CASE UNCHANGED checksum
    BY <1>0, <1>1 DEF Unopened
  <1>2. ASSUME NEW r \in Receivers, NEW d \in {rcv[r].msg} \ {Nothing}, new_server_transaction(r, d)
        PROVE  checksum' \in [Branches -> Datagrams \union {Nothing}] /\ Unopened'
    <2>1. d \in Datagrams /\ age[d] # Never /\ checksum' = [checksum EXCEPT ![Br(d)] = d]
      BY <1>2, AtFacts DEF new_server_transaction
    <2>2. \A b \in Branches : checksum'[b] = checksum[b] \/ checksum'[b] = d
      BY <1>0, <2>1
    <2> QED
      BY <1>0, <2>1, <2>2 DEF Unopened
  <1>3. ASSUME NEW r \in Receivers, NEW d \in {rcv[r].msg} \ {Nothing}, Works(r, d),
               ~new_server_transaction(r, d)
        PROVE  UNCHANGED checksum
    BY <1>3 DEF Works, BadResponse, RelayResponse, DropResponse, process_response,
                process_request, IncomingCopy, IncomingCancel, IncomingAck, UnmatchedCancel,
                RecvRequest, NoSuchDialog, OnNewDialog, UpcallReturns, tables, Complete
  <1>4. CASE \/ rCachePurge \/ (\E r \in Receivers, d \in Datagrams : handleIncoming(r, d))
             \/ (\E b \in Branches, ok \in BOOLEAN : SendResponse(b, ok))
             \/ (\E i \in completed : timerD(i)) \/ (\E d \in Datagrams : CreateClientTransaction(d))
             \/ (\E tid \in tclient : tclient_del(tid)) \/ (\E u \in Legs : OnDead(u))
             \/ UNCHANGED vars
    <2>1. UNCHANGED checksum
      BY <1>4 DEF rCachePurge, handleIncoming, SendResponse, Complete, timerD,
                  CreateClientTransaction, tclient_del, OnDead, vars, tables
    <2> QED
      BY <1>1, <2>1
  <1> QED
    BY <1>1, <1>2, <1>3, <1>4, NextCases

LEMMA CompletedStep ==
    ASSUME IInv, [Next]_vars
    PROVE  completed' \subseteq Datagrams
  <1>0. completed \subseteq Datagrams
    BY DEF IInv, Typed
  <1>1. ASSUME NEW b \in Branches, tserver[b] = "open", Complete(b)
        PROVE  completed' \subseteq Datagrams
    <2>1. checksum[b] \in Datagrams
      BY <1>1 DEF IInv, Opened
    <2> QED
      BY <1>0, <1>1, <2>1 DEF Complete
  <1>2. ASSUME NEW r \in Receivers, NEW d \in {rcv[r].msg} \ {Nothing}, Works(r, d)
        PROVE  completed' \subseteq Datagrams
    <2>1. Br(d) \in Branches
      BY AtFacts, DatagramFacts
    <2>2. CASE IncomingCancel(r, d)
      BY <1>1, <2>1, <2>2 DEF IncomingCancel
    <2>3. CASE ~IncomingCancel(r, d)
      <3>1. completed' \subseteq completed
        BY <1>2, <2>3
           DEF Works, BadResponse, RelayResponse, DropResponse, process_response,
               process_request, IncomingCopy, IncomingAck, UnmatchedCancel, tables,
               new_server_transaction, RecvRequest, NoSuchDialog, OnNewDialog, UpcallReturns
      <3> QED
        BY <1>0, <3>1
    <2> QED
      BY <2>2, <2>3
  <1>3. ASSUME NEW b \in Branches, NEW ok \in BOOLEAN, SendResponse(b, ok)
        PROVE  completed' \subseteq Datagrams
    BY <1>1, <1>3 DEF SendResponse
  <1>4. CASE \/ rCachePurge \/ (\E r \in Receivers, d \in Datagrams : handleIncoming(r, d))
             \/ (\E i \in completed : timerD(i)) \/ (\E d \in Datagrams : CreateClientTransaction(d))
             \/ (\E tid \in tclient : tclient_del(tid)) \/ (\E u \in Legs : OnDead(u))
             \/ UNCHANGED vars
    <2>1. completed' \subseteq completed
      BY <1>4 DEF rCachePurge, handleIncoming, timerD, CreateClientTransaction, tclient_del,
                  OnDead, vars, tables
    <2> QED
      BY <1>0, <2>1
  <1> QED
    BY <1>2, <1>3, <1>4, NextCases

\* Neither 481 of the manager is ever wrong.
LEMMA WrongedStep ==
    ASSUME IInv, [Next]_vars
    PROVE  wronged' = {}
  <1>0. wronged = {} /\ Opened /\ Registered
    BY DEF IInv
  <1>1. ASSUME NEW r \in Receivers, NEW d \in {rcv[r].msg} \ {Nothing}, UnmatchedCancel(r, d)
        PROVE  wronged' = {}
    <2>1. tserver[Br(d)] = "none"
      BY <1>1 DEF UnmatchedCancel
    <2>2. ~\E i \in InvitesOf(Br(d)) : handled[i] > 0 /\ answered[i][1] = "1xx"
      BY <1>0, <2>1 DEF Opened, InvitesOf
    <2> QED
      BY <1>0, <1>1, <2>2 DEF UnmatchedCancel
  <1>2. ASSUME NEW r \in Receivers, NEW d \in {rcv[r].msg} \ {Nothing}, NoSuchDialog(r, d)
        PROVE  wronged' = {}
    <2>1. Consumer(d) = {}
      BY <1>2 DEF NoSuchDialog
    <2>2. ASSUME NEW u \in Legs, LTag[u] = To(d), ua[u].state = "live", ua[u].rtag = From(d),
                 ua[u].branch = ""
          PROVE  FALSE
      <3>1. Has(consumers, u)
        BY <1>0, <2>2 DEF Registered
      <3>2. u \in Range(consumers)
        BY <3>1 DEF Has, Range
      <3>3. IsYours(u, d)
        BY <2>2 DEF IsYours
      <3> QED
        BY <2>1, <3>2, <3>3 DEF Consumer
    <2> QED
      BY <1>0, <1>2, <2>2 DEF NoSuchDialog
  <1>3. ASSUME NEW r \in Receivers, NEW d \in {rcv[r].msg} \ {Nothing}, Works(r, d),
               ~UnmatchedCancel(r, d), ~NoSuchDialog(r, d)
        PROVE  UNCHANGED wronged
    BY <1>3 DEF Works, BadResponse, RelayResponse, DropResponse, process_response,
                process_request, IncomingCopy, IncomingCancel, IncomingAck,
                new_server_transaction, RecvRequest, OnNewDialog, UpcallReturns
  <1>4. CASE \/ rCachePurge \/ (\E r \in Receivers, d \in Datagrams : handleIncoming(r, d))
             \/ (\E b \in Branches, ok \in BOOLEAN : SendResponse(b, ok))
             \/ (\E i \in completed : timerD(i)) \/ (\E d \in Datagrams : CreateClientTransaction(d))
             \/ (\E tid \in tclient : tclient_del(tid)) \/ (\E u \in Legs : OnDead(u))
             \/ UNCHANGED vars
    BY <1>0, <1>4 DEF rCachePurge, handleIncoming, SendResponse, timerD, CreateClientTransaction,
                tclient_del, OnDead, vars
  <1> QED
    BY <1>0, <1>1, <1>2, <1>3, <1>4, NextCases

-------------------------------------------------------------------------------
\* The theorems.

LEMMA InitIInv == Init => IInv
  <1> SUFFICES ASSUME Init PROVE IInv
    OBVIOUS
  <1>0. /\ Never \in Never..Old /\ Never # 0 /\ Never # 1 /\ 0 \in 0..MaxArrivals
    BY BoundsAssumption DEF BoundsAssumption, Never, Old
  <1>1. [state |-> "idle", rtag |-> "", branch |-> ""] \in Leg
    BY DEF Leg, Tags
  <1>2. Typed
    <2>1. <<"none", Never>> \in (Answers \union {"none"}) \X (Never..Old)
      BY <1>0
    <2>2. "idle" \in Steps
      BY DEF Steps
    <2>3. /\ ua \in [Legs -> Leg] /\ consumers \in Seq(Legs) /\ completed \subseteq Datagrams
          /\ \A s, t \in tclient : s = t
      <3>1. <<>> \in Seq(Legs)
        BY EmptySeq
      <3> QED
        BY <1>1, <3>1 DEF Init
    <2>4. /\ l1rcache \in [Datagrams -> {NoEntry, Placeholder} \union Answers]
          /\ l2rcache \in [Datagrams -> {NoEntry, Placeholder} \union Answers]
          /\ tserver \in [Branches -> {"none", "busy", "open"}]
          /\ checksum \in [Branches -> Datagrams \union {Nothing}]
      BY DEF Init
    <2>5. /\ rcv \in [Receivers -> [pc : Steps, msg : Datagrams \union {Nothing}]]
          /\ handled \in [Datagrams -> Nat] /\ age \in [Datagrams -> Never..Old]
          /\ arrivals \in 0..MaxArrivals
      BY <1>0, <2>2 DEF Init
    <2>6. answered \in [Datagrams -> (Answers \union {"none"}) \X (Never..Old)]
      BY <2>1 DEF Init
    <2> QED
      BY <2>3, <2>4, <2>5, <2>6 DEF Typed
  <1>3. Kept
    BY <1>0 DEF Init, Kept
  <1>4. Known
    BY <1>0, DatagramFacts DEF Init, Known
  <1>5. Alone
    <2>1. rcv = [r \in Receivers |-> [pc |-> "idle", msg |-> Nothing]]
      BY DEF Init
    <2>2. \A r \in Receivers : rcv[r].pc = "idle" /\ rcv[r].msg = Nothing
      BY <2>1
    <2>3. \A d \in Datagrams : handled[d] = 0
      BY DEF Init
    <2> QED
      BY <2>2, <2>3 DEF Alone
  <1>6. Opened
    BY DEF Init, Opened
  <1>7. Registered
    <2>1. consumers = <<>> /\ tclient = {} /\ \A u \in Legs : ua[u].state = "idle"
      BY DEF Init
    <2>2. Once(<<>>) /\ \A v : ~Has(<<>>, v)
      BY DEF Once, Has
    <2> QED
      BY <2>1, <2>2 DEF Registered
  <1> QED
    BY <1>2, <1>3, <1>4, <1>5, <1>6, <1>7 DEF IInv, Init

LEMMA IInvStep == IInv /\ [Next]_vars => IInv'
  <1> SUFFICES ASSUME IInv, [Next]_vars PROVE IInv'
    OBVIOUS
  <1>1. CacheTyped' /\ InCache' /\ Kept'
    BY CacheStep
  <1>2. ReceiverTyped' /\ Alone' /\ Unheard'
    BY ReceiverStep
  <1>3. Opened'
    BY OpenedStep
  <1>4. LegTyped' /\ Registered'
    BY LegStep
  <1>5. /\ tserver' \in [Branches -> {"none", "busy", "open"}] /\ arrivals' \in 0..MaxArrivals
        /\ checksum' \in [Branches -> Datagrams \union {Nothing}] /\ Unopened'
        /\ completed' \subseteq Datagrams
    BY TablesTypedStep, ChecksumStep, CompletedStep
  <1>6. Typed'
    BY <1>1, <1>2, <1>4, <1>5 DEF Typed, CacheTyped, ReceiverTyped, LegTyped
  <1>7. Known'
    BY <1>1, <1>2, <1>5 DEF Known, InCache, Unheard, Unopened
  <1> QED
    BY <1>1, <1>2, <1>3, <1>4, <1>6, <1>7, WrongedStep DEF IInv

LEMMA Invariance == Spec => []IInv
  BY InitIInv, IInvStep, PTL DEF Spec

\* The state of the manager keeps its type, whatever arrives: in particular the
\* callee's leg never has more than one client transaction.
THEOREM TypeCorrect == Spec => []TypeOK
  <1>1. IInv => TypeOK
    <2> SUFFICES ASSUME IInv PROVE TypeOK
      OBVIOUS
    <2>1. Cardinality(tclient) <= 1
      <3>1. CASE tclient = {}
        BY <3>1, FS_EmptySet
      <3>2. ASSUME NEW t \in tclient PROVE Cardinality(tclient) = 1
        <4>1. tclient = {t}
          BY DEF IInv, Typed
        <4> QED
          BY <4>1, FS_Singleton
      <3> QED
        BY <3>1, <3>2
    <2>2. wronged \subseteq Datagrams
      BY DEF IInv
    <2> QED
      BY <2>1, <2>2 DEF IInv, Typed, TypeOK, Leg
  <1> QED
    BY <1>1, Invariance, PTL

\* For any number of receivers and of copies, handleIncoming and rCachePurge hand
\* a datagram to the upper layer at most once while its peer may repeat it.
THEOREM HandledOnceHolds == Spec => []HandledOnce
  <1>1. IInv => HandledOnce
    BY DEF IInv, Alone, HandledOnce
  <1> QED
    BY <1>1, Invariance, PTL

\* What transmitData sent last for a datagram is what the cache gives for its
\* next copy, until two purges have passed: no purge, placeholder or later entry
\* hides it.
THEOREM AnswerKeptHolds == Spec => []AnswerKept
  <1>1. IInv => AnswerKept
    <2> SUFFICES ASSUME IInv, NEW d \in Datagrams, answered[d][2] \notin {Never, Old}
                 PROVE  rcache_get(d) = answered[d][1]
      BY DEF AnswerKept
    <2>1. answered[d][2] \in {0, 1}
      <3>1. answered[d][2] \in Never..Old
        BY DEF IInv, Typed
      <3> QED
        BY <3>1 DEF Never, Old
    <2> QED
      BY <2>1 DEF IInv, Kept, rcache_get
  <1> QED
    BY <1>1, Invariance, PTL

\* A CANCEL of an INVITE that was answered provisionally finds its transaction,
\* whichever receivers took the two: new_server_transaction enters it before the
\* upper layer runs and only the final response takes it out.
THEOREM CancelFindsHolds == Spec => []CancelFinds
  <1>1. IInv => CancelFinds
    BY DEF IInv, CancelFinds
  <1> QED
    BY <1>1, Invariance, PTL

\* A request of a dialog finds its connected leg whatever other leg registered or
\* left before: UnregConsumer takes out the leg that ends and no other, even where
\* it does not look which one the single consumer is.
THEOREM DialogFoundHolds == Spec => []DialogFound
  <1>1. IInv => DialogFound
    BY DEF IInv, DialogFound
  <1> QED
    BY <1>1, Invariance, PTL
=============================================================================
