-------------------------- MODULE TransactionManager --------------------------
(***************************************************************************)
(* The SIP transaction manager (sippy/sip_transaction_manager.go): the     *)
(* datagrams of one Call-ID, taken by several receiver goroutines at once, *)
(* the two generations of the retransmission cache, the tables of client   *)
(* and server transactions and the consumers of the Call-ID.  b2bua_simple *)
(* gives both legs of a call the same Call-ID (uac_state_idle.go:78), so   *)
(* there are two consumers.                                                *)
(*                                                                         *)
(* A datagram stands for its checksum: receiving it again is receiving the *)
(* same bytes.  What a server transaction does beyond its last response is *)
(* modelled in ServerTransaction, a client transaction in                  *)
(* ClientTransaction; here they are what the manager's tables see.         *)
(*                                                                         *)
(* Time is counted in purges of the cache.  They are 32 s apart and a peer *)
(* repeats a datagram for less than 32 s (64*T1 of RFC 3261), so no copy   *)
(* of a datagram comes after the second purge since it was sent first.     *)
(***************************************************************************)
EXTENDS Integers, FiniteSets, Sequences, SequencesExt

CONSTANTS
    Content,      \* what each datagram says: see Datagram
    Scenarios,    \* sets of datagrams that arrive in one behaviour
    Receivers,    \* the goroutines of asyncReceiver.run
    MaxArrivals   \* bound on the datagrams received

ASSUME BoundsAssumption ==
    /\ MaxArrivals \in Nat /\ Scenarios \subseteq SUBSET (DOMAIN Content)
    /\ DOMAIN Content \subseteq Nat \ {0}

VARIABLES
    l1rcache,     \* what the newer generation holds for each datagram ...
    l2rcache,     \* ... and the older one
    tserver,      \* the server transactions keyed by their branch
    checksum,     \* the datagram that opened the transaction of a branch
    completed,    \* the INVITEs whose final response re-keyed the transaction
    tclient,      \* the keys of the client transactions
    consumers,    \* req_consumers of the Call-ID
    ua,           \* the legs
    rcv,          \* what each receiver is doing
    age,          \* purges since the peer sent a datagram first
    arrivals,     \* datagrams received so far
    handled,      \* history: how often each datagram was handed up
    answered,     \* history: the last answer to it, and its age
    wronged       \* history: requests answered 481 that had a transaction or a leg

cache == <<l1rcache, l2rcache>>
tables == <<tserver, checksum, completed, tclient>>
peers == <<age, arrivals>>
vars == <<cache, tables, consumers, ua, rcv, peers, handled, answered, wronged>>

\* The caller's leg and the callee's.
Legs == {"A", "B"}

\* The tag of the leg's own side.
LTag == [u \in Legs |-> IF u = "A" THEN "a" ELSE "b"]

Datagrams == DOMAIN Content
Method(d) == Content[d].method  \* "RESPONSE", or the method of a request
CSeqMethod(d) == Content[d].cseq
Vias(d) == Content[d].vias      \* the branches of the Via headers, topmost first
Br(d) == IF Vias(d) = <<>> THEN "" ELSE Vias(d)[1]
From(d) == Content[d].from      \* the tags
To(d) == Content[d].to
Body(d) == Content[d].body      \* see init_body

Branches == {Br(d) : d \in Datagrams}
Never == -1
Nothing == 0  \* no datagram
Old == 2      \* two purges, or more

Older(t) == IF t \in {Never, Old} THEN t ELSE t + 1

\* An entry without data: the datagram is known, and nothing is sent for it.
NoEntry == "none"
Placeholder == "nil"

Init ==
    /\ l1rcache = [d \in Datagrams |-> NoEntry]
    /\ l2rcache = [d \in Datagrams |-> NoEntry]
    /\ tserver = [b \in Branches |-> "none"] /\ checksum = [b \in Branches |-> Nothing]
    /\ completed = {} /\ tclient = {}
    /\ consumers = <<>>
    /\ ua = [u \in Legs |-> [state |-> "idle", rtag |-> "", branch |-> ""]]
    /\ rcv = [r \in Receivers |-> [pc |-> "idle", msg |-> Nothing]]
    /\ age = [d \in Datagrams |-> Never] /\ arrivals = 0
    /\ handled = [d \in Datagrams |-> 0]
    /\ answered = [d \in Datagrams |-> <<"none", Never>>]
    /\ wronged = {}

-------------------------------------------------------------------------------
\* The retransmission cache.

rcache_get(d) == IF l1rcache[d] # NoEntry THEN l1rcache[d] ELSE l2rcache[d]

rcache_put(d, entry) ==
    /\ l1rcache' = [l1rcache EXCEPT ![d] = entry]
    /\ UNCHANGED l2rcache

\* Mutant: the placeholder overwrites the answer.
rcache_set_call_id_Forgets(d) == rcache_put(d, Placeholder)

\* An entry that is there keeps its data and only learns the Call-ID.
rcache_set_call_id(d) ==
    IF rcache_get(d) # NoEntry
      THEN UNCHANGED cache
      ELSE rcache_put(d, Placeholder)

\* transmitData with a checksum: the answer is sent, then kept for the next copy
\* of the datagram it answers.
transmitData(d, answer) ==
    /\ rcache_put(d, answer)
    /\ answered' = [answered EXCEPT ![d] = <<answer, 0>>]

\* A purge ages what the peers and the manager have sent.
Aged ==
    /\ age' = [d \in Datagrams |-> Older(age[d])]
    /\ answered' = [d \in Datagrams |-> <<answered[d][1], Older(answered[d][2])>>]

\* Mutant: the purge empties both generations.
rCachePurge_Flush ==
    /\ l2rcache' = [d \in Datagrams |-> NoEntry]
    /\ l1rcache' = [d \in Datagrams |-> NoEntry]
    /\ Aged
    /\ UNCHANGED <<tables, consumers, ua, rcv, arrivals, handled, wronged>>

rCachePurge ==
    /\ l2rcache' = l1rcache
    /\ l1rcache' = [d \in Datagrams |-> NoEntry]
    /\ Aged
    /\ UNCHANGED <<tables, consumers, ua, rcv, arrivals, handled, wronged>>

-------------------------------------------------------------------------------
\* Receivers.

Goto(r, pc, d) == rcv' = [rcv EXCEPT ![r] = [pc |-> pc, msg |-> d]]
Done(r) == Goto(r, "idle", Nothing)

\* A receiver at step pc of the datagram d.
At(r, pc, d) == rcv[r].pc = pc /\ rcv[r].msg = d

-------------------------------------------------------------------------------
\* Messages and the keys of their transactions.

\* ParseSipMsg: without one of Via, To, From, CSeq and Call-ID there is no message.
ParseSipMsg(d) == Vias(d) # <<>>

\* A body shorter than its Content-Length is an error unless it can be repaired
\* (short by the last line breaks); a longer one is cut.
init_body(d) == Body(d) # "truncated"

\* What becomes of the bytes of a request: an error with a message can be
\* answered, one without cannot.
ParseSipRequest(d) ==
    IF ~ParseSipMsg(d) THEN "nothing" ELSE IF ~init_body(d) THEN "bad" ELSE "ok"

\* A response needs its status line and, whatever its status, its body too.
ParseSipResponse(d) == ParseSipMsg(d) /\ init_body(d)

Parsed(d) == IF Method(d) = "RESPONSE" THEN ParseSipResponse(d) ELSE ParseSipRequest(d) = "ok"

TID(method, from, to, branch) ==
    [method |-> method, from |-> from, to |-> to, branch |-> branch]

GetTId(d, wCSM, wBRN, wTTG) ==
    TID(IF wCSM THEN CSeqMethod(d) ELSE "", From(d),
        IF wTTG THEN To(d) ELSE "", IF wBRN THEN Br(d) ELSE "")

\* The keys of the client transactions that a request could have come from, one
\* for each Via.  The branch is put in the place of the To tag.
getTIds(d) == {TID(CSeqMethod(d), From(d), v, "") : v \in Range(Vias(d))}

-------------------------------------------------------------------------------
\* Receivers at work.

InvitesOf(br) == {d \in Datagrams : Method(d) = "INVITE" /\ Br(d) = br}

\* The peers follow RFC 3261: an INVITE is cancelled after a provisional response
\* to it, acknowledged after a final one, and a request within a dialog comes
\* after the dialog was made; nothing is repeated once 32 s are over.
PeerSends(d) ==
    \/ age[d] \notin {Never, Old}
    \/ /\ age[d] = Never
       /\ \A c \in Datagrams : c < d /\ Content[c] = Content[d] => age[c] # Never
       /\ Method(d) = "CANCEL" => \E i \in InvitesOf(Br(d)) : answered[i][1] = "1xx"
       /\ Method(d) = "ACK" => \E i \in InvitesOf(Br(d)) : i \in completed
       /\ Method(d) = "BYE" =>
            \E u \in Legs : To(d) = LTag[u] /\ ua[u].state # "idle"
       /\ LTag["B"] \in {From(d), To(d)} => ua["B"].state # "idle"
       /\ \E s \in Scenarios : {c \in Datagrams : age[c] # Never} \cup {d} \subseteq s

\* A datagram seen before is answered from the cache or, as long as there is no
\* answer, dropped; the entry is made before the datagram is looked at, so that
\* a copy taken by another receiver meanwhile is dropped too.
handleIncoming(r, d) ==
    /\ rcv[r].pc = "idle"
    /\ arrivals < MaxArrivals
    /\ PeerSends(d)
    /\ arrivals' = arrivals + 1
    /\ age' = [age EXCEPT ![d] = IF @ = Never THEN 0 ELSE @]
    /\ IF rcache_get(d) # NoEntry
         THEN UNCHANGED <<cache, rcv>>
         ELSE /\ rcache_put(d, Placeholder)
              /\ Goto(r, IF ~Parsed(d) THEN "unparsed"
                         ELSE IF Method(d) = "RESPONSE" THEN "response" ELSE "request", d)
    /\ UNCHANGED <<tables, consumers, ua, handled, answered, wronged>>

\* A response belongs to the client transaction whose request it repeats the
\* CSeq, the From tag and the topmost branch of.
Ours(d) == GetTId(d, TRUE, TRUE, FALSE) \in tclient

\* A response that cannot be parsed is forgotten: the cache knows its bytes.
BadResponse(r, d) ==
    /\ At(r, "unparsed", d) /\ Method(d) = "RESPONSE"
    /\ Done(r)
    /\ UNCHANGED <<cache, tables, consumers, ua, peers, handled, answered, wronged>>

\* A response of no client transaction is relayed if there is a Via under the
\* topmost one.
RelayResponse(r, d) ==
    /\ At(r, "response", d)
    /\ ~Ours(d)
    /\ Len(Vias(d)) > 1
    /\ transmitData(d, "relayed")
    /\ Goto(r, "relayed", d)
    /\ UNCHANGED <<tables, consumers, ua, peers, handled, wronged>>

DropResponse(r, d) ==
    /\ \/ At(r, "relayed", d)
       \/ At(r, "response", d) /\ ~Ours(d) /\ Len(Vias(d)) = 1
    /\ rcache_set_call_id(d)
    /\ Done(r)
    /\ UNCHANGED <<tables, consumers, ua, peers, handled, answered, wronged>>

\* A response of the B leg's INVITE, provisional or the one that ends the client
\* transaction: the leg learns the tag of its peer.
process_response(r, d, final) ==
    /\ At(r, "response", d)
    /\ Ours(d)
    /\ tclient' = IF final THEN tclient \ {GetTId(d, TRUE, TRUE, FALSE)} ELSE tclient
    /\ ua' = [ua EXCEPT !["B"].rtag = IF ua["B"].state = "live" THEN To(d) ELSE @]
    /\ Done(r)
    /\ UNCHANGED <<cache, tserver, checksum, completed, consumers, peers, handled, answered,
                   wronged>>

-------------------------------------------------------------------------------
\* Server transactions.

\* A request that cannot be parsed: as much of it as there is is answered, or it
\* is forgotten.
process_request(r, d) ==
    /\ At(r, "unparsed", d) /\ Method(d) # "RESPONSE"
    /\ \/ ParseSipRequest(d) = "bad" /\ transmitData(d, "400")
       \/ ParseSipRequest(d) = "nothing" /\ UNCHANGED <<cache, answered>>
    /\ Done(r)
    /\ UNCHANGED <<tables, consumers, ua, peers, handled, wronged>>

\* A request of this process that came back.  With the keys of getTIds none is
\* ever found, and it is taken for a request of somebody else.
LoopDetected(d) == getTIds(d) \cap tclient # {}

\* Not a loop: the lookup in tserver follows at once.
Lookup(r, d) == At(r, "request", d) /\ ~LoopDetected(d)

\* A request of a transaction that is there waits for the transaction's lock.
\* The same request in other bytes is answered with the last response.
IncomingCopy(r, d) ==
    /\ Lookup(r, d)
    /\ Method(d) \notin {"CANCEL", "ACK"}
    /\ tserver[Br(d)] = "open"
    /\ transmitData(d, "1xx")
    /\ Done(r)
    /\ UNCHANGED <<tables, consumers, ua, peers, handled, wronged>>

\* The final response of an INVITE: from here the transaction is found by the
\* To tag only.
Complete(b) ==
    /\ tserver' = [tserver EXCEPT ![b] = "none"]
    /\ completed' = completed \union {checksum[b]}
    /\ UNCHANGED <<checksum, tclient>>

IncomingCancel(r, d) ==
    LET invite == checksum[Br(d)] IN
    /\ Lookup(r, d)
    /\ Method(d) = "CANCEL"
    /\ tserver[Br(d)] = "open"
    /\ l1rcache' = [l1rcache EXCEPT ![d] = "200", ![invite] = "487"]
    /\ answered' = [answered EXCEPT ![d] = <<"200", 0>>, ![invite] = <<"487", 0>>]
    /\ Complete(Br(d))
    /\ ua' = [u \in Legs |-> IF ua[u].branch = Br(d) /\ ua[u].state = "live"
                             THEN [ua[u] EXCEPT !.state = "disc"] ELSE ua[u]]
    /\ Done(r)
    /\ UNCHANGED <<l2rcache, consumers, peers, handled, wronged>>

\* An ACK removes its transaction; one that matches none is remembered only.
IncomingAck(r, d) ==
    /\ Lookup(r, d)
    /\ Method(d) = "ACK"
    /\ completed' = completed \ InvitesOf(Br(d))
    /\ rcache_set_call_id(d)
    /\ Done(r)
    /\ UNCHANGED <<tserver, checksum, tclient, consumers, ua, peers, handled, answered, wronged>>

UnmatchedCancel(r, d) ==
    /\ Lookup(r, d)
    /\ Method(d) = "CANCEL"
    /\ tserver[Br(d)] = "none"
    /\ transmitData(d, "481")
    /\ wronged' = IF \E i \in InvitesOf(Br(d)) : handled[i] > 0 /\ answered[i][1] = "1xx"
                    THEN wronged \union {d} ELSE wronged
    /\ Done(r)
    /\ UNCHANGED <<tables, consumers, ua, peers, handled>>

\* Mutant: the transaction is stored after the UA has run.
new_server_transaction_StoredLater(r, d) ==
    /\ Lookup(r, d)
    /\ Method(d) \notin {"CANCEL", "ACK"}
    /\ tserver[Br(d)] = "none"
    /\ Goto(r, "upcall", d)
    /\ UNCHANGED <<cache, tables, consumers, ua, peers, handled, answered, wronged>>

\* The transaction is in the table, with its lock held ("busy"), before the upper
\* layer hears of the request.
new_server_transaction(r, d) ==
    /\ Lookup(r, d)
    /\ Method(d) \notin {"CANCEL", "ACK"}
    /\ tserver[Br(d)] = "none"
    /\ tserver' = [tserver EXCEPT ![Br(d)] = "busy"]
    /\ checksum' = [checksum EXCEPT ![Br(d)] = d]
    /\ Goto(r, "upcall", d)
    /\ UNCHANGED <<cache, completed, tclient, consumers, ua, peers, handled, answered,
                   wronged>>

\* Ua.IsYours: until it is connected the caller's leg takes only a BYE and what
\* has the branch of its INVITE.
IsYours(u, d) ==
    /\ Method(d) = "BYE" \/ ua[u].branch \in {"", Br(d)}
    /\ ua[u].rtag = From(d)
    /\ LTag[u] = To(d)

Consumer(d) == {u \in Range(consumers) : IsYours(u, d)}

HandedUp(d) == handled' = [handled EXCEPT ![d] = @ + 1]

\* A request within a dialog goes to the leg it belongs to, which answers it; a
\* BYE ends the leg.
RecvRequest(r, d) ==
    /\ At(r, "upcall", d)
    /\ HandedUp(d)
    /\ \E u \in Consumer(d) :
         ua' = [ua EXCEPT ![u].state = IF Method(d) = "BYE" THEN "disc" ELSE @]
    /\ transmitData(d, "200")
    /\ tserver' = [tserver EXCEPT ![Br(d)] = "none"]
    /\ Done(r)
    /\ UNCHANGED <<checksum, completed, tclient, consumers, peers, wronged>>

\* callMap.OnNewDialog of a request within a dialog that nobody owns.
NoSuchDialog(r, d) ==
    /\ At(r, "upcall", d)
    /\ HandedUp(d)
    /\ Consumer(d) = {}
    /\ To(d) # ""
    /\ transmitData(d, "481")
    /\ wronged' = IF \E u \in Legs : /\ LTag[u] = To(d)
                                     /\ ua[u].state = "live"
                                     /\ ua[u].rtag = From(d) /\ ua[u].branch = ""
                    THEN wronged \union {d} ELSE wronged
    /\ tserver' = [tserver EXCEPT ![Br(d)] = "none"]
    /\ Done(r)
    /\ UNCHANGED <<checksum, completed, tclient, consumers, ua, peers>>

RegConsumer(u) == consumers' = Append(consumers, u)

\* A new call: the leg answers 100 and registers while the lock of the
\* transaction is still held.  (The legs of a second call are left out.)
OnNewDialog(r, d) ==
    /\ At(r, "upcall", d)
    /\ HandedUp(d)
    /\ To(d) = ""
    /\ IF ua["A"].state = "idle"
         THEN /\ ua' = [ua EXCEPT !["A"] =
                         [state |-> "live", rtag |-> From(d), branch |-> Br(d)]]
              /\ RegConsumer("A")
         ELSE UNCHANGED <<ua, consumers>>
    /\ transmitData(d, "1xx")
    /\ Goto(r, "return", d)
    /\ UNCHANGED <<tables, peers, wronged>>

UpcallReturns(r, d) ==
    /\ At(r, "return", d)
    /\ tserver' = [tserver EXCEPT ![Br(d)] = "open"]
    /\ Done(r)
    /\ UNCHANGED <<cache, checksum, completed, tclient, consumers, ua, peers, handled, answered,
                   wronged>>

-------------------------------------------------------------------------------
\* The upper layer and the timers.

\* SendResponse of the caller's leg: 200 connects it, anything else ends it.
SendResponse(b, ok) ==
    /\ tserver[b] = "open"
    /\ ua["A"].state = "live" /\ ua["A"].branch = b
    /\ transmitData(checksum[b], IF ok THEN "200" ELSE "4xx")
    /\ Complete(b)
    /\ ua' = [ua EXCEPT !["A"] = IF ok THEN [@ EXCEPT !.branch = ""]
                                       ELSE [@ EXCEPT !.state = "disc"]]
    /\ UNCHANGED <<consumers, rcv, peers, handled, wronged>>

\* serverTransaction.timerD.
timerD(i) ==
    /\ i \in completed
    /\ completed' = completed \ {i}
    /\ UNCHANGED <<cache, tserver, checksum, tclient, consumers, ua, rcv, peers, handled,
                   answered, wronged>>

\* The callee's leg is registered, then its INVITE sent: the one that the
\* response d will answer.
CreateClientTransaction(d) ==
    LET tid == GetTId(d, TRUE, TRUE, FALSE) IN
    /\ ua["A"].state = "live" /\ ua["B"].state = "idle"
    /\ Method(d) = "RESPONSE" /\ From(d) = LTag["B"]
    /\ tid \notin tclient
    /\ tclient' = tclient \union {tid}
    /\ ua' = [ua EXCEPT !["B"].state = "live"]
    /\ RegConsumer("B")
    /\ UNCHANGED <<cache, tserver, checksum, completed, rcv, peers, handled, answered, wronged>>

tclient_del(tid) ==
    /\ tid \in tclient
    /\ tclient' = tclient \ {tid}
    /\ UNCHANGED <<cache, tserver, checksum, completed, consumers, ua, rcv, peers, handled,
                   answered, wronged>>

\* Mutant: the whole entry of the Call-ID goes.
UnregConsumer_Whole(u) == consumers' = <<>>

\* A single consumer is taken to be the one that leaves.
UnregConsumer(u) ==
    consumers' = IF Len(consumers) > 1 THEN RemoveFirst(consumers, u) ELSE <<>>

\* Ua.OnDead, of a leg that has ended or, after a BYE of its own, of a connected
\* one.
OnDead(u) ==
    /\ ua[u].state = "disc" \/ (ua[u].state = "live" /\ ua[u].branch = "")
    /\ ua' = [ua EXCEPT ![u].state = "dead"]
    /\ UnregConsumer(u)
    /\ UNCHANGED <<cache, tables, rcv, peers, handled, answered, wronged>>

Next ==
    \/ rCachePurge
    \/ \E r \in Receivers, d \in Datagrams : handleIncoming(r, d)
    \/ \E r \in Receivers : \E d \in {rcv[r].msg} \ {Nothing} :
         \/ BadResponse(r, d)
         \/ RelayResponse(r, d)
         \/ DropResponse(r, d)
         \/ \E final \in BOOLEAN : process_response(r, d, final)
         \/ process_request(r, d)
         \/ IncomingCopy(r, d)
         \/ IncomingCancel(r, d)
         \/ IncomingAck(r, d)
         \/ UnmatchedCancel(r, d)
         \/ new_server_transaction(r, d)
         \/ RecvRequest(r, d)
         \/ NoSuchDialog(r, d)
         \/ OnNewDialog(r, d)
         \/ UpcallReturns(r, d)
    \/ \E b \in Branches, ok \in BOOLEAN : SendResponse(b, ok)
    \/ \E i \in completed : timerD(i)
    \/ \E d \in Datagrams : CreateClientTransaction(d)
    \/ \E tid \in tclient : tclient_del(tid)
    \/ \E u \in Legs : OnDead(u)

Spec == Init /\ [][Next]_vars

-------------------------------------------------------------------------------
\* Properties.

Steps == {"idle", "response", "relayed", "unparsed", "request", "upcall", "return"}
Tags == {""} \union {From(d) : d \in Datagrams} \union {To(d) : d \in Datagrams}
Answers == {"1xx", "200", "400", "4xx", "481", "487", "relayed"}

\* The manager's state has its type.
TypeOK ==
    /\ age \in [Datagrams -> Never..Old] /\ arrivals \in 0..MaxArrivals
    /\ l1rcache \in [Datagrams -> {NoEntry, Placeholder} \union Answers]
    /\ l2rcache \in [Datagrams -> {NoEntry, Placeholder} \union Answers]
    /\ tserver \in [Branches -> {"none", "busy", "open"}]
    /\ checksum \in [Branches -> Datagrams \union {Nothing}]
    /\ completed \subseteq Datagrams /\ Cardinality(tclient) <= 1
    /\ consumers \in Seq(Legs)
    /\ ua \in [Legs -> [state : {"idle", "live", "disc", "dead"}, rtag : Tags,
                        branch : Branches \union {""}]]
    /\ rcv \in [Receivers -> [pc : Steps, msg : Datagrams \union {Nothing}]]
    /\ handled \in [Datagrams -> Nat] /\ wronged \subseteq Datagrams
    /\ answered \in [Datagrams -> (Answers \union {"none"}) \X (Never..Old)]

\* A datagram the peer repeats within its 32 s is handed to the upper layer once,
\* whichever receivers take the copies, whatever became of its transaction and
\* however many purges fall between them (handleIncoming, rCachePurge).
HandledOnce == \A d \in Datagrams : handled[d] <= 1

\* Until the second purge after an answer was sent, a copy of the datagram gets
\* that answer and not an older one, and is not dropped (transmitDataWithCb, rcache_set_call_id).
AnswerKept ==
    \A d \in Datagrams :
      answered[d][2] \notin {Never, Old}
        => rcache_get(d) = answered[d][1]

\* No CANCEL of an INVITE that has only a provisional response is told that the
\* transaction does not exist: it is in the table before the first response can
\* leave (new_server_transaction).
CancelFinds == \A d \in wronged : Method(d) # "CANCEL"

\* No request of a dialog is told that the dialog does not exist while its leg is
\* connected, whichever other leg of the Call-ID has come or gone
\* (RegConsumer, UnregConsumer, IsYours).
DialogFound == \A d \in wronged : Method(d) = "CANCEL"
===============================================================================
