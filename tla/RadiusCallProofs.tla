-------------------------- MODULE RadiusCallProofs --------------------------
(***************************************************************************)
(* RadiusCall for any number of routes and any configurations: one attempt *)
(* at a time and in order, records that say what became of each leg, and   *)
(* no rtpproxy session that outlives the call, with commands that end legs *)
(* while a handler runs.                                                   *)
(***************************************************************************)
EXTENDS RadiusCall, FiniteSetTheorems, SequenceTheorems, TLAPS

-----------------------------------------------------------------------------
(* The inductive invariant *)

\* The records of an account: up says that its leg was connected, down that it
\* ended.
Account(a, up, down) ==
    /\ a.crec <=> a.on /\ up
    /\ a.drec <=> a.on /\ down
    /\ a.charged <=> a.crec /\ a.drec
    /\ "Start" \in a.sent <=> a.crec
    /\ "Stop" \in a.sent <=> a.drec
    /\ a.alive # "off" => a.crec
    /\ a.alive = "on" => ~a.drec

\* The incoming leg: its account is complete when there are attempts and says what
\* became of it.
Incoming(c) ==
    /\ Account(c.acct[0], 0 \in c.connect_ts, c.A \in Gone)
    /\ c.acct[0].on /\ c.A \notin Gone => c.acctA
    /\ c.legs # <<>> => c.acct[0].on = cfg.acct /\ c.A # "none"
    /\ c.legs = <<>> => c.A \notin {"ringing", "connected"} /\ 0 \notin c.connect_ts
    /\ c.A = "none" => ~c.acct[0].on
    /\ 0 \in c.connect_ts => c.A \in {"connected"} \cup Gone
    /\ c.rtp = "open" /\ "session" \notin c.late => c.A \notin Gone
    /\ c.state = "Dead" => c.A \in Gone
    /\ c.auth \in {"queued", "taken"} => c.legs = <<>> /\ c.A # "none" /\ ~c.acct[0].on
    /\ 0 \in c.owed => c.A = "over"

\* The routes left come after the ones tried and there is room for each.
Routes(c) ==
    /\ Len(c.legs) + Len(c.routes) <= MaxRoutes
    /\ Increasing(c.routes)
    /\ \A i \in DOMAIN c.legs, k \in DOMAIN c.routes : c.legs[i].rnum < c.routes[k]
    /\ \A i, j \in DOMAIN c.legs : i < j => c.legs[i].rnum < c.legs[j].rnum

\* The attempts, one by one.
Attempts(c) ==
    /\ c.acctO <= Len(c.legs)
    /\ c.proxied => c.legs # <<>>
    /\ \A u \in c.owed : u # 0 => u \in DOMAIN c.legs
    /\ \A i \in 1..MaxRoutes : i > Len(c.legs) => c.acct[i] = NoAccount /\ i \notin c.connect_ts
    /\ \A i \in DOMAIN c.legs :
         /\ c.legs[i].wait = "try" => c.legs[i].st \in {"idle"} \cup Ended
         /\ c.legs[i].st = "none" => c.legs[i].wait = "no"
         /\ i \in c.connect_ts => c.legs[i].st \in {"connected"} \cup Ended

\* The legs in ending have ended, and each is there once.
Queue(c) ==
    /\ \A k \in DOMAIN c.ending :
         /\ c.ending[k] = 0 => c.A \in Gone
         /\ c.ending[k] # 0 => /\ c.ending[k] \in DOMAIN c.legs
                               /\ c.legs[c.ending[k]].st = "over"
    /\ \A j, k \in DOMAIN c.ending : j < k => c.ending[j] # c.ending[k]

\* An attempt that is dead before the incoming leg is: it ended before it.
Before(c, i) ==
    \E k \in DOMAIN c.ending : c.ending[k] = i /\ \A m \in DOMAIN c.ending : m < k => c.ending[m] # 0
Buried(c, i) ==
    \/ c.legs[i].st = "dead"
    \/ c.legs[i].st = "over" /\ c.A # "dead" /\ Before(c, i)
InOrder(c) ==
    c.stray \/ \A i \in DOMAIN c.legs : i < Len(c.legs) => Buried(c, i)

\* acctO is the account of an attempt that is going on; the records of one that
\* ended before its callbacks were set say nothing.
Billed(c, i) ==
    LET l == c.legs[i]
    IN  /\ l.bill => c.acct[i].on
        /\ l.bill /\ l.st \notin Ended => c.acctO = i
        /\ ~l.bill /\ l.st \in Active => c.acctO = 0
        /\ Account(c.acct[i], l.bill /\ i \in c.connect_ts, l.bill /\ l.st \in Ended)
InTurn(c) == c.stray \/ \A i \in DOMAIN c.legs : Billed(c, i)

\* What is kept within a step too ...
Base(c) ==
    /\ c \in Calls
    /\ Incoming(c) /\ Routes(c) /\ Attempts(c) /\ Queue(c) /\ InOrder(c) /\ InTurn(c)

\* ... and what holds again at its end.
Idle(c) == c.stray \/ \A i \in DOMAIN c.legs : c.legs[i].st \notin Active
HungUp(c) ==
    c.A \in Gone => \/ "attempt" \in c.late
                    \/ 0 \in c.owed /\ c.state = "Disconnecting"
                    \/ Idle(c)

\* What a handler that has stopped relies on: before the first attempt, before one
\* is made, before its callbacks are set, before its Try.
Unbegun(c) == c.legs = <<>> /\ c.A # "none" /\ c.auth \notin {"queued", "taken"}
MayPlace(c, rnum) ==
    /\ c.A # "none" /\ c.acct[0].on = cfg.acct /\ c.auth \notin {"queued", "taken"}
    /\ c.stray \/ \A i \in DOMAIN c.legs : Buried(c, i)
    /\ Len(c.legs) + Len(c.routes) < MaxRoutes
    /\ rnum \in 1..MaxRoutes
    /\ \A i \in DOMAIN c.legs : c.legs[i].rnum < rnum
    /\ \A k \in DOMAIN c.routes : rnum < c.routes[k]
Unset(c, i) ==
    /\ c.legs[i].st \in {"none"} \cup Ended
    /\ ~c.legs[i].bill /\ c.acctO \in {0, i} /\ (c.acctO = i => c.acct[i].on)
Unsent(c, i) ==
    /\ c.legs[i].st \in {"none"} \cup Ended
    /\ c.legs[i].st = "none" /\ ~c.legs[i].bill => c.acctO = 0

Stopped(c, h) ==
    /\ h.leg # 0 => h.leg \in DOMAIN c.legs /\ c.stray
    /\ h.pc = "none" => h.leg = 0
    /\ h.pc \in {"try", "session", "rDone"} => Unbegun(c) /\ ~c.acct[0].on
    /\ h.pc = "route" => Unbegun(c) /\ c.acct[0].on = cfg.acct
    /\ h.pc = "create" => MayPlace(c, h.rnum)
    /\ h.pc \in {"setup", "send", "connect"} => c.legs # <<>>
    /\ h.pc = "setup" => c.stray \/ Unset(c, Len(c.legs))
    /\ h.pc = "send" => c.stray \/ Unsent(c, Len(c.legs))
    /\ c.state = "ARComplete" /\ c.legs = <<>> => h.pc = "create"

CallInv(c, h) == Base(c) /\ HungUp(c) /\ Stopped(c, h)

IInv == TypeOK /\ CallInv(cc, at)

-----------------------------------------------------------------------------
(* Accounting: a record changes one account and nothing else of the call. *)

Same(c, d) ==
    /\ d.state = c.state /\ d.A = c.A /\ d.legs = c.legs /\ d.connect_ts = c.connect_ts
    /\ d.acctA = c.acctA /\ d.acctO = c.acctO /\ d.routes = c.routes /\ d.auth = c.auth
    /\ d.rtp = c.rtp /\ d.ending = c.ending /\ d.stray = c.stray
    /\ d.proxied = c.proxied /\ d.owed = c.owed /\ d.late = c.late

Records(c, d, i) ==
    /\ d \in Calls /\ Same(c, d)
    /\ \A k \in 0..MaxRoutes : d.acct[k].on = c.acct[k].on /\ (k # i => d.acct[k] = c.acct[k])

LEMMA NoRecord ==
    ASSUME NEW c \in Calls, NEW i
    PROVE  Records(c, c, i)
  BY DEF Records, Same

\* The account i of c is replaced by a.
LEMMA SetsOne ==
    ASSUME NEW c \in Calls, NEW i \in 0..MaxRoutes, NEW a \in Accounts
    PROVE  LET d == [c EXCEPT !.acct[i] = a]
           IN  /\ d \in Calls /\ Same(c, d) /\ d.acct[i] = a
               /\ \A k \in 0..MaxRoutes : k # i => d.acct[k] = c.acct[k]
  BY DEF Calls, Same

LEMMA RecordsOne ==
    ASSUME NEW c \in Calls, NEW i \in 0..MaxRoutes, NEW a \in Accounts, a.on = c.acct[i].on
    PROVE  LET d == [c EXCEPT !.acct[i] = a] IN Records(c, d, i) /\ d.acct[i] = a
  <1>1. PICK d : d = [c EXCEPT !.acct[i] = a]
    OBVIOUS
  <1>2. /\ d \in Calls /\ Same(c, d) /\ d.acct[i] = a
        /\ \A k \in 0..MaxRoutes : k # i => d.acct[k] = c.acct[k]
    BY <1>1, SetsOne
  <1>3. \A k \in 0..MaxRoutes : d.acct[k].on = c.acct[k].on
    BY <1>2
  <1> QED  BY <1>1, <1>2, <1>3 DEF Records

LEMMA AccountType ==
    ASSUME NEW c \in Calls, NEW i \in 0..MaxRoutes
    PROVE  c.acct[i] \in Accounts
  BY DEF Calls

LEMMA Discs ==
    ASSUME NEW c \in Calls, NEW i \in 0..MaxRoutes, NEW u
    PROVE  LET d == Disc(c, i, u)
           IN  /\ Records(c, d, i)
               /\ Account(c.acct[i], u \in c.connect_ts, FALSE) =>
                    Account(d.acct[i], u \in c.connect_ts, TRUE)
  <1>1. PICK d : d = Disc(c, i, u)
    OBVIOUS
  <1>2. PICK b \in Accounts : b = c.acct[i]
    BY AccountType
  <1>3. CASE b.drec \/ ~b.on
    <2>1. d = c
      BY <1>1, <1>2, <1>3 DEF Disc
    <2>2. Account(b, u \in c.connect_ts, FALSE) => Account(b, u \in c.connect_ts, TRUE)
      BY <1>3 DEF Account, Accounts
    <2> QED  BY <1>1, <1>2, <2>1, <2>2, NoRecord
  <1>4. CASE ~b.drec /\ b.on
    <2>1. PICK e : e = [b EXCEPT !.drec = TRUE, !.alive = IF @ = "on" THEN "off" ELSE @]
      OBVIOUS
    <2>2. PICK a : a = asend(e, "Stop", u \in c.connect_ts)
      OBVIOUS
    <2>3. a = [e EXCEPT !.sent = @ \cup {"Stop"}, !.charged = @ \/ u \in c.connect_ts]
      BY <1>4, <2>1, <2>2 DEF asend, Accounts
    <2>4. a \in Accounts /\ a.on = b.on
      BY <2>1, <2>3 DEF Accounts
    <2>5. d = [c EXCEPT !.acct[i] = a]
      BY <1>1, <1>2, <1>4, <2>1, <2>2 DEF Disc, GetAcct
    <2>6. Records(c, d, i) /\ d.acct[i] = a
      BY <1>2, <2>4, <2>5, RecordsOne
    <2>7. ASSUME Account(b, u \in c.connect_ts, FALSE)
          PROVE  Account(a, u \in c.connect_ts, TRUE)
      BY <1>4, <2>1, <2>3, <2>7 DEF Account, Accounts
    <2> QED  BY <1>1, <1>2, <2>6, <2>7
  <1> QED  BY <1>3, <1>4 DEF Accounts

LEMMA Conns ==
    ASSUME NEW c \in Calls, NEW i \in 0..MaxRoutes
    PROVE  LET d == Conn(c, i)
           IN  /\ Records(c, d, i)
               /\ Account(c.acct[i], FALSE, FALSE) => Account(d.acct[i], TRUE, FALSE)
  <1>1. PICK d : d = Conn(c, i)
    OBVIOUS
  <1>2. PICK b \in Accounts : b = c.acct[i]
    BY AccountType
  <1>3. CASE b.crec \/ ~b.on
    <2>1. d = c
      BY <1>1, <1>2, <1>3 DEF Conn
    <2>2. Account(b, FALSE, FALSE) => Account(b, TRUE, FALSE)
      BY <1>3 DEF Account, Accounts
    <2> QED  BY <1>1, <1>2, <2>1, <2>2, NoRecord
  <1>4. CASE ~b.crec /\ b.on
    <2>1. PICK e : e = [b EXCEPT !.crec = TRUE, !.alive = "on"]
      OBVIOUS
    <2>2. PICK a : a = asend(e, "Start", FALSE)
      OBVIOUS
    <2>3. a = [e EXCEPT !.sent = @ \cup {"Start"}, !.charged = @ \/ FALSE]
      BY <1>4, <2>1, <2>2 DEF asend, Accounts
    <2>4. a \in Accounts /\ a.on = b.on
      BY <2>1, <2>3 DEF Accounts
    <2>5. d = [c EXCEPT !.acct[i] = a]
      BY <1>1, <1>2, <1>4, <2>1, <2>2 DEF Conn
    <2>6. Records(c, d, i) /\ d.acct[i] = a
      BY <1>2, <2>4, <2>5, RecordsOne
    <2>7. ASSUME Account(b, FALSE, FALSE)
          PROVE  Account(a, TRUE, FALSE)
      BY <1>4, <2>1, <2>3, <2>7 DEF Account, Accounts
    <2> QED  BY <1>1, <1>2, <2>6, <2>7
  <1> QED  BY <1>3, <1>4 DEF Accounts

-----------------------------------------------------------------------------
(* Indices, and the legs that have ended. *)

LEMMA LegIndex ==
    ASSUME NEW c, c \in Calls, Routes(c)
    PROVE  /\ DOMAIN c.legs = 1..Len(c.legs) /\ Len(c.legs) \in Nat /\ Len(c.legs) <= MaxRoutes
           /\ DOMAIN c.legs \subseteq 1..MaxRoutes
           /\ \A i \in DOMAIN c.legs : c.legs[i] \in Legs
           /\ c.legs = <<>> <=> Len(c.legs) = 0
           /\ 0 \in 0..MaxRoutes /\ MaxRoutes \in Nat
           /\ c.acctO \in 0..MaxRoutes
  BY RadiusCallAssumption DEF RadiusCallAssumption, Routes, Calls

\* No attempt that is over comes back, nor does the incoming leg.
Ages(c, d) ==
    /\ DOMAIN d.legs = DOMAIN c.legs
    /\ c.A \in Gone => d.A \in Gone
    /\ d.A = "dead" => c.A = "dead"
    /\ \A i \in DOMAIN c.legs : c.legs[i].st \in Gone => d.legs[i].st = c.legs[i].st

LEMMA QueueSame ==
    ASSUME NEW c \in Calls, NEW d \in Calls, Queue(c), Ages(c, d), d.ending = c.ending
    PROVE  Queue(d) /\ \A i \in DOMAIN c.legs : Buried(c, i) => Buried(d, i)
  <1>1. Queue(d)
    BY DEF Queue, Ages, Gone
  <1>2. \A i \in DOMAIN c.legs : Buried(c, i) => Buried(d, i)
    BY DEF Buried, Before, Ages, Gone
  <1> QED  BY <1>1, <1>2

LEMMA QueueAppend ==
    ASSUME NEW c \in Calls, NEW d \in Calls, Queue(c), Ages(c, d),
           NEW x \in 0..MaxRoutes, d.ending = Append(c.ending, x),
           IF x = 0 THEN c.A \notin Gone /\ d.A \in Gone
           ELSE x \in DOMAIN c.legs /\ c.legs[x].st \notin Gone /\ d.legs[x].st = "over"
    PROVE  /\ Queue(d) /\ \A i \in DOMAIN c.legs : Buried(c, i) => Buried(d, i)
           /\ x # 0 /\ c.A \notin Gone /\ d.A \notin Gone => Buried(d, x)
  <1>1. PICK n \in Nat : n = Len(c.ending) /\ DOMAIN c.ending = 1..n
    BY LenProperties DEF Calls
  <1>2. /\ DOMAIN d.ending = 1..(n + 1) /\ d.ending[n + 1] = x
        /\ \A k \in 1..n : d.ending[k] = c.ending[k]
        /\ \A k \in 1..(n + 1) : k = n + 1 \/ k \in 1..n
        /\ \A k \in 1..n : k \in 1..(n + 1) /\ k < n + 1
    <2>1. c.ending \in Seq(0..MaxRoutes)
      BY DEF Calls
    <2> QED  BY <1>1, <2>1, AppendProperties
  <1>3. \A k \in 1..n : c.ending[k] # x
    BY <1>1 DEF Queue, Gone
  <1>4. Queue(d)
    <2>1. ASSUME NEW k \in 1..(n + 1)
          PROVE  /\ d.ending[k] = 0 => d.A \in Gone
                 /\ d.ending[k] # 0 => /\ d.ending[k] \in DOMAIN d.legs
                                       /\ d.legs[d.ending[k]].st = "over"
      <3>1. CASE k = n + 1
        BY <1>2, <3>1 DEF Ages
      <3>2. CASE k \in 1..n
        BY <1>1, <1>2, <3>2 DEF Queue, Ages, Gone
      <3> QED  BY <1>2, <3>1, <3>2
    <2>2. ASSUME NEW j \in 1..(n + 1), NEW k \in 1..(n + 1), j < k
          PROVE  d.ending[j] # d.ending[k]
      <3>1. j \in 1..n
        BY <1>1, <2>2
      <3>2. CASE k = n + 1
        BY <1>2, <1>3, <3>1, <3>2
      <3>3. CASE k \in 1..n
        BY <1>1, <1>2, <2>2, <3>1, <3>3 DEF Queue
      <3> QED  BY <1>2, <3>2, <3>3
    <2> QED  BY <1>2, <2>1, <2>2 DEF Queue
  <1>5. ASSUME NEW i \in DOMAIN c.legs, Buried(c, i) PROVE Buried(d, i)
    <2>1. CASE c.legs[i].st = "dead"
      BY <2>1 DEF Buried, Ages, Gone
    <2>2. CASE c.legs[i].st = "over" /\ c.A # "dead" /\ Before(c, i)
      <3>1. PICK k \in 1..n : /\ c.ending[k] = i
                              /\ \A m \in 1..n : m < k => c.ending[m] # 0
        BY <1>1, <2>2 DEF Before
      <3>2. k \in 1..(n + 1) /\ d.ending[k] = i
        BY <1>2, <3>1
      <3>3. \A m \in 1..(n + 1) : m < k => m \in 1..n
        BY <1>2
      <3>4. \A m \in 1..(n + 1) : m < k => d.ending[m] # 0
        BY <1>2, <3>1, <3>3
      <3>5. Before(d, i)
        BY <1>2, <3>2, <3>4 DEF Before
      <3> QED  BY <2>2, <3>5 DEF Buried, Ages, Gone
    <2> QED  BY <1>5, <2>1, <2>2 DEF Buried
  <1>6. ASSUME x # 0, c.A \notin Gone, d.A \notin Gone PROVE Buried(d, x)
    <2>1. \A m \in 1..n : c.ending[m] # 0
      BY <1>1, <1>6 DEF Queue
    <2>2. \A m \in 1..(n + 1) : m < n + 1 => d.ending[m] # 0
      BY <1>2, <2>1
    <2>3. n + 1 \in 1..(n + 1)
      BY <1>1
    <2>4. Before(d, x)
      BY <1>2, <2>2, <2>3 DEF Before
    <2> QED  BY <1>6, <2>4 DEF Buried, Gone
  <1> QED  BY <1>4, <1>5, <1>6

\* The first leg of ending leaves it: the incoming one, or attempt i.
LEMMA QueueTail ==
    ASSUME NEW c \in Calls, NEW d \in Calls, Queue(c), c.ending # <<>>,
           d.ending = Tail(c.ending), DOMAIN d.legs = DOMAIN c.legs,
           c.A \in Gone => d.A \in Gone,
           \A i \in DOMAIN c.legs : d.legs[i].st = c.legs[i].st \/ i = Head(c.ending),
           d.A = "dead" => c.A = "dead" \/ Head(c.ending) = 0
    PROVE  /\ Queue(d)
           /\ \A i \in DOMAIN c.legs :
                Buried(c, i) /\ (i = Head(c.ending) => d.legs[i].st = "dead") => Buried(d, i)
           /\ Head(c.ending) \in 0..MaxRoutes
           /\ Head(c.ending) = 0 => c.A \in Gone
           /\ Head(c.ending) # 0 =>
                Head(c.ending) \in DOMAIN c.legs /\ c.legs[Head(c.ending)].st = "over"
  <1>1. PICK q \in Seq(0..MaxRoutes) : q = c.ending
    BY DEF Calls
  <1>2. PICK n \in Nat : n = Len(q) /\ DOMAIN q = 1..n /\ n > 0
    BY <1>1, LenProperties, EmptySeq
  <1>3. PICK t : t = Tail(q)
    OBVIOUS
  <1>4. DOMAIN t = 1..(n - 1) /\ \A k \in 1..(n - 1) : t[k] = q[k + 1]
    BY <1>1, <1>2, <1>3, HeadTailProperties, LenProperties
  <1>5. /\ Head(q) = q[1] /\ 1 \in 1..n /\ q[1] \in 0..MaxRoutes
        /\ \A k \in 1..(n - 1) : k + 1 \in 1..n /\ 1 < k + 1
    <2>1. Head(q) = q[1] /\ 1 \in 1..n /\ \A k \in 1..(n - 1) : k + 1 \in 1..n /\ 1 < k + 1
      BY <1>2
    <2>2. \A k \in 1..n : q[k] \in 0..MaxRoutes
      BY <1>2, ElementOfSeq
    <2> QED  BY <2>1, <2>2
  <1>6. d.ending = t /\ c.ending = q
    BY <1>1, <1>3
  <1>7. \A k \in 1..(n - 1) : t[k] # q[1]
    BY <1>2, <1>4, <1>5, <1>6 DEF Queue
  <1>8. Queue(d)
    <2>1. ASSUME NEW k \in 1..(n - 1)
          PROVE  /\ t[k] = 0 => d.A \in Gone
                 /\ t[k] # 0 => t[k] \in DOMAIN d.legs /\ d.legs[t[k]].st = "over"
      <3>1. t[k] = q[k + 1] /\ k + 1 \in 1..n /\ t[k] # Head(q)
        BY <1>4, <1>5, <1>7
      <3> QED  BY <1>2, <1>6, <3>1 DEF Queue
    <2>2. ASSUME NEW j \in 1..(n - 1), NEW k \in 1..(n - 1), j < k PROVE t[j] # t[k]
      <3>1. j + 1 \in 1..n /\ k + 1 \in 1..n /\ j + 1 < k + 1
        BY <1>2, <2>2
      <3> QED  BY <1>2, <1>4, <1>6, <3>1 DEF Queue
    <2> QED  BY <1>4, <1>6, <2>1, <2>2 DEF Queue
  <1>9. ASSUME NEW i \in DOMAIN c.legs, Buried(c, i), i = Head(c.ending) => d.legs[i].st = "dead"
        PROVE  Buried(d, i)
    <2>1. CASE d.legs[i].st = "dead"
      BY <2>1 DEF Buried
    <2>2. CASE d.legs[i].st # "dead"
      <3>1. i # Head(q) /\ d.legs[i].st = c.legs[i].st
        BY <1>6, <1>9, <2>2
      <3>2. PICK k \in 1..n : /\ q[k] = i
                              /\ \A m \in 1..n : m < k => q[m] # 0
        BY <1>2, <1>6, <1>9, <2>2, <3>1 DEF Buried, Before
      <3>3. k # 1
        BY <1>5, <3>1, <3>2
      <3>4. k - 1 \in 1..(n - 1) /\ (k - 1) + 1 = k /\ 1 < k
        BY <1>2, <3>3
      <3>5. t[k - 1] = i
        BY <1>4, <3>2, <3>4
      <3>6. ASSUME NEW m \in 1..(n - 1), m < k - 1 PROVE t[m] # 0
        <4>1. m + 1 \in 1..n /\ m + 1 < k
          BY <1>2, <3>6
        <4> QED  BY <1>4, <3>2, <4>1
      <3>7. Before(d, i)
        BY <1>4, <1>6, <3>4, <3>5, <3>6 DEF Before
      <3>8. q[1] # 0
        BY <1>5, <3>2, <3>4
      <3> QED  BY <1>5, <1>6, <1>9, <2>2, <3>1, <3>7, <3>8 DEF Buried
    <2> QED  BY <2>1, <2>2
  <1>10. /\ Head(q) = 0 => c.A \in Gone
         /\ Head(q) # 0 => Head(q) \in DOMAIN c.legs /\ c.legs[Head(q)].st = "over"
    BY <1>2, <1>5, <1>6 DEF Queue
  <1> QED  BY <1>5, <1>6, <1>8, <1>9, <1>10

-----------------------------------------------------------------------------
(* What a handler that has stopped relies on is kept when legs end. *)

Kept(c, d) ==
    /\ d \in Calls /\ d.stray = c.stray /\ d.routes = c.routes /\ d.acctO = c.acctO
    /\ Len(d.legs) = Len(c.legs) /\ DOMAIN d.legs = DOMAIN c.legs
    /\ c.A # "none" => d.A # "none"
    /\ c.auth \notin {"queued", "taken"} => d.auth \notin {"queued", "taken"}
    /\ \A k \in 0..MaxRoutes : d.acct[k].on = c.acct[k].on
    /\ \A i \in DOMAIN c.legs : /\ d.legs[i].rnum = c.legs[i].rnum
                                /\ d.legs[i].bill = c.legs[i].bill
                                /\ d.legs[i].st \in {c.legs[i].st} \cup Ended
                                /\ Buried(c, i) => Buried(d, i)
    /\ d.state = "ARComplete" => c.state = "ARComplete"

LEMMA KeptSelf ==
    ASSUME NEW c \in Calls
    PROVE  Kept(c, c)
  BY DEF Kept

LEMMA EmptyLegs ==
    ASSUME NEW c \in Calls
    PROVE  /\ c.legs = <<>> <=> Len(c.legs) = 0
           /\ Len(c.legs) \in Nat /\ DOMAIN c.legs = 1..Len(c.legs)
           /\ c.legs # <<>> => Len(c.legs) \in DOMAIN c.legs
  <1>1. c.legs \in Seq(Legs)
    BY DEF Calls
  <1> QED  BY <1>1

LEMMA KeptTwice ==
    ASSUME NEW c, NEW d, NEW e, Kept(c, d), Kept(d, e)
    PROVE  Kept(c, e)
  BY DEF Kept, Ended

LEMMA StopsKept ==
    ASSUME NEW c \in Calls, Routes(c), NEW d, Kept(c, d), NEW h, Stopped(c, h)
    PROVE  Stopped(d, h)
  <1>1. /\ DOMAIN c.legs = 1..Len(c.legs) /\ Len(c.legs) \in Nat /\ Len(c.legs) <= MaxRoutes
        /\ (c.legs = <<>> <=> Len(c.legs) = 0) /\ 0 \in 0..MaxRoutes /\ MaxRoutes \in Nat
        /\ (c.legs # <<>> => Len(c.legs) \in DOMAIN c.legs)
    BY LegIndex, EmptyLegs
  <1>2. (d.legs = <<>> <=> c.legs = <<>>) /\ d.acct[0].on = c.acct[0].on
    <2>1. d \in Calls
      BY DEF Kept
    <2> QED  BY <1>1, <2>1, EmptyLegs DEF Kept
  <1>3. Unbegun(c) => Unbegun(d)
    BY <1>2 DEF Unbegun, Kept
  <1>4. MayPlace(c, h.rnum) => MayPlace(d, h.rnum)
    BY <1>2 DEF MayPlace, Kept
  <1>5. PICK i : i = Len(c.legs)
    OBVIOUS
  <1>6. CASE c.legs = <<>>
    BY <1>2, <1>3, <1>4, <1>6 DEF Stopped, Kept
  <1>7. CASE c.legs # <<>>
    <2>1. /\ i \in DOMAIN c.legs /\ i \in 0..MaxRoutes /\ Len(d.legs) = i
          /\ d.legs[i].bill = c.legs[i].bill /\ d.legs[i].st \in {c.legs[i].st} \cup Ended
          /\ d.acctO = c.acctO /\ d.acct[i].on = c.acct[i].on
      BY <1>1, <1>5, <1>7 DEF Kept
    <2>2. Unset(c, i) => Unset(d, i)
      BY <2>1 DEF Unset
    <2>3. Unsent(c, i) => Unsent(d, i)
      BY <2>1 DEF Unsent, Ended
    <2> QED  BY <1>2, <1>3, <1>4, <1>5, <1>7, <2>1, <2>2, <2>3 DEF Stopped, Kept
  <1> QED  BY <1>6, <1>7

-----------------------------------------------------------------------------
(* The incoming leg ends. *)

\* Everything about the attempts is as it was.
SameLegs(c, d) ==
    /\ d.legs = c.legs /\ d.connect_ts = c.connect_ts /\ d.acctO = c.acctO
    /\ d.routes = c.routes /\ d.stray = c.stray /\ d.proxied = c.proxied
    /\ \A u \in d.owed : u # 0 => u \in c.owed
    /\ \A k \in 1..MaxRoutes : d.acct[k] = c.acct[k]

LEMMA LegsKept ==
    ASSUME NEW c \in Calls, NEW d \in Calls, SameLegs(c, d), Routes(c), Attempts(c), InTurn(c)
    PROVE  Routes(d) /\ Attempts(d) /\ InTurn(d)
  <1>1. Routes(d)
    BY DEF Routes, SameLegs
  <1>2. Attempts(d)
    BY DEF Attempts, SameLegs
  <1>3. DOMAIN c.legs \subseteq 1..MaxRoutes
    BY LegIndex
  <1>4. InTurn(d)
    BY <1>3 DEF InTurn, Billed, SameLegs
  <1> QED  BY <1>1, <1>2, <1>4

LEMMA EndsA ==
    ASSUME NEW c, Base(c)
    PROVE  LET d == EndA(c)
           IN  /\ Base(d) /\ d.A \in Gone
               /\ SameLegs(c, d) /\ Kept(c, d) /\ d.owed = c.owed /\ d.late = c.late
               /\ c.A \in Gone => d = c
               /\ c.A \notin Gone =>
                    d.A = "over" /\ d.state = IF c.legs = <<>> THEN "Dead" ELSE "Disconnecting"
  <1>1. PICK d : d = EndA(c)
    OBVIOUS
  <1>0. c \in Calls /\ Routes(c) /\ Attempts(c) /\ InTurn(c) /\ Queue(c) /\ InOrder(c) /\ Incoming(c)
        /\ 0 \in 0..MaxRoutes
    BY LegIndex DEF Base
  <1>2. CASE c.A \in Gone
    BY <1>0, <1>1, <1>2, KeptSelf DEF EndA, SameLegs
  <1>3. CASE c.A \notin Gone
    <2>1. PICK c0 : c0 = [c EXCEPT !.A = "over", !.ending = Append(@, 0)]
      OBVIOUS
    <2>2. /\ c0 \in Calls /\ c0.A = "over" /\ c0.ending = Append(c.ending, 0)
          /\ c0.state = c.state /\ c0.rtp = c.rtp /\ c0.auth = c.auth /\ c0.acctA = c.acctA
          /\ c0.acct = c.acct /\ c0.legs = c.legs /\ c0.connect_ts = c.connect_ts
          /\ c0.acctO = c.acctO /\ c0.routes = c.routes /\ c0.stray = c.stray
          /\ c0.proxied = c.proxied /\ c0.owed = c.owed /\ c0.late = c.late
          /\ c0.cancelled = c.cancelled
      <3>1. c.ending \in Seq(0..MaxRoutes)
        BY <1>0 DEF Calls
      <3>2. Append(c.ending, 0) \in Seq(0..MaxRoutes)
        BY <1>0, <3>1
      <3> QED  BY <1>0, <2>1, <3>2 DEF Calls, AStates
    <2> DEFINE k1 == c0.cancelled \/ (c0.state = "WaitRoute" /\ c0.auth # "none")
               s1 == IF c0.legs # <<>> /\ c0.state # "Dead" THEN "Disconnecting" ELSE "Dead"
               r1 == IF c0.rtp = "open" THEN "deleted" ELSE c0.rtp
    <2>3. PICK c1 : c1 = [c0 EXCEPT !.cancelled = k1, !.state = s1, !.rtp = r1]
      OBVIOUS
    <2>4. /\ c1 \in Calls /\ c1.A = "over" /\ c1.ending = Append(c.ending, 0)
          /\ c1.state = IF c.legs # <<>> /\ c.state # "Dead" THEN "Disconnecting" ELSE "Dead"
          /\ c1.rtp # "open" /\ c1.auth = c.auth /\ c1.acctA = c.acctA
          /\ c1.acct = c.acct /\ c1.legs = c.legs /\ c1.connect_ts = c.connect_ts
          /\ c1.acctO = c.acctO /\ c1.routes = c.routes /\ c1.stray = c.stray
          /\ c1.proxied = c.proxied /\ c1.owed = c.owed /\ c1.late = c.late
      <3>1. k1 \in BOOLEAN /\ s1 \in {"Disconnecting", "Dead"} /\ r1 \in {"none", "deleted"}
        BY <2>2 DEF Calls
      <3>2. s1 = IF c.legs # <<>> /\ c.state # "Dead" THEN "Disconnecting" ELSE "Dead"
        BY <2>2
      <3> HIDE DEF k1, s1, r1
      <3>3. /\ c1 \in Calls /\ c1.A = c0.A /\ c1.ending = c0.ending /\ c1.state = s1 /\ c1.rtp = r1
            /\ c1.auth = c0.auth /\ c1.acctA = c0.acctA
            /\ c1.acct = c0.acct /\ c1.legs = c0.legs /\ c1.connect_ts = c0.connect_ts
            /\ c1.acctO = c0.acctO /\ c1.routes = c0.routes /\ c1.stray = c0.stray
            /\ c1.proxied = c0.proxied /\ c1.owed = c0.owed /\ c1.late = c0.late
        BY <2>2, <2>3, <3>1 DEF Calls
      <3> QED  BY <2>2, <3>1, <3>2, <3>3
    <2>5. d = IF c1.acctA THEN Disc(c1, 0, 0) ELSE c1
      BY <1>1, <1>3, <2>1, <2>3, <2>2, <2>4 DEF EndA, aDisc
    <2>6. Account(c.acct[0], 0 \in c.connect_ts, FALSE)
      BY <1>0, <1>3 DEF Incoming, Account
    <2>7. Records(c1, d, 0) /\ Account(d.acct[0], 0 \in c.connect_ts, TRUE)
      <3>1. CASE c1.acctA
        <4>1. d = Disc(c1, 0, 0)
          BY <2>5, <3>1
        <4>2. c1.acct[0] = c.acct[0] /\ c1.connect_ts = c.connect_ts /\ c1 \in Calls
          BY <2>4
        <4>3. Account(d.acct[0], 0 \in c1.connect_ts, TRUE) /\ Records(c1, d, 0)
          BY <1>0, <2>6, <4>1, <4>2, Discs
        <4> QED  BY <4>2, <4>3
      <3>2. CASE ~c1.acctA
        <4>1. d = c1 /\ ~c.acct[0].on
          BY <1>0, <1>3, <2>4, <2>5, <3>2 DEF Incoming
        <4> QED  BY <2>4, <2>6, <4>1, NoRecord DEF Account
      <3> QED  BY <3>1, <3>2
    <2>8. c.state # "Dead"
      BY <1>0, <1>3 DEF Incoming
    <2>9. /\ d \in Calls /\ d.A = "over" /\ d.ending = Append(c.ending, 0)
          /\ d.state = IF c.legs # <<>> THEN "Disconnecting" ELSE "Dead"
          /\ d.rtp # "open" /\ d.auth = c.auth /\ d.owed = c.owed /\ d.late = c.late
          /\ \A k \in 0..MaxRoutes : d.acct[k].on = c.acct[k].on
          /\ SameLegs(c, d)
      BY <2>4, <2>7, <2>8, RadiusCallAssumption DEF Records, Same, SameLegs, RadiusCallAssumption
    <2>10. Routes(d) /\ Attempts(d) /\ InTurn(d)
      BY <1>0, <2>9, LegsKept
    <2>11. Queue(d) /\ \A i \in DOMAIN c.legs : Buried(c, i) => Buried(d, i)
      <3>1. Ages(c, d)
        BY <1>3, <2>9 DEF Ages, SameLegs, Gone
      <3>2. d.A \in Gone
        BY <2>9 DEF Gone
      <3> QED  BY <1>0, <1>3, <2>9, <3>1, <3>2, QueueAppend
    <2>12. InOrder(d)
      BY <1>0, <2>9, <2>11 DEF InOrder, SameLegs
    <2>13. Incoming(d)
      <3>1. Account(d.acct[0], 0 \in d.connect_ts, d.A \in Gone) /\ d.acct[0].on = c.acct[0].on
        BY <1>0, <2>7, <2>9 DEF Account, SameLegs, Gone
      <3>2. d.A \in Gone /\ d.A \notin {"ringing", "connected", "none"} /\ d.A = "over"
        BY <2>9 DEF Gone
      <3> QED  BY <1>0, <2>9, <3>1, <3>2 DEF Incoming, SameLegs
    <2>14. Kept(c, d)
      BY <2>9, <2>11 DEF Kept, SameLegs
    <2> QED  BY <1>1, <1>3, <2>9, <2>10, <2>11, <2>12, <2>13, <2>14 DEF Base, Gone
  <1> QED  BY <1>2, <1>3

LEMMA FailsA ==
    ASSUME NEW c, Base(c)
    PROVE  LET d == FailA(c)
           IN  /\ Base(d) /\ d.A \in Gone /\ d.state = "Dead"
               /\ SameLegs(c, d) /\ Kept(c, d) /\ d.owed = c.owed /\ d.late = c.late
  <1>1. PICK e : e = EndA(c)
    OBVIOUS
  <1>2. Base(e) /\ e.A \in Gone /\ SameLegs(c, e) /\ Kept(c, e) /\ e.owed = c.owed /\ e.late = c.late
    BY <1>1, EndsA
  <1>3. PICK d : d = [e EXCEPT !.state = "Dead"]
    OBVIOUS
  <1>4. d = FailA(c)
    BY <1>1, <1>3 DEF FailA
  <1>5. /\ d \in Calls /\ d.state = "Dead" /\ d.A = e.A /\ d.legs = e.legs
        /\ d.connect_ts = e.connect_ts /\ d.acctA = e.acctA /\ d.acctO = e.acctO
        /\ d.routes = e.routes /\ d.auth = e.auth /\ d.rtp = e.rtp /\ d.ending = e.ending
        /\ d.stray = e.stray /\ d.acct = e.acct
        /\ d.proxied = e.proxied /\ d.owed = e.owed /\ d.late = e.late
    BY <1>2, <1>3 DEF Base, Calls
  <1>6. SameLegs(e, d) /\ SameLegs(c, d)
    BY <1>2, <1>5 DEF SameLegs
  <1>7. Routes(d) /\ Attempts(d) /\ InTurn(d)
    BY <1>2, <1>5, <1>6, LegsKept DEF Base
  <1>8. Incoming(d)
    BY <1>2, <1>5 DEF Base, Incoming
  <1>9. Queue(d) /\ InOrder(d) /\ \A i \in DOMAIN e.legs : Buried(e, i) => Buried(d, i)
    <2>1. e \in Calls /\ Queue(e) /\ InOrder(e) /\ Ages(e, d)
      BY <1>2, <1>5 DEF Base, Ages
    <2>2. Queue(d) /\ \A i \in DOMAIN e.legs : Buried(e, i) => Buried(d, i)
      BY <1>5, <2>1, QueueSame
    <2> QED  BY <1>5, <2>1, <2>2 DEF InOrder
  <1>10. Kept(c, d)
    <2>1. Kept(e, d)
      BY <1>5, <1>9 DEF Kept
    <2> QED  BY <1>2, <2>1, KeptTwice
  <1> QED  BY <1>2, <1>4, <1>5, <1>6, <1>7, <1>8, <1>9, <1>10 DEF Base

-----------------------------------------------------------------------------
(* An attempt ends. *)

\* Of the call only the state of attempt i and the records of attempts differ.
OnlyLeg(c, d, i) ==
    /\ d \in Calls
    /\ d.A = c.A /\ d.state = c.state /\ d.stray = c.stray /\ d.routes = c.routes
    /\ d.acctA = c.acctA /\ d.acctO = c.acctO /\ d.connect_ts = c.connect_ts
    /\ d.rtp = c.rtp /\ d.auth = c.auth /\ d.acct[0] = c.acct[0]
    /\ d.proxied = c.proxied /\ d.owed = c.owed /\ d.late = c.late
    /\ \A k \in 0..MaxRoutes : d.acct[k].on = c.acct[k].on
    /\ Len(d.legs) = Len(c.legs) /\ DOMAIN d.legs = DOMAIN c.legs
    /\ \A j \in DOMAIN c.legs : j # i => d.legs[j] = c.legs[j]
    /\ d.legs[i].rnum = c.legs[i].rnum /\ d.legs[i].bill = c.legs[i].bill
    /\ d.legs[i].wait = c.legs[i].wait

LEMMA SetLeg ==
    ASSUME NEW c \in Calls, NEW i \in DOMAIN c.legs, NEW x \in OStates,
           NEW d, d = [c EXCEPT !.legs[i].st = x]
    PROVE  OnlyLeg(c, d, i) /\ d.legs[i].st = x /\ d.ending = c.ending /\ d.acct = c.acct
  <1>1. c.legs \in Seq(Legs) /\ c.legs[i] \in Legs
    BY DEF Calls
  <1>0. PICK r : r = [c.legs[i] EXCEPT !.st = x]
    OBVIOUS
  <1>2. PICK l : l = [c.legs EXCEPT ![i] = r]
    OBVIOUS
  <1>3. /\ l \in Seq(Legs) /\ Len(l) = Len(c.legs) /\ DOMAIN l = DOMAIN c.legs
        /\ \A j \in DOMAIN c.legs : j # i => l[j] = c.legs[j]
        /\ l[i].st = x /\ l[i].rnum = c.legs[i].rnum /\ l[i].bill = c.legs[i].bill
        /\ l[i].wait = c.legs[i].wait
    <2>1. /\ r \in Legs /\ r.st = x /\ r.rnum = c.legs[i].rnum /\ r.bill = c.legs[i].bill
          /\ r.wait = c.legs[i].wait
      BY <1>0, <1>1 DEF Legs
    <2> QED  BY <1>1, <1>2, <2>1, ExceptSeq
  <1>5. d = [c EXCEPT !.legs = l]
    BY <1>0, <1>2
  <1>6. /\ d \in Calls /\ d.legs = l /\ d.ending = c.ending /\ d.acct = c.acct
        /\ d.A = c.A /\ d.state = c.state /\ d.stray = c.stray /\ d.routes = c.routes
        /\ d.acctA = c.acctA /\ d.acctO = c.acctO /\ d.connect_ts = c.connect_ts
        /\ d.rtp = c.rtp /\ d.auth = c.auth
        /\ d.proxied = c.proxied /\ d.owed = c.owed /\ d.late = c.late
    BY <1>3, <1>5 DEF Calls
  <1> QED  BY <1>3, <1>6 DEF OnlyLeg

LEMMA SetsOver ==
    ASSUME NEW c \in Calls, Routes(c), NEW i \in DOMAIN c.legs
    PROVE  LET d == OverO(c, i)
           IN  /\ OnlyLeg(c, d, i) /\ d.legs[i].st = "over"
               /\ d.ending = Append(c.ending, i) /\ d.acct = c.acct
  <1>1. PICK e : e = [c EXCEPT !.legs[i].st = "over"]
    OBVIOUS
  <1>0. "over" \in OStates
    BY DEF OStates
  <1>2. OnlyLeg(c, e, i) /\ e.legs[i].st = "over" /\ e.ending = c.ending /\ e.acct = c.acct
    BY <1>0, <1>1, SetLeg
  <1>3. PICK d : d = [e EXCEPT !.ending = Append(c.ending, i)]
    OBVIOUS
  <1>4. d = OverO(c, i)
    BY <1>1, <1>2, <1>3 DEF OverO
  <1>5. Append(c.ending, i) \in Seq(0..MaxRoutes)
    BY LegIndex DEF Calls
  <1>6. /\ d \in Calls /\ d.legs = e.legs /\ d.ending = Append(c.ending, i) /\ d.acct = e.acct
        /\ d.A = e.A /\ d.state = e.state /\ d.stray = e.stray /\ d.routes = e.routes
        /\ d.acctA = e.acctA /\ d.acctO = e.acctO /\ d.connect_ts = e.connect_ts
        /\ d.rtp = e.rtp /\ d.auth = e.auth
        /\ d.proxied = e.proxied /\ d.owed = e.owed /\ d.late = e.late
    BY <1>2, <1>3, <1>5 DEF Calls, OnlyLeg
  <1> QED  BY <1>2, <1>4, <1>6 DEF OnlyLeg

\* The routes and the incoming leg do not depend on it.
LEMMA LegApart ==
    ASSUME NEW c, Base(c), NEW d, NEW i \in DOMAIN c.legs, OnlyLeg(c, d, i)
    PROVE  Incoming(d) /\ Routes(d) /\ (d.legs = <<>> <=> c.legs = <<>>)
  <1>1. c \in Calls /\ d \in Calls /\ Incoming(c) /\ Routes(c)
    BY DEF Base, OnlyLeg
  <1>2. d.legs = <<>> <=> c.legs = <<>>
    BY <1>1, EmptyLegs DEF OnlyLeg
  <1>3. Incoming(d)
    BY <1>1, <1>2 DEF Incoming, OnlyLeg
  <1>4. Routes(d)
    <2>1. \A j \in DOMAIN c.legs : d.legs[j].rnum = c.legs[j].rnum
      BY DEF OnlyLeg
    <2> QED  BY <1>1, <2>1 DEF Routes, OnlyLeg
  <1> QED  BY <1>2, <1>3, <1>4

\* In turn, an attempt that has not ended is the last one.
LEMMA LastLeg ==
    ASSUME NEW c, Base(c), NEW i \in DOMAIN c.legs, c.legs[i].st \notin Gone
    PROVE  c.stray \/ i = Len(c.legs)
  <1>1. DOMAIN c.legs = 1..Len(c.legs) /\ Len(c.legs) \in Nat
    BY LegIndex DEF Base
  <1> QED  BY <1>1 DEF Base, InOrder, Buried, Gone

\* The callback of attempt i, whose state is e's.
LEMMA Disconnects ==
    ASSUME NEW c, Base(c), NEW i \in DOMAIN c.legs, c.legs[i].st \notin Ended,
           NEW e, OnlyLeg(c, e, i), e.acct = c.acct,
           \/ e.legs[i].st = "cancelling" /\ e.ending = c.ending
           \/ e.legs[i].st = "over" /\ e.ending = Append(c.ending, i)
    PROVE  LET d == oDisc(e, i)
           IN  /\ Base(d) /\ OnlyLeg(c, d, i) /\ d.legs = e.legs /\ Kept(c, d)
               /\ e.legs[i].st = "over" /\ c.A \notin Gone => Buried(d, i)
  <1>1. PICK d : d = oDisc(e, i)
    OBVIOUS
  <1>2. /\ c \in Calls /\ e \in Calls /\ Routes(c) /\ Attempts(c) /\ InTurn(c) /\ Queue(c)
        /\ InOrder(c) /\ e.legs[i].st \in Ended
    BY DEF Base, OnlyLeg, Ended
  <1>3. /\ DOMAIN c.legs = 1..Len(c.legs) /\ Len(c.legs) \in Nat /\ Len(c.legs) <= MaxRoutes
        /\ i \in 1..MaxRoutes /\ 0 \in 0..MaxRoutes /\ MaxRoutes \in Nat /\ c.acctO \in 0..MaxRoutes
        /\ c.legs[i] \in Legs
    BY <1>2, LegIndex
  <1>4. Records(e, d, c.acctO) /\ (c.acctO = 0 \/ ~c.legs[i].bill => d = e)
    <2>1. CASE e.legs[i].bill /\ e.acctO # 0
      <3>1. d = Disc(e, c.acctO, i) /\ c.acctO # 0 /\ c.legs[i].bill
        BY <1>1, <2>1 DEF oDisc, OnlyLeg
      <3> QED  BY <1>2, <1>3, <3>1, Discs
    <2>2. CASE ~(e.legs[i].bill /\ e.acctO # 0)
      <3>1. d = e
        BY <1>1, <2>2 DEF oDisc
      <3> QED  BY <1>2, <3>1, NoRecord
    <2> QED  BY <2>1, <2>2
  <1>5. /\ d \in Calls /\ d.legs = e.legs /\ d.ending = e.ending
        /\ \A k \in 0..MaxRoutes : k = 0 \/ k # c.acctO => d.acct[k] = c.acct[k]
        /\ \A k \in 0..MaxRoutes : d.acct[k].on = c.acct[k].on
    <2>1. \A k \in 0..MaxRoutes : k # c.acctO => d.acct[k] = c.acct[k]
      BY <1>3, <1>4 DEF Records
    <2>2. c.acctO = 0 => d.acct = c.acct
      BY <1>4
    <2> QED  BY <1>3, <1>4, <2>1, <2>2 DEF Records, Same
  <1>6. OnlyLeg(c, d, i)
    BY <1>2, <1>3, <1>4, <1>5 DEF Records, Same, OnlyLeg
  <1>7. c.stray \/ /\ Account(d.acct[i], c.legs[i].bill /\ i \in c.connect_ts, c.legs[i].bill)
                   /\ \A k \in 1..MaxRoutes : k # i => d.acct[k] = c.acct[k]
    <2> SUFFICES ASSUME ~c.stray
                 PROVE  /\ Account(d.acct[i], c.legs[i].bill /\ i \in c.connect_ts, c.legs[i].bill)
                        /\ \A k \in 1..MaxRoutes : k # i => d.acct[k] = c.acct[k]
      OBVIOUS
    <2>1. Billed(c, i)
      BY <1>2 DEF InTurn
    <2>2. CASE c.legs[i].bill
      <3>1. d = Disc(e, i, i) /\ c.acctO = i /\ e.acct[i] = c.acct[i]
            /\ e.connect_ts = c.connect_ts
        BY <1>1, <1>3, <2>1, <2>2 DEF oDisc, OnlyLeg, Billed
      <3>2. Account(e.acct[i], i \in e.connect_ts, FALSE)
        BY <2>1, <2>2, <3>1 DEF Billed, Account
      <3>3. Account(d.acct[i], i \in e.connect_ts, TRUE)
        BY <1>2, <1>3, <3>1, <3>2, Discs
      <3>4. Account(d.acct[i], c.legs[i].bill /\ i \in c.connect_ts, c.legs[i].bill)
        BY <2>2, <3>1, <3>3 DEF Account
      <3> QED  BY <1>3, <1>5, <3>1, <3>4
    <2>3. CASE ~c.legs[i].bill
      <3>1. d.acct = c.acct
        BY <1>4, <2>3
      <3>2. Account(c.acct[i], c.legs[i].bill /\ i \in c.connect_ts, c.legs[i].bill)
        BY <2>1, <2>3 DEF Account, Billed
      <3> QED  BY <3>1, <3>2
    <2> QED  BY <2>2, <2>3
  <1>8. Incoming(d) /\ Routes(d)
    BY <1>6, LegApart
  <1>9. /\ Queue(d) /\ \A j \in DOMAIN c.legs : Buried(c, j) => Buried(d, j)
        /\ e.legs[i].st = "over" /\ c.A \notin Gone => Buried(d, i)
    <2>1. Ages(c, d)
      BY <1>6 DEF Ages, OnlyLeg, Ended, Gone
    <2>2. CASE e.legs[i].st = "cancelling" /\ e.ending = c.ending
      BY <1>2, <1>5, <2>1, <2>2, QueueSame
    <2>3. CASE e.legs[i].st = "over" /\ e.ending = Append(c.ending, i)
      <3>1. /\ d.ending = Append(c.ending, i) /\ d.legs[i].st = "over" /\ i # 0
            /\ c.legs[i].st \notin Gone /\ i \in 0..MaxRoutes /\ d.A = c.A
        BY <1>3, <1>5, <1>6, <2>3 DEF Ended, Gone, OnlyLeg
      <3> QED  BY <1>2, <1>5, <2>1, <3>1, QueueAppend
    <2> QED  BY <2>2, <2>3
  <1>10. InOrder(d)
    BY <1>2, <1>6, <1>9 DEF InOrder, OnlyLeg
  <1>11. Attempts(d)
    <2>1. d.acctO <= Len(d.legs) /\ (d.proxied => d.legs # <<>>)
          /\ \A u \in d.owed : u # 0 => u \in DOMAIN d.legs
      <3>1. d.legs = <<>> <=> c.legs = <<>>
        BY <1>6, LegApart
      <3> QED  BY <1>2, <1>6, <3>1 DEF Attempts, OnlyLeg
    <2>2. \A k \in 1..MaxRoutes : k > Len(d.legs) => d.acct[k] = NoAccount /\ k \notin d.connect_ts
      <3>1. \A k \in 1..MaxRoutes : k > Len(c.legs) => k # c.acctO
        BY <1>2, <1>3 DEF Attempts
      <3> QED  BY <1>2, <1>3, <1>5, <1>6, <3>1 DEF Attempts, OnlyLeg
    <2>3. ASSUME NEW j \in DOMAIN d.legs
          PROVE  /\ d.legs[j].wait = "try" => d.legs[j].st \in {"idle"} \cup Ended
                 /\ d.legs[j].st = "none" => d.legs[j].wait = "no"
                 /\ j \in d.connect_ts => d.legs[j].st \in {"connected"} \cup Ended
      <3>1. CASE j = i
        BY <1>2, <1>5, <3>1 DEF Ended
      <3>2. CASE j # i
        BY <1>2, <1>6, <3>2 DEF Attempts, OnlyLeg
      <3> QED  BY <3>1, <3>2
    <2> QED  BY <2>1, <2>2, <2>3 DEF Attempts
  <1>12. InTurn(d)
    <2> SUFFICES ASSUME ~c.stray, NEW j \in DOMAIN c.legs PROVE Billed(d, j)
      BY <1>6 DEF InTurn, OnlyLeg
    <2>1. CASE j = i
      <3>1. d.legs[i].st \in Ended /\ d.legs[i].bill = c.legs[i].bill /\ d.connect_ts = c.connect_ts
        BY <1>2, <1>5, <1>6 DEF OnlyLeg
      <3>4. Account(d.acct[i], c.legs[i].bill /\ i \in c.connect_ts, c.legs[i].bill)
        BY <1>7, Zenon
      <3>5. PICK up : up = (c.legs[i].bill /\ i \in c.connect_ts)
        OBVIOUS
      <3>6. up = (d.legs[i].bill /\ i \in d.connect_ts)
        BY <3>1, <3>5
      <3>7. (d.acct[i].crec <=> d.acct[i].on /\ up)
            /\ (d.acct[i].drec <=> d.acct[i].on /\ c.legs[i].bill)
        BY <3>4, <3>5 DEF Account
      <3>2. Account(d.acct[i], d.legs[i].bill /\ i \in d.connect_ts,
                    d.legs[i].bill /\ d.legs[i].st \in Ended)
        BY <3>1, <3>4, <3>6, <3>7 DEF Account
      <3>3. d.legs[i].bill => d.acct[i].on
        BY <1>2, <1>3, <1>5, <1>6 DEF OnlyLeg, InTurn, Billed
      <3> QED  BY <1>2, <1>5, <2>1, <3>2, <3>3 DEF Billed, Ended, Active
    <2>2. CASE j # i
      <3>1. d.legs[j] = c.legs[j] /\ d.acctO = c.acctO /\ d.connect_ts = c.connect_ts
        BY <1>6, <2>2 DEF OnlyLeg
      <3>2. d.acct[j] = c.acct[j]
        <4>1. \A k \in 1..MaxRoutes : k # i => d.acct[k] = c.acct[k]
          BY <1>7, Zenon
        <4>2. j \in 1..MaxRoutes
          BY <1>3
        <4> QED  BY <2>2, <4>1, <4>2
      <3>3. Billed(c, j)
        BY <1>2 DEF InTurn
      <3> QED  BY <3>1, <3>2, <3>3 DEF Billed
    <2> QED  BY <2>1, <2>2
  <1>13. Kept(c, d)
    <2>1. \A j \in DOMAIN c.legs : /\ d.legs[j].rnum = c.legs[j].rnum
                                   /\ d.legs[j].bill = c.legs[j].bill
                                   /\ d.legs[j].st \in {c.legs[j].st} \cup Ended
      BY <1>2, <1>5, <1>6 DEF OnlyLeg
    <2> QED  BY <1>6, <1>9, <2>1 DEF Kept, OnlyLeg
  <1> QED  BY <1>1, <1>5, <1>6, <1>8, <1>9, <1>10, <1>11, <1>12, <1>13 DEF Base

LEMMA OversO ==
    ASSUME NEW c, Base(c), NEW i \in DOMAIN c.legs, c.legs[i].st \notin Ended
    PROVE  LET d == oDisc(OverO(c, i), i)
           IN  /\ Base(d) /\ OnlyLeg(c, d, i) /\ d.legs[i].st \in Ended /\ Kept(c, d)
               /\ c.A \notin Gone => Buried(d, i)
  <1>1. PICK e : e = OverO(c, i)
    OBVIOUS
  <1>2. /\ OnlyLeg(c, e, i) /\ e.legs[i].st = "over"
        /\ e.ending = Append(c.ending, i) /\ e.acct = c.acct
    BY <1>1, SetsOver DEF Base
  <1>4. PICK d : d = oDisc(e, i)
    OBVIOUS
  <1>5. e.legs[i].st \in Ended
    BY <1>2 DEF Ended
  <1>6. /\ Base(d) /\ OnlyLeg(c, d, i) /\ d.legs = e.legs /\ Kept(c, d)
        /\ c.A \notin Gone => Buried(d, i)
    BY <1>2, <1>4, Disconnects
  <1> QED  BY <1>1, <1>4, <1>5, <1>6

LEMMA HangsUpO ==
    ASSUME NEW c, Base(c), NEW i \in DOMAIN c.legs
    PROVE  LET d == HangupO(c, i)
           IN  Base(d) /\ OnlyLeg(c, d, i) /\ d.legs[i].st \in Ended /\ Kept(c, d)
  <1>1. PICK d : d = HangupO(c, i)
    OBVIOUS
  <1>2. c \in Calls /\ c.legs[i] \in Legs
    BY LegIndex DEF Base
  <1>3. CASE c.legs[i].st \in Early
    <2>1. PICK e : e = [c EXCEPT !.legs[i].st = "cancelling"]
      OBVIOUS
    <2>2. "cancelling" \in OStates /\ c.legs[i].st \notin Ended
      BY <1>3 DEF OStates, Early, Ended
    <2>3. /\ OnlyLeg(c, e, i) /\ e.legs[i].st = "cancelling" /\ e.ending = c.ending
          /\ e.acct = c.acct
      BY <1>2, <2>1, <2>2, SetLeg
    <2>4. d = oDisc(e, i)
      BY <1>1, <1>3, <2>1 DEF HangupO, Early
    <2>5. e.legs[i].st \in Ended
      BY <2>3 DEF Ended
    <2>6. Base(d) /\ OnlyLeg(c, d, i) /\ d.legs = e.legs /\ Kept(c, d)
      BY <2>2, <2>3, <2>4, Disconnects
    <2> QED  BY <1>1, <2>5, <2>6
  <1>4. CASE c.legs[i].st \in {"none", "idle", "connected"}
    <2>1. d = oDisc(OverO(c, i), i)
      BY <1>1, <1>4 DEF HangupO, Early
    <2>2. c.legs[i].st \notin Ended
      BY <1>4 DEF Ended
    <2> QED  BY <1>1, <2>1, <2>2, OversO
  <1>5. CASE c.legs[i].st \in Ended
    <2>1. d = c
      BY <1>1, <1>5 DEF HangupO, Early, Ended
    <2> QED  BY <1>1, <1>2, <1>5, <2>1, KeptSelf DEF OnlyLeg
  <1> QED  BY <1>2, <1>3, <1>4, <1>5 DEF Legs, OStates, Ended, Early


-----------------------------------------------------------------------------
(* The call between handlers, and the ends of its legs. *)

Quiet(c) == Base(c) /\ HungUp(c) /\ (c.state = "ARComplete" => c.legs # <<>>)

LEMMA Rests ==
    ASSUME NEW c, NEW h, CallInv(c, h), h.pc = "none"
    PROVE  Quiet(c) /\ h.leg = 0 /\ c \in Calls
  BY DEF CallInv, Stopped, Quiet, Base

LEMMA Finishes ==
    ASSUME NEW c, Quiet(c), NEW h, h.pc = "none", h.leg = 0
    PROVE  CallInv(c, h)
  BY DEF CallInv, Stopped, Quiet

\* What a step may do at any time, also while a handler has stopped.
Harmless(c, d) == Base(d) /\ HungUp(d) /\ Kept(c, d)

LEMMA KeepsOn ==
    ASSUME NEW c, NEW d, Harmless(c, d)
    PROVE  /\ \A h : CallInv(c, h) => CallInv(d, h)
           /\ Quiet(c) => Quiet(d)
  <1>1. ASSUME NEW h, CallInv(c, h) PROVE CallInv(d, h)
    BY <1>1, StopsKept DEF CallInv, Base, Harmless
  <1>2. ASSUME Quiet(c) PROVE Quiet(d)
    <2>1. c \in Calls /\ d \in Calls /\ Len(d.legs) = Len(c.legs)
      BY <1>2 DEF Quiet, Base, Harmless, Kept
    <2> QED  BY <1>2, <2>1, EmptyLegs DEF Quiet, Harmless, Kept
  <1> QED  BY <1>1, <1>2

LEMMA StaysHungUp ==
    ASSUME NEW c, HungUp(c), NEW d, d.A \in Gone => c.A \in Gone,
           DOMAIN d.legs = DOMAIN c.legs,
           "attempt" \in c.late => "attempt" \in d.late, 0 \in c.owed => 0 \in d.owed,
           c.state = "Disconnecting" => d.state = "Disconnecting", c.stray => d.stray,
           \A i \in DOMAIN c.legs : d.legs[i].st \in Active => c.legs[i].st \in Active
    PROVE  HungUp(d)
  BY DEF HungUp, Idle

LEMMA LastNotActive ==
    ASSUME NEW c, Base(c), NEW i \in DOMAIN c.legs, c.stray \/ i = Len(c.legs),
           c.legs[i].st \notin Active
    PROVE  Idle(c)
  <1>1. DOMAIN c.legs = 1..Len(c.legs) /\ Len(c.legs) \in Nat
    BY LegIndex DEF Base
  <1> QED  BY <1>1 DEF Base, InOrder, Buried, Idle, Active

LEMMA EndsIdle ==
    ASSUME NEW c, Base(c), Idle(c)
    PROVE  Harmless(c, EndA(c)) /\ Harmless(c, FailA(c))
  <1>1. PICK d : d = EndA(c)
    OBVIOUS
  <1>2. PICK e : e = FailA(c)
    OBVIOUS
  <1>3. Base(d) /\ SameLegs(c, d) /\ Kept(c, d)
    BY <1>1, EndsA
  <1>4. Base(e) /\ SameLegs(c, e) /\ Kept(c, e)
    BY <1>2, FailsA
  <1>5. HungUp(d) /\ HungUp(e)
    BY <1>3, <1>4 DEF HungUp, Idle, SameLegs
  <1> QED  BY <1>1, <1>2, <1>3, <1>4, <1>5 DEF Harmless

LEMMA HangsAny ==
    ASSUME NEW c, Base(c), HungUp(c), NEW i \in DOMAIN c.legs
    PROVE  Harmless(c, HangupO(c, i))
  <1>1. PICK d : d = HangupO(c, i)
    OBVIOUS
  <1>2. Base(d) /\ OnlyLeg(c, d, i) /\ d.legs[i].st \in Ended /\ Kept(c, d)
    BY <1>1, HangsUpO
  <1>3. HungUp(d)
    <2>1. \A j \in DOMAIN c.legs : d.legs[j].st \in Active => c.legs[j].st \in Active
      BY <1>2 DEF OnlyLeg, Ended, Active
    <2> QED  BY <1>2, <2>1, StaysHungUp DEF OnlyLeg
  <1> QED  BY <1>1, <1>2, <1>3 DEF Harmless

\* The attempt that may be going on is hung up.
LEMMA HangsLast ==
    ASSUME NEW c, Base(c), NEW i \in DOMAIN c.legs, c.stray \/ i = Len(c.legs)
    PROVE  LET d == HangupO(c, i)
           IN  Base(d) /\ Idle(d) /\ Kept(c, d) /\ Harmless(c, d)
  <1>1. PICK d : d = HangupO(c, i)
    OBVIOUS
  <1>2. Base(d) /\ OnlyLeg(c, d, i) /\ d.legs[i].st \in Ended /\ Kept(c, d)
    BY <1>1, HangsUpO
  <1>3. i \in DOMAIN d.legs /\ d.legs[i].st \notin Active /\ (d.stray \/ i = Len(d.legs))
    BY <1>2 DEF OnlyLeg, Ended, Active
  <1>4. Idle(d)
    BY <1>2, <1>3, LastNotActive
  <1> QED  BY <1>1, <1>2, <1>4 DEF Harmless, HungUp

LEMMA HangThenEnd ==
    ASSUME NEW c, Base(c), NEW i \in DOMAIN c.legs, c.stray \/ i = Len(c.legs)
    PROVE  Harmless(c, EndA(HangupO(c, i)))
  <1>1. PICK e : e = HangupO(c, i)
    OBVIOUS
  <1>2. Base(e) /\ Idle(e) /\ Kept(c, e)
    BY <1>1, HangsLast
  <1>3. Harmless(e, EndA(e))
    BY <1>2, EndsIdle
  <1> QED  BY <1>1, <1>2, <1>3, KeptTwice DEF Harmless

LEMMA EndThenHang ==
    ASSUME NEW c, Base(c), NEW i \in DOMAIN c.legs, c.stray \/ i = Len(c.legs)
    PROVE  Harmless(c, HangupO(EndA(c), i))
  <1>1. PICK e : e = EndA(c)
    OBVIOUS
  <1>2. Base(e) /\ SameLegs(c, e) /\ Kept(c, e)
    BY <1>1, EndsA
  <1>3. i \in DOMAIN e.legs /\ (e.stray \/ i = Len(e.legs))
    BY <1>2 DEF SameLegs
  <1>4. PICK d : d = HangupO(e, i)
    OBVIOUS
  <1>5. Harmless(e, d)
    BY <1>2, <1>3, <1>4, HangsLast
  <1> QED  BY <1>1, <1>2, <1>4, <1>5, KeptTwice DEF Harmless

\* The event of the incoming leg comes to the controller.
LEMMA Attempted ==
    ASSUME NEW c, Base(c),
           "attempt" \in c.late \/ c.state = "Disconnecting" \/ Idle(c)
    PROVE  Harmless(c, ToAttempt(c))
  <1>1. c \in Calls
    BY DEF Base
  <1>2. CASE c.state \in {"ARComplete", "Connected", "Disconnecting"} /\ c.legs # <<>>
    <2>1. PICK i : i = Len(c.legs)
      OBVIOUS
    <2>2. i \in DOMAIN c.legs
      BY <1>1, <1>2, <2>1, EmptyLegs
    <2>3. ToAttempt(c) = HangupO(c, i)
      BY <1>2, <2>1 DEF ToAttempt, Current
    <2> QED  BY <2>1, <2>2, <2>3, HangsLast
  <1>3. CASE ~(c.state \in {"ARComplete", "Connected", "Disconnecting"} /\ c.legs # <<>>)
    <2>1. ToAttempt(c) = c
      BY <1>3 DEF ToAttempt
    <2>2. c.legs = <<>> => Idle(c)
      BY <1>1, EmptyLegs DEF Idle
    <2>3. HungUp(c)
      BY <1>3, <2>2 DEF HungUp
    <2> QED  BY <1>1, <2>1, <2>3, KeptSelf DEF Harmless
  <1> QED  BY <1>2, <1>3

-----------------------------------------------------------------------------
(* Single fields of the call. *)

\* Fields the invariant hardly speaks of.
Alike(c, d) ==
    /\ d \in Calls
    /\ d.state = c.state /\ d.A = c.A /\ d.legs = c.legs /\ d.connect_ts = c.connect_ts
    /\ d.acct = c.acct /\ d.acctA = c.acctA /\ d.acctO = c.acctO /\ d.routes = c.routes
    /\ d.auth = c.auth /\ d.rtp = c.rtp /\ d.ending = c.ending
    /\ c.stray => d.stray
    /\ c.late \subseteq d.late
    /\ d.proxied => d.legs # <<>>
    /\ 0 \in d.owed => d.A = "over"
    /\ \A u \in d.owed : u # 0 => u \in DOMAIN d.legs

LEMMA AlikeCalls ==
    ASSUME NEW c, Base(c), NEW d, Alike(c, d)
    PROVE  /\ Base(d)
           /\ HungUp(c) /\ (0 \in c.owed => 0 \in d.owed) => HungUp(d)
           /\ d.stray = c.stray => Kept(c, d)
  <1>1. c \in Calls /\ d \in Calls /\ Incoming(c) /\ Routes(c) /\ Attempts(c) /\ Queue(c)
        /\ InOrder(c) /\ InTurn(c)
    BY DEF Base, Alike
  <1>2. Incoming(d)
    BY <1>1 DEF Incoming, Alike
  <1>3. Routes(d)
    BY <1>1 DEF Routes, Alike
  <1>4. Attempts(d)
    BY <1>1 DEF Attempts, Alike
  <1>5. Queue(d) /\ \A i \in DOMAIN c.legs : Buried(c, i) => Buried(d, i)
    BY <1>1, QueueSame DEF Ages, Alike
  <1>6. InOrder(d)
    BY <1>1, <1>5 DEF InOrder, Alike
  <1>7. InTurn(d)
    BY <1>1 DEF InTurn, Billed, Alike
  <1>8. HungUp(c) /\ (0 \in c.owed => 0 \in d.owed) => HungUp(d)
    BY StaysHungUp DEF Alike
  <1>9. d.stray = c.stray => Kept(c, d)
    BY <1>1, <1>5 DEF Kept, Alike
  <1> QED  BY <1>1, <1>2, <1>3, <1>4, <1>5, <1>6, <1>7, <1>8, <1>9 DEF Base

-----------------------------------------------------------------------------
(* An attempt goes on. *)

\* Only the state of attempt i and the event it waits for differ.
Moves(c, d, i) ==
    /\ d \in Calls
    /\ d.A = c.A /\ d.state = c.state /\ d.stray = c.stray /\ d.routes = c.routes
    /\ d.acctA = c.acctA /\ d.acctO = c.acctO /\ d.connect_ts = c.connect_ts
    /\ d.rtp = c.rtp /\ d.auth = c.auth /\ d.acct = c.acct
    /\ d.proxied = c.proxied /\ d.owed = c.owed /\ d.late = c.late
    /\ Len(d.legs) = Len(c.legs) /\ DOMAIN d.legs = DOMAIN c.legs
    /\ \A j \in DOMAIN c.legs : j # i => d.legs[j] = c.legs[j]
    /\ d.legs[i].rnum = c.legs[i].rnum /\ d.legs[i].bill = c.legs[i].bill

LEMMA SetWait ==
    ASSUME NEW c \in Calls, NEW i \in DOMAIN c.legs, NEW w \in {"no", "try", "ring", "connect"},
           NEW d, d = [c EXCEPT !.legs[i].wait = w]
    PROVE  /\ Moves(c, d, i) /\ d.legs[i].wait = w /\ d.legs[i].st = c.legs[i].st
           /\ d.ending = c.ending
  <1>1. c.legs \in Seq(Legs) /\ c.legs[i] \in Legs
    BY DEF Calls
  <1>0. PICK r : r = [c.legs[i] EXCEPT !.wait = w]
    OBVIOUS
  <1>2. PICK l : l = [c.legs EXCEPT ![i] = r]
    OBVIOUS
  <1>3. /\ l \in Seq(Legs) /\ Len(l) = Len(c.legs) /\ DOMAIN l = DOMAIN c.legs
        /\ \A j \in DOMAIN c.legs : j # i => l[j] = c.legs[j]
        /\ l[i].wait = w /\ l[i].rnum = c.legs[i].rnum /\ l[i].bill = c.legs[i].bill
        /\ l[i].st = c.legs[i].st
    <2>1. /\ r \in Legs /\ r.wait = w /\ r.rnum = c.legs[i].rnum /\ r.bill = c.legs[i].bill
          /\ r.st = c.legs[i].st
      BY <1>0, <1>1 DEF Legs
    <2> QED  BY <1>1, <1>2, <2>1, ExceptSeq
  <1>5. d = [c EXCEPT !.legs = l]
    BY <1>0, <1>2
  <1>6. /\ d \in Calls /\ d.legs = l /\ d.ending = c.ending /\ d.acct = c.acct
        /\ d.A = c.A /\ d.state = c.state /\ d.stray = c.stray /\ d.routes = c.routes
        /\ d.acctA = c.acctA /\ d.acctO = c.acctO /\ d.connect_ts = c.connect_ts
        /\ d.rtp = c.rtp /\ d.auth = c.auth
        /\ d.proxied = c.proxied /\ d.owed = c.owed /\ d.late = c.late
    BY <1>3, <1>5 DEF Calls
  <1> QED  BY <1>3, <1>6 DEF Moves

LEMMA OnlyMoves ==
    ASSUME NEW c, NEW d, NEW i \in DOMAIN c.legs, OnlyLeg(c, d, i), d.acct = c.acct
    PROVE  Moves(c, d, i) /\ d.legs[i].wait = c.legs[i].wait
  BY DEF OnlyLeg, Moves

\* A move before the end of an attempt, or from one end to the next: what the
\* invariant asks of the attempt itself.
Allowed(c, d, i) ==
    /\ d.legs[i].st \in Ended <=> c.legs[i].st \in Ended
    /\ d.legs[i].st \in Active => \/ c.legs[i].st \in Active
                                  \/ c.stray \/ (~c.legs[i].bill => c.acctO = 0)
    /\ d.legs[i].wait = "try" => d.legs[i].st \in {"idle"} \cup Ended
    /\ d.legs[i].st = "none" => d.legs[i].wait = "no"
    /\ i \in c.connect_ts => d.legs[i].st \in {"connected"} \cup Ended

LEMMA LegMoves ==
    ASSUME NEW c, Base(c), NEW i \in DOMAIN c.legs, NEW d, Moves(c, d, i), Allowed(c, d, i),
           Queue(d), \A j \in DOMAIN c.legs : Buried(c, j) => Buried(d, j)
    PROVE  /\ Base(d)
           /\ HungUp(c) /\ (d.legs[i].st \in Active => c.legs[i].st \in Active) => HungUp(d)
           /\ Quiet(c) /\ (d.legs[i].st \in Active => c.legs[i].st \in Active) => Quiet(d)
  <1>1. /\ c \in Calls /\ d \in Calls /\ Routes(c) /\ Attempts(c) /\ InTurn(c) /\ Incoming(c)
        /\ InOrder(c)
    BY DEF Base, Moves
  <1>2. /\ DOMAIN c.legs = 1..Len(c.legs) /\ Len(c.legs) \in Nat /\ Len(c.legs) <= MaxRoutes
        /\ i \in 1..MaxRoutes /\ MaxRoutes \in Nat
        /\ (c.legs = <<>> <=> Len(c.legs) = 0)
    BY <1>1, LegIndex
  <1>3. c.legs # <<>> /\ d.legs # <<>> /\ DOMAIN d.legs = DOMAIN c.legs
    BY <1>2 DEF Moves
  <1>4. Incoming(d)
    BY <1>1, <1>3 DEF Incoming, Moves
  <1>5. Routes(d)
    <2>1. \A j \in DOMAIN c.legs : d.legs[j].rnum = c.legs[j].rnum
      BY DEF Moves
    <2> QED  BY <1>1, <2>1 DEF Routes, Moves
  <1>6. Attempts(d)
    <2>1. d.acctO <= Len(d.legs) /\ \A u \in d.owed : u # 0 => u \in DOMAIN d.legs
      BY <1>1 DEF Attempts, Moves
    <2>2. \A k \in 1..MaxRoutes : k > Len(d.legs) => d.acct[k] = NoAccount /\ k \notin d.connect_ts
      BY <1>1 DEF Attempts, Moves
    <2>3. ASSUME NEW j \in DOMAIN d.legs
          PROVE  /\ d.legs[j].wait = "try" => d.legs[j].st \in {"idle"} \cup Ended
                 /\ d.legs[j].st = "none" => d.legs[j].wait = "no"
                 /\ j \in d.connect_ts => d.legs[j].st \in {"connected"} \cup Ended
      <3>1. CASE j = i
        BY <3>1 DEF Moves, Allowed
      <3>2. CASE j # i
        BY <1>1, <3>2 DEF Attempts, Moves
      <3> QED  BY <3>1, <3>2
    <2> QED  BY <1>3, <2>1, <2>2, <2>3 DEF Attempts
  <1>7. InTurn(d)
    <2> SUFFICES ASSUME ~c.stray, NEW j \in DOMAIN c.legs PROVE Billed(d, j)
      BY <1>3 DEF InTurn, Moves
    <2>1. Billed(c, j)
      BY <1>1 DEF InTurn
    <2>2. /\ d.legs[j].st \in Ended <=> c.legs[j].st \in Ended
          /\ d.legs[j].st \in Active => c.legs[j].st \in Active \/ (~c.legs[j].bill => c.acctO = 0)
          /\ d.legs[j].bill = c.legs[j].bill /\ d.acctO = c.acctO /\ d.acct[j] = c.acct[j]
          /\ d.connect_ts = c.connect_ts
      BY DEF Moves, Allowed
    <2>3. (d.legs[j].st \in Ended) = (c.legs[j].st \in Ended)
      BY <2>2
    <2> QED  BY <2>1, <2>2, <2>3 DEF Billed
  <1>8. InOrder(d)
    BY <1>1 DEF InOrder, Moves
  <1>9. HungUp(c) /\ (d.legs[i].st \in Active => c.legs[i].st \in Active) => HungUp(d)
    BY StaysHungUp DEF Moves
  <1>10. Base(d)
    BY <1>1, <1>4, <1>5, <1>6, <1>7, <1>8 DEF Base
  <1> QED  BY <1>3, <1>9, <1>10 DEF Quiet, Moves

\* While the attempt lasts, ending stays as it is.
LEMMA LegMovesOn ==
    ASSUME NEW c, Base(c), NEW i \in DOMAIN c.legs, NEW d, Moves(c, d, i), Allowed(c, d, i),
           d.ending = c.ending, c.legs[i].st \in Gone => d.legs[i].st = c.legs[i].st
    PROVE  /\ Base(d)
           /\ HungUp(c) /\ (d.legs[i].st \in Active => c.legs[i].st \in Active) => HungUp(d)
           /\ Quiet(c) /\ (d.legs[i].st \in Active => c.legs[i].st \in Active) => Quiet(d)
  <1>1. c \in Calls /\ d \in Calls /\ Queue(c) /\ Ages(c, d)
    BY DEF Base, Moves, Ages
  <1>2. Queue(d) /\ \A j \in DOMAIN c.legs : Buried(c, j) => Buried(d, j)
    BY <1>1, QueueSame
  <1> QED  BY <1>2, LegMoves

\* The rtpproxy has an event of attempt i, or nothing more.
LEMMA LegWaits ==
    ASSUME NEW c, Base(c), NEW i \in DOMAIN c.legs, NEW d, Moves(c, d, i),
           d.legs[i].st = c.legs[i].st, d.ending = c.ending,
           d.legs[i].wait = "try" => c.legs[i].st \in {"idle"} \cup Ended,
           d.legs[i].wait # "no" => c.legs[i].st # "none"
    PROVE  Base(d) /\ (HungUp(c) => HungUp(d)) /\ (Quiet(c) => Quiet(d))
  <1>1. Allowed(c, d, i)
    <2>1. i \in c.connect_ts => d.legs[i].st \in {"connected"} \cup Ended
      BY DEF Base, Attempts
    <2> QED  BY <2>1 DEF Allowed
  <1>2. /\ c.legs[i].st \in Gone => d.legs[i].st = c.legs[i].st
        /\ d.legs[i].st \in Active => c.legs[i].st \in Active
    OBVIOUS
  <1>3. /\ Base(d)
        /\ HungUp(c) /\ (d.legs[i].st \in Active => c.legs[i].st \in Active) => HungUp(d)
        /\ Quiet(c) /\ (d.legs[i].st \in Active => c.legs[i].st \in Active) => Quiet(d)
    BY <1>1, <1>2, LegMovesOn
  <1> QED  BY <1>2, <1>3

LEMMA Waits ==
    ASSUME NEW c, Base(c), NEW i \in DOMAIN c.legs, NEW w \in {"no", "try", "ring", "connect"},
           w = "try" => c.legs[i].st \in {"idle"} \cup Ended,
           w # "no" => c.legs[i].st # "none",
           NEW d, d = [c EXCEPT !.legs[i].wait = w]
    PROVE  /\ Base(d) /\ (HungUp(c) => HungUp(d)) /\ (Quiet(c) => Quiet(d))
           /\ Moves(c, d, i) /\ d.legs[i].wait = w /\ d.legs[i].st = c.legs[i].st
           /\ d.ending = c.ending
  <1>1. c \in Calls
    BY DEF Base
  <1>2. /\ Moves(c, d, i) /\ d.legs[i].wait = w /\ d.legs[i].st = c.legs[i].st
        /\ d.ending = c.ending
    BY <1>1, SetWait
  <1> QED  BY <1>2, LegWaits

-----------------------------------------------------------------------------
(* The incoming leg rings and is connected. *)

LEMMA RingsA ==
    ASSUME NEW c, Base(c), HungUp(c), c.legs # <<>>
    PROVE  Quiet(Ringing(c)) /\ Ringing(c).legs = c.legs
  <1>1. CASE c.A = "trying"
    <2>1. PICK d : d = [c EXCEPT !.A = "ringing"]
      OBVIOUS
    <2>2. c \in Calls /\ Routes(c) /\ Attempts(c) /\ InTurn(c) /\ Incoming(c) /\ Queue(c)
          /\ InOrder(c)
      BY DEF Base
    <2>3. /\ d \in Calls /\ d.legs = c.legs /\ d.ending = c.ending /\ d.acct = c.acct
          /\ d.A = "ringing" /\ d.state = c.state /\ d.stray = c.stray /\ d.routes = c.routes
          /\ d.acctA = c.acctA /\ d.acctO = c.acctO /\ d.connect_ts = c.connect_ts
          /\ d.rtp = c.rtp /\ d.auth = c.auth
          /\ d.proxied = c.proxied /\ d.owed = c.owed /\ d.late = c.late
      BY <2>1, <2>2 DEF Calls, AStates
    <2>4. Incoming(d)
      BY <1>1, <2>2, <2>3 DEF Incoming, Gone
    <2>5. Routes(d) /\ Attempts(d) /\ InTurn(d)
      BY <2>2, <2>3, LegsKept DEF SameLegs
    <2>6. Queue(d) /\ \A i \in DOMAIN c.legs : Buried(c, i) => Buried(d, i)
      BY <1>1, <2>2, <2>3, QueueSame DEF Ages, Gone
    <2>7. InOrder(d)
      BY <2>2, <2>3, <2>6 DEF InOrder
    <2>8. HungUp(d)
      BY <2>3 DEF HungUp, Gone
    <2>9. Quiet(d)
      BY <2>3, <2>4, <2>5, <2>6, <2>7, <2>8 DEF Quiet, Base
    <2> QED  BY <1>1, <2>1, <2>3, <2>9 DEF Ringing
  <1>2. CASE c.A # "trying"
    BY <1>2 DEF Ringing, Quiet
  <1> QED  BY <1>1, <1>2

LEMMA ConnectsA ==
    ASSUME NEW c, Base(c), HungUp(c), c.legs # <<>>
    PROVE  Quiet(Connect(c)) /\ Connect(c).legs = c.legs
  <1>1. CASE c.A \in Early
    <2>1. PICK e : e = [c EXCEPT !.A = "connected", !.state = "Connected",
                                 !.connect_ts = @ \cup {0}]
      OBVIOUS
    <2>2. /\ c \in Calls /\ Routes(c) /\ Attempts(c) /\ InTurn(c) /\ Incoming(c) /\ Queue(c)
          /\ InOrder(c)
          /\ c.A \notin Gone /\ c.A # "connected" /\ 0 \in 0..MaxRoutes
      BY <1>1, LegIndex DEF Base, Gone, Early
    <2>3. /\ e \in Calls /\ e.legs = c.legs /\ e.ending = c.ending /\ e.acct = c.acct
          /\ e.A = "connected" /\ e.state = "Connected" /\ e.stray = c.stray
          /\ e.routes = c.routes /\ e.acctA = c.acctA /\ e.acctO = c.acctO
          /\ e.connect_ts = c.connect_ts \cup {0} /\ e.rtp = c.rtp /\ e.auth = c.auth
          /\ e.proxied = c.proxied /\ e.owed = c.owed /\ e.late = c.late
      BY <2>1, <2>2 DEF Calls, AStates
    <2>4. PICK d : d = Conn(e, 0)
      OBVIOUS
    <2>5. Account(c.acct[0], FALSE, FALSE)
      <3>1. 0 \notin c.connect_ts
        BY <2>2 DEF Incoming
      <3> QED  BY <2>2, <3>1 DEF Incoming, Account
    <2>6. Records(e, d, 0) /\ Account(d.acct[0], TRUE, FALSE)
      <3>1. Account(e.acct[0], FALSE, FALSE)
        BY <2>3, <2>5
      <3> QED  BY <2>2, <2>3, <2>4, <3>1, Conns
    <2>7. /\ d \in Calls /\ d.legs = c.legs /\ d.ending = c.ending
          /\ d.A = "connected" /\ d.state = "Connected" /\ d.stray = c.stray
          /\ d.routes = c.routes /\ d.acctA = c.acctA /\ d.acctO = c.acctO
          /\ d.connect_ts = c.connect_ts \cup {0} /\ d.rtp = c.rtp /\ d.auth = c.auth
          /\ d.proxied = c.proxied /\ d.owed = c.owed /\ d.late = c.late
          /\ \A k \in 1..MaxRoutes : d.acct[k] = c.acct[k]
          /\ d.acct[0].on = c.acct[0].on
      BY <2>2, <2>3, <2>6 DEF Records, Same
    <2>8. Incoming(d)
      <3>1. 0 \in d.connect_ts /\ d.A \notin Gone
        BY <2>7 DEF Gone
      <3>2. Account(d.acct[0], 0 \in d.connect_ts, d.A \in Gone)
        BY <2>6, <3>1 DEF Account
      <3>3. 0 \notin d.owed
        BY <1>1, <2>2, <2>7 DEF Incoming, Early
      <3> QED  BY <2>2, <2>7, <3>1, <3>2, <3>3 DEF Incoming
    <2>9. /\ \A i \in 1..MaxRoutes : i \in d.connect_ts <=> i \in c.connect_ts
          /\ DOMAIN c.legs \subseteq 1..MaxRoutes
      BY <2>2, <2>7, LegIndex
    <2>10. Routes(d)
      BY <2>2, <2>7 DEF Routes
    <2>11. Attempts(d)
      BY <2>2, <2>7, <2>9 DEF Attempts
    <2>12. InTurn(d)
      <3> SUFFICES ASSUME ~c.stray, NEW j \in DOMAIN c.legs PROVE Billed(d, j)
        BY <2>7 DEF InTurn
      <3>1. Billed(c, j) /\ d.acct[j] = c.acct[j] /\ (j \in d.connect_ts) = (j \in c.connect_ts)
        BY <2>2, <2>7, <2>9 DEF InTurn
      <3> QED  BY <2>7, <3>1 DEF Billed
    <2>13. HungUp(d)
      BY <2>7 DEF HungUp, Gone
    <2>14. Queue(d) /\ \A i \in DOMAIN c.legs : Buried(c, i) => Buried(d, i)
      BY <2>2, <2>7, QueueSame DEF Ages, Gone
    <2>15. InOrder(d)
      BY <2>2, <2>7, <2>14 DEF InOrder
    <2>16. Quiet(d)
      BY <2>7, <2>8, <2>10, <2>11, <2>12, <2>13, <2>14, <2>15 DEF Quiet, Base
    <2> QED  BY <1>1, <2>1, <2>4, <2>7, <2>16 DEF Connect, aConn
  <1>2. CASE c.A \notin Early
    BY <1>2 DEF Connect, Quiet
  <1> QED  BY <1>1, <1>2

\* oConn: an attempt that is connected.
LEMMA ConnectsO ==
    ASSUME NEW c, Base(c), HungUp(c), NEW i \in DOMAIN c.legs, c.legs[i].st \in Early
    PROVE  LET d == oConn(c, i)
           IN  /\ Base(d) /\ HungUp(d) /\ DOMAIN d.legs = DOMAIN c.legs /\ d.legs # <<>>
               /\ d.legs[i].st = "connected" /\ d.legs[i].wait = c.legs[i].wait
  <1>1. PICK f : f = [c EXCEPT !.legs[i].st = "connected"]
    OBVIOUS
  <1>2. /\ c \in Calls /\ Routes(c) /\ Attempts(c) /\ InTurn(c) /\ Incoming(c) /\ Queue(c)
        /\ InOrder(c) /\ "connected" \in OStates
    BY DEF Base, OStates
  <1>3. /\ OnlyLeg(c, f, i) /\ f.legs[i].st = "connected" /\ f.ending = c.ending
        /\ f.acct = c.acct
    BY <1>1, <1>2, SetLeg
  <1>4. PICK e : e = [c EXCEPT !.legs[i].st = "connected", !.connect_ts = @ \cup {i}]
    OBVIOUS
  <1>5. e = [f EXCEPT !.connect_ts = c.connect_ts \cup {i}]
    BY <1>1, <1>3, <1>4 DEF OnlyLeg
  <1>6. /\ DOMAIN c.legs = 1..Len(c.legs) /\ Len(c.legs) \in Nat /\ Len(c.legs) <= MaxRoutes
        /\ i \in 1..MaxRoutes /\ 0 \in 0..MaxRoutes /\ MaxRoutes \in Nat /\ c.acctO \in 0..MaxRoutes
        /\ c.legs[i] \in Legs /\ (c.legs = <<>> <=> Len(c.legs) = 0)
    BY <1>2, LegIndex
  <1>7. /\ e \in Calls /\ e.legs = f.legs /\ e.ending = c.ending /\ e.acct = c.acct
        /\ e.A = c.A /\ e.state = c.state /\ e.stray = c.stray /\ e.routes = c.routes
        /\ e.acctA = c.acctA /\ e.acctO = c.acctO /\ e.rtp = c.rtp /\ e.auth = c.auth
        /\ e.proxied = c.proxied /\ e.owed = c.owed /\ e.late = c.late
        /\ e.connect_ts = c.connect_ts \cup {i}
    <2>1. f \in Calls /\ c.connect_ts \cup {i} \in SUBSET (0..MaxRoutes)
      BY <1>2, <1>3, <1>6 DEF OnlyLeg, Calls
    <2>2. /\ e \in Calls /\ e.legs = f.legs /\ e.ending = f.ending /\ e.acct = f.acct
          /\ e.A = f.A /\ e.state = f.state /\ e.stray = f.stray /\ e.routes = f.routes
          /\ e.acctA = f.acctA /\ e.acctO = f.acctO /\ e.rtp = f.rtp /\ e.auth = f.auth
          /\ e.proxied = f.proxied /\ e.owed = f.owed /\ e.late = f.late
          /\ e.connect_ts = c.connect_ts \cup {i}
      BY <1>5, <2>1 DEF Calls
    <2> QED  BY <1>3, <2>2 DEF OnlyLeg
  <1>8. PICK d : d = IF e.acctO # 0 THEN Conn(e, e.acctO) ELSE e
    OBVIOUS
  <1>9. Records(e, d, c.acctO) /\ (c.acctO = 0 => d = e)
    <2>1. CASE c.acctO # 0
      BY <1>6, <1>7, <1>8, <2>1, Conns
    <2>2. CASE c.acctO = 0
      BY <1>7, <1>8, <2>2, NoRecord
    <2> QED  BY <2>1, <2>2
  <1>10. /\ d \in Calls /\ d.legs = f.legs /\ d.ending = c.ending
         /\ d.A = c.A /\ d.state = c.state /\ d.stray = c.stray /\ d.routes = c.routes
         /\ d.acctA = c.acctA /\ d.acctO = c.acctO /\ d.rtp = c.rtp /\ d.auth = c.auth
         /\ d.proxied = c.proxied /\ d.owed = c.owed /\ d.late = c.late
         /\ d.connect_ts = c.connect_ts \cup {i}
         /\ \A k \in 0..MaxRoutes : k = 0 \/ k # c.acctO => d.acct[k] = c.acct[k]
         /\ \A k \in 0..MaxRoutes : d.acct[k].on = c.acct[k].on
    BY <1>6, <1>7, <1>9 DEF Records, Same
  <1>11. /\ DOMAIN d.legs = DOMAIN c.legs /\ Len(d.legs) = Len(c.legs) /\ d.legs # <<>>
         /\ \A j \in DOMAIN c.legs : j # i => d.legs[j] = c.legs[j]
         /\ d.legs[i].st = "connected" /\ d.legs[i].wait = c.legs[i].wait
         /\ d.legs[i].rnum = c.legs[i].rnum /\ d.legs[i].bill = c.legs[i].bill
         /\ c.legs # <<>>
    BY <1>3, <1>6, <1>10 DEF OnlyLeg
  <1>12. /\ i \notin c.connect_ts /\ c.legs[i].st \in Active /\ c.legs[i].st \notin Ended
         /\ c.legs[i].wait # "try" /\ c.legs[i].st \notin Gone
    BY <1>2 DEF Attempts, Early, Ended, Active, Gone
  <1>13. Incoming(d)
    <2>1. (0 \in d.connect_ts) = (0 \in c.connect_ts) /\ d.acct[0] = c.acct[0]
      BY <1>6, <1>10
    <2> QED  BY <1>2, <1>10, <1>11, <2>1 DEF Incoming
  <1>14. Routes(d)
    <2>1. \A j \in DOMAIN c.legs : d.legs[j].rnum = c.legs[j].rnum
      BY <1>11
    <2> QED  BY <1>2, <1>10, <1>11, <2>1 DEF Routes
  <1>15. Attempts(d)
    <2>1. d.acctO <= Len(d.legs) /\ \A u \in d.owed : u # 0 => u \in DOMAIN d.legs
      BY <1>2, <1>10, <1>11 DEF Attempts
    <2>2. \A k \in 1..MaxRoutes : k > Len(d.legs) => d.acct[k] = NoAccount /\ k \notin d.connect_ts
      <3>1. \A k \in 1..MaxRoutes : k > Len(c.legs) => k # c.acctO /\ k # i
        BY <1>2, <1>6 DEF Attempts
      <3> QED  BY <1>2, <1>6, <1>10, <1>11, <3>1 DEF Attempts
    <2>3. ASSUME NEW j \in DOMAIN d.legs
          PROVE  /\ d.legs[j].wait = "try" => d.legs[j].st \in {"idle"} \cup Ended
                 /\ d.legs[j].st = "none" => d.legs[j].wait = "no"
                 /\ j \in d.connect_ts => d.legs[j].st \in {"connected"} \cup Ended
      <3>1. CASE j = i
        BY <1>11, <1>12, <3>1
      <3>2. CASE j # i
        BY <1>2, <1>10, <1>11, <3>2 DEF Attempts
      <3> QED  BY <3>1, <3>2
    <2> QED  BY <1>11, <2>1, <2>2, <2>3 DEF Attempts
  <1>16. InTurn(d)
    <2> SUFFICES ASSUME ~c.stray, NEW j \in DOMAIN c.legs PROVE Billed(d, j)
      BY <1>10, <1>11 DEF InTurn
    <2>1. Billed(c, i) /\ Billed(c, j) /\ j \in 1..MaxRoutes
      BY <1>2, <1>6 DEF InTurn
    <2>2. /\ c.acctO = IF c.legs[i].bill THEN i ELSE 0
          /\ i = Len(c.legs)
          /\ Account(c.acct[i], FALSE, FALSE)
      <3>1. c.acctO = IF c.legs[i].bill THEN i ELSE 0
        BY <1>12, <2>1 DEF Billed
      <3>2. i = Len(c.legs)
        BY <1>12, LastLeg
      <3>3. Account(c.acct[i], FALSE, FALSE)
        BY <1>12, <2>1 DEF Billed, Account
      <3> QED  BY <3>1, <3>2, <3>3
    <2>3. CASE j = i
      <3>1. Account(d.acct[i], c.legs[i].bill, FALSE)
        <4>1. CASE c.legs[i].bill
          <5>1. d = Conn(e, i) /\ e.acct[i] = c.acct[i] /\ c.legs[i].bill = TRUE
            BY <1>6, <1>7, <1>8, <2>2, <4>1 DEF Legs
          <5>2. e \in Calls /\ i \in 0..MaxRoutes
            BY <1>6, <1>7
          <5>3. Account(e.acct[i], FALSE, FALSE)
            BY <2>2, <5>1
          <5>4. Account(d.acct[i], TRUE, FALSE)
            BY <5>1, <5>2, <5>3, Conns
          <5> QED  BY <5>1, <5>4
        <4>2. CASE ~c.legs[i].bill
          <5>1. d.acct = c.acct
            BY <1>7, <1>9, <2>2, <4>2
          <5> QED  BY <2>2, <4>2, <5>1 DEF Account
        <4> QED  BY <4>1, <4>2
      <3>2. d.legs[i].st \notin Ended /\ i \in d.connect_ts
        BY <1>10, <1>11 DEF Ended
      <3>3. Account(d.acct[i], d.legs[i].bill /\ i \in d.connect_ts,
                    d.legs[i].bill /\ d.legs[i].st \in Ended)
        BY <1>11, <3>1, <3>2 DEF Account
      <3>4. d.legs[i].bill => d.acct[i].on
        BY <1>6, <1>10, <1>11, <2>1 DEF Billed
      <3> QED  BY <1>10, <1>11, <2>2, <2>3, <3>3, <3>4 DEF Billed
    <2>4. CASE j # i
      <3>1. d.legs[j] = c.legs[j] /\ d.acct[j] = c.acct[j]
            /\ (j \in d.connect_ts) = (j \in c.connect_ts)
        BY <1>6, <1>10, <1>11, <2>1, <2>2, <2>4
      <3> QED  BY <1>10, <1>11, <2>1, <3>1 DEF Billed
    <2> QED  BY <2>3, <2>4
  <1>17. Queue(d) /\ \A j \in DOMAIN c.legs : Buried(c, j) => Buried(d, j)
    <2>1. Ages(c, d)
      BY <1>10, <1>11, <1>12 DEF Ages
    <2> QED  BY <1>2, <1>10, <2>1, QueueSame
  <1>18. InOrder(d)
    BY <1>2, <1>10, <1>11, <1>17 DEF InOrder
  <1>19. HungUp(d)
    BY <1>10, <1>11, <1>12, StaysHungUp
  <1>20. d = oConn(c, i)
    BY <1>4, <1>8 DEF oConn
  <1> QED
    BY <1>10, <1>11, <1>13, <1>14, <1>15, <1>16, <1>17, <1>18, <1>19, <1>20 DEF Base

-----------------------------------------------------------------------------
(* The end of the call, and its accounts. *)

\* DropCC: no attempt of a call that is over still needs its account.
LEMMA Drops ==
    ASSUME NEW c, Quiet(c), c.A \in Gone,
           c.stray \/ \A i \in DOMAIN c.legs : c.legs[i].st \in Ended,
           NEW m \in BOOLEAN, NEW n \in BOOLEAN
    PROVE  Quiet([c EXCEPT !.acctA = FALSE, !.acctO = 0, !.inMap = m, !.cmap = n])
  <1>1. PICK d : d = [c EXCEPT !.acctA = FALSE, !.acctO = 0, !.inMap = m, !.cmap = n]
    OBVIOUS
  <1>2. /\ c \in Calls /\ Routes(c) /\ Attempts(c) /\ InTurn(c) /\ Incoming(c) /\ Queue(c)
        /\ InOrder(c) /\ HungUp(c) /\ 0 \in 0..MaxRoutes /\ Len(c.legs) \in Nat
    BY LegIndex DEF Base, Quiet
  <1>3. /\ d \in Calls /\ d.legs = c.legs /\ d.ending = c.ending /\ d.acct = c.acct
        /\ d.A = c.A /\ d.state = c.state /\ d.stray = c.stray /\ d.routes = c.routes
        /\ d.acctO = 0 /\ d.connect_ts = c.connect_ts /\ d.rtp = c.rtp /\ d.auth = c.auth
        /\ d.proxied = c.proxied /\ d.owed = c.owed /\ d.late = c.late
    BY <1>1, <1>2 DEF Calls
  <1>4. Incoming(d) /\ Routes(d) /\ Attempts(d)
    <2>1. Incoming(d)
      BY <1>2, <1>3 DEF Incoming
    <2>2. Routes(d)
      BY <1>2, <1>3 DEF Routes
    <2>3. Attempts(d)
      BY <1>2, <1>3 DEF Attempts
    <2> QED  BY <2>1, <2>2, <2>3
  <1>5. InTurn(d)
    BY <1>2, <1>3 DEF InTurn, Billed
  <1>6. Queue(d) /\ InOrder(d) /\ HungUp(d)
    <2>1. Queue(d) /\ \A i \in DOMAIN c.legs : Buried(c, i) => Buried(d, i)
      BY <1>2, <1>3, QueueSame DEF Ages
    <2>2. InOrder(d)
      BY <1>2, <1>3, <2>1 DEF InOrder
    <2>3. HungUp(d)
      BY <1>2, <1>3, StaysHungUp
    <2> QED  BY <2>1, <2>2, <2>3
  <1> QED  BY <1>1, <1>3, <1>4, <1>5, <1>6 DEF Quiet, Base

\* An account of which only the Alive loop moves.
LEMMA AccountMoves ==
    ASSUME NEW c, Base(c), HungUp(c), NEW i \in 0..MaxRoutes, NEW a \in Accounts,
           c.acct[i] # NoAccount, a.on = c.acct[i].on,
           \A up, down \in BOOLEAN : Account(c.acct[i], up, down) => Account(a, up, down)
    PROVE  Harmless(c, [c EXCEPT !.acct[i] = a])
  <1>1. PICK d : d = [c EXCEPT !.acct[i] = a]
    OBVIOUS
  <1>2. c \in Calls /\ Routes(c) /\ Attempts(c) /\ InTurn(c) /\ Incoming(c) /\ Queue(c) /\ InOrder(c)
    BY DEF Base
  <1>3. Records(c, d, i) /\ d.acct[i] = a
    BY <1>1, <1>2, RecordsOne
  <1>4. /\ d \in Calls /\ d.legs = c.legs /\ d.ending = c.ending
        /\ d.A = c.A /\ d.state = c.state /\ d.stray = c.stray /\ d.routes = c.routes
        /\ d.acctA = c.acctA /\ d.acctO = c.acctO /\ d.connect_ts = c.connect_ts
        /\ d.rtp = c.rtp /\ d.auth = c.auth
        /\ d.proxied = c.proxied /\ d.owed = c.owed /\ d.late = c.late
        /\ \A k \in 0..MaxRoutes : k # i => d.acct[k] = c.acct[k]
        /\ \A k \in 0..MaxRoutes : d.acct[k].on = c.acct[k].on
    BY <1>3 DEF Records, Same
  <1>5. \A k \in 0..MaxRoutes : \A up, down \in BOOLEAN :
            Account(c.acct[k], up, down) => Account(d.acct[k], up, down)
    <2> TAKE k \in 0..MaxRoutes
    <2>1. CASE k = i
      BY <1>3, <2>1, Zenon
    <2>2. CASE k # i
      BY <1>4, <2>2, Zenon
    <2> QED  BY <2>1, <2>2
  <1>6. Incoming(d)
    <2>1. 0 \in 0..MaxRoutes
      BY <1>2, LegIndex
    <2>2. (0 \in c.connect_ts) \in BOOLEAN /\ (c.A \in Gone) \in BOOLEAN
      OBVIOUS
    <2>3. Account(c.acct[0], 0 \in c.connect_ts, c.A \in Gone)
      BY <1>2 DEF Incoming
    <2>4. Account(d.acct[0], 0 \in c.connect_ts, c.A \in Gone)
      BY <1>5, <2>1, <2>2, <2>3, Zenon
    <2>5. d.acct[0].on = c.acct[0].on
      BY <1>4, <2>1
    <2> QED  BY <1>2, <1>4, <2>4, <2>5 DEF Incoming
  <1>7. Routes(d)
    BY <1>2, <1>4 DEF Routes
  <1>8. Attempts(d)
    <2>1. \A k \in 1..MaxRoutes : k > Len(d.legs) => d.acct[k] = NoAccount /\ k \notin d.connect_ts
      <3>1. \A k \in 1..MaxRoutes : k > Len(c.legs) => k # i /\ k \in 0..MaxRoutes
        BY <1>2, LegIndex DEF Attempts
      <3> QED  BY <1>2, <1>4, <3>1 DEF Attempts
    <2> QED  BY <1>2, <1>4, <2>1 DEF Attempts
  <1>9. InTurn(d)
    <2> SUFFICES ASSUME ~c.stray, NEW j \in DOMAIN c.legs PROVE Billed(d, j)
      BY <1>4 DEF InTurn
    <2>1. Billed(c, j) /\ j \in 0..MaxRoutes /\ c.legs[j] \in Legs
      BY <1>2, LegIndex DEF InTurn
    <2>2. /\ (c.legs[j].bill /\ j \in c.connect_ts) \in BOOLEAN
          /\ (c.legs[j].bill /\ c.legs[j].st \in Ended) \in BOOLEAN
      OBVIOUS
    <2>3. Account(c.acct[j], c.legs[j].bill /\ j \in c.connect_ts,
                  c.legs[j].bill /\ c.legs[j].st \in Ended)
      BY <2>1 DEF Billed
    <2>4. Account(d.acct[j], c.legs[j].bill /\ j \in c.connect_ts,
                  c.legs[j].bill /\ c.legs[j].st \in Ended)
      BY <1>5, <2>1, <2>2, <2>3, Zenon
    <2> QED  BY <1>4, <2>1, <2>4 DEF Billed
  <1>10. Queue(d) /\ \A j \in DOMAIN c.legs : Buried(c, j) => Buried(d, j)
    BY <1>2, <1>4, QueueSame DEF Ages
  <1>11. InOrder(d) /\ HungUp(d)
    <2>1. InOrder(d)
      BY <1>2, <1>4, <1>10 DEF InOrder
    <2> QED  BY <1>4, <2>1, StaysHungUp
  <1>12. Kept(c, d)
    BY <1>4, <1>10 DEF Kept
  <1> QED  BY <1>1, <1>4, <1>6, <1>7, <1>8, <1>9, <1>10, <1>11, <1>12 DEF Harmless, Base

-----------------------------------------------------------------------------
(* Routes. *)

LEMMA TailRoutes ==
    ASSUME NEW q \in Seq(1..MaxRoutes), q # <<>>, Increasing(q)
    PROVE  /\ Tail(q) \in Seq(1..MaxRoutes) /\ Len(Tail(q)) = Len(q) - 1 /\ Len(q) \in Nat
           /\ Increasing(Tail(q)) /\ Head(q) \in 1..MaxRoutes
           /\ \A k \in DOMAIN Tail(q) : Head(q) < Tail(q)[k]
           /\ Head(q) = q[1] /\ 1 \in DOMAIN q
           /\ \A k \in DOMAIN Tail(q) : k + 1 \in DOMAIN q /\ Tail(q)[k] = q[k + 1]
  <1>1. PICK n \in Nat : n = Len(q) /\ DOMAIN q = 1..n /\ n > 0
    BY LenProperties, EmptySeq
  <1>2. PICK t : t = Tail(q)
    OBVIOUS
  <1>3. /\ t \in Seq(1..MaxRoutes) /\ Len(t) = n - 1 /\ DOMAIN t = 1..(n - 1)
        /\ \A k \in 1..(n - 1) : t[k] = q[k + 1]
    BY <1>1, <1>2, HeadTailProperties, LenProperties
  <1>4. Head(q) = q[1] /\ Head(q) \in 1..MaxRoutes
    <2>1. Head(q) \in 1..MaxRoutes
      BY HeadTailProperties
    <2>2. Head(q) = q[1]
      BY <1>1
    <2> QED  BY <2>1, <2>2
  <1>5. \A k \in 1..(n - 1) : k + 1 \in 1..n /\ 1 \in 1..n /\ 1 < k + 1
    BY <1>1
  <1>6. \A k \in 1..(n - 1) : q[1] < t[k]
    BY <1>1, <1>3, <1>5 DEF Increasing
  <1>7. ASSUME NEW j \in 1..(n - 1), NEW k \in 1..(n - 1), j < k PROVE t[j] < t[k]
    <2>1. j + 1 < k + 1
      BY <1>7
    <2> QED  BY <1>1, <1>3, <1>5, <2>1 DEF Increasing
  <1>8. Increasing(t)
    BY <1>3, <1>7 DEF Increasing
  <1>9. 1 \in DOMAIN q
    BY <1>1
  <1> QED  BY <1>1, <1>2, <1>3, <1>4, <1>5, <1>6, <1>8, <1>9

LEMMA RoutingType ==
    ASSUME NEW n \in Nat, n <= MaxRoutes, NEW rs, DOMAIN rs = 1..n, NEW default, NEW max,
           NEW q \in Routing(rs, default, max)
    PROVE  q \in Seq(1..MaxRoutes) /\ Increasing(q) /\ Len(q) <= MaxRoutes /\ Len(q) \in Nat
  <1>1. PICK kept : /\ kept \subseteq 1..n
                    /\ q \in [1..Cardinality(kept) -> kept] /\ Increasing(q)
    BY DEF Routing
  <1>2. IsFiniteSet(1..n) /\ Cardinality(1..n) = n
    BY FS_Interval
  <1>3. IsFiniteSet(kept) /\ Cardinality(kept) <= n /\ Cardinality(kept) \in Nat
    <2>1. IsFiniteSet(kept) /\ Cardinality(kept) <= Cardinality(1..n)
      BY <1>1, <1>2, FS_Subset, Zenon
    <2> QED  BY <1>2, <2>1, FS_CardinalityType
  <1>4. PICK m \in Nat : m = Cardinality(kept) /\ m <= n
    BY <1>3
  <1>5. MaxRoutes \in Nat
    BY RadiusCallAssumption DEF RadiusCallAssumption
  <1>6. kept \subseteq 1..MaxRoutes
    BY <1>1, <1>5
  <1>7. q \in [1..m -> 1..MaxRoutes]
    BY <1>1, <1>4, <1>6
  <1>8. q \in Seq(1..MaxRoutes) /\ Len(q) = m
    <2>1. DOMAIN q = 1..m
      BY <1>7
    <2>2. q \in Seq(1..MaxRoutes)
      BY <1>7, SeqDef
    <2>3. DOMAIN q = 1..Len(q) /\ Len(q) \in Nat
      BY <2>2, LenProperties
    <2> QED  BY <2>1, <2>2, <2>3
  <1> QED  BY <1>1, <1>4, <1>5, <1>8

LEMMA ResultsType ==
    ASSUME NEW q \in Results
    PROVE  q \in Seq(1..MaxRoutes) /\ Increasing(q) /\ Len(q) <= MaxRoutes /\ Len(q) \in Nat
  <1>1. CASE q \in RadiusRoutes
    <2>0. PICK n \in 0..MaxRoutes : \E rs \in [1..n -> RouteData], default \in 0..1, max \in 0..1 :
            q \in Routing(rs, default, max)
      BY <1>1 DEF RadiusRoutes
    <2>1. PICK rs \in [1..n -> RouteData], default \in 0..1, max \in 0..1 :
            q \in Routing(rs, default, max)
      BY <2>0
    <2>2. n \in Nat /\ n <= MaxRoutes /\ DOMAIN rs = 1..n
      BY <2>1, RadiusCallAssumption DEF RadiusCallAssumption
    <2> QED  BY <2>1, <2>2, RoutingType
  <1>2. CASE q \in StaticRoutes
    <2>1. PICK r \in RouteData, default \in 0..1, max \in 0..1 : q \in Routing(<<r>>, default, max)
      BY <1>2 DEF StaticRoutes
    <2>2. PICK rs : rs = <<r>>
      OBVIOUS
    <2>3. DOMAIN rs = 1..1 /\ 1 <= MaxRoutes /\ 1 \in Nat
      BY <2>2, RadiusCallAssumption DEF RadiusCallAssumption
    <2>4. q \in Routing(rs, default, max)
      BY <2>1, <2>2
    <2> QED  BY <2>3, <2>4, RoutingType
  <1> QED  BY <1>1, <1>2 DEF Results

LEMMA SkipRoutes ==
    ASSUME NEW q \in Seq(1..MaxRoutes), Increasing(q), NEW m \in DOMAIN q
    PROVE  LET s == SubSeq(q, m, Len(q))
           IN  /\ s \in Seq(1..MaxRoutes) /\ Len(s) <= Len(q) /\ Increasing(s)
               /\ \A k \in DOMAIN s : \E j \in DOMAIN q : s[k] = q[j]
  <1>1. PICK n \in Nat : n = Len(q) /\ DOMAIN q = 1..n
    BY LenProperties
  <1>2. m \in Int /\ n \in Int /\ m <= n /\ m >= 1 /\ \A i \in m..n : q[i] \in 1..MaxRoutes
    <2>1. \A i \in 1..n : q[i] \in 1..MaxRoutes
      BY <1>1, ElementOfSeq
    <2> QED  BY <1>1, <2>1
  <1>3. PICK s : s = SubSeq(q, m, n)
    OBVIOUS
  <1>4. /\ s \in Seq(1..MaxRoutes) /\ Len(s) = n - m + 1
        /\ \A i \in 1..(n - m + 1) : s[i] = q[m + i - 1]
    <2>1. /\ SubSeq(q, m, n) \in Seq(1..MaxRoutes)
          /\ Len(SubSeq(q, m, n)) = IF m <= n THEN n - m + 1 ELSE 0
          /\ \A i \in 1..(n - m + 1) : SubSeq(q, m, n)[i] = q[m + i - 1]
      BY <1>2, SubSeqProperties
    <2> QED  BY <1>2, <1>3, <2>1
  <1>5. DOMAIN s = 1..(n - m + 1)
    BY <1>4, LenProperties
  <1>6. \A k \in 1..(n - m + 1) : m + k - 1 \in 1..n
    BY <1>1, <1>2
  <1>7. ASSUME NEW j \in DOMAIN s, NEW k \in DOMAIN s, j < k PROVE s[j] < s[k]
    <2>1. m + j - 1 < m + k - 1
      BY <1>2, <1>5, <1>7
    <2>2. m + j - 1 \in DOMAIN q /\ m + k - 1 \in DOMAIN q
      BY <1>1, <1>5, <1>6
    <2>3. q[m + j - 1] < q[m + k - 1]
      BY <2>1, <2>2 DEF Increasing
    <2> QED  BY <1>4, <1>5, <2>3
  <1>8. Increasing(s)
    BY <1>7 DEF Increasing
  <1>9. \A k \in DOMAIN s : \E j \in DOMAIN q : s[k] = q[j]
    BY <1>1, <1>4, <1>5, <1>6
  <1>10. Len(s) <= Len(q)
    BY <1>1, <1>2, <1>4
  <1> QED  BY <1>1, <1>3, <1>4, <1>8, <1>9, <1>10


LEMMA FewerRoutes ==
    ASSUME NEW c, Base(c), NEW q \in Seq(1..MaxRoutes), Len(q) <= Len(c.routes),
           Increasing(q), \A k \in DOMAIN q : \E j \in DOMAIN c.routes : q[k] = c.routes[j]
    PROVE  LET d == [c EXCEPT !.routes = q]
           IN  /\ Base(d) /\ (HungUp(c) => HungUp(d)) /\ (Quiet(c) => Quiet(d))
               /\ d.routes = q /\ d.legs = c.legs /\ d.state = c.state /\ d.stray = c.stray
               /\ d.A = c.A /\ d.auth = c.auth /\ d.acct = c.acct
               /\ \A i \in DOMAIN c.legs : Buried(c, i) => Buried(d, i)
  <1>1. PICK d : d = [c EXCEPT !.routes = q]
    OBVIOUS
  <1>2. c \in Calls /\ Routes(c) /\ Attempts(c) /\ InTurn(c) /\ Incoming(c) /\ Queue(c) /\ InOrder(c)
    BY DEF Base
  <1>3. /\ d \in Calls /\ d.legs = c.legs /\ d.ending = c.ending /\ d.acct = c.acct
        /\ d.A = c.A /\ d.state = c.state /\ d.stray = c.stray /\ d.routes = q
        /\ d.acctA = c.acctA /\ d.acctO = c.acctO /\ d.connect_ts = c.connect_ts
        /\ d.rtp = c.rtp /\ d.auth = c.auth
        /\ d.proxied = c.proxied /\ d.owed = c.owed /\ d.late = c.late
    BY <1>1, <1>2 DEF Calls
  <1>4. Incoming(d) /\ Attempts(d)
    BY <1>2, <1>3 DEF Incoming, Attempts
  <1>5. InTurn(d)
    BY <1>2, <1>3 DEF InTurn, Billed
  <1>6. Routes(d)
    <2>1. Len(d.legs) + Len(d.routes) <= MaxRoutes
      <3>1. /\ Len(c.legs) \in Nat /\ Len(c.routes) \in Nat /\ Len(q) \in Nat /\ MaxRoutes \in Nat
            /\ Len(c.legs) + Len(c.routes) <= MaxRoutes
        BY <1>2, LegIndex, LenProperties DEF Routes, Calls
      <3>2. PICK x \in Nat, y \in Nat, z \in Nat :
              x = Len(c.legs) /\ y = Len(c.routes) /\ z = Len(q)
        BY <3>1
      <3>3. x + z <= MaxRoutes
        <4>1. x + y <= MaxRoutes
          BY <3>1, <3>2
        <4>2. z <= y
          BY <3>2
        <4> QED  BY <3>1, <4>1, <4>2
      <3> QED  BY <1>3, <3>2, <3>3
    <2>2. \A i \in DOMAIN d.legs, k \in DOMAIN d.routes : d.legs[i].rnum < d.routes[k]
      BY <1>2, <1>3 DEF Routes
    <2> QED  BY <1>2, <1>3, <2>1, <2>2 DEF Routes
  <1>7. Queue(d) /\ \A i \in DOMAIN c.legs : Buried(c, i) => Buried(d, i)
    BY <1>2, <1>3, QueueSame DEF Ages
  <1>8. InOrder(d)
    BY <1>2, <1>3, <1>7 DEF InOrder
  <1>9. HungUp(c) => HungUp(d)
    BY <1>3 DEF HungUp, Idle
  <1>10. Base(d)
    BY <1>3, <1>4, <1>5, <1>6, <1>7, <1>8 DEF Base
  <1>11. Quiet(c) => Quiet(d)
    BY <1>3, <1>9, <1>10 DEF Quiet
  <1> QED  BY <1>1, <1>3, <1>7, <1>9, <1>10, <1>11

\* An attempt failed: the next route is taken from the list.
\* Room for one more attempt.
LEMMA RoomLeft ==
    ASSUME NEW n \in Nat, NEW m \in Nat, NEW max \in Nat
    PROVE  /\ n + m <= max => n + (m - 1) < max
           /\ n + m < max => n + 1 \in 1..max /\ n + 1 > n
  OBVIOUS

LEMMA Hunting ==
    ASSUME NEW c, Base(c), c.legs # <<>>, NEW x, Hunts(c, x),
           c.stray \/ \A i \in DOMAIN c.legs : Buried(c, i),
           NEW leg \in 0..MaxRoutes, leg # 0 => leg \in DOMAIN c.legs /\ c.stray
    PROVE  CallInv([c EXCEPT !.routes = Tail(@)],
                   [pc |-> "create", rnum |-> Head(c.routes), leg |-> leg])
  <1>1. /\ c \in Calls /\ Incoming(c) /\ Routes(c)
        /\ c.routes \in Seq(1..MaxRoutes) /\ c.routes # <<>> /\ Increasing(c.routes)
    BY DEF Base, Calls, Routes, Hunts
  <1>2. PICK r : r = Head(c.routes)
    OBVIOUS
  <1>3. PICK t : t = Tail(c.routes)
    OBVIOUS
  <1>4. /\ t \in Seq(1..MaxRoutes) /\ Len(t) = Len(c.routes) - 1 /\ Len(c.routes) \in Nat
        /\ Increasing(t) /\ r \in 1..MaxRoutes
        /\ \A k \in DOMAIN t : r < t[k]
        /\ r = c.routes[1] /\ 1 \in DOMAIN c.routes
        /\ \A k \in DOMAIN t : k + 1 \in DOMAIN c.routes /\ t[k] = c.routes[k + 1]
    BY <1>1, <1>2, <1>3, TailRoutes
  <1>5. PICK e : e = [c EXCEPT !.routes = t]
    OBVIOUS
  <1>6. /\ Base(e) /\ e.routes = t /\ e.legs = c.legs /\ e.state = c.state /\ e.stray = c.stray
        /\ e.A = c.A /\ e.auth = c.auth /\ e.acct = c.acct
        /\ \A i \in DOMAIN c.legs : Buried(c, i) => Buried(e, i)
    <2>1. Len(t) <= Len(c.routes) /\ \A k \in DOMAIN t : \E j \in DOMAIN c.routes : t[k] = c.routes[j]
      BY <1>4
    <2> QED  BY <1>4, <1>5, <2>1, FewerRoutes
  <1>7. c.A \in Early /\ c.A \notin Gone /\ c.A # "none"
    BY DEF Hunts, Early, Gone
  <1>8. Len(e.legs) + Len(e.routes) < MaxRoutes
    <2>1. PICK n \in Nat, m \in Nat : n = Len(c.legs) /\ m = Len(c.routes) /\ MaxRoutes \in Nat
      BY <1>1, <1>4, LegIndex
    <2>2. n + m <= MaxRoutes
      BY <1>1, <2>1 DEF Routes
    <2>3. Len(e.legs) = n /\ Len(e.routes) = m - 1
      BY <1>4, <1>6, <2>1
    <2>4. n + (m - 1) < MaxRoutes
      BY <2>1, <2>2, RoomLeft, RadiusCallAssumption DEF RadiusCallAssumption
    <2> QED  BY <2>3, <2>4
  <1>9. MayPlace(e, r)
    <2>1. c.acct[0].on = cfg.acct /\ c.auth \notin {"queued", "taken"}
      BY <1>1 DEF Incoming
    <2>2. \A i \in DOMAIN e.legs : e.legs[i].rnum < r
      BY <1>1, <1>4, <1>6 DEF Routes
    <2> QED  BY <1>4, <1>6, <1>7, <1>8, <2>1, <2>2 DEF MayPlace
  <1>10. HungUp(e)
    BY <1>6, <1>7 DEF HungUp
  <1>11. PICK h : h = [pc |-> "create", rnum |-> r, leg |-> leg]
    OBVIOUS
  <1>12. h.pc = "create" /\ h.rnum = r /\ h.leg = leg
    BY <1>11
  <1>13. Stopped(e, h)
    BY <1>6, <1>9, <1>12 DEF Stopped
  <1> QED  BY <1>2, <1>3, <1>5, <1>6, <1>10, <1>11, <1>13 DEF CallInv

-----------------------------------------------------------------------------
(* The steps of a handler: they end, stop again, or leave the handler alone. *)

LEMMA CallKeeps ==
    ASSUME NEW d, Harmless(cc, d), CallInv(cc, at), Call(d)
    PROVE  CallInv(cc', at')
  <1>1. cc' = d /\ at' = at
    BY DEF Call
  <1>2. CallInv(d, at)
    BY KeepsOn
  <1> QED  BY <1>1, <1>2

LEMMA CallQuiet ==
    ASSUME NEW d, Quiet(d), at.pc = "none", at.leg = 0, Call(d)
    PROVE  CallInv(cc', at')
  <1>1. cc' = d /\ at' = at
    BY DEF Call
  <1>2. CallInv(d, at)
    BY Finishes
  <1> QED  BY <1>1, <1>2

LEMMA EndsQuiet ==
    ASSUME NEW c, Quiet(c), at.leg # 0 => at.leg \in DOMAIN c.legs, Ends(c)
    PROVE  CallInv(cc', at')
  <1>1. PICK d : d = IF at.leg = 0 THEN c ELSE HangupO(c, at.leg)
    OBVIOUS
  <1>2. cc' = d /\ at' = NoHandler
    BY <1>1 DEF Ends, Goes
  <1>3. Quiet(d)
    <2>1. CASE at.leg = 0
      BY <1>1, <2>1
    <2>2. CASE at.leg # 0
      <3>1. Harmless(c, d)
        BY <1>1, <2>2, HangsAny DEF Quiet
      <3> QED  BY <3>1, KeepsOn
    <2> QED  BY <2>1, <2>2
  <1>4. NoHandler.pc = "none" /\ NoHandler.leg = 0
    BY DEF NoHandler
  <1>5. CallInv(d, NoHandler)
    BY <1>3, <1>4, Finishes
  <1> QED  BY <1>2, <1>5

\* What the handler will end after it is done is one of the attempts.
LEMMA HandlerLeg ==
    ASSUME NEW c, CallInv(c, at), NEW d, DOMAIN c.legs \subseteq DOMAIN d.legs
    PROVE  at.leg # 0 => at.leg \in DOMAIN d.legs
  BY DEF CallInv, Stopped

\* The handler stops elsewhere.
LEMMA StopFields ==
    ASSUME at \in Handlers, NEW pc \in {"try", "session", "rDone", "route", "create", "setup",
                                        "send", "connect"}
    PROVE  /\ Stop(pc) \in Handlers /\ Stop(pc).pc = pc
           /\ Stop(pc).rnum = at.rnum /\ Stop(pc).leg = at.leg
  BY DEF Stop, Handlers

-----------------------------------------------------------------------------
(* placeOriginate *)

\* The attempt i is added to c.
Adds(c, d, i, leg, bill) ==
    /\ d \in Calls /\ i = Len(c.legs) + 1 /\ d.legs = Append(c.legs, leg)
    /\ d.acctO = IF bill THEN i ELSE 0
    /\ d.A = c.A /\ d.state = c.state /\ d.stray = c.stray /\ d.routes = c.routes
    /\ d.acctA = c.acctA /\ d.connect_ts = c.connect_ts /\ d.ending = c.ending
    /\ d.rtp = c.rtp /\ d.auth = c.auth
    /\ d.proxied = c.proxied /\ d.owed = c.owed /\ d.late = c.late
    /\ \A k \in 0..MaxRoutes : k # i => d.acct[k] = c.acct[k]
    /\ Account(d.acct[i], FALSE, FALSE)
    /\ bill => d.acct[i].on

LEMMA LegAdded ==
    ASSUME NEW c, Base(c), HungUp(c), NEW rnum, MayPlace(c, rnum), NEW i, NEW leg \in Legs,
           leg.st = "none", leg.rnum = rnum, ~leg.bill, leg.wait = "no",
           NEW bill \in BOOLEAN, NEW d, Adds(c, d, i, leg, bill)
    PROVE  /\ Base(d) /\ HungUp(d) /\ d.legs # <<>> /\ DOMAIN c.legs \subseteq DOMAIN d.legs
           /\ i = Len(d.legs) /\ Unset(d, i)
  <1>1. /\ c \in Calls /\ Routes(c) /\ Attempts(c) /\ InTurn(c) /\ Incoming(c) /\ Queue(c)
        /\ InOrder(c)
    BY DEF Base
  <1>2. /\ DOMAIN c.legs = 1..Len(c.legs) /\ Len(c.legs) \in Nat /\ c.legs \in Seq(Legs)
        /\ MaxRoutes \in Nat /\ Len(c.routes) \in Nat
    BY <1>1, LegIndex DEF Calls
  <1>3. i \in 1..MaxRoutes /\ i = Len(c.legs) + 1 /\ Len(c.legs) < i
    <2>1. i = Len(c.legs) + 1
      BY DEF Adds
    <2>2. Len(c.legs) + Len(c.routes) < MaxRoutes
      BY DEF MayPlace
    <2>3. PICK n \in Nat, m \in Nat : n = Len(c.legs) /\ m = Len(c.routes)
      BY <1>2
    <2>4. MaxRoutes \in Nat /\ n + m < MaxRoutes
      BY <1>2, <2>2, <2>3
    <2>5. n + 1 \in 1..MaxRoutes /\ n < n + 1
      BY <2>4
    <2> QED  BY <2>1, <2>3, <2>5
  <1>4. /\ Len(d.legs) = i /\ DOMAIN d.legs = 1..i /\ d.legs[i] = leg
        /\ \A j \in 1..Len(c.legs) : d.legs[j] = c.legs[j]
        /\ \A j \in 1..i : j = i \/ j \in 1..Len(c.legs)
        /\ 1..Len(c.legs) \subseteq 1..i
    BY <1>2, <1>3, AppendProperties DEF Adds
  <1>9. d.legs # <<>> /\ d \in Calls
    BY <1>3, <1>4 DEF Adds
  <1>5. Incoming(d)
    <2>1. d.acct[0] = c.acct[0]
      BY <1>2, <1>3 DEF Adds
    <2>2. c.A # "none" /\ c.acct[0].on = cfg.acct /\ c.auth \notin {"queued", "taken"}
      BY DEF MayPlace
    <2> QED  BY <1>1, <1>9, <2>1, <2>2 DEF Incoming, Adds
  <1>6. Routes(d)
    <2>1. Len(d.legs) + Len(d.routes) <= MaxRoutes /\ d.routes = c.routes
      <3>1. Len(c.legs) + Len(c.routes) < MaxRoutes
        BY DEF MayPlace
      <3>2. d.routes = c.routes
        BY DEF Adds
      <3>3. PICK n \in Nat, m \in Nat : n = Len(c.legs) /\ m = Len(c.routes)
        BY <1>2
      <3>4. MaxRoutes \in Nat /\ n + m < MaxRoutes /\ Len(d.legs) = n + 1 /\ Len(d.routes) = m
        BY <1>2, <1>3, <1>4, <3>1, <3>2, <3>3
      <3>5. (n + 1) + m <= MaxRoutes
        BY <3>4
      <3> QED  BY <3>2, <3>4, <3>5
    <2>2. \A j \in DOMAIN d.legs, k \in DOMAIN d.routes : d.legs[j].rnum < d.routes[k]
      BY <1>1, <1>2, <1>4, <2>1 DEF Routes, MayPlace
    <2>3. ASSUME NEW j \in DOMAIN d.legs, NEW k \in DOMAIN d.legs, j < k
          PROVE  d.legs[j].rnum < d.legs[k].rnum
      <3>1. j \in 1..Len(c.legs)
        BY <1>2, <1>3, <1>4, <2>3
      <3>2. CASE k = i
        BY <1>2, <1>4, <3>1, <3>2 DEF MayPlace
      <3>3. CASE k # i
        <4>1. k \in 1..Len(c.legs)
          BY <1>4, <3>3
        <4> QED  BY <1>1, <1>2, <1>4, <2>3, <3>1, <4>1 DEF Routes
      <3> QED  BY <3>2, <3>3
    <2> QED  BY <1>1, <2>1, <2>2, <2>3 DEF Routes
  <1>10. i \notin d.connect_ts
    BY <1>1, <1>3 DEF Attempts, Adds
  <1>7. Attempts(d)
    <2>1. d.acctO <= Len(d.legs) /\ \A u \in d.owed : u # 0 => u \in DOMAIN d.legs
      BY <1>1, <1>2, <1>3, <1>4 DEF Adds, Attempts
    <2>2. \A k \in 1..MaxRoutes : k > Len(d.legs) => d.acct[k] = NoAccount /\ k \notin d.connect_ts
      BY <1>1, <1>2, <1>3, <1>4 DEF Attempts, Adds
    <2>3. ASSUME NEW j \in DOMAIN d.legs
          PROVE  /\ d.legs[j].wait = "try" => d.legs[j].st \in {"idle"} \cup Ended
                 /\ d.legs[j].st = "none" => d.legs[j].wait = "no"
                 /\ j \in d.connect_ts => d.legs[j].st \in {"connected"} \cup Ended
      <3>1. CASE j = i
        BY <1>4, <1>10, <3>1
      <3>2. CASE j \in 1..Len(c.legs)
        BY <1>1, <1>2, <1>4, <3>2 DEF Attempts, Adds
      <3> QED  BY <1>4, <3>1, <3>2
    <2> QED  BY <1>9, <2>1, <2>2, <2>3 DEF Attempts
  <1>8. InTurn(d)
    <2> SUFFICES ASSUME ~c.stray, NEW j \in 1..i PROVE Billed(d, j)
      BY <1>4 DEF InTurn, Adds
    <2>1. CASE j = i
      BY <1>4, <1>10, <2>1 DEF Billed, Adds, Account, Active
    <2>2. CASE j \in 1..Len(c.legs)
      <3>1. c.legs[j].st \in Ended /\ Billed(c, j)
        BY <1>1, <1>2, <2>2 DEF MayPlace, InTurn, Buried, Ended
      <3>2. d.legs[j] = c.legs[j] /\ d.acct[j] = c.acct[j] /\ d.connect_ts = c.connect_ts
        BY <1>2, <1>3, <1>4, <2>2 DEF Adds
      <3> QED  BY <3>1, <3>2 DEF Billed, Active, Ended
    <2> QED  BY <1>4, <2>1, <2>2
  <1>11. Queue(d)
    <2>1. \A k \in DOMAIN c.ending : c.ending[k] # 0 =>
            /\ c.ending[k] \in 1..Len(c.legs) /\ c.legs[c.ending[k]].st = "over"
      BY <1>1, <1>2 DEF Queue
    <2>2. \A k \in DOMAIN c.ending : c.ending[k] # 0 =>
            /\ c.ending[k] \in DOMAIN d.legs /\ d.legs[c.ending[k]].st = "over"
      BY <1>4, <2>1
    <2> QED  BY <1>1, <2>2 DEF Queue, Adds
  <1>12. InOrder(d)
    <2> SUFFICES ASSUME ~c.stray, NEW j \in 1..i, j < i PROVE Buried(d, j)
      BY <1>4 DEF InOrder, Adds
    <2>1. j \in 1..Len(c.legs)
      BY <1>3, <1>4
    <2>2. Buried(c, j) /\ d.legs[j] = c.legs[j]
      BY <1>2, <1>4, <2>1 DEF MayPlace
    <2> QED  BY <2>2 DEF Buried, Before, Adds
  <1>13. HungUp(d)
    <2>1. Idle(c) => Idle(d)
      BY <1>2, <1>4 DEF Idle, Active, Adds
    <2> QED  BY <2>1 DEF HungUp, Adds
  <1>14. Unset(d, i)
    BY <1>4 DEF Unset, Adds
  <1> QED
    BY <1>2, <1>4, <1>5, <1>6, <1>7, <1>8, <1>9, <1>11, <1>12, <1>13, <1>14 DEF Base

LEMMA PlaceKeeps ==
    ASSUME cfg.acct \in BOOLEAN, at \in Handlers, CallInv(cc, at), placeOriginate
    PROVE  CallInv(cc', at')
  <1>1. PICK c : c = cc
    OBVIOUS
  <1>2. /\ Base(c) /\ HungUp(c) /\ MayPlace(c, at.rnum) /\ c \in Calls /\ Routes(c) /\ Attempts(c)
        /\ at.pc = "create"
    BY <1>1 DEF CallInv, Stopped, Base, placeOriginate, At
  <1>3. CASE Ends(FailA(c))
    <2>1. Idle(c)
      BY <1>2 DEF MayPlace, Idle, Buried, Active
    <2>2. PICK d : d = FailA(c)
      OBVIOUS
    <2>3. Base(d) /\ HungUp(d) /\ d.state = "Dead" /\ DOMAIN d.legs = DOMAIN c.legs
      BY <1>2, <2>1, <2>2, EndsIdle, FailsA DEF Harmless, Kept
    <2>4. Quiet(d)
      BY <2>3 DEF Quiet
    <2>5. at.leg # 0 => at.leg \in DOMAIN d.legs
      BY <1>1, <2>3, HandlerLeg
    <2> QED  BY <1>3, <2>2, <2>4, <2>5, EndsQuiet
  <1>4. ASSUME NEW bill \in {FALSE, cfg.acct},
               LET i == Current(c) + 1
                   leg == [st |-> "none", rnum |-> at.rnum, bill |-> FALSE, wait |-> "no"]
                   c1 == IF bill THEN SetParams(c, i) ELSE c
               IN  Goes([c1 EXCEPT !.legs = Append(@, leg), !.acctO = IF bill THEN i ELSE 0],
                        Stop("setup"))
        PROVE  CallInv(cc', at')
    <2>1. PICK i : i = Len(c.legs) + 1
      OBVIOUS
    <2>2. PICK leg : leg = [st |-> "none", rnum |-> at.rnum, bill |-> FALSE, wait |-> "no"]
      OBVIOUS
    <2>3. PICK c1 : c1 = IF bill THEN SetParams(c, i) ELSE c
      OBVIOUS
    <2>4. PICK l : l = Append(c1.legs, leg)
      OBVIOUS
    <2>5. PICK o : o = IF bill THEN i ELSE 0
      OBVIOUS
    <2>6. PICK d : d = [c1 EXCEPT !.legs = l, !.acctO = o]
      OBVIOUS
    <2>7. cc' = d /\ at' = Stop("setup")
      BY <1>4, <2>1, <2>2, <2>3, <2>4, <2>5, <2>6 DEF Goes, Current
    <2>8. /\ Len(c.legs) \in Nat /\ i \in 1..MaxRoutes /\ i > Len(c.legs) /\ 0 \in 0..MaxRoutes
          /\ bill \in BOOLEAN /\ at.rnum \in 1..MaxRoutes /\ MaxRoutes \in Nat
      <3>1. Len(c.legs) \in Nat /\ MaxRoutes \in Nat /\ 0 \in 0..MaxRoutes
        BY <1>2, LegIndex
      <3>2. c.routes \in Seq(1..MaxRoutes)
        BY <1>2 DEF Calls
      <3>3. Len(c.legs) + Len(c.routes) < MaxRoutes /\ at.rnum \in 1..MaxRoutes
        BY <1>2 DEF MayPlace
      <3>4. PICK n \in Nat, m \in Nat : n = Len(c.legs) /\ m = Len(c.routes)
        BY <3>1, <3>2
      <3>5. n + m < MaxRoutes /\ i = n + 1
        BY <2>1, <3>3, <3>4
      <3>6. i \in 1..MaxRoutes /\ i > n
        BY <3>1, <3>5, RoomLeft
      <3>7. bill \in BOOLEAN
        BY <1>4
      <3> QED  BY <3>1, <3>3, <3>4, <3>6, <3>7
    <2>9. /\ leg \in Legs /\ leg.st = "none" /\ leg.rnum = at.rnum /\ ~leg.bill /\ leg.wait = "no"
      BY <2>2, <2>8 DEF Legs, OStates
    <2>10. /\ c1 \in Calls /\ Same(c, c1) /\ \A k \in 0..MaxRoutes : k # i => c1.acct[k] = c.acct[k]
           /\ Account(c1.acct[i], FALSE, FALSE) /\ (bill => c1.acct[i].on)
      <3>1. c.acct[i] = NoAccount
        BY <1>2, <2>8 DEF Attempts
      <3>2. CASE bill
        <4>1. PICK a : a = [NoAccount EXCEPT !.on = cfg.acct]
          OBVIOUS
        <4>2. a \in Accounts /\ Account(a, FALSE, FALSE) /\ a.on
          BY <3>2, <4>1 DEF Accounts, Account, NoAccount
        <4>3. c1 = [c EXCEPT !.acct[i] = a]
          BY <2>3, <3>1, <3>2, <4>1 DEF SetParams
        <4>4. /\ c1 \in Calls /\ Same(c, c1) /\ c1.acct[i] = a
              /\ \A k \in 0..MaxRoutes : k # i => c1.acct[k] = c.acct[k]
          <5>1. c \in Calls /\ i \in 0..MaxRoutes /\ a \in Accounts
            BY <1>2, <2>8, <4>2
          <5> QED  BY <4>3, <5>1, SetsOne
        <4> QED  BY <4>2, <4>4
      <3>3. CASE ~bill
        <4>1. Account(NoAccount, FALSE, FALSE)
          BY DEF Account, NoAccount
        <4> QED  BY <1>2, <2>3, <3>1, <3>3, <4>1 DEF Same
      <3> QED  BY <3>2, <3>3
    <2>11. Adds(c, d, i, leg, bill)
      <3>1. l \in Seq(Legs) /\ o \in 0..MaxRoutes /\ l = Append(c.legs, leg)
        BY <2>4, <2>5, <2>8, <2>9, <2>10 DEF Calls, Same
      <3>2. /\ d \in Calls /\ d.legs = l /\ d.acctO = o
            /\ d.A = c1.A /\ d.state = c1.state /\ d.stray = c1.stray /\ d.routes = c1.routes
            /\ d.acctA = c1.acctA /\ d.connect_ts = c1.connect_ts /\ d.ending = c1.ending
            /\ d.rtp = c1.rtp /\ d.auth = c1.auth /\ d.acct = c1.acct
            /\ d.proxied = c1.proxied /\ d.owed = c1.owed /\ d.late = c1.late
        BY <2>6, <2>10, <3>1 DEF Calls
      <3> QED  BY <2>1, <2>5, <2>10, <3>1, <3>2 DEF Adds, Same
    <2>12. /\ Base(d) /\ HungUp(d) /\ d.legs # <<>> /\ DOMAIN c.legs \subseteq DOMAIN d.legs
           /\ i = Len(d.legs) /\ Unset(d, i)
      BY <1>2, <2>8, <2>9, <2>11, LegAdded
    <2>13. /\ Stop("setup").pc = "setup" /\ Stop("setup").leg = at.leg
      BY StopFields
    <2>14. at.leg # 0 => at.leg \in DOMAIN d.legs /\ d.stray
      <3>1. at.leg # 0 => at.leg \in DOMAIN c.legs /\ c.stray
        BY <1>1 DEF CallInv, Stopped
      <3> QED  BY <2>11, <2>12, <3>1 DEF Adds
    <2>15. Stopped(d, Stop("setup"))
      BY <2>12, <2>13, <2>14 DEF Stopped
    <2> QED  BY <2>7, <2>12, <2>15 DEF CallInv
  <1> QED  BY <1>1, <1>3, <1>4 DEF placeOriginate

\* The callbacks of attempt i are set.
LEMMA SetBill ==
    ASSUME NEW c \in Calls, NEW i \in DOMAIN c.legs, NEW b \in BOOLEAN,
           NEW d, d = [c EXCEPT !.legs[i].bill = b]
    PROVE  /\ d \in Calls
           /\ d.A = c.A /\ d.state = c.state /\ d.stray = c.stray /\ d.routes = c.routes
           /\ d.acctA = c.acctA /\ d.acctO = c.acctO /\ d.connect_ts = c.connect_ts
           /\ d.rtp = c.rtp /\ d.auth = c.auth /\ d.acct = c.acct /\ d.ending = c.ending
           /\ d.proxied = c.proxied /\ d.owed = c.owed /\ d.late = c.late
           /\ Len(d.legs) = Len(c.legs) /\ DOMAIN d.legs = DOMAIN c.legs
           /\ \A j \in DOMAIN c.legs : /\ j # i => d.legs[j] = c.legs[j]
                                       /\ d.legs[j].st = c.legs[j].st
                                       /\ d.legs[j].rnum = c.legs[j].rnum
                                       /\ d.legs[j].wait = c.legs[j].wait
           /\ d.legs[i].bill = b
  <1>1. c.legs \in Seq(Legs) /\ c.legs[i] \in Legs
    BY DEF Calls
  <1>2. PICK r : r = [c.legs[i] EXCEPT !.bill = b]
    OBVIOUS
  <1>3. PICK l : l = [c.legs EXCEPT ![i] = r]
    OBVIOUS
  <1>4. /\ r \in Legs /\ r.bill = b /\ r.st = c.legs[i].st /\ r.rnum = c.legs[i].rnum
        /\ r.wait = c.legs[i].wait
    BY <1>1, <1>2 DEF Legs
  <1>5. /\ l \in Seq(Legs) /\ Len(l) = Len(c.legs) /\ DOMAIN l = DOMAIN c.legs
        /\ l[i] = r /\ \A j \in DOMAIN c.legs : j # i => l[j] = c.legs[j]
    BY <1>1, <1>3, <1>4
  <1>6. d = [c EXCEPT !.legs = l]
    BY <1>2, <1>3
  <1>7. /\ d \in Calls /\ d.legs = l
        /\ d.A = c.A /\ d.state = c.state /\ d.stray = c.stray /\ d.routes = c.routes
        /\ d.acctA = c.acctA /\ d.acctO = c.acctO /\ d.connect_ts = c.connect_ts
        /\ d.rtp = c.rtp /\ d.auth = c.auth /\ d.acct = c.acct /\ d.ending = c.ending
        /\ d.proxied = c.proxied /\ d.owed = c.owed /\ d.late = c.late
    BY <1>5, <1>6 DEF Calls
  <1> QED  BY <1>4, <1>5, <1>7

LEMMA CallbacksKeep ==
    ASSUME at \in Handlers, CallInv(cc, at), placeOriginate_Callbacks
    PROVE  CallInv(cc', at')
  <1>1. PICK c : c = cc
    OBVIOUS
  <1>2. /\ c \in Calls /\ Base(c) /\ HungUp(c) /\ c.legs # <<>> /\ at.pc = "setup"
        /\ Routes(c) /\ Attempts(c) /\ InTurn(c) /\ Incoming(c) /\ Queue(c) /\ InOrder(c)
        /\ (c.stray \/ Unset(c, Len(c.legs)))
        /\ (at.leg # 0 => at.leg \in DOMAIN c.legs /\ c.stray)
    BY <1>1 DEF CallInv, Stopped, Base, placeOriginate_Callbacks, At
  <1>3. PICK i \in DOMAIN c.legs : i = Len(c.legs)
    BY <1>2, EmptyLegs
  <1>4. PICK b \in BOOLEAN : b = (c.acctO = i /\ c.legs[i].st = "none")
    OBVIOUS
  <1>5. PICK d : d = [c EXCEPT !.legs[i].bill = b]
    OBVIOUS
  <1>6. cc' = d /\ at' = Stop("send")
    BY <1>1, <1>3, <1>4, <1>5 DEF placeOriginate_Callbacks, Goes, Current
  <1>7. /\ d \in Calls
        /\ d.A = c.A /\ d.state = c.state /\ d.stray = c.stray /\ d.routes = c.routes
        /\ d.acctA = c.acctA /\ d.acctO = c.acctO /\ d.connect_ts = c.connect_ts
        /\ d.rtp = c.rtp /\ d.auth = c.auth /\ d.acct = c.acct /\ d.ending = c.ending
        /\ d.proxied = c.proxied /\ d.owed = c.owed /\ d.late = c.late
        /\ Len(d.legs) = Len(c.legs) /\ DOMAIN d.legs = DOMAIN c.legs
        /\ \A j \in DOMAIN c.legs : /\ j # i => d.legs[j] = c.legs[j]
                                    /\ d.legs[j].st = c.legs[j].st
                                    /\ d.legs[j].rnum = c.legs[j].rnum
                                    /\ d.legs[j].wait = c.legs[j].wait
        /\ d.legs[i].bill = b
    BY <1>2, <1>5, SetBill
  <1>8. d.legs # <<>>
    BY <1>2, <1>7
  <1>9. Incoming(d)
    BY <1>2, <1>7, <1>8 DEF Incoming
  <1>10. Routes(d)
    BY <1>2, <1>7 DEF Routes
  <1>11. Attempts(d)
    BY <1>2, <1>7, <1>8 DEF Attempts
  <1>12. Queue(d) /\ \A j \in DOMAIN c.legs : Buried(c, j) => Buried(d, j)
    BY <1>2, <1>7, QueueSame DEF Ages
  <1>13. InOrder(d)
    BY <1>2, <1>7, <1>12 DEF InOrder
  <1>14. ~c.stray => Billed(d, i)
    <2> SUFFICES ASSUME ~c.stray PROVE Billed(d, i)
      OBVIOUS
    <2>1. Unset(c, i) /\ Billed(c, i)
      BY <1>2, <1>3 DEF InTurn
    <2>2. i \in c.connect_ts => c.legs[i].st \in {"connected"} \cup Ended
      BY <1>2 DEF Attempts
    <2>3. Account(c.acct[i], FALSE, FALSE)
      BY <2>1 DEF Billed, Unset
    <2>4. /\ ~(d.legs[i].bill /\ i \in d.connect_ts) /\ ~(d.legs[i].bill /\ d.legs[i].st \in Ended)
          /\ d.legs[i].st \notin Active
      BY <1>4, <1>7, <2>1, <2>2 DEF Unset, Ended, Active
    <2>5. Account(d.acct[i], d.legs[i].bill /\ i \in d.connect_ts,
                  d.legs[i].bill /\ d.legs[i].st \in Ended)
      BY <1>7, <2>3, <2>4 DEF Account
    <2>6. d.legs[i].bill => d.acct[i].on /\ d.acctO = i
      BY <1>4, <1>7, <2>1 DEF Unset
    <2> QED  BY <2>4, <2>5, <2>6 DEF Billed
  <1>15. InTurn(d)
    <2>1. \A j \in DOMAIN c.legs : j # i /\ Billed(c, j) => Billed(d, j)
      BY <1>7 DEF Billed
    <2> QED  BY <1>2, <1>7, <1>14, <2>1 DEF InTurn
  <1>16. Base(d)
    BY <1>7, <1>9, <1>10, <1>11, <1>12, <1>13, <1>15 DEF Base
  <1>17. HungUp(d)
    BY <1>2, <1>7, StaysHungUp
  <1>18. d.stray \/ Unsent(d, Len(d.legs))
    <2>1. Len(d.legs) = i
      BY <1>3, <1>7
    <2>2. c.stray \/ Unset(c, i)
      BY <1>2, <1>3
    <2>3. Unset(c, i) => Unsent(d, i)
      BY <1>4, <1>7 DEF Unset, Unsent
    <2> QED  BY <1>7, <2>1, <2>2, <2>3
  <1>19. Stop("send").pc = "send" /\ Stop("send").leg = at.leg
    BY StopFields
  <1>20. Stopped(d, Stop("send"))
    BY <1>2, <1>7, <1>8, <1>18, <1>19 DEF Stopped
  <1> QED  BY <1>6, <1>16, <1>17, <1>20 DEF CallInv

\* The history t is noted in c.
Noted(c, d, t) ==
    /\ d \in Calls /\ d.legs = c.legs /\ d.late = t
    /\ d.A = c.A /\ d.state = c.state /\ d.stray = c.stray /\ d.routes = c.routes
    /\ d.acctA = c.acctA /\ d.acctO = c.acctO /\ d.connect_ts = c.connect_ts
    /\ d.rtp = c.rtp /\ d.auth = c.auth /\ d.acct = c.acct /\ d.ending = c.ending
    /\ d.proxied = c.proxied /\ d.owed = c.owed

LEMMA Notes ==
    ASSUME NEW c \in Calls, NEW t \in SUBSET {"session", "attempt"}, NEW d, d = [c EXCEPT !.late = t]
    PROVE  Noted(c, d, t)
  BY DEF Calls, Noted

\* The Try of the last attempt goes out, or is with the rtpproxy.
LEMMA Sends ==
    ASSUME NEW c, Quiet(c), c.legs # <<>>, NEW i, i = Len(c.legs), c.stray \/ Unsent(c, i),
           c.legs[i].st = "none", NEW g, Moves(c, g, i), g.ending = c.ending,
           g.legs[i].st \in {"trying", "idle"}, g.legs[i].wait \in {"no", "try"},
           g.legs[i].wait = "try" => g.legs[i].st = "idle",
           NEW t, c.late \subseteq t, c.A \in Gone => "attempt" \in t, NEW d, Noted(g, d, t)
    PROVE  Quiet(d) /\ DOMAIN d.legs = DOMAIN c.legs
  <1>1. /\ c \in Calls /\ Base(c) /\ HungUp(c) /\ Attempts(c) /\ i \in DOMAIN c.legs
    BY EmptyLegs DEF Quiet, Base
  <1>3. PICK e : e = [c EXCEPT !.late = t]
    OBVIOUS
  <1>10. /\ d \in Calls /\ d.legs = g.legs /\ d.late = t
         /\ d.A = g.A /\ d.state = g.state /\ d.stray = g.stray /\ d.routes = g.routes
         /\ d.acctA = g.acctA /\ d.acctO = g.acctO /\ d.connect_ts = g.connect_ts
         /\ d.rtp = g.rtp /\ d.auth = g.auth /\ d.acct = g.acct /\ d.ending = g.ending
         /\ d.proxied = g.proxied /\ d.owed = g.owed
    BY DEF Noted
  <1>9. t \in SUBSET {"session", "attempt"}
    BY <1>10 DEF Calls
  <1>11. /\ e \in Calls /\ e.legs = c.legs /\ e.late = t
         /\ e.A = c.A /\ e.state = c.state /\ e.stray = c.stray /\ e.routes = c.routes
         /\ e.acctA = c.acctA /\ e.acctO = c.acctO /\ e.connect_ts = c.connect_ts
         /\ e.rtp = c.rtp /\ e.auth = c.auth /\ e.acct = c.acct /\ e.ending = c.ending
         /\ e.proxied = c.proxied /\ e.owed = c.owed
    BY <1>1, <1>3, <1>9 DEF Calls
  <1>12. Base(e)
    <2>1. /\ 0 \in c.owed => c.A = "over"
          /\ \A u \in c.owed : u # 0 => u \in DOMAIN c.legs
      BY <1>1 DEF Base, Incoming, Attempts
    <2>2. Alike(c, e)
      BY <1>11, <2>1 DEF Alike
    <2> QED  BY <1>1, <2>2, AlikeCalls
  <1>13. Moves(e, d, i)
    BY <1>10, <1>11 DEF Moves
  <1>14. Allowed(e, d, i)
    <2>1. /\ e.legs[i].st = "none" /\ d.legs[i].st \in {"trying", "idle"}
          /\ d.legs[i].wait = "try" => d.legs[i].st = "idle"
      BY <1>10, <1>11
    <2>2. i \notin e.connect_ts
      BY <1>1, <1>11 DEF Attempts, Ended
    <2>3. e.stray \/ (~e.legs[i].bill => e.acctO = 0)
      BY <1>11 DEF Unsent
    <2> QED  BY <2>1, <2>2, <2>3 DEF Allowed, Ended
  <1>15. Base(d)
    <2>1. d.ending = e.ending /\ e.legs[i].st \notin Gone /\ i \in DOMAIN e.legs
      BY <1>1, <1>10, <1>11 DEF Gone
    <2> QED  BY <1>12, <1>13, <1>14, <2>1, LegMovesOn
  <1>16. HungUp(d)
    BY <1>10 DEF HungUp, Moves
  <1>17. DOMAIN d.legs = DOMAIN c.legs /\ d.legs # <<>>
    BY <1>1, <1>11, <1>13 DEF Moves
  <1> QED  BY <1>15, <1>16, <1>17 DEF Quiet

LEMMA TryKeeps ==
    ASSUME at \in Handlers, CallInv(cc, at), placeOriginate_Try
    PROVE  CallInv(cc', at')
  <1>1. PICK c : c = cc
    OBVIOUS
  <1>2. /\ c \in Calls /\ Base(c) /\ HungUp(c) /\ c.legs # <<>> /\ at.pc = "send" /\ Quiet(c)
        /\ (c.stray \/ Unsent(c, Len(c.legs)))
        /\ (at.leg # 0 => at.leg \in DOMAIN c.legs)
    BY <1>1 DEF CallInv, Stopped, Base, Quiet, placeOriginate_Try, At
  <1>3. CASE Ends(c)
    BY <1>2, <1>3, EndsQuiet
  <1>4. ASSUME NEW gt \in {0} \cup 2..(MaxRoutes + 2), NEW c1,
               c1 = [c EXCEPT !.gts = IF gt = 0 THEN @ ELSE @ \cup {gt},
                              !.proxied = @ \/ c.rtp = "open"],
               NEW d \in SendTry(c1), Ends(d)
        PROVE  CallInv(cc', at')
    <2>1. PICK g, p : /\ g = (IF gt = 0 THEN c.gts ELSE c.gts \cup {gt})
                      /\ p = (c.proxied \/ c.rtp = "open")
      OBVIOUS
    <2>2. g \in SUBSET (2..(MaxRoutes + 2)) /\ p \in BOOLEAN
      BY <1>2, <2>1 DEF Calls
    <2>3. c1 = [c EXCEPT !.gts = g, !.proxied = p]
      BY <1>2, <1>4, <2>1 DEF Calls
    <2>4. /\ c1 \in Calls /\ c1.legs = c.legs /\ c1.late = c.late
          /\ c1.A = c.A /\ c1.state = c.state /\ c1.stray = c.stray /\ c1.routes = c.routes
          /\ c1.acctA = c.acctA /\ c1.acctO = c.acctO /\ c1.connect_ts = c.connect_ts
          /\ c1.rtp = c.rtp /\ c1.auth = c.auth /\ c1.acct = c.acct /\ c1.ending = c.ending
          /\ c1.owed = c.owed
      BY <1>2, <2>2, <2>3 DEF Calls
    <2>5. Alike(c, c1)
      BY <1>2, <2>4 DEF Alike, Base, Incoming, Attempts
    <2>6. Base(c1) /\ HungUp(c1) /\ Quiet(c1)
      BY <1>2, <2>4, <2>5, AlikeCalls DEF Quiet
    <2>7. PICK i \in DOMAIN c.legs : i = Len(c.legs)
      BY <1>2, EmptyLegs
    <2>8. c1.stray \/ Unsent(c1, i)
      BY <1>2, <2>4, <2>7 DEF Unsent
    <2>9. CASE d = FailA(c1)
      <3>1. Idle(c1)
        <4>1. CASE c1.stray
          BY <4>1 DEF Idle
        <4>2. CASE ~c1.stray
          <5>1. c1.legs[i].st \notin Active /\ i \in DOMAIN c1.legs /\ i = Len(c1.legs)
            BY <2>4, <2>7, <2>8, <4>2 DEF Unsent, Active, Ended
          <5> QED  BY <2>6, <5>1, LastNotActive
        <4> QED  BY <4>1, <4>2
      <3>2. Harmless(c1, d)
        BY <2>6, <2>9, <3>1, EndsIdle
      <3>3. Quiet(d) /\ DOMAIN d.legs = DOMAIN c.legs
        BY <2>4, <2>6, <3>2, KeepsOn DEF Harmless, Kept
      <3> QED  BY <1>2, <1>4, <3>3, EndsQuiet
    <2>10. CASE d = c1
      BY <1>2, <1>4, <2>4, <2>6, <2>10, EndsQuiet
    <2>11. ASSUME NEW x \in {"trying", "idle"}, NEW w \in {"no", "try"}, w = "try" => x = "idle",
                  c1.legs[i].st = "none",
                  d = [c1 EXCEPT !.legs[i].st = x, !.legs[i].wait = w,
                                 !.late = IF c1.A \in Gone THEN @ \cup {"attempt"} ELSE @]
           PROVE  CallInv(cc', at')
      <3>1. c1.legs # <<>> /\ i = Len(c1.legs)
        BY <1>2, <2>4, <2>7
      <3>2. PICK f : f = [c1 EXCEPT !.legs[i].st = x]
        OBVIOUS
      <3>3. PICK h : h = [f EXCEPT !.legs[i].wait = w]
        OBVIOUS
      <3>4. PICK t : t = IF c1.A \in Gone THEN c1.late \cup {"attempt"} ELSE c1.late
        OBVIOUS
      <3>7. i \in DOMAIN c1.legs /\ x \in OStates
        BY <2>4 DEF OStates
      <3>8. OnlyLeg(c1, f, i) /\ f.legs[i].st = x /\ f.ending = c1.ending /\ f.acct = c1.acct
        BY <2>4, <3>2, <3>7, SetLeg
      <3>9. Moves(c1, f, i) /\ f \in Calls /\ i \in DOMAIN f.legs
        BY <3>7, <3>8, OnlyMoves DEF OnlyLeg
      <3>10. /\ Moves(f, h, i) /\ h.legs[i].wait = w /\ h.legs[i].st = x /\ h.ending = f.ending
        BY <3>3, <3>8, <3>9, SetWait
      <3>11. Moves(c1, h, i) /\ h.ending = c1.ending
        BY <3>8, <3>9, <3>10 DEF Moves
      <3>5. d = [h EXCEPT !.late = t]
        <4>1. h.late = c1.late
          BY <3>11 DEF Moves
        <4> QED  BY <2>11, <3>2, <3>3, <3>4, <4>1
      <3>12. c1.legs[i].st = "none" /\ (w = "try" => x = "idle")
        BY <2>11
      <3>13. /\ t \in SUBSET {"session", "attempt"} /\ c1.late \subseteq t
             /\ c1.A \in Gone => "attempt" \in t
        BY <2>4, <3>4 DEF Calls
      <3>14. Noted(h, d, t)
        <4>1. h \in Calls
          BY <3>11 DEF Moves
        <4> QED  BY <3>5, <3>13, <4>1, Notes
      <3>15. /\ h.legs[i].st \in {"trying", "idle"} /\ h.legs[i].wait \in {"no", "try"}
             /\ h.legs[i].wait = "try" => h.legs[i].st = "idle"
        BY <3>10, <3>12
      <3>6. Quiet(d) /\ DOMAIN d.legs = DOMAIN c1.legs
        BY <2>6, <2>8, <3>1, <3>11, <3>12, <3>13, <3>14, <3>15, Sends
      <3> QED  BY <1>2, <1>4, <2>4, <3>6, EndsQuiet
    <2>12. /\ Current(c1) = i
           /\ {"trying", "idle"} # {}
      BY <2>4, <2>7 DEF Current
    <2> QED  BY <1>4, <2>9, <2>10, <2>11, <2>12 DEF SendTry
  <1> QED  BY <1>1, <1>3, <1>4 DEF placeOriginate_Try

-----------------------------------------------------------------------------
(* The Try and its authorisation: there is no attempt yet. *)

\* Only fields of the incoming leg differ.
LEMMA IncomingOnly ==
    ASSUME NEW c, Base(c), NEW d \in Calls, SameLegs(c, d), Incoming(d), d.ending = c.ending,
           c.A \in Gone <=> d.A \in Gone, d.A = "dead" => c.A = "dead"
    PROVE  Base(d) /\ \A i \in DOMAIN c.legs : Buried(c, i) => Buried(d, i)
  <1>1. c \in Calls /\ Routes(c) /\ Attempts(c) /\ InTurn(c) /\ Queue(c) /\ InOrder(c)
    BY DEF Base
  <1>2. Routes(d) /\ Attempts(d) /\ InTurn(d)
    BY <1>1, LegsKept
  <1>3. Queue(d) /\ \A i \in DOMAIN c.legs : Buried(c, i) => Buried(d, i)
    <2>1. Ages(c, d)
      BY DEF Ages, SameLegs
    <2> QED  BY <1>1, <2>1, QueueSame
  <1>4. InOrder(d)
    BY <1>1, <1>3 DEF InOrder, SameLegs
  <1> QED  BY <1>2, <1>3, <1>4 DEF Base

LEMMA NoLegs ==
    ASSUME NEW c, c.legs = <<>>
    PROVE  Idle(c) /\ HungUp(c)
  BY DEF Idle, HungUp

\* A handler that has stopped before the first attempt.
LEMMA BeforeLegs ==
    ASSUME CallInv(cc, at), at.pc \in {"try", "session", "rDone", "route"}
    PROVE  /\ cc \in Calls /\ Base(cc) /\ HungUp(cc) /\ Idle(cc) /\ Unbegun(cc) /\ Incoming(cc)
           /\ cc.legs = <<>> /\ at.leg = 0 /\ cc.state # "ARComplete" /\ Quiet(cc)
           /\ Len(cc.legs) = 0 /\ DOMAIN cc.legs = {}
           /\ at.pc # "route" => ~cc.acct[0].on
           /\ at.pc = "route" => cc.acct[0].on = cfg.acct
  <1>1. /\ cc \in Calls /\ Base(cc) /\ HungUp(cc) /\ Unbegun(cc) /\ Incoming(cc)
        /\ cc.legs = <<>>
    BY DEF CallInv, Stopped, Unbegun, Base
  <1>2. DOMAIN cc.legs = {} /\ Len(cc.legs) = 0
    BY <1>1
  <1>3. at.leg = 0 /\ cc.state # "ARComplete"
    BY <1>1, <1>2 DEF CallInv, Stopped
  <1>4. /\ at.pc # "route" => ~cc.acct[0].on
        /\ at.pc = "route" => cc.acct[0].on = cfg.acct
    BY DEF CallInv, Stopped
  <1> QED  BY <1>1, <1>2, <1>3, <1>4, NoLegs DEF Quiet

\* The call is refused before the first attempt.
LEMMA Refuses ==
    ASSUME NEW c, Base(c), c.legs = <<>>, at.leg = 0, Ends(FailA(c))
    PROVE  CallInv(cc', at')
  <1>1. PICK d : d = FailA(c)
    OBVIOUS
  <1>2. Base(d) /\ d.state = "Dead" /\ d.legs = c.legs
    BY <1>1, FailsA DEF SameLegs
  <1>3. Quiet(d)
    BY <1>2, NoLegs DEF Quiet
  <1> QED  BY <1>1, <1>3, EndsQuiet

\* The handler goes on to pc, before the first attempt.
LEMMA GoesOn ==
    ASSUME NEW d, Base(d), Unbegun(d), d.state # "ARComplete", at \in Handlers, at.leg = 0,
           NEW pc \in {"try", "session", "rDone", "route"},
           IF pc = "route" THEN d.acct[0].on = cfg.acct ELSE ~d.acct[0].on,
           Goes(d, Stop(pc))
    PROVE  CallInv(cc', at')
  <1>1. cc' = d /\ at' = Stop(pc)
    BY DEF Goes
  <1>2. Stop(pc).pc = pc /\ Stop(pc).leg = 0
    BY StopFields
  <1>3. Stopped(d, Stop(pc))
    BY <1>2 DEF Stopped
  <1>4. HungUp(d)
    BY NoLegs DEF Unbegun
  <1> QED  BY <1>1, <1>3, <1>4 DEF CallInv

LEMMA RecvTryKeeps ==
    ASSUME at \in Handlers, CallInv(cc, at), RecvTry
    PROVE  CallInv(cc', at')
  <1>1. at.pc = "none" /\ cc.A = "none"
    BY DEF RecvTry, Locked
  <1>2. /\ Quiet(cc) /\ at.leg = 0 /\ cc \in Calls /\ Base(cc) /\ Incoming(cc)
    BY <1>1, Rests DEF Quiet, Base
  <1>3. PICK d : d = [cc EXCEPT !.A = "trying", !.cId = TRUE]
    OBVIOUS
  <1>4. /\ d \in Calls /\ d.A = "trying" /\ d.state = cc.state /\ d.legs = cc.legs
        /\ d.connect_ts = cc.connect_ts /\ d.acct = cc.acct /\ d.acctA = cc.acctA
        /\ d.acctO = cc.acctO /\ d.routes = cc.routes /\ d.auth = cc.auth /\ d.rtp = cc.rtp
        /\ d.ending = cc.ending /\ d.stray = cc.stray /\ d.proxied = cc.proxied
        /\ d.owed = cc.owed /\ d.late = cc.late
    <2>1. cc \in Calls
      BY <1>2
    <2> QED  BY <1>3, <2>1 DEF Calls, AStates
  <1>5. /\ cc.legs = <<>> /\ cc.auth \notin {"queued", "taken"} /\ ~cc.acct[0].on
        /\ cc.state # "ARComplete"
    BY <1>1, <1>2 DEF Incoming, Quiet
  <1>6. Incoming(d)
    BY <1>1, <1>2, <1>4, <1>5 DEF Incoming, Gone
  <1>7. Base(d)
    BY <1>1, <1>2, <1>4, <1>6, IncomingOnly DEF SameLegs, Gone
  <1>8. Unbegun(d) /\ d.state # "ARComplete" /\ ~d.acct[0].on
    BY <1>4, <1>5 DEF Unbegun
  <1>9. Goes(d, Stop("try"))
    BY <1>3 DEF RecvTry
  <1> QED  BY <1>2, <1>7, <1>8, <1>9, GoesOn

LEMMA SessionKeeps ==
    ASSUME at \in Handlers, CallInv(cc, at), RecvTry_Session
    PROVE  CallInv(cc', at')
  <1>1. at.pc = "try"
    BY DEF RecvTry_Session, At
  <1>2. /\ cc \in Calls /\ Base(cc) /\ Unbegun(cc) /\ Incoming(cc) /\ cc.legs = <<>>
        /\ at.leg = 0 /\ cc.state # "ARComplete" /\ ~cc.acct[0].on
    BY <1>1, BeforeLegs
  <1>3. CASE Ends(FailA(cc))
    BY <1>2, <1>3, Refuses
  <1>4. CASE Goes(cc, Stop("session"))
    BY <1>2, <1>4, GoesOn
  <1>5. ASSUME NEW d, d = [cc EXCEPT !.rtp = "open",
                                     !.late = IF cc.A \in Gone THEN @ \cup {"session"} ELSE @],
               Goes(d, Stop("session"))
        PROVE  CallInv(cc', at')
    <2>1. PICK t : t = IF cc.A \in Gone THEN cc.late \cup {"session"} ELSE cc.late
      OBVIOUS
    <2>2. d = [cc EXCEPT !.rtp = "open", !.late = t] /\ t \in SUBSET {"session", "attempt"}
      BY <1>2, <1>5, <2>1 DEF Calls
    <2>3. /\ d \in Calls /\ d.A = cc.A /\ d.state = cc.state /\ d.legs = cc.legs
          /\ d.connect_ts = cc.connect_ts /\ d.acct = cc.acct /\ d.acctA = cc.acctA
          /\ d.acctO = cc.acctO /\ d.routes = cc.routes /\ d.auth = cc.auth /\ d.rtp = "open"
          /\ d.ending = cc.ending /\ d.stray = cc.stray /\ d.proxied = cc.proxied
          /\ d.owed = cc.owed /\ d.late = t
      <3>1. cc \in Calls
        BY <1>2
      <3> QED  BY <2>2, <3>1 DEF Calls
    <2>4. Incoming(d)
      BY <1>2, <2>1, <2>3 DEF Incoming
    <2>5. Base(d)
      BY <1>2, <2>3, <2>4, IncomingOnly DEF SameLegs
    <2>6. Unbegun(d) /\ d.state # "ARComplete" /\ ~d.acct[0].on
      BY <1>2, <2>3 DEF Unbegun
    <2> QED  BY <1>2, <1>5, <2>5, <2>6, GoesOn
  <1> QED  BY <1>3, <1>4, <1>5 DEF RecvTry_Session

LEMMA AuthKeeps ==
    ASSUME at \in Handlers, CallInv(cc, at), RecvTry_Auth
    PROVE  CallInv(cc', at')
  <1>1. at.pc = "session"
    BY DEF RecvTry_Auth, At
  <1>2. /\ cc \in Calls /\ Base(cc) /\ Unbegun(cc) /\ Incoming(cc) /\ cc.legs = <<>>
        /\ at.leg = 0 /\ cc.state # "ARComplete" /\ ~cc.acct[0].on /\ Quiet(cc)
    BY <1>1, BeforeLegs
  <1>3. PICK c1 : c1 = [cc EXCEPT !.state = "WaitRoute"]
    OBVIOUS
  <1>4. /\ c1 \in Calls /\ c1.A = cc.A /\ c1.state = "WaitRoute" /\ c1.legs = cc.legs
        /\ c1.connect_ts = cc.connect_ts /\ c1.acct = cc.acct /\ c1.acctA = cc.acctA
        /\ c1.acctO = cc.acctO /\ c1.routes = cc.routes /\ c1.auth = cc.auth /\ c1.rtp = cc.rtp
        /\ c1.ending = cc.ending /\ c1.stray = cc.stray /\ c1.proxied = cc.proxied
        /\ c1.owed = cc.owed /\ c1.late = cc.late
    <2>1. cc \in Calls
      BY <1>2
    <2> QED  BY <1>3, <2>1 DEF Calls
  <1>5. Incoming(c1)
    BY <1>2, <1>4 DEF Incoming
  <1>6. Base(c1)
    BY <1>2, <1>4, <1>5, IncomingOnly DEF SameLegs
  <1>7. CASE Ends(cc)
    BY <1>2, <1>7, EndsQuiet
  <1>8. CASE Ends(Do_auth(c1))
    <2>1. PICK d : d = Do_auth(c1)
      OBVIOUS
    <2>2. /\ d \in Calls /\ d.A = c1.A /\ d.state = c1.state /\ d.legs = c1.legs
          /\ d.connect_ts = c1.connect_ts /\ d.acct = c1.acct /\ d.acctA = c1.acctA
          /\ d.acctO = c1.acctO /\ d.routes = c1.routes /\ d.auth = "queued" /\ d.rtp = c1.rtp
          /\ d.ending = c1.ending /\ d.stray = c1.stray /\ d.proxied = c1.proxied
          /\ d.owed = c1.owed /\ d.late = c1.late
      BY <1>4, <2>1 DEF Do_auth, Calls
    <2>3. Incoming(d)
      BY <1>2, <1>4, <1>5, <2>2 DEF Incoming, Unbegun
    <2>4. Base(d)
      BY <1>6, <2>2, <2>3, IncomingOnly DEF SameLegs
    <2>5. Quiet(d)
      BY <1>2, <1>4, <2>2, <2>4, NoLegs DEF Quiet
    <2> QED  BY <1>2, <1>8, <2>1, <2>5, EndsQuiet
  <1>9. CASE Ends(FailA(c1))
    BY <1>2, <1>4, <1>6, <1>9, Refuses
  <1>10. CASE Goes(c1, Stop("rDone"))
    <2>1. Unbegun(c1) /\ c1.state # "ARComplete" /\ ~c1.acct[0].on
      BY <1>2, <1>4 DEF Unbegun
    <2> QED  BY <1>2, <1>6, <1>10, <2>1, GoesOn
  <1> QED  BY <1>3, <1>7, <1>8, <1>9, <1>10 DEF RecvTry_Auth

\* The request leaves the queue of the external command, or is answered.
LEMMA AuthOnly ==
    ASSUME NEW c, Base(c), HungUp(c), c.auth \in {"queued", "taken"},
           NEW x \in {"taken", "done"}
    PROVE  LET d == [c EXCEPT !.auth = x]
           IN  /\ Base(d) /\ Harmless(c, d) /\ d.legs = <<>> /\ d.A # "none" /\ ~d.acct[0].on
               /\ d.state = c.state /\ d.auth = x
  <1>1. PICK d : d = [c EXCEPT !.auth = x]
    OBVIOUS
  <1>2. c \in Calls /\ Incoming(c)
    BY DEF Base
  <1>3. /\ d \in Calls /\ d.A = c.A /\ d.state = c.state /\ d.legs = c.legs
        /\ d.connect_ts = c.connect_ts /\ d.acct = c.acct /\ d.acctA = c.acctA
        /\ d.acctO = c.acctO /\ d.routes = c.routes /\ d.auth = x /\ d.rtp = c.rtp
        /\ d.ending = c.ending /\ d.stray = c.stray /\ d.proxied = c.proxied
        /\ d.owed = c.owed /\ d.late = c.late
    BY <1>1, <1>2 DEF Calls
  <1>4. c.legs = <<>> /\ c.A # "none" /\ ~c.acct[0].on
    BY <1>2 DEF Incoming
  <1>5. Incoming(d)
    BY <1>2, <1>3, <1>4 DEF Incoming
  <1>6. Base(d) /\ \A i \in DOMAIN c.legs : Buried(c, i) => Buried(d, i)
    BY <1>3, <1>5, IncomingOnly DEF SameLegs
  <1>7. HungUp(d)
    BY <1>3, <1>4, NoLegs
  <1>8. Kept(c, d)
    BY <1>3, <1>6 DEF Kept
  <1> QED  BY <1>1, <1>3, <1>4, <1>6, <1>7, <1>8 DEF Harmless

LEMMA TakeAuthKeeps ==
    ASSUME CallInv(cc, at), TakeAuth
    PROVE  CallInv(cc', at')
  <1>1. PICK x \in {"taken", "done"} : Call([cc EXCEPT !.auth = x])
    BY DEF TakeAuth
  <1>2. cc.auth \in {"queued", "taken"} /\ Base(cc) /\ HungUp(cc)
    BY DEF TakeAuth, CallInv
  <1>3. PICK d : d = [cc EXCEPT !.auth = x]
    OBVIOUS
  <1>4. Harmless(cc, d)
    BY <1>2, <1>3, AuthOnly
  <1> QED  BY <1>1, <1>3, <1>4, CallKeeps

LEMMA AuthDoneKeeps ==
    ASSUME at \in Handlers, CallInv(cc, at), AuthDone
    PROVE  CallInv(cc', at')
  <1>1. at.pc = "none" /\ cc.auth \in {"queued", "taken"}
    BY DEF AuthDone, Locked
  <1>2. Quiet(cc) /\ at.leg = 0 /\ Base(cc) /\ HungUp(cc)
    BY <1>1, Rests DEF Quiet
  <1>3. PICK d : d = [cc EXCEPT !.auth = "done"]
    OBVIOUS
  <1>4. /\ Base(d) /\ d.legs = <<>> /\ d.A # "none" /\ ~d.acct[0].on
        /\ d.state = cc.state /\ d.auth = "done"
    BY <1>1, <1>2, <1>3, AuthOnly
  <1>5. cc.legs = <<>>
    BY <1>1, <1>2 DEF Base, Incoming
  <1>6. Unbegun(d) /\ d.state # "ARComplete"
    BY <1>2, <1>4, <1>5 DEF Unbegun, Quiet
  <1>7. Goes(d, Stop("rDone"))
    BY <1>3 DEF AuthDone
  <1> QED  BY <1>2, <1>4, <1>6, <1>7, GoesOn

LEMMA rDoneKeeps ==
    ASSUME cfg.acct \in BOOLEAN, at \in Handlers, CallInv(cc, at), rDone
    PROVE  CallInv(cc', at')
  <1>1. at.pc = "rDone"
    BY DEF rDone, At
  <1>2. /\ cc \in Calls /\ Base(cc) /\ Unbegun(cc) /\ Incoming(cc) /\ cc.legs = <<>>
        /\ at.leg = 0 /\ cc.state # "ARComplete" /\ ~cc.acct[0].on /\ Quiet(cc)
    BY <1>1, BeforeLegs
  <1>3. PICK c0 : c0 = [cc EXCEPT !.acctA = TRUE]
    OBVIOUS
  <1>4. /\ c0 \in Calls /\ c0.A = cc.A /\ c0.state = cc.state /\ c0.legs = cc.legs
        /\ c0.connect_ts = cc.connect_ts /\ c0.acct = cc.acct /\ c0.acctA = TRUE
        /\ c0.acctO = cc.acctO /\ c0.routes = cc.routes /\ c0.auth = cc.auth /\ c0.rtp = cc.rtp
        /\ c0.ending = cc.ending /\ c0.stray = cc.stray /\ c0.proxied = cc.proxied
        /\ c0.owed = cc.owed /\ c0.late = cc.late
    <2>1. cc \in Calls
      BY <1>2
    <2> QED  BY <1>3, <2>1 DEF Calls
  <1>5. 0 \in 0..MaxRoutes /\ \A k \in 1..MaxRoutes : k \in 0..MaxRoutes /\ k # 0
    BY RadiusCallAssumption DEF RadiusCallAssumption
  <1>6. PICK b \in Accounts : b = c0.acct[0]
    BY <1>4, <1>5, AccountType
  <1>7. PICK a : a = [b EXCEPT !.on = cfg.acct]
    OBVIOUS
  <1>8. PICK c1 : c1 = [c0 EXCEPT !.acct[0] = a]
    OBVIOUS
  <1>9. c1 = SetParams(c0, 0)
    BY <1>6, <1>7, <1>8 DEF SetParams
  <1>10. a \in Accounts /\ a.on = cfg.acct /\ Account(a, FALSE, FALSE) /\ 0 \notin cc.connect_ts
    <2>1. /\ Account(b, 0 \in cc.connect_ts, cc.A \in Gone) /\ ~b.on /\ 0 \notin cc.connect_ts
      BY <1>2, <1>4, <1>6 DEF Incoming
    <2>2. Account(b, FALSE, FALSE)
      BY <2>1 DEF Account
    <2> QED  BY <1>7, <2>1, <2>2 DEF Account, Accounts
  <1>11. /\ c1 \in Calls /\ Same(c0, c1) /\ c1.acct[0] = a
         /\ \A k \in 0..MaxRoutes : k # 0 => c1.acct[k] = c0.acct[k]
    BY <1>4, <1>5, <1>8, <1>10, SetsOne
  <1>12. SameLegs(cc, c1)
    BY <1>4, <1>5, <1>11 DEF SameLegs, Same
  <1>13. CASE Ends(cc)
    BY <1>2, <1>13, EndsQuiet
  <1>14. CASE cc.A # "trying" /\ Ends(Disc(c1, 0, 0))
    <2>1. cc.A \in Gone
      BY <1>2, <1>14 DEF Incoming, Unbegun, Gone, Calls, AStates
    <2>2. PICK d : d = Disc(c1, 0, 0)
      OBVIOUS
    <2>3. 0 \notin c1.connect_ts
      BY <1>4, <1>10, <1>11 DEF Same
    <2>4. Records(c1, d, 0) /\ Account(d.acct[0], 0 \in c1.connect_ts, TRUE)
      <3>1. Account(c1.acct[0], 0 \in c1.connect_ts, FALSE)
        BY <1>10, <1>11, <2>3 DEF Account
      <3> QED  BY <1>5, <1>11, <2>2, <3>1, Discs
    <2>5. /\ d \in Calls /\ d.A = cc.A /\ d.state = cc.state /\ d.legs = cc.legs
          /\ d.connect_ts = cc.connect_ts /\ d.acctA = TRUE /\ d.auth = cc.auth /\ d.rtp = cc.rtp
          /\ d.ending = cc.ending /\ d.owed = cc.owed /\ d.late = cc.late
          /\ SameLegs(cc, d)
      BY <1>4, <1>5, <1>11, <1>12, <2>4 DEF Records, Same, SameLegs
    <2>6. Account(d.acct[0], 0 \in d.connect_ts, d.A \in Gone)
      BY <1>4, <1>11, <2>1, <2>4, <2>5 DEF Account, Same
    <2>7. Incoming(d)
      BY <1>2, <2>1, <2>5, <2>6 DEF Incoming, Unbegun
    <2>8. Base(d)
      BY <1>2, <2>5, <2>7, IncomingOnly
    <2>9. Quiet(d)
      BY <1>2, <2>5, <2>8, NoLegs DEF Quiet
    <2> QED  BY <1>2, <1>14, <2>2, <2>9, EndsQuiet
  <1>15. CASE cc.A = "trying" /\ Goes(c1, Stop("route"))
    <2>1. /\ c1.A = cc.A /\ c1.state = cc.state /\ c1.legs = cc.legs
          /\ c1.connect_ts = cc.connect_ts /\ c1.acctA = TRUE /\ c1.auth = cc.auth
          /\ c1.rtp = cc.rtp /\ c1.ending = cc.ending /\ c1.owed = cc.owed /\ c1.late = cc.late
      BY <1>4, <1>11 DEF Same
    <2>2. Account(c1.acct[0], 0 \in c1.connect_ts, c1.A \in Gone)
      BY <1>10, <1>11, <1>15, <2>1 DEF Account, Gone
    <2>3. Incoming(c1)
      BY <1>2, <1>15, <2>1, <2>2 DEF Incoming, Unbegun
    <2>4. Base(c1)
      BY <1>2, <1>11, <1>12, <2>1, <2>3, IncomingOnly
    <2>5. Unbegun(c1) /\ c1.state # "ARComplete" /\ c1.acct[0].on = cfg.acct
      BY <1>2, <1>10, <1>11, <2>1 DEF Unbegun
    <2> QED  BY <1>2, <1>15, <2>4, <2>5, GoesOn
  <1> QED  BY <1>3, <1>9, <1>13, <1>14, <1>15 DEF rDone

LEMMA RoutesKeep ==
    ASSUME at \in Handlers, CallInv(cc, at), rDone_Routes
    PROVE  CallInv(cc', at')
  <1>1. at.pc = "route"
    BY DEF rDone_Routes, At
  <1>2. /\ cc \in Calls /\ Base(cc) /\ Unbegun(cc) /\ Incoming(cc) /\ cc.legs = <<>>
        /\ Len(cc.legs) = 0 /\ DOMAIN cc.legs = {}
        /\ at.leg = 0 /\ cc.acct[0].on = cfg.acct /\ HungUp(cc)
    BY <1>1, BeforeLegs
  <1>3. CASE Ends(FailA(cc))
    BY <1>2, <1>3, Refuses
  <1>4. ASSUME NEW q \in Results, q # <<>>,
               Goes([cc EXCEPT !.state = "ARComplete", !.routes = Tail(q)],
                    [at EXCEPT !.pc = "create", !.rnum = Head(q)])
        PROVE  CallInv(cc', at')
    <2>1. q \in Seq(1..MaxRoutes) /\ Increasing(q) /\ Len(q) <= MaxRoutes /\ Len(q) \in Nat
      BY ResultsType
    <2>2. PICK r : r = Head(q)
      OBVIOUS
    <2>3. PICK t : t = Tail(q)
      OBVIOUS
    <2>4. /\ t \in Seq(1..MaxRoutes) /\ Len(t) = Len(q) - 1 /\ Increasing(t)
          /\ r \in 1..MaxRoutes /\ \A k \in DOMAIN t : r < t[k]
      BY <1>4, <2>1, <2>2, <2>3, TailRoutes
    <2>5. PICK d : d = [cc EXCEPT !.state = "ARComplete", !.routes = t]
      OBVIOUS
    <2>6. /\ d \in Calls /\ d.A = cc.A /\ d.state = "ARComplete" /\ d.legs = cc.legs
          /\ d.connect_ts = cc.connect_ts /\ d.acct = cc.acct /\ d.acctA = cc.acctA
          /\ d.acctO = cc.acctO /\ d.routes = t /\ d.auth = cc.auth /\ d.rtp = cc.rtp
          /\ d.ending = cc.ending /\ d.stray = cc.stray /\ d.proxied = cc.proxied
          /\ d.owed = cc.owed /\ d.late = cc.late
      <3>1. cc \in Calls
        BY <1>2
      <3>2. t \in Seq(1..MaxRoutes)
        BY <2>4
      <3> QED  BY <2>5, <3>1, <3>2 DEF Calls
    <2>7. MaxRoutes \in Nat /\ Len(t) < MaxRoutes /\ Len(t) \in Nat
      <3>1. MaxRoutes \in Nat
        BY RadiusCallAssumption DEF RadiusCallAssumption
      <3>2. Len(t) \in Nat
        BY <2>4
      <3>3. PICK m \in Nat, n \in Nat : m = Len(q) /\ n = Len(t)
        BY <2>1, <3>2
      <3>4. n = m - 1 /\ m <= MaxRoutes
        BY <2>1, <2>4, <3>3
      <3> QED  BY <3>1, <3>3, <3>4
    <2>8. Incoming(d)
      BY <1>2, <2>6 DEF Incoming
    <2>9. Routes(d)
      BY <1>2, <2>4, <2>6, <2>7 DEF Routes
    <2>10. Attempts(d) /\ InTurn(d) /\ InOrder(d)
      BY <1>2, <2>6 DEF Base, Attempts, InTurn, InOrder
    <2>11. Queue(d)
      BY <1>2, <2>6 DEF Base, Queue
    <2>12. Base(d)
      BY <2>6, <2>8, <2>9, <2>10, <2>11 DEF Base
    <2>13. HungUp(d)
      BY <1>2, <2>6, NoLegs
    <2>14. MayPlace(d, r)
      BY <1>2, <2>4, <2>6, <2>7 DEF MayPlace, Unbegun
    <2>15. PICK h : h = [at EXCEPT !.pc = "create", !.rnum = r]
      OBVIOUS
    <2>16. h.pc = "create" /\ h.rnum = r /\ h.leg = 0
      BY <1>2, <2>15 DEF Handlers
    <2>17. Stopped(d, h)
      BY <2>14, <2>16 DEF Stopped
    <2>18. cc' = d /\ at' = h
      BY <1>4, <2>2, <2>3, <2>5, <2>15 DEF Goes
    <2> QED  BY <2>12, <2>13, <2>17, <2>18 DEF CallInv
  <1> QED  BY <1>3, <1>4 DEF rDone_Routes

-----------------------------------------------------------------------------
(* The caller hangs up; what comes from the attempts. *)

LEMMA HangupAKeeps ==
    ASSUME CallInv(cc, at), HangupA
    PROVE  CallInv(cc', at')
  <1>1. Base(cc) /\ cc.A \notin Gone /\ Call(ToAttempt(EndA(cc)))
    BY DEF HangupA, CallInv, Early, Gone
  <1>2. PICK e : e = EndA(cc)
    OBVIOUS
  <1>3. /\ Base(e) /\ Kept(cc, e) /\ e.legs = cc.legs
        /\ e.state = IF cc.legs = <<>> THEN "Dead" ELSE "Disconnecting"
    BY <1>1, <1>2, EndsA DEF SameLegs
  <1>4. e.state = "Disconnecting" \/ Idle(e)
    BY <1>3, NoLegs
  <1>5. PICK d : d = ToAttempt(e)
    OBVIOUS
  <1>6. Harmless(e, d)
    BY <1>3, <1>4, <1>5, Attempted
  <1>7. Harmless(cc, d)
    BY <1>3, <1>6, KeptTwice DEF Harmless
  <1> QED  BY <1>1, <1>2, <1>5, <1>7, CallKeeps

\* The attempt i, which goes on, has a new state.
LEMMA GoesOnO ==
    ASSUME NEW c, Quiet(c), NEW i \in DOMAIN c.legs, c.legs[i].st \in Early \cup {"idle"},
           c.legs[i].wait # "try", NEW x \in {"trying", "idle", "ringing"},
           NEW d, d = [c EXCEPT !.legs[i].st = x]
    PROVE  Quiet(d) /\ d.legs[i].st = x /\ i \in DOMAIN d.legs
  <1>1. c \in Calls /\ x \in OStates /\ Base(c) /\ Attempts(c)
    BY DEF Quiet, Base, OStates
  <1>2. OnlyLeg(c, d, i) /\ d.legs[i].st = x /\ d.ending = c.ending /\ d.acct = c.acct
    BY <1>1, SetLeg
  <1>3. Moves(c, d, i) /\ d.legs[i].wait = c.legs[i].wait
    BY <1>2, OnlyMoves
  <1>4. Allowed(c, d, i)
    BY <1>1, <1>2, <1>3 DEF Allowed, Attempts, Early, Ended, Active
  <1>5. c.legs[i].st \notin Gone /\ c.legs[i].st \in Active
    BY DEF Early, Gone, Active
  <1>6. Quiet(d)
    BY <1>1, <1>2, <1>3, <1>4, <1>5, LegMovesOn
  <1> QED  BY <1>2, <1>6 DEF OnlyLeg

LEMMA RingKeeps ==
    ASSUME CallInv(cc, at), NEW i \in DOMAIN cc.legs, RecvRing(i)
    PROVE  CallInv(cc', at')
  <1>1. at.pc = "none" /\ cc.legs[i].st \in Early /\ cc.legs[i].wait = "no"
    BY DEF RecvRing, Locked
  <1>2. Quiet(cc) /\ at.leg = 0
    BY <1>1, Rests
  <1>3. PICK c1 : c1 = [cc EXCEPT !.legs[i].st = "ringing"]
    OBVIOUS
  <1>4. Quiet(c1) /\ c1.legs[i].st = "ringing" /\ i \in DOMAIN c1.legs
    BY <1>1, <1>2, <1>3, GoesOnO
  <1>5. Base(c1) /\ HungUp(c1) /\ c1.legs # <<>>
    BY <1>4 DEF Quiet
  <1>6. CASE Call(Ringing(c1))
    <2>1. Quiet(Ringing(c1))
      BY <1>5, RingsA
    <2> QED  BY <1>1, <1>2, <1>6, <2>1, CallQuiet
  <1>7. CASE Call([c1 EXCEPT !.legs[i].wait = "ring"])
    <2>1. PICK d : d = [c1 EXCEPT !.legs[i].wait = "ring"]
      OBVIOUS
    <2>2. Quiet(d)
      BY <1>4, <1>5, <2>1, Waits
    <2> QED  BY <1>1, <1>2, <1>7, <2>1, <2>2, CallQuiet
  <1> QED  BY <1>3, <1>6, <1>7 DEF RecvRing

LEMMA ConnectKeeps ==
    ASSUME at \in Handlers, CallInv(cc, at), NEW i \in DOMAIN cc.legs, RecvConnect(i)
    PROVE  CallInv(cc', at')
  <1>1. at.pc = "none" /\ cc.legs[i].st \in Early
    BY DEF RecvConnect, Locked
  <1>2. Quiet(cc) /\ at.leg = 0 /\ Base(cc) /\ HungUp(cc)
    BY <1>1, Rests DEF Quiet
  <1>3. PICK c1 : c1 = oConn(cc, i)
    OBVIOUS
  <1>4. /\ Base(c1) /\ HungUp(c1) /\ DOMAIN c1.legs = DOMAIN cc.legs /\ c1.legs # <<>>
        /\ c1.legs[i].st = "connected" /\ Quiet(c1)
    BY <1>1, <1>2, <1>3, ConnectsO DEF Quiet
  <1>5. CASE Goes(c1, Stop("connect"))
    <2>1. Stop("connect").pc = "connect" /\ Stop("connect").leg = 0
      BY <1>2, StopFields
    <2>2. Stopped(c1, Stop("connect"))
      BY <1>4, <2>1 DEF Stopped
    <2> QED  BY <1>4, <1>5, <2>2 DEF CallInv, Goes
  <1>6. CASE Call([c1 EXCEPT !.legs[i].wait = "connect"])
    <2>1. PICK d : d = [c1 EXCEPT !.legs[i].wait = "connect"]
      OBVIOUS
    <2>2. Quiet(d)
      BY <1>4, <2>1, Waits
    <2> QED  BY <1>1, <1>2, <1>6, <2>1, <2>2, CallQuiet
  <1> QED  BY <1>3, <1>5, <1>6 DEF RecvConnect

LEMMA ConnectEventKeeps ==
    ASSUME CallInv(cc, at), RecvConnect_Event
    PROVE  CallInv(cc', at')
  <1>1. /\ Base(cc) /\ HungUp(cc) /\ cc.legs # <<>> /\ Ends(Connect(cc))
        /\ at.leg # 0 => at.leg \in DOMAIN cc.legs
    BY DEF RecvConnect_Event, At, CallInv, Stopped
  <1>2. Quiet(Connect(cc)) /\ Connect(cc).legs = cc.legs
    BY <1>1, ConnectsA
  <1> QED  BY <1>1, <1>2, EndsQuiet

LEMMA FailureKeeps ==
    ASSUME CallInv(cc, at), NEW i \in DOMAIN cc.legs, RecvFailure(i)
    PROVE  CallInv(cc', at')
  <1>1. at.pc = "none" /\ cc.legs[i].st \in Early
    BY DEF RecvFailure, Locked
  <1>2. Base(cc) /\ cc.legs[i].st \notin Ended /\ cc.legs[i].st \notin Gone
    BY <1>1 DEF CallInv, Early, Ended, Gone
  <1>3. PICK c1 : c1 = oDisc(OverO(cc, i), i)
    OBVIOUS
  <1>4. /\ Base(c1) /\ OnlyLeg(cc, c1, i) /\ c1.legs[i].st \in Ended /\ Kept(cc, c1)
        /\ cc.A \notin Gone => Buried(c1, i)
    BY <1>2, <1>3, OversO
  <1>5. cc.stray \/ i = Len(cc.legs)
    BY <1>2, LastLeg
  <1>6. /\ i \in DOMAIN c1.legs /\ c1.stray = cc.stray /\ c1.A = cc.A
        /\ Len(c1.legs) = Len(cc.legs) /\ DOMAIN c1.legs = DOMAIN cc.legs
    BY <1>4 DEF OnlyLeg
  <1>7. ASSUME NEW huntstop, Hunts(c1, huntstop), Hunt(c1, 0)
        PROVE  CallInv(cc', at')
    <2>1. c1.A \notin Gone
      BY <1>7 DEF Hunts, Early, Gone
    <2>2. DOMAIN c1.legs = 1..Len(c1.legs) /\ Len(c1.legs) \in Nat /\ c1.legs # <<>>
          /\ 0 \in 0..MaxRoutes
      BY <1>4, <1>6, LegIndex DEF Base
    <2>3. c1.stray \/ \A j \in DOMAIN c1.legs : Buried(c1, j)
      BY <1>4, <1>5, <1>6, <2>1, <2>2 DEF Base, InOrder
    <2>4. CallInv([c1 EXCEPT !.routes = Tail(@)],
                  [pc |-> "create", rnum |-> Head(c1.routes), leg |-> 0])
      BY <1>4, <1>7, <2>2, <2>3, Hunting
    <2> QED  BY <1>7, <2>4 DEF Hunt, Goes
  <1>8. CASE Call(EndA(c1))
    <2>1. Idle(c1)
      <3>1. c1.legs[i].st \notin Active /\ (c1.stray \/ i = Len(c1.legs))
        BY <1>4, <1>5, <1>6 DEF Active, Ended
      <3> QED  BY <1>4, <1>6, <3>1, LastNotActive
    <2>2. PICK d : d = EndA(c1)
      OBVIOUS
    <2>3. Harmless(cc, d)
      BY <1>4, <2>1, <2>2, EndsIdle, KeptTwice DEF Harmless
    <2> QED  BY <1>8, <2>2, <2>3, CallKeeps
  <1> QED  BY <1>3, <1>7, <1>8 DEF RecvFailure

LEMMA DisconnectOKeeps ==
    ASSUME CallInv(cc, at), NEW i \in DOMAIN cc.legs, DisconnectO(i)
    PROVE  CallInv(cc', at')
  <1>1. Base(cc) /\ cc.legs[i].st \notin Gone /\ Call(EndA(HangupO(cc, i)))
    BY DEF DisconnectO, CallInv, Early, Gone
  <1>2. cc.stray \/ i = Len(cc.legs)
    BY <1>1, LastLeg
  <1>3. PICK d : d = EndA(HangupO(cc, i))
    OBVIOUS
  <1>4. Harmless(cc, d)
    BY <1>1, <1>2, <1>3, HangThenEnd
  <1> QED  BY <1>1, <1>3, <1>4, CallKeeps

LEMMA AnsweredKeeps ==
    ASSUME CallInv(cc, at), NEW i \in DOMAIN cc.legs, Answered(i)
    PROVE  CallInv(cc', at')
  <1>1. at.pc = "none" /\ cc.legs[i].wait # "no"
    BY DEF Answered, Locked
  <1>2. Quiet(cc) /\ at.leg = 0 /\ Base(cc) /\ Attempts(cc)
    BY <1>1, Rests DEF Quiet, Base
  <1>3. PICK c1 : c1 = [cc EXCEPT !.legs[i].wait = "no"]
    OBVIOUS
  <1>4. /\ Quiet(c1) /\ Moves(cc, c1, i) /\ c1.legs[i].wait = "no"
        /\ c1.legs[i].st = cc.legs[i].st
    BY <1>2, <1>3, Waits
  <1>5. Base(c1) /\ HungUp(c1) /\ c1.legs # <<>> /\ i \in DOMAIN c1.legs
    BY <1>4 DEF Quiet, Moves
  <1>6. CASE Call(c1)
    BY <1>1, <1>2, <1>4, <1>6, CallQuiet
  <1>7. ASSUME cc.legs[i].st \notin Ended, cc.legs[i].wait = "try", NEW x \in {"trying", "idle"},
               Call([c1 EXCEPT !.legs[i].st = x])
        PROVE  CallInv(cc', at')
    <2>1. c1.legs[i].st = "idle"
      BY <1>2, <1>4, <1>7 DEF Attempts
    <2>2. PICK d : d = [c1 EXCEPT !.legs[i].st = x]
      OBVIOUS
    <2>3. Quiet(d)
      BY <1>4, <1>5, <2>1, <2>2, GoesOnO
    <2> QED  BY <1>1, <1>2, <1>7, <2>2, <2>3, CallQuiet
  <1>8. CASE Call(Ringing(c1))
    <2>1. Quiet(Ringing(c1))
      BY <1>5, RingsA
    <2> QED  BY <1>1, <1>2, <1>8, <2>1, CallQuiet
  <1>9. CASE Call(Connect(c1))
    <2>1. Quiet(Connect(c1))
      BY <1>5, ConnectsA
    <2> QED  BY <1>1, <1>2, <1>9, <2>1, CallQuiet
  <1> QED  BY <1>3, <1>6, <1>7, <1>8, <1>9 DEF Answered

LEMMA RefusedKeeps ==
    ASSUME CallInv(cc, at), NEW i \in DOMAIN cc.legs, Refused(i)
    PROVE  CallInv(cc', at')
  <1>1. at.pc = "none"
    BY DEF Refused, Locked
  <1>2. Quiet(cc) /\ at.leg = 0 /\ Base(cc) /\ cc \in Calls
    BY <1>1, Rests DEF Quiet
  <1>3. PICK e : e = [cc EXCEPT !.legs[i].wait = "no"]
    OBVIOUS
  <1>4. Base(e) /\ Quiet(e) /\ Moves(cc, e, i)
    BY <1>2, <1>3, Waits
  <1>5. PICK o : o = e.owed \ {i}
    OBVIOUS
  <1>6. PICK c0 : c0 = [e EXCEPT !.owed = o]
    OBVIOUS
  <1>7. c0 = [cc EXCEPT !.legs[i].wait = "no", !.owed = @ \ {i}]
    <2>1. e.owed = cc.owed
      BY <1>4 DEF Moves
    <2> QED  BY <1>3, <1>5, <1>6, <2>1
  <1>8. PICK x : x = (c0.stray \/ Hunts(c0, FALSE) \/ i # Current(c0))
    OBVIOUS
  <1>9. PICK c1 : c1 = [c0 EXCEPT !.stray = x]
    OBVIOUS
  <1>10. /\ c0 \in Calls /\ c0.A = e.A /\ c0.state = e.state /\ c0.legs = e.legs
         /\ c0.connect_ts = e.connect_ts /\ c0.acct = e.acct /\ c0.acctA = e.acctA
         /\ c0.acctO = e.acctO /\ c0.routes = e.routes /\ c0.auth = e.auth /\ c0.rtp = e.rtp
         /\ c0.ending = e.ending /\ c0.stray = e.stray /\ c0.proxied = e.proxied
         /\ c0.owed = o /\ c0.late = e.late
    <2>1. e \in Calls
      BY <1>4 DEF Moves
    <2>2. o \in SUBSET (0..MaxRoutes)
      BY <1>5, <2>1 DEF Calls
    <2> QED  BY <1>6, <2>1, <2>2 DEF Calls
  <1>11. x \in BOOLEAN
    <2>1. c0.stray \in BOOLEAN
      BY <1>10 DEF Calls
    <2> QED  BY <1>8, <2>1
  <1>12. /\ c1 \in Calls /\ c1.A = c0.A /\ c1.state = c0.state /\ c1.legs = c0.legs
         /\ c1.connect_ts = c0.connect_ts /\ c1.acct = c0.acct /\ c1.acctA = c0.acctA
         /\ c1.acctO = c0.acctO /\ c1.routes = c0.routes /\ c1.auth = c0.auth
         /\ c1.rtp = c0.rtp /\ c1.ending = c0.ending /\ c1.stray = x
         /\ c1.proxied = c0.proxied /\ c1.owed = c0.owed /\ c1.late = c0.late
    <2>1. c0 \in Calls
      BY <1>10
    <2> QED  BY <1>9, <1>11, <2>1 DEF Calls
  <1>13. i \in DOMAIN e.legs /\ i # 0
    <2>1. i \in DOMAIN e.legs
      BY <1>4 DEF Moves
    <2>2. DOMAIN e.legs = 1..Len(e.legs)
      BY <1>4, LegIndex DEF Base
    <2> QED  BY <2>1, <2>2
  <1>14. Alike(e, c1)
    <2>1. /\ e.proxied => e.legs # <<>>
          /\ 0 \in e.owed => e.A = "over"
          /\ \A u \in e.owed : u # 0 => u \in DOMAIN e.legs
      BY <1>4 DEF Base, Attempts, Incoming
    <2>2. e.stray => x
      BY <1>8, <1>10
    <2> QED  BY <1>5, <1>10, <1>12, <2>1, <2>2 DEF Alike
  <1>15. Base(c1) /\ HungUp(c1) /\ Quiet(c1)
    <2>1. 0 \in e.owed => 0 \in c1.owed
      BY <1>5, <1>10, <1>12, <1>13
    <2> QED  BY <1>4, <1>10, <1>12, <1>14, <2>1, AlikeCalls DEF Quiet
  <1>16. i \in DOMAIN c1.legs /\ (c1.stray \/ i = Len(c1.legs)) /\ i \in 0..MaxRoutes
    <2>1. i \in DOMAIN c1.legs
      BY <1>10, <1>12, <1>13
    <2>2. i \in 0..MaxRoutes
      BY <1>15, <2>1, LegIndex DEF Base
    <2> QED  BY <1>8, <1>10, <1>12, <2>1, <2>2 DEF Current
  <1>17. CASE Hunts(c1, FALSE) /\ Hunt(c1, i)
    <2>1. c1.stray
      BY <1>8, <1>12, <1>17 DEF Hunts
    <2>2. c1.legs # <<>>
      BY <1>16
    <2>3. CallInv([c1 EXCEPT !.routes = Tail(@)],
                  [pc |-> "create", rnum |-> Head(c1.routes), leg |-> i])
      BY <1>15, <1>16, <1>17, <2>1, <2>2, Hunting
    <2> QED  BY <1>17, <2>3 DEF Hunt, Goes
  <1>18. CASE Call(HangupO(EndA(c1), i))
    <2>1. PICK d : d = HangupO(EndA(c1), i)
      OBVIOUS
    <2>2. Harmless(c1, d)
      BY <1>15, <1>16, <2>1, EndThenHang
    <2>3. Quiet(d)
      BY <1>15, <2>2, KeepsOn
    <2> QED  BY <1>1, <1>2, <1>18, <2>1, <2>3, CallQuiet
  <1> QED  BY <1>7, <1>8, <1>9, <1>17, <1>18 DEF Refused

-----------------------------------------------------------------------------
(* Timers: the route groups, the Alive loops, the ended legs. *)

LEMMA GroupKeeps ==
    ASSUME CallInv(cc, at), NEW skipto \in cc.gts, group_expires(skipto)
    PROVE  CallInv(cc', at')
  <1>1. at.pc = "none"
    BY DEF group_expires, Locked
  <1>2. Quiet(cc) /\ at.leg = 0 /\ Base(cc) /\ cc \in Calls
    BY <1>1, Rests DEF Quiet
  <1>3. PICK c1 : c1 = [cc EXCEPT !.gts = @ \ {skipto}]
    OBVIOUS
  <1>4. /\ c1 \in Calls /\ c1.A = cc.A /\ c1.state = cc.state /\ c1.legs = cc.legs
        /\ c1.connect_ts = cc.connect_ts /\ c1.acct = cc.acct /\ c1.acctA = cc.acctA
        /\ c1.acctO = cc.acctO /\ c1.routes = cc.routes /\ c1.auth = cc.auth
        /\ c1.rtp = cc.rtp /\ c1.ending = cc.ending /\ c1.stray = cc.stray
        /\ c1.proxied = cc.proxied /\ c1.owed = cc.owed /\ c1.late = cc.late
    <2>1. cc \in Calls
      BY <1>2
    <2> QED  BY <1>3, <2>1 DEF Calls
  <1>5. Alike(cc, c1)
    BY <1>2, <1>4 DEF Alike, Base, Attempts, Incoming
  <1>6. Base(c1) /\ HungUp(c1) /\ Quiet(c1)
    BY <1>2, <1>4, <1>5, AlikeCalls DEF Quiet
  <1>7. c1.routes \in Seq(1..MaxRoutes) /\ Increasing(c1.routes) /\ Len(c1.routes) \in Nat
    BY <1>4, <1>6 DEF Base, Routes, Calls
  <1>8. CASE Call(c1)
    BY <1>1, <1>2, <1>6, <1>8, CallQuiet
  <1>9. CASE Call([c1 EXCEPT !.routes = <<>>])
    <2>1. PICK q : q = <<>>
      OBVIOUS
    <2>2. /\ q \in Seq(1..MaxRoutes) /\ Len(q) = 0 /\ Len(q) <= Len(c1.routes) /\ Increasing(q)
          /\ \A k \in DOMAIN q : \E j \in DOMAIN c1.routes : q[k] = c1.routes[j]
      BY <1>7, <2>1 DEF Increasing
    <2>3. PICK d : d = [c1 EXCEPT !.routes = q]
      OBVIOUS
    <2>4. Quiet(d)
      BY <1>6, <2>2, <2>3, FewerRoutes
    <2> QED  BY <1>1, <1>2, <1>9, <2>1, <2>3, <2>4, CallQuiet
  <1>10. CASE UNCHANGED <<cc, at>>
    BY <1>10
  <1>11. ASSUME cc.state = "ARComplete", NEW k \in DOMAIN cc.routes,
                Call(EndA(HangupO([c1 EXCEPT !.routes = SubSeq(@, k, Len(@))], Current(c1))))
         PROVE  CallInv(cc', at')
    <2>1. PICK q : q = SubSeq(c1.routes, k, Len(c1.routes))
      OBVIOUS
    <2>2. PICK e : e = [c1 EXCEPT !.routes = q]
      OBVIOUS
    <2>3. /\ q \in Seq(1..MaxRoutes) /\ Len(q) <= Len(c1.routes) /\ Increasing(q)
          /\ \A j \in DOMAIN q : \E l \in DOMAIN c1.routes : q[j] = c1.routes[l]
      BY <1>4, <1>7, <2>1, SkipRoutes
    <2>4. Quiet(e) /\ e.legs = c1.legs
      BY <1>6, <2>2, <2>3, FewerRoutes
    <2>5. c1.legs # <<>>
      BY <1>4, <1>6, <1>11 DEF Quiet
    <2>6. PICK i \in DOMAIN e.legs : i = Len(e.legs)
      BY <1>4, <2>4, <2>5, EmptyLegs
    <2>7. PICK d : d = EndA(HangupO(e, i))
      OBVIOUS
    <2>8. Harmless(e, d)
      BY <2>4, <2>6, <2>7, HangThenEnd DEF Quiet
    <2>9. Quiet(d)
      BY <2>4, <2>8, KeepsOn
    <2>10. Current(c1) = i
      BY <2>4, <2>6 DEF Current
    <2> QED  BY <1>1, <1>2, <1>11, <2>1, <2>2, <2>7, <2>9, <2>10, CallQuiet
  <1> QED  BY <1>3, <1>8, <1>9, <1>10, <1>11 DEF group_expires

LEMMA AliveKeeps ==
    ASSUME CallInv(cc, at), NEW i \in 0..MaxRoutes, Alive(i)
    PROVE  CallInv(cc', at')
  <1>1. PICK c : c = cc
    OBVIOUS
  <1>2. Base(c) /\ HungUp(c) /\ c \in Calls
    BY <1>1 DEF CallInv, Base
  <1>3. PICK b \in Accounts : b = c.acct[i]
    BY <1>2, AccountType
  <1>4. ASSUME b.alive = "on",
               Call([c EXCEPT !.acct[i] = asend([b EXCEPT !.alive = "sending"], "Alive", FALSE)])
        PROVE  CallInv(cc', at')
    <2>1. PICK e : e = [b EXCEPT !.alive = "sending"]
      OBVIOUS
    <2>2. PICK a : a = asend(e, "Alive", FALSE)
      OBVIOUS
    <2>3. /\ a \in Accounts /\ a.on = b.on /\ a.crec = b.crec /\ a.drec = b.drec
          /\ a.charged = b.charged /\ a.alive = "sending"
          /\ "Start" \in a.sent <=> "Start" \in b.sent
          /\ "Stop" \in a.sent <=> "Stop" \in b.sent
      <3>1. /\ e \in Accounts /\ e.on = b.on /\ e.crec = b.crec /\ e.drec = b.drec
            /\ e.charged = b.charged /\ e.sent = b.sent /\ e.alive = "sending"
        BY <2>1 DEF Accounts
      <3>2. CASE e.on
        <4>1. a = [e EXCEPT !.sent = @ \cup {"Alive"}, !.charged = @ \/ FALSE]
          BY <2>2, <3>2 DEF asend
        <4>2. /\ a \in Accounts /\ a.on = e.on /\ a.crec = e.crec /\ a.drec = e.drec
              /\ a.charged = e.charged /\ a.sent = e.sent \cup {"Alive"} /\ a.alive = e.alive
          BY <3>1, <4>1 DEF Accounts
        <4> QED  BY <3>1, <4>2
      <3>3. CASE ~e.on
        BY <2>2, <3>1, <3>3 DEF asend
      <3> QED  BY <3>2, <3>3
    <2>4. b # NoAccount
      BY <1>4 DEF NoAccount
    <2>5. ASSUME NEW up \in BOOLEAN, NEW down \in BOOLEAN, Account(b, up, down)
          PROVE  Account(a, up, down)
      BY <1>4, <2>3, <2>5 DEF Account
    <2>6. PICK d : d = [c EXCEPT !.acct[i] = a]
      OBVIOUS
    <2>7. Harmless(cc, d)
      BY <1>1, <1>2, <1>3, <2>3, <2>4, <2>5, <2>6, AccountMoves
    <2> QED  BY <1>4, <2>1, <2>2, <2>6, <2>7, CallKeeps
  <1>5. ASSUME b.alive = "sending",
               Call([c EXCEPT !.acct[i] = [b EXCEPT !.alive = IF b.drec THEN "off" ELSE "on"]])
        PROVE  CallInv(cc', at')
    <2>1. PICK a : a = [b EXCEPT !.alive = IF b.drec THEN "off" ELSE "on"]
      OBVIOUS
    <2>2. /\ a \in Accounts /\ a.on = b.on /\ a.crec = b.crec /\ a.drec = b.drec
          /\ a.charged = b.charged /\ a.sent = b.sent
          /\ a.alive = IF b.drec THEN "off" ELSE "on"
      BY <2>1 DEF Accounts
    <2>3. b # NoAccount
      BY <1>5 DEF NoAccount
    <2>4. ASSUME NEW up \in BOOLEAN, NEW down \in BOOLEAN, Account(b, up, down)
          PROVE  Account(a, up, down)
      BY <1>5, <2>2, <2>4 DEF Account
    <2>5. PICK d : d = [c EXCEPT !.acct[i] = a]
      OBVIOUS
    <2>6. Harmless(cc, d)
      BY <1>1, <1>2, <1>3, <2>2, <2>3, <2>4, <2>5, AccountMoves
    <2> QED  BY <1>5, <2>1, <2>5, <2>6, CallKeeps
  <1> QED  BY <1>1, <1>3, <1>4, <1>5 DEF Alive

LEMMA DropKeeps ==
    ASSUME NEW c, Quiet(c), c.A \in Gone, c.stray \/ \A i \in DOMAIN c.legs : c.legs[i].st \in Ended,
           at.pc = "none", at.leg = 0, DropCC(c)
    PROVE  CallInv(cc', at')
  <1>1. c.inMap \in BOOLEAN /\ c.cmap \in BOOLEAN
    BY DEF Quiet, Base, Calls
  <1>2. PICK m \in BOOLEAN, n \in BOOLEAN :
          m = (c.inMap /\ maplock # "free") /\ n = (c.cmap /\ c.A # "dead")
    OBVIOUS
  <1>3. cc' = [c EXCEPT !.acctA = FALSE, !.acctO = 0, !.inMap = m, !.cmap = n] /\ at' = at
    BY <1>1, <1>2 DEF DropCC
  <1>4. PICK d : d = [c EXCEPT !.acctA = FALSE, !.acctO = 0, !.inMap = m, !.cmap = n]
    OBVIOUS
  <1>5. Quiet(d)
    BY <1>4, Drops
  <1>6. CallInv(d, at)
    BY <1>5, Finishes
  <1> QED  BY <1>3, <1>4, <1>6

LEMMA TailType ==
    ASSUME NEW q \in Seq(0..MaxRoutes), q # <<>>
    PROVE  Tail(q) \in Seq(0..MaxRoutes)
  BY HeadTailProperties

LEMMA aDeadKeeps ==
    ASSUME CallInv(cc, at), aDead
    PROVE  CallInv(cc', at')
  <1>1. at.pc = "none" /\ cc.ending # <<>> /\ Head(cc.ending) = 0 /\ 0 \notin cc.owed
    BY DEF aDead, Locked
  <1>2. /\ Quiet(cc) /\ at.leg = 0 /\ Base(cc) /\ HungUp(cc) /\ cc \in Calls /\ Routes(cc)
        /\ Attempts(cc) /\ InTurn(cc) /\ Incoming(cc) /\ Queue(cc) /\ InOrder(cc)
    BY <1>1, Rests DEF Quiet, Base
  <1>3. PICK t : t = Tail(cc.ending)
    OBVIOUS
  <1>4. PICK d : d = [cc EXCEPT !.A = "dead", !.ending = t]
    OBVIOUS
  <1>5. /\ d \in Calls /\ d.A = "dead" /\ d.state = cc.state /\ d.legs = cc.legs
        /\ d.connect_ts = cc.connect_ts /\ d.acct = cc.acct /\ d.acctA = cc.acctA
        /\ d.acctO = cc.acctO /\ d.routes = cc.routes /\ d.auth = cc.auth
        /\ d.rtp = cc.rtp /\ d.ending = t /\ d.stray = cc.stray
        /\ d.proxied = cc.proxied /\ d.owed = cc.owed /\ d.late = cc.late
    <2>1. cc \in Calls /\ cc.ending \in Seq(0..MaxRoutes)
      BY <1>2 DEF Calls
    <2>2. t \in Seq(0..MaxRoutes)
      BY <1>1, <1>3, <2>1, TailType
    <2> QED  BY <1>4, <2>1, <2>2 DEF Calls, AStates
  <1>6. /\ Queue(d) /\ cc.A \in Gone
        /\ \A i \in DOMAIN cc.legs :
             Buried(cc, i) /\ (i = Head(cc.ending) => d.legs[i].st = "dead") => Buried(d, i)
    BY <1>1, <1>2, <1>3, <1>5, QueueTail DEF Gone
  <1>7. /\ DOMAIN cc.legs = 1..Len(cc.legs) /\ Len(cc.legs) \in Nat
        /\ cc.legs = <<>> <=> Len(cc.legs) = 0
    BY <1>2, LegIndex
  <1>8. \A i \in DOMAIN cc.legs : Buried(cc, i) => Buried(d, i)
    BY <1>1, <1>6, <1>7
  <1>9. Incoming(d)
    BY <1>1, <1>2, <1>5, <1>6 DEF Incoming, Gone
  <1>10. Routes(d) /\ Attempts(d) /\ InTurn(d)
    BY <1>2, <1>5, LegsKept DEF SameLegs
  <1>11. InOrder(d)
    BY <1>2, <1>5, <1>8 DEF InOrder
  <1>12. HungUp(d)
    BY <1>2, <1>5, <1>6, StaysHungUp
  <1>13. Quiet(d)
    BY <1>2, <1>5, <1>6, <1>9, <1>10, <1>11, <1>12 DEF Quiet, Base
  <1>14. CASE (cc.legs = <<>> \/ cc.legs[Len(cc.legs)].st = "dead") /\ DropCC(d)
    <2>1. d.stray \/ \A i \in DOMAIN d.legs : d.legs[i].st \in Ended
      BY <1>2, <1>5, <1>7, <1>14 DEF InOrder, Buried, Ended
    <2>2. d.A \in Gone
      BY <1>5 DEF Gone
    <2> QED  BY <1>1, <1>2, <1>13, <1>14, <2>1, <2>2, DropKeeps
  <1>15. CASE Call(d)
    BY <1>1, <1>2, <1>13, <1>15, CallQuiet
  <1> QED  BY <1>3, <1>4, <1>14, <1>15 DEF aDead, Current

\* The attempt i, the last one if the incoming leg is dead, is now dead too.
LEMMA DeadO ==
    ASSUME NEW c, Base(c), NEW i \in DOMAIN c.legs,
           c.A = "dead" \/ c.legs[i].st \notin Gone => c.stray \/ i = Len(c.legs),
           NEW d, Quiet(d), Moves(c, d, i), d.legs[i].st = "dead", at.pc = "none", at.leg = 0,
           IF d.A = "dead" /\ d.cmap THEN DropCC(d) ELSE Call(d)
    PROVE  CallInv(cc', at')
  <1>1. CASE d.A = "dead" /\ DropCC(d)
    <2>1. c.A = "dead" /\ d.A \in Gone /\ (c.stray \/ i = Len(c.legs))
      BY <1>1 DEF Moves, Gone
    <2>2. DOMAIN c.legs = 1..Len(c.legs) /\ Len(c.legs) \in Nat /\ InOrder(c)
      BY LegIndex DEF Base
    <2>3. d.stray \/ \A j \in DOMAIN d.legs : d.legs[j].st \in Ended
      BY <2>1, <2>2 DEF Moves, InOrder, Buried, Ended
    <2> QED  BY <1>1, <2>1, <2>3, DropKeeps
  <1>2. CASE Call(d)
    BY <1>2, CallQuiet
  <1> QED  BY <1>1, <1>2

LEMMA GoDeadKeeps ==
    ASSUME CallInv(cc, at), GoDeadO
    PROVE  CallInv(cc', at')
  <1>1. at.pc = "none" /\ cc.ending # <<>>
    BY DEF GoDeadO, Locked
  <1>2. /\ Quiet(cc) /\ at.leg = 0 /\ Base(cc) /\ HungUp(cc) /\ cc \in Calls /\ Routes(cc)
        /\ Queue(cc) /\ InOrder(cc)
    BY <1>1, Rests DEF Quiet, Base
  <1>3. PICK i \in DOMAIN cc.legs : i = Head(cc.ending)
    BY DEF GoDeadO
  <1>4. PICK t : t = Tail(cc.ending)
    OBVIOUS
  <1>5. PICK f : f = [cc EXCEPT !.legs[i].st = "dead"]
    OBVIOUS
  <1>6. /\ OnlyLeg(cc, f, i) /\ f.legs[i].st = "dead" /\ f.acct = cc.acct
    <2>1. "dead" \in OStates
      BY DEF OStates
    <2> QED  BY <1>2, <1>5, <2>1, SetLeg
  <1>7. Moves(cc, f, i) /\ f \in Calls
    BY <1>6, OnlyMoves DEF OnlyLeg
  <1>8. PICK d : d = [f EXCEPT !.ending = t]
    OBVIOUS
  <1>9. /\ d \in Calls /\ d.A = f.A /\ d.state = f.state /\ d.legs = f.legs
        /\ d.connect_ts = f.connect_ts /\ d.acct = f.acct /\ d.acctA = f.acctA
        /\ d.acctO = f.acctO /\ d.routes = f.routes /\ d.auth = f.auth
        /\ d.rtp = f.rtp /\ d.ending = t /\ d.stray = f.stray
        /\ d.proxied = f.proxied /\ d.owed = f.owed /\ d.late = f.late
    <2>1. f \in Calls /\ cc.ending \in Seq(0..MaxRoutes)
      BY <1>2, <1>7 DEF Calls
    <2>2. t \in Seq(0..MaxRoutes)
      BY <1>1, <1>4, <2>1, TailType
    <2> QED  BY <1>8, <2>1, <2>2 DEF Calls
  <1>10. Moves(cc, d, i) /\ d.legs[i].st = "dead"
    BY <1>6, <1>7, <1>9 DEF Moves
  <1>11. /\ Queue(d) /\ i \in DOMAIN cc.legs /\ i # 0 /\ cc.legs[i].st = "over"
         /\ \A j \in DOMAIN cc.legs :
              Buried(cc, j) /\ (j = Head(cc.ending) => d.legs[j].st = "dead") => Buried(d, j)
    <2>1. i # 0
      BY <1>2, LegIndex
    <2>2. /\ DOMAIN d.legs = DOMAIN cc.legs /\ d.A = cc.A
          /\ \A j \in DOMAIN cc.legs : d.legs[j].st = cc.legs[j].st \/ j = Head(cc.ending)
      BY <1>3, <1>10 DEF Moves
    <2> QED  BY <1>1, <1>2, <1>3, <1>4, <1>9, <2>1, <2>2, QueueTail
  <1>12. \A j \in DOMAIN cc.legs : Buried(cc, j) => Buried(d, j)
    BY <1>3, <1>10, <1>11
  <1>13. Allowed(cc, d, i)
    BY <1>10, <1>11 DEF Allowed, Ended, Active
  <1>14. Quiet(d)
    BY <1>2, <1>10, <1>11, <1>12, <1>13, LegMoves DEF Active
  <1>15. cc.A = "dead" \/ cc.legs[i].st \notin Gone => cc.stray \/ i = Len(cc.legs)
    <2>1. DOMAIN cc.legs = 1..Len(cc.legs) /\ Len(cc.legs) \in Nat
      BY <1>2, LegIndex
    <2> QED  BY <1>2, <1>11, <2>1 DEF InOrder, Buried, Gone
  <1>16. IF d.A = "dead" /\ d.cmap THEN DropCC(d) ELSE Call(d)
    <2>1. oDead([cc EXCEPT !.ending = Tail(@)], Head(cc.ending))
      BY DEF GoDeadO
    <2>2. PICK e : e = [cc EXCEPT !.ending = t]
      OBVIOUS
    <2>3. oDead(e, i)
      BY <1>3, <1>4, <2>1, <2>2
    <2>4. d = [e EXCEPT !.legs[i].st = "dead"]
      BY <1>5, <1>8, <2>2
    <2>5. e.A = d.A /\ e.cmap = d.cmap
      BY <1>5, <1>8, <2>2
    <2> QED  BY <2>3, <2>4, <2>5 DEF oDead
  <1> QED  BY <1>1, <1>2, <1>10, <1>14, <1>15, <1>16, DeadO

LEMMA CancelKeeps ==
    ASSUME CallInv(cc, at), NEW i \in DOMAIN cc.legs, CancelEnds(i)
    PROVE  CallInv(cc', at')
  <1>1. at.pc = "none" /\ cc.legs[i].st = "cancelling"
    BY DEF CancelEnds, Locked
  <1>2. /\ Quiet(cc) /\ at.leg = 0 /\ Base(cc) /\ cc \in Calls /\ Routes(cc) /\ Queue(cc)
    BY <1>1, Rests DEF Quiet, Base
  <1>3. cc.legs[i].st \notin Gone
    BY <1>1 DEF Gone
  <1>4. CASE oDead(cc, i)
    <2>1. PICK d : d = [cc EXCEPT !.legs[i].st = "dead"]
      OBVIOUS
    <2>2. /\ OnlyLeg(cc, d, i) /\ d.legs[i].st = "dead" /\ d.ending = cc.ending
          /\ d.acct = cc.acct
      <3>1. "dead" \in OStates
        BY DEF OStates
      <3> QED  BY <1>2, <2>1, <3>1, SetLeg
    <2>3. Moves(cc, d, i)
      BY <2>2, OnlyMoves
    <2>4. Allowed(cc, d, i)
      BY <1>1, <2>2 DEF Allowed, Ended, Active
    <2>5. Quiet(d)
      BY <1>2, <1>3, <2>2, <2>3, <2>4, LegMovesOn DEF Active
    <2>6. cc.stray \/ i = Len(cc.legs)
      BY <1>2, <1>3, LastLeg
    <2>7. IF d.A = "dead" /\ d.cmap THEN DropCC(d) ELSE Call(d)
      <3>1. d.A = cc.A /\ d.cmap = cc.cmap
        BY <2>1
      <3> QED  BY <1>4, <2>1, <3>1 DEF oDead
    <2> QED  BY <1>1, <1>2, <2>2, <2>3, <2>5, <2>6, <2>7, DeadO
  <1>5. CASE Call(OverO(cc, i))
    <2>1. PICK d : d = OverO(cc, i)
      OBVIOUS
    <2>2. /\ OnlyLeg(cc, d, i) /\ d.legs[i].st = "over" /\ d.ending = Append(cc.ending, i)
          /\ d.acct = cc.acct
      BY <1>2, <2>1, SetsOver
    <2>3. Moves(cc, d, i)
      BY <2>2, OnlyMoves
    <2>4. Allowed(cc, d, i)
      BY <1>1, <2>2 DEF Allowed, Ended, Active
    <2>5. Queue(d) /\ \A j \in DOMAIN cc.legs : Buried(cc, j) => Buried(d, j)
      <3>1. Ages(cc, d) /\ d \in Calls
        BY <1>3, <2>2 DEF Ages, OnlyLeg
      <3>2. i \in 0..MaxRoutes /\ i # 0
        BY <1>2, LegIndex
      <3> QED  BY <1>2, <1>3, <2>2, <3>1, <3>2, QueueAppend
    <2>6. Quiet(d)
      BY <1>2, <2>2, <2>3, <2>4, <2>5, LegMoves DEF Active
    <2> QED  BY <1>1, <1>2, <1>5, <2>1, <2>6, CallQuiet
  <1> QED  BY <1>4, <1>5 DEF CancelEnds

-----------------------------------------------------------------------------
(* The call map *)

\* The legs whose event is still to come are others now.
LEMMA OwesOthers ==
    ASSUME NEW c, Base(c), NEW o \in SUBSET (0..MaxRoutes),
           0 \in o => c.A = "over", \A u \in o : u # 0 => u \in DOMAIN c.legs,
           NEW d, d = [c EXCEPT !.owed = o]
    PROVE  /\ Base(d) /\ Kept(c, d) /\ d.legs = c.legs /\ d.A = c.A /\ d.state = c.state
           /\ d.late = c.late /\ d.owed = o /\ d.stray = c.stray
           /\ HungUp(c) /\ (0 \in c.owed => 0 \in o) => HungUp(d)
  <1>1. c \in Calls
    BY DEF Base
  <1>2. /\ d \in Calls /\ d.A = c.A /\ d.state = c.state /\ d.legs = c.legs
        /\ d.connect_ts = c.connect_ts /\ d.acct = c.acct /\ d.acctA = c.acctA
        /\ d.acctO = c.acctO /\ d.routes = c.routes /\ d.auth = c.auth
        /\ d.rtp = c.rtp /\ d.ending = c.ending /\ d.stray = c.stray
        /\ d.proxied = c.proxied /\ d.owed = o /\ d.late = c.late
    BY <1>1 DEF Calls
  <1>3. Alike(c, d)
    BY <1>2 DEF Alike, Base, Attempts
  <1> QED  BY <1>2, <1>3, AlikeCalls

LEMMA DisconnectsA ==
    ASSUME NEW c, Base(c), HungUp(c), c.A # "dead"
    PROVE  Harmless(c, DisconnectA(c))
  <1>1. PICK e : e = EndA(c)
    OBVIOUS
  <1>2. /\ Base(e) /\ e.A = "over" /\ Kept(c, e) /\ SameLegs(c, e)
        /\ c.A \in Gone => e = c
        /\ c.A \notin Gone => e.state = IF c.legs = <<>> THEN "Dead" ELSE "Disconnecting"
    BY <1>1, EndsA DEF Gone
  <1>3. PICK o : o = e.owed \cup {0}
    OBVIOUS
  <1>4. PICK d : d = [e EXCEPT !.owed = o]
    OBVIOUS
  <1>5. d = DisconnectA(c)
    BY <1>1, <1>3, <1>4 DEF DisconnectA
  <1>6. o \in SUBSET (0..MaxRoutes) /\ \A u \in o : u # 0 => u \in DOMAIN e.legs
    <2>1. e \in Calls /\ Attempts(e) /\ 0 \in 0..MaxRoutes
      BY <1>2, LegIndex DEF Base
    <2>2. e.owed \in SUBSET (0..MaxRoutes)
      BY <2>1 DEF Calls
    <2> QED  BY <1>3, <2>1, <2>2 DEF Attempts
  <1>7. /\ Base(d) /\ Kept(e, d) /\ d.legs = e.legs /\ d.state = e.state /\ d.owed = o
        /\ HungUp(e) => HungUp(d)
    <2>1. Base(e) /\ (0 \in o => e.A = "over") /\ (0 \in e.owed => 0 \in o)
      BY <1>2, <1>3
    <2> QED  BY <1>4, <1>6, <2>1, OwesOthers
  <1>8. HungUp(d)
    <2>1. CASE c.A \in Gone
      BY <1>2, <1>7, <2>1
    <2>2. CASE c.A \notin Gone /\ c.legs = <<>>
      BY <1>2, <1>7, <2>2, NoLegs DEF SameLegs
    <2>3. CASE c.A \notin Gone /\ c.legs # <<>>
      BY <1>2, <1>3, <1>7, <2>3 DEF HungUp
    <2> QED  BY <2>1, <2>2, <2>3
  <1>9. Kept(c, d)
    BY <1>2, <1>7, KeptTwice
  <1> QED  BY <1>5, <1>7, <1>8, <1>9 DEF Harmless

LEMMA DisconnectKeeps ==
    ASSUME CallInv(cc, at), Disconnect
    PROVE  CallInv(cc', at')
  <1>1. PICK d : d = DisconnectA(cc)
    OBVIOUS
  <1>2. Harmless(cc, d)
    BY <1>1, DisconnectsA DEF Disconnect, CallInv
  <1> QED  BY <1>1, <1>2, CallKeeps DEF Disconnect

LEMMA NoMediaKeeps ==
    ASSUME CallInv(cc, at), NoMedia
    PROVE  CallInv(cc', at')
  <1>1. Base(cc) /\ HungUp(cc) /\ cc \in Calls /\ cc.proxied
    BY DEF CallInv, Base, NoMedia
  <1>2. CASE cc.A # "dead" /\ Call(DisconnectA(cc))
    <2>1. PICK d : d = DisconnectA(cc)
      OBVIOUS
    <2>2. Harmless(cc, d)
      BY <1>1, <1>2, <2>1, DisconnectsA
    <2> QED  BY <1>2, <2>1, <2>2, CallKeeps
  <1>3. CASE Call([HangupO(cc, Current(cc)) EXCEPT !.owed = @ \cup {Current(cc)}])
    <2>1. cc.legs # <<>>
      BY <1>1 DEF Base, Attempts
    <2>2. PICK i \in DOMAIN cc.legs : i = Current(cc)
      BY <1>1, <2>1, EmptyLegs DEF Current
    <2>3. PICK e : e = HangupO(cc, i)
      OBVIOUS
    <2>4. Base(e) /\ HungUp(e) /\ Kept(cc, e)
      BY <1>1, <2>3, HangsAny DEF Harmless
    <2>5. PICK o : o = e.owed \cup {i}
      OBVIOUS
    <2>6. PICK d : d = [e EXCEPT !.owed = o]
      OBVIOUS
    <2>7. /\ e \in Calls /\ Attempts(e) /\ Incoming(e) /\ i \in DOMAIN e.legs
          /\ i \in 0..MaxRoutes /\ i # 0
      <3>1. i \in DOMAIN e.legs /\ e \in Calls /\ Attempts(e) /\ Incoming(e) /\ Routes(e)
        BY <2>4 DEF Kept, Base
      <3> QED  BY <3>1, LegIndex
    <2>8. /\ o \in SUBSET (0..MaxRoutes) /\ (0 \in o => e.A = "over")
          /\ \A u \in o : u # 0 => u \in DOMAIN e.legs
          /\ 0 \in e.owed => 0 \in o
      <3>1. e.owed \in SUBSET (0..MaxRoutes)
        BY <2>7 DEF Calls
      <3> QED  BY <2>5, <2>7, <3>1 DEF Attempts, Incoming
    <2>9. Base(d) /\ Kept(e, d) /\ HungUp(d)
      BY <2>4, <2>6, <2>8, OwesOthers
    <2>10. Harmless(cc, d)
      BY <2>4, <2>9, KeptTwice DEF Harmless
    <2> QED  BY <1>3, <2>2, <2>3, <2>5, <2>6, <2>10, CallKeeps
  <1> QED  BY <1>2, <1>3 DEF NoMedia

LEMMA EmitKeeps ==
    ASSUME CallInv(cc, at), NEW u \in 0..MaxRoutes, emitPendingEvents(u)
    PROVE  CallInv(cc', at')
  <1>1. /\ Base(cc) /\ HungUp(cc) /\ cc \in Calls /\ u \in cc.owed /\ Incoming(cc)
        /\ Attempts(cc)
    BY DEF CallInv, Base, emitPendingEvents
  <1>2. PICK o : o = cc.owed \ {u}
    OBVIOUS
  <1>3. PICK c1 : c1 = [cc EXCEPT !.owed = o]
    OBVIOUS
  <1>4. /\ o \in SUBSET (0..MaxRoutes) /\ (0 \in o => cc.A = "over")
        /\ \A v \in o : v # 0 => v \in DOMAIN cc.legs
    <2>1. cc.owed \in SUBSET (0..MaxRoutes)
      BY <1>1 DEF Calls
    <2> QED  BY <1>1, <1>2, <2>1 DEF Attempts, Incoming
  <1>5. /\ Base(c1) /\ Kept(cc, c1) /\ c1.legs = cc.legs /\ c1.A = cc.A
        /\ c1.state = cc.state /\ c1.late = cc.late /\ c1.owed = o /\ c1.stray = cc.stray
        /\ u # 0 => HungUp(c1)
    BY <1>1, <1>2, <1>3, <1>4, OwesOthers
  <1>6. CASE u = 0
    <2>1. cc.A = "over"
      BY <1>1, <1>6 DEF Incoming
    <2>2. "attempt" \in c1.late \/ c1.state = "Disconnecting" \/ Idle(c1)
      BY <1>1, <1>5, <2>1 DEF HungUp, Idle, Gone
    <2>3. PICK d : d = ToAttempt(c1)
      OBVIOUS
    <2>4. Harmless(cc, d)
      BY <1>5, <2>2, <2>3, Attempted, KeptTwice DEF Harmless
    <2>5. Call(d)
      BY <1>2, <1>3, <1>6, <2>1, <2>3 DEF emitPendingEvents
    <2> QED  BY <2>4, <2>5, CallKeeps
  <1>7. CASE u # 0 /\ Call(c1)
    <2>1. Harmless(cc, c1)
      BY <1>5, <1>7 DEF Harmless
    <2> QED  BY <1>7, <2>1, CallKeeps
  <1>8. ASSUME u # 0, NEW behind \in BOOLEAN,
               behind = (cc.A \notin Gone /\ \E j \in DOMAIN cc.legs : cc.legs[j].st \in Active),
               Call([EndA(c1) EXCEPT !.late = IF behind THEN @ \cup {"attempt"} ELSE @])
        PROVE  CallInv(cc', at')
    <2>1. PICK e : e = EndA(c1)
      OBVIOUS
    <2>2. /\ Base(e) /\ Kept(c1, e) /\ e.legs = c1.legs /\ e.stray = c1.stray
          /\ c1.A \in Gone => e = c1
      BY <1>5, <2>1, EndsA DEF SameLegs
    <2>3. PICK t : t = IF behind THEN e.late \cup {"attempt"} ELSE e.late
      OBVIOUS
    <2>4. PICK d : d = [e EXCEPT !.late = t]
      OBVIOUS
    <2>5. e \in Calls /\ t \in SUBSET {"session", "attempt"} /\ e.late \subseteq t
      BY <2>2, <2>3 DEF Base, Calls
    <2>6. Noted(e, d, t)
      BY <2>4, <2>5, Notes
    <2>7. Alike(e, d)
      BY <2>2, <2>5, <2>6 DEF Noted, Alike, Base, Attempts, Incoming
    <2>8. Base(d) /\ Kept(e, d) /\ (HungUp(e) => HungUp(d))
      BY <2>2, <2>6, <2>7, AlikeCalls DEF Noted
    <2>9. HungUp(d)
      <3>1. CASE cc.A \in Gone
        BY <1>5, <1>8, <2>2, <2>8, <3>1
      <3>2. CASE cc.A \notin Gone /\ behind
        BY <2>3, <2>6, <3>2 DEF Noted, HungUp
      <3>3. CASE cc.A \notin Gone /\ ~behind
        BY <1>5, <1>8, <2>2, <2>6, <3>3 DEF Noted, HungUp, Idle
      <3> QED  BY <3>1, <3>2, <3>3
    <2>10. Kept(cc, d)
      BY <1>5, <2>2, <2>8, KeptTwice
    <2>11. Harmless(cc, d)
      BY <2>8, <2>9, <2>10 DEF Harmless
    <2> QED  BY <1>8, <2>1, <2>3, <2>4, <2>11, CallKeeps
  <1> QED  BY <1>2, <1>3, <1>6, <1>7, <1>8 DEF emitPendingEvents

LEMMA NewDialogKeeps ==
    ASSUME CallInv(cc, at), OnNewDialog
    PROVE  CallInv(cc', at')
  <1>1. PICK c : c = cc
    OBVIOUS
  <1>2. Base(c) /\ HungUp(c) /\ c \in Calls
    BY <1>1 DEF CallInv, Base
  <1>3. PICK d : d = [c EXCEPT !.inMap = TRUE]
    OBVIOUS
  <1>4. /\ d \in Calls /\ d.A = c.A /\ d.state = c.state /\ d.legs = c.legs
        /\ d.connect_ts = c.connect_ts /\ d.acct = c.acct /\ d.acctA = c.acctA
        /\ d.acctO = c.acctO /\ d.routes = c.routes /\ d.auth = c.auth
        /\ d.rtp = c.rtp /\ d.ending = c.ending /\ d.stray = c.stray
        /\ d.proxied = c.proxied /\ d.owed = c.owed /\ d.late = c.late
    <2>1. c \in Calls
      BY <1>2
    <2> QED  BY <1>3, <2>1 DEF Calls
  <1>5. Alike(c, d)
    BY <1>2, <1>4 DEF Alike, Base, Attempts, Incoming
  <1>6. Harmless(cc, d)
    BY <1>1, <1>2, <1>4, <1>5, AlikeCalls DEF Harmless
  <1> QED  BY <1>1, <1>3, <1>6, CallKeeps DEF OnNewDialog

-----------------------------------------------------------------------------
(* Every step *)

\* A handler goes on, ends, or begins with a route.
Route(rnum) == [at EXCEPT !.pc = "create", !.rnum = rnum]
Moved ==
    \/ at' = at \/ at' = NoHandler
    \/ \E pc \in {"try", "session", "rDone", "route", "create", "setup", "send", "connect"} :
         at' = Stop(pc)
    \/ \E rnum : at' = Route(rnum)
    \/ \E rnum, leg : at' = [pc |-> "create", rnum |-> rnum, leg |-> leg]

LEMMA MovedType ==
    ASSUME at \in Handlers, CallInv(cc', at'), Moved
    PROVE  at' \in Handlers
  <1>1. CASE at' = at \/ at' = NoHandler
    <2>1. NoHandler \in Handlers
      BY RadiusCallAssumption DEF RadiusCallAssumption, NoHandler, Handlers
    <2> QED  BY <1>1, <2>1
  <1>2. CASE \E pc \in {"try", "session", "rDone", "route", "create", "setup", "send", "connect"} :
               at' = Stop(pc)
    BY <1>2, StopFields
  <1>3. ASSUME NEW rnum, NEW leg, at' = [pc |-> "create", rnum |-> rnum, leg |-> leg]
        PROVE  at' \in Handlers
    <2>1. PICK c : c = cc'
      OBVIOUS
    <2>2. PICK h : h = at'
      OBVIOUS
    <2>3. h.pc = "create" /\ h.rnum = rnum /\ h.leg = leg
      BY <1>3, <2>2
    <2>4. CallInv(c, h)
      BY <2>1, <2>2
    <2>5. c \in Calls /\ Routes(c) /\ rnum \in 1..MaxRoutes /\ (leg # 0 => leg \in DOMAIN c.legs)
      BY <2>3, <2>4 DEF CallInv, Base, Stopped, MayPlace
    <2>6. leg \in 0..MaxRoutes /\ rnum \in 0..MaxRoutes
      BY <2>5, LegIndex
    <2> QED  BY <1>3, <2>6 DEF Handlers
  <1>4. ASSUME NEW rnum, at' = Route(rnum)
        PROVE  at' \in Handlers
    <2>1. PICK h : h = at'
      OBVIOUS
    <2>2. h.pc = "create" /\ h.rnum = rnum
      BY <1>4, <2>1 DEF Route, Handlers
    <2>3. CallInv(cc', h)
      BY <2>1
    <2>4. rnum \in 1..MaxRoutes
      BY <2>2, <2>3 DEF CallInv, Stopped, MayPlace
    <2>5. rnum \in 0..MaxRoutes
      BY <2>4, RadiusCallAssumption DEF RadiusCallAssumption
    <2> QED  BY <1>4, <2>5 DEF Route, Handlers
  <1> QED  BY <1>1, <1>2, <1>3, <1>4 DEF Moved

LEMMA Configured ==
    ASSUME cfg \in Configs
    PROVE  cfg.acct \in BOOLEAN
  BY RadiusCallAssumption DEF RadiusCallAssumption, Configurations

\* The locks, the process and the handler.
Others == UNCHANGED <<cfg, cclock, maplock, proc>>

LEMMA HandlerSteps ==
    ASSUME at \in Handlers,
           \/ RecvTry \/ AuthDone \/ GoOn
           \/ \E i \in DOMAIN cc.legs : RecvConnect(i) \/ RecvFailure(i) \/ Refused(i)
    PROVE  Others /\ Moved
  <1>1. ASSUME NEW c, NEW h, Goes(c, h)
        PROVE  Others /\ at' = h
    BY <1>1 DEF Goes, Others
  <1>2. ASSUME NEW c, Call(c)
        PROVE  Others /\ Moved
    BY <1>2 DEF Call, Others, Moved
  <1>3. ASSUME NEW c, Ends(c)
        PROVE  Others /\ Moved
    <2>1. PICK d : Goes(d, NoHandler)
      BY <1>3 DEF Ends
    <2> QED  BY <1>1, <2>1 DEF Moved
  <1>4. ASSUME NEW c, NEW leg, Hunt(c, leg)
        PROVE  Others /\ Moved
    <2>1. PICK d, rnum : Goes(d, [pc |-> "create", rnum |-> rnum, leg |-> leg])
      BY <1>4 DEF Hunt
    <2> QED  BY <1>1, <2>1 DEF Moved
  <1>5. ASSUME NEW c, NEW pc \in {"try", "session", "rDone", "route", "create", "setup", "send",
                                  "connect"},
               Goes(c, Stop(pc))
        PROVE  Others /\ Moved
    BY <1>1, <1>5 DEF Moved
  <1>6. CASE RecvTry \/ AuthDone \/ RecvTry_Session \/ RecvTry_Auth \/ rDone
    <2>1. CASE RecvTry
      BY <1>5, <2>1 DEF RecvTry
    <2>2. CASE AuthDone
      BY <1>5, <2>2 DEF AuthDone
    <2>3. CASE RecvTry_Session
      BY <1>3, <1>5, <2>3 DEF RecvTry_Session
    <2>4. CASE RecvTry_Auth
      BY <1>3, <1>5, <2>4 DEF RecvTry_Auth
    <2>5. CASE rDone
      BY <1>3, <1>5, <2>5 DEF rDone
    <2> QED  BY <1>6, <2>1, <2>2, <2>3, <2>4, <2>5
  <1>7. CASE rDone_Routes
    <2>1. CASE \E c : Ends(c)
      BY <1>3, <2>1
    <2>2. ASSUME NEW c, NEW rnum, Goes(c, Route(rnum))
          PROVE  Others /\ Moved
      BY <1>1, <2>2 DEF Moved
    <2> QED  BY <1>7, <2>1, <2>2 DEF rDone_Routes, Route
  <1>8. CASE placeOriginate
    <2>1. (\E c : Ends(c)) \/ \E c : Goes(c, Stop("setup"))
      BY <1>8 DEF placeOriginate
    <2> QED  BY <1>3, <1>5, <2>1
  <1>9. CASE placeOriginate_Callbacks
    <2>1. \E c : Goes(c, Stop("send"))
      BY <1>9 DEF placeOriginate_Callbacks
    <2> QED  BY <1>5, <2>1
  <1>10. CASE placeOriginate_Try \/ RecvConnect_Event
    <2>1. \E c : Ends(c)
      BY <1>10 DEF placeOriginate_Try, RecvConnect_Event
    <2> QED  BY <1>3, <2>1
  <1>11. ASSUME NEW i \in DOMAIN cc.legs, RecvConnect(i) \/ RecvFailure(i) \/ Refused(i)
         PROVE  Others /\ Moved
    <2>1. CASE RecvConnect(i)
      <3>1. (\E c : Goes(c, Stop("connect"))) \/ \E c : Call(c)
        BY <2>1 DEF RecvConnect
      <3> QED  BY <1>2, <1>5, <3>1
    <2>2. CASE RecvFailure(i)
      <3>1. (\E c : Hunt(c, 0)) \/ \E c : Call(c)
        BY <2>2 DEF RecvFailure
      <3> QED  BY <1>2, <1>4, <3>1
    <2>3. CASE Refused(i)
      <3>1. (\E c : Hunt(c, i)) \/ \E c : Call(c)
        BY <2>3 DEF Refused
      <3> QED  BY <1>2, <1>4, <3>1
    <2> QED  BY <1>11, <2>1, <2>2, <2>3
  <1> QED  BY <1>6, <1>7, <1>8, <1>9, <1>10, <1>11 DEF GoOn

LEMMA LockSteps ==
    ASSUME TypeOK, [Next]_vars
    PROVE  /\ cfg' = cfg /\ Moved
           /\ cclock' \in {"free", "lost"}
           /\ maplock' \in {"free", "list", "lost"}
           /\ proc' \in {"run", "exit", "crash"}
  <1>0. /\ cclock \in {"free", "lost"} /\ maplock \in {"free", "list", "lost"}
        /\ proc \in {"run", "exit", "crash"} /\ at \in Handlers
    BY DEF TypeOK
  <1>1. CASE Others /\ Moved
    BY <1>0, <1>1 DEF Others
  <1>2. ASSUME NEW c, Call(c)
        PROVE  Others /\ Moved
    BY <1>2 DEF Call, Others, Moved
  <1>3. ASSUME NEW i \in DOMAIN cc.legs, RecvRing(i) \/ DisconnectO(i) \/ Answered(i)
        PROVE  \E c : Call(c)
    BY <1>3 DEF RecvRing, DisconnectO, Answered
  <1>4. CASE OnNewDialog \/ TakeAuth \/ HangupA \/ Disconnect \/ NoMedia
    <2>1. \E c : Call(c)
      BY <1>4 DEF OnNewDialog, TakeAuth, HangupA, Disconnect, NoMedia
    <2> QED  BY <1>1, <1>2, <2>1
  <1>5. ASSUME NEW skipto \in cc.gts, group_expires(skipto)
        PROVE  /\ UNCHANGED <<cfg, cclock, maplock>> /\ Moved
               /\ proc' \in {proc, "crash"}
    <2>1. \/ \E c : Call(c)
          \/ proc' = "crash" /\ UNCHANGED <<cfg, cc, at, cclock, maplock>>
      BY <1>5 DEF group_expires
    <2> QED  BY <1>2, <2>1 DEF Others, Moved
  <1>6. ASSUME NEW i \in 0..MaxRoutes, Alive(i) \/ emitPendingEvents(i)
        PROVE  \E c : Call(c)
    BY <1>6 DEF Alive, emitPendingEvents
  <1>7. ASSUME NEW c, DropCC(c)
        PROVE  UNCHANGED <<cfg, at, maplock, proc>> /\ cclock' \in {"free", "lost"}
    BY <1>7 DEF DropCC
  <1>8. CASE aDead \/ GoDeadO \/ \E i \in DOMAIN cc.legs : CancelEnds(i)
    <2>1. (\E c : DropCC(c)) \/ \E c : Call(c)
      BY <1>8 DEF aDead, GoDeadO, CancelEnds, oDead
    <2> QED  BY <1>0, <1>1, <1>2, <1>7, <2>1 DEF Moved
  <1>9. CASE DisconnectById_Panics \/ ListCalls \/ SafeRestart
    BY <1>0, <1>9 DEF DisconnectById_Panics, ListCalls, SafeRestart, Moved
  <1>10. CASE UNCHANGED vars
    BY <1>0, <1>10 DEF vars, Moved
  <1>11. CASE \/ RecvTry \/ AuthDone \/ GoOn
              \/ \E i \in DOMAIN cc.legs : RecvConnect(i) \/ RecvFailure(i) \/ Refused(i)
    BY <1>0, <1>1, <1>11, HandlerSteps
  <1> QED  BY <1>0, <1>1, <1>2, <1>3, <1>4, <1>5, <1>6, <1>8, <1>9, <1>10, <1>11 DEF Next, Others

LEMMA LegSteps ==
    ASSUME CallInv(cc, at), at \in Handlers, NEW i \in DOMAIN cc.legs,
           \/ RecvRing(i) \/ RecvConnect(i) \/ RecvFailure(i) \/ DisconnectO(i)
           \/ Answered(i) \/ Refused(i) \/ CancelEnds(i)
    PROVE  CallInv(cc', at')
  BY RingKeeps, ConnectKeeps, FailureKeeps, DisconnectOKeeps, AnsweredKeeps, RefusedKeeps,
     CancelKeeps

LEMMA CallSteps ==
    ASSUME CallInv(cc, at), at \in Handlers, cfg.acct \in BOOLEAN, [Next]_vars
    PROVE  CallInv(cc', at')
  <1>1. CASE \E i \in DOMAIN cc.legs :
               \/ RecvRing(i) \/ RecvConnect(i) \/ RecvFailure(i) \/ DisconnectO(i)
               \/ Answered(i) \/ Refused(i) \/ CancelEnds(i)
    BY <1>1, LegSteps
  <1>2. CASE OnNewDialog \/ RecvTry \/ TakeAuth \/ AuthDone
    BY <1>2, NewDialogKeeps, RecvTryKeeps, TakeAuthKeeps, AuthDoneKeeps
  <1>3. CASE GoOn
    BY <1>3, SessionKeeps, AuthKeeps, rDoneKeeps, RoutesKeep, PlaceKeeps, CallbacksKeep, TryKeeps,
       ConnectEventKeeps DEF GoOn
  <1>4. CASE HangupA \/ Disconnect \/ NoMedia
    BY <1>4, HangupAKeeps, DisconnectKeeps, NoMediaKeeps
  <1>5. CASE \E skipto \in cc.gts : group_expires(skipto)
    BY <1>5, GroupKeeps
  <1>6. CASE \E i \in 0..MaxRoutes : Alive(i) \/ emitPendingEvents(i)
    BY <1>6, AliveKeeps, EmitKeeps
  <1>7. CASE aDead \/ GoDeadO
    BY <1>7, aDeadKeeps, GoDeadKeeps
  <1>8. CASE DisconnectById_Panics \/ ListCalls \/ SafeRestart \/ UNCHANGED vars
    <2>1. cc' = cc /\ at' = at
      BY <1>8 DEF DisconnectById_Panics, ListCalls, SafeRestart, vars
    <2> QED  BY <2>1
  <1> QED  BY <1>1, <1>2, <1>3, <1>4, <1>5, <1>6, <1>7, <1>8 DEF Next

LEMMA NextCall ==
    ASSUME CallInv(cc', at'), cfg' = cfg
    PROVE  CallInv(cc, at)'
  BY DEF CallInv, Base, HungUp, Stopped, Idle, Incoming, Routes, Attempts, Queue, InOrder, InTurn,
         Buried, Before, Billed, Unbegun, MayPlace, Unset, Unsent, Account, Increasing

-----------------------------------------------------------------------------
(* Theorems *)

LEMMA NewCall ==
    ASSUME cc = NewCC, at = NoHandler
    PROVE  CallInv(cc, at)
  <1>1. PICK c : c = NewCC
    OBVIOUS
  <1>2. 0 \in 0..MaxRoutes /\ MaxRoutes \in Nat
    BY RadiusCallAssumption DEF RadiusCallAssumption
  <1>3. NoAccount \in Accounts
    BY DEF NoAccount, Accounts
  <1>4. /\ c.state = "Idle" /\ c.A = "none" /\ c.legs = <<>> /\ c.connect_ts = {}
        /\ c.acct = [i \in 0..MaxRoutes |-> NoAccount] /\ c.acctA = FALSE /\ c.acctO = 0
        /\ c.routes = <<>> /\ c.auth = "none" /\ c.rtp = "none" /\ c.ending = <<>>
        /\ c.stray = FALSE /\ c.proxied = FALSE /\ c.owed = {} /\ c.late = {}
    BY <1>1 DEF NewCC
  <1>5. c \in Calls
    <2>1. /\ [i \in 0..MaxRoutes |-> NoAccount] \in [0..MaxRoutes -> Accounts]
          /\ <<>> \in Seq(Legs) /\ <<>> \in Seq(1..MaxRoutes) /\ <<>> \in Seq(0..MaxRoutes)
      BY <1>3
    <2> QED  BY <1>1, <1>2, <2>1 DEF NewCC, Calls, AStates
  <1>6. Incoming(c)
    <2>1. c.acct[0] = NoAccount /\ ~NoAccount.on
      BY <1>2, <1>4 DEF NoAccount
    <2>2. Account(NoAccount, FALSE, FALSE)
      BY DEF NoAccount, Account
    <2>3. c.A \notin Gone /\ 0 \notin c.connect_ts
      BY <1>4 DEF Gone
    <2>4. Account(c.acct[0], 0 \in c.connect_ts, c.A \in Gone)
      BY <2>1, <2>2, <2>3 DEF Account
    <2> QED  BY <1>4, <2>1, <2>3, <2>4 DEF Incoming
  <1>7. Routes(c) /\ Attempts(c) /\ InTurn(c) /\ Queue(c) /\ InOrder(c)
    BY <1>2, <1>4 DEF Routes, Attempts, InTurn, Queue, InOrder, Increasing
  <1>8. HungUp(c) /\ Stopped(c, NoHandler)
    BY <1>4 DEF HungUp, Stopped, NoHandler, Gone
  <1> QED  BY <1>1, <1>5, <1>6, <1>7, <1>8 DEF CallInv, Base

\* The invariant holds in every state of the call, whatever the order of hang-ups,
\* answers, refusals, group timers and commands, those included that end a leg
\* while a handler runs.
THEOREM Invariance == Spec => []IInv
  <1>1. Init => IInv
    <2> SUFFICES ASSUME Init PROVE IInv
      OBVIOUS
    <2>1. cc = NewCC /\ at = NoHandler
      BY DEF Init
    <2>2. CallInv(cc, at)
      BY <2>1, NewCall
    <2>3. NoHandler \in Handlers
      BY RadiusCallAssumption DEF RadiusCallAssumption, NoHandler, Handlers
    <2> QED  BY <2>1, <2>2, <2>3 DEF Init, IInv, TypeOK, CallInv, Base
  <1>2. IInv /\ [Next]_vars => IInv'
    <2> SUFFICES ASSUME IInv, [Next]_vars PROVE IInv'
      OBVIOUS
    <2>1. TypeOK /\ CallInv(cc, at) /\ cfg \in Configs /\ at \in Handlers
      BY DEF IInv, TypeOK
    <2>2. CallInv(cc', at')
      BY <2>1, Configured, CallSteps
    <2>3. /\ cfg' = cfg /\ Moved
          /\ cclock' \in {"free", "lost"}
          /\ maplock' \in {"free", "list", "lost"}
          /\ proc' \in {"run", "exit", "crash"}
      BY <2>1, LockSteps
    <2>4. CallInv(cc, at)'
      BY <2>2, <2>3, NextCall
    <2>5. cc' \in Calls /\ at' \in Handlers
      BY <2>1, <2>2, <2>3, MovedType DEF CallInv, Base
    <2>6. TypeOK'
      BY <2>1, <2>3, <2>5 DEF TypeOK
    <2> QED  BY <2>4, <2>6 DEF IInv
  <1> QED  BY <1>1, <1>2, PTL DEF Spec

\* TypeOK: in particular acctO, the legs in ending and those whose event is still
\* to come always name an attempt there is an account for: there are never more
\* attempts than the answer had routes (placeOriginate, rDone).
THEOREM TypeCorrect == Spec => []TypeOK
  BY Invariance, PTL DEF IInv

\* OneAttempt: routes are tried one at a time and in their order, and none is
\* going on once the caller is gone, whatever leg a command of the call map ends
\* during a handler: the exceptions are the event that is not emitted yet (owed)
\* and the attempt that was about to be made (late, stray) (RecvEvent,
\* placeOriginate, group_expires, Ua.Disconnect).
THEOREM OneAttemptHolds == Spec => []OneAttempt
  <1>1. IInv => OneAttempt
    <2> SUFFICES ASSUME IInv, ~cc.stray PROVE OneAttempt
      BY DEF OneAttempt
    <2>1. Base(cc) /\ HungUp(cc) /\ InOrder(cc) /\ Routes(cc) /\ cc \in Calls
      BY DEF IInv, CallInv, Base
    <2>2. DOMAIN cc.legs = 1..Len(cc.legs) /\ Len(cc.legs) \in Nat
      BY <2>1, LegIndex
    <2>3. ASSUME NEW i \in DOMAIN cc.legs, NEW j \in DOMAIN cc.legs, i < j
          PROVE  cc.legs[i].st \in Ended /\ cc.legs[i].rnum < cc.legs[j].rnum
      <3>1. i < Len(cc.legs)
        BY <2>2, <2>3
      <3>2. Buried(cc, i)
        BY <2>1, <3>1 DEF InOrder
      <3> QED  BY <2>1, <2>3, <3>2 DEF Buried, Ended, Routes
    <2>4. cc.A \in Gone /\ 0 \notin cc.owed /\ "attempt" \notin cc.late =>
            \A i \in DOMAIN cc.legs : cc.legs[i].st \notin Active
      BY <2>1 DEF HungUp, Idle
    <2> QED  BY <2>3, <2>4 DEF OneAttempt
  <1> QED  BY <1>1, Invariance, PTL

LEMMA Coheres ==
    ASSUME NEW a, NEW up, NEW down, Account(a, up, down)
    PROVE  Coherent(a)
  BY DEF Account, Coherent

\* EndsClean: the records of a leg say what became of it, Stop is sent when it ends
\* and not before, with a session time if and only if a Start went out, and the
\* rtpproxy session of a call that is over is gone, unless the handler that was
\* running opened it when the leg had ended (late) (Disc, asend, aDisc, oDisc,
\* placeOriginate, RecvEvent, rDone after the caller is gone).
THEOREM EndsCleanHolds == Spec => []EndsClean
  <1>1. IInv => EndsClean
    <2> SUFFICES ASSUME IInv PROVE EndsClean
      OBVIOUS
    <2>1. Incoming(cc) /\ InTurn(cc) /\ Routes(cc) /\ cc \in Calls
      BY DEF IInv, CallInv, Base
    <2>2. Account(cc.acct[0], 0 \in cc.connect_ts, cc.A \in Gone)
      BY <2>1 DEF Incoming
    <2>3. Coherent(cc.acct[0])
      BY <2>2, Coheres
    <2>4. cc.acct[0].on => ("Stop" \in cc.acct[0].sent <=> cc.A \in {"over", "dead"})
      BY <2>2 DEF Account, Gone
    <2>5. ASSUME ~cc.stray, NEW i \in DOMAIN cc.legs
          PROVE  /\ cc.legs[i].bill => ("Stop" \in cc.acct[i].sent <=> cc.legs[i].st \in Ended)
                 /\ Coherent(cc.acct[i])
      <3>1. /\ Account(cc.acct[i], cc.legs[i].bill /\ i \in cc.connect_ts,
                                   cc.legs[i].bill /\ cc.legs[i].st \in Ended)
            /\ cc.legs[i].bill => cc.acct[i].on
        BY <2>1, <2>5 DEF InTurn, Billed
      <3>2. Coherent(cc.acct[i])
        BY <3>1, Coheres
      <3> QED  BY <3>1, <3>2 DEF Account
    <2>6. StopMatches
      BY <2>3, <2>4, <2>5 DEF StopMatches
    <2>7. SessionReleased
      BY <2>1 DEF SessionReleased, Incoming
    <2> QED  BY <2>6, <2>7 DEF EndsClean
  <1> QED  BY <1>1, Invariance, PTL
=============================================================================
