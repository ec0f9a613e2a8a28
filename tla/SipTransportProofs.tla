-------------------------- MODULE SipTransportProofs --------------------------
(***************************************************************************)
(* The safety properties of SipTransport for any number of workers, timers *)
(* and messages and queues of any capacity; and, at the end, of Dialog,    *)
(* which shares no state with it: where the messages of a leg are sent.    *)
(***************************************************************************)
EXTENDS SipTransport, Dialog, SequenceTheorems, TLAPS

USE TransportAssumption DEF TransportAssumption

Queued == {Nil} \union Messages

\* What the operations of the queues and the workers keep of their types.
LEMMA QueueTypes ==
    ASSUME NEW q \in Seq(Queued), NEW m \in Queued
    PROVE  /\ Append(q, m) \in Seq(Queued)
           /\ Len(Append(q, m)) = Len(q) + 1
           /\ q # <<>> => /\ Head(q) \in Queued
                          /\ Tail(q) \in Seq(Queued)
                          /\ Len(Tail(q)) = Len(q) - 1
  BY AppendProperties, HeadTailProperties

LEMMA SendToTypes ==
    ASSUME TypeOK, NEW m \in Messages, NEW name \in BOOLEAN, SendTo(m, name)
    PROVE  /\ wi' \in Seq(Queued) /\ Len(wi') <= QueueCap
           /\ wi_resolv' \in Seq(Queued) /\ Len(wi_resolv') <= QueueCap
  <1>0. wi \in Seq(Queued) /\ wi_resolv \in Seq(Queued) /\ m \in Queued
    BY DEF TypeOK, Queued
  <1>1. CASE name
    <2>1. wi_resolv' = Append(wi_resolv, m) /\ Len(wi_resolv) < QueueCap /\ wi' = wi
      BY <1>1 DEF SendTo
    <2> QED
      BY <1>0, <2>1, QueueTypes DEF TypeOK
  <1>2. CASE ~name
    <2>1. wi' = Append(wi, m) /\ Len(wi) < QueueCap /\ wi_resolv' = wi_resolv
      BY <1>2 DEF SendTo
    <2> QED
      BY <1>0, <2>1, QueueTypes DEF TypeOK
  <1> QED
    BY <1>1, <1>2

LEMMA InitTypeOK == Init => TypeOK
  BY DEF Init, TypeOK, Loads, Messages, Nil, Idle, Stopped, None, Old

LEMMA TypeStep == TypeOK /\ [Next]_vars => TypeOK'
  <1> SUFFICES ASSUME TypeOK, [Next]_vars PROVE TypeOK'
    OBVIOUS
  <1> USE DEF TypeOK, Loads, Queued, vars, udp, l4r, Nil, Idle, Stopped
  <1>1. ASSUME NEW w \in Workers, SenderSteps(w) PROVE TypeOK'
    <2>1. CASE SenderTakes(w) BY <2>1, QueueTypes DEF SenderTakes
    <2>2. CASE SenderWrites(w) BY <2>2 DEF SenderWrites
    <2>3. CASE SenderStops(w) BY <2>3, QueueTypes DEF SenderStops
    <2> QED BY <1>1, <2>1, <2>2, <2>3 DEF SenderSteps
  <1>2. ASSUME NEW w \in Workers, ResolverSteps(w) PROVE TypeOK'
    <2>1. CASE ResolverTakes(w) BY <2>1, QueueTypes DEF ResolverTakes
    <2>2. CASE Resolved(w) BY <2>2, QueueTypes DEF Resolved
    <2>3. CASE Unresolved(w) BY <2>3 DEF Unresolved
    <2>4. CASE ResolverStops(w) BY <2>4, QueueTypes DEF ResolverStops
    <2> QED BY <1>2, <2>1, <2>2, <2>3, <2>4 DEF ResolverSteps
  <1>3. ASSUME NEW w \in Workers, ReceiverSteps(w) PROVE TypeOK'
    <2>1. ASSUME NEW name \in BOOLEAN, ReceiverSends(w, name) PROVE TypeOK'
      <3>1. /\ wi' \in Seq(Queued) /\ Len(wi') <= QueueCap
            /\ wi_resolv' \in Seq(Queued) /\ Len(wi_resolv') <= QueueCap
        BY <2>1, SendToTypes DEF ReceiverSends
      <3> QED BY <2>1, <3>1 DEF ReceiverSends
    <2>2. CASE ReceiverStops(w) BY <2>2 DEF ReceiverStops
    <2> QED BY <1>3, <2>1, <2>2 DEF ReceiverSteps
  <1>4. ASSUME NEW bound \in BOOLEAN, NewMessage(bound)
        PROVE  /\ msgs' \in Messages
               /\ cache_r2l' \in {None, Home, Away} /\ cache_r2l_old' \in {None, Home, Away}
               /\ cache_l2s' \subseteq {Home, Away} /\ route' \in {Home, Away}
               /\ fixed' \in BOOLEAN /\ unused' \in 0..Old
    BY <1>4 DEF NewMessage, getServer, FixedServer, Messages, Cached, Old
  <1>5. ASSUME NEW w \in Workers, NEW bound \in BOOLEAN, handle_read(w, bound) PROVE TypeOK'
    <2>1. NewMessage(bound) BY <1>5 DEF handle_read
    <2>2. UNCHANGED udp BY <2>1 DEF NewMessage
    <2> QED BY <1>5, <2>1, <2>2, <1>4 DEF handle_read, Messages
  <1>6. ASSUME NEW t \in Timers, NEW bound \in BOOLEAN, TimerFires(t, bound) PROVE TypeOK'
    <2>1. NewMessage(bound) BY <1>6 DEF TimerFires
    <2>2. UNCHANGED udp BY <2>1 DEF NewMessage
    <2> QED BY <1>6, <2>1, <2>2, <1>4 DEF TimerFires, Messages
  <1>7. ASSUME NEW t \in Timers, NEW name \in BOOLEAN, TimerSends(t, name) PROVE TypeOK'
    <2>1. /\ wi' \in Seq(Queued) /\ Len(wi') <= QueueCap
          /\ wi_resolv' \in Seq(Queued) /\ Len(wi_resolv') <= QueueCap
      BY <1>7, SendToTypes DEF TimerSends
    <2> QED BY <1>7, <2>1 DEF TimerSends
  <1>8. CASE StopSenders
    BY <1>8, QueueTypes DEF StopSenders
  <1>9. CASE CloserSteps
    <2>1. CASE StopResolvers BY <2>1, QueueTypes DEF StopResolvers
    <2>2. CASE CloseSocket \/ Closed BY <2>2 DEF CloseSocket, Closed
    <2> QED BY <1>9, <2>1, <2>2 DEF CloserSteps
  <1>10. CASE rotateCache \/ RouteChanges
    BY <1>10 DEF rotateCache, RouteChanges, Old
  <1>11. CASE UNCHANGED vars
    BY <1>11
  <1> QED
    BY <1>1, <1>2, <1>3, <1>5, <1>6, <1>7, <1>8, <1>9, <1>10, <1>11 DEF Next

\* The state of the transport has its type.
THEOREM TypeCorrect == Spec => []TypeOK
  BY InitTypeOK, TypeStep, PTL DEF Spec

-------------------------------------------------------------------------------
(* The cache of local4remote                                                *)

\* What the history of rotations says of the two generations of the cache.
Generations ==
    /\ unused = 0 => cache_r2l # None
    /\ unused = 1 => cache_r2l = None /\ cache_r2l_old # None
    /\ unused = Old => cache_r2l = None /\ cache_r2l_old = None

LEMMA GenerationsStep == TypeOK /\ Generations /\ [Next]_vars => Generations'
  <1> SUFFICES ASSUME TypeOK, Generations, [Next]_vars PROVE Generations'
    OBVIOUS
  <1> USE DEF TypeOK, Generations, Old, None, vars, l4r
  <1>1. CASE UNCHANGED l4r
    BY <1>1
  <1>2. ASSUME NEW bound \in BOOLEAN, NewMessage(bound) PROVE Generations'
    BY <1>2 DEF NewMessage, getServer, FixedServer, Cached
  <1>3. CASE rotateCache \/ RouteChanges
    BY <1>3 DEF rotateCache, RouteChanges
  <1>4. CASE Closed
    BY <1>4 DEF Closed
  <1>5. CASE \E w \in Workers : SenderSteps(w) \/ ResolverSteps(w) \/ ReceiverSteps(w)
    BY <1>5, <1>1 DEF SenderSteps, SenderTakes, SenderWrites, SenderStops, ResolverSteps,
       ResolverTakes, Resolved, Unresolved, ResolverStops, ReceiverSteps, ReceiverSends,
       ReceiverStops
  <1>6. CASE \E t \in Timers, name \in BOOLEAN : TimerSends(t, name)
    BY <1>6, <1>1 DEF TimerSends
  <1>7. CASE StopSenders \/ StopResolvers \/ CloseSocket
    BY <1>7, <1>1 DEF StopSenders, StopResolvers, CloseSocket
  <1> QED
    BY <1>1, <1>2, <1>3, <1>4, <1>5, <1>6, <1>7 DEF Next, CloserSteps, handle_read, TimerFires

\* A remote in use is not looked up again, and one not used between two rotations
\* is: the entry of cache_r2l lives through exactly one rotateCache without a use.
THEOREM RouteWindowHolds == Spec => []RouteWindow
  <1>1. Init => Generations
    BY DEF Init, Generations, Old, None
  <1>2. TypeOK /\ Generations => RouteWindow
    BY DEF TypeOK, Generations, RouteWindow, Cached, Old, None
  <1> QED
    BY <1>1, <1>2, InitTypeOK, TypeStep, GenerationsStep, PTL DEF Spec

-------------------------------------------------------------------------------
(* Messages on their way                                                    *)

\* m is one of the values of f, a queue or what some goroutines hold; or one of
\* them at one place only.
In(f, m) == \E x \in DOMAIN f : f[x] = m
Once(f, m) == \A x, y \in DOMAIN f : f[x] = m /\ f[y] = m => x = y

LEMMA QueueAppend ==
    ASSUME NEW q \in Seq(Queued), NEW e \in Queued, NEW m
    PROVE  /\ In(Append(q, e), m) => In(q, m) \/ e = m
           /\ Once(q, m) /\ (e = m => ~In(q, m)) => Once(Append(q, e), m)
           /\ \A i \in 1..Len(Append(q, e)) :
                Append(q, e)[i] = IF i = Len(q) + 1 THEN e ELSE q[i]
  <1>1. /\ Append(q, e) \in Seq(Queued) /\ Len(Append(q, e)) = Len(q) + 1
        /\ \A i \in 1..Len(q) : Append(q, e)[i] = q[i]
        /\ Append(q, e)[Len(q) + 1] = e
    BY AppendProperties
  <1>2. DOMAIN q = 1..Len(q) /\ DOMAIN Append(q, e) = 1..Len(Append(q, e)) /\ Len(q) \in Nat
    BY <1>1, LenProperties
  <1> QED
    BY <1>1, <1>2 DEF In, Once

LEMMA QueueTail ==
    ASSUME NEW q \in Seq(Queued), q # <<>>, NEW m
    PROVE  /\ In(Tail(q), m) => In(q, m)
           /\ Head(q) = m => In(q, m)
           /\ Once(q, m) => Once(Tail(q), m)
           /\ Once(q, m) /\ Head(q) = m => ~In(Tail(q), m)
           /\ Head(q) = q[1]
           /\ \A i \in 1..Len(Tail(q)) : Tail(q)[i] = q[i + 1] /\ i + 1 \in 1..Len(q)
  <1>1. /\ Tail(q) \in Seq(Queued) /\ Len(Tail(q)) = Len(q) - 1
        /\ \A i \in 1..Len(Tail(q)) : Tail(q)[i] = q[i + 1]
    BY HeadTailProperties
  <1>2. /\ DOMAIN q = 1..Len(q) /\ DOMAIN Tail(q) = 1..Len(Tail(q))
        /\ Len(q) \in Nat \ {0}
    BY <1>1, LenProperties, EmptySeq
  <1>3. Head(q) = q[1]
    OBVIOUS
  <1> QED
    BY <1>1, <1>2, <1>3 DEF In, Once

\* A message is with one goroutine or at one place of a queue until it is given to
\* the senders, and only with them after that.
Alone(m) == Once(receiver, m) /\ Once(timer, m) /\ Once(resolver, m) /\ Once(wi_resolv, m)
Leaving(m) == In(wi, m) \/ In(sender, m)
Apart(m) ==
    /\ In(receiver, m) => ~In(timer, m) /\ ~In(resolver, m) /\ ~In(wi_resolv, m) /\ ~Leaving(m)
    /\ In(timer, m) => ~In(resolver, m) /\ ~In(wi_resolv, m) /\ ~Leaving(m)
    /\ In(resolver, m) => ~In(wi_resolv, m) /\ ~Leaving(m)
    /\ In(wi_resolv, m) => ~Leaving(m)
Upstream(m) == In(receiver, m) \/ In(timer, m) \/ In(resolver, m) \/ In(wi_resolv, m)

\* One message: a new one is nowhere, and what the senders had when the shutdown
\* began is not given to them again.
Way(m) ==
    /\ Alone(m) /\ Apart(m)
    /\ m > msgs => ~Upstream(m) /\ ~Leaving(m) /\ m \notin early
    /\ m \in early => ~Upstream(m)

Delivery == \A m \in Messages : Way(m)

\* The nil is behind all that the senders had when the shutdown began.
NilBehind ==
    /\ \A i, j \in 1..Len(wi) : wi[i] = Nil /\ wi[j] \in early => j < i
    /\ \A w \in Workers : sender[w] \in {Nil, Stopped} =>
         \A i \in 1..Len(wi) : wi[i] \notin early

Closing ==
    /\ closer = "no" => /\ early = {}
                        /\ \A i \in 1..Len(wi) : wi[i] # Nil
                        /\ \A w \in Workers : sender[w] \notin {Nil, Stopped}
    /\ ~open => AllStopped(sender)

IInv == TypeOK /\ Delivery /\ NilBehind /\ Closing

LEMMA DeliveryStep == TypeOK /\ Delivery /\ [Next]_vars => Delivery'
  <1> SUFFICES ASSUME TypeOK, Delivery, [Next]_vars, NEW m \in Messages PROVE Way(m)'
    BY DEF Delivery
  <1>0. /\ Way(m) /\ m \in Queued /\ m \notin {Nil, Idle, Stopped}
        /\ wi \in Seq(Queued) /\ wi_resolv \in Seq(Queued)
        /\ sender \in [Workers -> Loads] /\ resolver \in [Workers -> Loads]
        /\ receiver \in [Workers -> Loads] /\ timer \in [Timers -> Loads]
        /\ Nil \in Queued /\ Messages \subseteq Queued /\ msgs \in Nat
    BY DEF Delivery, TypeOK, Queued, Messages, Nil, Idle, Stopped
  <1> USE <1>0 DEF Way, Alone, Apart, Upstream, Leaving
  <1>1. ASSUME NEW w \in Workers, SenderSteps(w) PROVE Way(m)'
    <2>1. CASE SenderTakes(w)
      <3>1. In(sender', m) => In(sender, m) \/ Head(wi) = m
        BY <2>1 DEF SenderTakes, In, Once
      <3>2. (In(wi', m) => In(wi, m)) /\ (Head(wi) = m => In(wi, m))
        BY <2>1, QueueTail DEF SenderTakes
      <3> QED
        BY <2>1, <3>1, <3>2 DEF SenderTakes
    <2>2. CASE SenderWrites(w)
      <3>1. In(sender', m) => In(sender, m)
        BY <2>2 DEF SenderWrites, In, Once
      <3> QED
        BY <2>2, <3>1 DEF SenderWrites
    <2>3. CASE SenderStops(w)
      <3>1. In(sender', m) => In(sender, m)
        BY <2>3 DEF SenderStops, In, Once
      <3>2. In(wi', m) => In(wi, m)
        BY <2>3, QueueAppend DEF SenderStops
      <3> QED
        BY <2>3, <3>1, <3>2 DEF SenderStops
    <2> QED
      BY <1>1, <2>1, <2>2, <2>3 DEF SenderSteps
  <1>2. ASSUME NEW w \in Workers, ResolverSteps(w) PROVE Way(m)'
    <2>1. CASE ResolverTakes(w)
      <3>1. /\ In(resolver', m) => In(resolver, m) \/ Head(wi_resolv) = m
            /\ (Head(wi_resolv) = m => ~In(resolver, m)) => Once(resolver', m)
        BY <2>1 DEF ResolverTakes, In, Once
      <3>2. /\ In(wi_resolv', m) => In(wi_resolv, m)
            /\ Head(wi_resolv) = m => In(wi_resolv, m) /\ ~In(wi_resolv', m)
            /\ Once(wi_resolv', m)
        BY <2>1, QueueTail DEF ResolverTakes
      <3> QED
        BY <2>1, <3>1, <3>2 DEF ResolverTakes
    <2>2. CASE Resolved(w)
      <3>1. /\ In(resolver', m) => In(resolver, m)
            /\ resolver[w] = m => In(resolver, m) /\ ~In(resolver', m)
            /\ Once(resolver', m)
        BY <2>2 DEF Resolved, In, Once
      <3>2. In(wi', m) => In(wi, m) \/ resolver[w] = m
        BY <2>2, QueueAppend DEF Resolved
      <3> QED
        BY <2>2, <3>1, <3>2 DEF Resolved
    <2>3. CASE Unresolved(w)
      <3>1. (In(resolver', m) => In(resolver, m)) /\ Once(resolver', m)
        BY <2>3 DEF Unresolved, In, Once
      <3> QED
        BY <2>3, <3>1 DEF Unresolved
    <2>4. CASE ResolverStops(w)
      <3>1. (In(resolver', m) => In(resolver, m)) /\ Once(resolver', m)
        BY <2>4 DEF ResolverStops, In, Once
      <3>2. (In(wi_resolv', m) => In(wi_resolv, m)) /\ Once(wi_resolv', m)
        BY <2>4, QueueAppend DEF ResolverStops
      <3> QED
        BY <2>4, <3>1, <3>2 DEF ResolverStops
    <2> QED
      BY <1>2, <2>1, <2>2, <2>3, <2>4 DEF ResolverSteps
  <1>3. ASSUME NEW k \in Messages, NEW name \in BOOLEAN, SendTo(k, name)
        PROVE  /\ In(wi', m) => In(wi, m) \/ k = m
               /\ In(wi_resolv', m) => In(wi_resolv, m) \/ k = m
               /\ In(wi', m) /\ In(wi_resolv', m) => In(wi, m) \/ In(wi_resolv, m)
               /\ (k = m => ~In(wi_resolv, m)) => Once(wi_resolv', m)
    <2>1. CASE name
      <3>1. wi_resolv' = Append(wi_resolv, k) /\ wi' = wi
        BY <1>3, <2>1 DEF SendTo
      <3> QED
        BY <3>1, QueueAppend
    <2>2. CASE ~name
      <3>1. wi' = Append(wi, k) /\ wi_resolv' = wi_resolv
        BY <1>3, <2>2 DEF SendTo
      <3> QED
        BY <3>1, QueueAppend
    <2> QED
      BY <2>1, <2>2
  <1>4. ASSUME NEW w \in Workers, ReceiverSteps(w) PROVE Way(m)'
    <2>1. ASSUME NEW name \in BOOLEAN, ReceiverSends(w, name) PROVE Way(m)'
      <3>1. /\ In(receiver', m) => In(receiver, m)
            /\ receiver[w] = m => In(receiver, m) /\ ~In(receiver', m)
            /\ Once(receiver', m)
        BY <2>1 DEF ReceiverSends, In, Once
      <3> QED
        BY <2>1, <3>1, <1>3 DEF ReceiverSends
    <2>2. CASE ReceiverStops(w)
      <3>1. (In(receiver', m) => In(receiver, m)) /\ Once(receiver', m)
        BY <2>2 DEF ReceiverStops, In, Once
      <3> QED
        BY <2>2, <3>1 DEF ReceiverStops, udp
    <2> QED
      BY <1>4, <2>1, <2>2 DEF ReceiverSteps
  <1>5. ASSUME NEW w \in Workers, NEW bound \in BOOLEAN, handle_read(w, bound) PROVE Way(m)'
    <2>1. msgs' = msgs + 1 /\ UNCHANGED <<udp, timer>>
      BY <1>5 DEF handle_read, NewMessage
    <2>2. /\ In(receiver', m) => In(receiver, m) \/ m = msgs'
          /\ (m = msgs' => ~In(receiver, m)) => Once(receiver', m)
      <3>1. CASE Here
        BY <3>1, <1>5 DEF handle_read, In, Once
      <3>2. CASE ~Here
        BY <3>2, <1>5 DEF handle_read, In, Once
      <3> QED
        BY <3>1, <3>2
    <2> QED
      BY <2>1, <2>2 DEF udp, Messages
  <1>6. ASSUME NEW t \in Timers, NEW bound \in BOOLEAN, TimerFires(t, bound) PROVE Way(m)'
    <2>1. msgs' = msgs + 1 /\ UNCHANGED <<udp, receiver>>
      BY <1>6 DEF TimerFires, NewMessage
    <2>2. /\ In(timer', m) => In(timer, m) \/ m = msgs'
          /\ (m = msgs' => ~In(timer, m)) => Once(timer', m)
      <3>1. CASE Here
        BY <3>1, <1>6 DEF TimerFires, In, Once
      <3>2. CASE ~Here
        BY <3>2, <1>6 DEF TimerFires, In, Once
      <3> QED
        BY <3>1, <3>2
    <2> QED
      BY <2>1, <2>2 DEF udp, Messages
  <1>7. ASSUME NEW t \in Timers, NEW name \in BOOLEAN, TimerSends(t, name) PROVE Way(m)'
    <2>1. /\ In(timer', m) => In(timer, m)
          /\ timer[t] = m => In(timer, m) /\ ~In(timer', m)
          /\ Once(timer', m)
      BY <1>7 DEF TimerSends, In, Once
    <2> QED
      BY <1>7, <2>1, <1>3 DEF TimerSends
  <1>8. CASE StopSenders
    <2>1. In(wi', m) => In(wi, m)
      BY <1>8, QueueAppend DEF StopSenders
    <2>2. m \in early' => Leaving(m)
      BY <1>8, LenProperties DEF StopSenders, In
    <2> QED
      BY <1>8, <2>1, <2>2 DEF StopSenders
  <1>9. CASE CloserSteps
    <2>1. CASE StopResolvers
      <3>1. (In(wi_resolv', m) => In(wi_resolv, m)) /\ Once(wi_resolv', m)
        BY <2>1, QueueAppend DEF StopResolvers
      <3> QED
        BY <2>1, <3>1 DEF StopResolvers
    <2>2. CASE CloseSocket \/ Closed
      BY <2>2 DEF CloseSocket, Closed
    <2> QED
      BY <1>9, <2>1, <2>2 DEF CloserSteps
  <1>10. CASE rotateCache \/ RouteChanges \/ UNCHANGED vars
    BY <1>10 DEF rotateCache, RouteChanges, udp, vars
  <1> QED
    BY <1>1, <1>2, <1>3, <1>4, <1>5, <1>6, <1>7, <1>8, <1>9, <1>10 DEF Next

\* Before the shutdown no worker has the nil; once the socket is closed no sender
\* works any more.
LEMMA ClosingStep == TypeOK /\ Closing /\ [Next]_vars => Closing'
  <1> SUFFICES ASSUME TypeOK, Closing, [Next]_vars PROVE Closing'
    OBVIOUS
  <1>0. wi \in Seq(Queued) /\ sender \in [Workers -> Loads] /\ Messages \subseteq Queued
    BY DEF TypeOK, Queued
  <1> USE <1>0 DEF Closing, AllStopped
  <1>1. ASSUME NEW w \in Workers, SenderTakes(w) PROVE Closing'
    <2>1. /\ Head(wi) = wi[1] /\ 1 \in 1..Len(wi)
          /\ \A i \in 1..Len(wi') : wi'[i] = wi[i + 1] /\ i + 1 \in 1..Len(wi)
      BY <1>1, QueueTail, EmptySeq DEF SenderTakes
    <2>2. sender[w] # Stopped
      BY <1>1 DEF SenderTakes, Idle, Stopped
    <2>3. closer = "no" => Head(wi) \notin {Nil, Stopped}
      BY <1>1, <2>1, HeadTailProperties DEF SenderTakes, Queued, Messages, Nil, Stopped
    <2> QED
      BY <1>1, <2>1, <2>2, <2>3 DEF SenderTakes
  <1>2. ASSUME NEW w \in Workers, SenderWrites(w) PROVE Closing'
    BY <1>2 DEF SenderWrites, Messages, Idle, Nil, Stopped
  <1>3. ASSUME NEW w \in Workers, SenderStops(w) PROVE Closing'
    BY <1>3 DEF SenderStops
  <1>4. ASSUME NEW m \in Messages,
               wi' = wi \/ wi' = Append(wi, m),
               UNCHANGED <<sender, closer, open, early>>
        PROVE  Closing'
    <2>1. m \in Queued /\ m # Nil
      BY DEF Queued, Messages, Nil
    <2>2. CASE wi' = wi
      BY <1>4, <2>2
    <2>3. CASE wi' = Append(wi, m)
      BY <1>4, <2>1, <2>3, QueueAppend, AppendProperties
    <2> QED
      BY <1>4, <2>2, <2>3
  <1>5. ASSUME NEW w \in Workers, ResolverSteps(w) PROVE Closing'
    <2>1. CASE Resolved(w)
      BY <2>1, <1>4 DEF Resolved
    <2>2. CASE ResolverTakes(w) \/ Unresolved(w) \/ ResolverStops(w)
      BY <2>2 DEF ResolverTakes, Unresolved, ResolverStops
    <2> QED
      BY <1>5, <2>1, <2>2 DEF ResolverSteps
  <1>6. ASSUME NEW w \in Workers, ReceiverSteps(w) PROVE Closing'
    BY <1>6, <1>4 DEF ReceiverSteps, ReceiverSends, ReceiverStops, SendTo, udp
  <1>7. ASSUME NEW t \in Timers, NEW name \in BOOLEAN, TimerSends(t, name) PROVE Closing'
    BY <1>7, <1>4 DEF TimerSends, SendTo
  <1>8. CASE StopSenders
    BY <1>8 DEF StopSenders
  <1>9. CASE CloserSteps
    BY <1>9 DEF CloserSteps, StopResolvers, CloseSocket, Closed
  <1>10. CASE UNCHANGED udp
    BY <1>10 DEF udp
  <1> QED
    BY <1>1, <1>2, <1>3, <1>5, <1>6, <1>7, <1>8, <1>9, <1>10 DEF Next, SenderSteps,
       handle_read, TimerFires, NewMessage, rotateCache, RouteChanges, vars

\* Messages that enter the queue after the nil were not early: they come from a
\* goroutine, a timer or a resolver (Delivery).
LEMMA NilBehindStep ==
    TypeOK /\ Delivery /\ Closing /\ NilBehind /\ [Next]_vars => NilBehind'
  <1> SUFFICES ASSUME TypeOK, Delivery, Closing, NilBehind, [Next]_vars PROVE NilBehind'
    OBVIOUS
  <1>0. /\ wi \in Seq(Queued) /\ sender \in [Workers -> Loads]
        /\ Nil \in Queued /\ Nil \notin Messages /\ Messages \subseteq Queued
        /\ Len(wi) \in Nat /\ early \subseteq Messages
    BY LenProperties DEF TypeOK, Queued, Messages, Nil
  <1> USE <1>0 DEF NilBehind
  <1>1. ASSUME NEW w \in Workers, SenderTakes(w) PROVE NilBehind'
    <2>1. /\ Head(wi) = wi[1] /\ 1 \in 1..Len(wi) /\ Len(wi') \in Nat
          /\ \A i \in 1..Len(wi') : wi'[i] = wi[i + 1] /\ i + 1 \in 1..Len(wi)
      BY <1>1, QueueTail, EmptySeq, HeadTailProperties, LenProperties DEF SenderTakes
    <2>2. Head(wi) # Stopped
      BY <1>1, HeadTailProperties DEF SenderTakes, Queued, Messages, Nil, Stopped
    <2>3. \A i, j \in 1..Len(wi') : wi'[i] = Nil /\ wi'[j] \in early => j < i
      BY <2>1
    <2>4. ASSUME NEW v \in Workers, sender'[v] \in {Nil, Stopped}, NEW i \in 1..Len(wi')
          PROVE  wi'[i] \notin early
      <3>1. CASE v = w
        <4>1. wi[1] = Nil
          BY <1>1, <2>1, <2>2, <2>4, <3>1 DEF SenderTakes
        <4> QED
          BY <2>1, <4>1
      <3>2. CASE v # w
        BY <1>1, <2>1, <2>4, <3>2 DEF SenderTakes
      <3> QED
        BY <3>1, <3>2
    <2> QED
      BY <1>1, <2>3, <2>4 DEF SenderTakes
  <1>2. ASSUME NEW w \in Workers, SenderWrites(w) PROVE NilBehind'
    BY <1>2 DEF SenderWrites, Messages, Idle, Nil, Stopped
  <1>3. ASSUME NEW w \in Workers, SenderStops(w) PROVE NilBehind'
    <2>1. \A i \in 1..Len(wi') : wi'[i] = Nil \/ (i \in 1..Len(wi) /\ wi'[i] = wi[i])
      BY <1>3, QueueAppend, AppendProperties DEF SenderStops
    <2>2. \A i \in 1..Len(wi) : wi[i] \notin early
      BY <1>3 DEF SenderStops
    <2> QED
      BY <1>3, <2>1, <2>2 DEF SenderStops
  <1>4. ASSUME NEW m \in Messages, m \notin early,
               wi' = wi \/ wi' = Append(wi, m),
               UNCHANGED <<sender, early>>
        PROVE  NilBehind'
    <2>1. CASE wi' = wi
      BY <1>4, <2>1
    <2>2. CASE wi' = Append(wi, m)
      <3>1. \A i \in 1..Len(wi') : \/ i \in 1..Len(wi) /\ wi'[i] = wi[i]
                                   \/ wi'[i] = m
        BY <2>2, QueueAppend, AppendProperties
      <3>2. m # Nil
        BY DEF Nil
      <3> QED
        BY <1>4, <3>1, <3>2
    <2> QED
      BY <1>4, <2>1, <2>2
  <1>5. ASSUME NEW w \in Workers, ResolverSteps(w) PROVE NilBehind'
    <2>1. CASE Resolved(w)
      <3>1. resolver[w] \notin early
        BY <2>1 DEF Resolved, Delivery, Way, Upstream, In, TypeOK
      <3> QED
        BY <2>1, <3>1, <1>4 DEF Resolved
    <2>2. CASE ResolverTakes(w) \/ Unresolved(w) \/ ResolverStops(w)
      BY <2>2 DEF ResolverTakes, Unresolved, ResolverStops
    <2> QED
      BY <1>5, <2>1, <2>2 DEF ResolverSteps
  <1>6. ASSUME NEW w \in Workers, ReceiverSteps(w) PROVE NilBehind'
    <2>1. receiver[w] \in Messages => receiver[w] \notin early
      BY DEF Delivery, Way, Upstream, In, TypeOK
    <2> QED
      BY <1>6, <2>1, <1>4 DEF ReceiverSteps, ReceiverSends, ReceiverStops, SendTo, udp
  <1>7. ASSUME NEW t \in Timers, NEW name \in BOOLEAN, TimerSends(t, name) PROVE NilBehind'
    <2>1. timer[t] \in Messages => timer[t] \notin early
      BY DEF Delivery, Way, Upstream, In, TypeOK
    <2> QED
      BY <1>7, <2>1, <1>4 DEF TimerSends, SendTo
  <1>8. CASE StopSenders
    <2>1. /\ \A i \in 1..Len(wi') : wi'[i] = IF i = Len(wi) + 1 THEN Nil ELSE wi[i]
          /\ Len(wi') = Len(wi) + 1
      BY <1>8, QueueAppend, AppendProperties DEF StopSenders
    <2>2. Nil \notin early' /\ sender' = sender
      BY <1>8 DEF StopSenders
    <2>3. /\ \A i \in 1..Len(wi) : wi[i] # Nil
          /\ \A w \in Workers : sender[w] \notin {Nil, Stopped}
      BY <1>8 DEF Closing, StopSenders
    <2> QED
      BY <2>1, <2>2, <2>3
  <1>9. CASE CloserSteps
    BY <1>9 DEF CloserSteps, StopResolvers, CloseSocket, Closed
  <1>10. CASE UNCHANGED udp
    BY <1>10 DEF udp
  <1> QED
    BY <1>1, <1>2, <1>3, <1>5, <1>6, <1>7, <1>8, <1>9, <1>10 DEF Next, SenderSteps,
       handle_read, TimerFires, NewMessage, rotateCache, RouteChanges, vars

\* What the senders had in hand or queued when the shutdown began has left by the
\* time the socket is closed, for any number of workers and any queue.
THEOREM FlushedBeforeCloseHolds == Spec => []FlushedBeforeClose
  <1>1. Init => IInv
    <2> SUFFICES ASSUME Init PROVE Delivery /\ NilBehind /\ Closing
      BY InitTypeOK DEF IInv
    <2>1. ASSUME NEW m \in Messages PROVE Way(m)
      BY DEF Init, Way, Alone, Apart, Upstream, Leaving, In, Once, Messages, Idle
    <2> QED
      BY <2>1 DEF Init, Delivery, NilBehind, Closing, Idle, Nil, Stopped
  <1>2. IInv /\ [Next]_vars => IInv'
    BY TypeStep, DeliveryStep, ClosingStep, NilBehindStep DEF IInv
  <1>3. IInv => FlushedBeforeClose
    <2> SUFFICES ASSUME IInv, ~open, NEW m \in early
                 PROVE  /\ \A i \in 1..Len(wi) : wi[i] # m
                        /\ \A w \in Workers : sender[w] # m
      BY DEF FlushedBeforeClose
    <2>1. \A w \in Workers : sender[w] = Stopped
      BY DEF IInv, Closing, AllStopped
    <2>2. m \in Messages /\ m # Stopped
      BY DEF IInv, TypeOK, Messages, Stopped
    <2>3. PICK w \in Workers : TRUE
      OBVIOUS
    <2> QED
      BY <2>1, <2>2, <2>3 DEF IInv, NilBehind
  <1> QED
    BY <1>1, <1>2, <1>3, PTL DEF Spec

-----------------------------------------------------------------------------
(* The requests of a dialog *)

\* A sequence of transactions, each with an INVITE.
Transactions(s) ==
    /\ \E S : s \in Seq(S)
    /\ \A i \in 1..Len(s) : "inv" \in DOMAIN s[i] /\ "method" \in DOMAIN s[i].inv

\* The transactions that there were are there with the INVITEs they had.
Keeps(new, old) ==
    /\ Transactions(new)
    /\ Len(old) <= Len(new)
    /\ \A j \in 1..Len(old) : new[j].inv = old[j].inv

LegInv ==
    /\ Transactions(trs)
    /\ pending_tr.method # "CANCEL"
    /\ CancelFollowsInvite

LEMMA Made ==
    ASSUME NEW inv, NEW ack
    PROVE  LET t == NewTr(inv, ack) IN t.inv = inv /\ "inv" \in DOMAIN t
  BY DEF NewTr

LEMMA Generated ==
    ASSUME NEW method, NEW r, NEW for
    PROVE  LET m == GenRequest(method, r, for) IN m.method = method /\ "method" \in DOMAIN m
  BY DEF GenRequest, Msg

LEMMA AckMethod ==
    ASSUME NEW t, NEW p
    PROVE  AckOf2xx(t, p).method = "ACK 2xx"
  BY DEF AckOf2xx, Msg

LEMMA FailureAck ==
    ASSUME Transactions(trs), NEW i \in 1..Len(trs), NEW m, m = GenACK(trs[i].inv)
    PROVE  m.method = "ACK"
  BY DEF Transactions, GenACK

\* A transaction is changed, but not its INVITE.
LEMMA ChangedTr ==
    ASSUME NEW s, Transactions(s), NEW i \in 1..Len(s), NEW t, "inv" \in DOMAIN t, t.inv = s[i].inv
    PROVE  Keeps([s EXCEPT ![i] = t], s)
  <1>1. PICK S : s \in Seq(S)
    BY DEF Transactions
  <1>2. PICK new : new = [s EXCEPT ![i] = t]
    OBVIOUS
  <1>3. new \in Seq(S \cup {t}) /\ Len(new) = Len(s) /\ Len(s) \in Nat
    BY <1>1, <1>2
  <1>4. ASSUME NEW j \in 1..Len(s)
        PROVE  "inv" \in DOMAIN new[j] /\ "method" \in DOMAIN new[j].inv /\ new[j].inv = s[j].inv
    <2>1. "inv" \in DOMAIN s[j] /\ "method" \in DOMAIN s[j].inv
      BY DEF Transactions
    <2>2. new[j] = IF j = i THEN t ELSE s[j]
      BY <1>1, <1>2
    <2> QED  BY <2>1, <2>2
  <1>5. Keeps(new, s)
    BY <1>3, <1>4 DEF Keeps, Transactions
  <1> QED  BY <1>2, <1>5

\* A transaction is added.
LEMMA AddedTr ==
    ASSUME NEW s, Transactions(s), NEW method, NEW r, NEW for, NEW ack
    PROVE  Keeps(Append(s, NewTr(GenRequest(method, r, for), ack)), s)
  <1>1. PICK S : s \in Seq(S)
    BY DEF Transactions
  <1>2. PICK t : t = NewTr(GenRequest(method, r, for), ack)
    OBVIOUS
  <1>3. "inv" \in DOMAIN t /\ "method" \in DOMAIN t.inv
    BY <1>2, Made, Generated
  <1>4. PICK new : new = Append(s, t)
    OBVIOUS
  <1>5. s \in Seq(S \cup {t})
    BY <1>1
  <1>6. new \in Seq(S \cup {t}) /\ Len(new) = Len(s) + 1 /\ Len(s) \in Nat
    BY <1>4, <1>5
  <1>7. \A j \in 1..Len(s) : new[j] = s[j]
    BY <1>4, <1>5
  <1>8. new[Len(s) + 1] = t
    BY <1>4, <1>5
  <1>9. \A j \in 1..Len(new) : "inv" \in DOMAIN new[j] /\ "method" \in DOMAIN new[j].inv
    <2> SUFFICES ASSUME NEW j \in 1..Len(new)
                 PROVE  "inv" \in DOMAIN new[j] /\ "method" \in DOMAIN new[j].inv
      OBVIOUS
    <2>1. CASE j \in 1..Len(s)
      BY <1>7, <2>1 DEF Transactions
    <2>2. CASE j = Len(s) + 1
      BY <1>3, <1>8, <2>2
    <2> QED  BY <1>6, <2>1, <2>2
  <1>10. Keeps(new, s)
    BY <1>6, <1>7, <1>9 DEF Keeps, Transactions
  <1> QED  BY <1>2, <1>4, <1>10

LEMMA KeepsOn ==
    ASSUME NEW s, NEW t, NEW u, Transactions(s), Keeps(t, s), Keeps(u, t)
    PROVE  Keeps(u, s)
  <1>1. Len(s) \in Nat /\ Len(t) \in Nat /\ Len(u) \in Nat
    BY DEF Keeps, Transactions
  <1> QED  BY <1>1 DEF Keeps

LEMMA Kept ==
    ASSUME NEW s, Transactions(s)
    PROVE  Keeps(s, s)
  BY DEF Keeps, Transactions

\* A transaction gets another state.
LEMMA Answered ==
    ASSUME NEW s, Transactions(s), NEW i \in 1..Len(s), NEW x, NEW pending
    PROVE  /\ Keeps([s EXCEPT ![i].state = x], s)
           /\ Keeps([s EXCEPT ![i].cancelPending = pending], s)
           /\ Keeps([s EXCEPT ![i].state = x, ![i].cancelPending = pending], s)
  <1>1. PICK t : t = [s[i] EXCEPT !.state = x]
    OBVIOUS
  <1>2. PICK u : u = [s[i] EXCEPT !.cancelPending = pending]
    OBVIOUS
  <1>3. PICK v : v = [s[i] EXCEPT !.state = x, !.cancelPending = pending]
    OBVIOUS
  <1>4. "inv" \in DOMAIN s[i]
    BY DEF Transactions
  <1>5. "inv" \in DOMAIN t /\ t.inv = s[i].inv
    BY <1>1, <1>4
  <1>6. "inv" \in DOMAIN u /\ u.inv = s[i].inv
    BY <1>2, <1>4
  <1>7. "inv" \in DOMAIN v /\ v.inv = s[i].inv
    BY <1>3, <1>4
  <1>8. Keeps([s EXCEPT ![i] = t], s) /\ Keeps([s EXCEPT ![i] = u], s) /\ Keeps([s EXCEPT ![i] = v], s)
    BY <1>5, <1>6, <1>7, ChangedTr
  <1>9. s = [j \in DOMAIN s |-> s[j]] /\ i \in DOMAIN s
    BY DEF Transactions
  <1>10. [s EXCEPT ![i].state = x] = [s EXCEPT ![i] = t]
    BY <1>1, <1>9
  <1>11. [s EXCEPT ![i].cancelPending = pending] = [s EXCEPT ![i] = u]
    BY <1>2, <1>9
  <1>12. [s EXCEPT ![i].state = x, ![i].cancelPending = pending] = [s EXCEPT ![i] = v]
    BY <1>3, <1>9
  <1> QED  BY <1>8, <1>10, <1>11, <1>12

LEMMA CancelKeeps ==
    ASSUME NEW s, Transactions(s), Open \subseteq 1..Len(s), NEW i
    PROVE  Keeps(Cancel(s, i), s)
  BY Answered, Kept DEF Cancel

LEMMA CancelsFollow ==
    ASSUME NEW i, NEW m \in Cancels(trs, i)
    PROVE  \E j \in 1..Len(trs) : m = GenCANCEL(trs[j].inv)
  BY DEF Cancels, Open

\* What a step that sends no CANCEL, or only those made from the INVITEs that the
\* transactions have, leaves true.
Follows(m) == m.method = "CANCEL" => \E j \in 1..Len(trs) : m = GenCANCEL(trs[j].inv)
Moves ==
    /\ Keeps(trs', trs)
    /\ pending_tr'.method # "CANCEL"
    /\ \A m \in out' : Follows(m)

LEMMA MovesKeepInv ==
    ASSUME LegInv, Moves
    PROVE  LegInv'
  <1>1. Transactions(trs')
    BY DEF Moves, Keeps
  <1>2. ASSUME NEW m \in out', m.method = "CANCEL"
        PROVE  \E i \in 1..Len(trs') : m = [trs'[i].inv EXCEPT !.method = "CANCEL"]
    <2>1. PICK j \in 1..Len(trs) : m = GenCANCEL(trs[j].inv)
      BY <1>2 DEF Moves, Follows
    <2>2. trs'[j].inv = trs[j].inv /\ Len(trs) <= Len(trs') /\ Len(trs) \in Nat /\ Len(trs') \in Nat
      BY <1>1 DEF LegInv, Moves, Keeps, Transactions
    <2>3. j \in 1..Len(trs')
      BY <2>2
    <2> QED  BY <2>1, <2>2, <2>3 DEF GenCANCEL
  <1>3. CancelFollowsInvite'
    BY <1>2 DEF CancelFollowsInvite
  <1>4. pending_tr'.method # "CANCEL"
    BY DEF Moves
  <1> QED  BY <1>1, <1>3, <1>4 DEF LegInv, Transactions

LEMMA GeneratedFollows ==
    ASSUME NEW method, NEW r, NEW for, method # "CANCEL"
    PROVE  Follows(GenRequest(method, r, for))
  BY Generated DEF Follows

LEMMA AckFollows ==
    ASSUME NEW t, NEW p
    PROVE  Follows(AckOf2xx(t, p))
  BY AckMethod DEF Follows

LEMMA FailureAckFollows ==
    ASSUME Transactions(trs), NEW i \in 1..Len(trs), NEW made_up
    PROVE  \A m \in AckOfFailure(trs[i], made_up) : Follows(m)
  BY FailureAck DEF AckOfFailure, Follows

LEMMA StopFollows ==
    ASSUME pending_tr.method # "CANCEL"
    PROVE  \A m \in Stop : Follows(m)
  BY CancelsFollow DEF Stop, Follows

LEMMA Opened ==
    ASSUME NEW i \in Open
    PROVE  i \in 1..Len(trs)
  BY DEF Open

LEMMA NoCancel == NoMsg.method # "CANCEL"
  BY DEF NoMsg, Msg, Nobody

LEMMA LegBegins == DialogInit => LegInv
  <1> SUFFICES ASSUME DialogInit PROVE LegInv
    OBVIOUS
  <1>1. trs = <<>> /\ out = {} /\ pending_tr = NoMsg
    BY DEF DialogInit
  <1>2. Transactions(trs)
    BY <1>1 DEF Transactions
  <1> QED  BY <1>1, <1>2, NoCancel DEF LegInv, CancelFollowsInvite

LEMMA TryStep == ASSUME LegInv, Try PROVE LegInv'
  <1>1. PICK r, a : /\ trs' = <<NewTr(GenRequest("INVITE", r, Nobody), a)>>
                    /\ out' = {GenRequest("INVITE", r, Nobody)}
    BY DEF Try, PrepTr
  <1>2. PICK t : t = NewTr(GenRequest("INVITE", r, Nobody), a)
    OBVIOUS
  <1>3. "inv" \in DOMAIN t /\ "method" \in DOMAIN t.inv
    BY <1>2, Made, Generated
  <1>4. trs' \in Seq({t}) /\ Len(trs') = 1 /\ trs'[1] = t
    BY <1>1, <1>2
  <1>5. Transactions(trs')
    BY <1>3, <1>4 DEF Transactions
  <1>6. pending_tr' = pending_tr
    BY DEF Try
  <1>7. \A m \in out' : m.method = "INVITE"
    BY <1>1, Generated
  <1> QED  BY <1>5, <1>6, <1>7 DEF LegInv, CancelFollowsInvite, Transactions

LEMMA ProvisionalStep ==
    ASSUME LegInv, NEW i, NEW p, NEW contact, NEW reliable, RecvProvisional(i, p, contact, reliable)
    PROVE  Moves
  <1>1. i \in 1..Len(trs)
    BY Opened DEF RecvProvisional
  <1>2. Keeps(trs', trs)
    BY <1>1, Answered DEF RecvProvisional, LegInv
  <1>3. PICK r : out' \subseteq {GenCANCEL(trs[i].inv)} \cup {GenRequest("PRACK", r, p)}
    BY DEF RecvProvisional
  <1>4. Follows(GenCANCEL(trs[i].inv)) /\ Follows(GenRequest("PRACK", r, p))
    BY <1>1, GeneratedFollows DEF Follows
  <1>5. pending_tr' = pending_tr
    BY DEF RecvProvisional
  <1> QED  BY <1>2, <1>3, <1>4, <1>5 DEF Moves, LegInv

LEMMA OKStep ==
    ASSUME LegInv, NEW i, NEW p, NEW tagged, NEW waits, RecvOK(i, p, tagged, waits)
    PROVE  Moves
  <1>1. i \in 1..Len(trs)
    BY Opened DEF RecvOK
  <1>2. Keeps(trs', trs)
    BY <1>1, Answered DEF RecvOK, LegInv
  <1>3. PICK ack : ack = AckOf2xx(trs[i], p)
    OBVIOUS
  <1>4. out' \subseteq {ack} \cup {GenRequest("BYE", rt', p)} /\ pending_tr' \in {ack, NoMsg}
    BY <1>3 DEF RecvOK
  <1>5. \A m \in out' : Follows(m)
    BY <1>3, <1>4, AckFollows, GeneratedFollows
  <1>6. pending_tr'.method # "CANCEL"
    BY <1>3, <1>4, AckMethod, NoCancel
  <1> QED  BY <1>2, <1>5, <1>6 DEF Moves

LEMMA FinalStep ==
    ASSUME LegInv, NEW i,
           \/ \E made_up \in BOOLEAN : RecvFailure(i, made_up)
           \/ \E code \in {"2xx", "gone", "other"}, waits, made_up \in BOOLEAN :
                 RecvFinal(i, code, waits, made_up)
    PROVE  Moves
  <1>1. i \in 1..Len(trs)
    BY Opened DEF RecvFailure, RecvFinal
  <1>2. trs' = [trs EXCEPT ![i].state = "TERMINATED"]
    BY DEF RecvFailure, RecvFinal
  <1>3. Keeps(trs', trs)
    BY <1>1, <1>2, Answered DEF LegInv
  <1>4. PICK ack : ack = AckOf2xx(trs[i], peer)
    OBVIOUS
  <1>5. pending_tr' \in {ack, pending_tr}
    BY <1>4 DEF RecvFailure, RecvFinal
  <1>6. \E made_up \in BOOLEAN : out' \subseteq {ack} \cup {GenRequest("BYE", rt, peer)}
                                              \cup AckOfFailure(trs[i], made_up)
    BY <1>4 DEF RecvFailure, RecvFinal
  <1>7. \A m \in out' : Follows(m)
    BY <1>1, <1>4, <1>6, AckFollows, GeneratedFollows, FailureAckFollows DEF LegInv
  <1>8. pending_tr'.method # "CANCEL"
    BY <1>4, <1>5, AckMethod DEF LegInv
  <1> QED  BY <1>3, <1>7, <1>8 DEF Moves

\* The steps that send an INVITE.
LEMMA InviteStep ==
    ASSUME LegInv, Update \/ (\E i : processChallenge(i)) \/ (\E mine : keepAlive(mine))
    PROVE  Moves
  <1>1. Transactions(trs) /\ pending_tr.method # "CANCEL"
    BY DEF LegInv
  <1>2. PICK inv, a : inv = GenRequest("INVITE", rt, peer) /\ PrepTr(inv) = NewTr(inv, a)
    BY DEF PrepTr
  <1>3. Follows(inv)
    BY <1>2, GeneratedFollows
  <1>4. CASE Update
    <2>1. Keeps(Cancel(trs, ka_tr), trs)
      BY <1>1, CancelKeeps DEF Open
    <2>2. PICK s : s = Cancel(trs, ka_tr)
      OBVIOUS
    <2>3. trs' = Append(s, NewTr(inv, a)) /\ out' = {inv} \cup Stop /\ pending_tr' = NoMsg
      BY <1>2, <1>4, <2>2 DEF Update
    <2>4. Keeps(trs', s) /\ Keeps(s, trs)
      BY <1>2, <2>1, <2>2, <2>3, AddedTr DEF Keeps
    <2>5. Keeps(trs', trs)
      BY <1>1, <2>4, KeepsOn
    <2> QED  BY <1>1, <1>3, <2>3, <2>5, StopFollows, NoCancel DEF Moves
  <1>5. CASE \E i : processChallenge(i)
    <2>1. PICK i : processChallenge(i)
      BY <1>5
    <2>2. i \in 1..Len(trs)
      BY <2>1, Opened DEF processChallenge
    <2>3. PICK s : s = [trs EXCEPT ![i].state = "TERMINATED"]
      OBVIOUS
    <2>4. PICK ack : ack = GenACK(trs[i].inv)
      OBVIOUS
    <2>5. trs' = Append(s, NewTr(inv, a)) /\ out' = {inv, ack} /\ pending_tr' = pending_tr
      BY <1>2, <2>1, <2>3, <2>4 DEF processChallenge
    <2>6. Keeps(s, trs)
      BY <1>1, <2>2, <2>3, Answered
    <2>7. Keeps(trs', s)
      BY <1>2, <2>5, <2>6, AddedTr DEF Keeps
    <2>8. Keeps(trs', trs)
      BY <1>1, <2>6, <2>7, KeepsOn
    <2>9. Follows(ack)
      BY <1>1, <2>2, <2>4, FailureAck DEF Follows
    <2> QED  BY <1>1, <1>3, <2>5, <2>8, <2>9 DEF Moves
  <1>6. CASE \E mine : keepAlive(mine)
    <2>1. /\ trs' = trs \/ trs' = Append(trs, NewTr(inv, a))
          /\ out' \subseteq {inv} /\ pending_tr' = pending_tr
      BY <1>2, <1>6 DEF keepAlive
    <2>2. Keeps(trs', trs)
      BY <1>1, <1>2, <2>1, AddedTr, Kept
    <2> QED  BY <1>1, <1>3, <2>1, <2>2 DEF Moves
  <1> QED  BY <1>4, <1>5, <1>6

\* The steps that cancel a transaction.
LEMMA EndStep ==
    ASSUME LegInv, Abandon \/ Disconnect \/ RecvBye
    PROVE  Moves
  <1>1. Transactions(trs) /\ pending_tr.method # "CANCEL"
    BY DEF LegInv
  <1>2. PICK i : /\ trs' = Cancel(trs, i)
                 /\ out' \subseteq {GenRequest("BYE", rt, peer)} \cup Cancels(trs, i) \cup Stop
                 /\ pending_tr' \in {pending_tr, NoMsg}
    BY DEF Abandon, Disconnect, RecvBye, Leave
  <1>3. Keeps(trs', trs)
    BY <1>1, <1>2, CancelKeeps DEF Open
  <1>4. \A m \in Cancels(trs, i) : Follows(m)
    BY CancelsFollow DEF Follows
  <1>5. \A m \in out' : Follows(m)
    BY <1>1, <1>2, <1>4, GeneratedFollows, StopFollows
  <1> QED  BY <1>1, <1>2, <1>3, <1>5, NoCancel DEF Moves

\* The steps that leave the transactions alone.
LEMMA OtherStep ==
    ASSUME LegInv,
           \/ Answer \/ RecvACK \/ SendACK \/ SendInfo
           \/ \E p \in Peers : RecvInvite(p)
    PROVE  Moves
  <1>1. Transactions(trs) /\ pending_tr.method # "CANCEL"
    BY DEF LegInv
  <1>2. /\ trs' = trs /\ pending_tr' \in {pending_tr, NoMsg}
        /\ out' \subseteq {pending_tr, GenRequest("INFO", rt, peer)}
    BY DEF Answer, RecvACK, SendACK, SendInfo, RecvInvite
  <1>3. Follows(pending_tr) /\ Follows(GenRequest("INFO", rt, peer))
    BY <1>1, GeneratedFollows DEF Follows
  <1> QED  BY <1>1, <1>2, <1>3, Kept, NoCancel DEF Moves

LEMMA LegStep ==
    ASSUME LegInv, [DialogNext]_dialogVars
    PROVE  LegInv'
  <1>1. CASE Try
    BY <1>1, TryStep
  <1>2. CASE UNCHANGED dialogVars
    BY <1>2 DEF LegInv, dialogVars, CancelFollowsInvite, Transactions
  <1>3. CASE DialogNext /\ ~Try
    <2>1. Moves
      BY <1>3, ProvisionalStep, OKStep, FinalStep, InviteStep, EndStep, OtherStep DEF DialogNext
    <2> QED  BY <2>1, MovesKeepInv
  <1> QED  BY <1>1, <1>2, <1>3

\* A CANCEL takes the way of its INVITE (clientTransaction.Cancel copies it when the
\* transaction is made), although UpdateRouting may have changed the route set of the
\* leg since, and a re-INVITE or keep-alive may have been sent: for any chain of
\* proxies, any peers and any number of INVITEs and timers.
THEOREM CancelFollowsInviteHolds == DialogSpec => []CancelFollowsInvite
  <1>1. LegInv /\ [DialogNext]_dialogVars => LegInv'
    BY LegStep
  <1>2. LegInv => CancelFollowsInvite
    BY DEF LegInv
  <1> QED  BY <1>1, <1>2, LegBegins, PTL DEF DialogSpec

-----------------------------------------------------------------------------
(* The route set of a dialog *)

DialogMethods == {"BYE", "INFO", "INVITE", "ACK 2xx"}

\* The request that goes by the route set of p.
ToPeer(method, p) == LET r == RouteSet(p) IN Msg(method, r.rTarget, r.routes, r.rAddr, p)

WellSent(m) ==
    /\ m.method \in DialogMethods /\ m.for # Nobody => m.for \in Peers /\ m = ToPeer(m.method, m.for)
    /\ m.method = "ACK 2xx" => m.for # Nobody

\* The states in which nobody has answered yet.
Early == {"Idle", "Trying", "Ringing", "Cancelling"}

\* The states in which somebody has.
Late == {"Answering", "PreConnect", "Connected", "Updating", "Disconnected"}

\* What SetAckRparams left of a re-INVITE is the route set of p.
Given(t, p) ==
    p # Nobody /\ t.ack # NoRparams =>
        Routing(t.inv.ruri, t.ack.rAddr, t.ack.routes) = RouteSet(p)

HaveAcks(s) == \A j \in 1..Len(s) : "ack" \in DOMAIN s[j]
GivenTo(s, p) == \A j \in 1..Len(s) : Given(s[j], p)
NoneGiven(s) == \A j \in 1..Len(s) : s[j].ack = NoRparams

EnvTypes ==
    /\ \A p \in Peers : env.rr[p] \in Seq(Proxies)
    /\ env.obp = Nobody \/ env.obp \in env.lr

RouteInv ==
    /\ EnvTypes
    /\ peer \in Peers \cup {Nobody}
    /\ state \in Early => peer = Nobody /\ NoneGiven(trs)
    /\ state \in Late => peer # Nobody
    /\ peer # Nobody => rt = RouteSet(peer)
    /\ HaveAcks(trs)
    /\ GivenTo(trs, peer)
    /\ WellSent(pending_tr)
    /\ \A m \in out : WellSent(m)

LEMMA ReverseTwice ==
    ASSUME NEW S, NEW s \in Seq(S)
    PROVE  Reverse(Reverse(s)) = s
  BY DEF Reverse

\* The next hop of a leg with an outbound proxy is that proxy.
LEMMA ThroughOutbound ==
    ASSUME EnvTypes, NEW p \in Peers, env.obp # Nobody
    PROVE  RouteSet(p).rAddr = env.obp
  <1>1. env.rr[p] \in Seq(Proxies) /\ env.obp \in env.lr
    BY DEF EnvTypes
  <1>2. PICK s : s = <<env.obp>> \o env.rr[p]
    OBVIOUS
  <1>3. s # <<>> /\ Head(s) = env.obp
    BY <1>1, <1>2
  <1>4. RouteSet(p) = Addressed(p, s)
    BY <1>2 DEF RouteSet, ViaOutbound, Recorded
  <1> QED  BY <1>1, <1>3, <1>4 DEF Addressed, Routing

LEMMA RouteSetShape ==
    ASSUME NEW p
    PROVE  RouteSet(p) = Routing(RouteSet(p).rTarget, RouteSet(p).rAddr, RouteSet(p).routes)
  BY DEF RouteSet, Addressed, Routing

\* What the Ua makes of the response that sets the dialog up, and the transaction of
\* the same response.
LEMMA Learned ==
    ASSUME EnvTypes, NEW p \in Peers, p # Nobody, NEW r
    PROVE  /\ UpdateRouting(r, p, RecordRoutes(p), TRUE) = RouteSet(p)
           /\ UpdateRouting(Routing(p, r.rAddr, r.routes), Nobody, Recorded(p), FALSE) = RouteSet(p)
           /\ Addressed(p, ViaOutbound(Reverse(RecordRoutes(p)))) = RouteSet(p)
  <1>1. Reverse(RecordRoutes(p)) = Recorded(p)
    BY ReverseTwice DEF RecordRoutes, Recorded, EnvTypes
  <1>2. Routing(p, r.rAddr, r.routes).rTarget = p
    BY DEF Routing
  <1> QED  BY <1>1, <1>2 DEF UpdateRouting, RouteSet

LEMMA Sent ==
    ASSUME EnvTypes, NEW p \in Peers, NEW method
    PROVE  GenRequest(method, RouteSet(p), p) = ToPeer(method, p)
  BY ThroughOutbound DEF GenRequest, ToPeer

LEMMA PeerSent ==
    ASSUME NEW p \in Peers, NEW method
    PROVE  WellSent(ToPeer(method, p))
  <1>1. PICK m : m = ToPeer(method, p)
    OBVIOUS
  <1>2. m.method = method /\ m.for = p
    BY <1>1 DEF ToPeer, Msg
  <1> QED  BY <1>1, <1>2, DialogAssumption DEF WellSent

LEMMA Unaddressed ==
    ASSUME NEW m, m.method \notin DialogMethods \/ (m.for = Nobody /\ m.method # "ACK 2xx")
    PROVE  WellSent(m)
  BY DEF WellSent, DialogMethods

LEMMA GeneratedFor ==
    ASSUME NEW method, NEW r, NEW for
    PROVE  LET m == GenRequest(method, r, for) IN m.method = method /\ m.for = for
  BY DEF GenRequest, Msg

\* The requests of the Ua.
LEMMA RequestSent ==
    ASSUME EnvTypes, NEW p \in Peers \cup {Nobody}, NEW r, p # Nobody => r = RouteSet(p),
           NEW method, method # "ACK 2xx"
    PROVE  WellSent(GenRequest(method, r, p))
  <1>1. CASE p = Nobody
    <2>1. PICK m : m = GenRequest(method, r, p)
      OBVIOUS
    <2>2. m.method = method /\ m.for = p
      BY <2>1 DEF GenRequest, Msg
    <2>3. m.method # "ACK 2xx" /\ m.for = Nobody
      BY <1>1, <2>2
    <2> QED  BY <2>1, <2>3, Unaddressed
  <1>2. CASE p # Nobody
    BY <1>2, Sent, PeerSent
  <1> QED  BY <1>1, <1>2

\* The ACK that the transaction makes from a 2xx of p.
LEMMA AckSent ==
    ASSUME EnvTypes, NEW p \in Peers, NEW t, Given(t, p), t.ack = NoRparams \/ p = peer
    PROVE  WellSent(AckOf2xx(t, p))
  <1>1. p # Nobody
    BY DialogAssumption
  <1>2. CASE p # Nobody /\ t.ack = NoRparams
    <2>1. AckOf2xx(t, p) = ToPeer("ACK 2xx", p)
      BY <1>2, Learned DEF AckOf2xx, ToPeer
    <2> QED  BY <1>2, <2>1, PeerSent
  <1>3. CASE p # Nobody /\ t.ack # NoRparams
    <2>1. Routing(t.inv.ruri, t.ack.rAddr, t.ack.routes) = RouteSet(p)
      BY <1>3 DEF Given
    <2>2. PICK r : r = RouteSet(p)
      OBVIOUS
    <2>3. r.rTarget = t.inv.ruri /\ r.rAddr = t.ack.rAddr /\ r.routes = t.ack.routes
      BY <2>1, <2>2 DEF Routing
    <2>4. AckOf2xx(t, p) = Msg("ACK 2xx", t.inv.ruri, t.ack.routes, t.ack.rAddr, p)
      BY <1>3 DEF AckOf2xx
    <2>5. AckOf2xx(t, p) = ToPeer("ACK 2xx", p)
      BY <2>2, <2>3, <2>4 DEF ToPeer
    <2> QED  BY <1>3, <2>5, PeerSent
  <1> QED  BY <1>1, <1>2, <1>3
\* The transactions that there were keep their INVITE and what SetAckRparams left.
SameAcks(new, old) ==
    /\ Len(new) = Len(old)
    /\ \A j \in 1..Len(old) :
          "ack" \in DOMAIN new[j] /\ new[j].ack = old[j].ack /\ new[j].inv = old[j].inv

LEMMA SameTr ==
    ASSUME NEW s, Transactions(s), HaveAcks(s), NEW i \in 1..Len(s), NEW x, NEW pending
    PROVE  /\ SameAcks([s EXCEPT ![i].state = x], s)
           /\ SameAcks([s EXCEPT ![i].cancelPending = pending], s)
           /\ SameAcks([s EXCEPT ![i].state = x, ![i].cancelPending = pending], s)
  <1>1. PICK S : s \in Seq(S)
    BY DEF Transactions
  <1>2. "ack" \in DOMAIN s[i] /\ "inv" \in DOMAIN s[i]
    BY DEF Transactions, HaveAcks
  <1>3. ASSUME NEW t, "ack" \in DOMAIN t, t.ack = s[i].ack, t.inv = s[i].inv
        PROVE  SameAcks([s EXCEPT ![i] = t], s)
    <2>1. PICK new : new = [s EXCEPT ![i] = t]
      OBVIOUS
    <2>2. new \in Seq(S \cup {t}) /\ Len(new) = Len(s) /\ Len(s) \in Nat
      BY <1>1, <2>1
    <2>3. \A j \in 1..Len(s) : new[j] = IF j = i THEN t ELSE s[j]
      BY <1>1, <2>1
    <2> QED  BY <1>3, <2>1, <2>2, <2>3 DEF SameAcks, HaveAcks
  <1>4. PICK t : t = [s[i] EXCEPT !.state = x]
    OBVIOUS
  <1>5. PICK u : u = [s[i] EXCEPT !.cancelPending = pending]
    OBVIOUS
  <1>6. PICK v : v = [s[i] EXCEPT !.state = x, !.cancelPending = pending]
    OBVIOUS
  <1>7. "ack" \in DOMAIN t /\ t.ack = s[i].ack /\ t.inv = s[i].inv
    BY <1>2, <1>4
  <1>8. "ack" \in DOMAIN u /\ u.ack = s[i].ack /\ u.inv = s[i].inv
    BY <1>2, <1>5
  <1>9. "ack" \in DOMAIN v /\ v.ack = s[i].ack /\ v.inv = s[i].inv
    BY <1>2, <1>6
  <1>10. SameAcks([s EXCEPT ![i] = t], s)
    BY <1>3, <1>7
  <1>11. SameAcks([s EXCEPT ![i] = u], s)
    BY <1>3, <1>8
  <1>12. SameAcks([s EXCEPT ![i] = v], s)
    BY <1>3, <1>9
  <1>13. s = [j \in DOMAIN s |-> s[j]] /\ i \in DOMAIN s
    BY DEF Transactions
  <1>14. [s EXCEPT ![i].state = x] = [s EXCEPT ![i] = t]
    BY <1>4, <1>13
  <1>15. [s EXCEPT ![i].cancelPending = pending] = [s EXCEPT ![i] = u]
    BY <1>5, <1>13
  <1>16. [s EXCEPT ![i].state = x, ![i].cancelPending = pending] = [s EXCEPT ![i] = v]
    BY <1>6, <1>13
  <1> QED  BY <1>10, <1>11, <1>12, <1>14, <1>15, <1>16

LEMMA Itself ==
    ASSUME NEW s, HaveAcks(s)
    PROVE  SameAcks(s, s)
  BY DEF SameAcks, HaveAcks

LEMMA CancelSame ==
    ASSUME Transactions(trs), HaveAcks(trs), NEW i
    PROVE  SameAcks(Cancel(trs, i), trs)
  BY SameTr, Itself DEF Cancel, Open

LEMMA SameGiven ==
    ASSUME NEW new, NEW old, SameAcks(new, old), NEW p
    PROVE  /\ HaveAcks(new)
           /\ GivenTo(old, p) => GivenTo(new, p)
           /\ NoneGiven(old) => NoneGiven(new)
  <1>1. HaveAcks(new)
    BY DEF SameAcks, HaveAcks
  <1>2. ASSUME GivenTo(old, p)
        PROVE  GivenTo(new, p)
    BY <1>2 DEF SameAcks, GivenTo, Given
  <1>3. ASSUME NoneGiven(old)
        PROVE  NoneGiven(new)
    BY <1>3 DEF SameAcks, NoneGiven
  <1> QED  BY <1>1, <1>2, <1>3

LEMMA NoneGivenTo ==
    ASSUME NEW s, NoneGiven(s), NEW p
    PROVE  GivenTo(s, p)
  BY DEF NoneGiven, GivenTo, Given

\* What PrepTr makes of a re-INVITE, a keep-alive or an INVITE with credentials.
LEMMA Prepared ==
    ASSUME RouteInv
    PROVE  LET inv == GenRequest("INVITE", rt, peer)
               t == PrepTr(inv)
           IN  /\ WellSent(inv)
               /\ "ack" \in DOMAIN t
               /\ Given(t, peer)
               /\ state \in Early => t.ack = NoRparams
  <1>1. PICK inv : inv = GenRequest("INVITE", rt, peer)
    OBVIOUS
  <1>2. PICK t : t = PrepTr(inv)
    OBVIOUS
  <1>3. WellSent(inv)
    BY <1>1, RequestSent DEF RouteInv
  <1>4. "ack" \in DOMAIN t /\ t.inv = inv
    BY <1>2 DEF PrepTr, NewTr
  <1>5. CASE ~isConnected
    <2>1. t.ack = NoRparams
      BY <1>2, <1>5 DEF PrepTr, NewTr
    <2> QED  BY <1>1, <1>2, <1>3, <1>4, <2>1 DEF Given
  <1>6. CASE isConnected
    <2>1. state \notin Early
      BY <1>6 DEF isConnected, Early
    <2>2. PICK hop : hop = IF env.obp = Nobody THEN rt.rAddr ELSE env.obp
      OBVIOUS
    <2>3. t.ack = Routing(rt.rTarget, hop, rt.routes)
      BY <1>2, <1>6, <2>2 DEF PrepTr, NewTr
    <2>4. t.ack.rAddr = hop /\ t.ack.routes = rt.routes
      BY <2>3 DEF Routing
    <2>5. t.inv.ruri = rt.rTarget
      BY <1>1, <1>4 DEF GenRequest, Msg
    <2>6. ASSUME peer # Nobody
          PROVE  Routing(t.inv.ruri, t.ack.rAddr, t.ack.routes) = RouteSet(peer)
      <3>1. rt = RouteSet(peer) /\ peer \in Peers /\ EnvTypes
        BY <2>6 DEF RouteInv
      <3>2. hop = rt.rAddr
        BY <2>2, <3>1, ThroughOutbound
      <3> QED  BY <2>4, <2>5, <3>1, <3>2, RouteSetShape
    <2>7. Given(t, peer)
      BY <2>6 DEF Given
    <2> QED  BY <1>1, <1>2, <1>3, <1>4, <2>1, <2>7
  <1> QED  BY <1>5, <1>6

\* A transaction is added to those of another state of the sequence.
LEMMA PreparedOn ==
    ASSUME NEW s, Transactions(s), HaveAcks(s), NEW t, "ack" \in DOMAIN t, NEW p
    PROVE  /\ HaveAcks(Append(s, t))
           /\ GivenTo(s, p) /\ Given(t, p) => GivenTo(Append(s, t), p)
           /\ NoneGiven(s) /\ t.ack = NoRparams => NoneGiven(Append(s, t))
  <1>1. PICK S : s \in Seq(S)
    BY DEF Transactions
  <1>2. PICK new : new = Append(s, t)
    OBVIOUS
  <1>3. s \in Seq(S \cup {t})
    BY <1>1
  <1>4. new \in Seq(S \cup {t}) /\ Len(new) = Len(s) + 1 /\ Len(s) \in Nat
    BY <1>2, <1>3
  <1>5. \A j \in 1..Len(s) : new[j] = s[j]
    BY <1>2, <1>3
  <1>6. new[Len(s) + 1] = t
    BY <1>2, <1>3
  <1>7. \A j \in 1..Len(new) : j \in 1..Len(s) \/ j = Len(s) + 1
    BY <1>4
  <1>8. HaveAcks(new)
    BY <1>5, <1>6, <1>7 DEF HaveAcks
  <1>9. ASSUME GivenTo(s, p), Given(t, p)
        PROVE  GivenTo(new, p)
    BY <1>5, <1>6, <1>7, <1>9 DEF GivenTo
  <1>10. ASSUME NoneGiven(s), t.ack = NoRparams
         PROVE  NoneGiven(new)
    BY <1>5, <1>6, <1>7, <1>10 DEF NoneGiven
  <1> QED  BY <1>2, <1>8, <1>9, <1>10
\* What a step does to the leg.
RouteMoves ==
    /\ env' = env
    /\ peer' \in Peers \cup {Nobody}
    /\ state' \in Early => peer' = Nobody /\ NoneGiven(trs')
    /\ state' \in Late => peer' # Nobody
    /\ peer' # Nobody => rt' = RouteSet(peer')
    /\ HaveAcks(trs')
    /\ GivenTo(trs', peer')
    /\ WellSent(pending_tr')
    /\ \A m \in out' : WellSent(m)

LEMMA RouteMovesKeepInv ==
    ASSUME RouteInv, RouteMoves
    PROVE  RouteInv'
  <1>1. env' = env
    BY DEF RouteMoves
  <1>2. ASSUME NEW p
        PROVE  RouteSet(p)' = RouteSet(p)
    BY <1>1 DEF RouteSet, Addressed, ViaOutbound, Recorded
  <1>3. ASSUME NEW m, WellSent(m)
        PROVE  WellSent(m)'
    BY <1>2, <1>3 DEF WellSent, ToPeer
  <1>4. EnvTypes'
    BY <1>1 DEF RouteInv, EnvTypes
  <1>5. RouteSet(peer)' = RouteSet(peer')
    BY <1>1 DEF RouteSet, Addressed, ViaOutbound, Recorded
  <1>6. GivenTo(trs, peer)'
    BY <1>5 DEF RouteMoves, GivenTo, Given
  <1>7. WellSent(pending_tr)'
    <2>1. PICK m : m = pending_tr'
      OBVIOUS
    <2>2. WellSent(m)
      BY <2>1 DEF RouteMoves
    <2>3. WellSent(m)'
      BY <1>3, <2>2
    <2> QED  BY <2>1, <2>3 DEF WellSent
  <1>8. (\A m \in out : WellSent(m))'
    BY <1>3 DEF RouteMoves
  <1>9. /\ HaveAcks(trs)'
        /\ (state \in Early => peer = Nobody /\ NoneGiven(trs))'
        /\ (state \in Late => peer # Nobody)'
    BY DEF RouteMoves, HaveAcks, NoneGiven, Early, Late
  <1>10. (peer # Nobody => rt = RouteSet(peer))' /\ (peer \in Peers \cup {Nobody})'
    BY <1>5 DEF RouteMoves
  <1> QED  BY <1>4, <1>6, <1>7, <1>8, <1>9, <1>10 DEF RouteInv

\* A step that does not touch the route set, and changes the transactions so that
\* nothing is given that was not.
LEMMA KeptRoute ==
    ASSUME RouteInv, env' = env, peer' = peer, rt' = rt \/ peer = Nobody,
           state' \in Early => state \in Early, state' \in Late => state \in Late,
           HaveAcks(trs'), GivenTo(trs', peer), NoneGiven(trs) /\ state \in Early => NoneGiven(trs'),
           WellSent(pending_tr'), \A m \in out' : WellSent(m)
    PROVE  RouteMoves
  <1>1. state' \in Early => peer' = Nobody /\ NoneGiven(trs')
    BY DEF RouteInv
  <1>2. peer' # Nobody => rt' = RouteSet(peer')
    BY DEF RouteInv
  <1>3. GivenTo(trs', peer')
    OBVIOUS
  <1>4. peer' \in Peers \cup {Nobody} /\ (state' \in Late => peer' # Nobody)
    BY DEF RouteInv
  <1> QED  BY <1>1, <1>2, <1>3, <1>4 DEF RouteMoves

LEMMA Unsent == WellSent(NoMsg)
  <1>1. NoMsg.method = "none" /\ NoMsg.for = Nobody
    BY DEF NoMsg, Msg, Nobody
  <1> QED  BY <1>1 DEF WellSent

LEMMA RouteBegins == DialogInit => RouteInv
  <1> SUFFICES ASSUME DialogInit PROVE RouteInv
    OBVIOUS
  <1>1. trs = <<>> /\ out = {} /\ pending_tr = NoMsg /\ peer = Nobody
    BY DEF DialogInit
  <1>2. env.rr \in [Peers -> Subchains] /\ (env.obp = Nobody \/ env.obp \in env.lr)
    BY DEF DialogInit
  <1>3. Subchains \subseteq Seq(Proxies)
    <2>1. \A m \in Nat : [1..m -> Proxies] \subseteq Seq(Proxies)
      OBVIOUS
    <2>2. SeqOf(Proxies, Len(Chain)) \subseteq Seq(Proxies)
      BY <2>1 DEF SeqOf
    <2> QED  BY <2>2 DEF Subchains
  <1>4. EnvTypes
    BY <1>2, <1>3 DEF EnvTypes
  <1>5. HaveAcks(trs) /\ NoneGiven(trs) /\ GivenTo(trs, peer)
    BY <1>1 DEF HaveAcks, NoneGiven, GivenTo
  <1>6. state \notin Late
    BY DEF DialogInit, Late
  <1> QED  BY <1>1, <1>4, <1>5, <1>6, Unsent DEF RouteInv

LEMMA TryRoute == ASSUME RouteInv, Try PROVE RouteMoves
  <1>1. PICK inv : /\ inv = GenRequest("INVITE", Routing(Callee, Callee, <<>>), Nobody)
                   /\ trs' = <<PrepTr(inv)>> /\ out' = {inv}
    BY DEF Try
  <1>2. PICK t : t = PrepTr(inv)
    OBVIOUS
  <1>3. "ack" \in DOMAIN t /\ t.ack = NoRparams
    <2>1. ~isConnected
      BY DEF Try, isConnected
    <2> QED  BY <1>2, <2>1 DEF PrepTr, NewTr
  <1>4. trs' \in Seq({t}) /\ Len(trs') = 1 /\ trs'[1] = t
    BY <1>1, <1>2
  <1>5. HaveAcks(trs') /\ NoneGiven(trs')
    BY <1>3, <1>4 DEF HaveAcks, NoneGiven
  <1>6. GivenTo(trs', peer)
    BY <1>5, NoneGivenTo
  <1>7. WellSent(inv)
    <2>1. inv.method = "INVITE" /\ inv.for = Nobody
      BY <1>1, GeneratedFor
    <2> QED  BY <2>1, Unaddressed
  <1>8. env' = env /\ peer' = peer /\ state \in Early /\ peer = Nobody /\ pending_tr' = pending_tr
    BY DEF Try, RouteInv, Early
  <1>9. state' \notin Late
    BY DEF Try, Late
  <1> QED  BY <1>1, <1>5, <1>6, <1>7, <1>8, <1>9, KeptRoute DEF RouteInv

LEMMA InviteRoute ==
    ASSUME RouteInv, NEW p \in Peers, RecvInvite(p)
    PROVE  RouteMoves
  <1>1. state \in Early /\ state' \notin Early
    BY DEF RecvInvite, Early
  <1>2. HaveAcks(trs') /\ GivenTo(trs', p)
    BY <1>1, NoneGivenTo DEF RecvInvite, RouteInv
  <1>3. p # Nobody => rt' = RouteSet(p)
    BY Learned DEF RecvInvite, RouteInv
  <1>4. env' = env /\ peer' = p /\ out' = {} /\ pending_tr' = pending_tr
    BY DEF RecvInvite
  <1> QED  BY <1>1, <1>2, <1>3, <1>4, DialogAssumption DEF RouteInv, RouteMoves

LEMMA ProvisionalRoute ==
    ASSUME RouteInv, LegInv, NEW i, NEW p, NEW contact, NEW reliable,
           RecvProvisional(i, p, contact, reliable)
    PROVE  RouteMoves
  <1>1. i \in 1..Len(trs)
    BY Opened DEF RecvProvisional
  <1>2. SameAcks(trs', trs)
    BY <1>1, SameTr DEF RecvProvisional, LegInv, RouteInv
  <1>3. HaveAcks(trs') /\ GivenTo(trs', peer) /\ (NoneGiven(trs) => NoneGiven(trs'))
    BY <1>2, SameGiven DEF RouteInv
  <1>4. PICK r : out' \subseteq {GenCANCEL(trs[i].inv)} \cup {GenRequest("PRACK", r, p)}
    BY DEF RecvProvisional
  <1>5. WellSent(GenCANCEL(trs[i].inv)) /\ WellSent(GenRequest("PRACK", r, p))
    <2>1. "method" \in DOMAIN trs[i].inv
      BY <1>1 DEF LegInv, Transactions
    <2>2. GenCANCEL(trs[i].inv).method = "CANCEL"
      BY <2>1 DEF GenCANCEL
    <2>3. GenRequest("PRACK", r, p).method = "PRACK"
      BY GeneratedFor
    <2> QED  BY <2>2, <2>3, Unaddressed DEF DialogMethods
  <1>6. \/ rt' = rt /\ state' = state
        \/ state \in {"Trying", "Ringing"}
    BY DEF RecvProvisional
  <1>7. env' = env /\ peer' = peer /\ pending_tr' = pending_tr
    BY DEF RecvProvisional
  <1>8. rt' = rt \/ peer = Nobody
    BY <1>6 DEF RouteInv, Early
  <1>9. (state' \in Early => state \in Early) /\ (state' \in Late => state \in Late)
    BY <1>6 DEF Early, Late, RecvProvisional
  <1> QED  BY <1>3, <1>4, <1>5, <1>7, <1>8, <1>9, KeptRoute DEF RouteInv

LEMMA OKRoute ==
    ASSUME RouteInv, LegInv, NEW i, NEW p \in Peers, NEW tagged, NEW waits, RecvOK(i, p, tagged, waits)
    PROVE  RouteMoves
  <1>1. i \in 1..Len(trs)
    BY Opened DEF RecvOK
  <1>2. SameAcks(trs', trs)
    BY <1>1, SameTr DEF RecvOK, LegInv, RouteInv
  <1>3. state \in Early /\ state' \notin Early
    BY DEF RecvOK, Early
  <1>4. NoneGiven(trs)
    BY <1>3 DEF RouteInv
  <1>5. HaveAcks(trs') /\ GivenTo(trs', p)
    BY <1>2, <1>4, SameGiven, NoneGivenTo
  <1>6. p # Nobody => rt' = RouteSet(p)
    BY Learned DEF RecvOK, RouteInv
  <1>7. PICK ack : ack = AckOf2xx(trs[i], p)
    OBVIOUS
  <1>8. out' \subseteq {ack} \cup {GenRequest("BYE", rt', p)} /\ pending_tr' \in {ack, NoMsg}
    BY <1>7 DEF RecvOK
  <1>9. WellSent(ack)
    <2>1. trs[i].ack = NoRparams
      BY <1>1, <1>4 DEF NoneGiven
    <2>2. Given(trs[i], p)
      BY <2>1 DEF Given
    <2> QED  BY <1>7, <2>1, <2>2, AckSent DEF RouteInv
  <1>10. WellSent(GenRequest("BYE", rt', p))
    <2>1. PICK r : r = rt'
      OBVIOUS
    <2> QED  BY <1>6, <2>1, RequestSent DEF RouteInv
  <1>11. env' = env /\ peer' = p
    BY DEF RecvOK
  <1> QED  BY <1>3, <1>5, <1>6, <1>8, <1>9, <1>10, <1>11, Unsent, DialogAssumption DEF RouteMoves
\* The final responses to a re-INVITE or keep-alive, and the refusal of the INVITE.
LEMMA FinalRoute ==
    ASSUME RouteInv, LegInv, NEW i,
           \/ \E made_up \in BOOLEAN : RecvFailure(i, made_up)
           \/ \E code \in {"2xx", "gone", "other"}, waits, made_up \in BOOLEAN :
                 RecvFinal(i, code, waits, made_up)
    PROVE  RouteMoves
  <1>1. i \in 1..Len(trs)
    BY Opened DEF RecvFailure, RecvFinal
  <1>2. trs' = [trs EXCEPT ![i].state = "TERMINATED"]
    BY DEF RecvFailure, RecvFinal
  <1>3. SameAcks(trs', trs)
    BY <1>1, <1>2, SameTr DEF LegInv, RouteInv
  <1>4. HaveAcks(trs') /\ GivenTo(trs', peer) /\ (NoneGiven(trs) => NoneGiven(trs'))
    BY <1>3, SameGiven DEF RouteInv
  <1>5. PICK ack : ack = AckOf2xx(trs[i], peer)
    OBVIOUS
  <1>6. pending_tr' = pending_tr \/ (pending_tr' = ack /\ state \in Late)
    BY <1>5 DEF RecvFailure, RecvFinal, Late
  <1>7. \E made_up \in BOOLEAN : \A m \in out' :
            \/ m = ack /\ state \in Late
            \/ m \in {GenRequest("BYE", rt, peer)} \cup AckOfFailure(trs[i], made_up)
    BY <1>5 DEF RecvFailure, RecvFinal, Late
  <1>8. state \in Late => WellSent(ack)
    <2>1. Given(trs[i], peer)
      BY <1>1 DEF RouteInv, GivenTo
    <2> QED  BY <1>5, <2>1, AckSent DEF RouteInv
  <1>9. WellSent(GenRequest("BYE", rt, peer))
    BY RequestSent DEF RouteInv
  <1>10. \A made_up : \A m \in AckOfFailure(trs[i], made_up) : WellSent(m)
    BY <1>1, FailureAck, Unaddressed DEF AckOfFailure, DialogMethods, LegInv
  <1>11. env' = env /\ peer' = peer /\ rt' = rt /\ state' \notin Early /\ (state' \in Late => state \in Late)
    BY DEF RecvFailure, RecvFinal, Early, Late
  <1>12. \A m \in out' : WellSent(m)
    BY <1>7, <1>8, <1>9, <1>10
  <1>13. WellSent(pending_tr')
    BY <1>6, <1>8 DEF RouteInv
  <1> QED  BY <1>4, <1>11, <1>12, <1>13, KeptRoute

LEMMA CancelsUnaddressed ==
    ASSUME Transactions(trs), NEW i
    PROVE  \A m \in Cancels(trs, i) : WellSent(m)
  <1> SUFFICES ASSUME NEW m \in Cancels(trs, i) PROVE WellSent(m)
    OBVIOUS
  <1>1. PICK j \in 1..Len(trs) : m = GenCANCEL(trs[j].inv)
    BY CancelsFollow
  <1>2. m.method = "CANCEL"
    BY <1>1 DEF GenCANCEL, Transactions
  <1> QED  BY <1>2, Unaddressed DEF DialogMethods

LEMMA StopSent ==
    ASSUME Transactions(trs), WellSent(pending_tr)
    PROVE  \A m \in Stop : WellSent(m)
  BY CancelsUnaddressed DEF Stop

\* The steps that send an INVITE: its transaction is given the present route set.
LEMMA ReinviteRoute ==
    ASSUME RouteInv, LegInv, Update \/ (\E i : processChallenge(i)) \/ (\E mine : keepAlive(mine))
    PROVE  RouteMoves
  <1>1. Transactions(trs) /\ HaveAcks(trs) /\ GivenTo(trs, peer) /\ WellSent(pending_tr)
    BY DEF LegInv, RouteInv
  <1>2. PICK inv : inv = GenRequest("INVITE", rt, peer)
    OBVIOUS
  <1>3. PICK t : t = PrepTr(inv)
    OBVIOUS
  <1>4. /\ WellSent(inv)
        /\ "ack" \in DOMAIN t
        /\ Given(t, peer)
        /\ state \in Early => t.ack = NoRparams
    BY <1>2, <1>3, Prepared
  <1>5. CASE Update
    <2>1. PICK s : s = Cancel(trs, ka_tr)
      OBVIOUS
    <2>2. SameAcks(s, trs) /\ Transactions(s)
      <3>1. Keeps(s, trs)
        BY <1>1, <2>1, CancelKeeps DEF Open
      <3> QED  BY <1>1, <2>1, <3>1, CancelSame DEF Keeps
    <2>3. HaveAcks(s) /\ GivenTo(s, peer)
      BY <1>1, <2>2, SameGiven
    <2>4. trs' = Append(s, t) /\ out' = {inv} \cup Stop /\ pending_tr' = NoMsg
      BY <1>2, <1>3, <1>5, <2>1 DEF Update
    <2>5. HaveAcks(trs') /\ GivenTo(trs', peer)
      BY <1>4, <2>2, <2>3, <2>4, PreparedOn
    <2>6. env' = env /\ peer' = peer /\ rt' = rt /\ state' \notin Early
          /\ state \notin Early /\ state \in Late
      BY <1>5 DEF Update, Early, Late
    <2>7. \A m \in out' : WellSent(m)
      BY <1>1, <1>4, <2>4, StopSent
    <2> QED  BY <2>4, <2>5, <2>6, <2>7, Unsent, KeptRoute
  <1>6. CASE \E i : processChallenge(i)
    <2>1. PICK i : processChallenge(i)
      BY <1>6
    <2>2. i \in 1..Len(trs)
      BY <2>1, Opened DEF processChallenge
    <2>3. PICK s : s = [trs EXCEPT ![i].state = "TERMINATED"]
      OBVIOUS
    <2>4. PICK ack : ack = GenACK(trs[i].inv)
      OBVIOUS
    <2>5. trs' = Append(s, t) /\ out' = {inv, ack} /\ pending_tr' = pending_tr
      BY <1>2, <1>3, <2>1, <2>3, <2>4 DEF processChallenge
    <2>6. SameAcks(s, trs) /\ Transactions(s)
      <3>1. Keeps(s, trs)
        BY <1>1, <2>2, <2>3, Answered
      <3> QED  BY <1>1, <2>2, <2>3, <3>1, SameTr DEF Keeps
    <2>7. HaveAcks(s) /\ GivenTo(s, peer) /\ (NoneGiven(trs) => NoneGiven(s))
      BY <1>1, <2>6, SameGiven
    <2>8. /\ HaveAcks(trs') /\ GivenTo(trs', peer)
          /\ NoneGiven(trs) /\ state \in Early => NoneGiven(trs')
      BY <1>4, <2>5, <2>6, <2>7, PreparedOn
    <2>9. WellSent(ack)
      BY <1>1, <2>2, <2>4, FailureAck, Unaddressed DEF DialogMethods
    <2>10. env' = env /\ peer' = peer /\ rt' = rt /\ state' = state
      BY <2>1 DEF processChallenge
    <2>11. \A m \in out' : WellSent(m)
      BY <1>4, <2>5, <2>9
    <2>12. WellSent(pending_tr')
      BY <1>1, <2>5
    <2> QED  BY <2>8, <2>10, <2>11, <2>12, KeptRoute
  <1>7. CASE \E mine : keepAlive(mine)
    <2>1. /\ trs' = trs \/ trs' = Append(trs, t)
          /\ out' \subseteq {inv} /\ pending_tr' = pending_tr
          /\ env' = env /\ peer' = peer /\ rt' = rt /\ state' = state
      BY <1>2, <1>3, <1>7 DEF keepAlive
    <2>2. /\ HaveAcks(trs') /\ GivenTo(trs', peer)
          /\ NoneGiven(trs) /\ state \in Early => NoneGiven(trs')
      BY <1>1, <1>4, <2>1, PreparedOn
    <2>3. (\A m \in out' : WellSent(m)) /\ WellSent(pending_tr')
      BY <1>1, <1>4, <2>1
    <2> QED  BY <2>1, <2>2, <2>3, KeptRoute
  <1> QED  BY <1>5, <1>6, <1>7

LEMMA EndRoute ==
    ASSUME RouteInv, LegInv, Abandon \/ Disconnect \/ RecvBye
    PROVE  RouteMoves
  <1>1. Transactions(trs) /\ HaveAcks(trs) /\ GivenTo(trs, peer) /\ WellSent(pending_tr)
    BY DEF LegInv, RouteInv
  <1>2. PICK i : /\ trs' = Cancel(trs, i)
                 /\ out' \subseteq {GenRequest("BYE", rt, peer)} \cup Cancels(trs, i) \cup Stop
                 /\ pending_tr' \in {pending_tr, NoMsg}
    BY DEF Abandon, Disconnect, RecvBye, Leave
  <1>3. SameAcks(trs', trs)
    BY <1>1, <1>2, CancelSame
  <1>4. HaveAcks(trs') /\ GivenTo(trs', peer) /\ (NoneGiven(trs) => NoneGiven(trs'))
    BY <1>1, <1>3, SameGiven
  <1>5. WellSent(GenRequest("BYE", rt, peer))
    BY RequestSent DEF RouteInv
  <1>6. \A m \in out' : WellSent(m)
    BY <1>1, <1>2, <1>5, CancelsUnaddressed, StopSent
  <1>7. WellSent(pending_tr')
    BY <1>1, <1>2, Unsent
  <1>8. env' = env /\ peer' = peer /\ rt' = rt
    BY DEF Abandon, Disconnect, RecvBye
  <1>9. (state' \in Early => state \in Early) /\ (state' \in Late => state \in Late)
    BY DEF Abandon, Disconnect, RecvBye, Early, Late, isConnected
  <1> QED  BY <1>4, <1>6, <1>7, <1>8, <1>9, KeptRoute

LEMMA OtherRoute ==
    ASSUME RouteInv, Answer \/ RecvACK \/ SendACK \/ SendInfo
    PROVE  RouteMoves
  <1>1. /\ trs' = trs /\ pending_tr' \in {pending_tr, NoMsg}
        /\ out' \subseteq {pending_tr, GenRequest("INFO", rt, peer)}
        /\ env' = env /\ peer' = peer /\ rt' = rt
    BY DEF Answer, RecvACK, SendACK, SendInfo
  <1>2. (state' \in Early => state \in Early) /\ (state' \in Late => state \in Late)
    BY DEF Answer, RecvACK, SendACK, SendInfo, Early, Late
  <1>3. WellSent(pending_tr) /\ WellSent(GenRequest("INFO", rt, peer))
    BY RequestSent DEF RouteInv
  <1>4. (\A m \in out' : WellSent(m)) /\ WellSent(pending_tr')
    BY <1>1, <1>3, Unsent
  <1>5. HaveAcks(trs') /\ GivenTo(trs', peer)
    BY <1>1 DEF RouteInv
  <1> QED  BY <1>1, <1>2, <1>4, <1>5, KeptRoute

LEMMA AddressInv == DialogSpec => [](RouteInv /\ LegInv)
  <1>1. RouteInv /\ LegInv /\ [DialogNext]_dialogVars => (RouteInv /\ LegInv)'
    <2> SUFFICES ASSUME RouteInv, LegInv, [DialogNext]_dialogVars PROVE RouteInv' /\ LegInv'
      OBVIOUS
    <2>1. LegInv'
      BY LegStep
    <2>2. CASE UNCHANGED dialogVars
      <3>1. /\ env' = env /\ peer' = peer /\ rt' = rt /\ state' = state
            /\ trs' = trs /\ pending_tr' = pending_tr /\ out' = out
        BY <2>2 DEF dialogVars
      <3>2. HaveAcks(trs') /\ GivenTo(trs', peer) /\ WellSent(pending_tr') /\ \A m \in out' : WellSent(m)
        BY <3>1 DEF RouteInv
      <3>3. RouteMoves
        BY <3>1, <3>2, KeptRoute
      <3> QED  BY <2>1, <3>3, RouteMovesKeepInv
    <2>3. CASE DialogNext
      <3>1. RouteMoves
        BY <2>3, TryRoute, InviteRoute, ProvisionalRoute, OKRoute, FinalRoute, ReinviteRoute,
           EndRoute, OtherRoute DEF DialogNext
      <3> QED  BY <2>1, <3>1, RouteMovesKeepInv
    <2> QED  BY <2>2, <2>3
  <1> QED  BY <1>1, RouteBegins, LegBegins, PTL DEF DialogSpec

LEMMA Addresses ==
    ASSUME NEW m, NEW p, m = ToPeer(m.method, p)
    PROVE  Routing(m.ruri, m.dest, m.routes) = RouteSet(p)
  <1>1. PICK r : r = RouteSet(p)
    OBVIOUS
  <1>2. m = Msg(m.method, r.rTarget, r.routes, r.rAddr, p)
    BY <1>1 DEF ToPeer
  <1>3. m.ruri = r.rTarget /\ m.dest = r.rAddr /\ m.routes = r.routes
    BY <1>2 DEF Msg
  <1> QED  BY <1>1, <1>3, RouteSetShape

\* The Ua (UpdateRouting) and the client transaction (AckOf2xx, which repeats it, and
\* SetAckRparams) work the route set out separately.  For any chain, any forking, any
\* re-INVITEs, keep-alives and challenges: every request of the dialog and every ACK of
\* a 2xx is addressed by the Record-Routes of the peer that answered.
THEOREM OneRouteSetHolds == DialogSpec => []OneRouteSet
  <1>1. RouteInv => OneRouteSet
    BY Addresses DEF RouteInv, WellSent, OneRouteSet, DialogMethods
  <1> QED  BY <1>1, AddressInv, PTL

\* Whatever happened before, where a request of the dialog goes is where the route set
\* of its peer leads: if that path is the one the peer's Record-Routes ask for, which
\* depends on the proxies alone, no step of the leg sends a request or ACK off it.
THEOREM PathDependsOnProxies == DialogSpec => [](Arrives => PathFollowed)
  <1>1. ASSUME RouteInv, Arrives, NEW m \in out, m.method \in DialogMethods, m.for # Nobody
        PROVE  GoesItsWay(m)
    <2>1. WellSent(m)
      BY <1>1 DEF RouteInv
    <2>2. PICK p \in Peers : p = m.for /\ m = ToPeer(m.method, p)
      BY <1>1, <2>1 DEF WellSent
    <2>3. GoesItsWay(ToPeer(m.method, p))
      BY <1>1, <2>2 DEF Arrives, DialogMethods, ToPeer
    <2> QED  BY <2>2, <2>3
  <1>2. ASSUME RouteInv, Arrives
        PROVE  PathFollowed
    <2>1. ASSUME NEW m \in out, m.method = "ACK 2xx"
          PROVE  GoesItsWay(m)
      <3>1. m.for # Nobody
        BY <1>2, <2>1 DEF RouteInv, WellSent
      <3> QED  BY <1>1, <1>2, <2>1, <3>1 DEF DialogMethods
    <2>2. ASSUME NEW m \in out, m.method \in {"BYE", "INFO", "INVITE"}, m.for # Nobody
          PROVE  GoesItsWay(m)
      BY <1>1, <1>2, <2>2 DEF DialogMethods
    <2> QED  BY <2>1, <2>2 DEF PathFollowed
  <1> QED  BY <1>2, AddressInv, PTL
===============================================================================
