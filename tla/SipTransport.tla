----------------------------- MODULE SipTransport -----------------------------
(***************************************************************************)
(* The SIP transport: local4remote (sippy/local4remote.go), which finds    *)
(* the UDP server a remote address is reached from, and one UDP server     *)
(* (sippy/udp_server.go) with its senders, resolvers and receivers, the    *)
(* two queues between them, and the shutdown that passes a nil from worker *)
(* to worker.                                                              *)
(*                                                                         *)
(* A message is sent by a goroutine: a receiver that answers a datagram,   *)
(* or a timer.  The server modelled in detail is the one bound to Home;    *)
(* messages that leave from another address go to a server of their own.   *)
(***************************************************************************)
EXTENDS Integers, Sequences, FiniteSets

CONSTANTS
    Workers,     \* one sender, one resolver and one receiver for each
    Timers,      \* goroutines that send on their own
    Home, Away,  \* local addresses
    QueueCap,    \* capacity of wi and wi_resolv (1000 in the code)
    MaxMsgs      \* bound on the messages sent

ASSUME TransportAssumption ==
    /\ QueueCap \in Nat \ {0} /\ MaxMsgs \in Nat
    /\ Workers # {}
    /\ "none" \notin {Home, Away}

VARIABLES
    wi,          \* messages to write, in order
    wi_resolv,   \* messages whose address is a name
    sender,      \* asyncSender.run of each worker
    resolver,    \* asyncResolver.run
    receiver,    \* asyncReceiver.run
    timer,       \* the goroutines that send on their own
    closer,      \* UdpServer.Shutdown
    open,        \* the socket
    cache_r2l,   \* the local address of the remote, as looked up ...
    cache_r2l_old,  \* ... and as it was before the last rotation
    cache_l2s,   \* local addresses with a server
    fixed,       \* the address is configured: one server for every remote
    route,       \* what the kernel would say the local address is
    msgs,        \* messages given to a server so far
    unused,      \* history: rotations since the remote was used
    early        \* history: messages the senders had when the shutdown began

udp == <<wi, wi_resolv, sender, resolver, closer, open, early>>
l4r == <<cache_r2l, cache_r2l_old, cache_l2s, fixed, route, unused>>
vars == <<udp, receiver, timer, l4r, msgs>>

Nil == 0          \* the shutdown request
None == "none"
Idle == -1        \* a worker that waits on its queue
Stopped == -2     \* its sem is signalled
Messages == 1..MaxMsgs
Old == 2

\* The server of Home was made at the start or by an earlier message.
Init ==
    /\ wi = <<>> /\ wi_resolv = <<>>
    /\ sender = [w \in Workers |-> Idle]
    /\ resolver = [w \in Workers |-> Idle]
    /\ receiver = [w \in Workers |-> Idle]
    /\ timer = [t \in Timers |-> Idle]
    /\ closer = "no" /\ open = TRUE
    /\ cache_r2l = None /\ cache_r2l_old = None
    /\ cache_l2s = {Home} /\ fixed \in BOOLEAN /\ route \in {Home, Away}
    /\ msgs = 0 /\ unused = Old /\ early = {}

-------------------------------------------------------------------------------
\* local4remote.

Cached == IF cache_r2l # None THEN cache_r2l ELSE cache_r2l_old

\* Mutant: a hit in the older cache is not put into the newer one.
getServer_NotPromoted(bound) ==
    /\ ~fixed
    /\ cache_r2l' = IF Cached = None THEN route ELSE cache_r2l
    /\ cache_l2s' = IF Cached = None /\ bound THEN cache_l2s \union {route} ELSE cache_l2s
    /\ unused' = 0
    /\ UNCHANGED <<cache_r2l_old, fixed, route>>

\* The local address of the remote comes from the newer cache, from the older one,
\* which puts it back into the newer, or from the kernel.  Only an address that
\* was just looked up gets a server, if it can be bound.
getServer(bound) ==
    /\ ~fixed
    /\ cache_r2l' = IF Cached = None THEN route ELSE Cached
    /\ cache_l2s' = IF Cached = None /\ bound THEN cache_l2s \union {route} ELSE cache_l2s
    /\ unused' = 0
    /\ UNCHANGED <<cache_r2l_old, fixed, route>>

\* The only server of a configured address.
FixedServer == fixed /\ UNCHANGED l4r

rotateCache ==
    /\ cache_r2l_old' = cache_r2l
    /\ cache_r2l' = None
    /\ unused' = IF unused = Old THEN Old ELSE unused + 1
    /\ UNCHANGED <<udp, receiver, timer, cache_l2s, fixed, route, msgs>>

\* The kernel's routing table changes.
RouteChanges ==
    /\ route' \in {Home, Away} \ {route}
    /\ UNCHANGED <<udp, receiver, timer, cache_r2l, cache_r2l_old, cache_l2s, fixed,
                   msgs, unused>>

-------------------------------------------------------------------------------
\* Messages into the queues.

\* A goroutine has a message for the remote and asks for its server; without one,
\* or with that of another address, this server hears nothing of it.
NewMessage(bound) ==
    /\ msgs < MaxMsgs
    /\ closer # "closed"
    /\ getServer(bound) \/ FixedServer
    /\ msgs' = msgs + 1
    /\ UNCHANGED udp

Here == fixed \/ cache_r2l' = Home

handle_read(w, bound) ==
    /\ receiver[w] = Idle /\ open
    /\ NewMessage(bound)
    /\ receiver' = [receiver EXCEPT ![w] = IF Here THEN msgs' ELSE Idle]
    /\ UNCHANGED timer

TimerFires(t, bound) ==
    /\ timer[t] = Idle
    /\ NewMessage(bound)
    /\ timer' = [timer EXCEPT ![t] = IF Here THEN msgs' ELSE Idle]
    /\ UNCHANGED receiver

\* SendToWithCb waits for room.  An address that is not a number goes to the
\* resolvers.
SendTo(m, name) ==
    IF name
      THEN /\ Len(wi_resolv) < QueueCap
           /\ wi_resolv' = Append(wi_resolv, m)
           /\ UNCHANGED wi
      ELSE /\ Len(wi) < QueueCap
           /\ wi' = Append(wi, m)
           /\ UNCHANGED wi_resolv

ReceiverSends(w, name) ==
    /\ receiver[w] \in Messages
    /\ SendTo(receiver[w], name)
    /\ receiver' = [receiver EXCEPT ![w] = Idle]
    /\ UNCHANGED <<sender, resolver, timer, closer, open, early, l4r, msgs>>

TimerSends(t, name) ==
    /\ timer[t] \in Messages
    /\ SendTo(timer[t], name)
    /\ timer' = [timer EXCEPT ![t] = Idle]
    /\ UNCHANGED <<sender, resolver, receiver, closer, open, early, l4r, msgs>>

-------------------------------------------------------------------------------
\* The workers.

SenderTakes(w) ==
    /\ sender[w] = Idle
    /\ wi # <<>>
    /\ sender' = [sender EXCEPT ![w] = Head(wi)]
    /\ wi' = Tail(wi)
    /\ UNCHANGED <<wi_resolv, resolver, receiver, timer, closer, open, early, l4r, msgs>>

\* The message is written, or given up after 20 attempts.
SenderWrites(w) ==
    /\ sender[w] \in Messages
    /\ sender' = [sender EXCEPT ![w] = Idle]
    /\ UNCHANGED <<wi, wi_resolv, resolver, receiver, timer, closer, open, early, l4r, msgs>>

\* Mutant: the nil is not handed on to the next sender.
SenderStops_KeepsNil(w) ==
    /\ sender[w] = Nil
    /\ sender' = [sender EXCEPT ![w] = Stopped]
    /\ UNCHANGED <<wi, wi_resolv, resolver, receiver, timer, closer, open, early, l4r, msgs>>

\* The nil goes back into the queue for the next sender.
SenderStops(w) ==
    /\ sender[w] = Nil
    /\ Len(wi) < QueueCap
    /\ wi' = Append(wi, Nil)
    /\ sender' = [sender EXCEPT ![w] = Stopped]
    /\ UNCHANGED <<wi_resolv, resolver, receiver, timer, closer, open, early, l4r, msgs>>

ResolverTakes(w) ==
    /\ resolver[w] = Idle
    /\ wi_resolv # <<>>
    /\ resolver' = [resolver EXCEPT ![w] = Head(wi_resolv)]
    /\ wi_resolv' = Tail(wi_resolv)
    /\ UNCHANGED <<wi, sender, receiver, timer, closer, open, early, l4r, msgs>>

Resolved(w) ==
    /\ resolver[w] \in Messages
    /\ Len(wi) < QueueCap
    /\ wi' = Append(wi, resolver[w])
    /\ resolver' = [resolver EXCEPT ![w] = Idle]
    /\ UNCHANGED <<wi_resolv, sender, receiver, timer, closer, open, early, l4r, msgs>>

Unresolved(w) ==
    /\ resolver[w] \in Messages
    /\ resolver' = [resolver EXCEPT ![w] = Idle]
    /\ UNCHANGED <<wi, wi_resolv, sender, receiver, timer, closer, open, early, l4r, msgs>>

ResolverStops(w) ==
    /\ resolver[w] = Nil
    /\ Len(wi_resolv) < QueueCap
    /\ wi_resolv' = Append(wi_resolv, Nil)
    /\ resolver' = [resolver EXCEPT ![w] = Stopped]
    /\ UNCHANGED <<wi, sender, receiver, timer, closer, open, early, l4r, msgs>>

ReceiverStops(w) ==
    /\ receiver[w] = Idle /\ ~open
    /\ receiver' = [receiver EXCEPT ![w] = Stopped]
    /\ UNCHANGED <<udp, timer, l4r, msgs>>

-------------------------------------------------------------------------------
\* local4remote.shutdown and UdpServer.Shutdown.

AllStopped(worker) == \A w \in Workers : worker[w] = Stopped

StopSenders ==
    /\ closer = "no"
    /\ Len(wi) < QueueCap
    /\ early' = ({wi[i] : i \in 1..Len(wi)} \union {sender[w] : w \in Workers}) \cap Messages
    /\ wi' = Append(wi, Nil)
    /\ closer' = "resolvers"
    /\ UNCHANGED <<wi_resolv, sender, resolver, receiver, timer, open, l4r, msgs>>

StopResolvers ==
    /\ closer = "resolvers"
    /\ Len(wi_resolv) < QueueCap
    /\ wi_resolv' = Append(wi_resolv, Nil)
    /\ closer' = "wait"
    /\ UNCHANGED <<wi, sender, resolver, receiver, timer, open, early, l4r, msgs>>

\* Mutant: the socket is closed before the senders have stopped.
CloseSocket_Early ==
    /\ closer = "wait"
    /\ AllStopped(resolver)
    /\ open' = FALSE
    /\ closer' = "socket"
    /\ UNCHANGED <<wi, wi_resolv, sender, resolver, receiver, timer, early, l4r, msgs>>

CloseSocket ==
    /\ closer = "wait"
    /\ AllStopped(sender) /\ AllStopped(resolver)
    /\ open' = FALSE
    /\ closer' = "socket"
    /\ UNCHANGED <<wi, wi_resolv, sender, resolver, receiver, timer, early, l4r, msgs>>

Closed ==
    /\ closer = "socket"
    /\ AllStopped(receiver)
    /\ closer' = "closed"
    /\ cache_l2s' = {}
    /\ UNCHANGED <<wi, wi_resolv, sender, resolver, receiver, timer, open, early,
                   cache_r2l, cache_r2l_old, fixed, route, msgs, unused>>

SenderSteps(w) == SenderTakes(w) \/ SenderWrites(w) \/ SenderStops(w)
ResolverSteps(w) == ResolverTakes(w) \/ Resolved(w) \/ Unresolved(w) \/ ResolverStops(w)
ReceiverSteps(w) == (\E name \in BOOLEAN : ReceiverSends(w, name)) \/ ReceiverStops(w)
CloserSteps == StopResolvers \/ CloseSocket \/ Closed

Next ==
    \/ \E w \in Workers : SenderSteps(w) \/ ResolverSteps(w) \/ ReceiverSteps(w)
    \/ \E w \in Workers, bound \in BOOLEAN : handle_read(w, bound)
    \/ \E t \in Timers, bound \in BOOLEAN : TimerFires(t, bound)
    \/ \E t \in Timers, name \in BOOLEAN : TimerSends(t, name)
    \/ StopSenders \/ CloserSteps
    \/ rotateCache \/ RouteChanges

Spec == Init /\ [][Next]_vars

\* The goroutines run; nothing obliges the process to be shut down.
FairSpec ==
    /\ Spec
    /\ \A w \in Workers : WF_vars(SenderSteps(w)) /\ WF_vars(ResolverSteps(w))
    /\ \A w \in Workers : WF_vars(ReceiverSteps(w))
    /\ WF_vars(CloserSteps)

-------------------------------------------------------------------------------
\* Properties.

Loads == {Idle, Stopped, Nil} \union Messages

\* The transport's state has its type.
TypeOK ==
    /\ wi \in Seq({Nil} \union Messages) /\ Len(wi) <= QueueCap
    /\ wi_resolv \in Seq({Nil} \union Messages) /\ Len(wi_resolv) <= QueueCap
    /\ sender \in [Workers -> Loads] /\ resolver \in [Workers -> Loads]
    /\ receiver \in [Workers -> Loads] /\ timer \in [Timers -> Loads]
    /\ cache_r2l \in {None, Home, Away} /\ cache_r2l_old \in {None, Home, Away}
    /\ cache_l2s \subseteq {Home, Away} /\ route \in {Home, Away}
    /\ closer \in {"no", "resolvers", "wait", "socket", "closed"}
    /\ open \in BOOLEAN /\ fixed \in BOOLEAN
    /\ msgs \in 0..MaxMsgs /\ unused \in 0..Old /\ early \subseteq Messages

\* What the senders had in hand or queued when the shutdown began has left by the
\* time the socket is closed: the nil goes behind it, and Shutdown waits for
\* every sender (UdpServer.Shutdown, asyncSender.run).
FlushedBeforeClose ==
    ~open => \A m \in early :
               /\ \A i \in 1..Len(wi) : wi[i] # m
               /\ \A w \in Workers : sender[w] # m

\* A shutdown comes to its end, as long as the queues have room for all that is
\* sent meanwhile: the one nil reaches every worker of its kind and every
\* receiver gets out of the message it is sending.
ShutdownEnds == closer = "resolvers" ~> closer = "closed"

\* A remote in use is not looked up again, and one not used between two rotations
\* is: a new route to it is found then (getServer, rotateCache).
RouteWindow == unused < Old <=> Cached # None
===============================================================================
