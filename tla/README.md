# A verification project for go-b2bua

TLA+ models of go-b2bua, a SIP back-to-back user agent: the SIP transactions and
the transaction manager, the user agent of a call leg with all its states, calls
of `cmd/b2bua_simple` and of `cmd/b2bua_radius`, the rtpproxy session and client,
the UDP transport, the registration agent with digest authentication, and the
routing of requests within a dialog. TLC checks the models on small instances;
TLAPS proves the safety properties of the transactions, the transaction manager,
the legs of a call, the calls of b2bua_radius, the rtpproxy session and client, the
transport, the registration agent and the routing for every value of their bounds. Paths are relative to the
repository.

1. [The system](#1-the-system)
2. [Modules](#2-modules)
3. [How the models correspond to the code](#3-how-the-models-correspond-to-the-code)
4. [Runs](#4-runs)
5. [Fairness](#5-fairness)
6. [Proofs](#6-proofs)
7. [Where the code deviates](#7-where-the-code-deviates)
8. [Not modelled](#8-not-modelled)
9. [Plan](#9-plan)

## 1. The system

A caller's INVITE makes a call: leg A, a UA that answers the caller, and leg O,
a UA that calls the callee. A call controller passes the events (`CCEvent`) that
one leg emits to the other. Each UA is a state machine whose handlers run on
requests and responses that the transaction manager matched to transactions,
on timers, and on events of the other leg. All handlers of one call run under
one session lock. Goroutines are plentiful: every received packet, every timer
and every worker is one. In b2bua_radius the controller also asks a RADIUS
server for routes, tries them one after the other, sends accounting records, and
lets an rtpproxy rewrite the SDP bodies, during which events wait.

| Component | State | Operations | Talks to | Hard part | Correct when |
|---|---|---|---|---|---|
| Server transaction (`server_transaction.go`, `base_transaction.go`) | state, timers A/D/E, reliable response in flight, its keys in the tables | SendResponse, IncomingRequest (duplicate, CANCEL, ACK, PRACK), timers | UA callbacks, manager's tables | four sources of a final response; callbacks that outlive Cancel(); locks left locked | one final response, ack or noack but not both, tables consistent, ends |
| Client transaction (`client_transaction.go`) | state, timers A/B/C/G, deferred CANCEL, RSeqs seen | IncomingResponse, Cancel, SendACK, timers | UA (`RecvResponse`), `tclient` | response against timer B, duplicates, ACK by the UA | one outcome, one ACK, CANCEL after 1xx, PRACKs without gaps, ends |
| Timeout (`timeout.go`) | a goroutine in a select | Start, Cancel | callback under a lock | Cancel does not stop a callback that waits for the lock | (hazard of all the others) |
| Transaction manager (`sip_transaction_manager.go`) | tclient, tserver, rtid2tid, consumers, two-generation retransmission cache | handleIncoming, dispatch, registration, purge | transport, transactions, UA, call map | receivers in parallel, purges, both legs under one Call-ID | a datagram is handled once, its copies get its answer, requests find their transaction or leg |
| UA (`ua.go`, `ua*_state_*.go`) | state, event queue, transactions, timers, owed ACK, kept events, route set | RecvEvent, RecvRequest, RecvResponse, RecvCancel, RecvACK, RecvPRACK, Disconnect, timers | transactions, call controller, rtpproxy session | re-INVITEs of both sides, late offers, 100rel, CANCEL against answer, forks, events that wait | answers every INVITE, hangs up, never comes back, timers hold, requests go the right way, events stay in order |
| Redirect controller | one REFER | RecvResponse | UA | BYE after any answer | leg is ended |
| Keep-alive controller | timer, transaction | keepAlive | UA | re-INVITE in the background | goes by the dialog's route |
| Call controller and map of b2bua_simple (`cmd/b2bua_simple/main.go`) | the two UAs, ccmap | OnNewDialog, RecvEvent, aDead, oDead, Shutdown | UAs, manager | nested handlers of both legs; Shutdown without the lock | no half call, no call kept for ever |
| b2bua_radius call controller and routes | state, routes, accounts, rtpproxy session | RecvEvent, rDone, placeOriginate, group_expires, aDisc, ... | UAs, RADIUS, rtpproxy | results and events that come for a call that is over | one attempt at a time, in order, none after the end |
| b2bua_radius call map | ccmap, flags | OnNewDialog, signals, CLI, GC | call controllers | acts outside the session lock | a call that is over leaves it |
| External command, RADIUS client | worker pool, bounded queue | process_command, Cancel | helper programs | cancel race | (part of the call) |
| RADIUS accounting | crec, drec, the Alive goroutine | Conn, Disc, asend | RADIUS client | callbacks of several legs | Start and Stop belong together |
| rtpproxy session | command in flight, queue, max_index | update, send_command, cmd_done, prompts, recording, Delete | rtpproxy client, UA | callbacks in any order, full queue under a lock | one callback per operation, streams deleted, events in order |
| rtpproxy client | pending requests, online, caps | Send_command, retransmit, process_reply, version check, heartbeat | rtpproxy | no lock around shared fields | one callback per command; off line is on its way back; on line is watched |
| Registration agent (`sip_registration_manager.go`) | REGISTER, attempts | DoRegister, RecvResponse, HandleAuth, StopRegister | client transactions | refresh for ever, stale nonces | keeps registering; reports failure for a reason |
| Digest, nonces | AES key | EmitChallenge, ValidateChallenge, GenAuthHF, Verify | messages | algorithm and nonce belong together | (part of registration) |
| Stateful proxy | none | RecvRequest, RecvResponse | transactions | — | — |
| UDP server, local4remote | work queues, address cache | SendTo, Shutdown, getServer, rotateCache | sockets | shutdown handshake through the work queues | everything queued leaves; shutdown ends; an address is looked up again when not used |
| Messages, headers, SDP, STIR/SHAKEN, configuration, logging, CLI | text | parse, format | all | — | — |

The hazards that the properties are for are listed, with their lines, in
`PROJECT.json`.

## 2. Modules

| Module | What it is |
|---|---|
| `ServerTransaction`, `ServerTransactionProofs` | a server transaction with its entries in the manager's tables; its theorems |
| `ClientTransaction`, `ClientTransactionProofs` | a client transaction with its entry in `tclient`; its theorems, and that of its user `Registration` |
| `Ua` | the handlers of a leg, as operators from a leg record to a leg record |
| `B2bCall`, `B2bCallProofs` | EXTENDS `Ua`: two legs, the call controller of b2bua_simple, the peers and the timers; the theorems about its legs, and that it implements `Call` |
| `Call` | what the two parties see of a call; `B2bCall` implements it |
| `TransactionManager`, `TransactionManagerProofs` | the datagrams of one Call-ID, receivers, cache, tables and consumers; its theorems |
| `RtpProxySession`, `RtpProxySessionProofs` | an rtpproxy session and the leg whose events wait for it; its theorems |
| `DelayedEvents` | what such a leg promises to the call controller; `RtpProxySession` implements it |
| `RtpProxyClient`, `RtpProxyClientProofs` | the client of one rtpproxy over UDP or a stream; its theorems |
| `RadiusCall`, `RadiusCallProofs` | a call of b2bua_radius: controller, authorisation, accounting, call map, command line; its theorems |
| `SipTransport`, `SipTransportProofs` | a UDP server with its workers, local4remote; its theorems, and that of `Dialog` |
| `Digest` | algorithms, nonces, challenges and credentials, as operators |
| `Registration` | EXTENDS `Digest`: the agent, the stateful proxy and a registrar |
| `Dialog` | route sets and where each request of a leg goes, keep-alives |
| `MC...` | what TLC runs; the values are in the `.cfg` files |

`Registration` and `Dialog` name their specifications `AgentSpec` and `DialogSpec`
(and `AgentInit`, `DialogNext`, ...): their theorems stand at the end of a `Proofs`
module that extends another component as well. They share no state with it.

The modules fit together by assumption and guarantee rather than by one composed
state space. `Ua` uses the transactions through what it can see of them: an
INVITE server transaction is early, completed or closed, its CANCEL and its timer
E are one stimulus; a client transaction gives provisional responses and then one
final one. That is what `OneFinalResponse`, `AckedOrNot` and `OneOutcome`
establish. `RadiusCall` uses legs through what a controller sees of them
(`LegsAgree`, `OverIsFinal`) and an rtpproxy session that answers or refuses each
body (`SdpAnswered`); the session uses a client that answers every command
(`CommandEnds`); `Registration` a transaction that gives one final response.

Definitions whose comment calls them a mutant (`doCancel_Silent`,
`EndedByPeer_Silent`, ...) are not part of a specification. Each is a plausible bug
in the definition that follows it; every property of every passing run is
violated when its mutant takes the definition's place (`PROJECT.json`,
"mutants").

## 3. How the models correspond to the code

**Atomicity.** A handler runs under the session lock of its call
(`t.Lock()` in the manager, `cb_lock` in `Timeout`), so a handler is one step.
What lies outside the lock is a step of its own: a `Timeout` leaves its select
(`Pop`) and then waits for the lock, where `Cancel()` no longer reaches it
(`ready`, `pop`); the manager looks a transaction up and then waits for its lock
(`inbox`, `rcv`); `cmd_done` of a session takes the next command and then waits
for the lock (`ready`). Code without a lock is split where it reads and writes
shared fields (`saw` in `RtpProxyClient`).

**Panics and locks.** `SafeCall` recovers panics, but a mutex locked without
`defer` stays locked: `provLeaked`, `tmLeaked` and `stuck` in
`ServerTransaction`, `leaked` and `blocked` in `RtpProxySession`, `cclock` and
`maplock` in `RadiusCall`.

**ServerTransaction.** `te`, `ready` are the timers; `tid` and `tserver` the key
(the Via branch, or the To tag after a final response to an INVITE) and the
table; `prov` and `chain` the reliable response in flight and the chain of
timers that each reliable response starts: a late callback starts a chain that
`prov_inflight` does not know. `rtid2tid` maps RSeqs to keys. The UA of the
transaction is `ua`: it may answer once while active, is none if the request was
refused, and one that uses 100rel sends a reliable response only when none is in
flight (`UasStateRingingRel`, `ReliableOneByOne` in `B2bCall`).

**ClientTransaction.** `told` counts what `RecvResponse` of the UA was given;
`uack` is `SetUAck(true)`, which the UA calls from inside that callback for late
media. `BadHeaders` lets a final response have headers that do not parse, where
`process_final_response` returns half way. `LockLatency` (in `Pop`): a callback
that waits for the lock gets it before the next timer of the same kind, at least
half a second later, pops; a second one would be bounded by nothing.

**Ua.** A leg is a record: its state `st` (`None` before the UA has one), its
event queue `q`, what it knows of its transactions, the timers (`tptr` pointers,
`arm` running, `pop` callback waiting), the events that states keep
(`pendUpdate`, `heldRing`, `heldConnect`, `heldUpdate`), and history that the
properties need (`dialog`, `bye`, `cancelled`, `early_bye`, `faults`). Each
`X_RecvEvent` and `X_RecvResponse` operator is that method of state X with its
`ChangeState`; the request handlers are grouped by request because most states
answer a BYE or REFER in the same way. `same` is whether an SDP equals the one
sent before, which the code decides by comparing text; `Ways` is what becomes of
an Update in Connected: sent, answered at once because its SDP is known, or refused
with 483 because its Max-Forwards is used up.

**B2bCall.** One stimulus runs a handler; events it enqueues run handlers of the
other leg, nested, before the lock is released. `todo` is that call stack: emit
the events of a leg, let a leg receive an event, return from `RecvRequest` (and
bind `CancelCB`, which the code does after the events were emitted). Properties
speak of the states with `todo` empty. `Phase` maps the state of a leg to its
`phase` in `Call`, and `answered` are the legs with a dialog. `Shutdown` does not take the session lock
and may come between any two of these calls; within a handler's own code it is
not interleaved. `TryError` and `UpdateError` are a first INVITE and a re-INVITE
that `PrepTr` cannot send: the event is lost, and the leg it came from is not told
(`unsent` remembers the second).

**TransactionManager.** A datagram stands for its checksum, its contents (method,
branches, tags, whether the body is whole) come from `Content`. A receiver goes
from `handleIncoming` (cache, under `rcache_lock`) to parsing, to the tables, to
the handler, one step each. Time is counted in purges: they are 32 s apart and a
peer repeats a datagram for less than that. `checksum` is the field of each server
transaction in `tserver` by which its responses go into the cache. Both legs of a b2bua_simple call have
the same Call-ID, so it has two consumers.

**RtpProxySession.** A body with n media sections becomes n "U" commands whose
answers count down `left`; `inflight` and the queue are `inflight_cmd` and
`rtpp_wi`; `pipe` is what the rtpproxy is going to see, `proxy` the streams that
exist there. `elast_seq` and the sequence numbers of the events map to
`DelayedEvents` (`last`, `created`, `done`, `ended`).

**RtpProxyClient.** Requests occupy slots with their retransmissions and timer;
callbacks are two steps. `Stranded` and `CapsLost` name the two states that the
missing locks can really lead to (section 7).

**RadiusCall.** `cc` is the record of the call: state, legs (one for each attempt,
with the event that the rtpproxy still has), accounts, group timers, the
authorisation request (queued, taken, done), whether it is in the map. Most handlers
map it to the next one in one step. The commands and signals of the call map
disconnect a leg without the session lock, and what they do can come into the middle
of a handler. So the handlers that look at a leg or the session and use what they
saw later stop in between (`at`): RecvEvent of the Try before it opens the rtpproxy
session and after it (`try`, `session`), `rDone` before and after its check of the
incoming leg (`rDone`, `route`), `placeOriginate` before it makes the leg, before it
sets its callbacks and before it gives it the Try (`create`, `setup`, `send`), and a
2xx between `oConn` and its event (`connect`). The command itself is two steps:
`DisconnectA` ends the leg, with its callback, and `emitPendingEvents` brings the
Disconnect to the controller, which may have gone on (`owed`). What stays one step:
the change of a leg's state with its callback, and what "r" reads of the call with
the disconnect that follows. Two goroutines' accesses to the fields and the queue of
one leg are taken one after the other. `safeStop` is `Disconnect`; that the process
ends a second later ends everything. `stray` remembers that the rtpproxy refused a
delayed body after the controller had moved on, which mixes two attempts up, and
`late` what a handler began when the incoming leg had ended behind its back
(section 7).

**SipTransport.** One queue `wi` for the senders, one for the resolvers, a nil
that walks through each, and the goroutines that put messages into them; for one
remote the two generations of `cache_r2l` and a kernel that may change its mind.

**Digest, Registration.** A nonce is the algorithm's bit and an identity; its age
is counted by `Tick`. HA1 and the response are tuples of what is hashed. The
registrar is external but checks credentials as the repository's own `Verify`
does; it challenges with 401 or 407, and messages may be lost either way.
`DoRegister` may fail to make a transaction, as `BeginNewClientTransaction` only
logs that; the history variable `silent` remembers it.

**Dialog.** `rt` is `rTarget`, `rAddr` and `routes` of the Ua; each INVITE
transaction keeps the request it was made with and, for a re-INVITE, the
`ack_rparams`. The proxies of `Chain` are external: each records its route or
not and is a loose or a strict router; `GoesItsWay` follows a message hop by hop
the way such proxies would.

## 4. Runs

| Run | Question | Properties | Bounds | States |
|---|---|---|---|---|
| `server_txn` | One final response, one verdict about the ACK, consistent tables; does it end? | `OneFinalResponse`, `AckedOrNot`, `TablesConsistent`, `EventuallyGone` | 2 reliable responses, 1 retransmission each | 124,521 |
| `client_txn` | One outcome, one ACK, ordered PRACKs, deferred CANCEL, a timer always on its way; automatic or late ACKs, good or bad headers | `OneOutcome`, `AckMatchesFinal`, `FollowUps`, `Reclaimable` | 2 RSeqs, 2 provisional and 2 final responses | 1,203,648 |
| `call` | No half call; re-INVITEs are asked on the other leg; every INVITE gets one answer; reliable responses one at a time; calls settle and are forgotten | `LegsAgree`, `UpdatePaired`, `InvitesAnswered`, `Settles`, `Reclaimed` | 2 requests, 2 provisional responses; 100rel, INVITEs and re-INVITEs that cannot be sent | 438,854 |
| `call_late` | What each leg owes its peer and its timers, with late offers, authentication, four timers and SIGTERM; what the parties see (refines `Call`) | `DialogClosed`, `TimersRight`, `ImplementsCall` | 1 request, 1 provisional response | 3,332,194 |
| `rtp_session` | One callback per operation, streams deleted, events in order (refines `DelayedEvents`), bodies come back | `AnsweredOnce`, `StreamsReleased`, `EventsInOrder`, `SdpAnswered` | 2 operations, 2 sections, queue of 2 | 143,643 |
| `rtp_client` | One callback per command; off line is on its way back, on line is watched; commands end | `CalledOnce`, `WillReturn`, `OnlineIsWatched`, `CommandEnds` | 2 requests, 2 capabilities, 1 retransmission | 76,847 |
| `radius_call` | Records belong together, the session is released, one attempt at a time, calls leave the map | `EndsClean`, `OneAttempt`, `CallLeavesMap` | 2 routes, 3 configurations, commands in the middle of handlers | 546,562 |
| `txn_manager` | Datagrams handled once, answers kept, CANCELs and requests of dialogs find what they are for | `HandledOnce`, `AnswerKept`, `CancelFinds`, `DialogFound` | 11 datagrams in 6 scenarios, 3 arrivals, 2 receivers | 220,375 |
| `sip_transport` | Queued messages leave, shutdown ends, addresses are looked up again | `FlushedBeforeClose`, `RouteWindow`, `ShutdownEnds` | 2 workers of each kind, 1 timer, 2 messages, queue of 3 | 96,468 |
| `registration` | The agent keeps registering and fails for a reason only | `FailureJustified`, `KeepsRegistering` | 4 nonces, 5 challenges | 84,840 |
| `dialog` | Requests, ACKs and CANCELs take the right way | `OneRouteSet`, `RoutesArrive`, `PathFollowed`, `CancelFollowsInvite` | 2 proxies, 2 peers, 3 INVITEs | 761,418 |
| `dialog_prack` | counterexample: section 7 | `PrackFollowsPath` | 1 INVITE | |

Why the bounds are enough.

* Calls: two requests after the first INVITE are one from each side, or two from
  one: re-INVITEs that cross, a re-INVITE and a BYE, a REFER that meets an Update;
  each opens at most one transaction on each leg, and a third finds the legs in a
  state that two can reach (491 or the end). Responses, CANCELs, ACKs and timers
  are not bounded by these counters. Two provisional responses are a reliable one
  and one that must wait for its PRACK. `call_late` has one request and one
  provisional response, but all four timers, each with a callback that waits.
* Transactions: two RSeqs and one retransmission give a response, its give-up and
  the next response with a stale chain; the proofs of section 6 have no bound.
* Manager: three arrivals are an INVITE, a copy or CANCEL, and what follows; with
  two receivers any two of them are handled at once, and up to two purges matter
  to a datagram. `Scenarios` keeps apart datagrams that meet in no table: an
  INVITE with its copies, CANCEL and ACK; the call with what the callee sends; a
  looped INVITE; messages of nobody or that cannot be read.
* rtpproxy session: two operations with two sections each put four commands into
  a queue of two, so that it fills, and let an answer overtake the other
  operation's. Client: two requests in progress with one retransmission; two
  capabilities are enough for a lost increment.
* b2bua_radius: two routes are one that fails and one that is left; the group
  timer, a refused attempt and the end each have something to skip, and a command
  can meet the first attempt and one that is hunted for. Commands are not bounded.
* Transport: two workers of each kind hand one nil on; a third would repeat it.
* Registration: a round has three attempts, so four nonces are enough for each
  challenge to have its own; rounds repeat without bound.
* Dialog: two proxies tell loose from strict and first from last; two peers are a
  fork; three INVITEs are the first one, a keep-alive and a re-INVITE.

Deadlock is not checked where a call, transaction, session or server that is over
stops, or a bound ends the run; `registration` never stops and checks it.

## 5. Fairness

* Timers expire and goroutines that wait for a lock get it (weak fairness of
  `Pop`, of each callback and of each handler). Go's mutexes and timers give
  this; nothing is assumed of the peers.
* `call`: the nested calls of a handler finish; an INVITE that is not answered is
  cancelled by timer E and a final response that is not acknowledged is given up
  by timer D. Both are results about `ServerTransaction` (`EventuallyGone`). No
  answer of the callee is assumed, no ACK, and no application timer is configured.
* `rtp_session`: the client answers every command, with an answer, an error or
  nothing after its time-out. Over UDP this is `CommandEnds`; over a stream it
  rests on the operating system (section 7).
* `rtp_client`: timers and callbacks only; the rtpproxy may never answer.
* `radius_call`: a handler that has the session lock goes on, a command that ended a
  leg emits its event (weak fairness), and the timers of ended legs fire. The last is
  strong fairness: the command line can be given the same command again and again,
  and each time the timer has to wait for its event to be emitted; goroutines that
  wait for a mutex get it all the same. Neither the RADIUS server nor the callee has
  to answer.
* `sip_transport`: workers and the one who shuts down go on; nobody has to send.
* `registration`: timers and the agent's handlers; proxy and registrar may lose
  everything.

## 6. Proofs

TLAPS checks the eight `...Proofs` modules. The assumptions are those on the
constants, stated in the module that declares them: bounds are naturals, switches
Booleans, and

* `TransportAssumption`: there is a worker, and the two servers of local4remote
  are not the value that stands for none;
* `RtpProxySessionAssumption`: a body has room for one media section;
* `RtpProxyClientAssumption`: at least one request, capability and timer;
* `BoundsAssumption`: datagrams are numbered from 1, scenarios are sets of them;
* `RadiusCallAssumption`: an answer may have a route, and a configuration without
  a static route authorises;
* `DialogAssumption`: the value that stands for nobody is not a peer;
* `DigestAssumption`, `RegistrationAssumption`: a nonce lives for a natural number
  of ticks, there are finitely many at a time, and an offer is a sequence.

Nothing is assumed of the sets of workers, receivers, timers and datagrams; they
may be infinite. Each `IInv` was checked by TLC on the instance of its run before
it was proved (that of `B2bCall` on both of its instances), and so were `PairInv` on
the instance of `call`, `CallInv` on those of `call` and `call_late`, and `AgentInv`
on that of `registration`.

**Server transaction.** `IInv` is TypeOK, `FinalsMatchState`, `AckState`,
`Registered`, `Reclaimable` and `PrackFindsTransaction`.
`OneFinalResponse` is not inductive: nothing in it says that a transaction that
is still early has sent nothing, or that the UA that may still answer has a live
one; `FinalsMatchState` ties the count to the state and adds that timer D does
not exist before the final response, without which `Reclaimable` would not
survive a waiting callback. `AckState` adds that noack ends the transaction and
ack confirms it. `StepIInv` has one case per action. Theorems: `TypeCorrect`,
`SendsOneFinalResponse`, `AckExcludesNoack`, `TablesAndTimersConsistent`, and
the action property `NeverGoesBack`.

**Client transaction.** `IInv` is TypeOK, `Registered`, `CancelState`,
`AckState`, `PrackState`. `CancelState` says when a CANCEL is put off,
`PrackState` that the PRACKed numbers are an interval that ends in `last_rseq`.
Theorems: `TypeCorrect`, `RegisteredWhileAlive`, `CancelWaitsForProvisional`,
`AcksTheFinalResponse`, `PracksWithoutGaps`, `FollowUpsInOrder`,
`NothingAfterTheEnd`. With `Automatic` (no late media, headers that parse) the
second invariant `OutcomeState /\ Reclaimable` gives `HearsOneOutcome` and
`AlwaysReclaimable`, which are stronger than the properties the run checks
without `Automatic`: there the code deviates (section 7). `OutcomeState` needs
that timer B is gone when the 408 was given; this rests on `LockLatency`.

**Transaction manager.** `IInv` is the types, `Kept`, `Known`, `Alone`, `Opened`,
`Registered`. The argument for `HandledOnce` and `AnswerKept` is about ages: what
arrived since the last purge is in the newer generation, what arrived since the
one before it is in one of the two, and an answer is never hidden by a
placeholder, because a copy that arrives finds the entry first (`Known`, `Kept`).
`Alone` adds that a datagram is with one receiver at most. `CancelFinds` needs
`Opened`: the entry in `tserver` under a branch belongs to the datagram whose
checksum it carries. `DialogFound` needs `Registered`: the consumers of the
Call-ID are exactly the legs that have begun and not died, each once, so that
`UnregConsumer`, which does not look which consumer it removes when there is one
only, removes the right one. An attempt at this proof found that an earlier
version of the model chose the INVITE that a response belongs to by its method;
after an ACK there are two candidates. Hence the variable `checksum`. Theorems:
`TypeCorrect`, `HandledOnceHolds`, `AnswerKeptHolds`, `CancelFindsHolds`,
`DialogFoundHolds`.

**Legs of a call.** `B2bCallProofs` reasons about one leg at a time. `LegInv` is
what a leg keeps to: no fault, `Answering` (an INVITE is open exactly in the
states that must answer it, or a BYE or REFER overtook the answer), `Reliable` (a
state that may send a reliable response has none in flight), `Closing` (a dialog
exists only after the setup, and what is over was hung up), `Timing` (which
timers may run, and which must), `Held` (kept events are of their kind). For
every handler a lemma says that it `Moves` a leg: `LegInv` is kept, a leg that is
over stays so, the handler of a CANCEL is not lost, no Try is emitted. The lemma
holds for any event the other leg may send, so nothing has to be known about that
leg; this is why the proofs cover late media and crossing re-INVITEs, where the
two legs disagree. A callback of a timer starts from a leg whose timer has just
expired, which satisfies only `Loose`. The call then needs three facts about both
legs: `Bound` (the CANCEL handler is bound, or the request that binds it has not
returned), `TryOnce` (a Try finds leg O without a state: any other state would be
overwritten and its INVITE lost), `Fresh`. Theorems: `TypeCorrect`,
`InvitesAnsweredHolds`, `DialogClosedHolds`, `TimersRightHolds`,
`OverIsFinalHolds`.

**Both legs of a call.** `LegsAgree` and `UpdatePaired` relate the legs in states in
which the lock is free, and a handler takes the call from one such state to the
next through many that satisfy neither. The invariant `PairInv` therefore says,
besides `IInv`, what is true between any two nested calls: both legs are over, or
they `Talk`. A leg is at a `Stage` of the call as its peer leg sees it (not yet
asked, being set up, up, asking the other leg about a re-INVITE, asked by it,
keeping an Update for the ACK or PRACK, over). `Matched` pairs the stages of two
legs that have nothing to tell each other; when one has moved on, `Carried` says
which events are then on their way to the other one: a Connect from a leg that is
up to one that is early or asked, say, or a Disconnect from one that is over. Once
a re-INVITE could not be sent (`unsent`), `Matched` also pairs a leg that is asked
with one that is up or is asked as well: nobody is going to answer the first one.
`LegsAgree` holds all the same, `UpdatePaired` as long as nothing was unsent. In
`Calm` the stages match and no event is in a queue. Otherwise one leg is about to
emit the events of its queue (`Speaking`), the first of them is being handled by
the other leg (`Hearing`), or an Update that was kept is let go (`Waking`), and in
each case `Carried` holds of everything that is left. For every handler a lemma
says which stage it leads to and which events it leaves in the queue (`Tells`);
`Stimulated` and the lemmas behind it show that this turns matched stages into
carried events and carried events into matched stages or into answers on their way
back. Both theorems assume `~LateMedia` and `~SigTerm`, and need both: TLC refutes
each property under either switch (section 7).
Theorems: `LegsAgreeHolds`, `UpdatePairedHolds`.

**What the parties see.** `ImplementsCallHolds` proves that every step of `B2bCall`
is a step of `Call` or a stutter, for all values of the constants: what the parties
see stays right under late media and SIGTERM, where the two legs may disagree.
Two relations say what a handler does to a leg in the view of its party: it goes
on `Calmly` (the leg stays in its phase or ends, and gets no dialog) or `Advances`
(or it goes from setup to up, with a dialog); each handler has a lemma that says
which. `Tell` asks for more than a leg alone can give: the callee has answered
when the caller is told so. A Connect comes to leg A only from leg O, but on its
way it is in the queue of leg O, in `todo`, or in `heldConnect` of leg A, which
waits for a PRACK; and leg O may be over by then. The inductive invariant `CallInv`
says of each of these places that leg O has a dialog (`Backed`, `Untold`), and that
leg A sends an INVITE of its own only in a dialog. A 2xx to an INVITE that leg O has
given up (`Late`) is the step `AnswerTooLate`: the leg gets a dialog when it is
over, and must hang up, which is `DialogClosed`. That no leg comes back which is
over is `OverIsFinal`. Theorem: `ImplementsCallHolds`.

**Calls of b2bua_radius.** `IInv` is TypeOK and `CallInv` of the call record and of
the handler that has stopped. A step is a composition of operators (the end of a
leg, a hang-up, a new attempt), and between two of them a part of the invariant is
broken: a caller who is gone while an attempt goes on, say. So `CallInv` is `Base`,
which every operator keeps, and `HungUp` and `Stopped`, which hold again when the
step ends; each operator has a lemma on what it does to `Base`, and each action one
that puts the rest together. `Base` says that the incoming leg's account tells its
story (`Incoming`), that the routes left come after the ones tried and that there is
room for each (`Routes`), that legs on their way to Dead have ended, each once
(`Attempts`, `Queue`), that every attempt but the last has ended before the incoming
leg dies (`InOrder`), and that an attempt which is going on owns `acctO` (`InTurn`).
The last is what `OneAttempt` and `EndsClean` lack: the callbacks of an attempt use
whatever `acctO` is by then. `HungUp` says that no attempt goes on when the caller is
gone, unless the Disconnect that will end it is not emitted yet, with the call
Disconnecting so that the controller will pass it on, or an attempt began too late.
`Stopped` is what a handler that has stopped relies on although legs end behind its
back: there is no attempt before the first (`Unbegun`), there is a route to try and
all earlier attempts are over (`MayPlace`), the new leg is not billed before its
callbacks are set and has not been dialled before its Try (`Unset`, `Unsent`). That a
command in the middle of a handler leaves these facts alone is a lemma of each of
them. All of it is up to `stray` and `late` (section 7), as the properties are.
Theorems: `TypeCorrect`, `EndsCleanHolds`, `OneAttemptHolds`.

**rtpproxy session.** `IInv` is TypeOK, `Addressed`, `Waiting`, `EndOvertakes`,
`DeletedLast`, `StreamsReleased`. `AnsweredOnce` alone says nothing about an
operation whose callback has not run: `Waiting` ties that to `NeedsUpdate()` for a
body and to the one command that a prompt or recording has on its way.
`StreamsReleased` needs that the "D" of a stream is behind every "U" of it in the
channel (`DeletedLast`). `ImplementsDelayedEvents` shows that the initial state
maps to an initial state and every step to a step of `DelayedEvents` or to a
stutter; that a callback which is late changes nothing after the end is
`EndOvertakes`. Theorems: `TypeCorrect`, `AnsweredOnceHolds`,
`StreamsReleasedHolds`, `ImplementsDelayedEvents`.

**rtpproxy client.** `IInv` is `Fields`, `Owners`, `First`, `Counted`, `Watch`,
`Return`. A request is in `pending_requests`, with a goroutine, or done, and only
the last has called back (`Owners`). `Watch` and `Return` are the properties with
what a callback has already read of `online` added: a heartbeat whose callback
read "off line" before `GoOnline` is not the one that goes on. That
`caps_received` never exceeds the number of capabilities, although it is written
without a lock, is `Counted`: for each count that some callback has read, that
count and the answers still to come are not more than was asked for. That a count
of requests in progress follows from a set of slots is proved with the
least-number principle (`Least`) in place of induction. Theorems: `TypeCorrect`,
`CalledOnceHolds`, `WillReturnHolds`, `OnlineIsWatchedHolds`.

**Transport.** `IInv` is TypeOK, `Delivery`, `NilBehind`, `Closing`:
a message is in one place at a time, and what the senders had when the shutdown
began is before the nil in their queue and not with a worker that has the nil.
`RouteWindow` follows from `Generations`, which says for each number of rotations
without a use which generation has the address. Theorems: `TypeCorrect`,
`FlushedBeforeCloseHolds`, `RouteWindowHolds`.

**Registration.** `FailureJustified` speaks of the end of a round and needs what
went before: `AgentInv` says that a round begins without attempts (`Waits`), that
the challenge to be answered is one the registrar can have sent (`Genuine`), that
the credentials kept for the next REGISTER, and those in the one on its way, answer
such a challenge (`Answering`), and that with the right password the answers
refused as stale are as many as the attempts, or one fewer while the last is on its
way (`Counted`). The last is kept because credentials are read as they were written
(`ReadAsWritten`) and because an answer with the right password to a nonce that has
not run out, by an algorithm the registrar knows, passes `Verify`
(`FreshAccepted`): a registrar that challenges again has met a stale one.
Theorem: `FailureJustifiedHolds`.

**Dialog.** `CancelFollowsInvite` is about messages, and a later step could change
what they are compared with: `LegInv` adds that the transactions are a sequence of
records with an INVITE each and that the ACK which waits for a body is no CANCEL.
`Moves` says what every step but the first does: it keeps the INVITEs of the
transactions that there were (`Keeps`) and makes each CANCEL from one of them
(`Follows`). Theorem: `CancelFollowsInviteHolds`.

The other requests are addressed by a route set, which the Ua works out from the
response and the client transaction works out again for the ACK (or is given with a
re-INVITE). `RouteInv` says that once a peer has answered the Ua has its route set,
that before this no transaction was given one (`Early`) and after it none another
(`GivenTo`), that it is known who the peer is wherever a 2xx to a re-INVITE can come
(`Late`), and that the waiting ACK is addressed as well as what is sent
(`WellSent`). Theorem: `OneRouteSetHolds`. What is left of `PathFollowed` is
`Arrives`, which says of each peer's route set that it leads there and depends on
the proxies only, which never change (`RoutesArrive` looks at it before the call):
`PathDependsOnProxies` proves that it implies `PathFollowed` in every reachable
state.

**Only model-checked:**

* all liveness (`EventuallyGone`, `Settles`, `Reclaimed`, `SdpAnswered`,
  `CommandEnds`, `CallLeavesMap`, `ShutdownEnds`, `KeepsRegistering`): fairness
  and ENABLED are out of the prover's reach;
* `RoutesArrive` of `Dialog`: that a message arrives is an induction over the
  proxies it passes.

## 7. Where the code deviates

`dialog_prack` is a run that TLC refutes (`PROJECT.json`, "findings"): the PRACK
of the first reliable provisional response is generated and sent
(`uac_state_trying.go:99-106`) before `UpdateRouting` (line 110), under the
comment "the route set must be ready for sending the PRACK"; it has no Route and
passes the proxies by.

The rest are states the models contain or that reading the code for them showed.
The properties are stated so that they hold in spite of them, with the exception
named in the property where there is one.

Transactions and calls:

* An unmatched PRACK is answered with 481 but `tserver_lock` stays locked
  (`sip_transaction_manager.go:497`). It takes a PRACK that comes when timer D
  has removed the transaction and its RSeq entry remains (`tmLeaked`).
* The PRACK timer's callback waits for the lock while the PRACK is handled, then
  writes through the nil `prov_inflight` (`server_transaction.go:452`): the panic
  leaves `prov_inflight_lock` locked and later requests of the call, CANCEL among
  them, wait for ever (`provLeaked`, `stuck`).
* In the UACK state a second 2xx or timer B tells the UA again
  (`client_transaction.go:198`), against "In those two states upper level already
  notified".
* The Cancelling state lasts 300 ns instead of 300 s (`uac_state_cancelling.go:53`
  takes a `time.Duration`): a 200 OK that crosses the CANCEL meets a dead leg and
  is not ended with a BYE.
* A final response whose headers do not parse leaves the client transaction in
  `tclient` without a timer (`client_transaction.go:257-333`).
* A late timer A callback restarts the retransmissions after the first response
  (`base_transaction.go:111`).
* A BYE or REFER while an INVITE is open: the 487 (200) meant for the INVITE is
  sent on the BYE's transaction, the INVITE stays open until timer E
  (`uas_state_ringing.go:122`, `uas_state_preconnect.go:106`,
  `uas_state_updating.go:56`). `InviteAnswered` excepts it (`early_bye`).
* A 100 Trying processed after the 180 makes `UasStateRingingRel` wait for a
  PRACK that nobody owes (`uas_state_ringing_rel.go:65`).
* A 401 to a re-INVITE that arrives after the call ended sends the INVITE again
  (`ua.go:1290`).
* A re-INVITE that cannot be sent on the other leg (`PrepTr` finds no server for the
  destination, `ua_state_connected.go:229`) is lost with a log line
  (`ua.go:301-305`): nobody answers it, and the leg that was asked stays UasUpdating
  opposite a Connected one until timer E (the Expires of the re-INVITE, or 300 s)
  answers 487 and ends the call. `UpdatePaired` excepts a call to which this happened
  (`unsent`) and fails without the exception; the other properties of `call` hold.
  `GenRequest` fails only if a leg has no address and its first Route does not parse;
  its error returns elsewhere (BYE, REFER, CANCEL) are not modelled.
* Late offers with crossing re-INVITEs: the ACK owed to the callee is sent empty
  when the leg leaves Connected (`ua_state_connected.go:266`), the caller's ACK
  then answers the callee's re-INVITE, and the refusal of the kept Update ends
  one leg only. `LegsAgree` and `UpdatePaired` are therefore checked with offers
  in INVITEs (`LateMedia = FALSE`).
* `callMap.Shutdown` without the session lock can disconnect leg A between the
  Try event and its handling, which leaves leg O ringing until the process exits;
  `call_late` checks the properties of each leg under it.

Transaction manager:

* Loop detection compares a key that has the branch in the place of the To tag
  (`sip_msg.go:478`), so the 482 is never sent and a looped INVITE starts a call.
* `tclient_lock` and `tserver_lock` stay locked when a constructor fails
  (`sip_transaction_manager.go:413`, `547`).
* A BYE that overtakes the callee's first response with a tag gets 481
  (`ua.go:494`); requests before the leg is connected, other than BYE, are
  refused by the comparison of branches. `DialogFound` speaks of connected legs.

Dialog and keep-alive:

* The remote target is not refreshed by a re-INVITE. A retried INVITE after a
  1xx is addressed by the early dialog's route set. The ACK of a non-2xx has no
  Route. A 1xx without Contact after strict routing loses the contact until the
  200.
* `PrepTr` makes the Ua the receiver of the keep-alive's responses:
  `keepaliveController.RecvResponse` (lines 59-112) is never called, so there is
  one keep-alive per Connected state and no disconnect on 408, 481 or 486; the
  timer of 600 ns at line 104 is out of reach. In UacUpdating a keep-alive's
  final response is taken for the re-INVITE's answer (`ua.go:260`).

rtpproxy:

* The 51st waiting command blocks in the channel with `inflight_lock` and the
  session lock held (`session/main.go:142`); `cmd_done` needs both (`blocked`).
* An answer without an address after `Delete` dereferences the nil client
  (`session/update.go:162`) with the session lock held (`leaked`).
* The sections' callbacks capture the loop variable `sect` (`session/side.go:151`);
  most callers ignore the error for a malformed SDP.
* Over UDP the first timer may fire before the request is in `pending_requests`
  (`client/udp.go:182`): its callback never runs (`Stranded`). Two answers at a
  time may lose an increment of `caps_received` (`client.go:300`): the client stays
  off line (`CapsLost`). `GoOffline` racing `GoOnline` makes two heartbeat chains.
  The read of a stream has no deadline.

b2bua_radius:

* `Rcode` is never set, so a refused authorisation counts as accepted
  (`call_controller.go:246`); `is_ev_disconnect` tests for `CCEventFail` (215), so
  a Disconnect never makes the controller try the next route; `group_expires` runs
  off the end of the routes when no `rnum` equals `skipto` (535).
* When the rtpproxy refuses a delayed body of an attempt that the controller has
  left, two attempts run at a time and a Stop goes to the wrong one (`stray`).
* "d", "d *", "r" and the signals disconnect a leg without the session lock
  (`call_map.go:214`, `348`, `373-375`), so that it ends while a handler of the call
  runs. TLC finds each of the following when the exception that names it is dropped:
  * The leg ends after the Try was taken and before the rtpproxy session is opened
    (`call_controller.go:171`): `aDisc` has found no session, and nobody deletes the
    one that is opened then (`late`, "session"; `EndsClean` excepts it).
  * The leg ends between the check of its state (`call_controller.go:216-218`, `270`)
    and the Try of the next route (`458`), and its event reaches the controller before
    there is a new attempt: that one is dialled for a caller who is gone and nobody
    hangs it up. "r" does the same with an attempt: its Disconnect, which is no Fail,
    ends the incoming leg after the controller went on to the next route (`late`,
    "attempt"; `OneAttempt` and `CallLeavesMap` except it). Such an attempt goes on
    until the callee or one of its timers ends it, and so long the call stays in the
    map.
  * Between `EndA` and its event the attempt goes on without a caller (`owed`).
  * The attempt ends before its callbacks are set (`call_controller.go:378-386`): it
    gets no Stop, and its account stays open in `acctO` (`bill` is false, which takes
    it out of `EndsClean`; it had no Start either).
* Max-Forwards used up leaves leg O without a state: the call never leaves the
  map. A late `rDone` after `aDead` dereferences the nil map. An Alive may follow
  the Stop; several workers may deliver Start and Stop out of order.
* `l` takes locks in the opposite order of `DropCC`; `l` and `d <id>` before the
  Try dereference a nil `cId` with `ccmap_lock` held.
* The queue of 1000 external commands blocks its sender, and a long line of the
  helper program loses its first part. `h323-credit-time=0` gets the maximum.

Transport and registration:

* A resolver that sends into a full queue after the senders stopped blocks
  `Shutdown` for ever (`udp_server.go:98`; `ShutdownEnds` fails with
  `QueueCap = 1`). Names that are queued at shutdown are lost; `on_complete` is not
  called after 20 failed writes or for names. A bind failure leaves the address
  in the cache without a server (`local4remote.go:148`, `160`).
* Only the first challenge and the first Contact are looked at; the refresh timer
  is the full expiry; an expiry of 0 is a tight loop. Credentials of one kind
  remove those of the other (`sip_msg.go:213`, `233`), so a proxy and a registrar
  that both challenge are never both satisfied (the model has one challenger). A
  challenge that `HandleAuth` cannot read ends the registration silently
  (`abandoned`), and so does a REGISTER for which no client transaction can be
  made (`silent`): the agent's address cannot be bound, or the registrar's has no
  local address to be reached from (`local4remote.go:124-163`,
  `sip_transaction_manager.go:399`, `427-431`), and `DoRegister`
  (`sip_registration_manager.go:78`) leaves no timer behind. `KeepsRegistering`
  excepts the two, and is violated without either exception. `StopRegister` takes
  no lock.
* `b2bua_radius` makes nonces with the wall clock (`call_map.go:153`) and checks
  them with the monotonic one.

## 8. Not modelled

* Early returns of the UA states on headers that do not parse; Replaces; CSeqs;
  addresses rewritten behind a NAT.
* A leg has one INVITE server transaction at a time: a second INVITE gets 491.
* Retransmission by the network is in the transaction and manager modules, not in
  `B2bCall`, `RadiusCall` and `Dialog`.
* Several calls at once: calls share the manager, the map and the external
  command's queue, and no other state.
* SDP, STIR/SHAKEN, the text of headers and of the helper program's and the
  rtpproxy's protocols, configuration, logging, the examples: parsing, formatting
  and I/O without state that a model checker would reach.
* Cryptography: hashes and AES are perfect in `Digest`.

## 9. Plan

`ExternalCommand` with several workers and its bounded queue, as a module that
`RadiusCall` uses.
