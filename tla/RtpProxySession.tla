-------------------------- MODULE RtpProxySession --------------------------
(***************************************************************************)
(* The rtpproxy session of a call (sippy/rtp_proxy/session) with the leg   *)
(* whose SDP bodies it rewrites, as cmd/b2bua_radius connects them: the    *)
(* SDP that the leg is to send goes through the "caller" side, the SDP     *)
(* that it received through the "callee" side.                             *)
(*                                                                         *)
(* A body with n media sections becomes n "U" commands; the event of the   *)
(* leg waits until all are answered.  One command at a time is with the    *)
(* rtpproxy, the others wait in a bounded channel.  An answer is handled   *)
(* in two steps: cmd_done takes the next command under inflight_lock, then *)
(* waits for the session lock of the call to run the callback.  Two of     *)
(* them may wait and get the lock in any order.                            *)
(***************************************************************************)
EXTENDS Integers, Sequences, FiniteSets

CONSTANTS
    MaxOps,         \* operations on the session (SDP changes, prompts, recordings)
    MaxSections,    \* media sections of an SDP body
    QueueCap        \* capacity of rtpp_wi (50)

ASSUME RtpProxySessionAssumption ==
    MaxOps \in Nat /\ MaxSections \in Nat \ {0} /\ QueueCap \in Nat

Ops == 1..MaxOps
Indices == 0..(MaxSections - 1)
Sides == {"caller", "callee"}

\* An operation: left counts the sections without an answer, needs is
\* NeedsUpdate() of the body, calls how often the result callback ran.
OpKinds == {"sdp", "malformed", "play", "stop", "record", "copy"}
OpRecords == [k : OpKinds, side : Sides, left : 0..MaxSections,
              needs : BOOLEAN, calls : 0..2]

\* A command, the operation it is for (0: none) and the index of its stream.
Commands == [c : {"U", "P", "S", "R", "C", "C2", "D"}, op : 0..MaxOps,
             idx : Indices, side : Sides]
\* What the rtpproxy client gives to cmd_done for an update: a port with or
\* without an address; an error, or "" after a time-out.  The answers to other
\* commands are not looked at.
Results == {"port_address", "port", "failed"}

VARIABLES
    client,     \* _rtp_proxy_client # nil: Delete has not run
    max_index,
    exists,     \* session_exists of the two sides
    pipe,       \* inflight_cmd followed by rtpp_wi
    blocked,    \* send_command waits for room in rtpp_wi, with both locks
    ready,      \* answered commands whose callback waits for the session lock
    leaked,     \* a callback panicked and left the session lock locked
    ops,        \* the operations so far
    elast,      \* elast_seq: the events of ops up to this one come too late
    emitted,    \* the last event of the leg that the controller was given
    over,       \* the leg has ended
    proxy       \* streams that exist in the rtpproxy

vars == <<client, max_index, exists, pipe, blocked, ready, leaked, ops, elast,
          emitted, over, proxy>>

TypeOK ==
    /\ client \in BOOLEAN /\ blocked \in BOOLEAN /\ leaked \in BOOLEAN /\ over \in BOOLEAN
    /\ max_index \in {-1} \cup Indices
    /\ exists \in [Sides -> BOOLEAN]
    /\ pipe \in Seq(Commands) /\ Len(pipe) <= QueueCap + 1
    /\ ready \in SUBSET [cmd : Commands, res : Results]
    /\ ops \in Seq(OpRecords) /\ Len(ops) <= MaxOps
    /\ elast \in 0..MaxOps
    /\ emitted \in {"none", "progress", "end"}
    /\ proxy \in SUBSET Indices

Init ==
    /\ client = TRUE /\ blocked = FALSE /\ leaked = FALSE /\ over = FALSE
    /\ max_index = -1
    /\ exists = [s \in Sides |-> FALSE]
    /\ pipe = <<>> /\ ready = {} /\ ops = <<>>
    /\ elast = 0 /\ emitted = "none"
    /\ proxy = {}

\* The session lock can be taken.
Lock == ~blocked /\ ~leaked

-----------------------------------------------------------------------------
(* Commands *)

send_command(cmds) ==
    IF client
    THEN LET all == pipe \o cmds
             cap == QueueCap + 1
         IN  /\ pipe' = SubSeq(all, 1, IF Len(all) > cap THEN cap ELSE Len(all))
             /\ blocked' = (Len(all) > cap)
    ELSE UNCHANGED <<pipe, blocked>>

Command(c, op, i, s) == [c |-> c, op |-> op, idx |-> i, side |-> s]

\* Mutant: max_index is the index of the last update, not the largest one.
update_LastIndex(op, s, n) ==
    /\ max_index' = n - 1
    /\ send_command([i \in 1..n |-> Command("U", op, i - 1, s)])

\* update() for the n streams of a body, under the session lock: the commands
\* enter the channel one after the other.
update(op, s, n) ==
    /\ max_index' = IF n - 1 > max_index THEN n - 1 ELSE max_index
    /\ send_command([i \in 1..n |-> Command("U", op, i - 1, s)])

NewOp(k, s, n, needs, calls) ==
    /\ Len(ops) < MaxOps
    /\ ops' = Append(ops, [k |-> k, side |-> s, left |-> n, needs |-> needs, calls |-> calls])

-----------------------------------------------------------------------------
(* The leg: delayed events *)

\* EmitEvent: an event that is older than the last one emitted is dropped.
\* Mutant: without the comparison.
EmitOp_Unordered(op) ==
    /\ emitted' = "progress"
    /\ elast' = op

EmitOp(op) ==
    IF elast >= op THEN UNCHANGED <<elast, emitted>>
    ELSE elast' = op /\ emitted' = "progress"

\* An event that is created now is newer than all that wait.
EmitNew(what) == elast' = Len(ops) /\ emitted' = what

\* DelayedRemoteSdpUpdate for the callee side, the callback of
\* GetDelayedLocalSdpUpdate for the caller side.  On an error a new CCEventFail
\* is emitted and given to the leg itself.
DelayedSdpUpdate(op, failed) ==
    \/ /\ failed
       /\ EmitNew("end") /\ over' = TRUE
    \/ /\ ~failed /\ ops[op].side = "callee"
       /\ EmitOp(op) /\ UNCHANGED over
    \/ /\ ~failed /\ ops[op].side = "caller"
       /\ UNCHANGED <<elast, emitted, over>>

\* _on_sdp_change: no media section of a transport that the rtpproxy relays.
SdpWithoutMedia(s) ==
    /\ Lock /\ ~over
    /\ NewOp("sdp", s, 0, FALSE, 1)
    /\ IF s = "callee" THEN elast' = Len(ops) + 1 /\ emitted' = "progress"
                       ELSE UNCHANGED <<elast, emitted>>
    /\ UNCHANGED <<client, max_index, exists, pipe, blocked, ready, leaked, over, proxy>>

\* _on_sdp_change: the body does not parse.  Most callers ignore the error: the
\* event of the leg is never emitted.
SdpMalformed(s) ==
    /\ Lock /\ ~over
    /\ NewOp("malformed", s, 0, TRUE, 0)
    /\ UNCHANGED <<client, max_index, exists, pipe, blocked, ready, leaked,
                   elast, emitted, over, proxy>>

on_sdp_change(s, n) ==
    /\ Lock /\ ~over
    /\ NewOp("sdp", s, n, TRUE, 0)
    /\ update(Len(ops) + 1, s, n)
    /\ UNCHANGED <<client, exists, ready, leaked, elast, emitted, over, proxy>>

\* An event of the leg that carries no body: a progress report, or its end.
PlainEvent(what) ==
    /\ Lock /\ ~over
    /\ EmitNew(what)
    /\ over' = (what = "end")
    /\ UNCHANGED <<client, max_index, exists, pipe, blocked, ready, leaked, ops, proxy>>

-----------------------------------------------------------------------------
(* Answers *)

\* cmd_done up to the unlock of inflight_lock: the next command is sent.  What
\* the rtpproxy did with the command is decided here: after a time-out of "U"
\* the stream may exist, after "D" it does not (or is left to the rtpproxy's
\* own time-out).
Executed(cmd, res) ==
    CASE cmd.c = "U" /\ res # "failed" -> {proxy \cup {cmd.idx}}
      [] cmd.c = "U" /\ res = "failed" -> {proxy, proxy \cup {cmd.idx}}
      [] cmd.c = "D" -> {proxy \ {cmd.idx}}
      [] OTHER -> {proxy}

cmd_done(res) ==
    /\ pipe # <<>> /\ ~blocked
    /\ Head(pipe).c = "U" \/ res = "port_address"
    /\ pipe' = Tail(pipe)
    /\ ready' = IF Head(pipe).c = "D" THEN ready
                ELSE ready \cup {[cmd |-> Head(pipe), res |-> res]}
    /\ proxy' \in Executed(Head(pipe), res)
    /\ UNCHANGED <<client, max_index, exists, blocked, leaked, ops, elast, emitted, over>>

\* The rest of cmd_done: a callback gets the session lock.
Callback(r) == r \in ready /\ Lock /\ ready' = ready \ {r}

Failed(res) == res = "failed"

\* update_result of an answer without an address: ProcessRtppResult asks the
\* client for it, which is nil after Delete.  The panic is recovered further up,
\* the session lock stays locked.
update_result_Panics(r) ==
    /\ Callback(r) /\ r.cmd.c = "U"
    /\ r.res = "port" /\ ~client
    /\ exists' = [exists EXCEPT ![r.cmd.side] = TRUE]
    /\ leaked' = TRUE
    /\ UNCHANGED <<client, max_index, pipe, blocked, ops, elast, emitted, over, proxy>>

\* Mutant: NeedsUpdate() is not looked at.
sdp_change_finish_Twice(op, res) ==
    IF Failed(res) \/ ops[op].left = 1
    THEN /\ ops' = [ops EXCEPT ![op].needs = FALSE,
                               ![op].left = IF Failed(res) THEN @ ELSE @ - 1,
                               ![op].calls = IF @ < 2 THEN @ + 1 ELSE @]
         /\ DelayedSdpUpdate(op, Failed(res))
    ELSE /\ ops' = [ops EXCEPT ![op].left = IF @ > 0 THEN @ - 1 ELSE @]
         /\ UNCHANGED <<elast, emitted, over>>

\* Mutant: the last section is not waited for.
sdp_change_finish_Stops(op, res) ==
    IF Failed(res)
    THEN /\ ops' = [ops EXCEPT ![op].needs = FALSE, ![op].calls = @ + 1]
         /\ DelayedSdpUpdate(op, Failed(res))
    ELSE /\ ops' = [ops EXCEPT ![op].left = @ - 1]
         /\ UNCHANGED <<elast, emitted, over>>

\* _sdp_change_finish: the body is handed on with the last section, or with the
\* first error.
sdp_change_finish(op, res) ==
    \/ /\ ~ops[op].needs
       /\ UNCHANGED <<ops, elast, emitted, over>>
    \/ /\ ops[op].needs /\ ~Failed(res) /\ ops[op].left > 1
       /\ ops' = [ops EXCEPT ![op].left = @ - 1]
       /\ UNCHANGED <<elast, emitted, over>>
    \/ /\ ops[op].needs /\ (Failed(res) \/ ops[op].left = 1)
       /\ ops' = [ops EXCEPT ![op].needs = FALSE, ![op].calls = @ + 1,
                             ![op].left = IF Failed(res) THEN @ ELSE @ - 1]
       /\ DelayedSdpUpdate(op, Failed(res))

update_result(r) ==
    /\ Callback(r) /\ r.cmd.c = "U" /\ ops[r.cmd.op].k = "sdp"
    /\ r.res # "port" \/ client
    /\ exists' = [exists EXCEPT ![r.cmd.side] = TRUE]
    /\ sdp_change_finish(r.cmd.op, r.res)
    /\ UNCHANGED <<client, max_index, pipe, blocked, leaked, proxy>>

\* The command of a prompt or a recording that waited for an update, whatever
\* the answer to it was.
Pending(op) ==
    CASE ops[op].k = "play" -> Command("P", op, 0, "caller")
      [] ops[op].k = "record" -> Command("R", op, 0, "caller")
      [] OTHER -> Command("C", op, 0, "caller")

update_result_Continues(r) ==
    /\ Callback(r) /\ r.cmd.c = "U" /\ ops[r.cmd.op].k # "sdp"
    /\ r.res # "port" \/ client
    /\ exists' = [exists EXCEPT ![r.cmd.side] = TRUE]
    /\ send_command(<<Pending(r.cmd.op)>>)
    /\ UNCHANGED <<client, max_index, leaked, ops, elast, emitted, over, proxy>>

\* _start_recording1: the other direction is copied next.
start_recording1(r) ==
    /\ Callback(r) /\ r.cmd.c = "C"
    /\ send_command(<<Command("C2", r.cmd.op, 0, "callee")>>)
    /\ UNCHANGED <<client, max_index, exists, leaked, ops, elast, emitted, over, proxy>>

command_result(r) ==
    /\ Callback(r) /\ r.cmd.c \in {"P", "S", "R", "C2"}
    /\ ops' = [ops EXCEPT ![r.cmd.op].calls = @ + 1]
    /\ UNCHANGED <<client, max_index, exists, pipe, blocked, leaked, elast, emitted, over, proxy>>

-----------------------------------------------------------------------------
(* Prompts, recordings and the end *)

\* PlayCaller, with the other side's stream created first if there is none.
play ==
    /\ Lock /\ exists["caller"]
    /\ NewOp("play", "caller", 0, FALSE, 0)
    /\ IF exists["callee"]
       THEN send_command(<<Command("P", Len(ops) + 1, 0, "caller")>>) /\ UNCHANGED max_index
       ELSE update(Len(ops) + 1, "callee", 1)
    /\ UNCHANGED <<client, exists, ready, leaked, elast, emitted, over, proxy>>

stop_play ==
    /\ Lock /\ exists["callee"]
    /\ NewOp("stop", "caller", 0, FALSE, 0)
    /\ send_command(<<Command("S", Len(ops) + 1, 0, "caller")>>)
    /\ UNCHANGED <<client, max_index, exists, ready, leaked, elast, emitted, over, proxy>>

StartRecording(k) ==
    /\ Lock
    /\ NewOp(k, "caller", 0, FALSE, 0)
    /\ IF exists["caller"]
       THEN /\ send_command(<<Command(IF k = "record" THEN "R" ELSE "C", Len(ops) + 1, 0, "caller")>>)
            /\ UNCHANGED max_index
       ELSE update(Len(ops) + 1, "caller", 1)
    /\ UNCHANGED <<client, exists, ready, leaked, elast, emitted, over, proxy>>

\* Delete, from aDisc of the call controller, which ends the leg in the same
\* critical section.
Delete ==
    /\ Lock /\ client
    /\ send_command([i \in 1..(max_index + 1) |-> Command("D", 0, max_index + 1 - i, "caller")])
    /\ max_index' = -1
    /\ client' = FALSE /\ over' = TRUE
    /\ UNCHANGED <<exists, ready, leaked, ops, elast, emitted, proxy>>

Next ==
    \/ \E s \in Sides : SdpWithoutMedia(s) \/ SdpMalformed(s)
    \/ \E s \in Sides, n \in 1..MaxSections : on_sdp_change(s, n)
    \/ \E what \in {"progress", "end"} : PlainEvent(what)
    \/ \E res \in Results : cmd_done(res)
    \/ \E r \in ready :
         \/ update_result(r) \/ update_result_Panics(r) \/ update_result_Continues(r)
         \/ start_recording1(r) \/ command_result(r)
    \/ play \/ stop_play
    \/ \E k \in {"record", "copy"} : StartRecording(k)
    \/ Delete

Spec == Init /\ [][Next]_vars

\* The rtpproxy client answers every command (CommandEnds of RtpProxyClient), and a
\* goroutine that waits for the session lock gets it.
Answers == \E res \in Results : cmd_done(res)
Callbacks(o) == \E r \in ready : r.cmd.op = o /\
    (update_result(r) \/ update_result_Panics(r) \/ update_result_Continues(r)
        \/ start_recording1(r) \/ command_result(r))
FairSpec == Spec /\ WF_vars(Answers) /\ \A o \in Ops : WF_vars(Callbacks(o))

-----------------------------------------------------------------------------
(* Properties *)

\* The result callback of an operation runs at most once, however the answers to
\* its commands and the callbacks that wait for the lock are ordered
\* (_sdp_change_finish, command_result).
AnsweredOnce == \A op \in DOMAIN ops : ops[op].calls <= 1

\* A stream that exists in the rtpproxy is deleted in the end: Delete will send
\* its "D", or a "D" is on its way and no "U" comes after it (max_index, Delete,
\* the order of rtpp_wi).
StreamsReleased ==
    blocked \/ \A i \in proxy :
        \/ client /\ i <= max_index
        \/ \E j \in DOMAIN pipe : pipe[j].c = "D" /\ pipe[j].idx = i

\* What the controller sees of the leg: DelayedEvents.
Delayed == INSTANCE DelayedEvents WITH
    created <- Len(ops),
    done <- {op \in DOMAIN ops : ops[op].calls > 0},
    last <- elast,
    ended <- (emitted = "end")

\* The session implements DelayedEvents: events that waited for the rtpproxy are
\* handed to the call controller in the order of their creation, those that a
\* later event overtook are dropped, and none follows the end of the leg
\* (EmitEvent, DelayedRemoteSdpUpdate, GetDelayedLocalSdpUpdate).
EventsInOrder == Delayed!Spec

\* A body that was given to the rtpproxy comes back, unless the channel was full
\* (send_command then waits for ever with the lock that cmd_done needs) or the
\* session was deleted under an answer without an address.
SdpAnswered ==
    \A op \in Ops :
        (op \in DOMAIN ops /\ ops[op].k = "sdp")
            ~> ((op \in DOMAIN ops /\ ops[op].calls = 1) \/ blocked \/ (leaked /\ ~client))
=============================================================================
