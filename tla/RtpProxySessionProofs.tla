------------------------ MODULE RtpProxySessionProofs ------------------------
(***************************************************************************)
(* RtpProxySession for any number of operations and media sections and any *)
(* capacity of the channel: its callbacks run at most once, its streams    *)
(* are released, and it implements DelayedEvents.                          *)
(***************************************************************************)
EXTENDS RtpProxySession, SequenceTheorems, TLAPS

USE RtpProxySessionAssumption DEF RtpProxySessionAssumption

-----------------------------------------------------------------------------
(* The inductive invariant                                                  *)

\* A command of the operation op is with the rtpproxy or in the channel ...
InPipe(op) == \E i \in DOMAIN pipe : pipe[i].op = op
\* ... or its callback waits for the lock.
InReady(op) == \E r \in ready : r.cmd.op = op

\* The commands that were sent for an operation of their own.
Addressed ==
    /\ \A i \in DOMAIN pipe : pipe[i].c # "D" => pipe[i].op \in DOMAIN ops
    /\ \A i \in DOMAIN pipe : pipe[i].c = "D" => pipe[i].op = 0
    /\ \A i \in DOMAIN pipe : pipe[i].op \in DOMAIN ops /\ ops[pipe[i].op].k = "sdp" => pipe[i].c = "U"
    /\ \A r \in ready : r.cmd.c # "D" /\ r.cmd.op \in DOMAIN ops
    /\ \A r \in ready : ops[r.cmd.op].k = "sdp" => r.cmd.c = "U"

\* A prompt or a recording has one command at a time, and none when it is done.
OneCommand(op) ==
    /\ \A i, j \in DOMAIN pipe : pipe[i].op = op /\ pipe[j].op = op => i = j
    /\ \A r, q \in ready : r.cmd.op = op /\ q.cmd.op = op => r = q
    /\ ~(InPipe(op) /\ InReady(op))
    /\ ops[op].calls > 0 => ~InPipe(op) /\ ~InReady(op)

\* What of an operation says that its callback has not run.
Waiting ==
    /\ \A op \in DOMAIN ops : ops[op].calls <= 1
    /\ \A op \in DOMAIN ops : ops[op].k = "sdp" /\ ops[op].needs => ops[op].calls = 0
    /\ \A op \in DOMAIN ops : ops[op].k # "sdp" => OneCommand(op)

\* After the end of the leg no operation can change its events any more.
EndOvertakes ==
    /\ elast <= Len(ops)
    /\ emitted = "end" => over
    /\ emitted = "end" => \A op \in DOMAIN ops : ops[op].k = "sdp" => op <= elast

\* Delete is behind every update of the stream that it deletes.
DeletedLast ==
    /\ ~client => over
    /\ client => \A i \in DOMAIN pipe :
         /\ pipe[i].c # "D"
         /\ pipe[i].c = "U" => pipe[i].idx <= max_index
    /\ blocked \/ client \/
         \A i \in DOMAIN pipe : pipe[i].c = "U" =>
            \E j \in DOMAIN pipe : i < j /\ pipe[j].c = "D" /\ pipe[j].idx = pipe[i].idx

IInv == TypeOK /\ Addressed /\ Waiting /\ EndOvertakes /\ DeletedLast /\ StreamsReleased

-----------------------------------------------------------------------------
(* Types                                                                    *)

Room == QueueCap + 1

\* What the operations on the channel do: what was in it stays, new commands go
\* behind it, and all of them unless the channel is full.
LEMMA SendEffect ==
    ASSUME NEW cmds \in Seq(Commands), pipe \in Seq(Commands), Len(pipe) <= Room,
           blocked \in BOOLEAN, send_command(cmds)
    PROVE  /\ pipe' \in Seq(Commands) /\ Len(pipe') <= Room
           /\ blocked' \in BOOLEAN
           /\ Len(pipe) <= Len(pipe')
           /\ \A j \in 1..Len(pipe) : pipe'[j] = pipe[j]
           /\ \A j \in 1..Len(pipe') : j > Len(pipe) =>
                 /\ client /\ j - Len(pipe) \in 1..Len(cmds)
                 /\ pipe'[j] = cmds[j - Len(pipe)]
           /\ ~client => UNCHANGED <<pipe, blocked>>
           /\ client /\ ~blocked' => Len(pipe') = Len(pipe) + Len(cmds)
  <1>1. CASE ~client
    BY <1>1, LenProperties DEF send_command
  <1>2. CASE client
    <2> DEFINE all == pipe \o cmds
               n == IF Len(all) > Room THEN Room ELSE Len(all)
    <2>1. /\ all \in Seq(Commands) /\ Len(all) = Len(pipe) + Len(cmds)
          /\ \A i \in 1..Len(all) : all[i] = IF i <= Len(pipe) THEN pipe[i]
                                                           ELSE cmds[i - Len(pipe)]
      BY ConcatProperties
    <2>2. Len(pipe) \in Nat /\ Len(cmds) \in Nat /\ Len(all) \in Nat
      BY <2>1, LenProperties
    <2>3. n \in Nat /\ n <= Len(all) /\ n <= Room /\ Len(pipe) <= n
      BY <2>1, <2>2 DEF Room
    <2>4. pipe' = SubSeq(all, 1, n) /\ blocked' = (Len(all) > Room)
      BY <1>2 DEF send_command, Room
    <2>5. \A i \in 1..n : all[i] \in Commands
      BY <2>1, <2>2, <2>3, ElementOfSeq
    <2> HIDE DEF all, n
    <2>6. /\ pipe' \in Seq(Commands) /\ Len(pipe') = n
          /\ \A i \in 1..n : pipe'[i] = all[i]
      BY <2>3, <2>4, <2>5, SubSeqProperties
    <2>7. blocked' \in BOOLEAN
      BY <2>4
    <2>8. ~blocked' => n = Len(all)
      BY <2>2, <2>4 DEF n, Room
    <2> QED
      BY <1>2, <2>1, <2>2, <2>3, <2>6, <2>7, <2>8
  <1> QED
    BY <1>1, <1>2

\* The commands of an update, of a deletion, and single ones.
Updates(op, s, n) == [i \in 1..n |-> Command("U", op, i - 1, s)]
Deletes == [i \in 1..(max_index + 1) |-> Command("D", 0, max_index + 1 - i, "caller")]

LEMMA UpdatesType ==
    ASSUME NEW op \in 1..MaxOps, NEW s \in Sides, NEW n \in 1..MaxSections
    PROVE  /\ Updates(op, s, n) \in Seq(Commands)
           /\ Len(Updates(op, s, n)) = n
           /\ \A i \in 1..n : Updates(op, s, n)[i] = Command("U", op, i - 1, s)
  <1>1. \A i \in 1..n : Command("U", op, i - 1, s) \in Commands
    BY DEF Command, Commands, Indices
  <1>2. Updates(op, s, n) \in [1..n -> Commands]
    BY <1>1 DEF Updates
  <1> QED
    BY <1>2, SeqDef DEF Updates

LEMMA DeletesType ==
    ASSUME max_index \in {-1} \cup Indices
    PROVE  /\ Deletes \in Seq(Commands)
           /\ Len(Deletes) = max_index + 1
           /\ \A i \in 1..(max_index + 1) :
                Deletes[i] = Command("D", 0, max_index + 1 - i, "caller")
  <1>0. max_index + 1 \in Nat /\ max_index + 1 <= MaxSections
    BY DEF Indices
  <1>1. \A i \in 1..(max_index + 1) : Command("D", 0, max_index + 1 - i, "caller") \in Commands
    BY <1>0 DEF Command, Commands, Indices, Sides
  <1>2. Deletes \in [1..(max_index + 1) -> Commands]
    BY <1>1 DEF Deletes
  <1> QED
    BY <1>0, <1>2, SeqDef DEF Deletes

LEMMA SingleType ==
    ASSUME NEW c \in Commands
    PROVE  <<c>> \in Seq(Commands) /\ Len(<<c>>) = 1 /\ <<c>>[1] = c
  OBVIOUS

\* A new operation is the last one, the others stay.
Added(op) ==
    /\ ops' \in Seq(OpRecords) /\ Len(ops') <= MaxOps
    /\ Len(ops') = Len(ops) + 1 /\ Len(ops) \in Nat
    /\ \A o \in 1..Len(ops) : ops'[o] = ops[o]
    /\ ops'[Len(ops) + 1] = op
    /\ Len(ops) + 1 \in 1..MaxOps
    /\ DOMAIN ops = 1..Len(ops) /\ DOMAIN ops' = 1..(Len(ops) + 1)

Op(k, s, n, needs, calls) ==
    [k |-> k, side |-> s, left |-> n, needs |-> needs, calls |-> calls]

LEMMA NewOpEffect ==
    ASSUME ops \in Seq(OpRecords), Len(ops) <= MaxOps,
           NEW op \in OpRecords, ops' = Append(ops, op), Len(ops) < MaxOps
    PROVE  Added(op)
  BY AppendProperties, LenProperties DEF Added

LEMMA OpType ==
    ASSUME NEW k \in OpKinds, NEW s \in Sides, NEW n \in 0..MaxSections, NEW b \in BOOLEAN,
           NEW c \in 0..2
    PROVE  Op(k, s, n, b, c) \in OpRecords
  BY DEF Op, OpRecords

LEMMA SdpOp ==
    ASSUME ops \in Seq(OpRecords), Len(ops) <= MaxOps, NEW s \in Sides
    PROVE  /\ NewOp("sdp", s, 0, FALSE, 1) => Added(Op("sdp", s, 0, FALSE, 1))
           /\ NewOp("malformed", s, 0, TRUE, 0) => Added(Op("malformed", s, 0, TRUE, 0))
           /\ \A n \in 1..MaxSections :
                NewOp("sdp", s, n, TRUE, 0) => Added(Op("sdp", s, n, TRUE, 0))
  <1>1. /\ Op("sdp", s, 0, FALSE, 1) \in OpRecords /\ Op("malformed", s, 0, TRUE, 0) \in OpRecords
        /\ \A n \in 1..MaxSections : Op("sdp", s, n, TRUE, 0) \in OpRecords
    <2>1. {"sdp", "malformed"} \subseteq OpKinds /\ 0 \in 0..MaxSections /\ {0, 1} \subseteq 0..2
          /\ \A n \in 1..MaxSections : n \in 0..MaxSections
      BY DEF OpKinds
    <2>2. TRUE \in BOOLEAN /\ FALSE \in BOOLEAN
      OBVIOUS
    <2> QED
      BY <2>1, <2>2, OpType
  <1> QED
    BY <1>1, NewOpEffect DEF NewOp, Op

LEMMA MediaOp ==
    ASSUME ops \in Seq(OpRecords), Len(ops) <= MaxOps,
           NEW k \in {"play", "stop", "record", "copy"}, NewOp(k, "caller", 0, FALSE, 0)
    PROVE  Added(Op(k, "caller", 0, FALSE, 0))
  <1>1. Op(k, "caller", 0, FALSE, 0) \in OpRecords
    <2>0. k \in OpKinds
      BY Zenon DEF OpKinds
    <2>1. "caller" \in Sides /\ 0 \in 0..MaxSections /\ 0 \in 0..2
      BY DEF Sides
    <2>2. FALSE \in BOOLEAN
      OBVIOUS
    <2> QED
      BY <2>0, <2>1, <2>2, OpType
  <1> QED
    BY <1>1, NewOpEffect DEF NewOp, Op

\* A callback changes its own operation only, and neither its kind nor its side.
Changed(op) ==
    /\ ops' \in Seq(OpRecords) /\ Len(ops') = Len(ops) /\ DOMAIN ops' = DOMAIN ops
    /\ \A o \in DOMAIN ops : o # op => ops'[o] = ops[o]
    /\ ops'[op].k = ops[op].k

\* _sdp_change_finish: the callback runs when the body still needs its update.
LEMMA FinishEffect ==
    ASSUME ops \in Seq(OpRecords), NEW op \in DOMAIN ops, ops[op].calls <= 1, NEW res \in Results,
           sdp_change_finish(op, res)
    PROVE  /\ Changed(op)
           /\ \/ /\ ops'[op].calls = ops[op].calls
                 /\ ops'[op].needs => ops[op].needs
                 /\ UNCHANGED <<elast, emitted, over>>
              \/ /\ ops[op].needs /\ ~ops'[op].needs
                 /\ ops'[op].calls = ops[op].calls + 1
                 /\ DelayedSdpUpdate(op, Failed(res))
  <1>0. /\ op \in 1..Len(ops) /\ ops[op] \in OpRecords
        /\ ops \in [1..Len(ops) -> OpRecords] /\ DOMAIN ops = 1..Len(ops)
    BY LenProperties
  <1>1. CASE ~ops[op].needs /\ UNCHANGED <<ops, elast, emitted, over>>
    BY <1>1 DEF Changed
  <1>2. CASE /\ ops[op].left > 1 /\ ops' = [ops EXCEPT ![op].left = @ - 1]
             /\ UNCHANGED <<elast, emitted, over>>
    <2>1. ops' = [ops EXCEPT ![op] = [ops[op] EXCEPT !.left = @ - 1]]
      BY <1>2
    <2>2. [ops[op] EXCEPT !.left = @ - 1] \in OpRecords
      BY <1>0, <1>2 DEF OpRecords
    <2> QED
      BY <1>0, <1>2, <2>1, <2>2, ExceptSeq DEF Changed, OpRecords
  <1>3. CASE /\ ops[op].needs /\ (Failed(res) \/ ops[op].left = 1)
             /\ ops' = [ops EXCEPT ![op].needs = FALSE, ![op].calls = @ + 1,
                                   ![op].left = IF Failed(res) THEN @ ELSE @ - 1]
             /\ DelayedSdpUpdate(op, Failed(res))
    <2> DEFINE new == [ops[op] EXCEPT !.needs = FALSE, !.calls = @ + 1,
                                      !.left = IF Failed(res) THEN @ ELSE @ - 1]
    <2>1. ops' = [ops EXCEPT ![op] = new]
      BY <1>3
    <2>2. new \in OpRecords
      BY <1>0, <1>3 DEF OpRecords
    <2>3. new.k = ops[op].k /\ new.calls = ops[op].calls + 1 /\ ~new.needs
      BY <1>0 DEF OpRecords
    <2> HIDE DEF new
    <2>4. Changed(op) /\ ops'[op] = new
      BY <1>0, <2>1, <2>2, <2>3, ExceptSeq DEF Changed
    <2> QED
      BY <1>3, <2>3, <2>4
  <1> QED
    BY <1>1, <1>2, <1>3 DEF sdp_change_finish

\* The callback of a prompt or a recording.
LEMMA ResultEffect ==
    ASSUME ops \in Seq(OpRecords), NEW op \in DOMAIN ops, ops[op].calls <= 1,
           ops' = [ops EXCEPT ![op].calls = @ + 1]
    PROVE  /\ Changed(op)
           /\ ops'[op].calls = ops[op].calls + 1 /\ ops'[op].needs = ops[op].needs
  <1>0. /\ op \in 1..Len(ops) /\ ops[op] \in OpRecords
        /\ ops \in [1..Len(ops) -> OpRecords] /\ DOMAIN ops = 1..Len(ops)
    BY LenProperties
  <1> DEFINE new == [ops[op] EXCEPT !.calls = @ + 1]
  <1>1. ops' = [ops EXCEPT ![op] = new]
    OBVIOUS
  <1>2. new \in OpRecords
    BY <1>0 DEF OpRecords
  <1>3. new.k = ops[op].k /\ new.calls = ops[op].calls + 1 /\ new.needs = ops[op].needs
    BY <1>0 DEF OpRecords
  <1> HIDE DEF new
  <1> QED
    BY <1>0, <1>1, <1>2, <1>3, ExceptSeq DEF Changed

LEMMA InitTypeOK == Init => TypeOK
  <1> SUFFICES ASSUME Init PROVE TypeOK
    OBVIOUS
  <1>1. client \in BOOLEAN /\ blocked \in BOOLEAN /\ leaked \in BOOLEAN /\ over \in BOOLEAN
    BY DEF Init
  <1>2. exists \in [Sides -> BOOLEAN] /\ max_index \in {-1} \cup Indices
    BY DEF Init
  <1>3. /\ pipe \in Seq(Commands) /\ Len(pipe) <= QueueCap + 1
        /\ ops \in Seq(OpRecords) /\ Len(ops) <= MaxOps
    BY DEF Init
  <1>4. /\ ready \in SUBSET [cmd : Commands, res : Results] /\ proxy \in SUBSET Indices
        /\ elast \in 0..MaxOps /\ emitted \in {"none", "progress", "end"}
    BY DEF Init
  <1> QED
    BY <1>1, <1>2, <1>3, <1>4 DEF TypeOK

\* The end of the pipe and of the operations, as TypeOK has it.
Sizes ==
    /\ pipe \in Seq(Commands) /\ Len(pipe) <= Room /\ blocked \in BOOLEAN
    /\ ops \in Seq(OpRecords) /\ Len(ops) <= MaxOps
    /\ max_index \in {-1} \cup Indices

LEMMA SizesStep == TypeOK /\ Addressed /\ Waiting /\ [Next]_vars => Sizes'
  <1> SUFFICES ASSUME TypeOK, Addressed, Waiting, [Next]_vars PROVE Sizes'
    OBVIOUS
  <1>0. Sizes /\ Len(ops) \in Nat
    BY LenProperties DEF TypeOK, Sizes, Room
  <1> USE DEF Sizes
  <1>1. ASSUME NEW s \in Sides, SdpWithoutMedia(s) \/ SdpMalformed(s) PROVE Sizes'
    <2>1. NewOp("sdp", s, 0, FALSE, 1) \/ NewOp("malformed", s, 0, TRUE, 0)
      BY <1>1 DEF SdpWithoutMedia, SdpMalformed
    <2>2. UNCHANGED <<pipe, blocked, max_index>>
      BY <1>1 DEF SdpWithoutMedia, SdpMalformed
    <2>3. ops' \in Seq(OpRecords) /\ Len(ops') <= MaxOps
      BY <1>0, <2>1, SdpOp DEF Added
    <2> QED
      BY <1>0, <2>2, <2>3
  <1>2. ASSUME NEW op \in 1..MaxOps, NEW s \in Sides, NEW n \in 1..MaxSections, update(op, s, n)
        PROVE  /\ pipe' \in Seq(Commands) /\ Len(pipe') <= Room /\ blocked' \in BOOLEAN
               /\ max_index' \in {-1} \cup Indices
    <2>1. send_command(Updates(op, s, n))
      BY <1>2 DEF update, Updates
    <2>2. max_index' \in {-1} \cup Indices
      BY <1>0, <1>2 DEF update, Indices
    <2> QED
      BY <1>0, <2>1, <2>2, UpdatesType, SendEffect
  <1>3. ASSUME NEW s \in Sides, NEW n \in 1..MaxSections, on_sdp_change(s, n) PROVE Sizes'
    <2>1. ops' \in Seq(OpRecords) /\ Len(ops') <= MaxOps /\ Len(ops) + 1 \in 1..MaxOps
      BY <1>0, <1>3, SdpOp DEF on_sdp_change, Added
    <2> QED
      BY <2>1, <1>2, <1>3 DEF on_sdp_change
  <1>4. ASSUME NEW c \in Commands, send_command(<<c>>)
        PROVE  pipe' \in Seq(Commands) /\ Len(pipe') <= Room /\ blocked' \in BOOLEAN
    BY <1>0, <1>4, SingleType, SendEffect
  <1>5. ASSUME NEW k \in {"play", "stop", "record", "copy"}, NewOp(k, "caller", 0, FALSE, 0)
        PROVE  /\ ops' \in Seq(OpRecords) /\ Len(ops') <= MaxOps
               /\ Len(ops) + 1 \in 1..MaxOps
    BY <1>0, <1>5, MediaOp DEF Added
  <1>6. ASSUME NEW op \in 1..MaxOps, NEW c \in {"P", "S", "R", "C", "C2"}, NEW s \in Sides
        PROVE  Command(c, op, 0, s) \in Commands
    BY DEF Command, Commands, Indices
  <1>7. CASE play
    <2>1. NewOp("play", "caller", 0, FALSE, 0)
      BY <1>7 DEF play
    <2>2. CASE exists["callee"]
      BY <1>0, <1>7, <2>1, <2>2, <1>4, <1>5, <1>6 DEF play, Sides
    <2>3. CASE ~exists["callee"]
      BY <1>0, <1>7, <2>1, <2>3, <1>2, <1>5 DEF play, Sides
    <2> QED
      BY <2>2, <2>3
  <1>8. CASE stop_play
    BY <1>0, <1>8, <1>4, <1>5, <1>6 DEF stop_play, Sides
  <1>9. ASSUME NEW k \in {"record", "copy"}, StartRecording(k) PROVE Sizes'
    <2>1. NewOp(k, "caller", 0, FALSE, 0)
      BY <1>9 DEF StartRecording
    <2>2. CASE exists["caller"]
      <3>1. (IF k = "record" THEN "R" ELSE "C") \in {"P", "S", "R", "C", "C2"}
        OBVIOUS
      <3> QED
        BY <1>0, <1>9, <2>1, <2>2, <3>1, <1>4, <1>5, <1>6 DEF StartRecording, Sides
    <2>3. CASE ~exists["caller"]
      <3>1. update(Len(ops) + 1, "caller", 1) /\ "caller" \in Sides /\ 1 \in 1..MaxSections
        BY <1>9, <2>3 DEF StartRecording, Sides
      <3> QED
        BY <2>1, <3>1, <1>2, <1>5
    <2> QED
      BY <2>2, <2>3
  <1>10. CASE Delete
    <2>1. send_command(Deletes)
      BY <1>10 DEF Delete, Deletes
    <2>3. max_index' = -1 /\ UNCHANGED ops
      BY <1>10 DEF Delete
    <2> QED
      BY <1>0, <2>1, <2>3, DeletesType, SendEffect
  <1>11. ASSUME NEW res \in Results, cmd_done(res) PROVE Sizes'
    <2>1. pipe' = Tail(pipe) /\ pipe # <<>> /\ UNCHANGED <<blocked, ops, max_index>>
      BY <1>11 DEF cmd_done
    <2> QED
      BY <1>0, <2>1, HeadTailProperties, LenProperties, EmptySeq DEF Room
  <1>12. ASSUME NEW r \in ready
         PROVE  /\ r.cmd \in Commands /\ r.cmd.op \in DOMAIN ops /\ r.cmd.op \in 1..MaxOps
                /\ r.res \in Results /\ ops[r.cmd.op].calls <= 1
    BY <1>0, LenProperties DEF TypeOK, Addressed, Waiting
  <1>13. ASSUME NEW r \in ready, update_result(r) PROVE Sizes'
    BY <1>0, <1>12, <1>13, FinishEffect DEF update_result, Changed
  <1>14. ASSUME NEW r \in ready, update_result_Panics(r) PROVE Sizes'
    BY <1>0, <1>14 DEF update_result_Panics
  <1>15. ASSUME NEW r \in ready, update_result_Continues(r) PROVE Sizes'
    <2>1. Pending(r.cmd.op) \in Commands
      BY <1>6, <1>12 DEF Pending, Sides
    <2> QED
      BY <1>0, <1>15, <2>1, <1>4 DEF update_result_Continues
  <1>16. ASSUME NEW r \in ready, start_recording1(r) PROVE Sizes'
    BY <1>0, <1>16, <1>4, <1>6, <1>12 DEF start_recording1, Sides
  <1>17. ASSUME NEW r \in ready, command_result(r) PROVE Sizes'
    BY <1>0, <1>12, <1>17, ResultEffect DEF command_result, Changed
  <1>18. CASE UNCHANGED vars \/ \E what \in {"progress", "end"} : PlainEvent(what)
    BY <1>0, <1>18 DEF vars, PlainEvent
  <1> QED
    BY <1>1, <1>3, <1>7, <1>8, <1>9, <1>10, <1>11, <1>13, <1>14, <1>15, <1>16, <1>17, <1>18
       DEF Next


LEMMA TypeStep == TypeOK /\ Addressed /\ Waiting /\ [Next]_vars => TypeOK'
  <1> SUFFICES ASSUME TypeOK, Addressed, Waiting, [Next]_vars PROVE TypeOK'
    OBVIOUS
  <1>0. Len(ops) \in 0..MaxOps /\ DOMAIN ops = 1..Len(ops)
    BY LenProperties DEF TypeOK
  <1>1. client' \in BOOLEAN /\ leaked' \in BOOLEAN
    BY DEF TypeOK, Next, vars, SdpWithoutMedia, SdpMalformed, on_sdp_change, PlainEvent, cmd_done,
       update_result, update_result_Panics, update_result_Continues, start_recording1,
       command_result, play, stop_play, StartRecording, Delete
  <1>2. exists' \in [Sides -> BOOLEAN]
    <2>1. ASSUME NEW r \in ready, exists' = [exists EXCEPT ![r.cmd.side] = TRUE]
          PROVE  exists' \in [Sides -> BOOLEAN]
      BY <2>1 DEF TypeOK
    <2>2. CASE UNCHANGED exists
      BY <2>2 DEF TypeOK
    <2> QED
      BY <2>1, <2>2 DEF Next, vars, SdpWithoutMedia, SdpMalformed, on_sdp_change, PlainEvent,
         cmd_done, update_result, update_result_Panics, update_result_Continues,
         start_recording1, command_result, play, stop_play, StartRecording, Delete
  <1>3. ready' \in SUBSET [cmd : Commands, res : Results] /\ proxy' \in SUBSET Indices
    <2>1. ASSUME NEW res \in Results, cmd_done(res)
          PROVE  ready' \in SUBSET [cmd : Commands, res : Results] /\ proxy' \in SUBSET Indices
      <3>1. Head(pipe) \in Commands
        BY <2>1, HeadTailProperties DEF cmd_done, TypeOK
      <3>2. Head(pipe).idx \in Indices /\ [cmd |-> Head(pipe), res |-> res] \in
                                             [cmd : Commands, res : Results]
        BY <3>1 DEF Commands
      <3> QED
        BY <2>1, <3>1, <3>2 DEF cmd_done, TypeOK, Executed
    <2>2. CASE UNCHANGED <<ready, proxy>>
      BY <2>2 DEF TypeOK
    <2>3. ASSUME NEW r \in ready, ready' = ready \ {r}, UNCHANGED proxy
          PROVE  ready' \in SUBSET [cmd : Commands, res : Results] /\ proxy' \in SUBSET Indices
      BY <2>3 DEF TypeOK
    <2> QED
      BY <2>1, <2>2, <2>3 DEF Next, vars, SdpWithoutMedia, SdpMalformed, on_sdp_change,
         PlainEvent, update_result, update_result_Panics, update_result_Continues,
         start_recording1, command_result, play, stop_play, StartRecording, Delete, Callback
  <1>4. /\ elast' \in 0..MaxOps /\ emitted' \in {"none", "progress", "end"}
        /\ over' \in BOOLEAN
    <2>1. ASSUME NEW r \in ready, update_result(r)
          PROVE  /\ elast' \in 0..MaxOps /\ emitted' \in {"none", "progress", "end"}
                 /\ over' \in BOOLEAN
      <3>1. r.cmd.op \in DOMAIN ops
        BY DEF Addressed
      <3>2. CASE UNCHANGED <<elast, emitted, over>>
        BY <3>2 DEF TypeOK
      <3>3. CASE DelayedSdpUpdate(r.cmd.op, Failed(r.res))
        <4>1. over' \in BOOLEAN
          BY <3>3 DEF DelayedSdpUpdate, TypeOK
        <4>2. /\ elast' \in {elast, r.cmd.op, Len(ops)}
              /\ emitted' \in {emitted, "progress", "end"}
          BY <3>3 DEF DelayedSdpUpdate, EmitNew, EmitOp
        <4> QED
          BY <1>0, <3>1, <4>1, <4>2 DEF TypeOK
      <3> QED
        BY <2>1, <3>2, <3>3 DEF update_result, sdp_change_finish
    <2>2. ASSUME NEW s \in Sides, SdpWithoutMedia(s)
          PROVE  /\ elast' \in 0..MaxOps /\ emitted' \in {"none", "progress", "end"}
                 /\ over' \in BOOLEAN
      BY <2>2, <1>0 DEF SdpWithoutMedia, NewOp, TypeOK
    <2>3. ASSUME NEW what \in {"progress", "end"}, PlainEvent(what)
          PROVE  /\ elast' \in 0..MaxOps /\ emitted' \in {"none", "progress", "end"}
                 /\ over' \in BOOLEAN
      BY <2>3, <1>0 DEF PlainEvent, EmitNew
    <2>4. CASE Delete
      BY <2>4 DEF Delete, TypeOK
    <2>5. CASE UNCHANGED <<elast, emitted, over>>
      BY <2>5 DEF TypeOK
    <2> QED
      BY <2>1, <2>2, <2>3, <2>4, <2>5 DEF Next, vars, SdpMalformed, on_sdp_change, cmd_done,
         update_result_Panics, update_result_Continues, start_recording1, command_result, play,
         stop_play, StartRecording
  <1> QED
    BY <1>1, <1>2, <1>3, <1>4, SizesStep DEF TypeOK, Sizes, Room

-----------------------------------------------------------------------------
(* What the actions do to the channel                                       *)

\* Commands of the operation op are put at the end of the channel.
Grows(op) ==
    /\ DOMAIN pipe = 1..Len(pipe) /\ DOMAIN pipe' = 1..Len(pipe')
    /\ Len(pipe) \in Nat /\ Len(pipe') \in Nat /\ Len(pipe) <= Len(pipe')
    /\ \A j \in 1..Len(pipe) : pipe'[j] = pipe[j]
    /\ \A j \in 1..Len(pipe') : j > Len(pipe) =>
          /\ client /\ pipe'[j].op = op /\ pipe'[j].c # "D"
          /\ pipe'[j].c = "U" => pipe'[j].idx <= max_index'
    /\ max_index <= max_index' /\ max_index' \in Int

LEMMA UpdateGrows ==
    ASSUME TypeOK, NEW op \in 1..MaxOps, NEW s \in Sides, NEW n \in 1..MaxSections,
           update(op, s, n)
    PROVE  /\ Grows(op) /\ Len(pipe') <= Len(pipe) + n
           /\ \A j \in 1..Len(pipe') : j > Len(pipe) => pipe'[j].c = "U"
  <1>1. send_command(Updates(op, s, n))
    BY DEF update, Updates
  <1>2. /\ max_index' \in Int /\ n - 1 <= max_index' /\ max_index <= max_index'
    BY DEF update, TypeOK, Indices
  <1>3. /\ pipe \in Seq(Commands) /\ Len(pipe) <= Room /\ blocked \in BOOLEAN
    BY DEF TypeOK, Room
  <1> DEFINE cmds == Updates(op, s, n)
  <1>4. /\ cmds \in Seq(Commands) /\ Len(cmds) = n
        /\ \A i \in 1..n : cmds[i].c = "U" /\ cmds[i].op = op /\ cmds[i].idx = i - 1
    <2>1. /\ cmds \in Seq(Commands) /\ Len(cmds) = n
          /\ \A i \in 1..n : cmds[i] = Command("U", op, i - 1, s)
      BY UpdatesType
    <2> HIDE DEF cmds
    <2> QED
      BY <2>1 DEF Command
  <1> HIDE DEF cmds
  <1>5. /\ pipe' \in Seq(Commands) /\ Len(pipe) <= Len(pipe')
        /\ \A j \in 1..Len(pipe) : pipe'[j] = pipe[j]
        /\ \A j \in 1..Len(pipe') : j > Len(pipe) =>
               /\ client /\ j - Len(pipe) \in 1..Len(cmds)
               /\ pipe'[j] = cmds[j - Len(pipe)]
    BY <1>1, <1>3, <1>4, SendEffect DEF cmds
  <1>6. /\ DOMAIN pipe = 1..Len(pipe) /\ DOMAIN pipe' = 1..Len(pipe')
        /\ Len(pipe) \in Nat /\ Len(pipe') \in Nat
    BY <1>3, <1>5, LenProperties
  <1>7. ASSUME NEW j \in 1..Len(pipe'), j > Len(pipe)
        PROVE  /\ client /\ pipe'[j].op = op /\ pipe'[j].c = "U"
               /\ pipe'[j].idx <= max_index'
    <2>1. client /\ j - Len(pipe) \in 1..n /\ pipe'[j] = cmds[j - Len(pipe)]
      BY <1>4, <1>5, <1>7
    <2>2. pipe'[j].c = "U" /\ pipe'[j].op = op /\ pipe'[j].idx = (j - Len(pipe)) - 1
      BY <1>4, <2>1
    <2>3. j - Len(pipe) \in Int /\ j - Len(pipe) <= n
      BY <2>1
    <2> QED
      BY <1>2, <2>1, <2>2, <2>3
  <1>8. Len(pipe') <= Len(pipe) + n
    <2>1. CASE Len(pipe') <= Len(pipe)
      BY <1>6, <2>1
    <2>2. CASE Len(pipe') > Len(pipe)
      <3>1. Len(pipe') \in 1..Len(pipe')
        BY <1>6, <2>2
      <3>2. Len(pipe') - Len(pipe) \in 1..n
        BY <1>4, <1>5, <2>2, <3>1
      <3> QED
        BY <1>6, <3>2
    <2> QED
      BY <1>6, <2>1, <2>2
  <1> QED
    BY <1>2, <1>5, <1>6, <1>7, <1>8 DEF Grows

LEMMA SingleGrows ==
    ASSUME TypeOK, NEW op \in 1..MaxOps, NEW c \in {"P", "S", "R", "C", "C2"}, NEW s \in Sides,
           send_command(<<Command(c, op, 0, s)>>), UNCHANGED max_index
    PROVE  Grows(op) /\ Len(pipe') <= Len(pipe) + 1
  <1> DEFINE cmd == Command(c, op, 0, s)
  <1>1. cmd \in Commands /\ cmd.c = c /\ cmd.op = op /\ c # "D" /\ c # "U"
    BY DEF Command, Commands, Indices
  <1>2. /\ pipe \in Seq(Commands) /\ Len(pipe) <= Room /\ blocked \in BOOLEAN
        /\ max_index \in Int
    BY DEF TypeOK, Room, Indices
  <1> HIDE DEF cmd
  <1>3. <<cmd>> \in Seq(Commands) /\ Len(<<cmd>>) = 1 /\ <<cmd>>[1] = cmd
    BY <1>1, SingleType
  <1>4. /\ pipe' \in Seq(Commands) /\ Len(pipe) <= Len(pipe')
        /\ \A j \in 1..Len(pipe) : pipe'[j] = pipe[j]
        /\ \A j \in 1..Len(pipe') : j > Len(pipe) =>
               /\ client /\ j - Len(pipe) \in 1..1
               /\ pipe'[j] = <<cmd>>[j - Len(pipe)]
    BY <1>2, <1>3, SendEffect DEF cmd
  <1>5. /\ DOMAIN pipe = 1..Len(pipe) /\ DOMAIN pipe' = 1..Len(pipe')
        /\ Len(pipe) \in Nat /\ Len(pipe') \in Nat
    BY <1>2, <1>4, LenProperties
  <1>6. \A j \in 1..Len(pipe') : j > Len(pipe) => client /\ pipe'[j] = cmd
    BY <1>3, <1>4, <1>5
  <1>7. Len(pipe') <= Len(pipe) + 1
    BY <1>4, <1>5
  <1> QED
    BY <1>1, <1>2, <1>4, <1>5, <1>6, <1>7 DEF Grows

\* An operation o is added, with its commands.
Begins(o) ==
    /\ Added(o) /\ Grows(Len(ops) + 1) /\ UNCHANGED <<ready, client>>
    /\ IF o.k = "sdp"
       THEN \A j \in 1..Len(pipe') : j > Len(pipe) => pipe'[j].c = "U"
       ELSE o.calls = 0 /\ Len(pipe') <= Len(pipe) + 1
    /\ o.calls <= 1 /\ (o.needs => o.calls = 0)
    /\ UNCHANGED <<over, proxy>> /\ (o.k = "sdp" => ~over)
    /\ IF o.calls > 0 THEN elast' \in {elast, Len(ops) + 1} /\ emitted' \in {emitted, "progress"}
                      ELSE UNCHANGED <<elast, emitted>>

Starting ==
    \/ \E s \in Sides : SdpWithoutMedia(s) \/ SdpMalformed(s)
    \/ \E s \in Sides, n \in 1..MaxSections : on_sdp_change(s, n)
    \/ play \/ stop_play
    \/ \E k \in {"record", "copy"} : StartRecording(k)

LEMMA StartingBegins == TypeOK /\ Starting => \E o \in OpRecords : Begins(o)
  <1> SUFFICES ASSUME TypeOK, Starting PROVE \E o \in OpRecords : Begins(o)
    OBVIOUS
  <1>0. /\ ops \in Seq(OpRecords) /\ Len(ops) <= MaxOps
        /\ pipe \in Seq(Commands) /\ DOMAIN pipe = 1..Len(pipe) /\ Len(pipe) \in Nat
        /\ max_index \in Int /\ TRUE \in BOOLEAN /\ FALSE \in BOOLEAN
        /\ {0, 1} \subseteq 0..2 /\ 0 \in 0..MaxSections /\ "caller" \in Sides
        /\ "callee" \in Sides /\ 1 \in 1..MaxSections
        /\ {"sdp", "malformed", "play", "stop", "record", "copy"} \subseteq OpKinds
    BY LenProperties DEF TypeOK, Indices, Sides, OpKinds
  <1>1. ASSUME UNCHANGED <<pipe, max_index>>
        PROVE  \A op : Grows(op) /\ Len(pipe') <= Len(pipe) + 1
                      /\ \A j \in 1..Len(pipe') : ~(j > Len(pipe))
    <2>1. pipe' = pipe /\ max_index' = max_index
      BY <1>1
    <2>2. /\ DOMAIN pipe' = 1..Len(pipe') /\ Len(pipe') = Len(pipe)
          /\ max_index <= max_index'
      BY <1>0, <2>1
    <2>3. \A j \in 1..Len(pipe') : ~(j > Len(pipe))
      BY <1>0, <2>2
    <2> QED
      BY <1>0, <2>1, <2>2, <2>3 DEF Grows
  <1>2. ASSUME NEW s \in Sides, SdpWithoutMedia(s) PROVE \E o \in OpRecords : Begins(o)
    <2> DEFINE o == Op("sdp", s, 0, FALSE, 1)
    <2>1. o \in OpRecords
      BY <1>0, OpType
    <2>2. Added(o)
      BY <1>0, <1>2, SdpOp DEF SdpWithoutMedia
    <2>3. UNCHANGED <<pipe, max_index, ready, client, over, proxy>> /\ ~over
      BY <1>2 DEF SdpWithoutMedia
    <2>4. o.k = "sdp" /\ ~o.needs /\ o.calls <= 1 /\ o.calls > 0
      BY DEF Op
    <2>5. elast' \in {elast, Len(ops) + 1} /\ emitted' \in {emitted, "progress"}
      BY <1>2 DEF SdpWithoutMedia
    <2> HIDE DEF o
    <2> QED
      BY <1>0, <2>1, <2>2, <2>3, <2>4, <2>5, <1>1 DEF Begins
  <1>3. ASSUME NEW s \in Sides, SdpMalformed(s) PROVE \E o \in OpRecords : Begins(o)
    <2> DEFINE o == Op("malformed", s, 0, TRUE, 0)
    <2>1. o \in OpRecords
      BY <1>0, OpType
    <2>2. Added(o)
      BY <1>0, <1>3, SdpOp DEF SdpMalformed
    <2>3. UNCHANGED <<pipe, max_index, ready, client, over, proxy, elast, emitted>>
      BY <1>3 DEF SdpMalformed
    <2>4. o.k # "sdp" /\ o.calls = 0 /\ o.calls <= 1 /\ ~(o.calls > 0)
      BY DEF Op
    <2> HIDE DEF o
    <2> QED
      BY <1>0, <2>1, <2>2, <2>3, <2>4, <1>1 DEF Begins
  <1>4. ASSUME NEW s \in Sides, NEW n \in 1..MaxSections, on_sdp_change(s, n)
        PROVE  \E o \in OpRecords : Begins(o)
    <2> DEFINE o == Op("sdp", s, n, TRUE, 0)
    <2>1. o \in OpRecords
      <3>1. n \in 0..MaxSections
        OBVIOUS
      <3> QED
        BY <1>0, <3>1, OpType
    <2>2. Added(o)
      BY <1>0, <1>4, SdpOp DEF on_sdp_change
    <2>3. /\ UNCHANGED <<ready, client, over, proxy, elast, emitted>> /\ ~over
          /\ update(Len(ops) + 1, s, n)
      BY <1>4 DEF on_sdp_change
    <2>4. o.k = "sdp" /\ o.calls = 0 /\ o.calls <= 1 /\ ~(o.calls > 0)
      BY DEF Op
    <2>5. Len(ops) + 1 \in 1..MaxOps
      BY <2>2 DEF Added
    <2> HIDE DEF o
    <2> QED
      BY <1>0, <2>1, <2>2, <2>3, <2>4, <2>5, UpdateGrows DEF Begins
  <1>5. ASSUME NEW k \in {"play", "stop", "record", "copy"}, NewOp(k, "caller", 0, FALSE, 0),
               UNCHANGED <<ready, client, over, proxy, elast, emitted>>,
               Len(ops) + 1 \in 1..MaxOps => Grows(Len(ops) + 1) /\ Len(pipe') <= Len(pipe) + 1
        PROVE  \E o \in OpRecords : Begins(o)
    <2> DEFINE o == Op(k, "caller", 0, FALSE, 0)
    <2>1. o \in OpRecords
      BY <1>0, OpType
    <2>2. Added(o)
      BY <1>0, <1>5, MediaOp
    <2>4. o.k # "sdp" /\ o.calls = 0 /\ o.calls <= 1 /\ ~(o.calls > 0)
      BY DEF Op
    <2>5. Len(ops) + 1 \in 1..MaxOps
      BY <2>2 DEF Added
    <2> HIDE DEF o
    <2> QED
      BY <1>0, <1>5, <2>1, <2>2, <2>4, <2>5 DEF Begins
  <1>6. CASE play
    <2>1. CASE exists["callee"]
      BY <1>0, <1>6, <2>1, <1>5, SingleGrows DEF play
    <2>2. CASE ~exists["callee"]
      BY <1>0, <1>6, <2>2, <1>5, UpdateGrows DEF play
    <2> QED
      BY <2>1, <2>2
  <1>7. CASE stop_play
    BY <1>0, <1>7, <1>5, SingleGrows DEF stop_play
  <1>8. ASSUME NEW k \in {"record", "copy"}, StartRecording(k)
        PROVE  \E o \in OpRecords : Begins(o)
    <2>1. CASE exists["caller"]
      <3>1. (IF k = "record" THEN "R" ELSE "C") \in {"P", "S", "R", "C", "C2"}
        OBVIOUS
      <3> QED
        BY <1>0, <1>8, <2>1, <3>1, <1>5, SingleGrows DEF StartRecording
    <2>2. CASE ~exists["caller"]
      <3>1. update(Len(ops) + 1, "caller", 1)
        BY <1>8, <2>2 DEF StartRecording
      <3>2. Len(ops) + 1 \in 1..MaxOps => Grows(Len(ops) + 1) /\ Len(pipe') <= Len(pipe) + 1
        BY <1>0, <3>1, UpdateGrows
      <3> QED
        BY <1>8, <3>2, <1>5 DEF StartRecording
    <2> QED
      BY <2>1, <2>2
  <1> QED
    BY <1>2, <1>3, <1>4, <1>6, <1>7, <1>8 DEF Starting

-----------------------------------------------------------------------------
(* Every step keeps Addressed and Waiting                                   *)

Orderly == Addressed /\ Waiting

\* The domains, and what no command is for.
LEMMA Domains ==
    ASSUME TypeOK, Addressed
    PROVE  /\ DOMAIN pipe = 1..Len(pipe) /\ Len(pipe) \in Nat
           /\ DOMAIN ops = 1..Len(ops) /\ Len(ops) \in Nat
           /\ \A i \in DOMAIN pipe : pipe[i].op # Len(ops) + 1
           /\ \A r \in ready : r.cmd.op # Len(ops) + 1 /\ r.cmd.op \in DOMAIN ops
           /\ \A i \in DOMAIN pipe : pipe[i] \in Commands
           /\ \A r \in ready : r.cmd \in Commands /\ r.res \in Results
  <1>1. /\ DOMAIN pipe = 1..Len(pipe) /\ Len(pipe) \in Nat
        /\ DOMAIN ops = 1..Len(ops) /\ Len(ops) \in Nat
        /\ \A i \in DOMAIN pipe : pipe[i] \in Commands
    BY LenProperties, ElementOfSeq DEF TypeOK
  <1>2. \A r \in ready : r.cmd \in Commands /\ r.res \in Results
    BY DEF TypeOK
  <1>3. Len(ops) + 1 # 0 /\ Len(ops) + 1 \notin DOMAIN ops
    BY <1>1
  <1> QED
    BY <1>1, <1>2, <1>3 DEF Addressed

LEMMA BeginsOrderly ==
    ASSUME TypeOK, Orderly, NEW o \in OpRecords, Begins(o)
    PROVE  Orderly'
  <1> DEFINE N == Len(ops) + 1
  <1>0. /\ DOMAIN pipe = 1..Len(pipe) /\ Len(pipe) \in Nat
        /\ DOMAIN ops = 1..Len(ops) /\ Len(ops) \in Nat
        /\ \A i \in DOMAIN pipe : pipe[i].op # N
        /\ \A r \in ready : r.cmd.op # N /\ r.cmd.op \in DOMAIN ops
    BY Domains DEF Orderly
  <1>1. /\ DOMAIN ops' = 1..N /\ ops'[N] = o /\ N \in Nat
        /\ \A p \in DOMAIN ops : ops'[p] = ops[p] /\ p \in DOMAIN ops' /\ p # N
        /\ \A p \in DOMAIN ops' : p \in DOMAIN ops \/ p = N
        /\ N \in DOMAIN ops'
    BY <1>0 DEF Begins, Added
  <1>2. /\ DOMAIN pipe' = 1..Len(pipe') /\ Len(pipe') \in Nat
        /\ \A j \in DOMAIN pipe : pipe'[j] = pipe[j]
        /\ \A j \in DOMAIN pipe' : j \in DOMAIN pipe \/
              (j > Len(pipe) /\ pipe'[j].op = N /\ pipe'[j].c # "D")
    BY <1>0 DEF Begins, Grows
  <1>3. ready' = ready /\ o.calls <= 1 /\ (o.needs => o.calls = 0)
    BY DEF Begins
  <1>4. o.k = "sdp" => \A j \in DOMAIN pipe' : pipe'[j].op = N => pipe'[j].c = "U"
    BY <1>0, <1>2 DEF Begins
  <1>5. o.k # "sdp" => o.calls = 0 /\ \A i, j \in DOMAIN pipe' : 
                          pipe'[i].op = N /\ pipe'[j].op = N => i = j
    BY <1>0, <1>2 DEF Begins
  <1> HIDE DEF N
  <1>6. Addressed'
    BY <1>0, <1>1, <1>2, <1>3, <1>4 DEF Orderly, Addressed
  <1>7. \A p \in DOMAIN ops' : ops'[p].calls <= 1 /\
          (ops'[p].k = "sdp" /\ ops'[p].needs => ops'[p].calls = 0)
    BY <1>1, <1>3 DEF Orderly, Waiting
  <1>8. ASSUME NEW p \in DOMAIN ops', ops'[p].k # "sdp" PROVE OneCommand(p)'
    <2>1. CASE p = N
      <3>1. ~InReady(p)'
        BY <1>0, <1>3, <2>1 DEF InReady
      <3> QED
        BY <1>1, <1>3, <1>5, <1>8, <2>1, <3>1 DEF OneCommand, InReady
    <2>2. CASE p \in DOMAIN ops
      <3>1. p # N /\ ops'[p] = ops[p] /\ OneCommand(p)
        BY <1>1, <1>8, <2>2 DEF Orderly, Waiting
      <3>2. \A j \in DOMAIN pipe' : pipe'[j].op = p => j \in DOMAIN pipe /\ pipe[j].op = p
        BY <1>2, <3>1
      <3> QED
        BY <1>3, <3>1, <3>2 DEF OneCommand, InPipe, InReady
    <2> QED
      BY <1>1, <2>1, <2>2
  <1> QED
    BY <1>6, <1>7, <1>8 DEF Orderly, Waiting

\* A callback that sends the next command of its operation.
LEMMA ContinuesOrderly ==
    ASSUME TypeOK, Orderly, NEW r \in ready, ready' = ready \ {r}, UNCHANGED ops,
           ops[r.cmd.op].k # "sdp", Grows(r.cmd.op), Len(pipe') <= Len(pipe) + 1
    PROVE  Orderly'
  <1> DEFINE N == r.cmd.op
  <1>0. /\ DOMAIN pipe = 1..Len(pipe) /\ Len(pipe) \in Nat
        /\ N \in DOMAIN ops /\ ops[N].k # "sdp"
    BY Domains DEF Orderly
  <1>1. OneCommand(N)
    BY <1>0 DEF Orderly, Waiting
  <1>2. /\ ~InPipe(N) /\ ~(ops[N].calls > 0)
        /\ \A q \in ready' : q \in ready /\ q.cmd.op # N
    BY <1>1 DEF OneCommand, InReady
  <1>3. /\ DOMAIN pipe' = 1..Len(pipe') /\ Len(pipe') \in Nat
        /\ \A j \in DOMAIN pipe : pipe'[j] = pipe[j]
        /\ \A j \in DOMAIN pipe' : j \in DOMAIN pipe \/
              (j > Len(pipe) /\ pipe'[j].op = N /\ pipe'[j].c # "D")
    BY <1>0 DEF Grows
  <1>4. \A i, j \in DOMAIN pipe' : pipe'[i].op = N /\ pipe'[j].op = N => i = j
    <2>1. \A i \in DOMAIN pipe' : pipe'[i].op = N => i = Len(pipe) + 1
      BY <1>0, <1>2, <1>3 DEF InPipe
    <2> QED
      BY <2>1
  <1> HIDE DEF N
  <1>5. Addressed'
    BY <1>0, <1>2, <1>3 DEF Orderly, Addressed
  <1>6. ASSUME NEW p \in DOMAIN ops, ops[p].k # "sdp" PROVE OneCommand(p)'
    <2>1. CASE p = N
      BY <1>2, <1>4, <2>1 DEF OneCommand, InReady
    <2>2. CASE p # N
      <3>1. OneCommand(p)
        BY <1>6 DEF Orderly, Waiting
      <3>2. \A j \in DOMAIN pipe' : pipe'[j].op = p => j \in DOMAIN pipe /\ pipe[j].op = p
        BY <1>3, <2>2
      <3> QED
        BY <1>2, <3>1, <3>2 DEF OneCommand, InPipe, InReady
    <2> QED
      BY <2>1, <2>2
  <1> QED
    BY <1>5, <1>6 DEF Orderly, Waiting

\* A callback after which the operation has no other command, or is an update.
LEMMA FinishesOrderly ==
    ASSUME TypeOK, Orderly, NEW r \in ready, ready' = ready \ {r}, UNCHANGED pipe,
           Changed(r.cmd.op),
           IF ops[r.cmd.op].k = "sdp"
           THEN \/ /\ ops'[r.cmd.op].calls = ops[r.cmd.op].calls
                   /\ ops'[r.cmd.op].needs => ops[r.cmd.op].needs
                \/ /\ ops[r.cmd.op].needs /\ ~ops'[r.cmd.op].needs
                   /\ ops'[r.cmd.op].calls = ops[r.cmd.op].calls + 1
           ELSE ops'[r.cmd.op].calls = ops[r.cmd.op].calls + 1
    PROVE  Orderly'
  <1> DEFINE N == r.cmd.op
  <1>0. /\ N \in DOMAIN ops
        /\ DOMAIN ops' = DOMAIN ops /\ ops'[N].k = ops[N].k
        /\ \A p \in DOMAIN ops : p # N => ops'[p] = ops[p]
        /\ \A p \in DOMAIN ops : ops'[p].k = ops[p].k
    BY Domains DEF Orderly, Changed
  <1>1. ops[N] \in OpRecords /\ ops[N].calls \in Nat /\ ops[N].calls <= 1
    <2>1. ops[N] \in OpRecords
      BY <1>0, ElementOfSeq, LenProperties DEF TypeOK
    <2> QED
      BY <1>0, <2>1 DEF OpRecords, Orderly, Waiting
  <1>2. \A q \in ready' : q \in ready
    OBVIOUS
  <1>3. ops[N].k # "sdp" => /\ OneCommand(N) /\ ~InPipe(N) /\ ~(ops[N].calls > 0)
                            /\ \A q \in ready' : q.cmd.op # N
    BY <1>0, <1>2 DEF Orderly, Waiting, OneCommand, InReady
  <1>4. /\ ops'[N].calls <= 1
        /\ ops'[N].k = "sdp" /\ ops'[N].needs => ops'[N].calls = 0
    <2>1. CASE ops[N].k = "sdp"
      <3>1. ops[N].needs => ops[N].calls = 0
        BY <1>0, <2>1 DEF Orderly, Waiting
      <3> QED
        BY <1>0, <1>1, <2>1, <3>1
    <2>2. CASE ops[N].k # "sdp"
      BY <1>0, <1>1, <1>3, <2>2
    <2> QED
      BY <2>1, <2>2
  <1> HIDE DEF N
  <1>5. Addressed'
    BY <1>0, <1>2 DEF Orderly, Addressed
  <1>6. \A p \in DOMAIN ops' : ops'[p].calls <= 1 /\
          (ops'[p].k = "sdp" /\ ops'[p].needs => ops'[p].calls = 0)
    BY <1>0, <1>4 DEF Orderly, Waiting
  <1>7. ASSUME NEW p \in DOMAIN ops, ops[p].k # "sdp" PROVE OneCommand(p)'
    <2>1. OneCommand(p)
      BY <1>7 DEF Orderly, Waiting
    <2>2. CASE p = N
      <3>1. ~InPipe(p)' /\ ~InReady(p)' 
        BY <1>3, <1>7, <2>2 DEF InPipe, InReady
      <3> QED
        BY <2>1, <1>2, <3>1 DEF OneCommand
    <2>3. CASE p # N
      <3>1. ops'[p] = ops[p]
        BY <1>0, <2>3
      <3> QED
        BY <1>2, <2>1, <3>1 DEF OneCommand, InPipe, InReady
    <2> QED
      BY <2>2, <2>3
  <1> QED
    BY <1>0, <1>5, <1>6, <1>7 DEF Orderly, Waiting

\* An answer arrives: the head of the channel waits for the lock now.
LEMMA DoneEffect ==
    ASSUME TypeOK, NEW res \in Results, cmd_done(res)
    PROVE  /\ DOMAIN pipe = 1..Len(pipe) /\ Len(pipe) \in Nat /\ Len(pipe) > 0
           /\ DOMAIN pipe' = 1..(Len(pipe) - 1)
           /\ \A i \in DOMAIN pipe' : pipe'[i] = pipe[i + 1] /\ i + 1 \in DOMAIN pipe /\ i + 1 # 1
           /\ Head(pipe) = pipe[1] /\ 1 \in DOMAIN pipe
           /\ \A i \in DOMAIN pipe : i = 1 \/ (i - 1 \in DOMAIN pipe' /\ pipe'[i - 1] = pipe[i])
           /\ ready' = IF pipe[1].c = "D" THEN ready
                       ELSE ready \cup {[cmd |-> pipe[1], res |-> res]}
           /\ UNCHANGED ops
  <1>1. /\ pipe \in Seq(Commands) /\ pipe # <<>> /\ pipe' = Tail(pipe) /\ UNCHANGED ops
        /\ ready' = IF Head(pipe).c = "D" THEN ready
                    ELSE ready \cup {[cmd |-> Head(pipe), res |-> res]}
    BY DEF cmd_done, TypeOK
  <1>2. /\ DOMAIN pipe = 1..Len(pipe) /\ Len(pipe) \in Nat /\ Len(pipe) # 0
    BY <1>1, LenProperties, EmptySeq
  <1>3. /\ Head(pipe) = pipe[1] /\ Tail(pipe) \in Seq(Commands) /\ Len(Tail(pipe)) = Len(pipe) - 1
        /\ \A i \in 1..Len(Tail(pipe)) : Tail(pipe)[i] = pipe[i + 1]
    BY <1>1, HeadTailProperties
  <1>4. DOMAIN pipe' = 1..(Len(pipe) - 1)
    BY <1>1, <1>3, LenProperties
  <1>5. \A i \in 1..(Len(pipe) - 1) : pipe'[i] = pipe[i + 1]
    BY <1>1, <1>2, <1>3
  <1>6. \A i \in DOMAIN pipe : i = 1 \/ (i - 1 \in DOMAIN pipe' /\ pipe'[i - 1] = pipe[i])
    <2> SUFFICES ASSUME NEW i \in DOMAIN pipe, i # 1
                 PROVE  i - 1 \in DOMAIN pipe' /\ pipe'[i - 1] = pipe[i]
      OBVIOUS
    <2>1. i - 1 \in 1..(Len(pipe) - 1) /\ (i - 1) + 1 = i
      BY <1>2
    <2> QED
      BY <1>4, <1>5, <2>1
  <1> QED
    BY <1>1, <1>2, <1>3, <1>4, <1>5, <1>6

LEMMA DoneOrderly ==
    ASSUME TypeOK, Orderly, NEW res \in Results, cmd_done(res)
    PROVE  Orderly'
  <1> DEFINE h == pipe[1]
             new == [cmd |-> h, res |-> res]
  <1>0. new.cmd = h
    OBVIOUS
  <1>1. /\ 1 \in DOMAIN pipe /\ UNCHANGED ops
        /\ \A i \in DOMAIN pipe' : pipe'[i] = pipe[i + 1] /\ i + 1 \in DOMAIN pipe /\ i + 1 # 1
        /\ \A i \in DOMAIN pipe' : i \in Int
        /\ \A q \in ready' : q \in ready \/ (q = new /\ h.c # "D")
    BY DoneEffect
  <1> HIDE DEF h, new
  <1>2. Addressed'
    BY <1>0, <1>1 DEF Orderly, Addressed, h
  <1>3. ASSUME NEW p \in DOMAIN ops, ops[p].k # "sdp" PROVE OneCommand(p)'
    <2>1. OneCommand(p)
      BY <1>3 DEF Orderly, Waiting
    <2>2. \A i, j \in DOMAIN pipe' : pipe'[i].op = p /\ pipe'[j].op = p => i = j
      <3>1. \A i, j \in DOMAIN pipe' : pipe'[i].op = p /\ pipe'[j].op = p => i + 1 = j + 1
        BY <1>1, <2>1 DEF OneCommand
      <3> QED
        BY <1>1, <3>1
    <2>3. InPipe(p)' => InPipe(p)
      BY <1>1 DEF InPipe
    <2>4. CASE h.op = p
      <3>1. InPipe(p) /\ ~InPipe(p)' /\ ~InReady(p) /\ ~(ops[p].calls > 0)
        BY <1>1, <2>1, <2>4 DEF OneCommand, InPipe, h
      <3>2. \A q \in ready' : q.cmd.op = p => q = new
        BY <1>1, <3>1 DEF InReady
      <3> QED
        BY <1>1, <2>2, <3>1, <3>2 DEF OneCommand
    <2>5. CASE h.op # p
      <3>1. \A q \in ready' : q.cmd.op = p => q \in ready
        BY <1>0, <1>1, <2>5
      <3> QED
        BY <1>1, <2>1, <2>2, <2>3, <3>1 DEF OneCommand, InReady
    <2> QED
      BY <2>4, <2>5
  <1> QED
    BY <1>1, <1>2, <1>3 DEF Orderly, Waiting

\* Delete puts a "D" for every stream behind all other commands, or blocks.
LEMMA DeleteEffect ==
    ASSUME TypeOK, Delete
    PROVE  /\ DOMAIN pipe = 1..Len(pipe) /\ Len(pipe) \in Nat
           /\ DOMAIN pipe' = 1..Len(pipe') /\ Len(pipe') \in Nat /\ Len(pipe) <= Len(pipe')
           /\ \A j \in DOMAIN pipe : pipe'[j] = pipe[j]
           /\ \A j \in DOMAIN pipe' : j \in DOMAIN pipe \/ (pipe'[j].c = "D" /\ pipe'[j].op = 0)
           /\ ~blocked' => \A x \in 0..max_index : \E j \in DOMAIN pipe' :
                             j > Len(pipe) /\ pipe'[j].c = "D" /\ pipe'[j].idx = x
  <1>1. send_command(Deletes) /\ client
    BY DEF Delete, Deletes
  <1>2. /\ pipe \in Seq(Commands) /\ Len(pipe) <= Room /\ blocked \in BOOLEAN
        /\ max_index \in {-1} \cup Indices
    BY DEF TypeOK, Room
  <1>3. /\ Deletes \in Seq(Commands) /\ Len(Deletes) = max_index + 1
        /\ \A i \in 1..(max_index + 1) : Deletes[i] = Command("D", 0, max_index + 1 - i, "caller")
    BY <1>2, DeletesType
  <1>4. \A i \in 1..(max_index + 1) :
           Deletes[i].c = "D" /\ Deletes[i].op = 0 /\ Deletes[i].idx = max_index + 1 - i
    BY <1>3 DEF Command
  <1>5. /\ pipe' \in Seq(Commands) /\ Len(pipe) <= Len(pipe')
        /\ \A j \in 1..Len(pipe) : pipe'[j] = pipe[j]
        /\ \A j \in 1..Len(pipe') : j > Len(pipe) =>
              j - Len(pipe) \in 1..Len(Deletes) /\ pipe'[j] = Deletes[j - Len(pipe)]
        /\ ~blocked' => Len(pipe') = Len(pipe) + Len(Deletes)
    BY <1>1, <1>2, <1>3, SendEffect
  <1>6. /\ DOMAIN pipe = 1..Len(pipe) /\ Len(pipe) \in Nat
        /\ DOMAIN pipe' = 1..Len(pipe') /\ Len(pipe') \in Nat /\ max_index \in Int
    BY <1>2, <1>5, LenProperties DEF Indices
  <1>7. \A j \in DOMAIN pipe' : j \in DOMAIN pipe \/ (pipe'[j].c = "D" /\ pipe'[j].op = 0)
    <2> SUFFICES ASSUME NEW j \in DOMAIN pipe', j \notin DOMAIN pipe
                 PROVE  pipe'[j].c = "D" /\ pipe'[j].op = 0
      OBVIOUS
    <2>1. j \in 1..Len(pipe') /\ j > Len(pipe)
      BY <1>6
    <2> QED
      BY <1>3, <1>4, <1>5, <2>1
  <1>8. ASSUME ~blocked', NEW x \in 0..max_index
        PROVE  \E j \in DOMAIN pipe' : j > Len(pipe) /\ pipe'[j].c = "D" /\ pipe'[j].idx = x
    <2> DEFINE i == max_index + 1 - x
               j == Len(pipe) + i
    <2>1. i \in 1..(max_index + 1) /\ max_index + 1 - i = x
      BY <1>6
    <2>2. j \in 1..Len(pipe') /\ j > Len(pipe) /\ j - Len(pipe) = i
      <3>1. Len(pipe') = Len(pipe) + (max_index + 1)
        BY <1>3, <1>5, <1>8
      <3> QED
        BY <1>6, <2>1, <3>1
    <2> HIDE DEF i, j
    <2>3. pipe'[j] = Deletes[i]
      BY <1>5, <2>2
    <2> QED
      BY <1>4, <1>6, <2>1, <2>2, <2>3
  <1> QED
    BY <1>5, <1>6, <1>7, <1>8

LEMMA DeleteOrderly ==
    ASSUME TypeOK, Orderly, Delete
    PROVE  Orderly'
  <1>1. /\ \A j \in DOMAIN pipe : pipe'[j] = pipe[j]
        /\ \A j \in DOMAIN pipe' : j \in DOMAIN pipe \/ (pipe'[j].c = "D" /\ pipe'[j].op = 0)
        /\ ready' = ready /\ ops' = ops /\ 0 \notin DOMAIN ops
    <2>1. 0 \notin DOMAIN ops
      BY Domains DEF Orderly
    <2> QED
      BY <2>1, DeleteEffect DEF Delete
  <1>2. Addressed'
    BY <1>1 DEF Orderly, Addressed
  <1>3. ASSUME NEW p \in DOMAIN ops, ops[p].k # "sdp" PROVE OneCommand(p)'
    <2>1. OneCommand(p) /\ p # 0
      BY <1>1, <1>3 DEF Orderly, Waiting
    <2>2. \A j \in DOMAIN pipe' : pipe'[j].op = p => j \in DOMAIN pipe /\ pipe[j].op = p
      BY <1>1, <2>1
    <2> QED
      BY <1>1, <2>1, <2>2 DEF OneCommand, InPipe, InReady
  <1> QED
    BY <1>1, <1>2, <1>3 DEF Orderly, Waiting

\* A callback that sends a command puts it at the end of the channel.
LEMMA CallbackGrows ==
    ASSUME TypeOK, Orderly, NEW r \in ready, update_result_Continues(r) \/ start_recording1(r)
    PROVE  /\ ready' = ready \ {r} /\ UNCHANGED <<ops, client, proxy>>
           /\ ops[r.cmd.op].k # "sdp" /\ Grows(r.cmd.op) /\ Len(pipe') <= Len(pipe) + 1
           /\ ~blocked
  <1>1. r.cmd.op \in 1..MaxOps
    BY Domains DEF TypeOK, Orderly
  <1>2. ready' = ready \ {r} /\ UNCHANGED <<ops, client, proxy, max_index>> /\ ~blocked
    BY DEF update_result_Continues, start_recording1, Callback, Lock
  <1>3. ops[r.cmd.op].k # "sdp"
    BY DEF update_result_Continues, start_recording1, Orderly, Addressed
  <1>4. ASSUME update_result_Continues(r)
        PROVE  \E c \in {"P", "R", "C"} : send_command(<<Command(c, r.cmd.op, 0, "caller")>>)
    <2>1. \E c \in {"P", "R", "C"} : Pending(r.cmd.op) = Command(c, r.cmd.op, 0, "caller")
      BY DEF Pending
    <2> QED
      BY <1>4, <2>1 DEF update_result_Continues
  <1>5. "caller" \in Sides /\ "callee" \in Sides
    BY DEF Sides
  <1>6. CASE update_result_Continues(r)
    BY <1>1, <1>2, <1>3, <1>4, <1>5, <1>6, SingleGrows
  <1>7. CASE start_recording1(r)
    BY <1>1, <1>2, <1>3, <1>5, <1>7, SingleGrows DEF start_recording1
  <1> QED
    BY <1>6, <1>7

\* A callback that ends.
LEMMA CallbackFinishes ==
    ASSUME TypeOK, Orderly, NEW r \in ready, update_result(r) \/ command_result(r)
    PROVE  /\ ready' = ready \ {r} /\ UNCHANGED <<pipe, client, proxy, blocked, max_index>>
           /\ Changed(r.cmd.op)
           /\ IF ops[r.cmd.op].k = "sdp"
              THEN \/ /\ ops'[r.cmd.op].calls = ops[r.cmd.op].calls
                      /\ ops'[r.cmd.op].needs => ops[r.cmd.op].needs
                      /\ UNCHANGED <<elast, emitted, over>>
                   \/ /\ ops[r.cmd.op].needs /\ ~ops'[r.cmd.op].needs
                      /\ ops'[r.cmd.op].calls = ops[r.cmd.op].calls + 1
                      /\ DelayedSdpUpdate(r.cmd.op, Failed(r.res))
              ELSE /\ ops'[r.cmd.op].calls = ops[r.cmd.op].calls + 1
                   /\ UNCHANGED <<elast, emitted, over>>
  <1>1. /\ r.cmd.op \in DOMAIN ops /\ r.res \in Results /\ ops \in Seq(OpRecords)
        /\ ops[r.cmd.op].calls <= 1
    BY Domains DEF TypeOK, Orderly, Waiting
  <1>2. ready' = ready \ {r} /\ UNCHANGED <<pipe, client, proxy, blocked, max_index>>
    BY DEF update_result, command_result, Callback
  <1>3. CASE update_result(r)
    <2>1. ops[r.cmd.op].k = "sdp" /\ sdp_change_finish(r.cmd.op, r.res)
      BY <1>3 DEF update_result
    <2> QED
      BY <1>1, <1>2, <2>1, FinishEffect
  <1>4. CASE command_result(r)
    <2>1. /\ ops' = [ops EXCEPT ![r.cmd.op].calls = @ + 1]
          /\ UNCHANGED <<elast, emitted, over>> /\ ops[r.cmd.op].k # "sdp"
      BY <1>4 DEF command_result, Orderly, Addressed
    <2> QED
      BY <1>1, <1>2, <2>1, ResultEffect
  <1> QED
    BY <1>3, <1>4

\* Steps that touch neither the operations nor their commands.
Quiet ==
    \/ UNCHANGED vars
    \/ \E what \in {"progress", "end"} : PlainEvent(what)

\* The actions by what they do.
LEMMA Cases ==
    ASSUME TypeOK, Orderly, [Next]_vars
    PROVE  \/ Starting
           \/ \E res \in Results : cmd_done(res)
           \/ \E r \in ready : update_result(r) \/ command_result(r)
           \/ \E r \in ready : update_result_Continues(r) \/ start_recording1(r)
           \/ \E r \in ready : update_result_Panics(r)
           \/ Delete \/ Quiet
  BY DEF Next, Starting, Quiet

LEMMA OrderlyStep == TypeOK /\ Orderly /\ [Next]_vars => Orderly'
  <1> SUFFICES ASSUME TypeOK, Orderly, [Next]_vars PROVE Orderly'
    OBVIOUS
  <1>1. CASE Starting
    BY <1>1, StartingBegins, BeginsOrderly
  <1>2. ASSUME NEW res \in Results, cmd_done(res) PROVE Orderly'
    BY <1>2, DoneOrderly
  <1>3. ASSUME NEW r \in ready, update_result(r) \/ command_result(r) PROVE Orderly'
    BY <1>3, CallbackFinishes, FinishesOrderly
  <1>4. ASSUME NEW r \in ready, update_result_Continues(r) \/ start_recording1(r) PROVE Orderly'
    BY <1>4, CallbackGrows, ContinuesOrderly
  <1>5. ASSUME NEW r \in ready, update_result_Panics(r) PROVE Orderly'
    <2>1. ready' \subseteq ready /\ UNCHANGED <<pipe, ops>>
      BY <1>5 DEF update_result_Panics, Callback
    <2>2. Addressed'
      BY <2>1 DEF Orderly, Addressed
    <2> QED
      BY <2>1, <2>2 DEF Orderly, Waiting, OneCommand, InPipe, InReady
  <1>6. CASE Delete
    BY <1>6, DeleteOrderly
  <1>7. CASE Quiet
    <2>1. UNCHANGED <<pipe, ready, ops>>
      BY <1>7 DEF Quiet, vars, PlainEvent
    <2> QED
      BY <2>1 DEF Orderly, Addressed, Waiting, OneCommand, InPipe, InReady
  <1> QED
    BY <1>1, <1>2, <1>3, <1>4, <1>5, <1>6, <1>7, Cases

-----------------------------------------------------------------------------
(* The end of the leg                                                       *)

LEMMA EndOvertakesStep == TypeOK /\ Orderly /\ EndOvertakes /\ [Next]_vars => EndOvertakes'
  <1> SUFFICES ASSUME TypeOK, Orderly, EndOvertakes, [Next]_vars PROVE EndOvertakes'
    OBVIOUS
  <1>0. DOMAIN ops = 1..Len(ops) /\ Len(ops) \in Nat /\ elast \in Nat
    BY Domains DEF Orderly, TypeOK
  <1>1. ASSUME NEW o \in OpRecords, Begins(o) PROVE EndOvertakes'
    <2>1. /\ DOMAIN ops' = 1..(Len(ops) + 1) /\ Len(ops') = Len(ops) + 1
          /\ \A p \in 1..Len(ops) : ops'[p] = ops[p]
          /\ ops'[Len(ops) + 1] = o
      BY <1>1 DEF Begins, Added
    <2>2. over' = over /\ (o.k = "sdp" => ~over)
      BY <1>1 DEF Begins
    <2>3. elast' \in {elast, Len(ops) + 1} /\ (elast' = elast \/ o.calls > 0)
      BY <1>1 DEF Begins
    <2>4. emitted' \in {emitted, "progress"} /\ (emitted' = emitted \/ o.calls > 0)
      BY <1>1 DEF Begins
    <2>5. o.calls > 0 => o.k = "sdp"
      BY <1>1 DEF Begins
    <2>6. elast' <= Len(ops')
      BY <1>0, <2>1, <2>3 DEF EndOvertakes
    <2>7. emitted' = "end" => emitted = "end" /\ over /\ o.k # "sdp" /\ elast' = elast
      BY <2>2, <2>3, <2>4, <2>5 DEF EndOvertakes
    <2>8. \A p \in DOMAIN ops' : p \in DOMAIN ops \/ p = Len(ops) + 1
      BY <1>0, <2>1
    <2> QED
      BY <1>0, <2>1, <2>2, <2>6, <2>7, <2>8 DEF EndOvertakes
  <1>2. ASSUME NEW r \in ready, update_result(r) \/ command_result(r) PROVE EndOvertakes'
    <2>1. /\ Len(ops') = Len(ops) /\ DOMAIN ops' = DOMAIN ops
          /\ \A p \in DOMAIN ops : ops'[p].k = ops[p].k
          /\ r.cmd.op \in DOMAIN ops
      BY <1>2, CallbackFinishes, Domains DEF Changed, Orderly
    <2>2. CASE UNCHANGED <<elast, emitted, over>>
      BY <2>1, <2>2 DEF EndOvertakes
    <2>3. CASE ops[r.cmd.op].k = "sdp" /\ DelayedSdpUpdate(r.cmd.op, Failed(r.res))
      <3>1. CASE EmitNew("end") /\ over' = TRUE
        BY <1>0, <2>1, <3>1 DEF EmitNew, EndOvertakes
      <3>2. CASE EmitOp(r.cmd.op) /\ UNCHANGED over
        <4>1. CASE UNCHANGED <<elast, emitted>>
          BY <2>1, <3>2, <4>1 DEF EndOvertakes
        <4>2. CASE ~(elast >= r.cmd.op) /\ elast' = r.cmd.op /\ emitted' = "progress"
          BY <1>0, <2>1, <4>2 DEF EndOvertakes
        <4> QED
          BY <3>2, <4>1, <4>2 DEF EmitOp
      <3> QED
        BY <2>2, <2>3, <3>1, <3>2 DEF DelayedSdpUpdate
    <2> QED
      BY <1>2, <2>2, <2>3, CallbackFinishes
  <1>3. ASSUME NEW what \in {"progress", "end"}, PlainEvent(what) PROVE EndOvertakes'
    <2>1. elast' = Len(ops) /\ emitted' = what /\ UNCHANGED ops
      BY <1>3 DEF PlainEvent, EmitNew
    <2>2. what = "end" => over'
      BY <1>3 DEF PlainEvent
    <2> QED
      BY <1>0, <2>1, <2>2 DEF EndOvertakes
  <1>4. CASE UNCHANGED <<ops, elast, emitted>> /\ over' \in {over, TRUE}
    BY <1>4 DEF EndOvertakes
  <1>5. CASE Starting
    BY <1>1, <1>5, StartingBegins
  <1>6. ASSUME NEW r \in ready, 
               \/ update_result_Continues(r) \/ start_recording1(r) \/ update_result_Panics(r)
        PROVE  UNCHANGED <<ops, elast, emitted, over>>
    BY <1>6 DEF update_result_Continues, start_recording1, update_result_Panics
  <1>7. ASSUME NEW res \in Results, cmd_done(res)
        PROVE  UNCHANGED <<ops, elast, emitted, over>>
    BY <1>7 DEF cmd_done
  <1>8. CASE Delete
    BY <1>4, <1>8 DEF Delete
  <1>9. CASE Quiet
    BY <1>3, <1>4, <1>9 DEF Quiet, vars
  <1> QED
    BY <1>2, <1>4, <1>5, <1>6, <1>7, <1>8, <1>9, Cases

-----------------------------------------------------------------------------
(* The streams                                                              *)

Released == DeletedLast /\ StreamsReleased

\* A step that puts commands into the channel that delete nothing.
LEMMA GrowsReleased ==
    ASSUME TypeOK, Released, NEW op, Grows(op), UNCHANGED <<client, proxy>>, over => over', ~blocked
    PROVE  Released'
  <1>0. max_index \in Int /\ \A i \in proxy : i \in Int
    BY DEF TypeOK, Indices
  <1>1. /\ \A j \in DOMAIN pipe : pipe'[j] = pipe[j] /\ j \in DOMAIN pipe' /\ j \in Int
        /\ \A j \in DOMAIN pipe' : j \in DOMAIN pipe \/
              /\ client /\ pipe'[j].c # "D"
              /\ pipe'[j].c = "U" => pipe'[j].idx <= max_index'
        /\ max_index <= max_index' /\ max_index' \in Int
    BY DEF Grows
  <1>2. \A i \in DOMAIN pipe : pipe[i].idx \in Int
    <2>1. \A i \in DOMAIN pipe : pipe[i] \in Commands
      BY ElementOfSeq, LenProperties DEF TypeOK
    <2> QED
      BY <2>1 DEF Commands, Indices
  <1>3. ~client' => over'
    BY DEF Released, DeletedLast
  <1>4. client' => \A i \in DOMAIN pipe' :
          pipe'[i].c # "D" /\ (pipe'[i].c = "U" => pipe'[i].idx <= max_index')
    <2> SUFFICES ASSUME client, NEW i \in DOMAIN pipe'
                 PROVE  pipe'[i].c # "D" /\ (pipe'[i].c = "U" => pipe'[i].idx <= max_index')
      OBVIOUS
    <2>1. CASE i \in DOMAIN pipe
      <3>1. /\ pipe'[i] = pipe[i] /\ pipe[i].c # "D" /\ (pipe[i].c = "U" => pipe[i].idx <= max_index)
        BY <1>1, <2>1 DEF Released, DeletedLast
      <3> QED
        BY <1>0, <1>1, <1>2, <2>1, <3>1
    <2> QED
      BY <1>1, <2>1
  <1>5. ~client' => \A i \in DOMAIN pipe' : pipe'[i].c = "U" =>
          \E j \in DOMAIN pipe' : i < j /\ pipe'[j].c = "D" /\ pipe'[j].idx = pipe'[i].idx
    BY <1>1 DEF Released, DeletedLast
  <1>6. \A i \in proxy' :
           \/ client' /\ i <= max_index'
           \/ \E j \in DOMAIN pipe' : pipe'[j].c = "D" /\ pipe'[j].idx = i
    <2> SUFFICES ASSUME NEW i \in proxy
                 PROVE  \/ client' /\ i <= max_index'
                        \/ \E j \in DOMAIN pipe' : pipe'[j].c = "D" /\ pipe'[j].idx = i
      OBVIOUS
    <2>1. CASE client /\ i <= max_index
      BY <1>0, <1>1, <2>1
    <2>2. ASSUME NEW j \in DOMAIN pipe, pipe[j].c = "D", pipe[j].idx = i
          PROVE  \E k \in DOMAIN pipe' : pipe'[k].c = "D" /\ pipe'[k].idx = i
      BY <1>1, <2>2
    <2> QED
      BY <2>1, <2>2 DEF Released, StreamsReleased
  <1> QED
    BY <1>3, <1>4, <1>5, <1>6 DEF Released, DeletedLast, StreamsReleased

LEMMA UnchangedReleased ==
    ASSUME Released, UNCHANGED <<client, proxy, pipe, max_index, blocked>>, over => over'
    PROVE  Released'
  <1>1. /\ client' = client /\ proxy' = proxy /\ pipe' = pipe /\ max_index' = max_index
        /\ blocked' = blocked
    OBVIOUS
  <1> QED
    BY <1>1 DEF Released, DeletedLast, StreamsReleased

LEMMA DoneReleased ==
    ASSUME TypeOK, Released, NEW res \in Results, cmd_done(res)
    PROVE  Released'
  <1> DEFINE h == pipe[1]
  <1>1. /\ 1 \in DOMAIN pipe
        /\ \A i \in DOMAIN pipe' : pipe'[i] = pipe[i + 1] /\ i + 1 \in DOMAIN pipe /\ i + 1 # 1
        /\ \A i \in DOMAIN pipe : i = 1 \/ (i - 1 \in DOMAIN pipe' /\ pipe'[i - 1] = pipe[i])
        /\ \A i \in DOMAIN pipe : i \in Nat /\ i >= 1
        /\ \A i \in DOMAIN pipe' : i \in Nat
        /\ Head(pipe) = h
    BY DoneEffect
  <1>2. /\ UNCHANGED <<client, max_index, blocked, over>> /\ ~blocked
        /\ proxy' \in Executed(h, res)
    BY <1>1 DEF cmd_done
  <1> HIDE DEF h
  <1>3. \A i \in proxy' :
           \/ i \in proxy /\ ~(h.c = "D" /\ i = h.idx)
           \/ h.c = "U" /\ i = h.idx
    <2>1. CASE h.c = "U"
      <3>1. proxy' \in {proxy, proxy \cup {h.idx}}
        BY <1>2, <2>1 DEF Executed
      <3> QED
        BY <2>1, <3>1
    <2>2. CASE h.c = "D"
      <3>1. proxy' = proxy \ {h.idx}
        BY <1>2, <2>2 DEF Executed
      <3> QED
        BY <3>1
    <2>3. CASE h.c # "U" /\ h.c # "D"
      <3>1. proxy' = proxy
        BY <1>2, <2>3 DEF Executed
      <3> QED
        BY <2>3, <3>1
    <2> QED
      BY <2>1, <2>2, <2>3
  <1>4. DeletedLast'
    <2>1. client => \A i \in DOMAIN pipe' :
            pipe'[i].c # "D" /\ (pipe'[i].c = "U" => pipe'[i].idx <= max_index)
      BY <1>1 DEF Released, DeletedLast
    <2>2. ASSUME ~client, NEW i \in DOMAIN pipe', pipe'[i].c = "U"
          PROVE  \E j \in DOMAIN pipe' : i < j /\ pipe'[j].c = "D" /\ pipe'[j].idx = pipe'[i].idx
      <3>1. pipe'[i] = pipe[i + 1] /\ i + 1 \in DOMAIN pipe
        BY <1>1
      <3>2. PICK j \in DOMAIN pipe : i + 1 < j /\ pipe[j].c = "D" /\ pipe[j].idx = pipe[i + 1].idx
        BY <1>2, <2>2, <3>1 DEF Released, DeletedLast
      <3>3. j # 1 /\ i < j - 1
        BY <1>1, <3>2
      <3> QED
        BY <1>1, <3>1, <3>2, <3>3
    <2> QED
      BY <1>2, <2>1, <2>2 DEF Released, DeletedLast
  <1>5. ASSUME NEW x \in proxy'
        PROVE  \/ client /\ x <= max_index
               \/ \E j \in DOMAIN pipe' : pipe'[j].c = "D" /\ pipe'[j].idx = x
    <2>1. ASSUME NEW j \in DOMAIN pipe, pipe[j].c = "D", pipe[j].idx = x, j # 1
          PROVE  \E k \in DOMAIN pipe' : pipe'[k].c = "D" /\ pipe'[k].idx = x
      BY <1>1, <2>1
    <2>2. CASE x \in proxy /\ ~(h.c = "D" /\ x = h.idx)
      <3>1. \/ client /\ x <= max_index
            \/ \E j \in DOMAIN pipe : pipe[j].c = "D" /\ pipe[j].idx = x
        BY <1>2, <2>2 DEF Released, StreamsReleased
      <3>2. \A j \in DOMAIN pipe : pipe[j].c = "D" /\ pipe[j].idx = x => j # 1
        BY <2>2 DEF h
      <3> QED
        BY <2>1, <3>1, <3>2
    <2>3. CASE h.c = "U" /\ x = h.idx
      <3>1. CASE client
        BY <1>1, <2>3, <3>1 DEF Released, DeletedLast, h
      <3>2. CASE ~client
        <4>1. PICK j \in DOMAIN pipe : 1 < j /\ pipe[j].c = "D" /\ pipe[j].idx = x
          BY <1>1, <1>2, <2>3, <3>2 DEF Released, DeletedLast, h
        <4> QED
          BY <1>1, <2>1, <4>1
      <3> QED
        BY <3>1, <3>2
    <2> QED
      BY <1>3, <2>2, <2>3
  <1> QED
    BY <1>2, <1>4, <1>5 DEF Released, StreamsReleased

LEMMA DeleteReleased ==
    ASSUME TypeOK, Released, Delete
    PROVE  Released'
  <1>1. /\ DOMAIN pipe = 1..Len(pipe) /\ Len(pipe) \in Nat
        /\ DOMAIN pipe' = 1..Len(pipe') /\ Len(pipe') \in Nat
        /\ \A j \in DOMAIN pipe : pipe'[j] = pipe[j]
        /\ \A j \in DOMAIN pipe' : j \in DOMAIN pipe \/ pipe'[j].c = "D"
        /\ ~blocked' => \A x \in 0..max_index : \E j \in DOMAIN pipe' :
                             j > Len(pipe) /\ pipe'[j].c = "D" /\ pipe'[j].idx = x
    BY DeleteEffect
  <1>2. client /\ ~client' /\ over' /\ UNCHANGED proxy /\ ~blocked
    BY DEF Delete, Lock
  <1>3. \A i \in DOMAIN pipe : pipe[i].c # "D" /\ (pipe[i].c = "U" => pipe[i].idx \in 0..max_index)
    <2>1. \A i \in DOMAIN pipe : pipe[i] \in Commands
      BY ElementOfSeq, LenProperties DEF TypeOK
    <2>2. \A i \in DOMAIN pipe : pipe[i].idx \in Nat
      BY <2>1 DEF Commands, Indices
    <2>3. \A i \in DOMAIN pipe : pipe[i].c # "D" /\ (pipe[i].c = "U" => pipe[i].idx <= max_index)
      BY <1>2 DEF Released, DeletedLast
    <2>4. max_index \in Int
      BY DEF TypeOK, Indices
    <2> QED
      BY <2>2, <2>3, <2>4
  <1>4. \A x \in proxy : x \in 0..max_index
    <2>1. \A x \in proxy : x <= max_index
      BY <1>2, <1>3 DEF Released, StreamsReleased
    <2>2. max_index \in Int /\ \A x \in proxy : x \in Nat
      BY DEF TypeOK, Indices
    <2> QED
      BY <2>1, <2>2
  <1>5. ASSUME ~blocked', NEW i \in DOMAIN pipe', pipe'[i].c = "U"
        PROVE  \E j \in DOMAIN pipe' : i < j /\ pipe'[j].c = "D" /\ pipe'[j].idx = pipe'[i].idx
    <2>1. i \in DOMAIN pipe /\ pipe'[i] = pipe[i] /\ pipe[i].idx \in 0..max_index
      BY <1>1, <1>3, <1>5
    <2>2. PICK j \in DOMAIN pipe' : j > Len(pipe) /\ pipe'[j].c = "D" /\ pipe'[j].idx = pipe[i].idx
      BY <1>1, <1>5, <2>1
    <2>3. i < j
      BY <1>1, <2>1, <2>2
    <2> QED
      BY <2>1, <2>2, <2>3
  <1>6. ASSUME ~blocked', NEW x \in proxy'
        PROVE  \E j \in DOMAIN pipe' : pipe'[j].c = "D" /\ pipe'[j].idx = x
    BY <1>1, <1>2, <1>4, <1>6
  <1> QED
    BY <1>2, <1>5, <1>6 DEF Released, DeletedLast, StreamsReleased

LEMMA ReleasedStep == TypeOK /\ Orderly /\ Released /\ [Next]_vars => Released'
  <1> SUFFICES ASSUME TypeOK, Orderly, Released, [Next]_vars PROVE Released'
    OBVIOUS
  <1>1. CASE Starting
    <2>1. PICK o \in OpRecords : Begins(o)
      BY <1>1, StartingBegins
    <2>2. ~blocked
      BY <1>1 DEF Starting, SdpWithoutMedia, SdpMalformed, on_sdp_change, play, stop_play,
                  StartRecording, Lock
    <2>3. Grows(Len(ops) + 1) /\ UNCHANGED <<client, proxy>> /\ over' = over
      BY <2>1 DEF Begins
    <2> QED
      BY <2>2, <2>3, GrowsReleased
  <1>2. ASSUME NEW res \in Results, cmd_done(res) PROVE Released'
    BY <1>2, DoneReleased
  <1>3. ASSUME NEW r \in ready, update_result(r) \/ command_result(r) PROVE Released'
    <2>1. UNCHANGED <<pipe, client, proxy, blocked, max_index>>
      BY <1>3, CallbackFinishes
    <2>2. over => over'
      BY <1>3 DEF update_result, command_result, sdp_change_finish, DelayedSdpUpdate
    <2> QED
      BY <2>1, <2>2, UnchangedReleased
  <1>4. ASSUME NEW r \in ready, update_result_Continues(r) \/ start_recording1(r)
        PROVE Released'
    <2>1. over' = over
      BY <1>4 DEF update_result_Continues, start_recording1
    <2> QED
      BY <1>4, <2>1, CallbackGrows, GrowsReleased
  <1>5. ASSUME NEW r \in ready, update_result_Panics(r) PROVE Released'
    BY <1>5, UnchangedReleased DEF update_result_Panics
  <1>6. CASE Delete
    BY <1>6, DeleteReleased
  <1>7. CASE Quiet
    <2>1. UNCHANGED <<client, proxy, pipe, max_index, blocked>>
      BY <1>7 DEF Quiet, vars, PlainEvent
    <2>2. over => over'
      BY <1>7 DEF Quiet, vars, PlainEvent
    <2> QED
      BY <2>1, <2>2, UnchangedReleased
  <1> QED
    BY <1>1, <1>2, <1>3, <1>4, <1>5, <1>6, <1>7, Cases

-----------------------------------------------------------------------------
(* The session implements DelayedEvents                                     *)

DoneOps == {op \in DOMAIN ops : ops[op].calls > 0}
Ended == emitted = "end"

\* A new operation is the creation of an event, which may be done at once.
LEMMA BeginsCreates ==
    ASSUME TypeOK, Orderly, EndOvertakes, NEW o \in OpRecords, Begins(o)
    PROVE  Delayed!Create
  <1>0. DOMAIN ops = 1..Len(ops) /\ Len(ops) \in Nat
    BY Domains DEF Orderly
  <1>1. /\ Len(ops') = Len(ops) + 1 /\ DOMAIN ops' = 1..(Len(ops) + 1)
        /\ \A p \in 1..Len(ops) : ops'[p] = ops[p]
        /\ ops'[Len(ops) + 1] = o
    BY DEF Begins, Added
  <1>2. /\ (o.k = "sdp" => ~over) /\ (o.calls > 0 => o.k = "sdp")
    BY DEF Begins
  <1>3. CASE o.calls > 0
    <2>1. DoneOps' = DoneOps \cup {Len(ops) + 1}
      BY <1>0, <1>1, <1>3 DEF DoneOps
    <2>2. elast' \in {elast, Len(ops) + 1} /\ emitted' \in {emitted, "progress"}
      BY <1>3 DEF Begins
    <2>3. ~Ended /\ ~Ended'
      BY <1>2, <1>3, <2>2 DEF EndOvertakes, Ended
    <2>4. Ended' = Ended
      BY <2>3 DEF Ended
    <2> QED
      BY Zenon, <1>1, <2>1, <2>2, <2>3, <2>4 DEF Delayed!Create, DoneOps, Ended
  <1>4. CASE ~(o.calls > 0)
    <2>1. DoneOps' = DoneOps
      BY <1>0, <1>1, <1>4 DEF DoneOps
    <2>2. elast' = elast /\ emitted' = emitted
      BY <1>4 DEF Begins
    <2>3. Ended' = Ended
      BY <2>2 DEF Ended
    <2> QED
      BY Zenon, <1>1, <2>1, <2>2, <2>3 DEF Delayed!Create, DoneOps, Ended
  <1> QED
    BY <1>3, <1>4

\* A callback that ends is the end of an event, or of nothing.
LEMMA FinishIsDone ==
    ASSUME TypeOK, Orderly, EndOvertakes, NEW r \in ready, update_result(r) \/ command_result(r)
    PROVE  (\E e \in 1..Len(ops) : Delayed!Done(e)) \/ UNCHANGED Delayed!vars
  <1> DEFINE op == r.cmd.op
  <1>0. /\ DOMAIN ops = 1..Len(ops) /\ Len(ops) \in Nat /\ op \in DOMAIN ops
        /\ elast \in Nat
    BY Domains DEF Orderly, TypeOK
  <1>1. /\ Len(ops') = Len(ops) /\ DOMAIN ops' = DOMAIN ops
        /\ \A p \in DOMAIN ops : p # op => ops'[p] = ops[p]
    BY CallbackFinishes DEF Changed
  <1>2. ops[op].calls \in Nat /\ ops[op].calls <= 1
    <2>1. ops[op] \in OpRecords
      BY <1>0, ElementOfSeq DEF TypeOK
    <2> QED
      BY <1>0, <2>1 DEF OpRecords, Orderly, Waiting
  <1>3. CASE ops'[op].calls = ops[op].calls /\ UNCHANGED <<elast, emitted, over>>
    <2>1. DoneOps' = DoneOps
      BY <1>1, <1>3 DEF DoneOps
    <2>2. Ended' = Ended
      BY <1>3 DEF Ended
    <2> QED
      BY Zenon, <1>1, <1>3, <2>1, <2>2 DEF Delayed!vars, DoneOps, Ended
  <1>4. ASSUME ops[op].calls = 0, ops'[op].calls = ops[op].calls + 1,
               \/ UNCHANGED <<elast, emitted, over>>
               \/ ops[op].k = "sdp" /\ DelayedSdpUpdate(op, Failed(r.res))
        PROVE  Delayed!Done(op)
    <2>1. DoneOps' = DoneOps \cup {op} /\ op \in (1..Len(ops)) \ DoneOps
      BY <1>0, <1>1, <1>4 DEF DoneOps
    <2>2. \/ elast' = elast /\ emitted' = emitted
          \/ elast < op /\ ~Ended /\ elast' = op /\ emitted' = "progress"
          \/ elast' = Len(ops) /\ emitted' = "end"
      <3>1. CASE UNCHANGED <<elast, emitted, over>>
        BY <3>1
      <3>2. CASE ops[op].k = "sdp" /\ DelayedSdpUpdate(op, Failed(r.res))
        <4>1. CASE EmitNew("end")
          BY <4>1 DEF EmitNew
        <4>2. CASE EmitOp(op)
          <5>1. CASE elast >= op
            BY <4>2, <5>1 DEF EmitOp
          <5>2. CASE ~(elast >= op)
            <6>1. elast < op /\ elast' = op /\ emitted' = "progress"
              BY <1>0, <4>2, <5>2 DEF EmitOp
            <6>2. ~Ended
              BY <1>0, <3>2, <6>1 DEF EndOvertakes, Ended
            <6> QED
              BY <6>1, <6>2
          <5> QED
            BY <5>1, <5>2
        <4>3. CASE UNCHANGED <<elast, emitted, over>>
          BY <4>3
        <4> QED
          BY <3>2, <4>1, <4>2, <4>3 DEF DelayedSdpUpdate
      <3> QED
        BY <1>4, <3>1, <3>2
    <2>3. \/ elast' = elast /\ Ended' = Ended
          \/ elast < op /\ ~Ended /\ elast' = op /\ Ended' = Ended
          \/ elast' = Len(ops) /\ Ended' = TRUE
      <3>1. CASE elast' = elast /\ emitted' = emitted
        BY <3>1 DEF Ended
      <3>2. CASE elast < op /\ ~Ended /\ elast' = op /\ emitted' = "progress"
        <4>1. ~Ended'
          BY <3>2 DEF Ended
        <4>2. Ended' = Ended
          BY <3>2, <4>1 DEF Ended
        <4> QED
          BY <3>2, <4>2
      <3>3. CASE elast' = Len(ops) /\ emitted' = "end"
        <4>1. Ended'
          BY <3>3 DEF Ended
        <4> QED
          BY <3>3, <4>1
      <3> QED
        BY <2>2, <3>1, <3>2, <3>3
    <2> QED
      BY Zenon, <1>1, <2>1, <2>3 DEF Delayed!Done, DoneOps, Ended
  <1>5. CASE ops[op].k = "sdp"
    <2>1. ops[op].needs => ops[op].calls = 0
      BY <1>0, <1>5 DEF Orderly, Waiting
    <2> QED
      BY <1>0, <1>3, <1>4, <1>5, <2>1, CallbackFinishes
  <1>6. CASE ops[op].k # "sdp"
    <2>1. ops[op].calls = 0
      <3>1. OneCommand(op) /\ InReady(op)
        BY <1>0, <1>6 DEF Orderly, Waiting, InReady
      <3> QED
        BY <1>2, <3>1 DEF OneCommand
    <2> QED
      BY <1>0, <1>4, <1>6, <2>1, CallbackFinishes
  <1> QED
    BY <1>5, <1>6

LEMMA RefinementStep ==
    ASSUME TypeOK, Orderly, EndOvertakes, [Next]_vars
    PROVE  [Delayed!Next]_(Delayed!vars)
  <1>1. CASE Starting
    BY <1>1, StartingBegins, BeginsCreates DEF Delayed!Next
  <1>2. ASSUME NEW r \in ready, update_result(r) \/ command_result(r)
        PROVE  [Delayed!Next]_(Delayed!vars)
    BY <1>2, FinishIsDone DEF Delayed!Next
  <1>3. CASE UNCHANGED <<ops, elast, emitted>>
    BY <1>3 DEF Delayed!vars
  <1>4. ASSUME NEW what \in {"progress", "end"}, PlainEvent(what) PROVE Delayed!Overtake
    <2>1. ~over /\ elast' = Len(ops) /\ UNCHANGED ops
      BY <1>4 DEF PlainEvent, EmitNew
    <2>2. ~Ended
      BY <2>1 DEF EndOvertakes, Ended
    <2>3. DoneOps' = DoneOps /\ Len(ops') = Len(ops) /\ Ended' \in BOOLEAN
      BY <2>1 DEF DoneOps, Ended
    <2> QED
      BY Zenon, <2>1, <2>2, <2>3 DEF Delayed!Overtake, DoneOps, Ended
  <1>5. ASSUME NEW r \in ready, 
               \/ update_result_Continues(r) \/ start_recording1(r) \/ update_result_Panics(r)
        PROVE  UNCHANGED <<ops, elast, emitted>>
    BY <1>5 DEF update_result_Continues, start_recording1, update_result_Panics
  <1>6. ASSUME NEW res \in Results, cmd_done(res)
        PROVE  UNCHANGED <<ops, elast, emitted>>
    BY <1>6 DEF cmd_done
  <1>7. CASE Delete
    BY <1>3, <1>7 DEF Delete
  <1>8. CASE Quiet
    BY <1>3, <1>4, <1>8 DEF Quiet, vars, Delayed!Next
  <1> QED
    BY <1>1, <1>2, <1>3, <1>5, <1>6, <1>7, <1>8, Cases

-----------------------------------------------------------------------------
(* The theorems                                                             *)

LEMMA InitIInv == Init => IInv
  <1> SUFFICES ASSUME Init PROVE IInv
    OBVIOUS
  <1>1. DOMAIN pipe = {} /\ DOMAIN ops = {} /\ Len(ops) = 0 /\ ready = {} /\ proxy = {}
    BY DEF Init
  <1>2. client /\ elast = 0 /\ emitted = "none"
    BY DEF Init
  <1>3. Addressed /\ Waiting
    BY <1>1 DEF Addressed, Waiting
  <1>4. EndOvertakes
    BY <1>1, <1>2 DEF EndOvertakes
  <1>5. DeletedLast /\ StreamsReleased
    BY <1>1, <1>2 DEF DeletedLast, StreamsReleased
  <1> QED
    BY <1>3, <1>4, <1>5, InitTypeOK DEF IInv

LEMMA IInvStep == IInv /\ [Next]_vars => IInv'
  <1> SUFFICES ASSUME IInv, [Next]_vars PROVE IInv'
    OBVIOUS
  <1>1. TypeOK /\ Addressed /\ Waiting /\ Orderly /\ EndOvertakes /\ Released
    BY DEF IInv, Orderly, Released
  <1>2. TypeOK'
    BY <1>1, TypeStep
  <1>3. Orderly'
    BY <1>1, OrderlyStep
  <1>4. EndOvertakes'
    BY <1>1, EndOvertakesStep
  <1>5. Released'
    BY <1>1, ReleasedStep
  <1> QED
    BY <1>2, <1>3, <1>4, <1>5 DEF IInv, Orderly, Released

LEMMA Invariance == Spec => []IInv
  BY InitIInv, IInvStep, PTL DEF Spec

\* The variables keep their types: the channel is never longer than its capacity
\* and the command with the rtpproxy, and no callback is counted that was not
\* asked for (send_command, cmd_done).
THEOREM TypeCorrect == Spec => []TypeOK
  <1>1. IInv => TypeOK
    BY DEF IInv
  <1> QED
    BY <1>1, Invariance, PTL

\* AnsweredOnce for any number of operations, sections and answers: a body is
\* handed on once because NeedsUpdate() is taken with the first hand-over, a
\* prompt or recording because it never has two commands on their way
\* (_sdp_change_finish, command_result).
THEOREM AnsweredOnceHolds == Spec => []AnsweredOnce
  <1>1. IInv => AnsweredOnce
    BY DEF IInv, Waiting, AnsweredOnce
  <1> QED
    BY <1>1, Invariance, PTL

\* StreamsReleased for any number of sections and any capacity of rtpp_wi: the
\* "D" of a stream is behind every "U" for it in the channel (update, Delete).
THEOREM StreamsReleasedHolds == Spec => []StreamsReleased
  <1>1. IInv => StreamsReleased
    BY DEF IInv
  <1> QED
    BY <1>1, Invariance, PTL

\* The session implements DelayedEvents, whatever the order in which answers and
\* callbacks come (EmitEvent, DelayedRemoteSdpUpdate): a callback that is late
\* hands on nothing that is older than what the controller already has.
THEOREM ImplementsDelayedEvents == Spec => EventsInOrder
  <1>1. Init => Delayed!Init
    <2> SUFFICES ASSUME Init PROVE Delayed!Init
      OBVIOUS
    <2>1. Len(ops) = 0 /\ DOMAIN ops = {} /\ elast = 0 /\ emitted = "none"
      BY DEF Init
    <2>2. DoneOps = {} /\ Ended = FALSE
      BY <2>1 DEF DoneOps, Ended
    <2> QED
      BY Zenon, <2>1, <2>2 DEF Delayed!Init, DoneOps, Ended
  <1>2. IInv /\ [Next]_vars => [Delayed!Next]_(Delayed!vars)
    BY RefinementStep DEF IInv, Orderly
  <1> QED
    BY <1>1, <1>2, Invariance, PTL DEF Spec, EventsInOrder, Delayed!Spec
=============================================================================
