---------------------------- MODULE LioRecorder ----------------------------
(***************************************************************************)
(* Recording and mapping at the same time: LioRecorder of                  *)
(* crates/doracap-fastlio/src/lib.rs.                                      *)
(*                                                                         *)
(* The owner calls push for each sensor frame and finish, finish_now or    *)
(* drop at the end.  A worker thread maps the frames; frames go to it and  *)
(* poses come back over two unbounded channels, and an atomic flag tells   *)
(* it to stop.  Every access to a channel or to the flag is a step of its  *)
(* own, and the two threads interleave.                                    *)
(*                                                                         *)
(* The storage is seen from here as Recorder: a call of write appends one  *)
(* entry or fails, and a failed write may have recorded its message all    *)
(* the same (SingleFileWriter keeps it when a chunk cannot be written).    *)
(* The mapper is the fast_lio crate: a lidar frame yields no pose, or that *)
(* of a lidar frame it was given and has not answered yet, in the order of *)
(* the frames; it may also panic.                                          *)
(***************************************************************************)
EXTENDS Integers, Sequences

CONSTANTS
  MaxFrames,     \* bound: the number of frames pushed
  MaxFailures,   \* bound: the number of failing writes
  MayPanic,      \* whether the mapper may panic
  ChunkSize      \* entries the writer puts into one chunk

ASSUME RecorderAssumption ==
  /\ MaxFrames \in Nat
  /\ MaxFailures \in Nat
  /\ MayPanic \in BOOLEAN
  /\ ChunkSize \in Nat \ {0}

VARIABLES
  \* the owner
  call,          \* where the owner is in a method, or between calls
  tape,          \* what was handed to rec, in the order of the writes
  kept,          \* how much of it the footer covers, once rec is finished
  poses,
  handle,        \* worker.is_some()
  mapping,       \* mapping.is_some()
  result,        \* what the last call returned
  \* shared
  tx_open,       \* map_tx.is_some()
  frames,        \* the channel of frames
  pose_channel,
  stop,
  \* the worker
  worker, frame,
  posed,         \* the number of the frame whose pose the mapper gave last
  \* history
  pushed,        \* how many frames were pushed
  sent,          \* those that were sent to the worker
  mapped,        \* those the worker took
  emitted,       \* the numbers of the poses the worker sent
  late,          \* how many frames it took after stop was set
  failures       \* the number of failed writes

owner == <<call, tape, kept, poses, handle, mapping, result>>
shared == <<tx_open, frames, pose_channel, stop>>
mapper == <<worker, frame, posed>>
history == <<pushed, sent, mapped, emitted, late, failures>>
vars == <<owner, shared, mapper, history>>

Entry(kind, n) == [kind |-> kind, n |-> n]
Kinds == {"imu", "lidar"}
Numbers == 1..MaxFrames
Frame == [kind : Kinds, n : Numbers]
TapeEntry == [kind : {"scene", "imu", "lidar", "pose"}, n : 0..MaxFrames]
NoFrame == Entry("none", 0)

\* new: the scene is written and the worker runs.
Init ==
  /\ call = "idle" /\ tape = <<Entry("scene", 0)>> /\ kept = 0
  /\ poses = <<>> /\ handle = TRUE /\ mapping = FALSE /\ result = "ok"
  /\ tx_open = TRUE /\ frames = <<>> /\ pose_channel = <<>> /\ stop = FALSE
  /\ worker = "check" /\ frame = NoFrame /\ posed = 0
  /\ pushed = 0 /\ sent = <<>> /\ mapped = <<>> /\ emitted = <<>>
  /\ late = 0 /\ failures = 0

------------------------------------------------------------------------------
(* Recorder::write, and the end of a method *)

WriteOk(entry) == tape' = Append(tape, entry) /\ UNCHANGED failures

WriteFails(entry) ==
  /\ failures < MaxFailures
  /\ failures' = failures + 1
  /\ tape' = Append(tape, entry) \/ UNCHANGED tape

Returns(r) == call' = "idle" /\ result' = r

Goes(place) == call' = place /\ UNCHANGED result

------------------------------------------------------------------------------
(* push *)

\* The frames are numbered, and their numbers are their times.  A push after
\* finish is not refused.
Push(kind) ==
  /\ call = "idle"
  /\ pushed < MaxFrames
  /\ pushed' = pushed + 1
  /\ \/ WriteOk(Entry(kind, pushed + 1)) /\ Goes("send")
     \/ WriteFails(Entry(kind, pushed + 1)) /\ Returns("err")
  /\ UNCHANGED <<kept, poses, handle, mapping, shared, mapper, sent, mapped,
                 emitted, late>>

WorkerEnded == worker \in {"done", "panicked"}

\* send fails, and that is ignored, when the receiver is gone.
Send ==
  /\ call = "send"
  /\ Goes("drain")
  /\ IF tx_open /\ ~WorkerEnded
     THEN /\ frames' = Append(frames, tape[Len(tape)])
          /\ sent' = Append(sent, tape[Len(tape)])
     ELSE UNCHANGED <<frames, sent>>
  /\ UNCHANGED <<tape, kept, poses, handle, mapping, tx_open, pose_channel,
                 stop, mapper, pushed, mapped, emitted, late, failures>>

\* Broken on purpose: a pose that could not be written stays in the channel; a
\* pose that is written at the end is not exported.
DrainRetrying ==
  /\ call \in {"drain", "end_drain"}
  /\ pose_channel # <<>>
  /\ LET n == Head(pose_channel)
     IN  \/ /\ WriteOk(Entry("pose", n))
            /\ pose_channel' = Tail(pose_channel)
            /\ poses' = Append(poses, n)
            /\ UNCHANGED <<call, result>>
         \/ /\ WriteFails(Entry("pose", n))
            /\ Returns("err")
            /\ UNCHANGED <<poses, pose_channel>>
  /\ UNCHANGED <<kept, handle, mapping, tx_open, frames, stop, mapper, pushed,
                 sent, mapped, emitted, late>>

DrainUnexported ==
  /\ call \in {"drain", "end_drain"}
  /\ pose_channel # <<>>
  /\ pose_channel' = Tail(pose_channel)
  /\ WriteOk(Entry("pose", Head(pose_channel)))
  /\ poses' = IF call = "drain" THEN Append(poses, Head(pose_channel)) ELSE poses
  /\ UNCHANGED <<call, result, kept, handle, mapping, tx_open, frames, stop,
                 mapper, pushed, sent, mapped, emitted, late>>

\* drain_poses, at the end of push and of end_mapping: one turn of the loop.
DrainPose ==
  /\ call \in {"drain", "end_drain"}
  /\ pose_channel # <<>>
  /\ pose_channel' = Tail(pose_channel)
  /\ LET n == Head(pose_channel)
     IN  \/ /\ WriteOk(Entry("pose", n))
            /\ poses' = Append(poses, n)
            /\ UNCHANGED <<call, result>>
         \/ /\ WriteFails(Entry("pose", n))
            /\ Returns("err")
            /\ UNCHANGED poses
  /\ UNCHANGED <<kept, handle, mapping, tx_open, frames, stop, mapper, pushed,
                 sent, mapped, emitted, late>>

DrainEnds ==
  /\ pose_channel = <<>>
  /\ \/ call = "drain" /\ Returns("ok")
     \/ call = "end_drain" /\ Goes("rec_finish")
  /\ UNCHANGED <<tape, kept, poses, handle, mapping, shared, mapper, history>>

------------------------------------------------------------------------------
(* finish, finish_now: end_mapping *)

\* Broken on purpose: the sender is kept until the worker has ended.
EndMappingConnected(drain) ==
  /\ call = "idle"
  /\ Goes(IF ~handle THEN "end_drain" ELSE IF drain THEN "join" ELSE "set_stop")
  /\ UNCHANGED <<tape, kept, poses, handle, mapping, shared, mapper, history>>

\* The sender is dropped; a second call finds the worker gone already.
EndMapping(drain) ==
  /\ call = "idle"
  /\ tx_open' = FALSE
  /\ Goes(IF ~handle THEN "end_drain" ELSE IF drain THEN "join" ELSE "set_stop")
  /\ UNCHANGED <<tape, kept, poses, handle, mapping, frames, pose_channel, stop,
                 mapper, history>>

SetStop ==
  /\ call = "set_stop"
  /\ stop' = TRUE
  /\ Goes("join")
  /\ UNCHANGED <<tape, kept, poses, handle, mapping, tx_open, frames,
                 pose_channel, mapper, history>>

\* Broken on purpose: the poses that came before the worker ended are not
\* drained before the footer is written.
JoinUndrained ==
  /\ call = "join"
  /\ WorkerEnded
  /\ handle' = FALSE
  /\ \/ worker = "done" /\ mapping' = TRUE /\ Goes("rec_finish")
     \/ worker = "panicked" /\ UNCHANGED mapping /\ Returns("err")
  /\ UNCHANGED <<tape, kept, poses, shared, mapper, history>>

Join ==
  /\ call = "join"
  /\ WorkerEnded
  /\ handle' = FALSE
  /\ \/ worker = "done" /\ mapping' = TRUE /\ Goes("end_drain")
     \/ worker = "panicked" /\ UNCHANGED mapping /\ Returns("err")
  /\ UNCHANGED <<tape, kept, poses, shared, mapper, history>>

\* Broken on purpose: the exported poses are counted a second time.
RecFinishTwice ==
  /\ call = "rec_finish"
  /\ kept' = (IF kept > 0 THEN kept ELSE Len(tape)) + Len(poses)
  /\ Returns("ok")
  /\ UNCHANGED <<tape, poses, handle, mapping, shared, mapper, history>>

\* rec.finish(): a second one returns Ok and does nothing.
RecFinish ==
  /\ call = "rec_finish"
  /\ \/ kept' = (IF kept > 0 THEN kept ELSE Len(tape)) /\ Returns("ok")
        /\ UNCHANGED failures
     \/ /\ kept = 0 /\ failures < MaxFailures
        /\ failures' = failures + 1 /\ Returns("err") /\ UNCHANGED kept
  /\ UNCHANGED <<tape, poses, handle, mapping, shared, mapper, pushed, sent,
                 mapped, emitted, late>>

------------------------------------------------------------------------------
(* Drop *)

Drop ==
  /\ call = "idle"
  /\ stop' = TRUE
  /\ Goes("drop_tx")
  /\ UNCHANGED <<tape, kept, poses, handle, mapping, tx_open, frames,
                 pose_channel, mapper, history>>

DropTx ==
  /\ call = "drop_tx"
  /\ tx_open' = FALSE
  /\ Goes("drop_join")
  /\ UNCHANGED <<tape, kept, poses, handle, mapping, frames, pose_channel, stop,
                 mapper, history>>

\* Then the fields go: rec, whose writer finishes the file if it can, and
\* pose_rx with the poses that are still in it.
DropJoin ==
  /\ call = "drop_join"
  /\ handle => WorkerEnded
  /\ handle' = FALSE
  /\ Goes("gone")
  /\ kept' \in (IF kept > 0 THEN {kept} ELSE {0, Len(tape)})
  /\ pose_channel' = <<>>
  /\ UNCHANGED <<tape, poses, mapping, tx_open, frames, stop, mapper, history>>

------------------------------------------------------------------------------
(* The worker *)

Ends(how) == worker' = how /\ frames' = <<>>

\* Broken on purpose: the flag is not looked at.
CheckNothing ==
  /\ worker = "check"
  /\ worker' = "recv"
  /\ UNCHANGED <<owner, shared, frame, posed, history>>

CheckStop ==
  /\ worker = "check"
  /\ IF stop THEN Ends("done") ELSE worker' = "recv" /\ UNCHANGED frames
  /\ UNCHANGED <<owner, tx_open, pose_channel, stop, frame, posed, history>>

\* recv delivers what is in the channel before it reports that the sender is
\* gone, and blocks while there is neither.
Recv ==
  /\ worker = "recv"
  /\ frames # <<>>
  /\ frame' = Head(frames) /\ frames' = Tail(frames)
  /\ mapped' = Append(mapped, Head(frames))
  /\ late' = IF stop THEN late + 1 ELSE late
  /\ worker' = "map"
  /\ UNCHANGED <<owner, tx_open, pose_channel, stop, posed, pushed, sent,
                 emitted, failures>>

Disconnected ==
  /\ worker = "recv"
  /\ frames = <<>> /\ ~tx_open
  /\ Ends("done")
  /\ UNCHANGED <<owner, tx_open, pose_channel, stop, frame, posed, history>>

\* The lidar frames the mapper was given and may still answer.
Unanswered ==
  {n \in Numbers : /\ n > posed
                   /\ \E i \in 1..Len(mapped) : mapped[i] = Entry("lidar", n)}

MapOne ==
  /\ worker = "map"
  /\ worker' = "check"
  /\ \/ UNCHANGED <<posed, pose_channel, emitted>>
     \/ /\ frame.kind = "lidar"
        /\ \E n \in Unanswered :
             /\ posed' = n
             /\ pose_channel' = Append(pose_channel, n)
             /\ emitted' = Append(emitted, n)
  /\ UNCHANGED <<owner, tx_open, frames, stop, frame, pushed, sent, mapped,
                 late, failures>>

Panics ==
  /\ MayPanic
  /\ worker = "map"
  /\ Ends("panicked")
  /\ UNCHANGED <<owner, tx_open, pose_channel, stop, frame, posed, history>>

------------------------------------------------------------------------------

\* What the owner does inside a method.
OwnerRuns ==
  \/ Send \/ DrainPose \/ DrainEnds \/ SetStop \/ Join \/ RecFinish
  \/ DropTx \/ DropJoin

OwnerCalls ==
  (\E kind \in Kinds : Push(kind)) \/ (\E d \in BOOLEAN : EndMapping(d)) \/ Drop

WorkerRuns == CheckStop \/ Recv \/ Disconnected \/ MapOne \/ Panics

Next == OwnerCalls \/ OwnerRuns \/ WorkerRuns

Spec == Init /\ [][Next]_vars

\* Both threads get their turns; nobody has to call a method.
FairSpec == Spec /\ WF_vars(OwnerRuns) /\ WF_vars(WorkerRuns)

------------------------------------------------------------------------------
(* Properties *)

TypeOK ==
  /\ call \in {"idle", "send", "drain", "set_stop", "join", "end_drain",
               "rec_finish", "drop_tx", "drop_join", "gone"}
  /\ tape \in Seq(TapeEntry)
  /\ kept \in 0..Len(tape)
  /\ poses \in Seq(Numbers)
  /\ handle \in BOOLEAN /\ mapping \in BOOLEAN
  /\ result \in {"ok", "err"}
  /\ tx_open \in BOOLEAN /\ stop \in BOOLEAN
  /\ frames \in Seq(Frame)
  /\ pose_channel \in Seq(Numbers)
  /\ worker \in {"check", "recv", "map", "done", "panicked"}
  /\ frame \in Frame \cup {NoFrame}
  /\ posed \in 0..MaxFrames
  /\ pushed \in 0..MaxFrames
  /\ sent \in Seq(Frame) /\ mapped \in Seq(Frame) /\ emitted \in Seq(Numbers)
  /\ late \in Nat
  /\ failures \in 0..MaxFailures

Recording == INSTANCE MappedRecording WITH Frames <- Numbers

\* However push, drain_poses and the worker interleave, what is recorded is
\* the sensor frames in the order of the pushes and, at most once, in order
\* and never before its frame, the pose of a lidar frame.
KeepsOrder == Recording!Spec

NumbersIn(s) == {s[i] : i \in 1..Len(s)}

PoseNumbers(t) == {t[i].n : i \in {k \in 1..Len(t) : t[k].kind = "pose"}}

\* No pose is lost without a call that returned Err: each pose the worker gave
\* is on its way, or exported, or a write of it failed, unless the recorder was
\* dropped without a finish; and if nothing failed, the poses exported are those
\* recorded, in the order of their frames.
NoPoseLost ==
  /\ call # "gone" =>
       Len(emitted) - Len(pose_channel) - Len(poses) \in 0..failures
  /\ failures = 0 =>
       /\ NumbersIn(poses) = PoseNumbers(tape)
       /\ \A i, j \in 1..Len(poses) : i < j => poses[i] < poses[j]

\* When finish has returned Ok no pose waits, none comes any more and none is
\* behind the footer; and if nothing told the worker to stop, the map is there
\* and every frame that was sent was mapped, or the mapper panicked.  Then the
\* first finish returned Err, but one that is called again finds no worker to
\* join and returns Ok with frames that were never mapped; what tells it from a
\* complete one is that there is no map.  (The poses of writes that failed are
\* those NoPoseLost counts.)
FinishIsComplete ==
  kept > 0 /\ call # "gone" =>
    /\ WorkerEnded /\ pose_channel = <<>>
    /\ \A i \in kept + 1..Len(tape) : tape[i].kind # "pose"
    /\ ~stop => IF mapping THEN mapped = sent ELSE worker = "panicked"

\* finish_now and drop discard the backlog: at most one frame is taken after
\* stop was set.
StopIsPrompt == late <= 1

\* Every call returns: the owner does not wait for a worker that waits for it.
CallsReturn == call # "idle" ~> call \in {"idle", "gone"}

\* The chunks of the file are in the order of time, and so is the whole time
\* line: docs/doracap-format.md:76.
ChunksFollowTime ==
  \A i, j \in 1..Len(tape) :
    (i - 1) \div ChunkSize < (j - 1) \div ChunkSize => tape[i].n <= tape[j].n
==============================================================================
