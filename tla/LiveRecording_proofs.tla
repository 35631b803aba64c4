------------------------ MODULE LiveRecording_proofs ------------------------
(***************************************************************************)
(* Proofs about LiveRecording, for any number of frames and failures:      *)
(* being told to end costs at most the frame at hand, the map is there     *)
(* when it is exported, what is proved of LioRecorder holds in the program *)
(* that uses it, and success means that everything was recorded.           *)
(***************************************************************************)
EXTENDS LiveRecording, LioRecorder_proofs

\* Where the main thread has no call to wait for.
Between ==
  {"deadline", "interrupt", "source", "finish", "recorded", "export", "leave"}

InLoop == {"deadline", "interrupt", "source", "push", "finish"}

\* finish joins the worker and so has the map before it can return Ok.
Finishing ==
  /\ call \in {"set_stop", "join", "end_drain", "rec_finish", "idle"}
  /\ call \in {"set_stop", "join"} => handle
  /\ call \in {"end_drain", "rec_finish"} => mapping
  /\ call = "idle" /\ result = "ok" => mapping

LoopInv ==
  /\ map \in BOOLEAN
  /\ at \in Between => call = "idle"
  /\ at = "push" => call \in {"send", "drain", "idle"}
  /\ at \in InLoop => handle
  /\ at = "finishing" => Finishing
  /\ at \in {"recorded", "export"} => mapping
  /\ status # "panic"

\* A frame taken too late is the last one: the way back to the source leads
\* past the deadline and the flag, and neither is ever taken back.
ToldInv ==
  /\ overrun \in {0, 1}
  /\ overrun = 1 => at # "source" /\ (interrupted \/ deadline = "passed")
  /\ overrun = 1 /\ at = "interrupt" => interrupted

Inv == LoopInv /\ ToldInv

LEMMA InitInv == LiveInit => Inv
<1> SUFFICES ASSUME LiveInit PROVE Inv
  OBVIOUS
<1>1. call = "idle" /\ handle = TRUE
  BY DEF LiveInit, Init
<1>2. /\ at = "deadline" /\ map \in BOOLEAN
      /\ overrun = 0 /\ status = "none"
  BY DEF LiveInit
<1> QED
  BY <1>1, <1>2 DEF Inv, LoopInv, ToldInv, Between, InLoop

------------------------------------------------------------------------------
(* The steps *)

LEMMA Quiet ==
  ASSUME Inv, UNCHANGED <<vars, loopVars>>
  PROVE  Inv'
  BY DEF Inv, LoopInv, ToldInv, Finishing, vars, owner, loopVars, options

LEMMA ClockInv ==
  ASSUME Inv, Interrupt \/ DeadlinePasses
  PROVE  Inv'
  BY DEF Interrupt, DeadlinePasses, Inv, LoopInv, ToldInv, Finishing, vars,
         owner, options

LEMMA ChecksInv ==
  ASSUME Inv, \/ CheckDeadline \/ CheckInterrupt \/ SourceIsEmpty \/ SourceEnds
              \/ PushReturns \/ FinishReturns
  PROVE  Inv'
<1>1. CASE CheckDeadline
  BY <1>1 DEF CheckDeadline, Inv, LoopInv, ToldInv, Between, InLoop, vars,
              owner, options
<1>2. CASE CheckInterrupt
  BY <1>2 DEF CheckInterrupt, Inv, LoopInv, ToldInv, Between, InLoop, vars,
              owner, options
<1>3. CASE SourceIsEmpty \/ SourceEnds
  BY <1>3 DEF SourceIsEmpty, SourceEnds, Inv, LoopInv, ToldInv, Between,
              InLoop, vars, owner, options
<1>4. CASE PushReturns
  BY <1>4 DEF PushReturns, ReturnsTo, Inv, LoopInv, ToldInv, Between,
              InLoop, vars, owner, options
<1>5. CASE FinishReturns
  BY <1>5 DEF FinishReturns, ReturnsTo, Inv, LoopInv, ToldInv, Between,
              Finishing, InLoop, vars, owner, options
<1> QED
  BY <1>1, <1>2, <1>3, <1>4, <1>5

LEMMA CallsInv ==
  ASSUME Inv, \/ \E kind \in Kinds : Record(kind)
              \/ EndRecording \/ Recorded \/ ExportMap \/ Leave
  PROVE  Inv'
<1>1. ASSUME NEW kind \in Kinds, Record(kind) PROVE Inv'
  BY <1>1 DEF Record, Push, Goes, Returns, Inv, LoopInv, ToldInv, Between,
              InLoop, options
<1>2. CASE EndRecording
  BY <1>2 DEF EndRecording, EndMapping, Goes, Inv, LoopInv, ToldInv, Between,
              Finishing, InLoop, options
<1>3. CASE Recorded
  BY <1>3 DEF Recorded, Leaves, Inv, LoopInv, ToldInv, Between, InLoop,
              vars, owner, options
<1>4. CASE ExportMap
  BY <1>4 DEF ExportMap, Leaves, Inv, LoopInv, ToldInv, Between, InLoop,
              vars, owner, options
<1>5. CASE Leave
  BY <1>5 DEF Leave, Drop, Goes, Inv, LoopInv, ToldInv, Between, InLoop,
              options
<1> QED
  BY <1>1, <1>2, <1>3, <1>4, <1>5

LEMMA OwnerInv ==
  ASSUME Inv, OwnerRuns, UNCHANGED loopVars
  PROVE  Inv'
<1>1. ToldInv'
  BY DEF Inv, ToldInv, loopVars
<1>2. CASE Send \/ DrainPose \/ DrainEnds
  BY <1>1, <1>2 DEF Send, DrainPose, DrainEnds, Goes, Returns, Inv, LoopInv,
    Between, Finishing, InLoop, loopVars, options
<1>3. CASE SetStop \/ RecFinish
  BY <1>1, <1>3 DEF SetStop, RecFinish, Goes, Returns, Inv, LoopInv, Between,
    Finishing, InLoop, loopVars, options
<1>4. CASE Join
  BY <1>1, <1>4 DEF Join, Goes, Returns, Inv, LoopInv, Between, Finishing,
    InLoop, loopVars, options
<1>5. CASE DropTx \/ DropJoin
  BY <1>1, <1>5 DEF DropTx, DropJoin, Goes, Inv, LoopInv, Between, Finishing,
    InLoop, loopVars, options
<1> QED
  BY <1>2, <1>3, <1>4, <1>5 DEF OwnerRuns

LEMMA WorkerInv ==
  ASSUME Inv, WorkerRuns, UNCHANGED loopVars
  PROVE  Inv'
<1>1. UNCHANGED owner
  BY DEF WorkerRuns, CheckStop, Recv, Disconnected, MapOne, Panics
<1> QED
  BY <1>1 DEF Inv, LoopInv, ToldInv, Finishing, owner, loopVars, options

LEMMA StepInv == Inv /\ [LiveNext]_<<vars, loopVars>> => Inv'
<1> SUFFICES ASSUME Inv, [LiveNext]_<<vars, loopVars>> PROVE Inv'
  OBVIOUS
<1> QED
  BY Quiet, ClockInv, ChecksInv, CallsInv, OwnerInv, WorkerInv
  DEF LiveNext, MainRuns, MapperRuns, LoopRuns

LEMMA InvHolds == LiveSpec => []Inv
  BY InitInv, StepInv, PTL DEF LiveSpec

------------------------------------------------------------------------------
(* Theorems *)

\* export_map never meets the panic of mapping_mut, whatever fails and wherever
\* the mapper panics: record_loop returns Ok only with the map in place
\* (end_mapping, record_loop, export_map).
THEOREM MapIsThere == LiveSpec => []ExportHasMap
<1>1. Inv => ExportHasMap
  BY DEF Inv, LoopInv, ExportHasMap
<1>2. QED
  BY <1>1, InvHolds, PTL

\* After Ctrl+C or the deadline at most one more frame is recorded, for any
\* number of frames the source still has (record_loop).
THEOREM EndsPromptly == LiveSpec => []StopsAtOnce
<1>1. Inv => StopsAtOnce
  BY DEF Inv, ToldInv, StopsAtOnce
<1>2. QED
  BY <1>1, InvHolds, PTL

LEMMA UsesSteps == Inv /\ [LiveNext]_<<vars, loopVars>> => [Next]_vars
<1> SUFFICES ASSUME Inv, [LiveNext]_<<vars, loopVars>> PROVE Next \/ UNCHANGED vars
  OBVIOUS
<1>1. CASE \E kind \in Kinds : Record(kind)
  BY <1>1 DEF Record, Next, OwnerCalls
<1>2. CASE EndRecording
  BY <1>2 DEF EndRecording, Next, OwnerCalls, Inv, LoopInv
<1>3. CASE Leave
  BY <1>3 DEF Leave, Next, OwnerCalls
<1>4. CASE CheckDeadline \/ CheckInterrupt \/ SourceIsEmpty \/ SourceEnds
             \/ Recorded \/ ExportMap
  BY <1>4 DEF CheckDeadline, CheckInterrupt, SourceIsEmpty, SourceEnds,
              Recorded, ExportMap
<1>5. CASE PushReturns \/ FinishReturns
  BY <1>5 DEF PushReturns, FinishReturns, ReturnsTo
<1>6. CASE Interrupt \/ DeadlinePasses
  BY <1>6 DEF Interrupt, DeadlinePasses
<1>7. CASE OwnerRuns \/ WorkerRuns
  BY <1>7 DEF Next
<1> QED
  BY <1>1, <1>2, <1>3, <1>4, <1>5, <1>6, <1>7
  DEF LiveNext, MainRuns, MapperRuns, LoopRuns

\* The program uses LioRecorder as LioRecorder is specified, so the recordings
\* it makes are ordered like those: frames in the order of the pushes, and poses
\* at most once, in order and behind their frames (record_loop, push,
\* end_mapping).
THEOREM ProgramKeepsOrder == LiveSpec => Spec /\ KeepsOrder
<1>1. LiveInit => Init
  BY DEF LiveInit
<1>2. LiveSpec => Spec
  BY <1>1, UsesSteps, InvHolds, PTL DEF LiveSpec, Spec
<1>3. QED
  BY <1>2, RecordingImplemented

------------------------------------------------------------------------------
(***************************************************************************)
(* A program which reports success has recorded all of it, wherever the    *)
(* mapper panics, and whenever it is told to end.                          *)
(*                                                                         *)
(* While no call has returned Err nothing has failed, so that the tape has *)
(* every frame and every pose is exported or in the channel; the footer is *)
(* written last, and nothing is written behind it.                         *)
(***************************************************************************)

\* Nothing has gone wrong so far: neither a call that returned, nor the one
\* whose result is about to be looked at, has failed.
Well ==
  /\ status # "err"
  /\ call = "idle" /\ at \in {"push", "finishing"} => result = "ok"

\* finish returned Ok.
Finished ==
  \/ at \in {"recorded", "export"} \/ status = "ok"
  \/ at = "finishing" /\ call = "idle" /\ result = "ok"

\* Where the program is and what it has called.
PlaceInv ==
  /\ status \in {"none", "ok", "err"}
  /\ at \in {"leave", "exit"} <=> status # "none"
  /\ at = "exit" => call \in {"drop_tx", "drop_join", "gone"}
  /\ at \in Between \cup {"push", "finishing", "exit"}
  /\ at \in InLoop => tx_open /\ ~stop
  /\ at = "finishing" /\ map => ~stop /\ call # "set_stop"
  /\ worker = "done" => stop \/ ~tx_open
  /\ at = "finishing" /\ call \in {"end_drain", "rec_finish"} => worker = "done"
  /\ at \in InLoop \/ (at = "finishing" /\ call # "idle") => kept = 0
  /\ at = "finishing" /\ call = "rec_finish" => pose_channel = <<>>

\* What is on the way while all is well.
WellInv ==
  Well =>
    /\ failures = 0
    /\ emitted = poses \o pose_channel
    /\ SensorNumbers(tape) = 1..total
    /\ worker # "panicked" => AllSent

\* What finish leaves behind stays until the program ends.
FinishedInv ==
  Finished =>
    /\ kept = Len(tape) /\ pose_channel = <<>> /\ worker = "done"
    /\ map => mapped = sent

CompleteInv ==
  total = pushed /\ PlaceInv /\ WellInv /\ FinishedInv

Assumed == TypeInv /\ Inv /\ FramesInv /\ CompleteInv

------------------------------------------------------------------------------
(* Where the program is *)

LEMMA PlaceLoop ==
  ASSUME Inv, PlaceInv,
         \/ \E kind \in Kinds : Record(kind)
         \/ CheckDeadline \/ CheckInterrupt \/ SourceIsEmpty \/ SourceEnds
         \/ PushReturns \/ EndRecording \/ FinishReturns
         \/ Recorded \/ ExportMap \/ Leave
  PROVE  PlaceInv'
<1>1. ASSUME NEW kind \in Kinds, Record(kind) PROVE PlaceInv'
  BY <1>1 DEF Record, Push, Goes, Returns, PlaceInv, Between, InLoop, options,
    shared, mapper
<1>2. CASE CheckDeadline \/ CheckInterrupt \/ SourceIsEmpty \/ SourceEnds
  BY <1>2 DEF CheckDeadline, CheckInterrupt, SourceIsEmpty, SourceEnds,
    PlaceInv, Between, InLoop, options, vars, owner, shared, mapper
<1>3. CASE PushReturns \/ FinishReturns
  BY <1>3 DEF PushReturns, FinishReturns, ReturnsTo, PlaceInv, Between, InLoop,
    options, vars, owner, shared, mapper
<1>4. CASE EndRecording
  BY <1>4 DEF EndRecording, EndMapping, Goes, Inv, LoopInv, PlaceInv, Between,
    InLoop, options, mapper
<1>5. CASE Recorded \/ ExportMap
  BY <1>5 DEF Recorded, ExportMap, Leaves, Inv, LoopInv, PlaceInv, Between,
    InLoop, options, vars, owner, shared, mapper
<1>6. CASE Leave
  BY <1>6 DEF Leave, Drop, Goes, PlaceInv, Between, InLoop, options, mapper
<1>7. QED
  BY <1>1, <1>2, <1>3, <1>4, <1>5, <1>6

LEMMA PlaceRuns ==
  ASSUME Inv, PlaceInv, OwnerRuns \/ WorkerRuns, UNCHANGED loopVars
  PROVE  PlaceInv'
<1>1. UNCHANGED <<at, live, map, status>>
  BY DEF loopVars, options
<1>2. CASE Send \/ DrainPose \/ DrainEnds
  BY <1>1, <1>2 DEF Send, DrainPose, DrainEnds, Goes, Returns, PlaceInv,
    Between, InLoop, Inv, LoopInv, Finishing, shared, mapper
<1>3. CASE SetStop \/ Join
  BY <1>1, <1>3 DEF SetStop, Join, Goes, Returns, PlaceInv, Between, InLoop,
    Inv, LoopInv, Finishing, shared, mapper
<1>4. CASE RecFinish \/ DropTx \/ DropJoin
  BY <1>1, <1>4 DEF RecFinish, DropTx, DropJoin, Goes, Returns, PlaceInv,
    Between, InLoop, Inv, LoopInv, Finishing, shared, mapper
<1>5. CASE WorkerRuns
  BY <1>1, <1>5 DEF WorkerRuns, CheckStop, Recv, Disconnected, MapOne, Panics,
    Ends, PlaceInv, owner
<1>6. QED
  BY <1>2, <1>3, <1>4, <1>5 DEF OwnerRuns

LEMMA PlaceQuiet ==
  ASSUME PlaceInv,
         Interrupt \/ DeadlinePasses \/ UNCHANGED <<vars, loopVars>>
  PROVE  PlaceInv'
  BY DEF Interrupt, DeadlinePasses, loopVars, options, vars, owner, shared,
    mapper, PlaceInv

------------------------------------------------------------------------------
(* While all is well nothing has failed *)

LEMMA CallPlaces ==
  ASSUME Inv, PlaceInv
  PROVE  /\ call # "idle" => at \in {"push", "finishing", "exit"}
         /\ call \in {"send", "drain"} => at = "push"
         /\ call \in {"set_stop", "join", "end_drain", "rec_finish"} =>
              at = "finishing"
         /\ call \in {"drop_tx", "drop_join", "gone"} => at = "exit"
  BY DEF Inv, LoopInv, PlaceInv, Between, Finishing

LEMMA WellBack ==
  ASSUME TypeOK, Inv, PlaceInv, [LiveNext]_<<vars, loopVars>>, Well'
  PROVE  Well /\ failures' = failures
<1>1. ASSUME NEW kind \in Kinds, Record(kind) PROVE Well /\ failures' = failures
  BY <1>1 DEF Record, Push, WriteOk, WriteFails, Returns, Goes, PlaceInv, Well
<1>2. CASE CheckDeadline \/ CheckInterrupt \/ SourceIsEmpty \/ SourceEnds
  BY <1>2 DEF CheckDeadline, CheckInterrupt, SourceIsEmpty, SourceEnds, Well,
    vars, owner, history
<1>3. CASE PushReturns \/ FinishReturns
  BY <1>3 DEF PushReturns, FinishReturns, ReturnsTo, Well, vars, owner, history
<1>4. CASE EndRecording
  BY <1>4 DEF EndRecording, EndMapping, Goes, Well, history
<1>5. CASE Recorded \/ ExportMap
  BY <1>5 DEF Recorded, ExportMap, Leaves, PlaceInv, Well, vars, owner, history
<1>6. CASE Leave
  BY <1>6 DEF Leave, Drop, Goes, Well, history
<1>7. CASE Interrupt \/ DeadlinePasses \/ UNCHANGED <<vars, loopVars>>
  BY <1>7 DEF Interrupt, DeadlinePasses, loopVars, vars, owner, history, Well
<1>8. CASE OwnerRuns /\ UNCHANGED loopVars
  <2>1. UNCHANGED <<at, status>> /\ call # "idle"
    BY <1>8 DEF loopVars, OwnerRuns, Send, DrainPose, DrainEnds, SetStop, Join,
      RecFinish, DropTx, DropJoin
  <2>2. Well
    BY <2>1 DEF Well
  <2>3. (call' = "idle" /\ result' = "err") \/ failures' = failures
    BY <1>8 DEF OwnerRuns, Send, DrainPose, DrainEnds, SetStop, Join,
      RecFinish, DropTx, DropJoin, WriteOk, WriteFails, Returns, history
  <2>4. call' = "idle" => at \in {"push", "finishing"}
    <3>1. call' = "idle" => call \in {"drain", "end_drain", "join", "rec_finish"}
      BY <1>8, <2>1 DEF OwnerRuns, Send, DrainPose, DrainEnds, SetStop, Join,
        RecFinish, DropTx, DropJoin, Goes
    <3>2. QED
      BY <3>1, CallPlaces
  <2>5. QED
    BY <2>1, <2>2, <2>3, <2>4 DEF Well
<1>9. CASE WorkerRuns /\ UNCHANGED loopVars
  BY <1>9 DEF WorkerRuns, CheckStop, Recv, Disconnected, MapOne, Panics, Well,
    owner, history, loopVars
<1>10. QED
  BY <1>1, <1>2, <1>3, <1>4, <1>5, <1>6, <1>7, <1>8, <1>9
  DEF LiveNext, MainRuns, MapperRuns, LoopRuns

LEMMA SensorNumbersAppend ==
  ASSUME NEW t \in Seq(TapeEntry), NEW e \in TapeEntry
  PROVE  SensorNumbers(Append(t, e)) =
           IF e.kind \in Kinds THEN SensorNumbers(t) \cup {e.n}
           ELSE SensorNumbers(t)
  BY InTapeAppend DEF SensorNumbers

\* The steps after which the recorder's data is as before.
Still ==
  \/ CheckDeadline \/ CheckInterrupt \/ SourceIsEmpty \/ SourceEnds
  \/ PushReturns \/ FinishReturns \/ Recorded \/ ExportMap
  \/ Interrupt \/ DeadlinePasses \/ UNCHANGED <<vars, loopVars>>

LEMMA StillKeeps == Still => UNCHANGED <<vars, total>>
  BY DEF Still, CheckDeadline, CheckInterrupt, SourceIsEmpty, SourceEnds,
    PushReturns, FinishReturns, ReturnsTo, Recorded, ExportMap, Interrupt,
    DeadlinePasses, loopVars

LEMMA EmittedStep ==
  ASSUME Assumed, [LiveNext]_<<vars, loopVars>>, Well'
  PROVE  emitted' = poses' \o pose_channel'
<1>1. /\ TypeOK /\ Inv /\ PlaceInv /\ FinishedInv
      /\ emitted = poses \o pose_channel
      /\ failures' = failures /\ Well
  BY WellBack DEF Assumed, TypeInv, CompleteInv, WellInv
<1>2. DropJoin => pose_channel = <<>>
  <2>1. SUFFICES ASSUME DropJoin
                 PROVE  pose_channel = <<>>
    OBVIOUS
  <2>2. at = "exit"
    BY <1>1, <2>1, CallPlaces DEF DropJoin
  <2>3. status = "ok"
    BY <1>1, <2>2 DEF PlaceInv, Well
  <2>4. QED
    BY <1>1, <2>3 DEF FinishedInv, Finished
<1>3. [Next]_vars
  BY <1>1, UsesSteps
<1>4. QED
  BY <1>1, <1>2, <1>3, EmittedKept

LEMMA SensorsStep ==
  ASSUME Assumed, [LiveNext]_<<vars, loopVars>>, Well'
  PROVE  SensorNumbers(tape') = 1..total'
<1>1. /\ TypeOK /\ SensorNumbers(tape) = 1..total /\ total = pushed
      /\ failures' = failures
  BY WellBack DEF Assumed, TypeInv, CompleteInv, WellInv
<1>2. tape \in Seq(TapeEntry) /\ total \in Nat
  BY <1>1 DEF TypeOK
<1>3. ASSUME NEW kind \in Kinds, Record(kind)
      PROVE  SensorNumbers(tape') = 1..total'
  <2> DEFINE e == Entry(kind, pushed + 1)
  <2>1. /\ failures' # failures + 1
        /\ pushed < MaxFrames /\ total' = total + 1
    BY <1>1, <1>3 DEF Record, Push, TypeOK
  <2>2. tape' = Append(tape, e)
    BY <1>3, <2>1 DEF Record, Push, WriteOk, WriteFails
  <2>3. e \in TapeEntry /\ e.kind = kind /\ e.n = total + 1
    <3>1. kind \in {"scene", "imu", "lidar", "pose"}
      BY DEF Kinds
    <3>2. pushed + 1 \in 0..MaxFrames
      <4>1. pushed \in 0..MaxFrames /\ pushed < MaxFrames
        BY <1>1, <2>1 DEF TypeOK
      <4>2. QED
        BY <4>1, RecorderAssumption
    <3>3. QED
      BY <1>1, <3>1, <3>2, EntryType
  <2> HIDE DEF e
  <2>4. SensorNumbers(tape') = SensorNumbers(tape) \cup {total + 1}
    BY <1>2, <2>2, <2>3, SensorNumbersAppend
  <2>5. QED
    BY <1>1, <1>2, <2>1, <2>4
<1>4. CASE DrainPose /\ UNCHANGED loopVars
  <2> DEFINE e == Entry("pose", Head(pose_channel))
  <2>1. tape' = Append(tape, e)
    BY <1>1, <1>4 DEF DrainPose, WriteOk, WriteFails, TypeOK
  <2>2. e \in TapeEntry /\ e.kind \notin Kinds
    <3>1. Head(pose_channel) \in 0..MaxFrames
      <4>1. pose_channel \in Seq(Numbers) /\ pose_channel # <<>>
        BY <1>1, <1>4 DEF DrainPose, TypeOK
      <4>2. Head(pose_channel) \in Numbers
        BY <4>1, TailOf
      <4>3. QED
        BY <4>2 DEF Numbers
    <3>2. e \in TapeEntry /\ e.kind = "pose"
      BY <3>1, EntryType
    <3>3. QED
      BY <3>2 DEF Kinds
  <2> HIDE DEF e
  <2>3. total' = total
    BY <1>4 DEF loopVars
  <2>4. QED
    BY <1>1, <1>2, <2>1, <2>2, <2>3, SensorNumbersAppend
<1>5. CASE \/ Still \/ EndRecording \/ Leave
  <2>1. UNCHANGED <<tape, total>>
    BY <1>5, StillKeeps DEF vars, owner, EndRecording, EndMapping, Leave, Drop
  <2>2. QED
    BY <1>1, <2>1
<1>6. CASE /\ \/ Send \/ DrainEnds \/ SetStop \/ Join \/ RecFinish \/ DropTx
              \/ DropJoin \/ WorkerRuns
           /\ UNCHANGED loopVars
  <2>1. UNCHANGED <<tape, total>>
    BY <1>6 DEF Send, DrainEnds, SetStop, Join, RecFinish, DropTx, DropJoin,
      WorkerRuns, CheckStop, Recv, Disconnected, MapOne, Panics, owner, loopVars
  <2>2. QED
    BY <1>1, <2>1
<1>7. QED
  BY <1>3, <1>4, <1>5, <1>6
  DEF LiveNext, MainRuns, MapperRuns, LoopRuns, OwnerRuns, Still

\* In the loop the worker is never done, so that every frame pushed is sent.
LEMMA SentStep ==
  ASSUME Assumed, [LiveNext]_<<vars, loopVars>>, Well', worker' # "panicked"
  PROVE  AllSent'
<1>1. /\ TypeInv /\ PlaceInv /\ Inv /\ failures' = failures
      /\ worker # "panicked" => AllSent
  BY WellBack DEF Assumed, TypeInv, CompleteInv, WellInv
<1>2. [Next]_vars
  BY <1>1, UsesSteps
<1>3. worker # "panicked"
  BY <1>2, NoWayBack
<1>4. Send => tx_open /\ ~WorkerEnded
  BY <1>1, <1>3, CallPlaces DEF Send, PlaceInv, InLoop, WorkerEnded
<1>5. QED
  BY <1>1, <1>2, <1>3, <1>4, SentKept

LEMMA WellStep ==
  ASSUME Assumed, [LiveNext]_<<vars, loopVars>>
  PROVE  WellInv'
<1>1. ASSUME Well' PROVE failures' = 0
  BY <1>1, WellBack DEF Assumed, TypeInv, CompleteInv, WellInv
<1>2. QED
  BY <1>1, EmittedStep, SensorsStep, SentStep DEF WellInv

------------------------------------------------------------------------------
(* After finish *)

LEMMA FinishedStep ==
  ASSUME Assumed, [LiveNext]_<<vars, loopVars>>
  PROVE  FinishedInv'
<1> SUFFICES ASSUME Finished'
             PROVE  /\ kept' = Len(tape') /\ pose_channel' = <<>>
                    /\ worker' = "done"
                    /\ map' => mapped' = sent'
  BY DEF FinishedInv
<1>1. PlaceInv /\ Inv /\ FinishedInv /\ FramesInv
  BY DEF Assumed, CompleteInv
<1>2. CASE Finished /\ (Still \/ Leave)
  <2>1. UNCHANGED <<tape, kept, pose_channel, worker, mapped, sent, map>>
    BY <1>2 DEF Still, CheckDeadline, CheckInterrupt, SourceIsEmpty, SourceEnds,
      PushReturns, FinishReturns, ReturnsTo, Recorded, ExportMap, Interrupt,
      DeadlinePasses, loopVars, options, Leave, Drop, vars, owner, shared,
      mapper, history
  <2>2. QED
    BY <1>1, <1>2, <2>1 DEF FinishedInv
<1>3. CASE ~Finished /\ (Still \/ Leave)
  <2>1. ~Finished'
    BY <1>1, <1>3 DEF Still, CheckDeadline, CheckInterrupt, SourceIsEmpty,
      SourceEnds, PushReturns, FinishReturns, ReturnsTo, Recorded, ExportMap,
      Interrupt, DeadlinePasses, Leaves, Leave, Drop, Goes, Finished, PlaceInv,
      loopVars, options, vars, owner
  <2>2. QED
    BY <2>1
<1>4. CASE (\E kind \in Kinds : Record(kind)) \/ EndRecording
  <2>1. ~Finished'
    BY <1>1, <1>4 DEF Record, Push, EndRecording, EndMapping, Goes, Finished,
      PlaceInv
  <2>2. QED
    BY <2>1
<1>5. CASE RecFinish /\ UNCHANGED loopVars
  <2>1. /\ at = "finishing" /\ call = "rec_finish" /\ UNCHANGED <<at, status>>
    BY <1>1, <1>5, CallPlaces DEF RecFinish, loopVars
  <2>2. result' = "ok"
    BY <1>1, <2>1 DEF Finished, PlaceInv
  <2>3. kept = 0 /\ worker = "done" /\ pose_channel = <<>> /\ (map => ~stop)
    BY <1>1, <2>1 DEF PlaceInv
  <2>4. /\ kept' = Len(tape)
        /\ UNCHANGED <<tape, pose_channel, worker, mapped, sent, map>>
    BY <1>5, <2>2, <2>3 DEF RecFinish, Returns, shared, mapper, loopVars,
      options
  <2>5. map => mapped = sent
    BY <1>1, <2>3 DEF FramesInv
  <2>6. QED
    BY <2>3, <2>4, <2>5
<1>6. CASE DropJoin /\ UNCHANGED loopVars
  <2>1. at = "exit" /\ UNCHANGED <<at, status>>
    BY <1>1, <1>6, CallPlaces DEF DropJoin, loopVars
  <2>2. Finished
    BY <2>1 DEF Finished
  <2>3. /\ kept = Len(tape) /\ pose_channel = <<>> /\ worker = "done"
        /\ map => mapped = sent
    BY <1>1, <2>2 DEF FinishedInv
  <2>4. /\ kept' \in (IF kept > 0 THEN {kept} ELSE {0, Len(tape)})
        /\ UNCHANGED <<tape, worker, mapped, sent, map>>
        /\ pose_channel' = <<>>
    BY <1>6 DEF DropJoin, mapper, history, loopVars, options
  <2>5. Len(tape) \in Nat
    BY DEF Assumed, TypeInv, TypeOK
  <2>6. kept' = Len(tape)
    BY <2>3, <2>4, <2>5
  <2>7. QED
    BY <2>3, <2>4, <2>6
<1>7. CASE DropTx /\ UNCHANGED loopVars
  <2>1. /\ at = "exit" /\ UNCHANGED <<at, status>>
        /\ UNCHANGED <<tape, kept, pose_channel, worker, mapped, sent, map>>
    BY <1>1, <1>7, CallPlaces DEF DropTx, loopVars, options, mapper, history
  <2>2. Finished
    BY <2>1 DEF Finished
  <2>3. QED
    BY <1>1, <2>1, <2>2 DEF FinishedInv
<1>8. CASE /\ Send \/ DrainPose \/ DrainEnds \/ SetStop \/ Join
           /\ UNCHANGED loopVars
  <2>1. at \in {"push", "finishing"} /\ UNCHANGED <<at, status>>
    BY <1>1, <1>8, CallPlaces DEF Send, DrainPose, DrainEnds, SetStop, Join,
      loopVars
  <2>2. at = "finishing" => call \in {"set_stop", "join", "end_drain"}
    BY <1>1, <1>8, CallPlaces DEF Send, DrainPose, DrainEnds, SetStop, Join
  <2>3. at = "finishing" => call' # "idle" \/ result' = "err"
    BY <1>8, <2>2 DEF Send, DrainPose, DrainEnds, SetStop, Join, Goes, Returns
  <2>4. ~Finished'
    BY <1>1, <2>1, <2>3 DEF Finished, PlaceInv
  <2>5. QED
    BY <2>4
<1>9. CASE WorkerRuns /\ UNCHANGED loopVars
  <2>1. UNCHANGED <<at, status, call, result>> /\ worker # "done"
    BY <1>9 DEF WorkerRuns, CheckStop, Recv, Disconnected, MapOne, Panics,
      owner, loopVars
  <2>2. Finished
    BY <2>1 DEF Finished
  <2>3. QED
    BY <1>1, <2>1, <2>2 DEF FinishedInv
<1>10. QED
  BY <1>2, <1>3, <1>4, <1>5, <1>6, <1>7, <1>8, <1>9
  DEF LiveNext, MainRuns, MapperRuns, LoopRuns, OwnerRuns, Still

------------------------------------------------------------------------------
(* Theorem *)

LEMMA TotalStep ==
  ASSUME total = pushed, [LiveNext]_<<vars, loopVars>>
  PROVE  total' = pushed'
  BY StillKeeps DEF LiveNext, MainRuns, MapperRuns, LoopRuns, Still, vars,
    loopVars, history, Record, Push, EndRecording, EndMapping, Leave, Drop,
    OwnerRuns, Send, DrainPose, DrainEnds, SetStop, Join, RecFinish, DropTx,
    DropJoin, WorkerRuns, CheckStop, Recv, Disconnected, MapOne, Panics

LEMMA PlaceStep ==
  ASSUME Inv, PlaceInv, [LiveNext]_<<vars, loopVars>>
  PROVE  PlaceInv'
  BY PlaceLoop, PlaceRuns, PlaceQuiet
  DEF LiveNext, MainRuns, MapperRuns, LoopRuns

LEMMA InitAssumed == LiveInit => Assumed
<1> SUFFICES ASSUME LiveInit PROVE Assumed
  OBVIOUS
<1>1. Init
  BY DEF LiveInit
<1>2. /\ at = "deadline" /\ status = "none" /\ total = 0
  BY DEF LiveInit
<1>3. PlaceInv
  BY <1>1, <1>2 DEF Init, PlaceInv, Between, InLoop
<1>4. WellInv
  <2>1. /\ Len(tape) = 1 /\ tape[1] = Entry("scene", 0)
        /\ emitted = <<>> /\ poses = <<>> /\ pose_channel = <<>>
        /\ failures = 0 /\ sent = <<>> /\ call = "idle"
    BY <1>1 DEF Init
  <2>2. SensorNumbers(tape) = {}
    BY <2>1 DEF SensorNumbers, Entry, Kinds
  <2>3. emitted = poses \o pose_channel
    BY <2>1
  <2>4. QED
    BY <1>2, <2>1, <2>2, <2>3, <1>1 DEF WellInv, AllSent, Init
<1>5. FinishedInv /\ total = pushed
  BY <1>1, <1>2 DEF Init, FinishedInv, Finished
<1>6. QED
  BY <1>1, <1>3, <1>4, <1>5, InitType, InitInv, InitComplete
  DEF Assumed, CompleteInv

LEMMA StepAssumed == Assumed /\ [LiveNext]_<<vars, loopVars>> => Assumed'
<1> SUFFICES ASSUME Assumed, [LiveNext]_<<vars, loopVars>> PROVE Assumed'
  OBVIOUS
<1>1. TypeInv /\ Inv /\ FramesInv /\ PlaceInv /\ total = pushed
  BY DEF Assumed, CompleteInv
<1>2. [Next]_vars
  BY <1>1, UsesSteps
<1>3. TypeInv' /\ FramesInv'
  BY <1>1, <1>2, StepType, FramesStep
<1>4. Inv' /\ PlaceInv' /\ (total = pushed)'
  BY <1>1, StepInv, PlaceStep, TotalStep
<1>5. QED
  BY <1>3, <1>4, WellStep, FinishedStep DEF Assumed, CompleteInv

\* A program that reports success has lost nothing: every frame the source gave
\* is in the file, every pose the mapper gave is exported and in the file, and
\* with the map asked for every frame was mapped; for any number of frames,
\* failing writes and interleavings (record_loop, push, end_mapping, Drop).
THEOREM SuccessMeansComplete == LiveSpec => []SuccessIsComplete
<1>1. Assumed => SuccessIsComplete
  <2> SUFFICES ASSUME Assumed, at = "exit", status = "ok"
               PROVE  /\ kept = Len(tape) /\ SensorNumbers(tape) = 1..total
                      /\ poses = emitted
                      /\ map => mapped = sent /\ Len(sent) = total
    BY DEF SuccessIsComplete
  <2>1. /\ TypeOK /\ Inv /\ PlaceInv /\ WellInv /\ FinishedInv
    BY DEF Assumed, TypeInv, CompleteInv
  <2>2. Finished /\ Well /\ call # "send"
    BY <2>1 DEF Finished, Well, PlaceInv
  <2>3. /\ kept = Len(tape) /\ pose_channel = <<>> /\ worker = "done"
        /\ map => mapped = sent
    BY <2>1, <2>2 DEF FinishedInv
  <2>4. /\ emitted = poses \o pose_channel /\ SensorNumbers(tape) = 1..total
        /\ Len(sent) = total
    BY <2>1, <2>2, <2>3 DEF WellInv, AllSent, Assumed, CompleteInv
  <2>5. emitted = poses
    BY <2>1, <2>3, <2>4, ConcatEmpty DEF TypeOK
  <2>6. QED
    BY <2>3, <2>4, <2>5
<1>2. QED
  BY <1>1, InitAssumed, StepAssumed, PTL DEF LiveSpec
==============================================================================
