---------------------------- MODULE Bake_proofs ----------------------------
(***************************************************************************)
(* Proofs about bake, for every input, any number of failing writes, and   *)
(* wherever the mapper panics.                                             *)
(*                                                                         *)
(* Bake is a data source and a recorder, and what is proved about the two  *)
(* is used here: the source gives the frames of the input one after the    *)
(* other (BagSource_proofs), and the recorder keeps what it is given       *)
(* (LioRecorder_proofs).                                                   *)
(***************************************************************************)
EXTENDS Bake, LioRecorder_proofs, Dcap_proofs

\* What is proved about the data source, for the one of bake.
P == INSTANCE BagSource_proofs
  WITH tape <- input, MaxMessages <- MaxFrames, InOrder <- FALSE,
       OpenRates <- {<<0, 1>>}, Loops <- {FALSE}, Rates <- {},
       SeekTargets <- {}, Ratios <- {}, MaxElapsed <- 0

------------------------------------------------------------------------------
(* It is the data source of Bake *)

LEMMA SameInit == Source!BagInit => P!BagInit
<1>1. \A msgs : Source!StableSort(msgs) = P!StableSort(msgs)
  BY DEF Source!StableSort, P!StableSort, Source!Place, P!Place, Source!Rank,
    P!Rank, Source!NotAfter, P!NotAfter, Source!Cardinality, P!Cardinality
<1>2. /\ Source!Tapes = P!Tapes
      /\ \A pieces : /\ Source!IndexOf(pieces) = P!IndexOf(pieces)
                     /\ Source!StartsOf(pieces) = P!StartsOf(pieces)
      /\ \A index : Source!ChunksInOrder(index) <=> P!ChunksInOrder(index)
  BY DEF Source!Tapes, P!Tapes, Source!IndexOf, P!IndexOf, Source!StartsOf,
    P!StartsOf, Source!ChunksInOrder, P!ChunksInOrder
<1>3. \A t, size : Source!Pieces(t, size) = P!Pieces(t, size)
  BY <1>1 DEF Source!Pieces, P!Pieces
<1>4. Source!Init <=> P!Init
  BY <1>1, <1>2, <1>3 DEF Source!Init, P!Init
<1>5. QED
  BY <1>4 DEF Source!BagInit, P!BagInit

LEMMA SameCall == Source!Call("next") => P!Call("next")
  BY DEF Source!Call, P!Call, Source!vars, P!vars, Source!recording, P!recording

LEMMA SameTurn == Source!Turn => P!Turn
<1>1. Source!End => P!End
  BY DEF Source!End, P!End, Source!AtEnd, P!AtEnd, Source!recording, P!recording
<1>2. Source!Fails => P!Fails
  BY DEF Source!Fails, P!Fails, Source!recording, P!recording, Source!AtEnd,
    P!AtEnd, Source!Wraps, P!Wraps, Source!Head0, P!Head0, Source!Anchors,
    P!Anchors, Source!ElapsedNow, P!ElapsedNow, Source!FirstTs, P!FirstTs,
    Source!StampAt, P!StampAt, Source!MessageAt, P!MessageAt,
    Source!EnsureLoaded, P!EnsureLoaded, Source!Containing, P!Containing,
    Source!Streaming, P!Streaming, Source!StableSort, P!StableSort,
    Source!Place, P!Place, Source!Rank, P!Rank, Source!NotAfter, P!NotAfter,
    Source!Cardinality, P!Cardinality
<1>3. /\ \A e : Source!Returned(e) => P!Returned(e)
      /\ Source!NotYet => P!NotYet
      /\ Source!DueIn = P!DueIn /\ Source!ElapsedNow = P!ElapsedNow
  <2>1. /\ \A p : Source!MessageAt(p) = P!MessageAt(p)
        /\ \A p : Source!LoadedFor(p) = P!LoadedFor(p)
    <3>1. \A msgs : Source!StableSort(msgs) = P!StableSort(msgs)
      BY DEF Source!StableSort, P!StableSort, Source!Place, P!Place, Source!Rank,
        P!Rank, Source!NotAfter, P!NotAfter, Source!Cardinality, P!Cardinality
    <3>2. \A c : Source!EnsureLoaded(c) = P!EnsureLoaded(c)
      BY <3>1, Zenon DEF Source!EnsureLoaded, P!EnsureLoaded
    <3>3. \A p : Source!Containing(p) = P!Containing(p)
      BY Zenon DEF Source!Containing, P!Containing, Source!Cardinality, P!Cardinality
    <3>4. Source!Streaming = P!Streaming
      BY DEF Source!Streaming, P!Streaming
    <3>5. QED
      BY <3>2, <3>3, <3>4 DEF Source!MessageAt, P!MessageAt, Source!LoadedFor,
        P!LoadedFor
  <2>2. /\ Source!Head0 = P!Head0 /\ Source!ElapsedNow = P!ElapsedNow
        /\ Source!FirstTs = P!FirstTs
    BY <2>1 DEF Source!Head0, P!Head0, Source!ElapsedNow, P!ElapsedNow,
      Source!FirstTs, P!FirstTs, Source!Anchors, P!Anchors, Source!Wraps,
      P!Wraps, Source!StampAt, P!StampAt
  <2>3. Source!DueIn = P!DueIn
    BY <2>1, <2>2 DEF Source!DueIn, P!DueIn, Source!Due, P!Due,
      Source!StampAt, P!StampAt
  <2>4. QED
    BY <2>1, <2>2, <2>3 DEF Source!Returned, P!Returned, Source!NotYet, P!NotYet,
      Source!recording, P!recording, Source!AtEnd, P!AtEnd
<1>4. Source!Asks => P!Asks
  <2>1. Source!Sleeps => P!Sleeps
    BY <1>3 DEF Source!Sleeps, P!Sleeps
  <2>2. QED
    BY <1>1, <1>2, <1>3, <2>1 DEF Source!Asks, P!Asks, Source!NextMessage,
      P!NextMessage, Source!TryNext, P!TryNext
<1>5. QED
  BY <1>4 DEF Source!Turn, P!Turn, Source!GivesFrame, P!GivesFrame,
    Source!GoesOn, P!GoesOn, Source!Returns, P!Returns, Source!Decodes,
    P!Decodes

LEMMA SameFrames ==
  /\ Frames = P!FramesIn(input)
  /\ SortedInput <=> P!SortedByStamp(P!FramesIn(input))
<1>1. Frames = P!FramesIn(input)
  BY DEF Frames, Source!FramesIn, P!FramesIn, Source!Only, P!Only,
    Source!Message, P!Message, Source!Decodes, P!Decodes
<1>2. QED
  BY <1>1 DEF SortedInput, Source!SortedByStamp, P!SortedByStamp

LEMMA InputAssumption == P!PlayerAssumption
  BY BakeAssumption
  DEF Source!PlayerAssumption, P!PlayerAssumption, Source!Message, P!Message,
    Source!Due, P!Due

USE InputAssumption

------------------------------------------------------------------------------
(* What is pushed is what the source gives *)

\* The source has given a frame that is not yet pushed.
Awaiting == at = "asked" /\ turning = "no" /\ said = "ready"

\* Past the loop.
Over == at \in {"finish", "finishing", "export_pcd", "export_pos"}

\* The frames of what is played, and how many of them were given.
Given == P!FramesIn(P!Played)
Count == P!Given

FedInv ==
  /\ P!SourceInv /\ loop_ = FALSE
  /\ Given \in Seq(P!Message) /\ Count \in 0..Len(Given)
  /\ fed = SubSeq(Given, 1, IF Awaiting THEN Count - 1 ELSE Count)
  /\ Awaiting => Count > 0 /\ taken = Given[Count]
  /\ at = "asked" /\ turning = "no" /\ said = "end" => Count = Len(Given)
  /\ Over \/ status = "success" => fed = Given

LEMMA InitFed == BakeInit => FedInv
<1> SUFFICES ASSUME BakeInit
             PROVE  FedInv
  OBVIOUS
<1>1. P!BagInit
  BY SameInit DEF BakeInit
<1>2. P!SourceInv /\ Count = 0 /\ Given \in Seq(P!Message)
  BY <1>1, P!SourceAtStart DEF Count, Given
<1>3. loop_ = FALSE
  BY <1>1 DEF P!BagInit, P!Init
<1>5. at = "source" /\ status = "none" /\ fed = <<>>
  BY DEF BakeInit
<1>6. SubSeq(Given, 1, 0) = <<>> /\ Len(Given) \in Nat
  BY <1>2
<1>7. QED
  BY <1>2, <1>3, <1>5, <1>6 DEF FedInv, Awaiting, Over

\* A step that leaves the source and what was pushed alone.
LEMMA FedKept ==
  ASSUME FedInv, UNCHANGED <<sourceVars, fed>>,
         UNCHANGED at \/ (~Awaiting /\ at' # "asked"),
         Over' \/ status' = "success" => Over \/ status = "success"
  PROVE  FedInv'
<1>1. P!SourceInv /\ UNCHANGED P!bagVars
  BY DEF FedInv, sourceVars, P!bagVars, P!vars, P!recording
<1>2. P!SourceInv' /\ UNCHANGED <<Given, Count, loop_>>
  BY <1>1, P!SourceQuiet DEF Given, Count
<1>3. UNCHANGED <<turning, said, taken>>
  BY DEF sourceVars
<1>4. CASE UNCHANGED at
  BY <1>2, <1>3, <1>4 DEF FedInv, Awaiting
<1>5. CASE ~Awaiting /\ at' # "asked"
  <2>1. ~Awaiting'
    BY <1>5 DEF Awaiting
  <2>2. QED
    BY <1>2, <1>3, <1>5, <2>1 DEF FedInv
<1>6. QED
  BY <1>4, <1>5

LEMMA FedAsk ==
  ASSUME FedInv, AskSource
  PROVE  FedInv'
<1>1. P!Call("next") /\ P!SourceInv
  BY SameCall DEF AskSource, FedInv
<1>2. P!SourceInv' /\ UNCHANGED <<Given, Count, loop_>>
  BY <1>1, P!SourceQuiet DEF Given, Count
<1>3. turning' = "next" /\ at = "source" /\ at' = "asked"
      /\ UNCHANGED <<fed, status>>
  BY <1>1 DEF P!Call, AskSource
<1>4. QED
  BY <1>2, <1>3 DEF FedInv, Awaiting, Over

LEMMA FedTurn ==
  ASSUME FedInv, SourceTurns
  PROVE  FedInv'
<1>1. P!Turn /\ P!SourceInv /\ ~loop_ /\ UNCHANGED <<at, status, fed>>
  BY SameTurn DEF SourceTurns, FedInv, mainVars
<1>2. /\ UNCHANGED loop_ /\ UNCHANGED Given
      /\ IF turning' = "no" /\ said' = "ready"
         THEN /\ Count < Len(Given) /\ Count' = Count + 1
              /\ taken' = Given[Count + 1]
         ELSE Count' = Count
      /\ turning' = "no" /\ said' = "end" => Count = Len(Given)
  BY <1>1, P!TurnGives DEF Given, Count
<1>3. P!SourceInv'
  BY <1>1, P!SourceStep DEF P!BagNext
<1>4. ~Awaiting /\ at = "asked"
  BY <1>1 DEF P!Turn, P!Asks, Awaiting, SourceTurns
<1>5. Awaiting' <=> turning' = "no" /\ said' = "ready"
  BY <1>1, <1>4 DEF Awaiting
<1>6. Given \in Seq(P!Message) /\ Count \in 0..Len(Given) /\ Len(Given) \in Nat
  BY DEF FedInv
<1>7. fed = SubSeq(Given, 1, Count)
  BY <1>4 DEF FedInv
<1>8. CASE Awaiting'
  <2>1. /\ Count' = Count + 1 /\ Count' \in 0..Len(Given) /\ Count' > 0
        /\ Count' - 1 = Count /\ taken' = Given[Count'] /\ said' = "ready"
    BY <1>2, <1>5, <1>6, <1>8
  <2>2. QED
    BY <1>1, <1>2, <1>3, <1>6, <1>7, <1>8, <2>1 DEF FedInv, Over
<1>9. CASE ~Awaiting'
  <2>1. Count' = Count
    BY <1>2, <1>5, <1>9
  <2>2. QED
    BY <1>1, <1>2, <1>3, <1>6, <1>7, <1>9, <2>1 DEF FedInv, Over
<1>10. QED
  BY <1>8, <1>9

LEMMA PrefixGrows ==
  ASSUME NEW M, NEW s \in Seq(M), NEW n \in 1..Len(s)
  PROVE  Append(SubSeq(s, 1, n - 1), s[n]) = SubSeq(s, 1, n)
  OBVIOUS

LEMMA FedFeed ==
  ASSUME FedInv, status = "none", NEW kind \in Kinds, Feed(kind)
  PROVE  FedInv'
<1>1. /\ Awaiting /\ fed' = Append(fed, taken) /\ at' = "push"
      /\ UNCHANGED <<sourceVars, status>>
  BY DEF Feed, Awaiting
<1>2. P!SourceInv /\ UNCHANGED P!bagVars
  BY <1>1 DEF FedInv, sourceVars, P!bagVars, P!vars, P!recording
<1>3. P!SourceInv' /\ UNCHANGED <<Given, Count, loop_>>
  BY <1>2, P!SourceQuiet DEF Given, Count
<1>4. /\ Given \in Seq(P!Message) /\ Count \in 1..Len(Given)
      /\ fed = SubSeq(Given, 1, Count - 1) /\ taken = Given[Count]
  BY <1>1 DEF FedInv
<1>5. fed' = SubSeq(Given, 1, Count)
  <2>1. Append(SubSeq(Given, 1, Count - 1), Given[Count])
          = SubSeq(Given, 1, Count)
    BY <1>4, PrefixGrows
  <2>2. QED
    BY <1>1, <1>4, <2>1
<1>6. QED
  BY <1>1, <1>3, <1>4, <1>5 DEF FedInv, Awaiting, Over

------------------------------------------------------------------------------
(***************************************************************************)
(* A bake that succeeds has recorded and mapped all it took.               *)
(*                                                                         *)
(* While no call has returned Err nothing has failed, so that the output   *)
(* has every frame that was pushed and every pose is exported or in the    *)
(* channel; finish joins the worker before it drains for the last time,    *)
(* the footer is written last, and nothing is written behind it.           *)
(***************************************************************************)

\* The places between two calls of the recorder.
Between == {"source", "asked", "finish", "export_pcd", "export_pos", "leave"}
InLoop == {"source", "asked", "push", "finish"}

\* Where bake is and what it has called.
PlaceInv ==
  /\ status \in {"none", "success", "failure", "panic"}
  /\ at \in {"leave", "exit"} <=> status # "none"
  /\ at \in Between \cup {"push", "finishing", "exit"}
  /\ at \in Between => call = "idle"
  /\ at = "push" => call \in {"send", "drain", "idle"}
  /\ at = "finishing" => call \in {"join", "end_drain", "rec_finish", "idle"}
  /\ at = "exit" => call \in {"drop_tx", "drop_join", "gone"}
  /\ at \in InLoop => handle /\ tx_open
  /\ at # "exit" => ~stop
  /\ worker = "done" => stop \/ ~tx_open
  /\ at = "finishing" /\ call \in {"end_drain", "rec_finish"} => worker = "done"
  /\ at = "finishing" /\ call = "rec_finish" => pose_channel = <<>>
  /\ at \in InLoop \/ (at = "finishing" /\ call # "idle") => kept = 0

\* Neither a call that returned, nor the one whose result is about to be looked
\* at, has failed.
Well ==
  /\ status \in {"none", "success"}
  /\ call = "idle" /\ at \in {"push", "finishing"} => result = "ok"

\* NumbersOf, of any tape.
NumbersAt(t, kinds) ==
  LET entries == Only(t, [kind : kinds, n : Numbers])
  IN  [i \in 1..Len(entries) |-> entries[i].n]

WellInv ==
  Well =>
    /\ failures = 0
    /\ emitted = poses \o pose_channel
    /\ NumbersAt(tape, {"pose"}) = poses
    /\ NumbersAt(tape, Kinds) = [i \in 1..pushed |-> i]
    /\ worker # "panicked" => AllSent

\* finish returned Ok.
Finished ==
  \/ at \in {"export_pcd", "export_pos"} \/ status = "success"
  \/ at = "finishing" /\ call = "idle" /\ result = "ok"

\* What finish leaves behind stays until the program ends.
FinishedInv ==
  Finished =>
    /\ kept = Len(tape) /\ pose_channel = <<>> /\ worker = "done"
    /\ mapped = sent

BakeInv ==
  TypeInv /\ FramesInv /\ FedInv /\ pushed = Len(fed)
    /\ PlaceInv /\ WellInv /\ FinishedInv

------------------------------------------------------------------------------
(* Where bake is *)

\* The steps of bake after which the recorder is as before.
Still ==
  \/ AskSource \/ SourceTurns \/ SourceIsOut \/ PushReturns \/ FinishReturns
  \/ ExportPcd \/ ExportPos \/ UNCHANGED bakeVars

LEMMA StillKeeps == Still => UNCHANGED vars
  BY DEF Still, AskSource, SourceTurns, SourceIsOut, PushReturns, FinishReturns,
    ReturnsTo, ExportPcd, ExportPos, bakeVars

\* What a step of bake is.
LEMMA BakeSteps ==
  ASSUME [BakeNext]_bakeVars
  PROVE  \/ Still \/ (\E kind \in Kinds : Feed(kind)) \/ FinishAll \/ Leave
         \/ (OwnerRuns \/ WorkerRuns) /\ UNCHANGED <<sourceVars, mainVars>>
  BY DEF BakeNext, MainRuns, MapperRuns, Steps, Still

\* Bake uses the recorder as it is meant to be used.
LEMMA UsesSteps ==
  ASSUME [BakeNext]_bakeVars
  PROVE  [Next]_vars
<1>1. CASE Still
  BY <1>1, StillKeeps
<1>2. ASSUME NEW kind \in Kinds, Feed(kind)
      PROVE  [Next]_vars
  BY <1>2 DEF Feed, Next, OwnerCalls
<1>3. CASE FinishAll \/ Leave
  BY <1>3 DEF FinishAll, Leave, Next, OwnerCalls
<1>4. CASE OwnerRuns \/ WorkerRuns
  BY <1>4 DEF Next
<1>5. QED
  BY <1>1, <1>2, <1>3, <1>4, BakeSteps

LEMMA CallPlaces ==
  ASSUME PlaceInv
  PROVE  /\ call # "idle" => at \in {"push", "finishing", "exit"}
         /\ call # "set_stop"
         /\ call \in {"send", "drain"} => at = "push"
         /\ call \in {"join", "end_drain", "rec_finish"} => at = "finishing"
         /\ call \in {"drop_tx", "drop_join", "gone"} => at = "exit"
  BY DEF PlaceInv, Between

LEMMA PlaceStep ==
  ASSUME PlaceInv, [BakeNext]_bakeVars
  PROVE  PlaceInv'
<1>1. CASE AskSource \/ SourceTurns \/ SourceIsOut
  BY <1>1 DEF AskSource, SourceTurns, SourceIsOut, mainVars, PlaceInv, Between,
    InLoop, vars, owner, shared, mapper
<1>2. CASE PushReturns \/ FinishReturns
  BY <1>2 DEF PushReturns, FinishReturns, ReturnsTo, PlaceInv, Between, InLoop,
    vars, owner, shared, mapper
<1>3. CASE ExportPcd \/ ExportPos
  BY <1>3 DEF ExportPcd, ExportPos, Leaves, PlaceInv, Between, InLoop,
    vars, owner, shared, mapper
<1>4. ASSUME NEW kind \in Kinds, Feed(kind)
      PROVE  PlaceInv'
  BY <1>4 DEF Feed, Push, Goes, Returns, PlaceInv, Between, InLoop, shared,
    mapper
<1>5. CASE FinishAll
  BY <1>5 DEF FinishAll, EndMapping, Goes, PlaceInv, Between, InLoop, mapper
<1>6. CASE Leave
  BY <1>6 DEF Leave, Drop, Goes, PlaceInv, Between, InLoop, mapper
<1>7. CASE OwnerRuns /\ UNCHANGED <<sourceVars, mainVars>>
  <2>1. UNCHANGED <<at, status>>
    BY <1>7 DEF mainVars
  <2>2. CASE Send \/ DrainPose \/ DrainEnds
    BY <2>1, <2>2 DEF Send, DrainPose, DrainEnds, Goes, Returns, PlaceInv,
      Between, InLoop, shared, mapper
  <2>3. CASE SetStop \/ Join
    BY <2>1, <2>3 DEF SetStop, Join, Goes, Returns, PlaceInv, Between, InLoop,
      shared, mapper, WorkerEnded
  <2>4. CASE RecFinish \/ DropTx \/ DropJoin
    BY <2>1, <2>4 DEF RecFinish, DropTx, DropJoin, Goes, Returns, PlaceInv,
      Between, InLoop, shared, mapper
  <2>5. QED
    BY <1>7, <2>2, <2>3, <2>4 DEF OwnerRuns
<1>8. CASE WorkerRuns /\ UNCHANGED <<sourceVars, mainVars>>
  BY <1>8 DEF WorkerRuns, CheckStop, Recv, Disconnected, MapOne, Panics, Ends,
    PlaceInv, Between, InLoop, mainVars, owner
<1>9. CASE UNCHANGED bakeVars
  BY <1>9 DEF bakeVars, mainVars, vars, owner, shared, mapper, PlaceInv
<1>10. QED
  BY <1>1, <1>2, <1>3, <1>4, <1>5, <1>6, <1>7, <1>8, <1>9, BakeSteps DEF Still

LEMMA FedStep ==
  ASSUME FedInv, PlaceInv, pushed = Len(fed), [BakeNext]_bakeVars
  PROVE  FedInv' /\ (pushed = Len(fed))'
<1>1. fed \in Seq(P!Message)
  <2>1. /\ Given \in Seq(P!Message) /\ Count \in 0..Len(Given)
        /\ fed = SubSeq(Given, 1, IF Awaiting THEN Count - 1 ELSE Count)
        /\ Awaiting => Count > 0
    BY DEF FedInv
  <2>2. \A n \in 0..Len(Given) : SubSeq(Given, 1, n) \in Seq(P!Message)
    BY <2>1
  <2>3. (IF Awaiting THEN Count - 1 ELSE Count) \in 0..Len(Given)
    BY <2>1
  <2>4. QED
    BY <2>1, <2>2, <2>3
<1>2. CASE AskSource \/ SourceTurns
  <2>1. UNCHANGED <<fed, pushed>>
    BY <1>2 DEF AskSource, SourceTurns, mainVars, vars, history
  <2>2. QED
    BY <1>2, <2>1, FedAsk, FedTurn
<1>3. ASSUME NEW kind \in Kinds, Feed(kind)
      PROVE  FedInv' /\ (pushed = Len(fed))'
  <2>1. /\ status = "none" /\ Awaiting
        /\ fed' = Append(fed, taken) /\ pushed' = pushed + 1
    BY <1>3 DEF Feed, Push, PlaceInv, Awaiting
  <2>2. FedInv'
    BY <1>3, <2>1, FedFeed
  <2>3. Len(fed') = Len(fed) + 1
    BY <1>1, <2>1
  <2>4. QED
    BY <2>1, <2>2, <2>3
<1>4. CASE SourceIsOut
  <2>1. /\ UNCHANGED <<sourceVars, fed, pushed, status>> /\ ~Awaiting
        /\ at' = "finish"
    BY <1>4 DEF SourceIsOut, Awaiting, vars, history
  <2>2. fed = Given
    <3>1. /\ Count = Len(Given) /\ fed = SubSeq(Given, 1, Count)
          /\ Given \in Seq(P!Message)
      BY <1>4, <2>1 DEF SourceIsOut, FedInv
    <3>2. QED
      BY <3>1
  <2>3. P!SourceInv /\ UNCHANGED P!bagVars
    BY <2>1 DEF FedInv, sourceVars, P!bagVars, P!vars, P!recording
  <2>4. P!SourceInv' /\ UNCHANGED <<Given, Count, loop_>>
    BY <2>3, P!SourceQuiet DEF Given, Count
  <2>5. QED
    BY <2>1, <2>2, <2>4 DEF FedInv, Awaiting
<1>5. CASE \/ PushReturns \/ FinishReturns \/ ExportPcd \/ ExportPos
           \/ FinishAll \/ Leave
  <2>1. UNCHANGED <<sourceVars, fed, pushed>>
    BY <1>5 DEF PushReturns, FinishReturns, ReturnsTo, ExportPcd, ExportPos,
      FinishAll, EndMapping, Leave, Drop, vars, history
  <2>2. ~Awaiting /\ at' # "asked"
    BY <1>5 DEF PushReturns, FinishReturns, ReturnsTo, ExportPcd, ExportPos,
      Leaves, FinishAll, Leave, Awaiting
  <2>3. Over' \/ status' = "success" => Over \/ status = "success"
    BY <1>5 DEF PushReturns, FinishReturns, ReturnsTo, ExportPcd, ExportPos,
      Leaves, FinishAll, Leave, Over
  <2>4. QED
    BY <2>1, <2>2, <2>3, FedKept
<1>6. CASE \/ UNCHANGED bakeVars
           \/ (OwnerRuns \/ WorkerRuns) /\ UNCHANGED <<sourceVars, mainVars>>
  <2>1. UNCHANGED <<at, status, fed, sourceVars>>
    BY <1>6 DEF bakeVars, mainVars
  <2>2. UNCHANGED pushed
    BY <1>6 DEF OwnerRuns, Send, DrainPose, DrainEnds, SetStop, Join, RecFinish,
      DropTx, DropJoin, WorkerRuns, CheckStop, Recv, Disconnected, MapOne,
      Panics, bakeVars, vars, history
  <2>3. QED
    BY <2>1, <2>2, FedKept DEF Over
<1>7. QED
  BY <1>2, <1>3, <1>4, <1>5, <1>6, BakeSteps DEF Still

------------------------------------------------------------------------------
(* While all is well nothing has failed *)

LEMMA WellBack ==
  ASSUME TypeOK, PlaceInv, [BakeNext]_bakeVars, Well'
  PROVE  Well /\ failures' = failures
<1>1. CASE AskSource \/ SourceTurns \/ SourceIsOut \/ UNCHANGED bakeVars
  BY <1>1 DEF AskSource, SourceTurns, SourceIsOut, bakeVars, mainVars, Well,
    vars, owner, history
<1>2. CASE PushReturns \/ FinishReturns
  BY <1>2 DEF PushReturns, FinishReturns, ReturnsTo, Well, vars, owner, history
<1>3. CASE ExportPcd \/ ExportPos
  BY <1>3 DEF ExportPcd, ExportPos, Leaves, PlaceInv, Well, vars, owner, history
<1>4. ASSUME NEW kind \in Kinds, Feed(kind)
      PROVE  Well /\ failures' = failures
  BY <1>4 DEF Feed, Push, WriteOk, WriteFails, Returns, Goes, PlaceInv, Well
<1>5. CASE FinishAll \/ Leave
  BY <1>5 DEF FinishAll, EndMapping, Leave, Drop, Goes, Well, history
<1>6. CASE OwnerRuns /\ UNCHANGED <<sourceVars, mainVars>>
  <2>1. UNCHANGED <<at, status>> /\ call # "idle"
    BY <1>6 DEF mainVars, OwnerRuns, Send, DrainPose, DrainEnds, SetStop, Join,
      RecFinish, DropTx, DropJoin
  <2>2. Well
    BY <2>1 DEF Well
  <2>3. call' = "idle" /\ at \in {"push", "finishing"} => result' = "ok"
    BY <2>1 DEF Well
  <2>4. call \in {"send", "drain", "end_drain", "rec_finish"} =>
          at \in {"push", "finishing"}
    BY CallPlaces
  <2>5. failures' = failures
    BY <1>6, <2>3, <2>4 DEF OwnerRuns, Send, DrainPose, DrainEnds, SetStop, Join,
      RecFinish, DropTx, DropJoin, WriteOk, WriteFails, Returns, Goes, history
  <2>6. QED
    BY <2>2, <2>5
<1>7. CASE WorkerRuns /\ UNCHANGED <<sourceVars, mainVars>>
  BY <1>7 DEF WorkerRuns, CheckStop, Recv, Disconnected, MapOne, Panics, Well,
    owner, history, mainVars
<1>8. QED
  BY <1>1, <1>2, <1>3, <1>4, <1>5, <1>6, <1>7, BakeSteps DEF Still

\* The numbers of a sequence to which an entry is appended.
LEMMA NumbersOfAppend ==
  ASSUME NEW s \in Seq(TapeEntry), NEW e \in TapeEntry
  PROVE  [i \in 1..Len(Append(s, e)) |-> Append(s, e)[i].n]
           = Append([i \in 1..Len(s) |-> s[i].n], e.n)
<1> DEFINE a == Append(s, e)
           f == [i \in 1..Len(s) |-> s[i].n]
           g == [i \in 1..Len(a) |-> a[i].n]
<1>1. /\ Len(s) \in Nat /\ Len(a) = Len(s) + 1 /\ a[Len(s) + 1] = e
      /\ \A i \in 1..Len(s) : a[i] = s[i]
  OBVIOUS
<1>2. \A r \in TapeEntry : r.n \in 0..MaxFrames
  BY DEF TapeEntry
<1>3. \A i \in 1..Len(s) : s[i] \in TapeEntry
  OBVIOUS
<1> HIDE DEF a
<1>4. f \in Seq(0..MaxFrames) /\ Len(f) = Len(s)
  <2>1. f \in [1..Len(s) -> 0..MaxFrames]
    BY <1>2, <1>3
  <2>2. QED
    BY <1>1, <2>1, SeqDef
<1>5. /\ Append(f, e.n) \in Seq(0..MaxFrames)
      /\ Len(Append(f, e.n)) = Len(s) + 1
      /\ Append(f, e.n)[Len(s) + 1] = e.n
      /\ \A i \in 1..Len(s) : Append(f, e.n)[i] = f[i]
  <2>1. e.n \in 0..MaxFrames
    BY <1>2
  <2> HIDE DEF f
  <2>2. QED
    BY <1>1, <1>4, <2>1
<1>6. \A i \in 1..Len(a) : g[i] = Append(f, e.n)[i]
  <2>1. ASSUME NEW i \in 1..Len(a)
        PROVE  g[i] = Append(f, e.n)[i]
    <3>1. CASE i = Len(s) + 1
      BY <1>1, <1>5, <3>1
    <3>2. CASE i # Len(s) + 1
      <4>1. i \in 1..Len(s)
        BY <1>1, <3>2
      <4>2. QED
        BY <1>1, <1>5, <4>1
    <3>3. QED
      BY <3>1, <3>2
  <2>2. QED
    BY <2>1
<1>7. Append(f, e.n) = [i \in 1..Len(a) |-> Append(f, e.n)[i]]
  <2> HIDE DEF f
  <2>1. QED
    BY <1>1, <1>5
<1>8. g = Append(f, e.n)
  BY <1>6, <1>7
<1>9. QED
  BY <1>8 DEF a

LEMMA NumbersAppend ==
  ASSUME NEW t \in Seq(TapeEntry), NEW e \in TapeEntry, NEW kinds,
         e.kind \in kinds => e.n \in Numbers
  PROVE  NumbersAt(Append(t, e), kinds) =
           IF e.kind \in kinds THEN Append(NumbersAt(t, kinds), e.n)
           ELSE NumbersAt(t, kinds)
<1> DEFINE S == [kind : kinds, n : Numbers]
           s == Only(t, S)
           u == Only(Append(t, e), S)
<1>1. e \in S <=> e.kind \in kinds
  BY DEF TapeEntry
<1>2. u = IF e \in S THEN Append(s, e) ELSE s
  BY OnlyAppend
<1>3. s \in Seq(TapeEntry)
  BY OnlyType
<1>4. /\ NumbersAt(t, kinds) = [i \in 1..Len(s) |-> s[i].n]
      /\ NumbersAt(Append(t, e), kinds) = [i \in 1..Len(u) |-> u[i].n]
  BY DEF NumbersAt
<1> HIDE DEF s, u
<1>5. [i \in 1..Len(Append(s, e)) |-> Append(s, e)[i].n]
        = Append([i \in 1..Len(s) |-> s[i].n], e.n)
  BY <1>3, NumbersOfAppend
<1>6. QED
  BY <1>1, <1>2, <1>4, <1>5

LEMMA CountingAppend ==
  \A n \in Nat :
    Append([i \in 1..n |-> i], n + 1) = [i \in 1..n + 1 |-> i]
<1> SUFFICES ASSUME NEW n \in Nat
             PROVE  Append([i \in 1..n |-> i], n + 1) = [i \in 1..n + 1 |-> i]
  OBVIOUS
<1> DEFINE f == [i \in 1..n |-> i]
<1>1. f \in Seq(Nat) /\ Len(f) = n /\ \A i \in 1..n : f[i] = i
  <2>1. f \in [1..n -> Nat]
    OBVIOUS
  <2>2. QED
    BY <2>1, SeqDef
<1> HIDE DEF f
<1>2. /\ Append(f, n + 1) = [i \in 1..n + 1 |-> Append(f, n + 1)[i]]
      /\ \A i \in 1..n + 1 : Append(f, n + 1)[i] = i
  BY <1>1
<1>3. QED
  BY <1>2 DEF f

LEMMA EmittedStep ==
  ASSUME BakeInv, [BakeNext]_bakeVars, Well'
  PROVE  emitted' = poses' \o pose_channel'
<1>1. /\ TypeOK /\ PlaceInv /\ FinishedInv /\ emitted = poses \o pose_channel
      /\ failures' = failures /\ Well
  BY WellBack DEF BakeInv, TypeInv, WellInv
<1>2. DropJoin => pose_channel = <<>>
  <2>1. SUFFICES ASSUME DropJoin
                 PROVE  pose_channel = <<>>
    OBVIOUS
  <2>2. at = "exit"
    BY <1>1, <2>1, CallPlaces DEF DropJoin
  <2>3. status = "success"
    BY <1>1, <2>2 DEF PlaceInv, Well
  <2>4. QED
    BY <1>1, <2>3 DEF FinishedInv, Finished
<1>3. QED
  BY <1>1, <1>2, UsesSteps, EmittedKept

\* In the loop the worker is never done, so that every frame pushed is sent.
LEMMA SentStep ==
  ASSUME BakeInv, [BakeNext]_bakeVars, Well', worker' # "panicked"
  PROVE  AllSent'
<1>1. /\ TypeInv /\ PlaceInv /\ failures' = failures
      /\ worker # "panicked" => AllSent
  BY WellBack DEF BakeInv, TypeInv, WellInv
<1>2. [Next]_vars
  BY UsesSteps
<1>3. worker # "panicked"
  BY <1>2, NoWayBack
<1>4. Send => tx_open /\ ~WorkerEnded
  BY <1>1, <1>3, CallPlaces DEF Send, PlaceInv, InLoop, WorkerEnded
<1>5. QED
  BY <1>1, <1>2, <1>3, <1>4, SentKept

\* The output grows by the frame that is pushed, or by the pose that is drained.
LEMMA NumbersStep ==
  ASSUME BakeInv, [BakeNext]_bakeVars, Well'
  PROVE  /\ NumbersAt(tape', {"pose"}) = poses'
         /\ NumbersAt(tape', Kinds) = [i \in 1..pushed' |-> i]
<1>1. /\ TypeOK /\ failures' = failures
      /\ NumbersAt(tape, {"pose"}) = poses
      /\ NumbersAt(tape, Kinds) = [i \in 1..pushed |-> i]
  BY WellBack DEF BakeInv, TypeInv, WellInv
<1>2. tape \in Seq(TapeEntry) /\ pushed \in Nat /\ failures \in Nat
  BY <1>1 DEF TypeOK
<1>3. [Next]_vars
  BY UsesSteps
<1>4. ASSUME NEW kind \in Kinds, Push(kind)
      PROVE  /\ NumbersAt(tape', {"pose"}) = poses'
             /\ NumbersAt(tape', Kinds) = [i \in 1..pushed' |-> i]
  <2> DEFINE e == Entry(kind, pushed + 1)
  <2>1. /\ failures' # failures + 1 /\ pushed < MaxFrames
        /\ pushed' = pushed + 1 /\ UNCHANGED poses
    BY <1>1, <1>2, <1>4 DEF Push
  <2>2. tape' = Append(tape, e)
    BY <1>4, <2>1 DEF Push, WriteOk, WriteFails
  <2>3. e \in TapeEntry /\ e.kind = kind /\ e.n = pushed + 1 /\ e.n \in Numbers
    <3>1. kind \in {"scene", "imu", "lidar", "pose"}
      BY DEF Kinds
    <3>2. pushed + 1 \in 0..MaxFrames /\ pushed + 1 \in Numbers
      BY <1>2, <2>1 DEF Numbers
    <3>3. QED
      BY <3>1, <3>2, EntryType
  <2> HIDE DEF e
  <2>4. NumbersAt(tape', {"pose"}) = NumbersAt(tape, {"pose"})
    <3>1. e.kind \notin {"pose"}
      BY <2>3 DEF Kinds
    <3>2. QED
      BY <1>2, <2>2, <2>3, <3>1, NumbersAppend
  <2>5. NumbersAt(tape', Kinds) = Append(NumbersAt(tape, Kinds), pushed + 1)
    BY <1>2, <2>2, <2>3, NumbersAppend
  <2>6. Append([i \in 1..pushed |-> i], pushed + 1) = [i \in 1..pushed + 1 |-> i]
    BY <1>2, CountingAppend
  <2>7. QED
    BY <1>1, <2>1, <2>4, <2>5, <2>6
<1>5. CASE DrainPose
  <2> DEFINE n == Head(pose_channel)
             e == Entry("pose", n)
  <2>1. /\ tape' = Append(tape, e) /\ poses' = Append(poses, n)
        /\ pushed' = pushed
    BY <1>1, <1>2, <1>5 DEF DrainPose, WriteOk, WriteFails
  <2>2. n \in Numbers
    <3>1. pose_channel \in Seq(Numbers) /\ pose_channel # <<>>
      BY <1>1, <1>5 DEF DrainPose, TypeOK
    <3>2. QED
      BY <3>1, TailOf
  <2> HIDE DEF n
  <2>3. e \in TapeEntry /\ e.kind = "pose" /\ e.n = n
    <3>1. n \in 0..MaxFrames
      BY <2>2 DEF Numbers
    <3>2. QED
      BY <3>1, EntryType
  <2> HIDE DEF e
  <2>4. NumbersAt(tape', {"pose"}) = Append(NumbersAt(tape, {"pose"}), n)
    BY <1>2, <2>1, <2>2, <2>3, NumbersAppend
  <2>5. NumbersAt(tape', Kinds) = NumbersAt(tape, Kinds)
    <3>1. e.kind \notin Kinds
      BY <2>3 DEF Kinds
    <3>2. QED
      BY <1>2, <2>1, <2>3, <3>1, NumbersAppend
  <2>6. QED
    BY <1>1, <2>1, <2>4, <2>5
<1>6. CASE \/ \E d \in BOOLEAN : EndMapping(d)
           \/ Drop \/ Send \/ DrainEnds \/ SetStop \/ Join \/ RecFinish
           \/ DropTx \/ DropJoin \/ WorkerRuns \/ UNCHANGED vars
  <2>1. UNCHANGED <<tape, poses, pushed>>
    BY <1>6 DEF EndMapping, Drop, Send, DrainEnds, SetStop, Join, RecFinish,
      DropTx, DropJoin, WorkerRuns, CheckStop, Recv, Disconnected, MapOne,
      Panics, vars, owner, history
  <2>2. QED
    BY <1>1, <2>1
<1>7. QED
  BY <1>3, <1>4, <1>5, <1>6 DEF Next, OwnerCalls, OwnerRuns

LEMMA WellStep ==
  ASSUME BakeInv, [BakeNext]_bakeVars
  PROVE  WellInv'
<1>1. ASSUME Well' PROVE failures' = 0
  BY <1>1, WellBack DEF BakeInv, TypeInv, WellInv
<1>2. QED
  BY <1>1, EmittedStep, NumbersStep, SentStep DEF WellInv

------------------------------------------------------------------------------
(* After finish *)

LEMMA FinishedStep ==
  ASSUME BakeInv, [BakeNext]_bakeVars
  PROVE  FinishedInv'
<1> SUFFICES ASSUME Finished'
             PROVE  /\ kept' = Len(tape') /\ pose_channel' = <<>>
                    /\ worker' = "done" /\ mapped' = sent'
  BY DEF FinishedInv
<1>1. PlaceInv /\ FinishedInv /\ FramesInv
  BY DEF BakeInv
<1>2. CASE Finished /\ (Still \/ Leave)
  <2>1. UNCHANGED <<tape, kept, pose_channel, worker, mapped, sent>>
    BY <1>2, StillKeeps DEF Leave, Drop, vars, owner, shared, mapper, history
  <2>2. QED
    BY <1>1, <1>2, <2>1 DEF FinishedInv
<1>3. CASE ~Finished /\ (Still \/ Leave)
  <2>1. ~Finished'
    BY <1>1, <1>3 DEF Still, AskSource, SourceTurns, SourceIsOut, PushReturns,
      FinishReturns, ReturnsTo, ExportPcd, ExportPos, Leaves, Leave, Drop, Goes,
      Finished, PlaceInv, Between, bakeVars, mainVars, vars, owner
  <2>2. QED
    BY <2>1
<1>4. CASE (\E kind \in Kinds : Feed(kind)) \/ FinishAll
  <2>1. ~Finished'
    BY <1>1, <1>4 DEF Feed, Push, FinishAll, EndMapping, Goes, Finished,
      PlaceInv, InLoop
  <2>2. QED
    BY <2>1
<1>5. CASE RecFinish /\ UNCHANGED <<sourceVars, mainVars>>
  <2>1. /\ at = "finishing" /\ call = "rec_finish" /\ UNCHANGED <<at, status>>
    BY <1>1, <1>5, CallPlaces DEF RecFinish, mainVars
  <2>2. result' = "ok"
    BY <1>1, <2>1 DEF Finished, PlaceInv
  <2>3. kept = 0 /\ worker = "done" /\ pose_channel = <<>> /\ ~stop
    BY <1>1, <2>1 DEF PlaceInv
  <2>4. /\ kept' = Len(tape)
        /\ UNCHANGED <<tape, pose_channel, worker, mapped, sent>>
    BY <1>5, <2>2, <2>3 DEF RecFinish, Returns, shared, mapper
  <2>5. mapped = sent
    BY <1>1, <2>3 DEF FramesInv
  <2>6. QED
    BY <2>3, <2>4, <2>5
<1>6. CASE (DropTx \/ DropJoin) /\ UNCHANGED <<sourceVars, mainVars>>
  <2>1. at = "exit" /\ UNCHANGED <<at, status>>
    BY <1>1, <1>6, CallPlaces DEF DropTx, DropJoin, mainVars
  <2>2. Finished
    BY <2>1 DEF Finished
  <2>3. /\ kept = Len(tape) /\ pose_channel = <<>> /\ worker = "done"
        /\ mapped = sent
    BY <1>1, <2>2 DEF FinishedInv
  <2>4. /\ kept' \in (IF kept > 0 THEN {kept} ELSE {0, Len(tape)}) \cup {kept}
        /\ UNCHANGED <<tape, worker, mapped, sent>>
        /\ pose_channel' = <<>>
    BY <1>6, <2>3 DEF DropTx, DropJoin, mapper, history
  <2>5. Len(tape) \in Nat
    BY DEF BakeInv, TypeInv, TypeOK
  <2>6. kept' = Len(tape)
    BY <2>3, <2>4, <2>5
  <2>7. QED
    BY <2>3, <2>4, <2>6
<1>7. CASE /\ Send \/ DrainPose \/ DrainEnds \/ SetStop \/ Join
           /\ UNCHANGED <<sourceVars, mainVars>>
  <2>1. at \in {"push", "finishing"} /\ UNCHANGED <<at, status>>
    BY <1>1, <1>7, CallPlaces DEF Send, DrainPose, DrainEnds, SetStop, Join,
      mainVars
  <2>2. at = "finishing" => call \in {"join", "end_drain"}
    BY <1>1, <1>7, CallPlaces DEF Send, DrainPose, DrainEnds, SetStop, Join
  <2>3. at = "finishing" => call' # "idle" \/ result' = "err"
    BY <1>7, <2>2 DEF Send, DrainPose, DrainEnds, SetStop, Join, Goes, Returns
  <2>4. ~Finished'
    BY <1>1, <2>1, <2>3 DEF Finished, PlaceInv
  <2>5. QED
    BY <2>4
<1>8. CASE WorkerRuns /\ UNCHANGED <<sourceVars, mainVars>>
  <2>1. UNCHANGED <<at, status, call, result>> /\ worker # "done"
    BY <1>8 DEF WorkerRuns, CheckStop, Recv, Disconnected, MapOne, Panics,
      owner, mainVars
  <2>2. Finished
    BY <2>1 DEF Finished
  <2>3. QED
    BY <1>1, <2>1, <2>2 DEF FinishedInv
<1>9. QED
  BY <1>2, <1>3, <1>4, <1>5, <1>6, <1>7, <1>8, BakeSteps DEF OwnerRuns

------------------------------------------------------------------------------
(* Theorems *)

LEMMA InitAssumed == BakeInit => BakeInv
<1> SUFFICES ASSUME BakeInit
             PROVE  BakeInv
  OBVIOUS
<1>1. /\ Init /\ at = "source" /\ status = "none" /\ fed = <<>>
  BY DEF BakeInit
<1>2. PlaceInv /\ FinishedInv /\ pushed = Len(fed)
  BY <1>1 DEF Init, PlaceInv, Between, InLoop, FinishedInv, Finished
<1>3. WellInv
  <2>1. /\ tape = <<Entry("scene", 0)>> /\ pushed = 0
        /\ emitted = <<>> /\ poses = <<>> /\ pose_channel = <<>>
        /\ failures = 0 /\ sent = <<>> /\ call = "idle"
    BY <1>1 DEF Init
  <2>2. ASSUME NEW kinds, "scene" \notin kinds
        PROVE  NumbersAt(tape, kinds) = <<>>
    <3>1. Entry("scene", 0) \in TapeEntry /\ Entry("scene", 0).kind = "scene"
      BY EntryType
    <3> DEFINE t == <<>>
    <3>2. t \in Seq(TapeEntry) /\ tape = Append(t, Entry("scene", 0))
      BY <2>1
    <3>3. NumbersAt(t, kinds) = <<>>
      BY OnlyOfNone DEF NumbersAt
    <3> HIDE DEF t
    <3>4. NumbersAt(tape, kinds) = NumbersAt(t, kinds)
      BY <2>2, <3>1, <3>2, NumbersAppend
    <3>5. QED
      BY <3>3, <3>4
  <2>3. NumbersAt(tape, {"pose"}) = poses
    BY <2>1, <2>2
  <2>4. NumbersAt(tape, Kinds) = [i \in 1..pushed |-> i]
    BY <2>1, <2>2 DEF Kinds
  <2>5. AllSent /\ emitted = poses \o pose_channel
    BY <2>1 DEF AllSent
  <2>6. QED
    BY <2>1, <2>3, <2>4, <2>5 DEF WellInv
<1>4. QED
  BY <1>1, <1>2, <1>3, InitFed, InitType, InitComplete DEF BakeInv

LEMMA StepAssumed == BakeInv /\ [BakeNext]_bakeVars => BakeInv'
<1> SUFFICES ASSUME BakeInv, [BakeNext]_bakeVars
             PROVE  BakeInv'
  OBVIOUS
<1>1. /\ TypeInv /\ FramesInv /\ FedInv /\ PlaceInv /\ pushed = Len(fed)
      /\ [Next]_vars
  BY UsesSteps DEF BakeInv
<1>2. TypeInv' /\ FramesInv'
  BY <1>1, StepType, FramesStep
<1>3. FedInv' /\ (pushed = Len(fed))' /\ PlaceInv'
  BY <1>1, FedStep, PlaceStep
<1>4. QED
  BY <1>2, <1>3, WellStep, FinishedStep DEF BakeInv

LEMMA BakeHolds == BakeSpec => []BakeInv
<1>1. QED
  BY InitAssumed, StepAssumed, PTL DEF BakeSpec

LEMMA NumbersOfIs == \A kinds : NumbersOf(kinds) = NumbersAt(tape, kinds)
  BY DEF NumbersOf, NumbersAt

LEMMA MapsAll ==
  ASSUME BakeInv
  PROVE  BakeMapsAll
<1> SUFFICES ASSUME status = "success"
             PROVE  /\ mapped = sent /\ Len(sent) = Len(fed)
                    /\ poses = emitted /\ poses = NumbersOf({"pose"})
  BY DEF BakeMapsAll
<1>1. /\ TypeOK /\ PlaceInv /\ WellInv /\ FinishedInv /\ pushed = Len(fed)
  BY DEF BakeInv, TypeInv
<1>2. Finished /\ Well /\ call # "send"
  BY <1>1 DEF Finished, Well, PlaceInv
<1>3. pose_channel = <<>> /\ worker = "done" /\ mapped = sent
  BY <1>1, <1>2 DEF FinishedInv
<1>4. /\ emitted = poses \o pose_channel /\ Len(sent) = pushed
      /\ NumbersAt(tape, {"pose"}) = poses
  BY <1>1, <1>2, <1>3 DEF WellInv, AllSent
<1>5. emitted = poses
  BY <1>1, <1>3, <1>4, ConcatEmpty DEF TypeOK
<1>6. QED
  BY <1>1, <1>3, <1>4, <1>5, NumbersOfIs

\* The beginning of the beginning of a sequence is its beginning.
LEMMA PrefixOfGrown ==
  ASSUME NEW M, NEW f \in Seq(M), NEW g \in Seq(M), Grown(f, g),
         NEW n \in 0..Len(f)
  PROVE  IsPrefix(SubSeq(f, 1, n), g)
<1>1. /\ SubSeq(f, 1, n) \in Seq(M) /\ Len(SubSeq(f, 1, n)) = n
      /\ \A i \in 1..n : SubSeq(f, 1, n)[i] = f[i]
  OBVIOUS
<1>2. n \in 0..Len(g) /\ n <= Len(g) /\ \A i \in 1..n : f[i] = g[i]
  BY DEF Grown
<1>3. /\ SubSeq(g, 1, n) \in Seq(M) /\ Len(SubSeq(g, 1, n)) = n
      /\ \A i \in 1..n : SubSeq(g, 1, n)[i] = g[i]
  BY <1>2
<1>4. SubSeq(f, 1, n) = SubSeq(g, 1, n)
  BY <1>1, <1>2, <1>3, SeqEqual
<1>5. SubSeq(SubSeq(f, 1, n), 1, n) = SubSeq(f, 1, n)
  BY <1>1
<1>6. QED
  BY <1>1, <1>2, <1>4, <1>5 DEF IsPrefix

LEMMA KeepsFrames ==
  ASSUME BakeInv
  PROVE  BakeKeepsFrames
<1> SUFFICES ASSUME SortedInput
             PROVE  /\ IsPrefix(fed, Frames)
                    /\ status = "success" =>
                         /\ damaged = {} => fed = Frames
                         /\ kept = Len(tape)
                         /\ NumbersOf(Kinds) = [i \in 1..Len(fed) |-> i]
  BY DEF BakeKeepsFrames
<1>1. /\ FedInv /\ PlaceInv /\ WellInv /\ FinishedInv /\ pushed = Len(fed)
  BY DEF BakeInv
<1>2. /\ Grown(Given, Frames) /\ Frames \in Seq(P!Message)
      /\ damaged = {} => Given = Frames
  <2>1. P!RecordingInv /\ P!SortedByStamp(P!FramesIn(input))
    BY <1>1, SameFrames DEF FedInv, P!SourceInv, P!Inv
  <2>2. /\ P!Grown(P!FramesIn(P!Played), P!FramesIn(input))
        /\ damaged = {} => P!FramesIn(P!Played) = P!FramesIn(input)
        /\ P!FramesIn(input) \in Seq(P!Message)
    BY <2>1, P!PlayedFramesInOrder
  <2>3. QED
    BY <2>2, SameFrames DEF Given, Grown, P!Grown
<1>3. IsPrefix(fed, Frames)
  <2> DEFINE n == IF Awaiting THEN Count - 1 ELSE Count
  <2>1. /\ Given \in Seq(P!Message) /\ n \in 0..Len(Given)
        /\ fed = SubSeq(Given, 1, n)
    BY <1>1 DEF FedInv
  <2> HIDE DEF n
  <2>2. QED
    BY <1>2, <2>1, PrefixOfGrown
<1>4. ASSUME status = "success"
      PROVE  /\ damaged = {} => fed = Frames
             /\ kept = Len(tape)
             /\ NumbersOf(Kinds) = [i \in 1..Len(fed) |-> i]
  <2>1. fed = Given
    BY <1>1, <1>4 DEF FedInv
  <2>2. Finished /\ Well
    BY <1>1, <1>4 DEF Finished, Well, PlaceInv
  <2>3. kept = Len(tape) /\ NumbersAt(tape, Kinds) = [i \in 1..pushed |-> i]
    BY <1>1, <2>2 DEF FinishedInv, WellInv
  <2>4. QED
    BY <1>1, <1>2, <2>1, <2>3, NumbersOfIs
<1>5. QED
  BY <1>3, <1>4

\* A bake that succeeds has mapped every frame it took, and its output and its
\* trajectory have every pose of the mapper and no other; for every input, any
\* number of failing writes and any interleaving with the mapping thread (bake,
\* push, finish).
THEOREM BakedIsMapped == BakeSpec => []BakeMapsAll
<1>1. QED
  BY BakeHolds, MapsAll, PTL

\* If the sensor frames of the input were recorded in the order of their times,
\* bake takes them in that order, none twice and none left out before the last
\* one, also when its chunks overlap in time; and if it succeeds, its output has
\* all of an input that can be read (next, push, finish).
THEOREM BakedKeepsFrames == BakeSpec => []BakeKeepsFrames
<1>1. QED
  BY BakeHolds, KeepsFrames, PTL

\* Bake uses LioRecorder as LioRecorder is specified, so its output is ordered
\* like every recording of it: frames in the order of the pushes, and poses at
\* most once, in order and behind their frames (bake, push, end_mapping).
THEOREM BakeKeepsOrder == BakeSpec => Spec /\ KeepsOrder
<1>1. BakeInit => Init
  BY DEF BakeInit
<1>2. [BakeNext]_bakeVars => [Next]_vars
  BY UsesSteps
<1>3. BakeSpec => Spec
  BY <1>1, <1>2, PTL DEF BakeSpec, Spec
<1>4. QED
  BY <1>3, RecordingImplemented
==============================================================================
