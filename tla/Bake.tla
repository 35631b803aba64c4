-------------------------------- MODULE Bake --------------------------------
(***************************************************************************)
(* `doracap bake`: a recording is played back into a recording with poses; *)
(* bake of crates/doracap/src/main.rs.                                     *)
(*                                                                         *)
(* The main thread takes the sensor frames of the input one by one from a  *)
(* BagDataSource, as fast as they come, and pushes them to a LioRecorder;  *)
(* then it waits for the mapping thread, and exports the map and the poses *)
(* if it is asked to.  Any error ends it; the recorder is dropped at the   *)
(* end of either way.  Progress output and the files of the export are     *)
(* left out.                                                               *)
(***************************************************************************)
EXTENDS LioRecorder, Dcap, SequencesExt

CONSTANTS
  None,
  Stamps, ChunkSizes, Indexed, Damage  \* of the input, as in Player

VARIABLES
  \* the player of the input, and the data source around it
  input,         \* the messages of the input in the order they were written
  disk, damaged, chunks, chunk_starts, total, rate, loop_, all, loaded, pos,
  elapsed, first_ts, answer, last,
  decodes, turning, said, taken,
  \* the main thread
  at,
  status,        \* the exit code, once it is known
  \* history
  fed            \* the messages that were pushed

\* PlayOptions::default(): no pacing and no loop.
Source == INSTANCE BagSource
  WITH tape <- input, MaxMessages <- MaxFrames, InOrder <- FALSE,
       OpenRates <- {<<0, 1>>}, Loops <- {FALSE}, Rates <- {},
       SeekTargets <- {}, Ratios <- {}, MaxElapsed <- 0

ASSUME BakeAssumption == Source!PlayerAssumption

sourceVars == <<input, disk, damaged, chunks, chunk_starts, total, rate, loop_,
                all, loaded, pos, elapsed, first_ts, answer, last, decodes,
                turning, said, taken>>
mainVars == <<at, status, fed>>
bakeVars == <<vars, sourceVars, mainVars>>

BakeInit ==
  /\ Init
  /\ Source!BagInit
  /\ at = "source" /\ status = "none" /\ fed = <<>>

------------------------------------------------------------------------------
(* while let Some(data) = source.next() *)

AskSource ==
  /\ at = "source"
  /\ Source!Call("next")
  /\ at' = "asked"
  /\ UNCHANGED <<vars, status, fed>>

SourceTurns == at = "asked" /\ Source!Turn /\ UNCHANGED <<vars, mainVars>>

Feed(kind) ==
  /\ at = "asked" /\ turning = "no" /\ said = "ready"
  /\ Push(kind)
  /\ fed' = Append(fed, taken)
  /\ at' = "push"
  /\ UNCHANGED <<sourceVars, status>>

SourceIsOut ==
  /\ at = "asked" /\ turning = "no" /\ said = "end"
  /\ at' = "finish"
  /\ UNCHANGED <<vars, sourceVars, status, fed>>

\* A call of the recorder has returned; on Err bake fails.
ReturnsTo(place) ==
  /\ call = "idle"
  /\ IF result = "ok" THEN at' = place /\ UNCHANGED status
                      ELSE at' = "leave" /\ status' = "failure"
  /\ UNCHANGED <<vars, sourceVars, fed>>

PushReturns == at = "push" /\ ReturnsTo("source")

------------------------------------------------------------------------------
(* finish, export_pcd, export_pos *)

\* Broken on purpose: the backlog is discarded.
FinishAtOnce ==
  /\ at = "finish"
  /\ EndMapping(FALSE)
  /\ at' = "finishing"
  /\ UNCHANGED <<sourceVars, status, fed>>

FinishAll ==
  /\ at = "finish"
  /\ EndMapping(TRUE)
  /\ at' = "finishing"
  /\ UNCHANGED <<sourceVars, status, fed>>

FinishReturns == at = "finishing" /\ ReturnsTo("export_pcd")

Leaves(s) == at' = "leave" /\ status' = s

\* --pcd and --pos may be absent.  mapping_mut() panics without a map; a file
\* that cannot be written fails.
ExportPcd ==
  /\ at = "export_pcd"
  /\ \/ at' = "export_pos" /\ UNCHANGED status
     \/ Leaves(IF mapping THEN "failure" ELSE "panic")
  /\ UNCHANGED <<vars, sourceVars, fed>>

ExportPos ==
  /\ at = "export_pos"
  /\ Leaves("success") \/ Leaves("failure")
  /\ UNCHANGED <<vars, sourceVars, fed>>

\* The recorder goes with the function.
Leave ==
  /\ at = "leave"
  /\ Drop
  /\ at' = "exit"
  /\ UNCHANGED <<sourceVars, status, fed>>

------------------------------------------------------------------------------

Steps ==
  \/ AskSource \/ SourceTurns
  \/ \E kind \in Kinds : Feed(kind)
  \/ SourceIsOut \/ PushReturns
  \/ FinishAll \/ FinishReturns \/ ExportPcd \/ ExportPos \/ Leave

MainRuns == Steps \/ (OwnerRuns /\ UNCHANGED <<sourceVars, mainVars>>)

MapperRuns == WorkerRuns /\ UNCHANGED <<sourceVars, mainVars>>

BakeNext == MainRuns \/ MapperRuns

\* Both threads get their turns.
BakeSpec ==
  BakeInit /\ [][BakeNext]_bakeVars
    /\ WF_bakeVars(MainRuns) /\ WF_bakeVars(MapperRuns)

------------------------------------------------------------------------------
(* Properties *)

Frames == Source!FramesIn(input)

\* The numbers of the entries of these kinds, in the order of the recording.
NumbersOf(kinds) ==
  LET entries == Only(tape, [kind : kinds, n : Numbers])
  IN  [i \in 1..Len(entries) |-> entries[i].n]

\* The sensor frames of the input were recorded in the order of their times.
SortedInput == Source!SortedByStamp(Frames)

\* Bake keeps the sensor frames of its input: whatever else is in it, also
\* poses that were written late, so that its chunks overlap in time, the frames
\* go into the output in the order they were recorded, none twice and none left
\* out before the last one; an input that can be read is baked to its end, and
\* success means that the output covers all of it (next, push, finish).
BakeKeepsFrames ==
  SortedInput =>
    /\ IsPrefix(fed, Frames)
    /\ status = "success" =>
         /\ damaged = {} => fed = Frames
         /\ kept = Len(tape)
         /\ NumbersOf(Kinds) = [i \in 1..Len(fed) |-> i]

\* A bake that succeeds has mapped every frame it took from the input, and its
\* output and its exported trajectory have every pose the mapper gave for them
\* and no other.
BakeMapsAll ==
  status = "success" =>
    /\ mapped = sent /\ Len(sent) = Len(fed)
    /\ poses = emitted
    /\ poses = NumbersOf({"pose"})

\* Bake ends, whatever the input has, a write does, or the mapper does.
BakeEnds == <>(call = "gone")
==============================================================================
