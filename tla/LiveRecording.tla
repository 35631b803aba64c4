---------------------------- MODULE LiveRecording ----------------------------
(***************************************************************************)
(* The program around LioRecorder: record_loop, run_live and run_sim of    *)
(* crates/doracap/examples/record_play_lio.rs.                             *)
(*                                                                         *)
(* The main thread polls a data source and pushes what it gets, until the  *)
(* source ends, a deadline passes, or Ctrl+C sets a flag from its handler; *)
(* then it finishes the recording, waits for the map if it is asked for,   *)
(* and exports it.  An error anywhere returns at once and drops the        *)
(* recorder.  Progress output is left out, and so are the options.         *)
(***************************************************************************)
EXTENDS LioRecorder

VARIABLES
  at,            \* where the main thread is
  live,          \* run_live, or run_sim
  map,           \* wait_map: finish and export, or finish_now
  deadline,      \* "none", "ahead" or "passed"
  interrupted,   \* the flag Ctrl+C sets
  total,         \* stats.total()
  status,        \* what the program will return, once it is known
  overrun        \* history: frames taken after an interrupt or the deadline

options == <<live, map>>
loopVars == <<at, options, deadline, interrupted, total, status, overrun>>

LiveInit ==
  /\ Init
  /\ at = "deadline"
  /\ \/ /\ live = TRUE
        /\ map \in BOOLEAN
        /\ deadline \in {"none", "ahead"}
     \/ /\ live = FALSE
        /\ map = TRUE
        /\ deadline = "none"
  /\ interrupted = FALSE /\ total = 0 /\ status = "none" /\ overrun = 0

------------------------------------------------------------------------------
(* The signal handler and the clock *)

Interrupt ==
  /\ live /\ ~interrupted
  /\ interrupted' = TRUE
  /\ UNCHANGED <<vars, at, options, deadline, total, status, overrun>>

DeadlinePasses ==
  /\ deadline = "ahead"
  /\ deadline' = "passed"
  /\ UNCHANGED <<vars, at, options, interrupted, total, status, overrun>>

------------------------------------------------------------------------------
(* record_loop *)

CheckDeadline ==
  /\ at = "deadline"
  /\ at' = IF deadline = "passed" THEN "finish" ELSE "interrupt"
  /\ UNCHANGED <<vars, options, deadline, interrupted, total, status, overrun>>

\* Broken on purpose: only the deadline ends a recording.
CheckNoInterrupt ==
  /\ at = "interrupt"
  /\ at' = "source"
  /\ UNCHANGED <<vars, options, deadline, interrupted, total, status, overrun>>

CheckInterrupt ==
  /\ at = "interrupt"
  /\ at' = IF interrupted THEN "finish" ELSE "source"
  /\ UNCHANGED <<vars, options, deadline, interrupted, total, status, overrun>>

\* source.try_next() has a frame, none for now, or none any more.
Record(kind) ==
  /\ at = "source"
  /\ Push(kind)
  /\ at' = "push"
  /\ total' = total + 1
  /\ overrun' = IF interrupted \/ deadline = "passed" THEN overrun + 1
                ELSE overrun
  /\ UNCHANGED <<options, deadline, interrupted, status>>

SourceIsEmpty ==
  /\ at = "source"
  /\ at' = "deadline"
  /\ UNCHANGED <<vars, options, deadline, interrupted, total, status, overrun>>

SourceEnds ==
  /\ at = "source"
  /\ at' = "finish"
  /\ UNCHANGED <<vars, options, deadline, interrupted, total, status, overrun>>

\* The ? after a call: on Err the recorder is dropped and the error returned.
ReturnsTo(place) ==
  /\ call = "idle"
  /\ IF result = "ok" THEN at' = place /\ UNCHANGED status
                      ELSE at' = "leave" /\ status' = "err"
  /\ UNCHANGED <<vars, options, deadline, interrupted, total, overrun>>

\* Broken on purpose: a failing push is not noticed; the source is emptied
\* before anything else is looked at.
PushIgnored ==
  /\ at = "push"
  /\ call = "idle"
  /\ at' = "deadline"
  /\ UNCHANGED <<vars, options, deadline, interrupted, total, status, overrun>>

PushReturnsToSource == at = "push" /\ ReturnsTo("source")

PushReturns == at = "push" /\ ReturnsTo("deadline")

EndRecording ==
  /\ at = "finish"
  /\ EndMapping(map)
  /\ at' = "finishing"
  /\ UNCHANGED <<options, deadline, interrupted, total, status, overrun>>

\* Broken on purpose: the result of finish is not looked at.
FinishIgnored ==
  /\ at = "finishing"
  /\ call = "idle"
  /\ at' = "recorded"
  /\ UNCHANGED <<vars, options, deadline, interrupted, total, status, overrun>>

FinishReturns == at = "finishing" /\ ReturnsTo("recorded")

------------------------------------------------------------------------------
(* run_live, run_sim: after record_loop *)

Leaves(s) == at' = "leave" /\ status' = s

Recorded ==
  /\ at = "recorded"
  /\ \/ live /\ total = 0 /\ Leaves("err")
     \/ live /\ total > 0 /\ ~map /\ Leaves("ok")
     \/ map /\ (live => total > 0) /\ at' = "export" /\ UNCHANGED status
  /\ UNCHANGED <<vars, options, deadline, interrupted, total, overrun>>

\* mapping_mut() panics before finish has returned the map; the files that are
\* written may fail.
ExportMap ==
  /\ at = "export"
  /\ \E s \in {"ok", "err"} : Leaves(IF mapping THEN s ELSE "panic")
  /\ UNCHANGED <<vars, options, deadline, interrupted, total, overrun>>

Leave ==
  /\ at = "leave"
  /\ Drop
  /\ at' = "exit"
  /\ UNCHANGED <<options, deadline, interrupted, total, status, overrun>>

------------------------------------------------------------------------------

LoopRuns ==
  \/ CheckDeadline \/ CheckInterrupt
  \/ \E kind \in Kinds : Record(kind)
  \/ SourceIsEmpty \/ SourceEnds
  \/ PushReturns \/ EndRecording \/ FinishReturns
  \/ Recorded \/ ExportMap \/ Leave

MainRuns == LoopRuns \/ (OwnerRuns /\ UNCHANGED loopVars)

MapperRuns == WorkerRuns /\ UNCHANGED loopVars

LiveNext == MainRuns \/ MapperRuns \/ Interrupt \/ DeadlinePasses

\* Both threads get their turns; nobody has to press Ctrl+C, and a source may
\* be without a frame for ever.
LiveSpec ==
  LiveInit /\ [][LiveNext]_<<vars, loopVars>>
    /\ WF_<<vars, loopVars>>(MainRuns) /\ WF_<<vars, loopVars>>(MapperRuns)

------------------------------------------------------------------------------
(* Properties *)

SensorNumbers(t) == {t[i].n : i \in {k \in 1..Len(t) : t[k].kind \in Kinds}}

\* A program that reports success has lost nothing: the file covers everything
\* that was written, every frame the source gave and every pose the mapper
\* gave; with the map asked for, every frame was mapped (record_loop, push,
\* end_mapping).
SuccessIsComplete ==
  at = "exit" /\ status = "ok" =>
    /\ kept = Len(tape)
    /\ SensorNumbers(tape) = 1..total
    /\ poses = emitted
    /\ map => mapped = sent /\ Len(sent) = total

\* export_map never meets the panic of mapping_mut: whatever the worker did,
\* the map is there once record_loop has returned Ok.
ExportHasMap == status # "panic"

\* After Ctrl+C, or the deadline, at most the frame being taken is recorded,
\* however many the source still has (record_loop).
StopsAtOnce == overrun <= 1

\* Ctrl+C and the deadline end the program, also while the source has nothing
\* and the worker waits for it.
EndsWhenTold == interrupted \/ deadline = "passed" ~> call = "gone"
==============================================================================
