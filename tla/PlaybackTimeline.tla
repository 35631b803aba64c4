-------------------------- MODULE PlaybackTimeline --------------------------
(***************************************************************************)
(* What playback promises: one time line, the messages of a recording in   *)
(* the order of their stamps, and a play head on it.  Messages come out    *)
(* one after the other from the play head on; a seek puts the head before  *)
(* the first message that is not earlier than its target, which may be     *)
(* given as a fraction of the time line.  Where a part of the recording    *)
(* cannot be read, a seek into it ends at the end.                         *)
(*                                                                         *)
(* Each action is what one call of a player may do; a player is held to    *)
(* the action of the call that was made, with its argument.                *)
(***************************************************************************)
EXTENDS Integers, Sequences

CONSTANTS None, Targets, Ratios

VARIABLES
  timeline,     \* the messages, in the order of their stamps
  holes,        \* some of it cannot be read
  looping,      \* play from the start again after the last message
  head,         \* the number of messages before the play head
  last          \* the message delivered last

Init == head = 0 /\ last = None

Wrapped == looping /\ head = Len(timeline)

\* Nothing is left to play.
Ended == timeline = <<>> \/ (head = Len(timeline) /\ ~looping)

Stay == UNCHANGED <<head, last>>

Deliver ==
  LET at == IF Wrapped THEN 0 ELSE head
  IN  /\ at < Len(timeline)
      /\ head' = at + 1
      /\ last' = timeline[at + 1]

\* The head goes round although no message is delivered.
Rewind == Wrapped /\ head' = 0 /\ UNCHANGED last

\* A call that waits for the next message gets it, unless there is none or it
\* cannot be read.
Await == Deliver \/ (Ended /\ Stay) \/ (holes /\ (Rewind \/ Stay))

\* A call that does not wait may also be too early.
Ask == Deliver \/ Rewind \/ Stay

\* The place behind the messages that are earlier than the target.
Earlier(target) ==
  {n \in 0..Len(timeline) :
     \A i \in 1..Len(timeline) : timeline[i].stamp < target <=> i <= n}

SeekTo(target) ==
  /\ \/ head' \in Earlier(target)
     \/ holes /\ head' = Len(timeline)
  /\ UNCHANGED last

\* The time after a fraction of the time line.
TimeOf(ratio) ==
  IF timeline = <<>> THEN 0
  ELSE LET first == timeline[1].stamp
           span  == timeline[Len(timeline)].stamp - first
       IN  first + (span * ratio[1]) \div ratio[2]

SeekRatio(ratio) == SeekTo(TimeOf(ratio))

SeekToStart == head' = 0 /\ UNCHANGED last

Next ==
  /\ \/ Ask
     \/ \E target \in Targets : SeekTo(target)
     \/ \E ratio \in Ratios : SeekRatio(ratio)
     \/ SeekToStart
  /\ UNCHANGED <<timeline, holes, looping>>

Spec == Init /\ [][Next]_<<timeline, holes, looping, head, last>>
==============================================================================
