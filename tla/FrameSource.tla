---------------------------- MODULE FrameSource ----------------------------
(***************************************************************************)
(* What a data source made of a recording promises: its sensor frames one  *)
(* after the other, each one once, and an end that is final; a looping     *)
(* source starts again instead of ending, unless something that cannot be  *)
(* read stands behind its last frame.                                      *)
(***************************************************************************)
EXTENDS Integers, Sequences

CONSTANT None

VARIABLES
  frames,       \* the frames up to the end, or to what cannot be read
  whole,        \* everything can be read
  looping,
  given,        \* how many frames were given in this turn
  out,          \* the frame given last
  ended

Init == given = 0 /\ out = None /\ ended = FALSE

Turns == looping /\ whole

Give ==
  LET at == IF Turns /\ given = Len(frames) THEN 0 ELSE given
  IN  /\ ~ended
      /\ at < Len(frames)
      /\ given' = at + 1
      /\ out' = frames[at + 1]
      /\ UNCHANGED ended

\* The turn begins before its first frame is found or due.
Rewind ==
  /\ Turns /\ given = Len(frames)
  /\ given' = 0
  /\ UNCHANGED <<out, ended>>

End ==
  /\ given = Len(frames)
  /\ Turns => frames = <<>>
  /\ ended' = TRUE
  /\ UNCHANGED <<given, out>>

Next == (Give \/ Rewind \/ End) /\ UNCHANGED <<frames, whole, looping>>

Spec == Init /\ [][Next]_<<frames, whole, looping, given, out, ended>>
==============================================================================
