----------------------------- MODULE BagSource -----------------------------
(***************************************************************************)
(* A recording played back as a source of sensor frames: BagDataSource of  *)
(* crates/doracap-fastlio/src/lib.rs, over the player it owns.             *)
(*                                                                         *)
(* A recording also has messages that are no sensor frames: the scene, the *)
(* poses, other channels, payloads that do not decode.  next and try_next  *)
(* go on to the next message of the player until one decodes, so that a    *)
(* call is a loop, and time passes between its turns.                      *)
(***************************************************************************)
EXTENDS Player

VARIABLES
  decodes,       \* the messages conv::decode_message makes a frame of
  turning,       \* the call that is in its loop, or "no"
  said, taken    \* what the last call returned, and the last frame returned

bagVars == <<vars, decodes, turning, said, taken>>

BagInit ==
  /\ Init
  /\ decodes \in SUBSET {tape[i].id : i \in 1..Len(tape)}
  /\ turning = "no" /\ said = "none" /\ taken = None

\* An imu or lidar channel, and a payload of its type.
Decodes(m) == m.id \in decodes

------------------------------------------------------------------------------
(* next, try_next *)

Call(method) ==
  /\ turning = "no"
  /\ turning' = method
  /\ UNCHANGED <<vars, decodes, said, taken>>

Asks == \/ turning = "next" /\ NextMessage
        \/ turning = "try_next" /\ TryNext

Returns == turning' = "no" /\ said' = answer' /\ UNCHANGED <<decodes, taken>>

GivesFrame ==
  /\ answer' = "ready" /\ Decodes(last')
  /\ turning' = "no" /\ said' = "ready" /\ taken' = last'
  /\ UNCHANGED decodes

GoesOn ==
  /\ answer' = "ready" /\ ~Decodes(last')
  /\ UNCHANGED <<decodes, turning, said, taken>>

\* Broken on purpose: a message that does not decode is the end; the end is
\* looked for behind the end.
TurnWithoutLoop ==
  /\ Asks
  /\ \/ GivesFrame
     \/ /\ answer' = "ready" /\ ~Decodes(last')
        /\ turning' = "no" /\ said' = "end" /\ UNCHANGED <<decodes, taken>>
     \/ answer' # "ready" /\ Returns

TurnPastEnd ==
  /\ Asks
  /\ \/ GivesFrame
     \/ GoesOn
     \/ answer' = "wait" /\ Returns
     \/ answer' = "end" /\ UNCHANGED <<decodes, turning, said, taken>>

\* One turn of the loop: the message decodes, or it does not, or there is none.
Turn ==
  /\ Asks
  /\ \/ GivesFrame
     \/ GoesOn
     \/ answer' # "ready" /\ Returns

TimePasses == Tick /\ UNCHANGED <<decodes, turning, said, taken>>

BagNext == Call("next") \/ Call("try_next") \/ Turn \/ TimePasses

BagSpec == BagInit /\ [][BagNext]_bagVars

\* A call that was made runs, time passes, and whoever has the source asks it
\* again and again.
AskingSpec ==
  /\ BagSpec
  /\ WF_bagVars(Turn) /\ WF_bagVars(TimePasses)
  /\ WF_bagVars(Call("next") \/ Call("try_next"))

------------------------------------------------------------------------------
(* Properties *)

\* What the player plays: the time line if it has the whole recording in
\* memory, and otherwise the chunks one after the other, up to one that cannot
\* be read.
Played ==
  LET upto[c \in 0..Len(disk)] ==
        IF c = 0 THEN <<>> ELSE upto[c - 1] \o disk[c]
  IN  IF chunks = <<>> THEN StableSort(tape)
      ELSE upto[Cardinality({c \in 1..Len(disk) :
                               \A b \in 1..c : b \notin damaged})]

FramesIn(msgs) == Only(msgs, {m \in Message : Decodes(m)})

Source == INSTANCE FrameSource
  WITH frames <- FramesIn(Played), whole <- damaged = {}, looping <- loop_,
       given <- Len(FramesIn(SubSeq(Played, 1, pos))),
       out <- taken, ended <- said = "end"

\* Whatever lies between them, and in whatever order next and try_next are
\* called, the frames of a recording are given one after the other, none left
\* out and none given twice, and the end is said behind the last frame and
\* never before, or at a chunk that cannot be read.
GivesEveryFrame == Source!Spec

\* Nothing in a recording that is played in a loop is a frame.
Barren == loop_ /\ total > 0 /\ damaged = {} /\ decodes = {}

\* Every call returns, although it goes on until a message decodes; the one
\* exception is a loop over a recording without any frame, in which next and
\* try_next go round for ever.
SourceAnswers == turning # "no" /\ ~Barren ~> turning = "no"

\* A source that is asked again and again, with next or try_next, comes to its
\* end: asking too early never puts off the message that is waited for.
EndIsReached == ~loop_ ~> said = "end"
==============================================================================
