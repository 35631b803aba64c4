-------------------------- MODULE MappedRecording --------------------------
(***************************************************************************)
(* What recording while mapping promises: the sensor frames are recorded   *)
(* in the order they were pushed, and among them, never before its own     *)
(* lidar frame, in the order of the frames, and at most once, the pose of  *)
(* a lidar frame.  A frame is a record of a kind and a number; a pose has  *)
(* the number of its frame.                                                *)
(***************************************************************************)
EXTENDS Integers, Sequences

CONSTANTS Frames

VARIABLE tape

Entry(kind, n) == [kind |-> kind, n |-> n]

Init == tape = <<Entry("scene", 0)>>

Sensor(kind, n) ==
  /\ \A i \in 1..Len(tape) : tape[i].kind # "pose" => tape[i].n < n
  /\ tape' = Append(tape, Entry(kind, n))

Pose(n) ==
  /\ \E i \in 1..Len(tape) : tape[i] = Entry("lidar", n)
  /\ \A i \in 1..Len(tape) : tape[i].kind = "pose" => tape[i].n < n
  /\ tape' = Append(tape, Entry("pose", n))

Next ==
  \E n \in Frames : Sensor("imu", n) \/ Sensor("lidar", n) \/ Pose(n)

Spec == Init /\ [][Next]_tape
==============================================================================
