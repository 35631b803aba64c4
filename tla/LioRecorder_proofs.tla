------------------------- MODULE LioRecorder_proofs -------------------------
(***************************************************************************)
(* Proofs about LioRecorder: types, that it implements MappedRecording for *)
(* any number of frames and failures and wherever the worker panics, and   *)
(* that it loses nothing.                                                  *)
(***************************************************************************)
EXTENDS LioRecorder, SequenceTheorems, TLAPS

USE RecorderAssumption

\* Between write and send, the frame at hand is the last one recorded.
AtHand == call = "send" => tape # <<>> /\ tape[Len(tape)] \in Frame

TypeInv == TypeOK /\ AtHand

LEMMA EntryType ==
  ASSUME NEW kind \in {"scene", "imu", "lidar", "pose"}, NEW n \in 0..MaxFrames
  PROVE  /\ Entry(kind, n) \in TapeEntry
         /\ Entry(kind, n).kind = kind /\ Entry(kind, n).n = n
         /\ kind \in Kinds /\ n \in Numbers => Entry(kind, n) \in Frame
  BY DEF Entry, TapeEntry, Frame, Kinds, Numbers

LEMMA NumbersAreNat ==
  /\ \A n \in Numbers : n \in Nat
  /\ \A e \in TapeEntry : e.n \in Nat
<1>1. \A n \in 0..MaxFrames : n \in Nat
  BY RecorderAssumption
<1>2. \A e \in TapeEntry : e.n \in 0..MaxFrames
  BY DEF TapeEntry
<1>3. \A n \in Numbers : n \in 0..MaxFrames
  BY RecorderAssumption DEF Numbers
<1>4. QED
  BY <1>1, <1>2, <1>3

LEMMA AppendLast ==
  ASSUME NEW S, NEW s \in Seq(S), NEW e \in S
  PROVE  /\ Append(s, e) \in Seq(S) /\ Append(s, e) # <<>>
         /\ Len(Append(s, e)) = Len(s) + 1 /\ Len(s) \in Nat
         /\ Append(s, e)[Len(Append(s, e))] = e
         /\ 0..Len(s) \subseteq 0..Len(Append(s, e))
  OBVIOUS

LEMMA EmptyType == ASSUME NEW S PROVE <<>> \in Seq(S)
  OBVIOUS

LEMMA WriteType ==
  ASSUME TypeInv, NEW e \in TapeEntry, WriteOk(e) \/ WriteFails(e)
  PROVE  /\ tape' \in Seq(TapeEntry) /\ failures' \in 0..MaxFailures
         /\ 0..Len(tape) \subseteq 0..Len(tape')
<1>1. tape' = tape \/ tape' = Append(tape, e)
  BY DEF WriteOk, WriteFails
<1>2. tape \in Seq(TapeEntry)
  BY DEF TypeInv, TypeOK
<1>3. failures' \in 0..MaxFailures
  BY DEF WriteOk, WriteFails, TypeInv, TypeOK
<1>4. QED
  BY <1>1, <1>2, <1>3, AppendLast

LEMMA PushType ==
  ASSUME TypeInv, NEW kind \in Kinds, Push(kind)
  PROVE  TypeInv'
<1> DEFINE n == pushed + 1
           e == Entry(kind, n)
<1>1. n \in Numbers /\ kind \in {"scene", "imu", "lidar", "pose"}
  BY DEF Push, TypeInv, TypeOK, Numbers, Kinds
<1>2. e \in TapeEntry /\ e \in Frame
  BY <1>1, EntryType DEF Numbers
<1>3. pushed' = n
  BY DEF Push
<1> HIDE DEF n, e
<1>4. WriteOk(e) \/ WriteFails(e)
  BY DEF Push, n, e
<1>5. /\ tape' \in Seq(TapeEntry) /\ failures' \in 0..MaxFailures
      /\ 0..Len(tape) \subseteq 0..Len(tape')
  BY <1>2, <1>4, WriteType
<1>6. call' = "send" => tape' = Append(tape, e)
  BY DEF Push, WriteOk, Returns, n, e
<1>7. tape \in Seq(TapeEntry)
  BY DEF TypeInv, TypeOK
<1>8. AtHand'
  BY <1>2, <1>6, <1>7, AppendLast DEF AtHand
<1>9. pushed' \in 0..MaxFrames
  BY <1>1, <1>3 DEF Numbers
<1>10. TypeOK'
  BY <1>5, <1>9 DEF Push, Returns, Goes, TypeInv, TypeOK, shared, mapper
<1>11. QED
  BY <1>8, <1>10 DEF TypeInv

LEMMA SendType ==
  ASSUME TypeInv, Send
  PROVE  TypeInv'
<1>1. tape[Len(tape)] \in Frame
  BY DEF Send, TypeInv, AtHand
<1>2. frames' \in Seq(Frame) /\ sent' \in Seq(Frame)
  <2>1. /\ frames' = frames \/ frames' = Append(frames, tape[Len(tape)])
        /\ sent' = sent \/ sent' = Append(sent, tape[Len(tape)])
    BY DEF Send
  <2>2. frames \in Seq(Frame) /\ sent \in Seq(Frame)
    BY DEF TypeInv, TypeOK
  <2>3. /\ Append(frames, tape[Len(tape)]) \in Seq(Frame)
        /\ Append(sent, tape[Len(tape)]) \in Seq(Frame)
    BY <1>1, <2>2, AppendLast
  <2>4. QED
    BY <2>1, <2>2, <2>3
<1>3. QED
  BY <1>2 DEF Send, Goes, TypeInv, TypeOK, AtHand, mapper

LEMMA DrainPoseType ==
  ASSUME TypeInv, DrainPose
  PROVE  TypeInv'
<1> DEFINE n == Head(pose_channel)
           e == Entry("pose", n)
<1>1. n \in Numbers /\ Tail(pose_channel) \in Seq(Numbers)
  BY DEF DrainPose, TypeInv, TypeOK
<1>2. e \in TapeEntry
  BY <1>1, EntryType DEF Numbers
<1> HIDE DEF n, e
<1>3. WriteOk(e) \/ WriteFails(e)
  BY DEF DrainPose, n, e
<1>4. /\ tape' \in Seq(TapeEntry) /\ failures' \in 0..MaxFailures
      /\ 0..Len(tape) \subseteq 0..Len(tape')
  BY <1>2, <1>3, WriteType
<1>5. poses' \in Seq(Numbers)
  <2>1. poses' = poses \/ poses' = Append(poses, n)
    BY DEF DrainPose, n
  <2>3. poses \in Seq(Numbers)
    BY DEF TypeInv, TypeOK
  <2>4. QED
    BY <1>1, <2>1, <2>3, AppendLast
<1>6. call' # "send" /\ call' \in {"idle", "drain", "end_drain"}
  BY DEF DrainPose, Returns
<1>7. pose_channel' \in Seq(Numbers) /\ result' \in {"ok", "err"}
  BY <1>1 DEF DrainPose, Returns, TypeInv, TypeOK
<1>8. TypeOK'
  BY <1>4, <1>5, <1>6, <1>7 DEF DrainPose, TypeInv, TypeOK, mapper
<1>9. QED
  BY <1>6, <1>8 DEF TypeInv, AtHand

LEMMA OwnerType ==
  ASSUME TypeInv,
         \/ DrainEnds \/ SetStop \/ Join \/ RecFinish \/ Drop \/ DropTx
         \/ DropJoin \/ \E d \in BOOLEAN : EndMapping(d)
  PROVE  TypeInv'
<1>1. CASE DrainEnds
  BY <1>1 DEF DrainEnds, Returns, Goes, TypeInv, TypeOK, AtHand, shared, mapper,
              history
<1>2. CASE SetStop
  BY <1>2 DEF SetStop, Goes, TypeInv, TypeOK, AtHand, mapper, history
<1>3. CASE Join
  BY <1>3 DEF Join, Returns, Goes, TypeInv, TypeOK, AtHand, shared, mapper,
              history
<1>4. CASE RecFinish
  BY <1>4 DEF RecFinish, Returns, TypeInv, TypeOK, AtHand, shared, mapper
<1>5. CASE Drop
  BY <1>5 DEF Drop, Goes, TypeInv, TypeOK, AtHand, mapper, history
<1>6. CASE DropTx
  BY <1>6 DEF DropTx, Goes, TypeInv, TypeOK, AtHand, mapper, history
<1>7. CASE DropJoin
  <2>1. kept' \in 0..Len(tape) /\ <<>> \in Seq(Numbers)
    BY <1>7 DEF DropJoin, TypeInv, TypeOK
  <2>2. QED
    BY <1>7, <2>1 DEF DropJoin, Goes, TypeInv, TypeOK, AtHand, mapper, history
<1>8. ASSUME NEW d \in BOOLEAN, EndMapping(d)
      PROVE  TypeInv'
  BY <1>8 DEF EndMapping, Goes, TypeInv, TypeOK, AtHand, mapper, history
<1>9. QED
  BY <1>1, <1>2, <1>3, <1>4, <1>5, <1>6, <1>7, <1>8

LEMMA WorkerType ==
  ASSUME TypeInv, WorkerRuns
  PROVE  TypeInv'
<1>1. AtHand'
  BY DEF WorkerRuns, CheckStop, Recv, Disconnected, MapOne, Panics, owner,
         TypeInv, AtHand
<1>2. CASE CheckStop
  <2>1. frames' \in Seq(Frame)
    <3>1. frames' = frames \/ frames' = <<>>
      BY <1>2 DEF CheckStop, Ends
    <3>2. frames \in Seq(Frame)
      BY DEF TypeInv, TypeOK
    <3>3. QED
      BY <3>1, <3>2, EmptyType
  <2>2. worker' \in {"done", "recv"}
    BY <1>2 DEF CheckStop, Ends
  <2>3. QED
    BY <1>1, <1>2, <2>1, <2>2 DEF CheckStop, TypeInv, TypeOK, owner, history
<1>3. CASE Recv
  <2>1. Head(frames) \in Frame /\ Tail(frames) \in Seq(Frame)
    BY <1>3 DEF Recv, TypeInv, TypeOK
  <2>2. mapped' \in Seq(Frame)
    BY <1>3, <2>1 DEF Recv, TypeInv, TypeOK
  <2>3. late' \in Nat
    BY <1>3 DEF Recv, TypeInv, TypeOK
  <2>4. QED
    BY <1>1, <1>3, <2>1, <2>2, <2>3 DEF Recv, TypeInv, TypeOK, owner
<1>4. CASE Disconnected
  BY <1>1, <1>4 DEF Disconnected, Ends, TypeInv, TypeOK, owner, history
<1>5. CASE MapOne
  <2>1. \/ UNCHANGED <<posed, pose_channel, emitted>>
        \/ \E n \in Numbers :
             /\ posed' = n
             /\ pose_channel' = Append(pose_channel, n)
             /\ emitted' = Append(emitted, n)
    BY <1>5 DEF MapOne, Unanswered
  <2>2. /\ posed' \in 0..MaxFrames /\ pose_channel' \in Seq(Numbers)
        /\ emitted' \in Seq(Numbers)
    <3>1. \A n \in Numbers : n \in 0..MaxFrames
      BY DEF Numbers
    <3>2. /\ posed \in 0..MaxFrames /\ pose_channel \in Seq(Numbers)
          /\ emitted \in Seq(Numbers)
      BY DEF TypeInv, TypeOK
    <3>3. QED
      <4>1. CASE UNCHANGED <<posed, pose_channel, emitted>>
        BY <3>2, <4>1
      <4>2. ASSUME NEW n \in Numbers, posed' = n,
                   pose_channel' = Append(pose_channel, n),
                   emitted' = Append(emitted, n)
            PROVE  /\ posed' \in 0..MaxFrames /\ pose_channel' \in Seq(Numbers)
                   /\ emitted' \in Seq(Numbers)
        <5>1. /\ Append(pose_channel, n) \in Seq(Numbers)
              /\ Append(emitted, n) \in Seq(Numbers)
          BY <3>2, AppendLast
        <5>2. QED
          BY <3>1, <4>2, <5>1
      <4>3. QED
        BY <2>1, <4>1, <4>2
  <2>3. QED
    BY <1>1, <1>5, <2>2 DEF MapOne, TypeInv, TypeOK, owner
<1>6. CASE Panics
  BY <1>1, <1>6 DEF Panics, Ends, TypeInv, TypeOK, owner, history
<1>7. QED
  BY <1>2, <1>3, <1>4, <1>5, <1>6 DEF WorkerRuns

LEMMA InitType == Init => TypeInv
<1> SUFFICES ASSUME Init PROVE TypeInv
  OBVIOUS
<1>1. tape \in Seq(TapeEntry) /\ Len(tape) \in Nat
  BY EntryType DEF Init
<1>2. /\ poses \in Seq(Numbers) /\ pose_channel \in Seq(Numbers)
      /\ emitted \in Seq(Numbers) /\ frames \in Seq(Frame)
      /\ sent \in Seq(Frame) /\ mapped \in Seq(Frame)
  BY DEF Init
<1>3. kept \in 0..Len(tape) /\ posed \in 0..MaxFrames /\ pushed \in 0..MaxFrames
      /\ failures \in 0..MaxFailures /\ late \in Nat
  BY <1>1, RecorderAssumption DEF Init
<1>4. TypeOK
  BY <1>1, <1>2, <1>3 DEF Init, TypeOK
<1>5. QED
  BY <1>4 DEF Init, TypeInv, AtHand

LEMMA StepType == TypeInv /\ [Next]_vars => TypeInv'
<1> SUFFICES ASSUME TypeInv, [Next]_vars PROVE TypeInv'
  OBVIOUS
<1>1. CASE OwnerCalls
  BY <1>1, PushType, OwnerType DEF OwnerCalls
<1>2. CASE OwnerRuns
  BY <1>2, SendType, DrainPoseType, OwnerType DEF OwnerRuns
<1>3. CASE WorkerRuns
  BY <1>3, WorkerType
<1>4. CASE UNCHANGED vars
  BY <1>4 DEF vars, owner, shared, mapper, history, TypeInv, TypeOK, AtHand
<1>5. QED
  BY <1>1, <1>2, <1>3, <1>4 DEF Next

\* The state of the recorder keeps its types, whatever the owner and the worker
\* do (push, finish, finish_now, drop, spawn_map_worker).
THEOREM TypeCorrect == Spec => []TypeOK
<1>1. TypeInv => TypeOK
  BY DEF TypeInv
<1>2. QED
  BY <1>1, InitType, StepType, PTL DEF Spec

------------------------------------------------------------------------------
(* The order of the recording *)

InTape(t, e) == \E i \in 1..Len(t) : t[i] = e

\* The frames recorded are among the first b pushed, the poses not above p.
SensorsUpTo(t, b) == \A i \in 1..Len(t) : t[i].kind # "pose" => t[i].n <= b
PosesUpTo(t, p) == \A i \in 1..Len(t) : t[i].kind = "pose" => t[i].n <= p

\* The poses in the channel q come after those recorded, in order, up to p, and
\* each has its frame recorded.
PosesWait(t, q, p) ==
  /\ \A k \in 1..Len(q) :
       /\ q[k] <= p /\ InTape(t, Entry("lidar", q[k]))
       /\ \A i \in 1..Len(t) : t[i].kind = "pose" => t[i].n < q[k]
  /\ \A j, k \in 1..Len(q) : j < k => q[j] < q[k]

\* The frames of a channel are recorded.
AllInTape(t, fs) == \A k \in 1..Len(fs) : InTape(t, fs[k])

OrderInv ==
  /\ SensorsUpTo(tape, pushed)
  /\ PosesUpTo(tape, posed)
  /\ PosesWait(tape, pose_channel, posed)
  /\ AllInTape(tape, frames)
  /\ AllInTape(tape, mapped)

LEMMA InTapeAppend ==
  ASSUME NEW t \in Seq(TapeEntry), NEW e \in TapeEntry
  PROVE  /\ InTape(Append(t, e), e)
         /\ \A d : InTape(t, d) => InTape(Append(t, e), d)
         /\ Len(Append(t, e)) = Len(t) + 1 /\ Len(t) \in Nat
         /\ \A i \in 1..Len(t) : Append(t, e)[i] = t[i]
         /\ Append(t, e)[Len(t) + 1] = e
         /\ \A i \in 1..Len(t) + 1 : i \in 1..Len(t) \/ i = Len(t) + 1
         /\ \A i \in 1..Len(t) : t[i] \in TapeEntry
  BY DEF InTape

LEMMA RecordedAppend ==
  ASSUME NEW t \in Seq(TapeEntry), NEW e \in TapeEntry, NEW fs, AllInTape(t, fs)
  PROVE  AllInTape(Append(t, e), fs)
  BY InTapeAppend DEF AllInTape

LEMMA SensorAppend ==
  ASSUME NEW t \in Seq(TapeEntry), NEW kind \in Kinds, NEW b \in Nat,
         b + 1 \in Numbers, NEW q \in Seq(Numbers), NEW p \in Nat,
         SensorsUpTo(t, b), PosesUpTo(t, p), PosesWait(t, q, p)
  PROVE  LET e == Entry(kind, b + 1)
         IN  /\ SensorsUpTo(t, b + 1)
             /\ SensorsUpTo(Append(t, e), b + 1)
             /\ PosesUpTo(Append(t, e), p)
             /\ PosesWait(Append(t, e), q, p)
<1> DEFINE e == Entry(kind, b + 1)
<1>1. e \in TapeEntry /\ e.kind # "pose" /\ e.n = b + 1
  BY EntryType DEF Kinds, Numbers
<1> HIDE DEF e
<1>2. \A i \in 1..Len(t) : t[i].n \in Nat
  BY NumbersAreNat
<1>3. SensorsUpTo(t, b + 1)
  BY <1>2 DEF SensorsUpTo
<1>4. SensorsUpTo(Append(t, e), b + 1)
  BY <1>1, <1>3, InTapeAppend DEF SensorsUpTo
<1>5. PosesUpTo(Append(t, e), p)
  BY <1>1, InTapeAppend DEF PosesUpTo
<1>6. PosesWait(Append(t, e), q, p)
  BY <1>1, InTapeAppend DEF PosesWait
<1>7. QED
  BY <1>3, <1>4, <1>5, <1>6 DEF e

\* The first pose of the channel leaves it, and is recorded or not.
LEMMA PoseAppend ==
  ASSUME NEW t \in Seq(TapeEntry), NEW b \in Nat, NEW p \in Nat,
         NEW q \in Seq(Numbers), q # <<>>,
         SensorsUpTo(t, b), PosesUpTo(t, p), PosesWait(t, q, p)
  PROVE  LET e == Entry("pose", Head(q))
         IN  /\ SensorsUpTo(Append(t, e), b)
             /\ PosesUpTo(Append(t, e), p)
             /\ PosesWait(t, Tail(q), p)
             /\ PosesWait(Append(t, e), Tail(q), p)
<1> DEFINE e == Entry("pose", Head(q))
           r == Tail(q)
<1>1. /\ Head(q) = q[1] /\ 1 \in 1..Len(q) /\ Head(q) \in Numbers
      /\ r \in Seq(Numbers)
      /\ \A k \in 1..Len(r) : k + 1 \in 1..Len(q) /\ r[k] = q[k + 1] /\ 1 < k + 1
      /\ \A j, k \in 1..Len(r) : j < k => j + 1 < k + 1
  OBVIOUS
<1>2. e \in TapeEntry /\ e.kind = "pose" /\ e.n = Head(q)
  BY <1>1, EntryType DEF Numbers
<1> HIDE DEF e, r
<1>3. SensorsUpTo(Append(t, e), b)
  BY <1>2, InTapeAppend DEF SensorsUpTo
<1>4. PosesUpTo(Append(t, e), p)
  BY <1>1, <1>2, InTapeAppend DEF PosesUpTo, PosesWait
<1>5. PosesWait(t, r, p)
  BY <1>1 DEF PosesWait
<1>6. \A k \in 1..Len(r) : Head(q) < r[k]
  BY <1>1 DEF PosesWait
<1>7. PosesWait(Append(t, e), r, p)
  <2>1. ASSUME NEW k \in 1..Len(r)
        PROVE  /\ r[k] <= p /\ InTape(Append(t, e), Entry("lidar", r[k]))
               /\ \A i \in 1..Len(Append(t, e)) :
                    Append(t, e)[i].kind = "pose" => Append(t, e)[i].n < r[k]
    <3>1. r[k] <= p /\ InTape(t, Entry("lidar", r[k]))
      BY <1>5 DEF PosesWait
    <3>2. \A i \in 1..Len(t) : t[i].kind = "pose" => t[i].n < r[k]
      BY <1>5 DEF PosesWait
    <3>3. QED
      BY <1>2, <1>6, <3>1, <3>2, InTapeAppend
  <2>2. \A j, k \in 1..Len(r) : j < k => r[j] < r[k]
    BY <1>5 DEF PosesWait
  <2>3. QED
    BY <2>1, <2>2 DEF PosesWait
<1>8. QED
  BY <1>3, <1>4, <1>5, <1>7 DEF e, r

\* A new pose joins the channel.
LEMMA PoseEmitted ==
  ASSUME NEW t \in Seq(TapeEntry), NEW q \in Seq(Numbers), NEW p \in Nat,
         NEW n \in Numbers, p < n, InTape(t, Entry("lidar", n)),
         PosesUpTo(t, p), PosesWait(t, q, p)
  PROVE  PosesUpTo(t, n) /\ PosesWait(t, Append(q, n), n)
<1>1. /\ \A i \in 1..Len(t) : t[i].n \in Nat
      /\ n \in Nat
  BY NumbersAreNat
<1>2. /\ Len(Append(q, n)) = Len(q) + 1 /\ Len(q) \in Nat
      /\ \A k \in 1..Len(q) : Append(q, n)[k] = q[k] /\ q[k] \in Nat
      /\ Append(q, n)[Len(q) + 1] = n
  BY NumbersAreNat
<1>3. \A i \in 1..Len(t) : t[i].kind = "pose" => t[i].n < n
  BY <1>1 DEF PosesUpTo
<1>4. PosesUpTo(t, n)
  BY <1>1, <1>3 DEF PosesUpTo
<1>5. \A k \in 1..Len(q) : q[k] < n
  BY <1>1, <1>2 DEF PosesWait
<1>6. PosesWait(t, Append(q, n), n)
  BY <1>1, <1>2, <1>3, <1>5 DEF PosesWait
<1>7. QED
  BY <1>4, <1>6

\* The order is kept by a step of either thread.
LEMMA PushOrder ==
  ASSUME TypeInv, OrderInv, NEW kind \in Kinds, Push(kind)
  PROVE  OrderInv' /\ [Recording!Next]_tape
<1> DEFINE b == pushed
           e == Entry(kind, b + 1)
<1>1. /\ b \in Nat /\ b + 1 \in Numbers /\ pushed' = b + 1 /\ posed \in Nat
      /\ tape \in Seq(TapeEntry) /\ pose_channel \in Seq(Numbers)
  BY RecorderAssumption DEF Push, TypeInv, TypeOK, Numbers
<1>2. e \in TapeEntry
  BY <1>1, EntryType DEF Numbers, Kinds
<1>3. UNCHANGED <<frames, mapped, posed, pose_channel>>
  BY DEF Push, shared, mapper
<1>4. tape' = tape \/ tape' = Append(tape, e)
  BY DEF Push, WriteOk, WriteFails
<1>5. /\ SensorsUpTo(tape, b + 1) /\ SensorsUpTo(Append(tape, e), b + 1)
      /\ PosesUpTo(Append(tape, e), posed)
      /\ PosesWait(Append(tape, e), pose_channel, posed)
  BY <1>1, SensorAppend DEF OrderInv
<1>6. AllInTape(Append(tape, e), frames) /\ AllInTape(Append(tape, e), mapped)
  BY <1>1, <1>2, RecordedAppend DEF OrderInv
<1>7. OrderInv'
  BY <1>1, <1>3, <1>4, <1>5, <1>6 DEF OrderInv
<1>8. tape' = Append(tape, e) => Recording!Next
  <2>1. \A i \in 1..Len(tape) : tape[i].kind # "pose" => tape[i].n < b + 1
    BY <1>1, NumbersAreNat DEF OrderInv, SensorsUpTo
  <2>2. tape' = Append(tape, e) => Recording!Sensor(kind, b + 1)
    BY <2>1 DEF Recording!Sensor, Recording!Entry, Entry
  <2>3. QED
    BY <1>1, <2>2 DEF Recording!Next, Kinds
<1>9. QED
  BY <1>4, <1>7, <1>8

LEMMA DrainOrder ==
  ASSUME TypeInv, OrderInv, DrainPose
  PROVE  OrderInv' /\ [Recording!Next]_tape
<1> DEFINE q == pose_channel
           e == Entry("pose", Head(q))
<1>1. /\ q \in Seq(Numbers) /\ q # <<>> /\ pushed \in Nat /\ posed \in Nat
      /\ tape \in Seq(TapeEntry)
      /\ Head(q) \in Numbers /\ Head(q) = q[1] /\ 1 \in 1..Len(q)
  BY RecorderAssumption DEF DrainPose, TypeInv, TypeOK
<1>2. e \in TapeEntry
  BY <1>1, EntryType DEF Numbers
<1>3. UNCHANGED <<frames, mapped, posed, pushed>> /\ pose_channel' = Tail(q)
  BY DEF DrainPose, mapper
<1>4. tape' = tape \/ tape' = Append(tape, e)
  BY DEF DrainPose, WriteOk, WriteFails
<1>5. /\ SensorsUpTo(Append(tape, e), pushed)
      /\ PosesUpTo(Append(tape, e), posed)
      /\ PosesWait(tape, Tail(q), posed)
      /\ PosesWait(Append(tape, e), Tail(q), posed)
  BY <1>1, PoseAppend DEF OrderInv
<1>6. AllInTape(Append(tape, e), frames) /\ AllInTape(Append(tape, e), mapped)
  BY <1>1, <1>2, RecordedAppend DEF OrderInv
<1>7. OrderInv'
  BY <1>3, <1>4, <1>5, <1>6 DEF OrderInv
<1>8. tape' = Append(tape, e) => Recording!Next
  <2>1. InTape(tape, Entry("lidar", Head(q)))
    BY <1>1 DEF OrderInv, PosesWait
  <2>2. \A i \in 1..Len(tape) : tape[i].kind = "pose" => tape[i].n < Head(q)
    BY <1>1 DEF OrderInv, PosesWait
  <2>3. tape' = Append(tape, e) => Recording!Pose(Head(q))
    BY <2>1, <2>2 DEF InTape, Recording!Pose, Recording!Entry, Entry
  <2>4. QED
    BY <1>1, <2>3 DEF Recording!Next
<1>9. QED
  BY <1>4, <1>7, <1>8

LEMMA SendOrder ==
  ASSUME TypeInv, OrderInv, Send
  PROVE  OrderInv' /\ [Recording!Next]_tape
<1> DEFINE e == tape[Len(tape)]
<1>1. /\ UNCHANGED <<tape, pushed, posed, pose_channel, mapped>>
      /\ frames' = frames \/ frames' = Append(frames, e)
  BY DEF Send, mapper
<1>2. e \in Frame /\ tape # <<>> /\ tape \in Seq(TapeEntry) /\ frames \in Seq(Frame)
  BY DEF Send, TypeInv, TypeOK, AtHand
<1>3. InTape(tape, e)
  BY <1>2 DEF InTape
<1>4. AllInTape(tape, Append(frames, e))
  BY <1>2, <1>3 DEF AllInTape, OrderInv
<1>5. QED
  BY <1>1, <1>4 DEF OrderInv

LEMMA WorkerOrder ==
  ASSUME TypeInv, OrderInv, WorkerRuns
  PROVE  OrderInv' /\ [Recording!Next]_tape
<1>1. tape' = tape /\ pushed' = pushed
  BY DEF WorkerRuns, CheckStop, Recv, Disconnected, MapOne, Panics, owner,
         history
<1>2. CASE CheckStop \/ Disconnected \/ Panics
  <2>1. /\ UNCHANGED <<posed, pose_channel, mapped>>
        /\ frames' = frames \/ frames' = <<>>
    BY <1>2 DEF CheckStop, Disconnected, Panics, Ends, history
  <2>2. AllInTape(tape, <<>>)
    BY DEF AllInTape
  <2>3. QED
    BY <1>1, <2>1, <2>2 DEF OrderInv
<1>3. CASE Recv
  <2>1. /\ UNCHANGED <<posed, pose_channel>> /\ frames # <<>>
        /\ frames' = Tail(frames) /\ mapped' = Append(mapped, Head(frames))
    BY <1>3 DEF Recv
  <2>2. frames \in Seq(Frame) /\ mapped \in Seq(Frame)
    BY DEF TypeInv, TypeOK
  <2>3. AllInTape(tape, Tail(frames)) /\ InTape(tape, Head(frames))
    BY <2>1, <2>2 DEF OrderInv, AllInTape
  <2>4. AllInTape(tape, Append(mapped, Head(frames)))
    <3>1. Head(frames) \in Frame
      BY <2>1, <2>2
    <3>2. QED
      BY <2>2, <2>3, <3>1 DEF OrderInv, AllInTape
  <2>5. QED
    BY <1>1, <2>1, <2>3, <2>4 DEF OrderInv
<1>4. CASE MapOne
  <2>1. CASE UNCHANGED <<posed, pose_channel, emitted>>
    BY <1>1, <1>4, <2>1 DEF MapOne, OrderInv
  <2>2. ASSUME NEW n \in Unanswered, posed' = n,
               pose_channel' = Append(pose_channel, n)
        PROVE  OrderInv'
    <3>1. /\ n \in Numbers /\ posed < n /\ posed \in Nat
          /\ tape \in Seq(TapeEntry) /\ pose_channel \in Seq(Numbers)
      BY RecorderAssumption, NumbersAreNat DEF Unanswered, TypeInv, TypeOK
    <3>2. InTape(tape, Entry("lidar", n))
      BY DEF Unanswered, OrderInv, AllInTape
    <3>3. /\ PosesUpTo(tape, n)
          /\ PosesWait(tape, Append(pose_channel, n), n)
      BY <3>1, <3>2, PoseEmitted DEF OrderInv
    <3>4. UNCHANGED <<frames, mapped>>
      BY <1>4 DEF MapOne
    <3>5. QED
      BY <1>1, <2>2, <3>3, <3>4 DEF OrderInv
  <2>3. QED
    BY <1>1, <1>4, <2>1, <2>2 DEF MapOne
<1>5. QED
  BY <1>1, <1>2, <1>3, <1>4 DEF WorkerRuns

LEMMA QuietOrder ==
  ASSUME OrderInv,
         \/ DrainEnds \/ SetStop \/ Join \/ RecFinish \/ Drop \/ DropTx
         \/ DropJoin \/ (\E d \in BOOLEAN : EndMapping(d)) \/ UNCHANGED vars
  PROVE  OrderInv' /\ [Recording!Next]_tape
<1>1. /\ UNCHANGED <<tape, pushed, posed, frames, mapped>>
      /\ pose_channel' = pose_channel \/ pose_channel' = <<>>
  BY DEF DrainEnds, SetStop, Join, RecFinish, Drop, DropTx, DropJoin, EndMapping,
         vars, owner, shared, mapper, history
<1>2. PosesWait(tape, <<>>, posed)
  BY DEF PosesWait
<1>3. QED
  BY <1>1, <1>2 DEF OrderInv

LEMMA InitOrder == Init => OrderInv /\ Recording!Init
<1> SUFFICES ASSUME Init PROVE OrderInv /\ Recording!Init
  OBVIOUS
<1>1. /\ tape = <<Entry("scene", 0)>> /\ pushed = 0 /\ posed = 0
      /\ Len(tape) = 1 /\ tape[1] = Entry("scene", 0)
      /\ Len(pose_channel) = 0 /\ Len(frames) = 0 /\ Len(mapped) = 0
  BY DEF Init
<1>2. tape[1].kind = "scene" /\ tape[1].n = 0
  BY <1>1 DEF Entry
<1>3. OrderInv
  BY <1>1, <1>2 DEF OrderInv, SensorsUpTo, PosesUpTo, PosesWait, AllInTape
<1>4. Recording!Init
  BY <1>1 DEF Recording!Init, Recording!Entry, Entry
<1>5. QED
  BY <1>3, <1>4

\* The recorder implements MappedRecording: the sensor frames are recorded in
\* the order of the pushes, the poses in the order of their frames, at most
\* once and never before them, for any number of frames and failed writes and
\* any interleaving of the two threads (push, drain_poses, end_mapping,
\* spawn_map_worker).
THEOREM RecordingImplemented == Spec => KeepsOrder
<1>1. TypeInv /\ OrderInv /\ [Next]_vars
        => (TypeInv /\ OrderInv)' /\ [Recording!Next]_tape
  <2>1. SUFFICES ASSUME TypeInv, OrderInv, [Next]_vars
                 PROVE  OrderInv' /\ [Recording!Next]_tape
    BY StepType
  <2>2. QED
    BY <2>1, PushOrder, DrainOrder, SendOrder, WorkerOrder, QuietOrder
    DEF Next, OwnerCalls, OwnerRuns
<1>2. Init => TypeInv /\ OrderInv /\ Recording!Init
  BY InitType, InitOrder
<1>3. QED
  BY <1>1, <1>2, PTL DEF Spec, KeepsOrder, Recording!Spec

\* A frame is taken late only by a worker that had read the flag before it was
\* set; the flag is never taken back, and the worker reads it before the next.
LateInv ==
  /\ stop \in BOOLEAN
  /\ late \in {0, 1}
  /\ late = 1 => stop /\ worker # "recv"

\* At most one frame of the backlog is mapped after the stop flag was set, for
\* any backlog and any interleaving of the two threads (end_mapping, Drop,
\* spawn_map_worker).
THEOREM StopsPromptly == Spec => []StopIsPrompt
<1>1. Init => LateInv
  <2>1. Init => stop \in BOOLEAN /\ late = 0
    BY DEF Init
  <2>2. late = 0 => late \in {0, 1} /\ late # 1
    OBVIOUS
  <2>3. QED
    BY <2>1, <2>2 DEF LateInv
<1>2. LateInv /\ [Next]_vars => LateInv'
  <2>1. SUFFICES ASSUME LateInv, [Next]_vars PROVE LateInv'
    OBVIOUS
  <2>2. CASE OwnerCalls
    BY <2>1, <2>2 DEF OwnerCalls, Push, EndMapping, Drop, LateInv, shared,
                      mapper, history
  <2>3. CASE OwnerRuns
    BY <2>1, <2>3 DEF OwnerRuns, Send, DrainPose, DrainEnds, SetStop, Join,
                      RecFinish, DropTx, DropJoin, LateInv, shared, mapper,
                      history
  <2>4. CASE Recv
    BY <2>1, <2>4 DEF Recv, LateInv
  <2>5. CASE CheckStop
    BY <2>1, <2>5 DEF CheckStop, Ends, LateInv, history
  <2>6. CASE Disconnected \/ MapOne \/ Panics
    BY <2>1, <2>6 DEF Disconnected, MapOne, Panics, Ends, LateInv, history
  <2>7. CASE UNCHANGED vars
    BY <2>1, <2>7 DEF LateInv, vars, shared, mapper, history
  <2>8. QED
    BY <2>1, <2>2, <2>3, <2>4, <2>5, <2>6, <2>7 DEF Next, WorkerRuns
<1>3. LateInv => StopIsPrompt
  BY DEF LateInv, StopIsPrompt
<1>4. QED
  BY <1>1, <1>2, <1>3, PTL DEF Spec

------------------------------------------------------------------------------
(***************************************************************************)
(* Nothing gets lost between the threads, for any number of frames and     *)
(* failing writes, any interleaving, and wherever the mapper panics.       *)
(*                                                                         *)
(* A pose is counted when the worker sends it, and after that it is in the *)
(* channel, exported, or a failing write took it out of the channel.  When *)
(* the owner has joined the worker, the channel can only become shorter,   *)
(* and the drain that precedes the footer has seen it empty.               *)
(***************************************************************************)

LEMMA TailOf ==
  ASSUME NEW S, NEW s \in Seq(S), s # <<>>
  PROVE  /\ Tail(s) \in Seq(S) /\ Len(Tail(s)) = Len(s) - 1
         /\ Len(s) \in Nat \ {0} /\ 1 \in 1..Len(s)
         /\ Head(s) = s[1] /\ Head(s) \in S
  OBVIOUS

------------------------------------------------------------------------------
(* No pose is lost *)

LostInv ==
  call # "gone" => Len(emitted) - Len(pose_channel) - Len(poses) \in 0..failures

LEMMA LostLengths ==
  ASSUME TypeOK
  PROVE  /\ Len(emitted) \in Nat /\ Len(pose_channel) \in Nat
         /\ Len(poses) \in Nat /\ failures \in Nat
         /\ emitted \in Seq(Numbers) /\ pose_channel \in Seq(Numbers)
         /\ poses \in Seq(Numbers)
<1>1. /\ emitted \in Seq(Numbers) /\ pose_channel \in Seq(Numbers)
      /\ poses \in Seq(Numbers) /\ failures \in 0..MaxFailures
  BY DEF TypeOK
<1>2. QED
  BY <1>1

LEMMA LostStep ==
  ASSUME TypeOK, LostInv, [Next]_vars
  PROVE  LostInv'
<1>1. CASE DrainPose
  <2>1. /\ pose_channel # <<>> /\ pose_channel' = Tail(pose_channel)
        /\ emitted' = emitted /\ call # "gone"
    BY <1>1 DEF DrainPose
  <2>2. Len(pose_channel') = Len(pose_channel) - 1
    BY <2>1, LostLengths, TailOf
  <2>3. \/ poses' = Append(poses, Head(pose_channel)) /\ failures' = failures
        \/ poses' = poses /\ failures' = failures + 1
    BY <1>1 DEF DrainPose, WriteOk, WriteFails
  <2>4. CASE poses' = Append(poses, Head(pose_channel)) /\ failures' = failures
    <3>1. Len(poses') = Len(poses) + 1
      BY <2>1, <2>4, LostLengths, TailOf, AppendLast
    <3>2. QED
      BY <2>1, <2>2, <2>4, <3>1, LostLengths DEF LostInv
  <2>5. CASE poses' = poses /\ failures' = failures + 1
    BY <2>1, <2>2, <2>5, LostLengths DEF LostInv
  <2>6. QED
    BY <2>3, <2>4, <2>5
<1>2. CASE MapOne
  <2>1. call' = call /\ poses' = poses /\ failures' = failures
    BY <1>2 DEF MapOne, owner
  <2>2. CASE UNCHANGED <<posed, pose_channel, emitted>>
    BY <2>1, <2>2 DEF LostInv
  <2>3. ASSUME NEW n \in Unanswered, pose_channel' = Append(pose_channel, n),
               emitted' = Append(emitted, n)
        PROVE  LostInv'
    <3>1. n \in Numbers
      BY DEF Unanswered
    <3>2. /\ Len(pose_channel') = Len(pose_channel) + 1
          /\ Len(emitted') = Len(emitted) + 1
      BY <2>3, <3>1, LostLengths, AppendLast
    <3>3. QED
      BY <2>1, <3>2, LostLengths DEF LostInv
  <2>4. QED
    BY <1>2, <2>2, <2>3 DEF MapOne
<1>3. CASE RecFinish \/ \E kind \in Kinds : Push(kind)
  <2>1. /\ UNCHANGED <<emitted, pose_channel, poses>> /\ call # "gone"
        /\ failures' = failures \/ failures' = failures + 1
    BY <1>3 DEF RecFinish, Push, WriteOk, WriteFails, shared
  <2>2. QED
    BY <2>1, LostLengths DEF LostInv
<1>4. CASE DropJoin
  BY <1>4 DEF DropJoin, Goes, LostInv
<1>5. CASE \/ Send \/ DrainEnds \/ SetStop \/ Join \/ Drop \/ DropTx
           \/ CheckStop \/ Recv \/ Disconnected \/ Panics \/ UNCHANGED vars
           \/ \E d \in BOOLEAN : EndMapping(d)
  <2>1. /\ UNCHANGED <<emitted, pose_channel, poses, failures>>
        /\ call = "gone" => call' = "gone"
    BY <1>5 DEF Send, DrainEnds, SetStop, Join, Drop, DropTx, CheckStop, Recv,
      Disconnected, Panics, EndMapping, vars, owner, shared, mapper, history
  <2>2. QED
    BY <2>1 DEF LostInv
<1>6. QED
  BY <1>1, <1>2, <1>3, <1>4, <1>5
  DEF Next, OwnerCalls, OwnerRuns, WorkerRuns

\* What is exported, while nothing failed.
ExportInv ==
  failures = 0 =>
    /\ NumbersIn(poses) = PoseNumbers(tape)
    /\ \A i, j \in 1..Len(poses) : i < j => poses[i] < poses[j]

LEMMA PoseNumbersAppend ==
  ASSUME NEW t \in Seq(TapeEntry), NEW e \in TapeEntry
  PROVE  PoseNumbers(Append(t, e)) =
           IF e.kind = "pose" THEN PoseNumbers(t) \cup {e.n} ELSE PoseNumbers(t)
  BY InTapeAppend DEF PoseNumbers

LEMMA NumbersInAppend ==
  ASSUME NEW s \in Seq(Numbers), NEW n \in Numbers
  PROVE  NumbersIn(Append(s, n)) = NumbersIn(s) \cup {n}
<1>1. /\ Len(Append(s, n)) = Len(s) + 1 /\ Len(s) \in Nat
      /\ \A i \in 1..Len(s) : Append(s, n)[i] = s[i]
      /\ Append(s, n)[Len(s) + 1] = n
  OBVIOUS
<1>2. QED
  BY <1>1 DEF NumbersIn

LEMMA ExportStep ==
  ASSUME TypeOK, OrderInv, ExportInv, [Next]_vars
  PROVE  ExportInv'
<1>1. tape \in Seq(TapeEntry) /\ poses \in Seq(Numbers) /\ Len(poses) \in Nat
  BY LostLengths DEF TypeOK
<1>2. CASE DrainPose
  <2> DEFINE n == Head(pose_channel)
             e == Entry("pose", n)
  <2>1. n = pose_channel[1] /\ n \in Numbers /\ 1 \in 1..Len(pose_channel)
    BY <1>2, LostLengths, TailOf DEF DrainPose
  <2>2. e \in TapeEntry /\ e.kind = "pose" /\ e.n = n
    BY <2>1, EntryType DEF Numbers
  <2> HIDE DEF n, e
  <2>3. SUFFICES ASSUME failures' = 0 PROVE ExportInv'
    BY DEF ExportInv
  <2>4. failures = 0 /\ tape' = Append(tape, e) /\ poses' = Append(poses, n)
    BY <1>2, <2>3, LostLengths DEF DrainPose, WriteOk, WriteFails, n, e
  <2>5. \A i \in 1..Len(tape) : tape[i].kind = "pose" => tape[i].n < n
    BY <2>1 DEF OrderInv, PosesWait
  <2>6. \A i \in 1..Len(poses) : poses[i] < n
    <3>1. \A i \in 1..Len(poses) : poses[i] \in PoseNumbers(tape)
      BY <2>4 DEF ExportInv, NumbersIn
    <3>2. QED
      BY <2>5, <3>1 DEF PoseNumbers
  <2>7. NumbersIn(poses') = PoseNumbers(tape')
    BY <1>1, <2>1, <2>2, <2>4, NumbersInAppend, PoseNumbersAppend DEF ExportInv
  <2>8. \A i, j \in 1..Len(poses') : i < j => poses'[i] < poses'[j]
    <3>1. /\ Len(poses') = Len(poses) + 1 /\ poses'[Len(poses) + 1] = n
          /\ \A i \in 1..Len(poses) : poses'[i] = poses[i]
      BY <1>1, <2>4
    <3>2. \A i, j \in 1..Len(poses) : i < j => poses[i] < poses[j]
      BY <2>4 DEF ExportInv
    <3>3. QED
      BY <1>1, <2>6, <3>1, <3>2
  <2>9. QED
    BY <2>7, <2>8 DEF ExportInv
<1>3. ASSUME NEW kind \in Kinds, Push(kind)
      PROVE  ExportInv'
  <2> DEFINE e == Entry(kind, pushed + 1)
  <2>1. e \in TapeEntry /\ e.kind # "pose"
    <3>1. kind \in {"scene", "imu", "lidar", "pose"} /\ kind # "pose"
      BY DEF Kinds
    <3>2. pushed \in 0..MaxFrames /\ pushed < MaxFrames
      BY <1>3 DEF Push, TypeOK
    <3>3. pushed + 1 \in 0..MaxFrames
      BY <3>2, RecorderAssumption
    <3>4. QED
      BY <3>1, <3>3, EntryType
  <2> HIDE DEF e
  <2>2. /\ tape' = tape \/ tape' = Append(tape, e)
        /\ poses' = poses
        /\ failures' = 0 => failures = 0
    BY <1>3, LostLengths DEF Push, WriteOk, WriteFails, e
  <2>3. PoseNumbers(tape') = PoseNumbers(tape)
    BY <1>1, <2>1, <2>2, PoseNumbersAppend
  <2>4. QED
    BY <2>2, <2>3 DEF ExportInv
<1>4. CASE \/ RecFinish \/ DropJoin \/ MapOne
           \/ Send \/ DrainEnds \/ SetStop \/ Join \/ Drop \/ DropTx
           \/ CheckStop \/ Recv \/ Disconnected \/ Panics \/ UNCHANGED vars
           \/ \E d \in BOOLEAN : EndMapping(d)
  <2>1. /\ UNCHANGED <<tape, poses>>
        /\ failures' = failures \/ failures' = failures + 1
    BY <1>4 DEF RecFinish, DropJoin, MapOne, Send, DrainEnds, SetStop, Join,
      Drop, DropTx, CheckStop, Recv, Disconnected, Panics, EndMapping, vars,
      owner, shared, mapper, history
  <2>2. QED
    BY <2>1, LostLengths DEF ExportInv
<1>5. QED
  BY <1>2, <1>3, <1>4 DEF Next, OwnerCalls, OwnerRuns, WorkerRuns

LEMMA InitPoses == Init => LostInv /\ ExportInv
<1> SUFFICES ASSUME Init PROVE LostInv /\ ExportInv
  OBVIOUS
<1>1. /\ Len(emitted) = 0 /\ Len(pose_channel) = 0 /\ Len(poses) = 0
      /\ failures = 0 /\ Len(tape) = 1 /\ tape[1] = Entry("scene", 0)
  BY DEF Init
<1>2. PoseNumbers(tape) = {}
  BY <1>1 DEF PoseNumbers, Entry
<1>3. QED
  BY <1>1, <1>2 DEF LostInv, ExportInv, NumbersIn

\* Every step of either thread keeps the types and the order of the recording.
LEMMA StepOrder == TypeInv /\ OrderInv /\ [Next]_vars => OrderInv'
  BY PushOrder, DrainOrder, SendOrder, WorkerOrder, QuietOrder
  DEF Next, OwnerCalls, OwnerRuns

\* Each pose the worker gave is on its way, or exported, or a failing write took
\* it; and while nothing failed, what is exported is what is recorded, in the
\* order of the frames, for any interleaving of the two threads (push,
\* drain_poses, end_mapping, spawn_map_worker).
THEOREM PosesAreKept == Spec => []NoPoseLost
<1> DEFINE All == TypeInv /\ OrderInv /\ LostInv /\ ExportInv
<1>1. Init => All
  BY InitType, InitOrder, InitPoses
<1>2. All /\ [Next]_vars => All'
  BY StepType, StepOrder, LostStep, ExportStep DEF TypeInv
<1>3. All => NoPoseLost
  BY DEF LostInv, ExportInv, NoPoseLost
<1>4. QED
  BY <1>1, <1>2, <1>3, PTL DEF Spec

------------------------------------------------------------------------------
(* A finished recording is complete *)

\* The worker has ended when the owner drains for the last time, and the
\* channel was seen empty before the footer is written.
DoneInv ==
  /\ call \in {"end_drain", "rec_finish"} \/ ~handle => WorkerEnded
  /\ call = "rec_finish" => pose_channel = <<>>
  /\ kept > 0 /\ call # "gone" =>
       /\ WorkerEnded /\ pose_channel = <<>>
       /\ \A i \in kept + 1..Len(tape) : tape[i].kind # "pose"

\* The frames are on their way in the order they were sent, and a worker that
\* ends without having been told to stop has taken all of them.
FramesInv ==
  /\ ~WorkerEnded => sent = mapped \o frames
  /\ worker = "done" /\ ~stop => mapped = sent

\* The worker was joined before the footer is written, and what it did not leave
\* is a map only if it panicked.
MapInv ==
  /\ mapping => worker = "done"
  /\ call \in {"end_drain", "rec_finish"} \/ (kept > 0 /\ call # "gone") => ~handle
  /\ ~handle /\ call # "gone" => mapping \/ worker = "panicked"

LEMMA ConcatAppend ==
  \A s, t \in Seq(Frame) : \A e \in Frame :
    Append(s \o t, e) = s \o Append(t, e)
<1> SUFFICES ASSUME NEW s \in Seq(Frame), NEW t \in Seq(Frame), NEW e \in Frame
             PROVE  Append(s \o t, e) = s \o Append(t, e)
  OBVIOUS
<1>1. /\ Append(s \o t, e) \in Seq(Frame) /\ s \o Append(t, e) \in Seq(Frame)
      /\ Len(s) \in Nat /\ Len(t) \in Nat
  OBVIOUS
<1>2. Len(Append(s \o t, e)) = Len(s \o Append(t, e))
  OBVIOUS
<1>3. ASSUME NEW i \in 1..Len(Append(s \o t, e))
      PROVE  Append(s \o t, e)[i] = (s \o Append(t, e))[i]
  OBVIOUS
<1>4. QED
  BY <1>1, <1>2, <1>3, SeqEqual

LEMMA ConcatShift ==
  ASSUME NEW S, NEW s \in Seq(S), NEW t \in Seq(S), t # <<>>
  PROVE  Append(s, Head(t)) \o Tail(t) = s \o t
  OBVIOUS

LEMMA ConcatEmpty ==
  ASSUME NEW S, NEW s \in Seq(S)
  PROVE  s \o << >> = s
  OBVIOUS

LEMMA DoneStep ==
  ASSUME TypeOK, DoneInv, [Next]_vars
  PROVE  DoneInv'
<1>1. CASE WorkerRuns
  <2>1. ~WorkerEnded /\ owner' = owner
    BY <1>1 DEF WorkerRuns, CheckStop, Recv, Disconnected, MapOne, Panics,
      WorkerEnded
  <2>2. QED
    BY <2>1 DEF DoneInv, owner
<1>2. ASSUME NEW kind \in Kinds, Push(kind)
      PROVE  DoneInv'
  <2> DEFINE e == Entry(kind, pushed + 1)
  <2>1. e.kind # "pose"
    BY DEF Kinds, Entry
  <2> HIDE DEF e
  <2>2. /\ UNCHANGED <<kept, handle, worker, pose_channel>>
        /\ call = "idle" /\ call' \in {"send", "idle"}
        /\ tape' = tape \/ tape' = Append(tape, e)
    BY <1>2 DEF Push, WriteOk, WriteFails, Goes, Returns, shared, mapper, e
  <2>3. tape \in Seq(TapeEntry) /\ Len(tape) \in Nat /\ kept \in 0..Len(tape)
    BY DEF TypeOK
  <2>4. kept > 0 => \A i \in kept + 1..Len(tape') : tape'[i].kind # "pose"
    <3>1. kept > 0 => \A i \in kept + 1..Len(tape) : tape[i].kind # "pose"
      BY <2>2 DEF DoneInv
    <3>2. CASE tape' = tape
      BY <3>1, <3>2
    <3>3. CASE tape' = Append(tape, e)
      <4>1. /\ Len(tape') = Len(tape) + 1 /\ tape'[Len(tape) + 1] = e
            /\ \A i \in 1..Len(tape) : tape'[i] = tape[i]
        BY <2>3, <3>3
      <4>2. QED
        BY <2>1, <2>3, <3>1, <4>1
    <3>4. QED
      BY <2>2, <3>2, <3>3
  <2>5. QED
    BY <2>2, <2>4 DEF DoneInv, WorkerEnded
<1>3. CASE DrainPose
  <2>1. /\ UNCHANGED <<kept, handle, worker>> /\ pose_channel # <<>>
        /\ call \in {"drain", "end_drain"} /\ call' \in {call, "idle"}
    BY <1>3 DEF DrainPose, Returns, mapper
  <2>2. ~(kept > 0)
    BY <2>1 DEF DoneInv
  <2>3. QED
    BY <2>1, <2>2 DEF DoneInv, WorkerEnded
<1>4. CASE RecFinish
  <2>1. /\ UNCHANGED <<tape, handle, worker, pose_channel>>
        /\ call = "rec_finish" /\ call' = "idle"
        /\ kept' \in {kept, Len(tape)}
        /\ kept > 0 => kept' = kept
    BY <1>4 DEF RecFinish, Returns, shared, mapper
  <2>2. WorkerEnded /\ pose_channel = <<>>
    BY <2>1 DEF DoneInv
  <2>3. kept' > 0 => \A i \in kept' + 1..Len(tape') : tape'[i].kind # "pose"
    <3>1. CASE kept' = kept
      BY <2>1, <3>1 DEF DoneInv
    <3>2. CASE kept' = Len(tape)
      <4>1. Len(tape) \in Nat
        BY DEF TypeOK
      <4>2. kept' + 1..Len(tape') = {}
        BY <2>1, <3>2, <4>1
      <4>3. QED
        BY <4>2
    <3>3. QED
      BY <2>1, <3>1, <3>2
  <2>4. QED
    BY <2>1, <2>2, <2>3 DEF DoneInv, WorkerEnded
<1>5. CASE DropJoin
  BY <1>5 DEF DropJoin, Goes, DoneInv, WorkerEnded, mapper
<1>6. CASE Join
  BY <1>6 DEF Join, Goes, Returns, DoneInv, WorkerEnded, shared, mapper
<1>7. CASE DrainEnds
  BY <1>7 DEF DrainEnds, Goes, Returns, DoneInv, WorkerEnded, shared, mapper
<1>8. CASE \E d \in BOOLEAN : EndMapping(d)
  BY <1>8 DEF EndMapping, Goes, DoneInv, WorkerEnded, mapper
<1>9. CASE Send \/ SetStop \/ Drop \/ DropTx
  BY <1>9 DEF Send, SetStop, Drop, DropTx, Goes, DoneInv, WorkerEnded, mapper
<1>10. CASE UNCHANGED vars
  BY <1>10 DEF vars, owner, shared, mapper, DoneInv, WorkerEnded
<1>11. QED
  BY <1>1, <1>2, <1>3, <1>4, <1>5, <1>6, <1>7, <1>8, <1>9, <1>10
  DEF Next, OwnerCalls, OwnerRuns

LEMMA FramesStep ==
  ASSUME TypeInv, FramesInv, [Next]_vars
  PROVE  FramesInv'
<1>1. /\ frames \in Seq(Frame) /\ mapped \in Seq(Frame) /\ sent \in Seq(Frame)
      /\ stop \in BOOLEAN
  BY DEF TypeInv, TypeOK
<1>2. CASE Send
  <2> DEFINE e == tape[Len(tape)]
  <2>1. e \in Frame
    BY <1>2 DEF Send, TypeInv, AtHand
  <2> HIDE DEF e
  <2>2. UNCHANGED <<worker, mapped, stop>>
    BY <1>2 DEF Send, mapper
  <2>3. CASE ~WorkerEnded /\ tx_open
    <3>1. frames' = Append(frames, e) /\ sent' = Append(sent, e)
      BY <1>2, <2>3 DEF Send, e
    <3>2. sent = mapped \o frames
      BY <2>3 DEF FramesInv
    <3>3. Append(mapped \o frames, e) = mapped \o Append(frames, e)
      BY <1>1, <2>1, ConcatAppend, Zenon
    <3>4. sent' = mapped \o frames'
      BY <3>1, <3>2, <3>3
    <3>5. QED
      BY <2>2, <2>3, <3>4 DEF FramesInv, WorkerEnded
  <2>4. CASE WorkerEnded \/ ~tx_open
    <3>1. UNCHANGED <<frames, sent>>
      BY <1>2, <2>4 DEF Send
    <3>2. QED
      BY <2>2, <3>1 DEF FramesInv, WorkerEnded
  <2>5. QED
    BY <2>3, <2>4
<1>3. CASE Recv
  <2>1. /\ frames # <<>> /\ frames' = Tail(frames) /\ sent' = sent
        /\ mapped' = Append(mapped, Head(frames))
        /\ worker = "recv" /\ worker' = "map"
    BY <1>3 DEF Recv
  <2>2. mapped' \o frames' = mapped \o frames
    BY <1>1, <2>1, ConcatShift
  <2>3. sent = mapped \o frames
    BY <2>1 DEF FramesInv, WorkerEnded
  <2>4. QED
    BY <2>1, <2>2, <2>3 DEF FramesInv
<1>4. CASE Disconnected
  <2>1. /\ frames = <<>> /\ UNCHANGED <<mapped, sent>>
        /\ worker = "recv" /\ worker' = "done"
    BY <1>4 DEF Disconnected, Ends, history
  <2>2. sent = mapped \o <<>>
    BY <2>1 DEF FramesInv, WorkerEnded
  <2>3. sent = mapped
    BY <1>1, <2>2, ConcatEmpty
  <2>4. QED
    BY <2>1, <2>3 DEF FramesInv, WorkerEnded
<1>5. CASE CheckStop
  BY <1>5 DEF CheckStop, Ends, FramesInv, WorkerEnded, history
<1>6. CASE Panics
  BY <1>6 DEF Panics, Ends, FramesInv, WorkerEnded, history
<1>7. CASE MapOne
  BY <1>7 DEF MapOne, FramesInv, WorkerEnded
<1>8. CASE \/ DrainPose \/ DrainEnds \/ SetStop \/ Join \/ RecFinish \/ Drop
           \/ DropTx \/ DropJoin \/ UNCHANGED vars
           \/ (\E kind \in Kinds : Push(kind)) \/ \E d \in BOOLEAN : EndMapping(d)
  <2>1. /\ UNCHANGED <<worker, frames, mapped, sent>>
        /\ stop' = stop \/ stop' = TRUE
    BY <1>8 DEF DrainPose, DrainEnds, SetStop, Join, RecFinish, Drop, DropTx,
      DropJoin, Push, EndMapping, vars, owner, shared, mapper, history
  <2>2. QED
    BY <2>1 DEF FramesInv, WorkerEnded
<1>9. QED
  BY <1>2, <1>3, <1>4, <1>5, <1>6, <1>7, <1>8
  DEF Next, OwnerCalls, OwnerRuns, WorkerRuns

LEMMA MapStep ==
  ASSUME TypeOK, MapInv, [Next]_vars
  PROVE  MapInv'
<1>1. CASE WorkerRuns
  <2>1. worker \notin {"done", "panicked"} /\ owner' = owner
    BY <1>1 DEF WorkerRuns, CheckStop, Recv, Disconnected, MapOne, Panics
  <2>2. ~mapping /\ (handle \/ call = "gone")
    BY <2>1 DEF MapInv
  <2>3. UNCHANGED <<call, kept, handle, mapping>>
    BY <2>1 DEF owner
  <2>4. QED
    BY <2>2, <2>3 DEF MapInv
<1>2. CASE Join
  BY <1>2 DEF Join, Goes, Returns, MapInv, mapper
<1>3. CASE DrainEnds
  BY <1>3 DEF DrainEnds, Goes, Returns, MapInv, mapper
<1>4. CASE RecFinish
  BY <1>4 DEF RecFinish, Returns, MapInv, mapper
<1>5. CASE \E d \in BOOLEAN : EndMapping(d)
  BY <1>5 DEF EndMapping, Goes, MapInv, mapper
<1>6. CASE DropJoin
  BY <1>6 DEF DropJoin, Goes, MapInv, mapper
<1>7. CASE (\E kind \in Kinds : Push(kind)) \/ DrainPose
  BY <1>7 DEF Push, DrainPose, Goes, Returns, MapInv, mapper
<1>8. CASE Send \/ SetStop \/ Drop \/ DropTx \/ UNCHANGED vars
  BY <1>8 DEF Send, SetStop, Drop, DropTx, Goes, MapInv, vars, owner, mapper
<1>9. QED
  BY <1>1, <1>2, <1>3, <1>4, <1>5, <1>6, <1>7, <1>8
  DEF Next, OwnerCalls, OwnerRuns

LEMMA InitComplete == Init => DoneInv /\ FramesInv /\ MapInv
<1> SUFFICES ASSUME Init PROVE DoneInv /\ FramesInv /\ MapInv
  OBVIOUS
<1>1. sent = << >> \o << >>
  BY DEF Init
<1>2. QED
  BY <1>1 DEF Init, DoneInv, FramesInv, MapInv

\* When finish has returned Ok no pose waits or is recorded behind the footer's
\* count, and if nothing told the worker to stop it has mapped every frame that
\* was sent and left its map, or it has panicked and there is none, for any
\* backlog, interleaving and repeated finish (end_mapping, drain_poses,
\* spawn_map_worker).
THEOREM FinishedIsComplete == Spec => []FinishIsComplete
<1> DEFINE All == TypeInv /\ DoneInv /\ FramesInv /\ MapInv
<1>1. Init => All
  BY InitType, InitComplete
<1>2. All /\ [Next]_vars => All'
  BY StepType, DoneStep, FramesStep, MapStep DEF TypeInv
<1>3. All => FinishIsComplete
  BY DEF DoneInv, FramesInv, MapInv, FinishIsComplete
<1>4. QED
  BY <1>1, <1>2, <1>3, PTL DEF Spec

------------------------------------------------------------------------------
(***************************************************************************)
(* A step in which nothing fails, for the programs that use a recorder.    *)
(***************************************************************************)

LEMMA AppendBehind ==
  \A s, t \in Seq(Numbers) : \A n \in Numbers :
    Append(s \o t, n) = s \o Append(t, n)
<1> SUFFICES ASSUME NEW s \in Seq(Numbers), NEW t \in Seq(Numbers),
                    NEW n \in Numbers
             PROVE  Append(s \o t, n) = s \o Append(t, n)
  OBVIOUS
<1> QED
  OBVIOUS

\* What the worker gave is exported or on its way.
LEMMA EmittedKept ==
  ASSUME TypeOK, emitted = poses \o pose_channel, [Next]_vars,
         failures' = failures, DropJoin => pose_channel = <<>>
  PROVE  emitted' = poses' \o pose_channel'
<1>1. /\ poses \in Seq(Numbers) /\ pose_channel \in Seq(Numbers)
      /\ failures \in Nat
  BY DEF TypeOK
<1>2. CASE DrainPose
  <2>1. /\ pose_channel # <<>> /\ pose_channel' = Tail(pose_channel)
        /\ poses' = Append(poses, Head(pose_channel)) /\ emitted' = emitted
    BY <1>1, <1>2 DEF DrainPose, WriteFails
  <2>2. QED
    BY <1>1, <2>1, ConcatShift
<1>3. CASE MapOne
  <2>1. poses' = poses
    BY <1>3 DEF MapOne, owner
  <2>2. CASE UNCHANGED <<posed, pose_channel, emitted>>
    BY <2>1, <2>2
  <2>3. ASSUME NEW n \in Unanswered, pose_channel' = Append(pose_channel, n),
               emitted' = Append(emitted, n)
        PROVE  emitted' = poses' \o pose_channel'
    <3>1. n \in Numbers
      BY DEF Unanswered
    <3>2. Append(poses \o pose_channel, n) = poses \o Append(pose_channel, n)
      BY <1>1, <3>1, AppendBehind, Zenon
    <3>3. QED
      BY <2>1, <2>3, <3>2
  <2>4. QED
    BY <1>3, <2>2, <2>3 DEF MapOne
<1>4. CASE DropJoin
  <2>1. UNCHANGED <<emitted, poses, pose_channel>>
    BY <1>4 DEF DropJoin, history
  <2>2. QED
    BY <2>1
<1>5. CASE OwnerCalls \/ UNCHANGED vars
  <2>1. UNCHANGED <<emitted, poses, pose_channel>>
    BY <1>5 DEF OwnerCalls, Push, EndMapping, Drop, vars, owner, shared, history
  <2>2. QED
    BY <2>1
<1>6. CASE \/ Send \/ DrainEnds \/ SetStop \/ Join \/ RecFinish \/ DropTx
           \/ CheckStop \/ Recv \/ Disconnected \/ Panics
  <2>1. UNCHANGED <<emitted, poses, pose_channel>>
    BY <1>6 DEF Send, DrainEnds, SetStop, Join, RecFinish, DropTx, CheckStop,
      Recv, Disconnected, Panics, owner, shared, history
  <2>2. QED
    BY <2>1
<1>7. QED
  BY <1>2, <1>3, <1>4, <1>5, <1>6 DEF Next, OwnerRuns, WorkerRuns

\* How many of the frames that were pushed must have been sent.
AllSent == Len(sent) = IF call = "send" THEN pushed - 1 ELSE pushed

LEMMA SentKept ==
  ASSUME TypeInv, AllSent, [Next]_vars, failures' = failures,
         Send => tx_open /\ ~WorkerEnded
  PROVE  AllSent'
<1>1. /\ pushed \in Nat /\ failures \in Nat /\ sent \in Seq(Frame)
  BY DEF TypeInv, TypeOK
<1>2. ASSUME NEW kind \in Kinds, Push(kind)
      PROVE  AllSent'
  <2>1. /\ call = "idle" /\ sent' = sent /\ pushed' = pushed + 1
        /\ failures' # failures + 1
    BY <1>1, <1>2 DEF Push
  <2>2. call' = "send"
    BY <1>2, <2>1 DEF Push, WriteFails, Goes
  <2>3. QED
    BY <1>1, <2>1, <2>2 DEF AllSent
<1>3. CASE Send
  <2>1. call = "send" /\ call' # "send" /\ pushed' = pushed
    BY <1>3 DEF Send, Goes
  <2>2. sent' = Append(sent, tape[Len(tape)])
    BY <1>3 DEF Send
  <2>3. tape[Len(tape)] \in Frame
    BY <2>1 DEF TypeInv, AtHand
  <2>4. Len(sent') = Len(sent) + 1
    BY <1>1, <2>2, <2>3, AppendLast
  <2>5. QED
    BY <1>1, <2>1, <2>4 DEF AllSent
<1>4. CASE \/ \E d \in BOOLEAN : EndMapping(d)
           \/ Drop \/ DrainPose \/ DrainEnds \/ SetStop \/ Join \/ RecFinish
           \/ DropTx \/ DropJoin
  <2>1. UNCHANGED <<sent, pushed>> /\ call # "send" /\ call' # "send"
    BY <1>4 DEF EndMapping, Drop, DrainPose, DrainEnds, SetStop, Join,
      RecFinish, DropTx, DropJoin, Goes, Returns, history
  <2>2. QED
    BY <2>1 DEF AllSent
<1>5. CASE WorkerRuns \/ UNCHANGED vars
  <2>1. UNCHANGED <<sent, call, pushed>>
    BY <1>5 DEF WorkerRuns, CheckStop, Recv, Disconnected, MapOne, Panics,
      vars, owner, history
  <2>2. QED
    BY <2>1 DEF AllSent
<1>6. QED
  BY <1>2, <1>3, <1>4, <1>5 DEF Next, OwnerCalls, OwnerRuns

\* A mapper that has panicked stays so.
LEMMA NoWayBack ==
  ASSUME [Next]_vars, worker' # "panicked"
  PROVE  worker # "panicked"
<1>1. worker = "panicked" => ~WorkerRuns
  BY DEF WorkerRuns, CheckStop, Recv, Disconnected, MapOne, Panics
<1>2. ~WorkerRuns => worker' = worker
  BY DEF Next, OwnerCalls, Push, EndMapping, Drop, OwnerRuns, Send, DrainPose,
    DrainEnds, SetStop, Join, RecFinish, DropTx, DropJoin, vars, mapper
<1>3. QED
  BY <1>1, <1>2
==============================================================================
