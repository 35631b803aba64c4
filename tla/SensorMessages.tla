--------------------------- MODULE SensorMessages ---------------------------
(***************************************************************************)
(* A sensor frame of FAST-LIO on its way into a recording and out of it    *)
(* again: crates/doracap-fastlio/src/conv.rs.                              *)
(*                                                                         *)
(* A frame becomes a message of doracap, the message an rbag1 payload with *)
(* a channel and a scheduling stamp; decode_message turns it back into a   *)
(* frame.  The poses and the scene that LioRecorder adds go the same way.  *)
(* In between the payload may have lost its end, or have got more behind   *)
(* it: other programs write recordings, too.                               *)
(*                                                                         *)
(* The stamp of a frame, seconds in an f64, is a number of parts of a      *)
(* nanosecond.  An f64 has so many binary digits and no more.  They are    *)
(* enough for the whole seconds and for the rest of a second, but the      *)
(* product of the whole with 10^9, which makes the scheduling stamp, may   *)
(* be too large to tell parts apart, or nanoseconds.                       *)
(*                                                                         *)
(* What a scalar is does not matter, only which: the scalars of a frame    *)
(* are different numbers.                                                  *)
(***************************************************************************)
EXTENDS Rbag1

CONSTANTS
  None,
  Nanos,        \* the nanoseconds of a second
  Parts,        \* the parts of a nanosecond
  Mantissa,     \* from here on an f64 does not have every integer: 2^53
  Stamps,       \* the stamps frames may have, in parts
  MaxPoints     \* bound: the points of a cloud

ASSUME SensorAssumption ==
  /\ Nanos \in Nat \ {0} /\ Parts \in Nat \ {0} /\ Mantissa \in Nat
  /\ Nanos * Parts < Mantissa   \* the rest of a second is exact
  /\ Stamps \subseteq Nat       \* a recording has no time before 0
  /\ MaxPoints \in Nat
  /\ None \notin Seq(Byte)      \* an absent payload is no payload

VARIABLES
  frame,        \* the SensorData
  sent,         \* its channel and scheduling stamp
  payload,
  damaged,      \* whether the payload was changed
  decoded,      \* whether it was decoded
  outcome       \* what it was decoded to, or None

vars == <<frame, sent, payload, damaged, decoded, outcome>>

------------------------------------------------------------------------------
(* Time: sec_nsec, time_to_secs, Timestamp::from_secs_f64 *)

Second == Nanos * Parts

\* round to nanoseconds: halves go up.
Nearest(s) == (2 * s + Parts) \div (2 * Parts)

\* Broken on purpose: the rest of the second is cut off, not rounded.
NsecCut(s) == (s % Second) \div Parts

\* The rest of the second, rounded: it may round up to a whole second.
Nsec(s) == Nearest(s % Second)

Sec(s) == s \div Second

TimeToSecs(sec, nsec) == Parts * (sec * Nanos + nsec)

\* The distance of neighbouring f64 around s: it doubles with every binary
\* digit too many.
Grain(s) ==
  LET grain[t \in 0..s] == IF t < Mantissa THEN 1 ELSE 2 * grain[t \div 2]
  IN  grain[s]

\* s * 1e9 in f64: the nearest one, of two the one with the even number.
Product(s) ==
  LET g == Grain(s)
      below == s \div g
      rest  == s % g
      up == 2 * rest > g \/ (2 * rest = g /\ below % 2 = 1)
  IN  (IF up THEN below + 1 ELSE below) * g

FromSecs(s) == Nearest(Product(s))

------------------------------------------------------------------------------
(* Point clouds: the fields of a point, and how they lie in its bytes *)

Column(name, offset, datatype, width) ==
  [name |-> name, offset |-> offset, datatype |-> datatype, width |-> width]

StdColumns ==
  <<Column("x", 0, 7, 4), Column("y", 4, 7, 4), Column("z", 8, 7, 4),
    Column("intensity", 12, 7, 4), Column("time", 16, 7, 4),
    Column("ring", 20, 4, 2)>>

\* Broken on purpose: the 16-bit tag is taken for one byte.
AviaNarrowTag ==
  <<Column("x", 0, 7, 4), Column("y", 4, 7, 4), Column("z", 8, 7, 4),
    Column("reflectivity", 12, 2, 1), Column("tag", 13, 4, 2),
    Column("line", 14, 2, 1), Column("offset_time", 16, 6, 4)>>

AviaColumns ==
  <<Column("x", 0, 7, 4), Column("y", 4, 7, 4), Column("z", 8, 7, 4),
    Column("reflectivity", 12, 2, 1), Column("tag", 13, 4, 2),
    Column("line", 15, 2, 1), Column("offset_time", 16, 6, 4)>>

StdPointStep == 22
AviaPointStep == 20

\* standard_to_pc, avia_to_pc: the values are pushed one after the other.
CloudOf(columns, step, points, stamp) ==
  [head |-> <<Sec(stamp), Nsec(stamp), "lidar", 1, Len(points)>>,
   each |-> [i \in 1..Len(columns) |->
               <<columns[i].name, columns[i].offset, columns[i].datatype, 1>>],
   tail |-> <<0, step, step * Len(points),
              FlattenSeq([n \in 1..Len(points) |->
                FlattenSeq([i \in 1..Len(columns) |->
                  Bytes(points[n][i], columns[i].width)])]),
              1>>]

\* The first field with the name, or 0.
FieldIndex(cloud, name) == SelectInSeq(cloud.each, LAMBDA f : f[1] = name)

HasField(cloud, name) == FieldIndex(cloud, name) # 0

\* pc_to_standard, pc_to_avia: each value is read where the field says.
Readable(columns, cloud) ==
  /\ \A i \in 1..Len(columns) : HasField(cloud, columns[i].name)
  /\ \A i \in 1..Len(columns), n \in 1..cloud.head[5] * cloud.head[4] :
       LET f == cloud.each[FieldIndex(cloud, columns[i].name)]
       IN  CanTake(cloud.tail[4], (n - 1) * cloud.tail[2] + f[2], columns[i].width)

PointsOf(columns, cloud) ==
  [n \in 1..cloud.head[5] * cloud.head[4] |->
     [i \in 1..Len(columns) |->
        LET f == cloud.each[FieldIndex(cloud, columns[i].name)]
        IN  ValueOf(Taken(cloud.tail[4], (n - 1) * cloud.tail[2] + f[2],
                          columns[i].width))]]

LidarFrame(kind, columns, cloud) ==
  IF Readable(columns, cloud)
  THEN [kind   |-> kind,
        stamp  |-> TimeToSecs(cloud.head[1], cloud.head[2]),
        points |-> PointsOf(columns, cloud)]
  ELSE None

SensorFromCloud(cloud) ==
  IF HasField(cloud, "offset_time") THEN LidarFrame("avia", AviaColumns, cloud)
                                    ELSE LidarFrame("standard", StdColumns, cloud)

------------------------------------------------------------------------------
(* Inertial measurements *)

Zeros(n) == [i \in 1..n |-> 0]

ImuMessage(stamp, acc, gyr) ==
  [head |-> <<Sec(stamp), Nsec(stamp), "imu">> \o <<0, 0, 0, 1>> \o Zeros(9)
              \o gyr \o Zeros(9) \o acc \o Zeros(9),
   each |-> <<>>, tail |-> <<>>]

\* The header is three fields, lin_acc and ang_vel are behind the others.
ImuFrame(msg) ==
  [kind  |-> "imu",
   stamp |-> TimeToSecs(msg.head[1], msg.head[2]),
   acc   |-> SubSeq(msg.head, 29, 31),
   gyr   |-> SubSeq(msg.head, 17, 19)]

------------------------------------------------------------------------------
(* What LioRecorder adds: poses, and the scene at the time 0 *)

PoseMessage(stamp, position, orientation) ==
  [head |-> <<Sec(stamp), Nsec(stamp), "map">> \o position \o orientation,
   each |-> <<>>, tail |-> <<>>]

PoseOf(msg) ==
  [kind        |-> "pose",
   stamp       |-> TimeToSecs(msg.head[1], msg.head[2]),
   position    |-> SubSeq(msg.head, 4, 6),
   orientation |-> SubSeq(msg.head, 7, 10)]

SceneMessage(channels) ==
  [head |-> <<"map">>, each |-> channels, tail |-> <<>>]

SceneOf(msg) == [kind |-> "scene", stamp |-> 0, channels |-> msg.each]

------------------------------------------------------------------------------
(* encode, write_pose, write_scene; decode_message and the decode of a viewer *)

Encoded(f) ==
  CASE f.kind = "imu" -> Encode(Imu, ImuMessage(f.stamp, f.acc, f.gyr))
    [] f.kind = "standard" ->
         Encode(PointCloud, CloudOf(StdColumns, StdPointStep, f.points, f.stamp))
    [] f.kind = "avia" ->
         Encode(PointCloud, CloudOf(AviaColumns, AviaPointStep, f.points, f.stamp))
    [] f.kind = "pose" ->
         Encode(PoseStamped, PoseMessage(f.stamp, f.position, f.orientation))
    [] f.kind = "scene" -> Encode(SceneMeta, SceneMessage(f.channels))

ChannelOf == [imu |-> "imu", standard |-> "lidar", avia |-> "lidar",
              pose |-> "pose", scene |-> "scene"]

EncodeFrame ==
  /\ payload = None
  /\ payload' = Encoded(frame)
  /\ sent' = [channel |-> ChannelOf[frame.kind], stamp |-> FromSecs(frame.stamp)]
  /\ UNCHANGED <<frame, damaged, decoded, outcome>>

Damage ==
  /\ payload # None /\ ~damaged /\ ~decoded
  /\ damaged' = TRUE
  /\ \/ \E n \in 0..Len(payload) - 1 : payload' = SubSeq(payload, 1, n)
     \/ payload' = Append(payload, <<0, 1>>)
  /\ UNCHANGED <<frame, sent, decoded, outcome>>

LayoutOf == [imu |-> Imu, lidar |-> PointCloud, pose |-> PoseStamped,
             scene |-> SceneMeta]

FrameOf(channel, msg) ==
  CASE channel = "imu"   -> ImuFrame(msg)
    [] channel = "lidar" -> SensorFromCloud(msg)
    [] channel = "pose"  -> PoseOf(msg)
    [] channel = "scene" -> SceneOf(msg)

DecodeMessage ==
  /\ payload # None /\ ~decoded
  /\ decoded' = TRUE
  /\ LET msg == Decode(LayoutOf[sent.channel], payload)
     IN  outcome' = IF msg.ok THEN FrameOf(sent.channel, msg) ELSE None
  /\ UNCHANGED <<frame, sent, payload, damaged>>

\* Point n of a cloud with so many columns; every value in it is different.
PointNo(n, columns) == [i \in 1..Len(columns) |-> 20 * n + i]
PointsNo(count, columns) == [n \in 1..count |-> PointNo(n, columns)]

Frames ==
  {[kind |-> "imu", stamp |-> s, acc |-> <<11, 12, 13>>, gyr |-> <<21, 22, 23>>] :
     s \in Stamps}
    \cup {[kind |-> "standard", stamp |-> s, points |-> PointsNo(n, StdColumns)] :
            s \in Stamps, n \in 0..MaxPoints}
    \cup {[kind |-> "avia", stamp |-> s, points |-> PointsNo(n, AviaColumns)] :
            s \in Stamps, n \in 0..MaxPoints}
    \cup {[kind |-> "pose", stamp |-> s, position |-> <<31, 32, 33>>,
           orientation |-> <<41, 42, 43, 44>>] : s \in Stamps}
    \cup {[kind |-> "scene", stamp |-> 0, channels |->
             <<<<"imu", "imu", "imu">>, <<"lidar", "lidar", "lidar">>,
               <<"pose", "pose", "map">>>>]}

Init ==
  /\ frame \in Frames
  /\ sent = None /\ payload = None /\ damaged = FALSE
  /\ decoded = FALSE /\ outcome = None

Next == EncodeFrame \/ Damage \/ DecodeMessage

Spec == Init /\ [][Next]_vars

------------------------------------------------------------------------------
(* Properties *)

\* A frame comes back as it was, with its stamp rounded to nanoseconds: the
\* codec and the tables of the point fields fit together, and the two kinds of
\* clouds are told apart (encode, decode_message).
FrameSurvives ==
  decoded /\ ~damaged => outcome = [frame EXCEPT !.stamp = Parts * Nearest(@)]

\* A payload that lost its end anywhere, or has a byte too many, is refused
\* and never read as another frame.
DamageIsNoticed == decoded /\ damaged => outcome = None

\* The time in the header of a message, made of a whole second and a rounded
\* rest, and its scheduling stamp, one rounded product, are the same nanosecond
\* where the product needs no more digits than an f64 has.  Elsewhere it is first
\* rounded to an f64 and then to a nanosecond, and the two are no further apart
\* than half the distance of two f64 and a nanosecond: the neighbouring one as
\* long as an f64 has every nanosecond (104 days), 128 or 129 of them for a stamp
\* that counts from 1970.  Two tools that align messages by the one and by the
\* other stamp then disagree by as much.
StampsAgree ==
  decoded /\ outcome # None =>
    LET off == outcome.stamp - Parts * sent.stamp
        most == Parts + Grain(frame.stamp) \div 2
    IN  /\ frame.stamp < Mantissa => off = 0
        /\ off \in -most..most
==============================================================================
