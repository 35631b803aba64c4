-------------------------------- MODULE Rbag1 --------------------------------
(***************************************************************************)
(* The rbag1 encoding of message payloads: crates/doracap-msgs/src/codec.rs.*)
(*                                                                         *)
(* Every message is a run of fields, a sequence of equal groups of fields  *)
(* with its count before it, and another run of fields.  A buffer is a     *)
(* sequence of bytes; byte i of a value v is <<v, i>>, so that a reader    *)
(* gets v back only from all of its bytes and in their order.              *)
(***************************************************************************)
EXTENDS Integers, SequencesExt

Bytes(v, width) == [i \in 1..width |-> <<v, i>>]

\* What a reader makes of n bytes: the value they are the bytes of.
Garbage == -1
ValueOf(bytes) ==
  IF bytes = Bytes(bytes[1][1], Len(bytes)) THEN bytes[1][1] ELSE Garbage

Width == [u8 |-> 1, u32 |-> 4, i64 |-> 8, f64 |-> 8]

\* The length of the texts that are used, in bytes.
TextLen == [imu |-> 3, lidar |-> 5, map |-> 3, pose |-> 4, x |-> 1, y |-> 1,
            z |-> 1, intensity |-> 9, time |-> 4, ring |-> 4,
            reflectivity |-> 12, tag |-> 3, line |-> 4, offset_time |-> 11]

Scalar == Int \cup DOMAIN TextLen

Byte == Scalar \X Nat

------------------------------------------------------------------------------
(* The layouts of the messages *)

F64s(n) == [i \in 1..n |-> "f64"]

Header == <<"i64", "u32", "str">>

Imu ==
  [head |-> Header \o F64s(4) \o F64s(9) \o F64s(3) \o F64s(9) \o F64s(3)
              \o F64s(9),
   each |-> <<>>, tail |-> <<>>]

PointCloud ==
  [head |-> Header \o <<"u32", "u32">>,
   each |-> <<"str", "u32", "u8", "u32">>,
   tail |-> <<"u8", "u32", "u32", "bytes", "u8">>]

PoseStamped ==
  [head |-> Header \o F64s(3) \o F64s(4), each |-> <<>>, tail |-> <<>>]

SceneMeta ==
  [head |-> <<"str">>, each |-> <<"str", "str", "str">>, tail |-> <<>>]

------------------------------------------------------------------------------
(* encode *)

PushField(type, v) ==
  CASE type = "str"   -> Bytes(TextLen[v], 4) \o Bytes(v, TextLen[v])
    [] type = "bytes" -> Bytes(Len(v), 4) \o v
    [] OTHER          -> Bytes(v, Width[type])

PushFields(types, vs) ==
  FlattenSeq([i \in 1..Len(types) |-> PushField(types[i], vs[i])])

PushEach(types, groups) ==
  Bytes(Len(groups), 4)
    \o FlattenSeq([i \in 1..Len(groups) |-> PushFields(types, groups[i])])

Encode(layout, msg) ==
  PushFields(layout.head, msg.head)
    \o (IF layout.each = <<>> THEN <<>> ELSE PushEach(layout.each, msg.each))
    \o PushFields(layout.tail, msg.tail)

------------------------------------------------------------------------------
(* decode: a cursor is where it is, what it has read, and whether it could *)

At(pos) == [ok |-> TRUE, pos |-> pos, out |-> <<>>]

\* take: all of the n bytes behind pos, or an error.
CanTake(buf, pos, n) == pos + n <= Len(buf)
Taken(buf, pos, n) == SubSeq(buf, pos + 1, pos + n)

ReadSized(buf, c, type, start, n) ==
  IF ~CanTake(buf, start, n) THEN [c EXCEPT !.ok = FALSE]
  ELSE [ok  |-> TRUE,
        pos |-> start + n,
        out |-> Append(c.out, IF type = "bytes" THEN Taken(buf, start, n)
                              ELSE ValueOf(Taken(buf, start, n)))]

ReadField(buf, c, type) ==
  IF ~c.ok THEN c
  ELSE IF type \notin {"str", "bytes"}
  THEN ReadSized(buf, c, type, c.pos, Width[type])
  ELSE IF ~CanTake(buf, c.pos, 4) THEN [c EXCEPT !.ok = FALSE]
  ELSE ReadSized(buf, c, type, c.pos + 4, ValueOf(Taken(buf, c.pos, 4)))

ReadFields(buf, c, types) ==
  LET read[i \in 0..Len(types)] ==   \* the cursor behind i fields
        IF i = 0 THEN c ELSE ReadField(buf, read[i - 1], types[i])
  IN  read[Len(types)]

ReadGroup(buf, c, types) ==
  IF ~c.ok THEN c
  ELSE LET group == ReadFields(buf, At(c.pos), types)
       IN  [group EXCEPT !.out = Append(c.out, @)]

ReadEach(buf, pos, types) ==
  IF types = <<>> THEN At(pos)
  ELSE LET count == ReadField(buf, At(pos), "u32")
           read[i \in 0..count.out[1]] ==   \* the cursor behind i groups
             IF i = 0 THEN At(count.pos) ELSE ReadGroup(buf, read[i - 1], types)
       IN  IF count.ok THEN read[count.out[1]] ELSE count

Error == [ok |-> FALSE]

\* Broken on purpose: bytes that are left over are not noticed.
LenientEnd(buf, c) == c.ok

AtEnd(buf, c) == c.ok /\ c.pos = Len(buf)

Decode(layout, buf) ==
  LET head == ReadFields(buf, At(0), layout.head)
      each == ReadEach(buf, head.pos, layout.each)
      tail == ReadFields(buf, At(each.pos), layout.tail)
  IN  IF head.ok /\ each.ok /\ AtEnd(buf, tail)
      THEN [ok |-> TRUE, head |-> head.out, each |-> each.out, tail |-> tail.out]
      ELSE Error
==============================================================================
