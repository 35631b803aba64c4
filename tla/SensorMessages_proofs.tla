------------------------ MODULE SensorMessages_proofs ------------------------
(***************************************************************************)
(* Proofs about the rbag1 codec and the conversion of sensor frames, for   *)
(* clouds of any length, any stamps and any number of nanoseconds.         *)
(*                                                                         *)
(* A buffer is compared with the bytes of a message cell by cell, as far   *)
(* as it goes (Holds), so that one lemma for each part of the decoder says *)
(* both what it reads and that it fails where the buffer ends too early    *)
(* (Reads).  The fields of a cloud's points are then found by the lengths  *)
(* of the columns before them.  So what is decoded depends on the frame    *)
(* and the length of the payload alone (SensorInv).                        *)
(***************************************************************************)
EXTENDS SensorMessages, Dcap_proofs

------------------------------------------------------------------------------
(* Buffers and what a reader makes of them *)

\* As far as the buffer goes, the bytes are behind this position.
Holds(buf, pos, bytes) ==
  \A i \in 1..Len(bytes) : pos + i <= Len(buf) => buf[pos + i] = bytes[i]

\* A cursor that has not failed.
Cursor(T) == [ok : {TRUE}, pos : Nat, out : Seq(T)]

\* The cursor behind so many more bytes, which were these values.
Past(c, len, vs) == [ok |-> TRUE, pos |-> c.pos + len, out |-> c.out \o vs]

Failed(d) == \E S : d \in [ok : {FALSE}, pos : Nat, out : S]

\* Reading these values, which are so many bytes, leads from the cursor c to d,
\* or fails where the buffer ends before.
Reads(buf, c, len, vs, d) ==
  /\ c.pos + len <= Len(buf) => d = Past(c, len, vs)
  /\ Len(buf) < c.pos + len => Failed(d)

\* A value a field of this type can have.
Fits(type, v) ==
  \/ type = "str" /\ v \in DOMAIN TextLen
  \/ type = "bytes" /\ v \in Seq(Byte)
  \/ type \in DOMAIN Width /\ v \in Scalar

LEMMA FailedOnce ==
  ASSUME NEW T, NEW c \in Cursor(T)
  PROVE  Failed([c EXCEPT !.ok = FALSE])
<1>1. [c EXCEPT !.ok = FALSE] \in [ok : {FALSE}, pos : Nat, out : Seq(T)]
  BY DEF Cursor
<1>2. QED
  BY <1>1, Zenon DEF Failed

LEMMA FailedStays ==
  ASSUME NEW d, Failed(d)
  PROVE  ~d.ok /\ \A v : Failed([d EXCEPT !.out = v])
<1>1. PICK S : d \in [ok : {FALSE}, pos : Nat, out : S]
  BY DEF Failed
<1>2. ASSUME NEW v PROVE Failed([d EXCEPT !.out = v])
  <2>1. [d EXCEPT !.out = v] \in [ok : {FALSE}, pos : Nat, out : {v}]
    BY <1>1
  <2>2. QED
    BY <2>1, Zenon DEF Failed
<1>3. QED
  BY <1>1, <1>2

\* What holds of 0 and from each number to the next holds up to n.
LEMMA Climbs ==
  ASSUME NEW n \in Nat, NEW S, 0 \in S, \A i \in 1..n : i - 1 \in S => i \in S
  PROVE  \A i \in 0..n : i \in S
<1> DEFINE Missing == {i \in 0..n : i \notin S}
<1>1. SUFFICES ASSUME Missing # {} PROVE FALSE
  OBVIOUS
<1>2. PICK i \in Missing : \A j \in Missing : i <= j
  <2>1. Missing \subseteq Nat
    OBVIOUS
  <2> HIDE DEF Missing
  <2>2. QED
    BY <1>1, <2>1, Least
<1>3. i \in 1..n /\ i - 1 \in 0..n /\ ~(i <= i - 1)
  BY <1>2
<1>4. i - 1 \in S
  BY <1>2, <1>3
<1>5. QED
  BY <1>2, <1>3, <1>4

LEMMA TextLengths ==
  ASSUME NEW v \in DOMAIN TextLen
  PROVE  TextLen[v] \in Nat \ {0} /\ TextLen[v] \in Scalar /\ v \in Scalar
  BY DEF TextLen, Scalar

LEMMA Widths ==
  ASSUME NEW type \in DOMAIN Width
  PROVE  Width[type] \in Nat \ {0} /\ type # "str" /\ type # "bytes"
  BY DEF Width

LEMMA BytesAre ==
  ASSUME NEW v \in Scalar, NEW n \in Nat
  PROVE  /\ Bytes(v, n) \in Seq(Byte) /\ Len(Bytes(v, n)) = n
         /\ \A i \in 1..n : Bytes(v, n)[i] = <<v, i>>
<1>1. \A i \in 1..n : <<v, i>> \in Byte
  BY DEF Byte
<1>2. QED
  BY <1>1 DEF Bytes

LEMMA ValueOfBytes ==
  ASSUME NEW v \in Scalar, NEW n \in Nat \ {0}
  PROVE  ValueOf(Bytes(v, n)) = v
<1>1. Len(Bytes(v, n)) = n /\ Bytes(v, n)[1] = <<v, 1>>
  BY BytesAre
<1>2. QED
  BY <1>1 DEF ValueOf

LEMMA TakeHeld ==
  ASSUME NEW buf \in Seq(Byte), NEW pos \in Nat, NEW bytes \in Seq(Byte),
         Holds(buf, pos, bytes), pos + Len(bytes) <= Len(buf)
  PROVE  Taken(buf, pos, Len(bytes)) = bytes
<1> DEFINE n == Len(bytes)
           t == Taken(buf, pos, n)
<1>1. n \in Nat /\ Len(buf) \in Nat
  OBVIOUS
<1>2. t = [i \in 1..n |-> buf[pos + i]]
  BY <1>1 DEF Taken
<1>3. bytes = [i \in 1..n |-> bytes[i]]
  OBVIOUS
<1>4. \A i \in 1..n : buf[pos + i] = bytes[i]
  BY <1>1 DEF Holds
<1>5. QED
  BY <1>2, <1>3, <1>4

LEMMA Joined2 ==
  ASSUME NEW M, NEW a \in Seq(M), NEW b \in Seq(M)
  PROVE  /\ a \o b \in Seq(M) /\ Len(a \o b) = Len(a) + Len(b)
         /\ Len(a) \in Nat /\ Len(b) \in Nat
         /\ \A i \in 1..Len(a) : (a \o b)[i] = a[i]
         /\ \A i \in 1..Len(b) : (a \o b)[Len(a) + i] = b[i]
  OBVIOUS

LEMMA HoldsParts ==
  ASSUME NEW buf, Len(buf) \in Nat, NEW pos \in Nat,
         NEW a \in Seq(Byte), NEW b \in Seq(Byte), Holds(buf, pos, a \o b)
  PROVE  Holds(buf, pos, a) /\ Holds(buf, pos + Len(a), b)
<1>1. /\ Len(a \o b) = Len(a) + Len(b) /\ Len(a) \in Nat /\ Len(b) \in Nat
      /\ \A i \in 1..Len(a) : (a \o b)[i] = a[i]
      /\ \A i \in 1..Len(b) : (a \o b)[Len(a) + i] = b[i]
  BY Joined2
<1>2. ASSUME NEW i \in 1..Len(a), pos + i <= Len(buf) PROVE buf[pos + i] = a[i]
  BY <1>1, <1>2 DEF Holds
<1>3. ASSUME NEW i \in 1..Len(b), pos + Len(a) + i <= Len(buf)
      PROVE  buf[pos + Len(a) + i] = b[i]
  <2>1. Len(a) + i \in 1..Len(a \o b) /\ pos + (Len(a) + i) = pos + Len(a) + i
    BY <1>1
  <2>2. QED
    BY <1>1, <1>3, <2>1 DEF Holds
<1>4. QED
  BY <1>2, <1>3 DEF Holds

------------------------------------------------------------------------------
(* One field *)

LEMMA PushFieldType ==
  ASSUME NEW type, NEW v, Fits(type, v)
  PROVE  PushField(type, v) \in Seq(Byte)
<1>1. CASE type = "str" /\ v \in DOMAIN TextLen
  <2>1. TextLen[v] \in Nat /\ TextLen[v] \in Scalar /\ v \in Scalar
    BY <1>1, TextLengths
  <2>2. Bytes(TextLen[v], 4) \in Seq(Byte) /\ Bytes(v, TextLen[v]) \in Seq(Byte)
    BY <2>1, BytesAre
  <2>3. PushField(type, v) = Bytes(TextLen[v], 4) \o Bytes(v, TextLen[v])
    BY <1>1 DEF PushField
  <2>4. QED
    BY <2>2, <2>3
<1>2. CASE type = "bytes" /\ v \in Seq(Byte)
  <2>1. Len(v) \in Scalar
    BY <1>2 DEF Scalar
  <2>2. Bytes(Len(v), 4) \in Seq(Byte)
    BY <2>1, BytesAre
  <2>3. PushField(type, v) = Bytes(Len(v), 4) \o v
    BY <1>2 DEF PushField
  <2>4. v \in Seq(Byte)
    BY <1>2
  <2>5. QED
    BY <2>2, <2>3, <2>4, Joined2
<1>3. CASE type \in DOMAIN Width /\ v \in Scalar
  <2>1. Width[type] \in Nat /\ type # "str" /\ type # "bytes"
    BY <1>3, Widths
  <2>2. PushField(type, v) = Bytes(v, Width[type])
    BY <2>1 DEF PushField
  <2>3. QED
    BY <1>3, <2>1, <2>2, BytesAre
<1>4. QED
  BY <1>1, <1>2, <1>3 DEF Fits

LEMMA AppendJoins ==
  ASSUME NEW T, NEW s \in Seq(T), NEW v
  PROVE  Append(s, v) = s \o <<v>>
  OBVIOUS

\* Bytes whose number is known.
LEMMA ReadSizedReads ==
  ASSUME NEW T, NEW buf \in Seq(Byte), NEW c \in Cursor(T), NEW type,
         NEW start \in Nat, NEW bytes \in Seq(Byte), Holds(buf, start, bytes), NEW v,
         v = (IF type = "bytes" THEN bytes ELSE ValueOf(bytes)),
         NEW d, d = ReadSized(buf, c, type, start, Len(bytes))
  PROVE  /\ start + Len(bytes) <= Len(buf) =>
              d = [ok |-> TRUE, pos |-> start + Len(bytes), out |-> c.out \o <<v>>]
         /\ Len(buf) < start + Len(bytes) => Failed(d)
<1> DEFINE n == Len(bytes)
<1>1. n \in Nat /\ Len(buf) \in Nat
  OBVIOUS
<1>2. ASSUME start + n <= Len(buf)
      PROVE  d = [ok |-> TRUE, pos |-> start + n, out |-> c.out \o <<v>>]
  <2>1. Taken(buf, start, n) = bytes
    BY <1>2, TakeHeld
  <2>2. CanTake(buf, start, n)
    BY <1>2 DEF CanTake
  <2>3. d = [ok |-> TRUE, pos |-> start + n, out |-> Append(c.out, v)]
    BY <2>1, <2>2 DEF ReadSized
  <2>4. c.out \in Seq(T)
    BY DEF Cursor
  <2>5. QED
    BY <2>3, <2>4, AppendJoins
<1>3. ASSUME Len(buf) < start + n PROVE Failed(d)
  <2>1. ~CanTake(buf, start, n)
    BY <1>1, <1>3 DEF CanTake
  <2>2. d = [c EXCEPT !.ok = FALSE]
    BY <2>1 DEF ReadSized
  <2>3. QED
    BY <2>2, FailedOnce
<1>4. QED
  BY <1>2, <1>3

\* The length before a text or a payload, and the bytes behind it.
LEMMA ReadLengthReads ==
  ASSUME NEW T, NEW buf \in Seq(Byte), NEW c \in Cursor(T), NEW type \in {"str", "bytes"},
         NEW bytes \in Seq(Byte), NEW v,
         v = (IF type = "bytes" THEN bytes ELSE ValueOf(bytes)),
         NEW head, head = Bytes(Len(bytes), 4), Holds(buf, c.pos, head \o bytes)
  PROVE  Reads(buf, c, Len(head \o bytes), <<v>>, ReadField(buf, c, type))
<1> DEFINE n == Len(bytes)
           d == ReadField(buf, c, type)
<1>1. n \in Nat /\ Len(buf) \in Nat /\ n \in Scalar
  BY DEF Scalar
<1>2. head \in Seq(Byte) /\ Len(head) = 4
  BY <1>1, BytesAre
<1>3. c.ok /\ c.pos \in Nat
  BY DEF Cursor
<1>4. Holds(buf, c.pos, head) /\ Holds(buf, c.pos + 4, bytes)
  <2>1. \A pos \in Nat : Holds(buf, pos, head \o bytes) =>
                            Holds(buf, pos, head) /\ Holds(buf, pos + Len(head), bytes)
    BY <1>1, <1>2, HoldsParts
  <2>2. QED
    BY <1>2, <1>3, <2>1
<1>5. Len(head \o bytes) = 4 + n
  <2>1. Len(head \o bytes) = Len(head) + Len(bytes)
    BY <1>2, Joined2
  <2>2. QED
    BY <1>2, <2>1
<1>6. CASE Len(buf) < c.pos + 4
  <2>1. ~CanTake(buf, c.pos, 4)
    BY <1>1, <1>3, <1>6 DEF CanTake
  <2>2. d = [c EXCEPT !.ok = FALSE]
    BY <1>3, <2>1 DEF ReadField
  <2>3. Failed(d)
    BY <2>2, FailedOnce
  <2>4. ~(c.pos + (4 + n) <= Len(buf))
    BY <1>1, <1>3, <1>6
  <2>5. QED
    BY <1>5, <2>3, <2>4 DEF Reads
<1>7. CASE c.pos + 4 <= Len(buf)
  <2>1. CanTake(buf, c.pos, 4)
    BY <1>7 DEF CanTake
  <2>2. Taken(buf, c.pos, 4) = head
    BY <1>2, <1>3, <1>4, <1>7, TakeHeld
  <2>3. ValueOf(head) = n
    BY <1>1, ValueOfBytes
  <2>4. d = ReadSized(buf, c, type, c.pos + 4, n)
    BY <1>3, <2>1, <2>2, <2>3 DEF ReadField
  <2>5. c.pos + 4 \in Nat /\ c.pos + (4 + n) = c.pos + 4 + n
    BY <1>1, <1>3
  <2>6. /\ c.pos + 4 + n <= Len(buf) =>
             d = [ok |-> TRUE, pos |-> c.pos + 4 + n, out |-> c.out \o <<v>>]
        /\ Len(buf) < c.pos + 4 + n => Failed(d)
    BY <1>4, <2>4, <2>5, ReadSizedReads
  <2>7. QED
    BY <1>5, <2>5, <2>6 DEF Reads, Past
<1>8. QED
  BY <1>1, <1>3, <1>6, <1>7

LEMMA ReadFieldReads ==
  ASSUME NEW T, NEW buf \in Seq(Byte), NEW c \in Cursor(T), NEW type, NEW v,
         Fits(type, v), Holds(buf, c.pos, PushField(type, v))
  PROVE  Reads(buf, c, Len(PushField(type, v)), <<v>>, ReadField(buf, c, type))
<1>1. CASE type = "str" /\ v \in DOMAIN TextLen
  <2> DEFINE bytes == Bytes(v, TextLen[v])
  <2>1. TextLen[v] \in Nat \ {0} /\ v \in Scalar
    BY <1>1, TextLengths
  <2>2. bytes \in Seq(Byte) /\ Len(bytes) = TextLen[v] /\ ValueOf(bytes) = v
    BY <2>1, BytesAre, ValueOfBytes
  <2>3. PushField(type, v) = Bytes(Len(bytes), 4) \o bytes
    BY <1>1, <2>2 DEF PushField
  <2> HIDE DEF bytes
  <2>4. QED
    BY <1>1, <2>2, <2>3, ReadLengthReads
<1>2. CASE type = "bytes" /\ v \in Seq(Byte)
  <2>1. PushField(type, v) = Bytes(Len(v), 4) \o v
    BY <1>2 DEF PushField
  <2>2. QED
    BY <1>2, <2>1, ReadLengthReads
<1>3. CASE type \in DOMAIN Width /\ v \in Scalar
  <2> DEFINE bytes == Bytes(v, Width[type])
  <2>1. Width[type] \in Nat \ {0} /\ type # "str" /\ type # "bytes"
    BY <1>3, Widths
  <2>2. bytes \in Seq(Byte) /\ Len(bytes) = Width[type] /\ ValueOf(bytes) = v
    BY <1>3, <2>1, BytesAre, ValueOfBytes
  <2>3. PushField(type, v) = bytes
    BY <2>1 DEF PushField
  <2>4. c.ok /\ c.pos \in Nat
    BY DEF Cursor
  <2> HIDE DEF bytes
  <2>5. ReadField(buf, c, type) = ReadSized(buf, c, type, c.pos, Len(bytes))
    BY <2>1, <2>2, <2>4 DEF ReadField
  <2>6. Holds(buf, c.pos, bytes)
    BY <2>3
  <2> DEFINE d == ReadField(buf, c, type)
  <2>7. /\ c.pos + Len(bytes) <= Len(buf) =>
             d = [ok |-> TRUE, pos |-> c.pos + Len(bytes), out |-> c.out \o <<v>>]
        /\ Len(buf) < c.pos + Len(bytes) => Failed(d)
    BY <2>1, <2>2, <2>4, <2>5, <2>6, ReadSizedReads
  <2>8. QED
    BY <2>3, <2>7 DEF Reads, Past
<1>4. QED
  BY <1>1, <1>2, <1>3 DEF Fits

------------------------------------------------------------------------------
(* A run of fields *)

\* f[i] are the first i of the sequences, one behind the other.
JoinsTo(M, f, s) ==
  s \in Seq(Seq(M)) /\ f \in [0..Len(s) -> Seq(M)] /\ Joins(f, s)

\* FlattenSeq joins the sequences from the first to the last.
LEMMA FlattenIs ==
  ASSUME NEW M, NEW s \in Seq(Seq(M))
  PROVE  \E f : JoinsTo(M, f, s) /\ FlattenSeq(s) = f[Len(s)]
<1>1. FlattenSeq(s) = JoinedUp(s)
  BY DEF FlattenSeq, JoinedUp
<1>2. \E f \in [0..Len(s) -> Seq(M)] : Joins(f, s) /\ JoinedUp(s) = f[Len(s)]
  BY JoinsAll
<1>3. QED
  BY <1>1, <1>2 DEF JoinsTo

\* The places of the sequences in the joined one: size[i] is the length of the
\* first i.
Sized(M, s, flat, size) ==
  /\ size \in [0..Len(s) -> Nat] /\ size[0] = 0
  /\ flat \in Seq(M) /\ Len(flat) = size[Len(s)]
  /\ \A i \in 1..Len(s) : size[i] = size[i - 1] + Len(s[i])
  /\ \A i \in 1..Len(s) : size[i] <= size[Len(s)]
  /\ \A i \in 1..Len(s) : \A k \in 1..Len(s[i]) : flat[size[i - 1] + k] = s[i][k]

LEMMA FlattenSizes ==
  ASSUME NEW M, NEW s \in Seq(Seq(M))
  PROVE  \E size : Sized(M, s, FlattenSeq(s), size)
<1> DEFINE n == Len(s)
<1>1. PICK f : JoinsTo(M, f, s) /\ FlattenSeq(s) = f[n]
  BY FlattenIs
<1>2. /\ n \in Nat /\ f \in [0..n -> Seq(M)] /\ f[0] = <<>>
      /\ \A i \in 1..n : f[i] = f[i - 1] \o s[i]
  <2>1. n \in Nat
    OBVIOUS
  <2>2. f \in [0..n -> Seq(M)] /\ Joins(f, s)
    BY <1>1, Zenon DEF JoinsTo
  <2>3. f[0] = <<>> /\ \A i \in 1..n : f[i] = f[i - 1] \o s[i]
    BY <2>2, Zenon DEF Joins
  <2>4. QED
    BY <2>1, <2>2, <2>3, Zenon
<1>3. \A i \in 1..n : s[i] \in Seq(M) /\ Len(s[i]) \in Nat
  <2>1. ASSUME NEW i \in 1..n PROVE s[i] \in Seq(M) /\ Len(s[i]) \in Nat
    <3>1. s[i] \in Seq(M)
      OBVIOUS
    <3>2. QED
      BY <3>1
  <2>2. QED
    BY <2>1
<1> DEFINE size == [i \in 0..n |-> Len(f[i])]
<1> HIDE DEF n
<1>4. size \in [0..n -> Nat] /\ size[0] = 0 /\ \A i \in 0..n : size[i] = Len(f[i])
  <2>1. ASSUME NEW i \in 0..n PROVE Len(f[i]) \in Nat
    <3>1. f[i] \in Seq(M)
      BY <1>2
    <3>2. QED
      BY <3>1
  <2>2. Len(f[0]) = 0
    BY <1>2
  <2>3. QED
    BY <1>2, <2>1, <2>2
<1> HIDE DEF size
<1>5. ASSUME NEW i \in 1..n
      PROVE  /\ size[i] = size[i - 1] + Len(s[i]) /\ i - 1 \in 0..n /\ i \in 0..n
             /\ \A j \in 1..size[i - 1] : f[i][j] = f[i - 1][j]
             /\ \A k \in 1..Len(s[i]) : f[i][size[i - 1] + k] = s[i][k]
  <2>1. i - 1 \in 0..n /\ i \in 0..n
    BY <1>2
  <2>2. f[i - 1] \in Seq(M) /\ s[i] \in Seq(M) /\ f[i] = f[i - 1] \o s[i]
    BY <1>2, <1>3, <2>1
  <2>3. size[i] = Len(f[i]) /\ size[i - 1] = Len(f[i - 1])
    BY <1>4, <2>1
  <2> DEFINE a == f[i - 1]
             b == s[i]
             c == f[i]
  <2> HIDE DEF a, b, c
  <2>4. a \in Seq(M) /\ b \in Seq(M) /\ c = a \o b
    BY <2>2 DEF a, b, c
  <2>5. /\ Len(c) = Len(a) + Len(b)
        /\ \A j \in 1..Len(a) : c[j] = a[j]
        /\ \A k \in 1..Len(b) : c[Len(a) + k] = b[k]
    BY <2>4
  <2>6. QED
    BY <2>1, <2>3, <2>5 DEF a, b, c
<1> DEFINE S == {m \in 0..n : \A i \in 1..m :
                   /\ size[i] <= size[m]
                   /\ \A k \in 1..Len(s[i]) : f[m][size[i - 1] + k] = s[i][k]}
<1>6. 0 \in S
  BY <1>2
<1>7. ASSUME NEW m \in 1..n, m - 1 \in S PROVE m \in S
  <2>1. m - 1 \in 0..n /\ m \in 0..n /\ size[m] = size[m - 1] + Len(s[m])
    BY <1>5
  <2>2. size[m] \in Nat /\ size[m - 1] \in Nat /\ Len(s[m]) \in Nat
    BY <1>3, <1>4, <2>1
  <2>3. ASSUME NEW i \in 1..m
        PROVE  /\ size[i] <= size[m]
               /\ \A k \in 1..Len(s[i]) : f[m][size[i - 1] + k] = s[i][k]
    <3>1. CASE i = m
      BY <1>5, <2>2, <3>1
    <3>2. CASE i # m
      <4>1. i \in 1..m - 1 /\ i \in 1..n /\ i - 1 \in 0..n /\ i \in 0..n
        <5> HIDE DEF S
        <5>1. m \in Nat /\ n \in Nat /\ m <= n /\ i <= m /\ i \in Nat /\ i >= 1
          BY <1>2
        <5>2. QED
          BY <3>2, <5>1
      <4>2. /\ size[i] <= size[m - 1]
            /\ \A k \in 1..Len(s[i]) : f[m - 1][size[i - 1] + k] = s[i][k]
        BY <1>7, <4>1
      <4>3. /\ size[i] \in Nat /\ size[i - 1] \in Nat /\ Len(s[i]) \in Nat
            /\ size[i] = size[i - 1] + Len(s[i])
        BY <1>3, <1>4, <1>5, <4>1
      <4>4. size[i] <= size[m]
        BY <2>1, <2>2, <4>2, <4>3, SMTT(30)
      <4>5. ASSUME NEW k \in 1..Len(s[i]) PROVE f[m][size[i - 1] + k] = s[i][k]
        <5>1. size[i - 1] + k \in 1..size[m - 1]
          <6> DEFINE a == size[i - 1]
                     b == Len(s[i])
                     c == size[m - 1]
          <6>1. a \in Nat /\ b \in Nat /\ c \in Nat /\ a + b <= c /\ k \in 1..b
            BY <2>2, <4>2, <4>3
          <6> HIDE DEF a, b, c
          <6>2. a + k \in 1..c
            BY <6>1
          <6>3. QED
            BY <6>2 DEF a, c
        <5>2. f[m][size[i - 1] + k] = f[m - 1][size[i - 1] + k]
          BY <1>5, <5>1
        <5>3. QED
          BY <4>2, <5>2
      <4>6. QED
        BY <4>4, <4>5
    <3>3. QED
      BY <3>1, <3>2
  <2>4. QED
    BY <2>1, <2>3
<1>8. n \in S
  <2>1. \A m \in 1..n : m - 1 \in S => m \in S
    BY <1>7
  <2>2. n \in 0..n
    BY <1>2
  <2> HIDE DEF S
  <2>3. QED
    BY <1>2, <1>6, <2>1, <2>2, Climbs
<1>9. f[n] \in Seq(M) /\ Len(f[n]) = size[n]
  <2>1. n \in 0..n
    BY <1>2
  <2>2. QED
    BY <1>2, <1>4, <2>1
<1> DEFINE flat == f[n]
<1>10. \A i \in 1..n :
         /\ size[i] = size[i - 1] + Len(s[i]) /\ size[i] <= size[n]
         /\ \A k \in 1..Len(s[i]) : flat[size[i - 1] + k] = s[i][k]
  BY <1>5, <1>8
<1> HIDE DEF flat
<1>11. Sized(M, s, flat, size)
  BY <1>4, <1>9, <1>10 DEF Sized, n, flat
<1>12. QED
  BY <1>1, <1>11 DEF flat

\* Each piece of a joined sequence that a buffer holds is behind those before.
LEMMA HoldsPieces ==
  ASSUME NEW buf, Len(buf) \in Nat, NEW pos \in Nat, NEW s, Len(s) \in Nat,
         \A i \in 1..Len(s) : Len(s[i]) \in Nat,
         NEW flat, NEW size, Sized(Byte, s, flat, size), Holds(buf, pos, flat)
  PROVE  \A i \in 1..Len(s) : Holds(buf, pos + size[i - 1], s[i])
<1> SUFFICES ASSUME NEW i \in 1..Len(s), NEW k \in 1..Len(s[i]),
                    pos + size[i - 1] + k <= Len(buf)
             PROVE  buf[pos + size[i - 1] + k] = s[i][k]
  BY DEF Holds
<1>1. i - 1 \in 0..Len(s) /\ i \in 0..Len(s) /\ Len(s) \in 0..Len(s)
  OBVIOUS
<1>2. /\ size[i - 1] \in Nat /\ size[i] \in Nat /\ size[Len(s)] \in Nat
      /\ size[i] = size[i - 1] + Len(s[i]) /\ size[i] <= size[Len(s)]
      /\ Len(flat) = size[Len(s)]
  BY <1>1 DEF Sized
<1>3. flat[size[i - 1] + k] = s[i][k]
  BY DEF Sized
<1> DEFINE j == size[i - 1] + k
           a == size[i - 1]
           b == Len(s[i])
           l == Len(flat)
<1>4. j \in 1..Len(flat) /\ pos + j = pos + size[i - 1] + k
  <2>1. a \in Nat /\ b \in Nat /\ l \in Nat /\ a + b <= l /\ k \in 1..b
    BY <1>2
  <2> HIDE DEF a, b, l
  <2>2. a + k \in 1..l /\ pos + (a + k) = pos + a + k
    BY <2>1
  <2>3. QED
    BY <2>2 DEF a, l
<1>5. buf[pos + j] = flat[j]
  <2> HIDE DEF j
  <2>1. pos + j <= Len(buf)
    BY <1>4
  <2>2. QED
    BY <1>4, <2>1 DEF Holds
<1>6. QED
  BY <1>3, <1>4, <1>5

LEMMA PastIs ==
  ASSUME NEW T, NEW c \in Cursor(T), NEW len \in Nat, NEW vs \in Seq(T)
  PROVE  /\ Past(c, len, vs) \in Cursor(T) /\ Past(c, len, vs).ok
         /\ Past(c, len, vs).pos = c.pos + len
         /\ c.ok /\ c.pos \in Nat
<1>1. c.out \in Seq(T) /\ c.pos \in Nat /\ c.ok
  BY DEF Cursor
<1>2. c.out \o vs \in Seq(T) /\ c.pos + len \in Nat
  BY <1>1, Joined2
<1>3. QED
  BY <1>1, <1>2 DEF Past, Cursor

LEMMA PastNone ==
  ASSUME NEW T, NEW c \in Cursor(T)
  PROVE  Past(c, 0, <<>>) = c
<1>1. c.out \in Seq(T) /\ c.pos \in Nat /\ c = [ok |-> TRUE, pos |-> c.pos, out |-> c.out]
  BY DEF Cursor
<1>2. c.out \o <<>> = c.out /\ c.pos + 0 = c.pos
  BY <1>1
<1>3. QED
  BY <1>1, <1>2 DEF Past

LEMMA PastPast ==
  ASSUME NEW T, NEW c \in Cursor(T), NEW a \in Nat, NEW b \in Nat,
         NEW vs \in Seq(T), NEW ws \in Seq(T)
  PROVE  Past(Past(c, a, vs), b, ws) = Past(c, a + b, vs \o ws)
<1>1. c.out \in Seq(T) /\ c.pos \in Nat
  BY DEF Cursor
<1>2. (c.out \o vs) \o ws = c.out \o (vs \o ws)
  <2> DEFINE o == c.out
  <2>1. o \in Seq(T)
    BY <1>1
  <2> HIDE DEF o
  <2>2. (o \o vs) \o ws = o \o (vs \o ws)
    BY <2>1
  <2>3. QED
    BY <2>2, Zenon DEF o
<1>3. c.pos + a + b = c.pos + (a + b)
  BY <1>1
<1>4. QED
  BY <1>2, <1>3 DEF Past

IsJoin(w, a, b) == w = a \o b

\* One read after another.
LEMMA ReadsOn ==
  ASSUME NEW T, NEW c \in Cursor(T), NEW buf, Len(buf) \in Nat,
         NEW a \in Nat, NEW vs \in Seq(T), NEW e, Reads(buf, c, a, vs, e),
         NEW b \in Nat, NEW ws \in Seq(T), NEW d, NEW us, IsJoin(us, vs, ws),
         e = Past(c, a, vs) /\ c.pos + a <= Len(buf) => Reads(buf, e, b, ws, d),
         Failed(e) => Failed(d)
  PROVE  Reads(buf, c, a + b, us, d)
<1> DEFINE p == c.pos
<1>1. p \in Nat
  BY DEF Cursor
<1>2. CASE Len(buf) < p + a
  <2>1. Failed(d)
    BY <1>2 DEF Reads
  <2> HIDE DEF p
  <2>2. ~(p + (a + b) <= Len(buf))
    BY <1>1, <1>2
  <2>3. QED
    BY <2>1, <2>2 DEF Reads, p
<1>3. CASE p + a <= Len(buf)
  <2>1. e = Past(c, a, vs) /\ Reads(buf, e, b, ws, d)
    BY <1>3 DEF Reads
  <2>2. e.pos = p + a
    BY <2>1 DEF Past
  <2>3. Past(e, b, ws) = Past(c, a + b, us)
    BY <2>1, PastPast DEF IsJoin
  <2> HIDE DEF p
  <2>4. p + a + b = p + (a + b)
    BY <1>1
  <2>5. /\ p + (a + b) <= Len(buf) => d = Past(c, a + b, us)
        /\ Len(buf) < p + (a + b) => Failed(d)
    BY <2>1, <2>2, <2>3, <2>4 DEF Reads
  <2>6. QED
    BY <2>5 DEF Reads, p
<1>4. QED
  BY <1>1, <1>2, <1>3

\* The same, when the buffer holds the second piece behind the first.
LEMMA ReadsPiece ==
  ASSUME NEW T, NEW c \in Cursor(T), NEW buf, Len(buf) \in Nat,
         NEW a \in Nat, NEW vs \in Seq(T), NEW e, Reads(buf, c, a, vs, e),
         NEW b \in Nat, NEW ws \in Seq(T), NEW d, NEW us, IsJoin(us, vs, ws),
         NEW piece, Holds(buf, c.pos + a, piece),
         e \in Cursor(T) /\ e.pos <= Len(buf) /\ Holds(buf, e.pos, piece)
           => Reads(buf, e, b, ws, d),
         Failed(e) => Failed(d)
  PROVE  Reads(buf, c, a + b, us, d)
<1>1. ASSUME e = Past(c, a, vs), c.pos + a <= Len(buf) PROVE Reads(buf, e, b, ws, d)
  <2>1. e.pos = c.pos + a
    BY <1>1 DEF Past
  <2>2. Past(c, a, vs) \in Cursor(T)
    BY PastIs, Zenon
  <2>3. e \in Cursor(T)
    BY <1>1, <2>2, Zenon
  <2>4. QED
    BY <1>1, <2>1, <2>3, Zenon
<1>2. \A k \in Nat : Reads(buf, c, k, vs, e) /\ (e = Past(c, k, vs) /\ c.pos + k <= Len(buf) => Reads(buf, e, b, ws, d))
        => Reads(buf, c, k + b, us, d)
  BY ReadsOn
<1>3. QED
  BY <1>1, <1>2

LEMMA ReadsNone ==
  ASSUME NEW T, NEW c \in Cursor(T), NEW buf, Len(buf) \in Nat, c.pos <= Len(buf)
  PROVE  Reads(buf, c, 0, <<>>, c)
<1>1. c.pos \in Nat /\ c.pos + 0 = c.pos /\ ~(Len(buf) < c.pos)
  BY DEF Cursor
<1>2. QED
  BY <1>1, PastNone DEF Reads

LEMMA OneMore ==
  ASSUME NEW T, NEW vs \in Seq(T), NEW i \in 1..Len(vs)
  PROVE  /\ SubSeq(vs, 1, i - 1) \in Seq(T) /\ <<vs[i]>> \in Seq(T)
         /\ SubSeq(vs, 1, i - 1) \o <<vs[i]>> = SubSeq(vs, 1, i)
  OBVIOUS

\* The bytes of a run of fields: s are those of each, and size where they are.
FieldsAt(types, vs, s, size) ==
  /\ Sized(Byte, s, PushFields(types, vs), size)
  /\ Len(s) = Len(types)
  /\ \A i \in 1..Len(types) :
       s[i] = PushField(types[i], vs[i]) /\ Len(s[i]) \in Nat

FieldsFit(types, vs) ==
  Len(types) \in Nat /\ \A i \in 1..Len(types) : Fits(types[i], vs[i])

LEMMA PushFieldsIs ==
  ASSUME NEW types, NEW vs, FieldsFit(types, vs)
  PROVE  \E s, size : FieldsAt(types, vs, s, size)
<1> DEFINE s == [i \in 1..Len(types) |-> PushField(types[i], vs[i])]
<1>1. /\ Len(types) \in Nat
      /\ \A i \in 1..Len(types) : PushField(types[i], vs[i]) \in Seq(Byte)
  BY PushFieldType DEF FieldsFit
<1>2. s \in Seq(Seq(Byte)) /\ Len(s) = Len(types)
  BY <1>1
<1>3. ASSUME NEW i \in 1..Len(types)
      PROVE  s[i] = PushField(types[i], vs[i]) /\ Len(s[i]) \in Nat
  <2>1. s[i] = PushField(types[i], vs[i])
    OBVIOUS
  <2>2. s[i] \in Seq(Byte)
    BY <1>1, <2>1
  <2> HIDE DEF s
  <2>3. QED
    BY <2>1, <2>2
<1>4. PushFields(types, vs) = FlattenSeq(s)
  BY DEF PushFields
<1> HIDE DEF s
<1>5. PICK size : Sized(Byte, s, FlattenSeq(s), size)
  BY <1>2, FlattenSizes
<1>6. QED
  BY <1>2, <1>3, <1>4, <1>5 DEF FieldsAt

\* g[i] is the cursor behind i of the pieces s, each of which gives one value.
ReadsEach(T, buf, s, vs, g) ==
  \A i \in 1..Len(s) :
    /\ Failed(g[i - 1]) => Failed(g[i])
    /\ g[i - 1] \in Cursor(T) /\ g[i - 1].pos <= Len(buf)
         /\ Holds(buf, g[i - 1].pos, s[i])
       => Reads(buf, g[i - 1], Len(s[i]), <<vs[i]>>, g[i])

LEMMA ReadsAll ==
  ASSUME NEW T, NEW buf \in Seq(Byte), NEW c \in Cursor(T), c.pos <= Len(buf),
         NEW n \in Nat, NEW vs \in Seq(T), Len(vs) = n,
         NEW s, Len(s) = n, \A i \in 1..n : Len(s[i]) \in Nat,
         NEW flat, NEW size, Sized(Byte, s, flat, size), Holds(buf, c.pos, flat),
         NEW g, g[0] = c, ReadsEach(T, buf, s, vs, g)
  PROVE  Reads(buf, c, Len(flat), vs, g[n])
<1>3. c.pos \in Nat /\ Len(buf) \in Nat
  BY DEF Cursor
<1>4. flat \in Seq(Byte) /\ Len(flat) = size[n]
  BY DEF Sized
<1>5. /\ \A i \in 0..n : size[i] \in Nat
      /\ \A i \in 1..n : size[i] = size[i - 1] + Len(s[i])
      /\ size[0] = 0
  BY <1>3 DEF Sized
<1>6. \A i \in 1..n : Holds(buf, c.pos + size[i - 1], s[i])
  <2>1. \A pos \in Nat : Holds(buf, pos, flat) =>
          \A i \in 1..Len(s) : Holds(buf, pos + size[i - 1], s[i])
    BY <1>3, HoldsPieces
  <2>2. QED
    BY <1>3, <2>1
<1> DEFINE All == {i \in 0..n : Reads(buf, c, size[i], SubSeq(vs, 1, i), g[i])}
<1>7. 0 \in All
  <2>1. SubSeq(vs, 1, 0) = <<>>
    OBVIOUS
  <2>2. Reads(buf, c, 0, <<>>, c)
    BY <1>3, ReadsNone
  <2>3. 0 \in 0..n /\ size[0] = 0 /\ g[0] = c
    BY <1>5
  <2>4. Reads(buf, c, size[0], SubSeq(vs, 1, 0), g[0])
    BY <2>1, <2>2, <2>3
  <2>5. QED
    BY <2>3, <2>4
<1>8. ASSUME NEW i \in 1..n, i - 1 \in All PROVE i \in All
  <2> DEFINE a == size[i - 1]
             b == Len(s[i])
             e == g[i - 1]
             d == g[i]
             us == SubSeq(vs, 1, i - 1)
             w == SubSeq(vs, 1, i)
             x == <<vs[i]>>
  <2>1. i - 1 \in 0..n /\ i \in 0..n
    OBVIOUS
  <2>2. a \in Nat /\ b \in Nat /\ size[i] = a + b
    BY <1>5, <2>1
  <2>3. Reads(buf, c, a, us, e)
    BY <1>8
  <2>4. us \in Seq(T) /\ x \in Seq(T) /\ IsJoin(w, us, x)
    BY OneMore DEF IsJoin
  <2>5. Failed(e) => Failed(d)
    BY DEF ReadsEach
  <2>6. e \in Cursor(T) /\ e.pos <= Len(buf) /\ Holds(buf, e.pos, s[i])
          => Reads(buf, e, b, x, d)
    BY DEF ReadsEach
  <2>7. Holds(buf, c.pos + a, s[i])
    BY <1>6
  <2> HIDE DEF a, b, e, d, us, w, x
  <2>8. \A k, l \in Nat :
          /\ Reads(buf, c, k, us, e) /\ Holds(buf, c.pos + k, s[i])
          /\ e \in Cursor(T) /\ e.pos <= Len(buf) /\ Holds(buf, e.pos, s[i])
               => Reads(buf, e, l, x, d)
          => Reads(buf, c, k + l, w, d)
    BY <1>3, <2>4, <2>5, ReadsPiece
  <2>10. Reads(buf, c, a + b, w, d)
    BY <2>2, <2>3, <2>6, <2>7, <2>8
  <2>11. QED
    BY <2>1, <2>2, <2>10 DEF d, w
<1>9. Reads(buf, c, size[n], SubSeq(vs, 1, n), g[n])
  <2>1. \A i \in 1..n : i - 1 \in All => i \in All
    BY <1>8
  <2> HIDE DEF All
  <2>2. \A i \in 0..n : i \in All
    BY <1>7, <2>1, Climbs
  <2>3. n \in 0..n
    OBVIOUS
  <2>4. QED
    BY <2>2, <2>3 DEF All
<1>10. SubSeq(vs, 1, n) = vs
  OBVIOUS
<1>11. QED
  BY <1>4, <1>9, <1>10

------------------------------------------------------------------------------
(* Runs of fields, and of groups of fields *)

\* How the decoder goes on: by one more field, or by one more group of fields.
Read1(grouped, buf, c, types, i) ==
  IF grouped THEN ReadGroup(buf, c, types) ELSE ReadField(buf, c, types[i])

\* g[i] is the cursor behind i of them.
Cursors(g, grouped, buf, c, types, n) ==
  /\ g = [i \in 0..n |-> g[i]] /\ g[0] = c
  /\ \A i \in 1..n : g[i] = Read1(grouped, buf, g[i - 1], types, i)

\* There are such cursors, whatever they are.
LEMMA CursorsExist ==
  ASSUME NEW grouped, NEW buf, NEW c, NEW types, NEW n \in Nat
  PROVE  \E g : Cursors(g, grouped, buf, c, types, n)
<1> USE DEF Cursors
<1> DEFINE Is(k, g) == Cursors(g, grouped, buf, c, types, k)
           There == {k \in 0..n : \E g : Is(k, g)}
<1>1. \E g : Is(0, g)
  <2> DEFINE g == [i \in 0..0 |-> c]
  <2>1. Is(0, g)
    OBVIOUS
  <2> HIDE DEF Is
  <2>2. QED
    BY <2>1
<1>2. ASSUME NEW k \in 1..n, NEW g, Is(k - 1, g) PROVE \E h : Is(k, h)
  <2> DEFINE v == Read1(grouped, buf, g[k - 1], types, k)
             h == [i \in 0..k |-> IF i = k THEN v ELSE g[i]]
  <2>1. h[k] = v /\ h[k - 1] = g[k - 1] /\ h[0] = c
    BY <1>2
  <2>2. ASSUME NEW i \in 1..k PROVE h[i] = Read1(grouped, buf, h[i - 1], types, i)
    <3>1. CASE i = k
      BY <2>1, <3>1
    <3>2. CASE i # k
      <4>1. i \in 1..k - 1 /\ h[i] = g[i] /\ h[i - 1] = g[i - 1]
        BY <3>2
      <4>2. g[i] = Read1(grouped, buf, g[i - 1], types, i)
        BY <1>2, <4>1
      <4>3. QED
        BY <4>1, <4>2
    <3>3. QED
      BY <3>1, <3>2
  <2>3. h = [i \in 0..k |-> h[i]]
    OBVIOUS
  <2> HIDE DEF h
  <2>4. Is(k, h)
    BY <2>1, <2>2, <2>3
  <2>5. QED
    BY <2>4
<1> HIDE DEF Is
<1>3. \A k \in 0..n : k \in There
  <2>1. 0 \in There
    BY <1>1
  <2>2. \A k \in 1..n : k - 1 \in There => k \in There
    BY <1>2
  <2> HIDE DEF There
  <2>3. QED
    BY <2>1, <2>2, Climbs
<1>4. n \in 0..n
  OBVIOUS
<1>5. \E g : Is(n, g)
  BY <1>3, <1>4
<1>6. QED
  BY <1>5 DEF Is

LEMMA ReadFieldsIs ==
  ASSUME NEW buf, NEW c, NEW types, Len(types) \in Nat
  PROVE  \E g : /\ g[0] = c
                /\ \A i \in 1..Len(types) : g[i] = ReadField(buf, g[i - 1], types[i])
                /\ ReadFields(buf, c, types) = g[Len(types)]
<1> DEFINE n == Len(types)
           Body(g) == [i \in 0..n |-> IF i = 0 THEN c
                                      ELSE ReadField(buf, g[i - 1], types[i])]
           read == CHOOSE g : g = Body(g)
<1>1. \E g : g = Body(g)
  <2>1. PICK g : Cursors(g, FALSE, buf, c, types, n)
    BY CursorsExist
  <2>2. \A i \in 0..n : g[i] = Body(g)[i]
    BY <2>1 DEF Cursors, Read1
  <2>3. g = Body(g)
    BY <2>1, <2>2 DEF Cursors
  <2>4. QED
    BY <2>3
<1>2. read = Body(read)
  BY <1>1
<1>3. ReadFields(buf, c, types) = read[n]
  BY DEF ReadFields
<1> HIDE DEF read
<1>4. read[0] = c
  BY <1>2
<1>5. \A i \in 1..n : read[i] = ReadField(buf, read[i - 1], types[i])
  BY <1>2
<1>6. QED
  BY <1>3, <1>4, <1>5

LEMMA FieldFails ==
  ASSUME NEW buf, NEW c, NEW type, Failed(c)
  PROVE  Failed(ReadField(buf, c, type))
  BY FailedStays DEF ReadField

LEMMA ReadFieldsReads ==
  ASSUME NEW T, NEW buf \in Seq(Byte), NEW c \in Cursor(T), c.pos <= Len(buf),
         NEW types, NEW vs \in Seq(T), Len(vs) = Len(types), FieldsFit(types, vs),
         Holds(buf, c.pos, PushFields(types, vs))
  PROVE  Reads(buf, c, Len(PushFields(types, vs)), vs, ReadFields(buf, c, types))
<1> DEFINE n == Len(types)
<1>1. PICK s, size : FieldsAt(types, vs, s, size)
  BY PushFieldsIs
<1>2. n \in Nat /\ \A i \in 1..n : Fits(types[i], vs[i])
  BY DEF FieldsFit
<1>3. /\ Sized(Byte, s, PushFields(types, vs), size) /\ Len(s) = n
      /\ \A i \in 1..n : s[i] = PushField(types[i], vs[i]) /\ Len(s[i]) \in Nat
  BY <1>1 DEF FieldsAt
<1>4. PICK g : /\ g[0] = c
               /\ \A i \in 1..n : g[i] = ReadField(buf, g[i - 1], types[i])
               /\ ReadFields(buf, c, types) = g[n]
  BY <1>2, ReadFieldsIs
<1>5. ReadsEach(T, buf, s, vs, g)
  <2>1. ASSUME NEW i \in 1..n
        PROVE  /\ Failed(g[i - 1]) => Failed(g[i])
               /\ g[i - 1] \in Cursor(T) /\ g[i - 1].pos <= Len(buf)
                    /\ Holds(buf, g[i - 1].pos, s[i])
                  => Reads(buf, g[i - 1], Len(s[i]), <<vs[i]>>, g[i])
    <3> DEFINE e == g[i - 1]
               t == types[i]
               v == vs[i]
    <3>1. g[i] = ReadField(buf, e, t) /\ s[i] = PushField(t, v) /\ Fits(t, v)
      BY <1>2, <1>3, <1>4
    <3> HIDE DEF e, t, v
    <3>2. Failed(e) => Failed(ReadField(buf, e, t))
      BY FieldFails
    <3>3. e \in Cursor(T) /\ Holds(buf, e.pos, PushField(t, v)) =>
            Reads(buf, e, Len(PushField(t, v)), <<v>>, ReadField(buf, e, t))
      BY <3>1, ReadFieldReads
    <3>4. QED
      BY <3>1, <3>2, <3>3 DEF e, v
  <2>2. QED
    BY <1>3, <2>1 DEF ReadsEach
<1>6. Reads(buf, c, Len(PushFields(types, vs)), vs, g[n])
  <2> HIDE DEF n
  <2>1. n = Len(vs) /\ \A i \in 1..n : Len(s[i]) \in Nat
    BY <1>3 DEF n
  <2>2. QED
    BY <1>2, <1>3, <1>4, <1>5, <2>1, ReadsAll
<1>7. QED
  BY <1>4, <1>6

LEMMA StartIs ==
  ASSUME NEW T, NEW pos \in Nat
  PROVE  At(pos) \in Cursor(T) /\ At(pos).pos = pos /\ At(pos).out = <<>> /\ At(pos).ok
<1>1. <<>> \in Seq(T)
  OBVIOUS
<1>2. QED
  BY <1>1 DEF At, Cursor

LEMMA PastStart ==
  ASSUME NEW T, NEW pos \in Nat, NEW len \in Nat, NEW vs \in Seq(T)
  PROVE  /\ Past(At(pos), len, vs) = [ok |-> TRUE, pos |-> pos + len, out |-> vs]
         /\ Past(At(pos), len, vs) \in Cursor(T)
<1>1. At(pos).pos = pos /\ At(pos).out = <<>>
  BY DEF At
<1>2. <<>> \o vs = vs
  OBVIOUS
<1>3. Past(At(pos), len, vs) = [ok |-> TRUE, pos |-> pos + len, out |-> vs]
  BY <1>1, <1>2, Zenon DEF Past
<1>4. At(pos) \in Cursor(T)
  BY StartIs
<1>5. QED
  BY <1>3, <1>4, PastIs

LEMMA PastStarts ==
  ASSUME NEW T, NEW vs \in Seq(T)
  PROVE  \A pos, len \in Nat :
           Past(At(pos), len, vs) = [ok |-> TRUE, pos |-> pos + len, out |-> vs]
<1>1. ASSUME NEW pos \in Nat, NEW len \in Nat
      PROVE  Past(At(pos), len, vs) = [ok |-> TRUE, pos |-> pos + len, out |-> vs]
  BY PastStart, Zenon
<1>2. QED
  BY <1>1

LEMMA CursorIs ==
  ASSUME NEW T, NEW c \in Cursor(T)
  PROVE  c.pos \in Nat /\ c.ok /\ c.out \in Seq(T)
  BY DEF Cursor

LEMMA ReadGroupReads ==
  ASSUME NEW T, NEW V, NEW buf \in Seq(Byte), NEW c \in Cursor(T), c.pos <= Len(buf),
         NEW types, NEW vs \in Seq(V), vs \in T, Len(vs) = Len(types),
         FieldsFit(types, vs), Holds(buf, c.pos, PushFields(types, vs)),
         Len(PushFields(types, vs)) \in Nat
  PROVE  Reads(buf, c, Len(PushFields(types, vs)), <<vs>>, ReadGroup(buf, c, types))
<1> DEFINE l == Len(PushFields(types, vs))
           p == c.pos
           a == At(p)
           d == ReadFields(buf, a, types)
           e == ReadGroup(buf, c, types)
<1>1. p \in Nat /\ c.ok /\ c.out \in Seq(T)
  BY CursorIs
<1>2. l \in Nat /\ Len(buf) \in Nat
  OBVIOUS
<1>3. a \in Cursor(V) /\ a.pos = p
  BY <1>1, StartIs
<1>4. Reads(buf, a, l, vs, d)
  BY <1>3, ReadFieldsReads
<1>5. e = [d EXCEPT !.out = Append(c.out, d.out)]
  <2> HIDE DEF d
  <2>1. e = [d EXCEPT !.out = Append(c.out, @)]
    BY <1>1 DEF ReadGroup, d
  <2>2. QED
    BY <2>1
<1> HIDE DEF a, d, e, l
<1>6. CASE p + l <= Len(buf)
  <2>1. d = Past(a, l, vs)
    BY <1>3, <1>4, <1>6 DEF Reads
  <2>2. d = [ok |-> TRUE, pos |-> p + l, out |-> vs]
    <3> HIDE DEF p
    <3>1. \A q, k \in Nat : Past(At(q), k, vs) = [ok |-> TRUE, pos |-> q + k, out |-> vs]
      BY PastStarts, Zenon
    <3>2. QED
      BY <1>1, <1>2, <2>1, <3>1 DEF a
  <2>3. e = [ok |-> TRUE, pos |-> p + l, out |-> Append(c.out, vs)]
    BY <1>5, <2>2
  <2>4. e = Past(c, l, <<vs>>)
    BY <1>1, <2>3, AppendJoins DEF Past
  <2>5. QED
    BY <1>1, <1>2, <1>6, <2>4 DEF Reads, e, l
<1>7. CASE Len(buf) < p + l
  <2>1. Failed(d)
    BY <1>3, <1>4, <1>7 DEF Reads
  <2>2. Failed(e)
    BY <1>5, <2>1, FailedStays
  <2>3. QED
    BY <1>1, <1>2, <1>7, <2>2 DEF Reads, e, l
<1>8. QED
  BY <1>1, <1>2, <1>6, <1>7

LEMMA GroupFails ==
  ASSUME NEW buf, NEW c, NEW types, Failed(c)
  PROVE  Failed(ReadGroup(buf, c, types))
  BY FailedStays DEF ReadGroup

LEMMA PushFieldsType ==
  ASSUME NEW types, NEW vs, FieldsFit(types, vs)
  PROVE  PushFields(types, vs) \in Seq(Byte) /\ Len(PushFields(types, vs)) \in Nat
<1>1. PICK s, size : FieldsAt(types, vs, s, size)
  BY PushFieldsIs
<1>2. PushFields(types, vs) \in Seq(Byte)
  BY <1>1 DEF FieldsAt, Sized
<1>3. QED
  BY <1>2

GroupsFit(V, types, groups) ==
  /\ groups \in Seq(Seq(V))
  /\ \A i \in 1..Len(groups) :
       Len(groups[i]) = Len(types) /\ FieldsFit(types, groups[i])

\* The bytes of the groups, without their number.
Pushed(types, groups) ==
  FlattenSeq([i \in 1..Len(groups) |-> PushFields(types, groups[i])])

GroupsAt(types, groups, s, size) ==
  /\ Sized(Byte, s, Pushed(types, groups), size)
  /\ Len(s) = Len(groups)
  /\ \A i \in 1..Len(groups) :
       s[i] = PushFields(types, groups[i]) /\ Len(s[i]) \in Nat

LEMMA PushedIs ==
  ASSUME NEW V, NEW types, NEW groups, GroupsFit(V, types, groups)
  PROVE  \E s, size : GroupsAt(types, groups, s, size)
<1> DEFINE n == Len(groups)
           s == [i \in 1..n |-> PushFields(types, groups[i])]
<1>1. n \in Nat
  BY DEF GroupsFit
<1>2. ASSUME NEW i \in 1..n
      PROVE  /\ PushFields(types, groups[i]) \in Seq(Byte)
             /\ Len(PushFields(types, groups[i])) \in Nat
  BY PushFieldsType DEF GroupsFit
<1> HIDE DEF n
<1>3. s \in Seq(Seq(Byte)) /\ Len(s) = n
  BY <1>1, <1>2
<1>4. \A i \in 1..n : s[i] = PushFields(types, groups[i]) /\ Len(s[i]) \in Nat
  BY <1>2
<1>5. Pushed(types, groups) = FlattenSeq(s)
  BY DEF Pushed, n
<1> HIDE DEF s
<1>6. PICK size : Sized(Byte, s, FlattenSeq(s), size)
  BY <1>3, FlattenSizes
<1>7. QED
  BY <1>3, <1>4, <1>5, <1>6 DEF GroupsAt, n

LEMMA ReadEachIs ==
  ASSUME NEW buf, NEW pos, NEW types, types # <<>>, NEW count,
         count = ReadField(buf, At(pos), "u32"), count.ok,
         NEW n \in Nat, count.out[1] = n
  PROVE  \E g : /\ g[0] = At(count.pos)
                /\ \A i \in 1..n : g[i] = ReadGroup(buf, g[i - 1], types)
                /\ ReadEach(buf, pos, types) = g[n]
<1> DEFINE c == At(count.pos)
           Body(g) == [i \in 0..n |-> IF i = 0 THEN c
                                      ELSE ReadGroup(buf, g[i - 1], types)]
           read == CHOOSE g : g = Body(g)
<1>1. \E g : g = Body(g)
  <2> HIDE DEF c
  <2>1. PICK g : Cursors(g, TRUE, buf, c, types, n)
    BY CursorsExist
  <2>2. \A i \in 0..n : g[i] = Body(g)[i]
    BY <2>1 DEF Cursors, Read1
  <2>3. g = Body(g)
    BY <2>1, <2>2 DEF Cursors
  <2>4. QED
    BY <2>3
<1>2. read = Body(read)
  BY <1>1
<1>3. ReadEach(buf, pos, types) = read[n]
  BY DEF ReadEach
<1> HIDE DEF read
<1>4. read[0] = At(count.pos)
  BY <1>2
<1>5. \A i \in 1..n : read[i] = ReadGroup(buf, read[i - 1], types)
  BY <1>2
<1>6. QED
  BY <1>3, <1>4, <1>5

\* The groups behind their number.
LEMMA ReadGroupsRead ==
  ASSUME NEW V, NEW buf \in Seq(Byte), NEW pos \in Nat, pos <= Len(buf),
         NEW types, NEW groups, GroupsFit(V, types, groups),
         Holds(buf, pos, Pushed(types, groups)),
         NEW g, g[0] = At(pos),
         \A i \in 1..Len(groups) : g[i] = ReadGroup(buf, g[i - 1], types)
  PROVE  Reads(buf, At(pos), Len(Pushed(types, groups)), groups, g[Len(groups)])
<1> DEFINE n == Len(groups)
           T == Seq(V)
           c == At(pos)
<1>1. PICK s, size : GroupsAt(types, groups, s, size)
  BY PushedIs
<1>2. n \in Nat /\ groups \in Seq(T)
      /\ \A i \in 1..n : Len(groups[i]) = Len(types) /\ FieldsFit(types, groups[i])
  BY DEF GroupsFit
<1>3. /\ Sized(Byte, s, Pushed(types, groups), size) /\ Len(s) = n
      /\ \A i \in 1..n : s[i] = PushFields(types, groups[i]) /\ Len(s[i]) \in Nat
  BY <1>1 DEF GroupsAt
<1>4. c \in Cursor(T) /\ c.pos = pos
  BY StartIs
<1>5. ReadsEach(T, buf, s, groups, g)
  <2>1. ASSUME NEW i \in 1..n
        PROVE  /\ Failed(g[i - 1]) => Failed(g[i])
               /\ g[i - 1] \in Cursor(T) /\ g[i - 1].pos <= Len(buf)
                    /\ Holds(buf, g[i - 1].pos, s[i])
                  => Reads(buf, g[i - 1], Len(s[i]), <<groups[i]>>, g[i])
    <3> DEFINE e == g[i - 1]
               vs == groups[i]
    <3>1. /\ g[i] = ReadGroup(buf, e, types) /\ s[i] = PushFields(types, vs)
          /\ Len(PushFields(types, vs)) \in Nat
          /\ vs \in Seq(V) /\ vs \in T /\ Len(vs) = Len(types) /\ FieldsFit(types, vs)
      BY <1>2, <1>3
    <3> HIDE DEF e, vs, T
    <3>2. Failed(e) => Failed(ReadGroup(buf, e, types))
      BY GroupFails
    <3>3. e \in Cursor(T) /\ e.pos <= Len(buf) /\ Holds(buf, e.pos, PushFields(types, vs)) =>
            Reads(buf, e, Len(PushFields(types, vs)), <<vs>>, ReadGroup(buf, e, types))
      BY <3>1, ReadGroupReads
    <3>4. QED
      BY <3>1, <3>2, <3>3 DEF e, vs
  <2>2. QED
    BY <1>3, <2>1 DEF ReadsEach
<1>6. QED
  <2> HIDE DEF n, T, c
  <2>1. n = Len(groups) /\ \A i \in 1..n : Len(s[i]) \in Nat
    BY <1>3 DEF n
  <2>2. g[0] = c
    BY DEF c
  <2>3. c.pos <= Len(buf) /\ Holds(buf, c.pos, Pushed(types, groups))
    BY <1>4
  <2>4. Reads(buf, c, Len(Pushed(types, groups)), groups, g[n])
    BY <1>2, <1>3, <1>4, <1>5, <2>1, <2>2, <2>3, ReadsAll
  <2>5. QED
    BY <2>4 DEF c, n

LEMMA PushEachIs ==
  ASSUME NEW V, NEW types, NEW groups, GroupsFit(V, types, groups)
  PROVE  /\ PushEach(types, groups) \in Seq(Byte)
         /\ Len(PushEach(types, groups)) = 4 + Len(Pushed(types, groups))
         /\ Len(Pushed(types, groups)) \in Nat
         /\ \A buf, pos : Len(buf) \in Nat /\ pos \in Nat
                            /\ Holds(buf, pos, PushEach(types, groups)) =>
              /\ Holds(buf, pos, Bytes(Len(groups), 4))
              /\ Holds(buf, pos + 4, Pushed(types, groups))
<1> DEFINE head == Bytes(Len(groups), 4)
           rest == Pushed(types, groups)
<1>1. Len(groups) \in Nat /\ Len(groups) \in Scalar
  BY DEF GroupsFit, Scalar
<1>2. head \in Seq(Byte) /\ Len(head) = 4
  BY <1>1, BytesAre
<1>3. rest \in Seq(Byte)
  <2>1. PICK s, size : GroupsAt(types, groups, s, size)
    BY PushedIs
  <2>2. QED
    BY <2>1 DEF GroupsAt, Sized
<1>4. PushEach(types, groups) = head \o rest
  BY DEF PushEach, Pushed
<1> HIDE DEF head, rest
<1>5. /\ head \o rest \in Seq(Byte) /\ Len(rest) \in Nat
      /\ Len(head \o rest) = 4 + Len(rest)
  <2>1. Len(head \o rest) = Len(head) + Len(rest) /\ head \o rest \in Seq(Byte)
    BY <1>2, <1>3, Joined2
  <2>2. Len(rest) \in Nat
    BY <1>3
  <2>3. QED
    BY <1>2, <2>1, <2>2
<1>6. \A buf, pos : Len(buf) \in Nat /\ pos \in Nat /\ Holds(buf, pos, head \o rest)
                      => Holds(buf, pos, head) /\ Holds(buf, pos + 4, rest)
  BY <1>2, <1>3, HoldsParts
<1>7. QED
  BY <1>4, <1>5, <1>6 DEF head, rest

\* The number before the groups.
LEMMA ReadCountReads ==
  ASSUME NEW buf \in Seq(Byte), NEW pos \in Nat, NEW n \in Nat, NEW count,
         count = ReadField(buf, At(pos), "u32"), Holds(buf, pos, Bytes(n, 4))
  PROVE  /\ pos + 4 <= Len(buf) => count = [ok |-> TRUE, pos |-> pos + 4, out |-> <<n>>]
         /\ Len(buf) < pos + 4 => Failed(count)
<1> DEFINE c == At(pos)
<1>1. n \in Scalar /\ "u32" \in DOMAIN Width /\ Width["u32"] = 4
  BY DEF Scalar, Width
<1>2. Fits("u32", n)
  BY <1>1 DEF Fits
<1>3. PushField("u32", n) = Bytes(n, 4)
  BY <1>1 DEF PushField
<1>4. Len(Bytes(n, 4)) = 4
  BY <1>1, BytesAre
<1>5. c \in Cursor(Nat) /\ c.pos = pos
  BY StartIs
<1> HIDE DEF c
<1>6. Reads(buf, c, Len(PushField("u32", n)), <<n>>, ReadField(buf, c, "u32"))
  BY <1>2, <1>3, <1>5, ReadFieldReads
<1>7. Reads(buf, c, 4, <<n>>, count)
  BY <1>3, <1>4, <1>6 DEF c
<1>8. Past(c, 4, <<n>>) = [ok |-> TRUE, pos |-> pos + 4, out |-> <<n>>]
  <2>1. <<n>> \in Seq(Nat) /\ 4 \in Nat
    OBVIOUS
  <2>2. QED
    <3> DEFINE vs == <<n>>
    <3>1. vs \in Seq(Nat)
      BY <2>1
    <3> HIDE DEF vs
    <3>2. \A q, k \in Nat : Past(At(q), k, vs) = [ok |-> TRUE, pos |-> q + k, out |-> vs]
      BY <3>1, PastStarts, Zenon
    <3>3. Past(At(pos), 4, vs) = [ok |-> TRUE, pos |-> pos + 4, out |-> vs]
      BY <2>1, <3>2
    <3>4. QED
      BY <3>3, Zenon DEF c, vs
<1>9. QED
  BY <1>5, <1>7, <1>8 DEF Reads

LEMMA ReadEachReads ==
  ASSUME NEW V, NEW buf \in Seq(Byte), NEW pos \in Nat,
         NEW types, types # <<>>, NEW groups, GroupsFit(V, types, groups),
         Holds(buf, pos, PushEach(types, groups))
  PROVE  Reads(buf, At(pos), Len(PushEach(types, groups)), groups,
               ReadEach(buf, pos, types))
<1> DEFINE n == Len(groups)
           l == Len(Pushed(types, groups))
           count == ReadField(buf, At(pos), "u32")
           d == ReadEach(buf, pos, types)
<1>1. n \in Nat /\ groups \in Seq(Seq(V)) /\ Len(buf) \in Nat
  BY DEF GroupsFit
<1>2. /\ Len(PushEach(types, groups)) = 4 + l /\ l \in Nat
      /\ Holds(buf, pos, Bytes(n, 4))
      /\ Holds(buf, pos + 4, Pushed(types, groups))
  BY <1>1, PushEachIs
<1>3. /\ pos + 4 <= Len(buf) => count = [ok |-> TRUE, pos |-> pos + 4, out |-> <<n>>]
      /\ Len(buf) < pos + 4 => Failed(count)
  BY <1>1, <1>2, ReadCountReads
<1>4. At(pos).pos = pos
  BY DEF At
<1>5. CASE Len(buf) < pos + 4
  <2>1. Failed(count) /\ ~count.ok
    BY <1>3, <1>5, FailedStays
  <2>2. d = count
    BY <2>1 DEF ReadEach
  <2>3. ~(pos + (4 + l) <= Len(buf))
    BY <1>1, <1>2, <1>5
  <2>4. QED
    BY <1>2, <1>4, <2>1, <2>2, <2>3 DEF Reads
<1>6. CASE pos + 4 <= Len(buf)
  <2>1. count = [ok |-> TRUE, pos |-> pos + 4, out |-> <<n>>]
    BY <1>3, <1>6
  <2>2. count.ok /\ count.pos = pos + 4 /\ count.out[1] = n
    BY <2>1
  <2> HIDE DEF count, n, l, d
  <2>3. PICK g : /\ g[0] = At(count.pos)
                 /\ \A i \in 1..n : g[i] = ReadGroup(buf, g[i - 1], types)
                 /\ d = g[n]
    <3>1. count = ReadField(buf, At(pos), "u32")
      BY DEF count
    <3>2. \A k \in Nat : count.out[1] = k =>
            \E g : /\ g[0] = At(count.pos)
                   /\ \A i \in 1..k : g[i] = ReadGroup(buf, g[i - 1], types)
                   /\ ReadEach(buf, pos, types) = g[k]
      BY <2>2, <3>1, ReadEachIs
    <3>3. QED
      BY <1>1, <2>2, <3>2 DEF d
  <2>4. g[0] = At(pos + 4) /\ pos + 4 \in Nat
    BY <2>2, <2>3
  <2>5. Reads(buf, At(pos + 4), l, groups, d)
    BY <1>2, <1>6, <2>3, <2>4, ReadGroupsRead DEF n, l
  <2>6. At(pos + 4).pos = pos + 4
    BY DEF At
  <2>7. /\ pos + 4 + l <= Len(buf) => d = Past(At(pos + 4), l, groups)
        /\ Len(buf) < pos + 4 + l => Failed(d)
    BY <2>5, <2>6 DEF Reads
  <2>8. Past(At(pos + 4), l, groups) = Past(At(pos), 4 + l, groups)
    <3>1. \A p, k \in Nat : Past(At(p), k, groups) = [ok |-> TRUE, pos |-> p + k, out |-> groups]
      <4> DEFINE T == Seq(V)
      <4>1. groups \in Seq(T)
        BY <1>1
      <4> HIDE DEF T
      <4>2. QED
        BY <4>1, PastStarts, Zenon
    <3>2. pos + 4 + l = pos + (4 + l) /\ 4 + l \in Nat
      BY <1>2
    <3>3. QED
      BY <1>2, <2>4, <3>1, <3>2
  <2>9. pos + 4 + l = pos + (4 + l)
    BY <1>2
  <2>10. Reads(buf, At(pos), 4 + l, groups, d)
    BY <1>4, <2>7, <2>8, <2>9 DEF Reads
  <2>11. QED
    BY <1>2, <2>10 DEF l, d
<1>7. QED
  BY <1>1, <1>5, <1>6

------------------------------------------------------------------------------
(* A message *)

EachFits(V, types, groups) ==
  IF types = <<>> THEN groups = <<>> ELSE GroupsFit(V, types, groups)

EachBytes(types, groups) ==
  IF types = <<>> THEN <<>> ELSE PushEach(types, groups)

\* The values of a message are those of the layout's fields.
RunFits(V, types, vs) ==
  vs \in Seq(V) /\ Len(vs) = Len(types) /\ FieldsFit(types, vs)

MessageFits(V, layout, msg) ==
  /\ RunFits(V, layout.head, msg.head)
  /\ EachFits(V, layout.each, msg.each)
  /\ RunFits(V, layout.tail, msg.tail)

LEMMA EachBytesType ==
  ASSUME NEW V, NEW types, NEW groups, EachFits(V, types, groups)
  PROVE  EachBytes(types, groups) \in Seq(Byte)
<1>1. CASE types = <<>>
  BY <1>1 DEF EachBytes
<1>2. CASE types # <<>>
  BY <1>2, PushEachIs DEF EachFits, EachBytes
<1>3. QED
  BY <1>1, <1>2

LEMMA EachReads ==
  ASSUME NEW V, NEW buf \in Seq(Byte), NEW pos \in Nat, pos <= Len(buf),
         NEW types, NEW groups, EachFits(V, types, groups),
         Holds(buf, pos, EachBytes(types, groups))
  PROVE  Reads(buf, At(pos), Len(EachBytes(types, groups)), groups,
               ReadEach(buf, pos, types))
<1>1. CASE types = <<>>
  <2>1. groups = <<>> /\ ReadEach(buf, pos, types) = At(pos)
    BY <1>1 DEF EachFits, ReadEach
  <2>2. Len(EachBytes(types, groups)) = 0
    BY <1>1 DEF EachBytes
  <2>3. At(pos) \in Cursor(Nat) /\ At(pos).pos = pos /\ Len(buf) \in Nat
    BY StartIs
  <2>4. Reads(buf, At(pos), 0, <<>>, At(pos))
    BY <2>3, ReadsNone
  <2>5. QED
    BY <2>1, <2>2, <2>4
<1>2. CASE types # <<>>
  <2>1. GroupsFit(V, types, groups) /\ EachBytes(types, groups) = PushEach(types, groups)
    BY <1>2 DEF EachFits, EachBytes
  <2>2. QED
    BY <1>2, <2>1, ReadEachReads
<1>3. QED
  BY <1>1, <1>2

LEMMA RunReads ==
  ASSUME NEW V, NEW buf \in Seq(Byte), NEW pos \in Nat, pos <= Len(buf),
         NEW types, NEW vs, RunFits(V, types, vs), Holds(buf, pos, PushFields(types, vs))
  PROVE  Reads(buf, At(pos), Len(PushFields(types, vs)), vs,
               ReadFields(buf, At(pos), types))
<1>1. vs \in Seq(V) /\ Len(vs) = Len(types) /\ FieldsFit(types, vs)
  BY DEF RunFits
<1> DEFINE c == At(pos)
<1>2. c \in Cursor(V) /\ c.pos = pos
  BY StartIs
<1> HIDE DEF c
<1>3. Reads(buf, c, Len(PushFields(types, vs)), vs, ReadFields(buf, c, types))
  BY <1>1, <1>2, ReadFieldsReads
<1>4. QED
  BY <1>3 DEF c

\* What reading from a position says about the position behind.
LEMMA StartReads ==
  ASSUME NEW V, NEW buf, NEW pos \in Nat, NEW len \in Nat, NEW vs \in Seq(V), NEW d,
         Len(buf) \in Nat, Reads(buf, At(pos), len, vs, d)
  PROVE  /\ pos + len <= Len(buf) => d.ok /\ d.pos = pos + len /\ d.out = vs
         /\ Len(buf) < pos + len => ~d.ok
<1>1. At(pos).pos = pos
  BY DEF At
<1>2. Past(At(pos), len, vs) = [ok |-> TRUE, pos |-> pos + len, out |-> vs]
  BY PastStart
<1>3. ASSUME pos + len <= Len(buf) PROVE d = [ok |-> TRUE, pos |-> pos + len, out |-> vs]
  BY <1>1, <1>2, <1>3 DEF Reads
<1>4. ASSUME Len(buf) < pos + len PROVE ~d.ok
  BY <1>1, <1>4, FailedStays DEF Reads
<1>5. QED
  BY <1>3, <1>4

LEMMA EncodeIs ==
  ASSUME NEW V, NEW layout, NEW msg, MessageFits(V, layout, msg)
  PROVE  \E a, b, c \in Nat :
           /\ a = Len(PushFields(layout.head, msg.head))
           /\ b = Len(EachBytes(layout.each, msg.each))
           /\ c = Len(PushFields(layout.tail, msg.tail))
           /\ Encode(layout, msg) \in Seq(Byte)
           /\ Len(Encode(layout, msg)) = a + b + c
           /\ \A buf : Len(buf) \in Nat /\ Holds(buf, 0, Encode(layout, msg)) =>
                /\ Holds(buf, 0, PushFields(layout.head, msg.head))
                /\ Holds(buf, a, EachBytes(layout.each, msg.each))
                /\ Holds(buf, a + b, PushFields(layout.tail, msg.tail))
<1> DEFINE x == PushFields(layout.head, msg.head)
           y == EachBytes(layout.each, msg.each)
           z == PushFields(layout.tail, msg.tail)
           e == Encode(layout, msg)
<1>1. x \in Seq(Byte) /\ z \in Seq(Byte)
  BY PushFieldsType DEF MessageFits, RunFits
<1>2. y \in Seq(Byte)
  BY EachBytesType DEF MessageFits
<1>3. e = x \o y \o z
  BY DEF Encode, EachBytes
<1> HIDE DEF x, y, z, e
<1>4. PICK xy \in Seq(Byte) : xy = x \o y
  BY <1>1, <1>2, Joined2
<1>5. /\ Len(xy) = Len(x) + Len(y) /\ Len(x) \in Nat /\ Len(y) \in Nat /\ Len(z) \in Nat
      /\ Len(xy) \in Nat
  BY <1>1, <1>2, <1>4, Joined2
<1>6. e \in Seq(Byte) /\ Len(e) = Len(xy) + Len(z) /\ e = xy \o z
  BY <1>1, <1>3, <1>4, Joined2
<1>7. ASSUME NEW buf, Len(buf) \in Nat, Holds(buf, 0, e)
      PROVE  Holds(buf, 0, x) /\ Holds(buf, Len(x), y) /\ Holds(buf, Len(x) + Len(y), z)
  <2>1. Holds(buf, 0, xy) /\ Holds(buf, 0 + Len(xy), z)
    BY <1>1, <1>6, <1>7, HoldsParts
  <2>2. Holds(buf, 0, x) /\ Holds(buf, 0 + Len(x), y)
    BY <1>1, <1>2, <1>4, <1>7, <2>1, HoldsParts
  <2>3. QED
    BY <1>5, <2>1, <2>2
<1>8. QED
  BY <1>5, <1>6, <1>7 DEF x, y, z, e

\* Decoding a buffer gives the message if its bytes are all of it, and an error
\* if there are fewer or more.
LEMMA DecodeReads ==
  ASSUME NEW V, NEW layout, NEW msg, MessageFits(V, layout, msg),
         NEW buf \in Seq(Byte), Holds(buf, 0, Encode(layout, msg))
  PROVE  /\ Len(buf) = Len(Encode(layout, msg)) =>
              Decode(layout, buf) = [ok |-> TRUE, head |-> msg.head,
                                     each |-> msg.each, tail |-> msg.tail]
         /\ Len(buf) # Len(Encode(layout, msg)) => Decode(layout, buf) = Error
<1> DEFINE h == ReadFields(buf, At(0), layout.head)
           e == ReadEach(buf, h.pos, layout.each)
           t == ReadFields(buf, At(e.pos), layout.tail)
           d == Decode(layout, buf)
           len == Len(Encode(layout, msg))
<1>1. PICK a \in Nat, b \in Nat, c \in Nat :
        /\ a = Len(PushFields(layout.head, msg.head))
        /\ b = Len(EachBytes(layout.each, msg.each))
        /\ c = Len(PushFields(layout.tail, msg.tail))
        /\ len = a + b + c
        /\ Holds(buf, 0, PushFields(layout.head, msg.head))
        /\ Holds(buf, a, EachBytes(layout.each, msg.each))
        /\ Holds(buf, a + b, PushFields(layout.tail, msg.tail))
  <2>1. Len(buf) \in Nat
    OBVIOUS
  <2>2. QED
    BY <2>1, EncodeIs
<1>2. Len(buf) \in Nat
  OBVIOUS
<1>3. /\ RunFits(V, layout.head, msg.head) /\ EachFits(V, layout.each, msg.each)
      /\ RunFits(V, layout.tail, msg.tail)
  BY DEF MessageFits
<1>4. msg.head \in Seq(V) /\ msg.tail \in Seq(V) /\ msg.each \in Seq(Seq(V))
  <2>1. \A types, groups : EachFits(V, types, groups) => groups \in Seq(Seq(V))
    <3>1. ASSUME NEW types, NEW groups, EachFits(V, types, groups)
          PROVE  groups \in Seq(Seq(V))
      <4> DEFINE W == Seq(V)
      <4>1. CASE types = <<>>
        <5>1. groups = <<>>
          BY <3>1, <4>1 DEF EachFits
        <5> HIDE DEF W
        <5>2. groups \in Seq(W)
          BY <5>1
        <5>3. QED
          BY <5>2 DEF W
      <4>2. CASE types # <<>>
        BY <3>1, <4>2 DEF EachFits, GroupsFit
      <4>3. QED
        BY <4>1, <4>2
    <3>2. QED
      BY <3>1
  <2>2. QED
    BY <1>3, <2>1 DEF RunFits
<1>5. d = IF h.ok /\ e.ok /\ AtEnd(buf, t)
          THEN [ok |-> TRUE, head |-> h.out, each |-> e.out, tail |-> t.out]
          ELSE Error
  BY DEF Decode
<1>6. AtEnd(buf, t) <=> t.ok /\ t.pos = Len(buf)
  BY DEF AtEnd
<1>7. /\ a <= Len(buf) => h.ok /\ h.pos = a /\ h.out = msg.head
      /\ Len(buf) < a => ~h.ok
  <2>1. Reads(buf, At(0), a, msg.head, h)
    BY <1>1, <1>2, <1>3, RunReads
  <2> HIDE DEF h
  <2>2. 0 + a = a /\ 0 \in Nat
    OBVIOUS
  <2>3. QED
    BY <1>2, <1>4, <2>1, <2>2, StartReads
<1> HIDE DEF h
<1>8. ASSUME a <= Len(buf)
      PROVE  /\ a + b <= Len(buf) => e.ok /\ e.pos = a + b /\ e.out = msg.each
             /\ Len(buf) < a + b => ~e.ok
  <2>1. Reads(buf, At(a), b, msg.each, e)
    BY <1>1, <1>3, <1>7, <1>8, EachReads
  <2> HIDE DEF e
  <2> DEFINE W == Seq(V)
  <2>2. msg.each \in Seq(W)
    BY <1>4
  <2> HIDE DEF W
  <2>3. QED
    BY <1>2, <2>1, <2>2, StartReads
<1> HIDE DEF e
<1>9. ASSUME a <= Len(buf), a + b <= Len(buf)
      PROVE  /\ a + b + c <= Len(buf) => t.ok /\ t.pos = a + b + c /\ t.out = msg.tail
             /\ Len(buf) < a + b + c => ~t.ok
  <2>1. e.pos = a + b /\ a + b \in Nat
    BY <1>8, <1>9
  <2>2. Reads(buf, At(a + b), c, msg.tail, t)
    BY <1>1, <1>3, <1>9, <2>1, RunReads
  <2> HIDE DEF t
  <2>3. QED
    BY <1>2, <1>4, <2>1, <2>2, StartReads
<1> HIDE DEF t
<1>10. CASE Len(buf) < a
  <2>1. Len(buf) # a + b + c
    BY <1>2, <1>10
  <2>2. QED
    BY <1>1, <1>5, <1>7, <1>10, <2>1
<1>11. CASE a <= Len(buf) /\ Len(buf) < a + b
  <2>1. Len(buf) # a + b + c
    BY <1>2, <1>11
  <2>2. QED
    BY <1>1, <1>5, <1>8, <1>11, <2>1
<1>12. CASE a <= Len(buf) /\ a + b <= Len(buf)
  <2>1. CASE Len(buf) < a + b + c
    <3>1. ~t.ok /\ Len(buf) # a + b + c
      BY <1>2, <1>9, <1>12, <2>1
    <3>2. d = Error
      BY <1>5, <1>6, <3>1
    <3>3. QED
      BY <1>1, <3>1, <3>2
  <2>2. CASE a + b + c <= Len(buf)
    <3>1. /\ h.ok /\ h.out = msg.head /\ e.ok /\ e.out = msg.each
          /\ t.ok /\ t.pos = a + b + c /\ t.out = msg.tail
      BY <1>7, <1>8, <1>9, <1>12, <2>2
    <3>2. AtEnd(buf, t) <=> Len(buf) = len
      BY <1>1, <1>6, <3>1
    <3> HIDE DEF d, len
    <3>3. QED
      BY <1>5, <3>1, <3>2 DEF d, len
  <2>3. QED
    BY <1>2, <2>1, <2>2
<1>13. QED
  BY <1>2, <1>10, <1>11, <1>12

------------------------------------------------------------------------------
(* The messages of the frames fit their layouts *)

Types == {"u8", "u32", "i64", "f64", "str", "bytes"}

\* The values of some consecutive fields.
Run(V, types, vs) ==
  /\ types \in Seq(Types) /\ vs \in Seq(V) /\ Len(vs) = Len(types)
  /\ \A i \in 1..Len(types) : Fits(types[i], vs[i])

LEMMA RunIs ==
  ASSUME NEW V, NEW types, NEW vs, Run(V, types, vs)
  PROVE  RunFits(V, types, vs) /\ vs \in Seq(V) /\ Len(vs) = Len(types)
         /\ Len(types) \in Nat
  BY DEF Run, RunFits, FieldsFit

LEMMA RunsJoin ==
  ASSUME NEW V, NEW a, NEW x, NEW b, NEW y, Run(V, a, x), Run(V, b, y)
  PROVE  Run(V, a \o b, x \o y)
<1>1. /\ a \in Seq(Types) /\ x \in Seq(V) /\ Len(x) = Len(a)
      /\ b \in Seq(Types) /\ y \in Seq(V) /\ Len(y) = Len(b)
  BY DEF Run
<1>2. /\ a \o b \in Seq(Types) /\ Len(a \o b) = Len(a) + Len(b)
      /\ Len(a) \in Nat /\ Len(b) \in Nat
      /\ \A i \in 1..Len(a) : (a \o b)[i] = a[i]
      /\ \A i \in 1..Len(b) : (a \o b)[Len(a) + i] = b[i]
  BY <1>1, Joined2
<1>3. /\ x \o y \in Seq(V) /\ Len(x \o y) = Len(x) + Len(y)
      /\ \A i \in 1..Len(x) : (x \o y)[i] = x[i]
      /\ \A i \in 1..Len(y) : (x \o y)[Len(x) + i] = y[i]
  <2>1. x \in Seq(V) /\ y \in Seq(V)
    BY <1>1
  <2>2. QED
    BY <2>1, Joined2
<1>4. PICK ab, xy : ab = a \o b /\ xy = x \o y
  OBVIOUS
<1>5. ASSUME NEW i \in 1..Len(ab) PROVE Fits(ab[i], xy[i])
  <2>1. CASE i \in 1..Len(a)
    <3>1. ab[i] = a[i] /\ xy[i] = x[i]
      BY <1>1, <1>2, <1>3, <1>4, <2>1
    <3>2. QED
      BY <2>1, <3>1 DEF Run
  <2>2. CASE i \notin 1..Len(a)
    <3>1. PICK j \in 1..Len(b) : i = Len(a) + j
      <4>1. i \in Int /\ i >= 1 /\ i <= Len(a) + Len(b)
        BY <1>2, <1>4, <1>5
      <4>2. i - Len(a) \in 1..Len(b) /\ i = Len(a) + (i - Len(a))
        BY <1>2, <2>2, <4>1
      <4>3. QED
        BY <4>2
    <3>2. ab[i] = b[j] /\ xy[i] = y[j]
      BY <1>1, <1>2, <1>3, <1>4, <3>1
    <3>3. QED
      BY <3>1, <3>2 DEF Run
  <2>3. QED
    BY <2>1, <2>2
<1>6. Len(xy) = Len(ab)
  BY <1>1, <1>2, <1>3, <1>4
<1>7. QED
  BY <1>2, <1>3, <1>4, <1>5, <1>6 DEF Run

LEMMA NumbersRun ==
  ASSUME NEW V, Scalar \subseteq V, NEW vs \in Seq(Int)
  PROVE  Run(V, F64s(Len(vs)), vs)
<1>1. F64s(Len(vs)) = [i \in 1..Len(vs) |-> "f64"] /\ Len(vs) \in Nat
  BY DEF F64s
<1>2. F64s(Len(vs)) \in Seq(Types) /\ Len(F64s(Len(vs))) = Len(vs)
  BY <1>1 DEF Types
<1>3. \A i \in 1..Len(vs) : vs[i] \in Int /\ vs[i] \in Scalar
  BY DEF Scalar
<1>4. vs \in Seq(V)
  BY <1>3
<1>5. \A i \in 1..Len(vs) : Fits(F64s(Len(vs))[i], vs[i])
  BY <1>1, <1>3 DEF Fits, Width
<1>6. QED
  BY <1>2, <1>4, <1>5 DEF Run

LEMMA ZerosAre ==
  ASSUME NEW n \in Nat
  PROVE  Zeros(n) \in Seq(Int) /\ Len(Zeros(n)) = n
  BY DEF Zeros

LEMMA HeaderRun ==
  ASSUME NEW V, Scalar \subseteq V, NEW sec \in Int, NEW nsec \in Int,
         NEW text \in DOMAIN TextLen
  PROVE  Run(V, Header, <<sec, nsec, text>>)
<1>1. sec \in Scalar /\ nsec \in Scalar /\ text \in Scalar
  BY DEF Scalar
<1>2. Fits("i64", sec) /\ Fits("u32", nsec) /\ Fits("str", text)
  BY <1>1 DEF Fits, Width
<1>3. Header \in Seq(Types) /\ Len(Header) = 3
      /\ Header[1] = "i64" /\ Header[2] = "u32" /\ Header[3] = "str"
  BY DEF Header, Types
<1>4. PICK vs : vs = <<sec, nsec, text>>
  OBVIOUS
<1>5. vs \in Seq(V) /\ Len(vs) = 3 /\ vs[1] = sec /\ vs[2] = nsec /\ vs[3] = text
  <2>1. sec \in V /\ nsec \in V /\ text \in V
    BY <1>1
  <2>2. QED
    BY <1>4, <2>1
<1>6. \A i \in 1..3 : Fits(Header[i], vs[i])
  <2>1. \A i \in 1..3 : i = 1 \/ i = 2 \/ i = 3
    OBVIOUS
  <2>2. QED
    BY <1>2, <1>3, <1>5, <2>1
<1>7. QED
  BY <1>3, <1>4, <1>5, <1>6 DEF Run

\* The values in the middle of three runs are found by the lengths.
LEMMA PartIs ==
  ASSUME NEW M, NEW a \in Seq(M), NEW b \in Seq(M)
  PROVE  /\ SubSeq(a \o b, Len(a) + 1, Len(a) + Len(b)) = b
         /\ \A k, n \in Nat : 1 <= k /\ n <= Len(a) =>
              SubSeq(a \o b, k, n) = SubSeq(a, k, n)
<1>1. /\ a \o b \in Seq(M) /\ Len(a \o b) = Len(a) + Len(b)
      /\ Len(a) \in Nat /\ Len(b) \in Nat
      /\ \A i \in 1..Len(a) : (a \o b)[i] = a[i]
      /\ \A i \in 1..Len(b) : (a \o b)[Len(a) + i] = b[i]
  BY Joined2
<1>2. PICK w : w = a \o b
  OBVIOUS
<1>3. w \in Seq(M)
  BY <1>1, <1>2
<1>4. SubSeq(w, Len(a) + 1, Len(a) + Len(b)) = b
  <2> DEFINE p == SubSeq(w, Len(a) + 1, Len(a) + Len(b))
  <2>1. p = [i \in 1..Len(b) |-> w[Len(a) + i]]
    <3>1. p = [i \in 1..(Len(a) + Len(b)) - (Len(a) + 1) + 1 |-> w[i + (Len(a) + 1) - 1]]
      BY <1>1, <1>3
    <3>2. (Len(a) + Len(b)) - (Len(a) + 1) + 1 = Len(b)
      BY <1>1
    <3>3. \A i \in 1..Len(b) : i + (Len(a) + 1) - 1 = Len(a) + i
      BY <1>1
    <3>4. QED
      BY <3>1, <3>2, <3>3
  <2>2. b = [i \in 1..Len(b) |-> b[i]]
    OBVIOUS
  <2>3. QED
    BY <1>1, <1>2, <2>1, <2>2
<1>5. ASSUME NEW k \in Nat, NEW n \in Nat, 1 <= k, n <= Len(a)
      PROVE  SubSeq(w, k, n) = SubSeq(a, k, n)
  <2>1. SubSeq(w, k, n) = [i \in 1..n - k + 1 |-> w[i + k - 1]]
    BY <1>3
  <2>2. SubSeq(a, k, n) = [i \in 1..n - k + 1 |-> a[i + k - 1]]
    OBVIOUS
  <2>3. \A i \in 1..n - k + 1 : w[i + k - 1] = a[i + k - 1]
    <3>1. ASSUME NEW i \in 1..n - k + 1 PROVE w[i + k - 1] = a[i + k - 1]
      <4>1. i + k - 1 \in 1..Len(a)
        BY <1>1, <1>5
      <4>2. QED
        BY <1>1, <1>2, <4>1
    <3>2. QED
      BY <3>1
  <2>4. QED
    BY <2>1, <2>2, <2>3
<1>6. QED
  BY <1>2, <1>4, <1>5

LEMMA NothingFits ==
  ASSUME NEW V
  PROVE  RunFits(V, <<>>, <<>>) /\ EachFits(V, <<>>, <<>>)
<1>1. <<>> \in Seq(V) /\ Len(<<>>) = 0
  OBVIOUS
<1>2. QED
  BY <1>1 DEF RunFits, FieldsFit, EachFits

\* The run y is x with n numbers vs behind; what x has stays where it is.
Longer(V, a, x, n, vs, b, y) ==
  /\ Run(V, b, y)
  /\ Len(y) = Len(x) + n
  /\ \A i \in 1..Len(x) : y[i] = x[i]
  /\ SubSeq(y, Len(x) + 1, Len(x) + n) = vs
  /\ \A k, l \in Nat : 1 <= k /\ l <= Len(x) => SubSeq(y, k, l) = SubSeq(x, k, l)

LEMMA NumbersBehind ==
  ASSUME NEW V, Scalar \subseteq V, NEW a, NEW x, Run(V, a, x),
         NEW n, NEW vs \in Seq(Int), Len(vs) = n,
         NEW b, b = a \o F64s(n), NEW y, y = x \o vs
  PROVE  Longer(V, a, x, n, vs, b, y)
<1>1. Run(V, F64s(n), vs)
  BY NumbersRun
<1>2. Run(V, b, y)
  BY <1>1, RunsJoin
<1>3. x \in Seq(V) /\ vs \in Seq(V)
  BY <1>1 DEF Run
<1>4. Len(y) = Len(x) + n /\ \A i \in 1..Len(x) : y[i] = x[i]
  BY <1>3, Joined2
<1>5. /\ SubSeq(y, Len(x) + 1, Len(x) + n) = vs
      /\ \A k, l \in Nat : 1 <= k /\ l <= Len(x) =>
           SubSeq(y, k, l) = SubSeq(x, k, l)
  BY <1>3, PartIs
<1>6. QED
  BY <1>2, <1>4, <1>5 DEF Longer

LEMMA SecondIs == Parts \in Nat \ {0} /\ Nanos \in Nat \ {0} /\ Second \in Nat \ {0}
<1>1. Parts \in Nat \ {0} /\ Nanos \in Nat \ {0}
  BY SensorAssumption
<1>2. \A a, b \in Nat \ {0} : a * b \in Nat \ {0}
  OBVIOUS
<1>3. QED
  BY <1>1, <1>2 DEF Second

\* Rounding to nanoseconds is off by half a nanosecond at most.
LEMMA NearestIs ==
  ASSUME NEW s \in Nat
  PROVE  /\ Nearest(s) \in Nat /\ Parts * Nearest(s) \in Nat
         /\ 2 * (Parts * Nearest(s)) <= 2 * s + Parts
         /\ 2 * s < 2 * (Parts * Nearest(s)) + Parts
<1> DEFINE n == (2 * s + Parts) \div (2 * Parts)
<1>1. Parts \in Nat \ {0} /\ 2 * Parts \in Nat \ {0} /\ 2 * s + Parts \in Nat
  BY SecondIs
<1>2. /\ n \in Nat
      /\ (2 * Parts) * n <= 2 * s + Parts /\ 2 * s + Parts < (2 * Parts) * n + 2 * Parts
  <2> DEFINE a == 2 * s + Parts
             b == 2 * Parts
  <2>1. a \in Nat /\ b \in Nat \ {0}
    BY <1>1
  <2> HIDE DEF a, b
  <2>2. a \div b \in Nat /\ b * (a \div b) <= a /\ a < b * (a \div b) + b
    BY <2>1, DivisionBounds
  <2>3. QED
    BY <2>2 DEF a, b
<1>3. Nearest(s) = n
  BY DEF Nearest
<1> HIDE DEF n
<1>4. Parts * n \in Nat /\ (2 * Parts) * n = 2 * (Parts * n)
  BY <1>1, <1>2
<1>5. QED
  BY <1>1, <1>2, <1>3, <1>4

\* And nothing else is.
LEMMA NearestIsUnique ==
  ASSUME NEW s \in Nat, NEW m \in Int,
         2 * (Parts * m) <= 2 * s + Parts, 2 * s < 2 * (Parts * m) + Parts
  PROVE  Nearest(s) = m
<1> DEFINE n == Nearest(s)
<1>1. Parts \in Nat \ {0}
  BY SecondIs
<1>2. /\ n \in Nat
      /\ 2 * (Parts * n) <= 2 * s + Parts /\ 2 * s < 2 * (Parts * n) + Parts
  BY NearestIs
<1> HIDE DEF n
<1>3. Parts * n < Parts * m + Parts /\ Parts * m < Parts * n + Parts
  <2>1. Parts * n \in Int /\ Parts * m \in Int
    BY <1>1, <1>2
  <2>2. QED
    BY <1>1, <1>2, <2>1
<1>4. \A a, b \in Int : Parts * a < Parts * b + Parts => a <= b
  <2>1. ASSUME NEW a \in Int, NEW b \in Int, ~(a <= b)
        PROVE  Parts * b + Parts <= Parts * a
    <3>1. PICK k \in Nat : a = b + 1 + k
      <4>1. a - b - 1 \in Nat /\ a = b + 1 + (a - b - 1)
        BY <2>1
      <4>2. QED
        BY <4>1
    <3>2. Parts * (b + 1 + k) = Parts * b + Parts + Parts * k /\ Parts * k \in Nat
      BY <1>1
    <3>3. Parts * b \in Int
      BY <1>1
    <3>4. QED
      BY <1>1, <3>1, <3>2, <3>3
  <2>2. ASSUME NEW a \in Int, NEW b \in Int PROVE Parts * a \in Int /\ Parts * b + Parts \in Int
    BY <1>1
  <2>3. QED
    BY <2>1, <2>2
<1>5. n <= m /\ m <= n
  BY <1>2, <1>3, <1>4
<1>6. QED
  BY <1>2, <1>5 DEF n

LEMMA TimeParts ==
  ASSUME NEW s \in Nat
  PROVE  /\ Sec(s) \in Nat /\ Nsec(s) \in Nat
         /\ s % Second \in Nat /\ s = Second * Sec(s) + (s % Second)
<1> DEFINE b == Second
<1>1. b \in Nat \ {0}
  BY SecondIs
<1> HIDE DEF b
<1>2. s \div b \in Nat /\ s % b \in Nat /\ s = b * (s \div b) + (s % b)
  BY <1>1, Z3
<1>3. s % Second \in Nat
  BY <1>2 DEF b
<1>4. Nearest(s % Second) \in Nat
  BY <1>3, NearestIs
<1>5. QED
  BY <1>2, <1>4 DEF Sec, Nsec, b

LEMMA ImuFits ==
  ASSUME NEW stamp \in Nat, NEW acc \in Seq(Int), Len(acc) = 3,
         NEW gyr \in Seq(Int), Len(gyr) = 3
  PROVE  /\ MessageFits(Scalar, Imu, ImuMessage(stamp, acc, gyr))
         /\ \A msg : msg.head = ImuMessage(stamp, acc, gyr).head =>
              ImuFrame(msg) = [kind |-> "imu",
                               stamp |-> TimeToSecs(Sec(stamp), Nsec(stamp)),
                               acc |-> acc, gyr |-> gyr]
<1> DEFINE V == Scalar
           S == Sec(stamp)
           N == Nsec(stamp)
           q == <<0, 0, 0, 1>>
           z == Zeros(9)
           t0 == Header  m0 == <<S, N, "imu">>
           t1 == t0 \o F64s(4)  m1 == m0 \o q
           t2 == t1 \o F64s(9)  m2 == m1 \o z
           t3 == t2 \o F64s(3)  m3 == m2 \o gyr
           t4 == t3 \o F64s(9)  m4 == m3 \o z
           t5 == t4 \o F64s(3)  m5 == m4 \o acc
           t6 == t5 \o F64s(9)  m6 == m5 \o z
           message == ImuMessage(stamp, acc, gyr)
<1>1. S \in Int /\ N \in Int
  <2>1. S \in Nat /\ N \in Nat
    BY TimeParts
  <2> HIDE DEF S, N
  <2>2. QED
    BY <2>1
<1>2. q \in Seq(Int) /\ Len(q) = 4 /\ z \in Seq(Int) /\ Len(z) = 9
  <2>1. q \in Seq(Int) /\ Len(q) = 4
    OBVIOUS
  <2>2. z \in Seq(Int) /\ Len(z) = 9
    BY ZerosAre
  <2>3. QED
    BY <2>1, <2>2
<1>3. Imu = [head |-> t6, each |-> <<>>, tail |-> <<>>]
  BY DEF Imu
<1>4. message = [head |-> m6, each |-> <<>>, tail |-> <<>>]
  BY DEF ImuMessage
<1>5. Len(m0) = 3 /\ m0[1] = S /\ m0[2] = N
  OBVIOUS
<1>6. Run(V, t0, m0)
  <2>1. "imu" \in DOMAIN TextLen /\ Scalar \subseteq V
    BY DEF TextLen
  <2> HIDE DEF V, S, N
  <2>2. QED
    BY <1>1, <2>1, HeaderRun
<1>7. /\ t1 = t0 \o F64s(4) /\ m1 = m0 \o q
      /\ t2 = t1 \o F64s(9) /\ m2 = m1 \o z
      /\ t3 = t2 \o F64s(3) /\ m3 = m2 \o gyr
      /\ t4 = t3 \o F64s(9) /\ m4 = m3 \o z
      /\ t5 = t4 \o F64s(3) /\ m5 = m4 \o acc
      /\ t6 = t5 \o F64s(9) /\ m6 = m5 \o z
      /\ Scalar \subseteq V
  OBVIOUS
<1> HIDE DEF V, S, N, q, z, t0, t1, t2, t3, t4, t5, t6,
             m0, m1, m2, m3, m4, m5, m6, message
<1>8. Longer(V, t0, m0, 4, q, t1, m1)
  BY <1>2, <1>6, <1>7, NumbersBehind
<1>9. Run(V, t1, m1) /\ Len(m1) = 7 /\ m1[1] = S /\ m1[2] = N
  BY <1>5, <1>8 DEF Longer
<1>10. Longer(V, t1, m1, 9, z, t2, m2)
  BY <1>2, <1>7, <1>9, NumbersBehind
<1>11. Run(V, t2, m2) /\ Len(m2) = 16 /\ m2[1] = S /\ m2[2] = N
  BY <1>9, <1>10 DEF Longer
<1>12. Longer(V, t2, m2, 3, gyr, t3, m3)
  BY <1>7, <1>11, NumbersBehind
<1>13. /\ Run(V, t3, m3) /\ Len(m3) = 19 /\ m3[1] = S /\ m3[2] = N
       /\ SubSeq(m3, 17, 19) = gyr
  BY <1>11, <1>12 DEF Longer
<1>14. Longer(V, t3, m3, 9, z, t4, m4)
  BY <1>2, <1>7, <1>13, NumbersBehind
<1>15. /\ Run(V, t4, m4) /\ Len(m4) = 28 /\ m4[1] = S /\ m4[2] = N
       /\ SubSeq(m4, 17, 19) = gyr
  BY <1>13, <1>14 DEF Longer
<1>16. Longer(V, t4, m4, 3, acc, t5, m5)
  BY <1>7, <1>15, NumbersBehind
<1>17. /\ Run(V, t5, m5) /\ Len(m5) = 31 /\ m5[1] = S /\ m5[2] = N
       /\ SubSeq(m5, 17, 19) = gyr /\ SubSeq(m5, 29, 31) = acc
  BY <1>15, <1>16 DEF Longer
<1>18. Longer(V, t5, m5, 9, z, t6, m6)
  BY <1>2, <1>7, <1>17, NumbersBehind
<1>19. /\ Run(V, t6, m6) /\ m6[1] = S /\ m6[2] = N
       /\ SubSeq(m6, 17, 19) = gyr /\ SubSeq(m6, 29, 31) = acc
  BY <1>17, <1>18 DEF Longer
<1>20. MessageFits(V, Imu, message)
  BY <1>3, <1>4, <1>19, RunIs, NothingFits DEF MessageFits
<1>21. ASSUME NEW msg, msg.head = message.head
       PROVE  ImuFrame(msg) = [kind |-> "imu", stamp |-> TimeToSecs(S, N),
                               acc |-> acc, gyr |-> gyr]
  BY <1>4, <1>19, <1>21 DEF ImuFrame
<1>22. QED
  BY <1>20, <1>21 DEF V, S, N, message

LEMMA PoseFits ==
  ASSUME NEW stamp \in Nat, NEW position \in Seq(Int), Len(position) = 3,
         NEW orientation \in Seq(Int), Len(orientation) = 4
  PROVE  /\ MessageFits(Scalar, PoseStamped, PoseMessage(stamp, position, orientation))
         /\ \A msg : msg.head = PoseMessage(stamp, position, orientation).head =>
              PoseOf(msg) = [kind |-> "pose",
                             stamp |-> TimeToSecs(Sec(stamp), Nsec(stamp)),
                             position |-> position, orientation |-> orientation]
<1> DEFINE V == Scalar
           S == Sec(stamp)
           N == Nsec(stamp)
           t0 == Header  m0 == <<S, N, "map">>
           t1 == t0 \o F64s(3)  m1 == m0 \o position
           t2 == t1 \o F64s(4)  m2 == m1 \o orientation
           message == PoseMessage(stamp, position, orientation)
<1>1. S \in Int /\ N \in Int
  <2>1. S \in Nat /\ N \in Nat
    BY TimeParts
  <2> HIDE DEF S, N
  <2>2. QED
    BY <2>1
<1>2. PoseStamped = [head |-> t2, each |-> <<>>, tail |-> <<>>]
  BY DEF PoseStamped
<1>3. message = [head |-> m2, each |-> <<>>, tail |-> <<>>]
  BY DEF PoseMessage
<1>4. Len(m0) = 3 /\ m0[1] = S /\ m0[2] = N
  OBVIOUS
<1>5. Run(V, t0, m0)
  <2>1. "map" \in DOMAIN TextLen /\ Scalar \subseteq V
    BY DEF TextLen
  <2> HIDE DEF V, S, N
  <2>2. QED
    BY <1>1, <2>1, HeaderRun
<1>6. /\ t1 = t0 \o F64s(3) /\ m1 = m0 \o position
      /\ t2 = t1 \o F64s(4) /\ m2 = m1 \o orientation
      /\ Scalar \subseteq V
  OBVIOUS
<1> HIDE DEF V, S, N, t0, t1, t2, m0, m1, m2, message
<1>7. Longer(V, t0, m0, 3, position, t1, m1)
  BY <1>5, <1>6, NumbersBehind
<1>8. /\ Run(V, t1, m1) /\ Len(m1) = 6 /\ m1[1] = S /\ m1[2] = N
      /\ SubSeq(m1, 4, 6) = position
  BY <1>4, <1>7 DEF Longer
<1>9. Longer(V, t1, m1, 4, orientation, t2, m2)
  BY <1>6, <1>8, NumbersBehind
<1>10. /\ Run(V, t2, m2) /\ m2[1] = S /\ m2[2] = N
       /\ SubSeq(m2, 4, 6) = position /\ SubSeq(m2, 7, 10) = orientation
  BY <1>8, <1>9 DEF Longer
<1>11. MessageFits(V, PoseStamped, message)
  BY <1>2, <1>3, <1>10, RunIs, NothingFits DEF MessageFits
<1>12. ASSUME NEW msg, msg.head = message.head
       PROVE  PoseOf(msg) = [kind |-> "pose", stamp |-> TimeToSecs(S, N),
                             position |-> position, orientation |-> orientation]
  BY <1>3, <1>10, <1>12 DEF PoseOf
<1>13. QED
  BY <1>11, <1>12 DEF V, S, N, message

LEMMA SceneFits ==
  ASSUME NEW channels \in Seq(Seq(DOMAIN TextLen)),
         \A i \in 1..Len(channels) : Len(channels[i]) = 3
  PROVE  MessageFits(Scalar, SceneMeta, SceneMessage(channels))
<1> DEFINE types == <<"str", "str", "str">>
           message == SceneMessage(channels)
<1>1. SceneMeta.head = <<"str">> /\ SceneMeta.each = types /\ SceneMeta.tail = <<>>
  BY DEF SceneMeta
<1>2. message.head = <<"map">> /\ message.each = channels /\ message.tail = <<>>
  BY DEF SceneMessage
<1>3. types # <<>> /\ Len(types) = 3 /\ \A i \in 1..3 : types[i] = "str"
  OBVIOUS
<1> HIDE DEF types, message
<1>4. \A v \in DOMAIN TextLen : v \in Scalar /\ Fits("str", v)
  BY DEF Fits, Scalar
<1>5. RunFits(Scalar, <<"str">>, <<"map">>)
  <2>1. "map" \in Scalar /\ Fits("str", "map")
    BY <1>4 DEF TextLen
  <2>2. PICK a, x : a = <<"str">> /\ x = <<"map">>
    OBVIOUS
  <2>3. /\ x \in Seq(Scalar) /\ Len(a) = 1 /\ Len(x) = 1
        /\ \A i \in 1..1 : a[i] = "str" /\ x[i] = "map"
    BY <2>1, <2>2
  <2>4. QED
    BY <2>1, <2>2, <2>3 DEF RunFits, FieldsFit
<1>6. GroupsFit(Scalar, types, channels)
  <2>1. ASSUME NEW i \in 1..Len(channels)
        PROVE  /\ channels[i] \in Seq(Scalar) /\ Len(channels[i]) = Len(types)
               /\ FieldsFit(types, channels[i])
    <3>1. /\ channels[i] \in Seq(DOMAIN TextLen) /\ Len(channels[i]) = 3
          /\ \A k \in 1..3 : channels[i][k] \in DOMAIN TextLen
      OBVIOUS
    <3>2. QED
      BY <1>3, <1>4, <3>1 DEF FieldsFit
  <2>2. channels \in Seq(Seq(Scalar))
    BY <2>1
  <2>3. QED
    BY <2>1, <2>2 DEF GroupsFit
<1>7. EachFits(Scalar, types, channels)
  BY <1>3, <1>6 DEF EachFits
<1>8. QED
  BY <1>1, <1>2, <1>5, <1>7, NothingFits DEF MessageFits, message

------------------------------------------------------------------------------
(* The bytes of the points *)

\* The values of a point lie one behind the other and fill its step.
Columns ==
  [name : DOMAIN TextLen, offset : Nat, datatype : Nat, width : Nat \ {0}]

Packed(columns, step) ==
  /\ columns \in Seq(Columns)
  /\ step \in Nat
  /\ \E at \in [0..Len(columns) -> Nat] :
       /\ at[0] = 0 /\ at[Len(columns)] = step
       /\ \A i \in 1..Len(columns) :
            columns[i].offset = at[i - 1] /\ at[i] = at[i - 1] + columns[i].width
  /\ \A i, j \in 1..Len(columns) : columns[i].name = columns[j].name => i = j

PointBytes(columns, point) ==
  FlattenSeq([i \in 1..Len(columns) |-> Bytes(point[i], columns[i].width)])

CloudBytes(columns, points) ==
  FlattenSeq([n \in 1..Len(points) |-> PointBytes(columns, points[n])])

\* The value of each column is where the column says.
Placed(columns, step, point, bytes) ==
  /\ bytes \in Seq(Byte) /\ Len(bytes) = step
  /\ \A i \in 1..Len(columns) :
       /\ columns[i].offset + columns[i].width <= step
       /\ \A k \in 1..columns[i].width :
            bytes[columns[i].offset + k] = <<point[i], k>>

LEMMA PackedIs ==
  ASSUME NEW columns, NEW step, Packed(columns, step)
  PROVE  /\ Len(columns) \in Nat /\ step \in Nat
         /\ \A i \in 1..Len(columns) :
              /\ columns[i].name \in DOMAIN TextLen
              /\ columns[i].offset \in Nat
              /\ columns[i].datatype \in Nat
              /\ columns[i].width \in Nat \ {0}
<1>1. columns \in Seq(Columns) /\ step \in Nat
  BY DEF Packed
<1>2. Len(columns) \in Nat /\ \A i \in 1..Len(columns) : columns[i] \in Columns
  BY <1>1
<1>3. \A c \in Columns : /\ c.name \in DOMAIN TextLen /\ c.offset \in Nat
                         /\ c.datatype \in Nat /\ c.width \in Nat \ {0}
  BY DEF Columns
<1>4. QED
  BY <1>1, <1>2, <1>3

LEMMA PointIsPlaced ==
  ASSUME NEW columns, NEW step, Packed(columns, step),
         NEW point \in Seq(Int), Len(point) = Len(columns)
  PROVE  Placed(columns, step, point, PointBytes(columns, point))
<1> DEFINE n == Len(columns)
           s == [i \in 1..n |-> Bytes(point[i], columns[i].width)]
           p == PointBytes(columns, point)
<1>1. /\ n \in Nat /\ step \in Nat
      /\ \A i \in 1..n : columns[i].offset \in Nat /\ columns[i].width \in Nat
  BY PackedIs
<1>2. PICK at \in [0..n -> Nat] :
        /\ at[0] = 0 /\ at[n] = step
        /\ \A i \in 1..n :
             columns[i].offset = at[i - 1] /\ at[i] = at[i - 1] + columns[i].width
  BY DEF Packed
<1>3. \A i \in 1..n : point[i] \in Scalar
  <2>1. \A i \in 1..n : point[i] \in Int
    OBVIOUS
  <2>2. QED
    BY <2>1 DEF Scalar
<1>4. \A i \in 1..n : /\ Bytes(point[i], columns[i].width) \in Seq(Byte)
                      /\ Len(Bytes(point[i], columns[i].width)) = columns[i].width
                      /\ \A k \in 1..columns[i].width :
                           Bytes(point[i], columns[i].width)[k] = <<point[i], k>>
  BY <1>1, <1>3, BytesAre
<1>5. p = FlattenSeq(s)
  BY DEF PointBytes
<1> HIDE DEF n, p
<1>6. s \in Seq(Seq(Byte)) /\ Len(s) = n
  BY <1>1, <1>4
<1>7. \A i \in 1..n : /\ Len(s[i]) = columns[i].width
                      /\ \A k \in 1..columns[i].width : s[i][k] = <<point[i], k>>
  BY <1>4
<1> HIDE DEF s
<1>8. PICK size : Sized(Byte, s, p, size)
  BY <1>5, <1>6, FlattenSizes
<1>9. /\ p \in Seq(Byte) /\ Len(p) = size[n]
      /\ size \in [0..n -> Nat] /\ size[0] = 0
      /\ \A i \in 1..n : size[i] = size[i - 1] + columns[i].width
      /\ \A i \in 1..n : size[i] <= size[n]
      /\ \A i \in 1..n : \A k \in 1..columns[i].width : p[size[i - 1] + k] = <<point[i], k>>
  <2>1. /\ p \in Seq(Byte) /\ Len(p) = size[n]
        /\ size \in [0..n -> Nat] /\ size[0] = 0
        /\ \A i \in 1..n : size[i] <= size[n]
    BY <1>6, <1>8 DEF Sized
  <2>2. \A i \in 1..n : size[i] = size[i - 1] + Len(s[i])
    BY <1>6, <1>8 DEF Sized
  <2>3. \A i \in 1..n : \A k \in 1..Len(s[i]) : p[size[i - 1] + k] = s[i][k]
    BY <1>6, <1>8 DEF Sized
  <2>4. \A i \in 1..n : size[i] = size[i - 1] + columns[i].width
    BY <1>7, <2>2
  <2>5. \A i \in 1..n : \A k \in 1..columns[i].width :
          p[size[i - 1] + k] = <<point[i], k>>
    BY <1>7, <2>3
  <2>6. QED
    BY <2>1, <2>4, <2>5
<1>10. \A i \in 0..n : at[i] = size[i]
  <2>1. Agree(at, size, n)
    BY <1>2, <1>9 DEF Agree
  <2>2. QED
    BY <1>1, <2>1, StepByStep
<1>11. Len(p) = step
  BY <1>1, <1>2, <1>9, <1>10
<1>12. ASSUME NEW i \in 1..n
       PROVE  /\ columns[i].offset + columns[i].width <= step
              /\ \A k \in 1..columns[i].width :
                   p[columns[i].offset + k] = <<point[i], k>>
  <2>1. i - 1 \in 0..n /\ i \in 0..n
    BY <1>1
  <2>2. columns[i].offset = size[i - 1]
    BY <1>2, <1>10, <2>1
  <2>3. columns[i].offset + columns[i].width = size[i]
    BY <1>9, <2>2
  <2>4. QED
    BY <1>9, <1>11, <2>2, <2>3
<1>13. QED
  BY <1>9, <1>11, <1>12 DEF Placed, n, p

LEMMA Multiples ==
  ASSUME NEW step \in Nat
  PROVE  /\ 0 * step = 0
         /\ \A n \in Nat : n * step \in Nat /\ step * n = n * step
         /\ \A n \in Nat \ {0} : (n - 1) * step \in Nat /\ n * step = (n - 1) * step + step
         /\ \A m, n \in Nat : m <= n => m * step <= n * step
  OBVIOUS

\* The values of point n are n - 1 steps behind their places in a point.
CloudPlaced(columns, step, points, bytes) ==
  /\ bytes \in Seq(Byte) /\ Len(bytes) = Len(points) * step
  /\ \A n \in 1..Len(points) : \A i \in 1..Len(columns) :
       \A k \in 1..columns[i].width :
         bytes[(n - 1) * step + columns[i].offset + k] = <<points[n][i], k>>

LEMMA CloudIsPlaced ==
  ASSUME NEW columns, NEW step, Packed(columns, step),
         NEW points \in Seq(Seq(Int)),
         \A n \in 1..Len(points) : Len(points[n]) = Len(columns)
  PROVE  CloudPlaced(columns, step, points, CloudBytes(columns, points))
<1> DEFINE l == Len(points)
           s == [n \in 1..l |-> PointBytes(columns, points[n])]
           c == CloudBytes(columns, points)
<1>1. l \in Nat /\ \A n \in 1..l : points[n] \in Seq(Int)
  OBVIOUS
<1>2. step \in Nat
  BY DEF Packed
<1>3. \A i \in 1..Len(columns) : columns[i].offset \in Nat /\ columns[i].width \in Nat
  BY PackedIs
<1>4. \A n \in 1..l : Placed(columns, step, points[n], PointBytes(columns, points[n]))
  BY <1>1, PointIsPlaced
<1>5. c = FlattenSeq(s)
  BY DEF CloudBytes
<1> HIDE DEF l, c
<1>6. s \in Seq(Seq(Byte)) /\ Len(s) = l
  BY <1>1, <1>4 DEF Placed
<1>7. \A n \in 1..l : Placed(columns, step, points[n], s[n]) /\ Len(s[n]) = step
  BY <1>4 DEF Placed
<1> HIDE DEF s
<1>8. PICK size : Sized(Byte, s, c, size)
  BY <1>5, <1>6, FlattenSizes
<1>9. /\ c \in Seq(Byte) /\ Len(c) = size[l]
      /\ size \in [0..l -> Nat] /\ size[0] = 0
      /\ \A n \in 1..l : size[n] = size[n - 1] + step
      /\ \A n \in 1..l : \A k \in 1..step : c[size[n - 1] + k] = s[n][k]
  BY <1>6, <1>7, <1>8 DEF Sized
<1>10. \A n \in 0..l : size[n] = n * step
  <2> DEFINE f == [n \in 0..l |-> n * step]
  <2>1. f[0] = 0 /\ \A n \in 0..l : f[n] = n * step
    BY <1>1, <1>2, Multiples
  <2> HIDE DEF f
  <2>2. \A n \in 1..l : f[n] = f[n - 1] + step
    <3>1. ASSUME NEW n \in 1..l PROVE f[n] = f[n - 1] + step
      <4>1. n \in 0..l /\ n - 1 \in 0..l /\ n \in Nat \ {0}
        BY <1>1
      <4>2. n * step = (n - 1) * step + step
        BY <1>2, <4>1, Multiples
      <4>3. QED
        BY <2>1, <4>1, <4>2
    <3>2. QED
      BY <3>1
  <2>3. Agree(size, f, l)
    BY <1>9, <2>1, <2>2 DEF Agree
  <2>4. QED
    BY <1>1, <2>1, <2>3, StepByStep
<1>11. Len(c) = l * step
  BY <1>1, <1>9, <1>10
<1>12. ASSUME NEW n \in 1..l, NEW i \in 1..Len(columns), NEW k \in 1..columns[i].width
       PROVE  c[(n - 1) * step + columns[i].offset + k] = <<points[n][i], k>>
  <2>1. columns[i].offset + k \in 1..step /\ s[n][columns[i].offset + k] = <<points[n][i], k>>
    <3>1. /\ columns[i].offset + columns[i].width <= step
          /\ \A m \in 1..columns[i].width :
               s[n][columns[i].offset + m] = <<points[n][i], m>>
      BY <1>7 DEF Placed
    <3>2. columns[i].offset \in Nat /\ columns[i].width \in Nat
      BY <1>3
    <3>3. s[n][columns[i].offset + k] = <<points[n][i], k>>
      BY <3>1
    <3>4. \A o, w \in Nat : o + w <= step /\ k \in 1..w => o + k \in 1..step
      BY <1>2
    <3>5. QED
      BY <3>1, <3>2, <3>3, <3>4
  <2>2. size[n - 1] = (n - 1) * step /\ size[n - 1] \in Nat
    BY <1>1, <1>9, <1>10
  <2>3. c[size[n - 1] + (columns[i].offset + k)] = <<points[n][i], k>>
    BY <1>9, <2>1
  <2>4. size[n - 1] + (columns[i].offset + k) = size[n - 1] + columns[i].offset + k
    BY <1>3, <2>2
  <2>5. QED
    BY <2>2, <2>3, <2>4
<1>13. QED
  BY <1>9, <1>11, <1>12 DEF CloudPlaced, l, c

LEMMA TakePlaced ==
  ASSUME NEW buf \in Seq(Byte), NEW pos \in Nat, NEW w \in Nat \ {0}, NEW v \in Int,
         pos + w <= Len(buf), \A k \in 1..w : buf[pos + k] = <<v, k>>
  PROVE  CanTake(buf, pos, w) /\ ValueOf(Taken(buf, pos, w)) = v
<1>1. v \in Scalar
  BY DEF Scalar
<1>2. Bytes(v, w) \in Seq(Byte) /\ Len(Bytes(v, w)) = w
      /\ \A k \in 1..w : Bytes(v, w)[k] = <<v, k>>
  BY <1>1, BytesAre
<1>3. Holds(buf, pos, Bytes(v, w))
  BY <1>2 DEF Holds
<1>4. Taken(buf, pos, w) = Bytes(v, w)
  BY <1>2, <1>3, TakeHeld
<1>5. QED
  BY <1>1, <1>4, ValueOfBytes DEF CanTake

\* Every value is read from where it was put.
ReadAt(columns, step, points, c, n, i) ==
  /\ CanTake(c, (n - 1) * step + columns[i].offset, columns[i].width)
  /\ ValueOf(Taken(c, (n - 1) * step + columns[i].offset, columns[i].width))
       = points[n][i]

LEMMA CloudReads ==
  ASSUME NEW columns, NEW step, Packed(columns, step),
         NEW points \in Seq(Seq(Int)),
         \A n \in 1..Len(points) : Len(points[n]) = Len(columns),
         NEW c, c = CloudBytes(columns, points),
         NEW n \in 1..Len(points), NEW i \in 1..Len(columns)
  PROVE  ReadAt(columns, step, points, c, n, i)
<1> DEFINE o == columns[i].offset
           w == columns[i].width
           p == (n - 1) * step
           v == points[n][i]
<1>1. /\ c \in Seq(Byte) /\ Len(c) = Len(points) * step
      /\ \A k \in 1..w : c[p + o + k] = <<v, k>>
  <2>1. CloudPlaced(columns, step, points, c)
    BY CloudIsPlaced
  <2>2. QED
    BY <2>1 DEF CloudPlaced
<1>2. o \in Nat /\ w \in Nat \ {0} /\ step \in Nat
  BY PackedIs
<1>3. points[n] \in Seq(Int) /\ Len(points[n]) = Len(columns) /\ v \in Int
  <2>1. points[n] \in Seq(Int) /\ Len(points[n]) = Len(columns)
    OBVIOUS
  <2>2. QED
    BY <2>1
<1>4. o + w <= step
  BY <1>3, PointIsPlaced DEF Placed
<1>5. Len(points) \in Nat /\ n \in Nat \ {0} /\ n <= Len(points)
  OBVIOUS
<1>6. p \in Nat /\ n * step = p + step /\ n * step <= Len(points) * step
  BY <1>2, <1>5, Multiples
<1>7. Len(points) * step \in Nat /\ n * step \in Nat
  BY <1>2, <1>5, Multiples
<1> DEFINE total == Len(points) * step
           upto == n * step
<1> HIDE DEF o, w, p, v, total, upto
<1>8. p + o \in Nat /\ p + o + w <= total
  <2>1. p \in Nat /\ upto = p + step /\ upto <= total /\ total \in Nat /\ upto \in Nat
    BY <1>6, <1>7 DEF total, upto
  <2>2. QED
    BY <1>2, <1>4, <2>1
<1>9. CanTake(c, p + o, w) /\ ValueOf(Taken(c, p + o, w)) = v
  <2>1. Len(c) = total
    BY <1>1 DEF total
  <2>2. QED
    BY <1>1, <1>2, <1>3, <1>8, <2>1, TakePlaced
<1>10. QED
  BY <1>9 DEF ReadAt, o, w, p, v

------------------------------------------------------------------------------
(* A cloud is read as it was written *)

\* Field i is the only one with the name.
Named(each, name, i) ==
  /\ Len(each) \in Nat /\ i \in 1..Len(each)
  /\ \A j \in 1..Len(each) : each[j][1] = name <=> j = i

LEMMA FieldFound ==
  ASSUME NEW cloud, NEW name, NEW i, Named(cloud.each, name, i)
  PROVE  FieldIndex(cloud, name) = i /\ HasField(cloud, name)
<1> DEFINE I == {j \in 1..Len(cloud.each) : cloud.each[j][1] = name}
<1>1. I = {i} /\ i \in Int
  BY DEF Named
<1>2. FieldIndex(cloud, name) = IF I # {} THEN Min(I) ELSE 0
  BY DEF FieldIndex, SelectInSeq
<1>3. Min({i}) = i
  BY <1>1 DEF Min
<1>4. FieldIndex(cloud, name) = i
  <2> HIDE DEF I
  <2>1. I # {}
    BY <1>1
  <2>2. QED
    BY <1>1, <1>2, <1>3, <2>1
<1>5. i # 0
  BY DEF Named
<1>6. QED
  BY <1>4, <1>5 DEF HasField

LEMMA FieldMissing ==
  ASSUME NEW cloud, NEW n \in Nat, Len(cloud.each) = n, NEW name,
         \A j \in 1..n : cloud.each[j][1] # name
  PROVE  ~HasField(cloud, name)
<1> DEFINE I == {j \in 1..Len(cloud.each) : cloud.each[j][1] = name}
<1>1. I = {}
  OBVIOUS
<1>2. FieldIndex(cloud, name) = IF I # {} THEN Min(I) ELSE 0
  BY DEF FieldIndex, SelectInSeq
<1>3. QED
  BY <1>1, <1>2 DEF HasField

\* The fields of a cloud are its columns.
Described(columns, each) ==
  /\ Len(each) = Len(columns)
  /\ \A i \in 1..Len(columns) :
       each[i][1] = columns[i].name /\ each[i][2] = columns[i].offset

LEMMA ColumnsFound ==
  ASSUME NEW columns, NEW step, Packed(columns, step),
         NEW cloud, Described(columns, cloud.each), NEW i \in 1..Len(columns)
  PROVE  FieldIndex(cloud, columns[i].name) = i /\ HasField(cloud, columns[i].name)
<1>1. Len(columns) \in Nat
  BY PackedIs
<1>2. \A j \in 1..Len(columns) : cloud.each[j][1] = columns[i].name <=> j = i
  BY DEF Described, Packed
<1>3. Named(cloud.each, columns[i].name, i)
  BY <1>1, <1>2 DEF Described, Named
<1>4. QED
  BY <1>3, FieldFound

\* A decoded cloud with these columns and points.
Carries(columns, step, points, stamp, cloud) ==
  /\ cloud.head[1] = Sec(stamp) /\ cloud.head[2] = Nsec(stamp)
  /\ cloud.head[4] = 1 /\ cloud.head[5] = Len(points)
  /\ Described(columns, cloud.each)
  /\ cloud.tail[2] = step
  /\ cloud.tail[4] = CloudBytes(columns, points)

LEMMA CloudReturns ==
  ASSUME NEW columns, NEW step, Packed(columns, step),
         NEW points \in Seq(Seq(Int)),
         \A n \in 1..Len(points) : Len(points[n]) = Len(columns),
         NEW stamp, NEW cloud, Carries(columns, step, points, stamp, cloud), NEW kind
  PROVE  LidarFrame(kind, columns, cloud) =
           [kind |-> kind, stamp |-> TimeToSecs(Sec(stamp), Nsec(stamp)),
            points |-> points]
<1> DEFINE l == Len(points)
           k == Len(columns)
           c == CloudBytes(columns, points)
<1>1. l \in Nat /\ k \in Nat
  BY PackedIs
<1>2. cloud.head[5] * cloud.head[4] = l
  <2>1. cloud.head[5] = l /\ cloud.head[4] = 1
    BY DEF Carries
  <2> HIDE DEF l
  <2>2. l * 1 = l
    BY <1>1
  <2>3. QED
    BY <2>1, <2>2
<1>3. cloud.tail[2] = step /\ cloud.tail[4] = c
  BY DEF Carries
<1>4. \A i \in 1..k : /\ HasField(cloud, columns[i].name)
                      /\ FieldIndex(cloud, columns[i].name) = i
                      /\ cloud.each[FieldIndex(cloud, columns[i].name)][2] = columns[i].offset
  BY ColumnsFound DEF Carries, Described
<1>5. \A n \in 1..l : \A i \in 1..k :
        /\ CanTake(c, (n - 1) * step + columns[i].offset, columns[i].width)
        /\ ValueOf(Taken(c, (n - 1) * step + columns[i].offset, columns[i].width))
             = points[n][i]
  <2>1. \A n \in 1..l : \A i \in 1..k : ReadAt(columns, step, points, c, n, i)
    BY CloudReads
  <2>2. QED
    BY <2>1 DEF ReadAt
<1> HIDE DEF l, k, c
<1>6. Readable(columns, cloud)
  <2>1. \A i \in 1..Len(columns), n \in 1..cloud.head[5] * cloud.head[4] :
          CanTake(cloud.tail[4],
                  (n - 1) * cloud.tail[2]
                    + cloud.each[FieldIndex(cloud, columns[i].name)][2],
                  columns[i].width)
    BY <1>2, <1>3, <1>4, <1>5 DEF k
  <2>2. QED
    BY <1>4, <2>1 DEF Readable, k
<1>7. PointsOf(columns, cloud) = points
  <2> DEFINE value(n, i) ==
        ValueOf(Taken(cloud.tail[4],
                      (n - 1) * cloud.tail[2]
                        + cloud.each[FieldIndex(cloud, columns[i].name)][2],
                      columns[i].width))
  <2>1. PointsOf(columns, cloud) =
          [n \in 1..cloud.head[5] * cloud.head[4] |->
             [i \in 1..Len(columns) |-> value(n, i)]]
    BY DEF PointsOf
  <2>2. \A n \in 1..l : \A i \in 1..k : value(n, i) = points[n][i]
    BY <1>3, <1>4, <1>5
  <2> HIDE DEF value
  <2>3. \A n \in 1..l : [i \in 1..k |-> value(n, i)] = points[n]
    <3>1. ASSUME NEW n \in 1..l PROVE [i \in 1..k |-> value(n, i)] = points[n]
      <4>1. points[n] \in Seq(Int) /\ Len(points[n]) = k
        BY DEF l, k
      <4>2. points[n] = [i \in 1..k |-> points[n][i]]
        BY <1>1, <4>1
      <4>3. QED
        BY <2>2, <4>2
    <3>2. QED
      BY <3>1
  <2>4. points = [n \in 1..l |-> points[n]]
    BY DEF l
  <2>5. PointsOf(columns, cloud) = [n \in 1..l |-> [i \in 1..k |-> value(n, i)]]
    BY <1>2, <2>1 DEF k
  <2>6. QED
    BY <2>3, <2>4, <2>5
<1>8. cloud.head[1] = Sec(stamp) /\ cloud.head[2] = Nsec(stamp)
  BY DEF Carries
<1>9. QED
  BY <1>6, <1>7, <1>8 DEF LidarFrame

CloudValue == Scalar \cup Seq(Byte)

\* The values of a cloud's message are those of its fields.
LEMMA CloudFits ==
  ASSUME NEW columns, NEW step, Packed(columns, step),
         NEW points \in Seq(Seq(Int)),
         \A n \in 1..Len(points) : Len(points[n]) = Len(columns),
         NEW stamp \in Nat
  PROVE  /\ MessageFits(CloudValue, PointCloud, CloudOf(columns, step, points, stamp))
         /\ \A cloud :
              /\ cloud.head = CloudOf(columns, step, points, stamp).head
              /\ cloud.each = CloudOf(columns, step, points, stamp).each
              /\ cloud.tail = CloudOf(columns, step, points, stamp).tail
              => Carries(columns, step, points, stamp, cloud)
<1> DEFINE V == CloudValue
           S == Sec(stamp)
           N == Nsec(stamp)
           l == Len(points)
           k == Len(columns)
           c == CloudBytes(columns, points)
           area == step * l
           message == CloudOf(columns, step, points, stamp)
           group(i) == <<columns[i].name, columns[i].offset, columns[i].datatype, 1>>
           ht == Header \o <<"u32", "u32">>
           et == <<"str", "u32", "u8", "u32">>
           tt == <<"u8", "u32", "u32", "bytes", "u8">>
           hv == <<S, N, "lidar", 1, l>>
           ev == [i \in 1..k |-> group(i)]
           tv == <<0, step, area, c, 1>>
<1>1. PointCloud = [head |-> ht, each |-> et, tail |-> tt]
  BY DEF PointCloud
<1>2. message = [head |-> hv, each |-> ev, tail |-> tv]
  BY DEF CloudOf, CloudBytes, PointBytes
<1>3. S \in Nat /\ N \in Nat
  BY TimeParts
<1>4. l \in Nat /\ k \in Nat /\ step \in Nat
  BY PackedIs
<1>5. c \in Seq(Byte)
  BY CloudIsPlaced DEF CloudPlaced
<1>6. area \in Nat
  BY <1>4, Multiples
<1>7. \A i \in 1..k : /\ columns[i].name \in DOMAIN TextLen
                      /\ columns[i].offset \in Nat /\ columns[i].datatype \in Nat
  BY PackedIs
<1>8. /\ \A n \in Int : n \in V /\ Fits("u8", n) /\ Fits("u32", n) /\ Fits("i64", n)
      /\ \A n \in DOMAIN TextLen : n \in V /\ Fits("str", n)
      /\ \A n \in Seq(Byte) : n \in V /\ Fits("bytes", n)
  BY DEF Fits, Width, Scalar, CloudValue
<1>9. /\ hv[1] = S /\ hv[2] = N /\ hv[3] = "lidar" /\ hv[4] = 1 /\ hv[5] = l
      /\ tv[1] = 0 /\ tv[2] = step /\ tv[3] = area /\ tv[4] = c /\ tv[5] = 1
      /\ Len(hv) = 5 /\ Len(tv) = 5
  OBVIOUS
<1>10. /\ Len(ev) = k
       /\ \A i \in 1..k : ev[i] = group(i)
  BY <1>4
<1>11. \A i \in 1..k : /\ group(i)[1] = columns[i].name /\ group(i)[2] = columns[i].offset
                       /\ group(i)[3] = columns[i].datatype /\ group(i)[4] = 1
                       /\ Len(group(i)) = 4
  OBVIOUS
<1>12. /\ et # <<>> /\ Len(et) = 4
       /\ et[1] = "str" /\ et[2] = "u32" /\ et[3] = "u8" /\ et[4] = "u32"
  OBVIOUS
<1>13. /\ Len(tt) = 5
       /\ tt[1] = "u8" /\ tt[2] = "u32" /\ tt[3] = "u32" /\ tt[4] = "bytes" /\ tt[5] = "u8"
  OBVIOUS
<1>14. /\ Len(ht) = 5
       /\ ht[1] = "i64" /\ ht[2] = "u32" /\ ht[3] = "str" /\ ht[4] = "u32" /\ ht[5] = "u32"
  BY DEF Header
<1>15. "lidar" \in DOMAIN TextLen
  BY DEF TextLen
<1>16. /\ hv \in Seq(V) /\ tv \in Seq(V)
       /\ \A i \in 1..k : group(i) \in Seq(V)
  <2>1. S \in V /\ N \in V /\ "lidar" \in V /\ 1 \in V /\ l \in V
    BY <1>3, <1>4, <1>8, <1>15
  <2>2. 0 \in V /\ step \in V /\ area \in V /\ c \in V
    BY <1>4, <1>5, <1>6, <1>8
  <2>3. \A i \in 1..k : /\ columns[i].name \in V /\ columns[i].offset \in V
                        /\ columns[i].datatype \in V
    BY <1>7, <1>8
  <2> HIDE DEF V, S, N, l, c, area
  <2>4. hv \in Seq(V)
    BY <2>1
  <2>5. tv \in Seq(V)
    BY <2>1, <2>2
  <2>6. \A i \in 1..k : group(i) \in Seq(V)
    BY <2>1, <2>3
  <2>7. QED
    BY <2>4, <2>5, <2>6
<1> HIDE DEF V, S, N, l, k, c, area, message, group, ht, et, tt, hv, ev, tv
<1>17. RunFits(V, ht, hv)
  <2>1. \A i \in 1..5 : i = 1 \/ i = 2 \/ i = 3 \/ i = 4 \/ i = 5
    OBVIOUS
  <2>2. /\ Fits(ht[1], hv[1]) /\ Fits(ht[2], hv[2]) /\ Fits(ht[3], hv[3])
        /\ Fits(ht[4], hv[4]) /\ Fits(ht[5], hv[5])
    BY <1>3, <1>4, <1>8, <1>9, <1>14, <1>15
  <2>3. \A i \in 1..5 : Fits(ht[i], hv[i])
    BY <2>1, <2>2
  <2>4. QED
    BY <1>9, <1>14, <1>16, <2>3 DEF RunFits, FieldsFit
<1>18. RunFits(V, tt, tv)
  <2>1. \A i \in 1..5 : i = 1 \/ i = 2 \/ i = 3 \/ i = 4 \/ i = 5
    OBVIOUS
  <2>2. /\ Fits(tt[1], tv[1]) /\ Fits(tt[2], tv[2]) /\ Fits(tt[3], tv[3])
        /\ Fits(tt[4], tv[4]) /\ Fits(tt[5], tv[5])
    BY <1>4, <1>5, <1>6, <1>8, <1>9, <1>13
  <2>3. \A i \in 1..5 : Fits(tt[i], tv[i])
    BY <2>1, <2>2
  <2>4. QED
    BY <1>9, <1>13, <1>16, <2>3 DEF RunFits, FieldsFit
<1>19. EachFits(V, et, ev)
  <2>1. \A i \in 1..k : Len(ev[i]) = Len(et) /\ FieldsFit(et, ev[i])
    <3>1. ASSUME NEW i \in 1..k PROVE Len(ev[i]) = Len(et) /\ FieldsFit(et, ev[i])
      <4>1. ev[i] = group(i) /\ Len(ev[i]) = 4
        BY <1>10, <1>11
      <4>2. \A j \in 1..4 : j = 1 \/ j = 2 \/ j = 3 \/ j = 4
        OBVIOUS
      <4>3. /\ Fits(et[1], ev[i][1]) /\ Fits(et[2], ev[i][2])
            /\ Fits(et[3], ev[i][3]) /\ Fits(et[4], ev[i][4])
        BY <1>7, <1>8, <1>11, <1>12, <4>1
      <4>4. \A j \in 1..4 : Fits(et[j], ev[i][j])
        BY <4>2, <4>3
      <4>5. QED
        BY <1>12, <4>1, <4>4 DEF FieldsFit
    <3>2. QED
      BY <3>1
  <2>2. ev \in Seq(Seq(V))
    BY <1>4, <1>16 DEF ev
  <2>3. QED
    BY <1>10, <1>12, <2>1, <2>2 DEF EachFits, GroupsFit
<1>20. MessageFits(V, PointCloud, message)
  BY <1>1, <1>2, <1>17, <1>18, <1>19 DEF MessageFits
<1>21. ASSUME NEW cloud, cloud.head = message.head, cloud.each = message.each,
              cloud.tail = message.tail
       PROVE  Carries(columns, step, points, stamp, cloud)
  <2>1. cloud.head = hv /\ cloud.each = ev /\ cloud.tail = tv
    BY <1>2, <1>21
  <2>2. Described(columns, cloud.each)
    BY <1>10, <1>11, <2>1 DEF Described, k
  <2>3. QED
    BY <1>9, <2>1, <2>2 DEF Carries, S, N, l, c
<1>22. QED
  BY <1>20, <1>21 DEF V, message

LEMMA StdPacked ==
  /\ Packed(StdColumns, StdPointStep)
  /\ \A i \in 1..Len(StdColumns) : StdColumns[i].name # "offset_time"
<1> DEFINE C == StdColumns
           at == [i \in 0..6 |-> IF i = 6 THEN 22 ELSE 4 * i]
<1>1. /\ Len(C) = 6
      /\ C[1] = Column("x", 0, 7, 4) /\ C[2] = Column("y", 4, 7, 4)
      /\ C[3] = Column("z", 8, 7, 4) /\ C[4] = Column("intensity", 12, 7, 4)
      /\ C[5] = Column("time", 16, 7, 4) /\ C[6] = Column("ring", 20, 4, 2)
  BY DEF StdColumns
<1>2. C \in Seq(Columns)
  <2>1. \A n \in DOMAIN TextLen : \A o, d \in Nat : \A w \in Nat \ {0} :
          Column(n, o, d, w) \in Columns
    BY DEF Column, Columns
  <2>2. /\ "x" \in DOMAIN TextLen /\ "y" \in DOMAIN TextLen /\ "z" \in DOMAIN TextLen
        /\ "intensity" \in DOMAIN TextLen /\ "time" \in DOMAIN TextLen
        /\ "ring" \in DOMAIN TextLen
    BY DEF TextLen
  <2>3. /\ Column("x", 0, 7, 4) \in Columns /\ Column("y", 4, 7, 4) \in Columns
        /\ Column("z", 8, 7, 4) \in Columns /\ Column("intensity", 12, 7, 4) \in Columns
        /\ Column("time", 16, 7, 4) \in Columns /\ Column("ring", 20, 4, 2) \in Columns
    BY <2>1, <2>2
  <2>4. QED
    BY <2>3 DEF StdColumns
<1>3. /\ C[1].name = "x" /\ C[2].name = "y" /\ C[3].name = "z"
      /\ C[4].name = "intensity" /\ C[5].name = "time" /\ C[6].name = "ring"
  BY <1>1 DEF Column
<1>4. /\ C[1].offset = 0 /\ C[2].offset = 4 /\ C[3].offset = 8
      /\ C[4].offset = 12 /\ C[5].offset = 16 /\ C[6].offset = 20
  BY <1>1 DEF Column
<1>5. /\ C[1].width = 4 /\ C[2].width = 4 /\ C[3].width = 4
      /\ C[4].width = 4 /\ C[5].width = 4 /\ C[6].width = 2
  BY <1>1 DEF Column
<1>6. \A i \in 1..6 : i = 1 \/ i = 2 \/ i = 3 \/ i = 4 \/ i = 5 \/ i = 6
  OBVIOUS
<1>7. /\ at \in [0..6 -> Nat]
      /\ at[0] = 0 /\ at[1] = 4 /\ at[2] = 8 /\ at[3] = 12 /\ at[4] = 16
      /\ at[5] = 20 /\ at[6] = 22
  OBVIOUS
<1> HIDE DEF C, at
<1>8. \A i \in 1..6 : C[i].offset = at[i - 1] /\ at[i] = at[i - 1] + C[i].width
  <2>1. ASSUME NEW i \in 1..6
        PROVE  C[i].offset = at[i - 1] /\ at[i] = at[i - 1] + C[i].width
    BY <1>4, <1>5, <1>6, <1>7
  <2>2. QED
    BY <2>1
<1>9. \A i, j \in 1..6 : C[i].name = C[j].name => i = j
  BY <1>3, <1>6
<1>10. StdPointStep = 22
  BY DEF StdPointStep
<1>11. /\ at \in [0..Len(C) -> Nat] /\ at[0] = 0 /\ at[Len(C)] = 22
       /\ \A i \in 1..Len(C) :
            C[i].offset = at[i - 1] /\ at[i] = at[i - 1] + C[i].width
       /\ \A i, j \in 1..Len(C) : C[i].name = C[j].name => i = j
  BY <1>1, <1>7, <1>8, <1>9
<1>12. Packed(C, 22)
  <2>1. \E a \in [0..Len(C) -> Nat] :
          /\ a[0] = 0 /\ a[Len(C)] = 22
          /\ \A i \in 1..Len(C) :
               C[i].offset = a[i - 1] /\ a[i] = a[i - 1] + C[i].width
    BY <1>11, Zenon
  <2>2. 22 \in Nat
    OBVIOUS
  <2>3. QED
    BY <1>2, <1>11, <2>1, <2>2, Zenon DEF Packed
<1>13. \A i \in 1..6 : C[i].name # "offset_time"
  BY <1>3, <1>6
<1>14. QED
  BY <1>1, <1>10, <1>12, <1>13 DEF C

LEMMA AviaPacked ==
  /\ Packed(AviaColumns, AviaPointStep)
  /\ 7 \in 1..Len(AviaColumns) /\ AviaColumns[7].name = "offset_time"
<1> DEFINE C == AviaColumns
           at == [i \in 0..7 |-> CASE i = 4 -> 13 [] i = 5 -> 15 [] i = 6 -> 16
                                   [] i = 7 -> 20 [] OTHER -> 4 * i]
<1>1. /\ Len(C) = 7
      /\ C[1] = Column("x", 0, 7, 4) /\ C[2] = Column("y", 4, 7, 4)
      /\ C[3] = Column("z", 8, 7, 4) /\ C[4] = Column("reflectivity", 12, 2, 1)
      /\ C[5] = Column("tag", 13, 4, 2) /\ C[6] = Column("line", 15, 2, 1)
      /\ C[7] = Column("offset_time", 16, 6, 4)
  BY DEF AviaColumns
<1>2. C \in Seq(Columns)
  <2>1. \A n \in DOMAIN TextLen : \A o, d \in Nat : \A w \in Nat \ {0} :
          Column(n, o, d, w) \in Columns
    BY DEF Column, Columns
  <2>2. /\ "x" \in DOMAIN TextLen /\ "y" \in DOMAIN TextLen /\ "z" \in DOMAIN TextLen
        /\ "reflectivity" \in DOMAIN TextLen /\ "tag" \in DOMAIN TextLen
        /\ "line" \in DOMAIN TextLen /\ "offset_time" \in DOMAIN TextLen
    BY DEF TextLen
  <2>3. /\ Column("x", 0, 7, 4) \in Columns /\ Column("y", 4, 7, 4) \in Columns
        /\ Column("z", 8, 7, 4) \in Columns /\ Column("reflectivity", 12, 2, 1) \in Columns
        /\ Column("tag", 13, 4, 2) \in Columns /\ Column("line", 15, 2, 1) \in Columns
        /\ Column("offset_time", 16, 6, 4) \in Columns
    BY <2>1, <2>2
  <2>4. QED
    BY <2>3 DEF AviaColumns
<1>3. /\ C[1].name = "x" /\ C[2].name = "y" /\ C[3].name = "z"
      /\ C[4].name = "reflectivity" /\ C[5].name = "tag" /\ C[6].name = "line"
      /\ C[7].name = "offset_time"
  BY <1>1 DEF Column
<1>4. /\ C[1].offset = 0 /\ C[2].offset = 4 /\ C[3].offset = 8 /\ C[4].offset = 12
      /\ C[5].offset = 13 /\ C[6].offset = 15 /\ C[7].offset = 16
  BY <1>1 DEF Column
<1>5. /\ C[1].width = 4 /\ C[2].width = 4 /\ C[3].width = 4 /\ C[4].width = 1
      /\ C[5].width = 2 /\ C[6].width = 1 /\ C[7].width = 4
  BY <1>1 DEF Column
<1>6. \A i \in 1..7 : i = 1 \/ i = 2 \/ i = 3 \/ i = 4 \/ i = 5 \/ i = 6 \/ i = 7
  OBVIOUS
<1>7. /\ at \in [0..7 -> Nat]
      /\ at[0] = 0 /\ at[1] = 4 /\ at[2] = 8 /\ at[3] = 12 /\ at[4] = 13
      /\ at[5] = 15 /\ at[6] = 16 /\ at[7] = 20
  OBVIOUS
<1> HIDE DEF C, at
<1>8. \A i \in 1..7 : C[i].offset = at[i - 1] /\ at[i] = at[i - 1] + C[i].width
  <2>1. ASSUME NEW i \in 1..7
        PROVE  C[i].offset = at[i - 1] /\ at[i] = at[i - 1] + C[i].width
    BY <1>4, <1>5, <1>6, <1>7
  <2>2. QED
    BY <2>1
<1>9. \A i, j \in 1..7 : C[i].name = C[j].name => i = j
  BY <1>3, <1>6
<1>10. AviaPointStep = 20
  BY DEF AviaPointStep
<1>11. /\ at \in [0..Len(C) -> Nat] /\ at[0] = 0 /\ at[Len(C)] = 20
       /\ \A i \in 1..Len(C) :
            C[i].offset = at[i - 1] /\ at[i] = at[i - 1] + C[i].width
       /\ \A i, j \in 1..Len(C) : C[i].name = C[j].name => i = j
  BY <1>1, <1>7, <1>8, <1>9
<1>12. Packed(C, 20)
  <2>1. \E a \in [0..Len(C) -> Nat] :
          /\ a[0] = 0 /\ a[Len(C)] = 20
          /\ \A i \in 1..Len(C) :
               C[i].offset = a[i - 1] /\ a[i] = a[i - 1] + C[i].width
    BY <1>11, Zenon
  <2>2. 20 \in Nat
    OBVIOUS
  <2>3. QED
    BY <1>2, <1>11, <2>1, <2>2, Zenon DEF Packed
<1>13. QED
  BY <1>1, <1>3, <1>10, <1>12 DEF C

\* A cloud of either kind comes back as one of its kind.
LEMMA StandardReturns ==
  ASSUME NEW points \in Seq(Seq(Int)),
         \A n \in 1..Len(points) : Len(points[n]) = Len(StdColumns),
         NEW stamp, NEW cloud,
         Carries(StdColumns, StdPointStep, points, stamp, cloud)
  PROVE  SensorFromCloud(cloud) =
           [kind |-> "standard", stamp |-> TimeToSecs(Sec(stamp), Nsec(stamp)),
            points |-> points]
<1>1. Packed(StdColumns, StdPointStep)
      /\ \A i \in 1..Len(StdColumns) : StdColumns[i].name # "offset_time"
  BY StdPacked
<1>2. Len(StdColumns) \in Nat
  BY <1>1, PackedIs
<1>3. /\ Len(cloud.each) = Len(StdColumns)
      /\ \A j \in 1..Len(StdColumns) : cloud.each[j][1] # "offset_time"
  BY <1>1 DEF Carries, Described
<1>4. ~HasField(cloud, "offset_time")
  BY <1>2, <1>3, FieldMissing
<1>5. SensorFromCloud(cloud) = LidarFrame("standard", StdColumns, cloud)
  BY <1>4 DEF SensorFromCloud
<1>6. QED
  BY <1>1, <1>5, CloudReturns

LEMMA AviaReturns ==
  ASSUME NEW points \in Seq(Seq(Int)),
         \A n \in 1..Len(points) : Len(points[n]) = Len(AviaColumns),
         NEW stamp, NEW cloud,
         Carries(AviaColumns, AviaPointStep, points, stamp, cloud)
  PROVE  SensorFromCloud(cloud) =
           [kind |-> "avia", stamp |-> TimeToSecs(Sec(stamp), Nsec(stamp)),
            points |-> points]
<1>1. /\ Packed(AviaColumns, AviaPointStep)
      /\ 7 \in 1..Len(AviaColumns) /\ AviaColumns[7].name = "offset_time"
  BY AviaPacked
<1>2. Described(AviaColumns, cloud.each)
  BY DEF Carries
<1>3. HasField(cloud, AviaColumns[7].name)
  BY <1>1, <1>2, ColumnsFound
<1>4. SensorFromCloud(cloud) = LidarFrame("avia", AviaColumns, cloud)
  BY <1>1, <1>3 DEF SensorFromCloud
<1>5. QED
  BY <1>1, <1>4, CloudReturns, SMTT(30)

------------------------------------------------------------------------------
(* Time *)

\* Rounding the rest of the second is rounding the time as a whole, also where
\* the rest is rounded up to a second (sec_nsec, time_to_secs).
LEMMA TimeIsRounded ==
  ASSUME NEW s \in Nat
  PROVE  TimeToSecs(Sec(s), Nsec(s)) = Parts * Nearest(s)
<1> DEFINE q == Sec(s)
           r == s % Second
           k == Nearest(r)
           w == q * Nanos
<1>1. Parts \in Nat \ {0} /\ Nanos \in Nat \ {0}
  BY SecondIs
<1>2. q \in Nat /\ r \in Nat /\ s = Second * q + r /\ Nsec(s) = k
  BY TimeParts DEF Nsec
<1>3. /\ k \in Nat
      /\ 2 * (Parts * k) <= 2 * r + Parts /\ 2 * r < 2 * (Parts * k) + Parts
  BY <1>2, NearestIs
<1> HIDE DEF q, r, k
<1>4. w \in Nat /\ Second * q = Parts * w
  <2>1. w \in Nat
    BY <1>1, <1>2
  <2>2. (Nanos * Parts) * q = Parts * (q * Nanos)
    BY <1>1, <1>2
  <2>3. QED
    BY <2>1, <2>2 DEF Second
<1> HIDE DEF w
<1>5. Parts * (w + k) = Parts * w + Parts * k /\ Parts * w \in Nat /\ Parts * k \in Nat
  BY <1>1, <1>3, <1>4
<1>6. w + k \in Int
  BY <1>3, <1>4
<1>7. /\ 2 * (Parts * (w + k)) <= 2 * s + Parts
      /\ 2 * s < 2 * (Parts * (w + k)) + Parts
  BY <1>1, <1>2, <1>3, <1>4, <1>5
<1>8. Nearest(s) = w + k
  BY <1>6, <1>7, NearestIsUnique
<1>9. TimeToSecs(Sec(s), Nsec(s)) = Parts * (w + k)
  BY <1>2 DEF TimeToSecs, q, w
<1>10. QED
  BY <1>8, <1>9

\* The distance of neighbouring f64 is 1 as long as they have every integer, and
\* even beyond.
LEMMA GrainIs ==
  ASSUME NEW s \in Nat
  PROVE  /\ Grain(s) \in Nat \ {0}
         /\ s < Mantissa => Grain(s) = 1
         /\ ~(s < Mantissa) => \E k \in Nat \ {0} : Grain(s) = 2 * k
<1> DEFINE D == 0..s
           T == Nat \ {0}
           rank == [d \in D |-> d]
           value(d, g) == IF d < Mantissa THEN 1 ELSE 2 * g[d \div 2]
           F == [d \in D |-> [g \in [D -> T] |-> value(d, g)]]
           Body(f) == [t \in 0..s |-> IF t < Mantissa THEN 1 ELSE 2 * f[t \div 2]]
           grain == CHOOSE f : f = Body(f)
<1>1. Mantissa \in Nat \ {0}
  BY SecondIs, SensorAssumption DEF Second
<1>2. \A d \in D : d \div 2 \in D /\ (~(d < Mantissa) => d \div 2 < d)
  BY <1>1
<1>3. \A d \in D, g \in [D -> T] : F[d][g] = value(d, g) /\ value(d, g) \in T
  <2>1. ASSUME NEW d \in D, NEW g \in [D -> T] PROVE value(d, g) \in T
    <3>1. g[d \div 2] \in T
      BY <1>2
    <3>2. QED
      BY <3>1
  <2>2. QED
    BY <2>1
<1>4. ASSUME NEW d \in D, NEW g \in [D -> T], NEW h \in [D -> T],
             \A e \in D : rank[e] < rank[d] => g[e] = h[e]
      PROVE  F[d][g] = F[d][h]
  <2>1. ~(d < Mantissa) => g[d \div 2] = h[d \div 2]
    BY <1>2, <1>4
  <2>2. value(d, g) = value(d, h)
    BY <2>1
  <2>3. QED
    BY <1>3, <2>2
<1>5. PICK f \in [D -> T] : \A d \in D : f[d] = value(d, f)
  <2>1. s \in Nat /\ rank \in [D -> 0..s] /\ 1 \in T
    OBVIOUS
  <2>2. F \in [D -> [[D -> T] -> T]]
    <3> HIDE DEF D, T, value
    <3>1. \A d \in D, g \in [D -> T] : value(d, g) \in T
      BY <1>3
    <3>2. QED
      BY <3>1
  <2> HIDE DEF D, T, F, rank, value
  <2>3. Descends(D, T, s, rank, 1, F)
    BY <1>4, <2>1, <2>2 DEF Descends
  <2>4. PICK f : Computes(D, T, F, f)
    BY <2>3, RecursionExists
  <2>5. f \in [D -> T] /\ \A d \in D : f[d] = F[d][f]
    BY <2>4 DEF Computes
  <2>6. QED
    BY <1>3, <2>5
<1>6. grain = Body(grain)
  <2>1. f = [t \in D |-> f[t]]
    OBVIOUS
  <2>2. f = Body(f)
    BY <1>5, <2>1
  <2> HIDE DEF Body
  <2>3. QED
    BY <2>2, Zenon
<1>7. Grain(s) = grain[s]
  BY DEF Grain
<1> HIDE DEF grain
<1>8. \A t \in D : grain[t] = IF t < Mantissa THEN 1 ELSE 2 * grain[t \div 2]
  BY <1>6
<1>9. \A t \in D : grain[t] \in T
  <2> DEFINE Missing == {t \in D : grain[t] \notin T}
  <2>1. SUFFICES ASSUME Missing # {} PROVE FALSE
    OBVIOUS
  <2>2. PICK t \in Missing : \A u \in Missing : t <= u
    <3>1. Missing \subseteq Nat
      OBVIOUS
    <3> HIDE DEF Missing
    <3>2. QED
      BY <2>1, <3>1, Least
  <2>3. ~(t < Mantissa) /\ t \div 2 \in D /\ t \div 2 < t
    BY <1>2, <1>8, <2>2
  <2>4. grain[t \div 2] \in T
    BY <2>2, <2>3
  <2>5. grain[t] = 2 * grain[t \div 2]
    BY <1>8, <2>2, <2>3
  <2>6. QED
    BY <2>2, <2>4, <2>5
<1>10. s \in D /\ s \div 2 \in D
  BY <1>2
<1>11. grain[s] \in T /\ grain[s \div 2] \in T
  BY <1>9, <1>10
<1>12. grain[s] = IF s < Mantissa THEN 1 ELSE 2 * grain[s \div 2]
  BY <1>8, <1>10
<1>13. QED
  BY <1>7, <1>11, <1>12

\* An f64 is no further from the exact product than half the distance of its
\* neighbours.
LEMMA ProductIsNear ==
  ASSUME NEW s \in Nat
  PROVE  /\ Product(s) \in Nat
         /\ s < Mantissa => Product(s) = s
         /\ ~(s < Mantissa) => \E k \in Nat \ {0}, m \in Nat :
              /\ Grain(s) = 2 * k /\ Product(s) = 2 * m
              /\ s - k <= Product(s) /\ Product(s) <= s + k
<1> DEFINE g == Grain(s)
           below == s \div g
           rest == s % g
           up == 2 * rest > g \/ (2 * rest = g /\ below % 2 = 1)
           n == IF up THEN below + 1 ELSE below
           p == n * g
<1>1. /\ g \in Nat \ {0} /\ (s < Mantissa => g = 1)
      /\ ~(s < Mantissa) => \E k \in Nat \ {0} : g = 2 * k
  BY GrainIs
<1>2. Product(s) = p
  BY DEF Product
<1> HIDE DEF g
<1>3. below \in Nat /\ rest \in Nat /\ rest < g /\ s = g * below + rest
  BY <1>1, Z3
<1>4. p = g * below + (IF up THEN g ELSE 0)
  <2> HIDE DEF below, up
  <2>1. (below + 1) * g = g * below + g /\ below * g = g * below
    BY <1>1, <1>3
  <2>2. CASE up
    <3>1. p = (below + 1) * g
      BY <2>2
    <3>2. QED
      BY <2>1, <2>2, <3>1
  <2>3. CASE ~up
    <3>1. p = below * g
      BY <2>3
    <3>2. QED
      BY <1>1, <1>3, <2>1, <2>3, <3>1
  <2>4. QED
    BY <2>2, <2>3
<1>5. g * below \in Nat
  BY <1>1, <1>3
<1>6. n \in Nat
  BY <1>3
<1> DEFINE base == g * below
<1> HIDE DEF below, rest
<1>7. p \in Nat /\ 2 * p <= 2 * s + g /\ 2 * s <= 2 * p + g
  <2>1. p = base + (IF up THEN g ELSE 0) /\ s = base + rest /\ base \in Nat
    BY <1>3, <1>4, <1>5
  <2>2. (up => 2 * rest >= g) /\ (~up => ~(2 * rest > g))
    BY <1>1, <1>3
  <2> HIDE DEF p, base, up
  <2>3. QED
    BY <1>1, <1>3, <2>1, <2>2
<1>8. ASSUME s < Mantissa PROVE p = s
  <2>1. g = 1 /\ rest = 0 /\ ~up
    BY <1>1, <1>3, <1>8
  <2>2. p = base /\ s = base
    BY <1>3, <1>4, <1>5, <2>1
  <2>3. QED
    BY <2>2
<1>9. ASSUME NEW k \in Nat \ {0}, g = 2 * k
      PROVE  \E m \in Nat : p = 2 * m /\ s - k <= p /\ p <= s + k
  <2>1. n * (2 * k) = 2 * (n * k) /\ n * k \in Nat
    <3> HIDE DEF n
    <3>1. QED
      BY <1>6
  <2>2. p = 2 * (n * k)
    BY <1>9, <2>1
  <2> HIDE DEF p
  <2>3. s - k <= p /\ p <= s + k
    BY <1>7, <1>9
  <2>4. QED
    BY <2>1, <2>2, <2>3
<1>10. QED
  <2> HIDE DEF p
  <2>1. ASSUME ~(s < Mantissa)
        PROVE  \E k \in Nat \ {0}, m \in Nat :
                 g = 2 * k /\ p = 2 * m /\ s - k <= p /\ p <= s + k
    <3>1. PICK k \in Nat \ {0} : g = 2 * k
      BY <1>1, <2>1
    <3>2. PICK m \in Nat : p = 2 * m /\ s - k <= p /\ p <= s + k
      BY <1>9, <3>1
    <3>3. QED
      BY <3>1, <3>2
  <2>2. QED
    BY <1>2, <1>7, <1>8, <2>1 DEF g

------------------------------------------------------------------------------
(* Every frame comes back *)

\* A frame with its stamp rounded to nanoseconds.
Rounded(f) == [f EXCEPT !.stamp = Parts * Nearest(@)]

\* The message is the one of the frame, and read back it is the frame.
Returns(f, V, msg) ==
  LET channel == ChannelOf[f.kind]
      read == [ok |-> TRUE, head |-> msg.head, each |-> msg.each, tail |-> msg.tail]
  IN  /\ MessageFits(V, LayoutOf[channel], msg)
      /\ Encoded(f) = Encode(LayoutOf[channel], msg)
      /\ FrameOf(channel, read) = Rounded(f)

LEMMA ImuReturns ==
  ASSUME NEW s \in Nat, NEW acc \in Seq(Int), Len(acc) = 3,
         NEW gyr \in Seq(Int), Len(gyr) = 3,
         NEW f, f = [kind |-> "imu", stamp |-> s, acc |-> acc, gyr |-> gyr]
  PROVE  Returns(f, Scalar, ImuMessage(s, acc, gyr))
<1> DEFINE msg == ImuMessage(s, acc, gyr)
           read == [ok |-> TRUE, head |-> msg.head, each |-> msg.each, tail |-> msg.tail]
<1>1. f.kind = "imu" /\ f.stamp = s /\ f.acc = acc /\ f.gyr = gyr
  OBVIOUS
<1>2. ChannelOf[f.kind] = "imu" /\ LayoutOf["imu"] = Imu
  BY <1>1 DEF ChannelOf, LayoutOf
<1>3. Encoded(f) = Encode(Imu, msg)
  BY <1>1 DEF Encoded
<1>4. Rounded(f) = [kind |-> "imu", stamp |-> Parts * Nearest(s), acc |-> acc, gyr |-> gyr]
  <2>1. \A x : [f EXCEPT !.stamp = x] = [kind |-> "imu", stamp |-> x, acc |-> acc, gyr |-> gyr]
    <3>1. f = [kind |-> "imu", stamp |-> s, acc |-> acc, gyr |-> gyr]
      OBVIOUS
    <3>2. QED
      BY ONLY <3>1
  <2>2. Rounded(f) = [f EXCEPT !.stamp = Parts * Nearest(s)]
    BY DEF Rounded
  <2>3. QED
    BY <2>1, <2>2
<1>5. read.head = msg.head
  OBVIOUS
<1>6. MessageFits(Scalar, Imu, msg) /\ ImuFrame(read) = Rounded(f)
  <2> HIDE DEF read
  <2>1. /\ MessageFits(Scalar, Imu, msg)
        /\ ImuFrame(read) = [kind |-> "imu", stamp |-> TimeToSecs(Sec(s), Nsec(s)),
                             acc |-> acc, gyr |-> gyr]
    BY <1>5, ImuFits
  <2>2. QED
    BY <1>4, <2>1, TimeIsRounded
<1> HIDE DEF msg
<1>7. FrameOf("imu", read) = ImuFrame(read)
  BY DEF FrameOf
<1>8. Returns(f, Scalar, msg)
  BY <1>2, <1>3, <1>6, <1>7 DEF Returns
<1>9. QED
  BY <1>8 DEF msg

LEMMA PoseReturns ==
  ASSUME NEW s \in Nat, NEW position \in Seq(Int), Len(position) = 3,
         NEW orientation \in Seq(Int), Len(orientation) = 4,
         NEW f, f = [kind |-> "pose", stamp |-> s, position |-> position,
                     orientation |-> orientation]
  PROVE  Returns(f, Scalar, PoseMessage(s, position, orientation))
<1> DEFINE msg == PoseMessage(s, position, orientation)
           read == [ok |-> TRUE, head |-> msg.head, each |-> msg.each, tail |-> msg.tail]
<1>1. /\ f.kind = "pose" /\ f.stamp = s /\ f.position = position
      /\ f.orientation = orientation
  OBVIOUS
<1>2. ChannelOf[f.kind] = "pose" /\ LayoutOf["pose"] = PoseStamped
  BY <1>1 DEF ChannelOf, LayoutOf
<1>3. Encoded(f) = Encode(PoseStamped, msg)
  BY <1>1 DEF Encoded
<1>4. Rounded(f) = [kind |-> "pose", stamp |-> Parts * Nearest(s), position |-> position,
                    orientation |-> orientation]
  <2>1. ASSUME NEW x
        PROVE  [f EXCEPT !.stamp = x] =
                 [kind |-> "pose", stamp |-> x, position |-> position,
                  orientation |-> orientation]
    OBVIOUS
  <2>2. Rounded(f) = [f EXCEPT !.stamp = Parts * Nearest(s)]
    BY DEF Rounded
  <2>3. QED
    BY <2>1, <2>2
<1>5. read.head = msg.head
  OBVIOUS
<1>6. MessageFits(Scalar, PoseStamped, msg) /\ PoseOf(read) = Rounded(f)
  <2> HIDE DEF read
  <2>1. /\ MessageFits(Scalar, PoseStamped, msg)
        /\ PoseOf(read) = [kind |-> "pose", stamp |-> TimeToSecs(Sec(s), Nsec(s)),
                           position |-> position, orientation |-> orientation]
    BY <1>5, PoseFits
  <2>2. QED
    BY <1>4, <2>1, TimeIsRounded
<1> HIDE DEF msg
<1>7. FrameOf("pose", read) = PoseOf(read)
  BY DEF FrameOf
<1>8. Returns(f, Scalar, msg)
  BY <1>2, <1>3, <1>6, <1>7 DEF Returns
<1>9. QED
  BY <1>8 DEF msg

LEMMA SceneReturns ==
  ASSUME NEW channels \in Seq(Seq(DOMAIN TextLen)),
         \A i \in 1..Len(channels) : Len(channels[i]) = 3,
         NEW f, f = [kind |-> "scene", stamp |-> 0, channels |-> channels]
  PROVE  Returns(f, Scalar, SceneMessage(channels))
<1> DEFINE msg == SceneMessage(channels)
           read == [ok |-> TRUE, head |-> msg.head, each |-> msg.each, tail |-> msg.tail]
<1>1. f.kind = "scene" /\ f.stamp = 0 /\ f.channels = channels
  OBVIOUS
<1>2. ChannelOf[f.kind] = "scene" /\ LayoutOf["scene"] = SceneMeta
  BY <1>1 DEF ChannelOf, LayoutOf
<1>3. Encoded(f) = Encode(SceneMeta, msg)
  BY <1>1 DEF Encoded
<1>4. Rounded(f) = [kind |-> "scene", stamp |-> 0, channels |-> channels]
  <2>1. Parts * Nearest(0) = 0
    <3>1. Parts \in Nat \ {0} /\ Parts * 0 = 0
      BY SecondIs
    <3>2. Nearest(0) = 0
      BY <3>1, NearestIsUnique
    <3>3. QED
      BY <3>1, <3>2
  <2>2. Rounded(f) = [kind |-> "scene", stamp |-> Parts * Nearest(0), channels |-> channels]
    BY DEF Rounded
  <2>3. QED
    BY <2>1, <2>2
<1>5. read.each = channels
  BY DEF SceneMessage
<1>6. MessageFits(Scalar, SceneMeta, msg)
  BY SceneFits
<1>7. FrameOf("scene", read) = Rounded(f)
  <2> HIDE DEF read
  <2>1. QED
    BY <1>4, <1>5 DEF FrameOf, SceneOf
<1> HIDE DEF msg
<1>8. Returns(f, Scalar, msg)
  BY <1>2, <1>3, <1>6, <1>7 DEF Returns
<1>9. QED
  BY <1>8 DEF msg

LEMMA PointsNoIs ==
  ASSUME NEW columns, Len(columns) \in Nat, NEW n \in Nat
  PROVE  /\ PointsNo(n, columns) \in Seq(Seq(Int))
         /\ \A i \in 1..Len(PointsNo(n, columns)) :
              Len(PointsNo(n, columns)[i]) = Len(columns)
<1>1. \A i \in 1..n : PointNo(i, columns) \in Seq(Int)
                      /\ Len(PointNo(i, columns)) = Len(columns)
  BY DEF PointNo
<1>2. PointsNo(n, columns) = [i \in 1..n |-> PointNo(i, columns)]
  BY DEF PointsNo
<1>3. QED
  BY <1>1, <1>2

LEMMA StandardFrameReturns ==
  ASSUME NEW s \in Nat, NEW points \in Seq(Seq(Int)),
         \A n \in 1..Len(points) : Len(points[n]) = Len(StdColumns),
         NEW f, f = [kind |-> "standard", stamp |-> s, points |-> points]
  PROVE  Returns(f, CloudValue, CloudOf(StdColumns, StdPointStep, points, s))
<1> DEFINE msg == CloudOf(StdColumns, StdPointStep, points, s)
           read == [ok |-> TRUE, head |-> msg.head, each |-> msg.each, tail |-> msg.tail]
<1>1. f.kind = "standard" /\ f.stamp = s /\ f.points = points
  OBVIOUS
<1>2. ChannelOf[f.kind] = "lidar" /\ LayoutOf["lidar"] = PointCloud
  BY <1>1 DEF ChannelOf, LayoutOf
<1>3. Encoded(f) = Encode(PointCloud, msg)
  BY <1>1 DEF Encoded
<1>4. Rounded(f) = [kind |-> "standard", stamp |-> Parts * Nearest(s), points |-> points]
  <2>1. ASSUME NEW x
        PROVE  [f EXCEPT !.stamp = x] =
                 [kind |-> "standard", stamp |-> x, points |-> points]
    OBVIOUS
  <2>2. Rounded(f) = [f EXCEPT !.stamp = Parts * Nearest(s)]
    BY DEF Rounded
  <2>3. QED
    BY <2>1, <2>2
<1>5. read.head = msg.head /\ read.each = msg.each /\ read.tail = msg.tail
  OBVIOUS
<1>6. Packed(StdColumns, StdPointStep)
  BY StdPacked
<1>7. MessageFits(CloudValue, PointCloud, msg)
  BY <1>6, CloudFits
<1>8. SensorFromCloud(read) = Rounded(f)
  <2> HIDE DEF read
  <2>1. Carries(StdColumns, StdPointStep, points, s, read)
    BY <1>5, <1>6, CloudFits
  <2>2. SensorFromCloud(read) =
          [kind |-> "standard", stamp |-> TimeToSecs(Sec(s), Nsec(s)), points |-> points]
    BY <2>1, StandardReturns
  <2>3. QED
    BY <1>4, <2>2, TimeIsRounded
<1> HIDE DEF msg
<1>9. FrameOf("lidar", read) = SensorFromCloud(read)
  BY DEF FrameOf
<1>10. Returns(f, CloudValue, msg)
  BY <1>2, <1>3, <1>7, <1>8, <1>9 DEF Returns
<1>11. QED
  BY <1>10 DEF msg

LEMMA AviaFrameReturns ==
  ASSUME NEW s \in Nat, NEW points \in Seq(Seq(Int)),
         \A n \in 1..Len(points) : Len(points[n]) = Len(AviaColumns),
         NEW f, f = [kind |-> "avia", stamp |-> s, points |-> points]
  PROVE  Returns(f, CloudValue, CloudOf(AviaColumns, AviaPointStep, points, s))
<1> DEFINE msg == CloudOf(AviaColumns, AviaPointStep, points, s)
           read == [ok |-> TRUE, head |-> msg.head, each |-> msg.each, tail |-> msg.tail]
<1>1. f.kind = "avia" /\ f.stamp = s /\ f.points = points
  OBVIOUS
<1>2. ChannelOf[f.kind] = "lidar" /\ LayoutOf["lidar"] = PointCloud
  BY <1>1 DEF ChannelOf, LayoutOf
<1>3. Encoded(f) = Encode(PointCloud, msg)
  BY <1>1 DEF Encoded
<1>4. Rounded(f) = [kind |-> "avia", stamp |-> Parts * Nearest(s), points |-> points]
  <2>1. ASSUME NEW x
        PROVE  [f EXCEPT !.stamp = x] =
                 [kind |-> "avia", stamp |-> x, points |-> points]
    OBVIOUS
  <2>2. Rounded(f) = [f EXCEPT !.stamp = Parts * Nearest(s)]
    BY DEF Rounded
  <2>3. QED
    BY <2>1, <2>2
<1>5. read.head = msg.head /\ read.each = msg.each /\ read.tail = msg.tail
  OBVIOUS
<1>6. Packed(AviaColumns, AviaPointStep)
  BY AviaPacked
<1>7. MessageFits(CloudValue, PointCloud, msg)
  BY <1>6, CloudFits
<1>8. SensorFromCloud(read) = Rounded(f)
  <2> HIDE DEF read
  <2>1. Carries(AviaColumns, AviaPointStep, points, s, read)
    BY <1>5, <1>6, CloudFits
  <2>2. SensorFromCloud(read) =
          [kind |-> "avia", stamp |-> TimeToSecs(Sec(s), Nsec(s)), points |-> points]
    BY <2>1, AviaReturns
  <2>3. QED
    BY <1>4, <2>2, TimeIsRounded
<1> HIDE DEF msg
<1>9. FrameOf("lidar", read) = SensorFromCloud(read)
  BY DEF FrameOf
<1>10. Returns(f, CloudValue, msg)
  BY <1>2, <1>3, <1>7, <1>8, <1>9 DEF Returns
<1>11. QED
  BY <1>10 DEF msg

LEMMA EveryFrameReturns ==
  ASSUME NEW f \in Frames
  PROVE  /\ \E V, msg : Returns(f, V, msg)
         /\ Rounded(f).stamp = Parts * Nearest(f.stamp) /\ f.stamp \in Nat
<1>1. CASE \E s \in Stamps : f = [kind |-> "imu", stamp |-> s, acc |-> <<11, 12, 13>>,
                                  gyr |-> <<21, 22, 23>>]
  <2>1. PICK s \in Stamps : f = [kind |-> "imu", stamp |-> s, acc |-> <<11, 12, 13>>,
                                 gyr |-> <<21, 22, 23>>]
    BY <1>1
  <2>2. PICK acc, gyr : acc = <<11, 12, 13>> /\ gyr = <<21, 22, 23>>
    OBVIOUS
  <2>3. s \in Nat /\ acc \in Seq(Int) /\ Len(acc) = 3 /\ gyr \in Seq(Int) /\ Len(gyr) = 3
    BY <2>2, SensorAssumption
  <2>4. f = [kind |-> "imu", stamp |-> s, acc |-> acc, gyr |-> gyr]
    BY <2>1, <2>2
  <2>5. Returns(f, Scalar, ImuMessage(s, acc, gyr))
    BY <2>3, <2>4, ImuReturns
  <2>6. Rounded(f).stamp = Parts * Nearest(f.stamp) /\ f.stamp \in Nat
    BY <2>3, <2>4 DEF Rounded
  <2>7. QED
    BY <2>5, <2>6
<1>2. CASE \E s \in Stamps, n \in 0..MaxPoints :
             f = [kind |-> "standard", stamp |-> s, points |-> PointsNo(n, StdColumns)]
  <2>1. PICK s \in Stamps, n \in 0..MaxPoints :
          f = [kind |-> "standard", stamp |-> s, points |-> PointsNo(n, StdColumns)]
    BY <1>2
  <2>2. s \in Nat /\ n \in Nat /\ Len(StdColumns) \in Nat
    BY StdPacked, PackedIs, SensorAssumption
  <2>3. PICK points : points = PointsNo(n, StdColumns)
    OBVIOUS
  <2>4. /\ points \in Seq(Seq(Int))
        /\ \A i \in 1..Len(points) : Len(points[i]) = Len(StdColumns)
    BY <2>2, <2>3, PointsNoIs
  <2>5. f = [kind |-> "standard", stamp |-> s, points |-> points]
    BY <2>1, <2>3
  <2>6. Returns(f, CloudValue, CloudOf(StdColumns, StdPointStep, points, s))
    BY <2>2, <2>4, <2>5, StandardFrameReturns
  <2>7. Rounded(f).stamp = Parts * Nearest(f.stamp) /\ f.stamp \in Nat
    BY <2>2, <2>5 DEF Rounded
  <2>8. QED
    BY <2>6, <2>7
<1>3. CASE \E s \in Stamps, n \in 0..MaxPoints :
             f = [kind |-> "avia", stamp |-> s, points |-> PointsNo(n, AviaColumns)]
  <2>1. PICK s \in Stamps, n \in 0..MaxPoints :
          f = [kind |-> "avia", stamp |-> s, points |-> PointsNo(n, AviaColumns)]
    BY <1>3
  <2>2. s \in Nat /\ n \in Nat /\ Len(AviaColumns) \in Nat
    BY AviaPacked, PackedIs, SensorAssumption
  <2>3. PICK points : points = PointsNo(n, AviaColumns)
    OBVIOUS
  <2>4. /\ points \in Seq(Seq(Int))
        /\ \A i \in 1..Len(points) : Len(points[i]) = Len(AviaColumns)
    BY <2>2, <2>3, PointsNoIs
  <2>5. f = [kind |-> "avia", stamp |-> s, points |-> points]
    BY <2>1, <2>3
  <2>6. Returns(f, CloudValue, CloudOf(AviaColumns, AviaPointStep, points, s))
    BY <2>2, <2>4, <2>5, AviaFrameReturns
  <2>7. Rounded(f).stamp = Parts * Nearest(f.stamp) /\ f.stamp \in Nat
    BY <2>2, <2>5 DEF Rounded
  <2>8. QED
    BY <2>6, <2>7
<1>4. CASE \E s \in Stamps : f = [kind |-> "pose", stamp |-> s,
                                  position |-> <<31, 32, 33>>,
                                  orientation |-> <<41, 42, 43, 44>>]
  <2>1. PICK s \in Stamps : f = [kind |-> "pose", stamp |-> s,
                                 position |-> <<31, 32, 33>>,
                                 orientation |-> <<41, 42, 43, 44>>]
    BY <1>4
  <2>2. PICK p, o : p = <<31, 32, 33>> /\ o = <<41, 42, 43, 44>>
    OBVIOUS
  <2>3. s \in Nat /\ p \in Seq(Int) /\ Len(p) = 3 /\ o \in Seq(Int) /\ Len(o) = 4
    BY <2>2, SensorAssumption
  <2>4. f = [kind |-> "pose", stamp |-> s, position |-> p, orientation |-> o]
    BY <2>1, <2>2
  <2>5. Returns(f, Scalar, PoseMessage(s, p, o))
    BY <2>3, <2>4, PoseReturns
  <2>6. Rounded(f).stamp = Parts * Nearest(f.stamp) /\ f.stamp \in Nat
    BY <2>3, <2>4 DEF Rounded
  <2>7. QED
    BY <2>5, <2>6
<1> DEFINE Ch == <<<<"imu", "imu", "imu">>, <<"lidar", "lidar", "lidar">>,
                   <<"pose", "pose", "map">>>>
<1>5. CASE f = [kind |-> "scene", stamp |-> 0, channels |-> Ch]
  <2>1. PICK a, b, c : /\ a = <<"imu", "imu", "imu">> /\ b = <<"lidar", "lidar", "lidar">>
                       /\ c = <<"pose", "pose", "map">>
    OBVIOUS
  <2>2. /\ "imu" \in DOMAIN TextLen /\ "lidar" \in DOMAIN TextLen
        /\ "pose" \in DOMAIN TextLen /\ "map" \in DOMAIN TextLen
    BY DEF TextLen
  <2> DEFINE W == Seq(DOMAIN TextLen)
  <2>3. /\ a \in W /\ b \in W /\ c \in W
        /\ Len(a) = 3 /\ Len(b) = 3 /\ Len(c) = 3
    BY <2>1, <2>2
  <2> HIDE DEF W
  <2>4. PICK ch : ch = <<a, b, c>>
    OBVIOUS
  <2>5. ch = Ch
    BY <2>1, <2>4
  <2> HIDE DEF Ch
  <2>6. ch \in Seq(W) /\ \A i \in 1..Len(ch) : Len(ch[i]) = 3
    BY <2>3, <2>4
  <2>7. f = [kind |-> "scene", stamp |-> 0, channels |-> ch]
    BY <1>5, <2>5
  <2>8. Returns(f, Scalar, SceneMessage(ch))
    BY <2>6, <2>7, SceneReturns DEF W
  <2>9. Rounded(f).stamp = Parts * Nearest(f.stamp) /\ f.stamp \in Nat
    BY <2>7 DEF Rounded
  <2>10. QED
    BY <2>8, <2>9
<1>6. QED
  BY <1>1, <1>2, <1>3, <1>4, <1>5 DEF Frames

------------------------------------------------------------------------------
(* The invariant *)

\* What a payload with the bytes of a frame is decoded to.
Decoded(f, buf) ==
  LET msg == Decode(LayoutOf[ChannelOf[f.kind]], buf)
  IN  IF msg.ok THEN FrameOf(ChannelOf[f.kind], msg) ELSE None

\* The frame if the payload is whole, and nothing otherwise.
LEMMA DecodesTo ==
  ASSUME NEW f \in Frames, NEW buf \in Seq(Byte), Holds(buf, 0, Encoded(f))
  PROVE  /\ Len(buf) = Len(Encoded(f)) => Decoded(f, buf) = Rounded(f)
         /\ Len(buf) # Len(Encoded(f)) => Decoded(f, buf) = None
<1> DEFINE channel == ChannelOf[f.kind]
           layout == LayoutOf[channel]
           d == Decode(layout, buf)
<1>1. PICK V, msg : Returns(f, V, msg)
  BY EveryFrameReturns
<1> DEFINE read == [ok |-> TRUE, head |-> msg.head, each |-> msg.each, tail |-> msg.tail]
<1>2. /\ MessageFits(V, layout, msg) /\ Encoded(f) = Encode(layout, msg)
      /\ FrameOf(channel, read) = Rounded(f)
  BY <1>1 DEF Returns
<1>3. Decoded(f, buf) = IF d.ok THEN FrameOf(channel, d) ELSE None
  BY DEF Decoded
<1> HIDE DEF layout, channel
<1>4. /\ Len(buf) = Len(Encoded(f)) => d = read
      /\ Len(buf) # Len(Encoded(f)) => d = Error
  BY <1>2, DecodeReads
<1>5. read.ok /\ ~Error.ok
  BY DEF Error
<1> HIDE DEF d, read
<1>6. QED
  BY <1>2, <1>3, <1>4, <1>5

LEMMA EncodedType ==
  ASSUME NEW f \in Frames
  PROVE  Encoded(f) \in Seq(Byte)
<1>1. PICK V, msg : Returns(f, V, msg)
  BY EveryFrameReturns
<1>2. MessageFits(V, LayoutOf[ChannelOf[f.kind]], msg)
      /\ Encoded(f) = Encode(LayoutOf[ChannelOf[f.kind]], msg)
  BY <1>1 DEF Returns
<1>3. QED
  BY <1>2, EncodeIs

\* The payload is the frame's as far as it goes; its length tells whether it is
\* damaged, and what it was decoded to depends on that alone.
SensorInv ==
  /\ frame \in Frames /\ damaged \in BOOLEAN /\ decoded \in BOOLEAN
  /\ payload = None => ~damaged /\ ~decoded
  /\ payload # None =>
       /\ payload \in Seq(Byte) /\ Holds(payload, 0, Encoded(frame))
       /\ damaged <=> Len(payload) # Len(Encoded(frame))
       /\ sent = [channel |-> ChannelOf[frame.kind], stamp |-> FromSecs(frame.stamp)]
  /\ decoded => outcome = (IF damaged THEN None ELSE Rounded(frame))

LEMMA Shorter ==
  ASSUME NEW buf \in Seq(Byte), NEW n \in 0..Len(buf) - 1,
         NEW bytes \in Seq(Byte), Holds(buf, 0, bytes), Len(buf) = Len(bytes)
  PROVE  /\ SubSeq(buf, 1, n) \in Seq(Byte) /\ Holds(SubSeq(buf, 1, n), 0, bytes)
         /\ Len(SubSeq(buf, 1, n)) # Len(bytes)
<1> DEFINE s == SubSeq(buf, 1, n)
<1>1. n \in Nat /\ n < Len(buf) /\ Len(buf) \in Nat
  OBVIOUS
<1>2. s \in Seq(Byte) /\ Len(s) = n /\ \A i \in 1..n : s[i] = buf[i]
  BY <1>1
<1>3. \A i \in 1..Len(bytes) : 0 + i <= Len(s) => s[0 + i] = bytes[i]
  <2>1. ASSUME NEW i \in 1..Len(bytes), i <= n PROVE s[i] = bytes[i]
    <3>1. i \in 1..n /\ 0 + i <= Len(buf) /\ 0 + i = i
      BY <1>1, <2>1
    <3>2. buf[i] = bytes[i]
      BY <3>1 DEF Holds
    <3>3. QED
      BY <1>2, <3>1, <3>2
  <2>2. \A i \in 1..Len(bytes) : 0 + i = i
    OBVIOUS
  <2>3. QED
    BY <1>2, <2>1, <2>2
<1>4. QED
  BY <1>1, <1>2, <1>3 DEF Holds

LEMMA LongerByOne ==
  ASSUME NEW buf \in Seq(Byte), NEW b \in Byte,
         NEW bytes \in Seq(Byte), Holds(buf, 0, bytes), Len(buf) = Len(bytes)
  PROVE  /\ Append(buf, b) \in Seq(Byte) /\ Holds(Append(buf, b), 0, bytes)
         /\ Len(Append(buf, b)) # Len(bytes)
<1> DEFINE s == Append(buf, b)
<1>1. /\ s \in Seq(Byte) /\ Len(s) = Len(buf) + 1 /\ Len(buf) \in Nat
      /\ \A i \in 1..Len(buf) : s[i] = buf[i]
  OBVIOUS
<1> HIDE DEF s
<1>2. \A i \in 1..Len(bytes) : 0 + i <= Len(buf) => buf[0 + i] = bytes[i]
  BY DEF Holds
<1>3. \A i \in 1..Len(bytes) : 0 + i = i /\ i \in 1..Len(buf) /\ i <= Len(buf)
  OBVIOUS
<1>4. \A i \in 1..Len(bytes) : s[0 + i] = bytes[i]
  BY <1>1, <1>2, <1>3
<1>5. QED
  BY <1>1, <1>4 DEF Holds, s

LEMMA SensorInvInit == Init => SensorInv
  BY DEF Init, SensorInv

LEMMA SensorInvNext == SensorInv /\ [Next]_vars => SensorInv'
<1> SUFFICES ASSUME SensorInv, [Next]_vars PROVE SensorInv'
  OBVIOUS
<1>1. frame \in Frames /\ Encoded(frame) \in Seq(Byte)
  BY EncodedType DEF SensorInv
<1>2. CASE EncodeFrame
  <2>1. /\ payload' = Encoded(frame) /\ UNCHANGED <<frame, damaged, decoded, outcome>>
        /\ sent' = [channel |-> ChannelOf[frame.kind], stamp |-> FromSecs(frame.stamp)]
        /\ ~damaged /\ ~decoded
    BY <1>2 DEF EncodeFrame, SensorInv
  <2>2. payload' \in Seq(Byte) /\ payload' # None
    BY <1>1, <2>1, SensorAssumption
  <2>3. \A s \in Seq(Byte) : Holds(s, 0, s)
    <3>1. ASSUME NEW s \in Seq(Byte) PROVE Holds(s, 0, s)
      <4>1. \A i \in 1..Len(s) : 0 + i = i
        OBVIOUS
      <4>2. QED
        BY <4>1 DEF Holds
    <3>2. QED
      BY <3>1
  <2>4. Holds(payload', 0, Encoded(frame))
    BY <1>1, <2>1, <2>3
  <2>5. QED
    BY <1>1, <2>1, <2>2, <2>4 DEF SensorInv
<1>3. CASE Damage
  <2>1. /\ payload # None /\ ~damaged /\ ~decoded /\ damaged' = TRUE
        /\ UNCHANGED <<frame, sent, decoded, outcome>>
    BY <1>3 DEF Damage
  <2>2. /\ payload \in Seq(Byte) /\ Holds(payload, 0, Encoded(frame))
        /\ Len(payload) = Len(Encoded(frame))
    BY <2>1 DEF SensorInv
  <2>3. /\ payload' \in Seq(Byte) /\ Holds(payload', 0, Encoded(frame))
        /\ Len(payload') # Len(Encoded(frame))
    <3>1. CASE \E n \in 0..Len(payload) - 1 : payload' = SubSeq(payload, 1, n)
      BY <1>1, <2>2, <3>1, Shorter
    <3>2. CASE payload' = Append(payload, <<0, 1>>)
      <4>1. <<0, 1>> \in Byte
        BY DEF Byte, Scalar
      <4>2. QED
        BY <1>1, <2>2, <3>2, <4>1, LongerByOne
    <3>3. QED
      BY <1>3, <3>1, <3>2 DEF Damage
  <2>4. payload' # None
    BY <2>3, SensorAssumption
  <2>5. QED
    BY <1>1, <2>1, <2>3, <2>4 DEF SensorInv
<1>4. CASE DecodeMessage
  <2>1. payload # None /\ decoded' = TRUE /\ UNCHANGED <<frame, sent, payload, damaged>>
    BY <1>4 DEF DecodeMessage
  <2>2. /\ payload \in Seq(Byte) /\ Holds(payload, 0, Encoded(frame))
        /\ damaged <=> Len(payload) # Len(Encoded(frame))
        /\ sent = [channel |-> ChannelOf[frame.kind], stamp |-> FromSecs(frame.stamp)]
        /\ damaged \in BOOLEAN
    BY <2>1 DEF SensorInv
  <2>3. outcome' = Decoded(frame, payload)
    <3>1. sent.channel = ChannelOf[frame.kind]
      BY <2>2
    <3>2. QED
      BY <1>4, <3>1 DEF DecodeMessage, Decoded
  <2>4. outcome' = (IF damaged THEN None ELSE Rounded(frame))
    BY <1>1, <2>2, <2>3, DecodesTo
  <2>5. QED
    BY <1>1, <2>1, <2>2, <2>4 DEF SensorInv
<1>5. CASE UNCHANGED vars
  BY <1>5 DEF vars, SensorInv
<1>6. QED
  BY <1>2, <1>3, <1>4, <1>5 DEF Next

\* What is known of a frame, its payload and what it was decoded to is so in
\* every state.
THEOREM SensorInvariant == Spec => []SensorInv
  BY SensorInvInit, SensorInvNext, PTL DEF Spec

\* Every frame of every kind, with a cloud of any number of points and any time
\* not before 0, is decoded as what it was, its stamp rounded to nanoseconds
\* (encode, decode_message).
THEOREM FramesSurvive == Spec => []FrameSurvives
<1>1. SensorInv => FrameSurvives
  BY DEF SensorInv, FrameSurvives, Rounded
<1>2. QED
  BY <1>1, SensorInvariant, PTL

\* However much of the end of a payload is missing, and if there is a byte
\* more, no frame comes of it (Cursor::take, the checks for trailing bytes).
THEOREM EveryDamageIsNoticed == Spec => []DamageIsNoticed
<1>1. SensorInv => DamageIsNoticed
  BY DEF SensorInv, DamageIsNoticed
<1>2. QED
  BY <1>1, SensorInvariant, PTL

\* The stamp in a frame's message and its scheduling stamp name the same
\* nanosecond where the product has no more digits than an f64; for any other
\* time they are no further apart than half the distance of two f64 there and a
\* nanosecond (sec_nsec, Timestamp::from_secs_f64).
THEOREM StampsAlwaysAgree == Spec => []StampsAgree
<1>1. SensorInv => StampsAgree
  <2> DEFINE s == frame.stamp
             p == Product(s)
             off == outcome.stamp - Parts * sent.stamp
             most == Parts + Grain(s) \div 2
  <2>1. SUFFICES ASSUME SensorInv, decoded, outcome # None
                 PROVE  (s < Mantissa => off = 0) /\ off \in -most..most
    BY DEF StampsAgree
  <2>2. payload # None /\ frame \in Frames
    BY <2>1 DEF SensorInv
  <2>3. sent.stamp = FromSecs(frame.stamp)
    BY <2>1, <2>2 DEF SensorInv
  <2>4. outcome = Rounded(frame)
    BY <2>1 DEF SensorInv
  <2>5. Rounded(frame).stamp = Parts * Nearest(frame.stamp) /\ s \in Nat
    BY <2>2, EveryFrameReturns
  <2>6. off = Parts * Nearest(s) - Parts * Nearest(p)
    BY <2>3, <2>4, <2>5 DEF FromSecs
  <2> HIDE DEF s, off
  <2>7. /\ Parts * Nearest(s) \in Nat
        /\ 2 * (Parts * Nearest(s)) <= 2 * s + Parts
        /\ 2 * s < 2 * (Parts * Nearest(s)) + Parts
    BY <2>5, NearestIs
  <2>8. CASE s < Mantissa
    <3>1. p = s /\ Grain(s) = 1
      BY <2>5, <2>8, ProductIsNear, GrainIs
    <3>2. off = 0
      BY <2>6, <2>7, <3>1
    <3>3. most = Parts /\ Parts \in Nat
      BY <3>1, SecondIs
    <3> HIDE DEF most
    <3>4. QED
      BY <3>2, <3>3
  <2>9. CASE ~(s < Mantissa)
    <3>1. PICK k \in Nat \ {0}, m \in Nat :
            Grain(s) = 2 * k /\ p = 2 * m /\ s - k <= p /\ p <= s + k
      BY <2>5, <2>9, ProductIsNear
    <3>2. most = Parts + k /\ Parts \in Nat
      BY <3>1, SecondIs
    <3>3. p \in Nat
      BY <3>1
    <3>4. /\ Parts * Nearest(p) \in Nat
          /\ 2 * (Parts * Nearest(p)) <= 2 * p + Parts
          /\ 2 * p < 2 * (Parts * Nearest(p)) + Parts
      BY <3>3, NearestIs
    <3> DEFINE a == Parts * Nearest(s)
               b == Parts * Nearest(p)
    <3> HIDE DEF most, p, a, b
    <3>5. a - b \in -(Parts + k)..(Parts + k)
      BY <2>5, <2>7, <3>1, <3>2, <3>3, <3>4 DEF a, b
    <3>6. QED
      BY <2>6, <2>9, <3>2, <3>5 DEF a, b
  <2>10. QED
    BY <2>8, <2>9
<1>2. QED
  BY <1>1, SensorInvariant, PTL

==============================================================================
