-------------------------------- MODULE Dcap --------------------------------
(***************************************************************************)
(* The data every part of doracap shares: messages on a time line, the     *)
(* stable sort by scheduling stamp (slice::sort_by_key), the binary search *)
(* (slice::partition_point), and a .dcap file as a sequence of cells.      *)
(*                                                                         *)
(* A cell is the smallest run of bytes the readers tell apart.  An offset  *)
(* is the number of cells before a position, so that lengths, offsets and  *)
(* truncations are exact up to the cell:                                   *)
(*   magic, decl         the file header and the schema/channel section    *)
(*   cmagic, cfields     the 10 magic bytes and the 40 bytes of fields of  *)
(*                       a chunk header                                    *)
(*   body                the share of one message in the compressed block  *)
(*   index, trailer      one footer entry, and the 32-byte footer trailer  *)
(* and, in a file of the linear format v1,                                 *)
(*   magic1              the file header of that version                   *)
(*   record, payload     the 14 bytes before a payload, and the payload    *)
(*   end1, count1        END_MAGIC, and the 16 bytes of counts behind it   *)
(* A message is a record with the fields id (stands for the payload bytes, *)
(* different for every write), ch (channel id), stamp and len.             *)
(***************************************************************************)
EXTENDS Integers, Sequences, FiniteSets

------------------------------------------------------------------------------
(* Order *)

\* The messages of s a stable sort by stamp does not put after message j: those
\* with a smaller stamp, and those with the same stamp that are not behind it.
NotAfter(s, j) ==
  {k \in 1..Len(s) : \/ s[k].stamp < s[j].stamp
                     \/ s[k].stamp = s[j].stamp /\ k <= j}

\* Where the sort puts message j, and which message it puts at place i.
Rank(s, j) == Cardinality(NotAfter(s, j))
Place(s, i) == CHOOSE j \in 1..Len(s) : Rank(s, j) = i

StableSort(s) == [i \in 1..Len(s) |-> s[Place(s, i)]]

SortedByStamp(s) ==
  \A i, j \in 1..Len(s) : i <= j => s[i].stamp <= s[j].stamp

\* What the sequence s has of the set S, in its order.
Only(s, S) ==
  LET upto[i \in 0..Len(s)] ==
        IF i = 0 THEN <<>>
        ELSE IF s[i] \in S THEN Append(upto[i - 1], s[i]) ELSE upto[i - 1]
  IN  upto[Len(s)]

\* The result of slice::partition_point where the elements that satisfy the
\* predicate form a prefix of s is the length of that prefix.  Where they do
\* not, the binary search still ends where the predicate changes from true to
\* false, at any such place.
PartitionPoints(s, P(_)) ==
  {n \in 0..Len(s) : /\ n > 0 => P(s[n])
                     /\ n < Len(s) => ~P(s[n + 1])}

------------------------------------------------------------------------------
(* Cells *)

MagicCell == [kind |-> "magic"]
ChunkMagicCell == [kind |-> "cmagic"]

DeclCell(schemas, channels) ==
  [kind |-> "decl", schemas |-> schemas, channels |-> channels]

\* size is compressed_size, one cell per message, and crc stands for the
\* records it was computed from: crc32 is taken to be free of collisions.
FieldsCell(msgs, begin) ==
  [kind      |-> "cfields",
   msg_begin |-> begin,
   msg_count |-> Len(msgs),
   start     |-> msgs[1].stamp,
   end       |-> msgs[Len(msgs)].stamp,
   size      |-> Len(msgs),
   crc       |-> msgs]

BodyCell(m) == [kind |-> "body", msg |-> m]

ChunkHeaderLen == 2

\* The cells of one chunk whose (sorted) messages are msgs.
ChunkCells(msgs, begin) ==
  [i \in 1..ChunkHeaderLen + Len(msgs) |->
     IF i = 1 THEN ChunkMagicCell
     ELSE IF i = 2 THEN FieldsCell(msgs, begin)
     ELSE BodyCell(msgs[i - ChunkHeaderLen])]

IndexCell(ci) == [kind |-> "index", entry |-> ci]

TrailerCell(data_offset, chunk_count, msg_count) ==
  [kind |-> "trailer", data_offset |-> data_offset,
   chunk_count |-> chunk_count, msg_count |-> msg_count]

\* The footer: one cell per chunk and the trailer.
FooterCells(index, data_offset, msg_count) ==
  [i \in 1..Len(index) + 1 |->
     IF i <= Len(index) THEN IndexCell(index[i])
     ELSE TrailerCell(data_offset, Len(index), msg_count)]

------------------------------------------------------------------------------
(* Cells of the linear format *)

LinearMagicCell == [kind |-> "magic1"]
LinearEndCell == [kind |-> "end1"]
LinearCountCell(count) == [kind |-> "count1", msg_count |-> count]

\* A payload of length 0 has no bytes behind the record.
RecordCells(m) ==
  IF m.len = 0 THEN <<[kind |-> "record", msg |-> m]>>
  ELSE <<[kind |-> "record", msg |-> m], [kind |-> "payload", msg |-> m]>>
==============================================================================
