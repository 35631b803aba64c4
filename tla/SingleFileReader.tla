-------------------------- MODULE SingleFileReader --------------------------
(***************************************************************************)
(* The read side of one .dcap file: SingleFileReader of                    *)
(* crates/doracap-core/src/storage/singlefile.rs.                          *)
(*                                                                         *)
(* open reads the whole file into memory, parses the header and, when the  *)
(* file ends in a footer trailer, the chunk index.  read_all visits the    *)
(* chunks of the index; a file without a footer, cut off by a crash, is    *)
(* scanned chunk by chunk instead, and the scan fills the index in.  A     *)
(* file of the older linear format (v1) has neither chunks nor an index    *)
(* and is read record by record.                                           *)
(***************************************************************************)
EXTENDS Dcap, SequencesExt

CONSTANTS
  None,         \* Option::None
  MaxReads      \* bound: the number of read_all calls

VARIABLES
  image,        \* the file as the reader finds it, or None
  reader,       \* the reader's fields, or why there are none
  answers       \* history: what the read_all calls returned

Closed == [state |-> "closed"]
OpenFailed == [state |-> "failed"]
Failure == [ok |-> FALSE, msgs |-> <<>>]
Success(msgs) == [ok |-> TRUE, msgs |-> msgs]

------------------------------------------------------------------------------
(* open *)

HeaderValid(img) ==
  /\ Len(img) >= 2
  /\ img[1] \in {MagicCell, LinearMagicCell}
  /\ img[2].kind = "decl"

HasTrailer(img) == Len(img) > 0 /\ Last(img).kind = "trailer"

\* The index entries are the chunk_count cells before the trailer.
FooterIndex(img) ==
  LET count == Last(img).chunk_count
      index_start == Len(img) - 1 - count
  IN  [i \in 1..count |-> img[index_start + i].entry]

\* The footer of a linear file has the number of its messages only.
LinearCount(img) == IF Last(img).kind = "count1" THEN Last(img).msg_count ELSE None

Opened(img) ==
  [state       |-> "open",
   version     |-> IF img[1] = LinearMagicCell THEN 1 ELSE 2,
   schemas     |-> img[2].schemas,
   channels    |-> img[2].channels,
   data_offset |-> 2,
   chunk_index |-> IF HasTrailer(img) THEN FooterIndex(img) ELSE <<>>,
   msg_count   |-> IF HasTrailer(img) THEN Last(img).msg_count
                   ELSE LinearCount(img)]

Open ==
  /\ reader = Closed
  /\ image # None
  /\ reader' = IF HeaderValid(image) THEN Opened(image) ELSE OpenFailed
  /\ UNCHANGED <<image, answers>>

------------------------------------------------------------------------------
(* parse_record, read_chunk_at_offset *)

\* The first declaration with the id: two declarations share an id once the
\* u16 ids have wrapped.
ById(decls, id) == SelectInSeq(decls, LAMBDA d : d.id = id)

KnownRecord(r, m) ==
  LET c == ById(r.channels, m.ch)
  IN  c # 0 /\ ById(r.schemas, r.channels[c].schema_id) # 0

\* OwnedMessage: the payload and stamp with the channel's name and schema.
Parsed(r, m) ==
  LET c == r.channels[ById(r.channels, m.ch)]
  IN  [id |-> m.id, stamp |-> m.stamp, channel |-> c.name,
       schema |-> r.schemas[ById(r.schemas, c.schema_id)].key]

\* Broken on purpose: the crc of the block is not compared.
ChunkUnchecked(r, img, offset) ==
  /\ offset + ChunkHeaderLen <= Len(img)
  /\ img[offset + 1] = ChunkMagicCell
  /\ img[offset + 2].kind = "cfields"
  /\ LET fields == img[offset + 2]
     IN  /\ offset + ChunkHeaderLen + fields.size <= Len(img)
         /\ \A k \in 1..fields.msg_count : KnownRecord(r, fields.crc[k])

\* A chunk is read whole or not at all.  Anything but a fields cell behind the
\* magic, and anything but its own records in the block, ends in an error: a
\* size out of bounds, a block that does not inflate, or the crc.
ChunkReadable(r, img, offset) ==
  /\ offset + ChunkHeaderLen <= Len(img)
  /\ img[offset + 1] = ChunkMagicCell
  /\ img[offset + 2].kind = "cfields"
  /\ LET fields == img[offset + 2]
     IN  /\ offset + ChunkHeaderLen + fields.size <= Len(img)
         /\ \A k \in 1..fields.size :
              img[offset + ChunkHeaderLen + k] = BodyCell(fields.crc[k])
         /\ \A k \in 1..fields.msg_count : KnownRecord(r, fields.crc[k])

ChunkAt(r, img, offset) ==
  LET fields == img[offset + 2]
  IN  [k \in 1..fields.msg_count |-> Parsed(r, fields.crc[k])]

------------------------------------------------------------------------------
(* read_all *)

\* One chunk after the other through the index; the first error ends it.
ReadByIndex(r, img) ==
  IF \A i \in 1..Len(r.chunk_index) :
       ChunkReadable(r, img, r.chunk_index[i].offset)
  THEN Success(FlattenSeq([i \in 1..Len(r.chunk_index) |->
                             ChunkAt(r, img, r.chunk_index[i].offset)]))
  ELSE Failure

\* Broken on purpose: the scan goes on with less than a chunk header left.
ScanEndsAtEnd(img, p) == p >= Len(img) \/ img[p + 1] # ChunkMagicCell

\* No whole chunk header, or no chunk magic, at p: the scan is over.
ScanEnds(img, p) ==
  p + ChunkHeaderLen > Len(img) \/ img[p + 1] # ChunkMagicCell

\* Broken on purpose: the entry points behind the chunk header.
EntryOfBody(msgs, p) ==
  [offset |-> p + ChunkHeaderLen, start_stamp |-> msgs[1].stamp,
   end_stamp |-> msgs[Len(msgs)].stamp, msg_count |-> Len(msgs)]

ScannedEntry(msgs, p) ==
  [offset |-> p, start_stamp |-> msgs[1].stamp,
   end_stamp |-> msgs[Len(msgs)].stamp, msg_count |-> Len(msgs)]

\* scan_v2_chunks from p on: the outcome, the messages, and the entries that
\* are in chunk_index when it ends, also when it ends in an error.
ScanFrom(r, img, first) ==
  LET scan[p \in Nat] ==
        IF ScanEnds(img, p)
        THEN [ok |-> TRUE, msgs |-> <<>>, index |-> <<>>]
        ELSE IF ~ChunkReadable(r, img, p)
        THEN [ok |-> FALSE, msgs |-> <<>>, index |-> <<>>]
        ELSE LET msgs == ChunkAt(r, img, p)
                 rest == scan[p + ChunkHeaderLen + img[p + 2].size]
             IN  [ok    |-> rest.ok,
                  msgs  |-> msgs \o rest.msgs,
                  index |-> <<ScannedEntry(msgs, p)>> \o rest.index]
  IN  scan[first]

\* Broken on purpose: a record is taken although its payload is cut off.
LinearEndsInHead(r, img, p, count) ==
  \/ p >= Len(img)
  \/ r.msg_count # None /\ count >= r.msg_count
  \/ img[p + 1] = LinearEndCell

\* read_v1_all is over at the end of the data, after msg_count messages, at the
\* footer, and at a record that is not complete.
LinearEnds(r, img, p, count) ==
  \/ p >= Len(img)
  \/ r.msg_count # None /\ count >= r.msg_count
  \/ img[p + 1] = LinearEndCell
  \/ p + Len(RecordCells(img[p + 1].msg)) > Len(img)

ReadLinear(r, img) ==
  LET read[at \in Nat \X Nat] ==   \* a position, and the messages before it
        IF LinearEnds(r, img, at[1], at[2]) THEN Success(<<>>)
        ELSE LET m == img[at[1] + 1].msg
                 rest == read[<<at[1] + Len(RecordCells(m)), at[2] + 1>>]
             IN  IF KnownRecord(r, m) /\ rest.ok
                 THEN Success(<<Parsed(r, m)>> \o rest.msgs)
                 ELSE Failure
  IN  read[<<r.data_offset, 0>>]

ReadAll ==
  /\ reader.state = "open"
  /\ Len(answers) < MaxReads
  /\ \/ /\ reader.version = 1
        /\ answers' = Append(answers, ReadLinear(reader, image))
        /\ UNCHANGED reader
     \/ /\ reader.version = 2
        /\ reader.chunk_index # <<>>
        /\ answers' = Append(answers, ReadByIndex(reader, image))
        /\ UNCHANGED reader
     \/ /\ reader.version = 2
        /\ reader.chunk_index = <<>>
        /\ LET s == ScanFrom(reader, image, reader.data_offset)
           IN  /\ answers' = Append(answers, IF s.ok THEN Success(s.msgs)
                                                     ELSE Failure)
               /\ reader' = [reader EXCEPT
                               !.chunk_index = s.index,
                               !.msg_count = IF s.ok THEN Len(s.msgs) ELSE @]
  /\ UNCHANGED image

------------------------------------------------------------------------------
(* seek_chunk: the number of a chunk, or 0 for None *)

SeekChunk(index, target) ==
  IF index = <<>> THEN {0}
  ELSE {IF n = 0 THEN 1 ELSE n :
          n \in PartitionPoints(index, LAMBDA c : c.start_stamp <= target)}

------------------------------------------------------------------------------
(* What `doracap info` prints of a file: how many messages, and from when to *)
(* when.  It asks the index if there is one, and reads the file otherwise.   *)

\* message_count, or the sum over the index; time_range.
IndexSummary(r) ==
  [count |-> IF r.msg_count # None THEN r.msg_count
             ELSE FoldSeq(LAMBDA e, n : e.msg_count + n, 0, r.chunk_index),
   range |-> <<r.chunk_index[1].start_stamp, Last(r.chunk_index).end_stamp>>]

\* Player::open sorts what read_all returns; an empty file has no range.
ContentSummary(msgs) ==
  LET sorted == StableSort(msgs)
  IN  [count |-> Len(msgs),
       range |-> IF msgs = <<>> THEN None
                 ELSE <<sorted[1].stamp, Last(sorted).stamp>>]

\* info opens the file anew: r is a reader that has read nothing yet, and
\* answer what read_all returns.
Info(r, answer) ==
  IF r.chunk_index # <<>> THEN IndexSummary(r) ELSE ContentSummary(answer.msgs)

Init == image = None /\ reader = Closed /\ answers = <<>>

Next == Open \/ ReadAll
==============================================================================
