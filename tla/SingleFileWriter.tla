-------------------------- MODULE SingleFileWriter --------------------------
(***************************************************************************)
(* The write side of one .dcap file: SingleFileWriter of                   *)
(* crates/doracap-core/src/storage/singlefile.rs.                          *)
(*                                                                         *)
(* The writer buffers messages and writes them out in chunks; the header   *)
(* with the schema and channel declarations goes out before the first      *)
(* message, the footer index on finish.  Every method takes &mut self, so  *)
(* a call is one action.  What makes it hard is write_all: it may fail     *)
(* after some of the bytes are in the file, the writer returns Err, and    *)
(* the caller, or Drop, may call it again.                                 *)
(*                                                                         *)
(* file is what was handed to the BufWriter and accepted by it, in order.  *)
(* flushed counts the leading cells known to be with the operating system, *)
(* which the end of the process cannot take away: only the flush in finish *)
(* guarantees any.  Nothing is synced to the disk, so that a loss of power *)
(* may take every cell; that is not modelled.                              *)
(***************************************************************************)
EXTENDS Dcap

CONSTANTS
  Stamps,        \* the scheduling stamps messages may carry
  Lens,          \* the payload lengths
  SchemaKeys,    \* the (type name, encoding) pairs that may be registered
  Names,         \* the channel names that may be registered
  IdSpace,       \* ids are u16: they wrap at 2^16
  Overhead,      \* bytes of a record besides its payload (2 + 8 + 4)
  ChunkTarget,   \* uncompressed bytes at which a chunk is written out
  MaxMessages,   \* bound: the number of messages written
  MaxFailures    \* bound: the number of failing write_all or flush calls

ASSUME WriterAssumption ==
  /\ Stamps \subseteq Nat
  /\ Lens \subseteq Nat
  /\ IdSpace \in Nat \ {0}
  /\ Overhead \in Nat
  /\ ChunkTarget \in Nat \ {0}    \* chunk_target() takes bytes.max(1)
  /\ MaxMessages \in Nat
  /\ MaxFailures \in Nat

VARIABLES
  file,            \* the cells accepted by the BufWriter
  flushed,         \* how many of them have left the process for certain
  open,            \* FALSE once the writer was dropped
  schemas, channels,
  pos, data_offset, header_written, finished,
  pending, pending_bytes,
  chunk_index, msg_ordinal, message_count,
  \* history
  accepted,        \* every message buffered so far, in the order of the calls
  result,          \* what the last write or finish returned
  failures,        \* the number of failed calls of the file
  parted           \* where pos and the end of the file first differed, or -1

registry == <<schemas, channels>>
chunkVars == <<chunk_index, msg_ordinal, message_count>>
vars == <<file, flushed, open, registry, pos, data_offset, header_written,
          finished, pending, pending_bytes, chunkVars, accepted, result,
          failures, parted>>

------------------------------------------------------------------------------
(* Types *)

Message == [id : Nat, ch : Nat, stamp : Nat, len : Nat]
Schema == [id : Nat, key : SchemaKeys]
Channel == [id : Nat, name : Names, schema_id : Nat]
ChunkIndex == [offset : Nat, start_stamp : Nat, end_stamp : Nat,
               msg_count : Nat]

Cell ==
  [kind : {"magic", "cmagic"}]
    \cup [kind : {"decl"}, schemas : Seq(Schema), channels : Seq(Channel)]
    \cup [kind : {"cfields"}, msg_begin : Nat, msg_count : Nat, start : Nat,
          end : Nat, size : Nat, crc : Seq(Message)]
    \cup [kind : {"body"}, msg : Message]
    \cup [kind : {"index"}, entry : ChunkIndex]
    \cup [kind : {"trailer"}, data_offset : Nat, chunk_count : Nat,
          msg_count : Nat]

TypeOK ==
  /\ file \in Seq(Cell)
  /\ flushed \in 0..Len(file)
  /\ open \in BOOLEAN
  /\ schemas \in Seq(Schema)
  /\ channels \in Seq(Channel)
  /\ pos \in Nat
  /\ data_offset \in Nat
  /\ header_written \in BOOLEAN
  /\ finished \in BOOLEAN
  /\ pending \in Seq(Message)
  /\ pending_bytes \in Nat
  /\ chunk_index \in Seq(ChunkIndex)
  /\ msg_ordinal \in Nat
  /\ message_count \in Nat
  /\ accepted \in Seq(Message)
  /\ result \in {"ok", "err"}
  /\ failures \in 0..MaxFailures
  /\ parted \in Nat \cup {-1}

------------------------------------------------------------------------------
(* open *)

Init ==
  /\ file = <<>> /\ flushed = 0 /\ open = TRUE
  /\ schemas = <<>> /\ channels = <<>>
  /\ pos = 0 /\ data_offset = 0
  /\ header_written = FALSE /\ finished = FALSE
  /\ pending = <<>> /\ pending_bytes = 0
  /\ chunk_index = <<>> /\ msg_ordinal = 0 /\ message_count = 0
  /\ accepted = <<>> /\ result = "ok" /\ failures = 0 /\ parted = -1

------------------------------------------------------------------------------
(* add_schema, add_channel *)

NextId(s) == (Len(s) + 1) % IdSpace

\* schema_index and channel_index are the lookups of a key in these sequences:
\* a known key returns its id and changes nothing.
AddSchema(key) ==
  /\ open
  /\ \A i \in 1..Len(schemas) : schemas[i].key # key
  /\ schemas' = Append(schemas, [id |-> NextId(schemas), key |-> key])
  /\ UNCHANGED <<file, flushed, open, channels, pos, data_offset,
                 header_written, finished, pending, pending_bytes, chunkVars,
                 accepted, result, failures, parted>>

AddChannel(name, schema_id) ==
  /\ open
  /\ \A i \in 1..Len(channels) : channels[i].name # name
  /\ channels' = Append(channels, [id |-> NextId(channels), name |-> name,
                                   schema_id |-> schema_id])
  /\ UNCHANGED <<file, flushed, open, schemas, pos, data_offset,
                 header_written, finished, pending, pending_bytes, chunkVars,
                 accepted, result, failures, parted>>

------------------------------------------------------------------------------
(* ensure_header *)

HeaderCells ==
  IF header_written THEN <<>>
  ELSE <<MagicCell, DeclCell(schemas, channels)>>

\* The value of self.pos when ensure_header has succeeded.
HeaderPos == pos + Len(HeaderCells)

HeaderDone ==
  /\ header_written' = TRUE
  /\ data_offset' = IF header_written THEN data_offset ELSE HeaderPos

\* self.pos follows the file as long as every write_all succeeds and the
\* footer, which it does not count, is not written.
NotePos == parted' = IF parted # -1 \/ Len(file') = pos' THEN parted ELSE pos'

\* A failing write_all leaves any part of its buffer in the file, but not all.
Fails == failures < MaxFailures /\ failures' = failures + 1 /\ result' = "err"

Succeeds == failures' = failures /\ result' = "ok"

HeaderFails ==
  /\ ~header_written
  /\ Fails
  /\ \E n \in 0..Len(HeaderCells) - 1 :
       file' = file \o SubSeq(HeaderCells, 1, n)
  /\ UNCHANGED <<pos, data_offset, header_written, pending, pending_bytes,
                 chunkVars, finished>>

------------------------------------------------------------------------------
(* flush_chunk, called with the messages of self.pending *)

\* Broken on purpose: the records go out in the order of the write calls.
ChunkUnsorted(msgs) ==
  IF msgs = <<>> THEN <<>> ELSE ChunkCells(msgs, msg_ordinal)

ChunkOf(msgs) ==
  IF msgs = <<>> THEN <<>> ELSE ChunkCells(StableSort(msgs), msg_ordinal)

\* Broken on purpose: the offset is taken before ensure_header moved pos.
EntryBeforeHeader(msgs) ==
  LET sorted == StableSort(msgs)
  IN  [offset |-> pos, start_stamp |-> sorted[1].stamp,
       end_stamp |-> sorted[Len(sorted)].stamp, msg_count |-> Len(sorted)]

IndexEntry(msgs) ==
  LET sorted == StableSort(msgs)
  IN  [offset |-> HeaderPos, start_stamp |-> sorted[1].stamp,
       end_stamp |-> sorted[Len(sorted)].stamp, msg_count |-> Len(sorted)]

IndexWith(msgs) ==
  IF msgs = <<>> THEN chunk_index ELSE Append(chunk_index, IndexEntry(msgs))

\* The chunk is in the file, followed by the cells of tail, and accounted for.
ChunkWritten(msgs, tail) ==
  /\ HeaderDone
  /\ file' = file \o HeaderCells \o ChunkOf(msgs) \o tail
  /\ pos' = HeaderPos + Len(ChunkOf(msgs))
  /\ chunk_index' = IndexWith(msgs)
  /\ msg_ordinal' = msg_ordinal + Len(msgs)
  /\ message_count' = message_count + Len(msgs)
  /\ pending' = <<>>
  /\ pending_bytes' = 0

\* Broken on purpose: pending is taken before write_all; pos counts the bytes
\* that did not reach the file; pos takes back what was never added to it.
ChunkTakenFirst(msgs, bytes) ==
  /\ msgs # <<>>
  /\ Fails
  /\ HeaderDone
  /\ file' = file \o HeaderCells
  /\ pos' = HeaderPos
  /\ pending' = <<>>
  /\ pending_bytes' = 0
  /\ UNCHANGED <<chunkVars, finished>>

ChunkCountedFirst(msgs, bytes) ==
  /\ msgs # <<>>
  /\ Fails
  /\ HeaderDone
  /\ file' = file \o HeaderCells
  /\ pos' = HeaderPos + Len(ChunkOf(msgs))
  /\ pending' = StableSort(msgs)
  /\ pending_bytes' = bytes
  /\ UNCHANGED <<chunkVars, finished>>

ChunkRolledBack(msgs, bytes) ==
  /\ msgs # <<>>
  /\ Fails
  /\ HeaderDone
  /\ file' = file \o HeaderCells
  /\ pos' = HeaderPos - Len(ChunkOf(msgs))
  /\ pending' = StableSort(msgs)
  /\ pending_bytes' = bytes
  /\ UNCHANGED <<chunkVars, finished>>

\* write_all fails: pending is sorted by then, and nothing is accounted for.
ChunkFails(msgs, bytes) ==
  /\ msgs # <<>>
  /\ Fails
  /\ HeaderDone
  /\ \E n \in 0..Len(ChunkOf(msgs)) - 1 :
       file' = file \o HeaderCells \o SubSeq(ChunkOf(msgs), 1, n)
  /\ pos' = HeaderPos
  /\ pending' = StableSort(msgs)
  /\ pending_bytes' = bytes
  /\ UNCHANGED <<chunkVars, finished>>

------------------------------------------------------------------------------
(* write *)

\* Broken on purpose: a chunk is full when it exceeds the target.
FullLater(bytes) == bytes > ChunkTarget

Full(bytes) == bytes >= ChunkTarget

\* The chunk is not full yet.
Buffer(msgs, bytes) ==
  /\ ~Full(bytes)
  /\ HeaderDone
  /\ file' = file \o HeaderCells
  /\ pos' = HeaderPos
  /\ pending' = msgs
  /\ pending_bytes' = bytes
  /\ Succeeds
  /\ UNCHANGED <<chunkVars, finished>>

FlushFull(msgs, bytes) ==
  /\ Full(bytes)
  /\ \/ ChunkWritten(msgs, <<>>) /\ Succeeds /\ UNCHANGED finished
     \/ ChunkFails(msgs, bytes)

\* Nothing looks at finished here: a write after finish is accepted.  Each
\* call hands over a message of its own, also one that repeats a call that
\* returned Err: if that one failed in its flush, its message was kept.
Write(ch, stamp, len) ==
  /\ open
  /\ Len(accepted) < MaxMessages
  /\ \/ HeaderFails /\ UNCHANGED accepted
     \/ LET m == [id |-> Len(accepted) + 1, ch |-> ch, stamp |-> stamp,
                  len |-> len]
            msgs == Append(pending, m)
            bytes == pending_bytes + Overhead + len
        IN  /\ accepted' = Append(accepted, m)
            /\ Buffer(msgs, bytes) \/ FlushFull(msgs, bytes)
  /\ NotePos
  /\ UNCHANGED <<flushed, open, registry>>

------------------------------------------------------------------------------
(* finish, Drop *)

\* Broken on purpose: the footer is made before the last chunk is flushed.
FooterTooEarly(msgs) ==
  FooterCells(chunk_index, IF header_written THEN data_offset ELSE HeaderPos,
              message_count)

\* Broken on purpose: the last chunk is in the index but not in the count.
FooterShort(msgs) ==
  FooterCells(IndexWith(msgs),
              IF header_written THEN data_offset ELSE HeaderPos,
              message_count)

FooterOf(msgs) ==
  FooterCells(IndexWith(msgs),
              IF header_written THEN data_offset ELSE HeaderPos,
              message_count + Len(msgs))

FooterWritten ==
  /\ ChunkWritten(pending, FooterOf(pending))
  /\ Succeeds
  /\ finished' = TRUE
  /\ flushed' = Len(file')

\* write_all of the footer fails, or the flush after it: then all of the
\* footer may be in the file although finish returns Err.
FooterFails ==
  /\ \E n \in 0..Len(FooterOf(pending)) :
       ChunkWritten(pending, SubSeq(FooterOf(pending), 1, n))
  /\ Fails
  /\ UNCHANGED <<flushed, finished>>

FinishBody ==
  /\ ~finished
  /\ \/ HeaderFails /\ UNCHANGED flushed
     \/ ChunkFails(pending, pending_bytes) /\ UNCHANGED flushed
     \/ FooterFails
     \/ FooterWritten
  /\ NotePos
  /\ UNCHANGED <<registry, accepted>>

\* A second finish returns Ok at once: no step.
Finish == open /\ FinishBody /\ UNCHANGED open

\* Drop calls finish unless it has succeeded, and ignores its result; so does
\* the drop of the BufWriter with the result of its flush, which therefore
\* guarantees nothing.
Drop ==
  /\ open
  /\ open' = FALSE
  /\ \/ FinishBody
     \/ /\ finished
        /\ UNCHANGED <<file, flushed, registry, pos, data_offset,
                       header_written, finished, pending, pending_bytes,
                       chunkVars, accepted, result, failures, parted>>

------------------------------------------------------------------------------

Register ==
  \/ \E key \in SchemaKeys : AddSchema(key)
  \/ \E name \in Names, i \in 1..Len(schemas) : AddChannel(name, schemas[i].id)

WriteAny ==
  \E i \in 1..Len(channels), stamp \in Stamps, len \in Lens :
    Write(channels[i].id, stamp, len)

Next == Register \/ WriteAny \/ Finish \/ Drop

Spec == Init /\ [][Next]_vars

------------------------------------------------------------------------------
(* Properties *)

\* Where the chunk of an index entry ends, and the messages a file has there.
EntryEnd(e) == e.offset + ChunkHeaderLen + e.msg_count

MsgsAt(f, e) ==
  [k \in 1..e.msg_count |-> f[e.offset + ChunkHeaderLen + k].msg]

\* Chunk i was handed to the file at the offset the index has for it: pos and
\* the end of the file had not parted when it was written.
Intact(i) == parted = -1 \/ chunk_index[i].offset < parted

AllIntact == \A i \in 1..Len(chunk_index) : Intact(i)

IsPending(m) == \E k \in 1..Len(pending) : pending[k] = m

IsStored(m) ==
  \E i \in 1..Len(chunk_index) :
    \E k \in 1..chunk_index[i].msg_count : MsgsAt(file, chunk_index[i])[k] = m

\* Every message a call of write has buffered is either still pending or in a
\* chunk of the index, and in one place only: no flush that fails loses a
\* message, and no later flush of the same buffer, by write, finish or Drop,
\* stores one twice.  This is once per call.  A write that failed in its flush
\* has kept its message, so a caller that repeats it hands over a second one.
\* (The messages differ, and there are as many of them as there are places.)
EveryMessageOnce ==
  /\ Len(accepted) = message_count + Len(pending)
  /\ AllIntact => \A k \in 1..Len(accepted) :
                    IsPending(accepted[k]) \/ IsStored(accepted[k])

\* The chunks of an index lie end to end between two offsets, and have so many
\* messages between them.
Tiles(index, first, end, count) ==
  LET n == Len(index)
  IN  /\ n = 0 => count = 0
      /\ n > 0 => index[1].offset = first /\ EntryEnd(index[n]) = end
      /\ \A i \in 1..n - 1 : index[i + 1].offset = EntryEnd(index[i])
      /\ end = first + ChunkHeaderLen * n + count

\* As far as the writer's accounts go, the chunks follow one another without a
\* gap from data_offset to pos, so that a scan by sizes and a lookup by index
\* visit the same chunks, and their counts add up to message_count.
ChunksTile ==
  IF header_written
  THEN Tiles(chunk_index, data_offset, pos, message_count)
  ELSE chunk_index = <<>> /\ pos = 0 /\ message_count = 0

\* The file has a complete chunk where the entry says, numbered from begin.
Located(f, e, begin) ==
  /\ EntryEnd(e) <= Len(f)
  /\ \A k \in 1..e.msg_count : f[e.offset + ChunkHeaderLen + k].kind = "body"
  /\ \A j \in 1..ChunkHeaderLen + e.msg_count :
       f[e.offset + j] = ChunkCells(MsgsAt(f, e), begin)[j]

\* Wherever a write_all failed, each chunk written before the first failure
\* that left bytes behind is where its index entry says, complete, and numbered
\* by the messages before it.
IndexLocatesChunks ==
  \A i \in 1..Len(chunk_index) : Intact(i) =>
    Located(file, chunk_index[i],
            chunk_index[i].offset - data_offset - ChunkHeaderLen * (i - 1))

\* Messages in the order of their stamps, equal stamps in the order of the
\* write calls.
InWriteOrder(ms) ==
  /\ SortedByStamp(ms)
  /\ \A j, k \in 1..Len(ms) :
       j < k /\ ms[j].stamp = ms[k].stamp => ms[j].id < ms[k].id

\* Each chunk has its messages in the order of their stamps, equal stamps in
\* the order of the write calls, and its index entry has the first and the last
\* stamp: a failed flush, which leaves pending sorted and is followed by more
\* writes, must not disturb this.
ChunksSorted ==
  \A i \in 1..Len(chunk_index) : Intact(i) =>
    LET e == chunk_index[i]
        ms == MsgsAt(file, e)
    IN  /\ InWriteOrder(ms)
        /\ e.start_stamp = ms[1].stamp
        /\ e.end_stamp = ms[e.msg_count].stamp

\* The buffer is bounded: after a write or finish that returned Ok, less than
\* chunk_target bytes wait in memory.
BufferBounded == result = "ok" => pending_bytes < ChunkTarget
==============================================================================
