----------------------- MODULE SingleFileWriter_proofs -----------------------
(***************************************************************************)
(* Proofs about the writer of a .dcap file, for every set of stamps, every *)
(* chunk target and any number of messages and of failing calls.           *)
(*                                                                         *)
(* The second part is about what the file holds: each chunk is where the   *)
(* index has it and in the order of its stamps, and every message is in    *)
(* one place.  The file only grows, so that a chunk that is complete stays *)
(* so.  A new chunk is handed to the file at pos; as long as no failed     *)
(* write_all left bytes behind, that is the end of the file, and the       *)
(* sorted messages are at the offset of the new entry.  Afterwards nothing *)
(* is claimed of new chunks, and the invariant says why the old ones can   *)
(* be told apart: pos never goes back behind the place where it parted     *)
(* from the file.                                                          *)
(*                                                                         *)
(* The third part is the shape of the file as a reader meets it (ShapeInv):*)
(* its header, its footer, and that what a failed call left behind is      *)
(* never read as a chunk, whatever is written after it.                    *)
(***************************************************************************)
EXTENDS SingleFileWriter, Dcap_proofs

------------------------------------------------------------------------------
(* Types of what the actions are built from *)

LEMMA MessageFields ==
  ASSUME NEW m \in Message
  PROVE  m.id \in Nat /\ m.ch \in Nat /\ m.stamp \in Nat /\ m.len \in Nat
  BY DEF Message

LEMMA MessageStamped == Stamped(Message)
  BY MessageFields DEF Stamped

\* The part of a sequence up to a place.
LEMMA PrefixProperties ==
  ASSUME NEW S, NEW s \in Seq(S), NEW n \in 0..Len(s)
  PROVE  /\ SubSeq(s, 1, n) \in Seq(S)
         /\ Len(SubSeq(s, 1, n)) = n
  OBVIOUS

LEMMA SortedMessages ==
  ASSUME NEW msgs \in Seq(Message)
  PROVE  /\ StableSort(msgs) \in Seq(Message)
         /\ Len(StableSort(msgs)) = Len(msgs)
  BY MessageStamped, StableSortRearranges

LEMMA ChunkCellsType ==
  ASSUME NEW msgs \in Seq(Message), msgs # <<>>, NEW begin \in Nat
  PROVE  /\ ChunkCells(msgs, begin) \in Seq(Cell)
         /\ Len(ChunkCells(msgs, begin)) = ChunkHeaderLen + Len(msgs)
<1>1. Len(msgs) \in Nat \ {0}
  OBVIOUS
<1>2. \A i \in 1..Len(msgs) : msgs[i] \in Message /\ msgs[i].stamp \in Nat
  BY MessageFields
<1>3. FieldsCell(msgs, begin) \in Cell
  BY <1>1, <1>2 DEF FieldsCell, Cell
<1>4. \A i \in 1..Len(msgs) : BodyCell(msgs[i]) \in Cell
  BY <1>2 DEF BodyCell, Cell
<1>5. ChunkMagicCell \in Cell
  BY DEF ChunkMagicCell, Cell
<1>6. ASSUME NEW i \in 1..ChunkHeaderLen + Len(msgs)
      PROVE  (IF i = 1 THEN ChunkMagicCell
              ELSE IF i = 2 THEN FieldsCell(msgs, begin)
              ELSE BodyCell(msgs[i - ChunkHeaderLen])) \in Cell
  BY <1>1, <1>3, <1>4, <1>5 DEF ChunkHeaderLen
<1>7. ChunkCells(msgs, begin) \in [1..ChunkHeaderLen + Len(msgs) -> Cell]
  BY <1>6 DEF ChunkCells
<1>8. QED
  BY <1>1, <1>7 DEF ChunkHeaderLen

LEMMA HeaderCellsType ==
  ASSUME TypeOK
  PROVE  /\ HeaderCells \in Seq(Cell)
         /\ Len(HeaderCells) = IF header_written THEN 0 ELSE 2
         /\ HeaderPos \in Nat
<1>1. MagicCell \in Cell
  BY DEF MagicCell, Cell
<1>2. DeclCell(schemas, channels) \in Cell
  BY DEF TypeOK, DeclCell, Cell
<1>3. HeaderCells \in Seq(Cell) /\ Len(HeaderCells) = IF header_written THEN 0 ELSE 2
  BY <1>1, <1>2 DEF HeaderCells
<1>4. QED
  BY <1>3 DEF HeaderPos, TypeOK

LEMMA ChunkOfType ==
  ASSUME TypeOK, NEW msgs \in Seq(Message)
  PROVE  /\ ChunkOf(msgs) \in Seq(Cell)
         /\ Len(ChunkOf(msgs)) =
              IF msgs = <<>> THEN 0 ELSE ChunkHeaderLen + Len(msgs)
<1>1. CASE msgs = <<>>
  BY <1>1 DEF ChunkOf
<1>2. CASE msgs # <<>>
  <2>1. StableSort(msgs) # <<>>
    BY <1>2, SortedMessages
  <2>2. QED
    BY <1>2, <2>1, SortedMessages, ChunkCellsType DEF ChunkOf, TypeOK
<1>3. QED
  BY <1>1, <1>2

LEMMA IndexWithType ==
  ASSUME TypeOK, NEW msgs \in Seq(Message)
  PROVE  /\ IndexWith(msgs) \in Seq(ChunkIndex)
         /\ msgs # <<>> => IndexEntry(msgs) \in ChunkIndex
<1>1. CASE msgs = <<>>
  BY <1>1 DEF IndexWith, TypeOK
<1>2. CASE msgs # <<>>
  <2> DEFINE sorted == StableSort(msgs)
  <2>1. sorted \in Seq(Message) /\ Len(sorted) = Len(msgs) /\ Len(sorted) \in Nat \ {0}
    BY <1>2, SortedMessages
  <2>2. sorted[1].stamp \in Nat /\ sorted[Len(sorted)].stamp \in Nat
    BY <2>1, MessageFields
  <2>3. IndexEntry(msgs) \in ChunkIndex
    BY <2>1, <2>2, HeaderCellsType DEF IndexEntry, ChunkIndex
  <2>4. QED
    BY <1>2, <2>3 DEF IndexWith, TypeOK
<1>3. QED
  BY <1>1, <1>2

LEMMA FooterType ==
  ASSUME TypeOK
  PROVE  FooterOf(pending) \in Seq(Cell)
<1> DEFINE index == IndexWith(pending)
           offset == IF header_written THEN data_offset ELSE HeaderPos
           count == message_count + Len(pending)
<1>1. index \in Seq(ChunkIndex) /\ Len(index) \in Nat
  BY IndexWithType DEF TypeOK
<1>2. offset \in Nat /\ count \in Nat
  BY HeaderCellsType DEF TypeOK
<1>3. \A i \in 1..Len(index) : IndexCell(index[i]) \in Cell
  BY <1>1 DEF IndexCell, Cell
<1>4. TrailerCell(offset, Len(index), count) \in Cell
  BY <1>1, <1>2 DEF TrailerCell, Cell
<1>5. FooterCells(index, offset, count) \in [1..Len(index) + 1 -> Cell]
  BY <1>1, <1>3, <1>4 DEF FooterCells
<1>6. QED
  BY <1>1, <1>5 DEF FooterOf

------------------------------------------------------------------------------
(* Type correctness *)

\* The variables the steps of a write or a finish change, and how the length
\* of the file changes.
CallTypeOK ==
  /\ file \in Seq(Cell)
  /\ pos \in Nat
  /\ data_offset \in Nat
  /\ header_written \in BOOLEAN
  /\ pending \in Seq(Message)
  /\ pending_bytes \in Nat
  /\ chunk_index \in Seq(ChunkIndex)
  /\ msg_ordinal \in Nat
  /\ message_count \in Nat

FileGrows == Len(file) <= Len(file')

LEMMA FailsType ==
  ASSUME TypeOK, Fails \/ Succeeds
  PROVE  failures' \in 0..MaxFailures /\ result' \in {"ok", "err"}
  BY WriterAssumption DEF TypeOK, Fails, Succeeds

LEMMA NotePosType ==
  ASSUME TypeOK, pos' \in Nat, NotePos
  PROVE  parted' \in Nat \cup {-1}
  BY DEF TypeOK, NotePos

LEMMA HeaderDoneType ==
  ASSUME TypeOK, HeaderDone
  PROVE  data_offset' \in Nat /\ header_written' \in BOOLEAN
  BY HeaderCellsType DEF TypeOK, HeaderDone

LEMMA HeaderFailsType ==
  ASSUME TypeOK, HeaderFails
  PROVE  CallTypeOK' /\ FileGrows
<1>1. PICK n \in 0..Len(HeaderCells) - 1 :
        file' = file \o SubSeq(HeaderCells, 1, n)
  BY DEF HeaderFails
<1>2. HeaderCells \in Seq(Cell) /\ n \in 0..Len(HeaderCells)
  BY <1>1, HeaderCellsType
<1>3. SubSeq(HeaderCells, 1, n) \in Seq(Cell)
  BY <1>2, PrefixProperties
<1>4. file' \in Seq(Cell) /\ Len(file') >= Len(file)
  BY <1>1, <1>3 DEF TypeOK
<1>5. QED
  BY <1>4 DEF HeaderFails, TypeOK, CallTypeOK, FileGrows, chunkVars

LEMMA ChunkWrittenType ==
  ASSUME TypeOK, NEW msgs \in Seq(Message), NEW tail \in Seq(Cell),
         ChunkWritten(msgs, tail)
  PROVE  CallTypeOK' /\ FileGrows
<1>1. HeaderCells \in Seq(Cell) /\ HeaderPos \in Nat
  BY HeaderCellsType
<1>2. ChunkOf(msgs) \in Seq(Cell) /\ Len(ChunkOf(msgs)) \in Nat
  BY ChunkOfType
<1>3. file' \in Seq(Cell) /\ Len(file') >= Len(file)
  BY <1>1, <1>2 DEF ChunkWritten, TypeOK
<1>4. pos' \in Nat
  BY <1>1, <1>2 DEF ChunkWritten
<1>5. chunk_index' \in Seq(ChunkIndex)
  BY IndexWithType DEF ChunkWritten
<1>6. data_offset' \in Nat /\ header_written' \in BOOLEAN
  BY HeaderDoneType DEF ChunkWritten
<1>7. msg_ordinal' \in Nat /\ message_count' \in Nat
  BY SMTT(30) DEF ChunkWritten, TypeOK
<1>8. pending' \in Seq(Message) /\ pending_bytes' \in Nat
  BY DEF ChunkWritten
<1>9. QED
  BY <1>3, <1>4, <1>5, <1>6, <1>7, <1>8 DEF CallTypeOK, FileGrows

LEMMA ChunkFailsType ==
  ASSUME TypeOK, NEW msgs \in Seq(Message), NEW bytes \in Nat,
         ChunkFails(msgs, bytes)
  PROVE  CallTypeOK' /\ FileGrows
<1>1. PICK n \in 0..Len(ChunkOf(msgs)) - 1 :
        file' = file \o HeaderCells \o SubSeq(ChunkOf(msgs), 1, n)
  BY DEF ChunkFails
<1>2. ChunkOf(msgs) \in Seq(Cell) /\ n \in 0..Len(ChunkOf(msgs))
  BY <1>1, ChunkOfType
<1>3. SubSeq(ChunkOf(msgs), 1, n) \in Seq(Cell)
  BY <1>2, PrefixProperties
<1>4. HeaderCells \in Seq(Cell) /\ HeaderPos \in Nat
  BY HeaderCellsType
<1>5. file' \in Seq(Cell) /\ Len(file') >= Len(file)
  BY <1>1, <1>3, <1>4 DEF TypeOK
<1>6. pending' \in Seq(Message) /\ pending_bytes' \in Nat /\ pos' \in Nat
  BY <1>4, SortedMessages DEF ChunkFails
<1>7. data_offset' \in Nat /\ header_written' \in BOOLEAN
  BY HeaderDoneType DEF ChunkFails
<1>8. QED
  BY <1>5, <1>6, <1>7 DEF ChunkFails, TypeOK, CallTypeOK, FileGrows, chunkVars

LEMMA BufferType ==
  ASSUME TypeOK, NEW msgs \in Seq(Message), NEW bytes \in Nat,
         Buffer(msgs, bytes)
  PROVE  CallTypeOK' /\ FileGrows
<1>1. HeaderCells \in Seq(Cell) /\ HeaderPos \in Nat
  BY HeaderCellsType
<1>2. file' \in Seq(Cell) /\ Len(file') >= Len(file) /\ pos' \in Nat
  BY <1>1 DEF Buffer, TypeOK
<1>3. data_offset' \in Nat /\ header_written' \in BOOLEAN
  BY HeaderDoneType DEF Buffer
<1>4. QED
  BY <1>2, <1>3 DEF Buffer, TypeOK, CallTypeOK, FileGrows, chunkVars

------------------------------------------------------------------------------
(* What a call of write buffers *)

LEMMA NewMessage ==
  ASSUME TypeOK, NEW ch \in Nat, NEW stamp \in Stamps, NEW len \in Lens
  PROVE  /\ [id |-> Len(accepted) + 1, ch |-> ch, stamp |-> stamp,
             len |-> len] \in Message
         /\ pending_bytes + Overhead + len \in Nat
<1>1. stamp \in Nat /\ len \in Nat /\ Overhead \in Nat
  BY WriterAssumption
<1>2. Len(accepted) + 1 \in Nat /\ pending_bytes \in Nat
  BY DEF TypeOK
<1>3. QED
  BY <1>1, <1>2 DEF Message

LEMMA WriteType ==
  ASSUME TypeOK, NEW ch \in Nat, NEW stamp \in Stamps, NEW len \in Lens,
         Write(ch, stamp, len)
  PROVE  TypeOK'
<1> DEFINE m == [id |-> Len(accepted) + 1, ch |-> ch, stamp |-> stamp,
                 len |-> len]
           msgs == Append(pending, m)
           bytes == pending_bytes + Overhead + len
<1>1. m \in Message /\ bytes \in Nat
  BY NewMessage
<1>2. msgs \in Seq(Message) /\ Append(accepted, m) \in Seq(Message)
  BY <1>1 DEF TypeOK
<1>3. /\ CallTypeOK' /\ FileGrows
      /\ accepted' \in Seq(Message) /\ finished' = finished
      /\ Fails \/ Succeeds
  <2>1. CASE HeaderFails /\ UNCHANGED accepted
    BY <2>1, HeaderFailsType DEF HeaderFails, TypeOK
  <2>2. CASE accepted' = Append(accepted, m) /\ Buffer(msgs, bytes)
    BY <2>2, <1>1, <1>2, BufferType DEF Buffer
  <2>3. CASE accepted' = Append(accepted, m) /\ ChunkWritten(msgs, <<>>)
               /\ Succeeds /\ UNCHANGED finished
    <3>1. << >> \in Seq(Cell)
      OBVIOUS
    <3>2. CallTypeOK' /\ FileGrows
      BY <2>3, <3>1, <1>2, ChunkWrittenType
    <3>3. QED
      BY <2>3, <3>2, <1>2
  <2>4. CASE accepted' = Append(accepted, m) /\ ChunkFails(msgs, bytes)
    BY <2>4, <1>1, <1>2, ChunkFailsType DEF ChunkFails
  <2>5. QED
    BY <2>1, <2>2, <2>3, <2>4 DEF Write, FlushFull
<1>4. parted' \in Nat \cup {-1}
  BY <1>3, NotePosType DEF Write, CallTypeOK
<1>5. flushed' \in 0..Len(file')
  BY <1>3 DEF Write, TypeOK, FileGrows, CallTypeOK
<1>6. open' \in BOOLEAN /\ schemas' \in Seq(Schema) /\ channels' \in Seq(Channel)
  BY DEF Write, TypeOK, registry
<1>7. failures' \in 0..MaxFailures /\ result' \in {"ok", "err"}
  BY <1>3, FailsType
<1>8. finished' \in BOOLEAN
  BY <1>3 DEF TypeOK
<1>9. QED
  BY <1>3, <1>4, <1>5, <1>6, <1>7, <1>8 DEF TypeOK, CallTypeOK

LEMMA FinishBodyType ==
  ASSUME TypeOK, FinishBody, open' \in BOOLEAN
  PROVE  TypeOK'
<1>1. pending \in Seq(Message) /\ pending_bytes \in Nat
  BY DEF TypeOK
<1>2. FooterOf(pending) \in Seq(Cell)
  BY FooterType
<1>3. /\ CallTypeOK' /\ FileGrows
      /\ Fails \/ Succeeds
      /\ finished' \in BOOLEAN
      /\ flushed' \in 0..Len(file')
  <2>1. CASE HeaderFails /\ UNCHANGED flushed
    <3>1. CallTypeOK' /\ FileGrows
      BY <2>1, HeaderFailsType
    <3>2. flushed' \in 0..Len(file')
      BY <2>1, <3>1 DEF TypeOK, FileGrows, CallTypeOK
    <3>3. QED
      BY <2>1, <3>1, <3>2 DEF HeaderFails, TypeOK
  <2>2. CASE ChunkFails(pending, pending_bytes) /\ UNCHANGED flushed
    <3>1. CallTypeOK' /\ FileGrows
      BY <2>2, <1>1, ChunkFailsType
    <3>2. flushed' \in 0..Len(file')
      BY <2>2, <3>1 DEF TypeOK, FileGrows, CallTypeOK
    <3>3. QED
      BY <2>2, <3>1, <3>2 DEF ChunkFails, TypeOK
  <2>3. CASE FooterFails
    <3>1. PICK n \in 0..Len(FooterOf(pending)) :
            ChunkWritten(pending, SubSeq(FooterOf(pending), 1, n))
      BY <2>3 DEF FooterFails
    <3>2. SubSeq(FooterOf(pending), 1, n) \in Seq(Cell)
      BY <1>2, PrefixProperties
    <3>3. CallTypeOK' /\ FileGrows
      BY <1>1, <3>1, <3>2, ChunkWrittenType
    <3>4. QED
      BY <2>3, <3>3 DEF FooterFails, TypeOK, FileGrows, CallTypeOK
  <2>4. CASE FooterWritten
    <3>1. CallTypeOK' /\ FileGrows
      BY <2>4, <1>1, <1>2, ChunkWrittenType DEF FooterWritten
    <3>2. Len(file') \in Nat
      BY <3>1 DEF CallTypeOK
    <3>3. QED
      BY <2>4, <3>1, <3>2 DEF FooterWritten
  <2>5. QED
    BY <2>1, <2>2, <2>3, <2>4 DEF FinishBody
<1>4. parted' \in Nat \cup {-1}
  BY <1>3, NotePosType DEF FinishBody, CallTypeOK
<1>5. /\ schemas' \in Seq(Schema) /\ channels' \in Seq(Channel)
      /\ accepted' \in Seq(Message)
  BY DEF FinishBody, TypeOK, registry
<1>6. failures' \in 0..MaxFailures /\ result' \in {"ok", "err"}
  BY <1>3, FailsType
<1>7. QED
  BY <1>3, <1>4, <1>5, <1>6 DEF TypeOK, CallTypeOK

LEMMA RegisterType ==
  ASSUME TypeOK, Register
  PROVE  TypeOK'
<1>1. ASSUME NEW key \in SchemaKeys, AddSchema(key)
      PROVE  TypeOK'
  <2>1. NextId(schemas) \in Nat
    BY WriterAssumption DEF TypeOK, NextId
  <2>2. [id |-> NextId(schemas), key |-> key] \in Schema
    BY <2>1 DEF Schema
  <2>3. schemas' \in Seq(Schema)
    BY <1>1, <2>2 DEF AddSchema, TypeOK
  <2>4. QED
    BY <1>1, <2>3 DEF AddSchema, TypeOK, chunkVars
<1>2. ASSUME NEW name \in Names, NEW i \in 1..Len(schemas),
             AddChannel(name, schemas[i].id)
      PROVE  TypeOK'
  <2>1. NextId(channels) \in Nat
    BY WriterAssumption DEF TypeOK, NextId
  <2>2. schemas[i] \in Schema
    BY DEF TypeOK
  <2>3. schemas[i].id \in Nat
    BY <2>2 DEF Schema
  <2>4. [id |-> NextId(channels), name |-> name,
         schema_id |-> schemas[i].id] \in Channel
    BY <2>1, <2>3 DEF Channel
  <2>5. channels' \in Seq(Channel)
    BY <1>2, <2>4 DEF AddChannel, TypeOK
  <2>6. QED
    BY <1>2, <2>5 DEF AddChannel, TypeOK, chunkVars
<1>3. QED
  BY <1>1, <1>2 DEF Register

LEMMA DropType ==
  ASSUME TypeOK, Drop
  PROVE  TypeOK'
<1>1. open' \in BOOLEAN
  BY DEF Drop
<1>2. CASE FinishBody
  BY <1>1, <1>2, FinishBodyType
<1>3. CASE UNCHANGED <<file, flushed, registry, pos, data_offset,
                       header_written, finished, pending, pending_bytes,
                       chunkVars, accepted, result, failures, parted>>
  BY <1>1, <1>3 DEF TypeOK, registry, chunkVars
<1>4. QED
  BY <1>2, <1>3 DEF Drop

LEMMA InitType == Init => TypeOK
<1>1. SUFFICES ASSUME Init
               PROVE  TypeOK
  OBVIOUS
<1>2. /\ file \in Seq(Cell) /\ schemas \in Seq(Schema)
      /\ channels \in Seq(Channel) /\ pending \in Seq(Message)
      /\ chunk_index \in Seq(ChunkIndex) /\ accepted \in Seq(Message)
  BY <1>1 DEF Init
<1>3. Len(file) = 0
  BY <1>1 DEF Init
<1>4. /\ flushed \in 0..Len(file)
      /\ pos \in Nat /\ data_offset \in Nat /\ pending_bytes \in Nat
      /\ msg_ordinal \in Nat /\ message_count \in Nat
      /\ failures \in 0..MaxFailures /\ parted \in Nat \cup {-1}
  BY <1>1, <1>3, WriterAssumption DEF Init
<1>5. /\ open \in BOOLEAN /\ header_written \in BOOLEAN
      /\ finished \in BOOLEAN /\ result \in {"ok", "err"}
  BY <1>1 DEF Init
<1>6. QED
  BY <1>2, <1>4, <1>5 DEF TypeOK

LEMMA StepType == TypeOK /\ [Next]_vars => TypeOK'
<1>1. SUFFICES ASSUME TypeOK, [Next]_vars
               PROVE  TypeOK'
  OBVIOUS
<1>2. CASE Register
  BY <1>1, <1>2, RegisterType
<1>3. CASE WriteAny
  <2>1. PICK i \in 1..Len(channels), stamp \in Stamps, len \in Lens :
          Write(channels[i].id, stamp, len)
    BY <1>3 DEF WriteAny
  <2>2. channels[i] \in Channel
    BY <1>1 DEF TypeOK
  <2>3. channels[i].id \in Nat
    BY <2>2 DEF Channel
  <2>4. QED
    BY <1>1, <2>1, <2>3, WriteType
<1>4. CASE Finish
  BY <1>1, <1>4, FinishBodyType DEF Finish, TypeOK
<1>5. CASE Drop
  BY <1>1, <1>5, DropType
<1>6. CASE UNCHANGED vars
  BY <1>1, <1>6 DEF vars, TypeOK, registry, chunkVars
<1>7. QED
  BY <1>1, <1>2, <1>3, <1>4, <1>5, <1>6 DEF Next

\* Every state of the writer has the types of its fields: in particular no
\* count, offset or size leaves the naturals, and the flushed part of the file
\* is never longer than the file.
THEOREM TypeCorrect == Spec => []TypeOK
  BY InitType, StepType, PTL DEF Spec

------------------------------------------------------------------------------
(* The accounts of the writer: pos, the index and the counts *)

LEMMA EntryFields ==
  ASSUME NEW e \in ChunkIndex
  PROVE  /\ e.offset \in Nat /\ e.start_stamp \in Nat
         /\ e.end_stamp \in Nat /\ e.msg_count \in Nat
         /\ EntryEnd(e) = e.offset + 2 + e.msg_count
         /\ EntryEnd(e) \in Nat
  BY DEF ChunkIndex, EntryEnd, ChunkHeaderLen

LEMMA TilesNothing ==
  ASSUME NEW first \in Nat
  PROVE  Tiles(<<>>, first, first, 0)
  BY DEF Tiles, ChunkHeaderLen

\* A chunk put at the end of the others extends them.
LEMMA TilesAppend ==
  ASSUME NEW index \in Seq(ChunkIndex), NEW first \in Nat, NEW end \in Nat,
         NEW count \in Nat, Tiles(index, first, end, count),
         NEW e \in ChunkIndex, e.offset = end
  PROVE  Tiles(Append(index, e), first, EntryEnd(e), count + e.msg_count)
<1> DEFINE n == Len(index)
           longer == Append(index, e)
<1>1. /\ n \in Nat /\ Len(longer) = n + 1 /\ longer[n + 1] = e
      /\ \A i \in 1..n : longer[i] = index[i]
  OBVIOUS
<1>2. e.msg_count \in Nat /\ EntryEnd(e) = end + 2 + e.msg_count
  BY EntryFields
<1>3. EntryEnd(e) = first + ChunkHeaderLen * (n + 1) + (count + e.msg_count)
  BY <1>1, <1>2 DEF Tiles, ChunkHeaderLen
<1>4. longer[1].offset = first
  <2>1. CASE n = 0
    BY <1>1, <2>1 DEF Tiles, ChunkHeaderLen
  <2>2. CASE n > 0
    BY <1>1, <2>2 DEF Tiles
  <2>3. QED
    BY <1>1, <2>1, <2>2
<1>5. ASSUME NEW i \in 1..n
      PROVE  longer[i + 1].offset = EntryEnd(longer[i])
  <2>1. CASE i = n
    BY <1>1, <2>1 DEF Tiles
  <2>2. CASE i # n
    <3>1. i \in 1..n - 1 /\ i + 1 \in 1..n
      BY <1>1, <2>2
    <3>2. QED
      BY <1>1, <3>1 DEF Tiles
  <2>3. QED
    BY <2>1, <2>2
<1>6. n + 1 - 1 = n /\ n + 1 > 0 /\ n + 1 # 0
  BY <1>1
<1>7. QED
  BY <1>1, <1>3, <1>4, <1>5, <1>6 DEF Tiles

\* The counts follow each other, and the chunks tile the file.
AccountsInv == ChunksTile /\ msg_ordinal = message_count

\* What the accounts are when ensure_header has succeeded.
LEMMA TilesAfterHeader ==
  ASSUME TypeOK, AccountsInv, HeaderDone
  PROVE  Tiles(chunk_index, data_offset', HeaderPos, message_count)
<1>1. CASE header_written
  <2>1. HeaderPos = pos /\ data_offset' = data_offset
    <3>1. Len(HeaderCells) = 0 /\ pos \in Nat
      BY <1>1, HeaderCellsType DEF TypeOK
    <3>2. QED
      BY <1>1, <3>1 DEF HeaderPos, HeaderDone
  <2>2. QED
    BY <1>1, <2>1 DEF AccountsInv, ChunksTile
<1>2. CASE ~header_written
  <2>1. data_offset' = HeaderPos /\ HeaderPos \in Nat
    BY <1>2, HeaderCellsType DEF HeaderDone
  <2>2. chunk_index = <<>> /\ message_count = 0
    BY <1>2 DEF AccountsInv, ChunksTile
  <2>3. QED
    BY <2>1, <2>2, TilesNothing
<1>3. QED
  BY <1>1, <1>2

LEMMA AccountsHeader ==
  ASSUME TypeOK, AccountsInv, HeaderDone, pos' = HeaderPos,
         UNCHANGED chunkVars
  PROVE  AccountsInv'
  BY TilesAfterHeader DEF AccountsInv, ChunksTile, HeaderDone, chunkVars

LEMMA AccountsWritten ==
  ASSUME TypeOK, AccountsInv, NEW msgs \in Seq(Message), NEW tail,
         ChunkWritten(msgs, tail)
  PROVE  AccountsInv'
<1>1. Tiles(chunk_index, data_offset', HeaderPos, message_count)
  BY TilesAfterHeader DEF ChunkWritten
<1>2. header_written' = TRUE /\ msg_ordinal' = message_count'
  BY DEF ChunkWritten, HeaderDone, AccountsInv
<1>3. /\ HeaderPos \in Nat /\ message_count \in Nat /\ data_offset' \in Nat
      /\ chunk_index \in Seq(ChunkIndex)
  BY HeaderCellsType, HeaderDoneType DEF TypeOK, ChunkWritten
<1>4. Tiles(chunk_index', data_offset', pos', message_count')
  <2>1. CASE msgs = <<>>
    <3>1. Len(ChunkOf(msgs)) = 0 /\ Len(msgs) = 0
      BY <2>1, ChunkOfType
    <3>2. /\ chunk_index' = chunk_index /\ pos' = HeaderPos
          /\ message_count' = message_count
      BY <1>3, <2>1, <3>1 DEF ChunkWritten, IndexWith
    <3>3. QED
      BY <1>1, <3>2
  <2>2. CASE msgs # <<>>
    <3> DEFINE e == IndexEntry(msgs)
    <3>1. Len(StableSort(msgs)) = Len(msgs) /\ Len(msgs) \in Nat
      BY SortedMessages
    <3>2. e \in ChunkIndex /\ e.offset = HeaderPos /\ e.msg_count = Len(msgs)
      BY <2>2, <3>1, IndexWithType DEF IndexEntry
    <3>3. Len(ChunkOf(msgs)) = 2 + Len(msgs)
      BY <2>2, ChunkOfType DEF ChunkHeaderLen
    <3>4. EntryEnd(e) = HeaderPos + (2 + Len(msgs))
      <4>1. EntryEnd(e) = e.offset + 2 + e.msg_count
        BY <3>2, EntryFields
      <4> HIDE DEF e
      <4>2. QED
        BY <1>3, <3>1, <3>2, <4>1
    <3>5. /\ chunk_index' = Append(chunk_index, e)
          /\ pos' = EntryEnd(e)
          /\ message_count' = message_count + e.msg_count
      BY <2>2, <3>2, <3>3, <3>4 DEF ChunkWritten, IndexWith
    <3>6. Tiles(Append(chunk_index, e), data_offset', EntryEnd(e),
                message_count + e.msg_count)
      BY <1>1, <1>3, <3>2, TilesAppend
    <3>7. QED
      BY <3>5, <3>6
  <2>3. QED
    BY <2>1, <2>2
<1>5. QED
  BY <1>2, <1>4 DEF AccountsInv, ChunksTile

\* No message is counted twice or forgotten by the accounts.
CountInv == Len(accepted) = message_count + Len(pending)

LEMMA AccountsWrite ==
  ASSUME TypeOK, AccountsInv, CountInv,
         NEW ch \in Nat, NEW stamp \in Stamps, NEW len \in Lens,
         Write(ch, stamp, len)
  PROVE  AccountsInv' /\ CountInv'
<1> DEFINE m == [id |-> Len(accepted) + 1, ch |-> ch, stamp |-> stamp,
                 len |-> len]
           msgs == Append(pending, m)
           bytes == pending_bytes + Overhead + len
<1>1. m \in Message
  BY NewMessage
<1>2. msgs \in Seq(Message) /\ Len(msgs) = Len(pending) + 1
  BY <1>1 DEF TypeOK
<1>3. /\ Len(Append(accepted, m)) = Len(accepted) + 1
      /\ Len(accepted) \in Nat /\ Len(pending) \in Nat
      /\ message_count \in Nat
  BY <1>1 DEF TypeOK
<1>4. CASE HeaderFails /\ UNCHANGED accepted
  BY <1>4 DEF HeaderFails, AccountsInv, CountInv, ChunksTile, chunkVars
<1>5. CASE accepted' = Append(accepted, m) /\ Buffer(msgs, bytes)
  <2>1. AccountsInv'
    BY <1>5, AccountsHeader DEF Buffer
  <2>2. pending' = msgs /\ message_count' = message_count
    BY <1>5 DEF Buffer, chunkVars
  <2>3. QED
    BY <1>2, <1>3, <1>5, <2>1, <2>2 DEF CountInv
<1>6. CASE accepted' = Append(accepted, m) /\ ChunkWritten(msgs, <<>>)
  <2>1. AccountsInv'
    BY <1>2, <1>6, AccountsWritten
  <2>2. Len(pending') = 0 /\ message_count' = message_count + Len(msgs)
    BY <1>6 DEF ChunkWritten
  <2>3. QED
    BY <1>2, <1>3, <1>6, <2>1, <2>2 DEF CountInv
<1>7. CASE accepted' = Append(accepted, m) /\ ChunkFails(msgs, bytes)
  <2>1. AccountsInv'
    BY <1>7, AccountsHeader DEF ChunkFails
  <2>2. Len(pending') = Len(msgs) /\ message_count' = message_count
    BY <1>2, <1>7, SortedMessages DEF ChunkFails, chunkVars
  <2>3. QED
    BY <1>2, <1>3, <1>7, <2>1, <2>2 DEF CountInv
<1>8. QED
  BY <1>4, <1>5, <1>6, <1>7 DEF Write, FlushFull

LEMMA AccountsFinish ==
  ASSUME TypeOK, AccountsInv, CountInv, FinishBody
  PROVE  AccountsInv' /\ CountInv'
<1>1. pending \in Seq(Message) /\ message_count \in Nat /\ accepted' = accepted
  BY DEF TypeOK, FinishBody
<1>2. CASE HeaderFails
  BY <1>1, <1>2 DEF HeaderFails, AccountsInv, CountInv, ChunksTile, chunkVars
<1>3. CASE ChunkFails(pending, pending_bytes)
  <2>1. AccountsInv'
    BY <1>3, AccountsHeader DEF ChunkFails
  <2>2. Len(pending') = Len(pending) /\ message_count' = message_count
    BY <1>1, <1>3, SortedMessages DEF ChunkFails, chunkVars
  <2>3. QED
    BY <1>1, <2>1, <2>2 DEF CountInv
<1>4. ASSUME NEW tail, ChunkWritten(pending, tail)
      PROVE  AccountsInv' /\ CountInv'
  <2>1. AccountsInv'
    BY <1>1, <1>4, AccountsWritten
  <2>2. Len(pending') = 0 /\ message_count' = message_count + Len(pending)
    BY <1>4 DEF ChunkWritten
  <2>3. Len(accepted) = message_count + Len(pending) + 0
    BY <1>1 DEF CountInv
  <2>4. QED
    BY <1>1, <2>1, <2>2, <2>3 DEF CountInv
<1>5. QED
  BY <1>2, <1>3, <1>4 DEF FinishBody, FooterFails, FooterWritten

LEMMA InitAccounts == Init => AccountsInv /\ CountInv
  BY DEF Init, AccountsInv, CountInv, ChunksTile

LEMMA StepAccounts ==
  TypeOK /\ AccountsInv /\ CountInv /\ [Next]_vars => (AccountsInv /\ CountInv)'
<1>1. SUFFICES ASSUME TypeOK, AccountsInv, CountInv, [Next]_vars
               PROVE  AccountsInv' /\ CountInv'
  OBVIOUS
<1>2. CASE Register
  <2>1. UNCHANGED <<header_written, chunk_index, data_offset, pos,
                    message_count, msg_ordinal, accepted, pending>>
    BY <1>2 DEF Register, AddSchema, AddChannel, chunkVars
  <2>2. AccountsInv'
    BY <1>1, <2>1 DEF AccountsInv, ChunksTile
  <2>3. CountInv'
    BY <1>1, <2>1 DEF CountInv
  <2>4. QED
    BY <2>2, <2>3
<1>3. CASE WriteAny
  <2>1. PICK i \in 1..Len(channels), stamp \in Stamps, len \in Lens :
          Write(channels[i].id, stamp, len)
    BY <1>3 DEF WriteAny
  <2>2. channels[i] \in Channel
    BY <1>1 DEF TypeOK
  <2>3. channels[i].id \in Nat
    BY <2>2 DEF Channel
  <2>4. QED
    BY <1>1, <2>1, <2>3, AccountsWrite
<1>4. CASE FinishBody
  BY <1>1, <1>4, AccountsFinish
<1>5. CASE UNCHANGED <<file, flushed, registry, pos, data_offset,
                       header_written, finished, pending, pending_bytes,
                       chunkVars, accepted, result, failures, parted>>
  BY <1>1, <1>5 DEF AccountsInv, CountInv, ChunksTile, chunkVars
<1>6. QED
  BY <1>1, <1>2, <1>3, <1>4, <1>5 DEF Next, Finish, Drop, vars

\* The offsets, counts and ordinals of the index agree in every state, after
\* any failing calls: the chunks lie end to end, and message_count, which the
\* footer records, is the number of messages in them.
THEOREM AccountsAgree == Spec => []ChunksTile
<1>1. AccountsInv => ChunksTile
  BY DEF AccountsInv
<1>2. QED
  BY <1>1, InitAccounts, StepAccounts, TypeCorrect, PTL DEF Spec

LEMMA BoundedWritten ==
  ASSUME NEW msgs, NEW tail, ChunkWritten(msgs, tail)
  PROVE  BufferBounded'
  BY WriterAssumption DEF ChunkWritten, BufferBounded

LEMMA BoundedError ==
  ASSUME result' = "err"
  PROVE  BufferBounded'
  BY DEF BufferBounded

LEMMA BoundedWrite ==
  ASSUME TypeOK, NEW ch \in Nat, NEW stamp \in Stamps, NEW len \in Lens,
         Write(ch, stamp, len)
  PROVE  BufferBounded'
<1> DEFINE m == [id |-> Len(accepted) + 1, ch |-> ch, stamp |-> stamp,
                 len |-> len]
           msgs == Append(pending, m)
           bytes == pending_bytes + Overhead + len
<1>1. bytes \in Nat /\ ChunkTarget \in Nat
  BY WriterAssumption DEF TypeOK
<1>2. \/ HeaderFails
      \/ Buffer(msgs, bytes)
      \/ ChunkWritten(msgs, <<>>)
      \/ ChunkFails(msgs, bytes)
  BY DEF Write, FlushFull
<1> HIDE DEF msgs, bytes
<1>3. CASE Buffer(msgs, bytes)
  BY <1>1, <1>3 DEF Buffer, Full, BufferBounded
<1>4. CASE HeaderFails \/ ChunkFails(msgs, bytes)
  BY <1>4, BoundedError DEF HeaderFails, ChunkFails, Fails
<1>5. QED
  BY <1>2, <1>3, <1>4, BoundedWritten

\* However the sizes of the messages and the target relate, and whatever fails
\* and is repeated: after a write or a finish that returned Ok less than the
\* target is buffered (write, flush_chunk, finish).
THEOREM BufferStaysBounded == Spec => []BufferBounded
<1>1. Init => BufferBounded
  BY WriterAssumption DEF Init, BufferBounded
<1>2. TypeOK /\ BufferBounded /\ [Next]_vars => BufferBounded'
  <2>1. SUFFICES ASSUME TypeOK, BufferBounded, [Next]_vars
                 PROVE  BufferBounded'
    OBVIOUS
  <2>2. CASE Register
    BY <2>1, <2>2 DEF Register, AddSchema, AddChannel, BufferBounded
  <2>3. CASE WriteAny
    <3>1. PICK i \in 1..Len(channels), stamp \in Stamps, len \in Lens :
            Write(channels[i].id, stamp, len)
      BY <2>3 DEF WriteAny
    <3>2. channels[i] \in Channel
      BY <2>1 DEF TypeOK
    <3>3. channels[i].id \in Nat
      BY <3>2 DEF Channel
    <3>4. QED
      BY <2>1, <3>1, <3>3, BoundedWrite
  <2>4. CASE FinishBody
    BY <2>4, BoundedError, BoundedWritten
    DEF FinishBody, HeaderFails, ChunkFails, Fails, FooterFails, FooterWritten
  <2>5. CASE UNCHANGED <<pending_bytes, result>>
    BY <2>1, <2>5 DEF BufferBounded
  <2>6. QED
    BY <2>1, <2>2, <2>3, <2>4, <2>5 DEF Next, Finish, Drop, vars
<1>3. QED
  BY <1>1, <1>2, TypeCorrect, PTL DEF Spec

------------------------------------------------------------------------------
(* Chunks of a file that grows *)

LEMMA ConcatLength ==
  ASSUME NEW S, NEW s \in Seq(S), NEW t \in Seq(S)
  PROVE  /\ s \o t \in Seq(S)
         /\ Len(s \o t) = Len(s) + Len(t)
  OBVIOUS

\* Where the share of message k is in a chunk at an offset.
LEMMA BehindHeader ==
  ASSUME NEW offset \in Nat, NEW n \in Nat, NEW k \in 1..n
  PROVE  2 + k \in 1..2 + n /\ offset + 2 + k = offset + (2 + k)
  OBVIOUS

LEMMA ChunkStays ==
  ASSUME NEW f \in Seq(Cell), NEW g \in Seq(Cell), Grown(f, g),
         NEW e \in ChunkIndex, EntryEnd(e) <= Len(f)
  PROVE  /\ MsgsAt(g, e) = MsgsAt(f, e)
         /\ \A j \in 1..ChunkHeaderLen + e.msg_count :
              g[e.offset + j] = f[e.offset + j]
<1>1. /\ e.offset \in Nat /\ e.msg_count \in Nat
      /\ EntryEnd(e) = e.offset + 2 + e.msg_count
  BY EntryFields
<1>2. Len(f) \in Nat
  OBVIOUS
<1>3. ASSUME NEW j \in 1..2 + e.msg_count
      PROVE  g[e.offset + j] = f[e.offset + j]
  <2>1. e.offset + j \in 1..Len(f)
    BY <1>1, <1>2, SMTT(30)
  <2>2. QED
    BY <2>1 DEF Grown
<1>4. ASSUME NEW k \in 1..e.msg_count
      PROVE  g[e.offset + 2 + k] = f[e.offset + 2 + k]
  <2>1. 2 + k \in 1..2 + e.msg_count /\ e.offset + 2 + k = e.offset + (2 + k)
    BY <1>1, BehindHeader
  <2>2. QED
    BY <1>3, <2>1
<1>5. QED
  BY <1>3, <1>4 DEF MsgsAt, ChunkHeaderLen

\* A chunk put at the end of a file is found there.
LEMMA NewChunk ==
  ASSUME NEW f \in Seq(Cell), NEW ms \in Seq(Message), ms # <<>>,
         NEW begin \in Nat, NEW tail \in Seq(Cell),
         NEW e \in ChunkIndex, e.offset = Len(f), e.msg_count = Len(ms),
         NEW g, g = f \o ChunkCells(ms, begin) \o tail
  PROVE  MsgsAt(g, e) = ms /\ Located(g, e, begin)
<1> DEFINE cells == ChunkCells(ms, begin)
           n == Len(ms)
<1>1. /\ cells \in Seq(Cell) /\ Len(cells) = 2 + n
      /\ n \in Nat /\ Len(f) \in Nat
  BY ChunkCellsType DEF ChunkHeaderLen
<1>2. \A k \in 1..n : cells[2 + k] = BodyCell(ms[k])
  BY <1>1 DEF ChunkCells, ChunkHeaderLen
<1> HIDE DEF cells
<1>3. /\ Len(f) + (2 + n) <= Len(g)
      /\ \A j \in 1..2 + n : g[Len(f) + j] = cells[j]
  BY <1>1 DEF cells
<1>4. ASSUME NEW k \in 1..n
      PROVE  /\ g[Len(f) + 2 + k].kind = "body"
             /\ g[Len(f) + 2 + k].msg = ms[k]
  <2>1. 2 + k \in 1..2 + n /\ Len(f) + 2 + k = Len(f) + (2 + k)
    BY <1>1, BehindHeader
  <2>2. g[Len(f) + 2 + k] = BodyCell(ms[k])
    BY <1>2, <1>3, <2>1
  <2>3. QED
    BY <2>2 DEF BodyCell
<1>5. MsgsAt(g, e) = [k \in 1..n |-> ms[k]]
  BY <1>4 DEF MsgsAt, ChunkHeaderLen
<1>6. MsgsAt(g, e) = ms
  BY <1>5
<1>7. EntryEnd(e) <= Len(g)
  BY <1>1, <1>3 DEF EntryEnd, ChunkHeaderLen
<1>8. Located(g, e, begin)
  BY <1>3, <1>4, <1>6, <1>7 DEF Located, ChunkHeaderLen, cells
<1>9. QED
  BY <1>6, <1>8

------------------------------------------------------------------------------
(* The order of the messages that wait *)

\* Equal stamps are in the order of the write calls, and no message is of a
\* later call than the last one.
Waiting(ms, n) ==
  /\ \A j, k \in 1..Len(ms) :
       j < k /\ ms[j].stamp = ms[k].stamp => ms[j].id < ms[k].id
  /\ \A k \in 1..Len(ms) : ms[k].id <= n

LEMMA WaitingSorted ==
  ASSUME NEW ms \in Seq(Message), NEW n \in Nat, Waiting(ms, n)
  PROVE  InWriteOrder(StableSort(ms)) /\ Waiting(StableSort(ms), n)
<1> DEFINE sorted == StableSort(ms)
<1>1. Len(sorted) = Len(ms) /\ SortedByStamp(sorted)
  BY MessageStamped, StableSortRearranges, StableSortSorts
<1>2. ASSUME NEW j \in 1..Len(ms), NEW k \in 1..Len(ms), j < k,
             sorted[j].stamp = sorted[k].stamp
      PROVE  sorted[j].id < sorted[k].id
  <2>1. Place(ms, j) < Place(ms, k)
    BY <1>2, MessageStamped, StableSortIsStable
  <2>2. Place(ms, j) \in 1..Len(ms) /\ Place(ms, k) \in 1..Len(ms)
    BY MessageStamped, PlaceOfRank
  <2>3. sorted[j] = ms[Place(ms, j)] /\ sorted[k] = ms[Place(ms, k)]
    BY DEF StableSort
  <2>4. QED
    BY <1>2, <2>1, <2>2, <2>3 DEF Waiting
<1>3. ASSUME NEW k \in 1..Len(ms)
      PROVE  sorted[k].id <= n
  <2>1. PICK j \in 1..Len(ms) : sorted[k] = ms[j]
    BY MessageStamped, StableSortRearranges
  <2>2. QED
    BY <2>1 DEF Waiting
<1>4. QED
  BY <1>1, <1>2, <1>3 DEF InWriteOrder, Waiting

LEMMA WaitingNext ==
  ASSUME NEW ms \in Seq(Message), NEW n \in Nat, Waiting(ms, n),
         NEW m \in Message, m.id = n + 1
  PROVE  Waiting(Append(ms, m), n + 1)
<1> DEFINE more == Append(ms, m)
<1>1. /\ Len(more) = Len(ms) + 1 /\ more[Len(ms) + 1] = m /\ Len(ms) \in Nat
      /\ \A k \in 1..Len(ms) : more[k] = ms[k]
  OBVIOUS
<1>2. \A k \in 1..Len(ms) : ms[k].id \in Nat /\ ms[k].id <= n
  BY MessageFields DEF Waiting
<1> HIDE DEF more
<1>3. ASSUME NEW k \in 1..Len(more)
      PROVE  more[k].id <= n + 1
  BY <1>1, <1>2
<1>4. ASSUME NEW j \in 1..Len(more), NEW k \in 1..Len(more), j < k,
             more[j].stamp = more[k].stamp
      PROVE  more[j].id < more[k].id
  <2>1. j \in 1..Len(ms)
    BY <1>1, <1>4
  <2>2. CASE k \in 1..Len(ms)
    BY <1>1, <1>4, <2>1, <2>2 DEF Waiting
  <2>3. CASE k = Len(ms) + 1
    BY <1>1, <1>2, <2>1, <2>3
  <2>4. QED
    BY <1>1, <2>2, <2>3
<1>5. QED
  BY <1>3, <1>4 DEF Waiting, more

------------------------------------------------------------------------------
(* The invariant *)

Sound(f, e, begin) ==
  /\ Located(f, e, begin)
  /\ InWriteOrder(MsgsAt(f, e))
  /\ e.start_stamp = MsgsAt(f, e)[1].stamp
  /\ e.end_stamp = MsgsAt(f, e)[e.msg_count].stamp

\* The messages before chunk i, as far as the offsets tell.
Begin(i) == chunk_index[i].offset - data_offset - ChunkHeaderLen * (i - 1)

PartInv == IF parted = -1 THEN Len(file) = pos ELSE parted <= pos

ChunksInv ==
  \A i \in 1..Len(chunk_index) :
    Intact(i) => Sound(file, chunk_index[i], Begin(i))

PlacesInv ==
  AllIntact => \A k \in 1..Len(accepted) :
                 IsPending(accepted[k]) \/ IsStored(accepted[k])

ContentInv ==
  /\ PartInv
  /\ ChunksInv
  /\ PlacesInv
  /\ Waiting(pending, Len(accepted))

\* The accounts are right as well.
FullInv == TypeOK /\ AccountsInv /\ CountInv /\ ContentInv

\* What every call that reaches the file has in common.
Call ==
  /\ TypeOK
  /\ TypeOK'
  /\ pos <= pos'
  /\ Grown(file, file')
  /\ NotePos

LEMMA CallTypes ==
  ASSUME Call
  PROVE  /\ file \in Seq(Cell) /\ file' \in Seq(Cell)
         /\ chunk_index \in Seq(ChunkIndex) /\ Len(chunk_index) \in Nat
         /\ chunk_index' \in Seq(ChunkIndex) /\ Len(chunk_index') \in Nat
         /\ \A i \in 1..Len(chunk_index) : chunk_index[i] \in ChunkIndex
         /\ pos \in Nat /\ pos' \in Nat
         /\ parted \in Nat \cup {-1} /\ parted' \in Nat \cup {-1}
<1>1. chunk_index \in Seq(ChunkIndex) /\ chunk_index' \in Seq(ChunkIndex)
  BY DEF Call, TypeOK
<1>2. /\ file \in Seq(Cell) /\ file' \in Seq(Cell)
      /\ pos \in Nat /\ pos' \in Nat
      /\ parted \in Nat \cup {-1} /\ parted' \in Nat \cup {-1}
  BY DEF Call, TypeOK
<1>3. QED
  BY <1>1, <1>2

LEMMA PartInvKept ==
  ASSUME Call, PartInv
  PROVE  PartInv'
<1>1. /\ pos \in Nat /\ pos' \in Nat /\ pos <= pos'
      /\ parted \in Nat \cup {-1}
  BY CallTypes DEF Call
<1>2. parted' = IF parted # -1 \/ Len(file') = pos' THEN parted ELSE pos'
  BY DEF Call, NotePos
<1>3. QED
  BY <1>1, <1>2 DEF PartInv

\* No call repairs a chunk.
LEMMA IntactBefore ==
  ASSUME Call, NEW i \in 1..Len(chunk_index), chunk_index'[i] = chunk_index[i],
         Intact(i)'
  PROVE  Intact(i)
<1>1. CASE parted = -1
  BY <1>1 DEF Intact
<1>2. CASE parted # -1
  BY <1>2 DEF Call, NotePos, Intact
<1>3. QED
  BY <1>1, <1>2

LEMMA SoundStays ==
  ASSUME Call, NEW e \in ChunkIndex, NEW begin, Sound(file, e, begin)
  PROVE  Sound(file', e, begin) /\ MsgsAt(file', e) = MsgsAt(file, e)
<1>1. /\ file \in Seq(Cell) /\ file' \in Seq(Cell) /\ Grown(file, file')
  BY DEF Call, TypeOK
<1>2. EntryEnd(e) <= Len(file)
  BY DEF Sound, Located
<1>3. /\ MsgsAt(file', e) = MsgsAt(file, e)
      /\ \A j \in 1..ChunkHeaderLen + e.msg_count :
           file'[e.offset + j] = file[e.offset + j]
  BY <1>1, <1>2, ChunkStays
<1>4. EntryEnd(e) <= Len(file')
  <2>1. EntryEnd(e) \in Nat /\ Len(file) \in Nat /\ Len(file') \in Nat
    BY <1>1, EntryFields
  <2>2. QED
    BY <1>1, <1>2, <2>1 DEF Grown
<1>5. ASSUME NEW k \in 1..e.msg_count
      PROVE  file'[e.offset + ChunkHeaderLen + k].kind = "body"
  <2>1. /\ ChunkHeaderLen + k \in 1..ChunkHeaderLen + e.msg_count
        /\ e.offset + ChunkHeaderLen + k = e.offset + (ChunkHeaderLen + k)
    BY EntryFields, BehindHeader DEF ChunkHeaderLen
  <2>2. QED
    BY <1>3, <2>1 DEF Sound, Located
<1>6. Located(file', e, begin)
  BY <1>3, <1>4, <1>5 DEF Sound, Located
<1>7. QED
  BY <1>3, <1>6 DEF Sound

\* Chunks the index has before and after a call.
LEMMA OldChunksSound ==
  ASSUME Call, ChunksTile, ChunksInv,
         header_written => data_offset' = data_offset,
         NEW i \in 1..Len(chunk_index), chunk_index'[i] = chunk_index[i],
         Intact(i)'
  PROVE  Sound(file, chunk_index[i], Begin(i)) /\ Sound(file', chunk_index'[i], Begin(i)')
<1>1. chunk_index[i] \in ChunkIndex
  BY CallTypes
<1>2. Sound(file, chunk_index[i], Begin(i))
  BY IntactBefore DEF ChunksInv
<1>3. header_written
  BY DEF ChunksTile
<1>4. Begin(i)' = Begin(i)
  BY <1>3 DEF Begin
<1>5. QED
  BY <1>1, <1>2, <1>4, SoundStays

LEMMA StoredStays ==
  ASSUME Call, ChunksInv, AllIntact, NEW m, IsStored(m),
         Len(chunk_index) <= Len(chunk_index'),
         \A i \in 1..Len(chunk_index) : chunk_index'[i] = chunk_index[i]
  PROVE  IsStored(m)'
<1>1. PICK i \in 1..Len(chunk_index) :
        \E k \in 1..chunk_index[i].msg_count :
          MsgsAt(file, chunk_index[i])[k] = m
  BY DEF IsStored
<1>2. chunk_index[i] \in ChunkIndex /\ chunk_index'[i] = chunk_index[i]
  BY CallTypes
<1>3. MsgsAt(file', chunk_index'[i]) = MsgsAt(file, chunk_index[i])
  BY <1>2, SoundStays DEF ChunksInv, AllIntact
<1>4. i \in 1..Len(chunk_index')
  BY CallTypes
<1>5. QED
  BY <1>1, <1>2, <1>3, <1>4 DEF IsStored

\* A call that writes no chunk.
LEMMA QuietChunks ==
  ASSUME Call, ChunksTile, ChunksInv, chunk_index' = chunk_index,
         header_written => data_offset' = data_offset
  PROVE  ChunksInv'
  BY OldChunksSound DEF ChunksInv

------------------------------------------------------------------------------
(* What a call of write or finish does with the messages *)

\* The messages a call tries to store: those that waited, and the one a write
\* was given if it got so far.
Offered(msgs) ==
  /\ msgs \in Seq(Message)
  /\ Waiting(msgs, Len(accepted'))
  /\ \/ accepted' = accepted /\ msgs = pending
     \/ \E m \in Message : /\ accepted' = Append(accepted, m)
                           /\ msgs = Append(pending, m)

\* If the messages offered have a place afterwards, every message has.
LEMMA PlacesKept ==
  ASSUME Call, ChunksInv, PlacesInv,
         Len(chunk_index) <= Len(chunk_index'),
         \A i \in 1..Len(chunk_index) : chunk_index'[i] = chunk_index[i],
         NEW msgs, Offered(msgs),
         AllIntact' => \A j \in 1..Len(msgs) :
                         IsPending(msgs[j])' \/ IsStored(msgs[j])'
  PROVE  PlacesInv'
<1>1. SUFFICES ASSUME AllIntact', NEW k \in 1..Len(accepted')
               PROVE  IsPending(accepted[k])' \/ IsStored(accepted[k])'
  BY DEF PlacesInv
<1>2. AllIntact
  <2>1. SUFFICES ASSUME NEW i \in 1..Len(chunk_index) PROVE Intact(i)
    BY DEF AllIntact
  <2>2. i \in 1..Len(chunk_index')
    BY CallTypes
  <2>3. QED
    BY <1>1, <2>2, IntactBefore DEF AllIntact
<1>3. /\ accepted \in Seq(Message) /\ Len(accepted) \in Nat
      /\ pending \in Seq(Message) /\ Len(pending) \in Nat
  <2>1. accepted \in Seq(Message) /\ pending \in Seq(Message)
    BY DEF Call, TypeOK
  <2>2. QED
    BY <2>1
<1>4. ASSUME NEW j \in 1..Len(msgs), accepted'[k] = msgs[j]
      PROVE  IsPending(accepted[k])' \/ IsStored(accepted[k])'
  BY <1>1, <1>4 DEF IsPending, IsStored
<1>5. CASE k \in 1..Len(accepted)
  <2>1. PICK x \in Message : x = accepted[k]
    BY <1>3, <1>5
  <2>2. accepted'[k] = x
    BY <1>3, <1>5, <2>1 DEF Offered
  <2>3. CASE IsPending(x)
    <3>1. PICK j \in 1..Len(pending) : pending[j] = x
      BY <2>3 DEF IsPending
    <3>2. j \in 1..Len(msgs) /\ msgs[j] = x
      <4>1. CASE msgs = pending
        BY <3>1, <4>1
      <4>2. CASE \E m \in Message : msgs = Append(pending, m)
        BY <1>3, <3>1, <4>2
      <4>3. QED
        BY <4>1, <4>2 DEF Offered
    <3>3. QED
      BY <1>4, <2>2, <3>2
  <2>4. CASE IsStored(x)
    <3>1. IsStored(x)'
      BY <1>2, <2>4, StoredStays
    <3>2. QED
      BY <2>2, <3>1 DEF IsStored
  <2>5. IsPending(x) \/ IsStored(x)
    BY <1>2, <1>5, <2>1 DEF PlacesInv
  <2>6. QED
    BY <2>3, <2>4, <2>5
<1>6. CASE k \notin 1..Len(accepted)
  <2>1. accepted' # accepted
    BY <1>1, <1>6
  <2>2. PICK m \in Message :
          accepted' = Append(accepted, m) /\ msgs = Append(pending, m)
    BY <2>1 DEF Offered
  <2>3. accepted'[k] = m
    BY <1>3, <1>6, <2>2
  <2>4. Len(msgs) = Len(pending) + 1 /\ msgs[Len(pending) + 1] = m
    BY <1>3, <2>2
  <2>5. Len(pending) + 1 \in 1..Len(msgs)
    BY <1>3, <2>4
  <2>6. QED
    BY <1>4, <2>3, <2>4, <2>5
<1>7. QED
  BY <1>5, <1>6

\* A call that writes a chunk puts its sorted messages where the new entry of
\* the index says.
LEMMA WrittenChunk ==
  ASSUME Call, AccountsInv, PartInv, ChunksInv,
         NEW msgs \in Seq(Message), msgs # <<>>, NEW tail \in Seq(Cell),
         NEW n \in Nat, Waiting(msgs, n), ChunkWritten(msgs, tail),
         NEW k \in Nat, k = Len(chunk_index) + 1
  PROVE  /\ ChunksInv'
         /\ Len(chunk_index') = k
         /\ \A i \in 1..Len(chunk_index) : chunk_index'[i] = chunk_index[i]
         /\ Intact(k)' => /\ chunk_index'[k].msg_count = Len(msgs)
                          /\ MsgsAt(file', chunk_index'[k]) = StableSort(msgs)
<1> DEFINE sorted == StableSort(msgs)
<1>1. TypeOK
  BY DEF Call
<1>2. /\ HeaderCells \in Seq(Cell) /\ HeaderPos \in Nat
      /\ Len(HeaderCells) \in Nat
  BY <1>1, HeaderCellsType
<1>3. /\ pos \in Nat /\ parted \in Nat \cup {-1} /\ file \in Seq(Cell)
      /\ msg_ordinal \in Nat /\ message_count \in Nat
      /\ chunk_index \in Seq(ChunkIndex) /\ Len(chunk_index) \in Nat
  BY <1>1 DEF TypeOK
<1>4. /\ sorted \in Seq(Message) /\ Len(sorted) = Len(msgs)
      /\ Len(msgs) \in Nat \ {0} /\ sorted # <<>>
      /\ InWriteOrder(sorted)
  BY SortedMessages, WaitingSorted
<1>5. PICK e \in ChunkIndex : e = IndexEntry(msgs)
  BY <1>1, IndexWithType
<1>6. /\ e.offset = HeaderPos /\ e.msg_count = Len(sorted)
      /\ e.start_stamp = sorted[1].stamp
      /\ e.end_stamp = sorted[Len(sorted)].stamp
  BY <1>5 DEF IndexEntry
<1>7. chunk_index' = Append(chunk_index, e)
  BY <1>5 DEF ChunkWritten, IndexWith
<1>8. file' = file \o HeaderCells \o ChunkCells(sorted, msg_ordinal) \o tail
  BY DEF ChunkWritten, ChunkOf
<1> HIDE DEF sorted
<1>9. /\ Len(chunk_index') = k /\ chunk_index'[k] = e
      /\ \A i \in 1..Len(chunk_index) : chunk_index'[i] = chunk_index[i]
  BY <1>3, <1>7
<1>10. Begin(k)' = msg_ordinal
  <2>1. Tiles(chunk_index, data_offset', HeaderPos, message_count)
    BY <1>1, TilesAfterHeader DEF ChunkWritten
  <2>2. HeaderPos = data_offset' + 2 * Len(chunk_index) + message_count
    BY <2>1 DEF Tiles, ChunkHeaderLen
  <2>3. data_offset' \in Nat
    BY <1>1, HeaderDoneType DEF ChunkWritten
  <2>4. Begin(k)' = HeaderPos - data_offset' - 2 * (k - 1)
    BY <1>6, <1>9 DEF Begin, ChunkHeaderLen
  <2>5. Len(chunk_index) = k - 1
    BY <1>3
  <2>6. HeaderPos = data_offset' + 2 * (k - 1) + message_count
    BY <2>2, <2>5
  <2>7. PICK d \in Nat : d = data_offset'
    BY <2>3
  <2>8. HeaderPos - d - 2 * (k - 1) = message_count
    <3>1. PICK h \in Nat : h = HeaderPos
      BY <1>2
    <3>2. h = d + 2 * (k - 1) + message_count
      BY <2>6, <2>7, <3>1
    <3>3. h - d - 2 * (k - 1) = message_count
      BY <1>3, <3>2
    <3>4. QED
      BY <3>1, <3>3
  <2>9. QED
    BY <2>4, <2>7, <2>8 DEF AccountsInv
<1>11. ASSUME Intact(k)'
       PROVE  Len(file \o HeaderCells) = HeaderPos
  <2>1. parted' = -1 \/ HeaderPos < parted'
    BY <1>6, <1>9, <1>11 DEF Intact
  <2>2. HeaderPos = pos + Len(HeaderCells)
    BY DEF HeaderPos
  <2>3. pos' = HeaderPos + Len(ChunkOf(msgs)) /\ NotePos
    BY DEF ChunkWritten, Call
  <2>4. parted = -1
    BY <1>2, <1>3, <2>1, <2>2 DEF PartInv, Call, NotePos
  <2>5. Len(file) = pos
    BY <2>4 DEF PartInv
  <2>6. Len(file \o HeaderCells) = Len(file) + Len(HeaderCells)
    BY <1>2, <1>3, ConcatLength
  <2>7. QED
    BY <2>2, <2>5, <2>6
<1>12. ASSUME Intact(k)'
       PROVE  MsgsAt(file', e) = sorted /\ Located(file', e, msg_ordinal)
  <2>1. PICK f \in Seq(Cell) : f = file \o HeaderCells
    BY <1>2, <1>3, ConcatLength
  <2>2. Len(f) = e.offset
    BY <1>6, <1>11, <1>12, <2>1
  <2>3. file' = f \o ChunkCells(sorted, msg_ordinal) \o tail
    BY <1>8, <2>1
  <2>4. Len(f) = e.offset /\ e.msg_count = Len(sorted)
    BY <1>6, <2>2
  <2>5. /\ sorted \in Seq(Message) /\ sorted # <<>> /\ msg_ordinal \in Nat
        /\ e.offset = Len(f) /\ e.msg_count = Len(sorted)
    BY <1>3, <1>4, <2>4
  <2>6. \A g : g = f \o ChunkCells(sorted, msg_ordinal) \o tail
                => MsgsAt(g, e) = sorted /\ Located(g, e, msg_ordinal)
    BY <2>5, NewChunk, ZenonT(30)
  <2>7. QED
    BY <2>3, <2>6
<1>13. ASSUME Intact(k)'
       PROVE  Sound(file', e, msg_ordinal)
  BY <1>4, <1>6, <1>12, <1>13 DEF Sound
<1>14. ASSUME NEW i \in 1..Len(chunk_index'), Intact(i)'
       PROVE  Sound(file', chunk_index'[i], Begin(i)')
  <2>1. CASE i = k
    BY <1>9, <1>10, <1>13, <1>14, <2>1
  <2>2. CASE i # k
    <3>1. i \in 1..Len(chunk_index)
      BY <1>3, <1>9, <2>2
    <3>2. chunk_index'[i] = chunk_index[i]
      BY <1>9, <3>1
    <3>3. ChunksTile /\ (header_written => data_offset' = data_offset)
      BY DEF AccountsInv, ChunkWritten, HeaderDone
    <3>4. QED
      BY <1>14, <3>1, <3>2, <3>3, OldChunksSound
  <2>3. QED
    BY <2>1, <2>2
<1>15. ChunksInv'
  BY <1>14 DEF ChunksInv
<1>16. QED
  BY <1>4, <1>6, <1>9, <1>12, <1>15 DEF sorted

\* A call that writes no chunk leaves the messages offered to it waiting,
\* sorted or not.
LEMMA ContentQuiet ==
  ASSUME Call, AccountsInv, ContentInv, chunk_index' = chunk_index,
         header_written => data_offset' = data_offset,
         NEW msgs, Offered(msgs),
         pending' = msgs \/ pending' = StableSort(msgs)
  PROVE  ContentInv'
<1>1. PartInv' /\ ChunksInv'
  BY PartInvKept, QuietChunks DEF ContentInv, AccountsInv
<1>2. Len(accepted') \in Nat
  BY DEF Call, TypeOK
<1>3. msgs \in Seq(Message) /\ Waiting(msgs, Len(accepted'))
  BY DEF Offered
<1>4. Waiting(pending', Len(accepted'))
  BY <1>2, <1>3, WaitingSorted
<1>5. ASSUME NEW j \in 1..Len(msgs)
      PROVE  \E k \in 1..Len(pending') : pending'[k] = msgs[j]
  <2>1. CASE pending' = msgs
    BY <2>1
  <2>2. CASE pending' = StableSort(msgs)
    <3>1. /\ Len(StableSort(msgs)) = Len(msgs)
          /\ \E k \in 1..Len(msgs) : StableSort(msgs)[k] = msgs[j]
      BY <1>3, MessageStamped, StableSortRearranges
    <3>2. QED
      BY <2>2, <3>1
  <2>3. QED
    BY <2>1, <2>2
<1>6. \A j \in 1..Len(msgs) : IsPending(msgs[j])'
  BY <1>5 DEF IsPending
<1>7. Len(chunk_index) <= Len(chunk_index')
  BY CallTypes
<1>8. PlacesInv'
  BY <1>6, <1>7, PlacesKept DEF ContentInv
<1>9. QED
  BY <1>1, <1>4, <1>8 DEF ContentInv

\* A call that writes a chunk stores all that was offered to it.
LEMMA ContentWritten ==
  ASSUME Call, AccountsInv, ContentInv, NEW tail \in Seq(Cell),
         NEW msgs, Offered(msgs), ChunkWritten(msgs, tail)
  PROVE  ContentInv'
<1>1. Len(accepted') \in Nat
  BY DEF Call, TypeOK
<1>2. msgs \in Seq(Message) /\ Waiting(msgs, Len(accepted'))
  BY DEF Offered
<1>3. pending' = <<>>
  BY DEF ChunkWritten
<1>4. Waiting(pending', Len(accepted'))
  BY <1>3 DEF Waiting
<1>5. CASE msgs = <<>>
  <2>1. pending' = msgs /\ chunk_index' = chunk_index
    BY <1>3, <1>5 DEF ChunkWritten, IndexWith
  <2>2. header_written => data_offset' = data_offset
    BY DEF ChunkWritten, HeaderDone
  <2>3. QED
    BY <2>1, <2>2, ContentQuiet
<1>6. CASE msgs # <<>>
  <2>1. Len(chunk_index) \in Nat
    BY CallTypes
  <2>2. PICK k \in Nat : k = Len(chunk_index) + 1
    BY <2>1
  <2>3. /\ ChunksInv'
        /\ Len(chunk_index') = k
        /\ \A i \in 1..Len(chunk_index) : chunk_index'[i] = chunk_index[i]
        /\ Intact(k)' => /\ chunk_index'[k].msg_count = Len(msgs)
                         /\ MsgsAt(file', chunk_index'[k]) = StableSort(msgs)
    BY <1>1, <1>2, <1>6, <2>2, WrittenChunk DEF ContentInv
  <2>4. ASSUME AllIntact', NEW j \in 1..Len(msgs)
        PROVE  IsStored(msgs[j])'
    <3>1. k \in 1..Len(chunk_index')
      BY <2>1, <2>2, <2>3
    <3>2. Intact(k)'
      BY <2>4, <3>1 DEF AllIntact
    <3>3. PICK i \in 1..Len(msgs) : StableSort(msgs)[i] = msgs[j]
      BY <1>2, MessageStamped, StableSortRearranges
    <3>4. /\ i \in 1..chunk_index'[k].msg_count
          /\ MsgsAt(file', chunk_index'[k])[i] = msgs[j]
      BY <2>3, <3>2, <3>3
    <3>5. QED
      BY <3>1, <3>4 DEF IsStored
  <2>5. Len(chunk_index) <= Len(chunk_index')
    BY <2>1, <2>2, <2>3
  <2>6. PlacesInv'
    BY <2>3, <2>4, <2>5, PlacesKept DEF ContentInv
  <2>7. PartInv'
    BY PartInvKept DEF ContentInv
  <2>8. QED
    BY <1>4, <2>3, <2>6, <2>7 DEF ContentInv
<1>7. QED
  BY <1>5, <1>6

------------------------------------------------------------------------------
(* The calls *)

LEMMA Appended ==
  ASSUME NEW f \in Seq(Cell), NEW a \in Seq(Cell), NEW b \in Seq(Cell),
         NEW c \in Seq(Cell)
  PROVE  /\ Grown(f, f \o a)
         /\ Grown(f, f \o a \o b)
         /\ Grown(f, f \o a \o b \o c)
<1>1. ASSUME NEW g \in Seq(Cell), NEW h \in Seq(Cell), Grown(f, g)
      PROVE  g \o h \in Seq(Cell) /\ Grown(f, g \o h)
  <2>1. /\ g \o h \in Seq(Cell) /\ Len(g \o h) = Len(g) + Len(h)
        /\ Len(f) \in Nat /\ Len(g) \in Nat /\ Len(h) \in Nat
    BY ConcatLength
  <2>2. \A k \in 1..Len(g) : (g \o h)[k] = g[k]
    OBVIOUS
  <2>3. QED
    BY <1>1, <2>1, <2>2 DEF Grown
<1>2. Grown(f, f)
  BY DEF Grown
<1>3. f \o a \in Seq(Cell) /\ Grown(f, f \o a)
  BY <1>1, <1>2
<1>4. f \o a \o b \in Seq(Cell) /\ Grown(f, f \o a \o b)
  BY <1>1, <1>3
<1>5. QED
  BY <1>1, <1>3, <1>4

LEMMA HeaderFailsCall ==
  ASSUME TypeOK, TypeOK', HeaderFails, NotePos
  PROVE  Call
<1>1. PICK n \in 0..Len(HeaderCells) - 1 :
        file' = file \o SubSeq(HeaderCells, 1, n)
  BY DEF HeaderFails
<1>2. HeaderCells \in Seq(Cell) /\ n \in 0..Len(HeaderCells)
  BY <1>1, HeaderCellsType
<1>3. SubSeq(HeaderCells, 1, n) \in Seq(Cell) /\ file \in Seq(Cell)
  BY <1>2, PrefixProperties DEF TypeOK
<1>4. Grown(file, file')
  BY <1>1, <1>3, Appended
<1>5. pos' = pos /\ pos \in Nat
  BY DEF HeaderFails, TypeOK
<1>6. QED
  BY <1>4, <1>5 DEF Call

LEMMA HeaderIsCounted ==
  ASSUME TypeOK
  PROVE  /\ file \in Seq(Cell) /\ HeaderCells \in Seq(Cell)
         /\ pos \in Nat /\ HeaderPos \in Nat /\ pos <= HeaderPos
<1>1. pos \in Nat /\ Len(HeaderCells) \in Nat
  BY HeaderCellsType DEF TypeOK
<1>2. QED
  BY <1>1, HeaderCellsType DEF HeaderPos, TypeOK

LEMMA BufferCall ==
  ASSUME TypeOK, TypeOK', NEW msgs, NEW bytes, Buffer(msgs, bytes), NotePos
  PROVE  Call
<1>1. file' = file \o HeaderCells /\ pos' = HeaderPos
  BY DEF Buffer
<1>2. Grown(file, file')
  BY <1>1, HeaderIsCounted, Appended
<1>3. QED
  BY <1>1, <1>2, HeaderIsCounted DEF Call

LEMMA ChunkFailsCall ==
  ASSUME TypeOK, TypeOK', NEW msgs \in Seq(Message), NEW bytes,
         ChunkFails(msgs, bytes), NotePos
  PROVE  Call
<1>1. PICK n \in 0..Len(ChunkOf(msgs)) - 1 :
        file' = file \o HeaderCells \o SubSeq(ChunkOf(msgs), 1, n)
  BY DEF ChunkFails
<1>2. ChunkOf(msgs) \in Seq(Cell) /\ n \in 0..Len(ChunkOf(msgs))
  BY <1>1, ChunkOfType
<1>3. SubSeq(ChunkOf(msgs), 1, n) \in Seq(Cell)
  BY <1>2, PrefixProperties
<1>4. Grown(file, file')
  BY <1>1, <1>3, HeaderIsCounted, Appended
<1>5. pos' = HeaderPos
  BY DEF ChunkFails
<1>6. QED
  BY <1>4, <1>5, HeaderIsCounted DEF Call

LEMMA ChunkWrittenCall ==
  ASSUME TypeOK, TypeOK', NEW msgs \in Seq(Message), NEW tail \in Seq(Cell),
         ChunkWritten(msgs, tail), NotePos
  PROVE  Call
<1>1. ChunkOf(msgs) \in Seq(Cell) /\ Len(ChunkOf(msgs)) \in Nat
  BY ChunkOfType
<1>2. file' = file \o HeaderCells \o ChunkOf(msgs) \o tail
  BY DEF ChunkWritten
<1>3. Grown(file, file')
  BY <1>1, <1>2, HeaderIsCounted, Appended
<1>4. pos <= pos'
  <2>1. pos' = HeaderPos + Len(ChunkOf(msgs))
    BY DEF ChunkWritten
  <2>2. QED
    BY <1>1, <2>1, HeaderIsCounted
<1>5. QED
  BY <1>3, <1>4 DEF Call

LEMMA ContentWrite ==
  ASSUME FullInv, TypeOK',
         NEW ch \in Nat, NEW stamp \in Stamps, NEW len \in Lens,
         Write(ch, stamp, len)
  PROVE  ContentInv'
<1> DEFINE m == [id |-> Len(accepted) + 1, ch |-> ch, stamp |-> stamp,
                 len |-> len]
           msgs == Append(pending, m)
           bytes == pending_bytes + Overhead + len
<1>1. TypeOK /\ AccountsInv /\ ContentInv /\ NotePos
  BY DEF FullInv, Write
<1>2. /\ accepted \in Seq(Message) /\ pending \in Seq(Message)
      /\ Waiting(pending, Len(accepted))
  BY <1>1 DEF TypeOK, ContentInv
<1>3. CASE HeaderFails /\ UNCHANGED accepted
  <2>1. Call
    BY <1>1, <1>3, HeaderFailsCall
  <2>2. Offered(pending)
    BY <1>2, <1>3 DEF Offered
  <2>3. QED
    BY <1>1, <1>3, <2>1, <2>2, ContentQuiet DEF HeaderFails, chunkVars
<1>4. CASE /\ accepted' = Append(accepted, m)
           /\ \/ Buffer(msgs, bytes)
              \/ ChunkWritten(msgs, <<>>)
              \/ ChunkFails(msgs, bytes)
  <2>1. m \in Message /\ m.id = Len(accepted) + 1
    BY <1>1, NewMessage
  <2> HIDE DEF m
  <2>2. Len(accepted) \in Nat
    BY <1>2
  <2>3. Len(accepted') = Len(accepted) + 1
    BY <1>2, <1>4, <2>1
  <2>4. msgs \in Seq(Message)
    BY <1>2, <2>1
  <2>5. Waiting(msgs, Len(accepted) + 1)
    BY <1>2, <2>1, <2>2, WaitingNext
  <2>6. Offered(msgs)
    BY <1>4, <2>1, <2>3, <2>4, <2>5 DEF Offered
  <2> HIDE DEF msgs, bytes
  <2>7. CASE Buffer(msgs, bytes)
    <3>1. Call
      BY <1>1, <2>7, BufferCall
    <3>2. QED
      BY <1>1, <2>6, <2>7, <3>1, ContentQuiet
      DEF Buffer, HeaderDone, chunkVars
  <2>8. CASE ChunkWritten(msgs, <<>>)
    <3>1. << >> \in Seq(Cell)
      OBVIOUS
    <3>2. Call
      BY <1>1, <2>4, <2>8, <3>1, ChunkWrittenCall
    <3>3. QED
      BY <1>1, <2>6, <2>8, <3>1, <3>2, ContentWritten
  <2>9. CASE ChunkFails(msgs, bytes)
    <3>1. Call
      BY <1>1, <2>4, <2>9, ChunkFailsCall
    <3>2. QED
      BY <1>1, <2>6, <2>9, <3>1, ContentQuiet
      DEF ChunkFails, HeaderDone, chunkVars
  <2>10. QED
    BY <1>4, <2>7, <2>8, <2>9
<1>5. QED
  BY <1>3, <1>4 DEF Write, FlushFull

LEMMA ContentFinish ==
  ASSUME FullInv, TypeOK', FinishBody
  PROVE  ContentInv'
<1>1. TypeOK /\ AccountsInv /\ ContentInv /\ NotePos /\ accepted' = accepted
  BY DEF FullInv, FinishBody
<1>2. pending \in Seq(Message) /\ Offered(pending)
  BY <1>1 DEF TypeOK, ContentInv, Offered
<1>3. CASE HeaderFails
  <2>1. Call
    BY <1>1, <1>3, HeaderFailsCall
  <2>2. QED
    BY <1>1, <1>2, <1>3, <2>1, ContentQuiet DEF HeaderFails, chunkVars
<1>4. CASE ChunkFails(pending, pending_bytes)
  <2>1. Call
    BY <1>1, <1>2, <1>4, ChunkFailsCall
  <2>2. QED
    BY <1>1, <1>2, <1>4, <2>1, ContentQuiet
    DEF ChunkFails, HeaderDone, chunkVars
<1>5. ASSUME NEW tail \in Seq(Cell), ChunkWritten(pending, tail)
      PROVE  ContentInv'
  <2>1. Call
    BY <1>1, <1>2, <1>5, ChunkWrittenCall
  <2>2. QED
    BY <1>1, <1>2, <1>5, <2>1, ContentWritten
<1>6. FooterOf(pending) \in Seq(Cell)
  BY <1>1, FooterType
<1>7. CASE FooterFails
  <2>1. PICK n \in 0..Len(FooterOf(pending)) :
          ChunkWritten(pending, SubSeq(FooterOf(pending), 1, n))
    BY <1>7 DEF FooterFails
  <2>2. SubSeq(FooterOf(pending), 1, n) \in Seq(Cell)
    BY <1>6, PrefixProperties
  <2>3. QED
    BY <1>5, <2>1, <2>2
<1>8. CASE FooterWritten
  BY <1>5, <1>6, <1>8 DEF FooterWritten
<1>9. QED
  BY <1>3, <1>4, <1>7, <1>8 DEF FinishBody

LEMMA ContentSame ==
  ASSUME ContentInv,
         UNCHANGED <<file, pos, data_offset, pending, chunk_index, accepted,
                     parted>>
  PROVE  ContentInv'
<1>1. PartInv'
  BY DEF ContentInv, PartInv
<1>2. ChunksInv'
  BY DEF ContentInv, ChunksInv, Intact, Begin
<1>3. PlacesInv'
  BY DEF ContentInv, PlacesInv, AllIntact, Intact, IsPending, IsStored
<1>4. Waiting(pending', Len(accepted'))
  BY DEF ContentInv
<1>5. QED
  BY <1>1, <1>2, <1>3, <1>4 DEF ContentInv

------------------------------------------------------------------------------
(* Theorems *)

LEMMA InitFull == Init => FullInv
<1>1. SUFFICES ASSUME Init PROVE FullInv
  OBVIOUS
<1>2. TypeOK
  BY <1>1, InitType
<1>3. AccountsInv /\ CountInv
  BY <1>1, InitAccounts
<1>4. /\ Len(pending) = 0 /\ Len(chunk_index) = 0 /\ Len(accepted) = 0
      /\ Len(file) = 0 /\ pos = 0 /\ parted = -1
  BY <1>1 DEF Init
<1>5. ContentInv
  BY <1>4 DEF ContentInv, PartInv, ChunksInv, PlacesInv, Waiting
<1>6. QED
  BY <1>2, <1>3, <1>5 DEF FullInv

LEMMA StepFull == FullInv /\ [Next]_vars => FullInv'
<1>1. SUFFICES ASSUME FullInv, [Next]_vars PROVE FullInv'
  OBVIOUS
<1>2. TypeOK /\ AccountsInv /\ CountInv /\ ContentInv
  BY <1>1 DEF FullInv
<1>3. TypeOK'
  BY <1>1, <1>2, StepType
<1>4. AccountsInv' /\ CountInv'
  BY <1>1, <1>2, StepAccounts
<1>5. ContentInv'
  <2>1. CASE Register
    BY <1>2, <2>1, ContentSame DEF Register, AddSchema, AddChannel, chunkVars
  <2>2. CASE WriteAny
    <3>1. PICK i \in 1..Len(channels), stamp \in Stamps, len \in Lens :
            Write(channels[i].id, stamp, len)
      BY <2>2 DEF WriteAny
    <3>2. channels[i] \in Channel
      BY <1>2 DEF TypeOK
    <3>3. channels[i].id \in Nat
      BY <3>2 DEF Channel
    <3>4. QED
      BY <1>1, <1>3, <3>1, <3>3, ContentWrite
  <2>3. CASE FinishBody
    BY <1>1, <1>3, <2>3, ContentFinish
  <2>4. CASE UNCHANGED <<file, flushed, registry, pos, data_offset,
                         header_written, finished, pending, pending_bytes,
                         chunkVars, accepted, result, failures, parted>>
    BY <1>2, <2>4, ContentSame DEF chunkVars
  <2>5. QED
    BY <1>1, <2>1, <2>2, <2>3, <2>4 DEF Next, Finish, Drop, vars
<1>6. QED
  BY <1>3, <1>4, <1>5 DEF FullInv

LEMMA FullAlways == Spec => []FullInv
  BY InitFull, StepFull, PTL DEF Spec

\* Every message a call of write has buffered, once per call, is in one place:
\* pending or one chunk of the index, whatever writes to the file failed and
\* were made again (write, flush_chunk, finish).
THEOREM MessagesKept == Spec => []EveryMessageOnce
<1>1. FullInv => EveryMessageOnce
  BY DEF FullInv, CountInv, ContentInv, PlacesInv, EveryMessageOnce
<1>2. QED
  BY <1>1, FullAlways, PTL

\* Every chunk written before the first failure that left bytes behind is
\* complete where the index has it, numbered by the messages before it.
THEOREM ChunksAreLocated == Spec => []IndexLocatesChunks
<1>1. FullInv => IndexLocatesChunks
  BY DEF FullInv, ContentInv, ChunksInv, Sound, Begin, IndexLocatesChunks
<1>2. QED
  BY <1>1, FullAlways, PTL

\* Every such chunk has its messages in the order of their stamps, equal stamps
\* in the order of the write calls, and the bounds its index entry has.
THEOREM ChunksAreSorted == Spec => []ChunksSorted
<1>1. FullInv => ChunksSorted
  BY DEF FullInv, ContentInv, ChunksInv, Sound, ChunksSorted
<1>2. QED
  BY <1>1, FullAlways, PTL

------------------------------------------------------------------------------
(* The shape of the file: what is in it besides the chunks of the index, in  *)
(* particular behind a write_all that failed.  Every call of the file, write *)
(* or finish, is taken apart into the same few cases first.                  *)

\* A message one of the writes was given.
FromWrites(m) == \E k \in 1..Len(accepted) : accepted[k] = m

MessagesInv ==
  /\ \A k \in 1..Len(accepted) : accepted[k].id = k
  /\ \A k \in 1..Len(pending) : FromWrites(pending[k])
  /\ \A i \in 1..Len(chunk_index) : Intact(i) =>
       \A k \in 1..chunk_index[i].msg_count :
         FromWrites(MsgsAt(file, chunk_index[i])[k])

\* Every channel has its schema.
LinkInv ==
  \A c \in 1..Len(channels) : \E s \in 1..Len(schemas) :
    schemas[s].id = channels[c].schema_id

\* The declarations of a header: those made until then.
Declares(cell) ==
  \E a \in 0..Len(schemas), b \in 0..Len(channels) :
    /\ cell = DeclCell(SubSeq(schemas, 1, a), SubSeq(channels, 1, b))
    /\ \A c \in 1..b : \E s \in 1..a : schemas[s].id = channels[c].schema_id

\* A header that was torn is never whole again, and one that was not torn is
\* at the front of the file.
HeadInv ==
  /\ parted = 0 => /\ Len(file) >= 1
                   /\ Len(file) = 1 => ~header_written
                   /\ Len(file) >= 2 => file[2] = MagicCell
  /\ parted # 0 /\ header_written =>
       /\ data_offset = 2 /\ Len(file) >= 2
       /\ file[1] = MagicCell /\ Declares(file[2])

\* The chunks written before the first failure that left bytes behind end
\* before the bytes it left.
BoundInv ==
  parted > 0 =>
    /\ header_written /\ data_offset <= parted
    /\ \A i \in 1..Len(chunk_index) :
         Intact(i) => EntryEnd(chunk_index[i]) <= parted

------------------------------------------------------------------------------
\* What a call of write or finish does, whichever it is: msgs are the messages
\* it tries to store.
Closes(msgs) ==
  /\ ~finished
  /\ \/ /\ \E n \in 0..Len(FooterOf(msgs)) :
             ChunkWritten(msgs, SubSeq(FooterOf(msgs), 1, n))
        /\ Fails
        /\ UNCHANGED <<flushed, finished>>
     \/ /\ ChunkWritten(msgs, FooterOf(msgs))
        /\ Succeeds
        /\ finished' = TRUE
        /\ flushed' = Len(file')

Effect(msgs) ==
  /\ Call
  /\ Offered(msgs)
  /\ UNCHANGED registry
  /\ \/ HeaderFails /\ msgs = pending /\ UNCHANGED flushed
     \/ \E bytes : Buffer(msgs, bytes) /\ msgs # <<>> /\ UNCHANGED flushed
     \/ \E bytes : ChunkFails(msgs, bytes) /\ UNCHANGED flushed
     \/ ChunkWritten(msgs, <<>>) /\ Succeeds /\ UNCHANGED <<flushed, finished>>
     \/ Closes(msgs) /\ msgs = pending

LEMMA WriteEffect ==
  ASSUME FullInv, TypeOK',
         NEW ch \in Nat, NEW stamp \in Stamps, NEW len \in Lens,
         Write(ch, stamp, len)
  PROVE  \E msgs : /\ Effect(msgs)
                   /\ \/ accepted' = accepted
                      \/ \E m : /\ accepted' = Append(accepted, m)
                                /\ m.id = Len(accepted) + 1
<1> DEFINE m == [id |-> Len(accepted) + 1, ch |-> ch, stamp |-> stamp,
                 len |-> len]
           msgs == Append(pending, m)
           bytes == pending_bytes + Overhead + len
<1>1. /\ TypeOK /\ AccountsInv /\ ContentInv /\ NotePos
      /\ UNCHANGED <<flushed, registry>>
  BY DEF FullInv, Write
<1>2. /\ accepted \in Seq(Message) /\ pending \in Seq(Message)
      /\ Waiting(pending, Len(accepted))
  BY <1>1 DEF TypeOK, ContentInv
<1>3. CASE HeaderFails /\ UNCHANGED accepted
  <2>1. Call
    BY <1>1, <1>3, HeaderFailsCall
  <2>2. Offered(pending)
    BY <1>2, <1>3 DEF Offered
  <2>3. Effect(pending)
    BY <1>1, <1>3, <2>1, <2>2 DEF Effect
  <2>4. QED
    BY <1>3, <2>3
<1>4. CASE /\ accepted' = Append(accepted, m)
           /\ \/ Buffer(msgs, bytes)
              \/ ChunkWritten(msgs, <<>>) /\ Succeeds /\ UNCHANGED finished
              \/ ChunkFails(msgs, bytes)
  <2>1. m \in Message /\ m.id = Len(accepted) + 1
    BY <1>1, NewMessage
  <2> HIDE DEF m
  <2>2. Len(accepted) \in Nat
    BY <1>2
  <2>3. Len(accepted') = Len(accepted) + 1
    BY <1>2, <1>4, <2>1
  <2>4. msgs \in Seq(Message) /\ msgs # <<>>
    BY <1>2, <2>1
  <2>5. Waiting(msgs, Len(accepted) + 1)
    BY <1>2, <2>1, <2>2, WaitingNext
  <2>6. Offered(msgs)
    BY <1>4, <2>1, <2>3, <2>4, <2>5 DEF Offered
  <2> HIDE DEF msgs, bytes
  <2>7. Effect(msgs)
    <3>1. CASE Buffer(msgs, bytes)
      <4>1. Call
        BY <1>1, <3>1, BufferCall
      <4>2. QED
        BY <1>1, <2>4, <2>6, <3>1, <4>1 DEF Effect
    <3>2. CASE ChunkWritten(msgs, <<>>) /\ Succeeds /\ UNCHANGED finished
      <4>1. << >> \in Seq(Cell)
        OBVIOUS
      <4>2. Call
        BY <1>1, <2>4, <3>2, <4>1, ChunkWrittenCall
      <4>3. QED
        BY <1>1, <2>6, <3>2, <4>2 DEF Effect
    <3>3. CASE ChunkFails(msgs, bytes)
      <4>1. Call
        BY <1>1, <2>4, <3>3, ChunkFailsCall
      <4>2. QED
        BY <1>1, <2>6, <3>3, <4>1 DEF Effect
    <3>4. QED
      BY <1>4, <3>1, <3>2, <3>3
  <2>8. QED
    BY <1>4, <2>1, <2>7
<1>5. QED
  BY <1>3, <1>4 DEF Write, FlushFull

LEMMA FinishEffect ==
  ASSUME FullInv, TypeOK', FinishBody
  PROVE  Effect(pending) /\ accepted' = accepted
<1>1. /\ TypeOK /\ AccountsInv /\ ContentInv /\ NotePos
      /\ accepted' = accepted /\ UNCHANGED registry /\ ~finished
  BY DEF FullInv, FinishBody
<1>2. pending \in Seq(Message) /\ Offered(pending)
  BY <1>1 DEF TypeOK, ContentInv, Offered
<1>3. CASE HeaderFails /\ UNCHANGED flushed
  <2>1. Call
    BY <1>1, <1>3, HeaderFailsCall
  <2>2. QED
    BY <1>1, <1>2, <1>3, <2>1 DEF Effect
<1>4. CASE ChunkFails(pending, pending_bytes) /\ UNCHANGED flushed
  <2>1. Call
    BY <1>1, <1>2, <1>4, ChunkFailsCall
  <2>2. QED
    BY <1>1, <1>2, <1>4, <2>1 DEF Effect
<1>5. ASSUME NEW tail \in Seq(Cell), ChunkWritten(pending, tail)
      PROVE  Call
  BY <1>1, <1>2, <1>5, ChunkWrittenCall
<1>6. FooterOf(pending) \in Seq(Cell)
  BY <1>1, FooterType
<1>7. CASE FooterFails
  <2>1. PICK n \in 0..Len(FooterOf(pending)) :
          ChunkWritten(pending, SubSeq(FooterOf(pending), 1, n))
    BY <1>7 DEF FooterFails
  <2>2. SubSeq(FooterOf(pending), 1, n) \in Seq(Cell)
    BY <1>6, PrefixProperties
  <2>3. Call
    BY <1>5, <2>1, <2>2
  <2>4. Closes(pending)
    BY <1>1, <1>7 DEF FooterFails, Closes
  <2>5. QED
    BY <1>1, <1>2, <2>3, <2>4 DEF Effect
<1>8. CASE FooterWritten
  <2>1. Call
    BY <1>5, <1>6, <1>8 DEF FooterWritten
  <2>2. Closes(pending)
    BY <1>1, <1>8 DEF FooterWritten, Closes
  <2>3. QED
    BY <1>1, <1>2, <2>1, <2>2 DEF Effect
<1>9. QED
  BY <1>1, <1>3, <1>4, <1>7, <1>8 DEF FinishBody

LEMMA EntrySpan ==
  ASSUME NEW e \in ChunkIndex
  PROVE  /\ e.offset \in Nat /\ EntryEnd(e) \in Nat
         /\ e.offset <= EntryEnd(e)
<1>1. /\ e.offset \in Nat /\ e.msg_count \in Nat
      /\ EntryEnd(e) = e.offset + 2 + e.msg_count
  BY EntryFields
<1>2. QED
  BY <1>1

LEMMA ConcatThree ==
  ASSUME NEW s \in Seq(Cell), NEW t \in Seq(Cell), NEW u \in Seq(Cell)
  PROVE  /\ Len(s \o t \o u) = Len(s) + Len(t) + Len(u)
         /\ \A k \in 1..Len(s) : (s \o t \o u)[k] = s[k]
         /\ \A k \in 1..Len(t) : (s \o t \o u)[Len(s) + k] = t[k]
         /\ \A k \in 1..Len(u) : (s \o t \o u)[Len(s) + Len(t) + k] = u[k]
  OBVIOUS

\* Each chunk ends before the next ones begin.
LEMMA ChunksFollow ==
  ASSUME NEW index \in Seq(ChunkIndex), NEW first \in Nat, NEW end, NEW count,
         Tiles(index, first, end, count),
         NEW i \in 1..Len(index), NEW j \in 1..Len(index), i < j
  PROVE  EntryEnd(index[i]) <= index[j].offset
<1> DEFINE Late == {d \in Nat : /\ i + 1 + d \in 1..Len(index)
                                /\ ~(EntryEnd(index[i]) <= index[i + 1 + d].offset)}
<1>1. Len(index) \in Nat /\ \A k \in 1..Len(index) : index[k] \in ChunkIndex
  OBVIOUS
<1>2. \A k \in 1..Len(index) : /\ index[k].offset \in Nat
                               /\ EntryEnd(index[k]) \in Nat
                               /\ index[k].offset <= EntryEnd(index[k])
  BY <1>1, EntrySpan
<1>3. \A k \in 1..Len(index) - 1 : index[k + 1].offset = EntryEnd(index[k])
  BY DEF Tiles
<1>4. Late = {}
  <2>1. SUFFICES ASSUME Late # {} PROVE FALSE
    OBVIOUS
  <2>2. PICK d \in Late : \A x \in Late : d <= x
    BY <2>1, Least
  <2>3. CASE d = 0
    BY <1>1, <1>2, <1>3, <2>2, <2>3
  <2>4. CASE d # 0
    <3>1. d - 1 \in Nat /\ d - 1 \notin Late /\ i + 1 + (d - 1) = i + d
      BY <2>2, <2>4
    <3>2. i + d \in 1..Len(index) - 1
      BY <1>1, <2>2, <2>4
    <3>3. EntryEnd(index[i]) <= index[i + d].offset
      BY <1>1, <3>1, <3>2
    <3>4. index[i + d + 1].offset = EntryEnd(index[i + d])
      BY <1>3, <3>2
    <3>5. EntryEnd(index[i]) <= index[i + d + 1].offset
      BY <1>1, <1>2, <2>2, <3>2, <3>3, <3>4, SMTT(30)
    <3>6. QED
      BY <2>2, <3>5
  <2>5. QED
    BY <2>3, <2>4
<1>5. j - i - 1 \in Nat /\ i + 1 + (j - i - 1) = j
  BY <1>1
<1>6. QED
  BY <1>4, <1>5

LEMMA ChunksBetween ==
  ASSUME NEW index \in Seq(ChunkIndex), NEW first \in Nat, NEW end \in Nat,
         NEW count \in Nat, Tiles(index, first, end, count),
         NEW i \in 1..Len(index)
  PROVE  first <= index[i].offset /\ EntryEnd(index[i]) <= end
<1>1. Len(index) \in Nat /\ \A k \in 1..Len(index) : index[k] \in ChunkIndex
  OBVIOUS
<1>2. \A k \in 1..Len(index) : /\ index[k].offset \in Nat
                               /\ EntryEnd(index[k]) \in Nat
                               /\ index[k].offset <= EntryEnd(index[k])
  BY <1>1, EntrySpan
<1>3. index[1].offset = first /\ EntryEnd(index[Len(index)]) = end
  BY <1>1 DEF Tiles
<1>4. first <= index[i].offset
  <2>1. CASE i = 1
    BY <1>3, <2>1
  <2>2. CASE i # 1
    <3>1. 1 \in 1..Len(index) /\ 1 < i
      BY <1>1, <2>2
    <3>2. EntryEnd(index[1]) <= index[i].offset
      BY <3>1, ChunksFollow
    <3>3. QED
      BY <1>2, <1>3, <3>1, <3>2
  <2>3. QED
    BY <2>1, <2>2
<1>5. EntryEnd(index[i]) <= end
  <2>1. CASE i = Len(index)
    BY <1>3, <2>1
  <2>2. CASE i # Len(index)
    <3>1. Len(index) \in 1..Len(index) /\ i < Len(index)
      BY <1>1, <2>2
    <3>2. EntryEnd(index[i]) <= index[Len(index)].offset
      BY <3>1, ChunksFollow
    <3>3. QED
      BY <1>2, <1>3, <3>1, <3>2
  <2>3. QED
    BY <2>1, <2>2
<1>6. QED
  BY <1>4, <1>5

\* The cells a call adds behind the header.
Added(cells) == HeaderDone /\ file' = file \o HeaderCells \o cells

LEMMA AddedCells ==
  ASSUME TypeOK, NEW cells \in Seq(Cell), Added(cells),
         NEW n \in Nat, n = Len(file) + Len(HeaderCells)
  PROVE  /\ Len(file) \in Nat /\ Len(cells) \in Nat
         /\ Len(file') = n + Len(cells)
         /\ \A k \in 1..Len(file) : file'[k] = file[k]
         /\ \A k \in 1..Len(cells) : file'[n + k] = cells[k]
         /\ header_written => n = Len(file)
         /\ ~header_written => /\ n = Len(file) + 2
                               /\ file'[Len(file) + 1] = MagicCell
                               /\ file'[Len(file) + 2] = DeclCell(schemas, channels)
<1>1. /\ file \in Seq(Cell) /\ HeaderCells \in Seq(Cell)
      /\ Len(HeaderCells) = IF header_written THEN 0 ELSE 2
      /\ header_written \in BOOLEAN
  BY HeaderCellsType DEF TypeOK
<1>2. ~header_written =>
        HeaderCells[1] = MagicCell /\ HeaderCells[2] = DeclCell(schemas, channels)
  BY DEF HeaderCells
<1>3. /\ Len(file) \in Nat /\ Len(cells) \in Nat
      /\ Len(file') = n + Len(cells)
      /\ \A k \in 1..Len(file) : file'[k] = file[k]
      /\ \A k \in 1..Len(HeaderCells) : file'[Len(file) + k] = HeaderCells[k]
      /\ \A k \in 1..Len(cells) : file'[n + k] = cells[k]
  <2>1. PICK f \in Seq(Cell) : f = file
    BY <1>1
  <2>2. PICK h \in Seq(Cell) : h = HeaderCells
    BY <1>1
  <2>3. n = Len(f) + Len(h) /\ Len(f) \in Nat /\ Len(cells) \in Nat
    BY <2>1, <2>2
  <2>4. /\ Len(f \o h \o cells) = Len(f) + Len(h) + Len(cells)
        /\ \A k \in 1..Len(f) : (f \o h \o cells)[k] = f[k]
        /\ \A k \in 1..Len(h) : (f \o h \o cells)[Len(f) + k] = h[k]
        /\ \A k \in 1..Len(cells) : (f \o h \o cells)[Len(f) + Len(h) + k] = cells[k]
    BY ConcatThree
  <2>5. PICK v : v = f \o h \o cells /\ file' = v
    BY <2>1, <2>2 DEF Added
  <2>6. QED
    BY <2>1, <2>2, <2>3, <2>4, <2>5
<1>4. ASSUME ~header_written
      PROVE  /\ n = Len(file) + 2
             /\ file'[Len(file) + 1] = MagicCell
             /\ file'[Len(file) + 2] = DeclCell(schemas, channels)
  <2>1. Len(HeaderCells) = 2
    BY <1>1, <1>4
  <2>2. 1 \in 1..Len(HeaderCells) /\ 2 \in 1..Len(HeaderCells)
    BY <2>1
  <2>3. QED
    BY <1>2, <1>3, <1>4, <2>1, <2>2
<1>5. header_written => n = Len(file)
  BY <1>1, <1>3
<1>6. QED
  BY <1>3, <1>4, <1>5

\* What each call adds.
LEMMA EffectAdds ==
  ASSUME TypeOK, NEW msgs, Effect(msgs), ~HeaderFails
  PROVE  \E cells \in Seq(Cell) : Added(cells)
<1>1. /\ file \in Seq(Cell) /\ HeaderCells \in Seq(Cell)
      /\ msgs \in Seq(Message)
  BY HeaderCellsType DEF TypeOK, Effect, Offered
<1>2. ChunkOf(msgs) \in Seq(Cell) /\ Len(ChunkOf(msgs)) \in Nat
  BY <1>1, ChunkOfType
<1>3. CASE \E bytes : Buffer(msgs, bytes)
  <2>1. PICK f \in Seq(Cell) : f = file \o HeaderCells
    BY <1>1, ConcatLength
  <2>2. f = f \o <<>>
    OBVIOUS
  <2>3. <<>> \in Seq(Cell)
    OBVIOUS
  <2>4. Added(<<>>)
    BY <1>3, <2>1, <2>2 DEF Buffer, Added
  <2>5. QED
    BY <2>3, <2>4
<1>4. CASE \E bytes : ChunkFails(msgs, bytes)
  <2>1. PICK n \in 0..Len(ChunkOf(msgs)) - 1 :
          file' = file \o HeaderCells \o SubSeq(ChunkOf(msgs), 1, n)
    BY <1>4 DEF ChunkFails
  <2>2. n \in 0..Len(ChunkOf(msgs))
    BY <1>2, <2>1
  <2>3. SubSeq(ChunkOf(msgs), 1, n) \in Seq(Cell)
    BY <1>2, <2>2, PrefixProperties
  <2>4. QED
    BY <1>4, <2>1, <2>3 DEF ChunkFails, Added
<1>5. ASSUME NEW tail \in Seq(Cell), ChunkWritten(msgs, tail)
      PROVE  \E cells \in Seq(Cell) : Added(cells)
  <2>1. PICK f \in Seq(Cell) : f = file \o HeaderCells
    BY <1>1, ConcatLength
  <2>2. PICK c \in Seq(Cell) : c = ChunkOf(msgs)
    BY <1>2
  <2>3. f \o c \o tail = f \o (c \o tail) /\ c \o tail \in Seq(Cell)
    BY ConcatLength
  <2>4. Added(c \o tail)
    BY <1>5, <2>1, <2>2, <2>3 DEF ChunkWritten, Added
  <2>5. QED
    BY <2>3, <2>4
<1>6. CASE Closes(msgs) /\ msgs = pending
  <2>1. FooterOf(msgs) \in Seq(Cell)
    BY <1>6, FooterType
  <2>2. \A n \in 0..Len(FooterOf(msgs)) : SubSeq(FooterOf(msgs), 1, n) \in Seq(Cell)
    BY <2>1, PrefixProperties
  <2>3. QED
    BY <1>5, <1>6, <2>1, <2>2 DEF Closes
<1>7. CASE ChunkWritten(msgs, <<>>)
  <2>1. <<>> \in Seq(Cell)
    OBVIOUS
  <2>2. QED
    BY <1>5, <1>7, <2>1
<1>8. QED
  BY <1>3, <1>4, <1>6, <1>7 DEF Effect

LEMMA EffectHeader ==
  ASSUME NEW msgs, Effect(msgs)
  PROVE  HeaderFails \/ HeaderDone
  BY DEF Effect, Buffer, ChunkFails, ChunkWritten, Closes

\* A header that was written stays as it is.
LEMMA HeaderStays ==
  ASSUME TypeOK, NEW msgs, Effect(msgs), header_written
  PROVE  ~HeaderFails /\ header_written' = TRUE /\ data_offset' = data_offset
  BY EffectHeader DEF HeaderFails, HeaderDone

LEMMA EffectTypes ==
  ASSUME NEW msgs, Effect(msgs)
  PROVE  /\ TypeOK /\ TypeOK'
         /\ file \in Seq(Cell) /\ Len(file) \in Nat
         /\ file' \in Seq(Cell) /\ Len(file') \in Nat
         /\ Len(file) <= Len(file')
         /\ \A k \in 1..Len(file) : file'[k] = file[k]
         /\ pos \in Nat /\ pos' \in Nat /\ pos <= pos'
         /\ parted \in Nat \cup {-1} /\ parted' \in Nat \cup {-1}
         /\ parted' = IF parted # -1 \/ Len(file') = pos' THEN parted ELSE pos'
         /\ header_written \in BOOLEAN /\ data_offset \in Nat /\ data_offset' \in Nat
         /\ UNCHANGED <<schemas, channels>>
         /\ msgs \in Seq(Message)
<1>1. /\ TypeOK /\ TypeOK' /\ pos <= pos' /\ Grown(file, file') /\ NotePos
      /\ UNCHANGED <<schemas, channels>> /\ msgs \in Seq(Message)
  BY DEF Effect, Call, registry, Offered
<1>2. file \in Seq(Cell) /\ file' \in Seq(Cell)
  BY <1>1 DEF TypeOK
<1>3. Len(file) \in Nat /\ Len(file') \in Nat
  BY <1>2
<1>4. /\ pos \in Nat /\ pos' \in Nat
      /\ parted \in Nat \cup {-1} /\ parted' \in Nat \cup {-1}
      /\ header_written \in BOOLEAN /\ data_offset \in Nat /\ data_offset' \in Nat
  BY <1>1 DEF TypeOK
<1>5. QED
  BY <1>1, <1>2, <1>3, <1>4 DEF Grown, NotePos

\* Before the header is written the file is empty, or holds a torn header.
LEMMA NoHeader ==
  ASSUME FullInv, BoundInv, ~header_written
  PROVE  pos = 0 /\ (parted = 0 \/ (parted = -1 /\ Len(file) = 0))
<1>1. pos = 0 /\ parted \in Nat \cup {-1}
  BY DEF FullInv, AccountsInv, ChunksTile, TypeOK
<1>2. QED
  BY <1>1 DEF FullInv, ContentInv, PartInv, BoundInv

LEMMA OneElement ==
  ASSUME NEW S, NEW s \in Seq(S), Len(s) = 1
  PROVE  s = <<s[1]>>
  OBVIOUS

LEMMA FirstOfTwo ==
  ASSUME NEW S, NEW a \in S, NEW b \in S
  PROVE  SubSeq(<<a, b>>, 1, 1) = <<a>>
<1>1. /\ <<a, b>> \in Seq(S)
      /\ Len(<<a, b>>) = 2 /\ <<a, b>>[1] = a
  OBVIOUS
<1>2. /\ SubSeq(<<a, b>>, 1, 1) \in Seq(S)
      /\ Len(SubSeq(<<a, b>>, 1, 1)) = 1
  BY <1>1, PrefixProperties
<1>3. SubSeq(<<a, b>>, 1, 1)[1] = a
  BY <1>1
<1>4. PICK t \in Seq(S) : t = SubSeq(<<a, b>>, 1, 1)
  BY <1>2
<1>5. t = <<t[1]>>
  BY <1>2, <1>4, OneElement
<1>6. QED
  BY <1>3, <1>4, <1>5

LEMMA HeaderFailsCells ==
  ASSUME TypeOK, HeaderFails
  PROVE  file' = file \/ file' = file \o <<MagicCell>>
<1>1. HeaderCells = <<MagicCell, DeclCell(schemas, channels)>> /\ Len(HeaderCells) = 2
  BY HeaderCellsType DEF HeaderFails, HeaderCells
<1>2. PICK n \in 0..Len(HeaderCells) - 1 : file' = file \o SubSeq(HeaderCells, 1, n)
  BY DEF HeaderFails
<1>3. n = 0 \/ n = 1
  BY <1>1, <1>2
<1>4. CASE n = 0
  <2>1. PICK f \in Seq(Cell) : f = file
    BY DEF TypeOK
  <2>2. f \o <<>> = f
    OBVIOUS
  <2>3. SubSeq(HeaderCells, 1, n) = <<>>
    BY <1>1, <1>4
  <2>4. QED
    BY <1>2, <2>1, <2>2, <2>3
<1>5. CASE n = 1
  <2> DEFINE S == {MagicCell, DeclCell(schemas, channels)}
  <2>1. MagicCell \in S /\ DeclCell(schemas, channels) \in S
    OBVIOUS
  <2> HIDE DEF S
  <2>2. SubSeq(HeaderCells, 1, n) = <<MagicCell>>
    BY <1>1, <1>5, <2>1, FirstOfTwo
  <2>3. QED
    BY <1>2, <2>2
<1>6. QED
  BY <1>3, <1>4, <1>5

LEMMA HeadStep ==
  ASSUME FullInv, FullInv', LinkInv, HeadInv, BoundInv, NEW msgs, Effect(msgs)
  PROVE  HeadInv'
<1>1. /\ TypeOK /\ Len(file) \in Nat /\ Len(file') \in Nat
      /\ Len(file) <= Len(file')
      /\ \A k \in 1..Len(file) : file'[k] = file[k]
      /\ pos \in Nat /\ pos' \in Nat /\ pos <= pos'
      /\ parted \in Nat \cup {-1} /\ parted' \in Nat \cup {-1}
      /\ parted' = IF parted # -1 \/ Len(file') = pos' THEN parted ELSE pos'
      /\ header_written \in BOOLEAN /\ data_offset \in Nat
      /\ UNCHANGED <<schemas, channels>>
  BY EffectTypes
<1>2. /\ parted = 0 =>
           /\ Len(file) >= 1
           /\ Len(file) >= 2 => file[2] = MagicCell
      /\ parted # 0 /\ header_written =>
           /\ data_offset = 2 /\ Len(file) >= 2
           /\ file[1] = MagicCell /\ Declares(file[2])
  BY DEF HeadInv
<1>3. CASE header_written
  <2>1. header_written' = TRUE /\ data_offset' = data_offset
    BY <1>1, <1>3, HeaderStays
  <2>2. CASE parted = 0
    <3>1. Len(file) >= 2 /\ file[2] = MagicCell
      <4>1. Len(file) >= 1 /\ Len(file) # 1 /\ (Len(file) >= 2 => file[2] = MagicCell)
        BY <1>3, <2>2 DEF HeadInv
      <4>2. PICK l \in Nat : l = Len(file)
        BY <1>1
      <4>3. l >= 2
        BY <4>1, <4>2
      <4>4. QED
        BY <4>1, <4>2, <4>3
    <3>2. Len(file') >= 2 /\ file'[2] = MagicCell /\ parted' = 0
      BY <1>1, <2>2, <3>1
    <3>3. QED
      BY <1>1, <3>2 DEF HeadInv
  <2>3. CASE parted # 0
    <3>1. data_offset = 2 /\ Len(file) >= 2 /\ file[1] = MagicCell /\ Declares(file[2])
      BY <1>3, <2>3 DEF HeadInv
    <3>2. file'[1] = MagicCell /\ file'[2] = file[2] /\ Len(file') >= 2
      BY <1>1, <3>1
    <3>3. data_offset <= pos
      <4>1. Tiles(chunk_index, data_offset, pos, message_count)
        BY <1>3 DEF FullInv, AccountsInv, ChunksTile
      <4>2. pos = data_offset + 2 * Len(chunk_index) + message_count
        BY <4>1 DEF Tiles, ChunkHeaderLen
      <4>3. Len(chunk_index) \in Nat /\ message_count \in Nat
        BY <1>1 DEF TypeOK
      <4>4. QED
        BY <1>1, <4>2, <4>3
    <3>4. parted' # 0
      BY <1>1, <2>3, <3>1, <3>3
    <3>5. Declares(file[2])'
      BY <1>1, <3>1, <3>2 DEF Declares
    <3>6. QED
      BY <2>1, <3>1, <3>2, <3>4, <3>5 DEF HeadInv
  <2>4. QED
    BY <2>2, <2>3
<1>4. CASE ~header_written /\ HeaderFails
  <2>4. file' = file \/ file' = file \o <<MagicCell>>
    BY <1>1, <1>4, HeaderFailsCells
  <2>5. header_written' = FALSE /\ pos' = pos
    BY <1>4 DEF HeaderFails
  <2>6. pos = 0 /\ (parted = 0 \/ (parted = -1 /\ Len(file) = 0))
    BY <1>4, NoHeader
  <2>7. file' = file \/ (Len(file') = Len(file) + 1 /\ file'[Len(file) + 1] = MagicCell)
    BY <1>1, <2>4 DEF TypeOK
  <2>8. parted' = 0 => /\ Len(file') >= 1
                       /\ Len(file') >= 2 => file'[2] = MagicCell
    BY <1>1, <1>2, <2>5, <2>6, <2>7
  <2>9. QED
    BY <2>5, <2>8 DEF HeadInv
<1>5. CASE ~header_written /\ ~HeaderFails
  <2>1. PICK cells \in Seq(Cell) : Added(cells)
    BY <1>1, <1>5, EffectAdds
  <2>2. PICK n \in Nat : n = Len(file) + Len(HeaderCells)
    BY <1>1, HeaderCellsType
  <2>3. /\ n = Len(file) + 2
        /\ file'[Len(file) + 1] = MagicCell
        /\ file'[Len(file) + 2] = DeclCell(schemas, channels)
        /\ Len(file') = n + Len(cells) /\ Len(cells) \in Nat
    BY <1>1, <1>5, <2>1, <2>2, AddedCells
  <2>4. header_written' = TRUE /\ data_offset' = HeaderPos
    BY <1>5, EffectHeader DEF HeaderDone
  <2>5. pos = 0 /\ (parted = 0 \/ (parted = -1 /\ Len(file) = 0))
    BY <1>5, NoHeader
  <2>6. data_offset' = 2
    <3>1. Len(HeaderCells) = 2
      BY <1>1, <1>5, HeaderCellsType
    <3>2. QED
      BY <2>4, <2>5, <3>1 DEF HeaderPos
  <2>7. CASE parted = 0
    <3>1. parted' = 0 /\ Len(file) >= 1 /\ Len(file') >= 3
      BY <1>1, <1>2, <2>3, <2>7
    <3>2. file'[2] = MagicCell
      <4>1. CASE Len(file) = 1
        BY <2>3, <4>1
      <4>2. CASE Len(file) # 1
        <5>0. PICK l \in Nat : l = Len(file)
          BY <1>1
        <5>1. l >= 2
          BY <3>1, <4>2, <5>0
        <5>2. file[2] = MagicCell /\ 2 \in 1..Len(file)
          BY <1>2, <2>7, <5>0, <5>1
        <5>3. QED
          BY <1>1, <5>2
      <4>3. QED
        BY <4>1, <4>2
    <3>3. QED
      BY <3>1, <3>2 DEF HeadInv
  <2>8. CASE parted = -1 /\ Len(file) = 0
    <3>1. pos' >= 2
      <4>1. Tiles(chunk_index', data_offset', pos', message_count')
        BY <2>4 DEF FullInv, AccountsInv, ChunksTile
      <4>2. pos' = data_offset' + 2 * Len(chunk_index') + message_count'
        BY <4>1 DEF Tiles, ChunkHeaderLen
      <4>3. Len(chunk_index') \in Nat /\ message_count' \in Nat
        BY DEF FullInv, TypeOK
      <4>4. QED
        BY <1>1, <2>6, <4>2, <4>3
    <3>2. parted' # 0
      BY <1>1, <2>8, <3>1
    <3>3. /\ file'[1] = MagicCell /\ file'[2] = DeclCell(schemas, channels)
          /\ Len(file') >= 2
      BY <1>1, <2>3, <2>8
    <3>4. Declares(file[2])'
      <4>1. /\ schemas = SubSeq(schemas, 1, Len(schemas)) /\ Len(schemas) \in 0..Len(schemas)
            /\ channels = SubSeq(channels, 1, Len(channels)) /\ Len(channels) \in 0..Len(channels)
        BY <1>1 DEF TypeOK
      <4>2. /\ file'[2] = DeclCell(SubSeq(schemas', 1, Len(schemas')),
                                  SubSeq(channels', 1, Len(channels')))
            /\ Len(schemas') \in 0..Len(schemas') /\ Len(channels') \in 0..Len(channels')
        BY <1>1, <3>3, <4>1
      <4>3. \A c \in 1..Len(channels') : \E s \in 1..Len(schemas') :
              schemas'[s].id = channels'[c].schema_id
        BY <1>1 DEF LinkInv
      <4>4. QED
        BY <4>2, <4>3 DEF Declares
    <3>5. QED
      BY <2>6, <3>2, <3>3, <3>4 DEF HeadInv
  <2>9. QED
    BY <2>5, <2>7, <2>8
<1>6. QED
  BY <1>1, <1>3, <1>4, <1>5

LEMMA EffectIndex ==
  ASSUME NEW msgs, Effect(msgs)
  PROVE  /\ Len(chunk_index) \in Nat /\ Len(chunk_index') \in Nat
         /\ \/ chunk_index' = chunk_index
            \/ /\ msgs # <<>>
               /\ Len(chunk_index') = Len(chunk_index) + 1
               /\ chunk_index'[Len(chunk_index) + 1] = IndexEntry(msgs)
               /\ pending' = <<>>
         /\ \A i \in 1..Len(chunk_index) :
              chunk_index'[i] = chunk_index[i] /\ chunk_index[i] \in ChunkIndex
<1>1. TypeOK /\ msgs \in Seq(Message)
  BY DEF Effect, Call, Offered
<1>2. chunk_index \in Seq(ChunkIndex) /\ Len(chunk_index) \in Nat
  BY <1>1 DEF TypeOK
<1>3. chunk_index' = chunk_index \/ (chunk_index' = IndexWith(msgs) /\ pending' = <<>>)
  BY DEF Effect, HeaderFails, Buffer, ChunkFails, ChunkWritten, Closes, chunkVars
<1>4. CASE chunk_index' = chunk_index
  BY <1>2, <1>4
<1>5. CASE chunk_index' = IndexWith(msgs) /\ chunk_index' # chunk_index
  <2>1. msgs # <<>> /\ chunk_index' = Append(chunk_index, IndexEntry(msgs))
    BY <1>5 DEF IndexWith
  <2>2. PICK e \in ChunkIndex : e = IndexEntry(msgs)
    BY <1>1, <2>1, IndexWithType
  <2>3. chunk_index' = Append(chunk_index, e)
    BY <2>1, <2>2
  <2>4. /\ Len(chunk_index') = Len(chunk_index) + 1
        /\ chunk_index'[Len(chunk_index) + 1] = e
        /\ \A i \in 1..Len(chunk_index) : chunk_index'[i] = chunk_index[i]
    BY <1>2, <2>3
  <2>5. Len(chunk_index') \in Nat
    BY <1>2, <2>4
  <2>6. QED
    BY <1>2, <1>3, <1>5, <2>1, <2>2, <2>4, <2>5
<1>6. QED
  BY <1>3, <1>4, <1>5

LEMMA NewEntry ==
  ASSUME TypeOK, NEW msgs \in Seq(Message), msgs # <<>>
  PROVE  /\ IndexEntry(msgs) \in ChunkIndex
         /\ IndexEntry(msgs).offset = HeaderPos
         /\ IndexEntry(msgs).msg_count = Len(msgs)
         /\ pos <= HeaderPos
  BY IndexWithType, HeaderIsCounted, SortedMessages DEF IndexEntry

LEMMA BoundStep ==
  ASSUME FullInv, FullInv', BoundInv, NEW msgs, Effect(msgs)
  PROVE  BoundInv'
<1>1. /\ TypeOK /\ TypeOK' /\ pos \in Nat /\ pos' \in Nat /\ pos <= pos'
      /\ parted \in Nat \cup {-1}
      /\ parted' = IF parted # -1 \/ Len(file') = pos' THEN parted ELSE pos'
      /\ header_written \in BOOLEAN /\ data_offset \in Nat /\ data_offset' \in Nat
      /\ msgs \in Seq(Message)
  BY EffectTypes
<1>2. /\ Len(chunk_index) \in Nat /\ Len(chunk_index') \in Nat
      /\ \A i \in 1..Len(chunk_index) :
           chunk_index'[i] = chunk_index[i] /\ chunk_index[i] \in ChunkIndex
  BY EffectIndex
<1>3. CASE parted > 0
  <2>1. /\ header_written /\ data_offset <= parted
        /\ \A i \in 1..Len(chunk_index) :
             Intact(i) => EntryEnd(chunk_index[i]) <= parted
    BY <1>3 DEF BoundInv
  <2>2. header_written' = TRUE /\ data_offset' = data_offset /\ parted' = parted
    <3>1. header_written' = TRUE /\ data_offset' = data_offset
      BY <1>1, <2>1, HeaderStays
    <3>2. parted' = parted
      BY <1>1, <1>3
    <3>3. QED
      BY <3>1, <3>2
  <2>3. ASSUME NEW i \in 1..Len(chunk_index'), Intact(i)'
        PROVE  EntryEnd(chunk_index'[i]) <= parted'
    <3>1. CASE i \in 1..Len(chunk_index)
      <4>1. Intact(i)
        BY <1>2, <2>2, <2>3, <3>1 DEF Intact
      <4>2. QED
        BY <1>2, <2>1, <2>2, <3>1, <4>1
    <3>2. CASE i \notin 1..Len(chunk_index)
      <4>1. /\ msgs # <<>> /\ i = Len(chunk_index) + 1
            /\ chunk_index'[i] = IndexEntry(msgs)
        BY <1>2, <2>3, <3>2, EffectIndex
      <4>2. /\ pos <= HeaderPos /\ IndexEntry(msgs).offset = HeaderPos
            /\ IndexEntry(msgs) \in ChunkIndex
        BY <1>1, <4>1, NewEntry
      <4>3. parted <= pos
        BY <1>3 DEF FullInv, ContentInv, PartInv
      <4>4. chunk_index'[i].offset < parted
        BY <1>3, <2>2, <2>3 DEF Intact
      <4>5. HeaderPos \in Nat
        BY <4>2, EntryFields
      <4>6. QED
        BY <1>1, <4>1, <4>2, <4>3, <4>4, <4>5
    <3>3. QED
      BY <3>1, <3>2
  <2>4. QED
    BY <2>1, <2>2, <2>3 DEF BoundInv
<1>4. CASE parted = 0
  BY <1>1, <1>4 DEF BoundInv
<1>5. CASE parted = -1
  <2>1. SUFFICES ASSUME parted' > 0 PROVE BoundInv'
    BY DEF BoundInv
  <2>2. parted' = pos' /\ pos' > 0
    BY <1>1, <1>5, <2>1
  <2>3. header_written' /\ Tiles(chunk_index', data_offset', pos', message_count')
    BY <2>2 DEF FullInv, AccountsInv, ChunksTile
  <2>4. /\ chunk_index' \in Seq(ChunkIndex) /\ message_count' \in Nat
    BY <1>1 DEF TypeOK
  <2>5. \A i \in 1..Len(chunk_index') : EntryEnd(chunk_index'[i]) <= pos'
    BY <1>1, <2>3, <2>4, ChunksBetween
  <2>6. data_offset' <= pos'
    <3>1. pos' = data_offset' + 2 * Len(chunk_index') + message_count'
      BY <2>3 DEF Tiles, ChunkHeaderLen
    <3>2. QED
      BY <1>1, <1>2, <2>4, <3>1
  <2>7. QED
    BY <2>2, <2>3, <2>5, <2>6 DEF BoundInv
<1>6. QED
  BY <1>1, <1>3, <1>4, <1>5

\* The messages are numbered as they come.
Numbered ==
  \/ accepted' = accepted
  \/ \E m : accepted' = Append(accepted, m) /\ m.id = Len(accepted) + 1

LEMMA EffectWrites ==
  ASSUME NEW msgs, Effect(msgs), ~HeaderFails, ~(\E bytes : Buffer(msgs, bytes)),
         ~(\E bytes : ChunkFails(msgs, bytes))
  PROVE  \E tail \in Seq(Cell) : ChunkWritten(msgs, tail)
<1>1. TypeOK
  BY DEF Effect, Call
<1>2. CASE ChunkWritten(msgs, <<>>)
  <2>1. <<>> \in Seq(Cell)
    OBVIOUS
  <2>2. QED
    BY <1>2, <2>1
<1>3. CASE Closes(msgs) /\ msgs = pending
  <2>1. FooterOf(msgs) \in Seq(Cell)
    BY <1>1, <1>3, FooterType
  <2>2. \A n \in 0..Len(FooterOf(msgs)) : SubSeq(FooterOf(msgs), 1, n) \in Seq(Cell)
    BY <2>1, PrefixProperties
  <2>3. QED
    BY <1>3, <2>1, <2>2 DEF Closes
<1>4. QED
  BY <1>2, <1>3 DEF Effect

\* What happens to pending.
LEMMA EffectPending ==
  ASSUME NEW msgs, Effect(msgs)
  PROVE  \A k \in 1..Len(pending') : \E j \in 1..Len(msgs) : pending'[k] = msgs[j]
<1>1. msgs \in Seq(Message)
  BY DEF Effect, Offered
<1>2. CASE pending' = msgs
  BY <1>2
<1>3. CASE pending' = StableSort(msgs)
  <2>1. /\ Len(StableSort(msgs)) = Len(msgs)
        /\ \A i \in 1..Len(msgs) : \E j \in 1..Len(msgs) : StableSort(msgs)[i] = msgs[j]
    BY <1>1, MessageStamped, StableSortRearranges
  <2>2. QED
    BY <1>3, <2>1
<1>4. CASE pending' = <<>>
  BY <1>4
<1>5. QED
  BY <1>2, <1>3, <1>4 DEF Effect, HeaderFails, Buffer, ChunkFails, ChunkWritten, Closes

LEMMA MessagesStep ==
  ASSUME FullInv, FullInv', MessagesInv, NEW msgs, Effect(msgs), Numbered
  PROVE  MessagesInv'
<1>1. /\ Call /\ TypeOK /\ TypeOK' /\ Offered(msgs) /\ msgs \in Seq(Message)
      /\ AccountsInv /\ ChunksTile /\ ChunksInv /\ PartInv
  BY DEF Effect, Call, Offered, FullInv, ContentInv, AccountsInv
<1>2. accepted \in Seq(Message) /\ pending \in Seq(Message) /\ Len(accepted) \in Nat
  BY <1>1 DEF TypeOK
<1>3. /\ Len(accepted) <= Len(accepted')
      /\ \A k \in 1..Len(accepted) : accepted'[k] = accepted[k]
      /\ \A k \in 1..Len(accepted') : accepted'[k].id = k
  <2>1. \A k \in 1..Len(accepted) : accepted[k].id = k
    BY DEF MessagesInv
  <2>2. CASE accepted' = accepted
    BY <1>2, <2>1, <2>2
  <2>3. CASE accepted' # accepted
    <3>1. PICK m : accepted' = Append(accepted, m) /\ m.id = Len(accepted) + 1
      BY <2>3 DEF Numbered
    <3>2. QED
      BY <1>2, <2>1, <3>1
  <2>4. QED
    BY <2>2, <2>3
<1>4. ASSUME NEW m, FromWrites(m)
      PROVE  \E a \in 1..Len(accepted') : accepted'[a] = m
  BY <1>2, <1>3, <1>4 DEF FromWrites
<1>5. ASSUME NEW j \in 1..Len(msgs) PROVE FromWrites(msgs[j])'
  <2>1. \A k \in 1..Len(pending) :
          \E a \in 1..Len(accepted') : accepted'[a] = pending[k]
    <3>1. SUFFICES ASSUME NEW k \in 1..Len(pending)
                   PROVE  \E a \in 1..Len(accepted') : accepted'[a] = pending[k]
      OBVIOUS
    <3>2. FromWrites(pending[k])
      BY DEF MessagesInv
    <3>3. QED
      BY <1>4, <3>2
  <2>2. CASE msgs = pending
    BY <2>1, <2>2 DEF FromWrites
  <2>3. CASE msgs # pending
    <3>1. PICK m \in Message : accepted' = Append(accepted, m) /\ msgs = Append(pending, m)
      BY <1>1, <2>3 DEF Offered
    <3>2. FromWrites(m)'
      <4>1. Len(accepted') = Len(accepted) + 1 /\ accepted'[Len(accepted) + 1] = m
        BY <1>2, <3>1
      <4>2. QED
        BY <1>2, <4>1 DEF FromWrites
    <3>3. msgs[j] = m \/ (j \in 1..Len(pending) /\ msgs[j] = pending[j])
      BY <1>2, <3>1
    <3>4. QED
      BY <2>1, <3>2, <3>3 DEF FromWrites
  <2>4. QED
    BY <2>2, <2>3
<1>6. ASSUME NEW k \in 1..Len(pending') PROVE FromWrites(pending[k])'
  <2>1. PICK j \in 1..Len(msgs) : pending'[k] = msgs[j]
    BY EffectPending
  <2>2. QED
    BY <1>5, <2>1 DEF FromWrites
<1>7. ASSUME NEW i \in 1..Len(chunk_index'), Intact(i)',
             NEW k \in 1..chunk_index'[i].msg_count
      PROVE  FromWrites(MsgsAt(file, chunk_index[i])[k])'
  <2>1. CASE i \in 1..Len(chunk_index)
    <3>1. chunk_index'[i] = chunk_index[i] /\ chunk_index[i] \in ChunkIndex
      BY <2>1, EffectIndex
    <3>2. Intact(i)
      BY <1>1, <1>7, <2>1, <3>1, IntactBefore
    <3>3. Sound(file, chunk_index[i], Begin(i))
      BY <1>1, <2>1, <3>2 DEF ChunksInv
    <3>4. MsgsAt(file', chunk_index[i]) = MsgsAt(file, chunk_index[i])
      BY <1>1, <3>1, <3>3, SoundStays
    <3>5. FromWrites(MsgsAt(file, chunk_index[i])[k])
      BY <1>7, <2>1, <3>1, <3>2 DEF MessagesInv
    <3>6. QED
      BY <1>4, <3>1, <3>4, <3>5 DEF FromWrites
  <2>2. CASE i \notin 1..Len(chunk_index)
    <3>1. msgs # <<>> /\ i = Len(chunk_index) + 1 /\ chunk_index' # chunk_index
      BY <2>2, EffectIndex
    <3>2. PICK tail \in Seq(Cell) : ChunkWritten(msgs, tail)
      BY <3>1, EffectWrites DEF HeaderFails, Buffer, ChunkFails, chunkVars
    <3>3. Len(accepted') \in Nat /\ Waiting(msgs, Len(accepted'))
      BY <1>1 DEF TypeOK, Offered
    <3>4. /\ chunk_index'[i].msg_count = Len(msgs)
          /\ MsgsAt(file', chunk_index'[i]) = StableSort(msgs)
      <4>1. Len(chunk_index) + 1 \in Nat
        BY EffectIndex
      <4>2. QED
        BY <1>1, <1>7, <3>1, <3>2, <3>3, <4>1, WrittenChunk
    <3>5. PICK j \in 1..Len(msgs) : StableSort(msgs)[k] = msgs[j]
      BY <1>1, <1>7, <3>4, MessageStamped, StableSortRearranges
    <3>6. QED
      BY <1>5, <3>4, <3>5 DEF FromWrites
  <2>3. QED
    BY <2>1, <2>2
<1>8. QED
  BY <1>3, <1>6, <1>7 DEF MessagesInv

\* None of the cells behind the first a, up to b, is a footer trailer.
NoTrailer(f, a, b) == \A k \in a + 1..b : f[k].kind # "trailer"

LEMMA ChunkKinds ==
  ASSUME TypeOK, NEW msgs \in Seq(Message), NEW k \in 1..Len(ChunkOf(msgs))
  PROVE  /\ ChunkOf(msgs)[k].kind # "trailer"
         /\ msgs # <<>>
         /\ k = 1 => ChunkOf(msgs)[k] = ChunkMagicCell
         /\ k = 2 => /\ ChunkOf(msgs)[k].kind = "cfields"
                     /\ ChunkOf(msgs)[k].size = Len(msgs)
<1>1. msgs # <<>> /\ ChunkOf(msgs) = ChunkCells(StableSort(msgs), msg_ordinal)
  BY ChunkOfType DEF ChunkOf
<1>2. Len(StableSort(msgs)) = Len(msgs) /\ Len(msgs) \in Nat
  BY SortedMessages
<1>3. k \in 1..ChunkHeaderLen + Len(StableSort(msgs))
  BY <1>1, <1>2, ChunkOfType
<1>4. ChunkOf(msgs)[k] = IF k = 1 THEN ChunkMagicCell
                         ELSE IF k = 2 THEN FieldsCell(StableSort(msgs), msg_ordinal)
                         ELSE BodyCell(StableSort(msgs)[k - ChunkHeaderLen])
  BY <1>1, <1>3 DEF ChunkCells
<1>5. CASE k = 1
  BY <1>1, <1>4, <1>5 DEF ChunkMagicCell
<1>6. CASE k = 2
  <2>1. ChunkOf(msgs)[k] = FieldsCell(StableSort(msgs), msg_ordinal)
    BY <1>4, <1>6
  <2>2. ChunkOf(msgs)[k].kind = "cfields" /\ ChunkOf(msgs)[k].size = Len(msgs)
    BY <1>2, <2>1 DEF FieldsCell
  <2>3. QED
    BY <1>1, <1>6, <2>2
<1>7. CASE k # 1 /\ k # 2
  BY <1>1, <1>4, <1>7 DEF BodyCell
<1>8. QED
  BY <1>5, <1>6, <1>7

LEMMA HeaderKinds ==
  ASSUME TypeOK, NEW cells \in Seq(Cell), Added(cells),
         NEW n \in Nat, n = Len(file) + Len(HeaderCells)
  PROVE  NoTrailer(file', Len(file), n)
<1>1. /\ Len(file) \in Nat
      /\ header_written => n = Len(file)
      /\ ~header_written => /\ n = Len(file) + 2
                            /\ file'[Len(file) + 1] = MagicCell
                            /\ file'[Len(file) + 2] = DeclCell(schemas, channels)
  BY AddedCells
<1>2. CASE header_written
  BY <1>1, <1>2 DEF NoTrailer
<1>3. CASE ~header_written
  <2>1. /\ file'[Len(file) + 1].kind # "trailer"
        /\ file'[Len(file) + 2].kind # "trailer"
    BY <1>1, <1>3 DEF MagicCell, DeclCell
  <2>2. \A k \in Len(file) + 1..n : k = Len(file) + 1 \/ k = Len(file) + 2
    BY <1>1, <1>3
  <2>3. QED
    BY <2>1, <2>2 DEF NoTrailer
<1>4. QED
  BY <1>2, <1>3

LEMMA FailsCells ==
  ASSUME TypeOK, NEW msgs \in Seq(Message), NEW bytes, ChunkFails(msgs, bytes),
         NEW n \in Nat, n = Len(file) + Len(HeaderCells)
  PROVE  \E l \in 0..Len(msgs) + 1 :
           /\ Len(file') = n + l
           /\ l >= 1 => file'[n + 1] = ChunkMagicCell
           /\ l >= 2 => file'[n + 2].kind = "cfields" /\ file'[n + 2].size = Len(msgs)
           /\ NoTrailer(file', Len(file), Len(file'))
<1>1. /\ ChunkOf(msgs) \in Seq(Cell)
      /\ Len(ChunkOf(msgs)) = 2 + Len(msgs) /\ Len(msgs) \in Nat
  BY ChunkOfType DEF ChunkFails, ChunkHeaderLen
<1>2. PICK l \in 0..Len(ChunkOf(msgs)) - 1 :
        file' = file \o HeaderCells \o SubSeq(ChunkOf(msgs), 1, l)
  BY DEF ChunkFails
<1>3. l \in 0..Len(ChunkOf(msgs)) /\ l \in 0..Len(msgs) + 1
  BY <1>1, <1>2
<1>4. /\ SubSeq(ChunkOf(msgs), 1, l) \in Seq(Cell) /\ Len(SubSeq(ChunkOf(msgs), 1, l)) = l
      /\ \A k \in 1..l : SubSeq(ChunkOf(msgs), 1, l)[k] = ChunkOf(msgs)[k]
  BY <1>1, <1>3, PrefixProperties
<1>5. PICK cells \in Seq(Cell) : cells = SubSeq(ChunkOf(msgs), 1, l)
  BY <1>4
<1>6. Added(cells)
  BY <1>2, <1>5 DEF Added, ChunkFails
<1>7. /\ Len(file) \in Nat
      /\ Len(file') = n + l
      /\ \A k \in 1..l : file'[n + k] = ChunkOf(msgs)[k]
  <2>1. /\ Len(file) \in Nat
        /\ Len(file') = n + Len(cells)
        /\ \A k \in 1..Len(cells) : file'[n + k] = cells[k]
    BY <1>6, AddedCells
  <2>2. QED
    BY <1>4, <1>5, <2>1
<1>8. \A k \in 1..l : k \in 1..Len(ChunkOf(msgs))
  BY <1>1, <1>3
<1>9. NoTrailer(file', Len(file), Len(file'))
  <2>1. NoTrailer(file', Len(file), n)
    BY <1>6, HeaderKinds
  <2>2. \A k \in 1..l : file'[n + k].kind # "trailer"
    BY <1>7, <1>8, ChunkKinds
  <2>3. SUFFICES ASSUME NEW k \in Len(file) + 1..n + l, k \notin Len(file) + 1..n
                 PROVE  file'[k].kind # "trailer"
    BY <1>7, <2>1 DEF NoTrailer
  <2>4. k - n \in 1..l /\ n + (k - n) = k
    BY <1>3, <1>7, <2>3
  <2>5. QED
    BY <2>2, <2>4
<1>10. l >= 1 => file'[n + 1] = ChunkMagicCell
  <2>1. l >= 1 => 1 \in 1..l
    BY <1>3
  <2>2. QED
    BY <1>7, <1>8, <2>1, ChunkKinds
<1>11. l >= 2 => file'[n + 2].kind = "cfields" /\ file'[n + 2].size = Len(msgs)
  <2>1. l >= 2 => 2 \in 1..l
    BY <1>3
  <2>2. l >= 2 => 2 \in 1..Len(ChunkOf(msgs)) /\ file'[n + 2] = ChunkOf(msgs)[2]
    BY <1>7, <1>8, <2>1
  <2>3. 2 \in 1..Len(ChunkOf(msgs)) =>
          ChunkOf(msgs)[2].kind = "cfields" /\ ChunkOf(msgs)[2].size = Len(msgs)
    BY ChunkKinds, Zenon
  <2>4. QED
    BY <2>2, <2>3, Zenon
<1>12. QED
  BY <1>3, <1>7, <1>9, <1>10, <1>11

\* What lies behind the header once a chunk of these messages and this tail have
\* been written.
LiesBehind(msgs, tail, n) ==
  \E l \in Nat :
    /\ l = IF msgs = <<>> THEN 0 ELSE 2 + Len(msgs)
    /\ pos' = HeaderPos + l
    /\ Len(tail) \in Nat /\ Len(file') = n + l + Len(tail)
    /\ msgs # <<>> => file'[n + 1] = ChunkMagicCell
    /\ \A k \in 1..Len(tail) : file'[n + l + k] = tail[k]
    /\ NoTrailer(file', Len(file), n + l)

LEMMA WrittenCells ==
  ASSUME TypeOK, NEW msgs \in Seq(Message), NEW tail \in Seq(Cell),
         ChunkWritten(msgs, tail),
         NEW n \in Nat, n = Len(file) + Len(HeaderCells)
  PROVE  LiesBehind(msgs, tail, n)
<1>1. /\ ChunkOf(msgs) \in Seq(Cell) /\ Len(msgs) \in Nat
      /\ Len(ChunkOf(msgs)) = IF msgs = <<>> THEN 0 ELSE 2 + Len(msgs)
  BY ChunkOfType DEF ChunkHeaderLen
<1>2. PICK l \in Nat : l = Len(ChunkOf(msgs))
  BY <1>1
<1>3. PICK c \in Seq(Cell) : c = ChunkOf(msgs)
  BY <1>1
<1>4. PICK f \in Seq(Cell) : f = file \o HeaderCells
  BY HeaderCellsType, ConcatLength DEF TypeOK
<1>5. /\ c \o tail \in Seq(Cell) /\ Len(c \o tail) = l + Len(tail) /\ Len(tail) \in Nat
      /\ \A k \in 1..l : (c \o tail)[k] = c[k]
      /\ \A k \in 1..Len(tail) : (c \o tail)[l + k] = tail[k]
      /\ f \o c \o tail = f \o (c \o tail)
  BY <1>2, <1>3, SMTT(30)
<1>6. Added(c \o tail)
  BY <1>3, <1>4, <1>5 DEF Added, ChunkWritten
<1>7. /\ Len(file) \in Nat
      /\ Len(file') = n + (l + Len(tail))
      /\ \A k \in 1..l + Len(tail) : file'[n + k] = (c \o tail)[k]
  <2>1. PICK d \in Seq(Cell) : d = c \o tail
    BY <1>5
  <2>2. Added(d)
    BY <1>6, <2>1
  <2>3. /\ Len(file) \in Nat
        /\ Len(file') = n + Len(d)
        /\ \A k \in 1..Len(d) : file'[n + k] = d[k]
    BY <2>2, AddedCells
  <2>4. Len(d) = l + Len(tail)
    BY <1>5, <2>1
  <2>5. QED
    BY <2>1, <2>3, <2>4
<1>8. \A k \in 1..l : file'[n + k] = ChunkOf(msgs)[k] /\ k \in 1..Len(ChunkOf(msgs))
  <2>1. SUFFICES ASSUME NEW k \in 1..l
                 PROVE  file'[n + k] = ChunkOf(msgs)[k] /\ k \in 1..Len(ChunkOf(msgs))
    OBVIOUS
  <2>2. k \in 1..l + Len(tail)
    BY <1>5
  <2>3. file'[n + k] = c[k]
    BY <1>5, <1>7, <2>2
  <2>4. QED
    BY <1>2, <1>3, <2>3
<1>9. \A k \in 1..Len(tail) : file'[n + l + k] = tail[k]
  <2>1. SUFFICES ASSUME NEW k \in 1..Len(tail) PROVE file'[n + l + k] = tail[k]
    OBVIOUS
  <2>2. l + k \in 1..l + Len(tail) /\ n + (l + k) = n + l + k
    BY <1>5
  <2>3. QED
    BY <1>5, <1>7, <2>2
<1>10. NoTrailer(file', Len(file), n + l)
  <2>1. NoTrailer(file', Len(file), n)
    BY <1>5, <1>6, HeaderKinds
  <2>2. \A k \in 1..l : file'[n + k].kind # "trailer"
    BY <1>8, ChunkKinds, ZenonT(30)
  <2>3. SUFFICES ASSUME NEW k \in Len(file) + 1..n + l, k \notin Len(file) + 1..n
                 PROVE  file'[k].kind # "trailer"
    BY <1>7, <2>1 DEF NoTrailer
  <2>4. k - n \in 1..l /\ n + (k - n) = k
    BY <1>7, <2>3
  <2>5. QED
    BY <2>2, <2>4
<1>11. msgs # <<>> => file'[n + 1] = ChunkMagicCell
  <2>1. msgs # <<>> => 1 \in 1..l
    BY <1>1, <1>2
  <2>2. QED
    BY <1>8, <2>1, ChunkKinds
<1>12. pos' = HeaderPos + l
  BY <1>2 DEF ChunkWritten
<1>13. Len(file') = n + l + Len(tail)
  BY <1>5, <1>7
<1>14. QED
  BY <1>1, <1>2, <1>5, <1>9, <1>10, <1>11, <1>12, <1>13 DEF LiesBehind

\* A footer, or the first cells of one, as a call leaves it behind its chunk.
FooterTail(tail) ==
  /\ Len(tail) <= Len(chunk_index') + 1
  /\ \A k \in 1..Len(tail) :
       tail[k] = IF k <= Len(chunk_index') THEN IndexCell(chunk_index'[k])
                 ELSE TrailerCell(data_offset', Len(chunk_index'), message_count')

Stores(msgs, tail) ==
  /\ ChunkWritten(msgs, tail)
  /\ \/ tail = <<>> /\ Succeeds /\ UNCHANGED <<flushed, finished>>
     \/ /\ FooterTail(tail) /\ ~finished /\ msgs = pending
        /\ \/ Fails /\ UNCHANGED <<flushed, finished>>
           \/ /\ Succeeds /\ finished' = TRUE /\ flushed' = Len(file')
              /\ Len(tail) = Len(chunk_index') + 1

LEMMA FooterParts ==
  ASSUME TypeOK, TypeOK', NEW t, ChunkWritten(pending, t),
         NEW n \in 0..Len(FooterOf(pending))
  PROVE  /\ SubSeq(FooterOf(pending), 1, n) \in Seq(Cell)
         /\ Len(SubSeq(FooterOf(pending), 1, n)) = n
         /\ FooterTail(SubSeq(FooterOf(pending), 1, n))
         /\ Len(FooterOf(pending)) = Len(chunk_index') + 1
<1>1. /\ FooterOf(pending) \in Seq(Cell)
      /\ Len(chunk_index') \in Nat
  BY FooterType DEF TypeOK
<1>2. /\ SubSeq(FooterOf(pending), 1, n) \in Seq(Cell)
      /\ Len(SubSeq(FooterOf(pending), 1, n)) = n
      /\ \A k \in 1..n : SubSeq(FooterOf(pending), 1, n)[k] = FooterOf(pending)[k]
  BY <1>1, PrefixProperties
<1>3. FooterOf(pending) = FooterCells(chunk_index', data_offset', message_count')
  BY DEF FooterOf, ChunkWritten, HeaderDone
<1>4. /\ Len(FooterOf(pending)) = Len(chunk_index') + 1
      /\ \A k \in 1..Len(chunk_index') + 1 :
           FooterOf(pending)[k] =
             IF k <= Len(chunk_index') THEN IndexCell(chunk_index'[k])
             ELSE TrailerCell(data_offset', Len(chunk_index'), message_count')
  BY <1>1, <1>3 DEF FooterCells
<1>5. FooterTail(SubSeq(FooterOf(pending), 1, n))
  BY <1>1, <1>2, <1>4 DEF FooterTail
<1>6. QED
  BY <1>2, <1>4, <1>5

LEMMA EffectCases ==
  ASSUME NEW msgs, Effect(msgs)
  PROVE  \/ HeaderFails /\ msgs = pending /\ UNCHANGED flushed
         \/ \E bytes : Buffer(msgs, bytes) /\ msgs # <<>> /\ UNCHANGED flushed
         \/ \E bytes : ChunkFails(msgs, bytes) /\ UNCHANGED flushed
         \/ \E tail \in Seq(Cell) : Stores(msgs, tail)
<1>1. TypeOK /\ TypeOK'
  BY DEF Effect, Call
<1>2. CASE ChunkWritten(msgs, <<>>) /\ Succeeds /\ UNCHANGED <<flushed, finished>>
  <2>1. <<>> \in Seq(Cell)
    OBVIOUS
  <2>2. Stores(msgs, <<>>)
    BY <1>2 DEF Stores
  <2>3. QED
    BY <2>1, <2>2
<1>3. CASE Closes(msgs) /\ msgs = pending
  <2>1. ASSUME NEW n \in 0..Len(FooterOf(pending)),
               ChunkWritten(pending, SubSeq(FooterOf(pending), 1, n)),
               Fails, UNCHANGED <<flushed, finished>>, ~finished
        PROVE  \E tail \in Seq(Cell) : Stores(msgs, tail)
    <3>1. /\ SubSeq(FooterOf(pending), 1, n) \in Seq(Cell)
          /\ FooterTail(SubSeq(FooterOf(pending), 1, n))
      BY <1>1, <2>1, FooterParts
    <3>2. Stores(msgs, SubSeq(FooterOf(pending), 1, n))
      BY <1>3, <2>1, <3>1 DEF Stores
    <3>3. QED
      BY <3>1, <3>2
  <2>2. ASSUME ChunkWritten(pending, FooterOf(pending)), Succeeds,
               finished' = TRUE, flushed' = Len(file'), ~finished
        PROVE  \E tail \in Seq(Cell) : Stores(msgs, tail)
    <3>1. PICK t \in Seq(Cell) : t = FooterOf(pending)
      BY <1>1, FooterType
    <3>2. SubSeq(t, 1, Len(t)) = t /\ Len(t) \in 0..Len(t)
      OBVIOUS
    <3>3. FooterTail(SubSeq(t, 1, Len(t))) /\ Len(t) = Len(chunk_index') + 1
      BY <1>1, <2>2, <3>1, <3>2, FooterParts
    <3>4. Stores(msgs, t)
      BY <1>3, <2>2, <3>1, <3>2, <3>3 DEF Stores
    <3>5. QED
      BY <3>4
  <2>3. QED
    BY <1>3, <2>1, <2>2 DEF Closes
<1>4. QED
  BY <1>2, <1>3 DEF Effect

------------------------------------------------------------------------------
\* No reader takes what is at p for a chunk, whatever follows in the file.
Broken(f, p) ==
  \/ f[p + 1] # ChunkMagicCell
  \/ /\ p + 2 <= Len(f)
     /\ \/ f[p + 2].kind # "cfields"
        \/ \E k \in 1..f[p + 2].size :
             p + 2 + k <= Len(f) /\ f[p + 2 + k] # BodyCell(f[p + 2].crc[k])

\* The file ends in the chunk at p.
Torn(f, p) ==
  \/ Len(f) = p + 1
  \/ Len(f) >= p + 2 /\ f[p + 2].kind = "cfields" /\ Len(f) < p + 2 + f[p + 2].size

\* The bytes a failed call left behind are never read as a chunk: what is
\* written behind them does not complete it.
StuckInv ==
  parted > 0 =>
    /\ parted < Len(file)
    /\ Broken(file, parted) \/ (Torn(file, parted) /\ pending # <<>>)

LEMMA BrokenStays ==
  ASSUME NEW f \in Seq(Cell), NEW g \in Seq(Cell), Grown(f, g),
         NEW p \in Nat, p < Len(f), Broken(f, p)
  PROVE  Broken(g, p)
<1>1. Len(f) \in Nat /\ Len(g) \in Nat /\ p + 1 \in 1..Len(f) /\ Len(f) <= Len(g)
  BY DEF Grown
<1>2. \A k \in 1..Len(f) : g[k] = f[k]
  BY DEF Grown
<1>3. CASE f[p + 1] # ChunkMagicCell
  BY <1>1, <1>2, <1>3 DEF Broken
<1>4. CASE p + 2 <= Len(f)
  <2>1. g[p + 2] = f[p + 2] /\ p + 2 <= Len(g)
    BY <1>1, <1>2, <1>4
  <2>2. CASE f[p + 2].kind # "cfields"
    BY <2>1, <2>2 DEF Broken
  <2>3. CASE \E k \in 1..f[p + 2].size :
               p + 2 + k <= Len(f) /\ f[p + 2 + k] # BodyCell(f[p + 2].crc[k])
    <3>1. PICK k \in 1..f[p + 2].size :
            p + 2 + k <= Len(f) /\ f[p + 2 + k] # BodyCell(f[p + 2].crc[k])
      BY <2>3
    <3>2. p + 2 + k \in 1..Len(f) /\ p + 2 + k <= Len(g)
      BY <1>1, <3>1
    <3>3. g[p + 2 + k] = f[p + 2 + k]
      BY <1>2, <3>2
    <3>4. QED
      BY <2>1, <3>1, <3>2, <3>3 DEF Broken
  <2>4. QED
    BY <1>2, <1>3, <2>2, <2>3 DEF Broken
<1>5. QED
  BY <1>3, <1>4 DEF Broken

LEMMA FieldsTyped ==
  ASSUME NEW c \in Cell, c.kind = "cfields"
  PROVE  /\ c.size \in Nat /\ c.msg_count \in Nat /\ c.crc \in Seq(Message)
  BY DEF Cell

LEMMA TornNext ==
  ASSUME NEW f \in Seq(Cell), NEW g \in Seq(Cell), Grown(f, g),
         NEW p \in Nat, p < Len(f), Torn(f, p),
         Len(f) < Len(g), g[Len(f) + 1] = ChunkMagicCell
  PROVE  Broken(g, p)
<1>1. Len(f) \in Nat /\ Len(g) \in Nat
  OBVIOUS
<1>2. CASE Len(f) = p + 1
  <2>1. p + 2 = Len(f) + 1 /\ p + 2 <= Len(g)
    BY <1>1, <1>2
  <2>2. g[p + 2].kind # "cfields"
    BY <2>1 DEF ChunkMagicCell
  <2>3. QED
    BY <2>1, <2>2 DEF Broken
<1>3. CASE Len(f) >= p + 2 /\ f[p + 2].kind = "cfields" /\ Len(f) < p + 2 + f[p + 2].size
  <2>1. p + 2 \in 1..Len(f) /\ p + 2 <= Len(g)
    BY <1>1, <1>3
  <2>2. g[p + 2] = f[p + 2] /\ f[p + 2] \in Cell
    BY <2>1 DEF Grown
  <2>3. f[p + 2].size \in Nat
    BY <1>3, <2>2, FieldsTyped
  <2>4. /\ Len(f) - p - 1 \in 1..f[p + 2].size
        /\ p + 2 + (Len(f) - p - 1) = Len(f) + 1
        /\ Len(f) + 1 <= Len(g)
    BY <1>1, <1>3, <2>3
  <2>5. g[Len(f) + 1] # BodyCell(f[p + 2].crc[Len(f) - p - 1])
    BY DEF ChunkMagicCell, BodyCell
  <2>6. QED
    BY <2>1, <2>2, <2>4, <2>5 DEF Broken
<1>4. QED
  BY <1>2, <1>3 DEF Torn

\* The position a call counts to when its header is written.
LEMMA CountedHeader ==
  ASSUME FullInv, parted = -1
  PROVE  /\ HeaderPos = Len(file) + Len(HeaderCells)
         /\ HeaderPos \in Nat
<1>1. pos = Len(file)
  BY DEF FullInv, ContentInv, PartInv
<1>2. QED
  BY <1>1, HeaderCellsType DEF HeaderPos, FullInv

LEMMA TailKinds ==
  ASSUME NEW tail, FooterTail(tail), NEW k \in 1..Len(tail)
  PROVE  tail[k] # ChunkMagicCell
<1>1. tail[k] = IF k <= Len(chunk_index') THEN IndexCell(chunk_index'[k])
                ELSE TrailerCell(data_offset', Len(chunk_index'), message_count')
  BY DEF FooterTail
<1>2. CASE k <= Len(chunk_index')
  BY <1>1, <1>2 DEF IndexCell, ChunkMagicCell
<1>3. CASE ~(k <= Len(chunk_index'))
  BY <1>1, <1>3 DEF TrailerCell, ChunkMagicCell
<1>4. QED
  BY <1>2, <1>3

\* What is in the file where the first failure left bytes, right after it did.
LEMMA StuckStart ==
  ASSUME FullInv, FullInv', NEW msgs, Effect(msgs), parted = -1, parted' > 0
  PROVE  /\ parted' < Len(file')
         /\ \/ /\ file'[parted' + 1] # ChunkMagicCell
               /\ Fails \/ finished' = TRUE
            \/ /\ Torn(file', parted') /\ pending' # <<>>
               /\ Fails /\ finished' = finished
<1>1. /\ TypeOK /\ TypeOK' /\ msgs \in Seq(Message) /\ Len(msgs) \in Nat
      /\ Len(file) \in Nat /\ Len(file') \in Nat
      /\ parted' = pos' /\ Len(file') # pos'
  BY EffectTypes
<1>2. PICK n \in Nat : n = Len(file) + Len(HeaderCells) /\ n = HeaderPos
  BY CountedHeader
<1>3. ~HeaderFails
  BY <1>1 DEF HeaderFails, FullInv, AccountsInv, ChunksTile
<1>4. CASE \E bytes : Buffer(msgs, bytes)
  <2>1. pos' = n
    BY <1>2, <1>4 DEF Buffer
  <2>2. Len(file') = n
    BY <1>1, <1>2, <1>4, HeaderCellsType, ConcatLength DEF Buffer, TypeOK
  <2>3. QED
    BY <1>1, <2>1, <2>2
<1>5. CASE \E bytes : ChunkFails(msgs, bytes)
  <2>1. PICK bytes : ChunkFails(msgs, bytes)
    BY <1>5
  <2>2. PICK l \in 0..Len(msgs) + 1 :
           /\ Len(file') = n + l
           /\ l >= 2 => file'[n + 2].kind = "cfields" /\ file'[n + 2].size = Len(msgs)
    BY <1>1, <1>2, <2>1, FailsCells
  <2>3. pos' = n
    BY <1>2, <2>1 DEF ChunkFails
  <2>4. l \in Nat /\ l # 0 /\ l <= Len(msgs) + 1
    BY <1>1, <2>2, <2>3
  <2>5. pending' # <<>>
    <3>1. msgs # <<>> /\ pending' = StableSort(msgs)
      BY <2>1 DEF ChunkFails
    <3>2. Len(StableSort(msgs)) = Len(msgs) /\ Len(msgs) # 0
      BY <1>1, <3>1, SortedMessages
    <3>3. QED
      BY <3>1, <3>2
  <2>6. Torn(file', n)
    <3>1. CASE l = 1
      BY <2>2, <3>1 DEF Torn
    <3>2. CASE l # 1
      <4>1. l >= 2 /\ Len(file') >= n + 2
        BY <2>2, <2>4, <3>2
      <4>2. file'[n + 2].kind = "cfields" /\ Len(file') < n + 2 + file'[n + 2].size
        BY <1>1, <2>2, <2>4, <4>1
      <4>3. QED
        BY <4>1, <4>2 DEF Torn
    <3>3. QED
      BY <3>1, <3>2
  <2>7. n < Len(file')
    BY <2>2, <2>4
  <2>8. Fails /\ finished' = finished
    BY <2>1 DEF ChunkFails
  <2>9. QED
    BY <1>1, <2>3, <2>5, <2>6, <2>7, <2>8
<1>6. CASE \E tail \in Seq(Cell) : Stores(msgs, tail)
  <2>1. PICK tail \in Seq(Cell) : Stores(msgs, tail)
    BY <1>6
  <2>2. ChunkWritten(msgs, tail)
    BY <2>1 DEF Stores
  <2>3. PICK l \in Nat :
           /\ l = IF msgs = <<>> THEN 0 ELSE 2 + Len(msgs)
           /\ pos' = HeaderPos + l
           /\ Len(tail) \in Nat /\ Len(file') = n + l + Len(tail)
           /\ msgs # <<>> => file'[n + 1] = ChunkMagicCell
           /\ \A k \in 1..Len(tail) : file'[n + l + k] = tail[k]
           /\ NoTrailer(file', Len(file), n + l)
    <3>1. TypeOK /\ msgs \in Seq(Message) /\ n = Len(file) + Len(HeaderCells)
      BY <1>1, <1>2
    <3>2. LiesBehind(msgs, tail, n)
      BY ONLY <2>2, <3>1, WrittenCells
    <3>3. QED
      BY ONLY <3>2 DEF LiesBehind
  <2>4. parted' = n + l
    BY <1>1, <1>2, <2>3
  <2>5. Len(tail) >= 1 /\ parted' < Len(file')
    <3>1. Len(tail) \in Nat /\ Len(file') = n + l + Len(tail) /\ Len(file') # n + l
      BY <1>1, <2>3, <2>4
    <3>2. QED
      BY <2>4, <3>1
  <2>6. file'[parted' + 1] = tail[1] /\ 1 \in 1..Len(tail)
    BY <2>3, <2>4, <2>5
  <2>7. tail[1] # ChunkMagicCell
    <3>1. tail # <<>>
      BY <2>5
    <3>2. FooterTail(tail)
      BY <2>1, <3>1 DEF Stores
    <3>3. QED
      BY <2>6, <3>2, TailKinds
  <2>8. Fails \/ finished' = TRUE
    <3>1. tail # <<>>
      BY <2>5
    <3>2. QED
      BY <2>1, <3>1 DEF Stores
  <2>9. QED
    BY <2>5, <2>6, <2>7, <2>8
<1>7. QED
  BY <1>3, <1>4, <1>5, <1>6, EffectCases

LEMMA OfferedMore ==
  ASSUME TypeOK, NEW msgs, Offered(msgs), pending # <<>>
  PROVE  msgs # <<>>
<1>1. CASE msgs = pending
  BY <1>1
<1>2. CASE msgs # pending
  <2>1. PICK m \in Message : msgs = Append(pending, m)
    BY <1>2 DEF Offered
  <2>2. Len(msgs) = Len(pending) + 1 /\ Len(pending) \in Nat
    BY <2>1 DEF TypeOK
  <2>3. QED
    BY <2>2
<1>3. QED
  BY <1>1, <1>2

\* What a call does to bytes that an earlier failure left.
LEMMA StuckStays ==
  ASSUME FullInv, BoundInv, StuckInv, NEW msgs, Effect(msgs), parted > 0
  PROVE  /\ parted < Len(file')
         /\ Broken(file', parted) \/ (Torn(file', parted) /\ pending' # <<>>)
<1>1. /\ TypeOK /\ msgs \in Seq(Message) /\ Len(msgs) \in Nat
      /\ file \in Seq(Cell) /\ file' \in Seq(Cell)
      /\ Len(file) \in Nat /\ Len(file') \in Nat /\ Len(file) <= Len(file')
      /\ parted \in Nat
  BY EffectTypes
<1>2. Grown(file, file')
  BY DEF Effect, Call
<1>3. parted < Len(file) /\ parted < Len(file')
  BY <1>1 DEF StuckInv
<1>4. CASE Broken(file, parted)
  <2>1. Broken(file', parted)
    BY <1>1, <1>2, <1>3, <1>4, BrokenStays
  <2>2. QED
    BY <1>3, <2>1
<1>5. CASE Torn(file, parted) /\ pending # <<>>
  <2>1. header_written
    BY DEF BoundInv
  <2>2. HeaderCells = <<>> /\ Len(HeaderCells) = 0 /\ ~HeaderFails
    BY <2>1 DEF HeaderCells, HeaderFails
  <2>3. msgs # <<>>
    BY <1>1, <1>5, OfferedMore DEF Effect
  <2>4. ASSUME Len(file) < Len(file'), file'[Len(file) + 1] = ChunkMagicCell
        PROVE  Broken(file', parted)
    BY <1>1, <1>2, <1>3, <1>5, <2>4, TornNext
  <2>5. PICK n \in Nat : n = Len(file) /\ n = Len(file) + Len(HeaderCells)
    BY <1>1, <2>2
  <2>6. CASE \E bytes : Buffer(msgs, bytes)
    <3>1. PICK f \in Seq(Cell) : f = file
      BY <1>1
    <3>2. f \o <<>> = f
      OBVIOUS
    <3>3. file' = file /\ pending' = msgs
      BY <2>2, <2>6, <3>1, <3>2 DEF Buffer
    <3>4. QED
      BY <1>3, <1>5, <2>3, <3>3
  <2>7. CASE \E bytes : ChunkFails(msgs, bytes)
    <3>1. PICK bytes : ChunkFails(msgs, bytes)
      BY <2>7
    <3>2. PICK l \in 0..Len(msgs) + 1 :
             /\ Len(file') = n + l
             /\ l >= 1 => file'[n + 1] = ChunkMagicCell
      BY <1>1, <2>5, <3>1, FailsCells
    <3>3. pending' # <<>>
      <4>1. pending' = StableSort(msgs)
        BY <3>1 DEF ChunkFails
      <4>2. Len(StableSort(msgs)) = Len(msgs) /\ Len(msgs) # 0
        BY <1>1, <2>3, SortedMessages
      <4>3. QED
        BY <4>1, <4>2
    <3>4. CASE l = 0
      <4>1. Len(file') = Len(file)
        BY <2>5, <3>2, <3>4
      <4>2. PICK f \in Seq(Cell), g \in Seq(Cell) : f = file /\ g = file'
        BY <1>1
      <4>3. Len(f) = Len(g) /\ \A k \in 1..Len(f) : g[k] = f[k]
        BY <1>2, <4>1, <4>2 DEF Grown
      <4>4. f = g
        BY <4>3
      <4>5. QED
        BY <1>3, <1>5, <3>3, <4>2, <4>4
    <3>5. CASE l # 0
      BY <1>3, <2>4, <2>5, <3>2, <3>5
    <3>6. QED
      BY <3>4, <3>5
  <2>8. CASE \E tail \in Seq(Cell) : Stores(msgs, tail)
    <3>1. PICK tail \in Seq(Cell) : Stores(msgs, tail)
      BY <2>8
    <3>2. ChunkWritten(msgs, tail)
      BY <3>1 DEF Stores
    <3>3. PICK l \in Nat :
           /\ l = IF msgs = <<>> THEN 0 ELSE 2 + Len(msgs)
           /\ Len(tail) \in Nat /\ Len(file') = n + l + Len(tail)
           /\ msgs # <<>> => file'[n + 1] = ChunkMagicCell
      <4>1. LiesBehind(msgs, tail, n)
        BY <1>1, <2>5, <3>2, WrittenCells
      <4>2. QED
        BY ONLY <4>1 DEF LiesBehind
    <3>4. Len(file) < Len(file') /\ file'[Len(file) + 1] = ChunkMagicCell
      BY <1>1, <2>3, <2>5, <3>3
    <3>5. QED
      BY <1>3, <2>4, <3>4
  <2>9. QED
    BY <2>2, <2>6, <2>7, <2>8, EffectCases
<1>6. QED
  BY <1>4, <1>5 DEF StuckInv

LEMMA StuckStep ==
  ASSUME FullInv, FullInv', BoundInv, StuckInv, NEW msgs, Effect(msgs)
  PROVE  StuckInv'
<1>1. /\ parted \in Nat \cup {-1} /\ parted' \in Nat \cup {-1}
      /\ parted # -1 => parted' = parted
  BY EffectTypes
<1>2. SUFFICES ASSUME parted' > 0 PROVE StuckInv'
  BY DEF StuckInv
<1>3. CASE parted = -1
  BY <1>2, <1>3, StuckStart DEF StuckInv, Broken
<1>4. CASE parted # -1
  <2>1. parted > 0 /\ parted' = parted
    BY <1>1, <1>2, <1>4
  <2>2. /\ parted < Len(file')
        /\ Broken(file', parted) \/ (Torn(file', parted) /\ pending' # <<>>)
    BY <2>1, StuckStays
  <2>3. QED
    BY <2>1, <2>2 DEF StuckInv
<1>5. QED
  BY <1>3, <1>4

\* Where the first i chunks end.
EndOf(i) == IF i = 0 THEN data_offset ELSE EntryEnd(chunk_index[i])

\* A footer trailer is behind the entries of the first chunks, which are all
\* that are where the index has them, and has the number of their messages.
Footer(n) ==
  LET t == file[n]
      c == t.chunk_count
  IN  /\ header_written /\ parted # -1
      /\ c <= Len(chunk_index) /\ c < n
      /\ \A i \in 1..c : file[n - 1 - c + i] = IndexCell(chunk_index[i])
      /\ t.msg_count = EndOf(c) - data_offset - 2 * c
      /\ \A i \in 1..c : Intact(i) => EntryEnd(chunk_index[i]) <= n
      /\ \A i \in c + 1..Len(chunk_index) : ~Intact(i)
      /\ c < Len(chunk_index) => n < Len(file)

TrailerInv == \A n \in 1..Len(file) : file[n].kind = "trailer" => Footer(n)

LEMMA TrailerTyped ==
  ASSUME NEW t \in Cell, t.kind = "trailer"
  PROVE  /\ t.data_offset \in Nat /\ t.chunk_count \in Nat /\ t.msg_count \in Nat
  BY DEF Cell

\* Only a footer brings a trailer into the file.
LEMMA WhereTrailers ==
  ASSUME NEW msgs, Effect(msgs), NEW n \in 1..Len(file'), n > Len(file),
         file'[n].kind = "trailer"
  PROVE  \E tail \in Seq(Cell), l \in Nat :
           /\ ChunkWritten(msgs, tail) /\ FooterTail(tail) /\ Stores(msgs, tail)
           /\ pos' = HeaderPos + (l - Len(file) - Len(HeaderCells))
           /\ l >= Len(file) + Len(HeaderCells)
           /\ Len(file') = l + Len(tail)
           /\ \A k \in 1..Len(tail) : file'[l + k] = tail[k]
           /\ Len(tail) = Len(chunk_index') + 1
           /\ n = Len(file')
<1>1. /\ TypeOK /\ TypeOK' /\ msgs \in Seq(Message) /\ Len(msgs) \in Nat
      /\ file \in Seq(Cell)
      /\ Len(file) \in Nat /\ Len(file') \in Nat
  BY EffectTypes
<1>2. PICK h \in Nat : h = Len(file) + Len(HeaderCells)
  BY <1>1, HeaderCellsType
<1>3. ~HeaderFails
  <2>1. SUFFICES ASSUME HeaderFails PROVE FALSE
    OBVIOUS
  <2>2. file' = file \/ file' = file \o <<MagicCell>>
    BY <1>1, <2>1, HeaderFailsCells
  <2>3. Len(file') = Len(file) + 1 /\ file'[Len(file) + 1] = MagicCell
    BY <1>1, <2>2
  <2>4. n = Len(file) + 1
    BY <1>1, <2>3
  <2>5. QED
    BY <2>3, <2>4 DEF MagicCell
<1>4. ~(\E bytes : Buffer(msgs, bytes))
  <2>1. SUFFICES ASSUME NEW bytes, Buffer(msgs, bytes) PROVE FALSE
    OBVIOUS
  <2>2. PICK f \in Seq(Cell) : f = file \o HeaderCells
    BY <1>1, HeaderCellsType, ConcatLength
  <2>3. f \o <<>> = f /\ << >> \in Seq(Cell) /\ Len(<< >>) = 0
    OBVIOUS
  <2>4. Added(<<>>)
    BY <2>1, <2>2, <2>3 DEF Added, Buffer
  <2>5. Len(file') = h + 0
    BY <1>1, <1>2, <2>3, <2>4, AddedCells
  <2>6. NoTrailer(file', Len(file), h)
    BY <1>1, <1>2, <2>3, <2>4, HeaderKinds
  <2>7. QED
    BY <1>1, <1>2, <2>5, <2>6 DEF NoTrailer
<1>5. ~(\E bytes : ChunkFails(msgs, bytes))
  <2>1. SUFFICES ASSUME NEW bytes, ChunkFails(msgs, bytes) PROVE FALSE
    OBVIOUS
  <2>2. NoTrailer(file', Len(file), Len(file'))
    BY <1>1, <1>2, <2>1, FailsCells
  <2>3. QED
    BY <1>1, <2>2 DEF NoTrailer
<1>6. PICK tail \in Seq(Cell) : Stores(msgs, tail)
  BY <1>3, <1>4, <1>5, EffectCases
<1>7. ChunkWritten(msgs, tail)
  BY <1>6 DEF Stores
<1>8. PICK c \in Nat :
           /\ c = IF msgs = <<>> THEN 0 ELSE 2 + Len(msgs)
           /\ pos' = HeaderPos + c
           /\ Len(tail) \in Nat /\ Len(file') = h + c + Len(tail)
           /\ msgs # <<>> => file'[h + 1] = ChunkMagicCell
           /\ \A k \in 1..Len(tail) : file'[h + c + k] = tail[k]
           /\ NoTrailer(file', Len(file), h + c)
  <2>1. TypeOK /\ msgs \in Seq(Message) /\ h = Len(file) + Len(HeaderCells)
    BY <1>1, <1>2
  <2>2. LiesBehind(msgs, tail, h)
    BY ONLY <1>7, <2>1, WrittenCells
  <2>3. QED
    BY ONLY <2>2 DEF LiesBehind
<1> DEFINE q == n - (h + c)
<1>a. n \in Nat /\ n <= Len(file')
  BY <1>1
<1>9. n > h + c
  <2>1. SUFFICES ASSUME ~(n > h + c) PROVE FALSE
    OBVIOUS
  <2>2. n \in Len(file) + 1..h + c
    BY <1>1, <1>a, <1>8, <2>1
  <2>3. QED
    BY <1>8, <2>2 DEF NoTrailer
<1> HIDE DEF q
<1>b. n <= h + c + Len(tail) /\ Len(tail) \in Nat /\ c \in Nat
  BY <1>a, <1>8
<1>10. q \in 1..Len(tail) /\ h + c + q = n
  BY <1>a, <1>b, <1>9 DEF q
<1>11. file'[n] = tail[q]
  BY <1>8, <1>10
<1>12. FooterTail(tail)
  <2>1. tail # <<>>
    BY <1>10
  <2>2. QED
    BY <1>6, <2>1 DEF Stores
<1>13. ~(q <= Len(chunk_index'))
  <2>1. SUFFICES ASSUME q <= Len(chunk_index') PROVE FALSE
    OBVIOUS
  <2>2. tail[q] = IndexCell(chunk_index'[q])
    BY <1>10, <1>12, <2>1 DEF FooterTail
  <2>3. QED
    BY <1>11, <2>2 DEF IndexCell
<1>14. Len(tail) <= Len(chunk_index') + 1 /\ Len(chunk_index') \in Nat
  BY <1>1, <1>12 DEF FooterTail, TypeOK
<1>15. Len(tail) = Len(chunk_index') + 1 /\ n = Len(file')
  <2>1. q = Len(tail) /\ Len(tail) = Len(chunk_index') + 1
    BY <1>b, <1>10, <1>13, <1>14
  <2>2. Len(file') = h + c + Len(tail)
    BY <1>8
  <2>3. QED
    BY <1>10, <2>1, <2>2
<1>16. PICK l \in Nat : l = h + c
  BY <1>8
<1>17. pos' = HeaderPos + (l - Len(file) - Len(HeaderCells))
  <2>1. Len(HeaderCells) \in Nat
    BY <1>1, HeaderCellsType
  <2>2. c = l - Len(file) - Len(HeaderCells)
    BY <1>1, <1>2, <1>16, <2>1
  <2>3. QED
    BY <1>8, <2>2
<1>18. l >= Len(file) + Len(HeaderCells)
  BY <1>2, <1>16
<1>19. /\ Len(file') = l + Len(tail)
       /\ \A k \in 1..Len(tail) : file'[l + k] = tail[k]
  BY <1>8, <1>16
<1>20. QED
  BY <1>6, <1>7, <1>12, <1>15, <1>17, <1>18, <1>19

\* A new chunk is behind what an earlier failure left: no reader finds it.
LEMMA LateChunk ==
  ASSUME FullInv, NEW msgs, Effect(msgs), parted # -1,
         NEW i \in 1..Len(chunk_index'), i > Len(chunk_index)
  PROVE  /\ ~Intact(i)' /\ i = Len(chunk_index) + 1 /\ msgs # <<>>
         /\ parted' = parted
<1>1. /\ TypeOK /\ msgs \in Seq(Message) /\ pos \in Nat
      /\ parted \in Nat \cup {-1}
      /\ parted' = IF parted # -1 \/ Len(file') = pos' THEN parted ELSE pos'
  BY EffectTypes
<1>2. parted' = parted /\ parted \in Nat
  BY <1>1
<1>3. /\ Len(chunk_index) \in Nat /\ i = Len(chunk_index) + 1 /\ msgs # <<>>
      /\ chunk_index'[i] = IndexEntry(msgs)
  BY EffectIndex
<1>4. /\ IndexEntry(msgs).offset = HeaderPos /\ pos <= HeaderPos
      /\ IndexEntry(msgs) \in ChunkIndex
  BY <1>1, <1>3, NewEntry
<1>5. parted <= pos /\ HeaderPos \in Nat
  BY <1>1, <1>2, <1>4, EntryFields DEF FullInv, ContentInv, PartInv
<1>6. ~(chunk_index'[i].offset < parted')
  BY <1>1, <1>2, <1>3, <1>4, <1>5
<1>7. QED
  BY <1>2, <1>3, <1>6 DEF Intact

LEMMA OldFooter ==
  ASSUME FullInv, FullInv', NEW msgs, Effect(msgs), NEW n \in 1..Len(file),
         file[n].kind = "trailer", Footer(n)
  PROVE  Footer(n)'
<1>1. /\ TypeOK /\ msgs \in Seq(Message) /\ file \in Seq(Cell)
      /\ Len(file) \in Nat /\ Len(file') \in Nat /\ Len(file) <= Len(file')
      /\ \A k \in 1..Len(file) : file'[k] = file[k]
      /\ parted \in Nat \cup {-1}
      /\ parted' = IF parted # -1 \/ Len(file') = pos' THEN parted ELSE pos'
  BY EffectTypes
<1>2. PICK t \in Cell : t = file[n]
  BY <1>1
<1>3. PICK c \in Nat : c = t.chunk_count
  BY <1>2, TrailerTyped
<1>4. /\ header_written /\ parted # -1
      /\ c <= Len(chunk_index) /\ c < n
      /\ \A i \in 1..c : file[n - 1 - c + i] = IndexCell(chunk_index[i])
      /\ t.msg_count = EndOf(c) - data_offset - 2 * c
      /\ \A i \in 1..c : Intact(i) => EntryEnd(chunk_index[i]) <= n
      /\ \A i \in c + 1..Len(chunk_index) : ~Intact(i)
      /\ c < Len(chunk_index) => n < Len(file)
  BY <1>2, <1>3 DEF Footer
<1>5. file'[n] = t /\ n \in Nat /\ n <= Len(file)
  BY <1>1, <1>2
<1>6. header_written' = TRUE /\ data_offset' = data_offset
  BY <1>1, <1>4, HeaderStays
<1>7. parted' = parted
  BY <1>1, <1>4
<1>8. /\ Len(chunk_index) \in Nat /\ Len(chunk_index') \in Nat
      /\ Len(chunk_index) <= Len(chunk_index')
      /\ \A i \in 1..Len(chunk_index) :
           chunk_index'[i] = chunk_index[i] /\ chunk_index[i] \in ChunkIndex
  BY EffectIndex
<1>9. ASSUME NEW i \in 1..c
      PROVE  /\ chunk_index'[i] = chunk_index[i]
             /\ file'[n - 1 - c + i] = IndexCell(chunk_index'[i])
             /\ Intact(i)' => EntryEnd(chunk_index'[i]) <= n
  <2>1. i \in 1..Len(chunk_index) /\ chunk_index'[i] = chunk_index[i]
    BY <1>4, <1>8
  <2>2. n - 1 - c + i \in 1..Len(file)
    BY <1>1, <1>4, <1>5, SMTT(30)
  <2>3. file'[n - 1 - c + i] = IndexCell(chunk_index'[i])
    BY <1>1, <1>4, <2>1, <2>2
  <2>4. Intact(i)' => Intact(i)
    BY <1>7, <2>1 DEF Intact
  <2>5. QED
    BY <1>4, <2>1, <2>3, <2>4
<1>10. (EndOf(c))' = EndOf(c)
  <2>1. CASE c = 0
    BY <1>6, <2>1 DEF EndOf
  <2>2. CASE c # 0
    <3>1. c \in 1..c
      BY <2>2
    <3>2. chunk_index'[c] = chunk_index[c]
      BY <1>9, <3>1
    <3>3. QED
      BY <2>2, <3>2 DEF EndOf
  <2>3. QED
    BY <2>1, <2>2
<1>11. ASSUME NEW i \in c + 1..Len(chunk_index') PROVE ~Intact(i)'
  <2>1. CASE i <= Len(chunk_index)
    <3>1. ~Intact(i) /\ chunk_index'[i] = chunk_index[i]
      BY <1>4, <1>8, <2>1
    <3>2. QED
      BY <1>7, <3>1 DEF Intact
  <2>2. CASE ~(i <= Len(chunk_index))
    <3>1. i \in 1..Len(chunk_index') /\ i > Len(chunk_index)
      BY <1>8, <2>2
    <3>2. QED
      BY <1>4, <3>1, LateChunk
  <2>3. QED
    BY <2>1, <2>2
<1>12. c < Len(chunk_index') => n < Len(file')
  <2>1. CASE c < Len(chunk_index)
    BY <1>1, <1>4, <1>5, <2>1
  <2>2. CASE c < Len(chunk_index') /\ ~(c < Len(chunk_index))
    <3>1. chunk_index' # chunk_index /\ msgs # <<>>
      BY <1>8, <2>2, EffectIndex
    <3>2. PICK tail \in Seq(Cell) : ChunkWritten(msgs, tail)
      BY <3>1, EffectWrites DEF HeaderFails, Buffer, ChunkFails, chunkVars
    <3>3. PICK h \in Nat : h = Len(file) + Len(HeaderCells) /\ h >= Len(file)
      BY <1>1, HeaderCellsType
    <3>4. PICK l \in Nat :
           /\ l = IF msgs = <<>> THEN 0 ELSE 2 + Len(msgs)
           /\ Len(tail) \in Nat /\ Len(file') = h + l + Len(tail)
      <4>1. LiesBehind(msgs, tail, h)
        BY <1>1, <3>2, <3>3, WrittenCells
      <4>2. QED
        BY ONLY <4>1 DEF LiesBehind
    <3>5. l > 0
      BY <1>1, <3>1, <3>4
    <3>6. Len(file') > Len(file)
      <4>1. /\ h >= Len(file) /\ Len(file) \in Nat
            /\ Len(tail) \in Nat /\ Len(file') = h + l + Len(tail)
        BY <1>1, <3>3, <3>4
      <4>2. QED
        BY <3>5, <4>1
    <3>7. QED
      BY <1>1, <1>5, <3>6
  <2>3. QED
    BY <2>1, <2>2
<1>13. c <= Len(chunk_index')
  BY <1>4, <1>8
<1>14. t.msg_count = (EndOf(c))' - data_offset' - 2 * c
  BY <1>4, <1>6, <1>10
<1>15. /\ header_written' /\ parted' # -1 /\ c < n
       /\ \A i \in 1..c : file'[n - 1 - c + i] = IndexCell(chunk_index'[i])
       /\ \A i \in 1..c : Intact(i)' => EntryEnd(chunk_index'[i]) <= n
  BY <1>4, <1>6, <1>7, <1>9
<1>16. QED
  BY <1>3, <1>5, <1>11, <1>12, <1>13, <1>14, <1>15 DEF Footer

LEMMA NewFooter ==
  ASSUME FullInv, FullInv', BoundInv', StuckInv', NEW msgs, Effect(msgs),
         NEW n \in 1..Len(file'), n > Len(file), file'[n].kind = "trailer"
  PROVE  Footer(n)'
<1>1. /\ TypeOK /\ TypeOK' /\ file' \in Seq(Cell)
      /\ Len(file) \in Nat /\ Len(file') \in Nat
      /\ pos \in Nat /\ pos' \in Nat
      /\ parted \in Nat \cup {-1} /\ parted' \in Nat \cup {-1}
      /\ parted' = IF parted # -1 \/ Len(file') = pos' THEN parted ELSE pos'
      /\ data_offset' \in Nat
  BY EffectTypes
<1>2. PICK tail \in Seq(Cell), l \in Nat :
           /\ ChunkWritten(msgs, tail) /\ FooterTail(tail) /\ Stores(msgs, tail)
           /\ pos' = HeaderPos + (l - Len(file) - Len(HeaderCells))
           /\ l >= Len(file) + Len(HeaderCells)
           /\ Len(file') = l + Len(tail)
           /\ \A k \in 1..Len(tail) : file'[l + k] = tail[k]
           /\ Len(tail) = Len(chunk_index') + 1
           /\ n = Len(file')
  BY WhereTrailers
<1>3. PICK c \in Nat : c = Len(chunk_index')
  BY <1>1, SMTT(30) DEF TypeOK
<1>4. Len(tail) = c + 1 /\ n = l + c + 1 /\ n = Len(file')
  <2>1. Len(tail) = c + 1 /\ Len(file') = l + Len(tail) /\ n = Len(file')
    BY <1>2, <1>3
  <2>2. QED
    BY <2>1
<1>5. \A k \in 1..c + 1 :
        file'[l + k] = IF k <= c THEN IndexCell(chunk_index'[k])
                       ELSE TrailerCell(data_offset', c, message_count')
  BY <1>2, <1>3, <1>4 DEF FooterTail
<1>6. file'[n] = TrailerCell(data_offset', c, message_count')
  <2>1. c + 1 \in 1..c + 1 /\ ~(c + 1 <= c) /\ l + (c + 1) = n
    BY <1>4
  <2>2. QED
    BY <1>5, <2>1
<1>7. file'[n].chunk_count = c /\ file'[n].msg_count = message_count'
  BY <1>6 DEF TrailerCell
<1>8. ASSUME NEW i \in 1..c
      PROVE  file'[n - 1 - c + i] = IndexCell(chunk_index'[i])
  <2>1. n - 1 - c + i = l + i /\ i \in 1..c + 1 /\ i <= c
    BY <1>4
  <2>2. QED
    BY <1>5, <2>1
<1>9. header_written'
  BY <1>2 DEF ChunkWritten, HeaderDone
<1>10. parted' # -1
  <2>1. CASE parted # -1
    BY <1>1, <2>1
  <2>2. CASE parted = -1
    <3>1. HeaderPos = Len(file) + Len(HeaderCells)
      BY <2>2, CountedHeader
    <3>2. pos' = l
      BY <1>1, <1>2, <3>1, HeaderCellsType
    <3>3. Len(file') # pos'
      BY <1>1, <1>4, <3>2
    <3>4. QED
      BY <1>1, <2>2, <3>3
  <2>3. QED
    BY <2>1, <2>2
<1>11. message_count' = (EndOf(c))' - data_offset' - 2 * c
  <2>1. Tiles(chunk_index', data_offset', pos', message_count')
    BY <1>9 DEF FullInv, AccountsInv, ChunksTile
  <2>2. pos' = data_offset' + 2 * c + message_count' /\ message_count' \in Nat
    BY <1>1, <1>3, <2>1 DEF Tiles, ChunkHeaderLen, TypeOK
  <2>3. CASE c = 0
    <3>1. message_count' = 0
      BY <1>3, <2>1, <2>3 DEF Tiles
    <3>2. (EndOf(c))' = data_offset'
      BY <2>3 DEF EndOf
    <3>3. QED
      BY <1>1, <2>3, <3>1, <3>2
  <2>4. CASE c # 0
    <3>1. EntryEnd(chunk_index'[c]) = pos'
      BY <1>3, <2>1, <2>4 DEF Tiles
    <3>2. (EndOf(c))' = pos'
      BY <2>4, <3>1 DEF EndOf
    <3>3. message_count' = pos' - data_offset' - 2 * c
      <4>1. PICK p \in Nat, d \in Nat, m \in Nat :
              p = pos' /\ d = data_offset' /\ m = message_count'
        BY <1>1, <2>2
      <4>2. p = d + 2 * c + m
        BY <2>2, <4>1
      <4>3. m = p - d - 2 * c
        BY <4>2
      <4>4. QED
        BY <4>1, <4>3
    <3>4. QED
      BY <3>2, <3>3
  <2>5. QED
    BY <2>3, <2>4
<1>12. ASSUME NEW i \in 1..c, Intact(i)' PROVE EntryEnd(chunk_index'[i]) <= n
  <2>1. chunk_index'[i] \in ChunkIndex
    <3>1. chunk_index' \in Seq(ChunkIndex)
      BY <1>1 DEF TypeOK
    <3>2. QED
      BY <1>3, <3>1
  <2>2. chunk_index'[i].offset < parted' /\ chunk_index'[i].offset \in Nat
        /\ EntryEnd(chunk_index'[i]) \in Nat
    BY <1>10, <1>12, <2>1, EntryFields DEF Intact
  <2>3. parted' > 0
    BY <1>1, <2>2
  <2>4. parted' < Len(file') /\ EntryEnd(chunk_index'[i]) <= parted'
    BY <1>3, <1>12, <2>3 DEF BoundInv, StuckInv
  <2>5. QED
    BY <1>1, <1>4, <2>2, <2>4
<1>13. c <= Len(chunk_index') /\ c < n /\ ~(c < Len(chunk_index'))
       /\ \A i \in c + 1..Len(chunk_index') : FALSE
  BY <1>3, <1>4
<1>14. QED
  BY <1>7, <1>8, <1>9, <1>10, <1>11, <1>12, <1>13 DEF Footer

LEMMA TrailerStep ==
  ASSUME FullInv, FullInv', BoundInv', StuckInv', TrailerInv, NEW msgs, Effect(msgs)
  PROVE  TrailerInv'
<1>1. /\ Len(file) \in Nat /\ Len(file') \in Nat
      /\ \A k \in 1..Len(file) : file'[k] = file[k]
  BY EffectTypes
<1>2. SUFFICES ASSUME NEW n \in 1..Len(file'), file'[n].kind = "trailer"
               PROVE  Footer(n)'
  BY DEF TrailerInv
<1>3. CASE n > Len(file)
  BY <1>2, <1>3, NewFooter
<1>4. CASE ~(n > Len(file))
  <2>1. n \in 1..Len(file) /\ file[n].kind = "trailer"
    BY <1>1, <1>2, <1>4
  <2>2. Footer(n)
    BY <2>1 DEF TrailerInv
  <2>3. QED
    BY <2>1, <2>2, OldFooter
<1>5. QED
  BY <1>3, <1>4

\* A finish that returned Ok left its footer trailer as the last flushed cell;
\* no call writes another.
FinishInv ==
  finished =>
    /\ flushed \in 1..Len(file) /\ file[flushed].kind = "trailer"
    /\ parted < flushed
    /\ \A n \in flushed + 1..Len(file) : file[n].kind # "trailer"

\* Without a failure pos and the file part at the footer only; and where a torn
\* chunk is, its messages are still pending, unless a later call has written
\* them elsewhere.
CleanInv ==
  /\ failures = 0 /\ parted # -1 =>
       /\ finished /\ parted > 0 /\ file[parted + 1] # ChunkMagicCell
       /\ \A i \in 1..file[flushed].chunk_count : Intact(i)
  /\ parted > 0 /\ AllIntact /\ file[parted + 1] = ChunkMagicCell =>
       pending # <<>> /\ ~finished

LEMMA FinishedStays ==
  ASSUME NEW msgs, Effect(msgs), finished
  PROVE  /\ finished' = finished /\ flushed' = flushed
         /\ \A n \in Len(file) + 1..Len(file') : file'[n].kind # "trailer"
<1>1. finished' = finished /\ flushed' = flushed
  BY EffectCases DEF HeaderFails, Buffer, ChunkFails, Stores
<1>2. ASSUME NEW n \in Len(file) + 1..Len(file'), file'[n].kind = "trailer"
      PROVE  FALSE
  <2>1. n \in 1..Len(file') /\ n > Len(file)
    BY EffectTypes
  <2>2. PICK tail \in Seq(Cell) : Stores(msgs, tail) /\ Len(tail) = Len(chunk_index') + 1
    BY <1>2, <2>1, WhereTrailers
  <2>3. Len(tail) # 0
    BY <2>2, EffectIndex
  <2>4. tail # <<>>
    BY <2>3
  <2>5. QED
    BY <2>2, <2>4 DEF Stores
<1>3. QED
  BY <1>1, <1>2

LEMMA FinishStep ==
  ASSUME FullInv, FullInv', StuckInv', TrailerInv, FinishInv, NEW msgs, Effect(msgs)
  PROVE  FinishInv'
<1>1. /\ TypeOK /\ TypeOK' /\ msgs \in Seq(Message)
      /\ Len(file) \in Nat /\ Len(file') \in Nat /\ Len(file) <= Len(file')
      /\ \A k \in 1..Len(file) : file'[k] = file[k]
      /\ parted \in Nat \cup {-1} /\ parted' \in Nat \cup {-1}
      /\ parted # -1 => parted' = parted
  BY EffectTypes
<1>2. CASE finished
  <2>1. /\ finished' = finished /\ flushed' = flushed
        /\ \A n \in Len(file) + 1..Len(file') : file'[n].kind # "trailer"
    BY <1>2, FinishedStays
  <2>2. /\ flushed \in 1..Len(file) /\ file[flushed].kind = "trailer"
        /\ parted < flushed
        /\ \A n \in flushed + 1..Len(file) : file[n].kind # "trailer"
    BY <1>2 DEF FinishInv
  <2>3. parted' = parted
    BY <1>1, <2>2 DEF TrailerInv, Footer
  <2>4. flushed \in 1..Len(file') /\ file'[flushed].kind = "trailer"
    BY <1>1, <2>2
  <2>5. ASSUME NEW n \in flushed + 1..Len(file') PROVE file'[n].kind # "trailer"
    <3>1. CASE n <= Len(file)
      <4>1. n \in flushed + 1..Len(file) /\ n \in 1..Len(file)
        BY <1>1, <2>2, <3>1
      <4>2. QED
        BY <1>1, <2>2, <4>1
    <3>2. CASE ~(n <= Len(file))
      <4>1. n \in Len(file) + 1..Len(file')
        BY <1>1, <2>2, <3>2
      <4>2. QED
        BY <2>1, <4>1
    <3>3. QED
      BY <3>1, <3>2
  <2>6. QED
    BY <2>1, <2>2, <2>3, <2>4, <2>5 DEF FinishInv
<1>3. CASE ~finished /\ finished'
  <2>1. PICK tail \in Seq(Cell) : Stores(msgs, tail)
    BY <1>3, EffectCases DEF HeaderFails, Buffer, ChunkFails
  <2>2. /\ ChunkWritten(msgs, tail) /\ FooterTail(tail)
        /\ flushed' = Len(file') /\ Len(tail) = Len(chunk_index') + 1
    BY <1>3, <2>1 DEF Stores
  <2>3. PICK h \in Nat : h = Len(file) + Len(HeaderCells)
    BY <1>1, HeaderCellsType
  <2>4. PICK l \in Nat :
           /\ l = IF msgs = <<>> THEN 0 ELSE 2 + Len(msgs)
           /\ pos' = HeaderPos + l
           /\ Len(tail) \in Nat /\ Len(file') = h + l + Len(tail)
           /\ msgs # <<>> => file'[h + 1] = ChunkMagicCell
           /\ \A k \in 1..Len(tail) : file'[h + l + k] = tail[k]
           /\ NoTrailer(file', Len(file), h + l)
    <3>1. TypeOK /\ msgs \in Seq(Message)
      BY <1>1
    <3>2. ChunkWritten(msgs, tail) /\ h = Len(file) + Len(HeaderCells)
      BY <2>2, <2>3
    <3>3. tail \in Seq(Cell) /\ h \in Nat
      OBVIOUS
    <3>4. QED
      <4>1. LiesBehind(msgs, tail, h)
        BY ONLY <3>1, <3>2, <3>3, WrittenCells
      <4>2. QED
        BY ONLY <4>1 DEF LiesBehind
  <2>5. PICK c \in Nat : c = Len(chunk_index')
    BY EffectIndex
  <2>6. Len(tail) = c + 1 /\ c + 1 \in 1..Len(tail) /\ ~(c + 1 <= c)
    BY <2>2, <2>5
  <2>7. tail[c + 1].kind = "trailer"
    BY <2>2, <2>5, <2>6 DEF FooterTail, TrailerCell
  <2>8. Len(file') = h + l + (c + 1)
    BY <2>4, <2>6
  <2>9. file'[Len(file')].kind = "trailer" /\ Len(file') >= 1
    <3>1. file'[h + l + (c + 1)] = tail[c + 1]
      BY <2>4, <2>6
    <3>2. Len(file') >= 1
      BY <2>8
    <3>3. QED
      BY <2>7, <2>8, <3>1, <3>2
  <2>10. parted' < Len(file')
    <3>1. CASE parted' > 0
      BY <3>1 DEF StuckInv
    <3>2. CASE ~(parted' > 0)
      BY <1>1, <2>9, <3>2
    <3>3. QED
      BY <3>1, <3>2
  <2>11. \A n \in Len(file') + 1..Len(file') : FALSE
    BY <1>1
  <2>12. flushed' \in 1..Len(file')
    BY <1>1, <2>2, <2>9
  <2>13. QED
    BY <2>2, <2>9, <2>10, <2>11, <2>12 DEF FinishInv
<1>4. QED
  BY <1>2, <1>3 DEF FinishInv

LEMMA CleanStart ==
  ASSUME FullInv, FullInv', HeadInv, StuckInv', TrailerInv, TrailerInv',
         FinishInv, FinishInv', NEW msgs, Effect(msgs), parted = -1, parted' # -1
  PROVE  CleanInv'
<1>1. /\ TypeOK /\ TypeOK' /\ msgs \in Seq(Message)
      /\ Len(file) \in Nat /\ Len(file') \in Nat
      /\ pos' \in Nat /\ parted' \in Nat \cup {-1}
      /\ data_offset' \in Nat
      /\ parted' = pos' /\ Len(file') # pos'
  BY EffectTypes
<1>2. ~finished
  BY DEF FinishInv, TrailerInv, Footer
<1>3. parted' > 0 =>
        /\ parted' < Len(file')
        /\ \/ /\ file'[parted' + 1] # ChunkMagicCell
              /\ Fails \/ finished' = TRUE
           \/ /\ Torn(file', parted') /\ pending' # <<>>
              /\ Fails /\ finished' = finished
  BY StuckStart
<1>4. failures \in Nat /\ (Fails => failures' # 0)
  BY <1>1 DEF TypeOK, Fails
<1>5. ASSUME ~Fails PROVE finished' /\ pos' > 0
  <2>1. ~HeaderFails /\ ~(\E bytes : ChunkFails(msgs, bytes))
    BY <1>5 DEF HeaderFails, ChunkFails
  <2>2. PICK h \in Nat : h = Len(file) + Len(HeaderCells) /\ h = HeaderPos
    BY CountedHeader
  <2>3. ~(\E bytes : Buffer(msgs, bytes))
    <3>1. SUFFICES ASSUME NEW bytes, Buffer(msgs, bytes) PROVE FALSE
      OBVIOUS
    <3>2. file \in Seq(Cell) /\ HeaderCells \in Seq(Cell)
      BY <1>1, HeaderCellsType DEF TypeOK
    <3>3. Len(file') = h
      BY <2>2, <3>1, <3>2, ConcatLength DEF Buffer
    <3>4. QED
      BY <1>1, <2>2, <3>1, <3>3 DEF Buffer
  <2>4. PICK tail \in Seq(Cell) : Stores(msgs, tail)
    BY <2>1, <2>3, EffectCases
  <2>5. PICK l \in Nat :
           /\ l = IF msgs = <<>> THEN 0 ELSE 2 + Len(msgs)
           /\ pos' = HeaderPos + l
           /\ Len(tail) \in Nat /\ Len(file') = h + l + Len(tail)
           /\ msgs # <<>> => file'[h + 1] = ChunkMagicCell
           /\ \A k \in 1..Len(tail) : file'[h + l + k] = tail[k]
           /\ NoTrailer(file', Len(file), h + l)
    <3>1. /\ TypeOK /\ msgs \in Seq(Message) /\ ChunkWritten(msgs, tail)
          /\ h = Len(file) + Len(HeaderCells)
      BY <1>1, <2>2, <2>4 DEF Stores
    <3>2. LiesBehind(msgs, tail, h)
      BY ONLY <3>1, WrittenCells
    <3>3. QED
      BY ONLY <3>2 DEF LiesBehind
  <2>6. pos' = h + l /\ Len(file') = h + l + Len(tail) /\ Len(tail) \in Nat
    BY <2>2, <2>5
  <2>7. Len(tail) # 0
    BY <1>1, <2>6
  <2>8. finished'
    <3>1. tail # <<>>
      BY <2>7
    <3>2. QED
      BY <1>5, <2>4, <3>1 DEF Stores
  <2>9. h > 0
    <3>1. header_written => Len(file) >= 2
      BY DEF HeadInv
    <3>2. Len(HeaderCells) = IF header_written THEN 0 ELSE 2
      BY <1>1, HeaderCellsType
    <3>3. CASE header_written
      BY <1>1, <2>2, <3>1, <3>2, <3>3
    <3>4. CASE ~header_written
      BY <1>1, <2>2, <3>2, <3>4
    <3>5. QED
      BY <3>3, <3>4
  <2>10. QED
    BY <2>6, <2>8, <2>9
<1>6. ASSUME failures' = 0
      PROVE  /\ finished' /\ parted' > 0 /\ file'[parted' + 1] # ChunkMagicCell
             /\ \A i \in 1..file'[flushed'].chunk_count : Intact(i)'
  <2>1. ~Fails
    BY <1>4, <1>6
  <2>2. finished' /\ parted' > 0
    BY <1>1, <1>5, <2>1
  <2>3. file'[parted' + 1] # ChunkMagicCell
    BY <1>3, <2>1, <2>2
  <2>4. ASSUME NEW i \in 1..file'[flushed'].chunk_count PROVE Intact(i)'
    <3>1. /\ flushed' \in 1..Len(file') /\ file'[flushed'].kind = "trailer"
      BY <2>2 DEF FinishInv
    <3>2. header_written' /\ file'[flushed'].chunk_count <= Len(chunk_index')
      BY <3>1 DEF TrailerInv, Footer
    <3>3. /\ Tiles(chunk_index', data_offset', pos', message_count')
          /\ chunk_index' \in Seq(ChunkIndex) /\ message_count' \in Nat
          /\ Len(chunk_index') \in Nat
      BY <1>1, <3>2 DEF FullInv, AccountsInv, ChunksTile, TypeOK
    <3>4. file'[flushed'].chunk_count \in Nat
      <4>1. file' \in Seq(Cell)
        BY <1>1 DEF TypeOK
      <4>2. PICK t \in Cell : t = file'[flushed']
        BY <3>1, <4>1
      <4>3. QED
        BY <3>1, <4>2, TrailerTyped
    <3>5. i \in 1..Len(chunk_index')
      BY <3>2, <3>3, <3>4
    <3>6. EntryEnd(chunk_index'[i]) <= pos'
      BY <1>1, <3>3, <3>5, ChunksBetween
    <3>7. /\ chunk_index'[i].offset \in Nat /\ EntryEnd(chunk_index'[i]) \in Nat
          /\ chunk_index'[i].msg_count \in Nat
          /\ EntryEnd(chunk_index'[i]) = chunk_index'[i].offset + 2 + chunk_index'[i].msg_count
      BY <3>3, <3>5, EntryFields
    <3>8. chunk_index'[i].offset < parted'
      <4>1. PICK o \in Nat, m \in Nat :
              o = chunk_index'[i].offset /\ m = chunk_index'[i].msg_count
        BY <3>7
      <4>2. o + 2 + m <= pos'
        BY <3>6, <3>7, <4>1
      <4>3. o < pos'
        BY <1>1, <4>2
      <4>4. QED
        BY <1>1, <4>1, <4>3
    <3>9. QED
      BY <3>8 DEF Intact
  <2>5. QED
    BY <2>2, <2>3, <2>4
<1>7. ASSUME parted' > 0, file'[parted' + 1] = ChunkMagicCell
      PROVE  pending' # <<>> /\ ~finished'
  BY <1>2, <1>3, <1>7
<1>8. QED
  BY <1>6, <1>7 DEF CleanInv

LEMMA CleanStays ==
  ASSUME FullInv, FullInv', BoundInv, StuckInv, TrailerInv, FinishInv, CleanInv,
         NEW msgs, Effect(msgs), parted # -1
  PROVE  CleanInv'
<1>1. /\ TypeOK /\ TypeOK' /\ msgs \in Seq(Message) /\ Len(msgs) \in Nat
      /\ Len(file) \in Nat /\ Len(file') \in Nat /\ Len(file) <= Len(file')
      /\ file \in Seq(Cell)
      /\ \A k \in 1..Len(file) : file'[k] = file[k]
      /\ parted \in Nat \cup {-1}
      /\ parted' = IF parted # -1 \/ Len(file') = pos' THEN parted ELSE pos'
  BY EffectTypes
<1>2. parted' = parted
  BY <1>1
<1>3. /\ Len(chunk_index) \in Nat /\ Len(chunk_index') \in Nat
      /\ Len(chunk_index) <= Len(chunk_index')
      /\ \A i \in 1..Len(chunk_index) : chunk_index'[i] = chunk_index[i]
  BY EffectIndex
<1>4. parted > 0 => parted < Len(file) /\ file'[parted + 1] = file[parted + 1]
  <2>1. SUFFICES ASSUME parted > 0
                 PROVE  parted < Len(file) /\ file'[parted + 1] = file[parted + 1]
    OBVIOUS
  <2>2. parted < Len(file)
    BY <2>1 DEF StuckInv
  <2>3. parted + 1 \in 1..Len(file)
    BY <1>1, <2>1, <2>2
  <2>4. QED
    BY <1>1, <2>2, <2>3
<1>5. ASSUME failures' = 0
      PROVE  /\ finished' /\ parted' > 0 /\ file'[parted' + 1] # ChunkMagicCell
             /\ \A i \in 1..file'[flushed'].chunk_count : Intact(i)'
  <2>1. failures = 0
    <3>1. Fails \/ Succeeds
      BY DEF Effect, HeaderFails, Buffer, ChunkFails, Closes
    <3>2. failures \in Nat
      BY <1>1 DEF TypeOK
    <3>3. QED
      BY <1>5, <3>1, <3>2 DEF Fails, Succeeds
  <2>2. /\ finished /\ parted > 0 /\ file[parted + 1] # ChunkMagicCell
        /\ \A i \in 1..file[flushed].chunk_count : Intact(i)
    BY <2>1 DEF CleanInv
  <2>3. finished' /\ flushed' = flushed
    BY <2>2, FinishedStays
  <2>4. flushed \in 1..Len(file) /\ file[flushed].kind = "trailer"
    BY <2>2 DEF FinishInv
  <2>5. file'[flushed'] = file[flushed] /\ file[flushed].chunk_count \in Nat
    BY <1>1, <2>3, <2>4, TrailerTyped
  <2>6. file[flushed].chunk_count <= Len(chunk_index)
    BY <2>4 DEF TrailerInv, Footer
  <2>7. ASSUME NEW i \in 1..file[flushed].chunk_count PROVE Intact(i)'
    <3>1. i \in 1..Len(chunk_index) /\ Intact(i)
      BY <1>3, <2>2, <2>5, <2>6
    <3>2. QED
      BY <1>2, <1>3, <3>1 DEF Intact
  <2>8. QED
    BY <1>2, <1>4, <2>2, <2>3, <2>5, <2>7
<1>6. ASSUME parted' > 0, AllIntact', file'[parted' + 1] = ChunkMagicCell
      PROVE  pending' # <<>> /\ ~finished'
  <2>1. parted > 0 /\ file[parted + 1] = ChunkMagicCell
    BY <1>2, <1>4, <1>6
  <2>2. AllIntact
    <3>1. SUFFICES ASSUME NEW i \in 1..Len(chunk_index) PROVE Intact(i)
      BY DEF AllIntact
    <3>2. i \in 1..Len(chunk_index') /\ chunk_index'[i] = chunk_index[i]
      BY <1>3
    <3>3. Intact(i)'
      BY <1>6, <3>2 DEF AllIntact
    <3>4. QED
      BY <1>2, <3>2, <3>3 DEF Intact
  <2>3. pending # <<>> /\ ~finished
    BY <2>1, <2>2 DEF CleanInv
  <2>4. msgs # <<>>
    BY <1>1, <2>3, OfferedMore DEF Effect
  <2>5. ~HeaderFails
    BY <2>1 DEF BoundInv, HeaderFails
  <2>6. \A tail : ~ChunkWritten(msgs, tail)
    <3>1. SUFFICES ASSUME NEW tail, ChunkWritten(msgs, tail) PROVE FALSE
      OBVIOUS
    <3>2. chunk_index' = Append(chunk_index, IndexEntry(msgs)) /\ chunk_index \in Seq(ChunkIndex)
      BY <1>1, <2>4, <3>1 DEF ChunkWritten, IndexWith, TypeOK
    <3>3. PICK k \in Nat : k = Len(chunk_index) + 1 /\ k = Len(chunk_index')
      BY <1>3, <3>2
    <3>4. k \in 1..Len(chunk_index') /\ k > Len(chunk_index)
      BY <1>3, <3>3
    <3>5. ~Intact(k)'
      BY <3>4, LateChunk
    <3>6. QED
      BY <1>6, <3>4, <3>5 DEF AllIntact
  <2>7. CASE \E bytes : Buffer(msgs, bytes)
    BY <2>3, <2>4, <2>7 DEF Buffer
  <2>8. CASE \E bytes : ChunkFails(msgs, bytes)
    <3>1. pending' = StableSort(msgs) /\ finished' = finished
      BY <2>8 DEF ChunkFails
    <3>2. Len(StableSort(msgs)) = Len(msgs) /\ Len(msgs) # 0
      BY <1>1, <2>4, SortedMessages
    <3>3. StableSort(msgs) # <<>>
      BY <1>1, <3>2
    <3>4. QED
      BY <2>3, <3>1, <3>3
  <2>9. QED
    BY <2>5, <2>6, <2>7, <2>8, EffectCases DEF Stores
<1>7. QED
  BY <1>5, <1>6 DEF CleanInv

LEMMA CleanStep ==
  ASSUME FullInv, FullInv', HeadInv, BoundInv, StuckInv, StuckInv',
         TrailerInv, TrailerInv', FinishInv, FinishInv', CleanInv,
         NEW msgs, Effect(msgs)
  PROVE  CleanInv'
<1>1. CASE parted' = -1
  BY <1>1 DEF CleanInv
<1>2. CASE parted = -1 /\ parted' # -1
  BY <1>2, CleanStart
<1>3. CASE parted # -1
  BY <1>3, CleanStays
<1>4. QED
  BY <1>1, <1>2, <1>3

\* What the file looks like, after any calls and any failures.
ShapeInv ==
  /\ MessagesInv /\ LinkInv /\ HeadInv /\ BoundInv /\ StuckInv
  /\ TrailerInv /\ FinishInv /\ CleanInv

ShapeVars == <<file, flushed, schemas, channels, data_offset, header_written,
               finished, pending, chunk_index, accepted, failures, parted>>

LEMMA ShapeSame ==
  ASSUME ShapeInv, UNCHANGED ShapeVars
  PROVE  ShapeInv'
<1>1. MessagesInv'
  <2>1. MessagesInv
    BY DEF ShapeInv
  <2>2. UNCHANGED <<file, pending, chunk_index, accepted, parted>>
    BY DEF ShapeVars
  <2>3. \A m : FromWrites(m)' <=> FromWrites(m)
    BY <2>2 DEF FromWrites
  <2>4. \A i : Intact(i)' <=> Intact(i)
    BY <2>2 DEF Intact
  <2>5. ASSUME NEW i \in 1..Len(chunk_index), Intact(i),
               NEW k \in 1..chunk_index[i].msg_count
        PROVE  FromWrites(MsgsAt(file, chunk_index[i])[k])'
    <3>1. FromWrites(MsgsAt(file, chunk_index[i])[k])
      BY <2>1, <2>5 DEF MessagesInv
    <3>2. QED
      BY <2>2, <3>1 DEF FromWrites, MsgsAt
  <2>6. ASSUME NEW k \in 1..Len(pending) PROVE FromWrites(pending[k])'
    <3>1. FromWrites(pending[k])
      BY <2>1 DEF MessagesInv
    <3>2. QED
      BY <2>2, <3>1 DEF FromWrites
  <2>7. QED
    BY <2>1, <2>2, <2>4, <2>5, <2>6 DEF MessagesInv
<1>2. LinkInv' /\ HeadInv' /\ BoundInv'
  BY DEF ShapeInv, ShapeVars, LinkInv, HeadInv, BoundInv, Declares, Intact
<1>3. StuckInv'
  BY DEF ShapeInv, ShapeVars, StuckInv
<1>4. TrailerInv' /\ FinishInv'
  BY DEF ShapeInv, ShapeVars, TrailerInv, FinishInv, Footer, EndOf, Intact
<1>5. CleanInv'
  BY DEF ShapeInv, ShapeVars, CleanInv, AllIntact, Intact
<1>6. QED
  BY <1>1, <1>2, <1>3, <1>4, <1>5 DEF ShapeInv

LEMMA ShapeEffect ==
  ASSUME FullInv, FullInv', ShapeInv, NEW msgs, Effect(msgs), Numbered
  PROVE  ShapeInv'
<1>1. /\ MessagesInv /\ LinkInv /\ HeadInv /\ BoundInv /\ StuckInv
      /\ TrailerInv /\ FinishInv /\ CleanInv
  BY DEF ShapeInv
<1>2. MessagesInv'
  BY <1>1, MessagesStep
<1>3. HeadInv'
  BY <1>1, HeadStep
<1>4. BoundInv'
  BY <1>1, BoundStep
<1>5. StuckInv'
  BY <1>1, StuckStep
<1>6. TrailerInv'
  BY <1>1, <1>4, <1>5, TrailerStep
<1>7. FinishInv'
  BY <1>1, <1>5, FinishStep
<1>8. CleanInv'
  BY <1>1, <1>5, <1>6, <1>7, CleanStep
<1>9. LinkInv'
  BY <1>1, EffectTypes DEF LinkInv
<1>10. QED
  BY <1>2, <1>3, <1>4, <1>5, <1>6, <1>7, <1>8, <1>9 DEF ShapeInv

LEMMA PrefixOfAppend ==
  ASSUME NEW S, NEW s \in Seq(S), NEW e \in S, NEW a \in 0..Len(s)
  PROVE  SubSeq(Append(s, e), 1, a) = SubSeq(s, 1, a)
<1>1. Append(s, e) \in Seq(S) /\ a \in 0..Len(Append(s, e))
      /\ \A k \in 1..a : Append(s, e)[k] = s[k]
  OBVIOUS
<1>2. PICK t \in Seq(S), u \in Seq(S) :
        t = SubSeq(Append(s, e), 1, a) /\ u = SubSeq(s, 1, a)
  BY <1>1, PrefixProperties
<1>3. Len(t) = a /\ Len(u) = a
  BY <1>1, <1>2, PrefixProperties
<1>4. \A k \in 1..a : t[k] = s[k] /\ u[k] = s[k]
  BY <1>1, <1>2
<1>5. t = u
  BY <1>3, <1>4
<1>6. QED
  BY <1>2, <1>5

LEMMA ShapeRegister ==
  ASSUME TypeOK, TypeOK', ShapeInv, Register
  PROVE  ShapeInv'
<1>1. /\ schemas \in Seq(Schema) /\ schemas' \in Seq(Schema)
      /\ channels \in Seq(Channel) /\ channels' \in Seq(Channel)
      /\ Len(schemas) \in Nat /\ Len(channels) \in Nat
      /\ Len(schemas') \in Nat /\ Len(channels') \in Nat
  <2>1. /\ schemas \in Seq(Schema) /\ schemas' \in Seq(Schema)
        /\ channels \in Seq(Channel) /\ channels' \in Seq(Channel)
    BY DEF TypeOK
  <2>2. QED
    BY <2>1
<1>2. UNCHANGED <<file, flushed, data_offset, header_written, finished, pending,
                  chunk_index, accepted, failures, parted>>
  BY DEF Register, AddSchema, AddChannel, chunkVars
<1>3. ASSUME \E key \in SchemaKeys : AddSchema(key)
      PROVE  LinkInv' /\ \A cell : Declares(cell) => Declares(cell)'
  <2>1. PICK e : schemas' = Append(schemas, e) /\ channels' = channels
    BY <1>3 DEF AddSchema
  <2>2. /\ Len(schemas') = Len(schemas) + 1
        /\ \A i \in 1..Len(schemas) : schemas'[i] = schemas[i]
    BY <1>1, <2>1
  <2>3. LinkInv'
    BY <1>1, <2>1, <2>2 DEF ShapeInv, LinkInv
  <2>4. e \in Schema
    <3>1. schemas'[Len(schemas) + 1] = e
      BY <1>1, <2>1
    <3>2. QED
      BY <1>1, <2>2, <3>1
  <2>5. ASSUME NEW cell, Declares(cell) PROVE Declares(cell)'
    <3>1. PICK a \in 0..Len(schemas), b \in 0..Len(channels) :
            /\ cell = DeclCell(SubSeq(schemas, 1, a), SubSeq(channels, 1, b))
            /\ \A c \in 1..b : \E s \in 1..a : schemas[s].id = channels[c].schema_id
      BY <2>5 DEF Declares
    <3>2. SubSeq(schemas', 1, a) = SubSeq(schemas, 1, a)
      BY <1>1, <2>1, <2>4, PrefixOfAppend
    <3>3. a \in 0..Len(schemas') /\ b \in 0..Len(channels')
      BY <1>1, <2>1, <2>2
    <3>4. cell = DeclCell(SubSeq(schemas', 1, a), SubSeq(channels', 1, b))
      BY <2>1, <3>1, <3>2
    <3>5. \A c \in 1..b : \E s \in 1..a : schemas'[s].id = channels'[c].schema_id
      BY <1>1, <2>1, <2>2, <3>1
    <3>6. QED
      BY <3>3, <3>4, <3>5 DEF Declares
  <2>6. QED
    BY <2>3, <2>5
<1>4. ASSUME \E name \in Names, i \in 1..Len(schemas) :
               AddChannel(name, schemas[i].id)
      PROVE  LinkInv' /\ \A cell : Declares(cell) => Declares(cell)'
  <2>1. PICK name \in Names, i \in 1..Len(schemas) : AddChannel(name, schemas[i].id)
    BY <1>4
  <2>2. PICK e : e = [id |-> NextId(channels), name |-> name, schema_id |-> schemas[i].id]
    OBVIOUS
  <2>3. channels' = Append(channels, e) /\ schemas' = schemas
    BY <2>1, <2>2 DEF AddChannel
  <2>4. /\ Len(channels') = Len(channels) + 1
        /\ \A c \in 1..Len(channels) : channels'[c] = channels[c]
        /\ channels'[Len(channels) + 1] = e
    BY <1>1, <2>3
  <2>5. LinkInv'
    <3>1. SUFFICES ASSUME NEW c \in 1..Len(channels')
                   PROVE  \E s \in 1..Len(schemas) : schemas[s].id = channels'[c].schema_id
      BY <2>3 DEF LinkInv
    <3>2. CASE c = Len(channels) + 1
      BY <2>2, <2>4, <3>2
    <3>3. CASE c # Len(channels) + 1
      <4>1. c \in 1..Len(channels)
        BY <1>1, <2>4, <3>3
      <4>2. QED
        BY <2>4, <4>1 DEF ShapeInv, LinkInv
    <3>4. QED
      BY <3>2, <3>3
  <2>6. e \in Channel
    BY <1>1, <2>4
  <2>7. ASSUME NEW cell, Declares(cell) PROVE Declares(cell)'
    <3>1. PICK a \in 0..Len(schemas), b \in 0..Len(channels) :
            /\ cell = DeclCell(SubSeq(schemas, 1, a), SubSeq(channels, 1, b))
            /\ \A c \in 1..b : \E s \in 1..a : schemas[s].id = channels[c].schema_id
      BY <2>7 DEF Declares
    <3>2. SubSeq(channels', 1, b) = SubSeq(channels, 1, b)
      BY <1>1, <2>3, <2>6, PrefixOfAppend
    <3>3. a \in 0..Len(schemas') /\ b \in 0..Len(channels')
      BY <1>1, <2>3, <2>4
    <3>4. cell = DeclCell(SubSeq(schemas', 1, a), SubSeq(channels', 1, b))
      BY <2>3, <3>1, <3>2
    <3>5. \A c \in 1..b : \E s \in 1..a : schemas'[s].id = channels'[c].schema_id
      BY <1>1, <2>3, <2>4, <3>1
    <3>6. QED
      BY <3>3, <3>4, <3>5 DEF Declares
  <2>8. QED
    BY <2>5, <2>7
<1>5. LinkInv' /\ \A cell : Declares(cell) => Declares(cell)'
  BY <1>3, <1>4 DEF Register
<1>6. HeadInv'
  <2>1. HeadInv
    BY DEF ShapeInv
  <2>2. Declares(file[2]) => Declares(file[2])'
    <3>1. PICK cell : cell = file[2] /\ cell = file'[2]
      BY <1>2
    <3>2. Declares(cell) => Declares(cell)'
      BY <1>5
    <3>3. QED
      BY <3>1, <3>2 DEF Declares
  <2>3. QED
    BY <1>2, <2>1, <2>2 DEF HeadInv
<1>7. MessagesInv'
  BY <1>2 DEF ShapeInv, MessagesInv, FromWrites, Intact, MsgsAt
<1>8. BoundInv'
  BY <1>2 DEF ShapeInv, BoundInv, Intact
<1>9. StuckInv'
  BY <1>2 DEF ShapeInv, StuckInv
<1>10. TrailerInv' /\ FinishInv'
  BY <1>2 DEF ShapeInv, TrailerInv, FinishInv, Footer, EndOf, Intact
<1>11. CleanInv'
  BY <1>2 DEF ShapeInv, CleanInv, AllIntact, Intact
<1>12. QED
  BY <1>5, <1>6, <1>7, <1>8, <1>9, <1>10, <1>11 DEF ShapeInv

LEMMA InitShape == Init => ShapeInv
  BY DEF Init, ShapeInv, MessagesInv, LinkInv, HeadInv, BoundInv, StuckInv,
         TrailerInv, FinishInv, CleanInv

LEMMA StepShape == FullInv /\ ShapeInv /\ [Next]_vars => ShapeInv'
<1>1. SUFFICES ASSUME FullInv, ShapeInv, [Next]_vars PROVE ShapeInv'
  OBVIOUS
<1>2. FullInv' /\ TypeOK /\ TypeOK'
  BY <1>1, StepFull DEF FullInv
<1>3. CASE Register
  BY <1>1, <1>2, <1>3, ShapeRegister
<1>4. CASE WriteAny
  <2>1. PICK i \in 1..Len(channels), stamp \in Stamps, len \in Lens :
          Write(channels[i].id, stamp, len)
    BY <1>4 DEF WriteAny
  <2>2. channels[i] \in Channel
    <3>1. channels \in Seq(Channel)
      BY <1>2 DEF TypeOK
    <3>2. QED
      BY <3>1
  <2>3. channels[i].id \in Nat
    BY <2>2 DEF Channel
  <2>4. PICK msgs : /\ Effect(msgs)
                    /\ \/ accepted' = accepted
                       \/ \E m : /\ accepted' = Append(accepted, m)
                                 /\ m.id = Len(accepted) + 1
    BY <1>1, <1>2, <2>1, <2>3, WriteEffect
  <2>5. QED
    BY <1>1, <1>2, <2>4, ShapeEffect DEF Numbered
<1>5. CASE FinishBody
  <2>1. Effect(pending) /\ Numbered
    BY <1>1, <1>2, <1>5, FinishEffect DEF Numbered
  <2>2. QED
    BY <1>1, <1>2, <2>1, ShapeEffect
<1>6. CASE UNCHANGED <<file, flushed, registry, pos, data_offset,
                       header_written, finished, pending, pending_bytes,
                       chunkVars, accepted, result, failures, parted>>
  BY <1>1, <1>6, ShapeSame DEF ShapeVars, registry, chunkVars
<1>7. QED
  BY <1>1, <1>3, <1>4, <1>5, <1>6 DEF Next, Finish, Drop, vars

LEMMA ShapeAlways == Spec => [](FullInv /\ ShapeInv)
<1>1. Init => FullInv /\ ShapeInv
  BY InitFull, InitShape
<1>2. FullInv /\ ShapeInv /\ [Next]_vars => (FullInv /\ ShapeInv)'
  BY StepFull, StepShape
<1>3. QED
  BY <1>1, <1>2, PTL DEF Spec
==============================================================================
