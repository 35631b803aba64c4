------------------------------ MODULE Recording ------------------------------
(***************************************************************************)
(* One .dcap file from its recorder to its reader.  The writing process    *)
(* may end at any moment (a crash, a kill, the end of the program); what   *)
(* is then in the file is any prefix of what was written that has at least *)
(* the flushed cells.  A reader opens that image and reads it, twice.  The *)
(* machine goes on: finish flushes but does not sync the file, so a loss   *)
(* of power could take flushed cells too, and is not modelled.             *)
(*                                                                         *)
(* The other files a reader meets are those of the linear format, made by  *)
(* an earlier version of the program and possibly cut off in the same way. *)
(***************************************************************************)
EXTENDS Recorder

CONSTANTS None, MaxReads

VARIABLES
  image, reader, answers,
  old            \* history: the messages of a linear file, or None

Reader == INSTANCE SingleFileReader

readerVars == <<image, reader, answers, old>>
recordingVars == <<recorderVars, readerVars>>

LinearCell ==
  [kind : {"magic1", "end1"}]
    \cup [kind : {"decl"}, schemas : Seq(Schema), channels : Seq(Channel)]
    \cup [kind : {"record", "payload"}, msg : Message]
    \cup [kind : {"count1"}, msg_count : Nat]

OldEntry ==
  [id : Nat, stamp : Nat, channel : Names, schema : SchemaKeys, end : Nat]

\* None is no count and no file.
ASSUME NoneAssumption ==
  None \notin Nat \cup Seq(Cell \cup LinearCell) \cup Seq(OldEntry)

------------------------------------------------------------------------------
(* Files of the linear format *)

\* A payload may be empty.
OldMessages ==
  UNION {{[i \in 1..n |-> [id |-> i, ch |-> 1, stamp |-> stamps[i],
                          len |-> lens[i]]] :
            stamps \in [1..n -> Stamps], lens \in [1..n -> Lens \cup {0}]} :
         n \in 0..MaxMessages}

OldHeader(name, schema) ==
  <<LinearMagicCell,
    DeclCell(<<[id |-> 1, key |-> schema]>>,
             <<[id |-> 1, name |-> name, schema_id |-> 1]>>)>>

\* Where record i of the messages ends in the file.
OldEnd(msgs, i) == 2 + i + Cardinality({j \in 1..i : msgs[j].len # 0})

OldFile(name, schema, msgs) ==
  OldHeader(name, schema)
    \o Reader!FlattenSeq([i \in 1..Len(msgs) |-> RecordCells(msgs[i])])
    \o <<LinearEndCell, LinearCountCell(Len(msgs))>>

\* No writer of this version has touched the file.
OldInit ==
  /\ RecorderInit
  /\ \E name \in Names, schema \in SchemaKeys, msgs \in OldMessages :
       LET whole == OldFile(name, schema, msgs)
       IN  /\ \E n \in 0..Len(whole) : image = SubSeq(whole, 1, n)
           /\ old = [i \in 1..Len(msgs) |->
                       [id |-> i, stamp |-> msgs[i].stamp,
                        channel |-> name, schema |-> schema,
                        end |-> OldEnd(msgs, i)]]
  /\ reader = Reader!Closed /\ answers = <<>>

------------------------------------------------------------------------------

\* The writing process is gone; nothing but the file is left of it, with what
\* the operating system was given.
CutOff ==
  /\ image = None
  /\ \E n \in flushed..Len(file) : image' = SubSeq(file, 1, n)
  /\ open' = FALSE
  /\ UNCHANGED <<file, flushed, registry, pos, data_offset, header_written,
                 finished, pending, pending_bytes, chunkVars, accepted,
                 result, failures, parted, caches, asked, reader, answers, old>>

WriterStep == image = None /\ RecorderNext /\ UNCHANGED readerVars

ReaderStep ==
  (Reader!Open \/ Reader!ReadAll) /\ UNCHANGED <<recorderVars, old>>

RecordingInit == (RecorderInit /\ Reader!Init /\ old = None) \/ OldInit

RecordingNext == WriterStep \/ CutOff \/ ReaderStep

RecordingSpec == RecordingInit /\ [][RecordingNext]_recordingVars

------------------------------------------------------------------------------
(* What a reader should find *)

\* A message as the caller of the recorder meant it.
AsWritten(m) ==
  [id |-> m.id, stamp |-> m.stamp, channel |-> asked[m.id].channel,
   schema |-> asked[m.id].schema]

\* The messages of the first k chunks.
WholeChunks(k) ==
  Reader!FlattenSeq([i \in 1..k |->
    [j \in 1..chunk_index[i].msg_count |-> AsWritten(MsgsAt(file, chunk_index[i])[j])]])

\* The chunks the image holds completely, where the index has them.
CompleteChunks ==
  {i \in 1..Len(chunk_index) : Intact(i) /\ EntryEnd(chunk_index[i]) <= Len(image)}

\* The image breaks off between the header of a chunk and the end of its body.
EndsInBody ==
  \E i \in 1..Len(chunk_index) :
    /\ Intact(i)
    /\ chunk_index[i].offset + ChunkHeaderLen <= Len(image)
    /\ Len(image) < EntryEnd(chunk_index[i])

\* Only channels that were registered before the first write were written to:
\* the contract of docs/doracap-format.md, section 8.
ContractKept ==
  \A i \in 1..Len(accepted) :
    accepted[i].ch <= Len(file[2].channels)

\* No failed write_all left bytes behind in the header or between the chunks:
\* none failed, or what failed left nothing, or only a footer that was then
\* written again.
Undamaged ==
  \/ failures = 0
  \/ parted = -1
  \/ finished /\ parted # 0 /\ AllIntact

AnswersAreWhole ==
  \A a \in 1..Len(answers) :
    answers[a] = Reader!Success(WholeChunks(Cardinality(CompleteChunks)))

\* A read that succeeds returns the messages of the first so many chunks as
\* they were written, each under the channel name it was written to and with
\* the schema that name was first registered with (Recorder::add_channel, through
\* both id tables): never a part of a chunk, a chunk twice or out of place, or
\* a message nobody wrote; however the file was cut off, whatever write_all
\* left of a failed chunk, and also when read_all is called again after it
\* failed.
ReadsAreHonest ==
  \A a \in 1..Len(answers) :
    old = None /\ answers[a].ok =>
      \E k \in 0..Len(chunk_index) :
        /\ \A i \in 1..k : Intact(i)
        /\ answers[a].msgs = WholeChunks(k)

\* An undamaged file that was cut off anywhere but in the body of a chunk can
\* be read, and every chunk that is complete is returned; a file whose finish
\* returned Ok is such a file, whatever is written after finish.
CutOffReadsBack ==
  /\ old = None /\ Undamaged /\ reader.state = "open" /\ ContractKept
  /\ ~EndsInBody
  => AnswersAreWhole

\* finish promises the messages to every later reader, however the process ends
\* (the machine must not: BufWriter::flush, singlefile.rs:369-370, hands them to
\* the operating system and no further): if it returned Ok and nothing was
\* written since, all the messages are read back.
FinishKeepsAll ==
  finished /\ Undamaged /\ ContractKept /\ pending = <<>>
    /\ Reader!HasTrailer(file)
  => \A a \in 1..Len(answers) :
       /\ answers[a].ok
       /\ {answers[a].msgs[i] : i \in 1..Len(answers[a].msgs)} =
            {AsWritten(accepted[i]) : i \in 1..Len(accepted)}

\* A reader that answered once answers the same again: the scan leaves an
\* index that finds the same chunks.
RereadAgrees ==
  Len(answers) = 2 /\ answers[1].ok => answers[2] = answers[1]

\* A linear file that was cut off anywhere behind its header is read back to
\* its last complete record: no incomplete record is returned, no error takes
\* the complete ones away, and the footer is not taken for a record
\* (read_v1_all).
OldFilesReadBack ==
  old # None /\ reader.state = "open" =>
    \A a \in 1..Len(answers) :
      /\ answers[a].ok
      /\ Len(answers[a].msgs) =
           Cardinality({i \in 1..Len(old) : old[i].end <= Len(image)})
      /\ \A i \in 1..Len(answers[a].msgs) :
           answers[a].msgs[i] = [id |-> old[i].id, stamp |-> old[i].stamp,
                                 channel |-> old[i].channel,
                                 schema |-> old[i].schema]

\* `doracap info` tells what is in the file, although it looks at the footer
\* only: whenever the messages can be read it has their number, and, if they
\* are read in the order of their stamps, the first and the last stamp.  Of
\* chunks that overlap in time no range is claimed: the start of the first
\* chunk and the end of the last one (singlefile.rs:522-525) may be wrong.
InfoIsRight ==
  answers # <<>> /\ answers[1].ok =>
    LET msgs == answers[1].msgs
        info == Reader!Info(Reader!Opened(image), answers[1])
    IN  /\ info.count = Len(msgs)
        /\ msgs # <<>> /\ SortedByStamp(msgs) =>
             info.range = <<msgs[1].stamp, msgs[Len(msgs)].stamp>>

\* The file is readable to the last complete chunk wherever it was cut off:
\* singlefile.rs:17-18 and docs/doracap-format.md:184-185.
TruncationKeepsWholeChunks ==
  failures = 0 /\ reader.state = "open" /\ ContractKept
    /\ CompleteChunks # {}
  => AnswersAreWhole

\* Reading from the chunk seek_chunk names, and skipping what is earlier than
\* the target, misses no message of a recording in the order of its stamps:
\* singlefile.rs:500-502.
SeekChunkMissesNone ==
  failures = 0 /\ SortedByStamp(accepted) =>
    \A target \in Stamps : \A c \in Reader!SeekChunk(chunk_index, target) :
      \A i \in 1..Len(chunk_index) : Intact(i) =>
        \A k \in 1..chunk_index[i].msg_count :
          MsgsAt(file, chunk_index[i])[k].stamp >= target => i >= c
==============================================================================
