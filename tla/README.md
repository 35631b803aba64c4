# DoraCap in TLA+

DoraCap records sensor streams (imu, lidar, and the poses a mapper computes
from them) into single `.dcap` files and plays them back. This directory
specifies the parts where its correctness is decided, model-checks them with
TLC on small instances, and proves theorems about them with TLAPS.

All paths below are relative to `src/` unless they start with `tla/`.

## 1. Inventory

| component | source | state | operations |
|---|---|---|---|
| container writer | `crates/doracap-core/src/storage/singlefile.rs` 146-385 | `pos`, `data_offset`, `header_written`, `finished`, `pending`, `chunk_index`, counters, registered schemas and channels | `open`, `add_schema`, `add_channel`, `write` (`ensure_header`, `flush_chunk`), `finish`, `Drop` |
| container reader | same file, 387-722 | the file in memory, declarations, `chunk_index`, `msg_count` | `open`, `read_all` (by index, by scan, or the linear format v1), `read_chunk_at`, `seek_chunk`, the summaries |
| recorder | `crates/doracap-core/src/record.rs` | two tables of ids | `register_schema`, `add_channel`, `write`, `finish` |
| player | `crates/doracap-core/src/play.rs` | play head, one cached chunk or all messages, time anchor, rate, loop | `open`, `next_message`, `try_next`, `seek`, `seek_ratio`, `set_rate`, `seek_to_start`, `messages`, `now` |
| messages and codec | `crates/doracap-msgs/src` | none | `encode`, `decode` of four types in the encoding `rbag1` |
| sensor conversion | `crates/doracap-fastlio/src/conv.rs` | none | `encode`, `decode_message` |
| recording while mapping | `crates/doracap-fastlio/src/lib.rs` 77-280 | recorder, worker handle, two channels, stop flag, poses, map | `new`, `push`, `finish`, `finish_now`, `Drop`, and the worker thread |
| bag as a source | same file, 22-75 | a player | `open`, `next`, `try_next` |
| bake | `crates/doracap/src/main.rs` | a source and a `LioRecorder` | `bake`, with the two exports |
| info | same file | none | the number of messages, the time range, listings |
| live recording program | `crates/doracap/examples/record_play_lio.rs` | stop flag, deadline, counters | `record_loop`, `run_live`, `run_sim`, `export_map` |
| `record_source`, play, selftest, JSON, samples | `lib.rs`, `main.rs`, `json.rs`, `gen_golden.rs`, `glue_demo.rs` | none | printing, sequential calls of the above |

How they interact: a data source gives frames to a program, which pushes them
into `LioRecorder`; that writes them through `Recorder` into
`SingleFileWriter`, sends a copy over a channel to the mapping thread, and
drains the poses that come back over a second channel into the same file. A
`SingleFileReader` opens the file later, in another process; `Player` reads its
chunks on demand and paces them; `BagDataSource` asks the player until a message
decodes, and `bake` pushes what it gives into a second recording.

What is hard in each of them, and what makes it correct:

* **Writer.** Every call may fail in the middle of a `write_all`; the next
  `write` or `finish`, or `Drop`, then writes the same buffer again. Correct: the
  message of each call is neither lost nor stored twice, and offsets, counts and
  the index describe the file. (A `write` whose flush failed has kept its message
  although it returned `Err`: a caller that repeats the call hands over a second
  one, and both are stored. Nothing says that an `Err` means otherwise.)
* **Reader.** It meets files cut off anywhere, of two formats. Correct: what it
  returns was written, whole chunks (or records) only, in order; what is
  complete is found; the index a scan leaves behind agrees with the scan.
* **Recorder.** One call of a caller is up to two calls of the writer, through
  two tables. Correct: an id leads back to the name and schema it was made for.
* **Player.** A cached chunk, lazy loading, unreadable chunks, time anchors and
  loops under any sequence of calls. Correct: one time line, whichever way the
  messages are held; delays are taken from the right anchor.
* **Bag as a source.** A call is a loop over messages that are no frames.
  Correct: each frame once, in order; every call returns; polling reaches the
  end.
* **LioRecorder.** Two threads, two channels, a flag, a join, errors half way
  and a mapper that may panic. Correct: nothing deadlocks, poses are neither
  lost nor doubled, and come after their frames.
* **Programs.** Ctrl+C and a deadline at any moment; an input that cannot be
  read to its end. Correct: they end, and success means a complete file.
* **Codec and conversion.** Hand-written layouts and length checks. Correct:
  what goes in comes out, and nothing damaged is taken for something else.

Every hazard is listed in `PROJECT.json` at the line where it bites, with the
properties that cover it, or why none does.

## 2. Modules

```
Dcap ── SingleFileWriter ── Recorder ──┐
   ├─── SingleFileReader ──────────────┴─ Recording ── MCRecording
   └─── Player ── BagSource ─┐            writer, crash, reader, old files
          │          │       │
          ▽          ▽       ├─ Bake      a recording baked into another one
 PlaybackTimeline FrameSource│
                             │
MappedRecording ◁── LioRecorder ── LiveRecording     owner and worker; program
Rbag1 ── SensorMessages                              codec; conversion
```

(`◁`, `▽`: implements. `MCPlayer`, `MCBagSource` and `MCBake` give constants their
values.) The proofs, each module extending the one before it and the model:

```
Dcap_proofs ─┬─ SingleFileWriter_proofs ── Recording_proofs
             ├─ SensorMessages_proofs
             ├─ BagSource_proofs ┄┐
             └────────────────────┤
                                  ├─ Bake_proofs
LioRecorder_proofs ─┬─────────────┘
                    └─ LiveRecording_proofs
```

(`┄`: by `INSTANCE`, for the data source inside `Bake`. `BagSource_proofs` is also
about `Player`, which `BagSource` extends.)

* `Dcap`: messages, the stable sort (`slice::sort_by_key`), the binary search
  (`slice::partition_point`) and the file as a sequence of *cells*. A cell is
  the smallest piece of the file the readers tell apart (file magic and
  declarations, chunk magic, chunk fields, the share of one message in a body,
  an index entry, the footer trailer; in the linear format a record head, its
  payload, the end magic and the counts); offsets count cells, so a truncation
  between any two cells is covered, and one inside a cell behaves like one
  before it, because every reader asks for the whole cell. The crc is the list
  of records it was computed from.
* `SingleFileWriter`: one action per method. `write_all` fails or succeeds
  inside each; a failure leaves any proper prefix of its buffer behind, a
  failing `flush` in `finish` all of it. `flushed` is what the end of the
  process cannot remove, because it is out of the `BufWriter`: only a successful
  `finish` flushes. (Nothing is synced to the disk; see section 5.)
  `pending_bytes >= chunk_target` decides about a chunk as in the code. `parted`
  is the position at which `pos` and the end of the file first disagreed.
* `SingleFileReader`: `Open` and `ReadAll` on an image; `read_all` goes by the
  index when there is one, scans otherwise, and reads linear files record by
  record; a scan that fails keeps the entries it has already pushed, as
  `chunk_index` does in the code. `Info` is the summary the command prints.
* `Recorder`: `register_schema`, `add_channel`, `write` and `finish` over the
  writer. `add_channel` of a new name and a new schema is two steps, because it
  is two calls of the writer. A type name is a sequence of the characters that
  matter, so that the joined key of `schema_key` can be told apart from its
  parts; that no type name has the separator in it is an assumption.
* `Recording` composes them: `CutOff` ends the writing process at any moment
  and leaves any prefix that has the flushed cells. Its other initial states
  are the linear files an earlier version may have left, cut off anywhere.
* `PlaybackTimeline` is the promise of playback: the messages in the order of
  their stamps and a head on them. `Player` has one action per method.
  `next_message` and `try_next` are built from the same parts (`End`, `Fails`,
  `Returned`, and `NotYet` or `Sleeps`). A rate is a fraction, stamps and
  elapsed time are integers, `round` is exact; negative and NaN rates are left
  out. A recursion at the end of a loop is one step (`Wraps`). `damaged` are the
  chunks `read_chunk_at` cannot read.
* `FrameSource` is the promise of a recording used as a data source: its
  frames one after the other and a final end. `BagSource` is `BagDataSource`
  around the player it owns; each turn of the loop in `next` and `try_next` is a
  step (`Turn`), because time passes between turns.
* `MappedRecording` is the promise of `LioRecorder`. In `LioRecorder` every
  access to a channel or to the flag is a step of its own: `push` is `Push`
  (write), `Send`, then `DrainPose` until `DrainEnds`; `end_mapping` is
  `EndMapping` (drop the sender), `SetStop`, `Join`, the same drain, and
  `RecFinish`; `Drop` is three steps. The flag is accessed with
  `Ordering::Relaxed`; as it is one location, written once and only read
  otherwise, every read returns the old or the new value, and the step in
  which a read returns the new one is the step the model interleaves. The
  storage is a call that appends an entry or fails, with or without having
  kept the message.
* `LiveRecording` puts `record_loop` and what follows it around `LioRecorder`:
  the main thread, Ctrl+C and the clock. `LioRecorder::new`, and opening the
  file and the driver, have succeeded when it begins.
* `Bake` puts the `bake` command around both `BagSource` (by `INSTANCE`, so
  that the player, its cache and its chunks are there) and `LioRecorder`.
* `Rbag1` describes the layouts of the four message types and encodes and
  decodes by them with a cursor, byte by byte: byte *i* of a value *v* is `<<v,
  i>>`. `SensorMessages` makes messages of frames and back with the two tables
  of point fields, and the two roundings of time. Stamps count `Parts` of a
  nanosecond. The product `s * 1e9` of the scheduling stamp is rounded to an
  `f64` that has every integer below `Mantissa` (`Product`), and then to a
  nanosecond, which is what makes the two stamps of a message differ; the
  header's seconds and the rest of the second are exact, as `Nanos * Parts <
  Mantissa` says (in the code up to parts of 2^-23 ns).

Operators marked *Broken on purpose* are plausible bugs in the code. They are
not used by any action; each is named in `PROJECT.json` with the property that
finds it when it takes the place of the correct one.

## 3. What is checked

| run | module, configuration | bounds | result |
|---|---|---|---|
| `writer` | `SingleFileWriter`, `MCSingleFileWriter.cfg` | 4 messages of 2 lengths, 2 failures | passes: `EveryMessageOnce`, `ChunksTile`, `IndexLocatesChunks`, `ChunksSorted`, `BufferBounded` |
| `recording` | `MCRecording`, `MCRecording.cfg` | 3 messages, 2 names, 2 schemas, 1 failure, 2 reads; linear files of up to 3 messages, with and without payloads | passes: `ReadsAreHonest`, `CutOffReadsBack`, `FinishKeepsAll`, `RereadAgrees`, `OldFilesReadBack`, `InfoIsRight`, `IdsLeadBack` |
| `truncation` | `MCRecording`, `MCRecordingTruncation.cfg` | 4 messages, no failures | **violated**: `TruncationKeepsWholeChunks` |
| `seek_tie` | `MCRecording`, `MCRecordingSeek.cfg` | no failures | **violated**: `SeekChunkMissesNone` |
| `player` | `MCPlayer`, `MCPlayer.cfg` | 3 messages in chunks of 2, any chunk unreadable, opened at the rate 0 and changed among 3, 3 targets, 2 ratios | passes: `FollowsTimeline`, `MovesAreImmediate`, `NowKeepsUp`, `PlaysOut` |
| `player_loop` | `MCPlayer`, `MCPlayerLoop.cfg` | one rate | **violated**: `LoopKeepsTime` |
| `bag` | `MCBagSource`, `MCBagSource.cfg` | 3 messages in chunks of 1 or 2, overlapping in time, unreadable, with any of them frames; 2 rates | passes: `GivesEveryFrame`, `SourceAnswers`, `EndIsReached` |
| `bake` | `MCBake`, `MCBake.cfg` | input of 3 messages, one chunk unreadable, 1 failing write, panics | passes: `BakeKeepsFrames`, `BakeMapsAll`, `BakeEnds` |
| `lio` | `LioRecorder`, `MCLioRecorder.cfg` | 3 frames, 1 failing write, panics | passes: `NoPoseLost`, `FinishIsComplete`, `StopIsPrompt`, `KeepsOrder`, `CallsReturn` |
| `lio_time` | `LioRecorder`, `MCLioRecorderTime.cfg` | 3 frames, chunks of 2 | **violated**: `ChunksFollowTime` |
| `live` | `LiveRecording`, `MCLiveRecording.cfg` | 2 frames, 1 failing write, panics | passes: `SuccessIsComplete`, `ExportHasMap`, `StopsAtOnce`, `EndsWhenTold` |
| `messages` | `SensorMessages`, `MCSensorMessages.cfg` | up to 2 points, stamps around full seconds, and where an `f64` has every 2nd, 4th, 8th and 16th of 8 parts of a nanosecond | passes: `FrameSurvives`, `DamageIsNoticed`, `StampsAgree` |

The runs `writer`, `player` and `lio` also check the type invariant of their
state machine.

**Bounds and why they are enough.** Two chunks are the least with an order
between them, and three messages fill two chunks, or fill one and leave one
pending; two stamps give ties and inversions; two payload lengths (in `writer`)
let chunks have different sizes; one failure can be followed by a retry that
succeeds, and a second one (in `writer`) hits the retry. `MaxReads = 2` is one
scan and one read by the index it left. In `recording` two names and two
schemas give every way in which one table of `Recorder` knows its part and the
other does not; names and type names are compared and nothing else, so that
their permutations are a symmetry (safety properties only are checked there).
In `Player`, seek targets lie on the stamps and behind them (targets are
compared with `<` only, so that one between two stamps is like the later one,
and the middle of `seek_ratio` is one); `MaxElapsed` is the longest distance at
the slowest rate: from then on every message is due and more time changes
nothing (`PlayerAssumption` checks this). An unreadable chunk comes before, in
or behind the readable ones. Three frames let two poses wait while a third
frame is pushed. In `messages` a second has three nanoseconds, and the stamps
lie around 0 and around full seconds, where `sec_nsec` rounds up to a whole
second of nanoseconds; a nanosecond has 8 parts, an `f64` every integer below
32, and the stamps reach four binary digits beyond, with ties and with stamps
where rounding twice gives another nanosecond. `IdSpace` is 65536, as in the
code; no run reaches it, and what is proved of ids holds for any value.

**Deadlock** is checked for the player and the source, which can always be
called. Elsewhere the system really stops: a writer is dropped, a reader has
answered, the program has exited, a message is decoded.

**Fairness.** `Player!PollingSpec`: someone polls `try_next`, and time passes;
without either nothing is played. `BagSource!AskingSpec`: a call that was made
goes on, time passes, and the caller asks again, with `next` or `try_next` as it
likes. `LioRecorder!FairSpec`: both threads are scheduled, `WF` of what each
does inside a call; nobody has to call anything, and the worker has one
fairness condition for all its steps, so the mapper may take any of its
outcomes. `LiveSpec` and `BakeSpec`: the same for the main thread and the
worker; nothing is assumed of Ctrl+C, the clock or a live source, which may
stay empty for ever.

**Refinement.** Three abstract specifications are implemented by detailed ones:
`MappedRecording` by `LioRecorder` (`KeepsOrder`), `FrameSource` by `BagSource`
(`GivesEveryFrame`: `given` is the number of frames before the play head of the
player), and `PlaybackTimeline` by `Player` (`FollowsTimeline`). The last has one
exemption: a player whose `messages()` left out an unreadable chunk has moved
the later messages up under its head (`HolesClosed`), which is listed as a
hazard; no document says what it should play. That each call does what the time
line says of *this* call is part of it (`CallsAreObeyed`): a seek ends at the
first message not earlier than its own target, `seek_ratio` at that of its own
ratio, and `seek_to_start` at the start.

**The four disagreements** (`findings` in `PROJECT.json`):

1. `truncation`: a file cut off in the body of a chunk makes `scan_v2_chunks`
   return the error of that chunk (singlefile.rs:617), and with it all the
   chunks before it are lost to `read_all`. The format and the module's own
   comment promise them.
2. `seek_tie`: `seek_chunk` is right when no stamp is on both sides of a chunk
   boundary, and one chunk too late otherwise. `Player::seek` searches by
   `end_stamp` and is right (`CallsAreObeyed` in `FollowsTimeline`).
3. `player_loop`: the time a looping player shows goes back at the wrap; the
   format says it is monotone.
4. `lio_time`: poses are late by design, so chunks of mapped recordings
   overlap in time; the format says the chunks are in the order of time.
   `FollowsTimeline` is therefore checked for recordings in order
   (`InOrder = TRUE`), which is what the player is written for; `bag` and `bake`
   take recordings that overlap, too.

Others were seen and have no run of their own:

* `docs/doracap-format.md:399` calls the rate 0 unlimited and `:401` a pause (the
  code is unlimited, and `now()` stands still); no property holds under both
  readings.
* `set_rate` with the head on an unreadable chunk takes 0 as its stamp.
* `message.rs:5` says of a `Timestamp` that it has no floating-point drift, and
  `:14` that seconds are rounded to the nearest nanosecond. The product is
  rounded to an `f64` first: it may become the neighbouring nanosecond, and
  beyond 2^53 ns, so for every time that counts from 1970, it is off by up to
  128 ns. `StampsAgree` states what is left: the scheduling stamp and the time
  in the message are no further apart than half the distance of two `f64` and a
  nanosecond, and equal where the product is exact.
* `docs/doracap-format.md:313` gives `nsec` the range [0, 1e9), and `conv.rs:12`
  may give 10^9. The time that readers add up is right all the same
  (`TimeIsRounded`), but a reader that checks the range refuses the message. It
  takes a time less than half a nanosecond before a full second, so only clocks
  that start near 0 reach it.
* `time_range` says it returns the earliest and the latest stamp
  (`singlefile.rs:520`); it returns the first of the first chunk and the last of
  the last one, which is something else for the overlapping chunks of `lio_time`.
  `InfoIsRight` claims the range for messages in the order of their stamps only.
* After the mapper has panicked `finish` returns `Err`, as it should, but called
  again it returns `Ok` (lib.rs:189: there is no worker left to join) with frames
  that were never mapped. `FinishIsComplete` names this exception; the programs
  never call it twice, and what tells is that there is no map.

## 4. What is proved

For all values of the constants that meet the assumptions of the modules:
`WriterAssumption`, the `RecorderAssumption` of `Recorder` and that of
`LioRecorder`, `NoneAssumption` of `Recording`, `PlayerAssumption`,
`BakeAssumption`, which is `PlayerAssumption` for the player inside `bake`, and
`SensorAssumption`. They say that stamps and sizes
are natural numbers, rates fractions of them, sets of choices of the right kind,
that `None` (an absent `Option`) is no number, message, chunk or payload, and that
`MaxElapsed` is long enough for every delay. TLC evaluates each on a run.

* `Dcap_proofs`: the stable sort.
  * It rearranges (`StableSortRearranges`), sorts (`StableSortSorts`), is
    stable (`StableSortIsStable`) and is the only sequence that does all this
    (`StableSortIsUnique`). It is defined by ranks, so these need no induction:
    two messages have different ranks because one's set of predecessors is
    strictly inside the other's, and ranks fill 1..n by counting.
  * `OnlyOfRearranged`: if the messages of one kind are in order and a
    rearrangement of the whole keeps their order among equal stamps and puts
    smaller stamps first, it does not change their order. `Only` is a recursive
    function; what it selects is described by its places (`Picks`), and the
    induction is a least counterexample of a set of natural numbers.
* `SingleFileWriter_proofs`:
  * `TypeCorrect == Spec => []TypeOK`.
  * `AccountsAgree == Spec => []ChunksTile`: `data_offset`, `pos`, the index
    and `message_count` describe one gapless run of chunks. The inductive
    invariant adds the type invariant; one lemma says what a new entry does to
    `Tiles`, and each outcome of `write_all` is a step of its own.
  * `BufferStaysBounded == Spec => []BufferBounded`: inductive beside the type
    invariant; every way out with `Ok` either empties the buffer or has just
    found it below the target.
  * What is in the file: `MessagesKept == Spec => []EveryMessageOnce` (the
    message of each call, see section 1), `ChunksAreLocated == Spec =>
    []IndexLocatesChunks` and `ChunksAreSorted == Spec => []ChunksSorted`, from
    one invariant. The file only grows, so a complete chunk stays as it is
    (`ChunkStays`). While nothing has parted `pos` from the end of the file, a
    new chunk is handed to the file exactly at the offset of its entry
    (`NewChunk`); afterwards nothing is claimed of new chunks, and the old ones
    are told apart by `parted <= pos`. Messages wait with ids in the order of
    the calls among equal stamps (`Waiting`), which the stable sort keeps, also
    in a buffer that a failed flush left sorted.
  * What else the file looks like (`ShapeInv`), which the proofs about reading
    start from. The messages in complete chunks were given to `write`
    (`MessagesInv`); every channel has its schema, in the writer and in the
    header (`LinkInv`, `HeadInv`); a footer trailer stands behind the entries of
    a prefix of `chunk_index` and counts them and their messages
    (`TrailerInv`), and a `finish` that returned `Ok` left one, the last
    (`FinishInv`). Chunks written before the first failure that left bytes
    behind end before those (`BoundInv`), and the bytes it left can never be
    read as a chunk, whatever is written behind them (`StuckInv`). Without a
    failure there are none (`CleanInv`). All calls, `write` and `finish`, are
    taken apart into the same few cases first (`EffectCases`).
* `Recording_proofs`, the recorder's tables:
  * `IdsLeadBackAlways == RecorderSpec => []IdsLeadBack`, for any id space, also
    one so small that ids wrap. The strengthening says that the table of schemas
    has ids of declared schemas only, and that a channel between the two calls
    of `add_channel` has its schema already.
  * `RecorderUsesWriter == RecorderSpec => Spec`, so that
    `RecordingsKept` carries the four properties of the writer's file over to
    every recording made through a `Recorder`.
* `Recording_proofs`, reading: all six properties of the run `recording`, for
  every recording, every failing call, every point at which the process may end,
  and every order of reads:
  * `ReadsHonestly == RecordingSpec => [](IdsSuffice => ReadsAreHonest)`; in the
    same way `CutOffFilesReadBack` (`CutOffReadsBack`) and
    `FinishedFilesKeepAll` (`FinishKeepsAll`); and without `IdsSuffice`
    `RereadsAgree` (`RereadAgrees`), `LinearFilesReadBack` (`OldFilesReadBack`)
    and `InfoIsAlwaysRight` (`InfoIsRight`: the number of messages for every
    image, the time range where they are read in the order of their stamps).
    `FinishedFilesKeepAll` is about the process that wrote the file, which may end
    in any way, and not about the machine.
  * `IdsSuffice` says that fewer schemas and fewer channels were declared than
    there are ids, so that no u16 has wrapped. The code does not check this; in
    a recording with wrapped ids a record is bound to the wrong channel, which
    is one of the hazards.
  * The invariant `RecordingInv` has three parts. `WriterInv` is that of the
    writer and the recorder, and that the ids in the declarations lead back to
    the names of the caller. `ReadingInv` is about the reader: its image is the
    first *n* cells of the file, none of the flushed ones missing; its index is
    the footer's or what a scan has filled in; and every answer is one of those
    a read of this image can give (`Answers`). `OldInv` says that the image of
    an old recording is a prefix of a linear file.
  * Between the shape of the file and the answers is one description of what
    each way to read makes of the first *n* cells: a scan takes the chunks
    before the first one it cannot read (`ScannedBy`), a footer has a prefix of
    `chunk_index`, and a chunk that passes its checks has the messages that were
    handed to `write`.
  * The scan and the linear reader are recursive functions. What one of them
    returns is not known to the prover until the function is known to exist:
    `RecursionExists` (in `Dcap_proofs`) proves that a function defined by
    descent on a rank does, from the union of its approximations, so that the
    definition can be unfolded. The inductions are least counterexamples of sets
    of natural numbers, as everywhere in these proofs.
* `BagSource_proofs`, the player:
  * `JoinedIsSorted`: chunks that are sorted pieces of a recording, one behind
    the other, and do not overlap in time are its stable sort cut into pieces.
    It follows from uniqueness of the stable sort.
  * `Invariance == Spec => []Inv`. `Inv` says that the disk, the index and the
    tables of starts do not change and are pieces of the recording
    (`RecordingInv`); that the chunk in memory is a readable one and a copy of
    what the disk has under its number, and that `all` is the sort of what is
    readable (`MemoryInv`); that the anchor and the clock are set together
    (`ClockInv`); that a message just delivered was due (`ReadyInv`); and that a
    move has put the anchor on the message at the head or behind it
    (`MovedInv`).
  * From it `PlayerTypes == Spec => []TypeOK`,
    `NowIsNeverBehind == Spec => []NowKeepsUp`,
    `NoWaitAfterMove == ASSUME InOrder PROVE Spec => []MovesAreImmediate` and
    the refinement of `PlaybackTimeline`,
    `PlayerFollowsTimeline == ASSUME InOrder PROVE Spec => FollowsTimeline`, which
    also ties every call to its own argument (`CallsImplement`: the binary search
    by `end_stamp`, and the place within the chunk it finds, are the place behind
    all the earlier messages of the whole time line).
    `InOrder` says that chunks do not overlap in time, which is what the player
    is written for, and what the format promises (see `lio_time` in section 3
    for recordings where it fails); the first two need no such hypothesis.
    Rounding enters in `NowIsNeverBehind` only: the property allows the half
    unit that `Due` may round away, and the half unit `now()` does.
* `BagSource_proofs`, the data source:
  * `SourceImplementsFrames == BagSpec => GivesEveryFrame`: the refinement of
    `FrameSource`, for recordings in any order, any unreadable chunks, rates,
    loops and elapsed times. `SourceInv` adds to the invariant of the player
    that nobody calls its `messages()`, that the head stays within what is
    played, and that an end that was said is the end. `TurnGives` says what one
    turn of the loop does to the frames before the head.
  * `PlayedFramesInOrder`: if the frames of a recording were written in the
    order of their times, what is played has them in that order, all of them or
    the first ones, although poses written late make the chunks overlap. Chunks
    sorted one by one are a rearrangement of the recording (`JoinedRearranged`),
    and `OnlyOfRearranged` does the rest.
* `SensorMessages_proofs`, for clouds of any number of points, any number of
  nanoseconds in a second and any of the stamps and damages:
  * `FramesSurvive == Spec => []FrameSurvives`,
    `EveryDamageIsNoticed == Spec => []DamageIsNoticed` and
    `StampsAlwaysAgree == Spec => []StampsAgree`, from one invariant, for any
    number of parts of a nanosecond and any `Mantissa`. `SensorInv`
    says that a payload is the bytes of its frame as far as it goes, that its
    length alone tells whether it is damaged, and that it is decoded to the
    frame with its stamp rounded, or to nothing if it is damaged.
  * `Holds` compares a buffer with the bytes of a message cell by cell, as far
    as the buffer goes, and `Reads` says of a part of the decoder that it
    returns these values and moves the cursor behind them, or fails where the
    buffer ends before. Each part of the decoder is such a `Reads`: a
    fixed-width field, a text, an array, a list of fields (`ReadFieldsReads`), a
    counted list of groups (`EachReads`), a message (`DecodeReads`). So one
    argument covers whole and cut payloads.
  * The points of a cloud are found by `offset` and `point_step`: the columns of
    both tables are packed (`Packed`), so the value of a column stands where
    the columns before it end (`Placed`, `CloudIsPlaced`).
  * The stamps agree because whole seconds and the rounded rest, which may be a
    full second, are the rounded time (`TimeIsRounded`), and because the product
    is no further from the time than half the distance of its neighbours
    (`GrainIs`, `ProductIsNear`).
* `LioRecorder_proofs`:
  * `TypeCorrect == Spec => []TypeOK`.
  * `RecordingImplemented == Spec => KeepsOrder`: the refinement of
    `MappedRecording`. `KeepsOrder` is not inductive; the invariant ties the
    path of a frame together: numbers increase along the tape's sensor entries
    and end at `pushed`; what was sent, is in the channel, in the worker's
    hands or mapped is on the tape; poses increase along the tape, then the
    channel, then `posed`. With it each owner step is a step of
    `MappedRecording` or a stutter, and the worker's steps are stutters.
  * `StopsPromptly == Spec => []StopIsPrompt`: the strengthening is that a
    frame is taken late only by a worker that is no longer before `recv`, and
    that the flag stays set, so the worker ends at its next look at it.
  * `PosesAreKept == Spec => []NoPoseLost`: poses are counted (`LostInv`: given
    minus waiting minus exported is at most the number of failures), and while
    nothing failed those exported are those on the tape, in order (`ExportInv`,
    from the order invariant of the refinement).
  * `FinishedIsComplete == Spec => []FinishIsComplete`: after the join the
    channel can only become shorter, and the drain before the footer has seen
    it empty (`DoneInv`); frames sent are those mapped followed by those in the
    channel, so a worker that ended unasked has mapped all (`FramesInv`). The
    map is there exactly when a worker that ended on its own was joined
    (`MapInv`), so a `finish` with `Ok` and no map is one after a panic.
* `LiveRecording_proofs`:
  * `MapIsThere == LiveSpec => []ExportHasMap` and
    `EndsPromptly == LiveSpec => []StopsAtOnce`, from one invariant. It says
    for each place the main thread can be at what its call, the worker's handle
    and the map are: `finish` joins the worker and holds the map before it can
    return `Ok`. And a frame taken after the end was told is the last one: the
    way back to the source leads past the deadline and the flag, and neither is
    ever reset.
  * `ProgramKeepsOrder == LiveSpec => Spec /\ KeepsOrder`: every step of the
    program is a step of `LioRecorder` or a stutter of it, so the refinement
    proved there carries over.
  * `SuccessMeansComplete == LiveSpec => []SuccessIsComplete`. As long as no
    call has returned `Err` nothing has failed (`WellInv`): the tape has the
    frames `1..total`, the poses given are those exported followed by those in
    the channel, and, because in the loop the sender is open and the flag unset,
    every frame was sent. `finish` with `Ok` leaves a footer behind everything,
    an empty channel and a worker that is done (`FinishedInv`), and nothing
    changes that before the program ends.
* `Bake_proofs` joins the two sides of `bake`:
  `BakedKeepsFrames == BakeSpec => []BakeKeepsFrames`,
  `BakedIsMapped == BakeSpec => []BakeMapsAll` and
  `BakeKeepsOrder == BakeSpec => Spec /\ KeepsOrder`.
  The data source inside `Bake` is an instance of `BagSource`, and
  `BagSource_proofs` is instantiated for it, so that its lemmas are used and not
  repeated. The invariant `BakeInv` says that what was pushed are the first of
  the frames that the source can give, and all of them once it is over
  (`FedInv`), where `bake` is and what it has called (`PlaceInv`), and, as for
  the live program, what holds while nothing has failed and after `finish`
  (`WellInv`, `FinishedInv`). `BakeKeepsFrames` is about inputs whose sensor
  frames were recorded in the order of their times (`SortedInput`); poses may be
  anywhere in them. For other inputs the player reorders by design.

Each of these inductive invariants also holds on the instances of section 3 when
TLC checks it there as an invariant (those of `Recorder` and `Recording` with two
messages, and `SensorInv` without `payload \in Seq(Byte)`, whose bytes of text TLC
cannot compare with those of numbers).

**Only model-checked:**

* Liveness, and everything with `ENABLED`: `PlaysOut`, `SourceAnswers`,
  `EndIsReached`, `BakeEnds`, `CallsReturn`, `EndsWhenTold`.
* The four properties that are violated.

## 5. What is not modelled

* Files damaged in ways neither a crash nor a failing `write_all` does, except
  that the player may find any chunk unreadable.
* Bytes inside a cell: the container's field encoding, deflate, crc32 (taken to
  be free of collisions), and 32-bit sizes.
* The mapper (`fast_lio`), drivers and simulation: external; the mapper is any
  function that answers lidar frames in their order, or panics.
* `record_source`: the calls of `Recorder` in a row, without a decision of its
  own. The commands `play` and `selftest`, argument parsing, the listings of
  `info`, JSON, progress output: formatting and sequential calls.
* `gen_golden.rs`, `glue_demo.rs`: samples that call the modelled parts once.
* The file formats of an exported map or trajectory.
* A loss of power or a crash of the machine. `finish` flushes a `BufWriter` and
  does not sync the file (singlefile.rs:369-370), so even a finished recording may
  then lose any part of it; what is left is a matter of the file system.
* NaN and negative rates and stamps, and the rounding of `f64` in the player and
  in `sec_nsec`, beyond the explicit `round`s and casts. (The player's differences
  are small numbers; the product of the scheduling stamp is modelled.)

## 6. Plan

Done, in this order: the writer; its composition with a reader and crashes;
the player and its time line; recording while mapping and its refinement; the
program around it; the codec and the conversion; the recorder's tables; the
linear format; unreadable chunks in the player; the bag as a source and
`bake`; proofs of everything that is checked of the writer, the recorder,
`LioRecorder`, the player, the bag as a source, both programs, reading, the codec
and the conversion, except liveness.

Left:

1. `LioRecorder` over the real writer instead of its summary, so that
   `FinishIsComplete` reaches the bytes in the file; the two state spaces
   multiply, so this needs the refinement of the summary by `Recorder` first.

## 7. Running

In this directory, for one run and for one module of proofs:

    tlc -config MCLioRecorder.cfg LioRecorder.tla
    tlapm LioRecorder_proofs.tla
