------------------------------- MODULE Player -------------------------------
(***************************************************************************)
(* Playback of one recording: Player of crates/doracap-core/src/play.rs.   *)
(*                                                                         *)
(* A file with a chunk index is streamed, with one chunk in memory at a    *)
(* time; a file without one is read whole and sorted when it is opened,    *)
(* and messages() turns the first into the second at any moment.  A        *)
(* message is due when as much time has passed since the anchor as lies    *)
(* between its stamp and the anchor's, divided by the rate; every move of  *)
(* the play head and every change of the rate sets a new anchor.           *)
(*                                                                         *)
(* Positions count from 0 and chunks from 1.  A rate is a fraction <<n, d>>.*)
(* start (an Instant) is kept as the time elapsed since then.              *)
(***************************************************************************)
EXTENDS Dcap

CONSTANTS
  None,
  Stamps,        \* the stamps messages may have
  MaxMessages,   \* bound: the messages of a recording
  ChunkSizes,    \* how many messages a chunk may have
  InOrder,       \* TRUE: recordings whose chunks do not overlap in time
  Indexed,       \* whether the reader may have a chunk index, a set of BOOLEANs
  Damage,        \* the chunks that may be unreadable
  OpenRates, Loops,  \* the options a player may be opened with
  Rates,         \* the rates a caller may set
  SeekTargets,   \* the times a caller may seek to
  Ratios,        \* the fractions of seek_ratio
  MaxElapsed     \* bound: from then on, every message is due

\* Broken on purpose: the rate multiplies the distance.
DueTimesRate(delta, r) == IF delta <= 0 THEN 0 ELSE (delta * r[1]) \div r[2]

\* The distance of two stamps at the rate, rounded; 0 when it is negative.
Due(delta, r) == IF delta <= 0 THEN 0
                 ELSE (2 * delta * r[2] + r[1]) \div (2 * r[1])

Message == [id : 1..MaxMessages, stamp : Stamps]

\* None is Option::None; a ratio has been clamped.
ASSUME PlayerAssumption ==
  /\ Stamps \subseteq Nat /\ MaxMessages \in Nat
  /\ ChunkSizes \subseteq Nat \ {0}
  /\ None \notin Nat /\ None \notin Message /\ None \notin Seq(Message)
  /\ None \notin [chunk : Nat, msgs : Seq(Message)]
  /\ Indexed \subseteq BOOLEAN /\ Loops \subseteq BOOLEAN
  /\ SeekTargets \subseteq Nat /\ MaxElapsed \in Nat
  /\ \A q \in Ratios : q[2] \in Nat \ {0} /\ q[1] \in 0..q[2]
  /\ \A r \in OpenRates \cup Rates :
       /\ r[1] \in Nat /\ r[2] \in Nat \ {0}
       /\ \A s, t \in Stamps : r[1] > 0 => Due(s - t, r) <= MaxElapsed

VARIABLES
  tape,          \* the recording in the order of the write calls
  disk,          \* its chunks, in the file
  damaged,       \* those that read_chunk_at cannot read
  chunks,        \* the chunk index: start_stamp and end_stamp of each chunk
  chunk_starts, total,
  rate, loop_,   \* options
  all, loaded, pos,
  elapsed,       \* the time since start, or None
  first_ts,
  answer,        \* what the last call returned
  \* history
  last           \* the message delivered last

recording == <<tape, disk, damaged, chunks, chunk_starts, total>>
vars == <<recording, rate, loop_, all, loaded, pos, elapsed, first_ts, answer,
          last>>

------------------------------------------------------------------------------
(* Recordings *)

Tapes ==
  {[i \in 1..n |-> [id |-> i, stamp |-> s[i]]] :
     n \in 0..MaxMessages, s \in [1..MaxMessages -> Stamps]}

\* The chunks the writer makes of a recording: sorted pieces.
Pieces(t, size) ==
  [c \in 1..(Len(t) + size - 1) \div size |->
     StableSort(SubSeq(t, (c - 1) * size + 1,
                       IF c * size < Len(t) THEN c * size ELSE Len(t)))]

IndexOf(pieces) ==
  [c \in 1..Len(pieces) |->
     [start_stamp |-> pieces[c][1].stamp,
      end_stamp   |-> pieces[c][Len(pieces[c])].stamp]]

StartsOf(pieces) ==
  LET starts[c \in 1..Len(pieces)] ==
        IF c = 1 THEN 0 ELSE starts[c - 1] + Len(pieces[c - 1])
  IN  starts

ChunksInOrder(index) ==
  \A c \in 1..Len(index) - 1 : index[c].end_stamp <= index[c + 1].start_stamp

------------------------------------------------------------------------------
(* chunk_containing, ensure_loaded, stamp_at, message_at *)

Containing(p) == Cardinality({c \in 1..Len(chunks) : chunk_starts[c] <= p})

\* The chunk in memory after ensure_loaded(c), or None when it fails.
EnsureLoaded(c) ==
  IF loaded # None /\ loaded.chunk = c THEN loaded
  ELSE IF c \in damaged THEN None
  ELSE [chunk |-> c, msgs |-> StableSort(disk[c])]

Streaming == all = None /\ chunks # <<>>

\* What a call that looks at position p leaves in memory.
LoadedFor(p) ==
  IF Streaming /\ EnsureLoaded(Containing(p)) # None
  THEN EnsureLoaded(Containing(p)) ELSE loaded

MessageAt(p) ==
  LET msgs == IF ~Streaming THEN all
              ELSE IF EnsureLoaded(Containing(p)) = None THEN <<>>
              ELSE EnsureLoaded(Containing(p)).msgs
      local == IF Streaming THEN p - chunk_starts[Containing(p)] ELSE p
  IN  IF local < Len(msgs) THEN msgs[local + 1] ELSE None

StampAt(p, default) ==
  IF MessageAt(p) = None THEN default ELSE MessageAt(p).stamp

------------------------------------------------------------------------------
(* open *)

Init ==
  /\ tape \in Tapes
  /\ \E size \in ChunkSizes, indexed \in Indexed :
       LET pieces == Pieces(tape, size)
       IN  /\ disk = pieces
           /\ InOrder => ChunksInOrder(IndexOf(pieces))
           /\ chunks = IF indexed THEN IndexOf(pieces) ELSE <<>>
           /\ chunk_starts = IF indexed THEN StartsOf(pieces) ELSE <<>>
  \* Without an index, read_all reads everything or open fails.
  /\ damaged \in SUBSET (Damage \cap 1..Len(chunks))
  /\ all = IF chunks = <<>> THEN StableSort(tape) ELSE None
  /\ total = Len(tape)
  /\ rate \in OpenRates /\ loop_ \in Loops
  /\ loaded = None /\ pos = 0 /\ elapsed = None /\ first_ts = None
  /\ answer = "none" /\ last = None

------------------------------------------------------------------------------
(* next_message, try_next *)

AtEnd == total = 0 \/ (pos >= total /\ ~loop_)

\* Broken on purpose: the end of a loop is noticed one message late.
WrapsLate == pos > total /\ loop_

\* seek_to_start at the end of a loop, then init_time.
Wraps == pos >= total /\ loop_
Head0 == IF Wraps THEN 0 ELSE pos
Anchors == Wraps \/ elapsed = None
ElapsedNow == IF Anchors THEN 0 ELSE elapsed
FirstTs == IF Anchors THEN StampAt(Head0, 0) ELSE first_ts

\* due_for: how long after start the message at the head is due.
DueIn == IF rate[1] = 0 THEN 0 ELSE Due(StampAt(Head0, 0) - FirstTs, rate)

End ==
  /\ AtEnd
  /\ answer' = "end"
  /\ UNCHANGED <<recording, rate, loop_, all, loaded, pos, elapsed, first_ts,
                 last>>

\* The chunk at the head cannot be read: None, or End, from now on.
Fails ==
  /\ ~AtEnd
  /\ MessageAt(Head0) = None
  /\ pos' = Head0 /\ elapsed' = ElapsedNow /\ first_ts' = FirstTs
  /\ answer' = "end"
  /\ UNCHANGED <<recording, rate, loop_, all, loaded, last>>

\* Broken on purpose: the head is not taken back to the start of a loop.
ReturnedOnward(e) ==
  /\ ~AtEnd
  /\ MessageAt(Head0) # None
  /\ DueIn <= e
  /\ pos' = pos + 1 /\ elapsed' = e /\ first_ts' = FirstTs
  /\ loaded' = LoadedFor(Head0)
  /\ answer' = "ready" /\ last' = MessageAt(Head0)
  /\ UNCHANGED <<recording, rate, loop_, all>>

\* The message at the head is returned at time e.
Returned(e) ==
  /\ ~AtEnd
  /\ MessageAt(Head0) # None
  /\ DueIn <= e
  /\ pos' = Head0 + 1 /\ elapsed' = e /\ first_ts' = FirstTs
  /\ loaded' = LoadedFor(Head0)
  /\ answer' = "ready" /\ last' = MessageAt(Head0)
  /\ UNCHANGED <<recording, rate, loop_, all>>

\* Broken on purpose: each poll that comes too early sets the anchor anew.
NotYetAnchored ==
  /\ ~AtEnd
  /\ MessageAt(Head0) # None
  /\ DueIn > ElapsedNow
  /\ pos' = Head0 /\ elapsed' = 0 /\ first_ts' = FirstTs
  /\ loaded' = LoadedFor(Head0)
  /\ answer' = "wait"
  /\ UNCHANGED <<recording, rate, loop_, all, last>>

NotYet ==
  /\ ~AtEnd
  /\ MessageAt(Head0) # None
  /\ DueIn > ElapsedNow
  /\ pos' = Head0 /\ elapsed' = ElapsedNow /\ first_ts' = FirstTs
  /\ loaded' = LoadedFor(Head0)
  /\ answer' = "wait"
  /\ UNCHANGED <<recording, rate, loop_, all, last>>

TryNext == End \/ Fails \/ Returned(ElapsedNow) \/ NotYet

\* next_message sleeps, at least until the message is due.
Sleeps ==
  /\ DueIn > ElapsedNow
  /\ \E e \in DueIn..MaxElapsed : Returned(e)

NextMessage == End \/ Fails \/ Returned(ElapsedNow) \/ Sleeps

------------------------------------------------------------------------------
(* seek, seek_ratio, set_rate, seek_to_start, messages *)

Anchor(p, default) ==
  /\ first_ts' = StampAt(p, default)
  /\ elapsed' = 0
  /\ loaded' = LoadedFor(p)
  /\ answer' = "moved"

\* ordinal_for_stamp, or total when it fails.
Ordinals(t) ==
  IF ~Streaming THEN PartitionPoints(all, LAMBDA m : m.stamp < t)
  ELSE IF chunks[Len(chunks)].end_stamp < t THEN {total}
  ELSE UNION {LET c == IF n < Len(chunks) THEN n + 1 ELSE Len(chunks)
              IN  IF EnsureLoaded(c) = None THEN {total}
                  ELSE {chunk_starts[c] + k :
                          k \in PartitionPoints(EnsureLoaded(c).msgs,
                                                LAMBDA m : m.stamp < t)} :
              n \in PartitionPoints(chunks, LAMBDA c : c.end_stamp < t)}

\* Broken on purpose: a message with the stamp of the target is passed over.
SeekBehind(t) ==
  \E ord \in Ordinals(t + 1) :
    LET p == IF ord < total THEN ord ELSE total
    IN  /\ pos' = p
        /\ Anchor(p, t)
        /\ UNCHANGED <<recording, rate, loop_, all, last>>

Seek(t) ==
  \E ord \in Ordinals(t) :
    LET p == IF ord < total THEN ord ELSE total
    IN  /\ pos' = p
        /\ Anchor(p, t)
        /\ UNCHANGED <<recording, rate, loop_, all, last>>

FirstStamp == IF Streaming THEN chunks[1].start_stamp
              ELSE IF all = <<>> THEN 0 ELSE all[1].stamp
LastStamp == IF Streaming THEN chunks[Len(chunks)].end_stamp
             ELSE IF all = <<>> THEN 0 ELSE all[Len(all)].stamp

\* saturating_sub; the cast to u64 rounds down.
RatioTarget(q) ==
  LET span == IF LastStamp < FirstStamp THEN 0 ELSE LastStamp - FirstStamp
  IN  FirstStamp + (span * q[1]) \div q[2]

SeekRatio(q) == Seek(RatioTarget(q))

\* Broken on purpose: the new rate is taken from the old anchor.
SetRateOnly(r) ==
  /\ rate' = r
  /\ answer' = "moved"
  /\ elapsed' = IF elapsed = None THEN 0 ELSE elapsed
  /\ first_ts' = IF first_ts = None THEN StampAt(pos, 0) ELSE first_ts
  /\ UNCHANGED <<recording, loop_, all, loaded, pos, last>>

SetRate(r) ==
  /\ rate' = r
  /\ Anchor(pos, IF first_ts = None THEN 0 ELSE first_ts)
  /\ UNCHANGED <<recording, loop_, all, pos, last>>

SeekToStart ==
  /\ pos' = 0
  /\ Anchor(0, 0)
  /\ UNCHANGED <<recording, rate, loop_, all, last>>

\* The chunks that can be read, one after the other.
Readable ==
  LET upto[c \in 0..Len(disk)] ==
        IF c = 0 THEN <<>>
        ELSE IF c \in damaged THEN upto[c - 1] ELSE upto[c - 1] \o disk[c]
  IN  upto[Len(disk)]

Messages ==
  /\ all = None
  /\ all' = StableSort(Readable)
  /\ loaded' = None
  /\ UNCHANGED <<recording, rate, loop_, pos, elapsed, first_ts, answer, last>>

Tick ==
  /\ elapsed # None /\ elapsed < MaxElapsed
  /\ elapsed' = elapsed + 1
  /\ UNCHANGED <<recording, rate, loop_, all, loaded, pos, first_ts, answer,
                 last>>

Play == NextMessage \/ TryNext \/ Tick

Next ==
  \/ Play
  \/ \E t \in SeekTargets : Seek(t)
  \/ \E q \in Ratios : SeekRatio(q)
  \/ \E r \in Rates : SetRate(r)
  \/ SeekToStart
  \/ Messages

Spec == Init /\ [][Next]_vars

\* A player is polled until the end, and time passes.
PollingSpec == Spec /\ WF_vars(TryNext) /\ WF_vars(Tick)

------------------------------------------------------------------------------
(* now *)

Rounded(a, b) == (2 * a + b) \div (2 * b)

Now ==
  IF rate[1] = 0 \/ elapsed = None
  THEN IF first_ts = None THEN 0 ELSE first_ts
  ELSE first_ts + Rounded(elapsed * rate[1], rate[2])

------------------------------------------------------------------------------
(* Properties *)

Loaded == [chunk : 1..Len(chunks), msgs : Seq(Message)]

TypeOK ==
  /\ \A i \in 1..Len(tape) : tape[i] \in Message
  /\ total = Len(tape)
  /\ Len(chunk_starts) = Len(chunks)
  /\ damaged \subseteq 1..Len(chunks)
  /\ rate \in OpenRates \cup Rates /\ loop_ \in Loops
  /\ all = None \/ all \in Seq(Message)
  /\ loaded = None \/ loaded \in Loaded
  /\ pos \in 0..total
  /\ elapsed \in (0..MaxElapsed) \cup {None}
  /\ first_ts \in Nat \cup {None}
  /\ answer \in {"none", "moved", "ready", "wait", "end"}
  /\ last \in Message \cup {None}

Timeline == INSTANCE PlaybackTimeline
  WITH timeline <- StableSort(tape), holes <- damaged # {}, looping <- loop_,
       head <- pos, Targets <- SeekTargets

\* messages() has left out the chunks that cannot be read and moved the others
\* up under the play head.
HolesClosed == all # None /\ damaged # {}

\* What each call may do on the time line, with the argument it was given.
CallsAreObeyed ==
  /\ NextMessage => Timeline!Await
  /\ TryNext => Timeline!Ask
  /\ \A t \in SeekTargets : Seek(t) => Timeline!SeekTo(t)
  /\ \A q \in Ratios : SeekRatio(q) => Timeline!SeekRatio(q)
  /\ SeekToStart => Timeline!SeekToStart
  /\ (\E r \in Rates : SetRate(r)) \/ Messages \/ Tick => Timeline!Stay

\* A streamed player, one that was read whole and one that changes from the
\* first to the second in the middle all play the same time line, whatever
\* chunk is in memory: every message once and in order, each seek to the first
\* message not earlier than its own target or fraction, and next_message never
\* without a message while there is one (next_message, try_next, seek,
\* seek_ratio, seek_to_start, set_rate, messages).  Chunks that cannot be read
\* are the end of it, and no reason to deliver a message of another chunk; only
\* a player that materialised without them has left the time line.
FollowsTimeline ==
  /\ Timeline!Init
  /\ [][Timeline!Next \/ HolesClosed]_<<tape, damaged, loop_, pos, last>>
  /\ [][CallsAreObeyed \/ HolesClosed]_vars

\* After a seek or a change of the rate the message at the head is due at
\* once: neither the time that passed before nor the old rate delays it (seek,
\* set_rate, seek_to_start).
MovesAreImmediate ==
  answer = "moved" /\ ~AtEnd /\ ~Wraps /\ ~HolesClosed => DueIn <= elapsed

\* The simulated time is never behind the message just delivered, up to the
\* rounding of the two computations: a caller that shows now() with the message
\* shows no message of the future.
NowKeepsUp ==
  answer = "ready" /\ rate[1] > 0 =>
    2 * rate[2] * Now + rate[1] + rate[2] >= 2 * rate[2] * last.stamp

\* Left to play, a player delivers its last message and says End, and one that
\* loops comes round to its first message again and again, unless a chunk that
\* cannot be read ends it for good (next_message, try_next).
PlaysOut ==
  (<>[][Play]_vars) /\ ([]~HolesClosed) =>
    /\ ~loop_ => <>[](answer = "end" /\ (pos = total \/ damaged # {}))
    /\ loop_ /\ total > 0 /\ damaged = {} => []<>(answer = "ready" /\ pos = 1)
    /\ loop_ /\ damaged # {} => <>[](answer = "end")

\* Playing in a loop, the simulated time is monotone:
\* docs/doracap-format.md:399.
LoopKeepsTime ==
  [][Play /\ rate[1] > 0 /\ elapsed # None => Now' >= Now]_vars
==============================================================================
