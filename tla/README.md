# gstreamer-pravega in TLA+

Pravega video streams as gstreamer-pravega captures, writes, truncates, plays
and serves them, and the recovery of pipelines that fail: what is modelled, what
TLC checks on small instances, what TLAPS proves for every instance, and what is
left out.

Paths below are relative to the repository; `pravegasink` stands for
`gst-plugin-pravega/src/pravegasink/imp.rs` and `index.rs` for
`pravega-video/src/index.rs`.

- [The system](#the-system)
- [The modules](#the-modules)
- [PravegaSink](#pravegasink)
- [IndexSearcher and Retention](#indexsearcher-and-retention)
- [Viewers](#viewers)
- [FailureRecovery](#failurerecovery)
- [Capture](#capture)
- [The runs](#the-runs)
- [What the code does otherwise than it says](#what-the-code-does-otherwise-than-it-says)
- [The proofs](#the-proofs)
- [What is not modelled, and the plan](#what-is-not-modelled-and-the-plan)
- [Running it](#running-it)

## The system

A video is kept in two Pravega byte streams. The **data stream** holds events:
a header (timestamp, flags) and a part of a GStreamer buffer. The **index
stream** holds records of fixed size: a timestamp, an offset into the data
stream, and the flags *random access* and *discontinuity*. Several processes
work on the two streams at once and coordinate only through them:

```
 camera -> timestampcvt -> fragmp4pay -> pravegasink -----> data + index streams
                                           |  retention thread --truncate--^
                                           pravega-tools truncate-stream --^
 player <- pravegasrc <-- read, seek --------------------------------------+
 browser <- pravega-video-server (HLS) <-- read, list ---------------------+
 element -> pravegatc (transaction coordinator) <-> a Pravega table
 deepstream -> pravega_protocol_adapter -> event streams
```

| component | state it keeps | operations | what is hard | what makes it correct |
|---|---|---|---|---|
| `pravegasink`, writing | settings; counting writer with a BufWriter over a Pravega ByteWriter; index writer; first valid and last index time; final timestamp and offset; whether a buffer was written | `start`, `render`, `stop`, `set_property`; seals on stop | two streams persisted independently; volatile buffers; crash between any two writes; an error of any flush or seal; restarts that append to what an earlier process left | constraints 1-4 of `index.rs`; bounded gaps and lag of the index; marks after a break; a sealed stream is complete |
| `pravegasink`, `RetentionMaintainer` | a thread, a channel, index and data writers, a searcher | two passes by age and by size, then a wait for the interval or for the message of `stop` | concurrent with the writer, with readers and with other truncating processes; two truncations that are not atomic; panics | never truncates data that an index record points to; deletes only what the policy says; `stop` returns |
| `pravega-tools truncate-stream` | none | search, truncate index, truncate data | concurrent with all the others | as above |
| `IndexSearcher` (`index.rs`) | a reader with its position | search by timestamp and by size | head, tail and records are read one at a time from a stream that grows and shrinks | finds the nearest record on the requested side; ends |
| event and index encoding (`event_serde.rs`, `index.rs`) | none | write, read | timestamp 0; reserved bits; panics on write errors | what one side writes the other reads |
| `pravegasrc` | a counting reader over a BufReader over a reader with a limit; index searcher; segment; start and end mode | `start`, `do_seek`, `query`, `create`, `stop`; a blocking read at the tail | truncation between locating a record and reading at it; `create` holds the reader while it blocks; three threads, two mutexes | no event is skipped or repeated; a seek ends at the last record at or before the requested time; the end of the stream is announced only there |
| `pravega-video-player` | the slider | buttons, slider, timer, messages | shows a range that changes under it; moving the slider is itself an event that seeks | the slider stays in a range that exists |
| longevity test | previous timestamp and counters | a probe on each buffer | a stream that begins anew | warns of what is in the stream and of nothing else |
| `pravega-video-server` | none between requests | playlist, media segment, lists | a stream truncated between the searches for a playlist, and between playlist and segment | playlists cover their range, agree with each other, end when they say so; segments are whole |
| `pravegatc` | a row of a Pravega table: resume position and failure count | `start`, `sink_chain`, `change_state`, `stop` | crash between processing and recording; writes of the table that fail or only seem to; the same failure again and again | no frame is lost by resuming; little is repeated; defects are eventually skipped |
| `pravega_protocol_adapter` | per connection, a pool of event writers and a task for each message | `connect`, `disconnect`, `send`, `send_async` | tasks that look for the same writer while it is made; panics; a connection closed under them | one writer per stream; what is reported is durable |
| `timestampcvt` | previous input and output, offset | `sink_chain` | equal, decreasing, missing and inconvertible timestamps | output never goes back, and is true whenever it can be |
| `fragmp4pay` | parser buffer; the last ftyp, moov and moof; times and flags of the fragment | `sink_chain` | atoms cut across buffers; metadata gathered over many | each output is a whole fragment; what is indexed can be decoded from there |
| `PravegaTimestamp` | none | conversions, saturating and checked arithmetic | epochs, 64-bit limits, *none* | round trips; no wrap |

The remaining programs (RTSP simulator and server, retention checker, Python
pipelines, deployment) configure GStreamer or exercise the parts above.

## The modules

| module | models |
|---|---|
| `VideoStream` | the abstract promise: what the two streams together are to their readers |
| `PravegaSink` | the writing half of `pravegasink`, refining `VideoStream` |
| `IndexSearcher` | the two binary searches of `index.rs`, as functions of one read each |
| `Retention` | the retention thread and `truncate-stream`, each with a search, beside the writer; refines `VideoStream` |
| `LiveStream` | a stream that is written, truncated and sealed while it is read: `VideoStream` with its data divided into timed events, and each record where it divides them by time |
| `VideoReader` | the abstract promise of a reader: each event once, in order, until somebody seeks |
| `PravegaSrc` | `pravegasrc`, refining `VideoReader` |
| `VideoPlayer`, `StreamChecker` | the video player and the longevity test, around `PravegaSrc` |
| `VideoServer` | the HLS server and its browser |
| `Viewers` | the four users of a stream beside `LiveStream` |
| `PravegaTC` | `pravegatc`, with the pipeline that is restarted around it |
| `ProtocolAdapter` | the message broker adapter, its tasks and locks |
| `FailureRecovery` | `PravegaTC` composed with `ProtocolAdapter` |
| `TimestampCvt`, `FragMp4Pay` | the two elements before `pravegasink` |
| `Capture` | the two with mp4mux between them |
| `MCPravegaSink`, `MCRetention`, `MCViewers`, `MCFailureRecovery`, `MCCapture` | small instances for TLC |
| `VideoStreamProofs`, `IndexSearcherProofs`, `RetentionProofs`, `PravegaSinkProofs`, `ViewersProofs`, `VideoServerProofs`, `CaptureProofs`, `FailureRecoveryProofs` | theorems and their proofs; `ViewersProofs` has those of the source, the player and the checker |

`VideoStream` is the hinge. Its state is what the server has: the head and the
tail of the data stream, the index ever published and how much of it was
truncated. Its four actions are the only ways in which the state may change:
data is appended; a record is published *after* the data up to its offset and
not behind an earlier record; the index is truncated before a record that
remains; the data is truncated, *never past the first record that remains*.
`Readable` - constraint 1 of `index.rs` - `OffsetsOrdered` and `NeverEmptied`
follow from these (proved). The writer's model refines `VideoStream`;
`Retention` is composed of the truncating processes and of `VideoStream`'s own
writing actions, so that it runs beside anything the writer may do. The viewers
run beside `LiveStream`, whose steps are `VideoStream`'s too, with something
assumed of the timestamps that `VideoStream` does not speak of: each record
divides the events by time and follows the one before. `RecordsBracketHolds`
shows this of the sink's index, for buffers that follow each other in time, but
`PravegaSink` and `LiveStream` are not joined by a refinement: they count
offsets and events differently, and that the one is as the other assumes is seen
by reading the two. With buffers that go back in time nothing is shown of the
viewers.

Definitions keep the names of the code where they can; `PROJECT.json` maps each
to its lines. In each module, definitions called *wrong versions* come before
the operator they would replace; each is a plausible mistake, and a property of
a run refutes it.

## PravegaSink

**State.** `events` and `records` are the two streams as the element has
written them. `submitted` events have left the BufWriter, `durable` ones are on
the server; likewise `published` records (the index writer has no BufWriter).
Everything past `durable` and `published` is lost in a crash. `sealed`,
`settings`; `pc` and `buffer` tell where the element is in `render` or `stop`;
the rest are the fields of `State::Started` under the names of the code. The
fields `session` and `final` of events and records exist for the properties
only.

**Actions.** A call that waits for the server is cut at the wait, since
persistence, errors and crashes may come between:

| code | actions |
|---|---|
| `start` | `Start`, `StartRejected` (index-min above index-max), `StartWhenStarted` (`unreachable!`) |
| `set_property` of a stopped element | `SetProperty` |
| `render` up to the flush of data and index before a record | `Render` |
| flushes fail / the record is written / is rejected (timestamp 0) / panics | `FlushFails`, `WriteRecord`, `RecordRejected`, `RecordPanics` |
| the events of the buffer, with and without SYNC_AFTER | `WriteBuffer`, `WriteBufferToSync`, `Synced`, `EventPanics` |
| `stop` | `Stop`, `WriteFinalRecord`, `Stopped`, `StoppedToSeal`, `SealData`, `SealIndex`, `StopFails` |
| the server; an element freed after an error; the end of the process | `PersistEvent`, `PersistRecord`; `DropWriter`; `Crash` |

`Render` evaluates the conditions of the code: whether the buffer is indexed
(`IncludeInIndex`: key frames unless the last record is more recent than
index-min; delta frames if nothing was indexed for index-max, counted from the
first valid timestamp before the first record) and whether it is marked as a
discontinuity (`Discontinuity`: upstream says so, the first buffer of the
session, the first record of the session). An error of `render` makes the
pipeline stop the element; an error of `stop` leaves `State::Started` behind,
and GStreamer may start the element again nevertheless. A panic is different:
GStreamer's Rust wrapper never calls the element again.

**Abstraction.** An offset is a number of events: the element reads its
counting writer only between events. A buffer is its flags, its duration and
the number of events its payload takes (8 MiB each). Timestamps are small
numbers, or `None`, which is below all of them as it is in `PravegaTimestamp`.
Appends that a dead session left in flight are settled before the next session
writes, as Pravega's writers do by their handshake.

**Properties** (and what could go wrong):

- `ImplementsVideoStream`, `RecordsReadable` - the refinement, and constraint 1
  by itself. The record is written *before* its buffer, and both streams lag;
  only the flush before the record keeps the promise.
- `RecordsBracketEvents` - constraint 2 and the order of timestamps over all
  sessions: each record is later than the one before, except that the first of a
  session may have the time of the final record before it. It depends on the
  final record of `stop`, and on its duration of at least one nanosecond.
- `ContinuousBetweenRenderedRecords` - constraint 4, except across final
  records, where the code breaks it (see the findings).
- `SessionsBeginMarked` - the first event after a crash or a restart is marked,
  also if the crash cut a buffer of several events in half.
- `IndexGapsBounded` - while the element runs, never more than index-max passes
  without a record, even from an encoder that marks no key frames.
- `IndexLagBounded` - a crash loses at most the last record (two after the
  final record), as the index is flushed before each.
- `SealedStreamIsComplete` - nothing is missing from a sealed stream and the
  index reaches to its end.
- `StartFindsStopped` - the `unreachable!` of `start`; violated.

## IndexSearcher and Retention

`IndexSearcher` has no variables. A search is a record with the loop's state,
and each `Read...` operator is one read of the index stream at the moment it
is made: head and tail, the last record, the first, the middle ones, the end.
`search_timestamp_and_return_index_offset` and
`search_size_and_return_index_offset` are one loop here, as they differ only in
the comparison and in which end they test first. A read of a truncated record
fails, as in Pravega. A record is named by its number, since records have
fixed size.

`Retention` has the streams of `VideoStream`, the element's life (`sink`:
stopped, started, stopping), and for each truncating process where it is and
its search. The thread runs the pass by age, then the pass by size, then waits
(`IntervalOver`, or `StopThread` on the message). A pass searches with
`SearchMethod::Before`, then truncates the index, then the data
(`TruncateIndexBeforeResult`, `TruncateDataBeforeResult`, two steps). A search
that fails skips the truncation; an error of a truncation is unwrapped and ends
the thread, or the tool (`TruncationPanics`). The thread dies with its process
(`Crash`). `truncate-stream` takes the same steps with any timestamp, at any
time. The age limit is a distance from the wall clock, which may read anything.

**Properties**:

- `StreamSpec`, `Readable`, `NeverEmptied` - any interleaving of truncating
  processes, one of which may act on a result that another has overtaken, and
  wherever one of them ends, keeps to `VideoStream`.
- `DeletesOnlyOld` - what retention by age deletes is entirely older than the
  limit, even when the index moved during the search.
- `KeepsSizeLimit` - retention by size keeps at least the limit and drops all
  it may without going below.
- `DataSizeIsBounded` - the documented promise of the property; violated.
- `SearchFindsNearest` - against the definition `IsNearest`: of the records
  that were there when the search began, the last at or before the value.
- `OrphansAreReclaimed`, `StopReturns`, `SearchEnds` - liveness, below.

## Viewers

**The stream** (`LiveStream`). Events have numbers, increasing timestamps and a
length of two units, so that the durable data, a reader's limit or the end of a
sealed stream may fall into one. A record is of a key frame, of a delta unit at
which `render` forced it, or the final one of `stop`, which has the end of the
data and of the last buffer. Also after a crash that lost the buffer behind a
record, all of them have in common that the events before the offset are earlier
than the record and those behind it are not (`Brackets`); only the first kind is
a random-access point. A record is published when the data before its offset is
durable, and later than the last record, or at the same time if a session has
ended and another begins. The oldest records may be truncated and then data
before the first that remains; the stream may be sealed at any time. In the
code a record has the flag `random_access`; whether it is final is kept for the
properties and the order only.

**`PravegaSrc`.** `phase` tells where the streaming thread and GstBaseSrc are;
`request` is a seek or a stop of the application, which GStreamer lets into the
element only between two calls of `create`, as `unlock` is not implemented;
`reader` keeps the three layers of readers apart by what each believes:
`inner` and `end` of the SeekableTake, `buffered` of the BufReader, `offset` of
the CountingReader.

| code | actions |
|---|---|
| `set_property`; `start` with the search for its end | `SetProperty`; `Start`, `SearchEnd` (panics if the search fails) |
| `do_seek`: locks, search one read at a time, then reader and segment | `BeginSeek`, `SeekHead`, `BeginSearch`, `SearchIndex` |
| `create`, whose `read_exact` is cut into reads of any length | `BeginCreate`, `Fill`, `Deliver`, `EndOfStream`, `ReadFails` |
| `query` for the seekable range, two searches in a row | `BeginQuery`, `ReadQuery`, `AnswerQuery` |
| `stop` | `Stop` |
| the application | `RequestSeek`, `RequestStop`, within `Ask` |

GstBaseSrc is not in the repository. What the model takes from it is when it
calls the element, that it discards what is read while a seek waits, and that a
first seek that fails keeps the element from starting.

**`VideoPlayer`** adds the slider and makes the application a user: everything
in the user interface happens in one thread, which waits for the element, so
that a new request is made only when the last is done (`UIThreadIsFree`). The
timer queries the range and then sets the slider (`Timeout`, `UpdateSlider`,
`NoPosition`); if the position shown has been truncated, the slider moves
without its signal blocked, and that is a seek. **`StreamChecker`** is the
`StreamingBufferValidator` on the source pad (`Probe`, `Recorded`), with the two
times that are options of the program.

**`VideoServer`.** A playlist is two searches (`SearchBegin`,
`SearchEndOfRange`) and then the records between, one by one (`ReadRecord`); its
first number is that of its first record. A segment is read event by event
(`ReadMedia`). Errors are unwrapped: the request ends without an answer. The
browser asks again and again for the playlist, and for segments of the last one
it got. Whether a long time between two records is a gap depends on an average
over the playlist; the model leaves that open above `MaxDuration`.

None of the four changes the stream, so that a behaviour follows one of them.

**Properties**:

- `PlaysEventsInOrder` - `PravegaSrc` implements `VideoReader`, under seeks,
  limits, reads of any length and truncation. It rests on the BufReader being
  dropped by a seek and on `create` not delivering while a seek waits.
- `SeekSkipsNothing` - a seek plays from where a record points to, which is the
  last one at or before the requested time if the index goes back that far, and
  the one that was the first when the search began otherwise; no event of the
  segment behind the begin of the index is left out. It does not say that the
  first event played is not later than what was asked for, nor that it can be
  decoded: the record may be a final one or one at a delta unit.
- `StartsAtRandomAccessPoint` - the documented promise of the start modes;
  violated.
- `EosIsComplete` - the end is announced when no whole event is left before the
  configured end or the end of a sealed stream; never at a tail, never because
  of truncation.
- `RequestsAreServed`, `BoundedPlayEnds` - liveness, below.
- `SliderIsInRange` - though the two ends of the range are searched one after
  the other in an index that is truncated meanwhile, and the position is older
  than both or newer. It depends on the first record being searched first.
- `WarningsAreTrue` - the checker's counters are those of the stream, from where
  it began to play.
- `PlaylistCoversRange` - the data from each record of the range is within the
  playlist, which is made by two searches and a read in a changing index. If the
  range begins where a session has ended and the next begun, the search may find
  either of two records at the same time and offset.
- `EndListIsFinal` - nothing before the end of the range will be indexed after a
  playlist that says it is complete.
- `SequenceNumbersAreStable` - a number that is known means the same segment in
  every later playlist. Between two records at the same time, the first number
  may go back by one, to a segment without data.
- `MediaIsWhole`, `ServerAnswers` - a segment of a truncated stream fails and is
  not shortened; every request ends.

## FailureRecovery

The pipeline of `pravega-to-object-detection-to-pravega.py`: `pravegasrc`, a
decoder, inference, `pravegatc`, and nvmsgbroker with the protocol adapter.
The process is started again whenever it has failed.

**`PravegaTC`.** `table` is the row, as `PersistentState`; `run` is the
pipeline, with the fields of `StartedState` under shorter names (`final` is
`final_resume_at_pts`, `last` is `last_recorded_pts`) and the next frame. Of
`pravegasrc` only what the section above establishes is used: it starts at the
index record at or before the requested time. Only key frames are indexed here;
a stream that is complete also has a final record, to which a long skip may lead
and be past every defect, so that the model has it harder than the code.
`processed` and `skipped` are histories.

| code | actions |
|---|---|
| `start`: read the row, count the attempt, configure `pravegasrc` | `Start`, `StartFails` |
| `sink_chain`: push, then record if due | `Push`, `Pushed`, `PushFails`, `Record`, `RecordFails` |
| what comes before: frames outside the segment, a defect, the end | `Clip`, `DefectFails`, `PipelineFails`, `EndOfStream` |
| `stop` and the application | `Stop`, `StopFails`, `Exit`, `Crash`, `Abort` |

A write to the table that fails may have been done or not. A frame that is
defective fails each time, before it reaches `pravegatc`. Everything else that
fails is bounded by `MaxFailures`.

**`ProtocolAdapter`.** `task[m]` is how far the task of a message has come:
`spawned` (it waits for the pool or for the writer), `creating` (it holds the
pool and creates the stream), `writing` (it holds the writer until the event is
durable), and its result. A stream that cannot be created panics in the task;
`disconnect` frees the client without waiting for tasks, and what they were
writing may become durable or not. `send` differs from `send_async` in who
waits: `sync` says which of the two nvmsgbroker uses.

**Properties**:

- `RecordedIsAccountedFor` - before a recorded position there is no frame that
  was neither processed nor skipped on purpose; with `sync`, processed means
  that its message is in the stream.
- `ReplayIsBounded` - less than `record_period` is repeated after a crash.
- `OneWriterPerStream` - tasks that look for the same writer while it is made do
  not make two.
- `DefectsAreSkipped` - however often the pipeline fails at defects, it comes to
  the end; violated in a sparsely indexed stream.

## Capture

`h264parse ! timestampcvt ! mp4mux ! fragmp4pay ! pravegasink`, of
`rtsp-camera-to-pravega.py` and of the scripts that store files.

**`TimestampCvt`** has the element's three fields and one action for each way
out of `sink_chain`: `DropUntimed`, `Convert`, `Refuse`, `DropOrFail`; and
`SetProperty`. `TrueTime` is the conversion of each mode, with its leap
seconds, its *none* before 1970 and its wrap at 2^64; `Output` the correction.
**`FragMp4Pay`** keeps the chunks in the parser's buffer, which atoms there are,
and the metadata gathered for the fragment; `Chain` is one call of
`sink_chain`. mp4mux is not in the repository: it begins a fragment at each key
frame, perhaps at others, and sends ftyp and moov once, then moof, the header of
mdat and the samples, in a thread of its own (`SendFragment`, `Deliver`).

**Properties**:

- `PushedInOrder` - what `pravegasink` gets does not go back, whatever the
  camera's clock does, as long as the process runs. That is what the density of
  the index rests on (`IndexGapsWhenOrdered`); constraint 2 of the index needs
  more, that a buffer does not begin before the end of the one before, in this
  session or an earlier one, which is the assumption `InOrder` of the run `sink`.
- `TrueUnlessBehind` - a correction never makes a timestamp earlier, and ends as
  soon as the clock has caught up.
- `FragmentIsWhole` - one moof with its own mdat, the times of exactly its
  frames, none lost in between; marked as a key frame, with ftyp and moov, if
  and only if it begins with one.
- `DecreasesAreCorrected` - the documented promise; violated.

## The runs

| run | asks | result |
|---|---|---|
| `sink` | the properties of `PravegaSink` with buffers that follow each other in time; errors of flush and seal, panics, crashes, restarts, sealing | holds |
| `sink_faults` | every record is readable, also when timestamps jump back, buffers are empty, and the flush after SYNC_AFTER fails | holds |
| `sink_continuity` | constraint 4 as written | violated |
| `sink_restart` | `start` finds the element stopped | violated |
| `retention` | safety and liveness of the thread and a concurrent tool | holds |
| `retention_size` | the size limit as documented | violated |
| `viewers` | safety, refinement and liveness of the source, player, checker and server beside a stream that changes | holds |
| `viewers_seek` | a seek begins at a random-access point if the index has one | violated |
| `recovery` | safety and liveness of restarts, with a densely indexed stream | holds |
| `recovery_skip` | `DefectsAreSkipped` with a sparsely indexed stream | violated |
| `capture` | order, truth and wholeness of what reaches `pravegasink` | holds |
| `capture_timestamps` | decreasing timestamps are corrected | violated |

**Bounds.** `sink`: timestamps 0..4, four events, two sessions; three settings,
with index-min below, at and above index-max, the second with sealing; five
kinds of buffers (key, delta, marked, synced, and one of two events with a
duration). Four events over two sessions are enough for a session to write a
record, stop with a final record, start again and write two more, or to crash
in each state in between; five timestamps are enough for a gap of index-max on
both sides of a record, for timestamp 0 and for *none*. `sink_faults` has three
timestamps and two events, since buffers may come in any order there.
`retention`: records with timestamps 1 and 3, searches for 2 (between them) and
3, offsets 0..2, three records, the thread and one tool. With three records the
binary search reads both ends and a middle one and takes both sides of its loop;
records may share timestamps or offsets. Both policies are on, so that one pass
follows the other. The proofs below cover the safety of the streams, and what
searches find, for an index of any length.

`viewers`: events at times 2, 5 and 7, the first two further apart than the
checker's largest gap, the others not, with times between them to ask for. Six
records: of the first event, forced at the second, a delta unit, of the third;
and final ones after each event, at 3, long before the next session begins, at 7,
when it begins, and at 8. Any of them may be missing, but the first one comes
first. Two records are a gap for the server if they are further apart than
`MaxDuration`. There are three events for the server, whose playlist then has two
segments, and two for the others; the source and the player, who also seek, have
an index of two records at a time and are left the final record of the first
session. To the server a sealed stream is like another, and only the second of
its sessions ends, at the very time at which the third begins. Its ranges are
all of the stream, one that begins and ends between records, and that moment.
Four settings and the default cover each start and each end mode; seeks go to 0,
which the element takes for the first seek, and to 5. `viewers_seek` is the same
instance. `MaxAsks` (one seek or
query) bounds the application of the source only; the player asks as often as
the user likes. `MaxRequests` is three: a playlist, a later one or a segment of
it, and another segment. The element is started once. `recovery`: seven frames
of which every second can be decoded alone, a position recorded at every second
frame, skips of 4, 8 and 16 of 14 units of time; defects at a key frame, at
another, at both, and in a row that the first skip does not pass; two failures
of anything else, so that a failure may follow another before the first was
recovered from. The last frames are good: a defect in the last stretch that is
indexed is never passed, since no skip gets behind the last record.
`capture`: seconds, with 1970 at 40 and the wrap at 64; four frames in fragments
of up to two; inputs on both sides of the grace period, of 1970, of a
correction and of the first timestamp. As the elements' states are functions of
the last timestamps and of one fragment, four frames reach each of them.

`MaxEvents`, `MaxSessions`, `MaxTimestamp`, `MaxRecords`, `MaxAsks`,
`MaxRequests`, `MaxFailures`, `MaxFrames` and `MaxSamples` occur in guards and
only stop the models from growing. The runs other than those of `Retention` do
not check deadlock: a model that has used up its bounds, an element that has
panicked, a pipeline that has come to its end, stops.

**Fairness.** `Retention`'s `FairSpec` has weak fairness of the thread's steps taken
together and of the join in `stop`, and nothing else: threads are scheduled and
calls to the server return. Nobody is made to write, to start, to stop, to
crash or to run the tool. Hence

- `StopReturns`: the thread reads the message only between rounds, and still
  always gets there;
- `SearchEnds`: the loop ends whatever is appended and truncated meanwhile;
- `OrphansAreReclaimed`: if a process ended, or panicked, between its two
  truncations, data remains that no record leads to; the thread's next pass
  reclaims it, *because* it truncates the data even if the index needs no
  truncation, unless the thread is not running.

`Viewers` has weak fairness of the element's threads (start; seek, `create` and
stop, which exclude each other; a query) and of the two kinds of requests to the
server, each of which has its thread. Nothing is assumed of the writer, nor of
truncation, nor of anybody who asks. `create` is not enabled at a tail that does
not move. Hence

- `RequestsAreServed` excepts the wait at the tail of a stream that is not
  sealed: a seek or a stop then waits for a writer that may never come back,
  and in the code it does;
- `BoundedPlayEnds`: with any end mode but *unbounded* the element never gets
  into that wait, because its end lies within the data that was there at start;
- `ServerAnswers`: nor does a request, whose reads end at a record.

`FailureRecovery` has weak fairness of the pipeline's own steps, which include
that a process that has failed is started again, as the deployment does, and of
each task of the adapter, as the runtime polls the tasks it has and the locks
are fair. Faults are not fair: they may happen, up to the bound, or not. Defects
are part of the input, so that `DefectsAreSkipped` does not depend on luck.

## What the code does otherwise than it says

1. **Constraint 4 of the index** (`sink_continuity`). `index.rs:105` guarantees
   that bytes between records without a discontinuity were written
   continuously. The final record of `stop` is always written without the flag
   (`pravegasink:1172`). If a session wrote no other record - only delta frames
   for less than index-max-sec - its final record is the first record after the
   break between the sessions, and does not show it.
2. **Restart after an error of stop** (`sink_restart`). An error of a flush or
   a seal in `stop` returns before `State::Stopped` is set. GStreamer treats
   the element as stopped, and its next `start` runs into
   `unreachable!("PravegaSink already started")` (`pravegasink:719`).
3. **Retention by size** (`retention_size`). `retention-bytes` is documented as
   the size that data "does not exceed" (`pravegasink:102`). The pass searches
   with `SearchMethod::Before`, which keeps the record that is at least
   retention-bytes from the tail, and so leaves up to one index interval too
   much. `KeepsSizeLimit` states what the code does.
4. **Skipping a defect** (`recovery_skip`). "If pipeline recovery is attempted
   more than once from the same PTS, it is assumed that the input stream is
   defective, and subsequent recovery attempts will skip over increasing amounts
   of data" (`pravegatc/imp.rs:40`). But the first frame after each restart is
   recorded at once, with a count of 0 (`:325`). If the index record to which the
   skip goes is still before the defect, a good frame before the defect comes
   through, the count begins anew and the skip never grows. In a stream that is
   indexed densely the skip gets past the defect first, and `recovery` passes.
5. **Decreasing timestamps** (`capture_timestamps`). "Any PTS values that
   decrease will have their PTS corrected" (`timestampcvt/imp.rs:30`). A timestamp
   that cannot be converted sets the previous input, but not the previous output,
   to none; the next one is then taken for the first, is not corrected, and if it
   is before the last output the element fails with "Internal error" (`:209`).
   `PushedInOrder` holds all the same.
6. **Seeking to what cannot be decoded** (`viewers_seek`). The start modes
   promise "the random-access point on or immediately before" the specified time
   (`pravegasrc/imp.rs:77`, and alike `:72`, `:84`). `do_seek` begins at whatever
   record `search_timestamp` returns (`:776`), and that does not consider the flag
   (the TODO of `index.rs:338`). The record may be the final one of a session
   (`pravegasink:1172`): playing then begins with the next session, which may be
   much later than what was asked for. Or it is one that was forced at a delta
   unit (`pravegasink:941`), which cannot be decoded alone. In the shortest
   counterexample the first event is indexed at 2, its session has ended at 3, and
   a seek to 4 plays the second event, of time 5.

## The proofs

Every invariant and every action property of the passing runs is stated by a
theorem, and so are the refinements; a run shows it on a small instance, the
theorem for every value of the constants that satisfies the `ASSUME`s of the
modules. Those say what the constants are, and this:

- offsets are natural numbers with 0 among them, records have an offset, settings,
  buffers and counters have their types (`StreamAssumption`, `SinkAssumption`);
- the maintainer is not a tool, one of the two policies is on, timestamps of
  records are natural numbers (`Retention`);
- events have different times, in order, and each record points between two
  events, or before the first or behind the last, and divides them by time
  (`LiveStream`); `RecordsBracketHolds` shows the latter of the sink's index if
  buffers follow each other in time, but the two models are not joined;
- requests, seeks and ranges are natural numbers, and a range does not end before
  it begins; the validator's limit is a number (`PravegaSrc`, `VideoServer`,
  `StreamChecker`);
- the grace period and the leap seconds are natural numbers, 1970 is not before
  the leap seconds, the correction is positive, a fragment has a sample
  (`TimestampCvt`, `Capture`);
- the frames of the input of failure recovery have increasing timestamps, the
  first can be decoded alone, and `record_period` is positive (it is one second).

A few theorems need more, and say so in their `ASSUME`:

| theorem | assumes | because otherwise |
|---|---|---|
| `NothingIsLost` | frames do not overlap | the end of a frame, which is what is recorded, may be after the begin of the next |
| `SessionsMarkedHolds` | no buffer is empty | an empty first buffer writes no event, takes the mark with it, and counts as written |
| `SealedIsCompleteHolds` | the flush for SYNC_AFTER does not fail | the buffer is in the stream, but `final_offset` is still before it, and `stop` then ends the index there |
| `IndexGapsWhenOrdered` | in a session, no buffer begins before its first buffer, or before its last indexed one | `IncludeInIndex` compares with these, and a buffer before them is never far enough away |
| `IndexGapsHolds` | `InOrder` | it follows from the one above |
| `RecordsBracketHolds` | `InOrder`, and the flush for SYNC_AFTER does not fail | a final record has the end of the buffer before the one that was synced, and comes after the record of that one |

Without these assumptions hold `SinkTypeCorrect`, `SinkReadable`,
`SinkImplementsStream`, `ContinuousHolds` and `IndexLagHolds`; `sink_faults` is
the run with none of them.

- **`VideoStreamProofs`.** `StreamReadable` and `StreamOrdered`. `Readable` is
  not inductive: truncating the index exposes a later record, which is behind
  the data's head only if offsets are ordered, and the first record ever finds
  its data only if nothing was truncated before (`NothingTruncated`).
  `StreamInv` joins them.
- **`RetentionProofs`.** The invariant says of each process that a search stays
  within the index (`SearchInv`) and that one about to truncate the data has
  already truncated the index up to the same record (`TruncationInv`), which
  stays true when others truncate more. From it, every step is a step of
  `VideoStream` or a stutter: `RetentionImplementsStream`. `RetentionReadable`
  and `RetentionNeverEmpties` follow from it and the theorems of
  `VideoStream`; `RetentionTypeCorrect` from the invariant.
  `SearchesInv` adds that the index is in order and that each search is what
  `NearestInv` below says, hence `RetentionSearchFindsNearest`; and that the
  oldest record a search has seen is not after the head it began with
  (`BeganAt`), so that what a pass deletes (`PassDeletes`) lies between records
  that it has compared: `RetentionDeletesOnlyOld` and `RetentionKeepsSizeLimit`.
- **`IndexSearcherProofs`.** The binary search, for any index in order. Between
  two reads other processes append records and truncate, and the search keeps the
  bounds it began with; `BoundsInv` is the invariant of its loop over these:
  everything in front of `lo` is known to be too old, everything behind `hi` too
  new, and the bounds are records though they may be truncated by now. `NearestInv`
  adds what holds when it ends: the record found is the nearest of those it began
  with, and with `After` the first of its time. Every step keeps it, and so does
  every change of the index at its ends (the last lemma). `Retention`, the source
  and the server rest on this one invariant.
- **`PravegaSinkProofs`.** `RecordsReadable` speaks of published records and is
  not inductive: a record on its way needs its data already. `SinkInv` says so
  of all records (`DataIsDurable`) and adds what the two places that write
  records rely on: a buffer that waits in `flush` has the offset of the end of
  the stream (`BufferInv`), so that the flush covers it, and the final offset
  is within the stream and the final timestamp not 0 (`FinalInv`). `Counters`
  orders submitted, durable and published. `SinkTypeCorrect` and `SinkReadable`
  follow. For `SinkImplementsStream`, `OrderInv` adds that offsets of records
  grow, which holds for the final record because the final offset is the end of
  the stream whenever render writes a record (`FinalIsLast`). Then
  `PersistEvent` is `AppendData`, `PersistRecord` is `Publish`, and every other
  step, a crash included, is hidden from the readers. It holds also when the
  flush after SYNC_AFTER fails.
  The other promises have an invariant each, on top of `SinkInv`:
  - `IndexLagHolds`: the step itself, since `render` and `stop` wait for the index.
  - `ContinuousHolds`: `SessionInv`, that sessions follow each other in both
    streams and each record divides the events by session, as it does by time;
    and that whoever writes a record without the mark has written one before in
    the same session.
  - `SessionsMarkedHolds`: `MarkInv`, that a buffer about to be written as the
    first of its session bears the mark.
  - `SealedIsCompleteHolds`: `EndInv` follows `final_offset` through `stop`: at
    rest it is the end of the data, and there is a final record to write whenever
    the session has an event with a time.
  - `IndexGapsWhenOrdered`: `GapInv`, that no event of the session is before
    `first_valid`, none after the last record is before that record, and a buffer
    that is left out is close to one of the two. Two events too far apart then
    have a record between them: the one the second was indexed with, or the last.
  - `RecordsBracketHolds`: `TimeInv`, that the next buffer is after everything in
    both streams, and `BracketInv`, that the end of the last buffer is, as long as
    it may become the final record. `FollowInv` adds where two records may have
    the same time: only a final record may have that of the buffer to come, and
    what is written next is not final.
- **`ViewersProofs`.** `LiveStreamImplementsStream`: what the viewers see is a
  `VideoStream`, so that `LiveInv` has `Readable` for any number of events, and adds
  that records of the same time are neighbours, the first of them final, and the
  data is truncated between events. Where a record points to is `Brackets`, which
  is all that the proofs use of it: that no event of a segment is skipped follows
  for final records as for others. `ControlInv` says which threads of the element wait for which, `ReaderInv`
  that the counting reader is not mistaken about where it is (`offset`, what is
  buffered, and the reader below it add up), and that it stands at an event or at
  its end. `PlayedInv` joins the two: what was played is followed by the event the
  reader is at, hence `PlaysInOrderHolds`, a refinement. `EosInv` says why the
  element may stop, `SoughtInv` where it began (with `SearchesInv`, which is
  `NearestInv`): `EosIsCompleteHolds`, `SeekSkipsNothingHolds`. `QueryInv` says
  that the second search of a query finds no record older than the first did,
  though the index was truncated in between: `SliderIsInRangeHolds`. `ValidatorInv`
  has the counts of the checker equal to what is countable in what was played:
  `WarningsAreTrueHolds`.
- **`VideoServerProofs`.** A request for a playlist searches twice and then reads
  the index record by record, while it grows and shrinks. `RequestInv` bounds what
  each search can have seen by what the searches before it saw, and by the playlist
  that the browser has; `BeginInv` says that what is in front of
  the first record of the playlist in the making is too early, or ends the session
  that this one begins, at the same time and offset (`Early`); `MadeInv` what of it is made;
  `ShownInv` that the playlist shown ends at a record and leaves out only records
  that are too old; `MediaInv` that a segment is read event by event.
  `PlaylistCoversRangeHolds`, `EndListIsFinalHolds`, `MediaIsWholeHolds` and
  `SequenceNumbersAreStableHold` follow; `ViewersTypesHold` takes these together
  with the invariants of the source.
- **`CaptureProofs`.** `CvtInv`: the frames that came out of `timestampcvt` are in
  order and the fields are those of the last one, or only `prev_output` is, after a
  time that cannot be converted: `TrueUnlessBehindHolds`. `MuxInv` determines the
  state of `fragmp4pay` from the last fragment and the number of its chunks that
  have not arrived (`FragmentInv`), and `PushedInv` says of each fragment that was
  pushed that it is whole. `FragmentIsWholeHolds` and `PushedInOrderHolds` follow
  from it and from the order of the frames.
- **`FailureRecoveryProofs`.** Three invariants, each inductive for its part.
  `AdapterInv` says that a stream that is being created has no writer and one
  creator, hence `OneWriter`, and that what a task has reported is stored, also
  after the connection was closed and opened again. `PipelineInv` ties the
  table to what the run remembers: as long as frames are taken, the recorded
  position is the end of the frame recorded last, so that what is not due is
  less than `record_period` after it, hence `BoundedReplay`. For
  `NothingIsLost`, `AccountedInv` looks at every position that may yet be
  recorded and not only at that in the table: everything before the begin of the
  segment, before the final position, and before the next frame is accounted
  for. What is accounted for only grows (`AccountedForGrows`), so that a step
  has only to answer for the position it moves. `Start` is the difficult one: it
  rests on the record that is started from not being after the requested time
  (`FirstFrameIsBefore`, from `MaxIsMaximum`), and on the skipped frames being
  all those between the old position and the new one.

Only model-checked is liveness, for which TLAPS has no rules of fairness here:
`OrphansAreReclaimed`, `StopReturns` and `SearchEnds` of retention,
`RequestsAreServed`, `BoundedPlayEnds` and `ServerAnswers` of the viewers,
`DefectsAreSkipped` of failure recovery. The six claims of the section before are
violated, which is for TLC to show.

## What is not modelled, and the plan

Not modelled of the modelled components:

- `pravegasink`: properties changed while the element runs (index-min and
  index-max then skip the check of `start`), creation of scope and streams,
  writing to a stream that is already sealed.
- `pravegasrc`: a second start of the same element, creation of the scope,
  properties changed while it runs.
- the player: pausing, playing again after a stop, the decoder, which only delays
  what the element delivers; the checker: its warning after idle time, and the
  validators after the decoder.
- the server: lists of scopes and streams, static pages, several browsers at
  once, which share nothing.
- `pravegatc`: two pipelines with one recovery table, which the applications do
  not configure.
- `timestampcvt`: decoding timestamps, which are shifted by the same offset;
  `fragmp4pay`: events, which it forwards, decoding timestamps and offsets,
  which it gathers as it does presentation timestamps, and the flag DISCONT, which
  it sets on a fragment if one of its chunks has it (`fragmp4pay/imp.rs:210`).
- the thread of retention after a `stop` that fails: `Retention` has the `stop` that
  succeeds. In the code the thread of such an element is not told to end.
- the mark of a session whose first buffer is empty: no event bears it, and
  `SessionsBeginMarked` is about buffers with a payload.
- bytes: layout of events, records, atoms and text; parsing and formatting of
  timestamps.

GstBaseSrc, mp4mux, nvmsgbroker, the decoder and the Pravega client are outside
the repository; each is modelled only by how the code here uses it. Not modelled
at all are the programs without a protocol of their own, listed in
`PROJECT.json` with the reason.

To add, in this order: `PravegaSink` with the events of `LiveStream`, so that the
writer that the viewers run beside is the sink by refinement and not by
assumption, for buffers that follow each other in time; that the order of `PushedInOrder` gives
`RendersInOrder`, which joins the capture to the sink; safety parts of the liveness
properties (a search's bounds come closer with every read; what recovery skips
grows until the position moves).

## Running it

```
tlc -config MCPravegaSink.cfg MCPravegaSink      # and the other .cfg files
tlapm PravegaSinkProofs.tla                      # and the other *Proofs.tla
```

`PROJECT.json` lists which module goes with which configuration and what to
expect. The longest runs, `sink`, `retention`, `viewers` and `recovery`, take one
to three minutes each.
