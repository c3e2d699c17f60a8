----------------------------- MODULE PravegaSink -----------------------------
(***************************************************************************)
(* The pravegasink element: it writes each buffer as events to the data    *)
(* stream and, at key frames, a record to the index stream.                *)
(*                                                                         *)
(* Between render and the server are two layers that a crash empties.  An  *)
(* event goes to a BufWriter, from there to a Pravega ByteWriter, and the  *)
(* ByteWriter's appends are persisted in order, later.  The index writer   *)
(* has no BufWriter.  A flush pushes everything down and waits for it to   *)
(* be persisted.                                                           *)
(*                                                                         *)
(* An offset is the number of events before it: the element reads its      *)
(* CountingWriter only between events.                                     *)
(***************************************************************************)
EXTENDS Integers, Sequences, FiniteSets

CONSTANTS
  Settings,        (* the settings the element may be given                 *)
  MaxTimestamp,    (* bound: timestamps are 0..MaxTimestamp, or None        *)
  BufferKinds,     (* buffers without their timestamps                      *)
  MaxEvents,       (* bound: events in the data stream                      *)
  MaxSessions,     (* bound: successful starts of the element               *)
  InOrder,         (* whether buffers follow each other in time             *)
  Errors           (* the calls in which a flush or a seal may fail         *)

None == -1         \* PravegaTimestamp::NONE, below every timestamp

Timestamps == 0 .. MaxTimestamp
Offsets    == 0 .. MaxEvents

(* index_min_nanos, index_max_nanos and seal *)
SettingsType == [min : Nat, max : Nat, seal : BOOLEAN]

Kind ==
  [delta : BOOLEAN,     \* BufferFlags::DELTA_UNIT
   discont : BOOLEAN,   \* BufferFlags::DISCONT or RESYNC
   sync : BOOLEAN,      \* BufferFlags::SYNC_AFTER
   events : Nat,        \* the events its payload takes; 0 for no payload
   duration : Nat]

ASSUME SinkAssumption ==
  /\ Settings \subseteq SettingsType
  /\ InOrder \in BOOLEAN
  /\ BufferKinds \subseteq Kind /\ BufferKinds # {}
  /\ MaxTimestamp \in Nat /\ MaxEvents \in Nat /\ MaxSessions \in Nat
  /\ Errors \subseteq {"render", "sync", "stop"}

VARIABLES
  events,        (* the data stream: persisted events, then those on the way *)
  submitted,     (* how many of them the BufWriter has passed on            *)
  durable,       (* how many of them the server has                         *)
  records,       (* the index stream, likewise                              *)
  published,     (* how many of its records the server has                  *)
  sealed,        (* the streams that have been sealed                       *)
  settings,
  pc,            (* where the element is; see States                        *)
  buffer,        (* the buffer being rendered                               *)
  firstValid, lastIndex, finalTimestamp, finalOffset, wroteBuffer,
  session,       (* how many times the element has been started             *)
  nextTimestamp  (* if InOrder, the next buffer is not before this          *)

streams  == <<events, submitted, durable, records, published, sealed>>
progress == <<firstValid, lastIndex, finalTimestamp, finalOffset, wroteBuffer>>
vars == <<streams, settings, pc, buffer, progress, session, nextTimestamp>>

Event ==
  [timestamp : {None} \cup Timestamps, indexed : BOOLEAN, randomAccess : BOOLEAN,
   discontinuity : BOOLEAN, session : Nat]

(* final marks the record that stop writes.  session and final are not in
   the stream; the properties use them. *)
Record ==
  [timestamp : Nat \ {0}, offset : Offsets,
   randomAccess : BOOLEAN, discontinuity : BOOLEAN, session : Nat, final : BOOLEAN]

(***************************************************************************)
(* In render: idle between buffers, flush while it waits for both flushes  *)
(* that precede an index record, write with the record out, sync while it  *)
(* waits for the flushes of SYNC_AFTER.  failed: render has returned an    *)
(* error.  In stop: stopping and stopIndex while it waits for the first    *)
(* and the second flush, then sealData and sealIndex.  stuck: stop has     *)
(* returned an error with the element still Started.  panicked: render or  *)
(* stop has panicked, and GStreamer calls the element no more;             *)
(* unreachable: start has panicked.                                        *)
(***************************************************************************)
States ==
  {"stopped", "idle", "flush", "write", "sync", "failed", "stopping", "stopIndex",
   "sealData", "sealIndex", "stuck", "panicked", "unreachable"}

NoBuffer == [kind |-> CHOOSE k \in BufferKinds : TRUE, timestamp |-> None,
             include |-> FALSE, discontinuity |-> FALSE, offset |-> 0]

Fresh ==
  /\ firstValid' = None /\ lastIndex' = None
  /\ finalTimestamp' = None /\ finalOffset' = None
  /\ wroteBuffer' = FALSE

(* The state becomes Stopped, and the writers and their positions go. *)
Leave ==
  /\ pc' = "stopped"
  /\ Fresh

Init ==
  /\ events = << >> /\ submitted = 0 /\ durable = 0
  /\ records = << >> /\ published = 0 /\ sealed = {}
  /\ settings \in Settings
  /\ pc = "stopped" /\ buffer = NoBuffer
  /\ firstValid = None /\ lastIndex = None
  /\ finalTimestamp = None /\ finalOffset = None /\ wroteBuffer = FALSE
  /\ session = 0 /\ nextTimestamp = 0

------------------------------------------------------------------------------
(* The server persists what it has been sent, in order.                      *)

PersistEvent ==
  /\ durable < submitted
  /\ durable' = durable + 1
  /\ UNCHANGED <<events, submitted, records, published, sealed, settings, pc,
                 buffer, progress, session, nextTimestamp>>

PersistRecord ==
  /\ published < Len(records)
  /\ published' = published + 1
  /\ UNCHANGED <<events, submitted, durable, records, sealed, settings, pc,
                 buffer, progress, session, nextTimestamp>>

(* Wrong versions: flush empties the BufWriter but does not wait for the
   server; the index is not flushed at all. *)
FlushedToByteWriter == submitted = Len(events)
NotFlushed == TRUE

(* What flush waits for, after the BufWriter has passed everything on. *)
DataFlushed  == durable = Len(events)
IndexFlushed == published = Len(records)

------------------------------------------------------------------------------
(* start: both writers seek to the tail.                                     *)

(* Any value is accepted until start looks at them. *)
SetProperty ==
  /\ pc = "stopped"
  /\ session < MaxSessions
  /\ settings' \in Settings \ {settings}
  /\ UNCHANGED <<streams, pc, buffer, progress, session, nextTimestamp>>

ValidSettings == settings.min <= settings.max

Start ==
  /\ pc = "stopped"
  /\ session < MaxSessions
  /\ ValidSettings
  /\ sealed = {}
  /\ pc' = "idle"
  /\ session' = session + 1
  /\ Fresh
  /\ UNCHANGED <<streams, settings, buffer, nextTimestamp>>

StartRejected ==
  /\ pc = "stopped"
  /\ ~ValidSettings
  /\ UNCHANGED vars

(* start expects that stop has succeeded: unreachable!("already started"). *)
StartWhenStarted ==
  /\ pc = "stuck"
  /\ pc' = "unreachable"
  /\ UNCHANGED <<streams, settings, buffer, progress, session, nextTimestamp>>

------------------------------------------------------------------------------
(* render, up to the first call that waits.                                  *)

(* A wrong version: delta frames are never the first to be indexed. *)
IncludeAfterKeyFrame(timestamp, delta, first) ==
  /\ timestamp # None
  /\ IF delta THEN lastIndex # None /\ timestamp > lastIndex + settings.max
              ELSE lastIndex = None \/ timestamp >= lastIndex + settings.min

(***************************************************************************)
(* Key frames are indexed unless the last record is too recent.  A delta   *)
(* frame is indexed if nothing has been for too long, counted from the     *)
(* first valid timestamp before the first record.                          *)
(***************************************************************************)
IncludeInIndex(timestamp, delta, first) ==
  /\ timestamp # None
  /\ IF delta
       THEN timestamp > (IF lastIndex = None THEN first ELSE lastIndex) + settings.max
       ELSE lastIndex = None \/ timestamp >= lastIndex + settings.min

(* A wrong version: the last buffer may end where it begins. *)
Unextended(duration) == duration

Longest(duration) == IF duration = 0 THEN 1 ELSE duration

(* Wrong versions: without the first buffer, without the first record. *)
IgnoresFirstBuffer(kind, include) == kind.discont \/ (include /\ lastIndex = None)
IgnoresFirstRecord(kind, include) == kind.discont \/ ~wroteBuffer

Discontinuity(kind, include) ==
  \/ kind.discont
  \/ ~wroteBuffer
  \/ include /\ lastIndex = None

(* If InOrder, no buffer begins before the end of one that came before. *)
Render(kind, timestamp) ==
  LET first   == IF firstValid = None THEN timestamp ELSE firstValid
      include == IncludeInIndex(timestamp, kind.delta, first)
  IN /\ pc = "idle"
     /\ Len(events) + kind.events <= MaxEvents
     /\ timestamp # None => timestamp >= nextTimestamp
     /\ firstValid' = first
     /\ buffer' = [kind |-> kind, timestamp |-> timestamp, include |-> include,
                   discontinuity |-> Discontinuity(kind, include),
                   offset |-> Len(events)]
     /\ nextTimestamp' = IF InOrder /\ timestamp # None
                           THEN timestamp + Longest(kind.duration) ELSE nextTimestamp
     /\ IF include
          THEN pc' = "flush" /\ submitted' = Len(events)
          ELSE pc' = "write" /\ UNCHANGED submitted
     /\ UNCHANGED <<events, durable, records, published, sealed, settings,
                    lastIndex, finalTimestamp, finalOffset, wroteBuffer, session>>

------------------------------------------------------------------------------
(* The index record goes out before the buffer it points to.                 *)

(* A wrong version: the final record needs one written by render. *)
HasRecord == lastIndex # None

(* What the final record needs: a buffer was rendered, one had a timestamp.  *)
HasFinal == finalOffset # None /\ finalTimestamp # None

(* A wrong version of Accepted: IndexRecordWriter takes every timestamp. *)
AnyTimestamp == TRUE

(* IndexRecordWriter rejects timestamp 0, which readers take for none. *)
Accepted == buffer.timestamp # 0

Failure(state) ==
  /\ pc' = state
  /\ buffer' = NoBuffer
  /\ UNCHANGED <<streams, settings, progress, session, nextTimestamp>>

FlushFails ==
  /\ \/ pc = "flush" /\ "render" \in Errors
     \/ pc = "sync" /\ "sync" \in Errors
  /\ Failure("failed")

WriteRecord ==
  /\ pc = "flush"
  /\ DataFlushed /\ IndexFlushed
  /\ Accepted
  /\ records' = Append(records,
       [timestamp |-> buffer.timestamp, offset |-> buffer.offset,
        randomAccess |-> ~buffer.kind.delta, discontinuity |-> buffer.discontinuity,
        session |-> session, final |-> FALSE])
  /\ lastIndex' = buffer.timestamp
  /\ pc' = "write"
  /\ UNCHANGED <<events, submitted, durable, published, sealed, settings, buffer,
                 firstValid, finalTimestamp, finalOffset, wroteBuffer, session,
                 nextTimestamp>>

RecordRejected ==
  /\ pc = "flush"
  /\ DataFlushed /\ IndexFlushed
  /\ ~Accepted
  /\ Failure("failed")

(* IndexRecordWriter unwraps an error of the index writer. *)
RecordPanics ==
  /\ \/ pc = "flush" /\ IndexFlushed /\ Accepted
     \/ pc = "stopping" /\ HasFinal
  /\ DataFlushed
  /\ Failure("panicked")

------------------------------------------------------------------------------
(* Then the buffer, in as many events as its payload takes.                  *)

(* Only the first event of a buffer carries its flags. *)
EventOf(i) ==
  [timestamp     |-> buffer.timestamp,
   indexed       |-> i = 1 /\ buffer.include,
   randomAccess  |-> i = 1 /\ ~buffer.kind.delta,
   discontinuity |-> i = 1 /\ buffer.discontinuity,
   session       |-> session]

(***************************************************************************)
(* The BufWriter passes on what it holds when the next event does not fit, *)
(* and an event as large as its capacity at once.                          *)
(***************************************************************************)
WriteEvents(n) ==
  /\ events' = events \o [i \in 1 .. n |-> EventOf(i)]
  /\ submitted' \in {submitted} \cup (Len(events) .. Len(events) + n)

EndOfBuffer ==
  /\ finalTimestamp' = IF buffer.timestamp = None THEN finalTimestamp
                       ELSE buffer.timestamp + Longest(buffer.kind.duration)
  /\ finalOffset' = Len(events')
  /\ buffer' = NoBuffer
  /\ pc' = "idle"

WriteBuffer ==
  /\ pc = "write"
  /\ ~buffer.kind.sync
  /\ WriteEvents(buffer.kind.events)
  /\ wroteBuffer' = TRUE
  /\ EndOfBuffer
  /\ UNCHANGED <<durable, records, published, sealed, settings, firstValid,
                 lastIndex, session, nextTimestamp>>

WriteBufferToSync ==
  /\ pc = "write"
  /\ buffer.kind.sync
  /\ WriteEvents(buffer.kind.events)
  /\ submitted' = Len(events')
  /\ wroteBuffer' = TRUE
  /\ pc' = "sync"
  /\ UNCHANGED <<durable, records, published, sealed, settings, buffer, firstValid,
                 lastIndex, finalTimestamp, finalOffset, session, nextTimestamp>>

Synced ==
  /\ pc = "sync"
  /\ DataFlushed /\ IndexFlushed
  /\ UNCHANGED <<streams, settings, firstValid, lastIndex, wroteBuffer,
                 session, nextTimestamp>>
  /\ EndOfBuffer

(* EventWriter unwraps an error too.  The events before have been written. *)
EventPanics ==
  /\ pc = "write"
  /\ \E n \in 0 .. buffer.kind.events - 1 : WriteEvents(n)
  /\ pc' = "panicked"
  /\ buffer' = NoBuffer
  /\ UNCHANGED <<durable, records, published, sealed, settings, progress,
                 session, nextTimestamp>>

------------------------------------------------------------------------------
(* stop, which runs when the pipeline ends and after an error of render.     *)

Stop ==
  /\ pc \in {"idle", "failed"}
  /\ pc' = "stopping"
  /\ submitted' = Len(events)
  /\ UNCHANGED <<events, durable, records, published, sealed, settings, buffer,
                 progress, session, nextTimestamp>>

(* The final record has the end of the last buffer that had a timestamp. *)
WriteFinalRecord ==
  /\ pc = "stopping"
  /\ DataFlushed
  /\ records' = IF HasFinal
       THEN Append(records, [timestamp |-> finalTimestamp, offset |-> finalOffset,
                             randomAccess |-> FALSE, discontinuity |-> FALSE,
                             session |-> session, final |-> TRUE])
       ELSE records
  /\ pc' = "stopIndex"
  /\ UNCHANGED <<events, submitted, durable, published, sealed, settings, buffer,
                 progress, session, nextTimestamp>>

Stopped ==
  /\ pc = "stopIndex"
  /\ IndexFlushed
  /\ ~settings.seal
  /\ Leave
  /\ UNCHANGED <<streams, settings, buffer, session, nextTimestamp>>

StoppedToSeal ==
  /\ pc = "stopIndex"
  /\ IndexFlushed
  /\ settings.seal
  /\ pc' = "sealData"
  /\ UNCHANGED <<streams, settings, buffer, progress, session, nextTimestamp>>

SealData ==
  /\ pc = "sealData"
  /\ sealed' = {"data"}
  /\ pc' = "sealIndex"
  /\ UNCHANGED <<events, submitted, durable, records, published, settings, buffer,
                 progress, session, nextTimestamp>>

SealIndex ==
  /\ pc = "sealIndex"
  /\ sealed' = {"data", "index"}
  /\ Leave
  /\ UNCHANGED <<events, submitted, durable, records, published, settings, buffer,
                 session, nextTimestamp>>

(* Every error of stop returns before the state becomes Stopped. *)
StopFails ==
  /\ pc \in {"stopping", "stopIndex", "sealData", "sealIndex"}
  /\ "stop" \in Errors
  /\ Failure("stuck")

------------------------------------------------------------------------------
(* An element that is freed without a successful stop drops its BufWriter,   *)
(* which passes on what it holds.                                            *)

DropWriter ==
  /\ pc \in {"panicked", "unreachable", "stuck"}
  /\ submitted < Len(events)
  /\ submitted' = Len(events)
  /\ UNCHANGED <<events, durable, records, published, sealed, settings, pc, buffer,
                 progress, session, nextTimestamp>>

(* The process ends.  The server keeps what it has.                          *)

Crash ==
  /\ pc # "stopped"
  /\ events' = SubSeq(events, 1, durable)
  /\ submitted' = durable
  /\ records' = SubSeq(records, 1, published)
  /\ Leave
  /\ buffer' = NoBuffer
  /\ UNCHANGED <<durable, published, sealed, settings, session, nextTimestamp>>

------------------------------------------------------------------------------
Next ==
  \/ PersistEvent \/ PersistRecord
  \/ SetProperty \/ Start \/ StartRejected \/ StartWhenStarted
  \/ \E kind \in BufferKinds, timestamp \in {None} \cup Timestamps : Render(kind, timestamp)
  \/ FlushFails \/ WriteRecord \/ RecordRejected \/ RecordPanics
  \/ WriteBuffer \/ WriteBufferToSync \/ Synced \/ EventPanics
  \/ Stop \/ WriteFinalRecord \/ Stopped \/ StoppedToSeal \/ SealData \/ SealIndex
  \/ StopFails \/ DropWriter
  \/ Crash

Spec == Init /\ [][Next]_vars

------------------------------------------------------------------------------
(* What the server has, and what VideoStream says of it.                     *)

Published == [i \in 1 .. published |-> [offset |-> records[i].offset]]

Stream ==
  INSTANCE VideoStream WITH
    Records <- [offset : Offsets], dataHead <- 0, dataTail <- durable,
    index <- Published, indexHead <- 0

Buffer ==
  [kind : BufferKinds, timestamp : {None} \cup Timestamps,
   include : BOOLEAN, discontinuity : BOOLEAN, offset : Offsets]

StreamsTypeOK ==
  /\ events \in Seq(Event) /\ submitted \in Offsets /\ durable \in Offsets
  /\ records \in Seq(Record) /\ published \in Nat
  /\ sealed \subseteq {"data", "index"}

ProgressTypeOK ==
  /\ firstValid \in {None} \cup Timestamps /\ lastIndex \in {None} \cup Timestamps
  /\ finalTimestamp \in Nat \cup {None} /\ finalOffset \in Offsets \cup {None}
  /\ wroteBuffer \in BOOLEAN

(* Every variable has its type; in particular no record has timestamp 0,
   which IndexRecordWriter must reject. *)
TypeOK ==
  /\ StreamsTypeOK
  /\ settings \in Settings /\ pc \in States /\ buffer \in Buffer
  /\ ProgressTypeOK
  /\ session \in Nat /\ nextTimestamp \in Nat

(***************************************************************************)
(* The sink promises its readers what VideoStream says: a record appears   *)
(* only after all the data before its offset, and nothing that has         *)
(* appeared is taken back, through crashes, errors and restarts.           *)
(***************************************************************************)
ImplementsVideoStream == Stream!StreamSpec

(***************************************************************************)
(* Constraint 1 of index.rs, at every moment: the data up to every record  *)
(* that a reader can find has been persisted, so that a reader between two *)
(* records never waits for the writer.                                     *)
(***************************************************************************)
RecordsReadable == Stream!Readable

(***************************************************************************)
(* Constraint 2 of index.rs: the events between two neighbouring records   *)
(* are not earlier than the first and strictly earlier than the second.    *)
(* And the index can be searched by timestamp, over all sessions: each     *)
(* record is later than the one before, except that a session may begin at *)
(* the time at which the final record of the last one says it has ended.   *)
(***************************************************************************)
Follows(r, next) ==
  \/ r.timestamp < next.timestamp
  \/ r.timestamp = next.timestamp /\ r.final /\ ~next.final

RecordsBracketEvents ==
  \A i \in 1 .. Len(records) - 1 :
    /\ Follows(records[i], records[i + 1])
    /\ \A k \in records[i].offset + 1 .. records[i + 1].offset :
         events[k].timestamp # None =>
           /\ records[i].timestamp <= events[k].timestamp
           /\ events[k].timestamp < records[i + 1].timestamp

(***************************************************************************)
(* Constraint 4 of index.rs: records without a discontinuity after the     *)
(* first of them enclose events written by one session without a break.    *)
(***************************************************************************)
OneSession(i, j) ==
  \A k, m \in records[i].offset + 1 .. records[j].offset :
    events[k].session = events[m].session

ContinuousWithoutDiscontinuity ==
  \A i, j \in 1 .. published :
    i < j /\ (\A m \in i + 1 .. j : ~records[m].discontinuity) => OneSession(i, j)

(* The same where no final record of an earlier stop is in between. *)
ContinuousBetweenRenderedRecords ==
  \A i, j \in 1 .. published :
    /\ i < j
    /\ \A m \in i + 1 .. j : ~records[m].discontinuity /\ ~records[m].final
    => OneSession(i, j)

(***************************************************************************)
(* After a crash or a restart a reader of the data stream is told: the     *)
(* first event that a session writes is marked as a discontinuity.         *)
(***************************************************************************)
SessionsBeginMarked ==
  \A k \in 1 .. Len(events) :
    k = 1 \/ events[k].session # events[k - 1].session => events[k].discontinuity

(***************************************************************************)
(* While the element runs, two events that are further apart than          *)
(* index-max-sec have an index record between them: a seek never has to    *)
(* read more than that, even if no buffer is ever marked as a key frame.   *)
(***************************************************************************)
IndexGapsBounded ==
  \A k, m \in 1 .. Len(events) :
    /\ pc # "stopped" /\ k < m
    /\ events[k].session = session /\ events[m].session = session
    /\ events[k].timestamp # None
    /\ events[m].timestamp > events[k].timestamp + settings.max
    => \E i \in 1 .. Len(records) : records[i].offset \in k .. m - 1

(* A stall of the index stream is noticed: a crash loses at most the last
   record, or the last two if stop has just written the final one. *)
IndexLagBounded ==
  Len(records) - published <= IF pc \in {"stopIndex", "stuck", "unreachable"} THEN 2 ELSE 1

(***************************************************************************)
(* A sealed stream is complete: everything rendered is in it, and the      *)
(* index reaches to its end if any buffer of the last session had a        *)
(* timestamp.                                                              *)
(***************************************************************************)
SealedStreamIsComplete ==
  sealed # {} =>
    /\ durable = Len(events) /\ published = Len(records)
    /\ (\E k \in 1 .. Len(events) :
          events[k].session = session /\ events[k].timestamp # None)
       => records # << >> /\ records[Len(records)].offset = Len(events)

(* start is only called when the element is stopped: the unreachable! of
   start ("PravegaSink already started") is never reached. *)
StartFindsStopped == pc # "unreachable"

==============================================================================
