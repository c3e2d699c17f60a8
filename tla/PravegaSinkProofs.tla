-------------------------- MODULE PravegaSinkProofs --------------------------
(***************************************************************************)
(* PravegaSink keeps its types, its records never point past the data that *)
(* the server has, and it implements VideoStream.  All of it holds for any *)
(* settings, any buffers in any order of time, any errors, and any number  *)
(* of crashes and restarts; so do IndexLagHolds and ContinuousHolds.  The  *)
(* other four theorems about what the two streams say of each other are    *)
(* for buffers whose timestamps do not go back, or for flushes that do not *)
(* fail, or for buffers that are not empty; each states what it needs.     *)
(***************************************************************************)
EXTENDS PravegaSink, SequenceTheorems, TLAPS

(***************************************************************************)
(* RecordsReadable says of each published record that its data is durable. *)
(* That is inductive only for all the records, published or not: a record  *)
(* that is on its way needs its data already.  WriteRecord gives it        *)
(* buffer.offset, and only because nothing was written since Render did    *)
(* the flush cover it; WriteFinalRecord gives it finalOffset.              *)
(***************************************************************************)
Counters ==
  /\ durable <= submitted /\ submitted <= Len(events) /\ Len(events) <= MaxEvents
  /\ published <= Len(records)

BufferInv ==
  /\ pc \in {"flush", "write"} => Len(events) + buffer.kind.events <= MaxEvents
  /\ pc = "flush" => buffer.timestamp # None /\ buffer.offset = Len(events)

FinalInv == finalTimestamp # 0 /\ finalOffset <= Len(events)

DataIsDurable == \A i \in 1 .. Len(records) : records[i].offset <= durable

SinkInv == TypeOK /\ Counters /\ BufferInv /\ FinalInv /\ DataIsDurable

LEMMA AppendType ==
  ASSUME NEW S, NEW s \in Seq(S), NEW e \in S
  PROVE  /\ Append(s, e) \in Seq(S)
         /\ Len(Append(s, e)) = Len(s) + 1
         /\ \A i \in 1 .. Len(s) : Append(s, e)[i] = s[i]
         /\ Append(s, e)[Len(s) + 1] = e
OBVIOUS

LEMMA ConcatType ==
  ASSUME NEW S, NEW s \in Seq(S), NEW n \in Nat, NEW t \in [1 .. n -> S]
  PROVE  s \o t \in Seq(S) /\ Len(s \o t) = Len(s) + n
<1>1. t \in Seq(S) /\ Len(t) = n
  OBVIOUS
<1> QED BY <1>1, ConcatProperties

LEMMA PrefixType ==
  ASSUME NEW S, NEW s \in Seq(S), NEW n \in 0 .. Len(s)
  PROVE  /\ SubSeq(s, 1, n) \in Seq(S)
         /\ Len(SubSeq(s, 1, n)) = n
         /\ \A i \in 1 .. n : SubSeq(s, 1, n)[i] = s[i]
<1>1. Len(s) \in Nat
  OBVIOUS
<1> QED BY <1>1, SubSeqProperties

(* The assumptions on the constants, in the form in which they are used. *)
LEMMA Bounds ==
  /\ MaxEvents \in Nat /\ MaxTimestamp \in Nat
  /\ None \in Int /\ None \notin Nat
  /\ Timestamps \subseteq Nat /\ Offsets \subseteq Nat
  /\ \A o \in Nat : o <= MaxEvents <=> o \in Offsets
  /\ \A k \in BufferKinds :
       k.delta \in BOOLEAN /\ k.discont \in BOOLEAN /\ k.sync \in BOOLEAN
       /\ k.events \in Nat /\ k.duration \in Nat
BY SinkAssumption DEF None, Timestamps, Offsets, Kind

LEMMA NoBufferType == NoBuffer \in Buffer
<1>1. (CHOOSE k \in BufferKinds : TRUE) \in BufferKinds
  BY SinkAssumption
<1> QED BY <1>1, Bounds DEF NoBuffer, Buffer

LEMMA SinkInvInit == Init => SinkInv
<1> SUFFICES ASSUME Init PROVE SinkInv
  OBVIOUS
<1>1. TypeOK
  <2>1. StreamsTypeOK
    BY Bounds DEF Init, StreamsTypeOK
  <2>2. ProgressTypeOK
    BY DEF Init, ProgressTypeOK
  <2> QED BY <2>1, <2>2, NoBufferType DEF Init, TypeOK, States
<1>2. Counters /\ BufferInv /\ FinalInv /\ DataIsDurable
  BY Bounds DEF Init, Counters, BufferInv, FinalInv, DataIsDurable, None
<1> QED BY <1>1, <1>2 DEF SinkInv

------------------------------------------------------------------------------
(* What the types say of lengths and offsets, in numbers. *)
LEMMA Numbers ==
  ASSUME TypeOK
  PROVE  /\ Len(events) \in Nat /\ Len(records) \in Nat
         /\ submitted \in Nat /\ durable \in Nat /\ published \in Nat
         /\ finalOffset \in Nat \cup {None} /\ finalTimestamp \in Nat \cup {None}
         /\ \A i \in 1 .. Len(records) :
              records[i] \in Record /\ records[i].offset \in Nat
<1>1. events \in Seq(Event) /\ records \in Seq(Record)
  BY DEF TypeOK, StreamsTypeOK
<1>2. Len(events) \in Nat /\ Len(records) \in Nat
  BY <1>1
<1>3. \A i \in 1 .. Len(records) : records[i] \in Record
  BY <1>1
<1>4. \A r \in Record : r.offset \in Nat
  BY Bounds DEF Record
<1> QED BY <1>2, <1>3, <1>4, Bounds DEF TypeOK, StreamsTypeOK, ProgressTypeOK

(* The steps that leave the streams as they are, except that the BufWriter may pass
   on what it holds and a stream may be sealed. *)
LEMMA StreamsStay ==
  ASSUME SinkInv,
         UNCHANGED <<events, durable, records, published>>,
         submitted' \in {submitted, Len(events)},
         sealed' \in SUBSET {"data", "index"},
         settings' \in Settings, pc' \in States, buffer' \in Buffer,
         ProgressTypeOK', session' \in Nat, nextTimestamp' \in Nat,
         BufferInv', FinalInv'
  PROVE  SinkInv'
<1>1. Counters' /\ DataIsDurable'
  BY Numbers DEF SinkInv, Counters, DataIsDurable
<1>2. submitted' \in Offsets
  BY Numbers, Bounds DEF SinkInv, Counters, TypeOK, StreamsTypeOK
<1>3. StreamsTypeOK'
  BY <1>2 DEF SinkInv, TypeOK, StreamsTypeOK
<1>4. TypeOK'
  BY <1>3 DEF TypeOK
<1> QED BY <1>1, <1>4 DEF SinkInv

LEMMA FailureInv ==
  ASSUME SinkInv, NEW state \in States \ {"flush", "write"}, Failure(state)
  PROVE  SinkInv'
<1> USE DEF Failure, streams, progress
<1>1. BufferInv'
  BY DEF BufferInv
<1>2. FinalInv' /\ ProgressTypeOK'
  BY DEF SinkInv, FinalInv, TypeOK, ProgressTypeOK
<1> QED BY <1>1, <1>2, NoBufferType, StreamsStay DEF SinkInv, TypeOK, StreamsTypeOK, Buffer

LEMMA FreshInv == Fresh => ProgressTypeOK' /\ finalTimestamp' = None /\ finalOffset' = None
BY DEF Fresh, ProgressTypeOK

LEMMA StayingSteps ==
  ASSUME SinkInv,
         \/ SetProperty \/ Start \/ StartRejected \/ StartWhenStarted
         \/ Stop \/ Stopped \/ StoppedToSeal \/ SealData \/ SealIndex \/ DropWriter
  PROVE  SinkInv'
<1>1. /\ settings \in Settings /\ pc \in States /\ buffer \in Buffer /\ sealed \subseteq {"data", "index"}
      /\ ProgressTypeOK /\ session \in Nat /\ nextTimestamp \in Nat /\ FinalInv
      /\ Len(events) \in Nat /\ None \in Int /\ None < 0
  BY Numbers DEF SinkInv, TypeOK, StreamsTypeOK, None
<1>2. CASE SetProperty
  <2>1. BufferInv' /\ FinalInv' /\ ProgressTypeOK'
    BY <1>1, <1>2 DEF SetProperty, BufferInv, FinalInv, ProgressTypeOK, progress, streams, SinkInv
  <2> QED BY <1>1, <1>2, <2>1, StreamsStay DEF SetProperty, streams
<1>3. CASE Start
  <2>1. BufferInv' /\ FinalInv' /\ ProgressTypeOK'
    BY <1>1, <1>3, FreshInv DEF Start, BufferInv, FinalInv, streams, None
  <2> QED BY <1>1, <1>3, <2>1, StreamsStay DEF Start, streams, States
<1>4. CASE StartRejected
  <2>1. BufferInv' /\ FinalInv' /\ ProgressTypeOK'
    BY <1>1, <1>4 DEF StartRejected, BufferInv, FinalInv, ProgressTypeOK, progress, streams, vars, SinkInv
  <2> QED BY <1>1, <1>4, <2>1, StreamsStay DEF StartRejected, streams, vars
<1>5. CASE StartWhenStarted \/ StoppedToSeal
  <2>1. BufferInv' /\ FinalInv' /\ ProgressTypeOK'
    BY <1>1, <1>5 DEF StartWhenStarted, StoppedToSeal, BufferInv, FinalInv, ProgressTypeOK, progress, streams
  <2> QED BY <1>1, <1>5, <2>1, StreamsStay DEF StartWhenStarted, StoppedToSeal, streams, States
<1>6. CASE Stop
  <2>1. BufferInv' /\ FinalInv' /\ ProgressTypeOK'
    BY <1>1, <1>6 DEF Stop, BufferInv, FinalInv, ProgressTypeOK, progress
  <2> QED BY <1>1, <1>6, <2>1, StreamsStay DEF Stop, States
<1>7. CASE Stopped
  <2>1. BufferInv' /\ FinalInv' /\ ProgressTypeOK'
    BY <1>1, <1>7, FreshInv DEF Stopped, Leave, BufferInv, FinalInv, streams, None
  <2> QED BY <1>1, <1>7, <2>1, StreamsStay DEF Stopped, Leave, streams, States
<1>8. CASE SealData
  <2>1. BufferInv' /\ FinalInv' /\ ProgressTypeOK'
    BY <1>1, <1>8 DEF SealData, BufferInv, FinalInv, ProgressTypeOK, progress
  <2> QED BY <1>1, <1>8, <2>1, StreamsStay DEF SealData, States
<1>9. CASE SealIndex
  <2>1. BufferInv' /\ FinalInv' /\ ProgressTypeOK'
    BY <1>1, <1>9, FreshInv DEF SealIndex, Leave, BufferInv, FinalInv, None
  <2> QED BY <1>1, <1>9, <2>1, StreamsStay DEF SealIndex, Leave, States
<1>10. CASE DropWriter
  <2>1. BufferInv' /\ FinalInv' /\ ProgressTypeOK'
    BY <1>1, <1>10 DEF DropWriter, BufferInv, FinalInv, ProgressTypeOK, progress
  <2> QED BY <1>1, <1>10, <2>1, StreamsStay DEF DropWriter
<1> QED BY <1>2, <1>3, <1>4, <1>5, <1>6, <1>7, <1>8, <1>9, <1>10

LEMMA FailingSteps ==
  ASSUME SinkInv, FlushFails \/ RecordRejected \/ RecordPanics \/ StopFails
  PROVE  SinkInv'
<1>1. {"failed", "panicked", "stuck"} \subseteq States \ {"flush", "write"}
  BY DEF States
<1> QED BY <1>1, FailureInv DEF FlushFails, RecordRejected, RecordPanics, StopFails

------------------------------------------------------------------------------
(* The server persists what the ByteWriter has; only the counters move. *)
LEMMA PersistSteps ==
  ASSUME SinkInv, PersistEvent \/ PersistRecord
  PROVE  SinkInv'
<1>1. /\ Len(events) \in Nat /\ Len(records) \in Nat
      /\ submitted \in Nat /\ durable \in Nat /\ published \in Nat
      /\ \A i \in 1 .. Len(records) : records[i].offset \in Nat
  BY Numbers DEF SinkInv
<1>2. durable' \in Nat /\ durable' <= MaxEvents /\ published' \in Nat
  BY <1>1, Bounds DEF PersistEvent, PersistRecord, SinkInv, Counters
<1>3. UNCHANGED <<events, submitted, records, sealed, settings, pc, buffer, firstValid,
                  lastIndex, finalTimestamp, finalOffset, wroteBuffer, session, nextTimestamp>>
  BY DEF PersistEvent, PersistRecord, progress
<1>4. StreamsTypeOK' /\ ProgressTypeOK'
  BY <1>2, <1>3, Bounds DEF SinkInv, TypeOK, StreamsTypeOK, ProgressTypeOK
<1>5. Counters' /\ DataIsDurable'
  BY <1>1, <1>2, <1>3 DEF PersistEvent, PersistRecord, SinkInv, Counters, DataIsDurable
<1>6. BufferInv' /\ FinalInv'
  BY <1>3 DEF SinkInv, BufferInv, FinalInv
<1>7. TypeOK'
  BY <1>3, <1>4 DEF SinkInv, TypeOK
<1> QED BY <1>5, <1>6, <1>7 DEF SinkInv

(* render checks that the buffer fits into the bounds before it is kept. *)
LEMMA RenderStep ==
  ASSUME SinkInv, NEW kind \in BufferKinds, NEW timestamp \in {None} \cup Timestamps,
         Render(kind, timestamp)
  PROVE  SinkInv'
<1>1. /\ Len(events) \in Nat /\ submitted \in Nat /\ Len(events) \in Offsets
      /\ kind.events \in Nat /\ kind.duration \in Nat /\ kind.discont \in BOOLEAN
  BY Numbers, Bounds DEF SinkInv, Counters
<1>2. /\ UNCHANGED <<events, durable, records, published, sealed, settings,
                     lastIndex, finalTimestamp, finalOffset, wroteBuffer, session>>
      /\ Len(events) + kind.events <= MaxEvents
      /\ submitted' \in {submitted, Len(events)}
      /\ pc' \in {"flush", "write"}
  BY DEF Render
<1>3. firstValid' \in {None} \cup Timestamps
  BY DEF Render, SinkInv, TypeOK, ProgressTypeOK
<1>4. nextTimestamp' \in Nat
  <2>1. Longest(kind.duration) \in Nat
    BY <1>1 DEF Longest
  <2>2. timestamp # None => timestamp + Longest(kind.duration) \in Nat
    BY <2>1, Bounds
  <2> QED BY <2>2 DEF Render, SinkInv, TypeOK
<1>5. PICK first : buffer' =
        [kind |-> kind, timestamp |-> timestamp,
         include |-> IncludeInIndex(timestamp, kind.delta, first),
         discontinuity |-> Discontinuity(kind, IncludeInIndex(timestamp, kind.delta, first)),
         offset |-> Len(events)]
      /\ (pc' = "flush" => IncludeInIndex(timestamp, kind.delta, first))
  BY Zenon DEF Render
<1>6. IncludeInIndex(timestamp, kind.delta, first) \in BOOLEAN
  BY DEF IncludeInIndex
<1>7. Discontinuity(kind, IncludeInIndex(timestamp, kind.delta, first)) \in BOOLEAN
  BY DEF Discontinuity
<1>8. buffer' \in Buffer
  BY <1>1, <1>5, <1>6, <1>7 DEF Buffer
<1>9. pc' = "flush" => timestamp # None
  BY <1>5 DEF IncludeInIndex
<1>10. BufferInv'
  BY <1>2, <1>5, <1>9 DEF BufferInv
<1>11. ProgressTypeOK' /\ FinalInv'
  BY <1>2, <1>3 DEF SinkInv, TypeOK, ProgressTypeOK, FinalInv
<1>12. pc' \in States /\ sealed' \in SUBSET {"data", "index"} /\ settings' \in Settings
       /\ session' \in Nat
  BY <1>2 DEF States, SinkInv, TypeOK, StreamsTypeOK
<1> QED BY <1>2, <1>4, <1>8, <1>10, <1>11, <1>12, StreamsStay

------------------------------------------------------------------------------
(* What a record may be: its data durable, its timestamp not 0. *)
LEMMA RecordWritten ==
  ASSUME SinkInv, NEW r \in Record, r.offset <= durable,
         records' = Append(records, r),
         UNCHANGED <<events, submitted, durable, published, sealed>>
  PROVE  StreamsTypeOK' /\ Counters' /\ DataIsDurable'
<1>1. records \in Seq(Record)
  BY DEF SinkInv, TypeOK, StreamsTypeOK
<1>2. /\ records' \in Seq(Record)
      /\ Len(records') = Len(records) + 1
      /\ \A i \in 1 .. Len(records) : records'[i] = records[i]
      /\ records'[Len(records) + 1] = r
  BY <1>1, AppendType
<1>3. Len(records) \in Nat /\ published \in Nat /\ durable \in Nat
  BY Numbers DEF SinkInv
<1>4. StreamsTypeOK'
  BY <1>2 DEF SinkInv, TypeOK, StreamsTypeOK
<1>5. Counters'
  BY <1>2, <1>3 DEF SinkInv, Counters
<1>6. DataIsDurable'
  <2> SUFFICES ASSUME NEW i \in 1 .. Len(records') PROVE records'[i].offset <= durable'
    BY DEF DataIsDurable
  <2>1. CASE i = Len(records) + 1
    BY <1>2, <2>1
  <2>2. CASE i # Len(records) + 1
    BY <1>2, <1>3, <2>2 DEF SinkInv, DataIsDurable
  <2> QED BY <2>1, <2>2
<1> QED BY <1>4, <1>5, <1>6

LEMMA RecordSteps ==
  ASSUME SinkInv, WriteRecord \/ WriteFinalRecord
  PROVE  SinkInv'
<1>1. /\ session \in Nat /\ settings \in Settings /\ buffer \in Buffer /\ nextTimestamp \in Nat
      /\ ProgressTypeOK /\ Len(events) \in Nat /\ durable \in Nat /\ FinalInv
      /\ Len(events) \in Offsets
  BY Numbers, Bounds DEF SinkInv, TypeOK, Counters
<1>2. CASE WriteRecord
  <2> DEFINE r == [timestamp |-> buffer.timestamp, offset |-> buffer.offset,
                   randomAccess |-> ~buffer.kind.delta, discontinuity |-> buffer.discontinuity,
                   session |-> session, final |-> FALSE]
  <2>1. /\ pc = "flush" /\ durable = Len(events) /\ buffer.timestamp # 0
        /\ records' = Append(records, r) /\ lastIndex' = buffer.timestamp /\ pc' = "write"
        /\ UNCHANGED <<events, submitted, durable, published, sealed, settings, buffer,
                        firstValid, finalTimestamp, finalOffset, wroteBuffer, session,
                        nextTimestamp>>
    BY <1>2 DEF WriteRecord, DataFlushed, Accepted
  <2>2. buffer.timestamp \in Timestamps /\ buffer.offset = Len(events)
        /\ buffer.discontinuity \in BOOLEAN
    BY <1>1, <2>1 DEF SinkInv, BufferInv, Buffer
  <2>3. buffer.timestamp \in Nat \ {0}
    BY <2>1, <2>2, Bounds
  <2>4. r \in Record /\ r.offset = Len(events)
    BY <1>1, <2>2, <2>3 DEF Record
  <2> HIDE DEF r
  <2>5. StreamsTypeOK' /\ Counters' /\ DataIsDurable'
    BY <1>1, <2>1, <2>4, RecordWritten
  <2>6. ProgressTypeOK' /\ FinalInv'
    BY <1>1, <2>1, <2>2 DEF ProgressTypeOK, FinalInv
  <2>7. BufferInv'
    BY <2>1 DEF BufferInv, SinkInv
  <2>8. TypeOK'
    BY <1>1, <2>1, <2>5, <2>6 DEF TypeOK, States
  <2> QED BY <2>5, <2>6, <2>7, <2>8 DEF SinkInv
<1>3. CASE WriteFinalRecord
  <2> DEFINE r == [timestamp |-> finalTimestamp, offset |-> finalOffset,
                   randomAccess |-> FALSE, discontinuity |-> FALSE,
                   session |-> session, final |-> TRUE]
  <2>1. /\ durable = Len(events) /\ pc' = "stopIndex"
        /\ records' = IF HasFinal THEN Append(records, r) ELSE records
        /\ UNCHANGED <<events, submitted, durable, published, sealed, settings, buffer,
                        firstValid, lastIndex, finalTimestamp, finalOffset, wroteBuffer,
                        session, nextTimestamp>>
    BY <1>3 DEF WriteFinalRecord, DataFlushed, progress
  <2>2. HasFinal => finalTimestamp \in Nat \ {0} /\ finalOffset \in Offsets
    BY <1>1 DEF HasFinal, ProgressTypeOK, FinalInv
  <2>3. HasFinal => r \in Record /\ r.offset = finalOffset
    BY <1>1, <2>2 DEF Record
  <2>4. HasFinal => r.offset <= durable
    BY <1>1, <2>1, <2>3 DEF FinalInv
  <2> HIDE DEF r
  <2>5. StreamsTypeOK' /\ Counters' /\ DataIsDurable'
    <3>1. CASE HasFinal
      BY <2>1, <2>3, <2>4, <3>1, RecordWritten
    <3>2. CASE ~HasFinal
      BY <2>1, <3>2 DEF SinkInv, TypeOK, StreamsTypeOK, Counters, DataIsDurable
    <3> QED BY <3>1, <3>2
  <2>6. ProgressTypeOK' /\ FinalInv'
    BY <1>1, <2>1 DEF ProgressTypeOK, FinalInv
  <2>7. BufferInv'
    BY <2>1 DEF BufferInv
  <2>8. TypeOK'
    BY <1>1, <2>1, <2>5, <2>6 DEF TypeOK, States
  <2> QED BY <2>5, <2>6, <2>7, <2>8 DEF SinkInv
<1> QED BY <1>2, <1>3

------------------------------------------------------------------------------
(* The events of a buffer, or the first n of them, fit into the data stream. *)
LEMMA EventsWritten ==
  ASSUME SinkInv, pc = "write", NEW n \in 0 .. buffer.kind.events, WriteEvents(n)
  PROVE  /\ events' \in Seq(Event)
         /\ Len(events') = Len(events) + n
         /\ Len(events') \in Offsets
         /\ submitted' \in Offsets
         /\ submitted <= submitted' /\ submitted' <= Len(events')
<1>1. /\ Len(events) \in Nat /\ submitted \in Nat /\ submitted <= Len(events)
      /\ events \in Seq(Event) /\ buffer \in Buffer /\ session \in Nat
      /\ Len(events) + buffer.kind.events <= MaxEvents
  BY Numbers DEF SinkInv, TypeOK, StreamsTypeOK, Counters, BufferInv
<1>2. buffer.kind.events \in Nat /\ buffer.kind.delta \in BOOLEAN
  BY <1>1, Bounds DEF Buffer
<1>3. n \in Nat /\ Len(events) + n <= MaxEvents
  BY <1>1, <1>2, Bounds
<1>4. \A i \in 1 .. n : EventOf(i) \in Event
  <2>1. /\ buffer.timestamp \in {None} \cup Timestamps
        /\ buffer.include \in BOOLEAN /\ buffer.discontinuity \in BOOLEAN
    BY <1>1 DEF Buffer
  <2> QED BY <1>1, <1>2, <2>1 DEF EventOf, Event
<1>5. [i \in 1 .. n |-> EventOf(i)] \in [1 .. n -> Event]
  BY <1>4
<1>6. events' = events \o [i \in 1 .. n |-> EventOf(i)]
      /\ submitted' \in {submitted} \cup (Len(events) .. Len(events) + n)
  BY DEF WriteEvents
<1>7. events' \in Seq(Event) /\ Len(events') = Len(events) + n
  BY <1>1, <1>3, <1>5, <1>6, ConcatType
<1>8. submitted' \in Nat /\ submitted <= submitted' /\ submitted' <= Len(events) + n
  BY <1>1, <1>3, <1>6
<1> QED BY <1>1, <1>3, <1>7, <1>8, Bounds

(* The steps that write the events: afterwards the counters are in order, whatever
   becomes of the element. *)
LEMMA BufferWritten ==
  ASSUME SinkInv, pc = "write", NEW n \in 0 .. buffer.kind.events, WriteEvents(n),
         UNCHANGED <<durable, records, published, sealed, settings, session, nextTimestamp>>,
         pc' \in States \ {"flush", "write"}, buffer' \in Buffer,
         ProgressTypeOK', FinalInv'
  PROVE  SinkInv'
<1>1. /\ events' \in Seq(Event) /\ Len(events') \in Offsets /\ submitted' \in Offsets
      /\ submitted <= submitted' /\ submitted' <= Len(events')
  BY EventsWritten
<1>2. /\ Len(events') \in Nat /\ Len(events') <= MaxEvents /\ submitted' \in Nat
      /\ durable \in Nat /\ submitted \in Nat /\ published \in Nat /\ Len(records) \in Nat
  BY <1>1, Numbers, Bounds DEF SinkInv
<1>3. StreamsTypeOK'
  BY <1>1 DEF SinkInv, TypeOK, StreamsTypeOK
<1>4. Counters' /\ DataIsDurable'
  BY <1>1, <1>2 DEF SinkInv, Counters, DataIsDurable
<1>5. BufferInv'
  BY DEF BufferInv
<1>6. TypeOK'
  BY <1>3 DEF SinkInv, TypeOK
<1> QED BY <1>4, <1>5, <1>6 DEF SinkInv

(* What finish_render keeps of a buffer whose events have all been written. *)
LEMMA EndOfBufferType ==
  ASSUME SinkInv, EndOfBuffer, Len(events') \in Offsets,
         UNCHANGED <<firstValid, lastIndex>>, wroteBuffer' \in BOOLEAN
  PROVE  ProgressTypeOK' /\ FinalInv'
<1>1. /\ buffer \in Buffer /\ ProgressTypeOK /\ FinalInv
      /\ finalTimestamp \in Nat \cup {None}
  BY DEF SinkInv, TypeOK, ProgressTypeOK
<1>2. buffer.timestamp \in {None} \cup Timestamps /\ buffer.kind.duration \in Nat
  BY <1>1, Bounds DEF Buffer
<1>3. Longest(buffer.kind.duration) \in Nat /\ Longest(buffer.kind.duration) > 0
  BY <1>2 DEF Longest
<1>4. buffer.timestamp # None =>
        /\ buffer.timestamp + Longest(buffer.kind.duration) \in Nat
        /\ buffer.timestamp + Longest(buffer.kind.duration) > 0
  <2> DEFINE d == Longest(buffer.kind.duration)
             t == buffer.timestamp
  <2>1. d \in Nat /\ d > 0 /\ (t # None => t \in Nat)
    BY <1>2, <1>3, Bounds
  <2> HIDE DEF d, t
  <2>2. t # None => t + d \in Nat /\ t + d > 0
    BY <2>1
  <2> QED BY <2>2 DEF d, t
<1>5. finalTimestamp' \in Nat \cup {None} /\ finalTimestamp' # 0
  BY <1>1, <1>4 DEF EndOfBuffer, FinalInv
<1>6. finalOffset' = Len(events')
  BY DEF EndOfBuffer
<1>7. finalOffset' <= Len(events')
  BY <1>6, Bounds
<1> QED BY <1>1, <1>5, <1>6, <1>7 DEF ProgressTypeOK, FinalInv

LEMMA BufferSteps ==
  ASSUME SinkInv, WriteBuffer \/ WriteBufferToSync \/ EventPanics \/ Synced
  PROVE  SinkInv'
<1>1. /\ buffer \in Buffer /\ ProgressTypeOK /\ FinalInv /\ finalOffset \in Nat \cup {None}
      /\ Len(events) \in Nat /\ Len(events) \in Offsets
      /\ settings \in Settings /\ session \in Nat /\ nextTimestamp \in Nat
      /\ sealed \in SUBSET {"data", "index"} /\ submitted \in Nat
  BY Numbers, Bounds DEF SinkInv, TypeOK, StreamsTypeOK, Counters
<1>2. buffer.kind.events \in Nat
  BY <1>1, Bounds DEF Buffer
<1>3. CASE WriteBuffer
  <2>1. /\ pc = "write" /\ WriteEvents(buffer.kind.events) /\ EndOfBuffer
        /\ wroteBuffer' = TRUE
        /\ UNCHANGED <<durable, records, published, sealed, settings, firstValid,
                       lastIndex, session, nextTimestamp>>
    BY <1>3 DEF WriteBuffer
  <2>2. Len(events') \in Offsets
    BY <1>2, <2>1, EventsWritten
  <2>3. ProgressTypeOK' /\ FinalInv'
    BY <2>1, <2>2, EndOfBufferType
  <2>4. pc' \in States \ {"flush", "write"} /\ buffer' \in Buffer
    BY <2>1, NoBufferType DEF EndOfBuffer, States
  <2> QED BY <1>2, <2>1, <2>3, <2>4, BufferWritten
<1>4. CASE WriteBufferToSync
  <2>1. /\ pc = "write" /\ WriteEvents(buffer.kind.events) /\ wroteBuffer' = TRUE
        /\ pc' = "sync"
        /\ UNCHANGED <<durable, records, published, sealed, settings, buffer, firstValid,
                       lastIndex, finalTimestamp, finalOffset, session, nextTimestamp>>
    BY <1>4 DEF WriteBufferToSync
  <2>2. Len(events') = Len(events) + buffer.kind.events
    BY <1>2, <2>1, EventsWritten
  <2>3. ProgressTypeOK'
    BY <1>1, <2>1 DEF ProgressTypeOK
  <2>4. FinalInv'
    BY <1>1, <1>2, <2>1, <2>2, Bounds DEF FinalInv
  <2>5. pc' \in States \ {"flush", "write"} /\ buffer' \in Buffer
    BY <1>1, <2>1 DEF States
  <2> QED BY <1>2, <2>1, <2>3, <2>4, <2>5, BufferWritten
<1>5. CASE EventPanics
  <2>1. PICK n \in 0 .. buffer.kind.events - 1 : WriteEvents(n)
    BY <1>5 DEF EventPanics
  <2>2. /\ pc = "write" /\ pc' = "panicked" /\ buffer' = NoBuffer
        /\ UNCHANGED <<durable, records, published, sealed, settings, session, nextTimestamp,
                       firstValid, lastIndex, finalTimestamp, finalOffset, wroteBuffer>>
    BY <1>5 DEF EventPanics, progress
  <2>3. n \in 0 .. buffer.kind.events
    BY <1>2
  <2>4. Len(events') = Len(events) + n
    BY <2>1, <2>2, <2>3, EventsWritten
  <2>5. ProgressTypeOK'
    BY <1>1, <2>2 DEF ProgressTypeOK
  <2>6. FinalInv'
    BY <1>1, <1>2, <2>2, <2>3, <2>4, Bounds DEF FinalInv
  <2>7. pc' \in States \ {"flush", "write"} /\ buffer' \in Buffer
    BY <2>2, NoBufferType DEF States
  <2> QED BY <2>1, <2>2, <2>3, <2>5, <2>6, <2>7, BufferWritten
<1>6. CASE Synced
  <2>1. /\ EndOfBuffer
        /\ UNCHANGED <<events, submitted, durable, records, published, sealed, settings,
                       firstValid, lastIndex, wroteBuffer, session, nextTimestamp>>
    BY <1>6 DEF Synced, streams
  <2>2. ProgressTypeOK' /\ FinalInv'
    BY <1>1, <2>1, EndOfBufferType DEF ProgressTypeOK
  <2>3. pc' \in States /\ buffer' \in Buffer /\ BufferInv'
    BY <2>1, NoBufferType DEF EndOfBuffer, States, BufferInv
  <2> QED BY <1>1, <2>1, <2>2, <2>3, StreamsStay
<1> QED BY <1>3, <1>4, <1>5, <1>6

------------------------------------------------------------------------------
(* A crash leaves what the server has; no record on the server points past it. *)
LEMMA CrashStep == SinkInv /\ Crash => SinkInv'
<1> SUFFICES ASSUME SinkInv, Crash PROVE SinkInv'
  OBVIOUS
<1>1. /\ events' = SubSeq(events, 1, durable) /\ submitted' = durable
      /\ records' = SubSeq(records, 1, published) /\ buffer' = NoBuffer
      /\ pc' = "stopped" /\ Fresh
      /\ UNCHANGED <<durable, published, sealed, settings, session, nextTimestamp>>
  BY DEF Crash, Leave
<1>2. /\ events \in Seq(Event) /\ records \in Seq(Record) /\ Len(events) \in Nat
      /\ Len(records) \in Nat /\ durable \in Nat /\ published \in Nat
      /\ submitted \in Nat /\ durable \in Offsets
      /\ sealed \subseteq {"data", "index"}
      /\ settings \in Settings /\ session \in Nat /\ nextTimestamp \in Nat
  BY Numbers DEF SinkInv, TypeOK, StreamsTypeOK
<1>3. durable <= Len(events) /\ durable <= MaxEvents /\ published <= Len(records)
  BY <1>2, Bounds DEF SinkInv, Counters
<1>4. durable \in 0 .. Len(events) /\ published \in 0 .. Len(records)
  BY <1>2, <1>3
<1>5. events' \in Seq(Event) /\ Len(events') = durable
  BY <1>1, <1>2, <1>4, PrefixType
<1>6. /\ records' \in Seq(Record) /\ Len(records') = published
      /\ \A i \in 1 .. published : records'[i] = records[i]
  BY <1>1, <1>2, <1>4, PrefixType
<1>7. StreamsTypeOK'
  BY <1>1, <1>2, <1>5, <1>6 DEF StreamsTypeOK
<1>8. Counters'
  BY <1>1, <1>2, <1>3, <1>5, <1>6 DEF Counters
<1>9. DataIsDurable'
  BY <1>1, <1>2, <1>3, <1>6 DEF SinkInv, DataIsDurable
<1>10. ProgressTypeOK' /\ finalTimestamp' = None /\ finalOffset' = None
  BY <1>1, FreshInv
<1>11. BufferInv' /\ FinalInv'
  BY <1>1, <1>2, <1>5, <1>10, Bounds DEF BufferInv, FinalInv, None
<1>12. TypeOK'
  BY <1>1, <1>2, <1>7, <1>10, NoBufferType DEF TypeOK, States
<1> QED BY <1>8, <1>9, <1>11, <1>12 DEF SinkInv

LEMMA SinkInvNext == SinkInv /\ [Next]_vars => SinkInv'
<1> SUFFICES ASSUME SinkInv, [Next]_vars PROVE SinkInv'
  OBVIOUS
<1>1. CASE UNCHANGED vars
  BY <1>1, Zenon
     DEF vars, streams, progress, SinkInv, TypeOK, StreamsTypeOK, ProgressTypeOK, Counters,
         BufferInv, FinalInv, DataIsDurable
<1>2. CASE Next
  BY <1>2, PersistSteps, RenderStep, StayingSteps, FailingSteps, RecordSteps, BufferSteps,
     CrashStep, Zenon DEF Next
<1> QED BY <1>1, <1>2

(* SinkInv is inductive: BufferInv and FinalInv are what the two kinds of index
   record need of the buffer and of the positions that render keeps. *)
THEOREM SinkInvariant == Spec => []SinkInv
<1> QED BY SinkInvInit, SinkInvNext, PTL DEF Spec

(***************************************************************************)
(* No record is written with timestamp 0, no final record without a        *)
(* timestamp, and every counter stays in its stream.                       *)
(***************************************************************************)
THEOREM SinkTypeCorrect == Spec => []TypeOK
<1>1. SinkInv => TypeOK
  BY DEF SinkInv
<1> QED BY <1>1, SinkInvariant, PTL

(* Constraint 1 of index.rs: a reader finds the data up to every record that is on
   the server, whatever fails or crashes. *)
THEOREM SinkReadable == Spec => []RecordsReadable
<1>1. SinkInv => RecordsReadable
  <2> SUFFICES ASSUME SinkInv PROVE RecordsReadable
    OBVIOUS
  <2>1. /\ published \in Nat /\ Len(records) \in Nat /\ published <= Len(records)
        /\ \A i \in 1 .. Len(records) : records[i].offset \in Nat
    BY Numbers DEF SinkInv, Counters
  <2>2. Len(Published) = published
        /\ \A i \in 1 .. published : Published[i].offset = records[i].offset
    BY <2>1 DEF Published
  <2>3. \A i \in 1 .. published : 0 <= Published[i].offset /\ Published[i].offset <= durable
    BY <2>1, <2>2 DEF SinkInv, DataIsDurable
  <2> QED BY <2>1, <2>2, <2>3 DEF RecordsReadable, Stream!Readable
<1> QED BY <1>1, SinkInvariant, PTL

------------------------------------------------------------------------------
(***************************************************************************)
(* VideoStream also orders the offsets of the index.  The records of       *)
(* render are written at the end of the data, past every other record; the *)
(* final record is written at finalOffset, and is not behind them because  *)
(* finalOffset is the end of the data whenever a record is written.        *)
(***************************************************************************)
RecordsOrdered ==
  \A i, j \in 1 .. Len(records) : i <= j => records[i].offset <= records[j].offset

FinalIsLast ==
  finalOffset # None =>
    /\ \A i \in 1 .. Len(records) : records[i].offset <= finalOffset
    /\ pc \in {"idle", "flush", "write"} => finalOffset = Len(events)

OrderInv == RecordsOrdered /\ FinalIsLast

LEMMA OrderInvInit == Init => OrderInv
BY DEF Init, OrderInv, RecordsOrdered, FinalIsLast

(* Most steps write nothing, and leave finalOffset as it is or without a value. *)
LEMMA OrderStays ==
  ASSUME OrderInv, UNCHANGED <<events, records>>,
         \/ finalOffset' = None
         \/ finalOffset' = finalOffset
            /\ (pc' \in {"idle", "flush", "write"} => pc \in {"idle", "flush", "write"})
  PROVE  OrderInv'
BY DEF OrderInv, RecordsOrdered, FinalIsLast

(* A record after all the others keeps the order. *)
LEMMA OrderedAppend ==
  ASSUME SinkInv, RecordsOrdered, NEW r \in Record, records' = Append(records, r),
         \A i \in 1 .. Len(records) : records[i].offset <= r.offset
  PROVE  /\ RecordsOrdered'
         /\ \A i \in 1 .. Len(records') : records'[i].offset <= r.offset
<1>1. records \in Seq(Record)
  BY DEF SinkInv, TypeOK, StreamsTypeOK
<1>2. /\ Len(records') = Len(records) + 1
      /\ \A i \in 1 .. Len(records) : records'[i] = records[i]
      /\ records'[Len(records) + 1] = r
  BY <1>1, AppendType
<1>3. /\ Len(records) \in Nat /\ r.offset \in Nat
      /\ \A i \in 1 .. Len(records) : records[i].offset \in Nat
  BY Numbers, Bounds DEF SinkInv, Record
<1>4. \A i \in 1 .. Len(records') : records'[i].offset <= r.offset
  <2> SUFFICES ASSUME NEW i \in 1 .. Len(records') PROVE records'[i].offset <= r.offset
    OBVIOUS
  <2>1. CASE i = Len(records) + 1
    BY <1>2, <1>3, <2>1
  <2>2. CASE i # Len(records) + 1
    BY <1>2, <1>3, <2>2
  <2> QED BY <2>1, <2>2
<1>5. RecordsOrdered'
  <2> SUFFICES ASSUME NEW i \in 1 .. Len(records'), NEW j \in 1 .. Len(records'), i <= j
               PROVE  records'[i].offset <= records'[j].offset
    BY DEF RecordsOrdered
  <2>1. CASE j = Len(records) + 1
    BY <1>2, <1>4, <2>1
  <2>2. CASE j # Len(records) + 1
    BY <1>2, <1>3, <2>2 DEF RecordsOrdered
  <2> QED BY <2>1, <2>2
<1> QED BY <1>4, <1>5

LEMMA OrderRecordSteps ==
  ASSUME SinkInv, OrderInv, WriteRecord \/ WriteFinalRecord, SinkInv'
  PROVE  OrderInv'
<1>1. /\ Len(events) \in Nat /\ durable \in Nat /\ durable <= Len(events) /\ submitted \in Nat
      /\ Len(records) \in Nat
      /\ \A i \in 1 .. Len(records) : records[i].offset \in Nat /\ records[i].offset <= durable
  BY Numbers DEF SinkInv, Counters, DataIsDurable
<1>2. \A i \in 1 .. Len(records) : records[i].offset <= Len(events)
  BY <1>1
<1>3. CASE WriteRecord
  <2> DEFINE r == [timestamp |-> buffer.timestamp, offset |-> buffer.offset,
                   randomAccess |-> ~buffer.kind.delta, discontinuity |-> buffer.discontinuity,
                   session |-> session, final |-> FALSE]
  <2>1. /\ pc = "flush" /\ buffer.offset = Len(events) /\ records' = Append(records, r)
        /\ finalOffset' = finalOffset /\ events' = events
    BY <1>3 DEF WriteRecord, SinkInv, BufferInv
  <2>2. r \in Record
    <3>1. records \in Seq(Record) /\ records' \in Seq(Record)
      BY DEF SinkInv, TypeOK, StreamsTypeOK
    <3>2. /\ buffer \in Buffer /\ buffer.timestamp # None /\ buffer.timestamp # 0
          /\ session \in Nat
      BY <1>3, <2>1 DEF SinkInv, BufferInv, TypeOK, WriteRecord, Accepted
    <3>3. buffer.timestamp \in Nat \ {0} /\ buffer.offset \in Offsets /\ buffer.discontinuity \in BOOLEAN
      BY <3>2, Bounds DEF Buffer
    <3> QED BY <3>2, <3>3 DEF Record
  <2>3. r.offset = Len(events)
    BY <2>1
  <2> HIDE DEF r
  <2>4. RecordsOrdered' /\ \A i \in 1 .. Len(records') : records'[i].offset <= Len(events)
    BY <1>2, <2>1, <2>2, <2>3, OrderedAppend DEF OrderInv
  <2>5. finalOffset # None => finalOffset = Len(events)
    BY <2>1 DEF OrderInv, FinalIsLast
  <2> QED BY <2>1, <2>4, <2>5 DEF OrderInv, FinalIsLast
<1>4. CASE WriteFinalRecord
  <2> DEFINE r == [timestamp |-> finalTimestamp, offset |-> finalOffset,
                   randomAccess |-> FALSE, discontinuity |-> FALSE,
                   session |-> session, final |-> TRUE]
  <2>1. /\ pc' = "stopIndex" /\ finalOffset' = finalOffset /\ events' = events
        /\ records' = IF HasFinal THEN Append(records, r) ELSE records
    BY <1>4 DEF WriteFinalRecord, progress
  <2>2. HasFinal => r \in Record
    <3>1. session \in Nat /\ (HasFinal => finalTimestamp \in Nat \ {0} /\ finalOffset \in Offsets)
      BY DEF SinkInv, HasFinal, TypeOK, ProgressTypeOK, FinalInv
    <3> QED BY <3>1 DEF Record
  <2>3. HasFinal => \A i \in 1 .. Len(records) : records[i].offset <= r.offset
    BY DEF OrderInv, FinalIsLast, HasFinal
  <2>4. r.offset = finalOffset
    OBVIOUS
  <2> HIDE DEF r
  <2>5. CASE HasFinal
    <3>1. RecordsOrdered' /\ \A i \in 1 .. Len(records') : records'[i].offset <= r.offset
      BY <2>1, <2>2, <2>3, <2>5, OrderedAppend DEF OrderInv
    <3> QED BY <2>1, <2>4, <3>1 DEF OrderInv, FinalIsLast
  <2>6. CASE ~HasFinal
    BY <2>1, <2>6 DEF OrderInv, RecordsOrdered, FinalIsLast
  <2> QED BY <2>5, <2>6
<1> QED BY <1>3, <1>4

(* A buffer that has been written moves finalOffset to the end of the data. *)
LEMMA OrderBufferSteps ==
  ASSUME SinkInv, OrderInv, WriteBuffer \/ WriteBufferToSync \/ EventPanics \/ Synced
  PROVE  OrderInv'
<1>1. /\ Len(events) \in Nat /\ buffer.kind.events \in Nat
      /\ \A i \in 1 .. Len(records) :
           records[i].offset \in Nat /\ records[i].offset <= Len(events)
  <2>1. buffer.kind.events \in Nat
    BY Bounds DEF SinkInv, TypeOK, Buffer
  <2> QED BY <2>1, Numbers DEF SinkInv, Counters, DataIsDurable
<1>2. WriteBuffer \/ Synced => \A i \in 1 .. Len(records) : records[i].offset <= Len(events')
  <2>1. CASE WriteBuffer
    <3>1. Len(events') = Len(events) + buffer.kind.events
      BY <1>1, <2>1, EventsWritten DEF WriteBuffer
    <3> QED BY <1>1, <3>1
  <2>2. CASE Synced
    BY <1>1, <2>2 DEF Synced, streams
  <2> QED BY <2>1, <2>2
<1>3. records' = records
  BY DEF WriteBuffer, WriteBufferToSync, EventPanics, Synced, streams
<1>4. RecordsOrdered'
  BY <1>3 DEF OrderInv, RecordsOrdered
<1>5. CASE WriteBuffer \/ Synced
  <2>1. finalOffset' = Len(events')
    BY <1>5 DEF WriteBuffer, Synced, EndOfBuffer
  <2> QED BY <1>2, <1>3, <1>4, <1>5, <2>1 DEF OrderInv, FinalIsLast
<1>6. CASE WriteBufferToSync \/ EventPanics
  <2>1. finalOffset' = finalOffset /\ pc' \notin {"idle", "flush", "write"}
    BY <1>6 DEF WriteBufferToSync, EventPanics, progress
  <2> QED BY <1>3, <1>4, <2>1 DEF OrderInv, FinalIsLast
<1> QED BY <1>5, <1>6

LEMMA OrderOtherSteps ==
  ASSUME SinkInv, OrderInv,
         \/ PersistEvent \/ PersistRecord
         \/ SetProperty \/ Start \/ StartRejected \/ StartWhenStarted
         \/ \E kind \in BufferKinds, timestamp \in {None} \cup Timestamps : Render(kind, timestamp)
         \/ FlushFails \/ RecordRejected \/ RecordPanics
         \/ Stop \/ Stopped \/ StoppedToSeal \/ SealData \/ SealIndex
         \/ StopFails \/ DropWriter \/ UNCHANGED vars
  PROVE  OrderInv'
<1> USE DEF streams, progress
<1>1. CASE PersistEvent \/ PersistRecord \/ SetProperty \/ StartRejected \/ DropWriter
           \/ UNCHANGED vars
  BY <1>1, OrderStays
     DEF PersistEvent, PersistRecord, SetProperty, StartRejected, DropWriter, vars
<1>2. CASE Start \/ Stopped \/ SealIndex
  BY <1>2, OrderStays DEF Start, Stopped, SealIndex, Leave, Fresh
<1>3. CASE StartWhenStarted \/ Stop \/ StoppedToSeal \/ SealData
  BY <1>3, OrderStays DEF StartWhenStarted, Stop, StoppedToSeal, SealData
<1>4. CASE FlushFails \/ RecordRejected \/ RecordPanics \/ StopFails
  BY <1>4, OrderStays DEF FlushFails, RecordRejected, RecordPanics, StopFails, Failure
<1>5. CASE \E kind \in BufferKinds, timestamp \in {None} \cup Timestamps : Render(kind, timestamp)
  <2>1. UNCHANGED <<events, records, finalOffset>> /\ pc = "idle"
    BY <1>5 DEF Render
  <2> QED BY <2>1, OrderStays
<1> QED BY <1>1, <1>2, <1>3, <1>4, <1>5

LEMMA OrderCrashStep == SinkInv /\ OrderInv /\ Crash => OrderInv'
<1> SUFFICES ASSUME SinkInv, OrderInv, Crash PROVE OrderInv'
  OBVIOUS
<1>1. records \in Seq(Record) /\ Len(records) \in Nat /\ published \in 0 .. Len(records)
  BY Numbers DEF SinkInv, TypeOK, StreamsTypeOK, Counters
<1>2. finalOffset' = None /\ records' = SubSeq(records, 1, published)
  BY DEF Crash, Leave, Fresh
<1>3. Len(records') = published /\ \A i \in 1 .. published : records'[i] = records[i]
  BY <1>1, <1>2, PrefixType
<1> QED BY <1>1, <1>2, <1>3 DEF OrderInv, RecordsOrdered, FinalIsLast

LEMMA OrderInvNext == SinkInv /\ OrderInv /\ [Next]_vars => OrderInv'
<1> SUFFICES ASSUME SinkInv, OrderInv, [Next]_vars PROVE OrderInv'
  OBVIOUS
<1>1. SinkInv'
  BY SinkInvNext
<1> QED BY <1>1, OrderRecordSteps, OrderBufferSteps, OrderOtherSteps, OrderCrashStep, Zenon DEF Next

------------------------------------------------------------------------------
(* What a reader sees changes in two steps only. *)
LEMMA Hidden == UNCHANGED <<durable, records, published>> => UNCHANGED Stream!streamVars
BY DEF Stream!streamVars, Published

LEMMA PersistRefines ==
  ASSUME SinkInv, OrderInv, PersistEvent \/ PersistRecord, SinkInv'
  PROVE  Stream!StreamNext
<1>1. /\ Len(events) \in Nat /\ Len(records) \in Nat
      /\ submitted \in Nat /\ durable \in Nat /\ published \in Nat
      /\ durable \in Offsets /\ durable' \in Offsets /\ published <= Len(records)
  BY Numbers DEF SinkInv, TypeOK, StreamsTypeOK, Counters
<1>2. CASE PersistEvent
  <2>1. durable' > durable /\ UNCHANGED Published
    BY <1>1, <1>2 DEF PersistEvent, Published
  <2>2. Stream!AppendData(durable')
    BY <2>1 DEF Stream!AppendData
  <2> QED BY <1>1, <2>2 DEF Stream!StreamNext
<1>3. CASE PersistRecord
  <2> DEFINE r == [offset |-> records[published + 1].offset]
  <2>1. /\ published' = published + 1 /\ published + 1 \in 1 .. Len(records)
        /\ UNCHANGED <<records, durable>>
    BY <1>1, <1>3 DEF PersistRecord
  <2>2. \A i \in 1 .. Len(records) : records[i] \in Record
    BY Numbers DEF SinkInv
  <2>3. r \in [offset : Offsets]
    BY <2>1, <2>2 DEF Record
  <2>4. Published \in Seq([offset : Offsets]) /\ Len(Published) = published
    <3>1. \A i \in 1 .. published : [offset |-> records[i].offset] \in [offset : Offsets]
      BY <1>1, <2>2 DEF Record
    <3> DEFINE f(i) == [offset |-> records[i].offset]
    <3>2. \A i \in 1 .. published : f(i) \in [offset : Offsets]
      BY <3>1
    <3>3. Published = [i \in 1 .. published |-> f(i)]
      BY DEF Published
    <3> HIDE DEF f
    <3> QED BY <1>1, <3>2, <3>3
  <2>5. Published' = Append(Published, r)
    <3>1. Published' = [i \in 1 .. published + 1 |-> [offset |-> records[i].offset]]
      BY <2>1 DEF Published
    <3> DEFINE p == Published  o == [i \in 1 .. published + 1 |-> [offset |-> records[i].offset]]
    <3>2. Append(p, r) \in Seq([offset : Offsets]) /\ Len(Append(p, r)) = published + 1
          /\ (\A i \in 1 .. published : Append(p, r)[i] = p[i]) /\ Append(p, r)[published + 1] = r
      BY <2>3, <2>4, AppendType
    <3>3. o \in Seq([offset : Offsets]) /\ Len(o) = published + 1
      <4>1. \A i \in 1 .. published + 1 : records[i].offset \in Offsets
        BY <1>1, <2>1, <2>2 DEF Record
      <4> QED BY <1>1, <4>1
    <3>4. \A i \in 1 .. published + 1 : o[i] = Append(p, r)[i]
      <4> SUFFICES ASSUME NEW i \in 1 .. published + 1 PROVE o[i] = Append(p, r)[i]
        OBVIOUS
      <4>1. CASE i = published + 1
        BY <3>2, <4>1
      <4>2. CASE i # published + 1
        <5>1. i \in 1 .. published
          BY <1>1, <4>2
        <5> QED BY <3>2, <5>1 DEF Published
      <4> QED BY <4>1, <4>2
    <3> HIDE DEF o, p, r
    <3>5. o = Append(p, r)
      BY <3>2, <3>3, <3>4, SeqEqual
    <3> QED BY <3>1, <3>5 DEF o, p
  <2>6. r.offset <= durable /\ \A i \in 1 .. Len(Published) : Published[i].offset <= r.offset
    <3>1. records[published + 1].offset <= durable
      BY <2>1 DEF SinkInv, DataIsDurable
    <3>2. \A i \in 1 .. published : records[i].offset <= records[published + 1].offset
      BY <1>1, <2>1 DEF OrderInv, RecordsOrdered
    <3> QED BY <2>4, <3>1, <3>2 DEF Published
  <2> HIDE DEF r
  <2>7. Stream!Publish(r)
    BY <2>1, <2>5, <2>6 DEF Stream!Publish
  <2> QED BY <2>3, <2>7 DEF Stream!StreamNext
<1> QED BY <1>2, <1>3

LEMMA CrashIsHidden == SinkInv /\ Crash => UNCHANGED Stream!streamVars
<1> SUFFICES ASSUME SinkInv, Crash PROVE UNCHANGED Stream!streamVars
  OBVIOUS
<1>1. records \in Seq(Record) /\ Len(records) \in Nat /\ published \in 0 .. Len(records)
  BY Numbers DEF SinkInv, TypeOK, StreamsTypeOK, Counters
<1>2. durable' = durable /\ published' = published /\ records' = SubSeq(records, 1, published)
  BY DEF Crash
<1>3. \A i \in 1 .. published : records'[i] = records[i]
  BY <1>1, <1>2, PrefixType
<1>4. Published' = Published
  BY <1>2, <1>3 DEF Published
<1> QED BY <1>2, <1>4 DEF Stream!streamVars

LEMMA OtherStepsAreHidden ==
  ASSUME SinkInv,
         \/ SetProperty \/ Start \/ StartRejected \/ StartWhenStarted
         \/ \E kind \in BufferKinds, timestamp \in {None} \cup Timestamps : Render(kind, timestamp)
         \/ FlushFails \/ WriteRecord \/ RecordRejected \/ RecordPanics
         \/ WriteBuffer \/ WriteBufferToSync \/ Synced \/ EventPanics
         \/ Stop \/ WriteFinalRecord \/ Stopped \/ StoppedToSeal \/ SealData \/ SealIndex
         \/ StopFails \/ DropWriter \/ UNCHANGED vars
  PROVE  UNCHANGED Stream!streamVars
<1>1. CASE WriteRecord \/ WriteFinalRecord
  <2>1. records \in Seq(Record) /\ Len(records) \in Nat /\ published \in Nat
        /\ published <= Len(records)
    BY Numbers DEF SinkInv, TypeOK, StreamsTypeOK, Counters
  <2>2. UNCHANGED <<durable, published>>
    BY <1>1 DEF WriteRecord, WriteFinalRecord
  <2>3. records' = records \/ \E r : records' = Append(records, r)
    BY <1>1 DEF WriteRecord, WriteFinalRecord
  <2>4. \A i \in 1 .. published : records'[i] = records[i]
    BY <2>1, <2>3
  <2>5. Published' = Published
    BY <2>2, <2>4 DEF Published
  <2> QED BY <2>2, <2>5 DEF Stream!streamVars
<1>2. CASE \E kind \in BufferKinds, timestamp \in {None} \cup Timestamps : Render(kind, timestamp)
  BY <1>2, Hidden DEF Render
<1>3. CASE SetProperty \/ Start \/ StartRejected \/ StartWhenStarted
           \/ FlushFails \/ RecordRejected \/ RecordPanics \/ WriteBuffer \/ WriteBufferToSync
           \/ Synced \/ EventPanics \/ Stop \/ Stopped \/ StoppedToSeal \/ SealData \/ SealIndex
           \/ StopFails \/ DropWriter \/ UNCHANGED vars
  BY <1>3, Hidden
     DEF SetProperty, Start, StartRejected, StartWhenStarted, FlushFails, RecordRejected,
         RecordPanics, WriteBuffer, WriteBufferToSync, Synced, EventPanics, Stop, Stopped,
         StoppedToSeal, SealData, SealIndex, StopFails, DropWriter, Failure, streams, vars
<1> QED BY <1>1, <1>2, <1>3

(***************************************************************************)
(* The sink implements VideoStream: whatever fails or crashes, a record    *)
(* appears on the server only after all the data before its offset, no     *)
(* record points behind one that came before it, and nothing that a reader *)
(* has seen is taken back.                                                 *)
(***************************************************************************)
THEOREM SinkImplementsStream == Spec => ImplementsVideoStream
<1>1. Init => Stream!StreamInit
  BY DEF Init, Stream!StreamInit, Published
<1>2. SinkInv /\ OrderInv /\ SinkInv' /\ [Next]_vars => [Stream!StreamNext]_Stream!streamVars
  <2> SUFFICES ASSUME SinkInv, OrderInv, SinkInv', [Next]_vars
               PROVE  Stream!StreamNext \/ UNCHANGED Stream!streamVars
    OBVIOUS
  <2> QED BY PersistRefines, CrashIsHidden, OtherStepsAreHidden, Zenon DEF Next
<1>3. Spec => []OrderInv
  BY OrderInvInit, OrderInvNext, SinkInvariant, PTL DEF Spec
<1> QED BY <1>1, <1>2, <1>3, SinkInvariant, PTL DEF Spec, ImplementsVideoStream, Stream!StreamSpec

------------------------------------------------------------------------------
(* The other promises of the sink.  Each has an invariant of its own.        *)

Timed(k) == events[k].timestamp # None
Current(k) == events[k].session = session

(* Every event is before the time t, and every record no later. *)
Reached(t) ==
  /\ \A k \in 1 .. Len(events) : Timed(k) => events[k].timestamp < t
  /\ \A i \in 1 .. Len(records) : records[i].timestamp <= t

(* The buffer begins after everything that was written before it. *)
TimeInv ==
  /\ Reached(nextTimestamp)
  /\ pc \in {"flush", "write"} /\ buffer.timestamp # None => Reached(buffer.timestamp)
  /\ pc \in {"flush", "write", "sync"} /\ buffer.timestamp # None =>
       nextTimestamp = buffer.timestamp + Longest(buffer.kind.duration)
  /\ finalTimestamp <= nextTimestamp
  /\ firstValid <= nextTimestamp /\ lastIndex <= nextTimestamp

(* What IncludeInIndex compares with: no event of the session is before the first
   valid timestamp, none after the last record is before that record, and a
   buffer that is left out is close to one of them. *)
GapInv ==
  pc # "stopped" =>
    /\ settings.min <= settings.max
    /\ \A k \in 1 .. Len(events) :
         Current(k) /\ Timed(k) => firstValid # None /\ firstValid <= events[k].timestamp
    /\ lastIndex # None =>
         \E i \in 1 .. Len(records) :
           /\ records[i].timestamp = lastIndex
           /\ \A k \in records[i].offset + 1 .. Len(events) :
                Timed(k) => lastIndex <= events[k].timestamp
    /\ pc \in {"flush", "write"} /\ buffer.timestamp # None =>
         /\ firstValid # None /\ firstValid <= buffer.timestamp
         /\ lastIndex <= buffer.timestamp
         /\ ~buffer.include =>
              buffer.timestamp <=
                (IF lastIndex = None THEN firstValid ELSE lastIndex) + settings.max
    /\ pc = "write" /\ buffer.include =>
         \E i \in 1 .. Len(records) : records[i].offset = Len(events)
    /\ IndexGapsBounded

(* The final record will be at the end of the data, and there will be one if
   there is anything to find. *)
TimedSession == \E k \in 1 .. Len(events) : Current(k) /\ Timed(k)

IndexReachesEnd ==
  TimedSession => records # << >> /\ records[Len(records)].offset = Len(events)

EndInv ==
  /\ pc \in {"idle", "flush", "write", "failed", "stopping"} =>
       /\ TimedSession => HasFinal
       /\ finalOffset # None => finalOffset = Len(events)
  /\ pc = "sync" /\ TimedSession => buffer.timestamp # None \/ finalTimestamp # None
  /\ pc \in {"stopIndex", "sealData", "sealIndex"} => durable = Len(events) /\ IndexReachesEnd
  /\ pc \in {"sealData", "sealIndex"} => published = Len(records)
  /\ sealed # {} =>
       /\ pc \in {"sealIndex", "stopped", "stuck", "unreachable"}
       /\ durable = Len(events) /\ published = Len(records) /\ IndexReachesEnd

(* Each record divides the events by their time. *)
Brackets ==
  /\ \A i, j \in 1 .. Len(records) : i <= j => records[i].timestamp <= records[j].timestamp
  /\ \A i \in 1 .. Len(records), k \in 1 .. Len(events) : Timed(k) =>
       /\ k <= records[i].offset => events[k].timestamp < records[i].timestamp
       /\ k > records[i].offset => records[i].timestamp <= events[k].timestamp

BracketInv ==
  /\ Brackets
  /\ /\ finalTimestamp # None
     /\ \/ pc \in {"idle", "flush", "failed", "stopping"}
        \/ pc \in {"write", "sync"} /\ buffer.timestamp = None
     => Reached(finalTimestamp)

(* A record of render may be written at the time t, and the final one. *)
Past(t) == \A i \in 1 .. Len(records) :
  \/ records[i].timestamp < t
  \/ records[i].timestamp = t /\ records[i].final

Before(t) == \A i \in 1 .. Len(records) : records[i].timestamp < t

(* Only a final record may have the time of the next one: the buffer that is being
   written, and the last one before stop, are later than it. *)
FollowInv ==
  /\ \A i, j \in 1 .. Len(records) : i < j => Follows(records[i], records[j])
  /\ Past(nextTimestamp)
  /\ pc = "flush" /\ buffer.timestamp # None => Past(buffer.timestamp)
  /\ pc \in {"write", "sync"} /\ buffer.timestamp # None =>
       \A i \in 1 .. Len(records) : records[i].timestamp <= buffer.timestamp
  /\ /\ finalTimestamp # None
     /\ \/ pc \in {"idle", "flush", "failed", "stopping"}
        \/ pc \in {"write", "sync"} /\ buffer.timestamp = None
     => Before(finalTimestamp)

(* Sessions follow each other in both streams, and records that render has written
   without a discontinuity after the first are of one session. *)
SessionInv ==
  /\ \A k, m \in 1 .. Len(events) : k <= m => events[k].session <= events[m].session
  /\ \A k \in 1 .. Len(events) : events[k].session <= session
  /\ \A i \in 1 .. Len(records) : records[i].session <= session
  /\ \A i \in 1 .. Len(records), k \in 1 .. Len(events) :
       /\ k <= records[i].offset => events[k].session <= records[i].session
       /\ k > records[i].offset => events[k].session >= records[i].session
  /\ finalOffset # None =>
       \A k \in finalOffset + 1 .. Len(events) : events[k].session >= session
  /\ lastIndex # None => records # << >> /\ records[Len(records)].session = session
  /\ pc = "flush" /\ ~buffer.discontinuity => lastIndex # None
  /\ \A i, j \in 1 .. Len(records) :
       /\ i < j
       /\ \A m \in i + 1 .. j : ~records[m].discontinuity /\ ~records[m].final
       => records[i].session = records[j].session

(* The first buffer that a session writes is marked. *)
MarkInv ==
  /\ SessionsBeginMarked
  /\ wroteBuffer => events # << >> /\ Current(Len(events))
  /\ pc \in {"flush", "write"} /\ ~wroteBuffer => buffer.discontinuity

------------------------------------------------------------------------------
(* What the steps that write do to the two streams. *)

(* The record of a buffer, and the final one. *)
Rendered ==
  [timestamp |-> buffer.timestamp, offset |-> buffer.offset,
   randomAccess |-> ~buffer.kind.delta, discontinuity |-> buffer.discontinuity,
   session |-> session, final |-> FALSE]

Final ==
  [timestamp |-> finalTimestamp, offset |-> finalOffset,
   randomAccess |-> FALSE, discontinuity |-> FALSE, session |-> session, final |-> TRUE]

LEMMA RecordAdded ==
  ASSUME SinkInv, NEW r, records' = Append(records, r)
  PROVE  /\ Len(records) \in Nat /\ Len(records') = Len(records) + 1
         /\ \A i \in 1 .. Len(records) : records'[i] = records[i]
         /\ records'[Len(records) + 1] = r /\ records' # << >>
<1> DEFINE S == Record \cup {r}
<1>1. records \in Seq(S) /\ r \in S
  BY DEF SinkInv, TypeOK, StreamsTypeOK
<1>2. records' \in Seq(S) /\ Len(records') = Len(records) + 1 /\ Len(records) \in Nat
      /\ \A i \in 1 .. Len(records) : records'[i] = records[i]
      /\ records'[Len(records) + 1] = r
  BY <1>1, AppendType
<1> QED BY <1>2

LEMMA RecordFacts ==
  ASSUME SinkInv, WriteRecord
  PROVE  /\ records' = Append(records, Rendered)
         /\ pc = "flush" /\ pc' = "write" /\ lastIndex' = buffer.timestamp
         /\ buffer.timestamp # None /\ buffer.offset = Len(events)
         /\ durable = Len(events) /\ published = Len(records)
         /\ UNCHANGED <<events, submitted, durable, published, sealed, settings, buffer,
                        firstValid, finalTimestamp, finalOffset, wroteBuffer, session,
                        nextTimestamp>>
BY DEF WriteRecord, Rendered, SinkInv, BufferInv, DataFlushed, IndexFlushed

LEMMA FinalFacts ==
  ASSUME WriteFinalRecord
  PROVE  /\ records' = IF HasFinal THEN Append(records, Final) ELSE records
         /\ pc = "stopping" /\ pc' = "stopIndex" /\ durable = Len(events)
         /\ UNCHANGED <<events, submitted, durable, published, sealed, settings, buffer,
                        firstValid, lastIndex, finalTimestamp, finalOffset, wroteBuffer,
                        session, nextTimestamp>>
BY DEF WriteFinalRecord, Final, progress, DataFlushed

(* All events of a buffer have its time, and the first its mark. *)
LEMMA EventsAdded ==
  ASSUME SinkInv, pc = "write", NEW n \in 0 .. buffer.kind.events, WriteEvents(n)
  PROVE  /\ n \in Nat /\ Len(events) \in Nat /\ Len(events') = Len(events) + n
         /\ \A k \in 1 .. Len(events) : events'[k] = events[k]
         /\ \A k \in Len(events) + 1 .. Len(events) + n :
              events'[k].timestamp = buffer.timestamp /\ events'[k].session = session
         /\ n > 0 => events'[Len(events) + 1].discontinuity = buffer.discontinuity
<1>1. events \in Seq(Event) /\ buffer \in Buffer /\ session \in Nat
  BY DEF SinkInv, TypeOK, StreamsTypeOK
<1>2. n \in Nat /\ Len(events) \in Nat
  <2>1. buffer.kind.events \in Nat
    BY <1>1, Bounds DEF Buffer
  <2> QED BY <1>1, <2>1
<1> DEFINE t == [i \in 1 .. n |-> EventOf(i)]
           S == Event \cup {EventOf(i) : i \in 1 .. n}
<1>3. t \in [1 .. n -> S] /\ events \in Seq(S) /\ events' = events \o t
  BY <1>1 DEF WriteEvents
<1>4. \A i \in 1 .. n : t[i] = EventOf(i)
  OBVIOUS
<1> HIDE DEF t, S
<1>5. t \in Seq(S) /\ Len(t) = n
  BY <1>2, <1>3
<1>6. /\ Len(events') = Len(events) + n
      /\ \A k \in 1 .. Len(events) : events'[k] = events[k]
      /\ \A k \in Len(events) + 1 .. Len(events) + n : events'[k] = t[k - Len(events)]
  <2>1. Len(events \o t) = Len(events) + n
        /\ \A k \in 1 .. Len(events) + n :
             (events \o t)[k] = IF k <= Len(events) THEN events[k] ELSE t[k - Len(events)]
    BY <1>3, <1>5, ConcatProperties
  <2>2. \A k \in 1 .. Len(events) : k \in 1 .. Len(events) + n /\ k <= Len(events)
    BY <1>2
  <2>3. \A k \in Len(events) + 1 .. Len(events) + n :
          k \in 1 .. Len(events) + n /\ ~(k <= Len(events))
    BY <1>2
  <2> QED BY <1>3, <2>1, <2>2, <2>3
<1>7. \A k \in Len(events) + 1 .. Len(events) + n :
        k - Len(events) \in 1 .. n /\ events'[k] = EventOf(k - Len(events))
  BY <1>2, <1>4, <1>6
<1>8. n > 0 => events'[Len(events) + 1] = EventOf(1)
  <2>1. n > 0 => Len(events) + 1 \in Len(events) + 1 .. Len(events) + n
                 /\ (Len(events) + 1) - Len(events) = 1
    BY <1>2
  <2> QED BY <1>7, <2>1
<1>9. \A i : EventOf(i).timestamp = buffer.timestamp /\ EventOf(i).session = session
  BY DEF EventOf
<1>10. EventOf(1).discontinuity = buffer.discontinuity
  <2>1. buffer.discontinuity \in BOOLEAN
    BY <1>1 DEF Buffer
  <2> QED BY <2>1 DEF EventOf
<1> QED BY <1>2, <1>6, <1>7, <1>8, <1>9, <1>10

LEMMA CrashFacts ==
  ASSUME SinkInv, Crash
  PROVE  /\ durable \in Nat /\ durable <= Len(events) /\ Len(events) \in Nat
         /\ published \in Nat /\ published <= Len(records) /\ Len(records) \in Nat
         /\ Len(events') = durable /\ \A k \in 1 .. durable : events'[k] = events[k]
         /\ Len(records') = published /\ \A i \in 1 .. published : records'[i] = records[i]
         /\ pc' = "stopped" /\ buffer' = NoBuffer /\ firstValid' = None /\ lastIndex' = None
         /\ finalTimestamp' = None /\ finalOffset' = None /\ wroteBuffer' = FALSE
         /\ UNCHANGED <<durable, published, sealed, settings, session, nextTimestamp>>
<1>1. /\ events \in Seq(Event) /\ records \in Seq(Record)
      /\ durable \in Nat /\ durable <= Len(events) /\ Len(events) \in Nat
      /\ published \in Nat /\ published <= Len(records) /\ Len(records) \in Nat
  BY Numbers DEF SinkInv, TypeOK, StreamsTypeOK, Counters
<1>2. durable \in 0 .. Len(events) /\ published \in 0 .. Len(records)
  BY <1>1
<1>3. events' = SubSeq(events, 1, durable) /\ records' = SubSeq(records, 1, published)
  BY DEF Crash
<1>4. Len(events') = durable /\ \A k \in 1 .. durable : events'[k] = events[k]
  BY <1>1, <1>2, <1>3, PrefixType
<1>5. Len(records') = published /\ \A i \in 1 .. published : records'[i] = records[i]
  BY <1>1, <1>2, <1>3, PrefixType
<1> QED BY <1>1, <1>4, <1>5 DEF Crash, Leave, Fresh

------------------------------------------------------------------------------
(* IndexLagBounded *)

LEMMA LagStep == SinkInv /\ IndexLagBounded /\ [Next]_vars => IndexLagBounded'
<1> SUFFICES ASSUME SinkInv, IndexLagBounded, [Next]_vars PROVE IndexLagBounded'
  OBVIOUS
<1>1. Len(records) \in Nat /\ published \in Nat /\ published <= Len(records)
  BY Numbers DEF SinkInv, Counters
<1>2. CASE \/ PersistEvent \/ SetProperty \/ Start \/ StartRejected \/ StartWhenStarted
           \/ \E kind \in BufferKinds, timestamp \in {None} \cup Timestamps : Render(kind, timestamp)
           \/ FlushFails \/ RecordRejected \/ RecordPanics
           \/ WriteBuffer \/ WriteBufferToSync \/ Synced \/ EventPanics
           \/ Stop \/ SealData \/ SealIndex \/ StopFails \/ DropWriter \/ UNCHANGED vars
  <2>1. UNCHANGED <<records, published>>
    BY <1>2 DEF PersistEvent, SetProperty, Start, StartRejected, StartWhenStarted, Render,
       FlushFails, RecordRejected, RecordPanics, WriteBuffer, WriteBufferToSync, Synced,
       EventPanics, Stop, SealData, SealIndex, StopFails, DropWriter, Failure, streams, vars
  <2>2. \/ pc' \in {"stopIndex", "stuck", "unreachable"}
        \/ pc \notin {"stopIndex", "stuck", "unreachable"}
    BY <1>2 DEF PersistEvent, SetProperty, Start, StartRejected, StartWhenStarted, Render,
       FlushFails, RecordRejected, RecordPanics, WriteBuffer, WriteBufferToSync, Synced,
       EventPanics, Stop, SealData, SealIndex, StopFails, DropWriter, Failure, EndOfBuffer,
       Leave, vars
  <2> QED BY <1>1, <2>1, <2>2 DEF IndexLagBounded
<1>3. CASE PersistRecord
  BY <1>1, <1>3 DEF PersistRecord, IndexLagBounded
<1>4. CASE WriteRecord
  <2>1. Len(records') = Len(records) + 1 /\ published = Len(records) /\ published' = published
    BY <1>4, RecordFacts, RecordAdded
  <2> QED BY <1>1, <2>1 DEF IndexLagBounded
<1>5. CASE WriteFinalRecord
  <2>1. Len(records') \in {Len(records), Len(records) + 1} /\ published' = published
        /\ pc = "stopping" /\ pc' = "stopIndex"
    BY <1>5, FinalFacts, RecordAdded
  <2>2. Len(records) - published <= 1
    BY <2>1 DEF IndexLagBounded
  <2>3. Len(records') - published' <= 2
    BY <1>1, <2>1, <2>2
  <2> QED BY <2>1, <2>3 DEF IndexLagBounded
<1>6. CASE Stopped \/ StoppedToSeal
  <2>1. Len(records') = published' /\ published' \in Nat
    BY <1>1, <1>6 DEF Stopped, StoppedToSeal, IndexFlushed, streams
  <2>2. \A n \in Nat : n - n = 0
    OBVIOUS
  <2>3. Len(records') - published' = 0
    BY <2>1, <2>2
  <2> QED BY <2>3 DEF IndexLagBounded
<1>7. CASE Crash
  <2>1. Len(records') = published' /\ published' \in Nat
    BY <1>7, CrashFacts
  <2>2. \A n \in Nat : n - n = 0
    OBVIOUS
  <2>3. Len(records') - published' = 0
    BY <2>1, <2>2
  <2> QED BY <2>3 DEF IndexLagBounded
<1> QED BY <1>2, <1>3, <1>4, <1>5, <1>6, <1>7, Zenon DEF Next

(***************************************************************************)
(* A crash loses at most the last record of the index, or the last two if  *)
(* stop has just written the final one: render and stop wait for the index *)
(* to be flushed before they write more.                                   *)
(***************************************************************************)
THEOREM IndexLagHolds == Spec => []IndexLagBounded
<1>1. Init => IndexLagBounded
  BY DEF Init, IndexLagBounded
<1> QED BY <1>1, LagStep, SinkInvariant, PTL DEF Spec

------------------------------------------------------------------------------
(* ContinuousBetweenRenderedRecords *)

LEMMA SessionNumbers ==
  ASSUME SinkInv
  PROVE  /\ session \in Nat /\ Len(events) \in Nat /\ Len(records) \in Nat
         /\ \A k \in 1 .. Len(events) : events[k].session \in Nat
         /\ \A i \in 1 .. Len(records) : records[i].session \in Nat /\ records[i].offset \in Nat
         /\ finalOffset \in Nat \cup {None} /\ None \notin Nat
<1>1. events \in Seq(Event) /\ records \in Seq(Record) /\ session \in Nat
  BY DEF SinkInv, TypeOK, StreamsTypeOK
<1>2. \A k \in 1 .. Len(events) : events[k] \in Event
  BY <1>1
<1>3. \A i \in 1 .. Len(records) : records[i] \in Record
  BY <1>1
<1> QED BY <1>1, <1>2, <1>3, Numbers, Bounds DEF SinkInv, Event, Record

LEMMA SessionStays ==
  ASSUME SinkInv, SessionInv, UNCHANGED <<events, records>>, session' \in {session, session + 1},
         \/ finalOffset' = None \/ finalOffset' = Len(events)
         \/ finalOffset' = finalOffset /\ session' = session,
         lastIndex' = None \/ (lastIndex' = lastIndex /\ session' = session),
         pc' = "flush" /\ ~(buffer').discontinuity => lastIndex' # None
  PROVE  SessionInv'
<1>1. session' \in Nat /\ session <= session' /\ session \in Nat /\ Len(events) \in Nat
  BY SessionNumbers
<1>2. \A k \in 1 .. Len(events) : events[k].session <= session'
  BY <1>1, SessionNumbers DEF SessionInv
<1>3. \A i \in 1 .. Len(records) : records[i].session <= session'
  BY <1>1, SessionNumbers DEF SessionInv
<1>4. finalOffset' # None =>
        \A k \in finalOffset' + 1 .. Len(events') : events'[k].session >= session'
  <2>1. CASE finalOffset' = None
    BY <2>1
  <2>2. CASE finalOffset' = Len(events)
    <3>1. \A k \in Len(events) + 1 .. Len(events) : FALSE
      BY <1>1
    <3> QED BY <2>2, <3>1
  <2>3. CASE finalOffset' = finalOffset /\ session' = session
    BY <2>3 DEF SessionInv
  <2> QED BY <2>1, <2>2, <2>3
<1> QED BY <1>2, <1>3, <1>4 DEF SessionInv

LEMMA SessionOther ==
  ASSUME SinkInv, SessionInv,
         \/ PersistEvent \/ PersistRecord
         \/ SetProperty \/ Start \/ StartRejected \/ StartWhenStarted
         \/ FlushFails \/ RecordRejected \/ RecordPanics \/ Synced
         \/ Stop \/ Stopped \/ StoppedToSeal \/ SealData \/ SealIndex
         \/ StopFails \/ DropWriter \/ UNCHANGED vars
  PROVE  SessionInv'
<1> USE DEF streams, progress
<1>1. CASE PersistEvent \/ PersistRecord \/ SetProperty \/ StartRejected \/ DropWriter
           \/ UNCHANGED vars
  <2>1. UNCHANGED <<events, records, session, finalOffset, lastIndex, pc, buffer>>
    BY <1>1 DEF PersistEvent, PersistRecord, SetProperty, StartRejected, DropWriter, vars
  <2> QED BY <2>1, SessionStays DEF SessionInv
<1>2. CASE Start \/ Stopped \/ SealIndex
  <2>1. /\ UNCHANGED <<events, records>> /\ session' \in {session, session + 1}
        /\ finalOffset' = None /\ lastIndex' = None /\ pc' # "flush"
    BY <1>2 DEF Start, Stopped, SealIndex, Leave, Fresh
  <2>2. UNCHANGED <<events, records>> /\ session' \in {session, session + 1}
    BY <2>1
  <2>3. finalOffset' = None /\ lastIndex' = None /\ pc' # "flush"
    BY <2>1
  <2> HIDE DEF streams, progress
  <2> QED BY <2>2, <2>3, SessionStays
<1>3. CASE StartWhenStarted \/ Stop \/ StoppedToSeal \/ SealData
           \/ FlushFails \/ RecordRejected \/ RecordPanics \/ StopFails
  <2>1. UNCHANGED <<events, records, session, finalOffset, lastIndex>> /\ pc' # "flush"
    BY <1>3 DEF StartWhenStarted, Stop, StoppedToSeal, SealData, FlushFails, RecordRejected,
                RecordPanics, StopFails, Failure
  <2> QED BY <2>1, SessionStays
<1>4. CASE Synced
  <2>1. /\ UNCHANGED <<events, records, session, lastIndex>>
        /\ finalOffset' = Len(events) /\ pc' # "flush"
    BY <1>4 DEF Synced, EndOfBuffer
  <2> QED BY <2>1, SessionStays
<1> QED BY <1>1, <1>2, <1>3, <1>4

(* What render keeps for WriteRecord and WriteBuffer. *)
LEMMA RenderFacts ==
  ASSUME SinkInv, NEW kind \in BufferKinds, NEW timestamp \in {None} \cup Timestamps,
         Render(kind, timestamp)
  PROVE  /\ pc = "idle" /\ pc' \in {"flush", "write"}
         /\ UNCHANGED <<events, durable, records, published, sealed, settings,
                        lastIndex, finalTimestamp, finalOffset, wroteBuffer, session>>
         /\ firstValid' = IF firstValid = None THEN timestamp ELSE firstValid
         /\ nextTimestamp' = IF InOrder /\ timestamp # None
                               THEN timestamp + Longest(kind.duration) ELSE nextTimestamp
         /\ timestamp # None => timestamp >= nextTimestamp
         /\ (buffer').kind = kind /\ (buffer').timestamp = timestamp
         /\ (buffer').offset = Len(events)
         /\ (buffer').include <=> IncludeInIndex(timestamp, kind.delta, firstValid')
         /\ (buffer').discontinuity <=>
              kind.discont \/ ~wroteBuffer \/ ((buffer').include /\ lastIndex = None)
         /\ (buffer').include \in BOOLEAN /\ (buffer').discontinuity \in BOOLEAN
         /\ pc' = "flush" <=> (buffer').include
<1> DEFINE first == IF firstValid = None THEN timestamp ELSE firstValid
           include == IncludeInIndex(timestamp, kind.delta, first)
           discontinuity == Discontinuity(kind, include)
<1>1. /\ pc = "idle" /\ firstValid' = first
      /\ buffer' = [kind |-> kind, timestamp |-> timestamp, include |-> include,
                    discontinuity |-> discontinuity, offset |-> Len(events)]
      /\ (include => pc' = "flush") /\ (~include => pc' = "write")
  BY Zenon DEF Render
<1>2. include \in BOOLEAN /\ discontinuity \in BOOLEAN
  BY DEF IncludeInIndex, Discontinuity
<1>3. discontinuity <=> kind.discont \/ ~wroteBuffer \/ (include /\ lastIndex = None)
  <2> HIDE DEF include
  <2> QED BY DEF Discontinuity
<1>4. /\ UNCHANGED <<events, durable, records, published, sealed, settings,
                     lastIndex, finalTimestamp, finalOffset, wroteBuffer, session>>
      /\ nextTimestamp' = IF InOrder /\ timestamp # None
                            THEN timestamp + Longest(kind.duration) ELSE nextTimestamp
      /\ timestamp # None => timestamp >= nextTimestamp
  BY DEF Render
<1>5. /\ (buffer').kind = kind /\ (buffer').timestamp = timestamp
      /\ (buffer').offset = Len(events)
      /\ (buffer').include = include /\ (buffer').discontinuity = discontinuity
  <2> HIDE DEF include, discontinuity
  <2> QED BY <1>1
<1>6. include <=> IncludeInIndex(timestamp, kind.delta, firstValid')
  BY <1>1
<1> HIDE DEF include, discontinuity, first
<1>7. pc' = "flush" <=> include
  BY <1>1
<1>8. firstValid' = IF firstValid = None THEN timestamp ELSE firstValid
  BY <1>1 DEF first
<1> QED BY <1>1, <1>2, <1>3, <1>4, <1>5, <1>6, <1>7, <1>8

LEMMA SessionRender ==
  ASSUME SinkInv, SessionInv, NEW kind \in BufferKinds,
         NEW timestamp \in {None} \cup Timestamps, Render(kind, timestamp)
  PROVE  SessionInv'
<1>1. /\ UNCHANGED <<events, records, session, finalOffset, lastIndex>>
      /\ pc' = "flush" /\ ~(buffer').discontinuity => lastIndex' # None
  BY RenderFacts
<1> QED BY <1>1, SessionStays

(* Events of this session go behind all others. *)
LEMMA SessionWrites ==
  ASSUME SinkInv, SessionInv, pc = "write",
         NEW n \in 0 .. buffer.kind.events, WriteEvents(n),
         UNCHANGED <<records, session, lastIndex>>,
         finalOffset' \in {finalOffset, Len(events')}, pc' # "flush"
  PROVE  SessionInv'
<1> DEFINE L == Len(events)
<1>1. /\ n \in Nat /\ L \in Nat /\ Len(events') = L + n
      /\ \A k \in 1 .. L : events'[k] = events[k]
      /\ \A k \in L + 1 .. L + n : events'[k].session = session
  BY EventsAdded
<1>2. /\ session \in Nat
      /\ \A k \in 1 .. L : events[k].session \in Nat /\ events[k].session <= session
      /\ \A i \in 1 .. Len(records) :
           /\ records[i].session \in Nat /\ records[i].session <= session
           /\ records[i].offset \in Nat /\ records[i].offset <= L
      /\ finalOffset \in Nat \cup {None}
  <2>1. durable \in Nat /\ durable <= L
    BY Numbers DEF SinkInv, Counters
  <2>2. \A i \in 1 .. Len(records) : records[i].offset <= durable
    BY DEF SinkInv, DataIsDurable
  <2> QED BY <1>1, <2>1, <2>2, SessionNumbers DEF SessionInv
<1> HIDE DEF L
<1>3. \A k \in 1 .. L + n : /\ k \in 1 .. L \/ k \in L + 1 .. L + n
                            /\ events'[k].session \in Nat /\ events'[k].session <= session
  <2> SUFFICES ASSUME NEW k \in 1 .. L + n
               PROVE  /\ k \in 1 .. L \/ k \in L + 1 .. L + n
                      /\ events'[k].session \in Nat /\ events'[k].session <= session
    OBVIOUS
  <2>1. k \in 1 .. L \/ k \in L + 1 .. L + n
    BY <1>1
  <2>2. CASE k \in 1 .. L
    BY <1>1, <1>2, <2>1, <2>2
  <2>3. CASE k \in L + 1 .. L + n
    BY <1>1, <1>2, <2>1, <2>3
  <2> QED BY <2>1, <2>2, <2>3
<1>4. ASSUME NEW k \in 1 .. L + n, NEW m \in 1 .. L + n, k <= m
      PROVE  events'[k].session <= events'[m].session
  <2>1. CASE m \in 1 .. L
    <3>1. k \in 1 .. L
      BY <1>1, <1>4, <2>1
    <3> QED BY <1>1, <1>4, <2>1, <3>1 DEF SessionInv, L
  <2>2. CASE m \in L + 1 .. L + n
    BY <1>1, <1>3, <2>2
  <2> QED BY <1>3, <2>1, <2>2
<1>5. ASSUME NEW i \in 1 .. Len(records), NEW k \in 1 .. L + n
      PROVE  /\ k <= records[i].offset => events'[k].session <= records[i].session
             /\ k > records[i].offset => events'[k].session >= records[i].session
  <2>1. CASE k \in 1 .. L
    BY <1>1, <2>1 DEF SessionInv, L
  <2>2. CASE k \in L + 1 .. L + n
    <3>1. ~(k <= records[i].offset)
      BY <1>1, <1>2, <2>2
    <3>2. events'[k].session = session /\ records[i].session <= session
          /\ records[i].session \in Nat
      BY <1>1, <1>2, <2>2
    <3>3. events'[k].session >= records[i].session
      BY <1>2, <3>2
    <3> QED BY <3>1, <3>3
  <2> QED BY <1>3, <2>1, <2>2
<1>6. finalOffset' # None =>
        \A k \in finalOffset' + 1 .. L + n : events'[k].session >= session
  <2>1. CASE finalOffset' = Len(events')
    <3>1. \A k \in (L + n) + 1 .. L + n : FALSE
      BY <1>1
    <3> QED BY <1>1, <2>1, <3>1
  <2>2. CASE finalOffset' = finalOffset
    <3> SUFFICES ASSUME finalOffset # None, NEW k \in finalOffset + 1 .. L + n
                 PROVE  events'[k].session >= session
      BY <2>2
    <3>1. finalOffset \in Nat /\ k \in 1 .. L + n
      BY <1>1, <1>2
    <3>2. CASE k \in 1 .. L
      <4>1. k \in finalOffset + 1 .. L
        BY <1>1, <3>1, <3>2
      <4> QED BY <1>1, <3>2, <4>1 DEF SessionInv, L
    <3>3. CASE k \in L + 1 .. L + n
      BY <1>1, <1>2, <3>3
    <3> QED BY <1>3, <3>1, <3>2, <3>3
  <2> QED BY <2>1, <2>2
<1>7. \A k \in 1 .. L + n : events'[k].session <= session
  BY <1>3
<1> QED BY <1>1, <1>4, <1>5, <1>6, <1>7 DEF SessionInv

LEMMA SessionBufferSteps ==
  ASSUME SinkInv, SessionInv, WriteBuffer \/ WriteBufferToSync \/ EventPanics
  PROVE  SessionInv'
<1>1. buffer.kind.events \in 0 .. buffer.kind.events
      /\ \A n \in 0 .. buffer.kind.events - 1 : n \in 0 .. buffer.kind.events
  BY Bounds DEF SinkInv, TypeOK, Buffer
<1>2. CASE WriteBuffer
  <2>1. /\ pc = "write" /\ WriteEvents(buffer.kind.events) /\ pc' # "flush"
        /\ UNCHANGED <<records, session, lastIndex>> /\ finalOffset' = Len(events')
    BY <1>2 DEF WriteBuffer, EndOfBuffer
  <2> QED BY <1>1, <2>1, SessionWrites
<1>3. CASE WriteBufferToSync
  <2>1. /\ pc = "write" /\ WriteEvents(buffer.kind.events) /\ pc' # "flush"
        /\ UNCHANGED <<records, session, lastIndex, finalOffset>>
    BY <1>3 DEF WriteBufferToSync
  <2> QED BY <1>1, <2>1, SessionWrites
<1>4. CASE EventPanics
  <2>1. PICK n \in 0 .. buffer.kind.events - 1 : WriteEvents(n)
    BY <1>4 DEF EventPanics
  <2>2. /\ pc = "write" /\ pc' # "flush"
        /\ UNCHANGED <<records, session, lastIndex, finalOffset>>
    BY <1>4 DEF EventPanics, progress
  <2> QED BY <1>1, <2>1, <2>2, SessionWrites
<1> QED BY <1>2, <1>3, <1>4

(* A record of this session, in the middle of whose events it may only be if they
   are all of this session. *)
LEMMA SessionAppend ==
  ASSUME SinkInv, SessionInv, NEW r, records' = Append(records, r),
         r.session = session, r.offset \in Nat,
         UNCHANGED <<events, session, finalOffset>>,
         \A k \in 1 .. Len(events) : k > r.offset => events[k].session >= session,
         r.discontinuity \/ r.final
           \/ (records # << >> /\ records[Len(records)].session = session),
         pc' # "flush"
  PROVE  SessionInv'
<1> DEFINE N == Len(records)
<1>1. /\ N \in Nat /\ Len(records') = N + 1
      /\ \A i \in 1 .. N : records'[i] = records[i]
      /\ records'[N + 1] = r /\ records' # << >>
  BY RecordAdded
<1>2. /\ session \in Nat
      /\ \A k \in 1 .. Len(events) : events[k].session \in Nat /\ events[k].session <= session
      /\ \A i \in 1 .. N : records[i].session \in Nat /\ records[i].session <= session
      /\ (records # << >> => N \in 1 .. N)
  BY <1>1, SessionNumbers DEF SessionInv
<1> HIDE DEF N
<1>3. \A i \in 1 .. N + 1 : i \in 1 .. N \/ i = N + 1
  BY <1>1
<1>4. \A i \in 1 .. N + 1 : records'[i].session <= session
  BY <1>1, <1>2, <1>3
<1>5. ASSUME NEW i \in 1 .. N + 1, NEW k \in 1 .. Len(events)
      PROVE  /\ k <= records'[i].offset => events[k].session <= records'[i].session
             /\ k > records'[i].offset => events[k].session >= records'[i].session
  <2>1. CASE i \in 1 .. N
    BY <1>1, <2>1 DEF SessionInv, N
  <2>2. CASE i = N + 1
    BY <1>1, <1>2, <2>2
  <2> QED BY <1>3, <2>1, <2>2
<1>6. ASSUME NEW i \in 1 .. N + 1, NEW j \in 1 .. N + 1, i < j,
             \A m \in i + 1 .. j : ~records'[m].discontinuity /\ ~records'[m].final
      PROVE  records'[i].session = records'[j].session
  <2>1. i \in 1 .. N
    BY <1>1, <1>6
  <2>2. CASE j \in 1 .. N
    <3>1. \A m \in i + 1 .. j : m \in 1 .. N
      BY <1>1, <2>1, <2>2
    <3>2. \A m \in i + 1 .. j : ~records[m].discontinuity /\ ~records[m].final
      BY <1>1, <1>6, <3>1
    <3>3. records[i].session = records[j].session
      BY <1>6, <2>1, <2>2, <3>2 DEF SessionInv, N
    <3> QED BY <1>1, <2>1, <2>2, <3>3
  <2>3. CASE j = N + 1
    <3>1. N + 1 \in i + 1 .. j
      BY <1>1, <2>1, <2>3
    <3>2. ~r.discontinuity /\ ~r.final
      BY <1>1, <1>6, <3>1
    <3>3. records # << >> /\ records[N].session = session /\ N \in 1 .. N
      BY <1>2, <3>2 DEF N
    <3>4. records[i].session = records[N].session
      <4>1. CASE i = N
        BY <4>1
      <4>2. CASE i # N
        <5>1. i < N /\ \A m \in i + 1 .. N : m \in i + 1 .. j /\ m \in 1 .. N
          BY <1>1, <2>1, <2>3, <4>2
        <5>2. \A m \in i + 1 .. N : ~records[m].discontinuity /\ ~records[m].final
          BY <1>1, <1>6, <5>1
        <5> QED BY <2>1, <3>3, <5>1, <5>2 DEF SessionInv, N
      <4> QED BY <4>1, <4>2
    <3> QED BY <1>1, <2>1, <2>3, <3>3, <3>4
  <2> QED BY <1>3, <2>2, <2>3
<1>7. records'[Len(records')].session = session
  BY <1>1
<1>8. /\ \A k, m \in 1 .. Len(events') : k <= m => events'[k].session <= events'[m].session
      /\ \A k \in 1 .. Len(events') : events'[k].session <= session'
      /\ finalOffset' # None =>
           \A k \in finalOffset' + 1 .. Len(events') : events'[k].session >= session'
  BY DEF SessionInv
<1>9. /\ \A i \in 1 .. Len(records') : records'[i].session <= session'
      /\ \A i \in 1 .. Len(records'), k \in 1 .. Len(events') :
           /\ k <= records'[i].offset => events'[k].session <= records'[i].session
           /\ k > records'[i].offset => events'[k].session >= records'[i].session
  BY <1>1, <1>4, <1>5
<1>10. \A i, j \in 1 .. Len(records') :
         /\ i < j
         /\ \A m \in i + 1 .. j : ~records'[m].discontinuity /\ ~records'[m].final
         => records'[i].session = records'[j].session
  <2> SUFFICES ASSUME NEW i \in 1 .. Len(records'), NEW j \in 1 .. Len(records'), i < j,
                      \A m \in i + 1 .. j : ~records'[m].discontinuity /\ ~records'[m].final
               PROVE  records'[i].session = records'[j].session
    OBVIOUS
  <2>1. i \in 1 .. N + 1 /\ j \in 1 .. N + 1
    BY <1>1
  <2> QED BY <1>6, <2>1, Zenon
<1>11. records' # << >> /\ records'[Len(records')].session = session'
  BY <1>1, <1>7
<1> QED BY <1>8, <1>9, <1>10, <1>11, Zenon DEF SessionInv

LEMMA SessionRecordSteps ==
  ASSUME SinkInv, SessionInv, WriteRecord \/ WriteFinalRecord
  PROVE  SessionInv'
<1>1. Len(events) \in Nat /\ finalOffset \in Nat \cup {None}
  BY SessionNumbers
<1>2. CASE WriteRecord
  <2>1. /\ records' = Append(records, Rendered) /\ pc = "flush" /\ pc' = "write"
        /\ buffer.offset = Len(events) /\ UNCHANGED <<events, session, finalOffset>>
    BY <1>2, RecordFacts
  <2>2. Rendered.session = session /\ Rendered.offset = Len(events)
        /\ Rendered.discontinuity = buffer.discontinuity
    <3>1. buffer.discontinuity \in BOOLEAN
      BY DEF SinkInv, TypeOK, Buffer
    <3> QED BY <2>1, <3>1 DEF Rendered
  <2>3. Rendered.discontinuity \/ (records # << >> /\ records[Len(records)].session = session)
    BY <2>1, <2>2 DEF SessionInv
  <2>4. \A k \in 1 .. Len(events) : k > Rendered.offset => events[k].session >= session
    BY <1>1, <2>2
  <2>5. Rendered.offset \in Nat
    BY <1>1, <2>2
  <2> HIDE DEF Rendered
  <2> QED BY <2>1, <2>2, <2>3, <2>4, <2>5, SessionAppend
<1>3. CASE WriteFinalRecord
  <2>1. /\ records' = IF HasFinal THEN Append(records, Final) ELSE records
        /\ pc' = "stopIndex" /\ UNCHANGED <<events, session, finalOffset, lastIndex>>
    BY <1>3, FinalFacts
  <2>2. CASE HasFinal
    <3>1. Final.session = session /\ Final.offset = finalOffset /\ Final.final
      BY DEF Final
    <3>2. Final.offset \in Nat
      BY <1>1, <2>2, <3>1 DEF HasFinal
    <3>3. \A k \in 1 .. Len(events) : k > Final.offset => events[k].session >= session
      <4>1. \A k \in finalOffset + 1 .. Len(events) : events[k].session >= session
        BY <2>2 DEF SessionInv, HasFinal
      <4>2. \A k \in 1 .. Len(events) : k > finalOffset => k \in finalOffset + 1 .. Len(events)
        BY <1>1, <3>1, <3>2
      <4> QED BY <3>1, <4>1, <4>2
    <3> HIDE DEF Final
    <3> QED BY <2>1, <2>2, <3>1, <3>2, <3>3, SessionAppend
  <2>3. CASE ~HasFinal
    BY <2>1, <2>3, SessionStays
  <2> QED BY <2>2, <2>3
<1> QED BY <1>2, <1>3

LEMMA SessionCrash ==
  ASSUME SinkInv, SessionInv, Crash PROVE SessionInv'
<1>1. /\ durable \in Nat /\ durable <= Len(events) /\ Len(events) \in Nat
      /\ published \in Nat /\ published <= Len(records) /\ Len(records) \in Nat
      /\ Len(events') = durable /\ \A k \in 1 .. durable : events'[k] = events[k]
      /\ Len(records') = published /\ \A i \in 1 .. published : records'[i] = records[i]
      /\ pc' = "stopped" /\ lastIndex' = None /\ finalOffset' = None
      /\ session' = session
  BY CrashFacts
<1>2. /\ \A k \in 1 .. durable : k \in 1 .. Len(events)
      /\ \A i \in 1 .. published : i \in 1 .. Len(records)
  BY <1>1
<1>3. /\ \A k, m \in 1 .. durable : k <= m => events'[k].session <= events'[m].session
      /\ \A k \in 1 .. durable : events'[k].session <= session
      /\ \A i \in 1 .. published : records'[i].session <= session
      /\ \A i \in 1 .. published, k \in 1 .. durable :
           /\ k <= records'[i].offset => events'[k].session <= records'[i].session
           /\ k > records'[i].offset => events'[k].session >= records'[i].session
  BY <1>1, <1>2 DEF SessionInv
<1>4. ASSUME NEW i \in 1 .. published, NEW j \in 1 .. published, i < j,
             \A m \in i + 1 .. j : ~records'[m].discontinuity /\ ~records'[m].final
      PROVE  records'[i].session = records'[j].session
  <2>1. \A m \in i + 1 .. j : m \in 1 .. published
    BY <1>1
  <2>2. \A m \in i + 1 .. j : ~records[m].discontinuity /\ ~records[m].final
    BY <1>1, <1>4, <2>1
  <2>3. records[i].session = records[j].session
    BY <1>2, <1>4, <2>2 DEF SessionInv
  <2> QED BY <1>1, <2>3
<1> QED BY <1>1, <1>3, <1>4 DEF SessionInv

LEMMA SessionInvNext == SinkInv /\ SessionInv /\ [Next]_vars => SessionInv'
<1> SUFFICES ASSUME SinkInv, SessionInv, [Next]_vars PROVE SessionInv'
  OBVIOUS
<1> QED BY SessionOther, SessionRender, SessionBufferSteps, SessionRecordSteps, SessionCrash,
           Zenon DEF Next

(* Both streams hold the sessions one after the other, and the index divides the
   events between them, whatever fails and crashes. *)
THEOREM SessionInvariant == Spec => []SessionInv
<1>1. Init => SessionInv
  BY DEF Init, SessionInv
<1> QED BY <1>1, SessionInvNext, SinkInvariant, PTL DEF Spec

(***************************************************************************)
(* Constraint 4 of index.rs, where no final record of an earlier stop is   *)
(* in between: records without a discontinuity after the first enclose     *)
(* events of one session, through crashes and restarts.                    *)
(***************************************************************************)
THEOREM ContinuousHolds == Spec => []ContinuousBetweenRenderedRecords
<1>1. SinkInv /\ SessionInv => ContinuousBetweenRenderedRecords
  <2> SUFFICES ASSUME SinkInv, SessionInv, NEW i \in 1 .. published, NEW j \in 1 .. published,
                      i < j,
                      \A m \in i + 1 .. j : ~records[m].discontinuity /\ ~records[m].final
               PROVE  OneSession(i, j)
    BY DEF ContinuousBetweenRenderedRecords
  <2>1. /\ published \in Nat /\ published <= Len(records) /\ Len(records) \in Nat
        /\ durable \in Nat /\ durable <= Len(events) /\ Len(events) \in Nat
    BY Numbers DEF SinkInv, Counters
  <2>2. i \in 1 .. Len(records) /\ j \in 1 .. Len(records)
    BY <2>1
  <2>3. /\ records[i].offset \in Nat /\ records[j].offset \in Nat
        /\ records[j].offset <= durable
        /\ records[i].session \in Nat
    BY <2>2, SessionNumbers DEF SinkInv, DataIsDurable
  <2>4. records[i].session = records[j].session
    BY <2>2 DEF SessionInv
  <2>5. ASSUME NEW k \in records[i].offset + 1 .. records[j].offset
        PROVE  events[k].session = records[i].session
    <3>1. k \in 1 .. Len(events) /\ k > records[i].offset /\ k <= records[j].offset
      BY <2>1, <2>3
    <3>2. events[k].session >= records[i].session /\ events[k].session <= records[j].session
      BY <2>2, <3>1 DEF SessionInv
    <3>3. events[k].session \in Nat
      BY <3>1, SessionNumbers
    <3> QED BY <2>3, <2>4, <3>2, <3>3
  <2> QED BY <2>5 DEF OneSession
<1> QED BY <1>1, SinkInvariant, SessionInvariant, PTL


------------------------------------------------------------------------------
(* SessionsBeginMarked *)

LEMMA MarkStays ==
  ASSUME MarkInv, UNCHANGED events,
         ~wroteBuffer' \/ UNCHANGED <<wroteBuffer, session>>,
         pc' \in {"flush", "write"} /\ ~wroteBuffer' => (buffer').discontinuity
  PROVE  MarkInv'
BY DEF MarkInv, SessionsBeginMarked, Current

LEMMA MarkWrites ==
  ASSUME SinkInv, MarkInv, pc = "write", NEW n \in 0 .. buffer.kind.events, WriteEvents(n),
         UNCHANGED session, n > 0 \/ UNCHANGED wroteBuffer, pc' \notin {"flush", "write"}
  PROVE  MarkInv'
<1> DEFINE L == Len(events)
<1>1. /\ n \in Nat /\ L \in Nat /\ Len(events') = L + n
      /\ \A k \in 1 .. L : events'[k] = events[k]
      /\ \A k \in L + 1 .. L + n : events'[k].session = session
      /\ n > 0 => events'[L + 1].discontinuity = buffer.discontinuity
  BY EventsAdded
<1>2. wroteBuffer => L > 0 /\ events[L].session = session
  BY <1>1 DEF MarkInv, Current
<1>3. ~wroteBuffer => buffer.discontinuity
  BY DEF MarkInv
<1>4. \A k \in 1 .. L : k = 1 \/ events[k].session # events[k - 1].session
                          => events[k].discontinuity
  BY DEF MarkInv, SessionsBeginMarked
<1> HIDE DEF L
<1>5. ASSUME NEW k \in 1 .. L + n, k = 1 \/ events'[k].session # events'[k - 1].session
      PROVE  events'[k].discontinuity
  <2>1. CASE k \in 1 .. L
    <3>1. k = 1 \/ k - 1 \in 1 .. L
      BY <1>1, <2>1
    <3> QED BY <1>1, <1>4, <1>5, <2>1, <3>1
  <2>2. CASE k = L + 1
    <3>1. n > 0 /\ k \in L + 1 .. L + n
      BY <1>1, <2>2
    <3>2. CASE wroteBuffer
      <4>1. k # 1 /\ k - 1 = L /\ L \in 1 .. L
        BY <1>1, <1>2, <2>2, <3>2
      <4>2. events'[k].session = session /\ events'[k - 1].session = session
        BY <1>1, <1>2, <3>1, <3>2, <4>1
      <4> QED BY <1>5, <4>1, <4>2
    <3>3. CASE ~wroteBuffer
      BY <1>1, <1>3, <2>2, <3>1, <3>3
    <3> QED BY <3>2, <3>3
  <2>3. CASE k \in L + 2 .. L + n
    <3>1. k # 1 /\ k \in L + 1 .. L + n /\ k - 1 \in L + 1 .. L + n
      BY <1>1, <2>3
    <3> QED BY <1>1, <1>5, <3>1
  <2> QED BY <1>1, <2>1, <2>2, <2>3
<1>6. wroteBuffer' => events' # << >> /\ events'[Len(events')].session = session
  <2>1. CASE n = 0
    <3>1. wroteBuffer' => wroteBuffer
      <4>1. ~(n > 0)
        BY <2>1
      <4>2. wroteBuffer' = wroteBuffer
        BY <4>1, Zenon
      <4> QED BY <4>2, Zenon
    <3>2. Len(events') = L
      BY <1>1, <2>1
    <3>3. wroteBuffer => L \in 1 .. L
      BY <1>1, <1>2
    <3> QED BY <1>1, <1>2, <3>1, <3>2, <3>3
  <2>2. CASE n > 0
    <3>1. L + n \in L + 1 .. L + n /\ L + n > 0
      BY <1>1, <2>2
    <3> QED BY <1>1, <3>1
  <2> QED BY <1>1, <2>1, <2>2
<1>7. SessionsBeginMarked'
  BY <1>1, <1>5 DEF SessionsBeginMarked
<1> QED BY <1>6, <1>7 DEF MarkInv, Current

LEMMA MarkCrash ==
  ASSUME SinkInv, MarkInv, Crash PROVE MarkInv'
<1>1. /\ durable \in Nat /\ durable <= Len(events) /\ Len(events) \in Nat
      /\ Len(events') = durable /\ \A k \in 1 .. durable : events'[k] = events[k]
      /\ pc' = "stopped" /\ wroteBuffer' = FALSE
  BY CrashFacts
<1>2. ASSUME NEW k \in 1 .. durable, k = 1 \/ events'[k].session # events'[k - 1].session
      PROVE  events'[k].discontinuity
  <2>1. k \in 1 .. Len(events) /\ (k = 1 \/ k - 1 \in 1 .. durable)
    BY <1>1
  <2> QED BY <1>1, <1>2, <2>1 DEF MarkInv, SessionsBeginMarked
<1> QED BY <1>1, <1>2 DEF MarkInv, SessionsBeginMarked

LEMMA MarkOther ==
  ASSUME SinkInv, MarkInv,
         \/ PersistEvent \/ PersistRecord
         \/ SetProperty \/ Start \/ StartRejected \/ StartWhenStarted
         \/ \E kind \in BufferKinds, timestamp \in {None} \cup Timestamps : Render(kind, timestamp)
         \/ FlushFails \/ WriteRecord \/ RecordRejected \/ RecordPanics \/ Synced
         \/ Stop \/ WriteFinalRecord \/ Stopped \/ StoppedToSeal \/ SealData \/ SealIndex
         \/ StopFails \/ DropWriter \/ UNCHANGED vars
  PROVE  MarkInv'
<1> USE DEF streams, progress
<1>1. CASE PersistEvent \/ PersistRecord \/ SetProperty \/ StartRejected \/ DropWriter
           \/ UNCHANGED vars
  <2>1. UNCHANGED <<events, wroteBuffer, session, pc, buffer>>
    BY <1>1 DEF PersistEvent, PersistRecord, SetProperty, StartRejected, DropWriter, vars
  <2> QED BY <2>1, MarkStays DEF MarkInv
<1>2. CASE Start \/ Stopped \/ SealIndex
  <2>1. UNCHANGED events /\ ~wroteBuffer' /\ pc' \notin {"flush", "write"}
    BY <1>2 DEF Start, Stopped, SealIndex, Leave, Fresh
  <2> QED BY <2>1, MarkStays
<1>3. CASE \/ StartWhenStarted \/ FlushFails \/ RecordRejected \/ RecordPanics \/ Synced
           \/ Stop \/ WriteFinalRecord \/ StoppedToSeal \/ SealData \/ StopFails
  <2>1. UNCHANGED <<events, wroteBuffer, session>> /\ pc' \notin {"flush", "write"}
    BY <1>3 DEF StartWhenStarted, FlushFails, RecordRejected, RecordPanics, Synced, EndOfBuffer,
       Stop, WriteFinalRecord, StoppedToSeal, SealData, StopFails, Failure
  <2> QED BY <2>1, MarkStays
<1>4. CASE WriteRecord
  <2>1. UNCHANGED <<events, wroteBuffer, session, buffer>> /\ pc = "flush"
    BY <1>4, RecordFacts
  <2> QED BY <2>1, MarkStays DEF MarkInv
<1>5. ASSUME NEW kind \in BufferKinds, NEW timestamp \in {None} \cup Timestamps,
             Render(kind, timestamp)
      PROVE  MarkInv'
  <2>1. UNCHANGED <<events, wroteBuffer, session>>
        /\ (~wroteBuffer => (buffer').discontinuity)
    BY <1>5, RenderFacts
  <2> QED BY <2>1, MarkStays
<1> QED BY <1>1, <1>2, <1>3, <1>4, <1>5

LEMMA MarkBufferSteps ==
  ASSUME SinkInv, MarkInv, \A k \in BufferKinds : k.events > 0,
         WriteBuffer \/ WriteBufferToSync \/ EventPanics
  PROVE  MarkInv'
<1>1. /\ buffer.kind.events > 0 /\ buffer.kind.events \in 0 .. buffer.kind.events
      /\ \A n \in 0 .. buffer.kind.events - 1 : n \in 0 .. buffer.kind.events
  BY Bounds DEF SinkInv, TypeOK, Buffer
<1>2. CASE WriteBuffer
  <2>1. /\ pc = "write" /\ WriteEvents(buffer.kind.events) /\ UNCHANGED session
        /\ pc' \notin {"flush", "write"}
    BY <1>2 DEF WriteBuffer, EndOfBuffer
  <2> QED BY <1>1, <2>1, MarkWrites
<1>3. CASE WriteBufferToSync
  <2>1. /\ pc = "write" /\ WriteEvents(buffer.kind.events) /\ UNCHANGED session
        /\ pc' \notin {"flush", "write"}
    BY <1>3 DEF WriteBufferToSync
  <2> QED BY <1>1, <2>1, MarkWrites
<1>4. CASE EventPanics
  <2>1. PICK n \in 0 .. buffer.kind.events - 1 : WriteEvents(n)
    BY <1>4 DEF EventPanics
  <2>2. pc = "write" /\ UNCHANGED <<session, wroteBuffer>> /\ pc' \notin {"flush", "write"}
    BY <1>4 DEF EventPanics, progress
  <2> QED BY <1>1, <2>1, <2>2, MarkWrites
<1> QED BY <1>2, <1>3, <1>4

(***************************************************************************)
(* Whatever crashes, a reader of the data stream is told where a session   *)
(* begins, if every buffer has a payload.  A first buffer without one      *)
(* takes the mark with it: the loop of render writes no event for it, and  *)
(* it counts in buffers_written.                                           *)
(***************************************************************************)
THEOREM SessionsMarkedHolds ==
  ASSUME \A k \in BufferKinds : k.events > 0
  PROVE  Spec => []SessionsBeginMarked
<1>1. Init => MarkInv
  BY DEF Init, MarkInv, SessionsBeginMarked
<1>2. SinkInv /\ MarkInv /\ [Next]_vars => MarkInv'
  BY MarkOther, MarkBufferSteps, MarkCrash, Zenon DEF Next
<1>3. MarkInv => SessionsBeginMarked
  BY DEF MarkInv
<1> QED BY <1>1, <1>2, <1>3, SinkInvariant, PTL DEF Spec

------------------------------------------------------------------------------
(* SealedStreamIsComplete *)

(* The steps that leave the data stream and the session as they are. *)
LEMMA EndKept ==
  ASSUME UNCHANGED <<events, session>>
  PROVE  /\ TimedSession' <=> TimedSession
         /\ UNCHANGED records => (IndexReachesEnd' <=> IndexReachesEnd)
BY DEF TimedSession, IndexReachesEnd, Current, Timed

LEMMA EndPersist ==
  ASSUME SinkInv, EndInv, PersistEvent \/ PersistRecord
  PROVE  EndInv'
<1>1. /\ durable \in Nat /\ submitted \in Nat /\ submitted <= Len(events)
      /\ published \in Nat /\ Len(events) \in Nat /\ Len(records) \in Nat
  BY Numbers DEF SinkInv, Counters
<1>2. UNCHANGED <<events, session, records, sealed, pc, finalOffset, finalTimestamp, buffer>>
  BY DEF PersistEvent, PersistRecord, progress
<1>3. (TimedSession' <=> TimedSession) /\ (IndexReachesEnd' <=> IndexReachesEnd)
  BY <1>2, EndKept
<1>4. HasFinal' <=> HasFinal
  BY <1>2 DEF HasFinal
<1>5. CASE PersistEvent
  <2>1. durable # Len(events) /\ published' = published
    BY <1>1, <1>5 DEF PersistEvent
  <2> QED BY <1>2, <1>3, <1>4, <2>1 DEF EndInv
<1>6. CASE PersistRecord
  <2>1. published # Len(records) /\ durable' = durable
    BY <1>1, <1>6 DEF PersistRecord
  <2> QED BY <1>2, <1>3, <1>4, <2>1 DEF EndInv
<1> QED BY <1>5, <1>6

(* A new session has no events yet. *)
LEMMA EndStart ==
  ASSUME SinkInv, SessionInv, EndInv, Start
  PROVE  EndInv'
<1>1. session' = session + 1 /\ UNCHANGED <<events, sealed>> /\ sealed = {}
      /\ pc' = "idle" /\ finalOffset' = None
  BY DEF Start, streams, Fresh
<1>2. session \in Nat /\ \A k \in 1 .. Len(events) : events[k].session \in Nat
  BY SessionNumbers
<1>3. \A k \in 1 .. Len(events) : events[k].session # session'
  BY <1>1, <1>2 DEF SessionInv
<1>4. ~TimedSession'
  BY <1>1, <1>3 DEF TimedSession, Current
<1> QED BY <1>1, <1>4 DEF EndInv

LEMMA EndOther ==
  ASSUME SinkInv, EndInv, "sync" \notin Errors,
         \/ SetProperty \/ StartRejected \/ StartWhenStarted
         \/ \E kind \in BufferKinds, timestamp \in {None} \cup Timestamps : Render(kind, timestamp)
         \/ FlushFails \/ RecordRejected \/ RecordPanics
         \/ Stop \/ Stopped \/ StoppedToSeal \/ SealData \/ SealIndex
         \/ StopFails \/ DropWriter \/ UNCHANGED vars
  PROVE  EndInv'
<1>1. UNCHANGED <<events, session, records, durable, published>>
  BY DEF SetProperty, StartRejected, StartWhenStarted, Render, FlushFails, RecordRejected,
     RecordPanics, Stop, Stopped, StoppedToSeal, SealData, SealIndex, StopFails, DropWriter,
     Failure, streams, vars
<1>2. (TimedSession' <=> TimedSession) /\ (IndexReachesEnd' <=> IndexReachesEnd)
  BY <1>1, EndKept
<1>3. CASE Stopped \/ StoppedToSeal
  <2>1. /\ pc = "stopIndex" /\ pc' \in {"stopped", "sealData"} /\ published = Len(records)
        /\ UNCHANGED sealed
    BY <1>3 DEF Stopped, StoppedToSeal, Leave, IndexFlushed, streams
  <2> QED BY <1>1, <1>2, <2>1 DEF EndInv
<1>7. CASE SealData \/ SealIndex
  <2>1. pc \in {"sealData", "sealIndex"} /\ pc' \in {"sealIndex", "stopped"}
    BY <1>7 DEF SealData, SealIndex, Leave
  <2> QED BY <1>1, <1>2, <2>1 DEF EndInv
<1>4. CASE \/ FlushFails \/ RecordRejected \/ RecordPanics \/ Stop \/ StopFails
           \/ StartWhenStarted
  <2>1. /\ UNCHANGED <<sealed, finalOffset, finalTimestamp>>
        /\ \/ pc' \in {"failed", "stopping"} /\ pc \in {"idle", "flush", "failed"}
           \/ pc' = "panicked" /\ pc \in {"flush", "stopping"}
           \/ pc' = "stuck" /\ pc # "sync"
           \/ pc' = "unreachable" /\ pc = "stuck"
    BY <1>4 DEF FlushFails, RecordRejected, RecordPanics, Stop, StopFails, StartWhenStarted,
       Failure, streams, progress
  <2>2. HasFinal' <=> HasFinal
    BY <2>1 DEF HasFinal
  <2> QED BY <1>1, <1>2, <2>1, <2>2 DEF EndInv
<1>5. CASE SetProperty \/ StartRejected \/ DropWriter \/ UNCHANGED vars
  <2>1. UNCHANGED <<sealed, finalOffset, finalTimestamp, pc, buffer>>
    BY <1>5 DEF SetProperty, StartRejected, DropWriter, streams, progress, vars
  <2>2. HasFinal' <=> HasFinal
    BY <2>1 DEF HasFinal
  <2> QED BY <1>1, <1>2, <2>1, <2>2 DEF EndInv
<1>6. ASSUME NEW kind \in BufferKinds, NEW timestamp \in {None} \cup Timestamps,
             Render(kind, timestamp)
      PROVE  EndInv'
  <2>1. UNCHANGED <<sealed, finalOffset, finalTimestamp>> /\ pc = "idle"
        /\ pc' \in {"flush", "write"}
    BY <1>6, RenderFacts
  <2>2. HasFinal' <=> HasFinal
    BY <2>1 DEF HasFinal
  <2> QED BY <1>1, <1>2, <2>1, <2>2 DEF EndInv
<1> QED BY <1>3, <1>4, <1>5, <1>6, <1>7

LEMMA EndRecordSteps ==
  ASSUME SinkInv, EndInv, WriteRecord \/ WriteFinalRecord
  PROVE  EndInv'
<1>1. CASE WriteRecord
  <2>1. /\ UNCHANGED <<events, session, sealed, finalOffset, finalTimestamp>>
        /\ pc = "flush" /\ pc' = "write"
    BY <1>1, RecordFacts
  <2>2. (TimedSession' <=> TimedSession) /\ (HasFinal' <=> HasFinal)
    BY <2>1, EndKept DEF HasFinal
  <2> QED BY <2>1, <2>2 DEF EndInv
<1>2. CASE WriteFinalRecord
  <2>1. /\ UNCHANGED <<events, session, sealed, finalOffset, finalTimestamp, durable>>
        /\ records' = IF HasFinal THEN Append(records, Final) ELSE records
        /\ pc = "stopping" /\ pc' = "stopIndex" /\ durable = Len(events)
    BY <1>2, FinalFacts
  <2>2. TimedSession' <=> TimedSession
    BY <2>1, EndKept
  <2>3. CASE HasFinal
    <3>1. records' # << >> /\ Len(records') = Len(records) + 1
          /\ records'[Len(records) + 1] = Final
      BY <2>1, <2>3, RecordAdded
    <3>2. Final.offset = finalOffset /\ finalOffset = Len(events)
      BY <2>1, <2>3 DEF Final, HasFinal, EndInv
    <3>3. IndexReachesEnd'
      BY <2>1, <3>1, <3>2 DEF IndexReachesEnd
    <3> QED BY <2>1, <3>3 DEF EndInv
  <2>4. CASE ~HasFinal
    <3>1. ~TimedSession'
      BY <2>1, <2>2, <2>4 DEF EndInv
    <3>2. IndexReachesEnd'
      BY <3>1 DEF IndexReachesEnd
    <3> QED BY <2>1, <3>2 DEF EndInv
  <2> QED BY <2>3, <2>4
<1> QED BY <1>1, <1>2

(* The events of a buffer are timed if it is. *)
LEMMA EndEvents ==
  ASSUME SinkInv, pc = "write", NEW n \in 0 .. buffer.kind.events, WriteEvents(n),
         UNCHANGED session, TimedSession'
  PROVE  TimedSession \/ buffer.timestamp # None
<1>1. /\ n \in Nat /\ Len(events) \in Nat /\ Len(events') = Len(events) + n
      /\ \A k \in 1 .. Len(events) : events'[k] = events[k]
      /\ \A k \in Len(events) + 1 .. Len(events) + n :
           events'[k].timestamp = buffer.timestamp /\ events'[k].session = session
  BY EventsAdded
<1>2. PICK k \in 1 .. Len(events') : events'[k].session = session /\ events'[k].timestamp # None
  BY DEF TimedSession, Current, Timed
<1>3. CASE k \in 1 .. Len(events)
  BY <1>1, <1>2, <1>3 DEF TimedSession, Current, Timed
<1>4. CASE k \in Len(events) + 1 .. Len(events) + n
  BY <1>1, <1>2, <1>4
<1> QED BY <1>1, <1>3, <1>4

LEMMA EndBufferSteps ==
  ASSUME SinkInv, EndInv, WriteBuffer \/ WriteBufferToSync \/ EventPanics \/ Synced
  PROVE  EndInv'
<1>1. /\ Len(events) \in Nat /\ None \notin Nat
      /\ buffer.kind.events \in 0 .. buffer.kind.events
      /\ buffer.timestamp # None => buffer.timestamp + Longest(buffer.kind.duration) # None
  <2>1. /\ buffer.kind.events \in Nat /\ buffer.kind.duration \in Nat
        /\ buffer.timestamp \in Nat \cup {None}
    BY Bounds DEF SinkInv, TypeOK, Buffer
  <2>2. Longest(buffer.kind.duration) \in Nat
    BY <2>1 DEF Longest
  <2> QED BY <2>1, <2>2, Numbers, Bounds DEF SinkInv
<1>2. sealed = {} /\ sealed' = {}
  BY DEF EndInv, WriteBuffer, WriteBufferToSync, EventPanics, Synced, streams
<1>3. Len(events') # None
  <2>1. CASE Synced
    BY <1>1, <2>1 DEF Synced, streams
  <2>2. CASE ~Synced
    <3>1. PICK n \in 0 .. buffer.kind.events : WriteEvents(n) /\ pc = "write"
      <4>1. CASE WriteBuffer \/ WriteBufferToSync
        BY <1>1, <4>1 DEF WriteBuffer, WriteBufferToSync
      <4>2. CASE EventPanics
        <5>1. PICK n \in 0 .. buffer.kind.events - 1 : WriteEvents(n) /\ pc = "write"
          BY <4>2 DEF EventPanics
        <5>2. n \in 0 .. buffer.kind.events
          BY <5>1, <1>1
        <5> QED BY <5>1, <5>2
      <4> QED BY <2>2, <4>1, <4>2
    <3>2. Len(events') = Len(events) + n /\ n \in Nat
      BY <3>1, EventsAdded
    <3> QED BY <1>1, <3>2
  <2> QED BY <2>1, <2>2
<1>4. CASE WriteBuffer
  <2>1. /\ pc = "write" /\ WriteEvents(buffer.kind.events) /\ UNCHANGED session
        /\ pc' = "idle" /\ finalOffset' = Len(events')
        /\ finalTimestamp' = IF buffer.timestamp = None THEN finalTimestamp
                             ELSE buffer.timestamp + Longest(buffer.kind.duration)
    BY <1>4 DEF WriteBuffer, EndOfBuffer
  <2>2. TimedSession' => finalTimestamp' # None
    <3>1. TimedSession' => TimedSession \/ buffer.timestamp # None
      BY <1>1, <2>1, EndEvents
    <3>2. TimedSession => finalTimestamp # None
      BY <2>1 DEF EndInv, HasFinal
    <3> QED BY <1>1, <2>1, <3>1, <3>2
  <2> QED BY <1>2, <1>3, <2>1, <2>2 DEF EndInv, HasFinal
<1>5. CASE WriteBufferToSync
  <2>1. /\ pc = "write" /\ WriteEvents(buffer.kind.events) /\ UNCHANGED session
        /\ pc' = "sync" /\ UNCHANGED <<buffer, finalTimestamp>>
    BY <1>5 DEF WriteBufferToSync
  <2>2. TimedSession' => TimedSession \/ buffer.timestamp # None
    BY <1>1, <2>1, EndEvents
  <2>3. TimedSession => finalTimestamp # None
    BY <2>1 DEF EndInv, HasFinal
  <2> QED BY <1>2, <2>1, <2>2, <2>3 DEF EndInv
<1>6. CASE EventPanics
  <2>1. pc' = "panicked"
    BY <1>6 DEF EventPanics
  <2> QED BY <1>2, <2>1 DEF EndInv
<1>7. CASE Synced
  <2>1. /\ pc = "sync" /\ UNCHANGED <<events, session>>
        /\ pc' = "idle" /\ finalOffset' = Len(events')
        /\ finalTimestamp' = IF buffer.timestamp = None THEN finalTimestamp
                             ELSE buffer.timestamp + Longest(buffer.kind.duration)
    BY <1>7 DEF Synced, EndOfBuffer, streams
  <2>2. TimedSession' => finalTimestamp' # None
    <3>1. TimedSession' => TimedSession
      BY <2>1, EndKept
    <3>2. TimedSession => buffer.timestamp # None \/ finalTimestamp # None
      BY <2>1 DEF EndInv
    <3> QED BY <1>1, <2>1, <3>1, <3>2
  <2> QED BY <1>2, <1>3, <2>1, <2>2 DEF EndInv, HasFinal
<1> QED BY <1>4, <1>5, <1>6, <1>7

LEMMA EndCrash ==
  ASSUME SinkInv, EndInv, Crash
  PROVE  EndInv'
<1>1. /\ durable \in Nat /\ durable <= Len(events) /\ Len(events) \in Nat
      /\ published \in Nat /\ published <= Len(records) /\ Len(records) \in Nat
      /\ Len(events') = durable /\ \A k \in 1 .. durable : events'[k] = events[k]
      /\ Len(records') = published /\ \A i \in 1 .. published : records'[i] = records[i]
      /\ pc' = "stopped"
      /\ UNCHANGED <<durable, published, sealed, session>>
  BY CrashFacts
<1>2. CASE sealed = {}
  BY <1>1, <1>2 DEF EndInv
<1>3. CASE sealed # {}
  <2>1. durable = Len(events) /\ published = Len(records) /\ IndexReachesEnd
    BY <1>3 DEF EndInv
  <2>2. events \in Seq(Event) /\ records \in Seq(Record)
    BY DEF SinkInv, TypeOK, StreamsTypeOK
  <2>3. TimedSession' => TimedSession
    BY <1>1, <2>1 DEF TimedSession, Current, Timed
  <2>4. records # << >> => records' # << >> /\ records'[Len(records')] = records[Len(records)]
    <3>1. records # << >> => Len(records) \in 1 .. Len(records) /\ Len(records') # 0
      BY <1>1, <2>1, <2>2
    <3> QED BY <1>1, <2>1, <3>1
  <2>5. IndexReachesEnd'
    BY <1>1, <2>1, <2>3, <2>4 DEF IndexReachesEnd
  <2> QED BY <1>1, <2>1, <2>5 DEF EndInv
<1> QED BY <1>2, <1>3

LEMMA EndInvNext ==
  ASSUME "sync" \notin Errors
  PROVE  SinkInv /\ SessionInv /\ EndInv /\ [Next]_vars => EndInv'
<1> SUFFICES ASSUME SinkInv, SessionInv, EndInv, [Next]_vars PROVE EndInv'
  OBVIOUS
<1> QED BY EndPersist, EndStart, EndOther, EndRecordSteps, EndBufferSteps, EndCrash, Zenon
        DEF Next

(* The final record that stop would write now is at the end of the data. *)
THEOREM EndInvariant ==
  ASSUME "sync" \notin Errors
  PROVE  Spec => []EndInv
<1>1. Init => EndInv
  BY DEF Init, EndInv
<1> QED BY <1>1, EndInvNext, SinkInvariant, SessionInvariant, PTL DEF Spec

(***************************************************************************)
(* A sealed stream has all that was rendered, and its index reaches its    *)
(* end, if the flush for SYNC_AFTER does not fail.  When it does, the      *)
(* buffer is in the data stream, final_offset is still before it, and stop *)
(* writes the final record there.                                          *)
(***************************************************************************)
THEOREM SealedIsCompleteHolds ==
  ASSUME "sync" \notin Errors
  PROVE  Spec => []SealedStreamIsComplete
<1>1. EndInv => SealedStreamIsComplete
  BY DEF EndInv, IndexReachesEnd, TimedSession, Current, Timed, SealedStreamIsComplete
<1> QED BY <1>1, EndInvariant, PTL

------------------------------------------------------------------------------
(* IndexGapsBounded: the order of the timestamps *)

LEMMA TimeNumbers ==
  ASSUME SinkInv
  PROVE  /\ Len(events) \in Nat /\ Len(records) \in Nat /\ None \in Int /\ None \notin Nat
         /\ \A t \in Nat : None < t
         /\ \A k \in 1 .. Len(events) : events[k].timestamp \in Nat \cup {None}
         /\ \A i \in 1 .. Len(records) : records[i].timestamp \in Nat
         /\ nextTimestamp \in Nat /\ finalTimestamp \in Nat \cup {None}
         /\ firstValid \in Nat \cup {None} /\ lastIndex \in Nat \cup {None}
         /\ buffer.timestamp \in Nat \cup {None}
         /\ Longest(buffer.kind.duration) \in Nat /\ Longest(buffer.kind.duration) > 0
         /\ \A kind \in BufferKinds :
              Longest(kind.duration) \in Nat /\ Longest(kind.duration) > 0
<1>1. events \in Seq(Event) /\ records \in Seq(Record)
  BY DEF SinkInv, TypeOK, StreamsTypeOK
<1>2. \A k \in 1 .. Len(events) : events[k] \in Event
  BY <1>1
<1>3. \A i \in 1 .. Len(records) : records[i] \in Record
  BY <1>1
<1>4. \A kind \in BufferKinds : Longest(kind.duration) \in Nat /\ Longest(kind.duration) > 0
  BY Bounds DEF Longest
<1>5. buffer.timestamp \in Nat \cup {None} /\ buffer.kind \in BufferKinds
  BY Bounds DEF SinkInv, TypeOK, Buffer
<1>6. firstValid \in Nat \cup {None} /\ lastIndex \in Nat \cup {None}
      /\ finalTimestamp \in Nat \cup {None} /\ nextTimestamp \in Nat
  BY Bounds DEF SinkInv, TypeOK, ProgressTypeOK
<1>7. \A k \in 1 .. Len(events) : events[k].timestamp \in Nat \cup {None}
  BY <1>2, Bounds DEF Event
<1>8. \A i \in 1 .. Len(records) : records[i].timestamp \in Nat
  BY <1>3 DEF Record
<1>9. \A t \in Nat : None < t
  BY DEF None
<1> QED BY <1>4, <1>5, <1>6, <1>7, <1>8, <1>9, Numbers, Bounds DEF SinkInv

LEMMA ReachedLater ==
  ASSUME SinkInv, NEW t \in Nat, Reached(t), NEW u \in Nat, t <= u
  PROVE  Reached(u)
<1>1. ASSUME NEW k \in 1 .. Len(events), Timed(k) PROVE events[k].timestamp < u
  <2>1. events[k].timestamp < t /\ events[k].timestamp \in Nat
    BY <1>1, TimeNumbers DEF Reached, Timed
  <2> QED BY <2>1
<1>2. ASSUME NEW i \in 1 .. Len(records) PROVE records[i].timestamp <= u
  <2>1. records[i].timestamp <= t /\ records[i].timestamp \in Nat
    BY TimeNumbers DEF Reached
  <2> QED BY <2>1
<1> QED BY <1>1, <1>2 DEF Reached

LEMMA TimeStays ==
  ASSUME SinkInv, TimeInv, UNCHANGED <<events, records, nextTimestamp>>,
         finalTimestamp' \in {None, finalTimestamp},
         firstValid' \in {None, firstValid}, lastIndex' \in {None, lastIndex},
         pc' \in {"flush", "write", "sync"} => UNCHANGED <<pc, buffer>>
  PROVE  TimeInv'
<1>1. finalTimestamp' <= nextTimestamp' /\ firstValid' <= nextTimestamp'
      /\ lastIndex' <= nextTimestamp'
  BY TimeNumbers DEF TimeInv
<1>2. Reached(nextTimestamp)'
  BY DEF TimeInv, Reached, Timed
<1>3. pc' \in {"flush", "write"} /\ (buffer').timestamp # None => Reached(buffer.timestamp)'
  BY DEF TimeInv, Reached, Timed
<1> QED BY <1>1, <1>2, <1>3 DEF TimeInv

LEMMA TimeRender ==
  ASSUME SinkInv, TimeInv, InOrder,
         NEW kind \in BufferKinds, NEW timestamp \in {None} \cup Timestamps,
         Render(kind, timestamp)
  PROVE  TimeInv'
<1>1. /\ UNCHANGED <<events, records, finalTimestamp, lastIndex>> /\ pc' \in {"flush", "write"}
      /\ firstValid' \in {firstValid, timestamp}
      /\ nextTimestamp' = IF timestamp # None
                            THEN timestamp + Longest(kind.duration) ELSE nextTimestamp
      /\ timestamp # None => timestamp >= nextTimestamp
      /\ (buffer').kind = kind /\ (buffer').timestamp = timestamp
  BY RenderFacts
<1>2. timestamp \in Nat \cup {None} /\ Longest(kind.duration) \in Nat /\ nextTimestamp \in Nat
      /\ finalTimestamp \in Nat \cup {None}
      /\ firstValid \in Nat \cup {None} /\ lastIndex \in Nat \cup {None}
      /\ None \in Int /\ \A t \in Nat : None < t
  BY TimeNumbers, Bounds
<1>3. Reached(nextTimestamp) /\ finalTimestamp <= nextTimestamp
      /\ firstValid <= nextTimestamp /\ lastIndex <= nextTimestamp
  BY DEF TimeInv
<1>4. CASE timestamp = None
  <2>1. nextTimestamp' = nextTimestamp /\ (buffer').timestamp = None
    BY <1>1, <1>4
  <2>2. Reached(nextTimestamp)'
    BY <1>1, <1>3, <2>1 DEF Reached, Timed
  <2>3. firstValid' <= nextTimestamp'
    BY <1>1, <1>2, <1>3, <1>4, <2>1
  <2> QED BY <1>1, <1>3, <2>1, <2>2, <2>3 DEF TimeInv
<1>5. CASE timestamp # None
  <2>1. /\ timestamp \in Nat /\ nextTimestamp <= timestamp
        /\ nextTimestamp' = timestamp + Longest(kind.duration)
    BY <1>1, <1>2, <1>5
  <2>2. timestamp + Longest(kind.duration) \in Nat
        /\ nextTimestamp <= timestamp + Longest(kind.duration)
    BY <1>2, <2>1
  <2>3. Reached(timestamp) /\ Reached(timestamp + Longest(kind.duration))
    BY <1>2, <1>3, <2>1, <2>2, ReachedLater
  <2>4. Reached(nextTimestamp)' /\ Reached(buffer.timestamp)'
    BY <1>1, <2>1, <2>3 DEF Reached, Timed
  <2>5. finalTimestamp' <= nextTimestamp'
    BY <1>1, <1>2, <1>3, <2>1, <2>2, TimeNumbers
  <2>6. lastIndex' <= nextTimestamp'
    BY <1>1, <1>2, <1>3, <2>1, <2>2
  <2>7. firstValid' <= nextTimestamp'
    <3>1. timestamp <= timestamp + Longest(kind.duration)
      BY <1>2, <2>1
    <3>2. firstValid <= timestamp + Longest(kind.duration)
      BY <1>2, <1>3, <2>1, <2>2
    <3> QED BY <1>1, <2>1, <3>1, <3>2
  <2> QED BY <1>1, <2>1, <2>4, <2>5, <2>6, <2>7 DEF TimeInv
<1> QED BY <1>4, <1>5

LEMMA TimeAppend ==
  ASSUME SinkInv, TimeInv, NEW r, records' = Append(records, r), r.timestamp <= nextTimestamp,
         UNCHANGED <<events, nextTimestamp, finalTimestamp, firstValid>>,
         lastIndex' \in {lastIndex, r.timestamp},
         pc' \in {"flush", "write", "sync"} =>
           pc' = "write" /\ pc = "flush" /\ UNCHANGED buffer /\ r.timestamp = buffer.timestamp
  PROVE  TimeInv'
<1>1. /\ Len(records) \in Nat /\ Len(records') = Len(records) + 1
      /\ \A i \in 1 .. Len(records) : records'[i] = records[i]
      /\ records'[Len(records) + 1] = r
  BY RecordAdded
<1>2. \A i \in 1 .. Len(records') : i \in 1 .. Len(records) \/ i = Len(records) + 1
  BY <1>1
<1>3. ASSUME NEW t, Reached(t), r.timestamp <= t
      PROVE  /\ \A k \in 1 .. Len(events') : events'[k].timestamp # None => events'[k].timestamp < t
             /\ \A i \in 1 .. Len(records') : records'[i].timestamp <= t
  BY <1>1, <1>2, <1>3 DEF Reached, Timed
<1>4. Reached(nextTimestamp)'
  BY <1>3 DEF TimeInv, Reached, Timed
<1>5. pc' = "write" /\ (buffer').timestamp # None => Reached(buffer.timestamp)'
  <2> SUFFICES ASSUME pc' = "write", (buffer').timestamp # None PROVE Reached(buffer.timestamp)'
    OBVIOUS
  <2>1. Reached(buffer.timestamp) /\ r.timestamp = buffer.timestamp
        /\ (buffer').timestamp = buffer.timestamp
    BY DEF TimeInv
  <2>2. buffer.timestamp <= buffer.timestamp
    BY TimeNumbers
  <2> QED BY <1>3, <2>1, <2>2 DEF Reached, Timed
<1>6. (finalTimestamp <= nextTimestamp /\ firstValid <= nextTimestamp)'
      /\ (lastIndex <= nextTimestamp)'
  BY DEF TimeInv
<1> QED BY <1>4, <1>5, <1>6 DEF TimeInv

LEMMA TimeRecordSteps ==
  ASSUME SinkInv, TimeInv, WriteRecord \/ WriteFinalRecord
  PROVE  TimeInv'
<1>1. CASE WriteRecord
  <2>1. /\ records' = Append(records, Rendered) /\ pc = "flush" /\ pc' = "write"
        /\ buffer.timestamp # None
        /\ lastIndex' = buffer.timestamp
        /\ UNCHANGED <<events, nextTimestamp, finalTimestamp, firstValid, buffer>>
    BY <1>1, RecordFacts
  <2>2. Rendered.timestamp = buffer.timestamp
    BY DEF Rendered
  <2>3. nextTimestamp = buffer.timestamp + Longest(buffer.kind.duration)
    BY <2>1 DEF TimeInv
  <2>4. Rendered.timestamp <= nextTimestamp
    BY <2>1, <2>2, <2>3, TimeNumbers
  <2> HIDE DEF Rendered
  <2> QED BY <2>1, <2>2, <2>4, TimeAppend
<1>2. CASE WriteFinalRecord
  <2>1. /\ records' = IF HasFinal THEN Append(records, Final) ELSE records
        /\ pc' = "stopIndex"
        /\ UNCHANGED <<events, nextTimestamp, finalTimestamp, firstValid, lastIndex>>
    BY <1>2, FinalFacts
  <2>2. CASE HasFinal
    <3>1. Final.timestamp <= nextTimestamp
      BY DEF Final, TimeInv
    <3> QED BY <2>1, <2>2, <3>1, TimeAppend
  <2>3. CASE ~HasFinal
    BY <2>1, <2>3, TimeStays
  <2> QED BY <2>2, <2>3
<1> QED BY <1>1, <1>2

LEMMA TimeWrites ==
  ASSUME SinkInv, TimeInv, pc = "write", NEW n \in 0 .. buffer.kind.events, WriteEvents(n),
         UNCHANGED <<records, nextTimestamp, firstValid, lastIndex>>,
         pc' \notin {"flush", "write"},
         pc' = "sync" => UNCHANGED buffer,
         \/ UNCHANGED finalTimestamp
         \/ buffer.timestamp # None
            /\ finalTimestamp' = buffer.timestamp + Longest(buffer.kind.duration)
  PROVE  TimeInv'
<1>1. /\ n \in Nat /\ Len(events) \in Nat /\ Len(events') = Len(events) + n
      /\ \A k \in 1 .. Len(events) : events'[k] = events[k]
      /\ \A k \in Len(events) + 1 .. Len(events) + n : events'[k].timestamp = buffer.timestamp
  BY EventsAdded
<1>2. buffer.timestamp # None =>
        /\ nextTimestamp = buffer.timestamp + Longest(buffer.kind.duration)
        /\ buffer.timestamp < nextTimestamp /\ nextTimestamp <= nextTimestamp
  <2>1. buffer.timestamp # None => nextTimestamp = buffer.timestamp + Longest(buffer.kind.duration)
    BY DEF TimeInv
  <2> QED BY <2>1, TimeNumbers
<1>3. ASSUME NEW k \in 1 .. Len(events'), events'[k].timestamp # None
      PROVE  events'[k].timestamp < nextTimestamp
  <2>1. CASE k \in 1 .. Len(events)
    BY <1>1, <1>3, <2>1 DEF TimeInv, Reached, Timed
  <2>2. CASE k \in Len(events) + 1 .. Len(events) + n
    BY <1>1, <1>2, <1>3, <2>2
  <2> QED BY <1>1, <2>1, <2>2
<1>4. Reached(nextTimestamp)'
  BY <1>3 DEF TimeInv, Reached, Timed
<1>5. (finalTimestamp <= nextTimestamp)' /\ (firstValid <= nextTimestamp)'
      /\ (lastIndex <= nextTimestamp)'
  BY <1>2 DEF TimeInv
<1>6. pc' = "sync" /\ (buffer').timestamp # None
        => nextTimestamp' = (buffer').timestamp + Longest((buffer').kind.duration)
  BY <1>2
<1> QED BY <1>4, <1>5, <1>6 DEF TimeInv

LEMMA TimeBufferSteps ==
  ASSUME SinkInv, TimeInv, WriteBuffer \/ WriteBufferToSync \/ EventPanics \/ Synced
  PROVE  TimeInv'
<1>1. /\ buffer.kind.events \in 0 .. buffer.kind.events
      /\ \A n \in 0 .. buffer.kind.events - 1 : n \in 0 .. buffer.kind.events
  BY Bounds DEF SinkInv, TypeOK, Buffer
<1>2. CASE WriteBuffer
  <2>1. /\ pc = "write" /\ WriteEvents(buffer.kind.events) /\ pc' = "idle"
        /\ UNCHANGED <<records, nextTimestamp, firstValid, lastIndex>>
        /\ finalTimestamp' = IF buffer.timestamp = None THEN finalTimestamp
                             ELSE buffer.timestamp + Longest(buffer.kind.duration)
    BY <1>2 DEF WriteBuffer, EndOfBuffer
  <2> QED BY <1>1, <2>1, TimeWrites
<1>3. CASE WriteBufferToSync
  <2>1. /\ pc = "write" /\ WriteEvents(buffer.kind.events) /\ pc' = "sync"
        /\ UNCHANGED <<records, nextTimestamp, buffer, finalTimestamp, firstValid, lastIndex>>
    BY <1>3 DEF WriteBufferToSync
  <2> QED BY <1>1, <2>1, TimeWrites
<1>4. CASE EventPanics
  <2>1. PICK n \in 0 .. buffer.kind.events - 1 : WriteEvents(n)
    BY <1>4 DEF EventPanics
  <2>2. /\ UNCHANGED <<records, nextTimestamp, finalTimestamp, firstValid, lastIndex>>
        /\ pc = "write" /\ pc' = "panicked"
    BY <1>4 DEF EventPanics, progress
  <2> QED BY <1>1, <2>1, <2>2, TimeWrites
<1>5. CASE Synced
  <2>1. /\ UNCHANGED <<events, records, nextTimestamp, firstValid, lastIndex>>
        /\ pc = "sync" /\ pc' = "idle"
        /\ finalTimestamp' = IF buffer.timestamp = None THEN finalTimestamp
                             ELSE buffer.timestamp + Longest(buffer.kind.duration)
    BY <1>5 DEF Synced, EndOfBuffer, streams
  <2>2. finalTimestamp' <= nextTimestamp'
    <3>1. buffer.timestamp # None => nextTimestamp = buffer.timestamp + Longest(buffer.kind.duration)
      BY <2>1 DEF TimeInv
    <3>2. nextTimestamp <= nextTimestamp
      BY TimeNumbers
    <3> QED BY <2>1, <3>1, <3>2 DEF TimeInv
  <2>3. Reached(nextTimestamp)'
    BY <2>1 DEF TimeInv, Reached, Timed
  <2> QED BY <2>1, <2>2, <2>3 DEF TimeInv
<1> QED BY <1>2, <1>3, <1>4, <1>5

LEMMA TimeCrash ==
  ASSUME SinkInv, TimeInv, Crash
  PROVE  TimeInv'
<1>1. /\ durable \in Nat /\ durable <= Len(events) /\ Len(events) \in Nat
      /\ published \in Nat /\ published <= Len(records) /\ Len(records) \in Nat
      /\ Len(events') = durable /\ \A k \in 1 .. durable : events'[k] = events[k]
      /\ Len(records') = published /\ \A i \in 1 .. published : records'[i] = records[i]
      /\ pc' = "stopped" /\ finalTimestamp' = None /\ nextTimestamp' = nextTimestamp
      /\ firstValid' = None /\ lastIndex' = None
  BY CrashFacts
<1>2. /\ \A k \in 1 .. durable : k \in 1 .. Len(events)
      /\ \A i \in 1 .. published : i \in 1 .. Len(records)
  BY <1>1
<1>3. Reached(nextTimestamp)'
  BY <1>1, <1>2 DEF TimeInv, Reached, Timed
<1>4. finalTimestamp' <= nextTimestamp' /\ firstValid' <= nextTimestamp'
      /\ lastIndex' <= nextTimestamp'
  BY <1>1, TimeNumbers
<1> QED BY <1>1, <1>3, <1>4 DEF TimeInv

LEMMA TimeOther ==
  ASSUME SinkInv, TimeInv,
         \/ PersistEvent \/ PersistRecord
         \/ SetProperty \/ Start \/ StartRejected \/ StartWhenStarted
         \/ FlushFails \/ RecordRejected \/ RecordPanics
         \/ Stop \/ Stopped \/ StoppedToSeal \/ SealData \/ SealIndex
         \/ StopFails \/ DropWriter \/ UNCHANGED vars
  PROVE  TimeInv'
<1> USE DEF streams, progress
<1>1. CASE PersistEvent \/ PersistRecord \/ SetProperty \/ StartRejected \/ DropWriter
           \/ UNCHANGED vars
  <2>1. UNCHANGED <<events, records, nextTimestamp, finalTimestamp, firstValid, lastIndex,
                    pc, buffer>>
    BY <1>1 DEF PersistEvent, PersistRecord, SetProperty, StartRejected, DropWriter, vars
  <2> QED BY <2>1, TimeStays
<1>2. CASE \/ Start \/ StartWhenStarted \/ FlushFails \/ RecordRejected \/ RecordPanics
           \/ Stop \/ Stopped \/ StoppedToSeal \/ SealData \/ SealIndex \/ StopFails
  <2>1. /\ UNCHANGED <<events, records, nextTimestamp>>
        /\ finalTimestamp' \in {None, finalTimestamp}
        /\ firstValid' \in {None, firstValid} /\ lastIndex' \in {None, lastIndex}
        /\ pc' \notin {"flush", "write", "sync"}
    BY <1>2 DEF Start, StartWhenStarted, FlushFails, RecordRejected, RecordPanics, Stop, Stopped,
       StoppedToSeal, SealData, SealIndex, StopFails, Failure, Leave, Fresh
  <2> QED BY <2>1, TimeStays
<1> QED BY <1>1, <1>2

(* What render is about to write is not before anything in the two streams. *)
THEOREM TimeInvariant ==
  ASSUME InOrder
  PROVE  Spec => []TimeInv
<1>1. Init => TimeInv
  BY DEF Init, TimeInv, Reached, None
<1>2. SinkInv /\ TimeInv /\ [Next]_vars => TimeInv'
  BY TimeOther, TimeRender, TimeRecordSteps, TimeBufferSteps, TimeCrash, Zenon DEF Next
<1> QED BY <1>1, <1>2, SinkInvariant, PTL DEF Spec

------------------------------------------------------------------------------
(* IndexGapsBounded: what is indexed *)

LEMMA SettingsNumbers ==
  ASSUME SinkInv
  PROVE  settings.min \in Nat /\ settings.max \in Nat
<1>1. settings \in SettingsType
  BY SinkAssumption DEF SinkInv, TypeOK
<1> QED BY <1>1 DEF SettingsType

(* More records do not undo a bound. *)
LEMMA GapsStay ==
  ASSUME IndexGapsBounded, pc # "stopped", UNCHANGED <<events, session, settings>>,
         \A i \in 1 .. Len(records) : i \in 1 .. Len(records') /\ records'[i] = records[i]
  PROVE  IndexGapsBounded'
<1> SUFFICES ASSUME NEW k \in 1 .. Len(events), NEW m \in 1 .. Len(events), k < m,
                    events[k].session = session, events[m].session = session,
                    events[k].timestamp # None,
                    events[m].timestamp > events[k].timestamp + settings.max
             PROVE  \E i \in 1 .. Len(records') : records'[i].offset \in k .. m - 1
  BY DEF IndexGapsBounded
<1>1. PICK i \in 1 .. Len(records) : records[i].offset \in k .. m - 1
  BY DEF IndexGapsBounded
<1> QED BY <1>1

LEMMA GapStays ==
  ASSUME SinkInv, GapInv, pc # "stopped",
         UNCHANGED <<events, records, session, settings, firstValid, lastIndex>>,
         pc' \in {"flush", "write"} => UNCHANGED <<pc, buffer>>
  PROVE  GapInv'
<1>1. IndexGapsBounded'
  BY GapsStay DEF GapInv
<1>2. /\ (settings.min <= settings.max)'
      /\ \A k \in 1 .. Len(events') :
           events'[k].session = session' /\ events'[k].timestamp # None
             => firstValid' # None /\ firstValid' <= events'[k].timestamp
      /\ lastIndex' # None =>
           \E i \in 1 .. Len(records') :
             /\ records'[i].timestamp = lastIndex'
             /\ \A k \in records'[i].offset + 1 .. Len(events') :
                  events'[k].timestamp # None => lastIndex' <= events'[k].timestamp
  BY DEF GapInv, Current, Timed
<1>3. /\ pc' \in {"flush", "write"} /\ (buffer').timestamp # None =>
           /\ firstValid' # None /\ firstValid' <= (buffer').timestamp
           /\ lastIndex' <= (buffer').timestamp
           /\ ~(buffer').include =>
                (buffer').timestamp <=
                  (IF lastIndex' = None THEN firstValid' ELSE lastIndex') + (settings').max
      /\ pc' = "write" /\ (buffer').include =>
           \E i \in 1 .. Len(records') : records'[i].offset = Len(events')
  BY DEF GapInv
<1> QED BY <1>1, <1>2, <1>3 DEF GapInv, Current, Timed

LEMMA GapOther ==
  ASSUME SinkInv, GapInv,
         \/ PersistEvent \/ PersistRecord
         \/ SetProperty \/ StartRejected \/ StartWhenStarted
         \/ FlushFails \/ RecordRejected \/ RecordPanics \/ Synced
         \/ Stop \/ Stopped \/ StoppedToSeal \/ SealData \/ SealIndex
         \/ StopFails \/ DropWriter \/ Crash \/ UNCHANGED vars
  PROVE  GapInv'
<1> USE DEF streams, progress
<1>1. CASE SetProperty \/ StartRejected \/ Stopped \/ SealIndex \/ Crash
  <2>1. pc' = "stopped"
    BY <1>1 DEF SetProperty, StartRejected, Stopped, SealIndex, Crash, Leave, vars
  <2> QED BY <2>1 DEF GapInv
<1>2. CASE PersistEvent \/ PersistRecord \/ DropWriter \/ UNCHANGED vars
  <2>1. UNCHANGED <<events, records, session, settings, firstValid, lastIndex, pc, buffer>>
    BY <1>2 DEF PersistEvent, PersistRecord, DropWriter, vars
  <2>2. CASE pc = "stopped"
    BY <2>1, <2>2 DEF GapInv
  <2> QED BY <2>1, <2>2, GapStays
<1>3. CASE \/ StartWhenStarted \/ FlushFails \/ RecordRejected \/ RecordPanics \/ Synced
           \/ Stop \/ StoppedToSeal \/ SealData \/ StopFails
  <2>1. /\ UNCHANGED <<events, records, session, settings, firstValid, lastIndex>>
        /\ pc # "stopped" /\ pc' \notin {"flush", "write"}
    BY <1>3 DEF StartWhenStarted, FlushFails, RecordRejected, RecordPanics, Synced, EndOfBuffer,
       Stop, StoppedToSeal, SealData, StopFails, Failure
  <2> QED BY <2>1, GapStays
<1> QED BY <1>1, <1>2, <1>3

LEMMA GapStart ==
  ASSUME SinkInv, SessionInv, Start
  PROVE  GapInv'
<1>1. /\ session' = session + 1 /\ UNCHANGED <<events, settings>>
      /\ settings.min <= settings.max
      /\ pc' = "idle" /\ firstValid' = None /\ lastIndex' = None
  BY DEF Start, streams, Fresh, ValidSettings
<1>2. session \in Nat /\ \A k \in 1 .. Len(events) : events[k].session \in Nat
  BY SessionNumbers
<1>3. \A k \in 1 .. Len(events') : events'[k].session # session'
  BY <1>1, <1>2 DEF SessionInv
<1>4. IndexGapsBounded'
  BY <1>3 DEF IndexGapsBounded
<1> QED BY <1>1, <1>3, <1>4 DEF GapInv, Current

LEMMA GapRender ==
  ASSUME SinkInv, GapInv,
         NEW kind \in BufferKinds, NEW timestamp \in {None} \cup Timestamps,
         Render(kind, timestamp),
         timestamp # None => firstValid <= timestamp /\ lastIndex <= timestamp
  PROVE  GapInv'
<1>1. /\ pc = "idle" /\ pc' \in {"flush", "write"}
      /\ UNCHANGED <<events, records, settings, lastIndex, session>>
      /\ firstValid' = IF firstValid = None THEN timestamp ELSE firstValid
      /\ (buffer').timestamp = timestamp
      /\ (buffer').include <=> IncludeInIndex(timestamp, kind.delta, firstValid')
      /\ pc' = "flush" <=> (buffer').include
  BY RenderFacts
<1>2. /\ timestamp \in Nat \cup {None} /\ firstValid \in Nat \cup {None}
      /\ lastIndex \in Nat \cup {None} /\ None \in Int
      /\ \A t \in Nat : None < t
      /\ settings.min \in Nat /\ settings.max \in Nat /\ settings.min <= settings.max
  BY <1>1, TimeNumbers, Bounds, SettingsNumbers DEF GapInv
<1>3. timestamp # None =>
        firstValid' # None /\ firstValid' <= timestamp /\ lastIndex <= timestamp
  BY <1>1, <1>2
<1>4. timestamp # None /\ ~(buffer').include =>
        timestamp <= (IF lastIndex = None THEN firstValid' ELSE lastIndex) + settings.max
  <2> SUFFICES ASSUME timestamp # None,
                      ~IncludeInIndex(timestamp, kind.delta, firstValid')
               PROVE  timestamp <= (IF lastIndex = None THEN firstValid' ELSE lastIndex)
                                     + settings.max
    BY <1>1
  <2>1. timestamp \in Nat /\ firstValid' \in Nat
    BY <1>1, <1>2
  <2>2. CASE kind.delta
    <3>1. ~(timestamp > (IF lastIndex = None THEN firstValid' ELSE lastIndex) + settings.max)
      BY <2>2 DEF IncludeInIndex
    <3> QED BY <1>2, <2>1, <3>1
  <2>3. CASE ~kind.delta
    <3>1. lastIndex # None /\ ~(timestamp >= lastIndex + settings.min)
      BY <2>3 DEF IncludeInIndex
    <3> QED BY <1>2, <2>1, <3>1
  <2> QED BY <2>2, <2>3
<1>5. \A k \in 1 .. Len(events) : Current(k) /\ Timed(k) =>
        firstValid' # None /\ firstValid' <= events[k].timestamp
  BY <1>1 DEF GapInv
<1>6. lastIndex # None =>
        \E i \in 1 .. Len(records) :
          /\ records[i].timestamp = lastIndex
          /\ \A k \in records[i].offset + 1 .. Len(events) :
               Timed(k) => lastIndex <= events[k].timestamp
  BY <1>1 DEF GapInv
<1>7. IndexGapsBounded'
  BY <1>1, GapsStay DEF GapInv
<1>8. pc' = "write" => ~(buffer').include
  BY <1>1
<1>9. /\ (settings.min <= settings.max)'
      /\ \A k \in 1 .. Len(events') :
           events'[k].session = session' /\ events'[k].timestamp # None
             => firstValid' # None /\ firstValid' <= events'[k].timestamp
      /\ lastIndex' # None =>
           \E i \in 1 .. Len(records') :
             /\ records'[i].timestamp = lastIndex'
             /\ \A k \in records'[i].offset + 1 .. Len(events') :
                  events'[k].timestamp # None => lastIndex' <= events'[k].timestamp
  BY <1>1, <1>2, <1>5, <1>6 DEF Current, Timed
<1>10. pc' \in {"flush", "write"} /\ (buffer').timestamp # None =>
         /\ firstValid' # None /\ firstValid' <= (buffer').timestamp
         /\ lastIndex' <= (buffer').timestamp
         /\ ~(buffer').include =>
              (buffer').timestamp <=
                (IF lastIndex' = None THEN firstValid' ELSE lastIndex') + (settings').max
  BY <1>1, <1>3, <1>4
<1> QED BY <1>7, <1>8, <1>9, <1>10 DEF GapInv, Current, Timed

LEMMA GapRecordSteps ==
  ASSUME SinkInv, GapInv, WriteRecord \/ WriteFinalRecord
  PROVE  GapInv'
<1>1. Len(records) \in Nat /\ Len(events) \in Nat /\ buffer.timestamp \in Nat \cup {None}
      /\ settings.max \in Nat
  BY TimeNumbers, SettingsNumbers
<1>2. CASE WriteRecord
  <2>1. /\ records' = Append(records, Rendered) /\ pc = "flush" /\ pc' = "write"
        /\ lastIndex' = buffer.timestamp /\ buffer.timestamp # None
        /\ buffer.offset = Len(events)
        /\ UNCHANGED <<events, settings, buffer, firstValid, session>>
    BY <1>2, RecordFacts
  <2>2. Rendered.timestamp = buffer.timestamp /\ Rendered.offset = Len(events)
    BY <2>1 DEF Rendered
  <2> HIDE DEF Rendered
  <2>3. /\ Len(records') = Len(records) + 1
        /\ \A i \in 1 .. Len(records) : records'[i] = records[i]
        /\ records'[Len(records) + 1] = Rendered
    BY <2>1, RecordAdded
  <2> DEFINE N == Len(records) + 1
  <2>4. N \in 1 .. Len(records') /\ records'[N].timestamp = buffer.timestamp
        /\ records'[N].offset = Len(events)
        /\ \A k \in records'[N].offset + 1 .. Len(events) : FALSE
    BY <1>1, <2>2, <2>3
  <2> HIDE DEF N
  <2>5. IndexGapsBounded'
    BY <1>1, <2>1, <2>3, GapsStay DEF GapInv
  <2>6. /\ buffer.timestamp <= buffer.timestamp + settings.max
        /\ lastIndex' <= (buffer').timestamp
    BY <1>1, <2>1
  <2>7. /\ (settings.min <= settings.max)'
        /\ \A k \in 1 .. Len(events') :
             events'[k].session = session' /\ events'[k].timestamp # None
               => firstValid' # None /\ firstValid' <= events'[k].timestamp
        /\ firstValid' # None /\ firstValid' <= (buffer').timestamp
    BY <2>1 DEF GapInv, Current, Timed
  <2>8. \E i \in 1 .. Len(records') :
          /\ records'[i].timestamp = lastIndex'
          /\ \A k \in records'[i].offset + 1 .. Len(events') :
               events'[k].timestamp # None => lastIndex' <= events'[k].timestamp
    BY <2>1, <2>4
  <2>9. \E i \in 1 .. Len(records') : records'[i].offset = Len(events')
    BY <2>1, <2>4
  <2>10. (buffer').timestamp <=
           (IF lastIndex' = None THEN firstValid' ELSE lastIndex') + (settings').max
    BY <2>1, <2>6
  <2> QED BY <2>1, <2>5, <2>6, <2>7, <2>8, <2>9, <2>10 DEF GapInv, Current, Timed
<1>3. CASE WriteFinalRecord
  <2>1. /\ records' = IF HasFinal THEN Append(records, Final) ELSE records
        /\ pc = "stopping" /\ pc' = "stopIndex"
        /\ UNCHANGED <<events, settings, firstValid, lastIndex, session>>
    BY <1>3, FinalFacts
  <2>2. \A i \in 1 .. Len(records) : i \in 1 .. Len(records') /\ records'[i] = records[i]
    <3>1. CASE HasFinal
      <4>1. Len(records') = Len(records) + 1
            /\ \A i \in 1 .. Len(records) : records'[i] = records[i]
        BY <2>1, <3>1, RecordAdded
      <4> QED BY <1>1, <4>1
    <3>2. CASE ~HasFinal
      BY <2>1, <3>2
    <3> QED BY <3>1, <3>2
  <2>3. IndexGapsBounded'
    BY <2>1, <2>2, GapsStay DEF GapInv
  <2>4. /\ (settings.min <= settings.max)'
        /\ \A k \in 1 .. Len(events') :
             events'[k].session = session' /\ events'[k].timestamp # None
               => firstValid' # None /\ firstValid' <= events'[k].timestamp
    BY <2>1 DEF GapInv, Current, Timed
  <2>5. lastIndex' # None =>
          \E i \in 1 .. Len(records') :
            /\ records'[i].timestamp = lastIndex'
            /\ \A k \in records'[i].offset + 1 .. Len(events') :
                 events'[k].timestamp # None => lastIndex' <= events'[k].timestamp
    <3> SUFFICES ASSUME lastIndex # None
                 PROVE  \E i \in 1 .. Len(records') :
                          /\ records'[i].timestamp = lastIndex
                          /\ \A k \in records'[i].offset + 1 .. Len(events) :
                               events[k].timestamp # None => lastIndex <= events[k].timestamp
      BY <2>1
    <3>1. PICK i \in 1 .. Len(records) :
            /\ records[i].timestamp = lastIndex
            /\ \A k \in records[i].offset + 1 .. Len(events) :
                 events[k].timestamp # None => lastIndex <= events[k].timestamp
      BY <2>1 DEF GapInv, Timed
    <3> QED BY <2>2, <3>1
  <2> QED BY <2>1, <2>3, <2>4, <2>5 DEF GapInv, Current, Timed
<1> QED BY <1>2, <1>3

(* A new event is no further from an event of its session without a record between
   them: the record that the buffer got, or the last one, or the choice of render
   not to index. *)
LEMMA GapWrites ==
  ASSUME SinkInv, GapInv, pc = "write",
         NEW n \in 0 .. buffer.kind.events, WriteEvents(n),
         UNCHANGED <<records, session, settings, firstValid, lastIndex>>,
         pc' \notin {"flush", "write"}
  PROVE  GapInv'
<1> DEFINE L == Len(events)
           b == buffer.timestamp
           far == (IF lastIndex = None THEN firstValid ELSE lastIndex) + settings.max
<1>1. /\ n \in Nat /\ L \in Nat /\ Len(events') = L + n
      /\ \A k \in 1 .. L : events'[k] = events[k]
      /\ \A k \in L + 1 .. L + n : events'[k].timestamp = b /\ events'[k].session = session
  BY EventsAdded
<1>2. /\ b \in Nat \cup {None} /\ firstValid \in Nat \cup {None} /\ lastIndex \in Nat \cup {None}
      /\ settings.max \in Nat /\ None = -1
      /\ \A k \in 1 .. L : events[k].timestamp \in Nat \cup {None}
      /\ \A i \in 1 .. Len(records) : records[i].timestamp \in Nat
  BY TimeNumbers, SettingsNumbers DEF None
<1>3. \A i \in 1 .. Len(records) : records[i].offset \in Nat /\ records[i].offset <= L
  <2>1. durable \in Nat /\ durable <= L
    BY Numbers DEF SinkInv, Counters
  <2>2. \A i \in 1 .. Len(records) : records[i].offset \in Nat /\ records[i].offset <= durable
    BY Numbers DEF SinkInv, DataIsDurable
  <2> QED BY <1>1, <2>1, <2>2
<1>4. /\ b # None => firstValid # None /\ firstValid <= b /\ lastIndex <= b
      /\ b # None /\ ~buffer.include => b <= far
      /\ buffer.include => \E i \in 1 .. Len(records) : records[i].offset = L
  BY DEF GapInv
<1>5. /\ \A k \in 1 .. L : events[k].session = session /\ events[k].timestamp # None
           => firstValid # None /\ firstValid <= events[k].timestamp
      /\ lastIndex # None =>
           \E i \in 1 .. Len(records) :
             /\ records[i].timestamp = lastIndex
             /\ \A k \in records[i].offset + 1 .. L :
                  events[k].timestamp # None => lastIndex <= events[k].timestamp
      /\ settings.min <= settings.max
  BY DEF GapInv, Current, Timed
<1>6. ASSUME NEW k \in 1 .. L, NEW m \in 1 .. L, k < m,
             events[k].session = session, events[m].session = session,
             events[k].timestamp # None,
             events[m].timestamp > events[k].timestamp + settings.max
      PROVE  \E i \in 1 .. Len(records) : records[i].offset \in k .. m - 1
  BY <1>6 DEF GapInv, IndexGapsBounded
<1> HIDE DEF L, b, far
<1>7. \A k \in 1 .. L + n : k \in 1 .. L \/ k \in L + 1 .. L + n
  BY <1>1
<1>8. ASSUME NEW k \in 1 .. L + n, events'[k].session = session, events'[k].timestamp # None
      PROVE  firstValid # None /\ firstValid <= events'[k].timestamp
  <2>1. CASE k \in 1 .. L
    BY <1>1, <1>5, <1>8, <2>1
  <2>2. CASE k \in L + 1 .. L + n
    BY <1>1, <1>4, <1>8, <2>2
  <2> QED BY <1>7, <2>1, <2>2
<1>9. lastIndex # None =>
         \E i \in 1 .. Len(records) :
           /\ records[i].timestamp = lastIndex
           /\ \A k \in records[i].offset + 1 .. L + n :
                events'[k].timestamp # None => lastIndex <= events'[k].timestamp
  <2> SUFFICES ASSUME lastIndex # None
               PROVE  \E i \in 1 .. Len(records) :
                        /\ records[i].timestamp = lastIndex
                        /\ \A k \in records[i].offset + 1 .. L + n :
                             events'[k].timestamp # None => lastIndex <= events'[k].timestamp
    OBVIOUS
  <2>1. PICK i \in 1 .. Len(records) :
          /\ records[i].timestamp = lastIndex
          /\ \A k \in records[i].offset + 1 .. L :
               events[k].timestamp # None => lastIndex <= events[k].timestamp
    BY <1>5
  <2>2. ASSUME NEW k \in records[i].offset + 1 .. L + n, events'[k].timestamp # None
        PROVE  lastIndex <= events'[k].timestamp
    <3>1. (k \in records[i].offset + 1 .. L /\ k \in 1 .. L) \/ k \in L + 1 .. L + n
      BY <1>1, <1>3
    <3>2. CASE k \in records[i].offset + 1 .. L /\ k \in 1 .. L
      BY <1>1, <2>1, <2>2, <3>2
    <3>3. CASE k \in L + 1 .. L + n
      BY <1>1, <1>4, <2>1, <2>2, <3>3
    <3> QED BY <3>1, <3>2, <3>3
  <2> QED BY <2>1, <2>2
<1>10. ASSUME NEW k \in 1 .. L + n, NEW m \in 1 .. L + n, k < m,
              events'[k].session = session, events'[m].session = session,
              events'[k].timestamp # None,
              events'[m].timestamp > events'[k].timestamp + settings.max
       PROVE  \E i \in 1 .. Len(records) : records[i].offset \in k .. m - 1
  <2>1. CASE m \in 1 .. L
    <3>1. k \in 1 .. L
      BY <1>1, <1>10, <2>1
    <3> QED BY <1>1, <1>6, <1>10, <2>1, <3>1
  <2>2. CASE m \in L + 1 .. L + n
    <3>1. events'[m].timestamp = b /\ b > events'[k].timestamp + settings.max
      BY <1>1, <1>10, <2>2
    <3>2. CASE k \in L + 1 .. L + n
      <4>1. b # None /\ b > b + settings.max
        BY <1>1, <1>10, <3>1, <3>2
      <4>2. b \in Nat
        BY <1>2, <4>1
      <4> QED BY <1>2, <4>1, <4>2
    <3>3. CASE k \in 1 .. L
      <4> DEFINE t == events[k].timestamp
      <4>1. t \in Nat /\ b > t + settings.max /\ events[k].session = session /\ t # None
        BY <1>1, <1>2, <1>10, <3>1, <3>3
      <4>2. b \in Nat /\ b # None
        BY <1>2, <4>1
      <4>3. L \in k .. m - 1
        BY <1>1, <2>2, <3>3
      <4>4. CASE buffer.include
        BY <1>4, <4>3, <4>4
      <4>5. CASE ~buffer.include
        <5>1. b <= far
          BY <1>4, <4>2, <4>5
        <5>2. firstValid # None /\ firstValid <= t /\ firstValid \in Nat
          BY <1>2, <1>5, <3>3, <4>1
        <5>3. lastIndex # None
          <6>1. lastIndex = None => far = firstValid + settings.max
            BY DEF far
          <6> HIDE DEF t
          <6> QED BY <1>2, <4>1, <4>2, <5>1, <5>2, <6>1
        <5>4. PICK i \in 1 .. Len(records) :
                /\ records[i].timestamp = lastIndex
                /\ \A j \in records[i].offset + 1 .. L :
                     events[j].timestamp # None => lastIndex <= events[j].timestamp
          BY <1>5, <5>3
        <5>5. ~(lastIndex <= t)
          <6>1. far = lastIndex + settings.max /\ lastIndex \in Nat
            BY <1>2, <5>3 DEF far
          <6> HIDE DEF t
          <6> QED BY <1>2, <4>1, <4>2, <5>1, <6>1
        <5>6. k \notin records[i].offset + 1 .. L
          BY <4>1, <5>4, <5>5
        <5>7. records[i].offset \in k .. m - 1
          BY <1>1, <1>3, <2>2, <3>3, <5>6
        <5> QED BY <5>7
      <4> QED BY <4>4, <4>5
    <3> QED BY <1>7, <3>2, <3>3
  <2> QED BY <1>7, <2>1, <2>2
<1>11. IndexGapsBounded'
  BY <1>1, <1>10 DEF IndexGapsBounded
<1> QED BY <1>1, <1>5, <1>8, <1>9, <1>11 DEF GapInv, Current, Timed

LEMMA GapBufferSteps ==
  ASSUME SinkInv, GapInv, WriteBuffer \/ WriteBufferToSync \/ EventPanics
  PROVE  GapInv'
<1>1. /\ buffer.kind.events \in 0 .. buffer.kind.events
      /\ \A n \in 0 .. buffer.kind.events - 1 : n \in 0 .. buffer.kind.events
  BY Bounds DEF SinkInv, TypeOK, Buffer
<1>2. CASE WriteBuffer \/ WriteBufferToSync
  <2>1. /\ pc = "write" /\ WriteEvents(buffer.kind.events) /\ pc' \in {"idle", "sync"}
        /\ UNCHANGED <<records, session, settings, firstValid, lastIndex>>
    BY <1>2 DEF WriteBuffer, WriteBufferToSync, EndOfBuffer
  <2> QED BY <1>1, <2>1, GapWrites
<1>3. CASE EventPanics
  <2>1. PICK n \in 0 .. buffer.kind.events - 1 : WriteEvents(n)
    BY <1>3 DEF EventPanics
  <2>2. /\ pc = "write" /\ pc' = "panicked"
        /\ UNCHANGED <<records, session, settings, firstValid, lastIndex>>
    BY <1>3 DEF EventPanics, progress
  <2> QED BY <1>1, <2>1, <2>2, GapWrites
<1> QED BY <1>2, <1>3

(* The buffers of a session do not begin before its first, nor before the last
   that has a record. *)
RendersInOrder ==
  \A kind \in BufferKinds, timestamp \in Timestamps :
    Render(kind, timestamp) => firstValid <= timestamp /\ lastIndex <= timestamp

(***************************************************************************)
(* IncludeInIndex, imp.rs: while the element runs, a reader that seeks     *)
(* never has to read further than index-max-sec, whatever buffers are key  *)
(* frames, if no buffer begins before the first buffer of the session or   *)
(* before the last that has a record.  What earlier sessions wrote, and    *)
(* whether two buffers overlap or begin together, does not matter.         *)
(***************************************************************************)
THEOREM IndexGapsWhenOrdered == Spec /\ [][RendersInOrder]_vars => []IndexGapsBounded
<1>1. Init => GapInv
  BY DEF Init, GapInv
<1>2. SinkInv /\ SessionInv /\ GapInv /\ [Next]_vars /\ [RendersInOrder]_vars => GapInv'
  <2> SUFFICES ASSUME SinkInv, SessionInv, GapInv, [Next]_vars, [RendersInOrder]_vars
               PROVE  GapInv'
    OBVIOUS
  <2>1. ASSUME NEW kind \in BufferKinds, NEW timestamp \in {None} \cup Timestamps,
               Render(kind, timestamp)
        PROVE  GapInv'
    <3>1. pc' # pc
      BY <2>1, RenderFacts
    <3>2. RendersInOrder
      BY <3>1 DEF vars
    <3> QED BY <2>1, <3>2, GapRender DEF RendersInOrder
  <2> QED BY <2>1, GapOther, GapStart, GapRecordSteps, GapBufferSteps, Zenon DEF Next
<1>3. GapInv => IndexGapsBounded
  BY DEF GapInv, IndexGapsBounded
<1> QED BY <1>1, <1>2, <1>3, SinkInvariant, SessionInvariant, PTL DEF Spec

(***************************************************************************)
(* So it is when no buffer begins before the end of the one before.        *)
(***************************************************************************)
THEOREM IndexGapsHolds ==
  ASSUME InOrder
  PROVE  Spec => []IndexGapsBounded
<1>1. ASSUME SinkInv, TimeInv
      PROVE  RendersInOrder
  <2> SUFFICES ASSUME NEW kind \in BufferKinds, NEW timestamp \in Timestamps,
                      Render(kind, timestamp)
               PROVE  firstValid <= timestamp /\ lastIndex <= timestamp
    BY DEF RendersInOrder
  <2>1. timestamp \in Nat /\ timestamp # None
    BY Bounds, TimeNumbers
  <2>2. timestamp >= nextTimestamp
    BY <1>1, <2>1 DEF Render
  <2>3. /\ nextTimestamp \in Int /\ firstValid \in Int /\ lastIndex \in Int
        /\ firstValid <= nextTimestamp /\ lastIndex <= nextTimestamp
    BY <1>1, TimeNumbers DEF TimeInv
  <2> QED BY <2>1, <2>2, <2>3
<1>2. SinkInv /\ TimeInv => [RendersInOrder]_vars
  BY <1>1
<1> QED BY <1>2, SinkInvariant, TimeInvariant, IndexGapsWhenOrdered, PTL

------------------------------------------------------------------------------
(* RecordsBracketEvents *)

LEMMA BracketStays ==
  ASSUME BracketInv, UNCHANGED <<events, records>>,
         \/ finalTimestamp' = None
         \/ pc' \notin {"idle", "flush", "failed", "stopping", "write", "sync"}
         \/ UNCHANGED <<finalTimestamp, pc, buffer>>
         \/ UNCHANGED finalTimestamp /\ pc \in {"idle", "flush", "failed"}
  PROVE  BracketInv'
<1>1. Brackets'
  BY DEF BracketInv, Brackets, Timed
<1>2. /\ finalTimestamp' # None
      /\ \/ pc' \in {"idle", "flush", "failed", "stopping"}
         \/ pc' \in {"write", "sync"} /\ (buffer').timestamp = None
      => Reached(finalTimestamp)'
  BY DEF BracketInv, Reached, Timed
<1> QED BY <1>1, <1>2 DEF BracketInv

LEMMA BracketOther ==
  ASSUME SinkInv, BracketInv, "sync" \notin Errors,
         \/ PersistEvent \/ PersistRecord
         \/ SetProperty \/ Start \/ StartRejected \/ StartWhenStarted
         \/ \E kind \in BufferKinds, timestamp \in {None} \cup Timestamps : Render(kind, timestamp)
         \/ FlushFails \/ RecordRejected \/ RecordPanics
         \/ Stop \/ Stopped \/ StoppedToSeal \/ SealData \/ SealIndex
         \/ StopFails \/ DropWriter \/ UNCHANGED vars
  PROVE  BracketInv'
<1> USE DEF streams, progress
<1>1. CASE PersistEvent \/ PersistRecord \/ SetProperty \/ StartRejected \/ DropWriter
           \/ UNCHANGED vars
  <2>1. UNCHANGED <<events, records, finalTimestamp, pc, buffer>>
    BY <1>1 DEF PersistEvent, PersistRecord, SetProperty, StartRejected, DropWriter, vars
  <2> QED BY <2>1, BracketStays
<1>2. CASE Start \/ Stopped \/ SealIndex
  <2>1. UNCHANGED <<events, records>> /\ finalTimestamp' = None
    BY <1>2 DEF Start, Stopped, SealIndex, Leave, Fresh
  <2> QED BY <2>1, BracketStays
<1>3. CASE FlushFails \/ RecordRejected \/ Stop
  <2>1. UNCHANGED <<events, records, finalTimestamp>> /\ pc \in {"idle", "flush", "failed"}
    BY <1>3 DEF FlushFails, RecordRejected, Stop, Failure
  <2> QED BY <2>1, BracketStays
<1>4. CASE StartWhenStarted \/ RecordPanics \/ StoppedToSeal \/ SealData \/ StopFails
  <2>1. /\ UNCHANGED <<events, records>>
        /\ pc' \notin {"idle", "flush", "failed", "stopping", "write", "sync"}
    BY <1>4 DEF StartWhenStarted, RecordPanics, StoppedToSeal, SealData, StopFails, Failure
  <2> QED BY <2>1, BracketStays
<1>5. ASSUME NEW kind \in BufferKinds, NEW timestamp \in {None} \cup Timestamps,
             Render(kind, timestamp)
      PROVE  BracketInv'
  <2>1. UNCHANGED <<events, records, finalTimestamp>> /\ pc = "idle"
    BY <1>5, RenderFacts
  <2> QED BY <2>1, BracketStays
<1> QED BY <1>1, <1>2, <1>3, <1>4, <1>5

(* A record at the end of the data, at a time that is reached. *)
LEMMA BracketAppend ==
  ASSUME SinkInv, BracketInv, NEW r, records' = Append(records, r), UNCHANGED events,
         r.offset = Len(events), Reached(r.timestamp), r.timestamp \in Nat,
         pc' = "stopIndex" \/ (pc' = "write" /\ (buffer').timestamp # None)
  PROVE  BracketInv'
<1> DEFINE N == Len(records)
<1>1. /\ N \in Nat /\ Len(records') = N + 1
      /\ \A i \in 1 .. N : records'[i] = records[i]
      /\ records'[N + 1] = r
  BY RecordAdded
<1>2. /\ \A k \in 1 .. Len(events) : Timed(k) => events[k].timestamp < r.timestamp
      /\ \A i \in 1 .. N : records[i].timestamp <= r.timestamp
      /\ r.timestamp <= r.timestamp
      /\ Len(events) \in Nat /\ \A k \in 1 .. Len(events) : ~(k > Len(events))
  BY TimeNumbers DEF Reached
<1>3. /\ \A i, j \in 1 .. N : i <= j => records[i].timestamp <= records[j].timestamp
      /\ \A i \in 1 .. N, k \in 1 .. Len(events) : Timed(k) =>
           /\ k <= records[i].offset => events[k].timestamp < records[i].timestamp
           /\ k > records[i].offset => records[i].timestamp <= events[k].timestamp
  BY DEF BracketInv, Brackets
<1> HIDE DEF N
<1>4. \A i \in 1 .. N + 1 : i \in 1 .. N \/ i = N + 1
  BY <1>1
<1>5. ASSUME NEW i \in 1 .. N + 1, NEW j \in 1 .. N + 1, i <= j
      PROVE  records'[i].timestamp <= records'[j].timestamp
  <2>1. CASE j \in 1 .. N
    <3>1. i \in 1 .. N
      BY <1>1, <1>5, <2>1
    <3> QED BY <1>1, <1>3, <1>5, <2>1, <3>1
  <2>2. CASE j = N + 1
    BY <1>1, <1>2, <1>4, <2>2
  <2> QED BY <1>4, <2>1, <2>2
<1>6. ASSUME NEW i \in 1 .. N + 1, NEW k \in 1 .. Len(events), Timed(k)
      PROVE  /\ k <= records'[i].offset => events[k].timestamp < records'[i].timestamp
             /\ k > records'[i].offset => records'[i].timestamp <= events[k].timestamp
  <2>1. CASE i \in 1 .. N
    BY <1>1, <1>3, <1>6, <2>1
  <2>2. CASE i = N + 1
    BY <1>1, <1>2, <1>6, <2>2
  <2> QED BY <1>4, <2>1, <2>2
<1>7. Brackets'
  BY <1>1, <1>5, <1>6 DEF Brackets, Timed
<1> QED BY <1>7 DEF BracketInv

LEMMA BracketRecordSteps ==
  ASSUME SinkInv, TimeInv, EndInv, BracketInv, WriteRecord \/ WriteFinalRecord
  PROVE  BracketInv'
<1>1. CASE WriteRecord
  <2>1. /\ records' = Append(records, Rendered) /\ pc = "flush" /\ pc' = "write"
        /\ buffer.timestamp # None /\ buffer.offset = Len(events) /\ UNCHANGED <<events, buffer>>
    BY <1>1, RecordFacts
  <2>2. Rendered.timestamp = buffer.timestamp /\ Rendered.offset = Len(events)
    BY <2>1 DEF Rendered
  <2>3. Reached(Rendered.timestamp) /\ Rendered.timestamp \in Nat
    BY <2>1, <2>2, TimeNumbers DEF TimeInv
  <2> HIDE DEF Rendered
  <2> QED BY <2>1, <2>2, <2>3, BracketAppend
<1>2. CASE WriteFinalRecord
  <2>1. /\ records' = IF HasFinal THEN Append(records, Final) ELSE records
        /\ pc = "stopping" /\ pc' = "stopIndex" /\ UNCHANGED events
    BY <1>2, FinalFacts
  <2>2. CASE HasFinal
    <3>1. Final.timestamp = finalTimestamp /\ Final.offset = finalOffset
      BY DEF Final
    <3>2. Reached(finalTimestamp) /\ finalTimestamp \in Nat /\ finalOffset = Len(events)
      BY <2>1, <2>2, TimeNumbers DEF BracketInv, EndInv, HasFinal
    <3> HIDE DEF Final
    <3> QED BY <2>1, <2>2, <3>1, <3>2, BracketAppend
  <2>3. CASE ~HasFinal
    BY <2>1, <2>3, BracketStays
  <2> QED BY <2>2, <2>3
<1> QED BY <1>1, <1>2

LEMMA BracketWrites ==
  ASSUME SinkInv, TimeInv, BracketInv, pc = "write",
         NEW n \in 0 .. buffer.kind.events, WriteEvents(n), UNCHANGED records
  PROVE  /\ Brackets'
         /\ buffer.timestamp = None /\ finalTimestamp # None /\ UNCHANGED finalTimestamp
              => Reached(finalTimestamp)'
<1> DEFINE L == Len(events)
<1>1. /\ n \in Nat /\ L \in Nat /\ Len(events') = L + n
      /\ \A k \in 1 .. L : events'[k] = events[k]
      /\ \A k \in L + 1 .. L + n : events'[k].timestamp = buffer.timestamp
  BY EventsAdded
<1>2. \A i \in 1 .. Len(records) : records[i].offset \in Nat /\ records[i].offset <= L
  <2>1. durable \in Nat /\ durable <= L
    BY Numbers DEF SinkInv, Counters
  <2>2. \A i \in 1 .. Len(records) : records[i].offset \in Nat /\ records[i].offset <= durable
    BY Numbers DEF SinkInv, DataIsDurable
  <2> QED BY <1>1, <2>1, <2>2
<1>3. buffer.timestamp # None =>
        \A i \in 1 .. Len(records) : records[i].timestamp <= buffer.timestamp
  BY DEF TimeInv, Reached
<1>4. \A i \in 1 .. Len(records), k \in 1 .. L : events[k].timestamp # None =>
        /\ k <= records[i].offset => events[k].timestamp < records[i].timestamp
        /\ k > records[i].offset => records[i].timestamp <= events[k].timestamp
  BY DEF BracketInv, Brackets, Timed
<1> HIDE DEF L
<1>5. \A k \in 1 .. L + n : k \in 1 .. L \/ k \in L + 1 .. L + n
  BY <1>1
<1>6. ASSUME NEW i \in 1 .. Len(records), NEW k \in 1 .. L + n, events'[k].timestamp # None
      PROVE  /\ k <= records[i].offset => events'[k].timestamp < records[i].timestamp
             /\ k > records[i].offset => records[i].timestamp <= events'[k].timestamp
  <2>1. CASE k \in 1 .. L
    BY <1>1, <1>4, <1>6, <2>1
  <2>2. CASE k \in L + 1 .. L + n
    <3>1. ~(k <= records[i].offset)
      BY <1>1, <1>2, <2>2
    <3>2. records[i].timestamp <= events'[k].timestamp
      BY <1>1, <1>3, <1>6, <2>2
    <3> QED BY <3>1, <3>2
  <2> QED BY <1>5, <2>1, <2>2
<1>7. Brackets'
  <2>1. \A i, j \in 1 .. Len(records') :
          i <= j => records'[i].timestamp <= records'[j].timestamp
    BY DEF BracketInv, Brackets
  <2> QED BY <1>1, <1>6, <2>1 DEF Brackets, Timed
<1>8. ASSUME buffer.timestamp = None, finalTimestamp # None, UNCHANGED finalTimestamp
      PROVE  Reached(finalTimestamp)'
  <2>1. Reached(finalTimestamp)
    BY <1>8 DEF BracketInv
  <2>2. ASSUME NEW k \in 1 .. L + n, events'[k].timestamp # None
        PROVE  events'[k].timestamp < finalTimestamp
    <3>1. CASE k \in 1 .. L
      BY <1>1, <2>1, <2>2, <3>1 DEF Reached, Timed, L
    <3>2. CASE k \in L + 1 .. L + n
      BY <1>1, <1>8, <2>2, <3>2
    <3> QED BY <1>5, <3>1, <3>2
  <2>3. \A i \in 1 .. Len(records') : records'[i].timestamp <= finalTimestamp'
    BY <1>8, <2>1 DEF Reached
  <2> QED BY <1>1, <1>8, <2>2, <2>3 DEF Reached, Timed
<1> QED BY <1>7, <1>8

LEMMA BracketBufferSteps ==
  ASSUME SinkInv, TimeInv, BracketInv, TimeInv',
         WriteBuffer \/ WriteBufferToSync \/ EventPanics \/ Synced
  PROVE  BracketInv'
<1>1. /\ buffer.kind.events \in 0 .. buffer.kind.events
      /\ \A n \in 0 .. buffer.kind.events - 1 : n \in 0 .. buffer.kind.events
  BY Bounds DEF SinkInv, TypeOK, Buffer
<1>2. ASSUME pc \in {"write", "sync"}, buffer.timestamp # None, UNCHANGED nextTimestamp,
             finalTimestamp' = buffer.timestamp + Longest(buffer.kind.duration)
      PROVE  Reached(finalTimestamp)'
  <2>1. finalTimestamp' = nextTimestamp'
    BY <1>2 DEF TimeInv
  <2>2. Reached(nextTimestamp)'
    BY DEF TimeInv
  <2> QED BY <2>1, <2>2 DEF Reached
<1>3. CASE WriteBuffer
  <2>1. /\ pc = "write" /\ WriteEvents(buffer.kind.events) /\ pc' = "idle"
        /\ UNCHANGED <<records, nextTimestamp>>
        /\ finalTimestamp' = IF buffer.timestamp = None THEN finalTimestamp
                             ELSE buffer.timestamp + Longest(buffer.kind.duration)
    BY <1>3 DEF WriteBuffer, EndOfBuffer
  <2>2. Brackets'
    BY <1>1, <2>1, BracketWrites
  <2>3. finalTimestamp' # None => Reached(finalTimestamp)'
    <3>1. CASE buffer.timestamp = None
      BY <1>1, <2>1, <3>1, BracketWrites
    <3>2. CASE buffer.timestamp # None
      BY <1>2, <2>1, <3>2
    <3> QED BY <3>1, <3>2
  <2> QED BY <2>1, <2>2, <2>3 DEF BracketInv
<1>4. CASE WriteBufferToSync
  <2>1. /\ pc = "write" /\ WriteEvents(buffer.kind.events) /\ pc' = "sync"
        /\ UNCHANGED <<records, buffer, finalTimestamp>>
    BY <1>4 DEF WriteBufferToSync
  <2>2. /\ Brackets'
        /\ buffer.timestamp = None /\ finalTimestamp # None => Reached(finalTimestamp)'
    BY <1>1, <2>1, BracketWrites
  <2> QED BY <2>1, <2>2 DEF BracketInv
<1>5. CASE EventPanics
  <2>1. PICK n \in 0 .. buffer.kind.events - 1 : WriteEvents(n)
    BY <1>5 DEF EventPanics
  <2>2. pc = "write" /\ UNCHANGED records /\ pc' = "panicked"
    BY <1>5 DEF EventPanics, progress
  <2>3. Brackets'
    BY <1>1, <2>1, <2>2, BracketWrites
  <2> QED BY <2>2, <2>3 DEF BracketInv
<1>6. CASE Synced
  <2>1. /\ UNCHANGED <<events, records, nextTimestamp>> /\ pc = "sync" /\ pc' = "idle"
        /\ finalTimestamp' = IF buffer.timestamp = None THEN finalTimestamp
                             ELSE buffer.timestamp + Longest(buffer.kind.duration)
    BY <1>6 DEF Synced, EndOfBuffer, streams
  <2>2. Brackets'
    BY <2>1 DEF BracketInv, Brackets, Timed
  <2>3. finalTimestamp' # None => Reached(finalTimestamp)'
    <3>1. CASE buffer.timestamp = None
      BY <2>1, <3>1 DEF BracketInv, Reached, Timed
    <3>2. CASE buffer.timestamp # None
      BY <1>2, <2>1, <3>2
    <3> QED BY <3>1, <3>2
  <2> QED BY <2>1, <2>2, <2>3 DEF BracketInv
<1> QED BY <1>3, <1>4, <1>5, <1>6

LEMMA BracketCrash ==
  ASSUME SinkInv, BracketInv, Crash
  PROVE  BracketInv'
<1>1. /\ durable \in Nat /\ durable <= Len(events) /\ Len(events) \in Nat
      /\ published \in Nat /\ published <= Len(records) /\ Len(records) \in Nat
      /\ Len(events') = durable /\ \A k \in 1 .. durable : events'[k] = events[k]
      /\ Len(records') = published /\ \A i \in 1 .. published : records'[i] = records[i]
      /\ finalTimestamp' = None
  BY CrashFacts
<1>2. /\ \A k \in 1 .. durable : k \in 1 .. Len(events)
      /\ \A i \in 1 .. published : i \in 1 .. Len(records)
  BY <1>1
<1>3. Brackets'
  BY <1>1, <1>2 DEF BracketInv, Brackets, Timed
<1> QED BY <1>1, <1>3 DEF BracketInv

(* The order of the records *)

LEMMA FollowStays ==
  ASSUME FollowInv, UNCHANGED <<records, nextTimestamp>>,
         \/ finalTimestamp' = None
         \/ pc' \notin {"idle", "flush", "failed", "stopping", "write", "sync"}
         \/ UNCHANGED <<finalTimestamp, pc, buffer>>
         \/ UNCHANGED finalTimestamp /\ pc \in {"idle", "flush", "failed"},
         pc' \in {"flush", "write", "sync"} => UNCHANGED <<pc, buffer>>
  PROVE  FollowInv'
<1>1. (\A i, j \in 1 .. Len(records) : i < j => Follows(records[i], records[j]))'
      /\ Past(nextTimestamp)'
  BY DEF FollowInv, Past, Follows
<1>2. pc' = "flush" /\ (buffer').timestamp # None => Past(buffer.timestamp)'
  BY DEF FollowInv, Past
<1>3. pc' \in {"write", "sync"} /\ (buffer').timestamp # None =>
        \A i \in 1 .. Len(records') : records'[i].timestamp <= (buffer').timestamp
  BY DEF FollowInv
<1>4. /\ finalTimestamp' # None
      /\ \/ pc' \in {"idle", "flush", "failed", "stopping"}
         \/ pc' \in {"write", "sync"} /\ (buffer').timestamp = None
      => Before(finalTimestamp)'
  BY DEF FollowInv, Before
<1> QED BY <1>1, <1>2, <1>3, <1>4 DEF FollowInv

LEMMA FollowOther ==
  ASSUME SinkInv, FollowInv, "sync" \notin Errors,
         \/ PersistEvent \/ PersistRecord
         \/ SetProperty \/ Start \/ StartRejected \/ StartWhenStarted
         \/ FlushFails \/ RecordRejected \/ RecordPanics
         \/ Stop \/ Stopped \/ StoppedToSeal \/ SealData \/ SealIndex
         \/ StopFails \/ DropWriter \/ UNCHANGED vars
  PROVE  FollowInv'
<1> USE DEF streams, progress
<1>1. CASE PersistEvent \/ PersistRecord \/ SetProperty \/ StartRejected \/ DropWriter
           \/ UNCHANGED vars
  <2>1. UNCHANGED <<records, nextTimestamp, finalTimestamp, pc, buffer>>
    BY <1>1 DEF PersistEvent, PersistRecord, SetProperty, StartRejected, DropWriter, vars
  <2> QED BY <2>1, FollowStays
<1>2. CASE Start \/ Stopped \/ SealIndex
  <2>1. /\ UNCHANGED <<records, nextTimestamp>> /\ finalTimestamp' = None
        /\ pc' \notin {"flush", "write", "sync"}
    BY <1>2 DEF Start, Stopped, SealIndex, Leave, Fresh
  <2> QED BY <2>1, FollowStays
<1>3. CASE FlushFails \/ RecordRejected \/ Stop
  <2>1. /\ UNCHANGED <<records, nextTimestamp, finalTimestamp>>
        /\ pc \in {"idle", "flush", "failed"} /\ pc' \notin {"flush", "write", "sync"}
    BY <1>3 DEF FlushFails, RecordRejected, Stop, Failure
  <2> QED BY <2>1, FollowStays
<1>4. CASE StartWhenStarted \/ RecordPanics \/ StoppedToSeal \/ SealData \/ StopFails
  <2>1. /\ UNCHANGED <<records, nextTimestamp>>
        /\ pc' \notin {"idle", "flush", "failed", "stopping", "write", "sync"}
    BY <1>4 DEF StartWhenStarted, RecordPanics, StoppedToSeal, SealData, StopFails, Failure
  <2> QED BY <2>1, FollowStays
<1> QED BY <1>1, <1>2, <1>3, <1>4

LEMMA PastLater ==
  ASSUME SinkInv, NEW t \in Nat, Past(t), NEW u \in Nat
  PROVE  /\ t <= u => Past(u) /\ \A i \in 1 .. Len(records) : records[i].timestamp <= u
         /\ t < u => Before(u)
<1>1. ASSUME NEW i \in 1 .. Len(records)
      PROVE  /\ records[i].timestamp \in Nat
             /\ records[i].timestamp < t \/ (records[i].timestamp = t /\ records[i].final)
  BY TimeNumbers DEF Past
<1>2. ASSUME t <= u, NEW i \in 1 .. Len(records)
      PROVE  /\ records[i].timestamp < u \/ (records[i].timestamp = u /\ records[i].final)
             /\ records[i].timestamp <= u
  BY <1>1, <1>2
<1>3. ASSUME t < u, NEW i \in 1 .. Len(records) PROVE records[i].timestamp < u
  BY <1>1, <1>3
<1> QED BY <1>2, <1>3 DEF Past, Before

LEMMA FollowRender ==
  ASSUME SinkInv, FollowInv, InOrder,
         NEW kind \in BufferKinds, NEW timestamp \in {None} \cup Timestamps,
         Render(kind, timestamp)
  PROVE  FollowInv'
<1>1. /\ UNCHANGED <<records, finalTimestamp>> /\ pc = "idle" /\ pc' \in {"flush", "write"}
      /\ nextTimestamp' = IF timestamp # None
                            THEN timestamp + Longest(kind.duration) ELSE nextTimestamp
      /\ timestamp # None => timestamp >= nextTimestamp
      /\ (buffer').timestamp = timestamp
  BY RenderFacts
<1>2. timestamp \in Nat \cup {None} /\ Longest(kind.duration) \in Nat /\ nextTimestamp \in Nat
  BY TimeNumbers, Bounds
<1>3. /\ Past(nextTimestamp) /\ (finalTimestamp # None => Before(finalTimestamp))
      /\ \A i, j \in 1 .. Len(records) : i < j => Follows(records[i], records[j])
  BY <1>1 DEF FollowInv
<1>4. Past(nextTimestamp)' /\ (timestamp # None => Past(buffer.timestamp)')
      /\ (timestamp # None => \A i \in 1 .. Len(records) : records[i].timestamp <= timestamp)
  <2>1. CASE timestamp = None
    BY <1>1, <1>3, <2>1 DEF Past
  <2>2. CASE timestamp # None
    <3>1. /\ timestamp \in Nat /\ nextTimestamp <= timestamp
          /\ timestamp + Longest(kind.duration) \in Nat
          /\ nextTimestamp <= timestamp + Longest(kind.duration)
      BY <1>1, <1>2, <2>2
    <3>2. /\ Past(timestamp) /\ Past(timestamp + Longest(kind.duration))
          /\ \A i \in 1 .. Len(records) : records[i].timestamp <= timestamp
      BY <1>2, <1>3, <3>1, PastLater
    <3> QED BY <1>1, <2>2, <3>2 DEF Past
  <2> QED BY <2>1, <2>2
<1>5. (\A i, j \in 1 .. Len(records) : i < j => Follows(records[i], records[j]))'
      /\ (finalTimestamp' # None => Before(finalTimestamp)')
  BY <1>1, <1>3 DEF Before, Follows
<1> QED BY <1>1, <1>4, <1>5 DEF FollowInv

(* The next record. *)
LEMMA FollowAppend ==
  ASSUME SinkInv, FollowInv, NEW r, records' = Append(records, r), r.timestamp \in Nat,
         Past(r.timestamp), r.final \in BOOLEAN, r.final => Before(r.timestamp)
  PROVE  /\ \A i, j \in 1 .. Len(records') : i < j => Follows(records'[i], records'[j])
         /\ \A i \in 1 .. Len(records') : records'[i].timestamp <= r.timestamp
         /\ \A i \in 1 .. Len(records') : i \in 1 .. Len(records) \/ records'[i] = r
         /\ \A i \in 1 .. Len(records) : records'[i] = records[i]
<1> DEFINE N == Len(records)
<1>1. /\ N \in Nat /\ Len(records') = N + 1
      /\ \A i \in 1 .. N : records'[i] = records[i]
      /\ records'[N + 1] = r
  BY RecordAdded
<1>2. /\ \A i \in 1 .. N : Follows(records[i], r)
      /\ \A i \in 1 .. N : records[i].timestamp <= r.timestamp
  BY TimeNumbers DEF Past, Before, Follows
<1>3. \A i, j \in 1 .. N : i < j => Follows(records[i], records[j])
  BY DEF FollowInv
<1> HIDE DEF N
<1>4. \A i \in 1 .. N + 1 : i \in 1 .. N \/ i = N + 1
  BY <1>1
<1>5. ASSUME NEW i \in 1 .. N + 1, NEW j \in 1 .. N + 1, i < j
      PROVE  Follows(records'[i], records'[j])
  <2>1. i \in 1 .. N
    BY <1>1, <1>5
  <2>2. CASE j \in 1 .. N
    BY <1>1, <1>3, <1>5, <2>1, <2>2
  <2>3. CASE j = N + 1
    BY <1>1, <1>2, <2>1, <2>3
  <2> QED BY <1>4, <2>2, <2>3
<1>6. \A i \in 1 .. N + 1 : records'[i].timestamp <= r.timestamp
  <2>1. r.timestamp <= r.timestamp
    OBVIOUS
  <2> QED BY <1>1, <1>2, <1>4, <2>1
<1> QED BY <1>1, <1>4, <1>5, <1>6 DEF N

LEMMA FollowRecordSteps ==
  ASSUME SinkInv, TimeInv, FollowInv, WriteRecord \/ WriteFinalRecord
  PROVE  FollowInv'
<1>1. CASE WriteRecord
  <2>1. /\ records' = Append(records, Rendered) /\ pc = "flush" /\ pc' = "write"
        /\ buffer.timestamp # None /\ UNCHANGED <<buffer, nextTimestamp, finalTimestamp>>
    BY <1>1, RecordFacts
  <2>2. /\ Rendered.timestamp = buffer.timestamp /\ Rendered.final = FALSE
        /\ Past(buffer.timestamp) /\ buffer.timestamp \in Nat
    BY <2>1, TimeNumbers DEF Rendered, FollowInv
  <2>3. nextTimestamp = buffer.timestamp + Longest(buffer.kind.duration)
    BY <2>1 DEF TimeInv
  <2>4. buffer.timestamp < nextTimestamp /\ nextTimestamp \in Nat
    BY <2>2, <2>3, TimeNumbers
  <2> HIDE DEF Rendered
  <2>5. /\ \A i, j \in 1 .. Len(records') : i < j => Follows(records'[i], records'[j])
        /\ \A i \in 1 .. Len(records') : records'[i].timestamp <= buffer.timestamp
        /\ \A i \in 1 .. Len(records') : i \in 1 .. Len(records) \/ records'[i] = Rendered
        /\ \A i \in 1 .. Len(records) : records'[i] = records[i]
    BY <2>1, <2>2, FollowAppend
  <2>6. \A i \in 1 .. Len(records') : records'[i].timestamp < nextTimestamp
    <3>1. \A i \in 1 .. Len(records) : records[i].timestamp \in Nat
      BY TimeNumbers
    <3> QED BY <2>2, <2>4, <2>5, <3>1
  <2>7. Past(nextTimestamp)'
    BY <2>1, <2>6 DEF Past
  <2> QED BY <2>1, <2>5, <2>7 DEF FollowInv
<1>2. CASE WriteFinalRecord
  <2>1. /\ records' = IF HasFinal THEN Append(records, Final) ELSE records
        /\ pc = "stopping" /\ pc' = "stopIndex" /\ UNCHANGED <<nextTimestamp, finalTimestamp>>
    BY <1>2, FinalFacts
  <2>2. CASE HasFinal
    <3>1. /\ Final.timestamp = finalTimestamp /\ Final.final = TRUE
          /\ finalTimestamp \in Nat /\ nextTimestamp \in Nat
          /\ finalTimestamp <= nextTimestamp /\ Before(finalTimestamp)
      BY <2>1, <2>2, TimeNumbers DEF Final, FollowInv, TimeInv, HasFinal
    <3>2. Past(finalTimestamp)
      BY <3>1 DEF Past, Before
    <3> HIDE DEF Final
    <3>3. /\ \A i, j \in 1 .. Len(records') : i < j => Follows(records'[i], records'[j])
          /\ \A i \in 1 .. Len(records') : i \in 1 .. Len(records) \/ records'[i] = Final
          /\ \A i \in 1 .. Len(records) : records'[i] = records[i]
      BY <2>1, <2>2, <3>1, <3>2, FollowAppend
    <3>4. Past(nextTimestamp)
      BY DEF FollowInv
    <3>5. Final.timestamp < nextTimestamp \/ (Final.timestamp = nextTimestamp /\ Final.final)
      BY <3>1
    <3>6. Past(nextTimestamp)'
      BY <2>1, <3>3, <3>4, <3>5 DEF Past
    <3> QED BY <2>1, <3>3, <3>6 DEF FollowInv
  <2>3. CASE ~HasFinal
    BY <2>1, <2>3, FollowStays
  <2> QED BY <2>2, <2>3
<1> QED BY <1>1, <1>2

LEMMA FollowBufferSteps ==
  ASSUME SinkInv, TimeInv, FollowInv, WriteBuffer \/ WriteBufferToSync \/ EventPanics \/ Synced
  PROVE  FollowInv'
<1>1. UNCHANGED <<records, nextTimestamp>> /\ pc \in {"write", "sync"} /\ pc' # "flush"
  BY DEF WriteBuffer, WriteBufferToSync, EventPanics, Synced, streams, EndOfBuffer
<1>2. (\A i, j \in 1 .. Len(records) : i < j => Follows(records[i], records[j]))'
      /\ Past(nextTimestamp)'
  BY <1>1 DEF FollowInv, Past, Follows
<1>3. CASE WriteBuffer \/ Synced
  <2>1. /\ pc' = "idle"
        /\ finalTimestamp' = IF buffer.timestamp = None THEN finalTimestamp
                             ELSE buffer.timestamp + Longest(buffer.kind.duration)
    BY <1>3 DEF WriteBuffer, Synced, EndOfBuffer
  <2>2. finalTimestamp' # None => Before(finalTimestamp)'
    <3>1. CASE buffer.timestamp = None
      BY <1>1, <2>1, <3>1 DEF FollowInv, Before
    <3>2. CASE buffer.timestamp # None
      <4>1. /\ \A i \in 1 .. Len(records) :
                 records[i].timestamp <= buffer.timestamp /\ records[i].timestamp \in Nat
            /\ buffer.timestamp \in Nat
            /\ Longest(buffer.kind.duration) \in Nat /\ Longest(buffer.kind.duration) > 0
        BY <1>1, <3>2, TimeNumbers DEF FollowInv
      <4>2. \A i \in 1 .. Len(records) :
              records[i].timestamp < buffer.timestamp + Longest(buffer.kind.duration)
        BY <4>1
      <4> QED BY <1>1, <2>1, <3>2, <4>2 DEF Before
    <3> QED BY <3>1, <3>2
  <2> QED BY <1>2, <2>1, <2>2 DEF FollowInv
<1>4. CASE WriteBufferToSync
  <2>1. pc = "write" /\ pc' = "sync" /\ UNCHANGED <<buffer, finalTimestamp>>
    BY <1>4 DEF WriteBufferToSync
  <2>2. (buffer').timestamp # None =>
          \A i \in 1 .. Len(records') : records'[i].timestamp <= (buffer').timestamp
    BY <1>1, <2>1 DEF FollowInv
  <2>3. finalTimestamp' # None /\ (buffer').timestamp = None => Before(finalTimestamp)'
    BY <1>1, <2>1 DEF FollowInv, Before
  <2> QED BY <1>2, <2>1, <2>2, <2>3 DEF FollowInv
<1>5. CASE EventPanics
  <2>1. pc' = "panicked"
    BY <1>5 DEF EventPanics
  <2> QED BY <1>2, <2>1 DEF FollowInv
<1> QED BY <1>3, <1>4, <1>5

LEMMA FollowCrash ==
  ASSUME SinkInv, FollowInv, Crash
  PROVE  FollowInv'
<1>1. /\ published \in Nat /\ published <= Len(records) /\ Len(records) \in Nat
      /\ Len(records') = published /\ \A i \in 1 .. published : records'[i] = records[i]
      /\ pc' = "stopped" /\ finalTimestamp' = None /\ nextTimestamp' = nextTimestamp
  BY CrashFacts
<1>2. \A i \in 1 .. published : i \in 1 .. Len(records)
  BY <1>1
<1>3. /\ \A i, j \in 1 .. published : i < j => Follows(records'[i], records'[j])
      /\ \A i \in 1 .. published :
           \/ records'[i].timestamp < nextTimestamp
           \/ records'[i].timestamp = nextTimestamp /\ records'[i].final
  BY <1>1, <1>2 DEF FollowInv, Past
<1>4. Past(nextTimestamp)'
  BY <1>1, <1>3 DEF Past
<1> QED BY <1>1, <1>3, <1>4 DEF FollowInv

(***************************************************************************)
(* Constraint 2 of index.rs over all sessions, crashes and restarts: the   *)
(* index can be searched by timestamp, and no event between two records is *)
(* earlier than the first or as late as the second.  No buffer may begin   *)
(* before the end of the one before, and the flush for SYNC_AFTER must not *)
(* fail: the final record would have the end of the buffer before, and     *)
(* follow the record of the one that was synced.                           *)
(***************************************************************************)
THEOREM RecordsBracketHolds ==
  ASSUME InOrder, "sync" \notin Errors
  PROVE  Spec => []RecordsBracketEvents
<1>1. Init => BracketInv
  BY DEF Init, BracketInv, Brackets
<1>2. SinkInv /\ TimeInv /\ EndInv /\ BracketInv /\ TimeInv' /\ [Next]_vars => BracketInv'
  BY BracketOther, BracketRecordSteps, BracketBufferSteps, BracketCrash, Zenon DEF Next
<1>3. Init => FollowInv
  BY DEF Init, FollowInv, Past, None
<1>4. SinkInv /\ TimeInv /\ FollowInv /\ [Next]_vars => FollowInv'
  BY FollowOther, FollowRender, FollowRecordSteps, FollowBufferSteps, FollowCrash, Zenon DEF Next
<1>5. SinkInv /\ BracketInv /\ FollowInv => RecordsBracketEvents
  <2> SUFFICES ASSUME SinkInv, BracketInv, FollowInv, NEW i \in 1 .. Len(records) - 1
               PROVE  /\ Follows(records[i], records[i + 1])
                      /\ \A k \in records[i].offset + 1 .. records[i + 1].offset :
                           events[k].timestamp # None =>
                             /\ records[i].timestamp <= events[k].timestamp
                             /\ events[k].timestamp < records[i + 1].timestamp
    BY DEF RecordsBracketEvents
  <2>1. /\ Len(records) \in Nat /\ durable \in Nat /\ durable <= Len(events)
        /\ Len(events) \in Nat
        /\ \A j \in 1 .. Len(records) : records[j].offset \in Nat /\ records[j].offset <= durable
    BY Numbers DEF SinkInv, Counters, DataIsDurable
  <2>2. i \in 1 .. Len(records) /\ i + 1 \in 1 .. Len(records) /\ i < i + 1
    BY <2>1
  <2>4. Follows(records[i], records[i + 1])
    BY <2>2 DEF FollowInv
  <2>3. \A k \in records[i].offset + 1 .. records[i + 1].offset :
          k \in 1 .. Len(events) /\ k > records[i].offset /\ k <= records[i + 1].offset
    BY <2>1, <2>2
  <2> QED BY <2>2, <2>3, <2>4 DEF BracketInv, Brackets, Timed
<1> QED BY <1>1, <1>2, <1>3, <1>4, <1>5, SinkInvariant, TimeInvariant, EndInvariant, PTL DEF Spec
==============================================================================
