--------------------------- MODULE ViewersProofs ---------------------------
(***************************************************************************)
(* What pravegasrc plays while the stream is written, truncated and        *)
(* sealed: an ordered run of whole events that begins where the index says *)
(* it should and ends where it says it does; and what the video player and *)
(* the longevity test make of it.  The proofs are for every stream, every  *)
(* setting and any number of seeks.                                        *)
(***************************************************************************)
EXTENDS Viewers, VideoStreamProofs, IndexSearcherProofs, FiniteSetTheorems

TimeKeys == [kind : {"timestamp"}, value : Nat]

------------------------------------------------------------------------------
(* The inductive invariants                                                  *)

(* An event begins at this offset. *)
Aligned(o) == o = EventBegin(EventAt(o))

(* The next record is later, but at the begin of a session; truncation is between
   events. *)
LiveInv ==
  /\ StreamInv
  /\ sealed \in BOOLEAN
  /\ \A i, j \in 1 .. Len(index) : i < j =>
       \/ index[i].timestamp < index[j].timestamp
       \/ /\ index[i].timestamp = index[j].timestamp
          /\ j = i + 1 /\ index[i].final /\ ~index[j].final
  /\ Aligned(dataHead)

(* What the threads of the element wait for. *)
ControlInv ==
  /\ settings \in SrcSettings \cup {Default}
  /\ phase \in Phases /\ outcome \in Outcomes
  /\ request \in Requests /\ (request.kind = "none" => request = NoRequest)
  /\ outcome = "none" => phase = "stopped"
  /\ phase = "starting" => outcome = "starting"
  /\ (outcome = "none" \/ phase = "starting") =>
       reader.offset = 0 /\ request = NoRequest /\ query.step = "none"
  /\ outcome \in {"none", "starting"} =>
       /\ played = NothingPlayed
       /\ phase \in {"stopped", "starting", "idle", "locking", "seeking", "panicked"}
  /\ phase \in {"locking", "seeking"} => request.kind = "seek"
  /\ outcome = "eos" => phase \in {"idle", "locking", "seeking", "stopped"}

(* The user interface waits for the answer to its query; the longevity test does
   not seek. *)
ViewerInv ==
  /\ viewer = "player" /\ query.step # "none" => request = NoRequest
  /\ viewer = "checker" /\ request.kind = "seek" => outcome = "starting"

(* CountingReader is not mistaken, and begins an event or is at the end. *)
AtEnd(r) == r.buffered = 0 /\ r.offset = r.end

ReaderInv ==
  /\ reader \in Readers
  /\ reader.inner = reader.offset + reader.buffered
  /\ reader.inner <= reader.end
  /\ Aligned(reader.offset) \/ AtEnd(reader)
  /\ reader.buffered > 0 => reader.inner <= dataTail

(* What was played is followed by what will be read next. *)
PlayedInv ==
  /\ played \in [first : Events \cup {0}, last : Events \cup {0}]
  /\ played.first = 0 <=> played.last = 0
  /\ played.first <= played.last
  /\ played # NothingPlayed /\ request = NoRequest =>
       EventAt(reader.offset) = played.last + 1

EosInv ==
  outcome = "eos" =>
    LET next == EventEnd(EventAt(reader.offset))
    IN next > reader.end \/ (sealed /\ next > dataTail)

(* Both searches find the nearest record; which one each is for. *)
SearchesInv ==
  /\ NearestInv(search, index) /\ search.key \in TimeKeys
  /\ phase \in {"starting", "seeking"} => Searching(search)
  /\ phase = "seeking" =>
       search.method = Before /\ search.key = ByTime(RequestedTimestamp)
  /\ segmentStart \in Nat

(* A seek has found a record: that is where playing begins. *)
Sought ==
  search.step = "found" /\ phase # "seeking" /\ outcome \notin {"none", "starting"}

SoughtInv ==
  Sought =>
    /\ search.method = Before
    /\ segmentStart \in {search.key.value, index[Result(search)].timestamp}
    /\ played.first # 0 => EventBegin(played.first) = index[Result(search)].offset
    /\ played.first = 0 /\ request = NoRequest /\ phase # "stopped" =>
         reader.offset = index[Result(search)].offset \/ AtEnd(reader)

(* The second search of a query finds no record older than the first did. *)
QueryInv ==
  /\ query \in [step : {"none", "first", "last", "done"}, search : AnySearch,
                start : Nat, end : Nat]
  /\ NearestInv(query.search, index) /\ query.search.key \in TimeKeys
  /\ query.step \in {"first", "last"} => Searching(query.search)
  /\ query.step = "last" =>
       /\ query.search.key = ByTime(MaxTimestamp)
       /\ query.search.step \in {"open", "last"}
       /\ \E i \in 1 .. Len(index) :
            /\ query.start = index[i].timestamp
            /\ query.search.step = "last" => i <= query.search.hi
  /\ query.step = "done" => query.start <= query.end

SliderInv ==
  /\ slider \in Slider
  /\ SliderIsInRange

(* The counts of the checker are those of the events that it was given. *)
ValidatorInv ==
  /\ CheckerTypeOK
  /\ viewer # "checker" => CheckerInit
  /\ viewer = "checker" =>
       /\ played = NothingPlayed /\ (phase # "stopped" \/ outcome = "none") => CheckerInit
       /\ played # NothingPlayed =>
            LET after == played.first + 1 .. played.last
            IN /\ validator.prev_pts = EventTimes[played.last]
               /\ validator.pts_decreasing_count = 0
               /\ validator.pts_gap_too_large_count =
                    Cardinality({k \in after : EventTimes[k] - EventTimes[k - 1] > MaxGap})
               /\ validator.discontinuity_count = 1 + Cardinality(after \cap Discontinuous)

ElementInv ==
  /\ LiveInv
  /\ ControlInv
  /\ ViewerInv
  /\ ReaderInv
  /\ PlayedInv
  /\ EosInv
  /\ SearchesInv
  /\ SoughtInv
  /\ QueryInv

------------------------------------------------------------------------------
(* Events and offsets                                                        *)

LEMMA EventArithmetic ==
  ASSUME NEW k \in Nat \ {0}
  PROVE  /\ EventBegin(k) \in Nat
         /\ EventEnd(k) = EventBegin(k) + EventSize
         /\ EventBegin(k + 1) = EventEnd(k)
         /\ EventAt(EventBegin(k)) = k
<1>1. EventSize \in Nat \ {0}
  BY EventsAssumption
<1>2. EventSize * (k - 1) \in Nat /\ EventSize * k = EventSize * (k - 1) + EventSize
  BY <1>1
<1>3. (EventSize * (k - 1)) \div EventSize = k - 1
  BY <1>1
<1>4. k + 1 - 1 = k
  OBVIOUS
<1> QED BY <1>2, <1>3, <1>4 DEF EventBegin, EventEnd, EventAt

LEMMA EventsAreApart ==
  ASSUME NEW j \in Nat \ {0}, NEW k \in Nat \ {0}, j < k
  PROVE  EventBegin(j) + EventSize <= EventBegin(k)
<1>1. EventSize \in Nat \ {0}
  BY EventsAssumption
<1> QED BY <1>1 DEF EventBegin

LEMMA EventAtHolds ==
  ASSUME NEW o \in Nat
  PROVE  /\ EventAt(o) \in Nat \ {0}
         /\ EventBegin(EventAt(o)) <= o
         /\ o < EventEnd(EventAt(o))
<1>1. EventSize \in Nat \ {0}
  BY EventsAssumption
<1> DEFINE q == o \div EventSize
<1>2. q \in Nat /\ EventSize * q <= o /\ o < EventSize * q + EventSize
  BY <1>1
<1>3. EventSize * (q + 1) = EventSize * q + EventSize /\ q + 1 - 1 = q
  BY <1>1, <1>2
<1> QED BY <1>2, <1>3 DEF EventAt, EventBegin, EventEnd

LEMMA AlignedBegin ==
  ASSUME NEW k \in Nat \ {0} PROVE Aligned(EventBegin(k))
BY EventArithmetic DEF Aligned

(* From the begin of one event to the begin of the next. *)
LEMMA AlignedNext ==
  ASSUME NEW o \in Nat, Aligned(o)
  PROVE  /\ Aligned(o + EventSize)
         /\ EventAt(o + EventSize) = EventAt(o) + 1
         /\ EventEnd(EventAt(o)) = o + EventSize
<1>1. EventAt(o) \in Nat \ {0} /\ EventSize \in Nat \ {0}
  BY EventAtHolds, EventsAssumption
<1>2. EventBegin(EventAt(o) + 1) = o + EventSize /\ EventEnd(EventAt(o)) = o + EventSize
  BY <1>1, EventArithmetic DEF Aligned
<1>3. EventAt(o) + 1 \in Nat \ {0}
  BY <1>1
<1> QED BY <1>2, <1>3, EventArithmetic DEF Aligned

(* Offsets at which an event begins are an event apart. *)
LEMMA AlignedApart ==
  ASSUME NEW o \in Nat, NEW p \in Nat, Aligned(o), Aligned(p), o < p
  PROVE  o + EventSize <= p /\ EventAt(o) < EventAt(p)
<1>1. EventAt(o) \in Nat \ {0} /\ EventAt(p) \in Nat \ {0} /\ EventSize \in Nat \ {0}
  BY EventAtHolds, EventsAssumption
<1>2. ~(EventAt(p) < EventAt(o)) /\ EventAt(p) # EventAt(o)
  <2>1. EventAt(p) < EventAt(o) => p + EventSize <= o
    BY <1>1, EventsAreApart DEF Aligned
  <2> QED BY <1>1, <2>1 DEF Aligned
<1>3. EventAt(o) < EventAt(p)
  BY <1>1, <1>2
<1> QED BY <1>1, <1>3, EventsAreApart DEF Aligned

(* An event that ends within the stream is one of its events. *)
LEMMA EventInStream ==
  ASSUME NEW o \in Nat, Aligned(o), o + EventSize <= EventEnd(Len(EventTimes))
  PROVE  EventAt(o) \in Events
<1>1. EventAt(o) \in Nat \ {0} /\ EventSize \in Nat \ {0} /\ Len(EventTimes) \in Nat
  BY EventAtHolds, EventsAssumption
<1>2. EventSize * EventAt(o) <= EventSize * Len(EventTimes)
  BY AlignedNext DEF EventEnd
<1>3. ~(Len(EventTimes) < EventAt(o))
  BY <1>1, <1>2
<1> QED BY <1>1, <1>3 DEF Events

LEMMA EventTypes ==
  ASSUME NEW k \in Events
  PROVE  /\ k \in Nat \ {0} /\ EventTimes[k] \in Nat /\ EventTimes[k] \in 1 .. MaxTimestamp
         /\ EventBegin(k) \in Nat /\ Aligned(EventBegin(k)) /\ EventAt(EventBegin(k)) = k
         /\ EventEnd(k) <= EventEnd(Len(EventTimes))
<1>1. Len(EventTimes) \in Nat /\ EventSize \in Nat \ {0}
  BY EventsAssumption
<1>2. k \in Nat \ {0} /\ k <= Len(EventTimes)
  BY <1>1 DEF Events
<1>3. EventSize * k <= EventSize * Len(EventTimes)
  BY <1>1, <1>2
<1>4. EventTimes[k] \in 1 .. MaxTimestamp /\ EventTimes[k] \in Nat
  BY SrcAssumption
<1> QED BY <1>2, <1>3, <1>4, EventArithmetic, AlignedBegin DEF EventEnd

------------------------------------------------------------------------------
(* The stream                                                                *)

LEMMA LiveTypes ==
  ASSUME StreamTypeOK
  PROVE  /\ Len(index) \in Nat /\ indexHead \in Nat /\ dataHead \in Nat /\ dataTail \in Nat
         /\ EventSize \in Nat \ {0} /\ Len(EventTimes) \in Nat
         /\ EventEnd(Len(EventTimes)) \in Nat /\ dataTail <= EventEnd(Len(EventTimes))
         /\ Offsets = 0 .. EventEnd(Len(EventTimes))
<1>1. EventSize \in Nat \ {0} /\ Len(EventTimes) \in Nat
  BY EventsAssumption
<1>2. EventEnd(Len(EventTimes)) \in Nat
  BY <1>1 DEF EventEnd
<1> QED BY <1>1, <1>2, LiveRecordsAssumption DEF StreamTypeOK

LEMMA RecordTypes ==
  ASSUME NEW r \in Records
  PROVE  /\ r.offset \in Nat /\ Aligned(r.offset)
         /\ r.timestamp \in 1 .. MaxTimestamp /\ r.timestamp \in Nat
         /\ \A k \in Events : EventBegin(k) < r.offset => EventTimes[k] < r.timestamp
         /\ \A k \in Events : ~(EventBegin(k) < r.offset) => r.timestamp <= EventTimes[k]
<1>1. r.offset \in Nat /\ r.timestamp \in Nat
  BY LiveRecordsAssumption, OffsetsAssumption
<1>2. Brackets(r)
  BY LiveRecordsAssumption
<1>3. r.timestamp \in 1 .. MaxTimestamp
  BY SrcAssumption
<1> QED BY <1>1, <1>2, <1>3 DEF Brackets, Aligned

(* Records of one time are at one offset: an event between them would have to be
   earlier than the one and not earlier than the other. *)
LEMMA SameTimeSameOffset ==
  ASSUME NEW r \in Records, NEW s \in Records, r.timestamp = s.timestamp
  PROVE  r.offset = s.offset
<1>1. ASSUME NEW p \in Records, NEW q \in Records, p.timestamp = q.timestamp
      PROVE  ~(p.offset < q.offset)
  <2>1. SUFFICES ASSUME p.offset < q.offset PROVE FALSE
    OBVIOUS
  <2>2. /\ p.offset \in Nat /\ q.offset \in Nat /\ Aligned(p.offset) /\ Aligned(q.offset)
        /\ p.timestamp \in Nat
    BY RecordTypes
  <2>3. q.offset <= EventEnd(Len(EventTimes)) /\ EventEnd(Len(EventTimes)) \in Nat
    <3>1. q.offset \in 0 .. EventEnd(Len(EventTimes))
      BY LiveRecordsAssumption
    <3>2. EventEnd(Len(EventTimes)) \in Nat
      BY EventsAssumption DEF EventEnd
    <3> QED BY <3>1, <3>2
  <2>4. p.offset + EventSize <= q.offset /\ EventSize \in Nat
    BY <2>1, <2>2, AlignedApart, EventsAssumption
  <2>5. p.offset + EventSize <= EventEnd(Len(EventTimes))
    BY <2>2, <2>3, <2>4
  <2>6. EventAt(p.offset) \in Events /\ EventBegin(EventAt(p.offset)) = p.offset
    BY <2>2, <2>5, EventInStream DEF Aligned
  <2>7. EventTimes[EventAt(p.offset)] < q.timestamp
    BY <2>1, <2>6, RecordTypes
  <2>8. p.timestamp <= EventTimes[EventAt(p.offset)]
    BY <2>2, <2>6, RecordTypes
  <2>9. EventTimes[EventAt(p.offset)] \in Nat
    BY <2>6, EventTypes
  <2> QED BY <1>1, <2>2, <2>7, <2>8, <2>9
<1>2. r.offset \in Nat /\ s.offset \in Nat
  BY RecordTypes
<1> QED BY <1>1, <1>2

(* What a reader may rely on. *)
LEMMA LiveFacts ==
  ASSUME LiveInv
  PROVE  /\ IndexOK(index)
         /\ \A i \in 1 .. Len(index) :
              /\ index[i] \in Records
              /\ index[i].offset \in Nat /\ Aligned(index[i].offset)
              /\ index[i].timestamp \in 1 .. MaxTimestamp /\ index[i].timestamp \in Nat
              /\ index[i].offset <= dataTail
         /\ \A i, j \in 1 .. Len(index) :
              i <= j => /\ index[i].timestamp <= index[j].timestamp
                        /\ index[i].offset <= index[j].offset
         /\ \A i, j \in 1 .. Len(index) :
              i < j /\ ~(index[i].timestamp < index[j].timestamp) =>
                j = i + 1 /\ index[i].offset = index[j].offset
         /\ indexHead < Len(index) => dataHead <= index[indexHead + 1].offset
<1>1. StreamTypeOK /\ Readable /\ OffsetsOrdered
  BY DEF LiveInv, StreamInv
<1>2. Len(index) \in Nat
  BY <1>1, LiveTypes
<1>3. ASSUME NEW i \in 1 .. Len(index)
      PROVE  /\ index[i] \in Records
             /\ index[i].offset \in Nat /\ Aligned(index[i].offset)
             /\ index[i].timestamp \in 1 .. MaxTimestamp /\ index[i].timestamp \in Nat
             /\ index[i].offset <= dataTail
  <2>1. index[i] \in Records
    BY <1>1, IndexType
  <2>2. index[i].offset <= dataTail
    BY <1>1 DEF Readable
  <2> QED BY <2>1, <2>2, RecordTypes
<1>4. ASSUME NEW i \in 1 .. Len(index), NEW j \in 1 .. Len(index), i <= j
      PROVE  index[i].timestamp <= index[j].timestamp /\ index[i].offset <= index[j].offset
  <2>1. i = j \/ i < j
    BY <1>2, <1>4
  <2>2. index[i].timestamp <= index[j].timestamp
    BY <1>3, <2>1 DEF LiveInv
  <2> QED BY <1>1, <1>4, <2>2 DEF OffsetsOrdered
<1>5. ASSUME NEW i \in 1 .. Len(index), NEW j \in 1 .. Len(index), i < j,
             ~(index[i].timestamp < index[j].timestamp)
      PROVE  j = i + 1 /\ index[i].offset = index[j].offset
  <2>1. index[i].timestamp = index[j].timestamp /\ j = i + 1
    BY <1>5 DEF LiveInv
  <2> QED BY <1>3, <2>1, SameTimeSameOffset
<1>6. IndexOK(index)
  BY <1>2, <1>3, <1>4 DEF IndexOK, InOrderOf
<1> QED BY <1>1, <1>3, <1>4, <1>5, <1>6 DEF Readable

(* Every step of the stream is one that VideoStream allows. *)
LEMMA LiveStep == ASSUME StreamTypeOK, LiveNext PROVE [StreamNext]_streamVars
<1>1. CASE Write
  <2>1. dataTail + 1 \in Offsets
    BY <1>1, LiveTypes DEF Write
  <2> QED BY <1>1, <2>1 DEF Write, StreamNext
<1>2. ASSUME NEW r \in Records, WriteRecord(r) PROVE StreamNext
  BY <1>2 DEF WriteRecord, StreamNext
<1>3. CASE Seal
  BY <1>3 DEF Seal
<1>4. ASSUME NEW i \in 1 .. Len(index), DropRecords(i) PROVE StreamNext
  BY <1>4 DEF DropRecords, StreamNext
<1>5. CASE DropData
  <2>1. index[indexHead + 1] \in Records
    BY <1>5, IndexType, LiveTypes DEF DropData
  <2> QED BY <1>5, <2>1, RecordsAssumption DEF DropData, StreamNext
<1> QED BY <1>1, <1>2, <1>3, <1>4, <1>5 DEF LiveNext

(* How the stream changes under its readers. *)
Grows ==
  /\ Len(index) <= Len(index') /\ indexHead <= indexHead' /\ dataTail <= dataTail'
  /\ \A i \in 1 .. Len(index) : index'[i] = index[i]
  /\ sealed => sealed' /\ dataTail' = dataTail

LEMMA LiveGrows == ASSUME LiveInv, LiveNext PROVE Grows
<1>1. StreamTypeOK
  BY DEF LiveInv, StreamInv
<1>2. CASE Write
  BY <1>1, <1>2, LiveTypes DEF Write, AppendData, Grows
<1>3. ASSUME NEW r \in Records, WriteRecord(r) PROVE Grows
  <2>1. r \in Records /\ index \in Seq(Records)
    BY <1>1 DEF StreamTypeOK
  <2> QED BY <1>1, <1>3, <2>1, LiveTypes, AppendType DEF WriteRecord, Publish, Grows
<1>4. CASE Seal
  BY <1>1, <1>4, LiveTypes DEF Seal, streamVars, Grows
<1>5. ASSUME NEW i \in 1 .. Len(index), DropRecords(i) PROVE Grows
  BY <1>1, <1>5, LiveTypes DEF DropRecords, TruncateIndex, Grows
<1>6. CASE DropData
  BY <1>1, <1>6, LiveTypes DEF DropData, TruncateData, Grows
<1> QED BY <1>2, <1>3, <1>4, <1>5, <1>6 DEF LiveNext

LEMMA LiveInvInit == LiveInit => LiveInv
<1> SUFFICES ASSUME LiveInit PROVE LiveInv
  OBVIOUS
<1>1. StreamInv
  BY StreamInvInit DEF LiveInit
<1>2. EventBegin(1) = 0
  BY EventsAssumption DEF EventBegin
<1>3. Aligned(0)
  BY <1>2, AlignedBegin
<1>4. dataHead = 0 /\ Len(index) = 0 /\ sealed \in BOOLEAN
  BY DEF LiveInit, StreamInit
<1> QED BY <1>1, <1>3, <1>4 DEF LiveInv

LEMMA LiveInvNext == LiveInv /\ LiveNext => LiveInv'
<1> SUFFICES ASSUME LiveInv, LiveNext PROVE LiveInv'
  OBVIOUS
<1>1. StreamTypeOK /\ Len(index) \in Nat /\ indexHead \in Nat
  BY LiveTypes DEF LiveInv, StreamInv
<1>2. StreamInv'
  BY <1>1, LiveStep, StreamInvNext DEF LiveInv
<1>3. sealed' \in BOOLEAN
  BY DEF LiveInv, LiveNext, Write, WriteRecord, Seal, DropRecords, DropData
<1>4. CASE UNCHANGED index
  <2>1. Aligned(dataHead)'
    <3>1. CASE UNCHANGED dataHead
      BY <3>1 DEF LiveInv, Aligned, EventAt, EventBegin
    <3>2. CASE DropData
      <4>1. indexHead + 1 \in 1 .. Len(index) /\ dataHead' = index[indexHead + 1].offset
        BY <1>1, <3>2 DEF DropData, TruncateData
      <4>2. Aligned(dataHead')
        BY <4>1, LiveFacts
      <4> QED BY <4>2 DEF Aligned, EventAt, EventBegin
    <3> QED BY <3>1, <3>2
            DEF LiveNext, Write, WriteRecord, Seal, DropRecords, AppendData, Publish,
                TruncateIndex, streamVars
  <2> QED BY <1>2, <1>3, <1>4, <2>1 DEF LiveInv
<1>5. ASSUME NEW r \in Records, WriteRecord(r) PROVE LiveInv'
  <2> DEFINE n == Len(index)
             Follows(p, q, i, j) == \/ p.timestamp < q.timestamp
                                    \/ /\ p.timestamp = q.timestamp
                                       /\ j = i + 1 /\ p.final /\ ~q.final
  <2>1. index \in Seq(Records)
    BY <1>1 DEF StreamTypeOK
  <2>2. /\ n \in Nat /\ Len(index') = n + 1
        /\ \A i \in 1 .. n : index'[i] = index[i]
        /\ index'[n + 1] = r
        /\ UNCHANGED dataHead
    BY <1>1, <1>5, <2>1, AppendType DEF WriteRecord, Publish
  <2>3. \A i \in 1 .. n + 1 : i \in 1 .. n \/ i = n + 1
    BY <2>2
  <2>4. ASSUME NEW i \in 1 .. n PROVE Follows(index[i], r, i, n + 1)
    <3>1. n # 0 /\ n \in 1 .. n /\ i <= n /\ index # << >>
      BY <2>2, IndexType, <1>1
    <3>2. Follows(index[n], r, n, n + 1)
      BY <1>5, <2>2, <3>1 DEF WriteRecord
    <3>3. /\ index[i].timestamp \in Nat /\ index[n].timestamp \in Nat /\ r.timestamp \in Nat
          /\ index[i].timestamp <= index[n].timestamp
      BY <3>1, LiveFacts, RecordTypes
    <3>4. i < n => Follows(index[i], index[n], i, n)
      BY <3>1 DEF LiveInv
    <3> QED BY <2>2, <3>1, <3>2, <3>3, <3>4
  <2>5. ASSUME NEW i \in 1 .. n + 1, NEW j \in 1 .. n + 1, i < j
        PROVE  Follows(index'[i], index'[j], i, j)
    <3>1. i \in 1 .. n
      BY <2>2, <2>5
    <3>2. CASE j \in 1 .. n
      BY <2>2, <2>5, <3>1, <3>2 DEF LiveInv
    <3>3. CASE j = n + 1
      BY <2>2, <2>4, <3>1, <3>3
    <3> QED BY <2>3, <3>2, <3>3
  <2>6. Aligned(dataHead)'
    BY <2>2 DEF LiveInv, Aligned, EventAt, EventBegin
  <2> QED BY <1>2, <1>3, <2>2, <2>5, <2>6 DEF LiveInv
<1> QED BY <1>4, <1>5
        DEF LiveNext, Write, Seal, DropRecords, DropData, AppendData, TruncateIndex,
            TruncateData, streamVars

------------------------------------------------------------------------------
(* The steps of the element                                                  *)

(* What the element does, or is asked to do, by any of its viewers. *)
ElementStep ==
  \/ SetProperty \/ Starting \/ Seeking \/ Creating \/ Stop
  \/ RequestStop \/ (\E time \in Nat : RequestSeek(time))
  \/ BeginQuery \/ ReadQuery \/ AnswerQuery
  \/ viewer = "player" /\ UpdateSlider

LEMMA ViewersStep ==
  ASSUME [Next]_vars
  PROVE  \/ LiveNext /\ UNCHANGED <<elementVars, slider, validator, serverVars, viewer>>
         \/ ElementStep /\ UNCHANGED <<liveVars, serverVars, viewer>>
         \/ ServerNext /\ UNCHANGED <<liveVars, elementVars, slider, validator, viewer>>
         \/ UNCHANGED <<liveVars, elementVars, slider, validator, serverVars, viewer>>
<1>1. SeekTimes \subseteq Nat
  BY SrcAssumption
<1>2. ASSUME ElementNext PROVE ElementStep
  BY <1>2 DEF ElementNext, ElementStep
<1>3. ASSUME SrcNext PROVE ElementStep
  BY <1>1, <1>2, <1>3 DEF SrcNext, ElementStep
<1>4. ASSUME viewer = "player", PlayerNext PROVE ElementStep
  BY <1>1, <1>2, <1>4
     DEF PlayerNext, MoveSlider, ClickStop, ReceiveEos, Timeout, NoPosition, ElementStep
<1>5. ASSUME CheckerNext PROVE ElementStep
  BY <1>2, <1>5 DEF CheckerNext, Configure, Quit, ElementStep
<1> QED BY <1>3, <1>4, <1>5 DEF Next, vars, srcVars

LEMMA SeekIsAsked ==
  ASSUME NEW time \in Nat PROVE [kind |-> "seek", time |-> time] \in Requests
BY DEF Requests

LEMMA ControlInvNext ==
  ASSUME ControlInv, slider' \in Slider, ElementStep PROVE ControlInv'
<1> USE DEF ControlInv
<1>1. /\ NoRequest \in Requests /\ NoRequest.kind = "none"
      /\ [kind |-> "stop", time |-> 0] \in Requests
  BY DEF NoRequest, Requests
<1>2. CASE SetProperty
  BY <1>2 DEF SetProperty
<1>3. CASE Start
  BY <1>3, SeekIsAsked DEF Start, Opened, ReaderAt, Phases, Outcomes
<1>4. CASE SearchEnd
  BY <1>4, SeekIsAsked DEF SearchEnd, Opened, ReaderAt, Phases
<1>5. ASSUME NEW time \in Nat, RequestSeek(time) PROVE ControlInv'
  BY <1>5, SeekIsAsked DEF RequestSeek, Started
<1>6. CASE RequestStop
  BY <1>1, <1>6 DEF RequestStop, Started
<1>7. CASE Stop
  BY <1>1, <1>7 DEF Stop, Phases
<1>8. CASE BeginSeek
  BY <1>8 DEF BeginSeek, Phases
<1>9. CASE SeekHead
  BY <1>1, <1>9 DEF SeekHead, SeekDone, Phases, Outcomes
<1>10. CASE BeginSearch
  BY <1>10 DEF BeginSearch, Phases
<1>11. CASE SearchIndex
  BY <1>1, <1>11 DEF SearchIndex, SeekRecord, SeekFails, SeekDone, Phases, Outcomes
<1>12. CASE BeginCreate
  BY <1>12 DEF BeginCreate, Phases
<1>13. CASE Fill
  BY <1>13 DEF Fill
<1>14. CASE EndOfStream \/ ReadFails
  BY <1>14 DEF EndOfStream, ReadFails, Phases, Outcomes
<1>15. CASE Deliver
  BY <1>15 DEF Deliver, Phases
<1>16. CASE BeginQuery
  BY <1>16 DEF BeginQuery, Started
<1>17. CASE ReadQuery
  BY <1>17 DEF ReadQuery
<1>18. CASE AnswerQuery
  BY <1>18 DEF AnswerQuery
<1>19. CASE UpdateSlider
  <2>1. slider'.value \in Nat
    BY DEF Slider
  <2> QED BY <1>19, <2>1, SeekIsAsked DEF UpdateSlider
<1> QED BY <1>2, <1>3, <1>4, <1>5, <1>6, <1>7, <1>8, <1>9, <1>10, <1>11, <1>12, <1>13, <1>14, <1>15, <1>16, <1>17, <1>18, <1>19 DEF ElementStep, Starting, Seeking, Creating

LEMMA ViewerInvNext ==
  ASSUME ControlInv, ViewerInv, [Next]_vars PROVE ViewerInv'
<1> USE DEF ControlInv, ViewerInv
<1>1. CASE viewer' = viewer /\ UNCHANGED <<request, outcome, query>>
  BY <1>1
<1>2. CASE viewer = "player" /\ viewer' = viewer /\ PlayerNext
  <2>1. CASE ElementNext
    <3>1. CASE UNCHANGED query /\ (request' = request \/ request' = NoRequest)
      BY <1>2, <3>1
    <3>2. CASE phase = "starting" \/ outcome = "none"
      BY <1>2, <2>1, <3>2
         DEF ElementNext, Starting, Start, SearchEnd, Stop, Seeking, BeginSeek, SeekHead,
             BeginSearch, SearchIndex, Creating, BeginCreate, Fill, EndOfStream, ReadFails,
             Deliver, ReadQuery
    <3>3. CASE ReadQuery
      BY <1>2, <3>3 DEF ReadQuery
    <3> QED BY <2>1, <3>1, <3>2, <3>3
            DEF ElementNext, Starting, Start, SearchEnd, Stop, Seeking, BeginSeek, SeekHead,
                SeekDone, SeekRecord, SeekFails, BeginSearch, SearchIndex, Creating,
                BeginCreate, Fill, EndOfStream, ReadFails, Deliver
  <2>2. CASE \E time \in SeekTimes : MoveSlider(time)
    BY <1>2, <2>2 DEF MoveSlider, UIThreadIsFree, RequestSeek
  <2>3. CASE ClickStop \/ ReceiveEos
    BY <1>2, <2>3 DEF ClickStop, ReceiveEos, UIThreadIsFree, RequestStop
  <2>4. CASE Timeout
    BY <1>2, <2>4 DEF Timeout, UIThreadIsFree, BeginQuery
  <2>5. CASE NoPosition \/ UpdateSlider
    BY <1>2, <2>5 DEF NoPosition, AnswerQuery, UpdateSlider, NoQuery
  <2> QED BY <1>2, <2>1, <2>2, <2>3, <2>4, <2>5 DEF PlayerNext
<1>3. CASE viewer = "checker" /\ viewer' = viewer /\ CheckerNext
  <2>1. CASE Configure
    BY <1>3, <2>1 DEF Configure, SetProperty
  <2>2. CASE Quit
    BY <1>3, <2>2 DEF Quit, RequestStop
  <2>3. CASE Start \/ SearchEnd
    BY <1>3, <2>3 DEF Start, SearchEnd, Opened, NoRequest
  <2>4. CASE Stop \/ SeekHead \/ SearchIndex
    BY <1>3, <2>4 DEF Stop, SeekHead, SearchIndex, SeekDone, SeekRecord, SeekFails, NoRequest
  <2>5. CASE BeginSeek \/ BeginSearch \/ Creating \/ ReadQuery
    BY <1>3, <2>5
       DEF BeginSeek, BeginSearch, Creating, BeginCreate, Fill, EndOfStream, ReadFails,
           Deliver, ReadQuery
  <2> QED BY <1>3, <2>1, <2>2, <2>3, <2>4, <2>5
          DEF CheckerNext, ElementNext, Starting, Seeking
<1>4. CASE viewer' = viewer /\ viewer \notin {"player", "checker"}
  BY <1>4
<1> QED BY <1>1, <1>2, <1>3, <1>4 DEF Next, vars, srcVars, elementVars

(* What a search has found is a record that the index has. *)
LEMMA FoundRecord ==
  ASSUME LiveInv, NEW s, NearestInv(s, index), s.step = "found"
  PROVE  /\ Result(s) \in 1 .. Len(index)
         /\ s.from \in Nat /\ s.to \in Nat /\ 1 <= s.from /\ s.to <= Len(index)
         /\ Result(s) \in s.from .. s.to
<1>1. IsNearest(s, index) /\ BoundsInv(s, index) /\ s \in AnySearch /\ Len(index) \in Nat
  BY LiveTypes DEF NearestInv, LiveInv, StreamInv
<1>2. 1 <= s.from /\ s.to <= Len(index) /\ s.from \in Nat /\ s.to \in Nat
      /\ Result(s) \in s.from .. s.to
  BY <1>1 DEF BoundsInv, IsNearest, AnySearch, Search
<1> QED BY <1>1, <1>2

LEMMA SearchedRecord ==
  ASSUME LiveInv, NEW s, NearestInv(s, index), Searching(s),
         ReadNext(s, indexHead, index).step = "found"
  PROVE  LET i == Result(ReadNext(s, indexHead, index))
         IN  /\ i \in 1 .. Len(index)
             /\ index[i].offset \in Nat /\ Aligned(index[i].offset)
             /\ index[i].timestamp \in Nat
<1>1. IndexOK(index) /\ indexHead \in Nat
  BY LiveFacts, LiveTypes DEF LiveInv, StreamInv
<1>2. NearestInv(ReadNext(s, indexHead, index), index)
  BY <1>1, ReadNextNearest
<1> QED BY <1>2, FoundRecord, LiveFacts

LEMMA AlignedZero == Aligned(0) /\ EventAt(0) = 1
<1>1. EventBegin(1) = 0
  BY EventsAssumption DEF EventBegin
<1> QED BY <1>1, AlignedBegin, EventArithmetic

LEMMA OpenedReader ==
  ASSUME NEW end \in Nat, NEW o \in Nat, Aligned(o), o <= end
  PROVE  LET r == ReaderAt(end, o)
         IN  /\ r \in Readers /\ r.inner = r.offset + r.buffered /\ r.inner <= r.end
             /\ Aligned(r.offset) \/ AtEnd(r)
             /\ r.buffered = 0 /\ r.offset = o /\ r.end = end
BY DEF ReaderAt, Readers

(* A seek past the end leaves the reader there. *)
LEMMA SoughtReader ==
  ASSUME NEW r \in Readers, NEW o \in Nat, Aligned(o)
  PROVE  LET t == SeekTo(r, o)
         IN  /\ t \in Readers /\ t.inner = t.offset + t.buffered /\ t.inner <= t.end
             /\ Aligned(t.offset) \/ AtEnd(t)
             /\ t.buffered = 0 /\ (t.offset = o \/ AtEnd(t))
BY DEF SeekTo, ReaderAt, Readers, AtEnd

LEMMA ReaderInvNext ==
  ASSUME LiveInv, ReaderInv, SearchesInv, ElementStep, UNCHANGED liveVars
  PROVE  ReaderInv'
<1> DEFINE s == ReadNext(search, indexHead, index)
<1>1. StreamTypeOK /\ Aligned(dataHead) /\ dataHead \in Nat /\ dataTail \in Nat /\ dataTail' = dataTail
  BY LiveTypes DEF LiveInv, StreamInv, liveVars
<1>2. reader.end \in Nat /\ reader.inner \in Nat /\ reader.buffered \in Nat /\ reader.offset \in Nat
      /\ EventSize \in Nat \ {0}
  BY EventsAssumption DEF ReaderInv, Readers
<1>3. CASE UNCHANGED reader
  BY <1>1, <1>3 DEF ReaderInv, AtEnd
<1>4. ASSUME NEW end \in Nat, Opened(end) PROVE ReaderInv'
  BY <1>4, <1>2, OpenedReader, AlignedZero DEF Opened, ReaderInv
<1>5. ASSUME NEW o \in Nat, Aligned(o), reader' = SeekTo(reader, o) PROVE ReaderInv'
  <2>1. reader \in Readers
    BY DEF ReaderInv
  <2> QED BY <1>5, <2>1, SoughtReader DEF ReaderInv
<1>6. CASE Start
  <2>1. Unbounded \in Nat
    BY <1>1, LiveTypes DEF Unbounded
  <2> QED BY <1>1, <1>3, <1>4, <1>6, <2>1 DEF Start
<1>7. CASE SearchEnd
  <2>1. Searching(search) /\ NearestInv(search, index) /\ search' = s
    BY <1>7 DEF SearchEnd, SearchesInv
  <2>2. CASE s.step = "found"
    BY <1>4, <1>7, <2>1, <2>2, SearchedRecord DEF SearchEnd
  <2> QED BY <1>3, <1>7, <2>1, <2>2 DEF SearchEnd
<1>8. CASE SeekHead
  BY <1>1, <1>5, <1>8 DEF SeekHead
<1>9. CASE SearchIndex
  <2>1. Searching(search) /\ NearestInv(search, index) /\ search' = s
    BY <1>9 DEF SearchIndex, SearchesInv
  <2>2. CASE s.step = "found"
    BY <1>5, <1>9, <2>1, <2>2, SearchedRecord DEF SearchIndex, SeekRecord
  <2> QED BY <1>3, <1>9, <2>1, <2>2 DEF SearchIndex, SeekFails
<1>10. CASE Fill
  <2>1. PICK o \in reader.inner + 1 .. dataTail :
          /\ o <= reader.end
          /\ reader' = [reader EXCEPT !.inner = o, !.buffered = @ + o - reader.inner]
    BY <1>10 DEF Fill
  <2>2. o \in Nat /\ reader.buffered + o - reader.inner \in Nat /\ o <= dataTail
        /\ reader.inner < reader.end
    BY <1>1, <1>2, <2>1
  <2>3. /\ reader' \in Readers /\ reader'.inner = o /\ reader'.end = reader.end
        /\ reader'.buffered = reader.buffered + o - reader.inner
        /\ reader'.offset = reader.offset
    BY <2>1, <2>2 DEF ReaderInv, Readers
  <2>4. ~AtEnd(reader)
    BY <1>2, <2>2 DEF ReaderInv, AtEnd
  <2>5. reader'.inner = reader'.offset + reader'.buffered
    BY <1>2, <2>2, <2>3 DEF ReaderInv
  <2>6. Aligned(reader'.offset)
    BY <2>3, <2>4 DEF ReaderInv
  <2> QED BY <1>1, <2>1, <2>2, <2>3, <2>5, <2>6 DEF ReaderInv
<1>11. CASE Deliver
  <2>1. /\ reader.buffered - EventSize \in Nat /\ reader.offset + EventSize \in Nat
        /\ reader' = [reader EXCEPT !.buffered = @ - EventSize, !.offset = @ + EventSize]
    BY <1>2, <1>11 DEF Deliver, HasEvent
  <2>2. /\ reader' \in Readers /\ reader'.inner = reader.inner /\ reader'.end = reader.end
        /\ reader'.buffered = reader.buffered - EventSize
        /\ reader'.offset = reader.offset + EventSize
    BY <2>1 DEF ReaderInv, Readers
  <2>3. reader.buffered > 0 /\ Aligned(reader.offset)
    BY <1>2, <1>11 DEF Deliver, HasEvent, ReaderInv, AtEnd
  <2>4. Aligned(reader'.offset)
    BY <1>2, <2>2, <2>3, AlignedNext
  <2>5. reader'.inner = reader'.offset + reader'.buffered
    BY <1>2, <2>2 DEF ReaderInv
  <2> QED BY <1>1, <2>2, <2>3, <2>4, <2>5 DEF ReaderInv
<1> QED BY <1>3, <1>6, <1>7, <1>8, <1>9, <1>10, <1>11
        DEF ElementStep, Starting, Seeking, Creating, SetProperty, Stop, BeginSeek, BeginSearch,
            BeginCreate, EndOfStream, ReadFails, RequestStop, RequestSeek, BeginQuery,
            ReadQuery, AnswerQuery, UpdateSlider

(* No other request is the one for nothing. *)
LEMMA SomeRequest ==
  \A time : [kind |-> "seek", time |-> time] # NoRequest /\ [kind |-> "stop", time |-> time] # NoRequest
BY DEF NoRequest

LEMMA PlayedInvNext ==
  ASSUME LiveInv, ControlInv, ReaderInv, PlayedInv, ElementStep, UNCHANGED liveVars
  PROVE  PlayedInv'
<1>1. CASE played' = NothingPlayed
  BY <1>1 DEF PlayedInv, NothingPlayed
<1>2. CASE played' = played /\ (request' # NoRequest \/ (request' = request /\ reader'.offset = reader.offset))
  BY <1>2 DEF PlayedInv
<1>3. CASE Start \/ SearchEnd
  BY <1>1, <1>3 DEF Start, SearchEnd, ControlInv
<1>4. ASSUME NEW time \in Nat, RequestSeek(time) PROVE PlayedInv'
  BY <1>2, <1>4, SomeRequest DEF RequestSeek
<1>5. CASE RequestStop
  BY <1>2, <1>5, SomeRequest DEF RequestStop
<1>6. CASE Stop \/ SeekHead
  BY <1>1, <1>6 DEF Stop, SeekHead, SeekDone
<1>7. CASE SearchIndex
  BY <1>1, <1>2, <1>7 DEF SearchIndex, SeekRecord, SeekFails, SeekDone
<1>8. CASE Fill
  <2>1. reader'.offset = reader.offset
    BY <1>8 DEF Fill, ReaderInv, Readers
  <2> QED BY <1>2, <1>8, <2>1 DEF Fill
<1>9. CASE Deliver
  <2> DEFINE k == EventAt(Consumed(reader))
  <2>1. /\ reader \in Readers /\ reader.offset \in Nat /\ reader.inner \in Nat
        /\ reader.buffered \in Nat /\ EventSize \in Nat \ {0} /\ dataTail \in Nat
        /\ EventEnd(Len(EventTimes)) \in Nat /\ dataTail <= EventEnd(Len(EventTimes))
    BY LiveTypes DEF ReaderInv, Readers, LiveInv, StreamInv
  <2>2. /\ reader.buffered >= EventSize /\ reader.inner <= dataTail
        /\ reader.inner = reader.offset + reader.buffered /\ Aligned(reader.offset)
    BY <2>1, <1>9 DEF Deliver, HasEvent, ReaderInv, AtEnd
  <2>3. Consumed(reader) = reader.offset /\ reader.offset + EventSize <= EventEnd(Len(EventTimes))
    BY <2>1, <2>2 DEF Consumed
  <2>4. k \in Events /\ k \in Nat \ {0}
    BY <2>1, <2>2, <2>3, EventInStream, EventAtHolds
  <2>5. reader'.offset = reader.offset + EventSize
    BY <1>9, <2>1 DEF Deliver, Readers
  <2>6. EventAt(reader'.offset) = k + 1
    BY <2>1, <2>2, <2>3, <2>5, AlignedNext
  <2>7. CASE request # NoRequest
    BY <1>9, <2>7 DEF Deliver, PlayedInv
  <2>8. CASE request = NoRequest
    <3>1. played' = [first |-> IF played.first = 0 THEN k ELSE played.first, last |-> k]
      BY <1>9, <2>8 DEF Deliver
    <3>2. played.first # 0 => k = played.last + 1
      BY <2>3, <2>8 DEF PlayedInv, NothingPlayed
    <3>3. /\ played.first \in Events \cup {0} /\ played.last \in Events \cup {0}
          /\ played.first <= played.last
      BY DEF PlayedInv
    <3>4. \A e \in Events \cup {0} : e \in Nat
      BY EventsAssumption DEF Events
    <3> HIDE DEF k
    <3>5. /\ played'.first = IF played.first = 0 THEN k ELSE played.first
          /\ played'.last = k
          /\ played' \in [first : Events \cup {0}, last : Events \cup {0}]
      BY <2>4, <3>1, <3>3
    <3>6. played.first \in Nat /\ played.last \in Nat
      BY <3>3, <3>4
    <3>7. played'.first <= played'.last /\ played'.first # 0 /\ played'.last # 0
      BY <2>4, <3>2, <3>3, <3>5, <3>6
    <3> QED BY <2>6, <3>5, <3>7 DEF PlayedInv
  <2> QED BY <2>7, <2>8
<1>10. CASE UpdateSlider
  BY <1>2, <1>10, SomeRequest DEF UpdateSlider
<1> QED BY <1>2, <1>3, <1>4, <1>5, <1>6, <1>7, <1>8, <1>9, <1>10
        DEF ElementStep, Starting, Seeking, Creating, SetProperty, BeginSeek, BeginSearch,
            BeginCreate, EndOfStream, ReadFails, BeginQuery, ReadQuery, AnswerQuery

LEMMA EosInvNext ==
  ASSUME LiveInv, ControlInv, ReaderInv, EosInv, ElementStep, UNCHANGED liveVars
  PROVE  EosInv'
<1>1. CASE outcome' # "eos"
  BY <1>1 DEF EosInv
<1>2. CASE UNCHANGED <<outcome, reader>>
  BY <1>2 DEF EosInv, liveVars
<1>3. CASE EndOfStream
  <2> DEFINE next == EventEnd(EventAt(reader.offset))
  <2>1. /\ reader.offset \in Nat /\ reader.inner \in Nat /\ reader.buffered \in Nat
        /\ reader.end \in Nat /\ EventSize \in Nat \ {0} /\ dataTail \in Nat
        /\ reader.inner = reader.offset + reader.buffered
    BY LiveTypes DEF ReaderInv, Readers, LiveInv, StreamInv
  <2>2. next > reader.inner
    <3>1. CASE Aligned(reader.offset)
      <4>1. next = reader.offset + EventSize
        BY <2>1, <3>1, AlignedNext
      <4>2. reader.buffered < EventSize
        BY <1>3, <2>1 DEF EndOfStream, HasEvent
      <4> HIDE DEF next
      <4> QED BY <2>1, <4>1, <4>2
    <3>2. CASE AtEnd(reader)
      <4>1. reader.offset < next
        BY <2>1, EventAtHolds
      <4>2. reader.inner = reader.offset
        BY <2>1, <3>2 DEF AtEnd
      <4> HIDE DEF next
      <4> QED BY <4>1, <4>2
    <3> QED BY <3>1, <3>2 DEF ReaderInv
  <2>3. next \in Int
    <3>1. EventAt(reader.offset) \in Nat
      BY <2>1, EventAtHolds
    <3> QED BY <2>1, <3>1 DEF EventEnd
  <2>4. reader.inner >= reader.end \/ (sealed /\ reader.inner = dataTail)
    BY <1>3 DEF EndOfStream
  <2> HIDE DEF next
  <2>5. next > reader.end \/ (sealed /\ next > dataTail)
    BY <2>1, <2>2, <2>3, <2>4
  <2>6. reader' = reader /\ dataTail' = dataTail /\ sealed' = sealed
    BY <1>3 DEF EndOfStream, liveVars
  <2> QED BY <2>5, <2>6 DEF EosInv, next
<1>4. CASE Fill \/ Deliver \/ Start \/ SearchEnd
  BY <1>1, <1>4 DEF Fill, Deliver, Start, SearchEnd, ControlInv
<1>5. CASE SeekHead \/ SearchIndex
  BY <1>1, <1>2, <1>5 DEF SeekHead, SearchIndex, SeekRecord, SeekFails, SeekDone
<1>6. CASE ReadFails
  BY <1>1, <1>6 DEF ReadFails
<1> QED BY <1>2, <1>3, <1>4, <1>5, <1>6
        DEF ElementStep, Starting, Seeking, Creating, SetProperty, Stop, BeginSeek, BeginSearch,
            BeginCreate, RequestStop, RequestSeek, BeginQuery, ReadQuery, AnswerQuery,
            UpdateSlider

------------------------------------------------------------------------------
(* Seeking                                                                   *)

LEMMA NewTimeSearch ==
  ASSUME NEW time \in Nat, NEW method \in Methods
  PROVE  LET s == NewSearch(ByTime(time), method)
         IN  /\ NearestInv(s, index) /\ s.key \in TimeKeys /\ s.key = ByTime(time)
             /\ s.method = method /\ s.step = "open" /\ Searching(s) /\ s \in AnySearch
<1> DEFINE s == NewSearch(ByTime(time), method)
<1>1. ByTime(time) \in [kind : {"timestamp", "size"}, value : Nat] /\ ByTime(time) \in TimeKeys
  BY DEF ByTime, TimeKeys
<1>2. NearestInv(s, index)
  BY <1>1, NewSearchNearest
<1>3. s.key = ByTime(time) /\ s.method = method /\ s.step = "open"
  BY DEF NewSearch
<1> HIDE DEF s
<1>4. Searching(s) /\ s \in AnySearch
  BY <1>2, <1>3 DEF Searching, NearestInv
<1> QED BY <1>1, <1>2, <1>3, <1>4 DEF s

LEMMA NextTimeSearch ==
  ASSUME LiveInv, NEW s, NearestInv(s, index), s.key \in TimeKeys, Searching(s)
  PROVE  LET t == ReadNext(s, indexHead, index)
         IN  /\ NearestInv(t, index) /\ t.key = s.key /\ t.method = s.method
             /\ (t.step # "found" /\ t.step # "failed" => Searching(t))
<1>1. IndexOK(index) /\ indexHead \in Nat
  BY LiveFacts, LiveTypes DEF LiveInv, StreamInv
<1>2. s \in AnySearch
  BY DEF NearestInv
<1> QED BY <1>1, <1>2, ReadNextNearest, ReadNextSame DEF Searching

LEMMA RequestedIsTime == ASSUME ControlInv PROVE RequestedTimestamp \in Nat
<1>1. settings.start_timestamp \in Nat /\ MaxTimestamp \in Nat
  BY SrcAssumption DEF ControlInv, Default
<1>2. request.time \in Nat
  BY DEF ControlInv, Requests
<1> QED BY <1>1, <1>2 DEF RequestedTimestamp

LEMMA SearchesInvNext ==
  ASSUME LiveInv, ControlInv, ViewerInv, SearchesInv, ElementStep, UNCHANGED liveVars
  PROVE  SearchesInv'
<1>0. /\ NearestInv(search, index) /\ search.key \in TimeKeys /\ segmentStart \in Nat
      /\ index' = index
  BY DEF SearchesInv, liveVars
<1>1. CASE UNCHANGED <<search, segmentStart>> /\ phase' \notin {"starting", "seeking"}
  BY <1>0, <1>1 DEF SearchesInv
<1>2. CASE UNCHANGED <<search, segmentStart, phase, settings, request>>
  BY <1>0, <1>2 DEF SearchesInv, RequestedTimestamp, IsInitial
<1>3. NoSearch = NewSearch(ByTime(0), Before) /\ Before \in Methods /\ After \in Methods
  BY DEF NoSearch, Methods
<1>4. CASE SetProperty
  BY <1>0, <1>1, <1>4 DEF SetProperty, SearchesInv
<1>5. CASE Start
  <2>1. CASE UNCHANGED search /\ phase' = "idle"
    BY <1>1, <1>5, <2>1 DEF Start
  <2>2. ASSUME NEW time \in Nat, NEW method \in Methods,
               search' = NewSearch(ByTime(time), method), phase' = "starting"
        PROVE  SearchesInv'
    BY <1>0, <1>5, <2>2, NewTimeSearch DEF Start, SearchesInv
  <2>3. MaxTimestamp \in Nat /\ settings.end_timestamp \in Nat
    BY SrcAssumption DEF ControlInv, Default
  <2> QED BY <1>3, <1>5, <2>1, <2>2, <2>3 DEF Start, Opened
<1>6. CASE SearchEnd
  <2>1. Searching(search) /\ search' = ReadNext(search, indexHead, index) /\ phase = "starting"
    BY <1>6 DEF SearchEnd, SearchesInv
  <2>2. /\ NearestInv(search', index) /\ search'.key = search.key
        /\ search'.step # "found" /\ search'.step # "failed" => Searching(search')
    BY <1>0, <2>1, NextTimeSearch
  <2>3. phase' \in {"starting", "idle", "panicked"} /\ UNCHANGED segmentStart
    BY <1>6, <2>1 DEF SearchEnd, Opened
  <2>4. phase' = "starting" => search'.step # "found" /\ search'.step # "failed"
    BY <1>6, <2>1 DEF SearchEnd, Opened
  <2> QED BY <1>0, <2>2, <2>3, <2>4 DEF SearchesInv
<1>7. CASE SeekHead
  BY <1>0, <1>3, <1>7, NewTimeSearch DEF SeekHead, SeekDone, SearchesInv
<1>8. CASE BeginSearch
  <2>1. RequestedTimestamp \in Nat /\ search' = NewSearch(ByTime(RequestedTimestamp), Before)
    BY <1>8, RequestedIsTime DEF BeginSearch
  <2>2. RequestedTimestamp' = RequestedTimestamp
    BY <1>8 DEF BeginSearch, RequestedTimestamp, IsInitial
  <2>3. phase' = "seeking" /\ UNCHANGED segmentStart
    BY <1>8 DEF BeginSearch
  <2> QED BY <1>0, <1>3, <2>1, <2>2, <2>3, NewTimeSearch DEF SearchesInv
<1>9. CASE SearchIndex
  <2>1. /\ Searching(search) /\ search' = ReadNext(search, indexHead, index)
        /\ search.method = Before /\ search.key = ByTime(RequestedTimestamp)
    BY <1>9 DEF SearchIndex, SearchesInv
  <2>2. /\ NearestInv(search', index) /\ search'.key = search.key /\ search'.method = search.method
        /\ search'.step # "found" /\ search'.step # "failed" => Searching(search')
    BY <1>0, <2>1, NextTimeSearch
  <2>3. CASE search'.step = "found"
    <3>1. index[Result(search')].timestamp \in Nat
      BY <1>0, <2>1, <2>3, SearchedRecord
    <3>2. phase' = "looping" /\ segmentStart' \in Nat
      BY <1>9, <2>3, <3>1, RequestedIsTime DEF SearchIndex, SeekRecord, SeekDone
    <3> QED BY <1>0, <2>2, <3>2 DEF SearchesInv
  <2>4. CASE search'.step = "failed"
    BY <1>0, <1>9, <2>2, <2>4 DEF SearchIndex, SeekFails, SeekDone, SearchesInv
  <2>5. CASE search'.step # "found" /\ search'.step # "failed"
    <3>1. UNCHANGED <<phase, settings, request, segmentStart>>
      BY <1>9, <2>5 DEF SearchIndex
    <3>2. RequestedTimestamp' = RequestedTimestamp
      BY <3>1 DEF RequestedTimestamp, IsInitial
    <3> QED BY <1>0, <2>1, <2>2, <2>5, <3>1, <3>2 DEF SearchesInv
  <2> QED BY <2>3, <2>4, <2>5
<1>10. CASE RequestStop \/ \E time \in Nat : RequestSeek(time)
  BY <1>0, <1>1, <1>10 DEF RequestStop, RequestSeek, Started, ControlInv, NoRequest
<1>11. CASE viewer = "player" /\ UpdateSlider
  <2>1. request = NoRequest
    BY <1>11 DEF UpdateSlider, ViewerInv
  <2>2. phase \notin {"starting", "seeking"}
    BY <1>11, <2>1 DEF UpdateSlider, ControlInv, NoRequest
  <2> QED BY <1>1, <1>11, <2>2 DEF UpdateSlider
<1>12. CASE Stop \/ BeginSeek \/ BeginCreate \/ EndOfStream \/ ReadFails \/ Deliver
  BY <1>1, <1>12 DEF Stop, BeginSeek, BeginCreate, EndOfStream, ReadFails, Deliver
<1>13. CASE Fill \/ BeginQuery \/ ReadQuery \/ AnswerQuery
  BY <1>2, <1>13 DEF Fill, BeginQuery, ReadQuery, AnswerQuery
<1> QED BY <1>4, <1>5, <1>6, <1>7, <1>8, <1>9, <1>10, <1>11, <1>12, <1>13
        DEF ElementStep, Starting, Seeking, Creating

LEMMA SoughtInvNext ==
  ASSUME LiveInv, ControlInv, ReaderInv, PlayedInv, SearchesInv, SoughtInv, ElementStep,
         UNCHANGED liveVars
  PROVE  SoughtInv'
<1> DEFINE record == index[Result(search)]
<1>0. index' = index
  BY DEF liveVars
<1>1. CASE ~Sought'
  BY <1>1 DEF SoughtInv
<1>2. ASSUME UNCHANGED <<search, segmentStart>>, Sought' => Sought,
             played'.first # 0 => EventBegin(played'.first) = record.offset,
             Sought /\ played'.first = 0 /\ request' = NoRequest /\ phase' # "stopped" =>
               reader'.offset = record.offset \/ AtEnd(reader')
      PROVE  SoughtInv'
  BY <1>0, <1>2 DEF SoughtInv, Result
<1>3. CASE /\ UNCHANGED <<search, segmentStart, played, reader>>
           /\ Sought' => Sought
           /\ request' = request \/ request' # NoRequest
           /\ phase' # "stopped" => phase # "stopped"
  <2>1. CASE Sought'
    BY <1>0, <1>3, <2>1 DEF SoughtInv, Result
  <2> QED BY <1>1, <2>1
<1>4. CASE SetProperty
  BY <1>1, <1>4 DEF SetProperty, Sought
<1>5. CASE Start \/ SearchEnd
  BY <1>1, <1>5 DEF Start, SearchEnd, Sought, ControlInv
<1>6. ASSUME NEW time \in Nat, RequestSeek(time) PROVE SoughtInv'
  BY <1>3, <1>6, SomeRequest DEF RequestSeek, Sought
<1>7. CASE RequestStop
  BY <1>3, <1>7, SomeRequest DEF RequestStop, Sought
<1>8. CASE Stop
  <2>1. Sought' => Sought
    BY <1>8 DEF Stop, Sought
  <2> QED BY <1>2, <1>8, <2>1 DEF Stop, NothingPlayed
<1>9. CASE BeginSeek \/ BeginCreate \/ EndOfStream \/ ReadFails
  <2>1. Sought' => Sought
    BY <1>9 DEF BeginSeek, BeginCreate, EndOfStream, ReadFails, Sought, ControlInv
  <2> QED BY <1>3, <1>9, <2>1 DEF BeginSeek, BeginCreate, EndOfStream, ReadFails
<1>10. CASE SeekHead \/ BeginSearch
  BY <1>1, <1>10 DEF SeekHead, BeginSearch, NoSearch, NewSearch, Sought
<1>11. CASE SearchIndex
  <2>1. /\ Searching(search) /\ search' = ReadNext(search, indexHead, index)
        /\ search.method = Before /\ search.key = ByTime(RequestedTimestamp)
        /\ NearestInv(search, index) /\ search.key \in TimeKeys
    BY <1>11 DEF SearchIndex, SearchesInv
  <2>2. search'.key = search.key /\ search'.method = search.method
    BY <2>1, NextTimeSearch
  <2>3. CASE search'.step = "found"
    <3> DEFINE found == index[Result(search')]
    <3>1. found.offset \in Nat /\ Aligned(found.offset)
      BY <2>1, <2>3, SearchedRecord
    <3>2. SeekRecord(found)
      BY <1>11, <2>3 DEF SearchIndex
    <3>3. reader'.offset = found.offset \/ AtEnd(reader')
      BY <3>1, <3>2, SoughtReader DEF SeekRecord, ReaderInv
    <3>4. segmentStart' \in {search'.key.value, found.timestamp}
      BY <2>1, <2>2, <3>2 DEF SeekRecord, ByTime
    <3>5. played'.first = 0
      BY <3>2 DEF SeekRecord, SeekDone, NothingPlayed
    <3> HIDE DEF found
    <3>6. found = index'[Result(search')]
      BY <1>0 DEF found
    <3> QED BY <2>1, <2>2, <3>3, <3>4, <3>5, <3>6 DEF SoughtInv, Result
  <2>4. CASE search'.step # "found"
    BY <1>1, <2>4 DEF Sought
  <2> QED BY <2>3, <2>4
<1>12. CASE Fill
  <2>1. reader'.offset = reader.offset /\ ~AtEnd(reader)
    BY <1>12 DEF Fill, ReaderInv, Readers, AtEnd
  <2>2. /\ UNCHANGED <<search, segmentStart, played, request, phase>>
        /\ Sought' => Sought
    BY <1>12 DEF Fill, Sought
  <2> QED BY <1>0, <1>12, <2>1, <2>2 DEF Fill, Sought, SoughtInv, Result
<1>13. CASE Deliver
  <2>1. UNCHANGED <<search, segmentStart, outcome, request>> /\ phase = "creating"
    BY <1>13 DEF Deliver
  <2>2. SUFFICES ASSUME Sought' PROVE SoughtInv'
    BY <1>1
  <2>3. Sought /\ search.step = "found"
    BY <2>1, <2>2 DEF Sought
  <2>4. CASE request # NoRequest
    BY <1>0, <1>2, <1>13, <2>1, <2>3, <2>4 DEF Deliver, SoughtInv
  <2>5. CASE request = NoRequest
    <3> DEFINE k == EventAt(Consumed(reader))
    <3>1. /\ reader.offset \in Nat /\ reader.inner = reader.offset + reader.buffered
          /\ reader.buffered \in Nat /\ reader.buffered > 0
      BY <1>13, EventsAssumption DEF ReaderInv, Readers, Deliver, HasEvent
    <3>2. k = EventAt(reader.offset) /\ ~AtEnd(reader)
      BY <3>1 DEF Consumed, AtEnd
    <3>3. played'.first = IF played.first = 0 THEN k ELSE played.first
      BY <1>13, <2>5 DEF Deliver
    <3>4. EventAt(reader.offset) \in Nat \ {0}
      BY <3>1, EventAtHolds
    <3>5. CASE played.first = 0
      <4>1. reader.offset = record.offset
        BY <2>1, <2>3, <2>5, <3>2, <3>5 DEF SoughtInv
      <4>2. Result(search) \in 1 .. Len(index)
        BY <2>3, FoundRecord DEF SearchesInv
      <4>3. Aligned(record.offset)
        BY <4>2, LiveFacts
      <4>4. EventBegin(k) = record.offset
        BY <3>2, <4>1, <4>3 DEF Aligned
      <4> HIDE DEF k, record
      <4> QED BY <1>2, <2>1, <2>3, <3>2, <3>3, <3>4, <3>5, <4>3, <4>4
    <3>6. CASE played.first # 0
      BY <1>2, <2>1, <2>3, <3>3, <3>6 DEF SoughtInv
    <3> QED BY <3>5, <3>6
  <2> QED BY <2>4, <2>5
<1>14. CASE BeginQuery \/ ReadQuery \/ AnswerQuery
  BY <1>3, <1>14 DEF BeginQuery, ReadQuery, AnswerQuery, Sought
<1>15. CASE UpdateSlider
  BY <1>3, <1>15, SomeRequest DEF UpdateSlider, Sought
<1> QED BY <1>4, <1>5, <1>6, <1>7, <1>8, <1>9, <1>10, <1>11, <1>12, <1>13, <1>14, <1>15
        DEF ElementStep, Starting, Seeking, Creating

------------------------------------------------------------------------------
(* Queries                                                                   *)

LEMMA QueryInvNext ==
  ASSUME LiveInv, QueryInv, ElementStep, UNCHANGED liveVars PROVE QueryInv'
<1>0. index' = index /\ MaxTimestamp \in Nat /\ 0 \in Nat /\ Before \in Methods
  BY SrcAssumption DEF liveVars, Methods
<1>1. CASE UNCHANGED query
  BY <1>0, <1>1 DEF QueryInv
<1>2. /\ NoSearch \in AnySearch /\ NearestInv(NoSearch, index) /\ NoSearch.key \in TimeKeys
      /\ Searching(NoSearch)
  BY <1>0, NewTimeSearch DEF NoSearch
<1>3. CASE query' = NoQuery \/ query' = [NoQuery EXCEPT !.step = "first"]
  <2>1. /\ query' \in [step : {"none", "first", "last", "done"}, search : AnySearch,
                       start : Nat, end : Nat]
        /\ query'.step \in {"none", "first"} /\ query'.search = NoSearch
    BY <1>2, <1>3 DEF NoQuery
  <2> QED BY <1>0, <1>2, <2>1 DEF QueryInv
<1>4. CASE ReadQuery
  <2> DEFINE s == ReadNext(query.search, indexHead, index)
             max == NewSearch(ByTime(MaxTimestamp), Before)
  <2>1. /\ NearestInv(query.search, index) /\ query.search.key \in TimeKeys
        /\ Searching(query.search)
        /\ query \in [step : {"none", "first", "last", "done"}, search : AnySearch,
                      start : Nat, end : Nat]
        /\ query.step \in {"first", "last"}
    BY <1>4 DEF QueryInv, ReadQuery
  <2>2. /\ NearestInv(s, index) /\ s.key = query.search.key
        /\ s.step # "found" /\ s.step # "failed" => Searching(s)
    BY <2>1, NextTimeSearch
  <2>3. s \in AnySearch
    BY <2>2 DEF NearestInv
  <2>4. /\ NearestInv(max, index) /\ max.key \in TimeKeys /\ max.key = ByTime(MaxTimestamp)
        /\ max.step = "open" /\ Searching(max) /\ max \in AnySearch
    BY <1>0, NewTimeSearch
  <2>5. query' =
          CASE s.step = "failed" -> NoQuery
            [] s.step = "found" /\ query.step = "first" ->
                 [query EXCEPT !.step = "last", !.start = index[Result(s)].timestamp,
                               !.search = max]
            [] s.step = "found" /\ query.step = "last" ->
                 [query EXCEPT !.step = "done", !.end = index[Result(s)].timestamp,
                               !.search = NoSearch]
            [] OTHER -> [query EXCEPT !.search = s]
    BY <1>4 DEF ReadQuery
  <2>6. s.step = "found" => /\ Result(s) \in 1 .. Len(index)
                            /\ index[Result(s)].timestamp \in Nat
    BY <2>1, SearchedRecord
  <2> HIDE DEF max
  (* What the second search sees of the index, it sees at once. *)
  <2>7. ASSUME query.step = "last"
        PROVE  \/ s.step = "failed"
               \/ s.step = "last" /\ s.hi = Len(index)
               \/ /\ s.step = "found" /\ query.search.step = "last"
                  /\ Result(s) = query.search.hi
    <3>1. /\ query.search.key = ByTime(MaxTimestamp) /\ query.search.step \in {"open", "last"}
          /\ query.search \in AnySearch
      BY <2>1, <2>7 DEF QueryInv, NearestInv
    <3>2. CASE query.search.step = "open"
      BY <3>1, <3>2 DEF ReadNext, ReadBounds, Failed, AnySearch, Search
    <3>3. CASE query.search.step = "last"
      <4>1. CASE ~CanRead(query.search.hi, indexHead, index)
        BY <3>1, <3>3, <4>1 DEF ReadNext, ReadLast, Failed, AnySearch, Search
      <4>2. CASE CanRead(query.search.hi, indexHead, index)
        <5>1. query.search.hi \in 1 .. Len(index)
          <6>1. query.search.hi \in Nat /\ indexHead \in Nat /\ Len(index) \in Nat
            BY <3>1, LiveTypes DEF AnySearch, Search, LiveInv, StreamInv
          <6> QED BY <4>2, <6>1 DEF CanRead
        <5>2. index[query.search.hi].timestamp \in 1 .. MaxTimestamp
          BY <5>1, LiveFacts
        <5>3. ~IsOlderThan(query.search, index[query.search.hi])
          BY <1>0, <3>1, <5>2 DEF IsOlderThan, ByTime
        <5>4. s = Found(query.search, query.search.hi)
          BY <3>1, <3>3, <4>2, <5>3 DEF ReadNext, ReadLast, ByTime
        <5> QED BY <3>1, <3>3, <5>4 DEF Found, Result, AnySearch, Search
      <4> QED BY <4>1, <4>2
    <3> QED BY <3>1, <3>2, <3>3
  <2> HIDE DEF s
  <2>8. CASE s.step = "failed"
    BY <1>3, <2>5, <2>8
  <2>9. CASE s.step = "found" /\ query.step = "first"
    <3>1. /\ query' \in [step : {"none", "first", "last", "done"}, search : AnySearch,
                         start : Nat, end : Nat]
          /\ query'.step = "last" /\ query'.search = max
          /\ query'.start = index[Result(s)].timestamp
      BY <2>1, <2>4, <2>5, <2>6, <2>9
    <3> QED BY <1>0, <2>4, <2>6, <2>9, <3>1 DEF QueryInv
  <2>10. CASE s.step = "found" /\ query.step = "last"
    <3>1. /\ query' \in [step : {"none", "first", "last", "done"}, search : AnySearch,
                         start : Nat, end : Nat]
          /\ query'.step = "done" /\ query'.search = NoSearch
          /\ query'.start = query.start /\ query'.end = index[Result(s)].timestamp
      BY <1>2, <2>1, <2>5, <2>6, <2>10
    <3>2. PICK i \in 1 .. Len(index) :
            query.start = index[i].timestamp /\ i <= query.search.hi
      BY <2>7, <2>10 DEF QueryInv
    <3>3. i <= Result(s)
      BY <2>7, <2>10, <3>2
    <3>4. index[i].timestamp <= index[Result(s)].timestamp
      BY <2>6, <2>10, <3>3, LiveFacts DEF IndexOK, InOrderOf
    <3> QED BY <1>0, <1>2, <3>1, <3>2, <3>4 DEF QueryInv
  <2>11. CASE s.step # "found" /\ s.step # "failed"
    <3>1. /\ query' \in [step : {"none", "first", "last", "done"}, search : AnySearch,
                         start : Nat, end : Nat]
          /\ query'.step = query.step /\ query'.search = s /\ query'.start = query.start
      BY <2>1, <2>3, <2>5, <2>11
    <3>2. CASE query.step = "first"
      BY <1>0, <2>1, <2>2, <2>11, <3>1, <3>2 DEF QueryInv
    <3>3. CASE query.step = "last"
      <4>1. s.step = "last" /\ s.hi = Len(index) /\ Len(index) \in Nat
        BY <2>7, <2>11, <3>3, LiveTypes DEF LiveInv, StreamInv
      <4>2. PICK i \in 1 .. Len(index) : query.start = index[i].timestamp
        BY <3>3 DEF QueryInv
      <4>3. i <= s.hi /\ query.search.key = ByTime(MaxTimestamp)
        BY <3>3, <4>1 DEF QueryInv
      <4> QED BY <1>0, <2>1, <2>2, <2>11, <3>1, <3>3, <4>1, <4>2, <4>3 DEF QueryInv
    <3> QED BY <2>1, <3>2, <3>3
  <2> QED BY <2>1, <2>8, <2>9, <2>10, <2>11
<1> QED BY <1>1, <1>3, <1>4
        DEF ElementStep, Starting, Seeking, Creating, SetProperty, Start, SearchEnd, BeginSeek,
            SeekHead, BeginSearch, SearchIndex, BeginCreate, Fill, EndOfStream, ReadFails,
            Deliver, Stop, RequestStop, RequestSeek, BeginQuery, AnswerQuery, UpdateSlider

------------------------------------------------------------------------------
(* The video player and the longevity test                                   *)

LEMMA MaxOfTwo ==
  ASSUME NEW a \in Nat, NEW b \in Nat
  PROVE  Max({a, b}) \in Nat /\ a <= Max({a, b}) /\ b <= Max({a, b})
<1>1. \E x \in {a, b} : \A y \in {a, b} : x >= y
  <2>1. CASE a >= b BY <2>1
  <2>2. CASE ~(a >= b) BY <2>2
  <2> QED BY <2>1, <2>2
<1>2. Max({a, b}) \in {a, b} /\ \A y \in {a, b} : Max({a, b}) >= y
  BY <1>1 DEF Max
<1> HIDE DEF Max
<1>3. Max({a, b}) \in Nat
  BY <1>2
<1> QED BY <1>2, <1>3

LEMMA SliderInvNext ==
  ASSUME QueryInv, SliderInv, [Next]_vars PROVE SliderInv'
<1>1. CASE UNCHANGED slider
  BY <1>1 DEF SliderInv, SliderIsInRange, Slider
<1>2. ASSUME NEW time \in SeekTimes, MoveSlider(time) PROVE SliderInv'
  <2>1. /\ slider.start \in Nat /\ slider.end \in Nat /\ time \in Nat
        /\ slider.start <= time /\ time <= slider.end
        /\ slider' = [slider EXCEPT !.value = time]
    BY <1>2, SrcAssumption DEF MoveSlider, SliderInv, Slider
  <2> QED BY <2>1 DEF SliderInv, Slider, SliderIsInRange
<1>3. CASE UpdateSlider
  <2>1. PICK position \in Positions : slider' = SliderAt(position)
    BY <1>3 DEF UpdateSlider
  <2>2. position \in Nat
    BY SrcAssumption DEF Positions
  <2>3. query.start \in Nat /\ query.end \in Nat /\ query.start <= query.end
    BY <1>3 DEF QueryInv, UpdateSlider
  <2>4. /\ slider'.start = query.start /\ slider'.end = Max({query.end, position})
        /\ slider'.value = Max({query.start, position})
        /\ slider' = [start |-> slider'.start, end |-> slider'.end, value |-> slider'.value]
    BY <2>1 DEF SliderAt
  <2> DEFINE e == Max({query.end, position})  v == Max({query.start, position})
  <2>5. e \in Nat /\ v \in Nat /\ query.end <= e /\ position <= e /\ query.start <= v
    BY <2>2, <2>3, MaxOfTwo
  <2>6. v = query.start \/ v = position
    <3>1. CASE position <= query.start
      <4>1. \A y \in {query.start, position} : query.start >= y
        BY <2>2, <2>3, <3>1
      <4>2. v \in {query.start, position}
        BY <4>1 DEF Max
      <4> QED BY <4>2
    <3>2. CASE ~(position <= query.start)
      <4>1. \A y \in {query.start, position} : position >= y
        BY <2>2, <2>3, <3>2
      <4>2. v \in {query.start, position}
        BY <4>1 DEF Max
      <4> QED BY <4>2
    <3> QED BY <3>1, <3>2
  <2> HIDE DEF e, v
  <2>7. v <= e
    BY <2>2, <2>3, <2>5, <2>6
  <2>8. slider' \in Slider
    BY <2>3, <2>4, <2>5 DEF Slider, e, v
  <2>9. slider'.start <= slider'.value /\ slider'.value <= slider'.end
    BY <2>4, <2>5, <2>7 DEF e, v
  <2> QED BY <2>8, <2>9 DEF SliderInv, SliderIsInRange
<1> QED BY <1>1, <1>2, <1>3
        DEF Next, PlayerNext, ClickStop, ReceiveEos, Timeout, NoPosition, vars

(* One more event is counted if it is one of those that are. *)
LEMMA OneMore ==
  ASSUME NEW S, NEW f \in Nat, NEW l \in Nat, f <= l
  PROVE  /\ Cardinality((f + 1 .. l) \cap S) \in Nat
         /\ Cardinality((f + 1 .. l + 1) \cap S)
              = Cardinality((f + 1 .. l) \cap S) + Count(l + 1 \in S)
<1> DEFINE A == (f + 1 .. l) \cap S  B == (f + 1 .. l + 1) \cap S
<1>1. IsFiniteSet(A)
  <2>1. IsFiniteSet(f + 1 .. l) /\ A \subseteq f + 1 .. l
    BY FS_Interval
  <2> QED BY <2>1, FS_Subset
<1>2. l + 1 \notin A
  OBVIOUS
<1>3. Cardinality(A) \in Nat /\ Cardinality(A \cup {l + 1}) = Cardinality(A) + 1
  BY <1>1, <1>2, FS_AddElement, FS_CardinalityType
<1>4. CASE l + 1 \in S
  <2>1. B = A \cup {l + 1}
    BY <1>4
  <2> HIDE DEF A, B
  <2>2. Count(l + 1 \in S) = 1
    BY <1>4 DEF Count
  <2>3. Cardinality(B) = Cardinality(A) + Count(l + 1 \in S)
    BY <1>3, <2>1, <2>2
  <2> QED BY <1>3, <2>3 DEF A, B
<1>5. CASE l + 1 \notin S
  <2>1. B = A
    BY <1>5
  <2> HIDE DEF A, B
  <2>2. Count(l + 1 \in S) = 0
    BY <1>5 DEF Count
  <2>3. Cardinality(B) = Cardinality(A) + Count(l + 1 \in S)
    BY <1>3, <2>1, <2>2
  <2> QED BY <1>3, <2>3 DEF A, B
<1> QED BY <1>4, <1>5

Gaps == {k \in Events : EventTimes[k] - EventTimes[k - 1] > MaxGap}

(* The counts for the events that were played up to now. *)
Counted(v, p) ==
  /\ v.prev_pts = EventTimes[p.last]
  /\ v.pts_decreasing_count = 0
  /\ v.pts_gap_too_large_count = Cardinality((p.first + 1 .. p.last) \cap Gaps)
  /\ v.discontinuity_count = 1 + Cardinality((p.first + 1 .. p.last) \cap Discontinuous)

LEMMA CountedInv ==
  ASSUME NEW p \in [first : Events \cup {0}, last : Events \cup {0}],
         p.last = 0 => p.first = 0
  PROVE  LET after == p.first + 1 .. p.last
         IN {k \in after : EventTimes[k] - EventTimes[k - 1] > MaxGap} = after \cap Gaps
<1>1. Len(EventTimes) \in Nat /\ Events = 1 .. Len(EventTimes)
  BY EventsAssumption DEF Events
<1>2. \A k \in p.first + 1 .. p.last : k \in Events
  BY <1>1
<1> QED BY <1>2 DEF Gaps

LEMMA ValidatorInvNext ==
  ASSUME ControlInv, ViewerInv, ReaderInv, PlayedInv, PlayedInv', ValidatorInv, [Next]_vars
  PROVE  ValidatorInv'
<1>1. CASE viewer # "checker"
  <2>1. validator' = validator /\ viewer' = viewer
    BY <1>1 DEF Next, vars
  <2> QED BY <1>1, <2>1 DEF ValidatorInv, CheckerTypeOK, CheckerInit
<1>2. ASSUME validator' = validator, viewer' = viewer, played' = played,
             (phase' # "stopped" \/ outcome' = "none") => (phase # "stopped" \/ outcome = "none")
      PROVE  ValidatorInv'
  BY <1>2 DEF ValidatorInv, CheckerTypeOK, CheckerInit
<1>3. ASSUME validator' = validator, viewer' = viewer, played' = NothingPlayed,
             (phase' # "stopped" \/ outcome' = "none") => 
                played = NothingPlayed /\ (phase # "stopped" \/ outcome = "none")
      PROVE  ValidatorInv'
  BY <1>3 DEF ValidatorInv, CheckerTypeOK, CheckerInit
<1>4. CASE viewer = "checker" /\ viewer' = viewer /\ CheckerNext
  <2>1. CASE Configure
    BY <1>2, <1>4, <2>1 DEF Configure, SetProperty
  <2>2. CASE Quit
    BY <1>2, <1>4, <2>2 DEF Quit, RequestStop
  <2>3. ASSUME Probe, played' \in {played, NothingPlayed} PROVE validator' = validator
    BY <2>3 DEF Probe
  <2>4. CASE Probe /\ (Start \/ SearchEnd)
    BY <1>2, <1>4, <2>3, <2>4 DEF Start, SearchEnd, ControlInv
  <2>5. CASE Probe /\ Stop
    <3>1. played' = NothingPlayed /\ phase' = "stopped" /\ outcome' = outcome /\ phase # "stopped"
      BY <2>5 DEF Stop
    <3> QED BY <1>3, <1>4, <2>3, <2>5, <3>1 DEF ControlInv
  <2>6. CASE Probe /\ SeekHead
    BY <1>3, <1>4, <2>3, <2>6 DEF SeekHead, SeekDone, ControlInv, ViewerInv
  <2>7. CASE Probe /\ SearchIndex
    <3>1. phase = "seeking" /\ played = NothingPlayed
      BY <1>4, <2>7 DEF SearchIndex, ControlInv, ViewerInv
    <3>2. played' = NothingPlayed
      BY <2>7, <3>1 DEF SearchIndex, SeekRecord, SeekFails, SeekDone
    <3> QED BY <1>3, <1>4, <2>3, <2>7, <3>1, <3>2
  <2>8. CASE Probe /\ (BeginSeek \/ BeginSearch \/ BeginCreate \/ Fill \/ EndOfStream \/ ReadFails)
    BY <1>2, <1>4, <2>3, <2>8
       DEF BeginSeek, BeginSearch, BeginCreate, Fill, EndOfStream, ReadFails
  <2>9. CASE Probe /\ ReadQuery
    BY <1>2, <1>4, <2>3, <2>9 DEF ReadQuery
  <2>10. CASE Probe /\ Deliver /\ request # NoRequest
    BY <1>2, <1>4, <2>3, <2>10 DEF Deliver
  <2>11. CASE Probe /\ Deliver /\ request = NoRequest
    <3> DEFINE k == EventAt(Consumed(reader))
               v == validator
               w == Recorded(EventTimes[k], IsDiscont(k))
    <3>1. /\ played' = [first |-> IF played.first = 0 THEN k ELSE played.first, last |-> k]
          /\ phase' = "looping" /\ phase # "stopped" /\ outcome' = outcome
      BY <2>11 DEF Deliver
    <3>2. reader.offset \in Nat /\ reader.inner = reader.offset + reader.buffered
          /\ reader.buffered \in Nat
      BY DEF ReaderInv, Readers
    <3>3. k = EventAt(reader.offset)
      BY <3>2 DEF Consumed
    <3>4. k \in Events /\ k \in Nat \ {0}
      <4>1. k \in Nat \ {0}
        BY <3>2, <3>3, EventAtHolds
      <4>2. played'.last = k /\ played'.last \in Events \cup {0}
        BY <3>1 DEF PlayedInv
      <4> QED BY <4>1, <4>2
    <3>5. EventTimes[k] \in Nat /\ EventTimes[k] >= 1 /\ MaxGap \in Nat
          /\ Discontinuous \subseteq Events
      BY <3>4, EventTypes, CheckerAssumption
    <3>6. played' # played /\ played' # NothingPlayed
      <4>1. played.first # 0 => k = played.last + 1 /\ played.last \in Nat
        BY <2>11, <3>3, EventsAssumption DEF PlayedInv, NothingPlayed, Events
      <4>2. played.last # k
        <5>1. CASE played.first = 0
          BY <3>4, <5>1 DEF PlayedInv
        <5>2. CASE played.first # 0
          BY <4>1, <5>2
        <5> QED BY <5>1, <5>2
      <4> QED BY <3>1, <3>4, <4>2 DEF NothingPlayed
    <3>7. validator' = w
      BY <2>11, <3>1, <3>6 DEF Probe
    <3>8. /\ v.prev_pts \in Nat /\ v.pts_gap_too_large_count \in Nat
          /\ v.pts_decreasing_count \in Nat /\ v.discontinuity_count \in Nat
      BY DEF ValidatorInv, CheckerTypeOK
    <3>9. \A b : Count(b) \in {0, 1}
      BY DEF Count
    <3>10. /\ w.prev_pts = EventTimes[k]
           /\ w.pts_gap_too_large_count = v.pts_gap_too_large_count
                + Count(v.prev_pts # NoPts /\ EventTimes[k] - v.prev_pts > MaxGap)
           /\ w.pts_decreasing_count = v.pts_decreasing_count + Count(EventTimes[k] < v.prev_pts)
           /\ w.discontinuity_count = v.discontinuity_count + Count(IsDiscont(k))
           /\ w = [prev_pts |-> w.prev_pts,
                   pts_gap_too_large_count |-> w.pts_gap_too_large_count,
                   pts_decreasing_count |-> w.pts_decreasing_count,
                   discontinuity_count |-> w.discontinuity_count]
      BY DEF Recorded
    <3> HIDE DEF k, w
    <3>11. CheckerTypeOK'
      BY <3>5, <3>7, <3>8, <3>9, <3>10 DEF CheckerTypeOK
    <3>12. Counted(w, played')
      <4>1. CASE played.first = 0
        <5>1. played = NothingPlayed
          BY <4>1 DEF PlayedInv, NothingPlayed
        <5>2. /\ v.prev_pts = 0 /\ v.pts_gap_too_large_count = 0
              /\ v.pts_decreasing_count = 0 /\ v.discontinuity_count = 0
          BY <1>4, <3>1, <5>1 DEF ValidatorInv, CheckerInit, NoPts
        <5>3. played'.first = k /\ played'.last = k
          BY <3>1, <4>1
        <5>4. k + 1 .. k = {} /\ Cardinality({}) = 0
          BY <3>4, FS_EmptySet
        <5>5. (k + 1 .. k) \cap Gaps = {} /\ (k + 1 .. k) \cap Discontinuous = {}
          BY <5>4
        <5>6. IsDiscont(k)
          BY <5>1 DEF IsDiscont
        <5>7. /\ w.pts_gap_too_large_count = 0 /\ w.pts_decreasing_count = 0
              /\ w.discontinuity_count = 1
          BY <3>5, <3>10, <5>2, <5>6 DEF Count, NoPts
        <5> QED BY <3>10, <5>3, <5>4, <5>5, <5>7 DEF Counted
      <4>2. CASE played.first # 0
        <5> DEFINE f == played.first  l == played.last
        <5>1. /\ played # NothingPlayed /\ k = l + 1 /\ f <= l
              /\ f \in Events /\ l \in Events /\ f \in Nat /\ l \in Nat
              /\ played \in [first : Events \cup {0}, last : Events \cup {0}]
              /\ played.last = 0 => played.first = 0
          <6>1. played # NothingPlayed
            BY <4>2 DEF NothingPlayed
          <6> QED BY <2>11, <3>3, <4>2, <6>1, EventsAssumption DEF PlayedInv, Events
        <5>2. played'.first = f /\ played'.last = l + 1
          BY <3>1, <4>2, <5>1
        <5>3. /\ v.prev_pts = EventTimes[l] /\ v.pts_decreasing_count = 0
              /\ v.pts_gap_too_large_count = Cardinality((f + 1 .. l) \cap Gaps)
              /\ v.discontinuity_count = 1 + Cardinality((f + 1 .. l) \cap Discontinuous)
          BY <1>4, <5>1, CountedInv DEF ValidatorInv
        <5>4. EventTimes[l] \in Nat /\ EventTimes[l] >= 1 /\ EventTimes[l] < EventTimes[k]
          BY <3>4, <5>1, EventTypes, EventsAssumption
        <5> HIDE DEF f, l
        <5>5. (v.prev_pts # NoPts /\ EventTimes[k] - v.prev_pts > MaxGap) <=> l + 1 \in Gaps
          <6>1. l + 1 - 1 = l
            BY <5>1
          <6> QED BY <3>4, <5>1, <5>3, <5>4, <6>1 DEF Gaps, NoPts
        <5>6. w.pts_gap_too_large_count
                = Cardinality((f + 1 .. l) \cap Gaps) + Count(l + 1 \in Gaps)
          BY <3>10, <5>3, <5>5 DEF Count
        <5>7. w.pts_decreasing_count = 0
          BY <3>5, <3>10, <5>3, <5>4 DEF Count
        <5>8. IsDiscont(k) <=> l + 1 \in Discontinuous
          BY <5>1 DEF IsDiscont
        <5>9. w.discontinuity_count
                = 1 + Cardinality((f + 1 .. l) \cap Discontinuous) + Count(l + 1 \in Discontinuous)
          BY <3>10, <5>3, <5>8 DEF Count
        <5>10. /\ Cardinality((f + 1 .. l + 1) \cap Gaps)
                    = Cardinality((f + 1 .. l) \cap Gaps) + Count(l + 1 \in Gaps)
               /\ Cardinality((f + 1 .. l + 1) \cap Discontinuous)
                    = Cardinality((f + 1 .. l) \cap Discontinuous) + Count(l + 1 \in Discontinuous)
               /\ Cardinality((f + 1 .. l) \cap Discontinuous) \in Nat
          BY <5>1, OneMore
        <5>11. w.discontinuity_count = 1 + Cardinality((f + 1 .. l + 1) \cap Discontinuous)
          BY <3>9, <5>9, <5>10
        <5> QED BY <3>10, <5>1, <5>2, <5>6, <5>7, <5>10, <5>11 DEF Counted
      <4> QED BY <4>1, <4>2
    <3>13. LET after == played'.first + 1 .. played'.last
           IN {j \in after : EventTimes[j] - EventTimes[j - 1] > MaxGap} = after \cap Gaps
      BY CountedInv DEF PlayedInv
    <3> QED BY <1>4, <3>6, <3>7, <3>11, <3>12, <3>13 DEF ValidatorInv, Counted
  <2> QED BY <1>4, <2>1, <2>2, <2>4, <2>5, <2>6, <2>7, <2>8, <2>9, <2>10, <2>11
          DEF CheckerNext, ElementNext, Starting, Seeking, Creating
<1>5. CASE UNCHANGED <<validator, viewer, played, phase, outcome>>
  BY <1>2, <1>5
<1> QED BY <1>1, <1>4, <1>5 DEF Next, vars, srcVars, elementVars

------------------------------------------------------------------------------
(* The invariants under the steps of the stream                              *)

LEMMA LiveIndexOK == LiveInv => IndexOK(index) /\ StreamTypeOK
BY LiveFacts DEF LiveInv, StreamInv

LEMMA LiveKeepsElement ==
  ASSUME LiveInv, LiveInv', LiveNext, UNCHANGED <<elementVars, viewer>>,
         ControlInv, ReaderInv, PlayedInv, EosInv, SearchesInv, SoughtInv, QueryInv
  PROVE  ControlInv' /\ ReaderInv' /\ PlayedInv' /\ EosInv' /\ SearchesInv' /\ SoughtInv' /\ QueryInv'
<1>1. Grows
  BY LiveGrows
<1>2. /\ IndexOK(index) /\ IndexOK(index)' /\ dataTail \in Nat /\ dataTail' \in Nat
      /\ Len(index) \in Nat /\ Len(index') \in Nat
  <2>1. IndexOK(index) /\ StreamTypeOK
    BY LiveFacts DEF LiveInv, StreamInv
  <2>2. IndexOK(index)' /\ StreamTypeOK'
    BY LiveIndexOK, PTL
  <2> QED BY <2>1, <2>2, LiveTypes DEF IndexOK, StreamTypeOK
<1>3. UNCHANGED <<settings, phase, search, reader, request, segmentStart, outcome, played, query>>
  BY DEF elementVars
<1>4. ControlInv'
  BY <1>3 DEF ControlInv
<1>5. ReaderInv'
  BY <1>1, <1>2, <1>3 DEF ReaderInv, Readers, Grows, AtEnd
<1>6. PlayedInv'
  BY <1>3 DEF PlayedInv
<1>7. EosInv'
  BY <1>1, <1>3 DEF EosInv, Grows
<1>8. NearestInv(search, index') /\ NearestInv(query.search, index')
  BY <1>1, <1>2, NearestGrows DEF Grows, SearchesInv, QueryInv
<1>9. SearchesInv'
  BY <1>3, <1>8 DEF SearchesInv, RequestedTimestamp, IsInitial
<1>10. SoughtInv'
  <2>1. CASE Sought
    <3>1. Result(search) \in 1 .. Len(index)
      BY <2>1, FoundRecord DEF Sought, SearchesInv
    <3>2. index'[Result(search)] = index[Result(search)]
      BY <1>1, <3>1 DEF Grows
    <3> QED BY <1>3, <2>1, <3>2 DEF SoughtInv, Sought, Result
  <2>2. CASE ~Sought
    BY <1>3, <2>2 DEF SoughtInv, Sought
  <2> QED BY <2>1, <2>2
<1>11. QueryInv'
  <2>1. \A i \in 1 .. Len(index) : i \in 1 .. Len(index') /\ index'[i] = index[i]
    BY <1>1, <1>2 DEF Grows
  <2> QED BY <1>3, <1>8, <2>1 DEF QueryInv
<1> QED BY <1>4, <1>5, <1>6, <1>7, <1>9, <1>10, <1>11

------------------------------------------------------------------------------
(* All of it                                                                 *)

ViewersInv ==
  /\ ElementInv
  /\ SliderInv
  /\ ValidatorInv

LEMMA ElementInvInit == Init => ViewersInv
<1> SUFFICES ASSUME Init PROVE ViewersInv
  OBVIOUS
<1>1. LiveInv
  BY LiveInvInit DEF Init
<1>2. /\ settings = Default /\ phase = "stopped" /\ search = NoSearch
      /\ reader = ReaderAt(Unbounded, 0) /\ request = NoRequest /\ segmentStart = 0
      /\ outcome = "none" /\ played = NothingPlayed /\ query = NoQuery
  BY DEF Init, SrcInit
<1>3. reader.offset = 0 /\ ReaderInv
  <2>1. Unbounded \in Nat
    BY <1>1, LiveTypes DEF Unbounded, LiveInv, StreamInv
  <2> QED BY <1>2, <2>1, OpenedReader, AlignedZero DEF ReaderInv
<1>4. ControlInv /\ ViewerInv
  BY <1>2, <1>3 DEF ControlInv, ViewerInv, NoRequest, NoQuery, Requests, Phases, Outcomes
<1>5. PlayedInv /\ EosInv
  BY <1>2 DEF PlayedInv, EosInv, NothingPlayed
<1>6. /\ NearestInv(NoSearch, index) /\ NoSearch.key \in TimeKeys /\ NoSearch \in AnySearch
      /\ NoSearch.step = "open"
  BY NewTimeSearch DEF NoSearch, Methods
<1>7. SearchesInv /\ SoughtInv /\ QueryInv
  BY <1>2, <1>6 DEF SearchesInv, SoughtInv, Sought, QueryInv, NoQuery
<1>8. SliderInv
  BY DEF Init, PlayerInit, SliderInv, Slider, SliderIsInRange
<1>9. ValidatorInv
  BY <1>2 DEF Init, ValidatorInv, CheckerTypeOK, CheckerInit, NoPts
<1> QED BY <1>1, <1>3, <1>4, <1>5, <1>7, <1>8, <1>9 DEF ViewersInv, ElementInv

LEMMA ElementInvNext == ViewersInv /\ [Next]_vars => ViewersInv'
<1> SUFFICES ASSUME ViewersInv, [Next]_vars PROVE ViewersInv'
  OBVIOUS
<1>1. /\ LiveInv /\ ControlInv /\ ViewerInv /\ ReaderInv /\ PlayedInv /\ EosInv /\ SearchesInv
      /\ SoughtInv /\ QueryInv /\ SliderInv /\ ValidatorInv
  BY DEF ViewersInv, ElementInv
<1>2. SliderInv' /\ slider' \in Slider
  BY <1>1, SliderInvNext DEF SliderInv
<1>3. ViewerInv'
  BY <1>1, ViewerInvNext
<1>4. SUFFICES ASSUME TRUE
               PROVE  /\ LiveInv' /\ ControlInv' /\ ReaderInv' /\ PlayedInv' /\ EosInv'
                      /\ SearchesInv' /\ SoughtInv' /\ QueryInv'
  <2>1. ASSUME PlayedInv' PROVE ValidatorInv'
    BY <1>1, <2>1, ValidatorInvNext
  <2> QED BY <1>2, <1>3, <2>1 DEF ViewersInv, ElementInv
<1>5. CASE LiveNext /\ UNCHANGED <<elementVars, viewer>>
  <2>1. LiveInv'
    BY <1>1, <1>5, LiveInvNext
  <2> QED BY <1>1, <1>5, <2>1, LiveKeepsElement
<1>6. CASE UNCHANGED liveVars
  <2> LiveInv'
    BY <1>1, <1>6 DEF LiveInv, StreamInv, StreamTypeOK, NothingTruncated, OffsetsOrdered,
                      NeverEmptied, Readable, liveVars
  <2>1. CASE ElementStep
    BY <1>1, <1>2, <1>6, <2>1, ControlInvNext, ReaderInvNext, PlayedInvNext, EosInvNext,
       SearchesInvNext, SoughtInvNext, QueryInvNext
  <2>2. CASE UNCHANGED <<elementVars, viewer>>
    <3>1. UNCHANGED <<settings, phase, search, reader, request, segmentStart, outcome, played,
                      query>>
      BY <2>2 DEF elementVars
    <3>2. UNCHANGED <<index, dataTail, sealed>>
      BY <1>6 DEF liveVars
    <3>3. ControlInv' /\ ReaderInv' /\ PlayedInv' /\ EosInv'
      BY <1>1, <3>1, <3>2 DEF ControlInv, ReaderInv, PlayedInv, EosInv, AtEnd
    <3>4. SearchesInv' /\ QueryInv'
      BY <1>1, <3>1, <3>2 DEF SearchesInv, QueryInv, RequestedTimestamp, IsInitial
    <3>5. SoughtInv'
      BY <1>1, <3>1, <3>2 DEF SoughtInv, Sought, Result
    <3> QED BY <3>3, <3>4, <3>5
  <2> QED BY <1>6, <2>1, <2>2, ViewersStep
<1> QED BY <1>5, <1>6, ViewersStep

LEMMA ViewersInvHolds == Spec => []ViewersInv
BY ElementInvInit, ElementInvNext, PTL DEF Spec

------------------------------------------------------------------------------
(* What is promised                                                          *)

(* The stream that others read is one of those that VideoStream allows. *)
THEOREM LiveStreamImplementsStream == Spec => StreamSpec
<1>1. Init => StreamInit
  BY DEF Init, LiveInit
<1>2. ViewersInv /\ [Next]_vars => [StreamNext]_streamVars
  <2> SUFFICES ASSUME ViewersInv, [Next]_vars PROVE [StreamNext]_streamVars
    OBVIOUS
  <2>1. StreamTypeOK
    BY DEF ViewersInv, ElementInv, LiveInv, StreamInv
  <2>2. LiveNext \/ UNCHANGED liveVars
    BY ViewersStep
  <2> QED BY <2>1, <2>2, LiveStep DEF liveVars, streamVars
<1> QED BY ViewersInvHolds, <1>1, <1>2, PTL DEF Spec, StreamSpec

(* The element gives whole events, one after another, until somebody seeks: what it
   does is what VideoReader allows, however little a read brings and whenever a seek
   or a stop comes between. *)
THEOREM PlaysInOrderHolds == Spec => PlaysEventsInOrder
<1>1. Init => PlaysInOrder!ReaderInit
  BY AlignedZero DEF Init, SrcInit, PlaysInOrder!ReaderInit, ReaderAt, NothingPlayed
<1>2. ViewersInv /\ [Next]_vars => [PlaysInOrder!ReaderNext]_(PlaysInOrder!readerVars)
  <2> SUFFICES ASSUME ViewersInv, [Next]_vars
               PROVE  [PlaysInOrder!ReaderNext]_(PlaysInOrder!readerVars)
    OBVIOUS
  <2> DEFINE at == EventAt(reader.offset)
  <2>1. /\ LiveInv /\ ControlInv /\ ViewerInv /\ ReaderInv /\ PlayedInv /\ SearchesInv
        /\ ReaderInv'
    BY ElementInvNext DEF ViewersInv, ElementInv
  <2>2. ASSUME reader'.offset = reader.offset, played'.last = played.last,
               request' # NoRequest <=> request # NoRequest
        PROVE  UNCHANGED PlaysInOrder!readerVars
    BY <2>2 DEF PlaysInOrder!readerVars
  <2>3. ASSUME reader'.offset = reader.offset, played'.last = played.last,
               request = NoRequest, request' # NoRequest
        PROVE  PlaysInOrder!BeginFlush
    BY <2>3 DEF PlaysInOrder!BeginFlush
  <2>4. ASSUME request # NoRequest, request' = NoRequest, played' = NothingPlayed
        PROVE  PlaysInOrder!Jump
    <3>1. at' \in Nat \ {0}
      <4>1. reader'.offset \in Nat
        BY <2>1 DEF ReaderInv, Readers
      <4> QED BY <4>1, EventAtHolds
    <3> QED BY <2>4, <3>1 DEF PlaysInOrder!Jump, NothingPlayed
  <2> USE DEF PlaysInOrder!ReaderNext
  <2>5. CASE UNCHANGED <<reader, played, request>>
    BY <2>2, <2>5
  <2>6. ASSUME NEW end, Opened(end), UNCHANGED played, phase = "starting" \/ outcome = "none"
        PROVE  [PlaysInOrder!ReaderNext]_(PlaysInOrder!readerVars)
    BY <2>1, <2>3, <2>6, SomeRequest DEF Opened, ReaderAt, ControlInv
  <2>7. CASE Starting
    <3>1. CASE Start
      BY <2>5, <2>6, <3>1 DEF Start
    <3>2. CASE SearchEnd
      BY <2>5, <2>6, <3>2 DEF SearchEnd
    <3> QED BY <2>7, <3>1, <3>2 DEF Starting
  <2>8. CASE RequestStop \/ \E time \in Nat : RequestSeek(time)
    BY <2>3, <2>8, SomeRequest DEF RequestStop, RequestSeek
  <2>9. CASE Stop
    BY <2>4, <2>9 DEF Stop, NoRequest
  <2>10. CASE SeekHead
    BY <2>1, <2>4, <2>10 DEF SeekHead, SeekDone, ControlInv, NoRequest
  <2>11. CASE SearchIndex
    <3>1. request # NoRequest
      BY <2>1, <2>11 DEF SearchIndex, ControlInv, NoRequest
    <3> QED BY <2>4, <2>5, <2>11, <3>1 DEF SearchIndex, SeekRecord, SeekFails, SeekDone
  <2>12. CASE Fill
    BY <2>1, <2>2, <2>12 DEF Fill, ReaderInv, Readers
  <2>13. CASE Deliver
    <3>1. reader.offset \in Nat /\ reader.inner = reader.offset + reader.buffered
          /\ reader.buffered \in Nat /\ EventSize \in Nat \ {0} /\ reader \in Readers
      BY <2>1, EventsAssumption DEF ReaderInv, Readers
    <3>2. Aligned(reader.offset) /\ Consumed(reader) = reader.offset
      BY <2>1, <2>13, <3>1 DEF Deliver, HasEvent, ReaderInv, AtEnd, Consumed
    <3>3. reader'.offset = reader.offset + EventSize
      BY <2>13, <3>1 DEF Deliver, Readers
    <3>4. at' = at + 1
      BY <3>1, <3>2, <3>3, AlignedNext
    <3>5. CASE request = NoRequest
      <4>1. played'.last = at /\ at # 0
        BY <2>13, <3>1, <3>2, <3>5, EventAtHolds DEF Deliver
      <4>2. at \in Events
        <5>1. PlayedInv'
          BY ElementInvNext DEF ViewersInv, ElementInv
        <5> QED BY <4>1, <5>1 DEF PlayedInv
      <4>3. PlaysInOrder!Play
        BY <2>13, <3>4, <3>5, <4>1, <4>2 DEF PlaysInOrder!Play, Deliver
      <4> QED BY <4>3
    <3>6. CASE request # NoRequest
      <4>1. PlaysInOrder!Discard
        BY <2>13, <3>4, <3>6 DEF PlaysInOrder!Discard, Deliver
      <4> QED BY <4>1
    <3> QED BY <3>5, <3>6
  <2>14. CASE UpdateSlider
    BY <2>2, <2>3, <2>14, SomeRequest DEF UpdateSlider
  <2>15. CASE SetProperty \/ BeginSeek \/ BeginSearch \/ BeginCreate \/ EndOfStream \/ ReadFails
    BY <2>5, <2>15
       DEF SetProperty, BeginSeek, BeginSearch, BeginCreate, EndOfStream, ReadFails
  <2>16. CASE BeginQuery \/ ReadQuery \/ AnswerQuery
    BY <2>5, <2>16 DEF BeginQuery, ReadQuery, AnswerQuery
  <2>17. CASE UNCHANGED elementVars
    BY <2>5, <2>17 DEF elementVars
  <2> QED BY <2>7, <2>8, <2>9, <2>10, <2>11, <2>12, <2>13, <2>14, <2>15, <2>16, <2>17, ViewersStep
          DEF ElementStep, Seeking, Creating
<1> QED BY ViewersInvHolds, <1>1, <1>2, PTL
        DEF Spec, PlaysEventsInOrder, PlaysInOrder!ReaderSpec

(* The end of the stream is announced only when no whole event is left before it. *)
THEOREM EosIsCompleteHolds == Spec => []EosIsComplete
<1>1. ViewersInv => EosIsComplete
  <2> SUFFICES ASSUME ViewersInv PROVE EosIsComplete
    OBVIOUS
  <2>1. Consumed(reader) = reader.offset
    BY DEF ViewersInv, ElementInv, ReaderInv, Readers, Consumed
  <2> QED BY <2>1 DEF ViewersInv, ElementInv, EosInv, EosIsComplete
<1> QED BY ViewersInvHolds, <1>1, PTL

(* A seek that the index answers begins at the record nearest before the time asked
   for, and leaves out no event of the segment which can be played, although the
   index changes while it is searched. *)
THEOREM SeekSkipsNothingHolds == Spec => []SeekSkipsNothing
<1>1. ViewersInv => SeekSkipsNothing
  <2> DEFINE i == Result(search)  f == played.first
  <2> SUFFICES ASSUME ViewersInv, SoughtAndPlaying
               PROVE  /\ EventBegin(f) = index[i].offset
                      /\ index[i].timestamp <= search.key.value \/ i = search.from
                      /\ \A j \in i + 1 .. search.to : search.key.value <= index[j].timestamp
                      /\ \A k \in 1 .. f - 1 :
                           EventTimes[k] >= segmentStart =>
                             EventBegin(k) < index[search.from].offset
    BY DEF SeekSkipsNothing
  <2>1. /\ LiveInv /\ ControlInv /\ PlayedInv /\ SearchesInv /\ SoughtInv
    BY DEF ViewersInv, ElementInv
  <2>2. Sought /\ f # 0
    BY <2>1 DEF SoughtAndPlaying, Sought, ControlInv, NothingPlayed
  <2>3. /\ search.method = Before /\ segmentStart \in {search.key.value, index[i].timestamp}
        /\ EventBegin(f) = index[i].offset
    BY <2>1, <2>2 DEF SoughtInv
  <2>4. /\ NearestInv(search, index) /\ search.key.kind = "timestamp" /\ search.key.value \in Nat
        /\ IsNearest(search, index)
    BY <2>1, <2>2 DEF SearchesInv, TimeKeys, NearestInv, Sought
  <2>5. /\ i \in 1 .. Len(index) /\ Len(index) \in Nat
        /\ search.from \in Nat /\ search.to \in Nat /\ 1 <= search.from /\ search.to <= Len(index)
    BY <2>1, <2>2, <2>4, FoundRecord, LiveTypes DEF Sought, LiveInv, StreamInv
  <2>6. index[i] \in Records /\ index[i].timestamp \in Nat
    BY <2>1, <2>5, LiveFacts
  <2>7. index[i].timestamp <= search.key.value \/ i = search.from
    <3>1. i # search.from => ~IsOlderThan(search, index[i])
      BY <2>3, <2>4 DEF IsNearest
    <3> QED BY <2>4, <2>6, <3>1 DEF IsOlderThan
  <2>8. ASSUME NEW j \in i + 1 .. search.to
        PROVE  search.key.value <= index[j].timestamp
    <3>1. ~IsNewerThan(search, index[j])
      BY <2>3, <2>4 DEF IsNearest
    <3>2. j \in 1 .. Len(index)
      BY <2>5
    <3>3. index[j].timestamp \in Nat
      BY <2>1, <3>2, LiveFacts
    <3> QED BY <2>4, <3>1, <3>3 DEF IsNewerThan
  <2>9. ASSUME NEW k \in 1 .. f - 1, EventTimes[k] >= segmentStart
        PROVE  EventBegin(k) < index[search.from].offset
    <3>1. f \in Events /\ f \in Nat \ {0}
      BY <2>1, <2>2, EventTypes DEF PlayedInv
    <3>2. k \in Events /\ k \in Nat \ {0} /\ k < f
      BY <3>1, EventsAssumption DEF Events
    <3>3. EventBegin(k) < EventBegin(f)
      <4>1. EventBegin(k) + EventSize <= EventBegin(f) /\ EventSize \in Nat \ {0}
        BY <3>1, <3>2, EventsAreApart, EventsAssumption
      <4> QED BY <3>1, <3>2, <4>1, EventArithmetic
    <3>4. EventTimes[k] < index[i].timestamp /\ EventTimes[k] \in Nat
      BY <2>3, <2>6, <3>2, <3>3, RecordTypes, EventTypes
    <3>5. segmentStart = search.key.value /\ i = search.from
      BY <2>3, <2>4, <2>6, <2>7, <2>9, <3>4
    <3> QED BY <2>3, <3>3, <3>5
  <2> QED BY <2>3, <2>7, <2>8, <2>9
<1> QED BY ViewersInvHolds, <1>1, PTL

(* The slider of the player is within its range, whatever the two searches of a query
   find. *)
THEOREM SliderIsInRangeHolds == Spec => []SliderIsInRange
<1>1. ViewersInv => SliderIsInRange
  BY DEF ViewersInv, SliderInv
<1> QED BY ViewersInvHolds, <1>1, PTL

(* The longevity test counts every gap and every discontinuity between the events
   that it was given, and no other. *)
THEOREM WarningsAreTrueHolds == Spec => []WarningsAreTrue
<1>1. ViewersInv => WarningsAreTrue
  BY DEF ViewersInv, ValidatorInv, WarningsAreTrue, CheckerInit
<1> QED BY ViewersInvHolds, <1>1, PTL
============================================================================
