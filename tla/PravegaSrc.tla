----------------------------- MODULE PravegaSrc -----------------------------
(***************************************************************************)
(* gst-plugin-pravega/src/pravegasrc/imp.rs: the element that plays a      *)
(* video stream, while the stream is written, truncated and sealed.        *)
(*                                                                         *)
(* Three threads enter the element.  The application's starts it, seeks    *)
(* and stops it; the streaming thread of GstBaseSrc calls create in a      *)
(* loop; any thread may ask which times can be seeked to.  GstBaseSrc lets *)
(* a seek or a stop in only when create is not running, and has no way to  *)
(* interrupt it: unlock is not implemented.  What is read while a seek or  *)
(* a stop is waiting is discarded.                                         *)
(*                                                                         *)
(* reader and index_searcher are behind mutexes that are held through the  *)
(* I/O: create holds reader, do_seek holds both, query index_searcher.     *)
(*                                                                         *)
(* MaxAsks bounds how often the application seeks or queries.  The element *)
(* is started once.                                                        *)
(***************************************************************************)
EXTENDS LiveStream, IndexSearcher

CONSTANTS
  SrcSettings,   (* the settings: start_mode, end_mode and timestamps      *)
  SeekTimes,     (* the times the application seeks to                     *)
  MaxTimestamp,  (* PravegaTimestamp::MAX                                  *)
  MaxAsks        (* how often the application seeks or queries             *)

StartModes == {"no-seek", "earliest", "latest", "timestamp", "timestamp-exact"}
EndModes   == {"unbounded", "latest", "latest-indexed", "timestamp"}

ASSUME SrcAssumption ==
  /\ SrcSettings \subseteq [start_mode : StartModes, end_mode : EndModes,
                            start_timestamp : Nat, end_timestamp : Nat]
  /\ SeekTimes \subseteq Nat
  /\ MaxTimestamp \in Nat
  /\ \A k \in Events : EventTimes[k] \in 1 .. MaxTimestamp
  /\ \A r \in Records : r.timestamp \in 1 .. MaxTimestamp
  /\ MaxAsks \in Nat

Unbounded == EventEnd(Len(EventTimes)) + 1   \* stands for u64::MAX

VARIABLES
  settings,     (* as configured before the element starts                 *)
  phase,        (* what the element and its streaming thread are doing     *)
  search,       (* the last search of the index                            *)
  reader,       (* the three readers of the data stream: see ReaderAt      *)
  request,      (* a seek or a stop that waits for the streaming thread    *)
  segmentStart, (* the start of the segment, from the last seek            *)
  outcome,      (* how far playing has come                                *)
  played,       (* the first and last event played since the last seek     *)
  query,        (* a query for the range of times that can be seeked to    *)
  asksLeft      (* bounds what the application asks for                    *)

elementVars == <<settings, phase, search, reader, request, segmentStart, outcome,
                 played, query>>

srcVars == <<elementVars, asksLeft>>

Phases == {"stopped", "starting", "idle", "locking", "seeking", "looping",
           "creating", "panicked"}

Outcomes == {"none", "starting", "playing", "eos", "error"}

NoRequest == [kind |-> "none", time |-> 0]

Requests == [kind : {"none", "seek", "stop"}, time : Nat]

(***************************************************************************)
(* A CountingReader of a BufReader of a SeekableTake: inner is the         *)
(* position in the stream, which the SeekableTake keeps from passing end;  *)
(* buffered bytes before it have been read ahead; the CountingReader takes *)
(* the rest to be at offset.                                               *)
(***************************************************************************)
Readers == [end : Nat, inner : Nat, buffered : Nat, offset : Nat]

ReaderAt(end, o) == [end |-> end, inner |-> o, buffered |-> 0, offset |-> o]

(* A wrong version: the BufReader keeps what it has read ahead. *)
SeekToInner(r, o) ==
  [r EXCEPT !.inner = IF o <= r.end THEN o ELSE r.end,
            !.offset = IF o <= r.end THEN o ELSE r.end]

(* SeekableTake: the limit is the end, and BufReader drops what it holds. *)
SeekTo(r, o) == ReaderAt(r.end, IF o <= r.end THEN o ELSE r.end)

(* How much of the stream has been consumed. *)
Consumed(r) == r.inner - r.buffered

(* Settings::default; end_timestamp is u64::MAX. *)
Default == [start_mode |-> "earliest", end_mode |-> "unbounded",
            start_timestamp |-> 0, end_timestamp |-> MaxTimestamp]

SrcTypeOK ==
  /\ settings \in SrcSettings \cup {Default}
  /\ phase \in Phases
  /\ search \in Search([kind : {"timestamp"}, value : Nat])
  /\ reader \in Readers
  /\ request \in Requests
  /\ segmentStart \in Nat
  /\ outcome \in Outcomes
  /\ played \in [first : Events \cup {0}, last : Events \cup {0}]
  /\ query \in [step : {"none", "first", "last", "done"},
                search : Search([kind : {"timestamp"}, value : Nat]),
                start : Nat, end : Nat]
  /\ asksLeft \in 0 .. MaxAsks

NothingPlayed == [first |-> 0, last |-> 0]

NoSearch == NewSearch(ByTime(0), Before)

NoQuery == [step |-> "none", search |-> NoSearch, start |-> 0, end |-> 0]

SrcInit ==
  /\ settings = Default
  /\ phase = "stopped"
  /\ search = NoSearch
  /\ reader = ReaderAt(Unbounded, 0)
  /\ request = NoRequest
  /\ segmentStart = 0
  /\ outcome = "none"
  /\ played = NothingPlayed
  /\ query = NoQuery
  /\ asksLeft = MaxAsks

-----------------------------------------------------------------------------
(* Starting *)

(* set_property, once for each property, before the element starts. *)
SetProperty ==
  /\ phase = "stopped" /\ outcome = "none"
  /\ settings' \in SrcSettings
  /\ UNCHANGED <<phase, search, reader, request, segmentStart, outcome, played,
                 query>>

(* A wrong version: the stream is read without its end. *)
OpenedUnbounded(end) ==
  /\ reader' = ReaderAt(Unbounded, 0)
  /\ phase' = "idle"
  /\ request' = [kind |-> "seek", time |-> 0]

(* start is done; GstBaseSrc makes its first seek, to time 0. *)
Opened(end) ==
  /\ reader' = ReaderAt(end, 0)
  /\ phase' = "idle"
  /\ request' = [kind |-> "seek", time |-> 0]

(* start: the end of the stream is found in the index, or as it is now. *)
Start ==
  /\ phase = "stopped" /\ outcome = "none"
  /\ outcome' = "starting"
  /\ \/ /\ settings.end_mode = "unbounded"
        /\ Opened(Unbounded)
        /\ UNCHANGED search
     \/ /\ settings.end_mode = "latest"
        /\ Opened(dataTail)
        /\ UNCHANGED search
     \/ /\ settings.end_mode = "latest-indexed"
        /\ phase' = "starting"
        /\ search' = NewSearch(ByTime(MaxTimestamp), Before)
        /\ UNCHANGED <<reader, request>>
     \/ /\ settings.end_mode = "timestamp"
        /\ phase' = "starting"
        /\ search' = NewSearch(ByTime(settings.end_timestamp), After)
        /\ UNCHANGED <<reader, request>>
  /\ UNCHANGED <<settings, segmentStart, played, query>>

(* unwrap: an index that cannot be searched ends the element. *)
SearchEnd ==
  /\ phase = "starting"
  /\ search' = ReadNext(search, indexHead, index)
  /\ CASE search'.step = "found"  -> Opened(index[Result(search')].offset)
       [] search'.step = "failed" -> phase' = "panicked" /\ UNCHANGED <<reader, request>>
       [] OTHER                   -> UNCHANGED <<phase, reader, request>>
  /\ UNCHANGED <<settings, segmentStart, outcome, played, query>>

-----------------------------------------------------------------------------
(* What the application asks for *)

Started == phase \notin {"stopped", "starting", "panicked"}

RequestSeek(time) ==
  /\ Started /\ request = NoRequest /\ outcome \in {"playing", "eos"}
  /\ request' = [kind |-> "seek", time |-> time]
  /\ UNCHANGED <<settings, phase, search, reader, segmentStart, outcome, played,
                 query>>

RequestStop ==
  /\ Started /\ request = NoRequest
  /\ request' = [kind |-> "stop", time |-> 0]
  /\ UNCHANGED <<settings, phase, search, reader, segmentStart, outcome, played,
                 query>>

(* stop, after the streaming thread has ended. *)
Stop ==
  /\ phase \in {"idle", "looping"} /\ request.kind = "stop"
  /\ phase' = "stopped"
  /\ request' = NoRequest
  /\ played' = NothingPlayed
  /\ UNCHANGED <<settings, search, reader, segmentStart, outcome, query>>

-----------------------------------------------------------------------------
(* do_seek *)

(* A seek to time 0 is taken for the one GstBaseSrc makes first. *)
IsInitial == request.time = 0

(* What is searched for. *)
RequestedTimestamp ==
  IF ~IsInitial THEN request.time
  ELSE CASE settings.start_mode = "earliest" -> 0
         [] settings.start_mode = "latest"   -> MaxTimestamp
         [] OTHER                            -> settings.start_timestamp

(* A wrong version: only a streaming thread that runs is stopped for a seek. *)
BeginSeekWhenLooping ==
  /\ phase = "looping" /\ request.kind = "seek"
  /\ phase' = "locking"
  /\ UNCHANGED <<settings, search, reader, request, segmentStart, outcome,
                 played, query>>

(* do_seek takes the lock of reader... *)
BeginSeek ==
  /\ phase \in {"idle", "looping"} /\ request.kind = "seek"
  /\ phase' = "locking"
  /\ UNCHANGED <<settings, search, reader, request, segmentStart, outcome,
                 played, query>>

SearcherIsFree == query.step \in {"none", "done"}

(* The streaming thread is started again, also after a seek that failed. *)
SeekDone ==
  /\ phase' = "looping"
  /\ outcome' = "playing"
  /\ request' = NoRequest
  /\ played' = NothingPlayed

(* ...and that of index_searcher.  With no-seek the index is not used. *)
SeekHead ==
  /\ phase = "locking" /\ SearcherIsFree
  /\ IsInitial /\ settings.start_mode = "no-seek"
  /\ reader' = SeekTo(reader, dataHead)
  /\ segmentStart' = 0
  /\ search' = NoSearch
  /\ SeekDone
  /\ UNCHANGED <<settings, query>>

(* A wrong version: playing begins at the record after the requested time. *)
BeginSearchAfter ==
  /\ phase = "locking" /\ SearcherIsFree
  /\ ~(IsInitial /\ settings.start_mode = "no-seek")
  /\ phase' = "seeking"
  /\ search' = NewSearch(ByTime(RequestedTimestamp), After)
  /\ UNCHANGED <<settings, reader, request, segmentStart, outcome, played,
                 query>>

BeginSearch ==
  /\ phase = "locking" /\ SearcherIsFree
  /\ ~(IsInitial /\ settings.start_mode = "no-seek")
  /\ phase' = "seeking"
  /\ search' = NewSearch(ByTime(RequestedTimestamp), Before)
  /\ UNCHANGED <<settings, reader, request, segmentStart, outcome, played,
                 query>>

(* The record is found: the segment and the reader are set from it. *)
SeekRecord(record) ==
  /\ segmentStart' = IF settings.start_mode = "timestamp-exact"
                       THEN RequestedTimestamp ELSE record.timestamp
  /\ reader' = SeekTo(reader, record.offset)
  /\ SeekDone

(* The element does not become active if its first seek fails. *)
SeekFails ==
  /\ IF outcome = "starting"
       THEN /\ phase' = "stopped"
            /\ outcome' = "error"
            /\ request' = NoRequest
            /\ played' = NothingPlayed
       ELSE SeekDone
  /\ UNCHANGED <<segmentStart, reader>>

SearchIndex ==
  /\ phase = "seeking"
  /\ search' = ReadNext(search, indexHead, index)
  /\ CASE search'.step = "found"  -> SeekRecord(index[Result(search')])
       [] search'.step = "failed" -> SeekFails
       [] OTHER -> UNCHANGED <<phase, outcome, request, played, segmentStart, reader>>
  /\ UNCHANGED <<settings, query>>

-----------------------------------------------------------------------------
(* create *)

(* The loop of GstBaseSrc pauses when a seek or a stop is waiting. *)
BeginCreate ==
  /\ phase = "looping" /\ request = NoRequest
  /\ phase' = "creating"
  /\ UNCHANGED <<settings, search, reader, request, segmentStart, outcome,
                 played, query>>

(* A wrong version: read instead of read_exact. *)
HasPartOfEvent == reader.buffered > 0

(* A whole event has been read. *)
HasEvent == reader.buffered >= EventSize

(* The reader has to wait for the writer. *)
AtTail == phase = "creating" /\ ~HasEvent /\ ~sealed
          /\ reader.inner = dataTail /\ reader.inner < reader.end

(* read_exact needs more than the BufReader holds: any part of the rest. *)
Fill ==
  /\ phase = "creating" /\ ~HasEvent
  /\ reader.inner < reader.end /\ reader.inner >= dataHead
  /\ \E o \in reader.inner + 1 .. dataTail :
       /\ o <= reader.end
       /\ reader' = [reader EXCEPT !.inner = o,
                                   !.buffered = @ + o - reader.inner]
  /\ UNCHANGED <<settings, phase, search, request, segmentStart, outcome,
                 played, query>>

(* A wrong version: the tail is taken for the end of the stream. *)
EndOfStreamAtTail ==
  /\ phase = "creating" /\ ~HasEvent
  /\ \/ reader.inner >= reader.end
     \/ reader.inner = dataTail /\ reader.inner >= dataHead
  /\ phase' = "idle"
  /\ outcome' = "eos"
  /\ UNCHANGED <<settings, search, reader, request, segmentStart, played,
                 query>>

(* UnexpectedEof: the limit of SeekableTake, or the end of a sealed stream. *)
EndOfStream ==
  /\ phase = "creating" /\ ~HasEvent
  /\ \/ reader.inner >= reader.end
     \/ sealed /\ reader.inner = dataTail /\ reader.inner >= dataHead
  /\ phase' = "idle"
  /\ outcome' = "eos"
  /\ UNCHANGED <<settings, search, reader, request, segmentStart, played,
                 query>>

(* Any other error: what was to be read has been truncated. *)
ReadFails ==
  /\ phase = "creating" /\ ~HasEvent
  /\ reader.inner < reader.end /\ reader.inner < dataHead
  /\ phase' = "idle"
  /\ outcome' = "error"
  /\ UNCHANGED <<settings, search, reader, request, segmentStart, played,
                 query>>

(* The buffer goes downstream, unless a seek or a stop is waiting. *)
Deliver ==
  /\ phase = "creating" /\ HasEvent
  /\ reader' = [reader EXCEPT !.buffered = @ - EventSize, !.offset = @ + EventSize]
  /\ LET k == EventAt(Consumed(reader))
     IN IF request = NoRequest
          THEN /\ phase' = "looping"
               /\ played' = [first |-> IF played.first = 0 THEN k ELSE played.first,
                             last  |-> k]
          ELSE /\ phase' = "idle"
               /\ UNCHANGED played
  /\ UNCHANGED <<settings, search, request, segmentStart, outcome, query>>

-----------------------------------------------------------------------------
(* query *)

BeginQuery ==
  /\ Started /\ phase # "seeking"
  /\ SearcherIsFree
  /\ query' = [NoQuery EXCEPT !.step = "first"]
  /\ UNCHANGED <<settings, phase, search, reader, request, segmentStart, outcome,
                 played>>

(* A wrong version: the last record is found first. *)
ReadQueryLastFirst ==
  /\ query.step \in {"first", "last"}
  /\ LET s == ReadNext(IF query.step = "first" /\ query.search = NoSearch
                         THEN NewSearch(ByTime(MaxTimestamp), Before)
                         ELSE query.search, indexHead, index)
     IN query' =
          CASE s.step = "failed" -> NoQuery
            [] s.step = "found" /\ query.step = "first" ->
                 [query EXCEPT !.step = "last", !.end = index[Result(s)].timestamp,
                               !.search = NoSearch]
            [] s.step = "found" /\ query.step = "last" ->
                 [query EXCEPT !.step = "done", !.start = index[Result(s)].timestamp,
                               !.search = NoSearch]
            [] OTHER -> [query EXCEPT !.search = s]
  /\ UNCHANGED <<settings, phase, search, reader, request, segmentStart, outcome,
                 played>>

(* get_first_record, then get_last_record, while the index changes. *)
ReadQuery ==
  /\ query.step \in {"first", "last"}
  /\ LET s == ReadNext(query.search, indexHead, index)
     IN query' =
          CASE s.step = "failed" -> NoQuery
            [] s.step = "found" /\ query.step = "first" ->
                 [query EXCEPT !.step = "last", !.start = index[Result(s)].timestamp,
                               !.search = NewSearch(ByTime(MaxTimestamp), Before)]
            [] s.step = "found" /\ query.step = "last" ->
                 [query EXCEPT !.step = "done", !.end = index[Result(s)].timestamp,
                               !.search = NoSearch]
            [] OTHER -> [query EXCEPT !.search = s]
  /\ UNCHANGED <<settings, phase, search, reader, request, segmentStart, outcome,
                 played>>

(* The range is set in the query. *)
AnswerQuery ==
  /\ query.step = "done"
  /\ query' = NoQuery
  /\ UNCHANGED <<settings, phase, search, reader, request, segmentStart, outcome,
                 played>>

-----------------------------------------------------------------------------

Seeking == BeginSeek \/ SeekHead \/ BeginSearch \/ SearchIndex

Creating == BeginCreate \/ Fill \/ EndOfStream \/ ReadFails \/ Deliver

Starting == Start \/ SearchEnd

(* What the element does, whoever uses it... *)
ElementNext == Starting \/ Seeking \/ Creating \/ Stop \/ ReadQuery

Ask == asksLeft > 0 /\ asksLeft' = asksLeft - 1

(* ...and an application that may ask for anything at any time. *)
SrcNext ==
  \/ (SetProperty \/ ElementNext \/ RequestStop \/ AnswerQuery) /\ UNCHANGED asksLeft
  \/ Ask /\ \E time \in SeekTimes : RequestSeek(time)
  \/ Ask /\ BeginQuery

-----------------------------------------------------------------------------
(***************************************************************************)
(* What the element plays is an ordered run of whole events from the last  *)
(* seek on, whatever the writer and truncation do and however a read ahead *)
(* was cut short by the end of the stream, by a seek or by a stop.  The    *)
(* offset it gives a buffer is that of its event, although CountingReader  *)
(* does not see how far the reader below has read ahead.                   *)
(***************************************************************************)
PlaysInOrder ==
  INSTANCE VideoReader WITH Played   <- Events,
                            at       <- EventAt(reader.offset),
                            out      <- played.last,
                            flushing <- request # NoRequest

PlaysEventsInOrder == PlaysInOrder!ReaderSpec

(***************************************************************************)
(* After a seek by the index playing begins where a record points to, and  *)
(* it is the right one: not later than what was asked for if the index     *)
(* goes back that far, with no record in between.  No event of the segment *)
(* that comes after the first record of the index is left out.  All of     *)
(* this although the search reads an index that changes and the settings   *)
(* decide where the segment begins.                                        *)
(***************************************************************************)
SoughtAndPlaying == played.first # 0 /\ search.step = "found" /\ phase # "seeking"

SeekSkipsNothing ==
  SoughtAndPlaying =>
    /\ EventBegin(played.first) = index[Result(search)].offset
    /\ index[Result(search)].timestamp <= search.key.value \/ Result(search) = search.from
    /\ \A j \in Result(search) + 1 .. search.to : search.key.value <= index[j].timestamp
    /\ \A k \in 1 .. played.first - 1 :
         EventTimes[k] >= segmentStart => EventBegin(k) < index[search.from].offset

(***************************************************************************)
(* The modes "timestamp" and "timestamp-exact" promise to start at the     *)
(* random-access point on or immediately before the time asked for, and    *)
(* "latest" at the most recent one.  They do not: a forced record at a     *)
(* delta unit, or a final record with a later session's first event behind *)
(* it, is taken for one.  A viewer asked for a frame that can be decoded,  *)
(* and the index has a record of one, but playing does not begin there.    *)
(***************************************************************************)
StartsAtRandomAccessPoint ==
  /\ SoughtAndPlaying
  /\ \E i \in search.from .. search.to :
       index[i].randomAccess /\ index[i].timestamp <= search.key.value
  => index[Result(search)].randomAccess

(***************************************************************************)
(* The end of the stream is announced only when every whole event up to    *)
(* the configured end, or to the end of the sealed stream, was read.       *)
(***************************************************************************)
EosIsComplete ==
  outcome = "eos" =>
    LET next == EventEnd(EventAt(Consumed(reader)))
    IN next > reader.end \/ (sealed /\ next > dataTail)

(***************************************************************************)
(* A seek or a stop is carried out, unless create waits at the tail of the *)
(* stream for a writer that may be gone: create cannot be interrupted.     *)
(***************************************************************************)
RequestsAreServed == request # NoRequest ~> (request = NoRequest \/ AtTail)

(***************************************************************************)
(* An element that is told where to end never waits for the writer: it     *)
(* comes to that end, to an error or to a stop by what is in the stream.   *)
(***************************************************************************)
BoundedPlayEnds ==
  (outcome = "starting" /\ settings.end_mode # "unbounded") ~>
    (outcome \in {"eos", "error"} \/ phase \in {"stopped", "panicked"})

==============================================================================
