----------------------------- MODULE VideoServer -----------------------------
(***************************************************************************)
(* pravega-video-server/src/main.rs: the HTTP server that lets a browser   *)
(* play a video stream by HLS, while the stream is written and truncated.  *)
(* A playlist is made from the index: one segment for each two consecutive *)
(* records, or a short filler where there is a gap between the two.  The   *)
(* browser asks for the playlist again and again, and for the segments the *)
(* last one named.                                                         *)
(*                                                                         *)
(* A request that fails is one that the browser gets no answer to: errors  *)
(* are unwrapped.  MaxRequests bounds how often the browser asks for       *)
(* anything.                                                               *)
(***************************************************************************)
EXTENDS LiveStream, IndexSearcher

CONSTANTS
  Ranges,         (* the ranges of time a browser plays                    *)
  MaxDuration,    (* a longer time between two records may be taken for a  *)
                  (* gap, depending on target_duration_seconds, an average *)
  MaxRequests

ASSUME ServerAssumption ==
  /\ Ranges \subseteq {range \in [begin : Nat, end : Nat] : range.begin <= range.end}
  /\ MaxDuration \in Nat
  /\ MaxRequests \in Nat

VARIABLES
  range,        (* the query parameters of the playlist's URL              *)
  playlist,     (* get_m3u8_playlist, as far as it has come                *)
  shown,        (* the last playlist the browser got                       *)
  media,        (* get_media_segment, as far as it has come                *)
  requestsLeft

serverVars == <<range, playlist, shown, media, requestsLeft>>

Gap == [begin |-> 1, end |-> 0]    \* "/static/gap-5s.mp4"

(* A segment between a final record and the next session's first is empty. *)
Segments == [begin : Offsets, end : Offsets] \cup {Gap}

(* A playlist begins with media sequence number sequence. *)
NoPlaylist == [sequence |-> 0, segments |-> << >>, endlist |-> FALSE]

NoMedia == [step |-> "none", begin |-> 0, end |-> 0, at |-> 0, chunks |-> << >>]

Idle(p) == p.step \in {"none", "failed"}

NothingFound == NewSearch(ByTime(0), After)

NotAsked(step) ==
  [step |-> step, search |-> NothingFound, first |-> 0, last |-> 0, next |-> 0,
   made |-> NoPlaylist, known |-> [from |-> 0, to |-> 0]]

Playlists == [sequence : Nat, segments : Seq(Segments), endlist : BOOLEAN]

ServerTypeOK ==
  /\ range \in Ranges
  /\ shown \in Playlists
  /\ playlist \in
       [step : {"none", "begin", "end", "read", "failed"},
        search : Search([kind : {"timestamp"}, value : Nat]),
        first : Nat, last : Nat, next : Nat, made : Playlists,
        known : [from : Nat, to : Nat]]
  /\ media \in [step : {"none", "reading", "done", "failed"}, begin : Offsets,
                end : Offsets, at : Offsets, chunks : Seq(Events)]
  /\ requestsLeft \in 0 .. MaxRequests

ServerInit ==
  /\ range \in Ranges
  /\ playlist = NotAsked("none")
  /\ shown = NoPlaylist
  /\ media = NoMedia
  /\ requestsLeft = MaxRequests

-----------------------------------------------------------------------------
(* get_m3u8_playlist *)

AskPlaylist ==
  /\ Idle(playlist) /\ requestsLeft > 0 /\ ~shown.endlist
  /\ requestsLeft' = requestsLeft - 1
  /\ playlist' = [playlist EXCEPT !.step = "begin",
                                  !.search = NewSearch(ByTime(range.begin), After)]
  /\ UNCHANGED <<range, shown, media>>

PlaylistFails == playlist' = NotAsked("failed")

(* The first record on or after the begin of the range; known is history. *)
SearchBegin ==
  /\ playlist.step = "begin"
  /\ LET s == ReadNext(playlist.search, indexHead, index)
     IN CASE s.step = "failed" -> PlaylistFails
          [] s.step = "found" ->
               playlist' = [playlist EXCEPT
                              !.step = "end", !.first = Result(s),
                              !.known = [from |-> s.from, to |-> s.to],
                              !.search = NewSearch(ByTime(range.end), After)]
          [] OTHER -> playlist' = [playlist EXCEPT !.search = s]
  /\ UNCHANGED <<range, shown, media, requestsLeft>>

(* Wrong versions: the last record is left out; a playlist counts from 0;   *)
(* it is the last as soon as the range has begun.                            *)
EndFoundShort(s) ==
  [playlist EXCEPT
     !.step = "read", !.last = Result(s) - 1, !.next = playlist.first,
     !.search = NothingFound,
     !.made = [sequence |-> playlist.first - 1, segments |-> << >>,
               endlist |-> index[Result(s)].timestamp >= range.end]]

EndFoundFromZero(s) ==
  [playlist EXCEPT
     !.step = "read", !.last = Result(s), !.next = playlist.first,
     !.search = NothingFound,
     !.made = [sequence |-> 0, segments |-> << >>,
               endlist |-> index[Result(s)].timestamp >= range.end]]

EndFoundEarly(s) ==
  [playlist EXCEPT
     !.step = "read", !.last = Result(s), !.next = playlist.first,
     !.search = NothingFound,
     !.made = [sequence |-> playlist.first - 1, segments |-> << >>,
               endlist |-> index[Result(s)].timestamp >= range.begin]]

(***************************************************************************)
(* The first record on or after the end of the range, if there is one: the *)
(* playlist will not grow.  Reading of the index begins at the first one,  *)
(* whose number is the first media sequence number.                        *)
(***************************************************************************)
EndFound(s) ==
  [playlist EXCEPT
     !.step = "read", !.last = Result(s), !.next = playlist.first,
     !.search = NothingFound,
     !.made = [sequence |-> playlist.first - 1, segments |-> << >>,
               endlist |-> index[Result(s)].timestamp >= range.end]]

SearchEndOfRange ==
  /\ playlist.step = "end"
  /\ LET s == ReadNext(playlist.search, indexHead, index)
     IN CASE s.step = "failed" -> PlaylistFails
          [] s.step = "found"  -> playlist' = EndFound(s)
          [] OTHER             -> playlist' = [playlist EXCEPT !.search = s]
  /\ UNCHANGED <<range, shown, media, requestsLeft>>

(* A rewind is a gap; so is a time much longer than those before it. *)
IsGap(previous, record) ==
  IF record.timestamp < previous.timestamp THEN {TRUE}
  ELSE IF record.timestamp - previous.timestamp > MaxDuration THEN BOOLEAN
  ELSE {FALSE}

(* The entry made of a record and the one before it. *)
Entries(i) ==
  IF i = playlist.first THEN {<< >>}
  ELSE {IF gap THEN <<Gap>>
               ELSE <<[begin |-> index[i - 1].offset, end |-> index[i].offset]>>
          : gap \in IsGap(index[i - 1], index[i])}

(* A wrong version: a record that has been truncated is waited for. *)
ReadRecordWaits ==
  /\ playlist.step = "read" /\ playlist.next <= playlist.last
  /\ CanRead(playlist.next, indexHead, index)
  /\ \E entry \in Entries(playlist.next) :
       playlist' = [playlist EXCEPT !.next = @ + 1, !.made.segments = @ \o entry]
  /\ UNCHANGED <<range, shown, media, requestsLeft>>

(* One record is read; one that has been truncated ends the request. *)
ReadRecord ==
  /\ playlist.step = "read" /\ playlist.next <= playlist.last
  /\ LET i == playlist.next
     IN IF ~CanRead(i, indexHead, index) THEN PlaylistFails
        ELSE \E entry \in Entries(i) :
               playlist' = [playlist EXCEPT !.next = i + 1,
                                            !.made.segments = @ \o entry]
  /\ UNCHANGED <<range, shown, media, requestsLeft>>

(* UnexpectedEof with limit 0: the playlist is sent. *)
AnswerPlaylist ==
  /\ playlist.step = "read" /\ playlist.next > playlist.last
  /\ playlist' = NotAsked("none")
  /\ shown' = playlist.made
  /\ UNCHANGED <<range, media, requestsLeft>>

-----------------------------------------------------------------------------
(* get_media_segment *)

(* The browser asks for a segment of the playlist it has. *)
AskMedia(i) ==
  /\ media.step # "reading" /\ requestsLeft > 0
  /\ shown.segments[i] # Gap
  /\ requestsLeft' = requestsLeft - 1
  /\ LET segment == shown.segments[i]
     IN media' = [step |-> "reading", begin |-> segment.begin, end |-> segment.end,
                  at |-> segment.begin, chunks |-> << >>]
  /\ UNCHANGED <<range, playlist, shown>>

(* A wrong version: what has been truncated is skipped. *)
ReadMediaFromHead ==
  /\ media.step = "reading" /\ media.at < media.end
  /\ \/ /\ media.at < dataHead
        /\ media' = [media EXCEPT !.at = dataHead]
     \/ /\ media.at >= dataHead
        /\ media.at + EventSize <= dataTail
        /\ media' = [media EXCEPT !.at = @ + EventSize,
                                  !.chunks = Append(@, EventAt(media.at))]
  /\ UNCHANGED <<range, playlist, shown, requestsLeft>>

(* Every event up to the end is read; the data may be truncated by then. *)
ReadMedia ==
  /\ media.step = "reading" /\ media.at < media.end
  /\ \/ /\ media.at < dataHead
        /\ media' = [media EXCEPT !.step = "failed"]
     \/ /\ media.at >= dataHead
        /\ media.at + EventSize <= dataTail
        /\ media' = [media EXCEPT !.at = @ + EventSize,
                                  !.chunks = Append(@, EventAt(media.at))]
  /\ UNCHANGED <<range, playlist, shown, requestsLeft>>

AnswerMedia ==
  /\ media.step = "reading" /\ media.at >= media.end
  /\ media' = [media EXCEPT !.step = "done"]
  /\ UNCHANGED <<range, playlist, shown, requestsLeft>>

-----------------------------------------------------------------------------

MakePlaylist == SearchBegin \/ SearchEndOfRange \/ ReadRecord \/ AnswerPlaylist

MakeMedia == ReadMedia \/ AnswerMedia

ServerNext ==
  \/ AskPlaylist
  \/ MakePlaylist
  \/ \E i \in 1 .. Len(shown.segments) : AskMedia(i)
  \/ MakeMedia

-----------------------------------------------------------------------------
(***************************************************************************)
(* A browser that gets a new playlist finds under a media sequence number  *)
(* it knows the segment that it knows, or a gap in the one or the other,   *)
(* however the index has been truncated; and the numbers do not go back,   *)
(* but to an empty segment: if the range begins where a session has ended  *)
(* and the next one begun, the search may find either of the two records.  *)
(***************************************************************************)
NumberOf(p, i) == p.sequence + i - 1

SequenceNumbersAreStable ==
  [][shown # NoPlaylist =>
       /\ \A i \in shown'.sequence + 1 .. shown.sequence :
            index[i].offset = index[i + 1].offset
       /\ \A i \in 1 .. Len(shown.segments), j \in 1 .. Len(shown'.segments) :
            NumberOf(shown, i) = NumberOf(shown', j) =>
              Gap \in {shown.segments[i], shown'.segments[j]}
                \/ shown.segments[i] = shown'.segments[j]]_shown

(***************************************************************************)
(* Of the records that were in the index when the request came, none in    *)
(* the requested range lies before or behind what the playlist will hold,  *)
(* although the index is searched twice and read once while it changes.    *)
(***************************************************************************)
PlaylistCoversRange ==
  playlist.step = "read" =>
    \A i \in playlist.known.from .. playlist.known.to :
      index[i].timestamp \in range.begin .. range.end =>
        /\ \E j \in playlist.first .. Len(index) : index[j].offset <= index[i].offset
        /\ \E j \in 1 .. playlist.last : index[i].offset <= index[j].offset

(***************************************************************************)
(* A browser that is told that its playlist is the last one misses nothing *)
(* before the end of the range that is, or will be, indexed after it.      *)
(***************************************************************************)
EndListIsFinal ==
  shown.endlist =>
    \A i \in shown.sequence + Len(shown.segments) + 2 .. Len(index) :
      index[i].timestamp >= range.end

(***************************************************************************)
(* A segment that is answered holds every event from the one record to the *)
(* next and nothing else, though the data may be truncated while it is     *)
(* read.                                                                   *)
(***************************************************************************)
MediaIsWhole ==
  media.step = "done" =>
    media.chunks = [i \in 1 .. EventAt(media.end) - EventAt(media.begin) |->
                      EventAt(media.begin) + i - 1]

(***************************************************************************)
(* Every request is answered or fails: no thread of the server waits for   *)
(* the writer, although the reader of a stream waits at its tail.          *)
(***************************************************************************)
ServerAnswers ==
  /\ ~Idle(playlist) ~> Idle(playlist)
  /\ media.step = "reading" ~> media.step # "reading"

==============================================================================
