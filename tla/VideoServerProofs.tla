------------------------- MODULE VideoServerProofs -------------------------
(***************************************************************************)
(* What a browser is told by pravega-video-server is true of the stream,   *)
(* though the index is searched twice and read once for a playlist while   *)
(* it is written and truncated.  The proofs are for every stream, every    *)
(* range and any number of requests.                                       *)
(***************************************************************************)
EXTENDS ViewersProofs

(* The search of a request, which cannot have begun behind where the last
   playlist begins. *)
RequestInv ==
  LET s == playlist.search
      opened == s.step \notin {"open", "failed"}
  IN /\ NearestInv(s, index) /\ s.key \in TimeKeys /\ s.method = After
     /\ playlist.step \in {"begin", "end"} => Searching(s)
     /\ playlist.step = "begin" =>
          /\ s.key = ByTime(range.begin)
          /\ opened => shown.sequence + 1 <= s.to
     /\ playlist.step = "end" =>
          /\ s.key = ByTime(range.end)
          /\ opened => playlist.known.from <= s.from /\ playlist.known.to <= s.to
     /\ BeganAt(s, indexHead)

(* This record is before the range, or ends the session that the next one, number i,
   begins: nothing was written between the two. *)
Early(j, i) ==
  \/ index[j].timestamp < range.begin
  \/ j + 1 = i /\ index[j].timestamp = index[i].timestamp

(* The first record of the playlist in the making is the first one in the range
   that was in the index.  It is in front of the last playlist only if a session
   ends and the next one begins there. *)
BeginInv ==
  playlist.step \in {"end", "read"} =>
    LET k == playlist.known
        first == playlist.first
    IN /\ 1 <= k.from /\ k.from <= first /\ first <= k.to /\ k.to <= Len(index)
       /\ k.from <= indexHead + 1
       /\ \A j \in k.from .. first - 1 : Early(j, first)
       /\ shown.sequence + 1 <= k.to
       /\ first <= shown.sequence =>
            /\ first = shown.sequence
            /\ index[first].timestamp = index[first + 1].timestamp

(* A segment is named by two consecutive records. *)
IsSegment(segment, i) ==
  segment \in {Gap, [begin |-> index[i].offset, end |-> index[i + 1].offset]}

MadeInv ==
  playlist.step = "read" =>
    LET made == playlist.made
    IN /\ playlist.first <= playlist.last + 1 /\ 1 <= playlist.last /\ playlist.last <= Len(index)
       /\ playlist.last < playlist.first =>
            index[playlist.last].timestamp = index[playlist.first].timestamp
       /\ index[playlist.last].timestamp >= range.end \/ playlist.known.to <= playlist.last
       /\ playlist.next \in playlist.first .. playlist.last + 1
       /\ made.sequence = playlist.first - 1
       /\ Len(made.segments) =
            IF playlist.next = playlist.first THEN 0 ELSE playlist.next - playlist.first - 1
       /\ \A i \in 1 .. Len(made.segments) : IsSegment(made.segments[i], made.sequence + i)
       /\ made.endlist => index[playlist.last].timestamp >= range.end

ShownInv ==
  LET last == shown.sequence + Len(shown.segments) + 1
  IN /\ shown # NoPlaylist => last <= Len(index)
     /\ shown.endlist => index[last].timestamp >= range.end
     /\ \A i \in 1 .. Len(shown.segments) :
          IsSegment(shown.segments[i], shown.sequence + i)
     /\ \A j \in indexHead + 1 .. shown.sequence : Early(j, shown.sequence + 1)

MediaInv ==
  media.step \in {"reading", "done"} =>
    /\ Aligned(media.begin) /\ Aligned(media.end) /\ Aligned(media.at)
    /\ media.begin <= media.at /\ media.at <= media.end
    /\ media.chunks = [i \in 1 .. EventAt(media.at) - EventAt(media.begin) |->
                         EventAt(media.begin) + i - 1]
    /\ media.step = "done" => media.at = media.end

ServerInv ==
  /\ ServerTypeOK
  /\ RequestInv
  /\ BeginInv
  /\ MadeInv
  /\ ShownInv
  /\ MediaInv
------------------------------------------------------------------------------
(* Types                                                                     *)

PlaylistRequests ==
  [step : {"none", "begin", "end", "read", "failed"},
   search : Search([kind : {"timestamp"}, value : Nat]),
   first : Nat, last : Nat, next : Nat, made : Playlists, known : [from : Nat, to : Nat]]

LEMMA TimeSearch ==
  ASSUME NEW s \in AnySearch, s.key \in TimeKeys
  PROVE  s \in Search([kind : {"timestamp"}, value : Nat])
BY DEF AnySearch, Search, TimeKeys

LEMMA ServerTypes ==
  ASSUME ServerTypeOK
  PROVE  /\ range.begin \in Nat /\ range.end \in Nat /\ range.begin <= range.end
         /\ playlist \in PlaylistRequests /\ playlist.made.sequence \in Nat
         /\ playlist.made.segments \in Seq(Segments)
         /\ playlist.known.from \in Nat /\ playlist.known.to \in Nat
         /\ shown.sequence \in Nat /\ shown.segments \in Seq(Segments)
         /\ Len(shown.segments) \in Nat /\ shown.endlist \in BOOLEAN
BY ServerAssumption DEF ServerTypeOK, PlaylistRequests, Playlists

LEMMA EmptyPlaylist == NoPlaylist \in Playlists
BY DEF NoPlaylist, Playlists

LEMMA NotAskedType ==
  ASSUME NEW step \in {"none", "failed"}
  PROVE  NotAsked(step) \in PlaylistRequests
<1>1. NothingFound \in AnySearch /\ NothingFound.key \in TimeKeys
  BY NewTimeSearch DEF NothingFound, Methods
<1> QED BY <1>1, TimeSearch, EmptyPlaylist DEF NotAsked, PlaylistRequests

(* The entry of a record. *)
LEMMA SegmentTypes ==
  ASSUME LiveInv
  PROVE  /\ Gap \in Segments
         /\ \A i \in 1 .. Len(index) : index[i].offset \in Offsets
         /\ \A i, j \in 1 .. Len(index) :
              [begin |-> index[i].offset, end |-> index[j].offset] \in Segments
<1>1. StreamTypeOK
  BY DEF LiveInv, StreamInv
<1>2. \A i \in 1 .. Len(index) : index[i].offset \in Offsets
  BY <1>1, IndexType, RecordsAssumption
<1> QED BY <1>2, OffsetsAssumption DEF Gap, Segments

------------------------------------------------------------------------------
(* What does not change                                                      *)

LEMMA ShownKept ==
  ASSUME ShownInv, UNCHANGED <<shown, range, index, indexHead>> PROVE ShownInv'
BY DEF ShownInv, IsSegment, Early

LEMMA MediaKept ==
  ASSUME MediaInv, UNCHANGED media PROVE MediaInv'
BY DEF MediaInv

LEMMA PlaylistKept ==
  ASSUME RequestInv, BeginInv, MadeInv,
         UNCHANGED <<playlist, range, shown, index, indexHead>>
  PROVE  RequestInv' /\ BeginInv' /\ MadeInv'
BY DEF RequestInv, BeginInv, MadeInv, IsSegment, BeganAt, Early

(* No playlist is in the making. *)
LEMMA NotAskedInv ==
  ASSUME NEW step \in {"none", "failed"}, playlist' = NotAsked(step)
  PROVE  RequestInv' /\ BeginInv' /\ MadeInv'
<1>1. /\ NearestInv(NothingFound, index') /\ NothingFound.key \in TimeKeys
      /\ NothingFound.method = After /\ NothingFound.step = "open"
  <2>1. ByTime(0) \in [kind : {"timestamp", "size"}, value : Nat] /\ ByTime(0) \in TimeKeys
    BY DEF ByTime, TimeKeys
  <2> QED BY <2>1, NewSearchNearest DEF NothingFound, NewSearch, Methods
<1>2. playlist'.search = NothingFound /\ playlist'.step = step
  BY DEF NotAsked
<1> QED BY <1>1, <1>2 DEF RequestInv, BeginInv, MadeInv, BeganAt

------------------------------------------------------------------------------
(* A playlist in the making                                                  *)

LEMMA AskPlaylistInv ==
  ASSUME LiveInv, ServerInv, AskPlaylist, UNCHANGED liveVars PROVE ServerInv'
<1> DEFINE t == NewSearch(ByTime(range.begin), After)
<1>1. ServerTypeOK /\ ShownInv /\ MediaInv /\ range.begin \in Nat
  BY ServerTypes DEF ServerInv
<1>2. /\ NearestInv(t, index) /\ t.key \in TimeKeys /\ t.key = ByTime(range.begin)
      /\ t.method = After /\ t.step = "open" /\ Searching(t) /\ t \in AnySearch
  BY <1>1, NewTimeSearch DEF Methods
<1>3. playlist \in PlaylistRequests /\ t \in Search([kind : {"timestamp"}, value : Nat])
  BY <1>1, <1>2, ServerTypes, TimeSearch
<1> HIDE DEF t
<1>4. playlist' \in PlaylistRequests /\ playlist'.step = "begin" /\ playlist'.search = t
  BY <1>3 DEF AskPlaylist, PlaylistRequests, t
<1>5. ServerTypeOK'
  <2>1. requestsLeft' \in 0 .. MaxRequests
    BY <1>1, ServerAssumption DEF ServerTypeOK, AskPlaylist
  <2> QED BY <1>1, <1>4, <2>1 DEF ServerTypeOK, AskPlaylist, PlaylistRequests
<1>6. RequestInv' /\ BeginInv' /\ MadeInv'
  BY <1>2, <1>4 DEF RequestInv, BeginInv, MadeInv, AskPlaylist, liveVars, BeganAt
<1>7. ShownInv' /\ MediaInv'
  BY <1>1, ShownKept, MediaKept DEF AskPlaylist, liveVars
<1> QED BY <1>5, <1>6, <1>7 DEF ServerInv

(* A request that fails leaves nothing behind. *)
LEMMA PlaylistFailsInv ==
  ASSUME ServerInv, PlaylistFails, UNCHANGED <<range, shown, media, requestsLeft, liveVars>>
  PROVE  ServerInv'
<1>1. ServerTypeOK'
  BY NotAskedType DEF ServerInv, ServerTypeOK, PlaylistFails, PlaylistRequests
<1>2. ShownInv' /\ MediaInv'
  BY ShownKept, MediaKept DEF ServerInv, liveVars
<1>3. RequestInv' /\ BeginInv' /\ MadeInv'
  BY NotAskedInv DEF PlaylistFails
<1> QED BY <1>1, <1>2, <1>3 DEF ServerInv

(* A read of the search that a request makes. *)
LEMMA RequestReads ==
  ASSUME LiveInv, ServerInv, playlist.step \in {"begin", "end"}
  PROVE  LET t == ReadNext(playlist.search, indexHead, index)
         IN  /\ NearestInv(t, index) /\ t \in AnySearch /\ t.key \in TimeKeys
             /\ t.key = playlist.search.key /\ t.method = After
             /\ t.key.kind = "timestamp" /\ t.key.value \in Nat
             /\ BeganAt(t, indexHead)
             /\ t.step # "failed" =>
                  /\ t.step # "open" /\ t.to \in Nat /\ t.from \in Nat
                  /\ playlist.step = "begin" => shown.sequence + 1 <= t.to
                  /\ playlist.step = "end" =>
                       playlist.known.from <= t.from /\ playlist.known.to <= t.to
             /\ t.step \notin {"found", "failed"} => Searching(t)
             /\ t.step = "found" =>
                  /\ Result(t) \in Nat /\ Result(t) \in t.from .. t.to
                  /\ 1 <= t.from /\ t.to <= Len(index) /\ indexHead < Result(t)
<1> DEFINE s == playlist.search  t == ReadNext(s, indexHead, index)
<1>1. /\ ServerTypeOK /\ RequestInv /\ ShownInv /\ BeginInv
  BY DEF ServerInv
<1>2. /\ NearestInv(s, index) /\ s.key \in TimeKeys /\ s.method = After /\ Searching(s)
      /\ BeganAt(s, indexHead) /\ s \in AnySearch
  BY <1>1 DEF RequestInv, NearestInv
<1>3. IndexOK(index) /\ indexHead \in Nat /\ Len(index) \in Nat
  BY LiveFacts, LiveTypes DEF LiveInv, StreamInv
<1>4. NearestInv(t, index) /\ t.key = s.key /\ t.method = After /\ t.step # "open"
      /\ BeganAt(t, indexHead) /\ (t.step \notin {"found", "failed"} => Searching(t))
  BY <1>2, <1>3, NextTimeSearch, ReadNextSame, ReadNextBegan
<1>5. t \in AnySearch /\ t.from \in Nat /\ t.to \in Nat
  BY <1>4 DEF NearestInv, AnySearch, Search
<1>6. ASSUME t.step # "failed"
      PROVE  /\ playlist.step = "begin" => shown.sequence + 1 <= t.to
             /\ playlist.step = "end" =>
                  playlist.known.from <= t.from /\ playlist.known.to <= t.to
  <2>1. CASE s.step # "open"
    <3>1. t.from = s.from /\ t.to = s.to /\ s.step \notin {"open", "failed"}
      BY <1>2, <2>1, ReadNextSame DEF Searching
    <3> QED BY <1>1, <3>1 DEF RequestInv
  <2>2. CASE s.step = "open"
    <3>1. t = ReadBounds(s, indexHead, index)
      BY <2>2 DEF ReadNext
    <3>2. indexHead < Len(index) /\ t.from = indexHead + 1 /\ t.to = Len(index)
      BY <1>2, <1>6, <3>1 DEF ReadBounds, Failed, AnySearch, Search
    <3> HIDE DEF t
    <3>3. shown.sequence + 1 <= Len(index)
      <4>1. CASE shown = NoPlaylist
        BY <1>3, <3>2, <4>1 DEF NoPlaylist
      <4>2. CASE shown # NoPlaylist
        BY <1>1, <1>3, <4>2, ServerTypes DEF ShownInv
      <4> QED BY <4>1, <4>2
    <3> QED BY <1>1, <3>2, <3>3 DEF BeginInv
  <2> QED BY <2>1, <2>2
<1>7. ASSUME t.step = "found"
      PROVE  /\ Result(t) \in Nat /\ Result(t) \in t.from .. t.to
             /\ 1 <= t.from /\ t.to <= Len(index) /\ indexHead < Result(t)
  <2>1. Result(t) \in t.from .. t.to /\ 1 <= t.from /\ t.to <= Len(index)
    BY <1>4, <1>7, FoundRecord
  <2>2. indexHead < Result(t)
    BY <1>2, <1>7, ReadNextReads DEF CanRead
  <2> QED BY <1>5, <2>1, <2>2
<1>8. t.key.kind = "timestamp" /\ t.key.value \in Nat
  BY <1>2, <1>4 DEF TimeKeys
<1> QED BY <1>2, <1>4, <1>5, <1>6, <1>7, <1>8

(* A search goes on. *)
LEMMA SearchGoesOn ==
  ASSUME LiveInv, ServerInv, playlist.step \in {"begin", "end"},
         UNCHANGED <<range, shown, media, requestsLeft, liveVars>>,
         LET t == ReadNext(playlist.search, indexHead, index)
         IN  /\ t.step \notin {"found", "failed"}
             /\ playlist' = [playlist EXCEPT !.search = t]
  PROVE  ServerInv'
<1> DEFINE t == ReadNext(playlist.search, indexHead, index)
<1>1. /\ ServerTypeOK /\ RequestInv /\ BeginInv /\ MadeInv /\ ShownInv /\ MediaInv
      /\ playlist \in PlaylistRequests
  BY ServerTypes DEF ServerInv
<1>2. /\ NearestInv(t, index) /\ t.key \in TimeKeys /\ t.key = playlist.search.key
      /\ t.method = After /\ BeganAt(t, indexHead) /\ Searching(t)
      /\ playlist.step = "begin" => shown.sequence + 1 <= t.to
      /\ playlist.step = "end" =>
           playlist.known.from <= t.from /\ playlist.known.to <= t.to
      /\ t \in Search([kind : {"timestamp"}, value : Nat])
  BY RequestReads, TimeSearch
<1>3. playlist' = [playlist EXCEPT !.search = t]
  OBVIOUS
<1> HIDE DEF t
<1>4. /\ playlist' \in PlaylistRequests /\ playlist'.search = t
      /\ playlist'.step = playlist.step /\ playlist'.first = playlist.first
      /\ playlist'.known = playlist.known
  BY <1>1, <1>2, <1>3 DEF PlaylistRequests
<1>5. ServerTypeOK'
  BY <1>1, <1>4 DEF ServerTypeOK, PlaylistRequests
<1>6. RequestInv'
  BY <1>1, <1>2, <1>4 DEF RequestInv, liveVars
<1>7. BeginInv' /\ MadeInv'
  BY <1>1, <1>4 DEF BeginInv, MadeInv, Early, liveVars
<1>8. ShownInv' /\ MediaInv'
  BY <1>1, ShownKept, MediaKept DEF liveVars
<1> QED BY <1>5, <1>6, <1>7, <1>8 DEF ServerInv

(* The first record in the range is behind where the last playlist begins. *)
LEMMA BeginFound ==
  ASSUME LiveInv, ServerInv, SearchBegin, UNCHANGED liveVars,
         ReadNext(playlist.search, indexHead, index).step = "found"
  PROVE  ServerInv'
<1> DEFINE s == ReadNext(playlist.search, indexHead, index)  e == NewSearch(ByTime(range.end), After)
           first == Result(s)
<1>1. /\ ServerTypeOK /\ RequestInv /\ BeginInv /\ MadeInv /\ ShownInv /\ MediaInv
      /\ playlist \in PlaylistRequests /\ playlist.step = "begin"
      /\ range.begin \in Nat /\ range.end \in Nat /\ shown.sequence \in Nat
  BY ServerTypes DEF ServerInv, SearchBegin
<1>2. /\ playlist' = [playlist EXCEPT
                        !.step = "end", !.first = first,
                        !.known = [from |-> s.from, to |-> s.to], !.search = e]
      /\ UNCHANGED <<range, shown, media, requestsLeft>>
  BY DEF SearchBegin
<1>3. /\ NearestInv(s, index) /\ s.key = ByTime(range.begin) /\ s.method = After
      /\ BeganAt(s, indexHead) /\ s.from \in Nat /\ s.to \in Nat
      /\ shown.sequence + 1 <= s.to
      /\ first \in Nat /\ first \in s.from .. s.to /\ 1 <= s.from
      /\ s.to <= Len(index) /\ indexHead < first
  BY <1>1, RequestReads DEF RequestInv
<1>4. /\ NearestInv(e, index) /\ e.key \in TimeKeys /\ e.key = ByTime(range.end)
      /\ e.method = After /\ e.step = "open" /\ Searching(e)
      /\ e \in Search([kind : {"timestamp"}, value : Nat])
  BY <1>1, NewTimeSearch, TimeSearch DEF Methods
<1>5. s.step = "found" /\ IsNearest(s, index) /\ FirstAfter(s, index)
  BY <1>3 DEF NearestInv
<1>6. \A r : IsNewerThan(s, r) <=> range.begin > r.timestamp
  BY <1>3 DEF IsNewerThan, ByTime
<1>7. s.from <= indexHead + 1
  BY <1>3, <1>5 DEF BeganAt
<1>8. /\ Len(index) \in Nat /\ indexHead \in Nat
      /\ \A i \in 1 .. Len(index) : index[i].timestamp \in Nat
      /\ \A i, j \in 1 .. Len(index) : i < j =>
           \/ index[i].timestamp < index[j].timestamp
           \/ index[i].timestamp = index[j].timestamp /\ j = i + 1
  BY LiveFacts, LiveTypes DEF LiveInv, StreamInv
<1>9. \A j \in s.from .. first - 1 : Early(j, first)
  <2> SUFFICES ASSUME NEW j \in s.from .. first - 1 PROVE Early(j, first)
    OBVIOUS
  <2>1. j \in 1 .. Len(index) /\ first \in 1 .. Len(index) /\ j < first
    BY <1>3, <1>8
  <2>2. CASE index[j].timestamp < index[first].timestamp
    <3>1. IsNewerThan(s, index[j])
      BY <1>3, <1>5, <2>2 DEF FirstAfter, ByTime
    <3> QED BY <1>6, <3>1, <1>1, <1>8, <2>1 DEF Early
  <2>3. CASE index[j].timestamp = index[first].timestamp /\ first = j + 1
    BY <2>3 DEF Early
  <2> QED BY <1>8, <2>1, <2>2, <2>3
<1>10. first # s.to => index[first].timestamp >= range.begin
  <2>1. first # s.to => ~IsNewerThan(s, index[first])
    BY <1>3, <1>5 DEF IsNearest
  <2>2. index[first].timestamp \in Nat
    BY <1>3, <1>8
  <2> QED BY <1>1, <1>6, <2>1, <2>2
<1> HIDE DEF s, e, first
<1>11. first <= shown.sequence =>
         first = shown.sequence /\ index[first].timestamp = index[first + 1].timestamp
  <2> SUFFICES ASSUME first <= shown.sequence
               PROVE  first + 1 = shown.sequence + 1
                        /\ index[first].timestamp = index[shown.sequence + 1].timestamp
    BY <1>1, <1>3
  <2>1. first \in indexHead + 1 .. shown.sequence /\ first \in 1 .. Len(index)
    BY <1>1, <1>3, <1>8
  <2>2. Early(first, shown.sequence + 1)
    BY <1>1, <2>1 DEF ShownInv
  <2>3. CASE index[first].timestamp < range.begin
    <3>1. first = s.to
      BY <1>1, <1>8, <1>10, <2>1, <2>3
    <3> QED BY <1>1, <1>3, <3>1
  <2> QED BY <2>2, <2>3 DEF Early
<1>12. /\ playlist' \in PlaylistRequests /\ playlist'.search = e /\ playlist'.step = "end"
       /\ playlist'.first = first /\ playlist'.known = [from |-> s.from, to |-> s.to]
  BY <1>1, <1>2, <1>3, <1>4 DEF PlaylistRequests
<1>13. ServerTypeOK'
  BY <1>1, <1>2, <1>12 DEF ServerTypeOK, PlaylistRequests
<1>14. RequestInv'
  BY <1>2, <1>4, <1>12 DEF RequestInv, BeganAt, liveVars
<1>15. BeginInv'
  BY <1>2, <1>3, <1>7, <1>9, <1>11, <1>12 DEF BeginInv, Early, liveVars
<1>16. MadeInv'
  BY <1>12 DEF MadeInv
<1>17. ShownInv' /\ MediaInv'
  BY <1>1, <1>2, ShownKept, MediaKept DEF liveVars
<1> QED BY <1>13, <1>14, <1>15, <1>16, <1>17 DEF ServerInv

LEMMA SearchBeginInv ==
  ASSUME LiveInv, ServerInv, SearchBegin, UNCHANGED liveVars PROVE ServerInv'
<1> DEFINE s == ReadNext(playlist.search, indexHead, index)
<1>1. CASE s.step = "found"
  BY <1>1, BeginFound
<1>2. CASE s.step = "failed"
  BY <1>2, PlaylistFailsInv DEF SearchBegin
<1>3. CASE s.step \notin {"found", "failed"}
  BY <1>3, SearchGoesOn DEF SearchBegin
<1> QED BY <1>1, <1>2, <1>3

(* The record behind the range, or the last one if there is none, is in front of the
   first one only if it ends the session that that one begins. *)
LEMMA EndOfRangeFound ==
  ASSUME LiveInv, ServerInv, SearchEndOfRange, UNCHANGED liveVars,
         ReadNext(playlist.search, indexHead, index).step = "found"
  PROVE  ServerInv'
<1> DEFINE s == ReadNext(playlist.search, indexHead, index)
           last == Result(s)  first == playlist.first
           made == [sequence |-> first - 1, segments |-> << >>,
                    endlist |-> index[last].timestamp >= range.end]
<1>1. /\ ServerTypeOK /\ RequestInv /\ BeginInv /\ MadeInv /\ ShownInv /\ MediaInv
      /\ playlist \in PlaylistRequests /\ playlist.step = "end"
      /\ range.begin \in Nat /\ range.end \in Nat /\ shown.sequence \in Nat
      /\ range.begin <= range.end
      /\ playlist.known.from \in Nat /\ playlist.known.to \in Nat /\ first \in Nat
  BY ServerTypes DEF ServerInv, SearchEndOfRange, PlaylistRequests
<1>2. /\ playlist' = [playlist EXCEPT !.step = "read", !.last = last, !.next = first,
                                      !.search = NothingFound, !.made = made]
      /\ UNCHANGED <<range, shown, media, requestsLeft>>
  BY DEF SearchEndOfRange, EndFound
<1>3. /\ NearestInv(s, index) /\ s.key = ByTime(range.end) /\ s.method = After
      /\ s.from \in Nat /\ s.to \in Nat
      /\ playlist.known.from <= s.from /\ playlist.known.to <= s.to
      /\ last \in Nat /\ last \in s.from .. s.to /\ 1 <= s.from /\ s.to <= Len(index)
  BY <1>1, RequestReads DEF RequestInv
<1>4. IsNearest(s, index) /\ s.step = "found"
  BY <1>3 DEF NearestInv
<1>5. /\ Len(index) \in Nat /\ indexHead \in Nat
      /\ \A i \in 1 .. Len(index) : index[i].timestamp \in Nat
  BY LiveFacts, LiveTypes DEF LiveInv, StreamInv
<1>6. last # s.to => index[last].timestamp >= range.end
  <2>1. last # s.to => ~IsNewerThan(s, index[last])
    BY <1>3, <1>4 DEF IsNearest
  <2>2. index[last].timestamp \in Nat
    BY <1>3, <1>5
  <2> QED BY <1>1, <1>3, <2>1, <2>2 DEF IsNewerThan, ByTime
<1>7. /\ 1 <= playlist.known.from /\ playlist.known.from <= first
      /\ first <= playlist.known.to /\ playlist.known.to <= Len(index)
      /\ \A j \in playlist.known.from .. first - 1 : Early(j, first)
  BY <1>1 DEF BeginInv
<1> HIDE DEF s, last
<1>8. /\ first <= last + 1
      /\ last < first => index[last].timestamp = index[first].timestamp
  <2>0. SUFFICES ASSUME last < first
                 PROVE  last + 1 = first /\ index[last].timestamp = index[first].timestamp
    BY <1>1, <1>3
  <2>1. last \in playlist.known.from .. first - 1 /\ last \in 1 .. Len(index)
    <3> DEFINE k == playlist.known  l == Len(index)
    <3>1. /\ k.from \in Nat /\ k.to \in Nat /\ first \in Nat /\ l \in Nat /\ last \in Nat
          /\ s.from \in Nat /\ s.to \in Nat /\ last \in s.from .. s.to
      BY <1>1, <1>3, <1>5
    <3>2. 1 <= k.from /\ k.from <= s.from /\ s.to <= l
      BY <1>3, <1>7
    <3> HIDE DEF k, l, first
    <3>3. last \in k.from .. first - 1 /\ last \in 1 .. l
      BY <2>0, <3>1, <3>2
    <3> QED BY <3>3 DEF k, l, first
  <2>2. Early(last, first) /\ index[last].timestamp \in Nat
    BY <1>5, <1>7, <2>1
  <2>3. ~(index[last].timestamp < range.begin)
    <3> SUFFICES ASSUME index[last].timestamp < range.begin PROVE FALSE
      OBVIOUS
    <3>1. last = s.to
      BY <1>1, <1>6, <2>2
    <3>2. playlist.known.to <= s.to /\ first <= playlist.known.to /\ s.to = last
      BY <1>3, <1>7, <3>1
    <3>3. last \in Nat /\ first \in Nat /\ playlist.known.to \in Nat
      BY <1>1, <1>3
    <3> HIDE DEF first
    <3> QED BY <2>0, <3>2, <3>3
  <2> QED BY <2>2, <2>3 DEF Early
<1>9. /\ NothingFound \in AnySearch /\ NothingFound.key \in TimeKeys
      /\ NothingFound.method = After /\ NothingFound.step = "open"
      /\ NearestInv(NothingFound, index)
      /\ NothingFound \in Search([kind : {"timestamp"}, value : Nat])
  BY NewTimeSearch, TimeSearch DEF NothingFound, Methods
<1>10. first - 1 \in Nat /\ first \in first .. last + 1 /\ last <= Len(index) /\ 1 <= last
  <2>1. first \in Nat /\ last \in Nat /\ 1 <= first
    BY <1>1, <1>3, <1>7
  <2>2. last <= Len(index) /\ 1 <= last
    BY <1>3, <1>5
  <2> HIDE DEF first
  <2> QED BY <1>8, <2>1, <2>2
<1>11. made \in Playlists /\ made.sequence = first - 1 /\ made.segments = << >>
       /\ (made.endlist <=> index[last].timestamp >= range.end)
  <2>1. index[last].timestamp \in Nat
    BY <1>3, <1>5, <1>10
  <2>2. (index[last].timestamp >= range.end) \in BOOLEAN /\ << >> \in Seq(Segments)
    BY <1>1, <2>1
  <2> QED BY <1>10, <2>2 DEF Playlists
<1> HIDE DEF made
<1>12. /\ playlist' \in PlaylistRequests /\ playlist'.search = NothingFound
       /\ playlist'.step = "read" /\ playlist'.known = playlist.known
       /\ playlist'.first = playlist.first /\ playlist'.last = last
       /\ playlist'.next = playlist.first /\ playlist'.made = made
  BY <1>1, <1>2, <1>3, <1>9, <1>11 DEF PlaylistRequests
<1>13. ServerTypeOK'
  BY <1>1, <1>2, <1>12 DEF ServerTypeOK, PlaylistRequests
<1>14. RequestInv'
  BY <1>9, <1>12 DEF RequestInv, BeganAt, liveVars
<1>15. BeginInv'
  BY <1>1, <1>2, <1>12 DEF BeginInv, Early, liveVars
<1>16. index[last].timestamp >= range.end \/ playlist.known.to <= last
  BY <1>1, <1>3, <1>6
<1>17. MadeInv'
  BY <1>2, <1>8, <1>10, <1>11, <1>12, <1>16 DEF MadeInv, liveVars
<1>18. ShownInv' /\ MediaInv'
  BY <1>1, <1>2, ShownKept, MediaKept DEF liveVars
<1> QED BY <1>13, <1>14, <1>15, <1>17, <1>18 DEF ServerInv

LEMMA SearchEndOfRangeInv ==
  ASSUME LiveInv, ServerInv, SearchEndOfRange, UNCHANGED liveVars PROVE ServerInv'
<1> DEFINE s == ReadNext(playlist.search, indexHead, index)
<1>1. CASE s.step = "found"
  BY <1>1, EndOfRangeFound
<1>2. CASE s.step = "failed"
  BY <1>2, PlaylistFailsInv DEF SearchEndOfRange
<1>3. CASE s.step \notin {"found", "failed"}
  BY <1>3, SearchGoesOn DEF SearchEndOfRange
<1> QED BY <1>1, <1>2, <1>3

(* Reading *)

LEMMA AppendedEntry ==
  ASSUME NEW S, NEW q \in Seq(S), NEW x \in S
  PROVE  LET r == q \o <<x>>
         IN  /\ r \in Seq(S) /\ Len(r) = Len(q) + 1 /\ r[Len(q) + 1] = x
             /\ \A i \in 1 .. Len(q) : r[i] = q[i]
OBVIOUS

LEMMA ReadRecordInv ==
  ASSUME LiveInv, ServerInv, ReadRecord, UNCHANGED liveVars PROVE ServerInv'
<1> DEFINE i == playlist.next  first == playlist.first  old == playlist.made.segments
<1>1. /\ ServerTypeOK /\ RequestInv /\ BeginInv /\ MadeInv /\ ShownInv /\ MediaInv
      /\ playlist \in PlaylistRequests /\ playlist.step = "read"
      /\ i \in Nat /\ first \in Nat /\ playlist.last \in Nat /\ i <= playlist.last
      /\ old \in Seq(Segments) /\ Len(old) \in Nat
  <2>1. ServerTypeOK /\ RequestInv /\ BeginInv /\ MadeInv /\ ShownInv /\ MediaInv
    BY DEF ServerInv
  <2>2. playlist \in PlaylistRequests /\ old \in Seq(Segments) /\ Len(old) \in Nat
    BY <2>1, ServerTypes
  <2>3. i \in Nat /\ first \in Nat /\ playlist.last \in Nat
    BY <2>2 DEF PlaylistRequests
  <2>4. playlist.step = "read" /\ i <= playlist.last
    BY DEF ReadRecord
  <2> QED BY <2>1, <2>2, <2>3, <2>4
<1>2. CASE ~CanRead(i, indexHead, index)
  BY <1>2, PlaylistFailsInv DEF ReadRecord
<1>3. CASE CanRead(i, indexHead, index)
  <2>1. PICK entry \in Entries(i) :
          playlist' = [playlist EXCEPT !.next = i + 1, !.made.segments = @ \o entry]
    BY <1>3 DEF ReadRecord
  <2>2. UNCHANGED <<range, shown, media, requestsLeft>>
    BY DEF ReadRecord
  <2>3. /\ first <= playlist.last + 1 /\ 1 <= playlist.last /\ playlist.last <= Len(index)
        /\ playlist.last < first => index[playlist.last].timestamp = index[first].timestamp
        /\ index[playlist.last].timestamp >= range.end \/ playlist.known.to <= playlist.last
        /\ i \in first .. playlist.last + 1
        /\ playlist.made.sequence = first - 1
        /\ Len(old) = IF i = first THEN 0 ELSE i - first - 1
        /\ \A k \in 1 .. Len(old) : IsSegment(old[k], playlist.made.sequence + k)
        /\ playlist.made.endlist => index[playlist.last].timestamp >= range.end
    BY <1>1 DEF MadeInv
  <2>4. 1 <= first /\ Len(index) \in Nat
    <3>1. 1 <= playlist.known.from /\ playlist.known.from <= first
      BY <1>1 DEF BeginInv
    <3> QED BY <1>1, <3>1, ServerTypes, LiveTypes DEF LiveInv, StreamInv
  <2> DEFINE new == old \o entry
  <2>5. /\ new \in Seq(Segments)
        /\ Len(new) = IF i + 1 = first THEN 0 ELSE i - first
        /\ \A k \in 1 .. Len(new) : IsSegment(new[k], first - 1 + k)
    <3>1. CASE i = first
      <4>1. entry = << >>
        BY <2>1, <3>1 DEF Entries
      <4>2. old = << >>
        BY <1>1, <2>3, <3>1
      <4>3. new = << >>
        BY <4>1, <4>2
      <4> HIDE DEF new
      <4> QED BY <1>1, <3>1, <4>3
    <3>2. CASE i # first
      <4>1. \E x \in {Gap, [begin |-> index[i - 1].offset, end |-> index[i].offset]} :
               entry = <<x>>
        BY <2>1, <3>2 DEF Entries
      <4>2. PICK x \in {Gap, [begin |-> index[i - 1].offset, end |-> index[i].offset]} :
               entry = <<x>>
        BY <4>1
      <4>3. i - 1 \in 1 .. Len(index) /\ i \in 1 .. Len(index) /\ i - 1 + 1 = i
        <5> DEFINE l == Len(index)  n == playlist.last
        <5>1. /\ i \in Nat /\ first \in Nat /\ l \in Nat /\ n \in Nat /\ 1 <= first /\ i # first
              /\ i \in first .. n + 1 /\ i <= n /\ n <= l
          BY <1>1, <2>3, <2>4, <3>2
        <5> HIDE DEF i, first, l, n
        <5>2. i - 1 \in 1 .. l /\ i \in 1 .. l /\ i - 1 + 1 = i
          BY <5>1
        <5> QED BY <5>2 DEF l
      <4>4. x \in Segments
        BY <4>2, <4>3, SegmentTypes
      <4>5. IsSegment(x, i - 1)
        BY <4>2, <4>3 DEF IsSegment
      <4>6. /\ new \in Seq(Segments) /\ Len(new) = Len(old) + 1 /\ new[Len(old) + 1] = x
            /\ \A k \in 1 .. Len(old) : new[k] = old[k]
        BY <1>1, <4>2, <4>4, AppendedEntry
      <4> HIDE DEF new
      <4>7. first - 1 + (Len(old) + 1) = i - 1 /\ Len(old) = i - first - 1
        BY <1>1, <2>3, <3>2
      <4>8. \A k \in 1 .. Len(new) : IsSegment(new[k], first - 1 + k)
        <5> SUFFICES ASSUME NEW k \in 1 .. Len(new) PROVE IsSegment(new[k], first - 1 + k)
          OBVIOUS
        <5>1. k \in 1 .. Len(old) \/ k = Len(old) + 1
          BY <1>1, <4>6
        <5> QED BY <2>3, <4>5, <4>6, <4>7, <5>1
      <4> QED BY <1>1, <2>3, <3>2, <4>6, <4>7, <4>8
    <3> QED BY <3>1, <3>2
  <2>6. playlist.made \in Playlists
    BY <1>1 DEF PlaylistRequests
  <2> DEFINE made == [playlist.made EXCEPT !.segments = new]
  <2>7. playlist' = [playlist EXCEPT !.next = i + 1, !.made = made]
    BY <1>1, <2>1, <2>6 DEF PlaylistRequests, Playlists
  <2> HIDE DEF new
  <2>8. made \in Playlists /\ made.sequence = playlist.made.sequence
        /\ made.segments = new /\ made.endlist = playlist.made.endlist
    BY <2>5, <2>6 DEF Playlists
  <2> HIDE DEF made
  <2>9. /\ playlist' \in PlaylistRequests /\ playlist'.search = playlist.search
        /\ playlist'.step = "read" /\ playlist'.known = playlist.known
        /\ playlist'.first = first /\ playlist'.last = playlist.last
        /\ playlist'.next = i + 1 /\ playlist'.made = made
    <3> DEFINE p == playlist
    <3>1. p \in PlaylistRequests /\ i + 1 \in Nat /\ made \in Playlists
      BY <1>1, <2>8
    <3>2. playlist' = [p EXCEPT !.next = i + 1, !.made = made] /\ p.step = "read"
      BY <1>1, <2>7
    <3>3. p.next = i /\ p.first = first
      OBVIOUS
    <3> HIDE DEF p, i, first
    <3>4. /\ playlist' \in PlaylistRequests /\ playlist'.search = p.search
          /\ playlist'.step = "read" /\ playlist'.known = p.known
          /\ playlist'.first = p.first /\ playlist'.last = p.last
          /\ playlist'.next = i + 1 /\ playlist'.made = made
      BY <3>1, <3>2 DEF PlaylistRequests
    <3> QED BY <3>3, <3>4 DEF p
  <2>10. ServerTypeOK'
    BY <1>1, <2>2, <2>9 DEF ServerTypeOK, PlaylistRequests
  <2>11. RequestInv' /\ BeginInv'
    BY <1>1, <2>2, <2>9 DEF RequestInv, BeginInv, BeganAt, Early, liveVars
  <2>12. MadeInv'
    <3>2. i + 1 \in first .. playlist.last + 1 /\ i + 1 # first /\ i + 1 - first - 1 = i - first
      BY <1>1, <2>3
    <3>1. index' = index
      BY DEF liveVars
    <3>3. \A k \in 1 .. Len(made.segments) :
            made.segments[k] \in {Gap, [begin |-> index[made.sequence + k].offset,
                                       end   |-> index[made.sequence + k + 1].offset]}
      BY <2>3, <2>5, <2>8 DEF IsSegment
    <3>4. /\ range' = range /\ playlist'.made.sequence = first - 1
          /\ playlist'.made.segments = made.segments
          /\ playlist'.made.endlist = playlist.made.endlist
          /\ Len(playlist'.made.segments) = i - first
          /\ made.sequence = playlist'.made.sequence
      BY <2>2, <2>3, <2>5, <2>8, <2>9, <3>2
    <3> HIDE DEF i, first
    <3>5. /\ playlist'.first <= playlist'.last + 1 /\ 1 <= playlist'.last
          /\ playlist'.last <= Len(index')
          /\ playlist'.last < playlist'.first =>
               index'[playlist'.last].timestamp = index'[playlist'.first].timestamp
          /\ index'[playlist'.last].timestamp >= range'.end \/ playlist'.known.to <= playlist'.last
          /\ playlist'.made.endlist => index'[playlist'.last].timestamp >= range'.end
      BY <2>3, <2>9, <3>1, <3>4
    <3>6. /\ playlist'.next \in playlist'.first .. playlist'.last + 1
          /\ playlist'.made.sequence = playlist'.first - 1
          /\ Len(playlist'.made.segments) =
               IF playlist'.next = playlist'.first THEN 0 ELSE playlist'.next - playlist'.first - 1
      <4>1. i \in Nat /\ first \in Nat
        BY <1>1
      <4> QED BY <2>9, <3>2, <3>4, <4>1
    <3>7. \A k \in 1 .. Len(playlist'.made.segments) :
            playlist'.made.segments[k] \in
              {Gap, [begin |-> index'[playlist'.made.sequence + k].offset,
                     end   |-> index'[playlist'.made.sequence + k + 1].offset]}
      BY <3>1, <3>3, <3>4
    <3> QED BY <3>5, <3>6, <3>7 DEF MadeInv, IsSegment
  <2>13. ShownInv' /\ MediaInv'
    BY <1>1, <2>2, ShownKept, MediaKept DEF liveVars
  <2> QED BY <2>10, <2>11, <2>12, <2>13 DEF ServerInv
<1> QED BY <1>2, <1>3

(* The playlist that is sent. *)
LEMMA AnswerPlaylistInv ==
  ASSUME LiveInv, ServerInv, AnswerPlaylist, UNCHANGED liveVars PROVE ServerInv'
<1>1. /\ ServerTypeOK /\ RequestInv /\ BeginInv /\ MadeInv /\ ShownInv /\ MediaInv
      /\ playlist \in PlaylistRequests /\ playlist.step = "read"
      /\ playlist.next \in Nat /\ playlist.first \in Nat /\ playlist.last \in Nat
      /\ playlist.last < playlist.next /\ playlist.made \in Playlists
  BY ServerTypes DEF ServerInv, AnswerPlaylist, PlaylistRequests
<1>2. shown' = playlist.made /\ playlist' = NotAsked("none")
      /\ UNCHANGED <<range, media, requestsLeft>>
  BY DEF AnswerPlaylist
<1>3. ServerTypeOK'
  BY <1>1, <1>2, NotAskedType DEF ServerTypeOK, PlaylistRequests
<1>4. RequestInv' /\ BeginInv' /\ MadeInv'
  BY <1>2, NotAskedInv
<1>5. /\ playlist.next = playlist.last + 1 /\ playlist.first <= playlist.next
      /\ playlist.made.sequence = playlist.first - 1
      /\ Len(playlist.made.segments) =
           IF playlist.next = playlist.first THEN 0 ELSE playlist.next - playlist.first - 1
      /\ playlist.last <= Len(index) /\ playlist.first <= Len(index)
      /\ playlist.last < playlist.first =>
           index[playlist.last].timestamp = index[playlist.first].timestamp
      /\ playlist.made.endlist => index[playlist.last].timestamp >= range.end
      /\ \A k \in 1 .. Len(playlist.made.segments) :
           IsSegment(playlist.made.segments[k], playlist.made.sequence + k)
  <2>1. playlist.first <= playlist.known.to /\ playlist.known.to <= Len(index)
    BY <1>1 DEF BeginInv
  <2>2. playlist.known.to \in Nat /\ Len(index) \in Nat
    BY <1>1, ServerTypes, LiveTypes DEF LiveInv, StreamInv
  <2> QED BY <1>1, <2>1, <2>2 DEF MadeInv
<1>6. LET last == playlist.made.sequence + Len(playlist.made.segments) + 1
      IN /\ last <= Len(index)
         /\ playlist.made.endlist => index[last].timestamp >= range.end
  <2> DEFINE n == playlist.next  l == playlist.last  f == playlist.first
             q == playlist.made.sequence  m == Len(playlist.made.segments)
  <2>1. /\ n \in Nat /\ l \in Nat /\ f \in Nat /\ n = l + 1 /\ q = f - 1 /\ f <= n
        /\ m = IF n = f THEN 0 ELSE n - f - 1
    BY <1>1, <1>5
  <2>2. CASE n = f
    <3> HIDE DEF n, l, f, q, m
    <3>1. q + m + 1 = f /\ l < f
      BY <2>1, <2>2
    <3> QED BY <1>5, <3>1 DEF q, m, l, f
  <2>3. CASE n # f
    <3> HIDE DEF n, l, f, q, m
    <3>1. q + m + 1 = l
      BY <2>1, <2>3
    <3> QED BY <1>5, <3>1 DEF q, m, l
  <2> QED BY <2>2, <2>3
<1>7. \A j \in indexHead + 1 .. playlist.made.sequence : Early(j, playlist.made.sequence + 1)
  <2>1. /\ playlist.known.from <= indexHead + 1 /\ playlist.known.from \in Nat
        /\ \A j \in playlist.known.from .. playlist.first - 1 : Early(j, playlist.first)
    BY <1>1, ServerTypes DEF BeginInv
  <2>2. indexHead \in Nat
    BY LiveTypes DEF LiveInv, StreamInv
  <2> QED BY <1>1, <1>5, <2>1, <2>2
<1>8. ShownInv'
  BY <1>2, <1>5, <1>6, <1>7 DEF ShownInv, IsSegment, Early, liveVars
<1>9. MediaInv'
  BY <1>1, <1>2, MediaKept
<1> QED BY <1>3, <1>4, <1>8, <1>9 DEF ServerInv

------------------------------------------------------------------------------
(* Segments                                                                  *)

LEMMA MediaStepKept ==
  ASSUME ServerInv, UNCHANGED <<range, playlist, shown, liveVars>>,
         media' \in [step : {"none", "reading", "done", "failed"}, begin : Offsets,
                     end : Offsets, at : Offsets, chunks : Seq(Events)],
         requestsLeft' \in 0 .. MaxRequests, MediaInv'
  PROVE  ServerInv'
<1>1. ServerTypeOK'
  BY DEF ServerInv, ServerTypeOK
<1>2. RequestInv' /\ BeginInv' /\ MadeInv' /\ ShownInv'
  BY PlaylistKept, ShownKept DEF ServerInv, liveVars
<1> QED BY <1>1, <1>2 DEF ServerInv

LEMMA AskMediaInv ==
  ASSUME LiveInv, ServerInv, NEW i \in 1 .. Len(shown.segments), AskMedia(i), UNCHANGED liveVars
  PROVE  ServerInv'
<1> DEFINE segment == shown.segments[i]  n == shown.sequence + i
<1>1. /\ shown.sequence \in Nat /\ Len(shown.segments) \in Nat /\ ShownInv
      /\ shown.segments \in Seq(Segments) /\ requestsLeft \in 0 .. MaxRequests
  BY ServerTypes DEF ServerInv, ServerTypeOK
<1>2. segment = [begin |-> index[n].offset, end |-> index[n + 1].offset]
  BY <1>1 DEF ShownInv, IsSegment, AskMedia
<1>3. n \in 1 .. Len(index) /\ n + 1 \in 1 .. Len(index)
  <2>1. shown # NoPlaylist
    BY <1>1 DEF NoPlaylist
  <2>2. shown.sequence + Len(shown.segments) + 1 <= Len(index)
    BY <1>1, <2>1 DEF ShownInv
  <2>3. Len(index) \in Nat
    BY LiveTypes DEF LiveInv, StreamInv
  <2> QED BY <1>1, <2>2, <2>3
<1>4. /\ index[n].offset \in Offsets /\ index[n + 1].offset \in Offsets
      /\ index[n].offset \in Nat /\ index[n + 1].offset \in Nat
      /\ Aligned(index[n].offset) /\ Aligned(index[n + 1].offset)
      /\ index[n].offset <= index[n + 1].offset
  BY <1>3, SegmentTypes, LiveFacts
<1> DEFINE b == index[n].offset  e == index[n + 1].offset
<1>5. media' = [step |-> "reading", begin |-> b, end |-> e, at |-> b, chunks |-> << >>]
  BY <1>2 DEF AskMedia
<1>6. b \in Offsets /\ e \in Offsets /\ Aligned(b) /\ Aligned(e) /\ b <= b /\ b <= e
  BY <1>4
<1>7. << >> = [k \in 1 .. EventAt(b) - EventAt(b) |-> EventAt(b) + k - 1]
  <2>1. EventAt(b) - EventAt(b) = 0
    <3>1. EventAt(b) \in Nat
      BY <1>4, EventAtHolds
    <3> QED BY <3>1
  <2> QED BY <2>1
<1> HIDE DEF b, e
<1>8. media' \in [step : {"none", "reading", "done", "failed"}, begin : Offsets,
                  end : Offsets, at : Offsets, chunks : Seq(Events)]
  BY <1>5, <1>6
<1>9. MediaInv'
  BY <1>5, <1>6, <1>7 DEF MediaInv
<1>10. requestsLeft' \in 0 .. MaxRequests
  BY <1>1, ServerAssumption DEF AskMedia
<1> QED BY <1>8, <1>9, <1>10, MediaStepKept DEF AskMedia

LEMMA MediaTypes ==
  ASSUME LiveInv, ServerInv
  PROVE  /\ media \in [step : {"none", "reading", "done", "failed"}, begin : Offsets,
                       end : Offsets, at : Offsets, chunks : Seq(Events)]
         /\ media.at \in Nat /\ media.begin \in Nat /\ media.end \in Nat
         /\ requestsLeft \in 0 .. MaxRequests
<1>1. media \in [step : {"none", "reading", "done", "failed"}, begin : Offsets,
                 end : Offsets, at : Offsets, chunks : Seq(Events)]
  BY DEF ServerInv, ServerTypeOK
<1>2. media.at \in Offsets /\ media.begin \in Offsets /\ media.end \in Offsets
  BY <1>1
<1> QED BY <1>1, <1>2, OffsetsAssumption DEF ServerInv, ServerTypeOK

LEMMA Appended ==
  ASSUME NEW S, NEW q \in Seq(S), NEW x \in S
  PROVE  /\ Append(q, x) \in Seq(S) /\ Len(Append(q, x)) = Len(q) + 1 /\ Len(q) \in Nat
         /\ Append(q, x)[Len(q) + 1] = x
         /\ \A i \in 1 .. Len(q) : Append(q, x)[i] = q[i]
         /\ Append(q, x) = [i \in 1 .. Len(q) + 1 |-> Append(q, x)[i]]
<1>1. /\ Append(q, x) \in Seq(S) /\ Len(Append(q, x)) = Len(q) + 1 /\ Len(q) \in Nat
      /\ Append(q, x)[Len(q) + 1] = x
      /\ \A i \in 1 .. Len(q) : Append(q, x)[i] = q[i]
  OBVIOUS
<1> DEFINE r == Append(q, x)
<1> HIDE DEF r
<1>2. \A s \in Seq(S) : s = [i \in 1 .. Len(s) |-> s[i]]
  OBVIOUS
<1>3. r = [i \in 1 .. Len(r) |-> r[i]]
  BY <1>1, <1>2 DEF r
<1> QED BY <1>1, <1>3 DEF r

(* Consecutive numbers, and the next one. *)
LEMMA Counting ==
  ASSUME NEW m \in Nat, NEW n \in Nat, m <= n, NEW S, n \in S, NEW q \in Seq(S),
         q = [i \in 1 .. n - m |-> m + i - 1]
  PROVE  /\ Append(q, n) \in Seq(S)
         /\ Append(q, n) = [i \in 1 .. n + 1 - m |-> m + i - 1]
<1> DEFINE r == Append(q, n)
<1>1. n - m \in Nat /\ n + 1 - m = (n - m) + 1
  OBVIOUS
<1>2. Len(q) = n - m
  <2>1. DOMAIN q = 1 .. n - m
    OBVIOUS
  <2>2. DOMAIN q = 1 .. Len(q) /\ Len(q) \in Nat
    OBVIOUS
  <2> QED BY <1>1, <2>1, <2>2
<1>3. /\ r \in Seq(S) /\ r[Len(q) + 1] = n
      /\ \A i \in 1 .. Len(q) : r[i] = q[i]
      /\ r = [i \in 1 .. Len(q) + 1 |-> r[i]]
  BY Appended
<1>4. \A i \in 1 .. n - m : q[i] = m + i - 1
  OBVIOUS
<1> HIDE DEF r
<1>5. \A i \in 1 .. n + 1 - m : r[i] = m + i - 1
  <2> SUFFICES ASSUME NEW i \in 1 .. n + 1 - m PROVE r[i] = m + i - 1
    OBVIOUS
  <2>1. CASE i \in 1 .. n - m
    BY <1>2, <1>3, <1>4, <2>1
  <2>2. CASE i = n - m + 1
    <3>1. m + i - 1 = n
      BY <2>2
    <3> QED BY <1>2, <1>3, <2>2, <3>1
  <2>3. i \in 1 .. n - m \/ i = n - m + 1
    OBVIOUS
  <2> QED BY <2>1, <2>2, <2>3
<1>6. r = [i \in 1 .. n + 1 - m |-> r[i]]
  BY <1>1, <1>2, <1>3
<1>7. r = [i \in 1 .. n + 1 - m |-> m + i - 1]
  BY <1>5, <1>6
<1> QED BY <1>3, <1>7 DEF r

(* One event more is read. *)
LEMMA EventRead ==
  ASSUME NEW b \in Nat, NEW a \in Nat, Aligned(a), EventAt(b) <= EventAt(a),
         EventAt(a) \in Events, NEW q \in Seq(Events),
         q = [i \in 1 .. EventAt(a) - EventAt(b) |-> EventAt(b) + i - 1]
  PROVE  /\ Append(q, EventAt(a)) \in Seq(Events)
         /\ Append(q, EventAt(a))
              = [i \in 1 .. EventAt(a + EventSize) - EventAt(b) |-> EventAt(b) + i - 1]
<1>1. EventAt(a) \in Nat /\ EventAt(b) \in Nat /\ EventAt(a + EventSize) = EventAt(a) + 1
  BY EventAtHolds, AlignedNext
<1>2. /\ Append(q, EventAt(a)) \in Seq(Events)
      /\ Append(q, EventAt(a))
           = [i \in 1 .. EventAt(a) + 1 - EventAt(b) |-> EventAt(b) + i - 1]
  BY <1>1, Counting
<1> QED BY <1>1, <1>2

LEMMA ReadMediaInv ==
  ASSUME LiveInv, ServerInv, ReadMedia, UNCHANGED liveVars PROVE ServerInv'
<1>1. /\ media \in [step : {"none", "reading", "done", "failed"}, begin : Offsets,
                    end : Offsets, at : Offsets, chunks : Seq(Events)]
      /\ media.at \in Nat /\ media.begin \in Nat /\ media.end \in Nat
      /\ requestsLeft \in 0 .. MaxRequests
      /\ media.step = "reading" /\ media.at < media.end /\ MediaInv
  BY MediaTypes DEF ReadMedia, ServerInv
<1>2. UNCHANGED <<range, playlist, shown, requestsLeft>>
  BY DEF ReadMedia
<1>3. CASE media' = [media EXCEPT !.step = "failed"]
  <2>1. media' \in [step : {"none", "reading", "done", "failed"}, begin : Offsets,
                    end : Offsets, at : Offsets, chunks : Seq(Events)]
        /\ media'.step = "failed"
    BY <1>1, <1>3
  <2> QED BY <1>1, <1>2, <2>1, MediaStepKept DEF MediaInv
<1>4. CASE /\ media.at + EventSize <= dataTail
           /\ media' = [media EXCEPT !.at = @ + EventSize,
                                     !.chunks = Append(@, EventAt(media.at))]
  <2> DEFINE a == media.at  b == media.begin  e == media.end
             c == Append(media.chunks, EventAt(a))
  <2>1. /\ Aligned(a) /\ Aligned(b) /\ Aligned(e) /\ b <= a /\ a <= e
        /\ media.chunks = [i \in 1 .. EventAt(a) - EventAt(b) |-> EventAt(b) + i - 1]
        /\ media.chunks \in Seq(Events)
    BY <1>1 DEF MediaInv
  <2>2. /\ EventSize \in Nat \ {0} /\ dataTail \in Nat
        /\ EventEnd(Len(EventTimes)) \in Nat /\ dataTail <= EventEnd(Len(EventTimes))
        /\ Offsets = 0 .. EventEnd(Len(EventTimes))
    BY LiveTypes DEF LiveInv, StreamInv
  <2>3. EventAt(a) \in Events /\ a + EventSize \in Offsets /\ a + EventSize \in Nat
    BY <1>1, <1>4, <2>1, <2>2, EventInStream
  <2>4. a + EventSize <= e /\ Aligned(a + EventSize) /\ b <= a + EventSize
    BY <1>1, <2>1, <2>2, AlignedApart, AlignedNext
  <2>5. EventAt(b) <= EventAt(a)
    <3>1. EventAt(b) \in Nat /\ EventAt(a) \in Nat
      BY <1>1, EventAtHolds
    <3>2. CASE a = b
      BY <3>1, <3>2
    <3>3. CASE b < a
      BY <1>1, <2>1, <3>1, <3>3, AlignedApart
    <3> QED BY <1>1, <2>1, <3>2, <3>3
  <2>6. /\ c \in Seq(Events)
        /\ c = [i \in 1 .. EventAt(a + EventSize) - EventAt(b) |-> EventAt(b) + i - 1]
    BY <1>1, <2>1, <2>3, <2>5, EventRead
  <2>7. media' = [media EXCEPT !.at = a + EventSize, !.chunks = c]
    BY <1>1, <1>4
  <2> HIDE DEF c
  <2>8. /\ media' \in [step : {"none", "reading", "done", "failed"}, begin : Offsets,
                       end : Offsets, at : Offsets, chunks : Seq(Events)]
        /\ media'.step = "reading" /\ media'.begin = b /\ media'.end = e
        /\ media'.at = a + EventSize /\ media'.chunks = c
    BY <1>1, <2>3, <2>6, <2>7
  <2>9. MediaInv'
    BY <2>1, <2>4, <2>6, <2>8 DEF MediaInv
  <2> QED BY <1>1, <1>2, <2>8, <2>9, MediaStepKept
<1> QED BY <1>3, <1>4 DEF ReadMedia

LEMMA AnswerMediaInv ==
  ASSUME LiveInv, ServerInv, AnswerMedia, UNCHANGED liveVars PROVE ServerInv'
<1>1. /\ media \in [step : {"none", "reading", "done", "failed"}, begin : Offsets,
                    end : Offsets, at : Offsets, chunks : Seq(Events)]
      /\ media.at \in Nat /\ media.begin \in Nat /\ media.end \in Nat
      /\ requestsLeft \in 0 .. MaxRequests
      /\ media.step = "reading" /\ media.at >= media.end /\ MediaInv
  BY MediaTypes DEF AnswerMedia, ServerInv
<1>2. media' = [media EXCEPT !.step = "done"] /\ UNCHANGED <<range, playlist, shown, requestsLeft>>
  BY DEF AnswerMedia
<1>3. /\ media' \in [step : {"none", "reading", "done", "failed"}, begin : Offsets,
                    end : Offsets, at : Offsets, chunks : Seq(Events)]
      /\ media'.step = "done" /\ media'.begin = media.begin /\ media'.end = media.end
      /\ media'.at = media.at /\ media'.chunks = media.chunks
  BY <1>1, <1>2
<1>4. /\ media.at <= media.end /\ media.begin <= media.at
      /\ Aligned(media.begin) /\ Aligned(media.end) /\ Aligned(media.at)
      /\ media.chunks = [i \in 1 .. EventAt(media.at) - EventAt(media.begin) |->
                           EventAt(media.begin) + i - 1]
  BY <1>1 DEF MediaInv
<1>5. media.at = media.end
  BY <1>1, <1>4
<1>6. MediaInv'
  BY <1>3, <1>4, <1>5 DEF MediaInv
<1> QED BY <1>1, <1>2, <1>3, <1>6, MediaStepKept

------------------------------------------------------------------------------
(* All of it                                                                 *)

LEMMA NothingShown == shown = NoPlaylist /\ indexHead \in Nat => ShownInv
<1> SUFFICES ASSUME shown = NoPlaylist, indexHead \in Nat PROVE ShownInv
  OBVIOUS
<1>1. shown.sequence = 0 /\ shown.segments = << >> /\ shown.endlist = FALSE
  BY DEF NoPlaylist
<1>2. Len(shown.segments) = 0
  BY <1>1
<1>3. \A j \in indexHead + 1 .. 0 : FALSE
  OBVIOUS
<1> QED BY <1>1, <1>2, <1>3 DEF ShownInv

(* The stream under a request. *)
LEMMA LiveKeepsServer ==
  ASSUME LiveInv, LiveInv', ServerInv, LiveNext, UNCHANGED serverVars PROVE ServerInv'
<1>1. Grows
  BY LiveGrows
<1>2. /\ IndexOK(index) /\ IndexOK(index)' /\ StreamTypeOK /\ StreamTypeOK'
  <2>1. IndexOK(index)' /\ StreamTypeOK'
    BY LiveIndexOK, PTL
  <2> QED BY <2>1, LiveIndexOK
<1>3. /\ Len(index) \in Nat /\ Len(index') \in Nat /\ indexHead \in Nat /\ indexHead' \in Nat
      /\ Len(index) <= Len(index') /\ indexHead <= indexHead'
      /\ \A i \in 1 .. Len(index) : index'[i] = index[i]
  BY <1>1, <1>2, LiveTypes DEF Grows, IndexOK, StreamTypeOK
<1>4. UNCHANGED <<range, playlist, shown, media, requestsLeft>>
  BY DEF serverVars
<1>5. /\ ServerTypeOK /\ RequestInv /\ BeginInv /\ MadeInv /\ ShownInv /\ MediaInv
      /\ playlist \in PlaylistRequests /\ range.begin \in Nat /\ range.end \in Nat
      /\ playlist.known.from \in Nat /\ playlist.known.to \in Nat
      /\ shown.sequence \in Nat /\ Len(shown.segments) \in Nat
  BY ServerTypes DEF ServerInv
<1>6. ServerTypeOK'
  BY <1>4, <1>5 DEF ServerTypeOK
<1>7. RequestInv'
  <2>1. NearestInv(playlist.search, index')
    BY <1>2, <1>3, <1>5, NearestGrows DEF RequestInv
  <2>2. BeganAt(playlist.search, indexHead')
    <3>1. BeganAt(playlist.search, indexHead) /\ playlist.search.from \in Nat
      BY <1>5 DEF RequestInv, NearestInv, AnySearch, Search
    <3> QED BY <1>3, <3>1 DEF BeganAt
  <2> QED BY <1>4, <1>5, <2>1, <2>2 DEF RequestInv
<1>8. BeginInv'
  <2> SUFFICES ASSUME playlist.step \in {"end", "read"} PROVE BeginInv'
    BY <1>4 DEF BeginInv
  <2> DEFINE k == playlist.known  first == playlist.first
  <2>1. /\ 1 <= k.from /\ k.from <= first /\ first <= k.to /\ k.to <= Len(index)
        /\ k.from <= indexHead + 1 /\ shown.sequence + 1 <= k.to
        /\ first <= shown.sequence =>
             first = shown.sequence /\ index[first].timestamp = index[first + 1].timestamp
        /\ \A j \in k.from .. first - 1 : Early(j, first)
    BY <1>5 DEF BeginInv
  <2>2. first \in Nat /\ k.from \in Nat /\ k.to \in Nat
    BY <1>5 DEF PlaylistRequests
  <2>3. \A j \in k.from .. first - 1 :
          \/ index'[j].timestamp < range.begin
          \/ j + 1 = first /\ index'[j].timestamp = index'[first].timestamp
    <3>1. first \in 1 .. Len(index) /\ \A j \in k.from .. first - 1 : j \in 1 .. Len(index)
      BY <1>3, <2>1, <2>2
    <3> HIDE DEF first, k
    <3> QED BY <1>3, <2>1, <3>1 DEF Early
  <2>4. k.to <= Len(index') /\ k.from <= indexHead' + 1
    BY <1>3, <2>1, <2>2
  <2>5. first <= shown.sequence =>
          first = shown.sequence /\ index'[first].timestamp = index'[first + 1].timestamp
    <3> SUFFICES ASSUME first <= shown.sequence
                 PROVE  first = shown.sequence
                          /\ index'[first].timestamp = index'[first + 1].timestamp
      OBVIOUS
    <3>1. first \in 1 .. Len(index) /\ first + 1 \in 1 .. Len(index)
      BY <1>3, <2>1, <2>2
    <3> QED BY <1>3, <2>1, <3>1
  <2> QED BY <1>4, <2>1, <2>3, <2>4, <2>5 DEF BeginInv, Early
<1>9. ASSUME NEW x, NEW i \in Nat \ {0}, i + 1 <= Len(index), IsSegment(x, i)
      PROVE  x \in {Gap, [begin |-> index'[i].offset, end |-> index'[i + 1].offset]}
  <2>1. i \in 1 .. Len(index) /\ i + 1 \in 1 .. Len(index)
    BY <1>3, <1>9
  <2> QED BY <1>3, <1>9, <2>1 DEF IsSegment
<1>10. MadeInv'
  <2> SUFFICES ASSUME playlist.step = "read" PROVE MadeInv'
    BY <1>4 DEF MadeInv
  <2> DEFINE made == playlist.made  first == playlist.first  last == playlist.last
             n == playlist.next
  <2>1. /\ first <= last + 1 /\ 1 <= last /\ last <= Len(index) /\ first <= Len(index)
        /\ last < first => index[last].timestamp = index[first].timestamp
        /\ index[last].timestamp >= range.end \/ playlist.known.to <= last
        /\ n \in first .. last + 1
        /\ made.sequence = first - 1
        /\ Len(made.segments) = IF n = first THEN 0 ELSE n - first - 1
        /\ \A i \in 1 .. Len(made.segments) : IsSegment(made.segments[i], made.sequence + i)
        /\ made.endlist => index[last].timestamp >= range.end
    <3>1. first <= playlist.known.to /\ playlist.known.to <= Len(index) /\ first \in Nat
      BY <1>5 DEF BeginInv, PlaylistRequests
    <3> QED BY <1>3, <1>5, <3>1 DEF MadeInv
  <2>2. first \in Nat /\ last \in Nat /\ n \in Nat /\ 1 <= first
    <3>1. 1 <= playlist.known.from /\ playlist.known.from <= first
      BY <1>5 DEF BeginInv
    <3>2. first \in Nat /\ last \in Nat /\ n \in Nat
      BY <1>5 DEF PlaylistRequests
    <3> QED BY <1>5, <3>1, <3>2
  <2>3. last <= Len(index') /\ index'[last] = index[last] /\ index'[first] = index[first]
    BY <1>3, <2>1, <2>2
  <2>4. \A i \in 1 .. Len(made.segments) :
          made.segments[i] \in {Gap, [begin |-> index'[made.sequence + i].offset,
                                      end   |-> index'[made.sequence + i + 1].offset]}
    <3> SUFFICES ASSUME NEW i \in 1 .. Len(made.segments)
                 PROVE  made.segments[i] \in {Gap, [begin |-> index'[made.sequence + i].offset,
                                                    end   |-> index'[made.sequence + i + 1].offset]}
      OBVIOUS
    <3> HIDE DEF n, first, last
    <3>1. made.sequence + i \in Nat \ {0} /\ made.sequence + i + 1 <= Len(index)
      BY <1>3, <2>1, <2>2
    <3> QED BY <1>9, <2>1, <3>1
  <2> QED BY <1>4, <2>1, <2>3, <2>4 DEF MadeInv, IsSegment
<1>11. ShownInv'
  <2> DEFINE last == shown.sequence + Len(shown.segments) + 1
  <2>1. /\ shown # NoPlaylist => last <= Len(index)
        /\ shown.endlist => index[last].timestamp >= range.end
        /\ \A i \in 1 .. Len(shown.segments) :
             IsSegment(shown.segments[i], shown.sequence + i)
        /\ \A j \in indexHead + 1 .. shown.sequence : Early(j, shown.sequence + 1)
    BY <1>5 DEF ShownInv
  <2>2. CASE shown = NoPlaylist
    <3>1. shown' = NoPlaylist
      BY <1>4, <2>2
    <3>2. shown'.sequence = 0 /\ shown'.segments = << >> /\ shown'.endlist = FALSE
      BY <3>1 DEF NoPlaylist
    <3>3. Len(shown'.segments) = 0
      BY <3>2
    <3>4. \A j \in indexHead' + 1 .. 0 : FALSE
      <4>1. \A n \in Nat : \A j \in n + 1 .. 0 : FALSE
        OBVIOUS
      <4> QED BY <1>3, <4>1
    <3> QED BY <3>1, <3>2, <3>3, <3>4 DEF ShownInv
  <2>3. CASE shown # NoPlaylist
    <3>1. last \in 1 .. Len(index) /\ last <= Len(index') /\ index'[last] = index[last]
      BY <1>3, <1>5, <2>1, <2>3
    <3>2. \A i \in 1 .. Len(shown.segments) :
            shown.segments[i] \in {Gap, [begin |-> index'[shown.sequence + i].offset,
                                         end   |-> index'[shown.sequence + i + 1].offset]}
      <4> SUFFICES ASSUME NEW i \in 1 .. Len(shown.segments)
                   PROVE  shown.segments[i] \in
                            {Gap, [begin |-> index'[shown.sequence + i].offset,
                                   end   |-> index'[shown.sequence + i + 1].offset]}
        OBVIOUS
      <4> DEFINE n == shown.sequence  m == Len(shown.segments)  l == Len(index)
      <4>1. shown.sequence + i \in Nat \ {0} /\ shown.sequence + i + 1 <= Len(index)
        <5>1. n \in Nat /\ m \in Nat /\ l \in Nat /\ i \in 1 .. m /\ n + m + 1 <= l
          BY <1>3, <1>5, <2>1, <2>3
        <5> HIDE DEF n, m, l
        <5>2. n + i \in Nat \ {0} /\ n + i + 1 <= l
          BY <5>1
        <5> QED BY <5>2 DEF n, l
      <4> QED BY <1>9, <2>1, <4>1
    <3>3. \A j \in indexHead' + 1 .. shown.sequence :
            \/ index'[j].timestamp < range.begin
            \/ /\ j + 1 = shown.sequence + 1
               /\ index'[j].timestamp = index'[shown.sequence + 1].timestamp
      <4> SUFFICES ASSUME NEW j \in indexHead' + 1 .. shown.sequence
                   PROVE  \/ index'[j].timestamp < range.begin
                          \/ /\ j + 1 = shown.sequence + 1
                             /\ index'[j].timestamp = index'[shown.sequence + 1].timestamp
        OBVIOUS
      <4>1. /\ j \in indexHead + 1 .. shown.sequence /\ j \in 1 .. Len(index)
            /\ shown.sequence + 1 \in 1 .. Len(index)
        <5> DEFINE h == indexHead  g == indexHead'  n == shown.sequence  m == Len(shown.segments)
                   l == Len(index)
        <5>1. /\ h \in Nat /\ g \in Nat /\ h <= g /\ n \in Nat /\ m \in Nat /\ l \in Nat
              /\ n + m + 1 <= l /\ j \in g + 1 .. n
          BY <1>3, <1>5, <2>1, <2>3
        <5> HIDE DEF h, g, n, m, l
        <5>2. j \in h + 1 .. n /\ j \in 1 .. l /\ n + 1 \in 1 .. l
          BY <5>1
        <5> QED BY <5>2 DEF h, n, l
      <4> QED BY <1>3, <2>1, <4>1 DEF Early
    <3> QED BY <1>4, <2>1, <2>3, <3>1, <3>2, <3>3 DEF ShownInv, IsSegment, Early
  <2> QED BY <2>2, <2>3
<1>12. MediaInv'
  BY <1>4, <1>5, MediaKept
<1> QED BY <1>6, <1>7, <1>8, <1>10, <1>11, <1>12 DEF ServerInv

LEMMA ServerInvInit == Init => ServerInv
<1> SUFFICES ASSUME ServerInit, LiveInit PROVE ServerInv
  BY DEF Init
<1>1. ServerTypeOK
  <2>1. NoMedia \in [step : {"none", "reading", "done", "failed"}, begin : Offsets,
                     end : Offsets, at : Offsets, chunks : Seq(Events)]
    BY OffsetsAssumption DEF NoMedia
  <2> QED BY <2>1, EmptyPlaylist, NotAskedType, ServerAssumption
          DEF ServerInit, ServerTypeOK, PlaylistRequests
<1>2. /\ NearestInv(NothingFound, index) /\ NothingFound.key \in TimeKeys
      /\ NothingFound.method = After /\ NothingFound.step = "open"
  BY NewTimeSearch DEF NothingFound, Methods
<1>3. RequestInv /\ BeginInv /\ MadeInv
  <2>1. playlist.search = NothingFound /\ playlist.step = "none"
    BY DEF ServerInit, NotAsked
  <2> QED BY <1>2, <2>1 DEF RequestInv, BeginInv, MadeInv, BeganAt
<1>4. ShownInv
  <2>1. shown = NoPlaylist /\ indexHead \in Nat
    BY DEF ServerInit, LiveInit, StreamInit
  <2> QED BY <2>1, NothingShown
<1>5. MediaInv
  BY DEF ServerInit, MediaInv, NoMedia
<1> QED BY <1>1, <1>3, <1>4, <1>5 DEF ServerInv

AsksInv == asksLeft \in 0 .. MaxAsks

AllInv == ViewersInv /\ ServerInv /\ AsksInv

LEMMA AsksInvNext ==
  ASSUME AsksInv, [Next]_vars PROVE AsksInv'
<1>1. asksLeft' = asksLeft \/ Ask
  BY DEF Next, vars, srcVars, SrcNext, PlayerNext, CheckerNext
<1> QED BY <1>1, SrcAssumption DEF Ask, AsksInv

LEMMA AllInvInit == Init => AllInv
<1>1. Init => AsksInv
  BY SrcAssumption DEF Init, SrcInit, AsksInv
<1> QED BY <1>1, ElementInvInit, ServerInvInit DEF AllInv

LEMMA AllInvNext == AllInv /\ [Next]_vars => AllInv'
<1> SUFFICES ASSUME AllInv, [Next]_vars PROVE AllInv'
  OBVIOUS
<1>1. /\ LiveInv /\ ServerInv /\ ViewersInv' /\ AsksInv'
  BY ElementInvNext, AsksInvNext DEF AllInv, ViewersInv, ElementInv
<1>2. LiveInv'
  BY <1>1 DEF ViewersInv, ElementInv
<1>3. CASE LiveNext /\ UNCHANGED serverVars
  BY <1>1, <1>2, <1>3, LiveKeepsServer DEF AllInv
<1>4. CASE UNCHANGED <<serverVars, liveVars>>
  <2>1. ServerTypeOK' /\ MediaInv' /\ ShownInv'
    BY <1>1, <1>4, ShownKept, MediaKept DEF ServerInv, ServerTypeOK, serverVars, liveVars
  <2>2. RequestInv' /\ BeginInv' /\ MadeInv'
    BY <1>1, <1>4, PlaylistKept DEF ServerInv, serverVars, liveVars
  <2> QED BY <1>1, <2>1, <2>2 DEF ServerInv, AllInv
<1>5. CASE ServerNext /\ UNCHANGED liveVars
  <2>1. CASE AskPlaylist
    BY <1>1, <1>5, <2>1, AskPlaylistInv DEF AllInv
  <2>2. CASE SearchBegin
    BY <1>1, <1>5, <2>2, SearchBeginInv DEF AllInv
  <2>3. CASE SearchEndOfRange
    BY <1>1, <1>5, <2>3, SearchEndOfRangeInv DEF AllInv
  <2>4. CASE ReadRecord
    BY <1>1, <1>5, <2>4, ReadRecordInv DEF AllInv
  <2>5. CASE AnswerPlaylist
    BY <1>1, <1>5, <2>5, AnswerPlaylistInv DEF AllInv
  <2>6. ASSUME NEW i \in 1 .. Len(shown.segments), AskMedia(i) PROVE AllInv'
    BY <1>1, <1>5, <2>6, AskMediaInv DEF AllInv
  <2>7. CASE ReadMedia
    BY <1>1, <1>5, <2>7, ReadMediaInv DEF AllInv
  <2>8. CASE AnswerMedia
    BY <1>1, <1>5, <2>8, AnswerMediaInv DEF AllInv
  <2> QED BY <1>5, <2>1, <2>2, <2>3, <2>4, <2>5, <2>6, <2>7, <2>8
          DEF ServerNext, MakePlaylist, MakeMedia
<1> QED BY <1>3, <1>4, <1>5, ViewersStep

LEMMA AllInvHolds == Spec => []AllInv
BY AllInvInit, AllInvNext, PTL DEF Spec

------------------------------------------------------------------------------
(* What is promised                                                          *)

(* The element, the player, the longevity test, the server and the stream are in
   states that their types name: no search is lost, no position is outside. *)
THEOREM ViewersTypesHold == Spec => []TypeOK
<1>1. AllInv => TypeOK
  <2> SUFFICES ASSUME AllInv PROVE TypeOK
    OBVIOUS
  <2>1. /\ LiveInv /\ ControlInv /\ ReaderInv /\ PlayedInv /\ SearchesInv /\ QueryInv
        /\ SliderInv /\ ValidatorInv /\ ServerInv /\ AsksInv
    BY DEF AllInv, ViewersInv, ElementInv
  <2>2. LiveTypeOK
    BY <2>1 DEF LiveTypeOK, LiveInv, StreamInv
  <2>3. search \in Search([kind : {"timestamp"}, value : Nat])
    BY <2>1, TimeSearch DEF SearchesInv, NearestInv
  <2>4. query \in [step : {"none", "first", "last", "done"},
                   search : Search([kind : {"timestamp"}, value : Nat]),
                   start : Nat, end : Nat]
    <3>1. query.search \in Search([kind : {"timestamp"}, value : Nat])
      BY <2>1, TimeSearch DEF QueryInv, NearestInv
    <3>2. query \in [step : {"none", "first", "last", "done"}, search : AnySearch,
                     start : Nat, end : Nat]
      BY <2>1 DEF QueryInv
    <3> QED BY <3>1, <3>2
  <2>5. SrcTypeOK
    BY <2>1, <2>3, <2>4
       DEF SrcTypeOK, ControlInv, ReaderInv, PlayedInv, SearchesInv, AsksInv
  <2>6. PlayerTypeOK
    BY <2>1 DEF SliderInv, PlayerTypeOK, Slider
  <2>7. CheckerTypeOK /\ ServerTypeOK
    BY <2>1 DEF ValidatorInv, ServerInv
  <2> QED BY <2>2, <2>5, <2>6, <2>7 DEF TypeOK
<1> QED BY AllInvHolds, <1>1, PTL

(* A playlist in the making has every record of the range that was indexed when it
   was asked for, or another one at its place. *)
THEOREM PlaylistCoversRangeHolds == Spec => []PlaylistCoversRange
<1>1. AllInv => PlaylistCoversRange
  <2> SUFFICES ASSUME AllInv, playlist.step = "read",
                      NEW i \in playlist.known.from .. playlist.known.to,
                      index[i].timestamp \in range.begin .. range.end
               PROVE  /\ \E j \in playlist.first .. Len(index) :
                           index[j].offset <= index[i].offset
                      /\ \E j \in 1 .. playlist.last : index[i].offset <= index[j].offset
    BY DEF PlaylistCoversRange
  <2> DEFINE first == playlist.first  last == playlist.last
  <2>1. /\ LiveInv /\ ServerInv /\ BeginInv /\ MadeInv /\ playlist \in PlaylistRequests
        /\ range.begin \in Nat /\ range.end \in Nat
        /\ playlist.known.from \in Nat /\ playlist.known.to \in Nat
    BY ServerTypes DEF AllInv, ViewersInv, ElementInv, ServerInv
  <2>2. /\ 1 <= playlist.known.from /\ playlist.known.from <= first
        /\ first <= playlist.known.to /\ playlist.known.to <= Len(index)
        /\ \A j \in playlist.known.from .. first - 1 : Early(j, first)
    BY <2>1 DEF BeginInv
  <2>3. /\ 1 <= last /\ last <= Len(index)
        /\ index[last].timestamp >= range.end \/ playlist.known.to <= last
    BY <2>1 DEF MadeInv
  <2>4. first \in Nat /\ last \in Nat /\ Len(index) \in Nat
    BY <2>1, LiveTypes DEF PlaylistRequests, LiveInv, StreamInv
  <2>5. i \in 1 .. Len(index) /\ i \in Nat /\ first \in 1 .. Len(index) /\ last \in 1 .. Len(index)
    BY <2>1, <2>2, <2>3, <2>4
  <2>6. \A j \in 1 .. Len(index) : index[j].timestamp \in Nat /\ index[j].offset \in Nat
    BY <2>1, LiveFacts
  <2>7. \A j, k \in 1 .. Len(index) : j <= k => index[j].offset <= index[k].offset
    BY <2>1, LiveFacts
  <2>8. \A j, k \in 1 .. Len(index) :
          j < k /\ ~(index[j].timestamp < index[k].timestamp) => index[j].offset = index[k].offset
    BY <2>1, LiveFacts
  <2> HIDE DEF first, last
  <2>9. index[first].offset <= index[i].offset
    <3>1. CASE first <= i
      BY <2>5, <2>7, <3>1
    <3>2. CASE i < first
      <4>1. Early(i, first)
        BY <2>1, <2>2, <2>4, <2>5, <3>2
      <4>2. ~(index[i].timestamp < index[first].timestamp)
        BY <2>1, <2>5, <2>6, <4>1 DEF Early
      <4> QED BY <2>5, <2>6, <2>8, <3>2, <4>2
    <3> QED BY <2>4, <2>5, <3>1, <3>2
  <2>10. index[i].offset <= index[last].offset
    <3>1. CASE i <= last
      BY <2>5, <2>7, <3>1
    <3>2. CASE last < i
      <4>1. ~(index[last].timestamp < index[i].timestamp)
        BY <2>1, <2>3, <2>4, <2>5, <2>6, <3>2
      <4> QED BY <2>5, <2>6, <2>8, <3>2, <4>1
    <3> QED BY <2>4, <2>5, <3>1, <3>2
  <2>11. first \in playlist.first .. Len(index)
    BY <2>4, <2>5 DEF first
  <2>12. last \in 1 .. playlist.last
    BY <2>4, <2>5 DEF last
  <2> QED BY <2>9, <2>10, <2>11, <2>12
<1> QED BY AllInvHolds, <1>1, PTL

(* A playlist that says it is the last one is: what is indexed behind it is not
   before the end of the range. *)
THEOREM EndListIsFinalHolds == Spec => []EndListIsFinal
<1>1. AllInv => EndListIsFinal
  <2> DEFINE last == shown.sequence + Len(shown.segments) + 1
  <2> SUFFICES ASSUME AllInv PROVE EndListIsFinal
    OBVIOUS
  <2> SUFFICES ASSUME shown.endlist, NEW i \in last + 1 .. Len(index)
               PROVE  index[i].timestamp >= range.end
    <3>1. ServerTypeOK
      BY DEF AllInv, ServerInv
    <3>2. shown.sequence + Len(shown.segments) + 2 = last + 1
      BY <3>1, ServerTypes
    <3> QED BY <3>2 DEF EndListIsFinal
  <2>1. /\ LiveInv /\ ShownInv /\ shown.sequence \in Nat /\ Len(shown.segments) \in Nat
        /\ range.end \in Nat
    BY ServerTypes DEF AllInv, ViewersInv, ElementInv, ServerInv
  <2>2. index[last].timestamp >= range.end
    BY <2>1 DEF ShownInv
  <2>3. i \in 1 .. Len(index) /\ last \in 1 .. Len(index) /\ last <= i
    <3>1. Len(index) \in Nat
      BY <2>1, LiveTypes DEF LiveInv, StreamInv
    <3> QED BY <2>1, <3>1
  <2> HIDE DEF last
  <2>4. /\ index[last].timestamp <= index[i].timestamp
        /\ index[last].timestamp \in Nat /\ index[i].timestamp \in Nat
    BY <2>1, <2>3, LiveFacts
  <2> QED BY <2>1, <2>2, <2>4
<1> QED BY AllInvHolds, <1>1, PTL

(* A segment keeps its media sequence number from one playlist to the next, and the
   numbers go back over empty segments only. *)
THEOREM SequenceNumbersAreStableHold == Spec => SequenceNumbersAreStable
<1> DEFINE Stable ==
      shown # NoPlaylist =>
        /\ \A i \in shown'.sequence + 1 .. shown.sequence :
             index[i].offset = index[i + 1].offset
        /\ \A i \in 1 .. Len(shown.segments), j \in 1 .. Len(shown'.segments) :
             NumberOf(shown, i) = NumberOf(shown', j) =>
               Gap \in {shown.segments[i], shown'.segments[j]}
                 \/ shown.segments[i] = shown'.segments[j]
<1>1. AllInv /\ [Next]_vars => [Stable]_shown
  <2> SUFFICES ASSUME AllInv, [Next]_vars, shown' # shown PROVE Stable
    OBVIOUS
  <2>1. ServerNext
    BY ViewersStep DEF ElementStep, serverVars
  <2>2. AnswerPlaylist
    BY <2>1 DEF ServerNext, MakePlaylist, MakeMedia, AskPlaylist, SearchBegin, SearchEndOfRange,
                ReadRecord, AskMedia, ReadMedia, AnswerMedia
  <2>3. /\ ShownInv /\ BeginInv /\ MadeInv /\ playlist.step = "read"
        /\ playlist \in PlaylistRequests /\ shown.sequence \in Nat
        /\ shown' = playlist.made
    BY <2>2, ServerTypes DEF AllInv, ServerInv, AnswerPlaylist
  <2>4. /\ shown'.sequence = playlist.first - 1
        /\ shown.sequence + 1 <= playlist.known.to /\ playlist.known.to <= Len(index)
        /\ 1 <= playlist.known.from /\ playlist.known.from <= playlist.first
        /\ playlist.first <= shown.sequence =>
             /\ playlist.first = shown.sequence
             /\ index[playlist.first].timestamp = index[playlist.first + 1].timestamp
        /\ \A j \in 1 .. Len(shown'.segments) :
             IsSegment(playlist.made.segments[j], playlist.made.sequence + j)
    BY <2>3 DEF MadeInv, BeginInv
  <2>5. \A i \in 1 .. Len(shown.segments) :
          IsSegment(shown.segments[i], shown.sequence + i)
    BY <2>3 DEF ShownInv
  <2>6. playlist.first \in Nat /\ shown'.sequence \in Nat
    <3>1. playlist.first \in Nat /\ playlist.made.sequence \in Nat
      BY <2>3 DEF PlaylistRequests, Playlists
    <3> QED BY <2>3, <3>1
  <2>7. ASSUME NEW i \in shown'.sequence + 1 .. shown.sequence
        PROVE  index[i].offset = index[i + 1].offset
    <3>1. /\ playlist.known.from \in Nat /\ playlist.known.to \in Nat /\ Len(index) \in Nat
          /\ LiveInv
      BY ServerTypes, LiveTypes
         DEF AllInv, ServerInv, ViewersInv, ElementInv, LiveInv, StreamInv
    <3>2. /\ i = playlist.first /\ i \in 1 .. Len(index) /\ i + 1 \in 1 .. Len(index)
          /\ index[i].timestamp = index[i + 1].timestamp
      <4> DEFINE f == playlist.first  q == shown.sequence  l == Len(index)
                 from == playlist.known.from  to == playlist.known.to
      <4>1. /\ f \in Nat /\ q \in Nat /\ l \in Nat /\ from \in Nat /\ to \in Nat
            /\ i \in f - 1 + 1 .. q /\ q + 1 <= to /\ to <= l /\ 1 <= from /\ from <= f
            /\ f <= q => f = q /\ index[f].timestamp = index[f + 1].timestamp
        BY <2>3, <2>4, <2>6, <3>1
      <4> HIDE DEF f, q, l, from, to
      <4>2. /\ i = f /\ i \in 1 .. l /\ i + 1 \in 1 .. l
            /\ index[i].timestamp = index[i + 1].timestamp
        BY <4>1
      <4> QED BY <4>2 DEF f, l
    <3>3. index[i].timestamp \in Nat /\ i < i + 1
      BY <3>1, <3>2, LiveFacts
    <3>4. ~(index[i].timestamp < index[i + 1].timestamp)
      BY <3>2, <3>3
    <3> QED BY <3>1, <3>2, <3>3, <3>4, LiveFacts
  <2>8. ASSUME NEW i \in 1 .. Len(shown.segments), NEW j \in 1 .. Len(shown'.segments),
               NumberOf(shown, i) = NumberOf(shown', j)
        PROVE  Gap \in {shown.segments[i], shown'.segments[j]}
                 \/ shown.segments[i] = shown'.segments[j]
    <3>1. shown.sequence + i = playlist.made.sequence + j
      <4> DEFINE a == shown.sequence  b == shown'.sequence
      <4>1. a \in Nat /\ b \in Nat /\ i \in Int /\ j \in Int /\ a + i - 1 = b + j - 1
        BY <2>3, <2>6, <2>8 DEF NumberOf
      <4>2. b = playlist.made.sequence
        BY <2>3
      <4> HIDE DEF a, b
      <4>3. a + i = b + j
        BY <4>1
      <4> QED BY <4>2, <4>3 DEF a
    <3>2. IsSegment(shown.segments[i], shown.sequence + i)
      BY <2>5
    <3>3. IsSegment(shown'.segments[j], shown.sequence + i)
      <4>1. IsSegment(playlist.made.segments[j], playlist.made.sequence + j)
        BY <2>4
      <4> QED BY <2>3, <3>1, <4>1
    <3> QED BY <3>2, <3>3 DEF IsSegment
  <2> QED BY <2>7, <2>8
<1> QED BY AllInvHolds, <1>1, PTL DEF Spec, SequenceNumbersAreStable

(* A segment that is answered is whole, whatever is truncated while it is read. *)
THEOREM MediaIsWholeHolds == Spec => []MediaIsWhole
<1>1. AllInv => MediaIsWhole
  <2> SUFFICES ASSUME AllInv, media.step = "done"
               PROVE  media.chunks = [i \in 1 .. EventAt(media.end) - EventAt(media.begin) |->
                                        EventAt(media.begin) + i - 1]
    BY DEF MediaIsWhole
  <2>1. /\ media.at = media.end
        /\ media.chunks = [i \in 1 .. EventAt(media.at) - EventAt(media.begin) |->
                             EventAt(media.begin) + i - 1]
    BY DEF AllInv, ServerInv, MediaInv
  <2> QED BY <2>1
<1> QED BY AllInvHolds, <1>1, PTL

=============================================================================
