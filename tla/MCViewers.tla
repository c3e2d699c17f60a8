------------------------------ MODULE MCViewers ------------------------------
(* A small instance of Viewers.  Events are appended in two pieces, so that  *)
(* the stream may end in the middle of one.  A playlist has to have several  *)
(* segments, and making it takes few steps: the browser's stream is longer.  *)
EXTENDS Viewers

CONSTANTS NumEvents, NumEventsOfSrc

MCEventTimes   == SubSeq(<<2, 5, 7>>, 1, NumEvents)

Record(timestamp, events, random_access, final) ==
  [timestamp |-> timestamp, offset |-> EventEnd(events),
   randomAccess |-> random_access, final |-> final]

(* The second event is a delta unit, whose record is forced.  A session may  *)
(* end with each event: long before the next one, or just when that begins.  *)
MCRecords ==
  {Record(2, 0, TRUE, FALSE), Record(3, 1, FALSE, TRUE), Record(5, 1, FALSE, FALSE),
   Record(7, 2, FALSE, TRUE), Record(7, 2, TRUE, FALSE), Record(8, 3, FALSE, TRUE)}

MCOffsets      == 0 .. EventSize * NumEvents
MCMaxTimestamp == MCEventTimes[NumEvents] + 1

Setting(start_mode, end_mode, start, end) ==
  [start_mode |-> start_mode, end_mode |-> end_mode,
   start_timestamp |-> start, end_timestamp |-> end]

(* Each start mode and each end mode; times between those of two events. *)
MCSettings ==
  {Setting("no-seek", "latest", 0, 0),
   Setting("latest", "latest-indexed", 0, 0),
   Setting("timestamp", "timestamp", 4, 4),
   Setting("timestamp-exact", "unbounded", 4, 0)}

MCSeekTimes == {0, 5}

(* All of the stream, a part of it that begins and ends in between, and the  *)
(* moment when a session has ended and another begun.                        *)
MCRanges == {[begin |-> 0, end |-> MCMaxTimestamp], [begin |-> 4, end |-> 6],
             [begin |-> 7, end |-> 7]}

MCDiscontinuous == {1, 2}

(* The first frame is always indexed.  If somebody may seek, the writer      *)
(* stops earlier.  To the server a stream that is sealed is like another,    *)
(* and of the sessions the second one ends.                                  *)
MCNext ==
  /\ Next
  /\ index' # << >> => index'[1] = Record(2, 0, TRUE, FALSE)
  /\ viewer = "server" =>
       /\ ~sealed'
       /\ \A i \in 1 .. Len(index') : index'[i].final => index'[i].offset = EventEnd(2)
  /\ viewer # "server" =>
       \A i \in 1 .. Len(index') : index'[i].offset < EventEnd(NumEventsOfSrc)
  /\ viewer \in {"src", "player"} =>
       dataTail' <= EventEnd(NumEventsOfSrc) /\ Len(index') <= 2

(* Only the server has a range. *)
MCInit ==
  /\ Init
  /\ viewer # "server" => range = [begin |-> 7, end |-> 7]

MCSpec == MCInit /\ [][MCNext]_vars /\ Fairness

==============================================================================
