----------------------------- MODULE LiveStream -----------------------------
(***************************************************************************)
(* A video stream while others read it: a writer appends events and index  *)
(* records, a truncating process deletes the oldest, and somebody may seal *)
(* the stream.  Every step of theirs is one of VideoStream, which          *)
(* PravegaSink and Retention are shown to implement; here the data is      *)
(* divided into events, each with a timestamp, so that a reader can tell   *)
(* whether what it reads is whole and in order.                            *)
(*                                                                         *)
(* What is assumed of the writer beyond that, LiveRecordsAssumption and    *)
(* the guards of WriteRecord, is what PravegaSinkProofs shows of the index *)
(* of a sink whose buffers follow each other in time.                      *)
(***************************************************************************)
EXTENDS VideoStream

CONSTANTS
  EventSize,   (* the length of an event; 1 if events are appended whole   *)
  EventTimes   (* the timestamps of the events, in the order written       *)

Events == 1 .. Len(EventTimes)

EventBegin(k) == EventSize * (k - 1)
EventEnd(k)   == EventSize * k

(* The event that holds the byte at offset o. *)
EventAt(o) == o \div EventSize + 1

(***************************************************************************)
(* Where a record may point to: every event before its offset is earlier   *)
(* than the record, and none after it is.  That is so of the record of a   *)
(* key frame; of one forced at a delta unit; of one whose buffer was lost  *)
(* with its process, so that another event is at its offset; and of the    *)
(* final record of stop, which has the end of the data and of the last     *)
(* buffer.  Only the first can be decoded from.                            *)
(***************************************************************************)
Brackets(r) ==
  /\ r.offset = EventBegin(EventAt(r.offset))
  /\ \A k \in Events : IF EventBegin(k) < r.offset THEN EventTimes[k] < r.timestamp
                                                  ELSE r.timestamp <= EventTimes[k]

ASSUME EventsAssumption ==
  /\ EventSize \in Nat \ {0}
  /\ EventTimes \in Seq(Nat)
  /\ \A j, k \in Events : j < k => EventTimes[j] < EventTimes[k]

ASSUME LiveRecordsAssumption ==
  /\ Offsets = 0 .. EventEnd(Len(EventTimes))
  /\ Records \subseteq [timestamp : Nat, offset : Offsets, randomAccess : BOOLEAN,
                        final : BOOLEAN]
  /\ \A r \in Records : Brackets(r)

VARIABLE
  sealed       (* no more will be written                                  *)

liveVars == <<dataHead, dataTail, index, indexHead, sealed>>

LiveTypeOK == StreamTypeOK /\ sealed \in BOOLEAN

LiveInit == StreamInit /\ sealed = FALSE

(* More of an event, or of the next one, becomes durable. *)
Write ==
  /\ ~sealed
  /\ dataTail < EventEnd(Len(EventTimes))
  /\ AppendData(dataTail + 1)
  /\ UNCHANGED sealed

(***************************************************************************)
(* The next record, of render or the final one of stop.  It is later than  *)
(* the last one, except that a session may begin at the time at which the  *)
(* one before it has ended.                                                *)
(***************************************************************************)
WriteRecord(r) ==
  /\ ~sealed
  /\ index # << >> =>
       LET last == index[Len(index)]
       IN \/ last.timestamp < r.timestamp
          \/ last.timestamp = r.timestamp /\ last.final /\ ~r.final
  /\ Publish(r)
  /\ UNCHANGED sealed

Seal ==
  /\ ~sealed
  /\ sealed' = TRUE
  /\ UNCHANGED streamVars

(* The two truncations of a pass of the RetentionMaintainer. *)
DropRecords(i) ==
  /\ TruncateIndex(i)
  /\ UNCHANGED sealed

DropData ==
  /\ indexHead < Len(index)
  /\ TruncateData(index[indexHead + 1].offset)
  /\ UNCHANGED sealed

LiveNext ==
  \/ Write
  \/ \E r \in Records : WriteRecord(r)
  \/ Seal
  \/ \E i \in 1 .. Len(index) : DropRecords(i)
  \/ DropData

==============================================================================
