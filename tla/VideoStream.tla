----------------------------- MODULE VideoStream -----------------------------
(***************************************************************************)
(* What a GStreamer video stream in Pravega promises to the processes that *)
(* read it: a data stream of events and an index stream of records that    *)
(* point into it.  This is the first constraint of the list above          *)
(* IndexRecordWriter in pravega-video/src/index.rs, written as a state     *)
(* machine.  Only what the server holds is visible here; buffers of the    *)
(* writing process are not.                                                *)
(*                                                                         *)
(* PravegaSink (the writer) and Retention (the truncating processes) are   *)
(* each shown to implement this module.                                    *)
(***************************************************************************)
EXTENDS Integers, Sequences

CONSTANTS
  Records,   (* the index records that may be written; each has an offset  *)
  Offsets    (* the offsets of the data stream: event boundaries           *)

ASSUME OffsetsAssumption == Offsets \subseteq Nat /\ 0 \in Offsets
ASSUME RecordsAssumption == \A r \in Records : r.offset \in Offsets

VARIABLES
  dataHead,    (* data before this offset has been truncated               *)
  dataTail,    (* data before this offset has been persisted               *)
  index,       (* every record ever persisted in the index stream          *)
  indexHead    (* the records 1..indexHead of index have been truncated    *)

streamVars == <<dataHead, dataTail, index, indexHead>>

StreamTypeOK ==
  /\ dataHead \in Offsets
  /\ dataTail \in Offsets
  /\ index \in Seq(Records)
  /\ indexHead \in Nat

StreamInit ==
  /\ dataHead = 0
  /\ dataTail = 0
  /\ index = << >>
  /\ indexHead = 0

(* The server persists data up to offset o. *)
AppendData(o) ==
  /\ o > dataTail
  /\ dataTail' = o
  /\ UNCHANGED <<dataHead, index, indexHead>>

(***************************************************************************)
(* The server persists an index record.  The data before the record's      *)
(* offset is already there, so a reader that goes from one record to the   *)
(* next never waits for the writer.                                        *)
(***************************************************************************)
Publish(r) ==
  /\ r.offset <= dataTail
  /\ \A i \in 1 .. Len(index) : index[i].offset <= r.offset
  /\ index' = Append(index, r)
  /\ UNCHANGED <<dataHead, dataTail, indexHead>>

(* The index is truncated before record i, which remains. *)
TruncateIndex(i) ==
  /\ indexHead < i
  /\ indexHead' = i - 1
  /\ UNCHANGED <<dataHead, dataTail, index>>

(* The data is truncated, but never past the first record that remains. *)
TruncateData(o) ==
  /\ dataHead < o
  /\ indexHead < Len(index)
  /\ o <= index[indexHead + 1].offset
  /\ dataHead' = o
  /\ UNCHANGED <<dataTail, index, indexHead>>

StreamNext ==
  \/ \E o \in Offsets : AppendData(o)
  \/ \E r \in Records : Publish(r)
  \/ \E i \in 1 .. Len(index) : TruncateIndex(i)
  \/ \E o \in Offsets : TruncateData(o)

StreamSpec == StreamInit /\ [][StreamNext]_streamVars

(***************************************************************************)
(* Whatever record of the index a reader finds, the data from the first    *)
(* record up to it is there: written, and not truncated.                   *)
(***************************************************************************)
Readable ==
  /\ indexHead < Len(index) => dataHead <= index[indexHead + 1].offset
  /\ \A i \in 1 .. Len(index) : index[i].offset <= dataTail

(* The records point further and further into the data stream. *)
OffsetsOrdered ==
  \A i, j \in 1 .. Len(index) : i <= j => index[i].offset <= index[j].offset

(* An index that has records keeps at least one, so a reader finds data. *)
NeverEmptied == index # << >> => indexHead < Len(index)

==============================================================================
