---------------------------- MODULE MCRetention ----------------------------
(* A small instance of Retention.  A search may be for a timestamp between   *)
(* those of two records.  Records of different timestamps may point at the   *)
(* same offset, and records of the same timestamp may not be at the same     *)
(* offset, as after a restart of the element.                                *)
EXTENDS Retention

CONSTANTS MaxTimestamp, MaxOffset

MCTimestamps == 2 .. MaxTimestamp
MCOffsets    == 0 .. MaxOffset
MCRecords    == [timestamp : {ts \in 1 .. MaxTimestamp : ts % 2 = 1}, offset : MCOffsets]

============================================================================
