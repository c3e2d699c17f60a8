------------------------------ MODULE Retention ------------------------------
(***************************************************************************)
(* The processes that truncate a video stream while it is being written    *)
(* and searched: the RetentionMaintainer thread of pravegasink, whose life *)
(* is that of the element, and pravega-tools truncate-stream, which        *)
(* anybody may run at any time.  Each locates an index record, truncates   *)
(* the index before it and then the data before the record's offset.       *)
(*                                                                         *)
(* The writer appears by what it promises, AppendData and Publish of       *)
(* VideoStream, which PravegaSink is shown to implement.                   *)
(***************************************************************************)
EXTENDS VideoStream, IndexSearcher

CONSTANTS
  Maintainer,       (* the retention thread                                 *)
  Tools,            (* runs of pravega-tools truncate-stream                *)
  Timestamps,       (* the timestamps a search may be for                   *)
  RetentionByAge,   (* whether the policy has an age limit ...              *)
  RetentionBySize,  (* ... and whether it has a size limit                  *)
  RetentionBytes,   (* that limit                                           *)
  MaxRecords        (* bound: the records written to the index              *)

ASSUME ActorsAssumption == Maintainer \notin Tools

ASSUME PolicyAssumption ==
  /\ RetentionByAge \in BOOLEAN /\ RetentionBySize \in BOOLEAN
  /\ RetentionByAge \/ RetentionBySize
  /\ RetentionBytes \in Nat /\ Timestamps \subseteq Nat /\ MaxRecords \in Nat

ASSUME TimestampsAssumption == \A r \in Records : r.timestamp \in Nat

VARIABLES
  sink,     (* the element: stopped, started, or waiting in stop for the thread *)
  pc,       (* what each actor does next                                    *)
  search    (* each actor's search                                          *)

vars == <<dataHead, dataTail, index, indexHead, sink, pc, search>>

Truncators == {Maintainer} \cup Tools

Keys == {ByTime(ts) : ts \in Timestamps} \cup {BySize(RetentionBytes)}

(* Between passes an actor has no search; its variables are local to one. *)
NoSearch == NewSearch(BySize(RetentionBytes), Before)

(* Every variable has its type, and an actor that truncates has found a record
   that the index has: a failed search is never used. *)
TypeOK ==
  /\ StreamTypeOK
  /\ sink \in {"stopped", "started", "stopping"}
  /\ pc \in [Truncators -> {"off", "age", "size", "search", "truncateData", "wait"}]
  /\ search \in [Truncators -> Search(Keys)]
  /\ \A a \in Truncators : pc[a] = "truncateData" =>
       search[a].step = "found" /\ Result(search[a]) \in 1 .. Len(index)

Init ==
  /\ StreamInit
  /\ sink = "stopped"
  /\ pc = [a \in Truncators |-> "off"]
  /\ search = [a \in Truncators |-> NoSearch]

------------------------------------------------------------------------------
(* The writer.  Its timestamps do not decrease. *)

Write ==
  /\ \/ AppendData(dataTail + 1) /\ dataTail + 1 \in Offsets
     \/ \E r \in Records :
          /\ Len(index) < MaxRecords
          /\ \A i \in 1 .. Len(index) : index[i].timestamp <= r.timestamp
          /\ Publish(r)
  /\ UNCHANGED <<sink, pc, search>>

------------------------------------------------------------------------------
(* The element starts, stops and dies.                                       *)

FirstPass == IF RetentionByAge THEN "age" ELSE "size"

Becomes(a, next) ==
  /\ pc' = [pc EXCEPT ![a] = next]
  /\ search' = [search EXCEPT ![a] = NoSearch]

(* RetentionMaintainer::run spawns the thread. *)
StartSink ==
  /\ sink = "stopped"
  /\ sink' = "started"
  /\ Becomes(Maintainer, FirstPass)
  /\ UNCHANGED streamVars

(* stop sends the thread a message and waits for it to end. *)
StopSink ==
  /\ sink = "started"
  /\ sink' = "stopping"
  /\ UNCHANGED <<streamVars, pc, search>>

JoinThread ==
  /\ sink = "stopping"
  /\ pc[Maintainer] = "off"
  /\ sink' = "stopped"
  /\ UNCHANGED <<streamVars, pc, search>>

Crash ==
  /\ sink # "stopped"
  /\ sink' = "stopped"
  /\ Becomes(Maintainer, "off")
  /\ UNCHANGED streamVars

------------------------------------------------------------------------------
(* Searching.                                                                *)

(* A wrong version: SearchMethod::After, which takes one record more. *)
BeginSearchAfter(a, key) ==
  /\ search' = [search EXCEPT ![a] = NewSearch(key, After)]
  /\ pc' = [pc EXCEPT ![a] = "search"]
  /\ UNCHANGED <<streamVars, sink>>

BeginSearch(a, key) ==
  /\ search' = [search EXCEPT ![a] = NewSearch(key, Before)]
  /\ pc' = [pc EXCEPT ![a] = "search"]
  /\ UNCHANGED <<streamVars, sink>>

(* The age limit counts back from the wall clock, which may read anything. *)
BeginAgePass ==
  /\ pc[Maintainer] = "age"
  /\ \E ts \in Timestamps : BeginSearch(Maintainer, ByTime(ts))

BeginSizePass ==
  /\ pc[Maintainer] = "size"
  /\ BeginSearch(Maintainer, BySize(RetentionBytes))

BeginTool(a) ==
  /\ pc[a] = "off"
  /\ \E ts \in Timestamps : BeginSearch(a, ByTime(ts))

ReadIndex(a) ==
  /\ pc[a] = "search"
  /\ Searching(search[a])
  /\ search' = [search EXCEPT ![a] = ReadNext(@, indexHead, index)]
  /\ UNCHANGED <<streamVars, sink, pc>>

(* What follows a pass: the size limit after the age limit, then a pause. *)
NextPass(a) ==
  IF a # Maintainer THEN "off"
  ELSE IF search[a].key.kind = "timestamp" /\ RetentionBySize THEN "size"
  ELSE "wait"

(* A failed search skips the truncation; the tool unwraps it and dies. *)
SearchFailed(a) ==
  /\ pc[a] = "search"
  /\ search[a].step = "failed"
  /\ Becomes(a, NextPass(a))
  /\ UNCHANGED <<streamVars, sink>>

------------------------------------------------------------------------------
(* Truncating.  A truncation before an offset that is already gone changes   *)
(* nothing.                                                                  *)

Later(m, n) == IF m < n THEN n ELSE m

(* Wrong versions.  The data is truncated first; the record that was found is
   deleted too; an error of the search is ignored; the data is only truncated
   if there was something to truncate in the index. *)
TruncateDataFirst(a) ==
  /\ pc[a] = "search"
  /\ search[a].step = "found"
  /\ dataHead' = Later(dataHead, index[Result(search[a])].offset)
  /\ pc' = [pc EXCEPT ![a] = "truncateData"]
  /\ UNCHANGED <<dataTail, index, indexHead, sink, search>>

TruncateIndexThroughResult(a) ==
  /\ pc[a] = "search"
  /\ search[a].step = "found"
  /\ indexHead' = Later(indexHead, Result(search[a]))
  /\ pc' = [pc EXCEPT ![a] = "truncateData"]
  /\ UNCHANGED <<dataHead, dataTail, index, sink, search>>

TruncateIndexOnError(a) ==
  /\ pc[a] = "search"
  /\ ~Searching(search[a])
  /\ indexHead' = Later(indexHead, Result(search[a]) - 1)
  /\ pc' = [pc EXCEPT ![a] = "truncateData"]
  /\ UNCHANGED <<dataHead, dataTail, index, sink, search>>

TruncateIndexIfNeeded(a) ==
  /\ pc[a] = "search"
  /\ search[a].step = "found"
  /\ IF Result(search[a]) - 1 > indexHead
       THEN /\ indexHead' = Result(search[a]) - 1
            /\ pc' = [pc EXCEPT ![a] = "truncateData"]
            /\ UNCHANGED search
       ELSE UNCHANGED indexHead /\ Becomes(a, NextPass(a))
  /\ UNCHANGED <<dataHead, dataTail, index, sink>>

TruncateIndexBeforeResult(a) ==
  /\ pc[a] = "search"
  /\ search[a].step = "found"
  /\ indexHead' = Later(indexHead, Result(search[a]) - 1)
  /\ pc' = [pc EXCEPT ![a] = "truncateData"]
  /\ UNCHANGED <<dataHead, dataTail, index, sink, search>>

TruncateDataBeforeResult(a) ==
  /\ pc[a] = "truncateData"
  /\ dataHead' = Later(dataHead, index[Result(search[a])].offset)
  /\ Becomes(a, NextPass(a))
  /\ UNCHANGED <<dataTail, index, indexHead, sink>>

(* An error in either truncation is unwrapped: the thread or the tool dies. *)
TruncationPanics(a) ==
  /\ \/ pc[a] = "search" /\ search[a].step = "found"
     \/ pc[a] = "truncateData"
  /\ Becomes(a, "off")
  /\ UNCHANGED <<streamVars, sink>>

(* A wrong version: only a closed channel ends the thread. *)
StopThreadIfDisconnected ==
  /\ pc[Maintainer] = "wait"
  /\ sink = "stopped"
  /\ Becomes(Maintainer, "off")
  /\ UNCHANGED <<streamVars, sink>>

(* recv_timeout: the message that stop has sent, or the interval is over. *)
StopThread ==
  /\ pc[Maintainer] = "wait"
  /\ sink = "stopping"
  /\ Becomes(Maintainer, "off")
  /\ UNCHANGED <<streamVars, sink>>

IntervalOver ==
  /\ pc[Maintainer] = "wait"
  /\ sink # "stopping"
  /\ Becomes(Maintainer, FirstPass)
  /\ UNCHANGED <<streamVars, sink>>

------------------------------------------------------------------------------
TruncatorStep(a) ==
  \/ ReadIndex(a)
  \/ SearchFailed(a)
  \/ TruncateIndexBeforeResult(a)
  \/ TruncateDataBeforeResult(a)

MaintainerStep ==
  \/ BeginAgePass
  \/ BeginSizePass
  \/ TruncatorStep(Maintainer)
  \/ StopThread
  \/ IntervalOver

Next ==
  \/ Write
  \/ StartSink \/ StopSink \/ JoinThread \/ Crash
  \/ MaintainerStep
  \/ \E a \in Tools : BeginTool(a) \/ TruncatorStep(a)
  \/ \E a \in Truncators : TruncationPanics(a)

(***************************************************************************)
(* The operating system runs every thread, and the calls to the server     *)
(* return.  Nothing makes anybody write, start, stop, crash or run a tool. *)
(***************************************************************************)
Fairness ==
  /\ WF_vars(MaintainerStep)
  /\ WF_vars(JoinThread)

Spec == Init /\ [][Next]_vars

FairSpec == Spec /\ Fairness

------------------------------------------------------------------------------
(***************************************************************************)
(* Retention by age never deletes an index record, and so never the events *)
(* it begins, unless everything up to the next record is older than the    *)
(* limit ("data older than 'retention-days' will be deleted").             *)
(***************************************************************************)
DeletesOnlyOld ==
  [][\A a \in Truncators :
       /\ pc[a] = "search" /\ pc'[a] = "truncateData"
       /\ search[a].key.kind = "timestamp"
       => \A i \in indexHead + 1 .. indexHead' :
            index[i + 1].timestamp <= search[a].key.value]_vars

(***************************************************************************)
(* Retention by size deletes no more than it must: what was left when the  *)
(* index was searched is still at least the limit, and dropping one record *)
(* more would have gone below it.                                          *)
(***************************************************************************)
KeepsSizeLimit ==
  [][\A a \in Truncators :
       /\ pc[a] = "search" /\ pc'[a] = "truncateData"
       /\ search[a].key.kind = "size"
       /\ indexHead' > indexHead
       => LET i == Result(search[a])
              left(j) == search[a].tailOffset - index[j].offset
          IN /\ left(i) >= RetentionBytes
             /\ i < search[a].to => left(i + 1) <= RetentionBytes]_vars

(***************************************************************************)
(* Retention by size as its property promises it: the oldest data is       *)
(* deleted "so that the data size does not exceed 'retention-bytes'".  A   *)
(* pass leaves no more than that of the data it knew to be there.          *)
(***************************************************************************)
DataSizeIsBounded ==
  [][/\ pc[Maintainer] = "truncateData" /\ pc'[Maintainer] = "wait"
     /\ search[Maintainer].key.kind = "size"
     => search[Maintainer].tailOffset - dataHead' <= RetentionBytes]_vars

(* Every search that succeeds returns the nearest record. *)
SearchFindsNearest ==
  \A a \in Truncators : search[a].step = "found" => IsNearest(search[a], index)

(* The two truncations of a pass meet again: no data is left unreachable
   before the first index record while the thread lives. *)
Orphaned == indexHead < Len(index) /\ dataHead < index[indexHead + 1].offset

OrphansAreReclaimed ==
  Orphaned ~> (~Orphaned \/ pc[Maintainer] = "off")

(* stop returns: it never waits for a thread that does not end. *)
StopReturns == sink = "stopping" ~> sink = "stopped"

(* The loop of the binary search ends, whatever is appended or truncated. *)
SearchEnds ==
  (pc[Maintainer] = "search" /\ Searching(search[Maintainer]))
    ~> (pc[Maintainer] # "search" \/ ~Searching(search[Maintainer]))

==============================================================================
