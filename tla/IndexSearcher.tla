---------------------------- MODULE IndexSearcher ----------------------------
(***************************************************************************)
(* The binary search of pravega-video/src/index.rs, one read of the index  *)
(* stream at a time.  Each operator Read... takes the search and the index *)
(* as it is when that read is made, and returns the search after it: the   *)
(* writer may append and a truncating process may delete records between   *)
(* two reads.                                                              *)
(*                                                                         *)
(* A record is named by its number, counted from 1: record i is at byte    *)
(* offset RECORD_SIZE * (i - 1) of the index stream.  Records 1..head have *)
(* been truncated, and a read of one of them fails.                        *)
(*                                                                         *)
(* search_timestamp_and_return_index_offset and                            *)
(* search_size_and_return_index_offset are the same loop; they differ in   *)
(* how a record is compared with the desired value and in which of the two *)
(* ends they test first.                                                   *)
(***************************************************************************)
EXTENDS Integers, Sequences

Before == "Before"   \* SearchMethod::Before
After  == "After"    \* SearchMethod::After

Methods == {Before, After}

(* What is searched for: a timestamp, or a distance from the tail in bytes. *)
ByTime(ts)    == [kind |-> "timestamp", value |-> ts]
BySize(bytes) == [kind |-> "size", value |-> bytes]

Steps == {"open", "last", "first", "middle", "end", "found", "failed"}

(***************************************************************************)
(* A search: lo and hi are first_index_offset and last_index_offset, which *)
(* the loop narrows; from and to remember the bounds it began with.        *)
(***************************************************************************)
Search(Keys) ==
  [step : Steps, key : Keys, method : Methods,
   from : Nat, to : Nat, lo : Nat, hi : Nat, tailOffset : Nat]

NewSearch(key, method) ==
  [step |-> "open", key |-> key, method |-> method,
   from |-> 1, to |-> 0, lo |-> 1, hi |-> 0, tailOffset |-> 0]

(***************************************************************************)
(* Where the desired value lies relative to record r.  Older records have  *)
(* smaller timestamps and larger distances from the tail.                  *)
(***************************************************************************)
IsOlderThan(s, r) ==
  IF s.key.kind = "timestamp" THEN s.key.value < r.timestamp
                              ELSE s.key.value > s.tailOffset - r.offset

IsNewerThan(s, r) ==
  IF s.key.kind = "timestamp" THEN s.key.value > r.timestamp
                              ELSE s.key.value < s.tailOffset - r.offset

Found(s, i) == [s EXCEPT !.step = "found", !.lo = i, !.hi = i]
Failed(s)   == [s EXCEPT !.step = "failed"]

(* A record can be read until it is truncated. *)
CanRead(i, head, index) == head < i /\ i <= Len(index)

(* current_head, then seek(End): the records of the index at this moment.  *)
ReadBounds(s, head, index) ==
  IF head < Len(index)
    THEN [s EXCEPT !.step = "last", !.from = head + 1, !.to = Len(index),
                   !.lo = head + 1, !.hi = Len(index)]
    ELSE Failed(s)

(* A search by timestamp ends here if nothing is newer than what it wants. *)
ReadLast(s, head, index) ==
  IF ~CanRead(s.hi, head, index) THEN Failed(s)
  ELSE IF s.key.kind = "timestamp" /\ ~IsOlderThan(s, index[s.hi])
    THEN Found(s, s.hi)
    ELSE [s EXCEPT !.step = "first", !.tailOffset = index[s.hi].offset]

(* Both searches end here if nothing is older than what they want. *)
ReadFirst(s, head, index) ==
  IF ~CanRead(s.lo, head, index) THEN Failed(s)
  ELSE IF ~IsNewerThan(s, index[s.lo])
    THEN Found(s, s.lo)
    ELSE [s EXCEPT !.step = "middle"]

(* A wrong version: the middle record stays in the range. *)
ReadMiddleAgain(s, head, index) ==
  LET middle == (s.lo + s.hi) \div 2
      lo     == IF IsNewerThan(s, index[middle]) THEN middle ELSE s.lo
      hi     == IF IsOlderThan(s, index[middle]) THEN middle ELSE s.hi
  IN IF ~CanRead(middle, head, index) THEN Failed(s)
     ELSE IF ~IsOlderThan(s, index[middle]) /\ ~IsNewerThan(s, index[middle])
       THEN Found(s, middle)
       ELSE [s EXCEPT !.lo = lo, !.hi = hi,
                      !.step = IF lo > hi THEN "end" ELSE "middle"]

(* One iteration of the loop.  It ends when first is past last. *)
ReadMiddle(s, head, index) ==
  LET middle == (s.lo + s.hi) \div 2
      lo     == IF IsNewerThan(s, index[middle]) THEN middle + 1 ELSE s.lo
      hi     == IF IsOlderThan(s, index[middle]) THEN middle - 1 ELSE s.hi
  IN IF ~CanRead(middle, head, index) THEN Failed(s)
     ELSE IF ~IsOlderThan(s, index[middle]) /\ ~IsNewerThan(s, index[middle])
       THEN Found(s, middle)
       ELSE [s EXCEPT !.lo = lo, !.hi = hi,
                      !.step = IF lo > hi THEN "end" ELSE "middle"]

(* A wrong version: the record on the other side is returned. *)
ReadOtherEnd(s, head, index) ==
  LET i == IF s.method = Before THEN s.lo ELSE s.hi
  IN IF CanRead(i, head, index) THEN Found(s, i) ELSE Failed(s)

(* The record on the requested side of the gap is read again and returned. *)
ReadEnd(s, head, index) ==
  LET i == IF s.method = Before THEN s.hi ELSE s.lo
  IN IF CanRead(i, head, index) THEN Found(s, i) ELSE Failed(s)

ReadNext(s, head, index) ==
  CASE s.step = "open"   -> ReadBounds(s, head, index)
    [] s.step = "last"   -> ReadLast(s, head, index)
    [] s.step = "first"  -> ReadFirst(s, head, index)
    [] s.step = "middle" -> ReadMiddle(s, head, index)
    [] s.step = "end"    -> ReadEnd(s, head, index)

Searching(s) == s.step \notin {"found", "failed"}

(* The record a search has found. *)
Result(s) == s.lo

(***************************************************************************)
(* What the comments above the search functions promise of an index whose  *)
(* records are in order: of the records that were there when the search    *)
(* began, the last one at or before the desired value (Before) or the      *)
(* first one at or after it (After); the nearest end if there is none.     *)
(***************************************************************************)
IsNearest(s, index) ==
  LET i == Result(s)
  IN /\ i \in s.from .. s.to
     /\ s.method = Before =>
          /\ \A j \in i + 1 .. s.to : ~IsNewerThan(s, index[j])
          /\ i # s.from => ~IsOlderThan(s, index[i])
     /\ s.method = After =>
          /\ \A j \in s.from .. i - 1 : ~IsOlderThan(s, index[j])
          /\ i # s.to => ~IsNewerThan(s, index[i])

==============================================================================
