--------------------------- MODULE RetentionProofs ---------------------------
(***************************************************************************)
(* Retention keeps its types and implements VideoStream, for any number of *)
(* concurrent truncating processes, any records and any limits.            *)
(***************************************************************************)
EXTENDS Retention, VideoStreamProofs, IndexSearcherProofs

(* A search that has bounds has records between them, and what it has found is a
   record of the index; it stays one, for the index only grows at its end. *)
SearchInv(s) ==
  /\ s \in Search(Keys)
  /\ s.step \in {"last", "first", "middle"} => 1 <= s.lo /\ s.lo <= s.hi
  /\ s.step = "found" => s.lo \in 1 .. Len(index)

(* The record before which the data is to be truncated is, by then, not behind
   the first record of the index: the index has been truncated before it. *)
TruncationInv(a) ==
  pc[a] = "truncateData" =>
    /\ search[a].step = "found"
    /\ Result(search[a]) - 1 <= indexHead

RetentionInv ==
  /\ StreamInv
  /\ sink \in {"stopped", "started", "stopping"}
  /\ pc \in [Truncators -> {"off", "age", "size", "search", "truncateData", "wait"}]
  /\ search \in [Truncators -> Search(Keys)]
  /\ \A a \in Truncators : SearchInv(search[a]) /\ TruncationInv(a)

LEMMA NoSearchInv == SearchInv(NoSearch)
<1>1. NoSearch \in Search(Keys)
  BY DEF NoSearch, NewSearch, Search, Keys, BySize, Steps, Methods, Before
<1> QED BY <1>1 DEF SearchInv, NoSearch, NewSearch

LEMMA NewSearchInv ==
  ASSUME NEW key \in Keys PROVE SearchInv(NewSearch(key, Before))
BY DEF SearchInv, NewSearch, Search, Steps, Methods, Before

(* One read of the index keeps the invariant of the search. *)
LEMMA ReadNextInv ==
  ASSUME StreamTypeOK, NEW s, SearchInv(s), Searching(s)
  PROVE  SearchInv(ReadNext(s, indexHead, index))
<1>1. /\ Len(index) \in Nat /\ indexHead \in Nat
      /\ \A i \in 1 .. Len(index) : index[i].offset \in Nat
  BY IndexType DEF StreamTypeOK
<1>2. /\ s = [step |-> s.step, key |-> s.key, method |-> s.method, from |-> s.from,
              to |-> s.to, lo |-> s.lo, hi |-> s.hi, tailOffset |-> s.tailOffset]
      /\ s.step \in Steps /\ s.key \in Keys /\ s.method \in Methods
      /\ s.from \in Nat /\ s.to \in Nat /\ s.lo \in Nat /\ s.hi \in Nat
      /\ s.tailOffset \in Nat
  BY DEF SearchInv, Search
<1>3. SearchInv(Failed(s))
  BY <1>2 DEF SearchInv, Search, Failed, Steps
<1>4. ASSUME NEW i \in Nat, CanRead(i, indexHead, index) PROVE SearchInv(Found(s, i))
  <2>1. i \in 1 .. Len(index)
    BY <1>1, <1>4 DEF CanRead
  <2> QED BY <1>2, <2>1 DEF SearchInv, Search, Found, Steps
<1>5. CASE s.step = "open"
  <2>1. SearchInv(ReadBounds(s, indexHead, index))
    <3>1. CASE indexHead < Len(index)
      <4> DEFINE next == [s EXCEPT !.step = "last", !.from = indexHead + 1, !.to = Len(index),
                                   !.lo = indexHead + 1, !.hi = Len(index)]
      <4>1. ReadBounds(s, indexHead, index) = next
        BY <3>1 DEF ReadBounds
      <4>2. SearchInv(next)
        <5>1. next.step = "last" /\ next.lo = indexHead + 1 /\ next.hi = Len(index)
          BY <1>2
        <5>2. next \in Search(Keys)
          <6>1. s \in Search(Keys) /\ indexHead + 1 \in Nat /\ Len(index) \in Nat
            BY <1>1 DEF SearchInv
          <6> QED BY <6>1 DEF Search, Steps
        <5>3. 1 <= next.lo /\ next.lo <= next.hi
          BY <1>1, <3>1, <5>1
        <5> HIDE DEF next
        <5> QED BY <5>1, <5>2, <5>3 DEF SearchInv
      <4> QED BY <4>1, <4>2
    <3> QED BY <1>3, <3>1 DEF ReadBounds
  <2> QED BY <1>5, <2>1 DEF ReadNext
<1>6. CASE s.step = "last"
  <2>1. ReadNext(s, indexHead, index) = ReadLast(s, indexHead, index)
    BY <1>6 DEF ReadNext
  <2>2. CASE ~CanRead(s.hi, indexHead, index)
    BY <1>3, <2>1, <2>2 DEF ReadLast
  <2>3. CASE CanRead(s.hi, indexHead, index)
    <3>1. SearchInv(Found(s, s.hi))
      BY <1>2, <1>4, <2>3
    <3>2. SearchInv([s EXCEPT !.step = "first", !.tailOffset = index[s.hi].offset])
      <4>1. index[s.hi].offset \in Nat
        BY <1>1, <1>2, <2>3 DEF CanRead
      <4> QED BY <1>2, <1>6, <4>1 DEF SearchInv, Search, Steps
    <3> QED BY <2>1, <2>3, <3>1, <3>2 DEF ReadLast
  <2> QED BY <2>2, <2>3
<1>7. CASE s.step = "first"
  <2>1. ReadNext(s, indexHead, index) = ReadFirst(s, indexHead, index)
    BY <1>7 DEF ReadNext
  <2>2. CanRead(s.lo, indexHead, index) => SearchInv(Found(s, s.lo))
    BY <1>2, <1>4
  <2>3. SearchInv([s EXCEPT !.step = "middle"])
    BY <1>2, <1>7 DEF SearchInv, Search, Steps
  <2> QED BY <1>3, <2>1, <2>2, <2>3 DEF ReadFirst
<1>8. CASE s.step = "middle"
  <2> DEFINE middle == (s.lo + s.hi) \div 2
             lo     == IF IsNewerThan(s, index[middle]) THEN middle + 1 ELSE s.lo
             hi     == IF IsOlderThan(s, index[middle]) THEN middle - 1 ELSE s.hi
             next   == [s EXCEPT !.lo = lo, !.hi = hi,
                                 !.step = IF lo > hi THEN "end" ELSE "middle"]
  <2>1. ReadNext(s, indexHead, index) = ReadMiddle(s, indexHead, index)
    BY <1>8 DEF ReadNext
  <2>2. 1 <= s.lo /\ s.lo <= s.hi
    BY <1>8 DEF SearchInv
  <2>3. middle \in Nat /\ 1 <= middle
    BY <1>2, <2>2
  <2>4. CanRead(middle, indexHead, index) => SearchInv(Found(s, middle))
    BY <1>4, <2>3
  <2>5. lo \in Nat /\ hi \in Nat /\ 1 <= lo
    BY <1>2, <2>2, <2>3
  <2>6. SearchInv(next)
    <3> HIDE DEF lo, hi
    <3>1. /\ next.step = (IF lo > hi THEN "end" ELSE "middle")
          /\ next.lo = lo /\ next.hi = hi
      BY <1>2
    <3>2. next \in Search(Keys)
      BY <1>2, <2>5 DEF Search, Steps
    <3> HIDE DEF next
    <3> QED BY <2>5, <3>1, <3>2 DEF SearchInv
  <2> QED BY <1>3, <2>1, <2>4, <2>6 DEF ReadMiddle
<1>9. CASE s.step = "end"
  <2> DEFINE i == IF s.method = Before THEN s.hi ELSE s.lo
  <2>1. i \in Nat
    BY <1>2
  <2>2. CanRead(i, indexHead, index) => SearchInv(Found(s, i))
    BY <1>4, <2>1
  <2>3. ReadNext(s, indexHead, index) = ReadEnd(s, indexHead, index)
    BY <1>9 DEF ReadNext
  <2> QED BY <1>3, <2>2, <2>3 DEF ReadEnd
<1> QED BY <1>2, <1>5, <1>6, <1>7, <1>8, <1>9 DEF Searching, Steps

------------------------------------------------------------------------------
LEMMA RetentionInvInit == Init => RetentionInv
<1> SUFFICES ASSUME Init PROVE RetentionInv
  OBVIOUS
<1>1. StreamInv
  BY StreamInvInit DEF Init
<1>2. \A a \in Truncators : search[a] = NoSearch /\ pc[a] = "off"
  BY DEF Init
<1>3. \A a \in Truncators : SearchInv(search[a]) /\ TruncationInv(a)
  BY <1>2, NoSearchInv DEF TruncationInv
<1>4. search \in [Truncators -> Search(Keys)]
  BY NoSearchInv DEF Init, SearchInv
<1> QED BY <1>1, <1>3, <1>4 DEF Init, RetentionInv

(* The index only grows at its end and only shrinks at its head. *)
LEMMA IndexGrows ==
  ASSUME StreamTypeOK, [StreamNext]_streamVars
  PROVE  Len(index) \in Nat /\ Len(index) <= Len(index') /\ indexHead <= indexHead'
<1>1. Len(index) \in Nat /\ indexHead \in Nat /\ index \in Seq(Records)
  BY IndexType DEF StreamTypeOK
<1>2. ASSUME NEW r \in Records, Publish(r) PROVE Len(index') = Len(index) + 1
  BY <1>1, <1>2, AppendType DEF Publish
<1>3. ASSUME NEW i \in 1 .. Len(index), TruncateIndex(i)
      PROVE  UNCHANGED index /\ indexHead <= indexHead'
  BY <1>1, <1>3 DEF TruncateIndex
<1>4. CASE \E r \in Records : Publish(r)
  BY <1>1, <1>2, <1>4 DEF Publish
<1>5. CASE \E i \in 1 .. Len(index) : TruncateIndex(i)
  BY <1>1, <1>3, <1>5
<1>6. CASE UNCHANGED <<index, indexHead>>
  BY <1>1, <1>6
<1> QED BY <1>4, <1>5, <1>6 DEF StreamNext, AppendData, TruncateData, streamVars

(***************************************************************************)
(* In every step at most one actor moves.  If the streams change as they   *)
(* may, the invariant of the others is kept, so only the one that moves    *)
(* needs a proof.                                                          *)
(***************************************************************************)
Places == {"off", "age", "size", "search", "truncateData", "wait"}

LEMMA ActorMoves ==
  ASSUME RetentionInv,
         [StreamNext]_streamVars,
         sink' \in {"stopped", "started", "stopping"},
         NEW a \in Truncators,
         pc' \in [Truncators -> Places],
         \A b \in Truncators \ {a} : pc'[b] = pc[b] /\ search'[b] = search[b],
         DOMAIN search' = Truncators /\ search' = [b \in Truncators |-> search'[b]],
         SearchInv(search[a])',
         TruncationInv(a)'
  PROVE  RetentionInv'
<1>1. StreamInv'
  BY StreamInvNext DEF RetentionInv
<1>2. Len(index) \in Nat /\ Len(index) <= Len(index') /\ indexHead <= indexHead'
      /\ indexHead \in Nat /\ indexHead' \in Nat /\ Len(index') \in Nat
  <2>1. StreamTypeOK /\ StreamTypeOK'
    BY <1>1 DEF RetentionInv, StreamInv
  <2>2. Len(index') \in Nat /\ indexHead' \in Nat /\ indexHead \in Nat
    BY <2>1 DEF StreamTypeOK
  <2> QED BY <2>1, <2>2, IndexGrows
<1>3. ASSUME NEW b \in Truncators, b # a
      PROVE  SearchInv(search[b])' /\ TruncationInv(b)'
  <2>1. SearchInv(search[b]) /\ TruncationInv(b) /\ search[b] \in Search(Keys)
    BY DEF RetentionInv
  <2>2. pc'[b] = pc[b] /\ search'[b] = search[b]
    BY <1>3
  <2>3. SearchInv(search[b])'
    BY <1>2, <2>1, <2>2 DEF SearchInv
  <2>4. search[b].lo \in Nat
    BY <2>1 DEF Search
  <2>5. TruncationInv(b)'
    BY <1>2, <2>1, <2>2, <2>4 DEF TruncationInv, Result
  <2> QED BY <2>3, <2>5
<1>4. \A b \in Truncators : SearchInv(search[b])' /\ TruncationInv(b)'
  BY <1>3
<1>5. search' \in [Truncators -> Search(Keys)]
  BY <1>4 DEF SearchInv
<1> QED BY <1>1, <1>4, <1>5 DEF RetentionInv, Places

------------------------------------------------------------------------------
(* A found record is one of the index. *)
LEMMA FoundInIndex ==
  ASSUME RetentionInv, NEW a \in Truncators, search[a].step = "found"
  PROVE  /\ Result(search[a]) \in 1 .. Len(index)
         /\ index[Result(search[a])].offset \in Offsets
         /\ Len(index) \in Nat /\ indexHead \in Nat /\ indexHead < Len(index)
<1>1. StreamInv /\ SearchInv(search[a])
  BY DEF RetentionInv
<1>2. Result(search[a]) \in 1 .. Len(index)
  BY <1>1 DEF SearchInv, Result
<1>3. StreamTypeOK /\ NeverEmptied
  BY <1>1 DEF StreamInv
<1>4. /\ Len(index) \in Nat
      /\ index = << >> <=> Len(index) = 0
      /\ \A i \in 1 .. Len(index) : index[i] \in Records
  BY <1>3, IndexType
<1>5. index # << >>
  BY <1>2, <1>4
<1> QED BY <1>2, <1>3, <1>4, <1>5, RecordsAssumption DEF StreamTypeOK, NeverEmptied

(* The two truncations are steps of VideoStream, or change nothing. *)
LEMMA TruncateIndexImplements ==
  ASSUME RetentionInv, NEW a \in Truncators, TruncateIndexBeforeResult(a)
  PROVE  [StreamNext]_streamVars /\ Result(search[a]) - 1 <= indexHead'
<1> DEFINE i == Result(search[a])
<1>1. /\ i \in 1 .. Len(index) /\ Len(index) \in Nat /\ indexHead \in Nat
  BY FoundInIndex DEF TruncateIndexBeforeResult
<1>2. /\ indexHead' = Later(indexHead, i - 1)
      /\ UNCHANGED <<dataHead, dataTail, index>>
  BY DEF TruncateIndexBeforeResult
<1> HIDE DEF i
<1>3. CASE indexHead < i - 1
  <2>1. TruncateIndex(i)
    BY <1>1, <1>2, <1>3 DEF Later, TruncateIndex
  <2>2. i - 1 <= indexHead'
    BY <1>1, <1>2, <1>3 DEF Later
  <2> QED BY <1>1, <2>1, <2>2 DEF StreamNext, i
<1>4. CASE ~(indexHead < i - 1)
  <2>1. UNCHANGED streamVars /\ i - 1 <= indexHead'
    BY <1>1, <1>2, <1>4 DEF Later, streamVars
  <2> QED BY <2>1 DEF i
<1> QED BY <1>3, <1>4

LEMMA TruncateDataImplements ==
  ASSUME RetentionInv, NEW a \in Truncators, TruncateDataBeforeResult(a)
  PROVE  [StreamNext]_streamVars
<1> DEFINE i == Result(search[a])
           o == index[i].offset
<1>1. search[a].step = "found" /\ i - 1 <= indexHead
  BY DEF RetentionInv, TruncationInv, TruncateDataBeforeResult
<1>2. /\ i \in 1 .. Len(index) /\ o \in Offsets /\ Len(index) \in Nat
      /\ indexHead \in Nat /\ indexHead < Len(index)
  BY <1>1, FoundInIndex
<1>3. dataHead' = Later(dataHead, o) /\ UNCHANGED <<dataTail, index, indexHead>>
  BY DEF TruncateDataBeforeResult
<1>4. StreamTypeOK /\ OffsetsOrdered
  BY DEF RetentionInv, StreamInv
<1>5. dataHead \in Nat /\ o \in Nat
  BY <1>2, <1>4, OffsetsAreNat DEF StreamTypeOK
<1>6. o <= index[indexHead + 1].offset
  <2>1. i \in 1 .. Len(index) /\ indexHead + 1 \in 1 .. Len(index) /\ i <= indexHead + 1
    BY <1>1, <1>2
  <2> HIDE DEF i
  <2> QED BY <1>4, <2>1 DEF OffsetsOrdered
<1> HIDE DEF o
<1>7. CASE dataHead < o
  <2>1. TruncateData(o)
    BY <1>2, <1>3, <1>5, <1>6, <1>7 DEF Later, TruncateData
  <2> QED BY <1>2, <2>1 DEF StreamNext
<1>8. CASE ~(dataHead < o)
  BY <1>3, <1>5, <1>8 DEF Later, streamVars
<1> QED BY <1>7, <1>8

(* Every step is a step of VideoStream or leaves the streams alone. *)
LEMMA StepImplements == RetentionInv /\ [Next]_vars => [StreamNext]_streamVars
<1> SUFFICES ASSUME RetentionInv, [Next]_vars PROVE [StreamNext]_streamVars
  OBVIOUS
<1>1. CASE Write
  BY <1>1 DEF Write, StreamNext
<1>2. ASSUME NEW a \in Truncators, TruncateIndexBeforeResult(a)
      PROVE  [StreamNext]_streamVars
  BY <1>2, TruncateIndexImplements
<1>3. ASSUME NEW a \in Truncators, TruncateDataBeforeResult(a)
      PROVE  [StreamNext]_streamVars
  BY <1>3, TruncateDataImplements
<1>4. CASE StartSink \/ StopSink \/ JoinThread \/ Crash
  BY <1>4 DEF StartSink, StopSink, JoinThread, Crash
<1>5. ASSUME NEW a \in Truncators, ReadIndex(a) \/ SearchFailed(a) \/ TruncationPanics(a)
      PROVE  UNCHANGED streamVars
  BY <1>5 DEF ReadIndex, SearchFailed, TruncationPanics
<1>6. ASSUME BeginAgePass \/ BeginSizePass \/ StopThread \/ IntervalOver
      PROVE  UNCHANGED streamVars
  BY <1>6 DEF BeginAgePass, BeginSizePass, BeginSearch, StopThread, IntervalOver
<1>7. ASSUME NEW a \in Tools, BeginTool(a) PROVE UNCHANGED streamVars
  BY <1>7 DEF BeginTool, BeginSearch
<1>8. CASE UNCHANGED vars
  BY <1>8 DEF vars, streamVars
<1>9. Maintainer \in Truncators /\ Tools \subseteq Truncators
  BY DEF Truncators
<1> QED BY <1>1, <1>2, <1>3, <1>4, <1>5, <1>6, <1>7, <1>8, <1>9
        DEF Next, MaintainerStep, TruncatorStep

------------------------------------------------------------------------------
(* The moves of an actor: its next place, and its search after it. *)
LEMMA MovedTo ==
  ASSUME RetentionInv,
         [StreamNext]_streamVars,
         sink' \in {"stopped", "started", "stopping"},
         NEW a \in Truncators, NEW place \in Places,
         pc' = [pc EXCEPT ![a] = place],
         search' = [search EXCEPT ![a] = search'[a]],
         SearchInv(search[a])',
         place # "truncateData"
  PROVE  RetentionInv'
<1>1. pc \in [Truncators -> Places] /\ search \in [Truncators -> Search(Keys)]
  BY DEF RetentionInv, Places
<1>2. pc' \in [Truncators -> Places] /\ pc'[a] = place
  BY <1>1
<1>3. \A b \in Truncators \ {a} : pc'[b] = pc[b] /\ search'[b] = search[b]
  BY <1>1
<1>4. DOMAIN search' = Truncators /\ search' = [b \in Truncators |-> search'[b]]
  BY <1>1
<1>5. TruncationInv(a)'
  BY <1>2 DEF TruncationInv
<1> QED BY <1>2, <1>3, <1>4, <1>5, ActorMoves

LEMMA BecomesInv ==
  ASSUME RetentionInv,
         [StreamNext]_streamVars,
         sink' \in {"stopped", "started", "stopping"},
         NEW a \in Truncators, NEW place \in Places, place # "truncateData",
         Becomes(a, place)
  PROVE  RetentionInv'
<1>1. search' = [search EXCEPT ![a] = NoSearch] /\ pc' = [pc EXCEPT ![a] = place]
  BY DEF Becomes
<1>2. search'[a] = NoSearch /\ search' = [search EXCEPT ![a] = search'[a]]
  BY <1>1 DEF RetentionInv
<1>3. SearchInv(NoSearch)'
  BY NoSearchInv DEF SearchInv, NoSearch, NewSearch
<1>4. SearchInv(search[a])'
  BY <1>2, <1>3
<1> QED BY <1>1, <1>2, <1>4, MovedTo

LEMMA BeginSearchInv ==
  ASSUME RetentionInv,
         [StreamNext]_streamVars,
         NEW a \in Truncators, NEW key \in Keys,
         BeginSearch(a, key)
  PROVE  RetentionInv'
<1> DEFINE new == NewSearch(key, Before)
<1>1. search' = [search EXCEPT ![a] = new] /\ pc' = [pc EXCEPT ![a] = "search"]
  BY DEF BeginSearch
<1>2. search'[a] = new /\ search' = [search EXCEPT ![a] = search'[a]]
  BY <1>1 DEF RetentionInv
<1>3. SearchInv(new)'
  BY NewSearchInv DEF SearchInv, NewSearch
<1>4. SearchInv(search[a])'
  BY <1>2, <1>3
<1>5. sink' \in {"stopped", "started", "stopping"} /\ "search" \in Places
  BY DEF BeginSearch, RetentionInv, Places
<1> QED BY <1>1, <1>2, <1>4, <1>5, MovedTo

LEMMA ReadIndexInv ==
  ASSUME RetentionInv, [StreamNext]_streamVars, NEW a \in Truncators, ReadIndex(a)
  PROVE  RetentionInv'
<1> DEFINE next == ReadNext(search[a], indexHead, index)
<1>1. /\ search' = [search EXCEPT ![a] = next] /\ Searching(search[a])
      /\ pc[a] = "search" /\ UNCHANGED <<streamVars, sink, pc>>
  BY DEF ReadIndex
<1>2. pc' = [pc EXCEPT ![a] = "search"]
  BY <1>1 DEF RetentionInv
<1>3. search'[a] = next /\ search' = [search EXCEPT ![a] = search'[a]]
  BY <1>1 DEF RetentionInv
<1>4. SearchInv(next)
  BY <1>1, ReadNextInv DEF RetentionInv, StreamInv
<1>5. SearchInv(search[a])'
  BY <1>1, <1>3, <1>4 DEF SearchInv, streamVars
<1>6. sink' \in {"stopped", "started", "stopping"} /\ "search" \in Places
  BY <1>1 DEF RetentionInv, Places
<1> QED BY <1>2, <1>3, <1>5, <1>6, MovedTo

LEMMA TruncateIndexInv ==
  ASSUME RetentionInv, NEW a \in Truncators, TruncateIndexBeforeResult(a)
  PROVE  RetentionInv'
<1>1. [StreamNext]_streamVars /\ Result(search[a]) - 1 <= indexHead'
  BY TruncateIndexImplements
<1>2. /\ pc' = [pc EXCEPT ![a] = "truncateData"] /\ search[a].step = "found"
      /\ UNCHANGED <<index, sink, search>>
  BY DEF TruncateIndexBeforeResult
<1>3. /\ pc \in [Truncators -> Places] /\ search \in [Truncators -> Search(Keys)]
      /\ sink' \in {"stopped", "started", "stopping"}
      /\ SearchInv(search[a])
  BY <1>2 DEF RetentionInv, Places
<1>4. pc' \in [Truncators -> Places] /\ \A b \in Truncators \ {a} : pc'[b] = pc[b]
  BY <1>2, <1>3 DEF Places
<1>5. SearchInv(search[a])' /\ TruncationInv(a)'
  BY <1>1, <1>2, <1>3 DEF SearchInv, TruncationInv, Result
<1>6. DOMAIN search' = Truncators /\ search' = [b \in Truncators |-> search'[b]]
  BY <1>2, <1>3
<1> QED BY <1>1, <1>2, <1>3, <1>4, <1>5, <1>6, ActorMoves

LEMMA NextPassPlaces == \A a : NextPass(a) \in Places \ {"truncateData"}
BY DEF NextPass, Places

(* The invariant is kept by the steps that leave the actors alone ... *)
LEMMA ActorsStay ==
  ASSUME RetentionInv, [StreamNext]_streamVars, UNCHANGED <<pc, search>>,
         sink' \in {"stopped", "started", "stopping"}
  PROVE  RetentionInv'
<1>1. Maintainer \in Truncators
  BY DEF Truncators
<1>2. /\ pc \in [Truncators -> Places] /\ search \in [Truncators -> Search(Keys)]
      /\ SearchInv(search[Maintainer]) /\ TruncationInv(Maintainer)
      /\ StreamTypeOK /\ StreamInv
  BY <1>1 DEF RetentionInv, Places, StreamInv
<1>3. Len(index) \in Nat /\ Len(index) <= Len(index') /\ indexHead <= indexHead'
  BY <1>2, IndexGrows
<1>4. StreamTypeOK'
  BY <1>2, StreamInvNext DEF StreamInv
<1>5. Len(index') \in Nat /\ indexHead \in Nat /\ indexHead' \in Nat
  BY <1>2, <1>4 DEF StreamTypeOK
<1>6. SearchInv(search[Maintainer])'
  BY <1>2, <1>3, <1>5 DEF SearchInv
<1>7. search[Maintainer].lo \in Nat
  BY <1>1, <1>2 DEF Search
<1>8. TruncationInv(Maintainer)'
  BY <1>2, <1>3, <1>5, <1>7 DEF TruncationInv, Result
<1>9. DOMAIN search' = Truncators /\ search' = [b \in Truncators |-> search'[b]]
  BY <1>2
<1> QED BY <1>1, <1>2, <1>6, <1>8, <1>9, ActorMoves

(* ... and by every other step. *)
LEMMA RetentionInvNext == RetentionInv /\ [Next]_vars => RetentionInv'
<1> SUFFICES ASSUME RetentionInv, [Next]_vars PROVE RetentionInv'
  OBVIOUS
<1>1. [StreamNext]_streamVars
  BY StepImplements
<1>2. Maintainer \in Truncators /\ Tools \subseteq Truncators
  BY DEF Truncators
<1>3. sink \in {"stopped", "started", "stopping"}
  BY DEF RetentionInv
<1>4. {"off", "wait", FirstPass} \subseteq Places \ {"truncateData"}
  BY DEF FirstPass, Places
<1>5. CASE Write \/ UNCHANGED vars
  BY <1>1, <1>3, <1>5, ActorsStay DEF Write, vars
<1>6. CASE StopSink \/ JoinThread
  BY <1>1, <1>6, ActorsStay DEF StopSink, JoinThread
<1>7. CASE StartSink
  BY <1>1, <1>2, <1>4, <1>7, BecomesInv DEF StartSink
<1>8. CASE Crash
  BY <1>1, <1>2, <1>4, <1>8, BecomesInv DEF Crash
<1>9. CASE BeginAgePass
  <2>1. PICK ts \in Timestamps : BeginSearch(Maintainer, ByTime(ts))
    BY <1>9 DEF BeginAgePass
  <2> QED BY <1>1, <1>2, <2>1, BeginSearchInv DEF Keys
<1>10. CASE BeginSizePass
  BY <1>1, <1>2, <1>10, BeginSearchInv DEF BeginSizePass, Keys
<1>11. ASSUME NEW a \in Tools, BeginTool(a) PROVE RetentionInv'
  <2>1. PICK ts \in Timestamps : BeginSearch(a, ByTime(ts))
    BY <1>11 DEF BeginTool
  <2> QED BY <1>1, <1>2, <2>1, BeginSearchInv DEF Keys
<1>12. ASSUME NEW a \in Truncators, TruncatorStep(a) PROVE RetentionInv'
  <2>1. CASE ReadIndex(a)
    BY <1>1, <2>1, ReadIndexInv
  <2>2. CASE SearchFailed(a)
    BY <1>1, <1>3, <2>2, NextPassPlaces, BecomesInv DEF SearchFailed
  <2>3. CASE TruncateIndexBeforeResult(a)
    BY <2>3, TruncateIndexInv
  <2>4. CASE TruncateDataBeforeResult(a)
    BY <1>1, <1>3, <2>4, NextPassPlaces, BecomesInv DEF TruncateDataBeforeResult
  <2> QED BY <1>12, <2>1, <2>2, <2>3, <2>4 DEF TruncatorStep
<1>13. ASSUME NEW a \in Truncators, TruncationPanics(a) PROVE RetentionInv'
  BY <1>1, <1>3, <1>4, <1>13, BecomesInv DEF TruncationPanics
<1>14. CASE StopThread \/ IntervalOver
  BY <1>1, <1>2, <1>3, <1>4, <1>14, BecomesInv DEF StopThread, IntervalOver
<1> QED BY <1>2, <1>5, <1>6, <1>7, <1>8, <1>9, <1>10, <1>11, <1>12, <1>13, <1>14
        DEF Next, MaintainerStep

------------------------------------------------------------------------------
LEMMA RetentionInvHolds == Spec => []RetentionInv
BY RetentionInvInit, RetentionInvNext, PTL DEF Spec

(* The types are correct, and whoever truncates has found a record of the index. *)
THEOREM RetentionTypeCorrect == Spec => []TypeOK
<1>1. RetentionInv => TypeOK
  BY DEF RetentionInv, TypeOK, StreamInv, SearchInv, TruncationInv, Result
<1> QED BY RetentionInvHolds, <1>1, PTL

(* However many processes search and truncate the stream while it is written, they
   change it only as VideoStream allows: the index first, and the data never past the
   first record that remains. *)
THEOREM RetentionImplementsStream == Spec => StreamSpec
<1>1. Init => StreamInit
  BY DEF Init
<1> QED BY RetentionInvHolds, StepImplements, <1>1, PTL DEF Spec, StreamSpec

(* So no truncation ever takes away the data that a record of the index points to. *)
THEOREM RetentionReadable == Spec => []Readable
BY RetentionImplementsStream, StreamReadable, PTL

(* And the index, once it has a record, is never truncated to nothing. *)
THEOREM RetentionNeverEmpties == Spec => []NeverEmptied
<1>1. RetentionInv => NeverEmptied
  BY DEF RetentionInv, StreamInv
<1> QED BY RetentionInvHolds, <1>1, PTL

------------------------------------------------------------------------------
(***************************************************************************)
(* What is found is the nearest record.  The index that a search reads is  *)
(* in order, and all that changes in it between two reads is that it grows *)
(* at its end and that its head moves on.                                  *)
(***************************************************************************)
SearchesInv ==
  /\ IndexOK(index)
  /\ \A a \in Truncators :
       /\ NearestInv(search[a], index)
       /\ search[a].key \in Keys /\ search[a].method = Before
       /\ BeganAt(search[a], indexHead)

LEMMA KeysAreSearched == Keys \subseteq [kind : {"timestamp", "size"}, value : Nat]
BY PolicyAssumption DEF Keys, ByTime, BySize

(* What a step does with the search of an actor, and with the index. *)
SearchMoves(a) ==
  \/ search'[a] = search[a]
  \/ \E key \in Keys : search'[a] = NewSearch(key, Before)
  \/ Searching(search[a]) /\ search'[a] = ReadNext(search[a], indexHead, index)

LEMMA StepMoves ==
  ASSUME RetentionInv, [Next]_vars
  PROVE  /\ Write \/ UNCHANGED index
         /\ Write => UNCHANGED <<search, indexHead>>
         /\ \A a \in Truncators : SearchMoves(a)
<1>1. search \in [Truncators -> Search(Keys)] /\ BySize(RetentionBytes) \in Keys
  BY DEF RetentionInv, Keys
<1>2. Maintainer \in Truncators /\ Tools \subseteq Truncators
  BY DEF Truncators
<1>3. ASSUME NEW a \in Truncators, NEW place, Becomes(a, place)
      PROVE  \A b \in Truncators : SearchMoves(b)
  BY <1>1, <1>3 DEF Becomes, NoSearch, SearchMoves
<1>4. ASSUME NEW a \in Truncators, NEW key \in Keys, BeginSearch(a, key)
      PROVE  (\A b \in Truncators : SearchMoves(b)) /\ UNCHANGED index
  BY <1>1, <1>4 DEF BeginSearch, streamVars, SearchMoves
<1>5. ASSUME NEW a \in Truncators, TruncatorStep(a)
      PROVE  (\A b \in Truncators : SearchMoves(b)) /\ UNCHANGED index
  <2>1. CASE ReadIndex(a)
    BY <1>1, <2>1 DEF ReadIndex, streamVars, SearchMoves
  <2>2. CASE SearchFailed(a)
    BY <1>3, <2>2 DEF SearchFailed, streamVars
  <2>3. CASE TruncateIndexBeforeResult(a)
    BY <2>3 DEF TruncateIndexBeforeResult, SearchMoves
  <2>4. CASE TruncateDataBeforeResult(a)
    BY <1>3, <2>4 DEF TruncateDataBeforeResult
  <2> QED BY <1>5, <2>1, <2>2, <2>3, <2>4 DEF TruncatorStep
<1>6. ASSUME BeginAgePass PROVE (\A b \in Truncators : SearchMoves(b)) /\ UNCHANGED index
  <2>1. PICK ts \in Timestamps : BeginSearch(Maintainer, ByTime(ts))
    BY <1>6 DEF BeginAgePass
  <2> QED BY <1>2, <1>4, <2>1 DEF Keys
<1>7. ASSUME BeginSizePass PROVE (\A b \in Truncators : SearchMoves(b)) /\ UNCHANGED index
  BY <1>1, <1>2, <1>4, <1>7 DEF BeginSizePass
<1>8. ASSUME NEW a \in Tools, BeginTool(a)
      PROVE  (\A b \in Truncators : SearchMoves(b)) /\ UNCHANGED index
  <2>1. PICK ts \in Timestamps : BeginSearch(a, ByTime(ts))
    BY <1>8 DEF BeginTool
  <2> QED BY <1>2, <1>4, <2>1 DEF Keys
<1>9. ASSUME StartSink \/ StopSink \/ JoinThread \/ Crash \/ StopThread \/ IntervalOver
      PROVE  (\A b \in Truncators : SearchMoves(b)) /\ UNCHANGED index
  <2>1. CASE StopSink \/ JoinThread
    BY <2>1 DEF StopSink, JoinThread, streamVars, SearchMoves
  <2>2. CASE StartSink \/ Crash \/ StopThread \/ IntervalOver
    BY <1>2, <1>3, <2>2 DEF StartSink, Crash, StopThread, IntervalOver, streamVars
  <2> QED BY <1>9, <2>1, <2>2
<1>10. ASSUME NEW a \in Truncators, TruncationPanics(a)
       PROVE  (\A b \in Truncators : SearchMoves(b)) /\ UNCHANGED index
  BY <1>3, <1>10 DEF TruncationPanics, streamVars
<1>11. ASSUME UNCHANGED vars PROVE (\A b \in Truncators : SearchMoves(b)) /\ UNCHANGED index
  BY <1>11 DEF vars, SearchMoves
<1>12. ASSUME Write
       PROVE  (\A b \in Truncators : SearchMoves(b)) /\ UNCHANGED <<search, indexHead>>
  BY <1>12 DEF Write, AppendData, Publish, SearchMoves
<1> QED BY <1>2, <1>5, <1>6, <1>7, <1>8, <1>9, <1>10, <1>11, <1>12
        DEF Next, MaintainerStep

(* The writer keeps the index in order. *)
LEMMA WriteKeepsOrder ==
  ASSUME RetentionInv, IndexOK(index), Write
  PROVE  /\ IndexOK(index)'
         /\ Len(index) <= Len(index') /\ \A i \in 1 .. Len(index) : index'[i] = index[i]
<1>1. StreamTypeOK
  BY DEF RetentionInv, StreamInv
<1>2. CASE UNCHANGED index
  BY <1>1, <1>2, IndexType DEF IndexOK, InOrderOf
<1>3. ASSUME NEW r \in Records, \A i \in 1 .. Len(index) : index[i].timestamp <= r.timestamp,
             Publish(r)
      PROVE  /\ IndexOK(index)'
             /\ Len(index) <= Len(index') /\ \A i \in 1 .. Len(index) : index'[i] = index[i]
  <2> DEFINE n == Len(index)
  <2>1. /\ n \in Nat /\ Len(index') = n + 1
        /\ \A i \in 1 .. n : index'[i] = index[i]
        /\ index'[n + 1] = r
    BY <1>1, <1>3, AppendType, IndexType DEF Publish, StreamTypeOK
  <2>2. r.timestamp \in Nat /\ r.offset \in Nat
    BY RecordsAssumption, OffsetsAreNat, TimestampsAssumption
  <2>3. \A i \in 1 .. n : /\ index[i].timestamp \in Nat /\ index[i].offset \in Nat
                          /\ index[i].timestamp <= r.timestamp /\ index[i].offset <= r.offset
    BY <1>3 DEF IndexOK, Publish
  <2>4. \A i \in 1 .. n + 1 : i \in 1 .. n \/ i = n + 1
    BY <2>1
  <2>5. \A i \in 1 .. n + 1 : index'[i].timestamp \in Nat /\ index'[i].offset \in Nat
    BY <2>1, <2>2, <2>3, <2>4
  <2>6. ASSUME NEW i \in 1 .. n + 1, NEW j \in 1 .. n + 1, i <= j
        PROVE  index'[i].timestamp <= index'[j].timestamp /\ index'[i].offset <= index'[j].offset
    <3>1. CASE j \in 1 .. n
      <4>1. i \in 1 .. n BY <2>1, <2>6, <3>1
      <4> QED BY <2>1, <2>6, <3>1, <4>1 DEF IndexOK, InOrderOf
    <3>2. CASE j = n + 1
      BY <2>1, <2>2, <2>3, <2>4, <3>2
    <3> QED BY <2>4, <3>1, <3>2
  <2> QED BY <2>1, <2>5, <2>6 DEF IndexOK, InOrderOf
<1> QED BY <1>2, <1>3 DEF Write, AppendData

LEMMA SearchesInvInit == Init => SearchesInv
<1> SUFFICES ASSUME Init PROVE SearchesInv
  OBVIOUS
<1>1. IndexOK(index)
  BY DEF Init, StreamInit, IndexOK, InOrderOf
<1>2. BySize(RetentionBytes) \in Keys
  BY DEF Keys
<1>3. \A a \in Truncators : search[a] = NewSearch(BySize(RetentionBytes), Before)
  BY DEF Init, NoSearch
<1>4. NearestInv(NewSearch(BySize(RetentionBytes), Before), index)
  BY <1>2, KeysAreSearched, NewSearchNearest DEF Methods
<1> QED BY <1>1, <1>2, <1>3, <1>4 DEF SearchesInv, NewSearch, BeganAt

LEMMA SearchesInvNext ==
  RetentionInv /\ RetentionInv' /\ SearchesInv /\ [Next]_vars => SearchesInv'
<1> SUFFICES ASSUME RetentionInv, RetentionInv', SearchesInv, [Next]_vars PROVE SearchesInv'
  OBVIOUS
<1>1. [StreamNext]_streamVars
  BY StepImplements
<1>2. /\ Len(index) \in Nat /\ indexHead \in Nat /\ indexHead' \in Nat
      /\ indexHead <= indexHead'
  BY <1>1, IndexGrows DEF RetentionInv, StreamInv, StreamTypeOK
<1>3. CASE Write
  <2>1. /\ IndexOK(index)' /\ Len(index) <= Len(index')
        /\ \A i \in 1 .. Len(index) : index'[i] = index[i]
        /\ UNCHANGED <<search, indexHead>>
    BY <1>3, StepMoves, WriteKeepsOrder DEF SearchesInv
  <2>2. ASSUME NEW a \in Truncators PROVE NearestInv(search[a], index')
    BY <2>1, NearestGrows DEF SearchesInv
  <2> QED BY <2>1, <2>2 DEF SearchesInv
<1>4. CASE UNCHANGED index
  <2>1. ASSUME NEW a \in Truncators
        PROVE  /\ NearestInv(search'[a], index)
               /\ search'[a].key \in Keys /\ search'[a].method = Before
               /\ BeganAt(search'[a], indexHead')
    <3> DEFINE s == search[a]
    <3>1. /\ NearestInv(s, index) /\ s.key \in Keys /\ s.method = Before
          /\ BeganAt(s, indexHead) /\ s \in AnySearch
      BY DEF SearchesInv, NearestInv
    <3>2. CASE search'[a] = s
      BY <1>2, <3>1, <3>2 DEF BeganAt, AnySearch, Search
    <3>3. CASE \E key \in Keys : search'[a] = NewSearch(key, Before)
      <4>1. PICK key \in Keys : search'[a] = NewSearch(key, Before)
        BY <3>3
      <4>2. NearestInv(NewSearch(key, Before), index)
        BY KeysAreSearched, NewSearchNearest DEF Methods
      <4> QED BY <4>1, <4>2 DEF NewSearch, BeganAt
    <3>4. CASE Searching(s) /\ search'[a] = ReadNext(s, indexHead, index)
      <4>1. NearestInv(search'[a], index)
        BY <1>2, <3>1, <3>4, ReadNextNearest DEF SearchesInv
      <4>2. search'[a].key = s.key /\ search'[a].method = s.method
        BY <3>1, <3>4, ReadNextSame
      <4>3. BeganAt(search'[a], indexHead)
        BY <1>2, <3>1, <3>4, ReadNextBegan
      <4> QED BY <1>2, <3>1, <4>1, <4>2, <4>3 DEF BeganAt, NearestInv, AnySearch, Search
    <3> QED BY <3>2, <3>3, <3>4, StepMoves DEF SearchMoves
  <2> QED BY <1>4, <2>1 DEF SearchesInv
<1> QED BY <1>3, <1>4, StepMoves

LEMMA SearchesInvHolds == Spec => [](RetentionInv /\ SearchesInv)
BY RetentionInvInit, RetentionInvNext, SearchesInvInit, SearchesInvNext, PTL DEF Spec

(* Of the records that were there when it began, a search finds the nearest, though
   others write to the index and truncate it between its reads. *)
THEOREM RetentionSearchFindsNearest == Spec => []SearchFindsNearest
<1>1. SearchesInv => SearchFindsNearest
  BY DEF SearchesInv, SearchFindsNearest, NearestInv
<1> QED BY SearchesInvHolds, <1>1, PTL

(* The records a pass is about to delete are those between the head of the index and
   what it has found, which is not the first record that its search has seen. *)
LEMMA PassDeletes ==
  ASSUME RetentionInv, SearchesInv, [Next]_vars,
         NEW a \in Truncators, pc[a] = "search", pc'[a] = "truncateData"
  PROVE  LET s == search[a]
             i == Result(s)
         IN  /\ indexHead' = Later(indexHead, i - 1)
             /\ s \in AnySearch /\ s.key \in Keys /\ indexHead \in Nat
             /\ 1 <= s.from /\ s.to <= Len(index) /\ i \in s.from .. s.to
             /\ \A j \in i + 1 .. s.to : ~IsNewerThan(s, index[j])
             /\ i - 1 > indexHead => ~IsOlderThan(s, index[i])
<1> DEFINE s == search[a]  i == Result(s)
<1>1. TruncateIndexBeforeResult(a)
  <2>1. pc \in [Truncators -> Places] /\ Maintainer \in Truncators /\ Tools \subseteq Truncators
    BY DEF RetentionInv, Places, Truncators
  <2>2. ASSUME NEW b \in Truncators, NEW place, pc' = [pc EXCEPT ![b] = place],
               place # "truncateData"
        PROVE  FALSE
    BY <2>1, <2>2
  <2>3. {"off", "wait", FirstPass} \subseteq Places \ {"truncateData"}
    BY DEF FirstPass, Places
  <2>4. ~UNCHANGED pc
    OBVIOUS
  <2>5. ASSUME NEW b \in Truncators, NEW key, BeginSearch(b, key) PROVE FALSE
    BY <2>2, <2>5 DEF BeginSearch
  <2>6. ~BeginAgePass /\ ~BeginSizePass /\ \A b \in Tools : ~BeginTool(b)
    BY <2>1, <2>5 DEF BeginAgePass, BeginSizePass, BeginTool
  <2>7. ASSUME NEW b \in Truncators, NEW place \in Places, place # "truncateData",
               Becomes(b, place)
        PROVE  FALSE
    BY <2>2, <2>7 DEF Becomes
  <2>8. ~(StartSink \/ Crash \/ StopThread \/ IntervalOver)
    BY <2>1, <2>3, <2>7 DEF StartSink, Crash, StopThread, IntervalOver
  <2>9. ~(Write \/ StopSink \/ JoinThread)
    BY <2>4 DEF Write, StopSink, JoinThread
  <2>10. ASSUME NEW b \in Truncators, TruncatorStep(b) PROVE TruncateIndexBeforeResult(b)
    BY <2>4, <2>7, <2>10, NextPassPlaces
       DEF TruncatorStep, ReadIndex, SearchFailed, TruncateDataBeforeResult
  <2>11. \A b \in Truncators : ~TruncationPanics(b)
    BY <2>3, <2>7 DEF TruncationPanics
  <2>12. PICK b \in Truncators : TruncateIndexBeforeResult(b)
    BY <2>1, <2>4, <2>6, <2>8, <2>9, <2>10, <2>11 DEF Next, MaintainerStep, vars
  <2>13. b = a
    BY <2>1, <2>12 DEF TruncateIndexBeforeResult
  <2> QED BY <2>12, <2>13
<1>2. s.step = "found" /\ indexHead' = Later(indexHead, i - 1)
  BY <1>1 DEF TruncateIndexBeforeResult
<1>3. /\ NearestInv(s, index) /\ s.key \in Keys /\ s.method = Before
      /\ BeganAt(s, indexHead) /\ indexHead \in Nat
  BY DEF SearchesInv, RetentionInv, StreamInv, StreamTypeOK
<1>4. IsNearest(s, index) /\ s \in AnySearch /\ s.from <= indexHead + 1
      /\ 1 <= s.from /\ s.to <= Len(index)
  BY <1>2, <1>3 DEF NearestInv, BoundsInv, BeganAt
<1>5. /\ i \in s.from .. s.to
      /\ \A j \in i + 1 .. s.to : ~IsNewerThan(s, index[j])
      /\ i # s.from => ~IsOlderThan(s, index[i])
  BY <1>3, <1>4 DEF IsNearest
<1>6. i \in Nat /\ s.from \in Nat
  BY <1>4 DEF AnySearch, Search, Result
<1>7. i - 1 > indexHead => i # s.from
  BY <1>3, <1>4, <1>6
<1> HIDE DEF i
<1> QED BY <1>2, <1>3, <1>4, <1>5, <1>7 DEF i

(* No pass by age deletes a record unless what follows it up to the next one, and so
   everything that only it leads to, is older than the limit. *)
THEOREM RetentionDeletesOnlyOld == Spec => DeletesOnlyOld
<1>1. ASSUME RetentionInv, SearchesInv, [Next]_vars
      PROVE  \A a \in Truncators :
               /\ pc[a] = "search" /\ pc'[a] = "truncateData"
               /\ search[a].key.kind = "timestamp"
               => \A i \in indexHead + 1 .. indexHead' :
                    index[i + 1].timestamp <= search[a].key.value
  <2> SUFFICES ASSUME NEW a \in Truncators, pc[a] = "search", pc'[a] = "truncateData",
                      search[a].key.kind = "timestamp",
                      NEW j \in indexHead + 1 .. indexHead'
               PROVE  index[j + 1].timestamp <= search[a].key.value
    OBVIOUS
  <2> DEFINE s == search[a]  i == Result(s)
  <2>1. /\ indexHead' = Later(indexHead, i - 1)
        /\ s \in AnySearch /\ indexHead \in Nat
        /\ 1 <= s.from /\ s.to <= Len(index) /\ i \in s.from .. s.to
        /\ i - 1 > indexHead => ~IsOlderThan(s, index[i])
    BY <1>1, PassDeletes
  <2>2. i \in Nat /\ s.from \in Nat /\ s.to \in Nat /\ s.key.value \in Nat
        /\ Len(index) \in Nat
    BY <1>1, <2>1 DEF AnySearch, Search, Result, SearchesInv, IndexOK
  <2>3. s.key.kind = "timestamp"
    OBVIOUS
  <2> HIDE DEF i, s
  <2>4. i - 1 > indexHead /\ j + 1 \in 1 .. Len(index) /\ i \in 1 .. Len(index) /\ j + 1 <= i
    BY <2>1, <2>2 DEF Later
  <2>5. /\ index[j + 1].timestamp <= index[i].timestamp
        /\ index[j + 1].timestamp \in Nat /\ index[i].timestamp \in Nat
    BY <1>1, <2>4 DEF SearchesInv, IndexOK, InOrderOf
  <2>6. index[i].timestamp <= s.key.value
    BY <2>1, <2>2, <2>3, <2>4, <2>5 DEF IsOlderThan
  <2>7. index[j + 1].timestamp <= s.key.value
    BY <2>2, <2>5, <2>6
  <2> QED BY <2>7 DEF s
<1> QED BY SearchesInvHolds, <1>1, PTL DEF DeletesOnlyOld, Spec

(* No pass by size goes below the limit, nor could it have deleted one record more. *)
THEOREM RetentionKeepsSizeLimit == Spec => KeepsSizeLimit
<1>1. ASSUME RetentionInv, SearchesInv, [Next]_vars
      PROVE  \A a \in Truncators :
               /\ pc[a] = "search" /\ pc'[a] = "truncateData"
               /\ search[a].key.kind = "size"
               /\ indexHead' > indexHead
               => LET i == Result(search[a])
                      left(j) == search[a].tailOffset - index[j].offset
                  IN /\ left(i) >= RetentionBytes
                     /\ i < search[a].to => left(i + 1) <= RetentionBytes
  <2> SUFFICES ASSUME NEW a \in Truncators, pc[a] = "search", pc'[a] = "truncateData",
                      search[a].key.kind = "size", indexHead' > indexHead
               PROVE  LET i == Result(search[a])
                          left(j) == search[a].tailOffset - index[j].offset
                      IN /\ left(i) >= RetentionBytes
                         /\ i < search[a].to => left(i + 1) <= RetentionBytes
    OBVIOUS
  <2> DEFINE s == search[a]  i == Result(s)
  <2>1. /\ indexHead' = Later(indexHead, i - 1)
        /\ s \in AnySearch /\ s.key \in Keys /\ indexHead \in Nat
        /\ 1 <= s.from /\ s.to <= Len(index) /\ i \in s.from .. s.to
        /\ \A j \in i + 1 .. s.to : ~IsNewerThan(s, index[j])
        /\ i - 1 > indexHead => ~IsOlderThan(s, index[i])
    BY <1>1, PassDeletes
  <2>2. /\ i \in Nat /\ s.from \in Nat /\ s.to \in Nat /\ s.tailOffset \in Nat
        /\ Len(index) \in Nat
        /\ \A j \in 1 .. Len(index) : index[j].offset \in Nat
    BY <1>1, <2>1 DEF AnySearch, Search, Result, SearchesInv, IndexOK
  <2>3. s.key = BySize(RetentionBytes) /\ RetentionBytes \in Nat
    BY <2>1, PolicyAssumption DEF Keys, ByTime
  <2>4. i - 1 > indexHead
    BY <2>1, <2>2 DEF Later
  <2>5. s.tailOffset - index[i].offset >= RetentionBytes
    BY <2>1, <2>2, <2>3, <2>4 DEF IsOlderThan, BySize
  <2>6. ASSUME i < s.to PROVE s.tailOffset - index[i + 1].offset <= RetentionBytes
    <3>1. i + 1 \in i + 1 .. s.to /\ i + 1 \in 1 .. Len(index)
      BY <2>1, <2>2, <2>6
    <3>2. ~IsNewerThan(s, index[i + 1])
      BY <2>1, <3>1
    <3> QED BY <2>2, <2>3, <3>1, <3>2 DEF IsNewerThan, BySize
  <2> QED BY <2>5, <2>6
<1> QED BY SearchesInvHolds, <1>1, PTL DEF KeepsSizeLimit, Spec

==============================================================================
