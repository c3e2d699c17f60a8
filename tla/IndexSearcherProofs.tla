------------------------ MODULE IndexSearcherProofs ------------------------
(***************************************************************************)
(* A search of an index that is in order finds the nearest record, though  *)
(* records are appended and truncated between its reads.                   *)
(***************************************************************************)
EXTENDS IndexSearcher, TLAPS

AnySearch == Search([kind : {"timestamp", "size"}, value : Nat])

(* Neither time nor offset goes back. *)
InOrderOf(idx) ==
  \A i, j \in 1 .. Len(idx) :
    i <= j => /\ idx[i].timestamp <= idx[j].timestamp
              /\ idx[i].offset <= idx[j].offset

IndexOK(idx) ==
  /\ Len(idx) \in Nat
  /\ \A i \in 1 .. Len(idx) : idx[i].timestamp \in Nat /\ idx[i].offset \in Nat
  /\ InOrderOf(idx)

(* The bounds of the search are records, everything in front of lo is known to
   be too old, and everything behind hi to be too new. *)
BoundsInv(s, idx) ==
  /\ s.step \notin {"open", "failed"} => 1 <= s.from /\ s.from <= s.to /\ s.to <= Len(idx)
  /\ s.step \in {"last", "first"} => s.lo = s.from /\ s.hi = s.to
  /\ s.step \in {"first", "middle", "end"} =>
       IF s.key.kind = "timestamp" THEN IsOlderThan(s, idx[s.to])
                                   ELSE s.tailOffset = idx[s.to].offset
  /\ s.step \in {"middle", "end"} =>
       /\ s.from <= s.lo /\ s.lo <= s.to /\ s.from <= s.hi /\ s.hi <= s.to
       /\ IsNewerThan(s, idx[s.from])
       /\ \A j \in s.from .. s.lo - 1 : IsNewerThan(s, idx[j])
       /\ \A j \in s.hi + 1 .. s.to : IsOlderThan(s, idx[j])
  /\ s.step = "middle" => s.lo <= s.hi
  /\ s.step = "end" => s.lo = s.hi + 1

(* Of records at different times the one that is found by After is the first. *)
FirstAfter(s, idx) ==
  s.key.kind = "timestamp" /\ s.method = After =>
    \A j \in s.from .. Result(s) - 1 :
      idx[j].timestamp < idx[Result(s)].timestamp => IsNewerThan(s, idx[j])

NearestInv(s, idx) ==
  /\ s \in AnySearch
  /\ BoundsInv(s, idx)
  /\ s.step = "found" => IsNearest(s, idx) /\ FirstAfter(s, idx)

-----------------------------------------------------------------------------
(* Comparisons *)

(* The order of the index is that of the comparisons. *)
LEMMA ComparisonsAreOrdered ==
  ASSUME NEW s \in AnySearch, NEW idx, IndexOK(idx),
         NEW i \in 1 .. Len(idx), NEW j \in 1 .. Len(idx), i <= j
  PROVE  /\ IsOlderThan(s, idx[i]) => IsOlderThan(s, idx[j])
         /\ IsNewerThan(s, idx[j]) => IsNewerThan(s, idx[i])
         /\ ~(IsOlderThan(s, idx[i]) /\ IsNewerThan(s, idx[i]))
<1>1. /\ idx[i].timestamp \in Nat /\ idx[j].timestamp \in Nat
      /\ idx[i].offset \in Nat /\ idx[j].offset \in Nat
      /\ idx[i].timestamp <= idx[j].timestamp /\ idx[i].offset <= idx[j].offset
  BY DEF IndexOK, InOrderOf
<1>2. s.key.value \in Nat /\ s.tailOffset \in Nat
  BY DEF AnySearch, Search
<1>3. CASE s.key.kind = "timestamp"
  BY <1>1, <1>2, <1>3 DEF IsOlderThan, IsNewerThan
<1>4. CASE s.key.kind # "timestamp"
  <2> DEFINE v == s.key.value  tail == s.tailOffset  a == idx[i].offset  b == idx[j].offset
  <2>1. /\ v > tail - a => v > tail - b
        /\ v < tail - b => v < tail - a
        /\ ~(v > tail - a /\ v < tail - a)
    <3>1. v \in Nat /\ tail \in Nat /\ a \in Nat /\ b \in Nat /\ a <= b
      BY <1>1, <1>2
    <3> HIDE DEF v, tail, a, b
    <3> QED BY <3>1
  <2> QED BY <1>4, <2>1 DEF IsOlderThan, IsNewerThan
<1> QED BY <1>3, <1>4

(* They do not depend on how far the search has come. *)
LEMMA SameComparisons ==
  ASSUME NEW s, NEW t, t.key = s.key, t.tailOffset = s.tailOffset
  PROVE  \A r : /\ IsOlderThan(t, r) <=> IsOlderThan(s, r)
                /\ IsNewerThan(t, r) <=> IsNewerThan(s, r)
BY DEF IsOlderThan, IsNewerThan

-----------------------------------------------------------------------------
(* Reads *)

LEMMA FailedInv ==
  ASSUME NEW s, NEW idx, NearestInv(s, idx) PROVE NearestInv(Failed(s), idx)
BY DEF NearestInv, AnySearch, Search, Failed, Steps, BoundsInv

LEMMA FoundInv ==
  ASSUME NEW s, NEW idx, s \in AnySearch, IndexOK(idx), NEW i \in s.from .. s.to,
         1 <= s.from, s.to <= Len(idx), s.from <= s.to,
         s.method = Before =>
           /\ \A j \in i + 1 .. s.to : ~IsNewerThan(s, idx[j])
           /\ i # s.from => ~IsOlderThan(s, idx[i]),
         s.method = After =>
           /\ \A j \in s.from .. i - 1 :
                /\ ~IsOlderThan(s, idx[j])
                /\ s.key.kind = "timestamp" /\ idx[j].timestamp < idx[i].timestamp =>
                     IsNewerThan(s, idx[j])
           /\ i # s.to => ~IsNewerThan(s, idx[i])
  PROVE  NearestInv(Found(s, i), idx)
<1> DEFINE t == Found(s, i)
<1>0. i \in Nat /\ s.from \in Nat /\ s.to \in Nat
  BY DEF AnySearch, Search
<1>1. /\ t \in AnySearch /\ t.step = "found" /\ t.lo = i /\ t.from = s.from /\ t.to = s.to
      /\ t.key = s.key /\ t.tailOffset = s.tailOffset /\ t.method = s.method
  BY <1>0 DEF AnySearch, Search, Found, Steps
<1>2. \A r : /\ IsOlderThan(t, r) <=> IsOlderThan(s, r)
             /\ IsNewerThan(t, r) <=> IsNewerThan(s, r)
  BY <1>1, SameComparisons
<1> HIDE DEF t
<1>3. BoundsInv(t, idx)
  BY <1>1 DEF BoundsInv
<1>4. IsNearest(t, idx)
  BY <1>1, <1>2 DEF IsNearest, Result
<1>5. FirstAfter(t, idx)
  BY <1>1, <1>2 DEF FirstAfter, Result
<1>6. NearestInv(t, idx)
  BY <1>1, <1>3, <1>4, <1>5 DEF NearestInv
<1> QED BY <1>6 DEF t

LEMMA NewSearchNearest ==
  ASSUME NEW key \in [kind : {"timestamp", "size"}, value : Nat], NEW method \in Methods,
         NEW idx
  PROVE  NearestInv(NewSearch(key, method), idx)
BY DEF NearestInv, AnySearch, Search, NewSearch, Steps, BoundsInv

LEMMA ReadBoundsInv ==
  ASSUME NEW s, NEW idx, NEW head \in Nat, IndexOK(idx), NearestInv(s, idx), s.step = "open"
  PROVE  NearestInv(ReadBounds(s, head, idx), idx)
<1>1. CASE head < Len(idx)
  <2> DEFINE t == [s EXCEPT !.step = "last", !.from = head + 1, !.to = Len(idx),
                            !.lo = head + 1, !.hi = Len(idx)]
  <2>0. s \in AnySearch /\ head + 1 \in Nat /\ Len(idx) \in Nat
    BY DEF NearestInv, IndexOK
  <2>1. /\ t \in AnySearch /\ t.step = "last" /\ t.from = head + 1 /\ t.to = Len(idx)
        /\ t.lo = head + 1 /\ t.hi = Len(idx)
    BY <2>0 DEF AnySearch, Search, Steps
  <2>2. ReadBounds(s, head, idx) = t
    BY <1>1 DEF ReadBounds
  <2> HIDE DEF t
  <2> QED BY <1>1, <2>1, <2>2 DEF NearestInv, BoundsInv, IndexOK
<1>2. CASE ~(head < Len(idx))
  BY <1>2, FailedInv DEF ReadBounds
<1> QED BY <1>1, <1>2

LEMMA ReadLastInv ==
  ASSUME NEW s, NEW idx, NEW head \in Nat, IndexOK(idx), NearestInv(s, idx), s.step = "last"
  PROVE  NearestInv(ReadLast(s, head, idx), idx)
<1>1. /\ s \in AnySearch /\ s.from \in Nat /\ s.to \in Nat /\ s.lo = s.from /\ s.hi = s.to
      /\ 1 <= s.from /\ s.from <= s.to /\ s.to <= Len(idx) /\ Len(idx) \in Nat
      /\ s.key.kind \in {"timestamp", "size"}
  BY DEF NearestInv, BoundsInv, IndexOK, AnySearch, Search
<1>2. CASE ~CanRead(s.hi, head, idx)
  BY <1>2, FailedInv DEF ReadLast
<1>3. CASE CanRead(s.hi, head, idx) /\ s.key.kind = "timestamp" /\ ~IsOlderThan(s, idx[s.hi])
  <2>1. ASSUME NEW j \in s.from .. s.to - 1
        PROVE  /\ ~IsOlderThan(s, idx[j])
               /\ idx[j].timestamp < idx[s.to].timestamp => IsNewerThan(s, idx[j])
    <3>1. j \in 1 .. Len(idx) /\ s.to \in 1 .. Len(idx) /\ j <= s.to
      BY <1>1
    <3>2. ~IsOlderThan(s, idx[j])
      BY <1>1, <1>3, <3>1, ComparisonsAreOrdered
    <3>3. idx[j].timestamp < idx[s.to].timestamp => IsNewerThan(s, idx[j])
      <4>1. idx[j].timestamp \in Nat /\ idx[s.to].timestamp \in Nat /\ s.key.value \in Nat
        BY <1>1, <3>1 DEF IndexOK, AnySearch, Search
      <4> QED BY <1>1, <1>3, <4>1 DEF IsOlderThan, IsNewerThan
    <3> QED BY <3>2, <3>3
  <2>2. NearestInv(Found(s, s.to), idx)
    BY <1>1, <1>3, <2>1, FoundInv
  <2> QED BY <1>1, <1>3, <2>2 DEF ReadLast
<1>4. CASE CanRead(s.hi, head, idx) /\ ~(s.key.kind = "timestamp" /\ ~IsOlderThan(s, idx[s.hi]))
  <2> DEFINE t == [s EXCEPT !.step = "first", !.tailOffset = idx[s.hi].offset]
  <2>1. idx[s.hi].offset \in Nat
    BY <1>1 DEF IndexOK
  <2>2. /\ t \in AnySearch /\ t.step = "first" /\ t.from = s.from /\ t.to = s.to
        /\ t.lo = s.lo /\ t.hi = s.hi /\ t.key = s.key /\ t.tailOffset = idx[s.hi].offset
    BY <1>1, <2>1 DEF AnySearch, Search, Steps
  <2>3. ReadLast(s, head, idx) = t
    BY <1>4 DEF ReadLast
  <2> HIDE DEF t
  <2>4. t.key.kind = "timestamp" => IsOlderThan(t, idx[t.to])
    BY <1>1, <1>4, <2>2 DEF IsOlderThan
  <2> QED BY <1>1, <2>2, <2>3, <2>4 DEF NearestInv, BoundsInv
<1> QED BY <1>2, <1>3, <1>4

LEMMA ReadFirstInv ==
  ASSUME NEW s, NEW idx, NEW head \in Nat, IndexOK(idx), NearestInv(s, idx), s.step = "first"
  PROVE  NearestInv(ReadFirst(s, head, idx), idx)
<1>1. /\ s \in AnySearch /\ s.from \in Nat /\ s.to \in Nat /\ s.lo = s.from /\ s.hi = s.to
      /\ 1 <= s.from /\ s.from <= s.to /\ s.to <= Len(idx) /\ Len(idx) \in Nat
  BY DEF NearestInv, BoundsInv, IndexOK, AnySearch, Search
<1>2. CASE ~CanRead(s.lo, head, idx)
  BY <1>2, FailedInv DEF ReadFirst
<1>3. CASE CanRead(s.lo, head, idx) /\ ~IsNewerThan(s, idx[s.lo])
  <2>1. ASSUME NEW j \in s.from + 1 .. s.to PROVE ~IsNewerThan(s, idx[j])
    <3>1. j \in 1 .. Len(idx) /\ s.from \in 1 .. Len(idx) /\ s.from <= j
      BY <1>1
    <3> QED BY <1>1, <1>3, <3>1, ComparisonsAreOrdered
  <2>2. NearestInv(Found(s, s.from), idx)
    BY <1>1, <1>3, <2>1, FoundInv
  <2> QED BY <1>1, <1>3, <2>2 DEF ReadFirst
<1>4. CASE CanRead(s.lo, head, idx) /\ IsNewerThan(s, idx[s.lo])
  <2> DEFINE t == [s EXCEPT !.step = "middle"]
  <2>2. /\ t \in AnySearch /\ t.step = "middle" /\ t.from = s.from /\ t.to = s.to
        /\ t.lo = s.lo /\ t.hi = s.hi /\ t.key = s.key /\ t.tailOffset = s.tailOffset
    BY <1>1 DEF AnySearch, Search, Steps
  <2>3. ReadFirst(s, head, idx) = t
    BY <1>4 DEF ReadFirst
  <2>4. \A r : /\ IsOlderThan(t, r) <=> IsOlderThan(s, r)
               /\ IsNewerThan(t, r) <=> IsNewerThan(s, r)
    BY <2>2, SameComparisons
  <2> HIDE DEF t
  <2>5. IF t.key.kind = "timestamp" THEN IsOlderThan(t, idx[t.to])
                                    ELSE t.tailOffset = idx[t.to].offset
    BY <2>2, <2>4 DEF NearestInv, BoundsInv
  <2> QED BY <1>1, <1>4, <2>2, <2>3, <2>4, <2>5 DEF NearestInv, BoundsInv
<1> QED BY <1>2, <1>3, <1>4

(* One iteration: it finds the record, or narrows the bounds, or ends. *)
LEMMA ReadMiddleInv ==
  ASSUME NEW s, NEW idx, NEW head \in Nat, IndexOK(idx), NearestInv(s, idx), s.step = "middle"
  PROVE  NearestInv(ReadMiddle(s, head, idx), idx)
<1> DEFINE m == (s.lo + s.hi) \div 2
<1>1. /\ s \in AnySearch /\ s.from \in Nat /\ s.to \in Nat /\ s.lo \in Nat /\ s.hi \in Nat
      /\ Len(idx) \in Nat /\ s.key.kind \in {"timestamp", "size"} /\ s.key.value \in Nat
  BY DEF NearestInv, IndexOK, AnySearch, Search
<1>2. /\ 1 <= s.from /\ s.from <= s.lo /\ s.lo <= s.hi /\ s.hi <= s.to /\ s.to <= Len(idx)
      /\ IsNewerThan(s, idx[s.from])
      /\ \A j \in s.from .. s.lo - 1 : IsNewerThan(s, idx[j])
      /\ \A j \in s.hi + 1 .. s.to : IsOlderThan(s, idx[j])
      /\ IF s.key.kind = "timestamp" THEN IsOlderThan(s, idx[s.to])
                                     ELSE s.tailOffset = idx[s.to].offset
  <2>1. BoundsInv(s, idx) BY DEF NearestInv
  <2> QED BY <1>1, <2>1 DEF BoundsInv
<1>3. m \in Nat /\ s.lo <= m /\ m <= s.hi
  BY <1>1, <1>2
<1> HIDE DEF m
<1>4. m \in 1 .. Len(idx) /\ s.from \in 1 .. Len(idx) /\ s.to \in 1 .. Len(idx)
  BY <1>1, <1>2, <1>3
<1>5. CASE ~CanRead(m, head, idx)
  BY <1>5, FailedInv DEF ReadMiddle, m
<1>6. CASE CanRead(m, head, idx) /\ ~IsOlderThan(s, idx[m]) /\ ~IsNewerThan(s, idx[m])
  <2>1. ASSUME NEW j \in m + 1 .. s.to PROVE ~IsNewerThan(s, idx[j])
    <3>1. j \in 1 .. Len(idx) /\ m <= j BY <1>1, <1>2, <1>3
    <3> QED BY <1>1, <1>4, <1>6, <3>1, ComparisonsAreOrdered
  <2>2. ASSUME NEW j \in s.from .. m - 1
        PROVE  /\ ~IsOlderThan(s, idx[j])
               /\ s.key.kind = "timestamp" /\ idx[j].timestamp < idx[m].timestamp =>
                    IsNewerThan(s, idx[j])
    <3>1. j \in 1 .. Len(idx) /\ j <= m BY <1>1, <1>2, <1>3
    <3>2. ~IsOlderThan(s, idx[j]) BY <1>1, <1>4, <1>6, <3>1, ComparisonsAreOrdered
    <3>3. idx[j].timestamp \in Nat /\ idx[m].timestamp \in Nat BY <1>4, <3>1 DEF IndexOK
    <3>4. s.key.kind = "timestamp" /\ idx[j].timestamp < idx[m].timestamp =>
            IsNewerThan(s, idx[j])
      BY <1>1, <1>6, <3>3 DEF IsOlderThan, IsNewerThan
    <3> QED BY <3>2, <3>4
  <2>3. m \in s.from .. s.to BY <1>1, <1>2, <1>3
  <2>4. s.method = Before =>
          /\ \A j \in m + 1 .. s.to : ~IsNewerThan(s, idx[j])
          /\ m # s.from => ~IsOlderThan(s, idx[m])
    BY <1>6, <2>1
  <2>5. s.method = After =>
          /\ \A j \in s.from .. m - 1 :
               /\ ~IsOlderThan(s, idx[j])
               /\ s.key.kind = "timestamp" /\ idx[j].timestamp < idx[m].timestamp =>
                    IsNewerThan(s, idx[j])
          /\ m # s.to => ~IsNewerThan(s, idx[m])
    BY <1>6, <2>2
  <2>6. s.from <= s.to BY <1>1, <1>2
  <2>7. NearestInv(Found(s, m), idx)
    BY <1>1, <1>2, <2>3, <2>4, <2>5, <2>6, FoundInv
  <2> QED BY <1>6, <2>7 DEF ReadMiddle, m
<1>7. CASE CanRead(m, head, idx) /\ (IsOlderThan(s, idx[m]) \/ IsNewerThan(s, idx[m]))
  <2> DEFINE lo == IF IsNewerThan(s, idx[m]) THEN m + 1 ELSE s.lo
             hi == IF IsOlderThan(s, idx[m]) THEN m - 1 ELSE s.hi
             t  == [s EXCEPT !.lo = lo, !.hi = hi,
                             !.step = IF lo > hi THEN "end" ELSE "middle"]
  <2>1. ~(IsOlderThan(s, idx[m]) /\ IsNewerThan(s, idx[m]))
    BY <1>1, <1>4, ComparisonsAreOrdered
  <2>2. lo \in Nat /\ hi \in Nat /\ s.from <= lo /\ lo <= s.to /\ s.from <= hi /\ hi <= s.to
        /\ (lo > hi => lo = hi + 1)
    <3>1. CASE IsNewerThan(s, idx[m])
      <4>1. ~IsOlderThan(s, idx[m]) BY <2>1, <3>1
      <4>2. m # s.to
        <5>1. ASSUME m = s.to PROVE FALSE
          <6>1. CASE s.key.kind = "timestamp" BY <1>2, <4>1, <5>1, <6>1
          <6>2. CASE s.key.kind # "timestamp"
            <7>1. idx[s.to].offset \in Nat BY <1>4 DEF IndexOK
            <7>2. s.key.value < s.tailOffset - idx[s.to].offset
              BY <3>1, <5>1, <6>2 DEF IsNewerThan
            <7>3. s.tailOffset = idx[s.to].offset BY <1>2, <6>2
            <7> QED BY <1>1, <7>1, <7>2, <7>3
          <6> QED BY <6>1, <6>2
        <5> QED BY <5>1
      <4> QED BY <1>1, <1>2, <1>3, <3>1, <4>1, <4>2
    <3>2. CASE IsOlderThan(s, idx[m])
      <4>1. ~IsNewerThan(s, idx[m]) BY <2>1, <3>2
      <4>2. m # s.from BY <1>2, <4>1
      <4> QED BY <1>1, <1>2, <1>3, <3>2, <4>1, <4>2
    <3> QED BY <1>7, <3>1, <3>2
  <2>3. \A j \in s.from .. lo - 1 : IsNewerThan(s, idx[j])
    <3>1. CASE IsNewerThan(s, idx[m])
      <4>1. ASSUME NEW j \in s.from .. m PROVE IsNewerThan(s, idx[j])
        <5>1. j \in 1 .. Len(idx) /\ j <= m BY <1>1, <1>2, <1>3
        <5> QED BY <1>1, <1>4, <3>1, <5>1, ComparisonsAreOrdered
      <4>2. lo = m + 1 BY <3>1
      <4> HIDE DEF lo
      <4> QED BY <1>1, <1>3, <4>1, <4>2
    <3>2. CASE ~IsNewerThan(s, idx[m]) BY <1>2, <3>2
    <3> QED BY <3>1, <3>2
  <2>4. \A j \in hi + 1 .. s.to : IsOlderThan(s, idx[j])
    <3>1. CASE IsOlderThan(s, idx[m])
      <4>1. ASSUME NEW j \in m .. s.to PROVE IsOlderThan(s, idx[j])
        <5>1. j \in 1 .. Len(idx) /\ m <= j BY <1>1, <1>2, <1>3
        <5> QED BY <1>1, <1>4, <3>1, <5>1, ComparisonsAreOrdered
      <4>2. hi = m - 1 BY <3>1
      <4> HIDE DEF hi
      <4> QED BY <1>1, <1>3, <4>1, <4>2
    <3>2. CASE ~IsOlderThan(s, idx[m]) BY <1>2, <3>2
    <3> QED BY <3>1, <3>2
  <2>5. ReadMiddle(s, head, idx) = t
    BY <1>7 DEF ReadMiddle, m
  <2> HIDE DEF lo, hi
  <2>6. /\ t \in AnySearch /\ t.from = s.from /\ t.to = s.to /\ t.lo = lo /\ t.hi = hi
        /\ t.key = s.key /\ t.tailOffset = s.tailOffset
        /\ t.step = IF lo > hi THEN "end" ELSE "middle"
    BY <1>1, <2>2 DEF AnySearch, Search, Steps
  <2>7. \A r : /\ IsOlderThan(t, r) <=> IsOlderThan(s, r)
               /\ IsNewerThan(t, r) <=> IsNewerThan(s, r)
    BY <2>6, SameComparisons
  <2> HIDE DEF t
  <2>8. BoundsInv(t, idx)
    BY <1>1, <1>2, <2>2, <2>3, <2>4, <2>6, <2>7 DEF BoundsInv
  <2> QED BY <2>5, <2>6, <2>8 DEF NearestInv
<1> QED BY <1>5, <1>6, <1>7

LEMMA ReadEndInv ==
  ASSUME NEW s, NEW idx, NEW head \in Nat, IndexOK(idx), NearestInv(s, idx), s.step = "end"
  PROVE  NearestInv(ReadEnd(s, head, idx), idx)
<1> DEFINE i == IF s.method = Before THEN s.hi ELSE s.lo
<1>1. /\ s \in AnySearch /\ s.from \in Nat /\ s.to \in Nat /\ s.lo \in Nat /\ s.hi \in Nat
      /\ Len(idx) \in Nat
  BY DEF NearestInv, IndexOK, AnySearch, Search
<1>2. /\ 1 <= s.from /\ s.from <= s.lo /\ s.lo <= s.to /\ s.from <= s.hi /\ s.hi <= s.to
      /\ s.to <= Len(idx) /\ s.lo = s.hi + 1
      /\ \A j \in s.from .. s.lo - 1 : IsNewerThan(s, idx[j])
      /\ \A j \in s.hi + 1 .. s.to : IsOlderThan(s, idx[j])
  <2>1. BoundsInv(s, idx) BY DEF NearestInv
  <2> QED BY <1>1, <2>1 DEF BoundsInv
<1>3. ASSUME NEW j \in s.from .. s.to PROVE ~(IsOlderThan(s, idx[j]) /\ IsNewerThan(s, idx[j]))
  <2>1. j \in 1 .. Len(idx) /\ j <= j BY <1>1, <1>2
  <2> QED BY <1>1, <2>1, ComparisonsAreOrdered
<1>4. i \in s.from .. s.to BY <1>1, <1>2
<1>5. CASE ~CanRead(i, head, idx)
  BY <1>5, FailedInv DEF ReadEnd
<1>6. CASE CanRead(i, head, idx)
  <2>1. ASSUME s.method = Before
        PROVE  /\ \A j \in i + 1 .. s.to : ~IsNewerThan(s, idx[j])
               /\ i # s.from => ~IsOlderThan(s, idx[i])
    BY <1>1, <1>2, <1>3, <1>4, <2>1
  <2>2. ASSUME s.method = After
        PROVE  /\ \A j \in s.from .. i - 1 : /\ ~IsOlderThan(s, idx[j])
                                            /\ IsNewerThan(s, idx[j])
               /\ i # s.to => ~IsNewerThan(s, idx[i])
    <3>1. i = s.lo BY <2>2 DEF Before, After
    <3> HIDE DEF i
    <3> QED BY <1>1, <1>2, <1>3, <1>4, <3>1
  <2> HIDE DEF i
  <2>3. s.method = After =>
          /\ \A j \in s.from .. i - 1 :
               /\ ~IsOlderThan(s, idx[j])
               /\ s.key.kind = "timestamp" /\ idx[j].timestamp < idx[i].timestamp =>
                    IsNewerThan(s, idx[j])
          /\ i # s.to => ~IsNewerThan(s, idx[i])
    BY <2>2
  <2>4. s.from <= s.to BY <1>1, <1>2
  <2>5. NearestInv(Found(s, i), idx)
    BY <1>1, <1>2, <1>4, <2>1, <2>3, <2>4, FoundInv
  <2> QED BY <1>6, <2>5 DEF ReadEnd, i
<1> QED BY <1>5, <1>6

(* Whatever is read next, and however little of the index is left. *)
LEMMA ReadNextNearest ==
  ASSUME NEW s, NEW idx, NEW head \in Nat, IndexOK(idx), NearestInv(s, idx), Searching(s)
  PROVE  NearestInv(ReadNext(s, head, idx), idx)
<1>1. s.step \in {"open", "last", "first", "middle", "end"}
  BY DEF NearestInv, AnySearch, Search, Steps, Searching
<1>2. CASE s.step = "open"   BY <1>2, ReadBoundsInv DEF ReadNext
<1>3. CASE s.step = "last"   BY <1>3, ReadLastInv DEF ReadNext
<1>4. CASE s.step = "first"  BY <1>4, ReadFirstInv DEF ReadNext
<1>5. CASE s.step = "middle" BY <1>5, ReadMiddleInv DEF ReadNext
<1>6. CASE s.step = "end"    BY <1>6, ReadEndInv DEF ReadNext
<1> QED BY <1>1, <1>2, <1>3, <1>4, <1>5, <1>6

(* A search goes on for what it was begun for. *)
LEMMA ReadNextSame ==
  ASSUME NEW s \in AnySearch, NEW idx, NEW head, Searching(s)
  PROVE  /\ ReadNext(s, head, idx).key = s.key
         /\ ReadNext(s, head, idx).method = s.method
         /\ ReadNext(s, head, idx).step # "open"
         /\ s.step # "open" => /\ ReadNext(s, head, idx).from = s.from
                               /\ ReadNext(s, head, idx).to = s.to
<1>1. s.step \in {"open", "last", "first", "middle", "end"}
  BY DEF AnySearch, Search, Steps, Searching
<1>2. CASE s.step = "open"   BY <1>2 DEF ReadNext, ReadBounds, Failed, AnySearch, Search
<1>3. CASE s.step = "last"   BY <1>3 DEF ReadNext, ReadLast, Failed, Found, AnySearch, Search
<1>4. CASE s.step = "first"  BY <1>4 DEF ReadNext, ReadFirst, Failed, Found, AnySearch, Search
<1>5. CASE s.step = "middle" BY <1>5 DEF ReadNext, ReadMiddle, Failed, Found, AnySearch, Search
<1>6. CASE s.step = "end"    BY <1>6 DEF ReadNext, ReadEnd, Failed, Found, AnySearch, Search
<1> QED BY <1>1, <1>2, <1>3, <1>4, <1>5, <1>6

(* What a search has found could be read at that moment. *)
LEMMA ReadNextReads ==
  ASSUME NEW s \in AnySearch, NEW idx, NEW head, Searching(s),
         ReadNext(s, head, idx).step = "found"
  PROVE  CanRead(Result(ReadNext(s, head, idx)), head, idx)
<1>1. s.step \in {"open", "last", "first", "middle", "end"}
  BY DEF AnySearch, Search, Steps, Searching
<1>2. CASE s.step = "open"   BY <1>2 DEF ReadNext, ReadBounds, Failed, AnySearch, Search
<1>3. CASE s.step = "last"
  BY <1>3 DEF ReadNext, ReadLast, Failed, Found, Result, AnySearch, Search
<1>4. CASE s.step = "first"
  BY <1>4 DEF ReadNext, ReadFirst, Failed, Found, Result, AnySearch, Search
<1>5. CASE s.step = "middle"
  BY <1>5 DEF ReadNext, ReadMiddle, Failed, Found, Result, AnySearch, Search
<1>6. CASE s.step = "end"
  BY <1>6 DEF ReadNext, ReadEnd, Failed, Found, Result, AnySearch, Search
<1> QED BY <1>1, <1>2, <1>3, <1>4, <1>5, <1>6

(* A search reads nothing in front of the head at which it began, which the head
   of the index does not go back behind. *)
BeganAt(s, head) == s.step \notin {"open", "failed"} => s.from <= head + 1

LEMMA ReadNextBegan ==
  ASSUME NEW s \in AnySearch, NEW idx, NEW head \in Nat, Searching(s), BeganAt(s, head)
  PROVE  BeganAt(ReadNext(s, head, idx), head)
<1>1. CASE s.step = "open"
  BY <1>1 DEF BeganAt, ReadNext, ReadBounds, Failed, AnySearch, Search
<1>2. CASE s.step # "open"
  BY <1>2, ReadNextSame DEF BeganAt, Searching
<1> QED BY <1>1, <1>2

(* The index may grow between two reads. *)
LEMMA NearestGrows ==
  ASSUME NEW s, NEW idx, NEW new, NearestInv(s, idx), IndexOK(idx), IndexOK(new),
         Len(idx) <= Len(new), \A i \in 1 .. Len(idx) : new[i] = idx[i]
  PROVE  NearestInv(s, new)
<1>1. /\ s \in AnySearch /\ s.from \in Nat /\ s.to \in Nat /\ s.lo \in Nat /\ s.hi \in Nat
      /\ Len(idx) \in Nat /\ Len(new) \in Nat /\ BoundsInv(s, idx)
  BY DEF NearestInv, IndexOK, AnySearch, Search
<1>2. CASE s.step \in {"open", "failed"}
  BY <1>1, <1>2 DEF NearestInv, BoundsInv
<1>3. CASE s.step \notin {"open", "failed"}
  <2>1. 1 <= s.from /\ s.from <= s.to /\ s.to <= Len(idx)
    BY <1>1, <1>3 DEF BoundsInv
  <2>2. \A j \in s.from .. s.to : new[j] = idx[j]
    BY <1>1, <2>1
  <2>3. new[s.from] = idx[s.from] /\ new[s.to] = idx[s.to]
    BY <1>1, <2>1, <2>2
  <2>4. BoundsInv(s, new)
    <3>1. s.step \in {"first", "middle", "end"} =>
            IF s.key.kind = "timestamp" THEN IsOlderThan(s, new[s.to])
                                        ELSE s.tailOffset = new[s.to].offset
      BY <1>1, <2>3 DEF BoundsInv
    <3>2. s.step \in {"middle", "end"} =>
            /\ s.from <= s.lo /\ s.lo <= s.to /\ s.from <= s.hi /\ s.hi <= s.to
            /\ IsNewerThan(s, new[s.from])
            /\ \A j \in s.from .. s.lo - 1 : IsNewerThan(s, new[j])
            /\ \A j \in s.hi + 1 .. s.to : IsOlderThan(s, new[j])
      <4>1. SUFFICES ASSUME s.step \in {"middle", "end"}
                     PROVE  /\ s.from <= s.lo /\ s.lo <= s.to /\ s.from <= s.hi /\ s.hi <= s.to
                            /\ IsNewerThan(s, new[s.from])
                            /\ \A j \in s.from .. s.lo - 1 : IsNewerThan(s, new[j])
                            /\ \A j \in s.hi + 1 .. s.to : IsOlderThan(s, new[j])
        OBVIOUS
      <4>2. /\ s.from <= s.lo /\ s.lo <= s.to /\ s.from <= s.hi /\ s.hi <= s.to
            /\ IsNewerThan(s, idx[s.from])
            /\ \A j \in s.from .. s.lo - 1 : IsNewerThan(s, idx[j])
            /\ \A j \in s.hi + 1 .. s.to : IsOlderThan(s, idx[j])
        BY <1>1, <4>1 DEF BoundsInv
      <4> QED BY <1>1, <2>1, <2>2, <2>3, <4>2
    <3> QED BY <1>1, <2>1, <3>1, <3>2 DEF BoundsInv
  <2>5. ASSUME s.step = "found" PROVE IsNearest(s, new) /\ FirstAfter(s, new)
    <3>1. IsNearest(s, idx) /\ FirstAfter(s, idx)
      BY <2>5 DEF NearestInv
    <3>2. Result(s) \in s.from .. s.to
      BY <3>1 DEF IsNearest
    <3>3. IsNearest(s, new)
      BY <1>1, <2>1, <2>2, <3>1, <3>2 DEF IsNearest
    <3>4. FirstAfter(s, new)
      BY <1>1, <2>1, <2>2, <3>1, <3>2 DEF FirstAfter
    <3> QED BY <3>3, <3>4
  <2> QED BY <1>1, <2>4, <2>5 DEF NearestInv
<1> QED BY <1>2, <1>3

=============================================================================
