-------------------------- MODULE VideoStreamProofs --------------------------
(***************************************************************************)
(* What every implementation of VideoStream gives its readers.             *)
(***************************************************************************)
EXTENDS VideoStream, TLAPS

(***************************************************************************)
(* Readable is not inductive.  A truncation of the index exposes a later   *)
(* record, whose offset is at least that of the record it replaces only if *)
(* the offsets are ordered; and the first record ever published finds its  *)
(* data only if nothing has been truncated before.                         *)
(***************************************************************************)
NothingTruncated == index = << >> => dataHead = 0 /\ indexHead = 0

StreamInv ==
  /\ StreamTypeOK
  /\ NothingTruncated
  /\ OffsetsOrdered
  /\ NeverEmptied
  /\ Readable

LEMMA AppendType ==
  ASSUME NEW S, NEW s \in Seq(S), NEW e \in S
  PROVE  /\ Append(s, e) \in Seq(S)
         /\ Len(Append(s, e)) = Len(s) + 1
         /\ \A i \in 1 .. Len(s) : Append(s, e)[i] = s[i]
         /\ Append(s, e)[Len(s) + 1] = e
OBVIOUS

LEMMA IndexType ==
  ASSUME StreamTypeOK
  PROVE  /\ Len(index) \in Nat
         /\ index = << >> <=> Len(index) = 0
         /\ \A i \in 1 .. Len(index) : index[i] \in Records /\ index[i].offset \in Nat
<1>1. index \in Seq(Records)
  BY DEF StreamTypeOK
<1>2. Len(index) \in Nat /\ \A i \in 1 .. Len(index) : index[i] \in Records
  BY <1>1
<1>3. index = << >> <=> Len(index) = 0
  BY <1>1
<1> QED BY <1>2, <1>3, OffsetsAssumption, RecordsAssumption

LEMMA OffsetsAreNat == Offsets \subseteq Nat /\ 0 \in Offsets
BY OffsetsAssumption

(* The invariant holds of the empty stream, and is kept by every step. *)
LEMMA StreamInvInit == StreamInit => StreamInv
BY OffsetsAssumption
   DEF StreamInit, StreamInv, StreamTypeOK, NothingTruncated, OffsetsOrdered,
       NeverEmptied, Readable

LEMMA StreamInvNext == StreamInv /\ [StreamNext]_streamVars => StreamInv'
<1> SUFFICES ASSUME StreamInv, [StreamNext]_streamVars PROVE StreamInv'
  OBVIOUS
<1> USE OffsetsAreNat
    DEF StreamInv, StreamTypeOK, NothingTruncated, OffsetsOrdered, NeverEmptied, Readable
<1>0. /\ Len(index) \in Nat
      /\ index = << >> <=> Len(index) = 0
      /\ \A i \in 1 .. Len(index) : index[i].offset \in Nat
  BY IndexType
<1>1. ASSUME NEW o \in Offsets, AppendData(o) PROVE StreamInv'
  <2>1. dataTail' = o /\ dataTail < o /\ UNCHANGED <<dataHead, index, indexHead>>
    BY <1>1 DEF AppendData
  <2>2. \A i \in 1 .. Len(index) : index[i].offset <= o
    BY <1>0, <2>1
  <2> QED BY <2>1, <2>2
<1>2. ASSUME NEW r \in Records, Publish(r) PROVE StreamInv'
  <2> DEFINE n == Len(index) + 1
  <2>1. /\ index' \in Seq(Records) /\ Len(index') = n
        /\ \A i \in 1 .. Len(index) : index'[i] = index[i]
        /\ index'[n] = r
    BY <1>2, AppendType DEF Publish
  <2>2. UNCHANGED <<dataHead, dataTail, indexHead>> /\ r.offset <= dataTail /\ r.offset \in Nat
    BY <1>2, RecordsAssumption DEF Publish
  <2>3. \A i \in 1 .. Len(index) : index[i].offset <= r.offset /\ index[i].offset \in Nat
    BY <1>0, <1>2 DEF Publish
  <2>4. StreamTypeOK' /\ NothingTruncated'
    BY <1>0, <2>1, <2>2
  <2>5. OffsetsOrdered'
    <3> SUFFICES ASSUME NEW i \in 1 .. n, NEW j \in 1 .. n, i <= j
                 PROVE  index'[i].offset <= index'[j].offset
      BY <2>1
    <3>1. CASE j = n
      <4>1. CASE i = n
        BY <1>0, <2>1, <2>2, <3>1, <4>1
      <4>2. CASE i # n
        BY <1>0, <2>1, <2>3, <3>1, <4>2
      <4> QED BY <4>1, <4>2
    <3>2. CASE j # n
      <4>1. i \in 1 .. Len(index) /\ j \in 1 .. Len(index)
        <5> HIDE DEF StreamInv, OffsetsOrdered, Readable, NeverEmptied, NothingTruncated
        <5>1. i \in Int /\ j \in Int /\ 1 <= i /\ i <= j /\ j <= n
          BY <1>0
        <5> QED BY <1>0, <3>2, <5>1
      <4> QED BY <2>1, <4>1
    <3> QED BY <3>1, <3>2
  <2>6. NeverEmptied'
    BY <1>0, <2>1, <2>2
  <2>7. Readable'
    <3>1. \A i \in 1 .. n : index'[i].offset <= dataTail
      BY <1>0, <2>1, <2>2
    <3>2. dataHead <= index'[indexHead + 1].offset
      <4>1. CASE index = << >>
        BY <1>0, <2>1, <2>2, <4>1
      <4>2. CASE index # << >>
        BY <1>0, <2>1, <4>2
      <4> QED BY <4>1, <4>2
    <3> QED BY <2>1, <2>2, <3>1, <3>2
  <2> QED BY <2>4, <2>5, <2>6, <2>7 DEF StreamInv
<1>3. ASSUME NEW i \in 1 .. Len(index), TruncateIndex(i) PROVE StreamInv'
  <2>1. index[indexHead + 1].offset <= index[i].offset /\ index[i].offset \in Nat
    BY <1>0, <1>3 DEF TruncateIndex
  <2> QED BY <1>0, <1>3, <2>1 DEF TruncateIndex
<1>4. ASSUME NEW o \in Offsets, TruncateData(o) PROVE StreamInv'
  BY <1>0, <1>4 DEF TruncateData
<1>5. CASE UNCHANGED streamVars
  BY <1>5 DEF streamVars
<1> QED BY <1>1, <1>2, <1>3, <1>4, <1>5 DEF StreamNext

(* A stream is readable at every moment: no record that a reader can find
   points before the truncated data or beyond the persisted data. *)
THEOREM StreamReadable == StreamSpec => []Readable
<1>1. StreamInv => Readable
  BY DEF StreamInv
<1> QED BY StreamInvInit, StreamInvNext, <1>1, PTL DEF StreamSpec

(* The index is ordered by offset, and once it has a record it always has one. *)
THEOREM StreamOrdered == StreamSpec => [](OffsetsOrdered /\ NeverEmptied)
<1>1. StreamInv => OffsetsOrdered /\ NeverEmptied
  BY DEF StreamInv
<1> QED BY StreamInvInit, StreamInvNext, <1>1, PTL DEF StreamSpec

==============================================================================
