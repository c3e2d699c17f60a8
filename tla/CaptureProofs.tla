---------------------------- MODULE CaptureProofs ----------------------------
(***************************************************************************)
(* What comes out of the capturing pipeline: timestamps that are true as   *)
(* soon as they can be, and whole fragments that do not go back in time,   *)
(* while the camera, mp4mux and pravegasink each go on or fail.  The       *)
(* proofs are for any camera, any settings and any number of frames.       *)
(***************************************************************************)
EXTENDS Capture, TLAPS

------------------------------------------------------------------------------
(* The inductive invariants                                                  *)

InTimeOrder ==
  \A i, j \in 1 .. Len(frames) : i <= j => frames[i].time <= frames[j].time

(* The last frame is what the next one is compared with.  A frame whose time is
   before 1970 leaves no prev_input, although there is a prev_output. *)
CvtInv ==
  /\ CvtTypeOK
  /\ IF frames = << >>
       THEN prevInput = NoTime /\ prevOutput = NoTime
       ELSE /\ prevInput = frames[Len(frames)].true
            /\ prevOutput = frames[Len(frames)].time
  /\ InTimeOrder
  /\ TrueUnlessBehind

(* Every fragment has frames, and they are there. *)
EndsInv ==
  /\ ends \in Seq(Nat)
  /\ \A n \in 0 .. Len(ends) : Muxed(n) \in Nat /\ Muxed(n) <= Len(frames)
  /\ \A m, n \in 0 .. Len(ends) : m < n => Muxed(m) < Muxed(n)

FirstOf(n) == Muxed(n - 1) + 1
SizeOf(n)  == ends[n] - Muxed(n - 1)

(* A fragment that has been pushed. *)
WholeFragment(n) ==
  [header |-> frames[FirstOf(n)].key, moof |-> n,
   mdat |-> [i \in 1 .. SizeOf(n) |-> Muxed(n - 1) + i],
   pts |-> frames[FirstOf(n)].time, end |-> frames[ends[n]].time + FrameDuration,
   delta |-> ~frames[FirstOf(n)].key]

PushedInv ==
  /\ pushed \in Seq(Fragment) /\ Len(pushed) <= Len(ends)
  /\ \A n \in 1 .. Len(pushed) : pushed[n] = WholeFragment(n)

(* The chunk of the last fragment that is followed by r others. *)
ChunkAt(r) ==
  LET n == Len(ends)  k == SizeOf(n)
  IN IF r < k THEN Sample(ends[n] - r)
     ELSE IF r = k THEN Atom("mdat", n, k)
     ELSE IF r = k + 1 THEN Atom("moof", n, 0)
     ELSE IF r = k + 2 THEN Atom("moov", 0, 0)
     ELSE Atom("ftyp", 0, 0)

(* What fragmp4pay knows of the fragment after m of its samples. *)
Gathered(m) ==
  LET first == FirstOf(Len(ends))
  IN IF m = 0 THEN NoFragment
     ELSE [pts |-> frames[first].time, end |-> frames[first + m - 1].time + FrameDuration,
           delta |-> ~frames[first].key]

Nothing ==
  /\ chunks = << >> /\ parser = << >> /\ pushed = << >>
  /\ header = {} /\ moof = NoMoof /\ fragment = NoFragment

(* How far the last fragment has come, by the number of chunks still to send. *)
FragmentInv ==
  LET n == Len(ends)  k == SizeOf(n)  c == Len(chunks)
  IN /\ c \in Nat /\ c <= k + (IF n = 1 THEN 4 ELSE 2)
     /\ chunks = [i \in 1 .. c |-> ChunkAt(c - i)]
     /\ header = IF c = k + 4 THEN {} ELSE IF c = k + 3 THEN {"ftyp"} ELSE {"ftyp", "moov"}
     /\ moof = IF c >= k + 2 THEN n - 1 ELSE n
     /\ Len(pushed) = IF c = 0 THEN n ELSE n - 1
     /\ parser = IF c \in 1 .. k THEN [i \in 1 .. k - c + 1 |-> ChunkAt(k - i + 1)] ELSE << >>
     /\ fragment = IF c \in 1 .. k THEN Gathered(k - c) ELSE NoFragment
     /\ \A i \in FirstOf(n) + 1 .. ends[n] : ~frames[i].key

MuxInv ==
  flow = "ok" => IF ends = << >> THEN Nothing ELSE FragmentInv

CaptureInv ==
  /\ CvtInv
  /\ EndsInv
  /\ PushedInv
  /\ MuxInv

------------------------------------------------------------------------------
(* timestampcvt                                                              *)

LEMMA AppendTo ==
  ASSUME NEW S, NEW q \in Seq(S), NEW x \in S
  PROVE  /\ Append(q, x) \in Seq(S) /\ Len(Append(q, x)) = Len(q) + 1 /\ Len(q) \in Nat
         /\ Append(q, x)[Len(q) + 1] = x /\ Append(q, x) # << >>
         /\ \A i \in 1 .. Len(q) : Append(q, x)[i] = q[i]
OBVIOUS

LEMMA TimesAreNumbers ==
  /\ Wrap \in Nat \ {0} /\ CorrectionDelta \in Nat \ {0} /\ Wrap \in Int
  /\ \A t \in Times : t \in Nat /\ t > NoTime
  /\ NoTime \notin Times /\ NoTime \in Int
BY CvtAssumption DEF Times, NoTime

(* The true time of a buffer is a time, or it cannot be converted. *)
LEMMA TrueTimeIsTime ==
  ASSUME CvtTypeOK, NEW time \in cvt.inputs \ {NoTime}
  PROVE  /\ time \in Times /\ OffsetFor(time) \in Int
         /\ TrueTime(time) \in Times \cup {NoTime}
<1>1. /\ cvt \in [mode : Modes, start : Times, inputs : SUBSET (Times \cup {NoTime})]
      /\ offset \in Int
  BY CvtAssumption DEF CvtTypeOK
<1>2. time \in Times /\ cvt.start \in Times /\ time \in Nat /\ cvt.start \in Nat
  BY <1>1, TimesAreNumbers
<1>3. OffsetFor(time) \in Int
  BY <1>1, <1>2 DEF OffsetFor
<1>4. (time + OffsetFor(time)) % Wrap \in Times
  <2> DEFINE x == time + OffsetFor(time)
  <2>1. x \in Int /\ Wrap \in Nat /\ Wrap > 0
    BY <1>2, <1>3, TimesAreNumbers
  <2> HIDE DEF x
  <2>2. x % Wrap \in 0 .. Wrap - 1
    BY <2>1
  <2> QED BY <2>2 DEF x, Times
<1>5. FromNtp(time) \in Times \cup {NoTime}
  <2>1. Epoch \in Nat /\ LeapSeconds \in Nat /\ LeapSeconds <= Epoch /\ Wrap \in Nat
    BY CvtAssumption
  <2> QED BY <1>2, <2>1 DEF FromNtp, Times
<1> QED BY <1>2, <1>3, <1>4, <1>5 DEF TrueTime

LEMMA InputIsNumber ==
  ASSUME NEW t \in Times \cup {NoTime} PROVE t \in Int /\ NoTime <= t
BY TimesAreNumbers DEF NoTime

(* What is pushed for an input is not before it, and is it if nothing later was. *)
LEMMA OutputIsLate ==
  ASSUME CvtInv, NEW input \in Times \cup {NoTime}, Accepts(Output(input))
  PROVE  /\ Output(input) \in Times /\ Output(input) >= input
         /\ Output(input) >= prevOutput
         /\ (frames = << >> \/ prevOutput < input) => Output(input) = input
<1>1. /\ prevInput \in Times \cup {NoTime} /\ prevOutput \in Times \cup {NoTime}
      /\ frames \in Seq(Frame) /\ input \in Int /\ prevInput \in Int /\ prevOutput \in Int
  BY InputIsNumber DEF CvtInv, CvtTypeOK
<1>2. frames # << >> => prevOutput >= prevInput
  <2>1. frames # << >> => Len(frames) \in 1 .. Len(frames)
    BY <1>1
  <2> QED BY <2>1 DEF CvtInv, TrueUnlessBehind
<1>3. frames = << >> => prevInput = NoTime
  BY DEF CvtInv
<1>4. Output(input) \in Times /\ Output(input) >= prevOutput
  BY DEF Accepts
<1>5. CorrectionDelta \in Nat
  BY TimesAreNumbers
<1>6. CASE prevInput = NoTime
  BY <1>1, <1>4, <1>6 DEF Output
<1>7. CASE prevInput # NoTime
  <2>1. frames # << >> /\ prevOutput >= prevInput
    BY <1>2, <1>3, <1>7
  <2>2. CASE input = prevInput
    BY <1>1, <1>4, <1>7, <2>1, <2>2 DEF Output
  <2>3. CASE input # prevInput /\ prevOutput < input
    BY <1>1, <1>4, <1>7, <2>1, <2>3 DEF Output
  <2>4. CASE input # prevInput /\ ~(prevOutput < input)
    BY <1>1, <1>4, <1>5, <1>7, <2>1, <2>4 DEF Output
  <2> QED BY <2>2, <2>3, <2>4
<1> QED BY <1>6, <1>7

LEMMA ConvertInv ==
  ASSUME CvtInv, NEW time, NEW key \in BOOLEAN, Convert(time, key)
  PROVE  CvtInv'
<1> DEFINE input == TrueTime(time)  output == Output(input)  l == Len(frames)
           f == [time |-> output, true |-> input, key |-> key]
<1>1. /\ CvtTypeOK /\ frames \in Seq(Frame) /\ l \in Nat
      /\ InTimeOrder /\ TrueUnlessBehind
  BY DEF CvtInv, CvtTypeOK
<1>2. time \in cvt.inputs \ {NoTime} /\ Accepts(output)
  BY DEF Convert
<1>3. input \in Times \cup {NoTime} /\ OffsetFor(time) \in Int
  BY <1>1, <1>2, TrueTimeIsTime
<1>4. /\ output \in Times /\ output >= input /\ output >= prevOutput
      /\ (frames = << >> \/ prevOutput < input) => output = input
  BY <1>2, <1>3, OutputIsLate
<1>5. /\ cvt' = cvt /\ flow' = flow /\ offset' = OffsetFor(time)
      /\ prevInput' = input /\ prevOutput' = output /\ frames' = Append(frames, f)
  BY DEF Convert
<1>6. /\ f \in Frame /\ f.time = output /\ f.true = input
  BY <1>3, <1>4 DEF Frame
<1> HIDE DEF input, output, f, l
<1>7. /\ frames' \in Seq(Frame) /\ Len(frames') = l + 1 /\ frames'[l + 1] = f
      /\ frames' # << >> /\ \A i \in 1 .. l : frames'[i] = frames[i]
  BY <1>1, <1>5, <1>6, AppendTo DEF l
<1>8. CvtTypeOK'
  BY <1>1, <1>3, <1>4, <1>5, <1>7 DEF CvtTypeOK
<1>9. \A i \in 1 .. l : /\ frames[i].time \in Nat /\ frames[i].true \in Int
                        /\ frames[i].time <= prevOutput
  <2> SUFFICES ASSUME NEW i \in 1 .. l
               PROVE  /\ frames[i].time \in Nat /\ frames[i].true \in Int
                      /\ frames[i].time <= prevOutput
    OBVIOUS
  <2>1. frames[i] \in Frame
    BY <1>1 DEF l
  <2>2. frames[i].time \in Nat /\ frames[i].true \in Int
    BY <2>1, TimesAreNumbers, InputIsNumber DEF Frame
  <2>3. frames # << >> /\ l \in 1 .. l /\ i <= l
    BY <1>1 DEF l
  <2>4. frames[i].time <= frames[l].time /\ prevOutput = frames[l].time
    BY <1>1, <2>3 DEF InTimeOrder, CvtInv, l
  <2> QED BY <2>2, <2>4
<1>10. /\ prevOutput \in Int /\ output \in Int /\ input \in Int
  BY <1>1, <1>3, <1>4, InputIsNumber DEF CvtTypeOK
<1>11. InTimeOrder'
  <2> SUFFICES ASSUME NEW i \in 1 .. l + 1, NEW j \in 1 .. l + 1, i <= j
               PROVE  frames'[i].time <= frames'[j].time
    BY <1>7 DEF InTimeOrder
  <2>1. CASE j \in 1 .. l
    <3>1. i \in 1 .. l
      BY <1>1, <2>1
    <3> QED BY <1>1, <1>7, <2>1, <3>1 DEF InTimeOrder, l
  <2>2. CASE j = l + 1 /\ i \in 1 .. l
    BY <1>4, <1>6, <1>7, <1>9, <1>10, <2>2
  <2>3. CASE j = l + 1 /\ i = l + 1
    BY <1>6, <1>7, <1>10, <2>3
  <2>4. (j \in 1 .. l \/ j = l + 1) /\ (i \in 1 .. l \/ i = l + 1)
    BY <1>1
  <2> QED BY <1>1, <2>1, <2>2, <2>3, <2>4
<1>12. TrueUnlessBehind'
  <2> SUFFICES ASSUME NEW i \in 1 .. l + 1
               PROVE  /\ frames'[i].time >= frames'[i].true
                      /\ (\A j \in 1 .. i - 1 : frames'[j].time < frames'[i].true)
                           => frames'[i].time = frames'[i].true
    BY <1>7 DEF TrueUnlessBehind
  <2>1. CASE i \in 1 .. l
    <3>1. \A j \in 1 .. i - 1 : j \in 1 .. l
      BY <1>1, <2>1
    <3>2. /\ frames[i].time >= frames[i].true
          /\ (\A j \in 1 .. i - 1 : frames[j].time < frames[i].true)
               => frames[i].time = frames[i].true
      BY <1>1, <2>1 DEF TrueUnlessBehind, l
    <3> QED BY <1>7, <2>1, <3>1, <3>2
  <2>2. CASE i = l + 1
    <3>1. frames'[i].time = output /\ frames'[i].true = input
      BY <1>6, <1>7, <2>2
    <3>2. ASSUME \A j \in 1 .. i - 1 : frames'[j].time < frames'[i].true
          PROVE  output = input
      <4>1. CASE frames = << >>
        BY <1>4, <4>1
      <4>2. CASE frames # << >>
        <5>1. l \in 1 .. l /\ i - 1 = l
          BY <1>1, <2>2, <4>2 DEF l
        <5>2. frames'[l].time < input /\ frames'[l] = frames[l]
          BY <1>7, <3>1, <3>2, <5>1
        <5>3. prevOutput = frames[l].time
          BY <4>2 DEF CvtInv, l
        <5> QED BY <1>4, <5>2, <5>3
      <4> QED BY <4>1, <4>2
    <3> QED BY <1>4, <3>1, <3>2
  <2>3. i \in 1 .. l \/ i = l + 1
    BY <1>1
  <2> QED BY <2>1, <2>2, <2>3
<1>13. prevInput' = frames'[Len(frames')].true /\ prevOutput' = frames'[Len(frames')].time
  BY <1>5, <1>6, <1>7
<1> QED BY <1>7, <1>8, <1>11, <1>12, <1>13 DEF CvtInv

LEMMA CvtKept ==
  ASSUME CvtInv, UNCHANGED <<prevInput, prevOutput, frames>>, CvtTypeOK' PROVE CvtInv'
BY DEF CvtInv, InTimeOrder, TrueUnlessBehind

LEMMA ReceiveInv ==
  ASSUME CvtInv, Receive PROVE CvtInv'
<1>1. CvtTypeOK
  BY DEF CvtInv
<1>2. CASE SetProperty
  BY <1>1, <1>2, CvtKept DEF SetProperty, CvtTypeOK, cvtState
<1>3. CASE DropUntimed
  BY <1>1, <1>3, CvtKept DEF DropUntimed, CvtTypeOK, cvtState, cvtVars
<1>4. ASSUME NEW time \in cvt.inputs, NEW key \in BOOLEAN, Convert(time, key) PROVE CvtInv'
  BY <1>4, ConvertInv
<1>5. ASSUME NEW time \in cvt.inputs, Refuse(time) PROVE CvtInv'
  <2>1. OffsetFor(time) \in Int
    BY <1>1, <1>5, TrueTimeIsTime DEF Refuse
  <2> QED BY <1>1, <1>5, <2>1, CvtKept DEF Refuse, CvtTypeOK
<1>6. ASSUME NEW time \in cvt.inputs, DropOrFail(time) PROVE CvtInv'
  BY <1>1, <1>6, CvtKept DEF DropOrFail, CvtTypeOK, cvtState
<1> QED BY <1>2, <1>3, <1>4, <1>5, <1>6 DEF Receive

------------------------------------------------------------------------------
(* Fragments                                                                 *)

LEMMA EndsFacts ==
  ASSUME EndsInv, NEW n \in 1 .. Len(ends)
  PROVE  /\ n \in Nat /\ n # 0 /\ Len(ends) \in Nat /\ Muxed(n) = ends[n]
         /\ Muxed(n - 1) \in Nat /\ ends[n] \in Nat /\ ends[n] <= Len(frames)
         /\ FirstOf(n) \in Nat /\ 1 <= FirstOf(n) /\ FirstOf(n) <= ends[n]
         /\ FirstOf(n) = Muxed(n - 1) + 1
         /\ SizeOf(n) \in Nat /\ 1 <= SizeOf(n) /\ ends[n] = Muxed(n - 1) + SizeOf(n)
<1>1. Len(ends) \in Nat
  BY DEF EndsInv
<1>2. n - 1 \in 0 .. Len(ends) /\ n \in 0 .. Len(ends) /\ n - 1 < n /\ n # 0 /\ n \in Nat
  BY <1>1
<1>3. /\ Muxed(n - 1) \in Nat /\ Muxed(n) \in Nat /\ Muxed(n) <= Len(frames)
      /\ Muxed(n - 1) < Muxed(n)
  BY <1>2 DEF EndsInv
<1>4. Muxed(n) = ends[n]
  BY <1>2 DEF Muxed
<1> HIDE DEF Muxed
<1> QED BY <1>1, <1>2, <1>3, <1>4 DEF FirstOf, SizeOf

LEMMA FrameFacts ==
  ASSUME CvtInv, NEW i \in 1 .. Len(frames)
  PROVE  /\ frames[i].time \in Nat /\ frames[i].key \in BOOLEAN
         /\ frames[i].time # NoTime /\ frames[i].time > NoPts
<1>1. frames[i] \in Frame
  BY DEF CvtInv, CvtTypeOK
<1>2. frames[i].time \in Times /\ frames[i].key \in BOOLEAN
  BY <1>1 DEF Frame
<1> QED BY <1>2, TimesAreNumbers DEF NoPts, NoTime

LEMMA FramesCounted == ASSUME CvtInv PROVE Len(frames) \in Nat
BY DEF CvtInv, CvtTypeOK

(* While frames come in, those that are there stay. *)
FramesGrow ==
  /\ Len(frames) <= Len(frames')
  /\ \A i \in 1 .. Len(frames) : frames'[i] = frames[i]

LEMMA ReceiveGrows == ASSUME CvtInv, Receive PROVE FramesGrow /\ flow = "ok"
<1>1. frames \in Seq(Frame) /\ Len(frames) \in Nat
  BY DEF CvtInv, CvtTypeOK
<1>2. ASSUME UNCHANGED frames PROVE FramesGrow
  <2>1. Len(frames') = Len(frames) /\ Len(frames) <= Len(frames)
    BY <1>1, <1>2
  <2>2. \A i \in 1 .. Len(frames) : frames'[i] = frames[i]
    BY <1>2
  <2> QED BY <1>1, <2>1, <2>2 DEF FramesGrow
<1>3. ASSUME NEW time \in cvt.inputs, NEW key \in BOOLEAN, Convert(time, key) PROVE FramesGrow
  <2> DEFINE f == [time |-> Output(TrueTime(time)), true |-> TrueTime(time), key |-> key]
  <2>1. frames' = Append(frames, f)
    BY <1>3 DEF Convert
  <2>2. Len(Append(frames, f)) = Len(frames) + 1
        /\ \A i \in 1 .. Len(frames) : Append(frames, f)[i] = frames[i]
    <3> DEFINE T == Frame \cup {f}
    <3>1. frames \in Seq(T) /\ f \in T
      BY <1>1
    <3> HIDE DEF f, T
    <3> QED BY <3>1, AppendTo
  <2> QED BY <1>1, <2>1, <2>2 DEF FramesGrow
<1> QED BY <1>2, <1>3 DEF Receive, SetProperty, DropUntimed, Convert, Refuse, DropOrFail, cvtVars

(* The chunks of a fragment do not change by it. *)
LEMMA GrowKeeps ==
  ASSUME CvtInv, EndsInv, FramesGrow, UNCHANGED ends, CvtInv'
  PROVE  /\ EndsInv'
         /\ \A n \in 1 .. Len(ends) : WholeFragment(n)' = WholeFragment(n)
         /\ ends # << >> =>
              /\ \A r \in Nat : ChunkAt(r)' = ChunkAt(r)
              /\ \A m \in 0 .. SizeOf(Len(ends)) : Gathered(m)' = Gathered(m)
              /\ \A i \in FirstOf(Len(ends)) .. ends[Len(ends)] : frames'[i] = frames[i]
<1>1. /\ Len(frames) \in Nat /\ Len(frames') \in Nat /\ Len(ends) \in Nat
      /\ \A n : Muxed(n)' = Muxed(n) /\ FirstOf(n)' = FirstOf(n) /\ SizeOf(n)' = SizeOf(n)
  <2>1. Len(frames') \in Nat
    BY DEF CvtInv, CvtTypeOK
  <2> QED BY <2>1, FramesCounted DEF EndsInv, Muxed, FirstOf, SizeOf
<1>2. \A n \in 1 .. Len(ends) :
        /\ FirstOf(n) \in 1 .. Len(frames) /\ ends[n] \in 1 .. Len(frames)
        /\ FirstOf(n) .. ends[n] \subseteq 1 .. Len(frames)
        /\ ends[n] = FirstOf(n) + SizeOf(n) - 1 /\ SizeOf(n) \in Nat /\ FirstOf(n) \in Nat
        /\ ends[n] \in Nat
  <2> SUFFICES ASSUME NEW n \in 1 .. Len(ends)
               PROVE  /\ FirstOf(n) \in 1 .. Len(frames) /\ ends[n] \in 1 .. Len(frames)
                      /\ FirstOf(n) .. ends[n] \subseteq 1 .. Len(frames)
                      /\ ends[n] = FirstOf(n) + SizeOf(n) - 1 /\ SizeOf(n) \in Nat
                      /\ FirstOf(n) \in Nat /\ ends[n] \in Nat
    OBVIOUS
  <2>1. /\ Muxed(n - 1) \in Nat /\ ends[n] \in Nat /\ ends[n] <= Len(frames)
        /\ FirstOf(n) \in Nat /\ 1 <= FirstOf(n) /\ FirstOf(n) <= ends[n]
        /\ FirstOf(n) = Muxed(n - 1) + 1 /\ SizeOf(n) \in Nat
        /\ ends[n] = Muxed(n - 1) + SizeOf(n)
    BY EndsFacts
  <2> DEFINE m == Muxed(n - 1)  f == FirstOf(n)  k == SizeOf(n)  e == ends[n]  l == Len(frames)
  <2>2. /\ m \in Nat /\ e \in Nat /\ e <= l /\ f \in Nat /\ 1 <= f /\ f <= e
        /\ f = m + 1 /\ k \in Nat /\ e = m + k /\ l \in Nat
    BY <1>1, <2>1
  <2> HIDE DEF m, f, k, e, l
  <2>3. /\ f \in 1 .. l /\ e \in 1 .. l /\ f .. e \subseteq 1 .. l
        /\ e = f + k - 1 /\ k \in Nat /\ f \in Nat /\ e \in Nat
    BY <2>2
  <2> QED BY <2>3 DEF f, k, e, l
<1>3. EndsInv'
  <2>1. \A n \in 0 .. Len(ends) : Muxed(n) \in Nat /\ Muxed(n) <= Len(frames')
    BY <1>1 DEF EndsInv, FramesGrow
  <2> QED BY <1>1, <2>1 DEF EndsInv
<1>4. \A n \in 1 .. Len(ends) : WholeFragment(n)' = WholeFragment(n)
  BY <1>1, <1>2 DEF WholeFragment, FramesGrow
<1>5. ASSUME ends # << >>
      PROVE  /\ \A r \in Nat : ChunkAt(r)' = ChunkAt(r)
             /\ \A m \in 0 .. SizeOf(Len(ends)) : Gathered(m)' = Gathered(m)
             /\ \A i \in FirstOf(Len(ends)) .. ends[Len(ends)] : frames'[i] = frames[i]
  <2> DEFINE n == Len(ends)
  <2>1. n \in 1 .. Len(ends)
    BY <1>5 DEF EndsInv
  <2>2. /\ FirstOf(n) \in 1 .. Len(frames) /\ ends[n] \in 1 .. Len(frames)
        /\ FirstOf(n) .. ends[n] \subseteq 1 .. Len(frames)
        /\ ends[n] = FirstOf(n) + SizeOf(n) - 1 /\ SizeOf(n) \in Nat /\ FirstOf(n) \in Nat
        /\ ends[n] \in Nat
    BY <1>2, <2>1
  <2> HIDE DEF n
  <2>3. \A i \in FirstOf(n) .. ends[n] : frames'[i] = frames[i]
    BY <2>2 DEF FramesGrow
  <2>4. ASSUME NEW r \in Nat PROVE ChunkAt(r)' = ChunkAt(r)
    <3>1. CASE r < SizeOf(n)
      <4>1. ends[n] - r \in FirstOf(n) .. ends[n]
        BY <2>2, <3>1
      <4>2. frames'[ends[n] - r] = frames[ends[n] - r]
        BY <2>3, <4>1
      <4> QED BY <1>1, <3>1, <4>2 DEF ChunkAt, Sample, n
    <3>2. CASE ~(r < SizeOf(n))
      BY <1>1, <3>2 DEF ChunkAt, n, Atom
    <3> QED BY <3>1, <3>2
  <2>5. ASSUME NEW m \in 0 .. SizeOf(n) PROVE Gathered(m)' = Gathered(m)
    <3>1. CASE m = 0
      BY <3>1 DEF Gathered
    <3>2. CASE m # 0
      <4>1. FirstOf(n) \in FirstOf(n) .. ends[n] /\ FirstOf(n) + m - 1 \in FirstOf(n) .. ends[n]
        BY <2>2, <3>2
      <4> QED BY <1>1, <2>3, <3>2, <4>1 DEF Gathered, n
    <3> QED BY <3>1, <3>2
  <2> QED BY <2>3, <2>4, <2>5 DEF n
<1> QED BY <1>3, <1>4, <1>5

LEMMA PushedKept ==
  ASSUME PushedInv, UNCHANGED pushed, Len(ends) <= Len(ends'), Len(ends) \in Nat, Len(ends') \in Nat,
         \A n \in 1 .. Len(ends) : WholeFragment(n)' = WholeFragment(n)
  PROVE  PushedInv'
<1>1. Len(pushed) \in Nat
  BY DEF PushedInv
<1>2. \A n \in 1 .. Len(pushed) : n \in 1 .. Len(ends)
  BY <1>1 DEF PushedInv
<1> QED BY <1>1, <1>2 DEF PushedInv

LEMMA ReceiveKeepsMux ==
  ASSUME CaptureInv, Receive, UNCHANGED <<payVars, muxVars>> PROVE CaptureInv'
<1>1. /\ CvtInv /\ EndsInv /\ PushedInv /\ MuxInv /\ CvtInv' /\ flow = "ok" /\ FramesGrow
  BY ReceiveInv, ReceiveGrows DEF CaptureInv
<1>2. UNCHANGED <<chunks, ends, parser, header, moof, fragment, pushed>>
  BY DEF payVars, payState, muxVars
<1>3. /\ EndsInv'
      /\ \A n \in 1 .. Len(ends) : WholeFragment(n)' = WholeFragment(n)
      /\ ends # << >> =>
           /\ \A r \in Nat : ChunkAt(r)' = ChunkAt(r)
           /\ \A m \in 0 .. SizeOf(Len(ends)) : Gathered(m)' = Gathered(m)
           /\ \A i \in FirstOf(Len(ends)) .. ends[Len(ends)] : frames'[i] = frames[i]
  BY <1>1, <1>2, GrowKeeps
<1>4. PushedInv'
  BY <1>1, <1>2, <1>3, PushedKept DEF EndsInv
<1>5. MuxInv'
  <2>1. CASE ends = << >>
    BY <1>1, <1>2, <2>1 DEF MuxInv, Nothing
  <2>2. CASE ends # << >>
    <3>1. FragmentInv
      BY <1>1, <2>2 DEF MuxInv
    <3> DEFINE n == Len(ends)  k == SizeOf(n)  c == Len(chunks)
    <3>2. /\ n \in 1 .. Len(ends) /\ k \in Nat /\ FirstOf(n) \in Nat /\ ends[n] \in Nat /\ c \in Nat
      <4>1. n \in 1 .. Len(ends)
        BY <1>1, <2>2 DEF EndsInv
      <4>2. c \in Nat
        BY <3>1 DEF FragmentInv
      <4> QED BY <1>1, <4>1, <4>2, EndsFacts
    <3>3. SizeOf(n)' = SizeOf(n) /\ FirstOf(n)' = FirstOf(n) /\ n' = n /\ c' = c
      BY <1>2 DEF SizeOf, FirstOf, Muxed
    <3>4. \A r \in Nat : ChunkAt(r)' = ChunkAt(r)
      BY <1>3, <2>2
    <3>5. ASSUME c <= k PROVE Gathered(k - c)' = Gathered(k - c)
      <4>1. k - c \in 0 .. SizeOf(n)
        BY <3>2, <3>5
      <4>2. \A m \in 0 .. SizeOf(n) : Gathered(m)' = Gathered(m)
        BY <1>3, <2>2
      <4> QED BY <3>3, <4>1, <4>2
    <3>6. chunks' = [i \in 1 .. c |-> ChunkAt(c - i)']
      <4>1. \A i \in 1 .. c : ChunkAt(c - i)' = ChunkAt(c - i)
        <5> SUFFICES ASSUME NEW i \in 1 .. c PROVE ChunkAt(c - i)' = ChunkAt(c - i)
          OBVIOUS
        <5>1. c - i \in Nat
          BY <3>2
        <5> QED BY <3>3, <3>4, <5>1
      <4> QED BY <1>2, <3>1, <4>1 DEF FragmentInv
    <3>7. c \in 1 .. k => parser' = [i \in 1 .. k - c + 1 |-> ChunkAt(k - i + 1)']
      <4> SUFFICES ASSUME c \in 1 .. k
                   PROVE  parser' = [i \in 1 .. k - c + 1 |-> ChunkAt(k - i + 1)']
        OBVIOUS
      <4>1. \A i \in 1 .. k - c + 1 : ChunkAt(k - i + 1)' = ChunkAt(k - i + 1)
        <5> SUFFICES ASSUME NEW i \in 1 .. k - c + 1 PROVE ChunkAt(k - i + 1)' = ChunkAt(k - i + 1)
          OBVIOUS
        <5>1. k - i + 1 \in Nat
          BY <3>2
        <5> QED BY <3>3, <3>4, <5>1
      <4>2. parser = [i \in 1 .. k - c + 1 |-> ChunkAt(k - i + 1)]
        BY <3>1 DEF FragmentInv
      <4> QED BY <1>2, <4>1, <4>2
    <3>8. \A i \in FirstOf(n) + 1 .. ends[n] : frames'[i] = frames[i]
      BY <1>3, <2>2, <3>2
    <3>9. FragmentInv'
      <4>1. /\ c \in Nat /\ c <= k + (IF n = 1 THEN 4 ELSE 2)
            /\ header = IF c = k + 4 THEN {} ELSE IF c = k + 3 THEN {"ftyp"} ELSE {"ftyp", "moov"}
            /\ moof = IF c >= k + 2 THEN n - 1 ELSE n
            /\ Len(pushed) = IF c = 0 THEN n ELSE n - 1
            /\ c \notin 1 .. k => parser = << >>
            /\ fragment = IF c \in 1 .. k THEN Gathered(k - c) ELSE NoFragment
            /\ \A i \in FirstOf(n) + 1 .. ends[n] : ~frames[i].key
        BY <3>1 DEF FragmentInv
      <4>2. \A i \in FirstOf(n) + 1 .. ends[n] : ~frames'[i].key
        BY <3>8, <4>1
      <4>3. parser' = IF c \in 1 .. k THEN [i \in 1 .. k - c + 1 |-> ChunkAt(k - i + 1)'] ELSE << >>
        BY <1>2, <3>7, <4>1
      <4>4. fragment' = IF c \in 1 .. k THEN Gathered(k - c)' ELSE NoFragment
        <5>1. CASE c \in 1 .. k
          BY <1>2, <3>2, <3>5, <4>1, <5>1
        <5>2. CASE c \notin 1 .. k
          BY <1>2, <4>1, <5>2
        <5> QED BY <5>1, <5>2
      <4>5. ends' = ends
        BY <1>2
      <4>6. /\ c' \in Nat /\ c' <= k' + (IF n' = 1 THEN 4 ELSE 2)
            /\ header' = IF c' = k' + 4 THEN {} ELSE IF c' = k' + 3 THEN {"ftyp"} ELSE {"ftyp", "moov"}
            /\ moof' = IF c' >= k' + 2 THEN n' - 1 ELSE n'
            /\ Len(pushed') = IF c' = 0 THEN n' ELSE n' - 1
        BY <1>2, <3>3, <4>1
      <4>7. \A i \in FirstOf(n)' + 1 .. ends'[n'] : ~frames'[i].key
        BY <3>3, <4>2, <4>5
      <4> HIDE DEF n, k, c
      <4>8. /\ n' = n /\ k' = k /\ c' = c
        BY <3>3 DEF n, k, c
      <4> QED BY <3>6, <4>3, <4>4, <4>6, <4>7, <4>8 DEF FragmentInv, n, k, c
    <3> QED BY <1>2, <2>2, <3>9 DEF MuxInv
  <2> QED BY <2>1, <2>2
<1> QED BY <1>1, <1>3, <1>4, <1>5 DEF CaptureInv

LEMMA SequenceIsFunction ==
  ASSUME NEW S, NEW q \in Seq(S)
  PROVE  q = [i \in 1 .. Len(q) |-> q[i]] /\ Len(q) \in Nat
OBVIOUS

LEMMA Join ==
  ASSUME NEW S, NEW a \in Seq(S), NEW b \in Seq(S)
  PROVE  /\ a \o b \in Seq(S) /\ Len(a \o b) = Len(a) + Len(b)
         /\ Len(a) \in Nat /\ Len(b) \in Nat
         /\ \A i \in 1 .. Len(a) : (a \o b)[i] = a[i]
         /\ \A i \in 1 .. Len(b) : (a \o b)[Len(a) + i] = b[i]
OBVIOUS

LEMMA JoinTwo ==
  ASSUME NEW S, NEW a \in S, NEW b \in S, NEW s \in Seq(S)
  PROVE  /\ << >> \o <<a, b>> \o s \in Seq(S)
         /\ Len(<< >> \o <<a, b>> \o s) = Len(s) + 2
         /\ (<< >> \o <<a, b>> \o s)[1] = a
         /\ (<< >> \o <<a, b>> \o s)[2] = b
         /\ \A i \in 1 .. Len(s) : (<< >> \o <<a, b>> \o s)[2 + i] = s[i]
<1>1. <<a, b>> \in Seq(S) /\ Len(<<a, b>>) = 2 /\ <<a, b>>[1] = a /\ <<a, b>>[2] = b
  OBVIOUS
<1>2. << >> \o <<a, b>> = <<a, b>>
  BY <1>1
<1> DEFINE t == <<a, b>>
<1> HIDE DEF t
<1>3. /\ t \o s \in Seq(S) /\ Len(t \o s) = Len(t) + Len(s) /\ Len(s) \in Nat
      /\ \A i \in 1 .. Len(t) : (t \o s)[i] = t[i]
      /\ \A i \in 1 .. Len(s) : (t \o s)[Len(t) + i] = s[i]
  <2>1. t \in Seq(S)
    BY <1>1 DEF t
  <2> QED BY <2>1, Join
<1>4. Len(t) = 2 /\ t[1] = a /\ t[2] = b /\ 1 \in 1 .. 2 /\ 2 \in 1 .. 2
  BY <1>1 DEF t
<1>5. /\ Len(t \o s) = Len(s) + 2 /\ (t \o s)[1] = a /\ (t \o s)[2] = b
      /\ \A i \in 1 .. Len(s) : (t \o s)[2 + i] = s[i]
  BY <1>3, <1>4
<1> QED BY <1>2, <1>3, <1>5 DEF t

LEMMA JoinFour ==
  ASSUME NEW S, NEW a \in S, NEW b \in S, NEW c \in S, NEW d \in S, NEW s \in Seq(S)
  PROVE  /\ <<a, b>> \o <<c, d>> \o s \in Seq(S)
         /\ Len(<<a, b>> \o <<c, d>> \o s) = Len(s) + 4
         /\ (<<a, b>> \o <<c, d>> \o s)[1] = a
         /\ (<<a, b>> \o <<c, d>> \o s)[2] = b
         /\ (<<a, b>> \o <<c, d>> \o s)[3] = c
         /\ (<<a, b>> \o <<c, d>> \o s)[4] = d
         /\ \A i \in 1 .. Len(s) : (<<a, b>> \o <<c, d>> \o s)[4 + i] = s[i]
<1> DEFINE t == <<a, b>> \o <<c, d>>
<1>1. /\ <<a, b>> \in Seq(S) /\ Len(<<a, b>>) = 2 /\ <<a, b>>[1] = a /\ <<a, b>>[2] = b
      /\ <<c, d>> \in Seq(S) /\ Len(<<c, d>>) = 2 /\ <<c, d>>[1] = c /\ <<c, d>>[2] = d
  OBVIOUS
<1>2. t \in Seq(S) /\ Len(t) = 4 /\ t[1] = a /\ t[2] = b /\ t[3] = c /\ t[4] = d
  BY <1>1
<1> HIDE DEF t
<1>3. /\ t \o s \in Seq(S) /\ Len(t \o s) = Len(t) + Len(s) /\ Len(s) \in Nat
      /\ \A i \in 1 .. Len(t) : (t \o s)[i] = t[i]
      /\ \A i \in 1 .. Len(s) : (t \o s)[Len(t) + i] = s[i]
  <2>1. t \in Seq(S)
    BY <1>2
  <2> QED BY <2>1, Join
<1>4. 1 \in 1 .. 4 /\ 2 \in 1 .. 4 /\ 3 \in 1 .. 4 /\ 4 \in 1 .. 4
  OBVIOUS
<1>5. /\ Len(t \o s) = Len(s) + 4
      /\ (t \o s)[1] = a /\ (t \o s)[2] = b /\ (t \o s)[3] = c /\ (t \o s)[4] = d
      /\ \A i \in 1 .. Len(s) : (t \o s)[4 + i] = s[i]
  BY <1>2, <1>3, <1>4
<1> QED BY <1>3, <1>5 DEF t

(* Before the next fragment is sent, the one before is done. *)
LEMMA BetweenFragments ==
  ASSUME CaptureInv, chunks = << >>, flow = "ok"
  PROVE  /\ parser = << >> /\ fragment = NoFragment /\ moof = Len(ends) /\ Len(pushed) = Len(ends)
         /\ header = IF ends = << >> THEN {} ELSE {"ftyp", "moov"}
<1>1. EndsInv /\ MuxInv
  BY DEF CaptureInv
<1>2. CASE ends = << >>
  BY <1>1, <1>2 DEF MuxInv, Nothing, NoMoof
<1>3. CASE ends # << >>
  <2> DEFINE n == Len(ends)
  <2>1. n \in 1 .. Len(ends)
    BY <1>1, <1>3 DEF EndsInv
  <2>2. SizeOf(n) \in Nat /\ 1 <= SizeOf(n)
    BY <1>1, <2>1, EndsFacts
  <2>3. Len(chunks) = 0
    OBVIOUS
  <2> QED BY <1>1, <1>3, <2>2, <2>3 DEF MuxInv, FragmentInv
<1> QED BY <1>2, <1>3

LEMMA CountBack ==
  ASSUME NEW M \in Nat, NEW K \in Nat, NEW h \in Nat, NEW i \in h + 1 .. K + h
  PROVE  /\ i - h \in 1 .. K /\ i = h + (i - h) /\ (K + h) - i < K
         /\ (M + K) - ((K + h) - i) = M + (i - h)
OBVIOUS

(* The chunks of a new fragment are there in the order they are sent. *)
LEMMA NewChunks ==
  ASSUME CaptureInv, NEW last, SendFragment(last),
         NEW N, N = Len(ends), NEW M, M = Muxed(N), NEW K, K = last - M
  PROVE  LET c == K + (IF N = 0 THEN 4 ELSE 2)
         IN /\ Len(chunks') = c
            /\ chunks' = [i \in 1 .. c |->
                 LET r == c - i
                 IN IF r < K THEN Sample(last - r)
                    ELSE IF r = K THEN Atom("mdat", N + 1, K)
                    ELSE IF r = K + 1 THEN Atom("moof", N + 1, 0)
                    ELSE IF r = K + 2 THEN Atom("moov", 0, 0)
                    ELSE Atom("ftyp", 0, 0)]
<1>1. /\ N \in Nat /\ M \in Nat /\ (ends = << >> <=> N = 0)
      /\ last \in M + 1 .. Len(frames) /\ Len(frames) \in Nat
      /\ chunks' = Start \o <<Atom("moof", N + 1, 0), Atom("mdat", N + 1, last - (M + 1) + 1)>>
                     \o [i \in 1 .. last - (M + 1) + 1 |-> Sample((M + 1) + i - 1)]
  <2>1. N \in Nat /\ N \in 0 .. Len(ends) /\ (ends = << >> <=> N = 0)
    BY DEF CaptureInv, EndsInv
  <2>2. M \in Nat /\ Len(frames) \in Nat
    BY <2>1, FramesCounted DEF CaptureInv, EndsInv
  <2> QED BY <2>1, <2>2 DEF SendFragment
<1>2. /\ last \in Nat /\ K \in Nat /\ 1 <= K /\ last - (M + 1) + 1 = K /\ last = M + K
      /\ \A i \in 1 .. K : (M + 1) + i - 1 = M + i
  <2>1. M \in Nat /\ last \in Int /\ M + 1 <= last
    BY <1>1
  <2>2. /\ last \in Nat /\ K \in Nat /\ 1 <= K /\ last - (M + 1) + 1 = K /\ last = M + K
    BY <2>1
  <2> QED BY <2>1, <2>2
<1> DEFINE samples == [i \in 1 .. K |-> Sample(M + i)]
           moofAtom == Atom("moof", N + 1, 0)
           mdatAtom == Atom("mdat", N + 1, K)
           ftypAtom == Atom("ftyp", 0, 0)
           moovAtom == Atom("moov", 0, 0)
           S == {moofAtom, mdatAtom, ftypAtom, moovAtom} \cup {Sample(M + i) : i \in 1 .. K}
<1>3. samples = [i \in 1 .. last - (M + 1) + 1 |-> Sample((M + 1) + i - 1)]
  BY <1>2
<1>4. /\ samples \in Seq(S) /\ Len(samples) = K
      /\ \A i \in 1 .. K : samples[i] = Sample(M + i)
      /\ moofAtom \in S /\ mdatAtom \in S /\ ftypAtom \in S /\ moovAtom \in S
  <2>1. samples \in [1 .. K -> S]
    OBVIOUS
  <2>2. moofAtom \in S /\ mdatAtom \in S /\ ftypAtom \in S /\ moovAtom \in S
    OBVIOUS
  <2>3. \A i \in 1 .. K : samples[i] = Sample(M + i)
    OBVIOUS
  <2> HIDE DEF S, samples
  <2>4. samples \in Seq(S) /\ Len(samples) = K
    BY <1>2, <2>1
  <2> QED BY <2>2, <2>3, <2>4
<1>5. chunks' = Start \o <<moofAtom, mdatAtom>> \o samples
  BY <1>1, <1>2, <1>3
<1>6. Start = IF N = 0 THEN <<ftypAtom, moovAtom>> ELSE << >>
  BY <1>1 DEF Start
<1> HIDE DEF samples, S, moofAtom, mdatAtom, ftypAtom, moovAtom
<1>9. M \in Nat
  BY <1>1
<1> DEFINE c == K + (IF N = 0 THEN 4 ELSE 2)
           at(r) == IF r < K THEN Sample(last - r)
                    ELSE IF r = K THEN mdatAtom
                    ELSE IF r = K + 1 THEN moofAtom
                    ELSE IF r = K + 2 THEN moovAtom
                    ELSE ftypAtom
<1>7. CASE N = 0
  <2>1. /\ chunks' \in Seq(S) /\ Len(chunks') = K + 4
        /\ chunks'[1] = ftypAtom /\ chunks'[2] = moovAtom
        /\ chunks'[3] = moofAtom /\ chunks'[4] = mdatAtom
        /\ \A i \in 1 .. K : chunks'[4 + i] = Sample(M + i)
    BY <1>4, <1>5, <1>6, <1>7, JoinFour
  <2>2. c = K + 4
    BY <1>7
  <2>3. ASSUME NEW i \in 1 .. K + 4 PROVE chunks'[i] = at((K + 4) - i)
    <3>1. CASE i = 1
      <4>1. (K + 4) - i = K + 3
        BY <1>2, <3>1
      <4> QED BY <1>2, <2>1, <3>1, <4>1
    <3>2. CASE i = 2
      <4>1. (K + 4) - i = K + 2
        BY <1>2, <3>2
      <4> QED BY <1>2, <2>1, <3>2, <4>1
    <3>3. CASE i = 3
      <4>1. (K + 4) - i = K + 1
        BY <1>2, <3>3
      <4> QED BY <1>2, <2>1, <3>3, <4>1
    <3>4. CASE i = 4
      <4>1. (K + 4) - i = K
        BY <1>2, <3>4
      <4> QED BY <1>2, <2>1, <3>4, <4>1
    <3>5. CASE i \in 4 + 1 .. K + 4
      <4>1. i - 4 \in 1 .. K /\ i = 4 + (i - 4) /\ (K + 4) - i < K
            /\ last - ((K + 4) - i) = M + (i - 4)
        <5>1. /\ i - 4 \in 1 .. K /\ i = 4 + (i - 4) /\ (K + 4) - i < K
              /\ (M + K) - ((K + 4) - i) = M + (i - 4)
          <6>1. 4 \in Nat /\ K \in Nat
            BY <1>2
          <6> QED BY <1>9, <3>5, <6>1, CountBack
        <5>2. last = M + K
          BY <1>2
        <5> QED BY <5>1, <5>2
      <4>2. chunks'[i] = Sample(M + (i - 4))
        BY <2>1, <4>1
      <4> QED BY <4>1, <4>2
    <3>6. i = 1 \/ i = 2 \/ i = 3 \/ i = 4 \/ i \in 4 + 1 .. K + 4
      BY <1>2
    <3> QED BY <3>1, <3>2, <3>3, <3>4, <3>5, <3>6
  <2> HIDE DEF at
  <2>4. chunks' = [i \in 1 .. K + 4 |-> at((K + 4) - i)] /\ Len(chunks') = K + 4
    BY <2>1, <2>3, SequenceIsFunction
  <2> HIDE DEF c
  <2>5. Len(chunks') = c /\ chunks' = [i \in 1 .. c |-> at(c - i)]
    BY <2>2, <2>4
  <2> QED BY <2>5 DEF c, at, moofAtom, mdatAtom, ftypAtom, moovAtom
<1>8. CASE N # 0
  <2>1. /\ chunks' \in Seq(S) /\ Len(chunks') = K + 2
        /\ chunks'[1] = moofAtom /\ chunks'[2] = mdatAtom
        /\ \A i \in 1 .. K : chunks'[2 + i] = Sample(M + i)
    BY <1>4, <1>5, <1>6, <1>8, JoinTwo
  <2>2. c = K + 2
    BY <1>8
  <2>3. ASSUME NEW i \in 1 .. K + 2 PROVE chunks'[i] = at((K + 2) - i)
    <3>3. CASE i = 1
      <4>1. (K + 2) - i = K + 1
        BY <1>2, <3>3
      <4> QED BY <1>2, <2>1, <3>3, <4>1
    <3>4. CASE i = 2
      <4>1. (K + 2) - i = K
        BY <1>2, <3>4
      <4> QED BY <1>2, <2>1, <3>4, <4>1
    <3>5. CASE i \in 2 + 1 .. K + 2
      <4>1. i - 2 \in 1 .. K /\ i = 2 + (i - 2) /\ (K + 2) - i < K
            /\ last - ((K + 2) - i) = M + (i - 2)
        <5>1. /\ i - 2 \in 1 .. K /\ i = 2 + (i - 2) /\ (K + 2) - i < K
              /\ (M + K) - ((K + 2) - i) = M + (i - 2)
          <6>1. 2 \in Nat /\ K \in Nat
            BY <1>2
          <6> QED BY <1>9, <3>5, <6>1, CountBack
        <5>2. last = M + K
          BY <1>2
        <5> QED BY <5>1, <5>2
      <4>2. chunks'[i] = Sample(M + (i - 2))
        BY <2>1, <4>1
      <4> QED BY <4>1, <4>2
    <3>6. i = 1 \/ i = 2 \/ i \in 2 + 1 .. K + 2
      BY <1>2
    <3> QED BY <3>3, <3>4, <3>5, <3>6
  <2> HIDE DEF at
  <2>4. chunks' = [i \in 1 .. K + 2 |-> at((K + 2) - i)] /\ Len(chunks') = K + 2
    BY <2>1, <2>3, SequenceIsFunction
  <2> HIDE DEF c
  <2>5. Len(chunks') = c /\ chunks' = [i \in 1 .. c |-> at(c - i)]
    BY <2>2, <2>4
  <2> QED BY <2>5 DEF c, at, moofAtom, mdatAtom, ftypAtom, moovAtom
<1> QED BY <1>7, <1>8

LEMMA SendFragmentInv ==
  ASSUME CaptureInv, NEW last, SendFragment(last) PROVE CaptureInv'
<1> SUFFICES ASSUME NEW N, N = Len(ends), NEW M, M = Muxed(N), NEW K, K = last - M
             PROVE  CaptureInv'
  OBVIOUS
<1>1. /\ CvtInv /\ EndsInv /\ PushedInv /\ N \in Nat /\ Len(frames) \in Nat
      /\ M \in Nat /\ M <= Len(frames) /\ ends \in Seq(Nat)
  <2>1. N \in Nat /\ ends \in Seq(Nat) /\ N \in 0 .. N
    BY DEF CaptureInv, EndsInv
  <2> QED BY <2>1, FramesCounted DEF CaptureInv, EndsInv
<1>2. /\ parser = << >> /\ fragment = NoFragment /\ moof = N /\ Len(pushed) = N
      /\ header = IF N = 0 THEN {} ELSE {"ftyp", "moov"}
  <2>1. ends = << >> <=> N = 0
    BY <1>1
  <2> QED BY <2>1, BetweenFragments DEF SendFragment
<1>3. /\ UNCHANGED <<frames, prevInput, prevOutput, cvt, offset, flow>>
      /\ UNCHANGED <<parser, header, moof, fragment, pushed>>
      /\ ends' = Append(ends, last) /\ last \in M + 1 .. Len(frames)
      /\ \A i \in M + 2 .. last : ~frames[i].key
  <2>1. M + 2 = (M + 1) + 1
    BY <1>1
  <2> QED BY <2>1 DEF SendFragment, cvtVars, cvtState, payVars, payState
<1>4. last \in Nat /\ M + 1 <= last /\ last <= Len(frames) /\ K \in Nat /\ 1 <= K
  BY <1>1, <1>3
<1>5. /\ ends' \in Seq(Nat) /\ Len(ends') = N + 1 /\ ends'[N + 1] = last /\ ends' # << >>
      /\ \A i \in 1 .. N : ends'[i] = ends[i]
  BY <1>1, <1>3, <1>4, AppendTo
<1>6. /\ \A i \in 0 .. N : Muxed(i)' = Muxed(i)
      /\ Muxed(N + 1)' = last /\ Muxed(N)' = M /\ (N + 1) - 1 = N
  <2>1. \A i \in 0 .. N : Muxed(i)' = Muxed(i)
    BY <1>1, <1>5 DEF Muxed
  <2>2. N \in 0 .. N /\ N + 1 # 0 /\ (N + 1) - 1 = N
    BY <1>1
  <2> QED BY <1>5, <2>1, <2>2 DEF Muxed
<1>7. /\ \A i \in 1 .. N : FirstOf(i)' = FirstOf(i) /\ SizeOf(i)' = SizeOf(i)
      /\ \A i \in 1 .. N : Muxed(i - 1)' = Muxed(i - 1)
      /\ FirstOf(N + 1)' = M + 1 /\ SizeOf(N + 1)' = K
  <2>1. \A i \in 1 .. N : i - 1 \in 0 .. N
    BY <1>1
  <2>2. \A i \in 1 .. N : Muxed(i - 1)' = Muxed(i - 1)
    BY <1>6, <2>1
  <2> HIDE DEF Muxed
  <2> QED BY <1>5, <1>6, <2>2 DEF FirstOf, SizeOf
<1>8. CvtInv'
  <2>1. CvtTypeOK'
    BY <1>1, <1>3 DEF CvtInv, CvtTypeOK
  <2> QED BY <1>1, <1>3, <2>1, CvtKept
<1>9. EndsInv'
  <2>1. \A i \in 0 .. N + 1 : i \in 0 .. N \/ i = N + 1
    BY <1>1
  <2>2. \A i \in 0 .. N : Muxed(i) \in Nat /\ Muxed(i) <= Len(frames)
    BY <1>1 DEF EndsInv
  <2>3. \A i \in 0 .. N + 1 : Muxed(i)' \in Nat /\ Muxed(i)' <= Len(frames')
    BY <1>3, <1>4, <1>6, <2>1, <2>2
  <2>4. ASSUME NEW i \in 0 .. N + 1, NEW j \in 0 .. N + 1, i < j
        PROVE  Muxed(i)' < Muxed(j)'
    <3>1. i \in 0 .. N
      BY <1>1, <2>4
    <3>2. CASE j \in 0 .. N
      BY <1>1, <1>6, <2>4, <3>1, <3>2 DEF EndsInv
    <3>3. CASE j = N + 1
      <4>1. Muxed(i) <= M
        <5>1. i = N \/ i < N
          BY <1>1, <3>1
        <5>2. N \in 0 .. N
          BY <1>1
        <5>3. i < N => Muxed(i) < Muxed(N)
          BY <3>1, <5>2, <1>1 DEF EndsInv
        <5> QED BY <1>1, <2>2, <3>1, <5>1, <5>3
      <4>2. Muxed(i) \in Nat
        BY <2>2, <3>1
      <4>3. Muxed(i) < last
        BY <1>1, <1>4, <4>1, <4>2
      <4> QED BY <1>6, <3>1, <3>3, <4>3
    <3> QED BY <2>1, <3>2, <3>3
  <2>5. Len(ends') = N + 1 /\ ends' \in Seq(Nat)
    BY <1>5
  <2> HIDE DEF Muxed
  <2> QED BY <2>3, <2>4, <2>5 DEF EndsInv
<1>10. PushedInv'
  <2>1. ASSUME NEW i \in 1 .. N PROVE WholeFragment(i)' = WholeFragment(i)
    BY <1>3, <1>5, <1>7 DEF WholeFragment
  <2>2. Len(ends) <= Len(ends') /\ Len(ends) \in Nat /\ Len(ends') \in Nat
    BY <1>1, <1>5
  <2> QED BY <1>1, <1>3, <2>1, <2>2, PushedKept
<1>11. MuxInv'
  <2> DEFINE c == K + (IF N = 0 THEN 4 ELSE 2)
  <2>1. /\ Len(chunks') = c
        /\ chunks' = [i \in 1 .. c |->
                 LET r == c - i
                 IN IF r < K THEN Sample(last - r)
                    ELSE IF r = K THEN Atom("mdat", N + 1, K)
                    ELSE IF r = K + 1 THEN Atom("moof", N + 1, 0)
                    ELSE IF r = K + 2 THEN Atom("moov", 0, 0)
                    ELSE Atom("ftyp", 0, 0)]
    BY NewChunks
  <2>2. \A i : Sample(i)' = Sample(i)
    BY <1>3 DEF Sample
  <2>3. \A r : ChunkAt(r)' =
                 IF r < K THEN Sample(last - r)
                    ELSE IF r = K THEN Atom("mdat", N + 1, K)
                    ELSE IF r = K + 1 THEN Atom("moof", N + 1, 0)
                    ELSE IF r = K + 2 THEN Atom("moov", 0, 0)
                    ELSE Atom("ftyp", 0, 0)
    <3> HIDE DEF FirstOf, SizeOf, Muxed
    <3> QED BY <1>5, <1>7, <2>2 DEF ChunkAt, Atom
  <2>4. c \in Nat /\ c > K /\ c \notin 1 .. K /\ c # 0 /\ c >= K + 2
        /\ c = K + (IF N + 1 = 1 THEN 4 ELSE 2)
    BY <1>1, <1>4
  <2> HIDE DEF c
  <2>5. chunks' = [i \in 1 .. c |-> ChunkAt(c - i)']
    BY <2>1, <2>3
  <2>6. /\ header' = IF c = K + 4 THEN {} ELSE IF c = K + 3 THEN {"ftyp"} ELSE {"ftyp", "moov"}
        /\ moof' = (N + 1) - 1 /\ Len(pushed') = (N + 1) - 1
        /\ parser' = << >> /\ fragment' = NoFragment
    <3>1. c = IF N = 0 THEN K + 4 ELSE K + 2
      BY <1>4 DEF c
    <3>2. K + 4 # K + 2 /\ K + 3 # K + 2
      BY <1>4
    <3> QED BY <1>2, <1>3, <1>6, <3>1, <3>2
  <2>7. \A i \in (M + 1) + 1 .. last : ~frames'[i].key
    <3>1. (M + 1) + 1 = M + 2
      BY <1>1
    <3> QED BY <1>3, <3>1
  <2>8. FragmentInv'
    <3>1. Len(ends') = N + 1 /\ ends'[N + 1] = last /\ Len(chunks') = c
      BY <1>5, <2>1
    <3>2. FirstOf(N + 1)' = M + 1 /\ SizeOf(N + 1)' = K
      BY <1>7
    <3>3. Len(pushed') = IF c = 0 THEN N + 1 ELSE (N + 1) - 1
      BY <2>4, <2>6
    <3>4. moof' = IF c >= K + 2 THEN (N + 1) - 1 ELSE N + 1
      BY <2>4, <2>6
    <3>5. c <= K + (IF N + 1 = 1 THEN 4 ELSE 2)
      BY <2>4
    <3> HIDE DEF FirstOf, SizeOf, Muxed, ChunkAt, Gathered
    <3> QED BY <2>4, <2>5, <2>6, <2>7, <3>1, <3>2, <3>3, <3>4, <3>5 DEF FragmentInv
  <2> QED BY <1>5, <2>8 DEF MuxInv
<1> QED BY <1>8, <1>9, <1>10, <1>11 DEF CaptureInv

LEMMA HeadAndTail ==
  ASSUME NEW S, NEW q \in Seq(S), q # << >>
  PROVE  /\ Len(q) \in Nat /\ 1 <= Len(q) /\ Head(q) = q[1]
         /\ Tail(q) \in Seq(S) /\ Len(Tail(q)) = Len(q) - 1
         /\ \A i \in 1 .. Len(q) - 1 : Tail(q)[i] = q[i + 1]
OBVIOUS

(* The chunk that is sent next is the one that is followed by all the others. *)
LEMMA NextChunk ==
  ASSUME CaptureInv, chunks # << >>, flow = "ok",
         NEW N, N = Len(ends), NEW K, K = SizeOf(N), NEW C, C = Len(chunks)
  PROVE  /\ CvtInv /\ EndsInv /\ PushedInv /\ FragmentInv /\ ends # << >>
         /\ N \in 1 .. Len(ends) /\ N \in Nat /\ 1 <= N
         /\ K \in Nat /\ 1 <= K /\ C \in Nat /\ 1 <= C /\ C <= K + (IF N = 1 THEN 4 ELSE 2)
         /\ Head(chunks) = ChunkAt(C - 1)
         /\ Len(Tail(chunks)) = C - 1
         /\ Tail(chunks) = [i \in 1 .. C - 1 |-> ChunkAt((C - 1) - i)]
<1>1. CvtInv /\ EndsInv /\ PushedInv /\ MuxInv
  BY DEF CaptureInv
<1>2. ends # << >> /\ FragmentInv
  BY <1>1 DEF MuxInv, Nothing
<1>3. N \in 1 .. Len(ends) /\ N \in Nat /\ 1 <= N
  BY <1>1, <1>2 DEF EndsInv
<1>4. K \in Nat /\ 1 <= K
  BY <1>1, <1>3, EndsFacts
<1>5. C \in Nat /\ C <= K + (IF N = 1 THEN 4 ELSE 2) /\ chunks = [i \in 1 .. C |-> ChunkAt(C - i)]
  BY <1>2 DEF FragmentInv
<1> DEFINE S == {ChunkAt(C - i) : i \in 1 .. C}
<1>6. chunks \in [1 .. C -> S]
  <2> HIDE DEF ChunkAt
  <2> QED BY <1>5
<1> HIDE DEF S
<1>7. chunks \in Seq(S)
  <2>1. C \in Nat
    BY <1>5
  <2> QED BY <1>6, <2>1
<1>8. /\ 1 <= C /\ Head(chunks) = chunks[1]
      /\ Tail(chunks) \in Seq(S) /\ Len(Tail(chunks)) = C - 1
      /\ \A i \in 1 .. C - 1 : Tail(chunks)[i] = chunks[i + 1]
  BY <1>7, HeadAndTail
<1>9. Head(chunks) = ChunkAt(C - 1)
  <2>1. 1 \in 1 .. C
    BY <1>5, <1>8
  <2> HIDE DEF ChunkAt
  <2> QED BY <1>5, <1>8, <2>1
<1>10. Tail(chunks) = [i \in 1 .. C - 1 |-> ChunkAt((C - 1) - i)]
  <2>1. Tail(chunks) = [i \in 1 .. C - 1 |-> Tail(chunks)[i]]
    BY <1>8, SequenceIsFunction
  <2>2. ASSUME NEW i \in 1 .. C - 1 PROVE Tail(chunks)[i] = ChunkAt((C - 1) - i)
    <3>1. i + 1 \in 1 .. C /\ C - (i + 1) = (C - 1) - i
      BY <1>5
    <3>2. chunks[i + 1] = ChunkAt(C - (i + 1))
      <4> HIDE DEF ChunkAt
      <4> QED BY <1>5, <3>1
    <3> QED BY <1>8, <3>1, <3>2
  <2> HIDE DEF ChunkAt
  <2> QED BY <2>1, <2>2
<1> QED BY <1>1, <1>2, <1>3, <1>4, <1>5, <1>8, <1>9, <1>10

(* What is in Mp4Parser's buffer with the next sample. *)
LEMMA ParsedChunks ==
  ASSUME CaptureInv, chunks # << >>, flow = "ok",
         NEW N, N = Len(ends), NEW K, K = SizeOf(N), NEW C, C = Len(chunks), C <= K
  PROVE  LET q == Append(parser, Head(chunks))
         IN Len(q) = K - C + 2 /\ q = [i \in 1 .. K - C + 2 |-> ChunkAt(K - i + 1)]
<1>1. /\ FragmentInv /\ K \in Nat /\ C \in Nat /\ 1 <= C /\ Head(chunks) = ChunkAt(C - 1)
      /\ parser = [i \in 1 .. K - C + 1 |-> ChunkAt(K - i + 1)]
  <2>1. /\ FragmentInv /\ K \in Nat /\ C \in Nat /\ 1 <= C /\ Head(chunks) = ChunkAt(C - 1)
    BY NextChunk
  <2>2. C \in 1 .. K
    BY <2>1
  <2> QED BY <2>1, <2>2 DEF FragmentInv
<1> DEFINE p == K - C + 1
           S == {ChunkAt(K - i + 1) : i \in 1 .. p} \cup {ChunkAt(C - 1)}
<1>2. p \in Nat /\ K - C + 2 = p + 1 /\ K - (p + 1) + 1 = C - 1
  BY <1>1
<1> HIDE DEF ChunkAt
<1>3. parser \in [1 .. p -> S] /\ ChunkAt(C - 1) \in S
  BY <1>1
<1> HIDE DEF S, p
<1>4. parser \in Seq(S) /\ Len(parser) = p
  BY <1>2, <1>3
<1> DEFINE q == Append(parser, Head(chunks))
<1>5. q \in Seq(S) /\ Len(q) = p + 1 /\ q[p + 1] = ChunkAt(C - 1)
      /\ \A i \in 1 .. p : q[i] = parser[i]
  BY <1>1, <1>3, <1>4, AppendTo
<1> HIDE DEF q
<1>6. ASSUME NEW i \in 1 .. p + 1 PROVE q[i] = ChunkAt(K - i + 1)
  <2>1. CASE i \in 1 .. p
    BY <1>1, <1>5, <2>1 DEF p
  <2>2. CASE i = p + 1
    BY <1>2, <1>5, <2>2
  <2>3. i \in 1 .. p \/ i = p + 1
    BY <1>2
  <2> QED BY <2>1, <2>2, <2>3
<1>7. q = [i \in 1 .. p + 1 |-> q[i]]
  BY <1>5, SequenceIsFunction
<1>8. q = [i \in 1 .. p + 1 |-> ChunkAt(K - i + 1)]
  BY <1>6, <1>7
<1> QED BY <1>2, <1>5, <1>8 DEF q

(* fragmp4pay's timestamps are the first frame's, and the end of the last frame:
   frames are in the order of their times. *)
LEMMA GatherNext ==
  ASSUME CvtInv, EndsInv, NEW N \in 1 .. Len(ends), N = Len(ends),
         NEW m \in 0 .. SizeOf(N) - 1, fragment = Gathered(m),
         \A i \in FirstOf(N) + 1 .. ends[N] : ~frames[i].key
  PROVE  Updated(Sample(FirstOf(N) + m)) = Gathered(m + 1)
<1> DEFINE F == FirstOf(N)  first == frames[F]  next == frames[F + m]
<1>1. /\ F \in Nat /\ 1 <= F /\ SizeOf(N) \in Nat /\ 1 <= SizeOf(N) /\ ends[N] \in Nat
      /\ ends[N] <= Len(frames) /\ ends[N] = F + SizeOf(N) - 1 /\ Len(frames) \in Nat
  <2>1. /\ F \in Nat /\ 1 <= F /\ SizeOf(N) \in Nat /\ 1 <= SizeOf(N) /\ ends[N] \in Nat
        /\ ends[N] <= Len(frames) /\ F = Muxed(N - 1) + 1 /\ Muxed(N - 1) \in Nat
        /\ ends[N] = Muxed(N - 1) + SizeOf(N)
    BY EndsFacts
  <2> HIDE DEF F
  <2> QED BY <2>1, FramesCounted
<1> HIDE DEF F
<1>2. m \in Nat /\ F \in 1 .. Len(frames) /\ F + m \in 1 .. Len(frames) /\ F <= F + m
  BY <1>1
<1>3. /\ first.time \in Nat /\ first.key \in BOOLEAN /\ first.time # NoPts
      /\ next.time \in Nat /\ next.key \in BOOLEAN /\ first.time <= next.time
      /\ FrameDuration \in Nat
  <2>1. first.time <= next.time
    BY <1>2 DEF CvtInv, InTimeOrder
  <2> QED BY <1>2, <2>1, FrameFacts, CaptureAssumption DEF NoTime, NoPts
<1>4. (F + (m + 1)) - 1 = F + m /\ m + 1 # 0 /\ F + (m + 1) - 1 = F + m
  BY <1>1, <1>2
<1>5. Gathered(m + 1) =
        [pts |-> first.time, end |-> next.time + FrameDuration, delta |-> ~first.key]
  BY <1>4 DEF Gathered, F
<1> DEFINE pts == IF fragment.pts = NoPts \/ fragment.pts > next.time
                    THEN next.time ELSE fragment.pts
           end == IF fragment.end < next.time + FrameDuration
                    THEN next.time + FrameDuration ELSE fragment.end
           delta == fragment.delta /\ ~next.key
<1>6. Updated(Sample(F + m)) = [pts |-> pts, end |-> end, delta |-> delta]
  BY DEF Updated, Sample
<1>7. CASE m = 0
  <2>1. fragment.pts = NoPts /\ fragment.end = NoPts /\ fragment.delta = TRUE /\ next = first
    BY <1>1, <1>7 DEF Gathered, NoFragment
  <2>2. NoPts < next.time + FrameDuration
    BY <1>3 DEF NoPts
  <2>3. delta = ~first.key
    BY <2>1
  <2>4. pts = first.time /\ end = next.time + FrameDuration
    BY <2>1, <2>2
  <2> HIDE DEF first, next, pts, end, delta
  <2> QED BY <1>5, <1>6, <2>3, <2>4 DEF F
<1>8. CASE m # 0
  <2> DEFINE prev == frames[F + m - 1]
  <2>1. /\ fragment.pts = first.time /\ fragment.end = prev.time + FrameDuration
        /\ fragment.delta = ~first.key
    BY <1>8 DEF Gathered, F
  <2>2. ~next.key
    <3>1. F + m \in F + 1 .. ends[N]
      BY <1>1, <1>2, <1>8
    <3> QED BY <3>1 DEF F
  <2>3. prev.time \in Nat /\ prev.time <= next.time
    <3>1. F + m - 1 \in 1 .. Len(frames) /\ F + m - 1 <= F + m
      BY <1>1, <1>2, <1>8
    <3> QED BY <1>2, <3>1, FrameFacts DEF CvtInv, InTimeOrder
  <2>4. delta = ~first.key
    BY <2>1, <2>2
  <2> HIDE DEF first, next, prev
  <2>5. pts = first.time
    BY <1>3, <2>1
  <2>6. end = next.time + FrameDuration
    BY <1>3, <2>1, <2>3
  <2> HIDE DEF pts, end, delta
  <2> QED BY <1>5, <1>6, <2>4, <2>5, <2>6 DEF F
<1> QED BY <1>7, <1>8 DEF F

(* The last sample completes what goes to pravegasink. *)
LEMMA BufferIsWhole ==
  ASSUME CaptureInv, chunks # << >>, flow = "ok",
         NEW N, N = Len(ends), NEW K, K = SizeOf(N), Len(chunks) = 1,
         NEW info, info = Gathered(K)
  PROVE  /\ Buffer(Append(parser, Head(chunks)), info) = WholeFragment(N)
         /\ WholeFragment(N) \in Fragment
<1> DEFINE q == Append(parser, Head(chunks))  F == FirstOf(N)  M == Muxed(N - 1)
<1>1. /\ CvtInv /\ EndsInv /\ FragmentInv /\ N \in 1 .. Len(ends) /\ N \in Nat
      /\ K \in Nat /\ 1 <= K
  BY NextChunk
<1>2. Len(q) = K + 1 /\ q = [i \in 1 .. K + 1 |-> ChunkAt(K - i + 1)]
  <2>1. 1 <= K /\ K - 1 + 2 = K + 1
    BY <1>1
  <2> HIDE DEF ChunkAt
  <2> QED BY <2>1, ParsedChunks
<1> HIDE DEF q
<1>3. moof = N
  <2>1. ~(1 >= K + 2)
    BY <1>1
  <2> QED BY <1>1, <2>1 DEF FragmentInv
<1>4. /\ F \in Nat /\ 1 <= F /\ ends[N] \in Nat /\ ends[N] <= Len(frames) /\ M \in Nat
      /\ F = M + 1 /\ ends[N] = M + K /\ F + K - 1 = ends[N] /\ Len(frames) \in Nat
  <2>1. /\ F \in Nat /\ 1 <= F /\ ends[N] \in Nat /\ ends[N] <= Len(frames) /\ M \in Nat
        /\ F = M + 1 /\ ends[N] = M + K
    BY <1>1, EndsFacts
  <2> HIDE DEF F, M
  <2> QED BY <1>1, <2>1, FramesCounted
<1> HIDE DEF F, M
<1>5. Samples(q) = [i \in 1 .. K |-> M + i]
  <2>1. ASSUME NEW i \in 1 .. K PROVE q[i + 1].frame = M + i
    <3>1. /\ i + 1 \in 1 .. K + 1 /\ K - (i + 1) + 1 < K
          /\ ends[N] - (K - (i + 1) + 1) = M + i
      <4>1. K \in Nat /\ M \in Nat /\ ends[N] = M + K
        BY <1>1, <1>4
      <4>2. /\ i + 1 \in 1 .. K + 1 /\ K - (i + 1) + 1 < K
            /\ (M + K) - (K - (i + 1) + 1) = M + i
        BY <4>1
      <4> QED BY <4>1, <4>2
    <3>2. q[i + 1] = ChunkAt(K - (i + 1) + 1)
      <4> HIDE DEF ChunkAt
      <4> QED BY <1>2, <3>1
    <3>3. ChunkAt(K - (i + 1) + 1) = Sample(M + i)
      BY <3>1 DEF ChunkAt
    <3> QED BY <3>2, <3>3 DEF Sample
  <2>2. Len(q) - 1 = K
    BY <1>1, <1>2
  <2> QED BY <2>1, <2>2 DEF Samples
<1>6. /\ F \in 1 .. Len(frames) /\ ends[N] \in 1 .. Len(frames)
  BY <1>1, <1>4
<1>7. /\ frames[F].time \in Nat /\ frames[F].key \in BOOLEAN
      /\ frames[ends[N]].time \in Nat /\ FrameDuration \in Nat
  BY <1>1, <1>6, FrameFacts, CaptureAssumption
<1>8. info = [pts |-> frames[F].time, end |-> frames[ends[N]].time + FrameDuration,
              delta |-> ~frames[F].key]
  <2>1. K # 0
    BY <1>1
  <2> QED BY <1>4, <2>1 DEF Gathered, F
<1>9. WholeFragment(N) =
        [header |-> frames[F].key, moof |-> N, mdat |-> [i \in 1 .. K |-> M + i],
         pts |-> frames[F].time, end |-> frames[ends[N]].time + FrameDuration,
         delta |-> ~frames[F].key]
  BY DEF WholeFragment, F, M
<1>10. Buffer(q, info) = WholeFragment(N)
  <2> DEFINE key == frames[F].key  delta == ~frames[F].key  isKey == ~info.delta
  <2>1. isKey = key
    <3>1. info.delta = ~frames[F].key
      BY <1>8
    <3>2. frames[F].key = TRUE \/ frames[F].key = FALSE
      BY <1>7
    <3> QED BY <3>1, <3>2
  <2>3. Buffer(q, info) = [header |-> isKey, moof |-> moof, mdat |-> Samples(q),
                           pts |-> info.pts, end |-> info.end, delta |-> info.delta]
    BY DEF Buffer
  <2>2. /\ info.pts = frames[F].time /\ info.delta = delta
        /\ info.end = frames[ends[N]].time + FrameDuration
    BY <1>8
  <2>4. WholeFragment(N) =
          [header |-> key, moof |-> N, mdat |-> [i \in 1 .. K |-> M + i],
           pts |-> frames[F].time, end |-> frames[ends[N]].time + FrameDuration,
           delta |-> delta]
    BY <1>9
  <2> HIDE DEF WholeFragment, key, delta, isKey
  <2> QED BY <1>3, <1>5, <2>1, <2>2, <2>3, <2>4
<1>11. WholeFragment(N) \in Fragment
  <2>1. [i \in 1 .. K |-> M + i] \in Seq(Nat)
    <3>1. [i \in 1 .. K |-> M + i] \in [1 .. K -> Nat]
      BY <1>4
    <3> QED BY <1>1, <3>1
  <2> DEFINE mdat == [i \in 1 .. K |-> M + i]
             pts == frames[F].time
             end == frames[ends[N]].time + FrameDuration
             delta == ~frames[F].key
             key == frames[F].key
  <2>2. pts \in Int /\ end \in Int
    BY <1>7
  <2>3. delta \in BOOLEAN /\ key \in BOOLEAN
    BY <1>7
  <2>4. WholeFragment(N) = [header |-> key, moof |-> N, mdat |-> mdat, pts |-> pts,
                            end |-> end, delta |-> delta]
    BY <1>9
  <2>5. mdat \in Seq(Nat)
    BY <2>1
  <2> HIDE DEF mdat, pts, end, delta, key, WholeFragment
  <2> QED BY <1>1, <2>2, <2>3, <2>4, <2>5 DEF Fragment
<1> QED BY <1>10, <1>11 DEF q

(* What is sent is not changed by its delivery. *)
LEMMA DeliveryKeeps ==
  ASSUME UNCHANGED <<frames, ends>>
  PROVE  /\ \A n : /\ Muxed(n)' = Muxed(n) /\ FirstOf(n)' = FirstOf(n)
                   /\ SizeOf(n)' = SizeOf(n) /\ WholeFragment(n)' = WholeFragment(n)
         /\ \A r : ChunkAt(r)' = ChunkAt(r)
         /\ \A m : Gathered(m)' = Gathered(m)
<1>1. \A n : Muxed(n)' = Muxed(n) /\ FirstOf(n)' = FirstOf(n) /\ SizeOf(n)' = SizeOf(n)
  BY DEF Muxed, FirstOf, SizeOf
<1>2. \A n : Muxed(n - 1)' = Muxed(n - 1)
  BY DEF Muxed
<1>3. \A n : WholeFragment(n)' = WholeFragment(n)
  BY <1>1, <1>2 DEF WholeFragment
<1>4. \A i : Sample(i)' = Sample(i)
  BY DEF Sample
<1>5. ASSUME NEW N, N = Len(ends)
      PROVE  \A r : ChunkAt(r)' = ChunkAt(r)
  <2>1. Len(ends') = N
    BY <1>5
  <2> HIDE DEF FirstOf, SizeOf, Muxed
  <2> QED BY <1>1, <1>4, <1>5, <2>1 DEF ChunkAt, Atom
<1>6. ASSUME NEW N, N = Len(ends)
      PROVE  \A m : Gathered(m)' = Gathered(m)
  <2>1. Len(ends') = N
    BY <1>6
  <2> HIDE DEF FirstOf, SizeOf, Muxed
  <2> QED BY <1>1, <1>6, <2>1 DEF Gathered
<1> QED BY <1>1, <1>3, <1>5, <1>6

(* The step of fragmp4pay, for each of the chunks. *)
LEMMA ChainSteps ==
  ASSUME CaptureInv, Deliver,
         NEW N, N = Len(ends), NEW K, K = SizeOf(N), NEW C, C = Len(chunks)
  PROVE  /\ C > K + 1 =>
              /\ parser' = << >> /\ UNCHANGED <<fragment, pushed>>
              /\ header' = IF C = K + 4 THEN {"ftyp"} ELSE {"ftyp", "moov"}
              /\ moof' = IF C = K + 2 THEN N ELSE moof
         /\ C = K + 1 =>
              parser' = <<ChunkAt(K)>> /\ UNCHANGED <<header, moof, fragment, pushed>>
         /\ C \in 2 .. K =>
              /\ parser' = [i \in 1 .. K - C + 2 |-> ChunkAt(K - i + 1)]
              /\ fragment' = Gathered((K - C) + 1)
              /\ UNCHANGED <<header, moof, pushed>>
         /\ C = 1 =>
              /\ parser' = << >> /\ fragment' = NoFragment
              /\ pushed' = Append(pushed, WholeFragment(N))
              /\ UNCHANGED <<header, moof>>
<1>1. chunks # << >> /\ flow = "ok" /\ Chain(Head(chunks))
  BY DEF Deliver
<1>2. /\ CvtInv /\ EndsInv /\ PushedInv /\ FragmentInv /\ ends # << >>
      /\ N \in 1 .. Len(ends) /\ N \in Nat /\ 1 <= N
      /\ K \in Nat /\ 1 <= K /\ C \in Nat /\ 1 <= C /\ C <= K + (IF N = 1 THEN 4 ELSE 2)
      /\ Head(chunks) = ChunkAt(C - 1)
  BY <1>1, NextChunk
<1> DEFINE chunk == Head(chunks)
           q == Append(parser, chunk)
           info == IF HaveMdat(q) THEN Updated(chunk) ELSE fragment
<1>3. /\ ~IsWhole(q) => /\ parser' = q /\ fragment' = info
                        /\ UNCHANGED <<header, moof, pushed>>
      /\ IsWhole(q) => /\ parser' = << >>
                       /\ q[1].atom = "mdat" => Emit(q, info)
                       /\ q[1].atom # "mdat" => Keep(chunk)
  BY <1>1 DEF Chain
<1>4. /\ header = IF C = K + 4 THEN {} ELSE IF C = K + 3 THEN {"ftyp"} ELSE {"ftyp", "moov"}
      /\ moof = IF C >= K + 2 THEN N - 1 ELSE N
      /\ parser = IF C \in 1 .. K THEN [i \in 1 .. K - C + 1 |-> ChunkAt(K - i + 1)] ELSE << >>
      /\ fragment = IF C \in 1 .. K THEN Gathered(K - C) ELSE NoFragment
      /\ \A i \in FirstOf(N) + 1 .. ends[N] : ~frames[i].key
  BY <1>2 DEF FragmentInv
<1>5. C > K => parser = << >> /\ fragment = NoFragment /\ q = <<chunk>> /\ q[1] = chunk
               /\ Len(q) = 1
  <2>1. C > K => parser = << >> /\ fragment = NoFragment
    BY <1>2, <1>4
  <2>2. Append(<< >>, chunk) = <<chunk>> /\ Len(<<chunk>>) = 1 /\ <<chunk>>[1] = chunk
    OBVIOUS
  <2> QED BY <2>1, <2>2
<1>6. C \in 1 .. K =>
        /\ Len(q) = K - C + 2 /\ q = [i \in 1 .. K - C + 2 |-> ChunkAt(K - i + 1)]
        /\ q[1] = Atom("mdat", N, K) /\ Len(q) \in Nat /\ Len(q) > 1
  <2> SUFFICES ASSUME C \in 1 .. K
               PROVE  /\ Len(q) = K - C + 2
                      /\ q = [i \in 1 .. K - C + 2 |-> ChunkAt(K - i + 1)]
                      /\ q[1] = Atom("mdat", N, K) /\ Len(q) \in Nat /\ Len(q) > 1
    OBVIOUS
  <2>1. Len(q) = K - C + 2 /\ q = [i \in 1 .. K - C + 2 |-> ChunkAt(K - i + 1)]
    <3>1. C <= K
      BY <1>2
    <3> HIDE DEF ChunkAt
    <3> QED BY <1>1, <3>1, ParsedChunks
  <2>2. 1 \in 1 .. K - C + 2 /\ K - 1 + 1 = K /\ K - C + 2 \in Nat /\ K - C + 2 > 1
    BY <1>2
  <2>3. q[1] = ChunkAt(K)
    <3> HIDE DEF q, ChunkAt
    <3> QED BY <2>1, <2>2
  <2>4. ChunkAt(K) = Atom("mdat", N, K)
    BY <1>2 DEF ChunkAt
  <2> QED BY <2>1, <2>2, <2>3, <2>4
<1> HIDE DEF q, info
<1>7. ASSUME C > K + 1
      PROVE  /\ parser' = << >> /\ UNCHANGED <<fragment, pushed>>
             /\ header' = IF C = K + 4 THEN {"ftyp"} ELSE {"ftyp", "moov"}
             /\ moof' = IF C = K + 2 THEN N ELSE moof
  <2>1. C = K + 2 \/ C = K + 3 \/ C = K + 4
    BY <1>2, <1>7
  <2>2. C > K /\ q[1] = chunk /\ Len(q) = 1
    BY <1>2, <1>5, <1>7
  <2>3. CASE C = K + 2
    <3>1. C - 1 = K + 1 /\ ~(K + 1 < K) /\ K + 1 # K /\ C # K + 4 /\ C # K + 3
      BY <1>2, <2>3
    <3>2. chunk = Atom("moof", N, 0)
      BY <1>2, <3>1 DEF ChunkAt
    <3>3. chunk.atom = "moof" /\ chunk.samples = 0 /\ chunk.fragment = N
      BY <3>2 DEF Atom
    <3>4. IsWhole(q)
      BY <2>2, <3>3 DEF IsWhole
    <3>5. Keep(chunk) /\ parser' = << >>
      BY <1>3, <2>2, <3>3, <3>4
    <3>6. header' = header \cup ({"moof"} \cap {"ftyp", "moov"})
      BY <3>3, <3>5 DEF Keep
    <3>7. header = {"ftyp", "moov"}
      BY <1>4, <3>1
    <3> QED BY <2>3, <3>1, <3>3, <3>5, <3>6, <3>7 DEF Keep
  <2>4. CASE C = K + 3
    <3>1. C - 1 = K + 2 /\ ~(K + 2 < K) /\ K + 2 # K /\ K + 2 # K + 1 /\ C # K + 4 /\ C # K + 2
      BY <1>2, <2>4
    <3>2. chunk = Atom("moov", 0, 0)
      BY <1>2, <3>1 DEF ChunkAt
    <3>3. chunk.atom = "moov" /\ chunk.samples = 0
      BY <3>2 DEF Atom
    <3>4. IsWhole(q)
      BY <2>2, <3>3 DEF IsWhole
    <3>5. Keep(chunk) /\ parser' = << >>
      BY <1>3, <2>2, <3>3, <3>4
    <3>6. header' = header \cup ({"moov"} \cap {"ftyp", "moov"}) /\ moof' = moof
      BY <3>3, <3>5 DEF Keep
    <3>7. header = {"ftyp"}
      BY <1>4, <2>4, <3>1
    <3>8. header' = {"ftyp", "moov"}
      BY <3>6, <3>7
    <3> QED BY <3>1, <3>5, <3>6, <3>8 DEF Keep
  <2>5. CASE C = K + 4
    <3>1. /\ C - 1 = K + 3 /\ ~(K + 3 < K) /\ K + 3 # K /\ K + 3 # K + 1 /\ K + 3 # K + 2
          /\ C # K + 2
      BY <1>2, <2>5
    <3>2. chunk = Atom("ftyp", 0, 0)
      BY <1>2, <3>1 DEF ChunkAt
    <3>3. chunk.atom = "ftyp" /\ chunk.samples = 0
      BY <3>2 DEF Atom
    <3>4. IsWhole(q)
      BY <2>2, <3>3 DEF IsWhole
    <3>5. Keep(chunk) /\ parser' = << >>
      BY <1>3, <2>2, <3>3, <3>4
    <3>6. header' = header \cup ({"ftyp"} \cap {"ftyp", "moov"}) /\ moof' = moof
      BY <3>3, <3>5 DEF Keep
    <3>7. header = {}
      BY <1>4, <2>5
    <3>8. header' = {"ftyp"}
      BY <3>6, <3>7
    <3> QED BY <2>5, <3>1, <3>5, <3>6, <3>8 DEF Keep
  <2> QED BY <2>1, <2>3, <2>4, <2>5
<1>8. ASSUME C = K + 1
      PROVE  parser' = <<ChunkAt(K)>> /\ UNCHANGED <<header, moof, fragment, pushed>>
  <2>1. C > K /\ C - 1 = K /\ ~(K < K)
    BY <1>2, <1>8
  <2>2. q[1] = chunk /\ Len(q) = 1 /\ q = <<chunk>> /\ chunk = ChunkAt(K)
    BY <1>2, <1>5, <2>1
  <2>3. chunk = Atom("mdat", N, K)
    BY <1>2, <2>1, <2>2 DEF ChunkAt
  <2>4. ~IsWhole(q)
    <3>1. chunk.samples = K
      BY <2>3 DEF Atom
    <3> QED BY <1>2, <2>2, <3>1 DEF IsWhole
  <2>5. info = fragment
    BY <2>2 DEF info, HaveMdat
  <2> QED BY <1>3, <2>2, <2>4, <2>5
<1>9. ASSUME C \in 1 .. K PROVE info = Gathered((K - C) + 1)
  <2>1. HaveMdat(q)
    BY <1>6, <1>9 DEF HaveMdat, Atom
  <2>2. info = Updated(chunk)
    BY <2>1 DEF info
  <2>3. /\ FirstOf(N) \in Nat /\ ends[N] \in Nat /\ ends[N] = (FirstOf(N) - 1) + K
    <3>1. /\ FirstOf(N) \in Nat /\ ends[N] \in Nat /\ Muxed(N - 1) \in Nat
          /\ FirstOf(N) = Muxed(N - 1) + 1 /\ ends[N] = Muxed(N - 1) + K
      BY <1>2, EndsFacts
    <3> HIDE DEF FirstOf
    <3> QED BY <3>1
  <2>4. C - 1 < K /\ ends[N] - (C - 1) = FirstOf(N) + (K - C) /\ K - C \in 0 .. K - 1
    <3> DEFINE f == FirstOf(N)  e == ends[N]
    <3>1. f \in Nat /\ e = (f - 1) + K /\ C \in 1 .. K /\ K \in Nat
      BY <1>2, <1>9, <2>3
    <3> HIDE DEF f, e
    <3>2. C - 1 < K /\ e - (C - 1) = f + (K - C) /\ K - C \in 0 .. K - 1
      BY <3>1
    <3> QED BY <3>2 DEF f, e
  <2>5. chunk = Sample(FirstOf(N) + (K - C))
    BY <1>2, <2>4 DEF ChunkAt
  <2>6. fragment = Gathered(K - C)
    BY <1>4, <1>9
  <2>7. Updated(Sample(FirstOf(N) + (K - C))) = Gathered((K - C) + 1)
    BY <1>2, <1>4, <2>4, <2>6, GatherNext
  <2> QED BY <2>2, <2>5, <2>7
<1>10. ASSUME C \in 2 .. K
       PROVE  /\ parser' = [i \in 1 .. K - C + 2 |-> ChunkAt(K - i + 1)]
              /\ fragment' = Gathered((K - C) + 1)
              /\ UNCHANGED <<header, moof, pushed>>
  <2>1. C \in 1 .. K /\ K - C + 2 # 1 + K
    BY <1>2, <1>10
  <2>2. ~IsWhole(q)
    BY <1>6, <2>1 DEF IsWhole, Atom
  <2> QED BY <1>3, <1>6, <1>9, <2>1, <2>2
<1>11. ASSUME C = 1
       PROVE  /\ parser' = << >> /\ fragment' = NoFragment
              /\ pushed' = Append(pushed, WholeFragment(N))
              /\ UNCHANGED <<header, moof>>
  <2>1. C \in 1 .. K /\ K - C + 2 = 1 + K /\ (K - C) + 1 = K /\ C # K + 4 /\ C # K + 3
        /\ ~(C >= K + 2)
    BY <1>2, <1>11
  <2>2. IsWhole(q) /\ q[1].atom = "mdat"
    BY <1>6, <2>1 DEF IsWhole, Atom
  <2>3. Emit(q, info) /\ parser' = << >>
    BY <1>3, <2>2
  <2>4. header = {"ftyp", "moov"} /\ moof = N /\ N # NoMoof
    BY <1>2, <1>4, <2>1 DEF NoMoof
  <2>5. info = Gathered(K)
    BY <1>9, <2>1
  <2>6. Buffer(q, info) = WholeFragment(N)
    BY <1>1, <1>11, <2>5, BufferIsWhole DEF q
  <2> QED BY <2>3, <2>4, <2>6 DEF Emit
<1> QED BY <1>7, <1>8, <1>10, <1>11

LEMMA DeliverInv ==
  ASSUME CaptureInv, Deliver PROVE CaptureInv'
<1> SUFFICES ASSUME NEW N, N = Len(ends), NEW K, K = SizeOf(N), NEW C, C = Len(chunks)
             PROVE  CaptureInv'
  OBVIOUS
<1>1. /\ chunks # << >> /\ flow = "ok" /\ chunks' = Tail(chunks)
      /\ UNCHANGED <<cvt, prevInput, prevOutput, offset, flow, frames, ends>>
  BY DEF Deliver, cvtVars, cvtState
<1>2. /\ CvtInv /\ EndsInv /\ PushedInv /\ FragmentInv /\ ends # << >>
      /\ N \in 1 .. Len(ends) /\ N \in Nat /\ 1 <= N
      /\ K \in Nat /\ 1 <= K /\ C \in Nat /\ 1 <= C /\ C <= K + (IF N = 1 THEN 4 ELSE 2)
      /\ Len(Tail(chunks)) = C - 1
      /\ Tail(chunks) = [i \in 1 .. C - 1 |-> ChunkAt((C - 1) - i)]
  BY <1>1, NextChunk
<1>3. /\ \A n : /\ Muxed(n)' = Muxed(n) /\ FirstOf(n)' = FirstOf(n)
                /\ SizeOf(n)' = SizeOf(n) /\ WholeFragment(n)' = WholeFragment(n)
      /\ \A r : ChunkAt(r)' = ChunkAt(r)
      /\ \A m : Gathered(m)' = Gathered(m)
  BY <1>1, DeliveryKeeps
<1>4. CvtInv'
  <2>1. CvtTypeOK'
    BY <1>1, <1>2 DEF CvtInv, CvtTypeOK
  <2> QED BY <1>1, <1>2, <2>1, CvtKept
<1>5. EndsInv'
  <2> HIDE DEF Muxed
  <2> QED BY <1>1, <1>2, <1>3 DEF EndsInv
<1>6. /\ C > K + 1 =>
              /\ parser' = << >> /\ UNCHANGED <<fragment, pushed>>
              /\ header' = IF C = K + 4 THEN {"ftyp"} ELSE {"ftyp", "moov"}
              /\ moof' = IF C = K + 2 THEN N ELSE moof
      /\ C = K + 1 =>
              parser' = <<ChunkAt(K)>> /\ UNCHANGED <<header, moof, fragment, pushed>>
      /\ C \in 2 .. K =>
              /\ parser' = [i \in 1 .. K - C + 2 |-> ChunkAt(K - i + 1)]
              /\ fragment' = Gathered((K - C) + 1)
              /\ UNCHANGED <<header, moof, pushed>>
      /\ C = 1 =>
              /\ parser' = << >> /\ fragment' = NoFragment
              /\ pushed' = Append(pushed, WholeFragment(N))
              /\ UNCHANGED <<header, moof>>
  BY ChainSteps
<1>7. /\ header = IF C = K + 4 THEN {} ELSE IF C = K + 3 THEN {"ftyp"} ELSE {"ftyp", "moov"}
      /\ moof = IF C >= K + 2 THEN N - 1 ELSE N
      /\ Len(pushed) = IF C = 0 THEN N ELSE N - 1
      /\ fragment = IF C \in 1 .. K THEN Gathered(K - C) ELSE NoFragment
      /\ \A i \in FirstOf(N) + 1 .. ends[N] : ~frames[i].key
  BY <1>2 DEF FragmentInv
<1>8. Len(pushed) = N - 1 /\ pushed \in Seq(Fragment)
  BY <1>2, <1>7 DEF PushedInv
<1>9. C > K + 1 \/ C = K + 1 \/ C \in 2 .. K \/ C = 1
  BY <1>2
<1>10. PushedInv' /\ Len(pushed') = IF C = 1 THEN N ELSE N - 1
  <2>1. CASE C # 1
    <3>1. UNCHANGED pushed
      BY <1>6, <1>9, <2>1
    <3>2. Len(ends') = Len(ends) /\ Len(ends) \in Nat /\ Len(ends) <= Len(ends)
      BY <1>1, <1>2
    <3>3. PushedInv'
      BY <1>2, <1>3, <3>1, <3>2, PushedKept
    <3> QED BY <1>8, <2>1, <3>1, <3>3
  <2>2. CASE C = 1
    <3>1. WholeFragment(N) \in Fragment
      <4>1. Len(chunks) = 1
        BY <2>2
      <4> QED BY <1>1, <4>1, BufferIsWhole
    <3>2. pushed' = Append(pushed, WholeFragment(N))
      BY <1>6, <2>2
    <3> HIDE DEF WholeFragment
    <3>3. /\ pushed' \in Seq(Fragment) /\ Len(pushed') = (N - 1) + 1
          /\ pushed'[(N - 1) + 1] = WholeFragment(N)
          /\ \A i \in 1 .. N - 1 : pushed'[i] = pushed[i]
      BY <1>8, <3>1, <3>2, AppendTo
    <3>4. (N - 1) + 1 = N /\ Len(ends') = N /\ \A i \in 1 .. N : i \in 1 .. N - 1 \/ i = N
      BY <1>1, <1>2
    <3>5. \A i \in 1 .. N - 1 : pushed[i] = WholeFragment(i)
      BY <1>2, <1>8 DEF PushedInv
    <3>6. \A i \in 1 .. N : pushed'[i] = WholeFragment(i)'
      BY <1>3, <3>3, <3>4, <3>5
    <3>7. Len(pushed') = N /\ Len(pushed') <= Len(ends')
      BY <1>2, <3>3, <3>4
    <3>8. PushedInv'
      BY <3>3, <3>6, <3>7 DEF PushedInv
    <3> QED BY <2>2, <3>7, <3>8
  <2> QED BY <2>1, <2>2
<1>11. MuxInv'
  <2> DEFINE c == C - 1
  <2>1. /\ c \in Nat /\ c <= K + (IF N = 1 THEN 4 ELSE 2) /\ Len(chunks') = c
        /\ chunks' = [i \in 1 .. c |-> ChunkAt(c - i)]
    BY <1>1, <1>2
  <2>2. /\ header' = IF c = K + 4 THEN {} ELSE IF c = K + 3 THEN {"ftyp"} ELSE {"ftyp", "moov"}
        /\ moof' = IF c >= K + 2 THEN N - 1 ELSE N
        /\ parser' = IF c \in 1 .. K THEN [i \in 1 .. K - c + 1 |-> ChunkAt(K - i + 1)] ELSE << >>
        /\ fragment' = IF c \in 1 .. K THEN Gathered(K - c) ELSE NoFragment
    <3>1. CASE C > K + 1
      <4>1. /\ c # K + 4 /\ (c = K + 3 <=> C = K + 4) /\ c \notin 1 .. K
            /\ (C = K + 2 => ~(c >= K + 2)) /\ (C # K + 2 => C >= K + 2 /\ c >= K + 2)
            /\ C \notin 1 .. K
        BY <1>2, <3>1
      <4>2. parser' = << >> /\ fragment' = NoFragment
        BY <1>6, <1>7, <3>1, <4>1
      <4>3. moof' = IF c >= K + 2 THEN N - 1 ELSE N
        BY <1>6, <1>7, <3>1, <4>1
      <4>4. header' = IF C = K + 4 THEN {"ftyp"} ELSE {"ftyp", "moov"}
        BY <1>6, <3>1
      <4> QED BY <4>1, <4>2, <4>3, <4>4
    <3>2. CASE C = K + 1
      <4>1. /\ c = K /\ c \in 1 .. K /\ K - c = 0 /\ K - c + 1 = 1 /\ c # K + 4 /\ c # K + 3
            /\ C # K + 4 /\ C # K + 3 /\ ~(c >= K + 2) /\ ~(C >= K + 2) /\ C \notin 1 .. K
        <5>1. K \in Nat /\ 1 <= K /\ c = K
          BY <1>2, <3>2
        <5> HIDE DEF c
        <5> QED BY <3>2, <5>1
      <4>2. Gathered(K - c) = NoFragment
        BY <4>1 DEF Gathered
      <4>3. <<ChunkAt(K)>> = [i \in 1 .. 1 |-> ChunkAt(K - i + 1)]
        <5>1. \A i \in 1 .. 1 : K - i + 1 = K
          BY <1>2
        <5> HIDE DEF ChunkAt
        <5>2. <<ChunkAt(K)>> = [i \in 1 .. 1 |-> ChunkAt(K)]
          OBVIOUS
        <5> QED BY <5>1, <5>2
      <4> HIDE DEF ChunkAt, Gathered, c
      <4> QED BY <1>6, <1>7, <3>2, <4>1, <4>2, <4>3
    <3>3. CASE C \in 2 .. K
      <4>1. /\ c \in 1 .. K /\ K - c = (K - C) + 1 /\ K - c + 1 = K - C + 2
            /\ c # K + 4 /\ c # K + 3
            /\ C # K + 4 /\ C # K + 3 /\ ~(c >= K + 2) /\ ~(C >= K + 2)
        BY <1>2, <3>3
      <4> HIDE DEF ChunkAt, Gathered, c
      <4> QED BY <1>6, <1>7, <3>3, <4>1
    <3>4. CASE C = 1
      <4>1. /\ c = 0 /\ c \notin 1 .. K /\ c # K + 4 /\ c # K + 3
            /\ C # K + 4 /\ C # K + 3 /\ ~(c >= K + 2) /\ ~(C >= K + 2)
        BY <1>2, <3>4
      <4> HIDE DEF ChunkAt, Gathered, c
      <4> QED BY <1>6, <1>7, <3>4, <4>1
    <3> QED BY <1>9, <3>1, <3>2, <3>3, <3>4
  <2>3. Len(pushed') = IF c = 0 THEN N ELSE N - 1
    BY <1>2, <1>10
  <2>4. /\ ends' = ends /\ frames' = frames /\ Len(ends') = N /\ SizeOf(N)' = K
        /\ FirstOf(N)' = FirstOf(N)
    BY <1>1, <1>3
  <2> HIDE DEF c, FirstOf, SizeOf, Muxed, ChunkAt, Gathered
  <2>5. chunks' = [i \in 1 .. c |-> ChunkAt(c - i)']
    BY <1>3, <2>1
  <2>6. parser' = IF c \in 1 .. K THEN [i \in 1 .. K - c + 1 |-> ChunkAt(K - i + 1)'] ELSE << >>
    BY <1>3, <2>2
  <2>7. fragment' = IF c \in 1 .. K THEN Gathered(K - c)' ELSE NoFragment
    BY <1>3, <2>2
  <2>8. \A i \in FirstOf(N)' + 1 .. ends'[N] : ~frames'[i].key
    BY <1>7, <2>4
  <2>9. FragmentInv'
    BY <2>1, <2>2, <2>3, <2>4, <2>5, <2>6, <2>7, <2>8 DEF FragmentInv
  <2> QED BY <1>2, <2>4, <2>9 DEF MuxInv
<1> QED BY <1>4, <1>5, <1>10, <1>11 DEF CaptureInv

LEMMA DeliveryFailsInv ==
  ASSUME CaptureInv, DeliveryFails PROVE CaptureInv'
<1>1. /\ UNCHANGED <<cvt, prevInput, prevOutput, offset, frames, ends, pushed>>
      /\ flow' = "error"
  BY DEF DeliveryFails, ChainFails, cvtState
<1>2. CvtInv /\ EndsInv /\ PushedInv
  BY DEF CaptureInv
<1>3. CvtInv'
  <2>1. CvtTypeOK'
    BY <1>1, <1>2 DEF CvtInv, CvtTypeOK
  <2> QED BY <1>1, <1>2, <2>1, CvtKept
<1>4. EndsInv'
  BY <1>1, <1>2 DEF EndsInv, Muxed
<1>5. PushedInv'
  <2>1. \A n : WholeFragment(n)' = WholeFragment(n)
    BY <1>1, DeliveryKeeps
  <2>2. Len(ends') = Len(ends) /\ Len(ends) \in Nat /\ Len(ends) <= Len(ends)
    BY <1>1, <1>2 DEF EndsInv
  <2> QED BY <1>1, <1>2, <2>1, <2>2, PushedKept
<1>6. MuxInv'
  BY <1>1 DEF MuxInv
<1> QED BY <1>3, <1>4, <1>5, <1>6 DEF CaptureInv

(***************************************************************************)
(* The fragments are gathered as mp4mux sends them, and what has been      *)
(* pushed is whole fragments of frames whose times are in order.           *)
(***************************************************************************)
THEOREM CaptureInvHolds == Spec => []CaptureInv
<1>1. Init => CaptureInv
  <2> SUFFICES ASSUME Init PROVE CaptureInv
    OBVIOUS
  <2>1. /\ cvt \in CvtSettings /\ prevInput = NoTime /\ prevOutput = NoTime
        /\ offset = NoOffset /\ flow = "ok" /\ frames = << >>
        /\ parser = << >> /\ header = {} /\ moof = NoMoof /\ fragment = NoFragment
        /\ pushed = << >> /\ chunks = << >> /\ ends = << >>
    BY DEF Init, CvtInit, PayInit
  <2>2. Len(frames) = 0 /\ Len(ends) = 0 /\ Len(pushed) = 0 /\ 1 .. 0 = {} /\ frames \in Seq(Frame)
    BY <2>1
  <2>3. CvtInv
    <3>1. CvtTypeOK
      BY <2>1, <2>2, TimesAreNumbers DEF CvtTypeOK, NoOffset
    <3> QED BY <2>1, <2>2, <3>1 DEF CvtInv, InTimeOrder, TrueUnlessBehind
  <2>4. EndsInv
    <3>1. \A n \in 0 .. 0 : n = 0
      OBVIOUS
    <3>2. ends \in Seq(Nat) /\ \A m, n \in 0 .. 0 : ~(m < n)
      BY <2>1
    <3> QED BY <2>2, <3>1, <3>2 DEF EndsInv, Muxed
  <2>5. PushedInv
    BY <2>1, <2>2 DEF PushedInv
  <2>6. MuxInv
    BY <2>1 DEF MuxInv, Nothing
  <2> QED BY <2>3, <2>4, <2>5, <2>6 DEF CaptureInv
<1>2. CaptureInv /\ [Next]_vars => CaptureInv'
  <2> SUFFICES ASSUME CaptureInv, [Next]_vars PROVE CaptureInv'
    OBVIOUS
  <2>1. CASE Receive /\ UNCHANGED <<payVars, muxVars>>
    BY <2>1, ReceiveKeepsMux
  <2>2. ASSUME NEW last \in 1 .. MaxFrames, SendFragment(last) PROVE CaptureInv'
    BY <2>2, SendFragmentInv
  <2>3. CASE Deliver
    BY <2>3, DeliverInv
  <2>4. CASE DeliveryFails
    BY <2>4, DeliveryFailsInv
  <2>5. CASE UNCHANGED vars
    <3>1. UNCHANGED <<cvt, prevInput, prevOutput, offset, flow, frames, ends, pushed,
                      chunks, parser, header, moof, fragment>>
      BY <2>5 DEF vars, cvtVars, cvtState, payVars, payState, muxVars
    <3>2. CvtInv'
      <4>1. CvtInv /\ CvtTypeOK'
        BY <3>1 DEF CaptureInv, CvtInv, CvtTypeOK
      <4> QED BY <3>1, <4>1, CvtKept
    <3>3. EndsInv'
      BY <3>1 DEF CaptureInv, EndsInv, Muxed
    <3>4. PushedInv'
      BY <3>1 DEF CaptureInv, PushedInv, WholeFragment, FirstOf, SizeOf, Muxed
    <3>5. MuxInv'
      BY <3>1 DEF CaptureInv, MuxInv, Nothing, FragmentInv, ChunkAt, Gathered, Sample, Atom,
                  FirstOf, SizeOf, Muxed
    <3> QED BY <3>2, <3>3, <3>4, <3>5 DEF CaptureInv
  <2> QED BY <2>1, <2>2, <2>3, <2>4, <2>5 DEF Next
<1> QED BY <1>1, <1>2, PTL DEF Spec

(***************************************************************************)
(* timestampcvt: no correction makes a timestamp earlier than it should    *)
(* be, and one that is later than every timestamp before it is not         *)
(* corrected.                                                              *)
(***************************************************************************)
THEOREM TrueUnlessBehindHolds == Spec => []TrueUnlessBehind
<1>1. CaptureInv => TrueUnlessBehind
  BY DEF CaptureInv, CvtInv
<1> QED BY <1>1, CaptureInvHolds, PTL

(***************************************************************************)
(* fragmp4pay: the buffers for pravegasink do not go back in time.         *)
(***************************************************************************)
THEOREM PushedInOrderHolds == Spec => []PushedInOrder
<1>1. CaptureInv => PushedInOrder
  <2> SUFFICES ASSUME CaptureInv, NEW i \in 1 .. Len(pushed), NEW j \in 1 .. Len(pushed), i <= j
               PROVE  pushed[i].pts <= pushed[j].pts
    BY DEF PushedInOrder
  <2>1. CvtInv /\ EndsInv /\ PushedInv /\ Len(pushed) \in Nat /\ Len(ends) \in Nat
        /\ Len(frames) \in Nat
    BY FramesCounted DEF CaptureInv, PushedInv, EndsInv
  <2>2. i \in 1 .. Len(ends) /\ j \in 1 .. Len(ends)
    BY <2>1 DEF PushedInv
  <2>3. pushed[i].pts = frames[FirstOf(i)].time /\ pushed[j].pts = frames[FirstOf(j)].time
    <3>1. pushed[i] = WholeFragment(i) /\ pushed[j] = WholeFragment(j)
      BY <2>1 DEF PushedInv
    <3>2. WholeFragment(i).pts = frames[FirstOf(i)].time
          /\ WholeFragment(j).pts = frames[FirstOf(j)].time
      BY DEF WholeFragment
    <3> QED BY <3>1, <3>2
  <2>4. /\ FirstOf(i) \in 1 .. Len(frames) /\ FirstOf(j) \in 1 .. Len(frames)
        /\ FirstOf(i) <= FirstOf(j)
    <3> DEFINE a == FirstOf(i)  b == FirstOf(j)  x == Muxed(i - 1)  y == Muxed(j - 1)
    <3>1. /\ a \in Nat /\ 1 <= a /\ a <= ends[i] /\ ends[i] \in Nat /\ ends[i] <= Len(frames)
          /\ a = x + 1 /\ x \in Nat
      BY <2>1, <2>2, EndsFacts
    <3>2. /\ b \in Nat /\ 1 <= b /\ b <= ends[j] /\ ends[j] \in Nat /\ ends[j] <= Len(frames)
          /\ b = y + 1 /\ y \in Nat
      BY <2>1, <2>2, EndsFacts
    <3>3. x = y \/ x < y
      <4>1. i - 1 \in 0 .. Len(ends) /\ j - 1 \in 0 .. Len(ends) /\ (i = j \/ i - 1 < j - 1)
        BY <2>1, <2>2
      <4> QED BY <2>1, <4>1 DEF EndsInv
    <3> HIDE DEF a, b, x, y
    <3>4. a \in 1 .. Len(frames) /\ b \in 1 .. Len(frames) /\ a <= b
      BY <2>1, <3>1, <3>2, <3>3
    <3> QED BY <3>4 DEF a, b
  <2> QED BY <2>1, <2>3, <2>4 DEF CvtInv, InTimeOrder
<1> QED BY <1>1, CaptureInvHolds, PTL

LEMMA MinIs ==
  ASSUME NEW S \in SUBSET Int, NEW x \in S, \A y \in S : x <= y PROVE Min(S) = x
<1>1. \A z \in S : (\A y \in S : z <= y) => z = x
  OBVIOUS
<1> QED BY <1>1 DEF Min

LEMMA MaxIs ==
  ASSUME NEW S \in SUBSET Int, NEW x \in S, \A y \in S : x >= y PROVE Max(S) = x
<1>1. \A z \in S : (\A y \in S : z >= y) => z = x
  OBVIOUS
<1> QED BY <1>1 DEF Max

(***************************************************************************)
(* fragmp4pay: each buffer is one moof with its own mdat, it spans exactly *)
(* the time of its frames, none is lost between two of them, and it begins *)
(* with ftyp and moov if and only if its first frame is a key frame.       *)
(***************************************************************************)
THEOREM FragmentIsWholeHolds == Spec => []FragmentIsWhole
<1>1. CaptureInv => FragmentIsWhole
  <2> SUFFICES ASSUME CaptureInv, NEW n \in 1 .. Len(pushed)
               PROVE  LET first == Muxed(n - 1) + 1
                          numbers == first .. ends[n]
                          f == pushed[n]
                      IN /\ f.moof = n
                         /\ ToSet(f.mdat) = numbers /\ f.mdat[1] = first
                         /\ f.pts = Min({frames[i].time : i \in numbers})
                         /\ f.end = Max({frames[i].time : i \in numbers}) + FrameDuration
                         /\ f.header = frames[first].key /\ f.delta = ~frames[first].key
    BY DEF FragmentIsWhole
  <2> DEFINE M == Muxed(n - 1)  K == SizeOf(n)  F == M + 1  E == ends[n]
             numbers == F .. E
             times == {frames[i].time : i \in numbers}
             f == pushed[n]
  <2>1. CvtInv /\ EndsInv /\ PushedInv /\ Len(pushed) \in Nat /\ Len(ends) \in Nat
        /\ Len(frames) \in Nat
    BY FramesCounted DEF CaptureInv, PushedInv, EndsInv
  <2>2. n \in 1 .. Len(ends)
    BY <2>1 DEF PushedInv
  <2>3. /\ M \in Nat /\ E \in Nat /\ E <= Len(frames) /\ FirstOf(n) = F
        /\ K \in Nat /\ 1 <= K /\ E = M + K
    BY <2>1, <2>2, EndsFacts
  <2>4. f = WholeFragment(n)
    BY <2>1 DEF PushedInv
  <2> DEFINE mdat == [i \in 1 .. K |-> M + i]
  <2>5. /\ f.moof = n /\ f.mdat = mdat /\ f.pts = frames[F].time
        /\ f.end = frames[E].time + FrameDuration
    <3> HIDE DEF f
    <3> QED BY <2>3, <2>4 DEF WholeFragment
  <2>6. f.header = frames[F].key /\ f.delta = ~frames[F].key
    <3> DEFINE key == frames[F].key  delta == ~frames[F].key
    <3>1. WholeFragment(n).header = key /\ WholeFragment(n).delta = delta
      <4>1. key = frames[FirstOf(n)].key /\ delta = ~frames[FirstOf(n)].key
        BY <2>3
      <4> DEFINE d == ~frames[FirstOf(n)].key
      <4>2. WholeFragment(n).header = frames[FirstOf(n)].key
        BY DEF WholeFragment
      <4>3. WholeFragment(n).delta = d
        <5> DEFINE h == frames[FirstOf(n)].key  m == [i \in 1 .. SizeOf(n) |-> Muxed(n - 1) + i]
                   p == frames[FirstOf(n)].time  e == frames[ends[n]].time + FrameDuration
        <5>1. WholeFragment(n) = [header |-> h, moof |-> n, mdat |-> m, pts |-> p, end |-> e,
                                  delta |-> d]
          BY DEF WholeFragment
        <5> HIDE DEF WholeFragment, h, m, p, e, d
        <5> QED BY <5>1
      <4> QED BY <4>1, <4>2, <4>3
    <3> HIDE DEF WholeFragment, f, key, delta
    <3>2. f.header = key /\ f.delta = delta
      BY <2>4, <3>1
    <3> QED BY <3>2 DEF key, delta
  <2> HIDE DEF M, K, E, f
  <2>7. /\ F \in Nat /\ 1 <= F /\ F <= E /\ F \in numbers /\ E \in numbers
        /\ numbers \subseteq 1 .. Len(frames)
    BY <2>1, <2>3
  <2>8. ToSet(mdat) = numbers /\ mdat[1] = F
    <3>1. DOMAIN mdat = 1 .. K /\ 1 \in 1 .. K
      BY <2>3
    <3>2. \A j \in numbers : j - M \in 1 .. K /\ M + (j - M) = j
      BY <2>3
    <3>3. \A i \in 1 .. K : M + i \in numbers
      BY <2>3
    <3>4. ToSet(mdat) = {M + i : i \in 1 .. K}
      BY <3>1 DEF ToSet
    <3>5. \A j \in numbers : j \in {M + i : i \in 1 .. K}
      BY <3>2
    <3> HIDE DEF numbers
    <3>6. {M + i : i \in 1 .. K} = numbers
      BY <3>3, <3>5
    <3> QED BY <3>1, <3>4, <3>6
  <2>9. \A i \in numbers : /\ frames[i].time \in Int
                           /\ frames[F].time <= frames[i].time
                           /\ frames[i].time <= frames[E].time
    <3> SUFFICES ASSUME NEW i \in numbers
                 PROVE  /\ frames[i].time \in Int
                        /\ frames[F].time <= frames[i].time
                        /\ frames[i].time <= frames[E].time
      OBVIOUS
    <3>1. i \in 1 .. Len(frames) /\ F \in 1 .. Len(frames) /\ E \in 1 .. Len(frames)
      BY <2>7
    <3>2. F <= i /\ i <= E
      BY <2>3, <2>7
    <3>3. frames[i].time \in Nat
      BY <2>1, <3>1, FrameFacts
    <3> HIDE DEF F
    <3> QED BY <2>1, <3>1, <3>2, <3>3 DEF CvtInv, InTimeOrder
  <2>10. times \in SUBSET Int /\ frames[F].time \in times /\ frames[E].time \in times
    BY <2>7, <2>9
  <2>11. /\ \A y \in times : frames[F].time <= y
         /\ \A y \in times : frames[E].time >= y
    <3>1. \A i \in numbers : frames[E].time \in Int /\ frames[E].time >= frames[i].time
      BY <2>7, <2>9
    <3> HIDE DEF numbers, F
    <3> QED BY <2>9, <3>1
  <2> HIDE DEF times, numbers, mdat
  <2>12. Min(times) = frames[F].time /\ Max(times) = frames[E].time
    BY <2>10, <2>11, MinIs, MaxIs
  <2> QED BY <2>5, <2>6, <2>8, <2>12 DEF times, numbers, E, M, f
<1> QED BY <1>1, CaptureInvHolds, PTL

=============================================================================
