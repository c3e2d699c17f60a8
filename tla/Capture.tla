------------------------------- MODULE Capture -------------------------------
(***************************************************************************)
(* The pipeline that captures video, of                                    *)
(* python_apps/rtsp-camera-to-pravega.py and                               *)
(* scripts/mp4-file-to-pravega-mp4mux.sh:                                  *)
(*                                                                         *)
(*   h264parse ! timestampcvt ! mp4mux ! fragmp4pay ! pravegasink          *)
(*                                                                         *)
(* mp4mux has a thread of its own, so that frames come in while the chunks *)
(* of a fragment go out.  It begins a fragment at each key frame, and      *)
(* perhaps at other frames.  It is not in this repository.                 *)
(***************************************************************************)
EXTENDS TimestampCvt, FragMp4Pay, FiniteSetsExt, SequencesExt

CONSTANTS
  FrameDuration,
  MaxFrames,      (* bound: frames that timestampcvt pushes                *)
  MaxSamples      (* bound: samples in a fragment                          *)

ASSUME CaptureAssumption ==
  FrameDuration \in Nat /\ MaxFrames \in Nat /\ MaxSamples \in Nat \ {0}

VARIABLES
  chunks,   (* what mp4mux is about to send                                *)
  ends      (* the number of the last frame of each fragment               *)

muxVars == <<chunks, ends>>
vars == <<cvtVars, payVars, muxVars>>

TypeOK ==
  /\ CvtTypeOK
  /\ PayTypeOK
  /\ ends \in Seq(1 .. Len(frames))

Init ==
  /\ CvtInit
  /\ PayInit
  /\ chunks = << >>
  /\ ends = << >>

(* The number of frames in the first n fragments. *)
Muxed(n) == IF n = 0 THEN 0 ELSE ends[n]

Atom(name, fragmentNo, samples) ==
  [atom |-> name, fragment |-> fragmentNo, samples |-> samples]

Sample(i) ==
  [frame |-> i, pts |-> frames[i].time, end |-> frames[i].time + FrameDuration,
   delta |-> ~frames[i].key]

Start == IF ends = << >> THEN <<Atom("ftyp", 0, 0), Atom("moov", 0, 0)>> ELSE << >>

SendFragment(last) ==
  LET first == Muxed(Len(ends)) + 1
  IN /\ chunks = << >> /\ flow = "ok"
     /\ last \in first .. Len(frames) /\ last - first < MaxSamples
     /\ \A i \in first + 1 .. last : ~frames[i].key
     /\ ends' = Append(ends, last)
     /\ chunks' = Start \o <<Atom("moof", Len(ends) + 1, 0),
                             Atom("mdat", Len(ends) + 1, last - first + 1)>>
                        \o [i \in 1 .. last - first + 1 |-> Sample(first + i - 1)]
     /\ UNCHANGED <<cvtVars, payVars>>

Deliver ==
  /\ chunks # << >> /\ flow = "ok"
  /\ Chain(Head(chunks))
  /\ chunks' = Tail(chunks)
  /\ UNCHANGED <<cvtVars, ends>>

(* pravegasink fails: so does the pipeline. *)
DeliveryFails ==
  /\ chunks # << >> /\ flow = "ok"
  /\ ChainFails(Head(chunks))
  /\ chunks' = Tail(chunks)
  /\ flow' = "error"
  /\ UNCHANGED <<cvt, cvtState, frames, ends>>

Receive ==
  \/ SetProperty
  \/ DropUntimed
  \/ \E time \in cvt.inputs, key \in BOOLEAN :
       Len(frames) < MaxFrames /\ Convert(time, key)
  \/ \E time \in cvt.inputs : Refuse(time) \/ DropOrFail(time)

Next ==
  \/ Receive /\ UNCHANGED <<payVars, muxVars>>
  \/ \E last \in 1 .. MaxFrames : SendFragment(last)
  \/ Deliver
  \/ DeliveryFails

Spec == Init /\ [][Next]_vars

-----------------------------------------------------------------------------
(***************************************************************************)
(* What reaches pravegasink does not go back in time, whatever timestamps  *)
(* the camera gives: otherwise its index could not be searched.            *)
(***************************************************************************)
PushedInOrder ==
  \A i, j \in 1 .. Len(pushed) : i <= j => pushed[i].pts <= pushed[j].pts

(***************************************************************************)
(* Each buffer for pravegasink is one moof with its own mdat.  It spans    *)
(* exactly the time of its frames, no frame is lost between two of them,   *)
(* and it begins with ftyp and moov, and may be indexed, if and only if it *)
(* contains a key frame, which is then the first.                          *)
(***************************************************************************)
FragmentIsWhole ==
  \A n \in 1 .. Len(pushed) :
    LET first == Muxed(n - 1) + 1
        numbers == first .. ends[n]
        f == pushed[n]
    IN /\ f.moof = n
       /\ ToSet(f.mdat) = numbers /\ f.mdat[1] = first
       /\ f.pts = Min({frames[i].time : i \in numbers})
       /\ f.end = Max({frames[i].time : i \in numbers}) + FrameDuration
       /\ f.header = frames[first].key /\ f.delta = ~frames[first].key

==============================================================================
