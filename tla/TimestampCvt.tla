---------------------------- MODULE TimestampCvt ----------------------------
(***************************************************************************)
(* gst-plugin-pravega/src/timestampcvt/imp.rs, with the conversions of     *)
(* pravega-video/src/timestamp.rs: the element that turns the timestamps   *)
(* of a camera or a file into TAI and corrects those that go back, since   *)
(* pravegasink indexes by timestamp.                                       *)
(*                                                                         *)
(* Decoding timestamps are shifted by the same offset and have no part in  *)
(* this.  Its state is never reset, but the applications make an element   *)
(* for each pipeline.                                                      *)
(***************************************************************************)
EXTENDS Integers, Sequences

CONSTANTS
  CvtSettings,     (* the settings of the element, and what it may be given *)
  Epoch,           (* UNIX_TO_NTP_SECONDS                                   *)
  LeapSeconds,     (* UTC_TO_TAI_SECONDS                                    *)
  GracePeriod,     (* 15 seconds, for timestamps that cannot be converted   *)
  CorrectionDelta, (* pts_correction_delta                                  *)
  Wrap             (* 2^64 nanoseconds                                      *)

Modes == {"ntp", "tai", "start-at-current-time", "start-at-fixed-time"}

NoTime == -1       \* none, which is below every timestamp

Times == 0 .. Wrap - 1

ASSUME CvtAssumption ==
  /\ {Epoch, LeapSeconds, GracePeriod} \subseteq Nat /\ LeapSeconds <= Epoch
  /\ {CorrectionDelta, Wrap} \subseteq Nat \ {0}
  /\ CvtSettings \subseteq
       [mode : Modes, start : Times, inputs : SUBSET (Times \cup {NoTime})]

VARIABLES
  cvt,      (* its settings; start is the time that begins the output       *)
  prevInput, prevOutput,
  offset,   (* pts_offset_nanos                                             *)
  flow,     (* "error" when the pipeline has failed                         *)
  frames    (* history: the frames it has pushed, with their true time      *)

cvtState == <<prevInput, prevOutput, offset>>
cvtVars  == <<cvt, cvtState, flow, frames>>

NoOffset == Wrap   \* no offset is as large

Frame == [time : Times, true : Times \cup {NoTime}, key : BOOLEAN]

CvtTypeOK ==
  /\ cvt \in CvtSettings
  /\ prevInput \in Times \cup {NoTime}
  /\ prevOutput \in Times \cup {NoTime}
  /\ offset \in Int
  /\ flow \in {"ok", "error"}
  /\ frames \in Seq(Frame)

(* Settings::default, and any input. *)
CvtInit ==
  /\ cvt \in {s \in CvtSettings : s.mode = "ntp" /\ s.start = 0}
  /\ prevInput = NoTime /\ prevOutput = NoTime
  /\ offset = NoOffset
  /\ flow = "ok"
  /\ frames = << >>

(* set_property, before the first buffer. *)
SetProperty ==
  /\ prevInput = NoTime /\ offset = NoOffset /\ flow = "ok"
  /\ cvt' \in CvtSettings
  /\ UNCHANGED <<cvtState, flow, frames>>

(* The first buffer is at the current or at the given time. *)
OffsetFor(time) ==
  IF cvt.mode \in {"ntp", "tai"} \/ offset # NoOffset THEN offset ELSE cvt.start - time

(* from_ntp_nanoseconds: what is before 1970 becomes none. *)
FromNtp(time) == IF time >= Epoch THEN time - Epoch + LeapSeconds ELSE NoTime

(* corrected_input_pts.  A sum that is negative becomes a very late time. *)
TrueTime(time) ==
  CASE cvt.mode = "tai" -> time
    [] cvt.mode = "ntp" -> FromNtp(time)
    [] OTHER -> (time + OffsetFor(time)) % Wrap

(* A wrong version: timestamps that increase too little are corrected too. *)
OutputApart(input) ==
  IF prevInput = NoTime THEN input
  ELSE IF input = prevInput THEN prevOutput
  ELSE IF prevOutput + CorrectionDelta < input THEN input
  ELSE prevOutput + CorrectionDelta

Output(input) ==
  IF prevInput = NoTime THEN input
  ELSE IF input = prevInput THEN prevOutput
  ELSE IF prevOutput < input THEN input
  ELSE prevOutput + CorrectionDelta

(* A wrong version: the result is not compared with what was pushed before. *)
AcceptsAny(output) == output \in Times

(* Not the "Internal error", nor an overflow. *)
Accepts(output) == output \in Times /\ output >= prevOutput

(* sink_chain *)

DropUntimed ==
  /\ flow = "ok" /\ NoTime \in cvt.inputs
  /\ UNCHANGED cvtVars

Convert(time, key) ==
  LET input  == TrueTime(time)
      output == Output(input)
  IN /\ flow = "ok"
     /\ time \in cvt.inputs \ {NoTime}
     /\ Accepts(output)
     /\ prevInput' = input
     /\ prevOutput' = output
     /\ offset' = OffsetFor(time)
     /\ frames' = Append(frames, [time |-> output, true |-> input, key |-> key])
     /\ UNCHANGED <<cvt, flow>>

(* Overflow panics, or wraps to a time before prev_output: an error, too. *)
Refuse(time) ==
  LET output == Output(TrueTime(time))
  IN /\ flow = "ok"
     /\ time \in cvt.inputs \ {NoTime}
     /\ output # NoTime /\ ~Accepts(output)
     /\ offset' = OffsetFor(time)
     /\ flow' = "error"
     /\ UNCHANGED <<cvt, prevInput, prevOutput, frames>>

(* It cannot be converted, which may be so only at first. *)
DropOrFail(time) ==
  /\ flow = "ok"
  /\ time \in cvt.inputs \ {NoTime}
  /\ Output(TrueTime(time)) = NoTime
  /\ flow' = IF time > GracePeriod THEN "error" ELSE "ok"
  /\ UNCHANGED <<cvt, cvtState, frames>>

(***************************************************************************)
(* As soon as the camera's clock is ahead of every timestamp that it has   *)
(* been given, timestamps are true again; no correction makes a timestamp  *)
(* earlier than it should be.                                              *)
(***************************************************************************)
TrueUnlessBehind ==
  \A i \in 1 .. Len(frames) :
    /\ frames[i].time >= frames[i].true
    /\ (\A j \in 1 .. i - 1 : frames[j].time < frames[i].true)
         => frames[i].time = frames[i].true

(***************************************************************************)
(* "Any PTS values that decrease will have their PTS corrected": whatever  *)
(* came before, a timestamp that can be converted is not refused.          *)
(***************************************************************************)
DecreasesAreCorrected ==
  \A time \in cvt.inputs \ {NoTime} :
    flow = "ok" /\ TrueTime(time) # NoTime => Accepts(Output(TrueTime(time)))

==============================================================================
