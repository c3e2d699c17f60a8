------------------------------ MODULE PravegaTC ------------------------------
(***************************************************************************)
(* gst-plugin-pravega/src/pravegatc/imp.rs: the element that records in a  *)
(* Pravega table how far a pipeline has come, and has the pravegasrc of a  *)
(* restarted pipeline resume from there.  If it is restarted again and     *)
(* again at the same place, it skips ahead.                                *)
(*                                                                         *)
(* The pipeline is the one of pravega-to-object-detection-to-pravega.py:   *)
(* pravegasrc, a decoder, inference, pravegatc and what comes after it.    *)
(* Of pravegasrc only what PravegaSrc promises is used: it starts at the   *)
(* record at or before the requested time, and the segment starts at that  *)
(* record or, with timestamp-exact, at the requested time, before which    *)
(* the decoder lets nothing pass.  Its input is sealed, and every frame    *)
(* that can be decoded alone is indexed.                                   *)
(*                                                                         *)
(* defects are frames on which something before pravegatc fails each time. *)
(* failuresLeft bounds everything else that fails: the table, the process. *)
(***************************************************************************)
EXTENDS Integers, Sequences, FiniteSetsExt

CONSTANTS
  FrameTimes,    (* the timestamps of the frames of the input              *)
  KeyFrames,     (* the frames that can be decoded alone                   *)
  DefectSets,    (* the sets of frames that may be defective               *)
  FrameDuration, (* of every frame; 0 if it is not known                   *)
  RecordPeriod,  (* record_period                                          *)
  InitialSkip,   (* initial_skip_time_delta                                *)
  MaxFailures

Frames == 1 .. Len(FrameTimes)

ASSUME RecoveryAssumption ==
  /\ FrameTimes \in Seq(Nat \ {0})
  /\ \A j, k \in Frames : j < k => FrameTimes[j] < FrameTimes[k]
  /\ KeyFrames \subseteq Frames /\ 1 \in KeyFrames
  /\ DefectSets \subseteq SUBSET Frames
  /\ FrameDuration \in Nat
  /\ {RecordPeriod, InitialSkip} \subseteq Nat \ {0}
  /\ MaxFailures \in Nat

(* Otherwise the end of a frame, which is recorded, may be after the next. *)
ASSUME FramesDoNotOverlap ==
  \A j, k \in Frames : j < k => FrameTimes[j] + FrameDuration <= FrameTimes[k]

VARIABLES
  table,         (* PersistentState, in the table                          *)
  run,           (* the pipeline: where it is, and StartedState            *)
  defects,
  failuresLeft,
  processed,     (* history: the frames for which push has returned Ok     *)
  skipped        (* history: the frames that were skipped by a restart     *)

tcVars == <<table, run, defects, failuresLeft, processed, skipped>>

None == 0      \* ClockTime::none; frames have later timestamps

NoState == [resume_at |-> None, resume_count |-> 0]

(* frame is the next one; from is where the segment starts.  final and last
   are final_resume_at_pts and last_recorded_pts. *)
NoRun == [step |-> "down", frame |-> 1, from |-> None, final |-> None, last |-> None]

RunSteps == {"down", "running", "pushing", "recording", "failing", "ending",
             "failed", "ended", "done"}

Times == {None} \cup {FrameTimes[k] : k \in Frames}

(* If no duration is known, one nanosecond. *)
ResumeAt(k) == FrameTimes[k] + (IF FrameDuration = 0 THEN 1 ELSE FrameDuration)

ResumeTimes == {None} \cup {ResumeAt(k) : k \in Frames}

TCTypeOK ==
  /\ table \in [resume_at : ResumeTimes, resume_count : Nat]
  /\ run \in [step : RunSteps, frame : 1 .. Len(FrameTimes) + 1,
              from : Nat, final : ResumeTimes, last : Times]
  /\ defects \in DefectSets
  /\ failuresLeft \in 0 .. MaxFailures
  /\ processed \subseteq Frames
  /\ skipped \subseteq Frames

TCInit ==
  /\ table = NoState
  /\ run = NoRun
  /\ defects \in DefectSets
  /\ failuresLeft = MaxFailures
  /\ processed = {}
  /\ skipped = {}

Failing == failuresLeft > 0 /\ failuresLeft' = failuresLeft - 1

-----------------------------------------------------------------------------
(* start *)

(* The first attempt resumes exactly, later ones skip twice as much each. *)
Skip(count) ==
  IF count <= 1 THEN 0
  ELSE 2 ^ (IF count - 2 < 24 THEN count - 2 ELSE 24) * InitialSkip

(* Where pravegasrc starts: the nearest record that is not too late.  Only   *)
(* key frames have a record here.  The final record of a stream that is     *)
(* complete, to which a long skip may lead as well, is left out: a run that *)
(* starts there has no defect before it.                                    *)
FirstFrame(time) ==
  LET before == {k \in KeyFrames : FrameTimes[k] <= time}
  IN IF before = {} THEN 1 ELSE Max(before)

(* The settings for pravegasrc, and what it makes of them. *)
Resumed(state) ==
  LET frame == FirstFrame(state.resume_at + Skip(state.resume_count))
  IN [NoRun EXCEPT
        !.step  = "running",
        !.frame = frame,
        !.from  = IF state.resume_count <= 1 THEN state.resume_at
                                             ELSE FrameTimes[frame]]

(* A wrong version: the count that is stored is not used. *)
CountedAnew == [table EXCEPT !.resume_count = 1]

Counted == [table EXCEPT !.resume_count = @ + 1]

Start ==
  /\ run.step = "down"
  /\ IF table = NoState
       THEN /\ run' = [NoRun EXCEPT !.step = "running"]
            /\ UNCHANGED <<table, skipped>>
       ELSE /\ table' = Counted
            /\ run' = Resumed(Counted)
            /\ skipped' = skipped \cup
                 {k \in Frames : FrameTimes[k] \in table.resume_at .. run'.from - 1}
  /\ UNCHANGED <<defects, failuresLeft, processed>>

(* get or insert_conditionally fails, the latter perhaps after it was done. *)
StartFails ==
  /\ run.step = "down"
  /\ Failing
  /\ table' \in {table} \cup (IF table = NoState THEN {} ELSE {Counted})
  /\ UNCHANGED <<run, defects, processed, skipped>>

-----------------------------------------------------------------------------
(* The elements before pravegatc *)

(* The decoder does not let frames pass that are before the segment. *)
Clip ==
  /\ run.step = "running" /\ run.frame \in Frames \ defects
  /\ FrameTimes[run.frame] < run.from
  /\ run' = [run EXCEPT !.frame = @ + 1]
  /\ UNCHANGED <<table, defects, failuresLeft, processed, skipped>>

(* An error is posted, and the application takes the pipeline down. *)
DefectFails ==
  /\ run.step = "running" /\ run.frame \in defects
  /\ run' = [run EXCEPT !.step = "failing"]
  /\ UNCHANGED <<table, defects, failuresLeft, processed, skipped>>

(* So it does if anything else in the pipeline fails. *)
PipelineFails ==
  /\ run.step = "running"
  /\ Failing
  /\ run' = [run EXCEPT !.step = "failing"]
  /\ UNCHANGED <<table, defects, processed, skipped>>

EndOfStream ==
  /\ run.step = "running" /\ run.frame \notin Frames
  /\ run' = [run EXCEPT !.step = "ending"]
  /\ UNCHANGED <<table, defects, failuresLeft, processed, skipped>>

-----------------------------------------------------------------------------
(* sink_chain *)

Push ==
  /\ run.step = "running" /\ run.frame \in Frames \ defects
  /\ FrameTimes[run.frame] >= run.from
  /\ run' = [run EXCEPT !.step = "pushing"]
  /\ UNCHANGED <<table, defects, failuresLeft, processed, skipped>>

(* A wrong version: the time is that since the last buffer. *)
IsDueSincePrevious ==
  run.last = None \/ run.final + RecordPeriod <= FrameTimes[run.frame]

(* last_recorded_pts is none, or record_period ago. *)
IsDue == run.last = None \/ run.last + RecordPeriod <= FrameTimes[run.frame]

(* push returns Ok. *)
Pushed ==
  /\ run.step = "pushing"
  /\ run' = IF IsDue
              THEN [run EXCEPT !.final = ResumeAt(run.frame), !.step = "recording"]
              ELSE [run EXCEPT !.final = ResumeAt(run.frame), !.step = "running",
                               !.frame = @ + 1]
  /\ processed' = processed \cup {run.frame}
  /\ UNCHANGED <<table, defects, failuresLeft, skipped>>

PushFails ==
  /\ run.step = "pushing"
  /\ run' = [run EXCEPT !.step = "failing"]
  /\ UNCHANGED <<table, defects, failuresLeft, processed, skipped>>

Recorded(time) == [resume_at |-> time, resume_count |-> 0]

Record ==
  /\ run.step = "recording"
  /\ table' = Recorded(ResumeAt(run.frame))
  /\ run' = [run EXCEPT !.step = "running", !.frame = @ + 1,
                        !.last = FrameTimes[run.frame]]
  /\ UNCHANGED <<defects, failuresLeft, processed, skipped>>

(* The insert fails, perhaps after it was done. *)
RecordFails ==
  /\ run.step = "recording"
  /\ Failing
  /\ table' \in {table, Recorded(ResumeAt(run.frame))}
  /\ run' = [run EXCEPT !.step = "failing"]
  /\ UNCHANGED <<defects, processed, skipped>>

-----------------------------------------------------------------------------
(* stop *)

Stopping == run.step \in {"failing", "ending"}

Left == [run EXCEPT !.step = IF @ = "failing" THEN "failed" ELSE "ended"]

(* The count is set to 0 whether the pipeline has failed or not. *)
Stop ==
  /\ Stopping
  /\ table' = IF run.final = None THEN table ELSE Recorded(run.final)
  /\ run' = Left
  /\ UNCHANGED <<defects, failuresLeft, processed, skipped>>

(* The error is unwrapped; the application ends all the same. *)
StopFails ==
  /\ Stopping /\ run.final # None
  /\ Failing
  /\ table' \in {table, Recorded(run.final)}
  /\ run' = Left
  /\ UNCHANGED <<defects, processed, skipped>>

(* The process ends.  One that has failed is started again. *)
Exit ==
  /\ run.step \in {"failed", "ended"}
  /\ run' = IF run.step = "failed" THEN NoRun ELSE [NoRun EXCEPT !.step = "done"]
  /\ UNCHANGED <<table, defects, failuresLeft, processed, skipped>>

Abort ==
  /\ run.step \notin {"down", "done"}
  /\ run' = NoRun

Crash ==
  /\ Abort
  /\ Failing
  /\ UNCHANGED <<table, defects, processed, skipped>>

-----------------------------------------------------------------------------
(***************************************************************************)
(* Whenever the pipeline takes the next frame, the position in the table   *)
(* is less than record_period behind what this run has processed: that     *)
(* much is repeated if the process ends now.                               *)
(***************************************************************************)
ReplayIsBounded ==
  run.step \in {"running", "pushing"} /\ run.final # None =>
    run.final < table.resume_at + RecordPeriod

==============================================================================
