---------------------------- MODULE StreamChecker ----------------------------
(***************************************************************************)
(* integration-test/src/bin/longevity-test.rs: a program that plays a      *)
(* stream and warns of what is wrong with it.  Of its four                 *)
(* StreamingBufferValidators this is the one after pravegasrc.             *)
(*                                                                         *)
(* Its warning that nothing was received for some time is left out, as are *)
(* missing timestamps and corrupted buffers: pravegasrc makes none.        *)
(***************************************************************************)
EXTENDS PravegaSrc, FiniteSets

CONSTANTS
  MaxGap,          (* gaps in PTS larger than this produce a warning       *)
  Discontinuous    (* the events that begin a session of the writer        *)

ASSUME CheckerAssumption == MaxGap \in Nat /\ Discontinuous \subseteq Events

VARIABLE
  validator        (* the StreamingBufferValidator                         *)

NoPts == 0

CheckerTypeOK ==
  validator \in [prev_pts : Nat, pts_gap_too_large_count : Nat,
                 pts_decreasing_count : Nat, discontinuity_count : Nat]

CheckerInit ==
  validator = [prev_pts |-> NoPts, pts_gap_too_large_count |-> 0,
               pts_decreasing_count |-> 0, discontinuity_count |-> 0]

(* start-utc and end-utc are options. *)
Configure ==
  /\ SetProperty
  /\ settings'.start_mode \in {"earliest", "timestamp"}
  /\ settings'.end_mode \in {"unbounded", "timestamp"}
  /\ UNCHANGED validator

Count(condition) == IF condition THEN 1 ELSE 0

(* A wrong version: the time before is kept when there is a gap. *)
RecordedWithoutReset(pts, discont) ==
  LET gap == validator.prev_pts # NoPts /\ pts - validator.prev_pts > MaxGap
  IN [prev_pts |-> IF gap THEN validator.prev_pts ELSE pts,
      pts_gap_too_large_count |-> validator.pts_gap_too_large_count + Count(gap),
      pts_decreasing_count |->
        validator.pts_decreasing_count + Count(pts < validator.prev_pts),
      discontinuity_count |-> validator.discontinuity_count + Count(discont)]

(* record_buffer *)
Recorded(pts, discont) ==
  [prev_pts |-> pts,
   pts_gap_too_large_count |-> validator.pts_gap_too_large_count
     + Count(validator.prev_pts # NoPts /\ pts - validator.prev_pts > MaxGap),
   pts_decreasing_count |->
     validator.pts_decreasing_count + Count(pts < validator.prev_pts),
   discontinuity_count |-> validator.discontinuity_count + Count(discont)]

(* GstBaseSrc marks the first buffer of a segment. *)
IsDiscont(k) == played = NothingPlayed \/ k \in Discontinuous

(* The probe on the source pad sees what the element pushes. *)
Probe ==
  validator' = IF played' \in {played, NothingPlayed} THEN validator
               ELSE Recorded(EventTimes[played'.last], IsDiscont(played'.last))

(* The main loop ends. *)
Quit ==
  /\ outcome \in {"eos", "error"}
  /\ RequestStop
  /\ UNCHANGED validator

CheckerNext ==
  /\ UNCHANGED asksLeft
  /\ \/ Configure
     \/ ElementNext /\ Probe
     \/ Quit

-----------------------------------------------------------------------------
(***************************************************************************)
(* What the checker warns of is in the stream, and all of it: every gap    *)
(* and every discontinuity between the events from where it began, none    *)
(* that truncation, a limit or the reader below it would cause.            *)
(***************************************************************************)
WarningsAreTrue ==
  (played # NothingPlayed /\ validator.prev_pts # NoPts) =>
    LET after == played.first + 1 .. played.last
    IN /\ validator.pts_decreasing_count = 0
       /\ validator.pts_gap_too_large_count =
            Cardinality({k \in after : EventTimes[k] - EventTimes[k - 1] > MaxGap})
       /\ validator.discontinuity_count = 1 + Cardinality(after \cap Discontinuous)

==============================================================================
