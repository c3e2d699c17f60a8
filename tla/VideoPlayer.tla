----------------------------- MODULE VideoPlayer -----------------------------
(***************************************************************************)
(* apps/src/bin/pravega-video-player.rs: a window with buttons and a       *)
(* slider, around a pipeline with pravegasrc in its default settings.      *)
(*                                                                         *)
(* Everything happens in the one thread of the user interface: buttons,    *)
(* the slider, a timer and the messages of the pipeline.  It waits while   *)
(* the element answers a query, seeks or stops.  The buttons that pause    *)
(* and continue are left out; what follows a stop is, too.                 *)
(***************************************************************************)
EXTENDS PravegaSrc, FiniteSetsExt

VARIABLE
  slider       (* the GtkScale: its range, and the time it is at           *)

Slider == [start : Nat, end : Nat, value : Nat]

PlayerTypeOK == slider \in Slider

(* with_range: of the 100 nanoseconds after the epoch. *)
PlayerInit == slider = [start |-> 0, end |-> 100, value |-> 0]

UIThreadIsFree ==
  Started /\ outcome # "starting" /\ request = NoRequest /\ query.step = "none"

(* value_changed, when the user moves the slider. *)
MoveSlider(time) ==
  /\ UIThreadIsFree
  /\ time \in slider.start .. slider.end /\ time # slider.value
  /\ RequestSeek(time)
  /\ slider' = [slider EXCEPT !.value = time]

(* The stop button, or the window is closed. *)
ClickStop ==
  /\ UIThreadIsFree
  /\ RequestStop
  /\ UNCHANGED slider

(* Nothing but an end of stream stops playback; it also follows an error. *)
ReceiveEos ==
  /\ UIThreadIsFree /\ outcome \in {"eos", "error"}
  /\ RequestStop
  /\ UNCHANGED slider

(* Every 4 seconds the user interface is updated. *)
Timeout ==
  /\ UIThreadIsFree
  /\ BeginQuery
  /\ UNCHANGED slider

(* query_position: the sink is somewhere behind the element. *)
Positions ==
  {EventTimes[k] : k \in {i \in Events : i \in played.first .. played.last}}

(* Not yet a position: nothing is updated. *)
NoPosition ==
  /\ played = NothingPlayed
  /\ AnswerQuery
  /\ UNCHANGED slider

(* What the slider is set to. *)
SliderAt(position) ==
  [start |-> query.start, end |-> Max({query.end, position}),
   value |-> Max({query.start, position})]

(***************************************************************************)
(* A position that has been truncated is changed: then, and only then,     *)
(* value_changed is not blocked, so that if the slider is moved by this    *)
(* there is a seek.  It moves twice if it was behind the end; of the two   *)
(* seeks the second one counts.                                            *)
(***************************************************************************)
UpdateSlider ==
  /\ query.step = "done"
  /\ \E position \in Positions :
       /\ slider' = SliderAt(position)
       /\ request' = IF position < query.start /\ slider'.value # slider.value
                       THEN [kind |-> "seek", time |-> slider'.value]
                       ELSE request
  /\ query' = NoQuery
  /\ UNCHANGED <<settings, phase, search, reader, segmentStart, outcome, played>>

PlayerNext ==
  /\ UNCHANGED asksLeft
  /\ \/ ElementNext /\ UNCHANGED slider
     \/ \E time \in SeekTimes : MoveSlider(time)
     \/ ClickStop
     \/ ReceiveEos
     \/ Timeout
     \/ NoPosition
     \/ UpdateSlider

-----------------------------------------------------------------------------
(***************************************************************************)
(* The slider is within its range, and the range one that exists, although *)
(* the index changes between the searches for its two ends, and what is    *)
(* shown may be older than the index or not yet in it.                     *)
(***************************************************************************)
SliderIsInRange == slider.start <= slider.value /\ slider.value <= slider.end

==============================================================================
