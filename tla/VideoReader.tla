----------------------------- MODULE VideoReader -----------------------------
(***************************************************************************)
(* What a reader of a video stream promises to the element downstream: it  *)
(* plays the events one after another, each once and none left out, until  *)
(* somebody seeks.  A seek discards what is on its way and then continues  *)
(* at another event, or where it was if the seek fails.                    *)
(***************************************************************************)
EXTENDS Naturals

CONSTANT Played    (* the numbers of the events that can be played *)

VARIABLES
  at,         (* the event to play next                                    *)
  out,        (* the last event played since the last seek, or 0           *)
  flushing    (* a seek is under way                                       *)

readerVars == <<at, out, flushing>>

ReaderInit ==
  /\ at = 1
  /\ out = 0
  /\ flushing = FALSE

Play ==
  /\ ~flushing
  /\ at \in Played
  /\ out' = at
  /\ at' = at + 1
  /\ UNCHANGED flushing

BeginFlush ==
  /\ ~flushing
  /\ flushing' = TRUE
  /\ UNCHANGED <<at, out>>

(* An event that was being read when the seek began goes nowhere. *)
Discard ==
  /\ flushing
  /\ at' = at + 1
  /\ UNCHANGED <<out, flushing>>

Jump ==
  /\ flushing
  /\ at' \in Nat \ {0}
  /\ out' = 0
  /\ flushing' = FALSE

Stay ==
  /\ flushing
  /\ out' = 0
  /\ flushing' = FALSE
  /\ UNCHANGED at

ReaderNext ==
  \/ Play
  \/ BeginFlush
  \/ Discard
  \/ Jump
  \/ Stay

ReaderSpec == ReaderInit /\ [][ReaderNext]_readerVars

==============================================================================
