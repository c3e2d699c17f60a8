--------------------------- MODULE MCPravegaSink ---------------------------
(* A small instance of PravegaSink: key and delta frames, one that upstream *)
(* marks as a discontinuity, one that is synced, one that takes two events  *)
(* and lasts longer than the others, and one without a payload.             *)
EXTENDS PravegaSink

Frame   == [delta |-> FALSE, discont |-> FALSE, sync |-> FALSE, events |-> 1, duration |-> 0]
KeyFrame   == Frame
DeltaFrame == [Frame EXCEPT !.delta = TRUE]
Marked     == [DeltaFrame EXCEPT !.discont = TRUE]
SyncFrame  == [Frame EXCEPT !.sync = TRUE]
LargeFrame == [Frame EXCEPT !.events = 2, !.duration = 2]

EmptyFrame == [DeltaFrame EXCEPT !.events = 0]

MCKinds == {KeyFrame, DeltaFrame, Marked, SyncFrame, LargeFrame}

FewKinds == {KeyFrame, DeltaFrame}

OddKinds == {KeyFrame, DeltaFrame, SyncFrame, EmptyFrame}

MCSettings ==
  {[min |-> 1, max |-> 2, seal |-> FALSE], [min |-> 2, max |-> 2, seal |-> TRUE],
   [min |-> 2, max |-> 1, seal |-> FALSE]}

OneSetting == {[min |-> 1, max |-> 1, seal |-> FALSE]}

=============================================================================
