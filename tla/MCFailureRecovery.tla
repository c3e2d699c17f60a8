-------------------------- MODULE MCFailureRecovery --------------------------
(* A small instance of FailureRecovery: a position is recorded at every      *)
(* second frame.                                                             *)
EXTENDS FailureRecovery

CONSTANT NumFrames

MCFrameTimes == [k \in 1 .. NumFrames |-> 2 * k]

(* Every second frame, or only the first. *)
MCDense  == {k \in 1 .. NumFrames : k % 2 = 1}
MCSparse == {1}

(* None, one of each kind, and some in a row; the last frames are good. *)
MCDefectSets == {{}, {2}, {3}, {2, 3}, {3, 4, 5}}
MCDefect     == {{2}}

==============================================================================
