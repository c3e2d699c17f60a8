------------------------------ MODULE MCCapture ------------------------------
(* A small instance of Capture, in seconds: 1970 is at 40, the clock wraps   *)
(* at 64, and a correction adds 2.                                           *)
EXTENDS Capture

(* A camera whose timestamps may be missing, near zero, or go back. *)
Ntp == [mode |-> "ntp", start |-> 0, inputs |-> {NoTime, 5, 20, 45, 46, 48, 52}]

(* The same times in TAI, as pravegasrc gives them. *)
Tai == [mode |-> "tai", start |-> 0, inputs |-> {NoTime, 0, 8, 9, 11}]

(* A file: a time before that of its first buffer may be before 1970. *)
FromZero == [mode |-> "start-at-fixed-time", start |-> 0, inputs |-> {5, 9, 10, 12}]
FromNow  == [mode |-> "start-at-current-time", start |-> 30, inputs |-> {0, 4, 5, 40}]

MCSettings  == {Ntp, Tai, FromZero, FromNow}
MCNtp == {Ntp}

==============================================================================
