------------------------------- MODULE Viewers -------------------------------
(***************************************************************************)
(* Those that play a video stream while it is written and truncated: an    *)
(* application with pravegasrc, the video player, the longevity test, and  *)
(* a browser with pravega-video-server.  None of them changes the stream,  *)
(* so that they cannot disturb each other; a behaviour follows one of      *)
(* them, its viewer.                                                       *)
(***************************************************************************)
EXTENDS VideoPlayer, StreamChecker, VideoServer

VARIABLE viewer

vars == <<liveVars, srcVars, slider, validator, serverVars, viewer>>

TypeOK ==
  /\ LiveTypeOK
  /\ SrcTypeOK
  /\ PlayerTypeOK
  /\ CheckerTypeOK
  /\ ServerTypeOK

Init ==
  /\ LiveInit
  /\ SrcInit
  /\ PlayerInit
  /\ CheckerInit
  /\ ServerInit
  /\ viewer \in {"src", "player", "checker", "server"}

Next ==
  /\ UNCHANGED viewer
  /\ \/ LiveNext /\ UNCHANGED <<srcVars, slider, validator, serverVars>>
     \/ /\ viewer = "src" /\ SrcNext
        /\ UNCHANGED <<liveVars, slider, validator, serverVars>>
     \/ /\ viewer = "player" /\ PlayerNext
        /\ UNCHANGED <<liveVars, validator, serverVars>>
     \/ /\ viewer = "checker" /\ CheckerNext
        /\ UNCHANGED <<liveVars, slider, serverVars>>
     \/ /\ viewer = "server" /\ ServerNext
        /\ UNCHANGED <<liveVars, srcVars, slider, validator>>

UsesElement == viewer # "server"

(***************************************************************************)
(* The threads of the element, and the thread of each request, go on when  *)
(* they can.  Nothing is assumed of the writer, of truncation, or of what  *)
(* the application, the user or the browser asks for.                      *)
(***************************************************************************)
Fairness ==
  /\ WF_elementVars(UsesElement /\ Starting)
  /\ WF_elementVars(UsesElement /\ (Seeking \/ Creating \/ Stop))
  /\ WF_elementVars(UsesElement /\ ReadQuery)
  /\ WF_serverVars(viewer = "server" /\ MakePlaylist)
  /\ WF_serverVars(viewer = "server" /\ MakeMedia)

Spec == Init /\ [][Next]_vars /\ Fairness

==============================================================================
