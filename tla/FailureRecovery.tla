--------------------------- MODULE FailureRecovery ---------------------------
(***************************************************************************)
(* The pipeline pravegasrc ! ... ! nvmsgconv ! pravegatc ! nvmsgbroker of  *)
(* deepstream/python_apps/deepstream-pravega-demos/                        *)
(* pravega-to-object-detection-to-pravega.py: for each frame nvmsgbroker   *)
(* hands a message to the protocol adapter.  The process is started again  *)
(* whenever it ends before the end of the input.                           *)
(*                                                                         *)
(* nvmsgbroker is not in this repository.  If its property sync is set it  *)
(* waits for nvds_msgapi_send and fails when that does; otherwise it calls *)
(* nvds_msgapi_send_async and goes on.  The application sets sync=False.   *)
(***************************************************************************)
EXTENDS PravegaTC, ProtocolAdapter

CONSTANT Syncs     (* the values of sync to consider *)

ASSUME MessagesAssumption == Messages = Frames /\ Syncs \subseteq BOOLEAN

VARIABLE sync

vars == <<tcVars, adapterVars, sync>>

TypeOK ==
  /\ TCTypeOK
  /\ AdapterTypeOK
  /\ sync \in Syncs

Init ==
  /\ TCInit
  /\ AdapterInit
  /\ sync \in Syncs

StartPipeline == Start /\ Connect

(* pravegatc pushes a buffer: nvmsgbroker sends its message. *)
PushMessage == Push /\ Send(run.frame)

MessageAccepted ==
  /\ run.step = "pushing" /\ (sync => task[run.frame] = "ok")
  /\ Pushed
  /\ UNCHANGED adapterVars

MessageRejected ==
  /\ sync /\ run.step = "pushing" /\ task[run.frame] = "error"
  /\ PushFails
  /\ UNCHANGED adapterVars

(* A panic cannot leave nvds_msgapi_send, and ends the process. *)
BrokerPanics ==
  /\ sync /\ run.step = "pushing" /\ task[run.frame] = "panicked"
  /\ Abort
  /\ Disconnect
  /\ UNCHANGED <<table, defects, failuresLeft, processed, skipped>>

ExitPipeline == Exit /\ Disconnect

CrashPipeline == Crash /\ Disconnect

BrokerStep(m) == TaskStep(m) /\ UNCHANGED tcVars

TaskFails(m) ==
  /\ CreateStreamFails(m) \/ ReportError(m)
  /\ Failing
  /\ UNCHANGED <<table, run, defects, processed, skipped>>

PipelineStep ==
  \/ StartPipeline
  \/ (Clip \/ DefectFails \/ EndOfStream \/ Record \/ Stop) /\ UNCHANGED adapterVars
  \/ PushMessage \/ MessageAccepted \/ MessageRejected \/ BrokerPanics
  \/ ExitPipeline

Fault ==
  \/ (StartFails \/ PipelineFails \/ RecordFails \/ StopFails) /\ UNCHANGED adapterVars
  \/ CrashPipeline
  \/ \E m \in Frames : TaskFails(m)

Next ==
  /\ \/ PipelineStep
     \/ \E m \in Frames : BrokerStep(m)
     \/ Fault
  /\ UNCHANGED sync

(***************************************************************************)
(* The pipeline goes on, and is started again; so do the tasks of the      *)
(* adapter, which take their locks in the order in which they ask.         *)
(***************************************************************************)
Fairness ==
  /\ WF_<<tcVars, adapterVars>>(PipelineStep)
  /\ \A m \in Frames : WF_adapterVars(BrokerStep(m))

Spec == Init /\ [][Next]_vars /\ Fairness

-----------------------------------------------------------------------------
(***************************************************************************)
(* A position is recorded only when everything before it was processed or  *)
(* skipped on purpose: with sync its message is durable, whatever crashes; *)
(* without, it was handed to the broker.                                   *)
(***************************************************************************)
RecordedIsAccountedFor ==
  \A k \in Frames :
    FrameTimes[k] < table.resume_at =>
      k \in skipped \cup (IF sync THEN stored ELSE processed)

(***************************************************************************)
(* However often the pipeline fails at a defect of the input, recovery     *)
(* skips more and more until it has passed it; the pipeline comes to the   *)
(* end of its input.                                                       *)
(***************************************************************************)
DefectsAreSkipped == <>(run.step = "done")

==============================================================================
