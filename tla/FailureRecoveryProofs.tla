------------------------ MODULE FailureRecoveryProofs ------------------------
(***************************************************************************)
(* What failure recovery promises, for inputs of any length, any defects   *)
(* of them, any number of failures, and any settings of pravegatc.         *)
(***************************************************************************)
EXTENDS FailureRecovery, WellFoundedInduction, TLAPS

-----------------------------------------------------------------------------
(* FirstFrame *)

(* A set of natural numbers that has an upper bound has a maximum. *)
LEMMA MaxIsMaximum ==
  ASSUME NEW n \in Nat, NEW S, S \subseteq 1 .. n, S # {}
  PROVE  Max(S) \in S /\ \A x \in S : x <= Max(S)
<1> DEFINE T == {n - x : x \in S}
           R == OpToRel(<, Nat)
<1>1. PICK t \in T : \A y \in T : ~ (<<y, t>> \in R)
  <2>1. T \subseteq Nat /\ T # {}
    OBVIOUS
  <2>2. IsWellFoundedOn(R, Nat)
    BY NatLessThanWellFounded
  <2> HIDE DEF T, R
  <2> QED BY <2>1, <2>2, WFMin
<1>2. PICK m \in S : t = n - m
  BY <1>1
<1>3. \A x \in S : m >= x
  <2> TAKE x \in S
  <2>1. n - x \in Nat /\ n - m \in Nat
    OBVIOUS
  <2>2. ~ (<<n - x, n - m>> \in R)
    BY <1>1, <1>2
  <2>3. ~ (n - x < n - m)
    BY <2>1, <2>2 DEF OpToRel
  <2> QED BY <2>1, <2>3
<1>4. Max(S) \in S /\ \A x \in S : Max(S) >= x
  BY <1>3 DEF Max
<1> QED BY <1>4

LEMMA FramesAreNumbered ==
  /\ Len(FrameTimes) \in Nat
  /\ Frames = 1 .. Len(FrameTimes)
  /\ 1 \in Frames
  /\ \A k \in Frames : FrameTimes[k] \in Nat \ {0}
<1>1. FrameTimes \in Seq(Nat \ {0}) /\ KeyFrames \subseteq Frames /\ 1 \in KeyFrames
  BY RecoveryAssumption
<1> QED BY <1>1 DEF Frames

(* pravegasrc starts at a frame, and at one that is not too late unless it is
   the first. *)
LEMMA FirstFrameIsBefore ==
  ASSUME NEW time
  PROVE  /\ FirstFrame(time) \in Frames
         /\ FirstFrame(time) = 1 \/ FrameTimes[FirstFrame(time)] <= time
<1> DEFINE before == {k \in KeyFrames : FrameTimes[k] <= time}
<1>1. Len(FrameTimes) \in Nat /\ before \subseteq 1 .. Len(FrameTimes) /\ 1 \in Frames
  <2>1. KeyFrames \subseteq Frames
    BY RecoveryAssumption
  <2> QED BY <2>1, FramesAreNumbered
<1>2. CASE before = {}
  BY <1>1, <1>2 DEF FirstFrame
<1>3. CASE before # {}
  <2>1. Max(before) \in before
    <3> HIDE DEF before
    <3> QED BY <1>1, <1>3, MaxIsMaximum
  <2>2. FirstFrame(time) = Max(before)
    BY <1>3 DEF FirstFrame
  <2> QED BY <1>1, <2>1, <2>2 DEF Frames
<1> QED BY <1>2, <1>3

-----------------------------------------------------------------------------
(* The message broker *)

(* Nobody creates a stream that has a writer, and only one task does. *)
OneCreates ==
  \A m \in Messages :
    task[m] = "creating" =>
      writers = 0 /\ \A n \in Messages : task[n] = "creating" => n = m

(* What a task has reported is durable, though the connection has been closed
   and opened again since. *)
ReportedIsStored == \A m \in Messages : task[m] = "ok" => m \in stored

AdapterInv ==
  /\ task \in [Messages -> TaskSteps]
  /\ writers \in 0 .. 1
  /\ OneCreates
  /\ ReportedIsStored

(* All that can happen to the state of the adapter. *)
AdapterNext ==
  \/ Connect
  \/ \E m \in Messages : Send(m) \/ TaskStep(m) \/ CreateStreamFails(m) \/ ReportError(m)
  \/ Disconnect

LEMMA NextIsAdapterStep == Next => AdapterNext \/ UNCHANGED adapterVars
<1> SUFFICES ASSUME Next PROVE AdapterNext \/ UNCHANGED adapterVars
  OBVIOUS
<1>1. CASE PipelineStep
  <2>1. CASE StartPipeline
    BY <2>1 DEF StartPipeline, AdapterNext
  <2>2. CASE PushMessage
    <3>1. run.frame \in Messages /\ Send(run.frame)
      BY <2>2, MessagesAssumption DEF PushMessage, Push
    <3> QED BY <3>1 DEF AdapterNext
  <2>3. CASE MessageAccepted \/ MessageRejected \/ BrokerPanics \/ ExitPipeline
    BY <2>3 DEF MessageAccepted, MessageRejected, BrokerPanics, ExitPipeline, AdapterNext
  <2> QED BY <1>1, <2>1, <2>2, <2>3 DEF PipelineStep
<1>2. CASE \E m \in Frames : BrokerStep(m)
  BY <1>2, MessagesAssumption DEF BrokerStep, AdapterNext
<1>3. CASE Fault
  BY <1>3, MessagesAssumption DEF Fault, TaskFails, CrashPipeline, AdapterNext
<1> QED BY <1>1, <1>2, <1>3 DEF Next

LEMMA AdapterInvInit == AdapterInit => AdapterInv
BY DEF AdapterInit, AdapterInv, TaskSteps, InFlight, OneCreates, ReportedIsStored

(* The step of one task, from a step of its own to the next. *)
LEMMA TaskStepInv ==
  ASSUME AdapterInv, NEW m \in Messages,
         Send(m) \/ TaskStep(m) \/ CreateStreamFails(m) \/ ReportError(m)
  PROVE  AdapterInv'
<1> USE DEF AdapterInv, TaskSteps, InFlight, OneCreates, ReportedIsStored
<1>1. CASE Send(m)
  BY <1>1 DEF Send
<1>2. CASE CreateStream(m)
  BY <1>2 DEF CreateStream, PoolIsFree
<1>3. CASE InsertWriter(m)
  BY <1>3 DEF InsertWriter
<1>4. CASE WriteEvent(m)
  BY <1>4 DEF WriteEvent
<1>5. CASE Report(m)
  BY <1>5 DEF Report
<1>6. CASE CreateStreamFails(m)
  BY <1>6 DEF CreateStreamFails
<1>7. CASE ReportError(m)
  BY <1>7 DEF ReportError
<1> QED BY <1>1, <1>2, <1>3, <1>4, <1>5, <1>6, <1>7 DEF TaskStep

LEMMA AdapterInvNext == AdapterInv /\ [AdapterNext]_adapterVars => AdapterInv'
<1> SUFFICES ASSUME AdapterInv, [AdapterNext]_adapterVars PROVE AdapterInv'
  OBVIOUS
<1> USE DEF AdapterInv, TaskSteps, InFlight, OneCreates, ReportedIsStored
<1>1. CASE Connect
  BY <1>1 DEF Connect
<1>2. CASE \E m \in Messages :
             Send(m) \/ TaskStep(m) \/ CreateStreamFails(m) \/ ReportError(m)
  BY <1>2, TaskStepInv
<1>3. CASE Disconnect
  BY <1>3 DEF Disconnect
<1>4. CASE UNCHANGED adapterVars
  BY <1>4 DEF adapterVars
<1> QED BY <1>1, <1>2, <1>3, <1>4 DEF AdapterNext

(* However many tasks send at once, and whatever fails, a stream has at most
   one writer per connection. *)
THEOREM OneWriter == Spec => []OneWriterPerStream
<1>1. Init => AdapterInv
  BY AdapterInvInit DEF Init
<1>2. AdapterInv /\ [Next]_vars => AdapterInv'
  <2>1. [Next]_vars => [AdapterNext]_adapterVars
    BY NextIsAdapterStep DEF vars
  <2> QED BY <2>1, AdapterInvNext
<1>3. AdapterInv => OneWriterPerStream
  BY DEF AdapterInv, OneWriterPerStream
<1> QED BY <1>1, <1>2, <1>3, PTL DEF Spec

-----------------------------------------------------------------------------
(* The pipeline *)

(* Nothing is pushed or recorded but a frame. *)
RunInv ==
  /\ table \in [resume_at : Nat, resume_count : Nat]
  /\ run \in [step : RunSteps, frame : 1 .. Len(FrameTimes) + 1,
              from : Nat, final : Nat, last : Nat]
  /\ run.step \in {"pushing", "recording"} => run.frame \in Frames

(* What a run remembers of its last record is what the table holds. *)
ReplayInv ==
  /\ run.step \in {"running", "pushing", "recording"} /\ run.last # None =>
       table.resume_at = run.last + (IF FrameDuration = 0 THEN 1 ELSE FrameDuration)
  /\ run.step = "recording" => run.final = ResumeAt(run.frame)
  /\ ReplayIsBounded

PipelineInv == RunInv /\ ReplayInv

LEMMA DurationsArePositive ==
  FrameDuration \in Nat /\ RecordPeriod \in Nat /\ RecordPeriod > 0
<1>1. FrameDuration \in Nat /\ RecordPeriod \in Nat \ {0}
  BY RecoveryAssumption
<1> QED BY <1>1

LEMMA ResumeAtType ==
  ASSUME NEW k \in Frames
  PROVE  /\ ResumeAt(k) \in Nat /\ ResumeAt(k) > FrameTimes[k]
         /\ \A j \in Frames : FrameTimes[j] < ResumeAt(k) => j <= k
<1>1. /\ FrameDuration \in Nat
      /\ \A i, j \in Frames : i < j => FrameTimes[i] < FrameTimes[j]
  BY RecoveryAssumption
<1>2. ASSUME NEW j \in Frames, FrameTimes[j] < ResumeAt(k), k < j PROVE FALSE
  BY <1>1, <1>2, FramesAreNumbered, FramesDoNotOverlap DEF ResumeAt
<1> QED BY <1>1, <1>2, FramesAreNumbered DEF ResumeAt

LEMMA PipelineInvInit == TCInit => PipelineInv
BY FramesAreNumbered DEF TCInit, PipelineInv, RunInv, ReplayInv, ReplayIsBounded, NoRun,
   NoState, None, RunSteps

(* A pipeline that is not up has recorded nothing, one that goes down will not. *)
LEMMA StepOutInv ==
  ASSUME PipelineInv, table' \in [resume_at : Nat, resume_count : Nat],
         NEW s \in RunSteps \ {"running", "pushing", "recording"},
         run' = [run EXCEPT !.step = s] \/ run' = [NoRun EXCEPT !.step = s]
  PROVE  PipelineInv'
<1>1. NoRun \in [step : RunSteps, frame : 1 .. Len(FrameTimes) + 1,
                 from : Nat, final : Nat, last : Nat]
  BY FramesAreNumbered DEF NoRun, None, RunSteps
<1>2. RunInv' /\ run'.step = s
  BY <1>1 DEF PipelineInv, RunInv
<1> QED BY <1>2 DEF PipelineInv, ReplayInv, ReplayIsBounded

LEMMA StartInv == PipelineInv /\ Start => PipelineInv'
<1> SUFFICES ASSUME PipelineInv, Start PROVE PipelineInv'
  OBVIOUS
<1> USE FramesAreNumbered
    DEF PipelineInv, RunInv, ReplayInv, ReplayIsBounded, NoRun, None, RunSteps
<1>1. CASE table = NoState
  BY <1>1 DEF Start
<1>2. CASE table # NoState
  <2>1. Counted \in [resume_at : Nat, resume_count : Nat]
    BY DEF Counted
  <2> DEFINE frame == FirstFrame(Counted.resume_at + Skip(Counted.resume_count))
  <2>2. frame \in Frames
    BY FirstFrameIsBefore
  <2>3. /\ run'.step = "running" /\ run'.final = None /\ run'.last = None
        /\ run' \in [step : RunSteps, frame : 1 .. Len(FrameTimes) + 1,
                     from : Nat, final : Nat, last : Nat]
    <3> HIDE DEF frame
    <3>1. run' = [NoRun EXCEPT
                    !.step = "running", !.frame = frame,
                    !.from = IF Counted.resume_count <= 1 THEN Counted.resume_at
                                                          ELSE FrameTimes[frame]]
      BY <1>2 DEF Start, Resumed, frame
    <3>2. FrameTimes[frame] \in Nat /\ Counted.resume_at \in Nat
      BY <2>1, <2>2
    <3>3. run' = [step |-> "running", frame |-> frame, final |-> 0, last |-> 0,
                  from |-> IF Counted.resume_count <= 1 THEN Counted.resume_at
                                                        ELSE FrameTimes[frame]]
      BY <3>1
    <3> QED BY <2>2, <3>2, <3>3
  <2>4. table' = Counted
    BY <1>2 DEF Start
  <2> QED BY <2>1, <2>3, <2>4
<1> QED BY <1>1, <1>2

LEMMA PushedInv == PipelineInv /\ Pushed => PipelineInv'
<1> SUFFICES ASSUME PipelineInv, Pushed PROVE PipelineInv'
  OBVIOUS
<1> USE FramesAreNumbered
    DEF PipelineInv, RunInv, ReplayInv, ReplayIsBounded, None, RunSteps
<1>1. run.frame \in Frames /\ ResumeAt(run.frame) \in Nat
  BY ResumeAtType DEF Pushed
<1>2. CASE IsDue
  BY <1>1, <1>2 DEF Pushed
<1>3. CASE ~IsDue
  <2>1. /\ run.last # None /\ run.last \in Nat /\ FrameTimes[run.frame] \in Nat
        /\ run.last + RecordPeriod > FrameTimes[run.frame]
    BY <1>1, <1>3, DurationsArePositive DEF IsDue
  <2>2. table.resume_at = run.last + (IF FrameDuration = 0 THEN 1 ELSE FrameDuration)
    BY <2>1 DEF Pushed
  <2>3. ResumeAt(run.frame) < table.resume_at + RecordPeriod
    <3> DEFINE duration == IF FrameDuration = 0 THEN 1 ELSE FrameDuration
    <3>1. duration \in Nat /\ ResumeAt(run.frame) = FrameTimes[run.frame] + duration
      BY DurationsArePositive DEF ResumeAt
    <3>2. table.resume_at = run.last + duration
      BY <2>2
    <3> HIDE DEF duration
    <3> QED BY <2>1, <3>1, <3>2, DurationsArePositive
  <2>4. /\ run' = [run EXCEPT !.final = ResumeAt(run.frame), !.step = "running",
                              !.frame = run.frame + 1]
        /\ table' = table
    BY <1>3 DEF Pushed
  <2>5. run.frame + 1 \in 1 .. Len(FrameTimes) + 1
    BY <1>1
  <2>6. RunInv'
    BY <1>1, <2>4, <2>5
  <2> QED BY <2>1, <2>2, <2>3, <2>4, <2>6
<1> QED BY <1>2, <1>3

LEMMA RecordInv == PipelineInv /\ Record => PipelineInv'
<1> SUFFICES ASSUME PipelineInv, Record PROVE PipelineInv'
  OBVIOUS
<1> USE FramesAreNumbered
    DEF PipelineInv, RunInv, ReplayInv, ReplayIsBounded, None, RunSteps
<1>1. run.frame \in Frames /\ ResumeAt(run.frame) \in Nat
  BY ResumeAtType DEF Record
<1>2. table' = [resume_at |-> ResumeAt(run.frame), resume_count |-> 0]
  BY DEF Record, Recorded
<1>3. /\ run' = [run EXCEPT !.step = "running", !.frame = run.frame + 1,
                            !.last = FrameTimes[run.frame]]
      /\ run.final = ResumeAt(run.frame)
  BY DEF Record
<1>4. table'.resume_at = run'.last + (IF FrameDuration = 0 THEN 1 ELSE FrameDuration)
  BY <1>1, <1>2, <1>3 DEF ResumeAt
<1>5. run'.final < table'.resume_at + RecordPeriod
  BY <1>1, <1>2, <1>3, DurationsArePositive
<1>6. RunInv'
  <2>1. run.frame + 1 \in 1 .. Len(FrameTimes) + 1 /\ FrameTimes[run.frame] \in Nat
    BY <1>1
  <2> QED BY <1>1, <1>2, <1>3, <2>1
<1>7. run'.step = "running"
  BY <1>3
<1> QED BY <1>4, <1>5, <1>6, <1>7

LEMMA PipelineInvNext == PipelineInv /\ [Next]_vars => PipelineInv'
<1> SUFFICES ASSUME PipelineInv, [Next]_vars PROVE PipelineInv'
  OBVIOUS
<1>1. ResumeAt(run.frame) \in Nat \/ run.step \notin {"pushing", "recording"}
  BY ResumeAtType DEF PipelineInv, RunInv
<1>2. ASSUME NEW time \in Nat PROVE Recorded(time) \in [resume_at : Nat, resume_count : Nat]
  BY DEF Recorded
<1>3. ASSUME UNCHANGED <<table, run>> PROVE PipelineInv'
  BY <1>3 DEF PipelineInv, RunInv, ReplayInv, ReplayIsBounded
<1>4. CASE PipelineStep
  <2>1. CASE StartPipeline
    BY <2>1, StartInv DEF StartPipeline
  <2>2. CASE Clip
    <3>1. run.frame + 1 \in 1 .. Len(FrameTimes) + 1
      BY <2>2, FramesAreNumbered DEF Clip
    <3>2. /\ table' = table /\ run.step = "running"
          /\ run' = [run EXCEPT !.frame = run.frame + 1]
      BY <2>2 DEF Clip
    <3>3. RunInv'
      BY <3>1, <3>2 DEF PipelineInv, RunInv
    <3>4. /\ run'.step = "running" /\ run'.last = run.last /\ run'.final = run.final
      BY <3>2 DEF PipelineInv, RunInv
    <3>5. ReplayInv'
      BY <3>2, <3>4 DEF PipelineInv, ReplayInv, ReplayIsBounded
    <3> QED BY <3>3, <3>5 DEF PipelineInv
  <2>3. CASE DefectFails \/ MessageRejected
    BY <2>3, StepOutInv DEF DefectFails, MessageRejected, PushFails, PipelineInv, RunInv, RunSteps
  <2>4. CASE EndOfStream
    BY <2>4, StepOutInv DEF EndOfStream, PipelineInv, RunInv, RunSteps
  <2>5. CASE Record
    BY <2>5, RecordInv
  <2>6. CASE Stop
    <3>1. table' \in [resume_at : Nat, resume_count : Nat]
      BY <1>2, <2>6 DEF Stop, PipelineInv, RunInv
    <3>2. PICK s \in {"failed", "ended"} : run' = [run EXCEPT !.step = s]
      BY <2>6 DEF Stop, Left
    <3> QED BY <3>1, <3>2, StepOutInv DEF RunSteps
  <2>7. CASE PushMessage
    <3>1. /\ table' = table /\ run.step = "running" /\ run.frame \in Frames
          /\ run' = [run EXCEPT !.step = "pushing"]
      BY <2>7 DEF PushMessage, Push
    <3>2. RunInv'
      BY <3>1 DEF PipelineInv, RunInv, RunSteps
    <3>3. /\ run'.step = "pushing" /\ run'.last = run.last /\ run'.final = run.final
      BY <3>1 DEF PipelineInv, RunInv
    <3>4. ReplayInv'
      BY <3>1, <3>3 DEF PipelineInv, ReplayInv, ReplayIsBounded
    <3> QED BY <3>2, <3>4 DEF PipelineInv
  <2>8. CASE MessageAccepted
    BY <2>8, PushedInv DEF MessageAccepted
  <2>9. CASE BrokerPanics \/ ExitPipeline
    <3>1. table' = table
      BY <2>9 DEF BrokerPanics, ExitPipeline, Exit
    <3>2. PICK s \in {"down", "done"} : run' = [NoRun EXCEPT !.step = s]
      BY <2>9 DEF BrokerPanics, ExitPipeline, Exit, Abort, NoRun
    <3> QED BY <3>1, <3>2, StepOutInv DEF PipelineInv, RunInv, RunSteps
  <2> QED BY <1>4, <2>1, <2>2, <2>3, <2>4, <2>5, <2>6, <2>7, <2>8, <2>9 DEF PipelineStep
<1>5. CASE \E m \in Frames : BrokerStep(m)
  BY <1>3, <1>5 DEF BrokerStep, tcVars
<1>6. CASE Fault
  <2>1. CASE StartFails
    <3>1. table' \in [resume_at : Nat, resume_count : Nat]
      BY <2>1 DEF StartFails, Counted, PipelineInv, RunInv
    <3>2. run' = [run EXCEPT !.step = "down"]
      BY <2>1 DEF StartFails, PipelineInv, RunInv
    <3> QED BY <3>1, <3>2, StepOutInv DEF RunSteps
  <2>2. CASE PipelineFails
    BY <2>2, StepOutInv DEF PipelineFails, PipelineInv, RunInv, RunSteps
  <2>3. CASE RecordFails
    <3>1. table' \in [resume_at : Nat, resume_count : Nat]
      BY <1>1, <1>2, <2>3 DEF RecordFails, PipelineInv, RunInv
    <3> QED BY <2>3, <3>1, StepOutInv DEF RecordFails, RunSteps
  <2>4. CASE StopFails
    <3>1. table' \in [resume_at : Nat, resume_count : Nat]
      BY <1>2, <2>4 DEF StopFails, PipelineInv, RunInv
    <3>2. PICK s \in {"failed", "ended"} : run' = [run EXCEPT !.step = s]
      BY <2>4 DEF StopFails, Left
    <3> QED BY <3>1, <3>2, StepOutInv DEF RunSteps
  <2>5. CASE CrashPipeline
    <3>1. table' = table /\ run' = [NoRun EXCEPT !.step = "down"]
      BY <2>5 DEF CrashPipeline, Crash, Abort, NoRun
    <3> QED BY <3>1, StepOutInv DEF PipelineInv, RunInv, RunSteps
  <2>6. CASE \E m \in Frames : TaskFails(m)
    BY <1>3, <2>6 DEF TaskFails
  <2> QED BY <1>6, <2>1, <2>2, <2>3, <2>4, <2>5, <2>6 DEF Fault
<1>7. CASE UNCHANGED vars
  BY <1>3, <1>7 DEF vars, tcVars
<1> QED BY <1>4, <1>5, <1>6, <1>7 DEF Next

(* Whatever has failed before, what would be repeated if the process ended now
   is less than record_period. *)
THEOREM BoundedReplay == Spec => []ReplayIsBounded
<1>1. Init => PipelineInv
  BY PipelineInvInit DEF Init
<1>2. PipelineInv => ReplayIsBounded
  BY DEF PipelineInv, ReplayInv
<1> QED BY <1>1, <1>2, PipelineInvNext, PTL DEF Spec

-----------------------------------------------------------------------------
(* What is recorded *)

AccountedFor == skipped \cup (IF sync THEN stored ELSE processed)

AccountedBefore(time) == \A k \in Frames : FrameTimes[k] < time => k \in AccountedFor

(* The position is not only that in the table: what the run has come to will be
   recorded when it stops, and where its segment begins nothing is repeated. *)
AccountedInv ==
  /\ AccountedBefore(table.resume_at)
  /\ AccountedBefore(run.from)
  /\ AccountedBefore(run.final)
  /\ \A k \in Frames : k < run.frame => k \in AccountedFor
  /\ run.step = "recording" => run.frame \in AccountedFor

RecoveryInv == AdapterInv /\ PipelineInv /\ AccountedInv

LEMMA AdapterStepStores ==
  ASSUME [AdapterNext]_adapterVars PROVE stored \subseteq stored'
<1>1. CASE \E m \in Messages :
             Send(m) \/ TaskStep(m) \/ CreateStreamFails(m) \/ ReportError(m)
  BY <1>1 DEF Send, TaskStep, CreateStream, InsertWriter, WriteEvent, Report,
              CreateStreamFails, ReportError
<1>2. CASE Connect \/ Disconnect
  BY <1>2 DEF Connect, Disconnect
<1>3. CASE UNCHANGED adapterVars
  BY <1>3 DEF adapterVars
<1> QED BY <1>1, <1>2, <1>3 DEF AdapterNext

(* No step takes back what was accounted for. *)
LEMMA AccountedForGrows ==
  ASSUME [Next]_vars PROVE AccountedFor \subseteq AccountedFor'
<1>1. stored \subseteq stored'
  BY NextIsAdapterStep, AdapterStepStores DEF vars
<1>2. sync' = sync
  BY DEF Next, vars
<1>3. processed \subseteq processed' /\ skipped \subseteq skipped'
  <2>1. CASE PipelineStep
    BY <2>1 DEF PipelineStep, StartPipeline, Start, Clip, DefectFails, EndOfStream, Record,
                Stop, PushMessage, Push, MessageAccepted, Pushed, MessageRejected,
                PushFails, BrokerPanics, ExitPipeline, Exit
  <2>2. CASE \E m \in Frames : BrokerStep(m)
    BY <2>2 DEF BrokerStep, tcVars
  <2>3. CASE Fault
    BY <2>3 DEF Fault, StartFails, PipelineFails, RecordFails, StopFails, CrashPipeline,
                Crash, TaskFails
  <2>4. CASE UNCHANGED vars
    BY <2>4 DEF vars, tcVars
  <2> QED BY <2>1, <2>2, <2>3, <2>4 DEF Next
<1> QED BY <1>1, <1>2, <1>3 DEF AccountedFor

LEMMA AccountedInvInit == Init => AccountedInv
BY FramesAreNumbered DEF Init, TCInit, AccountedInv, AccountedBefore, NoState, NoRun, None

(* A step that moves no position. *)
LEMMA NothingMoves ==
  ASSUME AccountedInv, [Next]_vars,
         table'.resume_at \in {table.resume_at, run.final},
         run'.from = run.from, run'.final = run.final, run'.frame = run.frame,
         run'.step # "recording"
  PROVE  AccountedInv'
BY AccountedForGrows DEF AccountedInv, AccountedBefore

(* A run that ends is forgotten. *)
LEMMA RunEnds ==
  ASSUME AccountedInv, [Next]_vars, table' = table,
         NEW s \in {"down", "done"}, run' = [NoRun EXCEPT !.step = s]
  PROVE  AccountedInv'
BY AccountedForGrows, FramesAreNumbered DEF AccountedInv, AccountedBefore, NoRun, None

LEMMA StartAccounts ==
  ASSUME PipelineInv, AccountedInv, [Next]_vars, Start
  PROVE  AccountedInv'
<1> USE AccountedForGrows, FramesAreNumbered DEF AccountedInv, AccountedBefore
<1>1. CASE table = NoState
  BY <1>1 DEF Start, NoRun, None
<1>2. CASE table # NoState
  <2> DEFINE frame == FirstFrame(Counted.resume_at + Skip(Counted.resume_count))
             from == IF Counted.resume_count <= 1 THEN Counted.resume_at
                                                  ELSE FrameTimes[frame]
  <2>1. /\ table'.resume_at = table.resume_at
        /\ table.resume_at \in Nat
        /\ Counted.resume_at = table.resume_at
    BY <1>2 DEF Start, Counted, PipelineInv, RunInv
  <2>2. /\ frame \in Frames
        /\ frame = 1 \/ FrameTimes[frame] <= Counted.resume_at + Skip(Counted.resume_count)
    BY FirstFrameIsBefore
  <2>3. frame = 1 \/ FrameTimes[frame] <= from
    <3>1. CASE Counted.resume_count <= 1
      <4>1. Skip(Counted.resume_count) = 0
        BY <3>1 DEF Skip
      <4> QED BY <2>1, <2>2, <3>1, <4>1
    <3>2. CASE ~(Counted.resume_count <= 1)
      BY <2>2, <3>2
    <3> QED BY <3>1, <3>2
  <2>4. from \in Nat
    BY <2>1, <2>2
  <2>5. /\ run'.from = from /\ run'.frame = frame
        /\ run'.final = 0 /\ run'.step = "running"
    BY <1>2 DEF Start, Resumed, NoRun, None
  <2>6. skipped' = skipped \cup {k \in Frames : FrameTimes[k] \in table.resume_at .. from - 1}
    BY <1>2, <2>5 DEF Start
  <2> HIDE DEF frame, from
  <2>7. ASSUME NEW k \in Frames, FrameTimes[k] < from PROVE k \in AccountedFor'
    <3>1. CASE FrameTimes[k] < table.resume_at
      BY <3>1
    <3>2. CASE ~(FrameTimes[k] < table.resume_at)
      BY <2>1, <2>4, <2>6, <2>7, <3>2 DEF AccountedFor
    <3> QED BY <3>1, <3>2
  <2>8. ASSUME NEW k \in Frames, k < frame PROVE k \in AccountedFor'
    <3>1. FrameTimes[k] < FrameTimes[frame]
      BY <2>2, <2>8, RecoveryAssumption
    <3>2. FrameTimes[k] < from
      BY <2>2, <2>3, <2>4, <2>8, <3>1
    <3> QED BY <2>7, <3>2
  <2> QED BY <2>1, <2>5, <2>7, <2>8
<1> QED BY <1>1, <1>2

(* With sync, what the broker has accepted is in the stream. *)
LEMMA PushedAccounts ==
  ASSUME AdapterInv, PipelineInv, AccountedInv, [Next]_vars, MessageAccepted
  PROVE  AccountedInv'
<1>1. run.frame \in Frames /\ run.frame \in Nat
  BY FramesAreNumbered DEF MessageAccepted, PipelineInv, RunInv
<1>2. run.frame \in AccountedFor'
  <2>1. CASE sync
    <3>1. run.frame \in stored
      BY <1>1, <2>1, MessagesAssumption DEF MessageAccepted, AdapterInv, ReportedIsStored
    <3>2. stored' = stored /\ (sync' <=> sync)
      BY DEF MessageAccepted, adapterVars, Next, vars
    <3> QED BY <2>1, <3>1, <3>2 DEF AccountedFor
  <2>2. CASE ~sync
    <3>1. run.frame \in processed'
      BY DEF MessageAccepted, Pushed
    <3>2. sync' <=> sync
      BY DEF Next, vars
    <3> QED BY <2>2, <3>1, <3>2 DEF AccountedFor
  <2> QED BY <2>1, <2>2
<1>3. ASSUME NEW k \in Frames, k <= run.frame PROVE k \in AccountedFor'
  BY <1>1, <1>2, <1>3, AccountedForGrows, FramesAreNumbered DEF AccountedInv
<1>4. /\ table' = table /\ run'.from = run.from /\ run'.final = ResumeAt(run.frame)
      /\ \/ run'.frame = run.frame
         \/ run'.frame = run.frame + 1 /\ run'.step = "running"
  BY DEF MessageAccepted, Pushed, PipelineInv, RunInv
<1>5. ASSUME NEW k \in Frames, FrameTimes[k] < ResumeAt(run.frame) PROVE k \in AccountedFor'
  BY <1>1, <1>3, <1>5, ResumeAtType
<1>6. ASSUME NEW k \in Frames, k < run'.frame PROVE k \in AccountedFor'
  BY <1>1, <1>3, <1>4, <1>6, FramesAreNumbered
<1>7. AccountedBefore(table.resume_at)' /\ AccountedBefore(run.from)'
  BY <1>4, AccountedForGrows DEF AccountedInv, AccountedBefore
<1>8. AccountedBefore(run.final)'
  BY <1>4, <1>5 DEF AccountedBefore
<1> QED BY <1>2, <1>4, <1>6, <1>7, <1>8 DEF AccountedInv

(* The frame whose position is recorded, or may have been, was pushed. *)
LEMMA RecordAccounts ==
  ASSUME PipelineInv, AccountedInv, [Next]_vars, Record \/ RecordFails
  PROVE  AccountedInv'
<1>1. run.frame \in Frames /\ run.frame \in Nat /\ run.step = "recording"
  BY FramesAreNumbered DEF Record, RecordFails, PipelineInv, RunInv
<1>2. ASSUME NEW k \in Frames, k <= run.frame PROVE k \in AccountedFor'
  BY <1>1, <1>2, AccountedForGrows, FramesAreNumbered DEF AccountedInv
<1>3. /\ table'.resume_at \in {table.resume_at, ResumeAt(run.frame)}
      /\ run'.from = run.from /\ run'.final = run.final
      /\ run'.frame \in {run.frame, run.frame + 1} /\ run'.step # "recording"
  <2>1. table' \in {table, Recorded(ResumeAt(run.frame))}
    BY DEF Record, RecordFails
  <2>2. \/ run' = [run EXCEPT !.step = "failing"]
        \/ run' = [run EXCEPT !.step = "running", !.frame = @ + 1,
                              !.last = FrameTimes[run.frame]]
    BY DEF Record, RecordFails
  <2>3. table'.resume_at \in {table.resume_at, ResumeAt(run.frame)}
    BY <2>1 DEF Recorded
  <2>4. /\ run'.from = run.from /\ run'.final = run.final
        /\ run'.frame \in {run.frame, run.frame + 1} /\ run'.step # "recording"
    BY <2>2 DEF PipelineInv, RunInv
  <2> QED BY <2>3, <2>4
<1>4. ASSUME NEW k \in Frames, FrameTimes[k] < ResumeAt(run.frame) PROVE k \in AccountedFor'
  BY <1>1, <1>2, <1>4, ResumeAtType
<1>5. ASSUME NEW k \in Frames, k < run'.frame PROVE k \in AccountedFor'
  BY <1>1, <1>2, <1>3, <1>5, FramesAreNumbered
<1>6. AccountedBefore(table.resume_at)'
  BY <1>3, <1>4, AccountedForGrows DEF AccountedInv, AccountedBefore
<1>7. AccountedBefore(run.from)' /\ AccountedBefore(run.final)'
  BY <1>3, AccountedForGrows DEF AccountedInv, AccountedBefore
<1> QED BY <1>3, <1>5, <1>6, <1>7 DEF AccountedInv

LEMMA AccountedInvNext ==
  AdapterInv /\ PipelineInv /\ AccountedInv /\ [Next]_vars => AccountedInv'
<1> SUFFICES ASSUME AdapterInv, PipelineInv, AccountedInv, [Next]_vars PROVE AccountedInv'
  OBVIOUS
<1>1. ASSUME UNCHANGED <<table, run>> PROVE AccountedInv'
  BY <1>1, AccountedForGrows DEF AccountedInv, AccountedBefore
<1>2. CASE PipelineStep
  <2>1. CASE StartPipeline
    BY <2>1, StartAccounts DEF StartPipeline
  <2>2. CASE Clip
    <3>1. run.frame \in Frames /\ run.frame \in Nat /\ run.frame \in AccountedFor
      BY <2>2, FramesAreNumbered DEF Clip, AccountedInv, AccountedBefore
    <3>2. /\ table' = table /\ run'.from = run.from /\ run'.final = run.final
          /\ run'.frame = run.frame + 1 /\ run'.step = "running"
      BY <2>2 DEF Clip, PipelineInv, RunInv
    <3> QED BY <3>1, <3>2, AccountedForGrows, FramesAreNumbered
            DEF AccountedInv, AccountedBefore
  <2>3. CASE DefectFails \/ EndOfStream \/ PushMessage \/ MessageRejected \/ Stop
    <3>1. table'.resume_at \in {table.resume_at, run.final}
      BY <2>3 DEF DefectFails, EndOfStream, PushMessage, Push, MessageRejected, PushFails,
                  Stop, Recorded
    <3>2. /\ run'.from = run.from /\ run'.final = run.final /\ run'.frame = run.frame
          /\ run'.step # "recording"
      BY <2>3 DEF DefectFails, EndOfStream, PushMessage, Push, MessageRejected, PushFails,
                  Stop, Left, Stopping, PipelineInv, RunInv
    <3> QED BY <3>1, <3>2, NothingMoves
  <2>4. CASE Record
    BY <2>4, RecordAccounts
  <2>5. CASE MessageAccepted
    BY <2>5, PushedAccounts
  <2>6. CASE BrokerPanics \/ ExitPipeline
    <3>1. table' = table
      BY <2>6 DEF BrokerPanics, ExitPipeline, Exit
    <3>2. PICK s \in {"down", "done"} : run' = [NoRun EXCEPT !.step = s]
      BY <2>6 DEF BrokerPanics, ExitPipeline, Exit, Abort, NoRun
    <3> QED BY <3>1, <3>2, RunEnds
  <2> QED BY <1>2, <2>1, <2>2, <2>3, <2>4, <2>5, <2>6 DEF PipelineStep
<1>3. CASE \E m \in Frames : BrokerStep(m)
  BY <1>1, <1>3 DEF BrokerStep, tcVars
<1>4. CASE Fault
  <2>1. CASE StartFails \/ PipelineFails \/ StopFails
    <3>1. table'.resume_at \in {table.resume_at, run.final}
      BY <2>1 DEF StartFails, PipelineFails, StopFails, Counted, Recorded, PipelineInv, RunInv
    <3>2. /\ run'.from = run.from /\ run'.final = run.final /\ run'.frame = run.frame
          /\ run'.step # "recording"
      BY <2>1 DEF StartFails, PipelineFails, StopFails, Left, Stopping, PipelineInv, RunInv
    <3> QED BY <3>1, <3>2, NothingMoves
  <2>2. CASE RecordFails
    BY <2>2, RecordAccounts
  <2>3. CASE CrashPipeline
    <3>1. table' = table /\ run' = [NoRun EXCEPT !.step = "down"]
      BY <2>3 DEF CrashPipeline, Crash, Abort, NoRun
    <3> QED BY <3>1, RunEnds
  <2>4. CASE \E m \in Frames : TaskFails(m)
    BY <1>1, <2>4 DEF TaskFails
  <2> QED BY <1>4, <2>1, <2>2, <2>3, <2>4 DEF Fault
<1>5. CASE UNCHANGED vars
  BY <1>1, <1>5 DEF vars, tcVars
<1> QED BY <1>2, <1>3, <1>4, <1>5 DEF Next

(* Nothing is lost by resuming: before the position that is recorded every frame
   was processed, durably if the broker waits, or skipped for a defect. *)
THEOREM NothingIsLost == Spec => []RecordedIsAccountedFor
<1>1. Init => RecoveryInv
  BY AdapterInvInit, PipelineInvInit, AccountedInvInit DEF Init, RecoveryInv
<1>2. RecoveryInv /\ [Next]_vars => RecoveryInv'
  <2>1. [Next]_vars => [AdapterNext]_adapterVars
    BY NextIsAdapterStep DEF vars
  <2> QED BY <2>1, AdapterInvNext, PipelineInvNext, AccountedInvNext DEF RecoveryInv
<1>3. RecoveryInv => RecordedIsAccountedFor
  BY DEF RecoveryInv, AccountedInv, AccountedBefore, AccountedFor, RecordedIsAccountedFor
<1> QED BY <1>1, <1>2, <1>3, PTL DEF Spec

==============================================================================
