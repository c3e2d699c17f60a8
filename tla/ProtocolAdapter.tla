-------------------------- MODULE ProtocolAdapter --------------------------
(***************************************************************************)
(* deepstream/pravega_protocol_adapter/src/lib.rs: the message broker      *)
(* adapter through which nvmsgbroker writes messages to a Pravega event    *)
(* stream.                                                                 *)
(*                                                                         *)
(* nvds_msgapi_send_async spawns a task for each message and returns; the  *)
(* task gets the stream's writer from EventWriterPool, waits for the lock  *)
(* of the writer, keeps it until the event is durable, and calls back.     *)
(* nvds_msgapi_send blocks on a task of the same steps and returns its     *)
(* result.  Two locks order the tasks: that of the pool, which is kept     *)
(* while a stream is created, and that of the writer.                      *)
(*                                                                         *)
(* A broker has one topic, so that there is one stream.                    *)
(***************************************************************************)
EXTENDS Naturals

CONSTANT Messages

VARIABLES
  connected,   (* between nvds_msgapi_connect and nvds_msgapi_disconnect   *)
  task,        (* how far the task of each message has come                *)
  writers,     (* how many writers the pool has made for the stream        *)
  stored       (* the messages that are durable in the stream              *)

adapterVars == <<connected, task, writers, stored>>

InFlight == {"spawned", "creating", "writing"}

TaskSteps == InFlight \cup {"none", "ok", "error", "panicked", "lost"}

AdapterTypeOK ==
  /\ connected \in BOOLEAN
  /\ task \in [Messages -> TaskSteps]
  /\ writers \in Nat
  /\ stored \subseteq Messages

AdapterInit ==
  /\ connected = FALSE
  /\ task = [m \in Messages |-> "none"]
  /\ writers = 0
  /\ stored = {}

Connect ==
  /\ ~connected
  /\ connected' = TRUE
  /\ task' = [m \in Messages |-> "none"]
  /\ writers' = 0
  /\ UNCHANGED stored

(* send and send_async; they differ in who waits for the task. *)
Send(m) ==
  /\ connected
  /\ task[m] \notin InFlight
  /\ task' = [task EXCEPT ![m] = "spawned"]
  /\ UNCHANGED <<connected, writers, stored>>

(* A wrong version: the pool is not locked while a stream is created. *)
PoolIsNeverLocked == TRUE

(* get_or_create keeps the lock of the pool until the writer is in it. *)
PoolIsFree == \A m \in Messages : task[m] # "creating"

WriterIsFree == \A m \in Messages : task[m] # "writing"

CreateStream(m) ==
  /\ task[m] = "spawned"
  /\ PoolIsFree /\ writers = 0
  /\ task' = [task EXCEPT ![m] = "creating"]
  /\ UNCHANGED <<connected, writers, stored>>

InsertWriter(m) ==
  /\ task[m] = "creating"
  /\ writers' = writers + 1
  /\ task' = [task EXCEPT ![m] = "spawned"]
  /\ UNCHANGED <<connected, stored>>

(* The result of create_stream is unwrapped; nobody is called back. *)
CreateStreamFails(m) ==
  /\ task[m] = "creating"
  /\ task' = [task EXCEPT ![m] = "panicked"]
  /\ UNCHANGED <<connected, writers, stored>>

WriteEvent(m) ==
  /\ task[m] = "spawned"
  /\ PoolIsFree /\ writers > 0
  /\ WriterIsFree
  /\ task' = [task EXCEPT ![m] = "writing"]
  /\ UNCHANGED <<connected, writers, stored>>

(* A wrong version: success is reported when the event is under way. *)
ReportEarly(m) ==
  /\ task[m] = "writing"
  /\ task' = [task EXCEPT ![m] = "ok"]
  /\ UNCHANGED <<connected, writers, stored>>

(* The receiver is awaited, then the result goes to the caller. *)
Report(m) ==
  /\ task[m] = "writing"
  /\ stored' = stored \cup {m}
  /\ task' = [task EXCEPT ![m] = "ok"]
  /\ UNCHANGED <<connected, writers>>

(* An event may be durable although its writer reports an error. *)
ReportError(m) ==
  /\ task[m] = "writing"
  /\ stored' \in {stored, stored \cup {m}}
  /\ task' = [task EXCEPT ![m] = "error"]
  /\ UNCHANGED <<connected, writers>>

(***************************************************************************)
(* disconnect frees the client while tasks may still use it, and waits for *)
(* none of them; so does the end of the process.  What was being written   *)
(* may become durable or not.                                              *)
(***************************************************************************)
Disconnect ==
  /\ connected' = FALSE
  /\ task' = [m \in Messages |-> IF task[m] \in InFlight THEN "lost" ELSE task[m]]
  /\ \E written \in SUBSET {m \in Messages : task[m] = "writing"} :
       stored' = stored \cup written
  /\ writers' = 0

TaskStep(m) ==
  \/ CreateStream(m)
  \/ InsertWriter(m)
  \/ WriteEvent(m)
  \/ Report(m)

-----------------------------------------------------------------------------
(***************************************************************************)
(* The pool makes one writer for the stream, although several tasks look   *)
(* for it while the stream is being created: with two, the events of one   *)
(* would overtake those of the other.                                      *)
(***************************************************************************)
OneWriterPerStream == writers <= 1

==============================================================================
