------------------------------ MODULE MCWaits ------------------------------
(***************************************************************************)
(* Threads that wait for one another: the notification event in the ways   *)
(* the driver uses it, and SCSI commands that wait for their shadow copy.  *)
(* The two share no variable; part says which one runs.  Fairness is that  *)
(* of each module, for the part that runs.                                 *)
(***************************************************************************)
EXTENDS NotificationEvent

CONSTANTS Requests, Tasks, Completers, NoTask, NoRequest

VARIABLES
  part,
  strict, where, uses, callback, mine, answer, req, execution, taskRefs, original,
  hooked, shadow, recorded, list, taskQueue, pcTask, copied, asker, taskRc, pcK, of, task,
  early

scsiVars ==
  << strict, where, uses, callback, mine, answer, req, execution, taskRefs, original, hooked,
     shadow, recorded, list, taskQueue, pcTask, copied, asker, taskRc, pcK, of, task, early >>

(* MCShadow explores what a second use of a request, and a second thread   *)
(* that completes, add.                                                    *)
S == INSTANCE ScsiTasks WITH
  TaskLimit <- 1, MaxUses <- 1, Eager <- FALSE, use <- execution

OfEvent(A) == part = "event" /\ A
OfScsi(A)  == part = "scsi" /\ A

WaitsInit ==
  /\ part \in {"event", "scsi"}
  /\ Init /\ S!ScsiInit
  /\ part # "event" => use = "reaper"
  /\ part # "scsi" => strict

WaitsNext ==
  /\ \/ OfEvent(Next) /\ UNCHANGED scsiVars
     \/ OfScsi(S!ScsiNext) /\ UNCHANGED vars
  /\ UNCHANGED part

WaitsSpec ==
  /\ WaitsInit
  /\ [][WaitsNext]_<< part, vars, scsiVars >>
  /\ WF_vars(OfEvent(WaiterStep))
  /\ \A s \in Setters : SF_vars(OfEvent(SetterStep(s)))
  /\ \A r \in Requests :
       WF_scsiVars(OfScsi(S!ExecuteWorks(r))) /\ SF_scsiVars(OfScsi(S!Completes(r)))
  /\ WF_scsiVars(OfScsi(S!WorkerWorks))
  /\ \A k \in Completers : WF_scsiVars(OfScsi(S!CallbackWorks(k)))

CommandReturns == S!CommandReturns
=============================================================================
