----------------------------- MODULE ScsiTasks -----------------------------
(***************************************************************************)
(* SCSI commands of a CD or DVD burner on their way through the driver:    *)
(* DldIOSCSIProtocolInterface::ExecuteCommand refuses a command, lets it   *)
(* pass, or has it shadowed first.  To report the result of a shadowed     *)
(* command its completion callback is replaced; a DldSCSITask in a list    *)
(* remembers the owner's callback and the outcome of the shadowing.        *)
(*                                                                         *)
(* The owner of a request executes it any number of times.  A thread of    *)
(* the owner runs ExecuteCommand, the worker of DldIOShadow copies the     *)
(* data, and the thread that completes the command runs the callback; the  *)
(* last is a `completer' here, also when ExecuteCommand itself completes   *)
(* the command as denied.  Steps under the lock of the list and each       *)
(* change of an object are atomic.                                         *)
(*                                                                         *)
(* An operator that stands before a definition and has its name with a     *)
(* word more is that definition with a plausible mistake; the properties   *)
(* are tried on them.                                                      *)
(***************************************************************************)
EXTENDS Integers, SequencesExt

CONSTANTS
  Requests,   (* the SCSITask objects of the owners                        *)
  Tasks,      (* memory for DldSCSITask objects                            *)
  Completers, (* threads that run completion callbacks                     *)
  TaskLimit,  (* how many requests the queue of the worker can take        *)
  MaxUses,    (* bound: how often a request is executed                    *)
  Eager,      (* an owner may execute a request again as soon as its       *)
              (* callback was called, and need not wait for its return     *)
  NoTask, NoRequest

ASSUME ScsiAssumption ==
  /\ NoTask \notin Tasks /\ NoRequest \notin Requests
  /\ TaskLimit \in Nat /\ MaxUses \in Nat \ {0} /\ Eager \in BOOLEAN

VARIABLES
  strict,   (* rigid: disableOnShadowErrors, shadowing is synchronous      *)
  where,    (* where the current execution of a request is                 *)
  uses,     (* how often a request was executed                            *)
  early,    (* history: a request was executed again before the callback   *)
            (* of its last execution had returned                          *)
  callback, (* whose completion callback it has: "owner" or "hook"         *)
  mine,     (* dldRequest of the thread that executes it                   *)
  answer,   (* shadowCompletionRC of that thread                           *)
  req, use, (* of a task: its request, and which execution of it           *)
  taskRefs, (* the reference count                                         *)
  original, (* originalCompletionCallback                                  *)
  hooked,   (* completionHooked                                            *)
  shadow,   (* its completion event and shadowStatus: "pending" until the  *)
            (* event is set, then "ok" or "failed"                         *)
  recorded, (* how many completion records were written for it             *)
  list,     (* gSCSITaskListHead                                           *)
  taskQueue, (* the tasks the worker will process                          *)
  pcTask, copied, (* the worker,                                           *)
  asker, taskRc, (* the request it works for, and the RC of it             *)
  pcK, of, task (* a completer: its place, its request and its task        *)

requestVars == << strict, where, uses, early, callback, mine, answer >>
taskVars    == << req, use, taskRefs, original, hooked, shadow, recorded, list >>
workerVars  == << taskQueue, pcTask, copied, asker, taskRc >>
frameVars   == << pcK, of, task >>
scsiVars == << requestVars, taskVars, workerVars, frameVars >>

At(r, place) == where' = [where EXCEPT ![r] = place]
CallbackGoTo(k, place) == pcK' = [pcK EXCEPT ![k] = place]
Live(d) == req[d] # NoRequest
Without(d) == RemoveAt(list, CHOOSE i \in DOMAIN list : list[i] = d)

ScsiInit ==
  /\ strict \in BOOLEAN
  /\ where = [r \in Requests |-> "owner"] /\ uses = [r \in Requests |-> 0]
  /\ early = FALSE
  /\ callback = [r \in Requests |-> "owner"]
  /\ mine = [r \in Requests |-> NoTask] /\ answer = [r \in Requests |-> "none"]
  /\ req = [d \in Tasks |-> NoRequest] /\ use = [d \in Tasks |-> 0]
  /\ taskRefs = [d \in Tasks |-> 0] /\ original = [d \in Tasks |-> "none"]
  /\ hooked = [d \in Tasks |-> FALSE] /\ shadow = [d \in Tasks |-> "pending"]
  /\ recorded = [d \in Tasks |-> 0]
  /\ list = << >> /\ taskQueue = << >> /\ pcTask = "idle" /\ copied = NoTask
  /\ asker = NoRequest /\ taskRc = "none"
  /\ pcK = [k \in Completers |-> "idle"] /\ of = [k \in Completers |-> NoRequest]
  /\ task = [k \in Completers |-> NoTask]

----------------------------------------------------------------------------
(* ExecuteCommand and shadowSCSIOperation *)

(* The ACLs disable the command, let it pass, or have it shadowed.         *)
Execute(r) ==
  /\ where[r] = "owner" /\ uses[r] < MaxUses
  /\ Eager \/ \A k \in Completers : of[k] # r
  /\ uses' = [uses EXCEPT ![r] = @ + 1]
  /\ early' = (early \/ \E k \in Completers : of[k] = r)
  /\ answer' = [answer EXCEPT ![r] = "none"]
  /\ \E place \in {"deny", "device", "create"} : At(r, place)
  /\ UNCHANGED << strict, callback, mine, taskVars, workerVars, frameVars >>

(* withSCSITaskIdentifier: the task is put at the end of the list.         *)
Create(r) ==
  /\ where[r] = "create"
  /\ \E d \in {e \in Tasks : ~Live(e)} :
       /\ req' = [req EXCEPT ![d] = r] /\ use' = [use EXCEPT ![d] = uses[r]]
       /\ taskRefs' = [taskRefs EXCEPT ![d] = 1]
       /\ original' = [original EXCEPT ![d] = "none"]
       /\ hooked' = [hooked EXCEPT ![d] = FALSE]
       /\ shadow' = [shadow EXCEPT ![d] = "pending"]
       /\ recorded' = [recorded EXCEPT ![d] = 0]
       /\ list' = Append(list, d)
       /\ mine' = [mine EXCEPT ![r] = d]
  /\ At(r, "hook")
  /\ UNCHANGED << strict, uses, early, callback, answer, workerVars, frameVars >>

(* A step of the preparation failed: the task is freed (release to zero,   *)
(* free), and the first phase of the shadowing has failed.                 *)
Discard(r) ==
  /\ req' = [req EXCEPT ![mine[r]] = NoRequest]
  /\ taskRefs' = [taskRefs EXCEPT ![mine[r]] = 0]
  /\ list' = Without(mine[r])
  /\ mine' = [mine EXCEPT ![r] = NoTask]
  /\ answer' = [answer EXCEPT ![r] = "failed"]
  /\ At(r, "decide")
  /\ UNCHANGED << strict, uses, early, use, original, hooked, shadow, recorded, frameVars >>

(* The data cannot be wired, or the descriptor is not for output.          *)
FailToWire(r) ==
  /\ where[r] = "hook"
  /\ Discard(r)
  /\ UNCHANGED << callback, workerVars >>

SetHook(r) ==
  /\ where[r] = "hook"
  /\ original' = [original EXCEPT ![mine[r]] = callback[r]]
  /\ callback' = [callback EXCEPT ![r] = "hook"]
  /\ hooked' = [hooked EXCEPT ![mine[r]] = TRUE]
  /\ At(r, "enqueue")
  /\ UNCHANGED << strict, uses, early, mine, answer, req, use, taskRefs, shadow, recorded,
                  list, workerVars, frameVars >>

EnqueueTask(r) ==
  /\ where[r] = "enqueue" /\ Len(taskQueue) < TaskLimit
  /\ taskQueue' = Append(taskQueue, mine[r])
  /\ mine' = [mine EXCEPT ![r] = NoTask]
  /\ IF strict
     THEN At(r, "wait") /\ UNCHANGED answer
     ELSE At(r, "decide") /\ answer' = [answer EXCEPT ![r] = "ok"]
  /\ UNCHANGED << strict, uses, early, callback, taskVars, pcTask, copied, asker, taskRc,
                  frameVars >>

QueueFullStillHooked(r) ==
  /\ where[r] = "enqueue" /\ Len(taskQueue) >= TaskLimit
  /\ Discard(r)
  /\ UNCHANGED << callback, workerVars >>
QueueFull(r) ==
  /\ where[r] = "enqueue" /\ Len(taskQueue) >= TaskLimit
  /\ callback' = [callback EXCEPT ![r] = original[mine[r]]]
  /\ Discard(r)
  /\ UNCHANGED workerVars

WaitForShadow(r) ==
  /\ where[r] = "wait" /\ answer[r] # "none"
  /\ At(r, "decide")
  /\ UNCHANGED << strict, uses, early, callback, mine, answer,
                  taskVars, workerVars, frameVars >>

DecideByFirstPhase(r) ==
  /\ where[r] = "decide"
  /\ At(r, "device")
  /\ UNCHANGED << strict, uses, early, callback, mine, answer,
                  taskVars, workerVars, frameVars >>
Decide(r) ==
  /\ where[r] = "decide"
  /\ At(r, IF answer[r] # "ok" /\ strict THEN "deny" ELSE "device")
  /\ UNCHANGED << strict, uses, early, callback, mine, answer,
                  taskVars, workerVars, frameVars >>

----------------------------------------------------------------------------
(* processSCSIOperationWQ *)

TakeJob ==
  /\ pcTask = "idle" /\ taskQueue # << >>
  /\ copied' = Head(taskQueue) /\ taskQueue' = Tail(taskQueue)
  /\ asker' = req[Head(taskQueue)]
  /\ pcTask' = "copy"
  /\ UNCHANGED << requestVars, taskVars, taskRc, frameVars >>

(* The data are read from the buffer and written to the shadow file.       *)
Copy ==
  /\ pcTask = "copy"
  /\ taskRc' \in {"ok", "failed"}
  /\ pcTask' = "signal"
  /\ UNCHANGED << requestVars, taskVars, taskQueue, copied, asker, frameVars >>

(* The task is not used any more; the rest is in the request's parameters. *)
SignalTask ==
  /\ pcTask = "signal"
  /\ shadow' = [shadow EXCEPT ![copied] = taskRc]
  /\ copied' = NoTask
  /\ IF strict
     THEN pcTask' = "answer" /\ UNCHANGED << asker, taskRc >>
     ELSE pcTask' = "idle" /\ asker' = NoRequest /\ taskRc' = "none"
  /\ UNCHANGED << requestVars, req, use, taskRefs, original, hooked, recorded, list,
                  taskQueue, frameVars >>

Answer ==
  /\ pcTask = "answer"
  /\ answer' = [answer EXCEPT ![asker] = taskRc]
  /\ pcTask' = "idle" /\ asker' = NoRequest /\ taskRc' = "none"
  /\ UNCHANGED << strict, where, uses, early, callback, mine, taskVars, taskQueue, copied,
                  frameVars >>

----------------------------------------------------------------------------
(* The command is completed by the device or as denied, and its callback   *)
(* is called.                                                              *)

CompleteTask(k, r) ==
  /\ where[r] \in {"device", "deny"} /\ pcK[k] = "idle"
  /\ IF callback[r] = "owner"
     THEN At(r, "owner") /\ UNCHANGED << pcK, of >>
     ELSE /\ At(r, "callback")
          /\ CallbackGoTo(k, "find")
          /\ of' = [of EXCEPT ![k] = r]
  /\ UNCHANGED << strict, uses, early, callback, mine, answer, taskVars, workerVars, task >>

(* shadowCSITaskCompletionCallbackHook; GetReferencedSCSITask takes the    *)
(* first task of the list with this request.                               *)
Matching(r) == {i \in DOMAIN list : req[list[i]] = r}
Find(k) ==
  /\ pcK[k] = "find"
  /\ \E i \in Matching(of[k]) :
       /\ \A j \in Matching(of[k]) : i <= j
       /\ task' = [task EXCEPT ![k] = list[i]]
       /\ taskRefs' = [taskRefs EXCEPT ![list[i]] = @ + 1]
  /\ CallbackGoTo(k, "wait")
  /\ UNCHANGED << requestVars, req, use, original, hooked, shadow, recorded, list,
                  workerVars, of >>

WaitNot(k) ==
  /\ pcK[k] = "wait"
  /\ CallbackGoTo(k, "record")
  /\ UNCHANGED << requestVars, taskVars, workerVars, of, task >>
Wait(k) ==
  /\ pcK[k] = "wait" /\ shadow[task[k]] # "pending"
  /\ CallbackGoTo(k, "record")
  /\ UNCHANGED << requestVars, taskVars, workerVars, of, task >>

Record(k) ==
  /\ pcK[k] = "record"
  /\ recorded' = [recorded EXCEPT ![task[k]] = @ + 1]
  /\ CallbackGoTo(k, "restore")
  /\ UNCHANGED << requestVars, req, use, taskRefs, original, hooked, shadow, list,
                  workerVars, of, task >>

(* CallOriginalCompletion; the flag completionHooked says afterwards that  *)
(* the callback could be set.                                              *)
Restore(k) ==
  /\ pcK[k] = "restore"
  /\ callback' = [callback EXCEPT ![of[k]] = original[task[k]]]
  /\ hooked' = [hooked EXCEPT ![task[k]] = TRUE]
  /\ CallbackGoTo(k, "call")
  /\ UNCHANGED << strict, where, uses, early, mine, answer, req, use, taskRefs, original,
                  shadow, recorded,
                  list, workerVars, of, task >>

Call(k) ==
  /\ pcK[k] = "call"
  /\ At(of[k], "owner")
  /\ CallbackGoTo(k, "release1")
  /\ UNCHANGED << strict, uses, early, callback, mine, answer,
                  taskVars, workerVars, of, task >>

(* Both references, that of the find and that of the creation.             *)
ReleaseOne(k) ==
  /\ pcK[k] = "release1"
  /\ taskRefs' = [taskRefs EXCEPT ![task[k]] = @ - 1]
  /\ CallbackGoTo(k, IF taskRefs[task[k]] = 1 THEN "free1" ELSE "return")
  /\ UNCHANGED << requestVars, req, use, original, hooked, shadow, recorded, list,
                  workerVars,
                  of, task >>
ReleaseTask(k) ==
  /\ pcK[k] \in {"release1", "release2"}
  /\ taskRefs' = [taskRefs EXCEPT ![task[k]] = @ - 1]
  /\ CallbackGoTo(k, IF pcK[k] = "release1"
             THEN IF taskRefs[task[k]] = 1 THEN "free1" ELSE "release2"
                     ELSE IF taskRefs[task[k]] = 1 THEN "free2" ELSE "return")
  /\ UNCHANGED << requestVars, req, use, original, hooked, shadow, recorded, list,
                  workerVars,
                  of, task >>

(* free: the callback is set once more, then the task leaves the list.     *)
FreeRestore(k) ==
  /\ pcK[k] \in {"free1", "free2"}
  /\ IF hooked[task[k]]
     THEN callback' = [callback EXCEPT ![of[k]] = original[task[k]]]
     ELSE UNCHANGED callback
  /\ CallbackGoTo(k, IF pcK[k] = "free1" THEN "unlink1" ELSE "unlink2")
  /\ UNCHANGED << strict, where, uses, early, mine, answer,
                  taskVars, workerVars, of, task >>

FreeUnlink(k) ==
  /\ pcK[k] \in {"unlink1", "unlink2"}
  /\ list' = Without(task[k])
  /\ req' = [req EXCEPT ![task[k]] = NoRequest]
  /\ CallbackGoTo(k, IF pcK[k] = "unlink1" THEN "release2" ELSE "return")
  /\ UNCHANGED << requestVars, use, taskRefs, original, hooked, shadow, recorded,
                  workerVars, of, task >>

ReturnTask(k) ==
  /\ pcK[k] = "return"
  /\ CallbackGoTo(k, "idle")
  /\ of' = [of EXCEPT ![k] = NoRequest] /\ task' = [task EXCEPT ![k] = NoTask]
  /\ UNCHANGED << requestVars, taskVars, workerVars >>

----------------------------------------------------------------------------
ExecuteWorks(r) ==
  \/ Create(r) \/ FailToWire(r) \/ SetHook(r) \/ EnqueueTask(r) \/ QueueFull(r)
  \/ WaitForShadow(r) \/ Decide(r)
WorkerWorks == TakeJob \/ Copy \/ SignalTask \/ Answer
CallbackWorks(k) ==
  \/ Find(k) \/ Wait(k) \/ Record(k) \/ Restore(k) \/ Call(k)
  \/ ReleaseTask(k) \/ FreeRestore(k) \/ FreeUnlink(k) \/ ReturnTask(k)
Completes(r) == \E k \in Completers : CompleteTask(k, r)

ScsiNext ==
  \/ \E r \in Requests : Execute(r) \/ ExecuteWorks(r) \/ Completes(r)
  \/ WorkerWorks
  \/ \E k \in Completers : CallbackWorks(k)

ScsiSpec == ScsiInit /\ [][ScsiNext]_scsiVars

(* The threads run, and a device completes its commands; an owner need not *)
(* execute a request.  A completer that is free now and then is one the    *)
(* device will get.                                                        *)
ScsiFairSpec ==
  /\ ScsiSpec
  /\ \A r \in Requests : WF_scsiVars(ExecuteWorks(r)) /\ SF_scsiVars(Completes(r))
  /\ WF_scsiVars(WorkerWorks)
  /\ \A k \in Completers : WF_scsiVars(CallbackWorks(k))

----------------------------------------------------------------------------
(* Properties *)

Queued == {taskQueue[i] : i \in 1 .. Len(taskQueue)} \cup ({copied} \ {NoTask})

(* Every variable has its type (the histories aside).                      *)
ScsiTypeOK ==
  /\ strict \in BOOLEAN
  /\ where \in [Requests -> {"owner", "create", "hook", "enqueue", "wait", "decide",
                             "device", "deny", "callback"}]
  /\ uses \in [Requests -> 0 .. MaxUses]
  /\ callback \in [Requests -> {"owner", "hook"}]
  /\ mine \in [Requests -> Tasks \cup {NoTask}]
  /\ answer \in [Requests -> {"none", "ok", "failed"}]
  /\ req \in [Tasks -> Requests \cup {NoRequest}] /\ use \in [Tasks -> 0 .. MaxUses]
  /\ taskRefs \in [Tasks -> Int] /\ original \in [Tasks -> {"none", "owner", "hook"}]
  /\ hooked \in [Tasks -> BOOLEAN] /\ shadow \in [Tasks -> {"pending", "ok", "failed"}]
  /\ recorded \in [Tasks -> Nat]
  /\ list \in Seq(Tasks) /\ taskQueue \in Seq(Tasks) /\ copied \in Tasks \cup {NoTask}
  /\ pcTask \in {"idle", "copy", "signal", "answer"}
  /\ asker \in Requests \cup {NoRequest} /\ taskRc \in {"none", "ok", "failed"}
  /\ pcK \in [Completers -> {"idle", "find", "wait", "record", "restore", "call", "release1",
                             "release2", "free1", "free2", "unlink1", "unlink2", "return"}]
  /\ of \in [Completers -> Requests \cup {NoRequest}]
  /\ task \in [Completers -> Tasks \cup {NoTask}]

(* The worker reads the data of a command that has not gone back to its    *)
(* owner, and from a task that is still there.                             *)
DataHeld ==
  \A d \in Queued :
    /\ Live(d) /\ taskRefs[d] > 0
    /\ where[req[d]] # "owner" /\ use[d] = uses[req[d]]

(* A completer uses a task that is there, and it is the one of the         *)
(* execution it completes.                                                 *)
OwnTask ==
  \A k \in Completers :
    pcK[k] \in {"wait", "record", "restore", "call", "release1", "release2"} =>
    /\ Live(task[k]) /\ taskRefs[task[k]] > 0
    /\ req[task[k]] = of[k]
    /\ where[of[k]] = "callback" => use[task[k]] = uses[of[k]]

(* Nobody uses a task that is gone, or another's.                          *)
TaskHeld == ScsiTypeOK /\ DataHeld /\ OwnTask

(* A shadowed command is reported to the service exactly once, after its   *)
(* data, and its task is not left behind.                                  *)
ReportedOnce ==
  /\ \A d \in Tasks : Live(d) => recorded[d] <= 1
  /\ \A d \in Tasks : Live(d) /\ recorded[d] = 1 => shadow[d] # "pending"
  /\ \A r \in Requests : where[r] = "owner" /\ (\A k \in Completers : of[k] # r) =>
       \A d \in Tasks : req[d] # r

(* A task lives as long as somebody uses it, and is accounted for when it  *)
(* is gone.                                                                *)
TaskAccounted == TaskHeld /\ ReportedOnce

(* With disableOnShadowErrors a command whose shadowing failed does not    *)
(* reach the device.                                                       *)
RefusedIfUnshadowed ==
  \A r \in Requests : strict /\ where[r] = "device" => answer[r] # "failed"

(* Every command comes back to its owner: neither a queue that is full nor *)
(* a callback that waits for the worker keeps it.                          *)
CommandReturns == \A r \in Requests : where[r] # "owner" ~> where[r] = "owner"

(* A request that is hooked has no task yet (the assertion in              *)
(* withSCSITaskIdentifier).                                                *)
OneTaskPerRequest ==
  \A r \in Requests : where[r] = "create" => \A d \in Tasks : req[d] # r
=============================================================================
