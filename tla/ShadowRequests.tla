--------------------------- MODULE ShadowRequests ---------------------------
(***************************************************************************)
(* The way of a shadowed operation: the vnode hook (write, pageout, open   *)
(* and close, reclaim), DldIOShadow's request queue and the shadow thread  *)
(* that writes the data and reports the result through a completion event  *)
(* and a result code on the stack of the hook.                             *)
(*                                                                         *)
(* The queue is the FifoChannel that DataQueue implements, with a bound on *)
(* the entries; the event is the Latch that NotificationEvent implements;  *)
(* the search for a shadow file is ShadowFiles, of which only the outcome  *)
(* is left here.  The user client changes disableOnShadowErrors and the    *)
(* shadow files at any time, so that whoever reads the setting or looks    *)
(* for a file may find anything, each time anew.                           *)
(*                                                                         *)
(* An operator that stands before a definition and has its name with a     *)
(* word more is that definition with a plausible mistake; the properties   *)
(* are tried on them.                                                      *)
(***************************************************************************)
EXTENDS Naturals, Sequences, FiniteSets

CONSTANTS
  Ops,         (* the operations, each made once, each with its own stack  *)
  Kinds,       (* which kinds of operation there are, see AllKinds         *)
  Settings,    (* the values disableOnShadowErrors may take                *)
  QueueLimit,  (* how many entries the queue has room for                  *)
  MaxChunks    (* bound: the parts in which the data of an operation is    *)
               (* mapped and written                                       *)

(* "clean" is a pageout that finds no dirty page, "pageout" one that gets  *)
(* the pages from the system and so must wait before it returns to the     *)
(* hook; other pageouts go the way of a write.                             *)
Hooked   == {"write", "pageout", "clean"}
AllKinds == Hooked \cup {"open", "reclaim"}
Results  == {"invalid", "ok", "failed"}

ASSUME RequestsAssumption ==
  /\ "none" \notin Ops   (* the operation of NoJob *)
  /\ Kinds \subseteq AllKinds
  /\ Settings \subseteq BOOLEAN /\ Settings # {}
  /\ QueueLimit \in Nat \ {0} /\ MaxChunks \in Nat \ {0}

VARIABLES
  queue,          (* dataQueue                                             *)
  pcS,            (* where the shadow thread is                            *)
  job, left, wrc, (* its local entry, what is left of it, its RC           *)
  pcW, kind,      (* where each hook is, and its kind                      *)
  sync,           (* its synchronousShadow                                 *)
  shadowed,       (* its shadowed                                          *)
  denied,         (* ~callOriginal                                         *)
  event,          (* *completionEvent is in the signal state               *)
  rc,             (* *shadowCompletionRC                                   *)
  refs,           (* the references taken on the DldIOVnode for it         *)
  chunks,         (* history: in how many parts its data is to be written  *)
  ran,            (* history: the original operation was called            *)
  log,            (* history: what was written to the shadow files         *)
  kept            (* history: the pageouts that kept a reference           *)

threadVars  == << pcS, job, left, wrc >>
hookVars    == << kind, sync, shadowed, denied, event, rc, refs, chunks, ran >>
vars == << queue, threadVars, pcW, hookVars, log, kept >>

NoJob == [op |-> "none", what |-> "none"]
GoTo(o, label) == pcW' = [pcW EXCEPT ![o] = label]
HasRoom == Len(queue) < QueueLimit
Reference(o) == refs' = [refs EXCEPT ![o] = @ + 1]
Result(o, r) == rc' = [rc EXCEPT ![o] = r]
Signal(o) == event' = [event EXCEPT ![o] = TRUE]

----------------------------------------------------------------------------
(* The hook up to the submission of the request *)

Start(o) ==
  /\ pcW[o] = "start"
  /\ \E k \in Kinds :
       /\ kind' = [kind EXCEPT ![o] = k]
       /\ \E d \in Settings : sync' = [sync EXCEPT ![o] = k \in Hooked /\ d]
       /\ GoTo(o, IF k \in Hooked THEN "check" ELSE "enqueue")
  /\ Reference(o)
  /\ UNCHANGED << queue, threadVars, shadowed, denied, event, rc, chunks,
                  ran, log, kept >>

(* shadowFileWriteInt completes at once what needs no shadowing: a vnode   *)
(* that is not a regular file, or no data.                                 *)
Completed(o, r, success) ==
  /\ Result(o, r) /\ Signal(o)
  /\ shadowed' = [shadowed EXCEPT ![o] = success]
  /\ GoTo(o, "submitted")

NothingToShadow(o) ==
  /\ pcW[o] = "check"
  /\ Completed(o, "ok", TRUE)
  /\ UNCHANGED << queue, threadVars, kind, sync, denied, refs, chunks, ran, log, kept >>

(* Without a shadow file or a client it depends on quotaExceeded.          *)
NoShadowResources(o) ==
  /\ pcW[o] = "check"
  /\ Completed(o, "ok", TRUE) \/ Completed(o, "failed", FALSE)
  /\ UNCHANGED << queue, threadVars, kind, sync, denied, refs, chunks, ran, log, kept >>

PrepareRequest(o) ==
  /\ pcW[o] = "check"
  /\ event' = [event EXCEPT ![o] = FALSE]
  /\ GoTo(o, IF kind[o] = "clean" THEN "clean" ELSE "enqueue")
  /\ UNCHANGED << queue, threadVars, kind, sync, shadowed, denied, rc, refs,
                  chunks, ran, log, kept >>

(* The vnode has been retained; without dirty pages the code behind __exit *)
(* finds success set and frees nothing.                                    *)
NoDirtyPages(o) ==
  /\ pcW[o] = "clean"
  /\ Completed(o, "ok", TRUE)
  /\ Reference(o) /\ kept' = kept \cup {o}
  /\ UNCHANGED << queue, threadVars, kind, sync, denied, chunks, ran, log >>

EnqueueUnreferenced(o) ==
  /\ pcW[o] = "enqueue" /\ HasRoom
  /\ queue' = Append(queue, [op |-> o, what |-> "data"])
  /\ \E n \in 1 .. MaxChunks : chunks' = [chunks EXCEPT ![o] = n]
  /\ shadowed' = [shadowed EXCEPT ![o] = TRUE]
  /\ GoTo(o, IF kind[o] = "pageout" THEN "waitInside" ELSE "submitted")
  /\ UNCHANGED << threadVars, kind, sync, denied, event, rc, refs, ran, log, kept >>
Enqueue(o) ==
  /\ pcW[o] = "enqueue" /\ HasRoom
  /\ queue' = Append(queue, [op |-> o, what |-> "data"])
  /\ \E n \in 1 .. MaxChunks :
       chunks' = [chunks EXCEPT ![o] = IF kind[o] \in Hooked THEN n ELSE 1]
  /\ Reference(o)
  /\ shadowed' = [shadowed EXCEPT ![o] = TRUE]
  /\ GoTo(o, IF kind[o] = "pageout" THEN "waitInside" ELSE "submitted")
  /\ UNCHANGED << threadVars, kind, sync, denied, event, rc, ran, log, kept >>

(* No memory for the request or no room in the queue; what was retained is *)
(* released.                                                               *)
EnqueueFails(o) ==
  /\ pcW[o] = "enqueue" /\ (kind[o] \in Hooked \/ ~HasRoom)
  /\ shadowed' = [shadowed EXCEPT ![o] = FALSE]
  /\ GoTo(o, "submitted")
  /\ UNCHANGED << queue, threadVars, kind, sync, denied, event, rc, refs,
                  chunks, ran, log, kept >>

WaitInside(o) ==
  /\ pcW[o] = "waitInside" /\ event[o]
  /\ GoTo(o, "submitted")
  /\ UNCHANGED << queue, threadVars, hookVars, log, kept >>

----------------------------------------------------------------------------
(* The hook after the submission *)

Submitted(o) ==
  /\ pcW[o] = "submitted" /\ kind[o] \in Hooked
  /\ IF shadowed[o] THEN UNCHANGED rc ELSE Result(o, "failed")
  /\ \E d \in Settings : denied' = [denied EXCEPT ![o] = ~shadowed[o] /\ d]
  /\ GoTo(o, IF shadowed[o] /\ sync[o] THEN "waitSync"
             ELSE IF denied'[o] THEN "waitAsync" ELSE "original")
  /\ UNCHANGED << queue, threadVars, kind, sync, shadowed, event, refs, chunks,
                  ran, log, kept >>

(* The gate of open and close waits, the hook of reclaim does not.         *)
SubmittedUnhooked(o) ==
  /\ pcW[o] = "submitted" /\ kind[o] \notin Hooked
  /\ GoTo(o, IF ~shadowed[o] THEN "return"
             ELSE IF kind[o] = "open" THEN "waitAsync" ELSE "complete")
  /\ UNCHANGED << queue, threadVars, hookVars, log, kept >>

(* DldFsdWriteHook looks at the setting twice, DldFsdPageoutHook once.     *)
WaitSyncByFlag(o) ==
  /\ pcW[o] = "waitSync"
  /\ \E first, second \in Settings :
       LET fails == rc[o] # "ok" /\ (kind[o] = "write" => first) IN
       /\ shadowed' = [shadowed EXCEPT ![o] = ~fails]
       /\ denied' = [denied EXCEPT ![o] = fails /\ second]
  /\ GoTo(o, IF denied'[o] THEN "waitAsync" ELSE "original")
  /\ UNCHANGED << queue, threadVars, kind, sync, event, rc, refs, chunks, ran, log, kept >>
WaitSync(o) ==
  /\ pcW[o] = "waitSync" /\ event[o]
  /\ \E first, second \in Settings :
       LET fails == rc[o] # "ok" /\ (kind[o] = "write" => first) IN
       /\ shadowed' = [shadowed EXCEPT ![o] = ~fails]
       /\ denied' = [denied EXCEPT ![o] = fails /\ second]
  /\ GoTo(o, IF denied'[o] THEN "waitAsync" ELSE "original")
  /\ UNCHANGED << queue, threadVars, kind, sync, event, rc, refs, chunks, ran, log, kept >>

CallOriginal(o) ==
  /\ pcW[o] = "original"
  /\ ran' = [ran EXCEPT ![o] = TRUE]
  /\ GoTo(o, "waitAsync")
  /\ UNCHANGED << queue, threadVars, kind, sync, shadowed, denied, event, rc,
                  refs, chunks, log, kept >>

WaitAsyncWhenRun(o) ==
  /\ pcW[o] = "waitAsync"
  /\ shadowed[o] /\ ~sync[o] /\ ~ran[o] => event[o]
  /\ GoTo(o, "complete")
  /\ UNCHANGED << queue, threadVars, hookVars, log, kept >>
WaitAsync(o) ==
  /\ pcW[o] = "waitAsync"
  /\ shadowed[o] /\ ~sync[o] => event[o]
  /\ GoTo(o, "complete")
  /\ UNCHANGED << queue, threadVars, hookVars, log, kept >>

(* shadowOperationCompletion; the result of the call is not looked at.     *)
CompleteLeaking(o) ==
  /\ pcW[o] = "complete"
  /\ queue' = IF HasRoom
              THEN Append(queue, [op |-> o, what |-> "completion"])
              ELSE queue
  /\ Reference(o)
  /\ GoTo(o, "return")
  /\ UNCHANGED << threadVars, kind, sync, shadowed, denied, event, rc, chunks,
                  ran, log, kept >>
Complete(o) ==
  /\ pcW[o] = "complete"
  /\ IF HasRoom
     THEN /\ queue' = Append(queue, [op |-> o, what |-> "completion"])
          /\ Reference(o)
     ELSE UNCHANGED << queue, refs >>
  /\ GoTo(o, "return")
  /\ UNCHANGED << threadVars, kind, sync, shadowed, denied, event, rc, chunks,
                  ran, log, kept >>

Return(o) ==
  /\ pcW[o] = "return"
  /\ refs' = [refs EXCEPT ![o] = @ - 1]
  /\ GoTo(o, "done")
  /\ UNCHANGED << queue, threadVars, kind, sync, shadowed, denied, event, rc,
                  chunks, ran, log, kept >>

----------------------------------------------------------------------------
(* The shadow thread *)

DequeueNewest ==
  /\ pcS = "idle" /\ queue # << >>
  /\ LET e == queue[Len(queue)] IN
     /\ job' = e /\ queue' = SubSeq(queue, 1, Len(queue) - 1)
     /\ left' = IF e.what = "data" THEN chunks[e.op] ELSE 1
  /\ wrc' = "ok"
  /\ pcS' = "chunk"
  /\ UNCHANGED << pcW, hookVars, log, kept >>
Dequeue ==
  /\ pcS = "idle" /\ queue # << >>
  /\ job' = Head(queue) /\ queue' = Tail(queue)
  /\ left' = IF Head(queue).what = "data" THEN chunks[Head(queue).op] ELSE 1
  /\ wrc' = "ok"
  /\ pcS' = "chunk"
  /\ UNCHANGED << pcW, hookVars, log, kept >>

(* The data cannot be mapped or there is no shadow file with room for it.  *)
ChunkFails ==
  /\ pcS = "chunk"
  /\ wrc' = "failed"
  /\ pcS' = "finish"
  /\ UNCHANGED << queue, job, left, pcW, hookVars, log, kept >>

(* The header and the data are written, or the file system fails.          *)
WriteChunk ==
  /\ pcS = "chunk"
  /\ \/ /\ log' = Append(log, [op |-> job.op, what |-> job.what])
        /\ wrc' = "ok"
     \/ /\ wrc' = "failed"
        /\ UNCHANGED log
  /\ pcS' = "notify"
  /\ UNCHANGED << queue, job, left, pcW, hookVars, kept >>

(* The code keeps the result of the notification in the variable that had  *)
(* the result of the write.                                                *)
NotifyClient ==
  /\ pcS = "notify"
  /\ wrc' \in {"ok", "failed"}
  /\ left' = left - 1
  /\ pcS' = IF wrc' = "ok" /\ left > 1 THEN "chunk" ELSE "finish"
  /\ UNCHANGED << queue, job, pcW, hookVars, log, kept >>

WithEvent(j) == j.what = "data" /\ kind[j.op] # "reclaim"

FinishSignalling ==
  /\ pcS = "finish"
  /\ IF WithEvent(job)
     THEN Signal(job.op) /\ pcS' = "signal"
     ELSE pcS' = "drop" /\ UNCHANGED event
  /\ UNCHANGED << queue, job, left, wrc, pcW, kind, sync, shadowed, denied,
                  rc, refs, chunks, ran, log, kept >>
Finish ==
  /\ pcS = "finish"
  /\ IF WithEvent(job)
     THEN Result(job.op, wrc) /\ pcS' = "signal"
     ELSE pcS' = "drop" /\ UNCHANGED rc
  /\ UNCHANGED << queue, job, left, wrc, pcW, kind, sync, shadowed, denied,
                  event, refs, chunks, ran, log, kept >>

SignalOnSuccess ==
  /\ pcS = "signal"
  /\ IF wrc = "ok" THEN Signal(job.op) ELSE UNCHANGED event
  /\ pcS' = "drop"
  /\ UNCHANGED << queue, job, left, wrc, pcW, kind, sync, shadowed, denied,
                  rc, refs, chunks, ran, log, kept >>
SignalHook ==
  /\ pcS = "signal"
  /\ Signal(job.op)
  /\ pcS' = "drop"
  /\ UNCHANGED << queue, job, left, wrc, pcW, kind, sync, shadowed, denied,
                  rc, refs, chunks, ran, log, kept >>

DropReference ==
  /\ pcS = "drop"
  /\ refs' = [refs EXCEPT ![job.op] = @ - 1]
  /\ job' = NoJob /\ left' = 0 /\ wrc' = "ok"
  /\ pcS' = "idle"
  /\ UNCHANGED << queue, pcW, kind, sync, shadowed, denied, event, rc, chunks,
                  ran, log, kept >>

----------------------------------------------------------------------------
Init ==
  /\ queue = << >>
  /\ pcS = "idle" /\ job = NoJob /\ left = 0 /\ wrc = "ok"
  /\ pcW = [o \in Ops |-> "start"] /\ kind = [o \in Ops |-> "write"]
  /\ sync = [o \in Ops |-> FALSE] /\ shadowed = [o \in Ops |-> FALSE]
  /\ denied = [o \in Ops |-> FALSE] /\ event = [o \in Ops |-> FALSE]
  /\ rc = [o \in Ops |-> "invalid"] /\ refs = [o \in Ops |-> 0]
  /\ chunks = [o \in Ops |-> 0] /\ ran = [o \in Ops |-> FALSE]
  /\ log = << >> /\ kept = {}

HookWorks(o) ==
  \/ NothingToShadow(o) \/ NoShadowResources(o) \/ PrepareRequest(o) \/ NoDirtyPages(o)
  \/ Enqueue(o) \/ EnqueueFails(o) \/ WaitInside(o) \/ Submitted(o) \/ SubmittedUnhooked(o)
  \/ WaitSync(o) \/ CallOriginal(o) \/ WaitAsync(o) \/ Complete(o) \/ Return(o)

ThreadWorks ==
  \/ Dequeue \/ ChunkFails \/ WriteChunk \/ NotifyClient \/ Finish \/ SignalHook
  \/ DropReference

Next ==
  \/ \E o \in Ops : Start(o) \/ HookWorks(o)
  \/ ThreadWorks

Spec == Init /\ [][Next]_vars

(* The hooks and the shadow thread run in kernel threads; the original     *)
(* operation and the writes to a shadow file return.                       *)
FairSpec ==
  /\ Spec
  /\ WF_vars(ThreadWorks)
  /\ \A o \in Ops : WF_vars(HookWorks(o))

----------------------------------------------------------------------------
(* Properties *)

Entries == [op : Ops, what : {"data", "completion"}]

(* Every variable has its type.                                            *)
TypeOK ==
  /\ queue \in Seq(Entries) /\ Len(queue) <= QueueLimit
  /\ pcS \in {"idle", "chunk", "notify", "finish", "signal", "drop"}
  /\ job \in Entries \cup {NoJob} /\ (job = NoJob <=> pcS = "idle")
  /\ left \in 0 .. MaxChunks /\ wrc \in {"ok", "failed"}
  /\ pcW \in [Ops -> {"start", "check", "clean", "enqueue", "waitInside", "submitted",
                      "waitSync", "original", "waitAsync", "complete", "return", "done"}]
  /\ kind \in [Ops -> AllKinds]
  /\ {sync, shadowed, denied, event, ran} \subseteq [Ops -> BOOLEAN]
  /\ rc \in [Ops -> Results]
  /\ refs \in [Ops -> Nat] /\ chunks \in [Ops -> 0 .. MaxChunks]

(* The requests that the shadow thread has not reported yet.               *)
Unreported ==
  {queue[i] : i \in DOMAIN queue}
    \cup (IF pcS \in {"idle", "drop"} THEN {} ELSE {job})

(* No hook goes on to its completion record, and so none returns, while    *)
(* the queue or the shadow thread still points to its event and its result *)
(* code, whatever the settings change to on its way (the last waits of the *)
(* hooks).                                                                 *)
StackAlive ==
  \A e \in Unreported : WithEvent(e) =>
    pcW[e.op] \notin {"complete", "return", "done"}

(* A hook that waited has a result: assert( kIOReturnInvalid !=            *)
(* shadowCompletionRC ) in both hooks.                                     *)
ResultKnown ==
  \A o \in Ops : kind[o] \in Hooked /\ pcW[o] \in {"complete", "return", "done"} =>
    rc[o] # "invalid"

(* The frame of a hook outlives all that points to it, and what it is told *)
(* is a result.                                                            *)
FrameOutlives == TypeOK /\ StackAlive /\ ResultKnown

(* With the synchronous shadowing the original operation runs only after   *)
(* the shadow thread is through with the request.                          *)
OriginalAfterShadow ==
  \A e \in Unreported : e.what = "data" /\ sync[e.op] => ~ran[e.op]

(* Each holder of the vnode has its own reference and each reference its   *)
(* holder: the hook, the entries in the queue, the shadow thread.  One     *)
(* path gives back less than it took: a pageout without a dirty page keeps *)
(* the reference of its request for good (shadowFileWriteInt from 1494 on).*)
Holders(o) ==
  (IF pcW[o] \in {"start", "done"} THEN 0 ELSE 1)
    + Cardinality({i \in DOMAIN queue : queue[i].op = o})
    + (IF job.op = o THEN 1 ELSE 0)
VnodeReferences ==
  \A o \in Ops : refs[o] = Holders(o) + (IF o \in kept THEN 1 ELSE 0)

(* What a request refers to outlives it, the frame of the hook and the     *)
(* vnode; no path but the one of kept leaves a reference behind, and that  *)
(* one leaves a single one.                                                *)
RequestHeld == FrameOutlives /\ VnodeReferences

(* "all resources allocated or retained for the args structure will be     *)
(* released here in case of error or by processFileWriteWQ if the request  *)
(* is sent to a worker thread" (shadowFileWriteInt): an operation that is  *)
(* over and of which no request is left has no reference.                  *)
AllReleased == \A o \in Ops : pcW[o] = "done" /\ Holders(o) = 0 => refs[o] = 0

(* In the shadow files the completion record of an operation stands behind *)
(* all of its data, and only once: the reader may then stop to wait.       *)
CompletionLast ==
  \A i, j \in DOMAIN log :
    i < j /\ log[i].op = log[j].op => log[i].what # "completion"

(* An operation returns.                                                   *)
HookReturns ==
  \A o \in Ops : pcW[o] \in {"check", "enqueue"} ~> pcW[o] = "done"

(* DldFsdWriteHook: "shadowing failed", "do not allow operation to carry   *)
(* on": with disableOnShadowErrors always set the original operation is    *)
(* not called unless all data of the request was shadowed.                 *)
StoredOf(o) == Len(SelectSeq(log, LAMBDA r : r.op = o /\ r.what = "data"))
UnshadowedIsRefused == \A o \in Ops : ran[o] => StoredOf(o) = chunks[o]
=============================================================================
