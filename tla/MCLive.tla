------------------------------- MODULE MCLive -------------------------------
(***************************************************************************)
(* The liveness properties, on instances small enough for them: one part   *)
(* of the driver runs, part says which, and the others stand still.  The   *)
(* parts are the queue to the service (two producers and a ring that       *)
(* wraps), the registries of clients, the hooks with the shadow thread,    *)
(* the shadow files, and a socket.  Fairness is that of each module, for   *)
(* the part that runs.                                                     *)
(***************************************************************************)
EXTENDS ShadowRequests

CONSTANTS
  Producers, Consumers,                  (* DataQueue                      *)
  Clients, Users, service, logger, Nobody,  (* UserClients                 *)
  FileIds,                               (* ShadowFiles                    *)
  Callers, Services, injector, closer, NoThread, NoBuffer  (* Sockets      *)

VARIABLES
  part,
  head, tail, validDataHead, validDataTail, waitersForHeadPropogation,
  waitersForTailPropogation, hdr, cells, pcQ, loc, waitOn, n, taken, placed,
  overtaken,
  owner, aborted, policy, userClient, unregistering, invocations, pcC, mode, at,
  clientRefs, closedItself, pcU, reg, got,
  array, file, fileRefs, quotaExceeded, pcF, current, want, adding, records, cutoffs,
  q, made, dir, unreported, answered, allow, old, waiter, waiting, pending, listed,
  shrunk, stage, events, disconnecting, lock, mutex, free, client, inbox, pcT, cur,
  buf, release, failed, outer, batch, only, entered, injected

queueVars ==
  << head, tail, validDataHead, validDataTail, waitersForHeadPropogation,
     waitersForTailPropogation, hdr, cells, pcQ, loc, waitOn, n, taken, placed,
     overtaken >>
clientVars ==
  << owner, aborted, policy, userClient, unregistering, invocations, pcC, mode, at,
     clientRefs, closedItself, pcU, reg, got >>
fileVars ==
  << array, file, fileRefs, quotaExceeded, pcF, current, want, adding, records, cutoffs >>
socketVars ==
  << q, made, dir, unreported, answered, allow, old, waiter, waiting, pending, listed,
     shrunk, stage, events, disconnecting, lock, mutex, free, client, inbox, pcT, cur,
     buf, release, failed, outer, batch, only, entered, injected >>

Q == INSTANCE DataQueue WITH
  QueueSize <- 7, HeaderSize <- 2, DataSizes <- {1, 2}, MaxEntries <- 4

(* Of the four registries, which are alike, the first and the last.        *)
C == INSTANCE UserClients WITH
  Registries <- {service, logger}, RegisterOrder <- << service, logger >>,
  UndoOrder <- << logger, service >>, StopOrder <- << logger, service >>,
  pending <- unregistering, pc <- pcC, refs <- clientRefs

F == INSTANCE ShadowFiles WITH
  Files <- FileIds, Brink <- 1, Step <- 4, MinSize <- 8, RecordSizes <- {3},
  TerminatorSize <- 1, MaxSizes <- {8}, SwitchSizes <- {4}, MaxRecords <- 3,
  pcT <- pcF, cur <- current, pcC <- adding

S == INSTANCE Sockets WITH
  Buffers <- {}, QueueLimit <- 1, MaxPackets <- 2, MaxInputs <- 2, pc <- pcT

OfQueue(A)    == part = "queue" /\ A
OfClients(A)  == part = "clients" /\ A
OfRequests(A) == part = "requests" /\ A
OfFiles(A)    == part = "files" /\ A
OfSocket(A)   == part = "socket" /\ A

LiveInit ==
  /\ part \in {"queue", "clients", "requests", "files", "socket"}
  /\ Q!RingInit /\ C!Init /\ Init /\ F!FilesInit /\ S!Init

LiveNext ==
  /\ \/ OfQueue(Q!RingNext) /\ UNCHANGED << clientVars, vars, fileVars, socketVars >>
     \/ OfClients(C!Next) /\ UNCHANGED << queueVars, vars, fileVars, socketVars >>
     \/ OfRequests(Next) /\ UNCHANGED << queueVars, clientVars, fileVars, socketVars >>
     \/ OfFiles(F!FilesNext) /\ UNCHANGED << queueVars, clientVars, vars, socketVars >>
     \/ OfSocket(S!Next) /\ UNCHANGED << queueVars, clientVars, vars, fileVars >>
  /\ UNCHANGED part

LiveSpec ==
  /\ LiveInit
  /\ [][LiveNext]_<< part, queueVars, clientVars, vars, fileVars, socketVars >>
  /\ \A p \in Producers : WF_queueVars(OfQueue(Q!ProducerStep(p)))
  /\ \A c \in Consumers : WF_queueVars(OfQueue(Q!ConsumerStep(c)))
  /\ \A c \in Clients : WF_clientVars(OfClients(C!ClientWorks(c)))
  /\ \A u \in Users : WF_clientVars(OfClients(C!UserWorks(u)))
  /\ WF_vars(OfRequests(ThreadWorks))
  /\ \A o \in Ops : WF_vars(OfRequests(HookWorks(o)))
  /\ WF_fileVars(OfFiles(F!ThreadStep))
  /\ \A t \in S!Threads : WF_socketVars(OfSocket(S!Works(t)))
  /\ \A t \in Services : WF_socketVars(OfSocket(S!Answer(t)))
  /\ WF_socketVars(OfSocket(S!InjectorWakes)) /\ WF_socketVars(OfSocket(S!Completed))
  /\ WF_socketVars(OfSocket(S!Purge)) /\ WF_socketVars(OfSocket(S!Expire))

EveryEntryRemoved == Q!EveryEntryRemoved
UnregisterReturns == C!UnregisterReturns
RecordFinishes    == F!RecordFinishes
Drains            == S!Drains
=============================================================================
