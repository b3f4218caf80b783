------------------------------ MODULE Sockets ------------------------------
(***************************************************************************)
(* The data path of a socket in the network filter.  Every packet is taken *)
(* from the stream (FltData), put into pendingQueue, reported to the       *)
(* service, and reinjected or dropped when the service has answered or a   *)
(* deadline has passed.  When no buffer is left a packet waits to be       *)
(* reported; its sender sleeps, and the socket is in SocketsListToReport.  *)
(*                                                                         *)
(* One socket is modelled.  The threads are those in FltData, those of the *)
(* service that deliver an answer, the injection thread, and the one that  *)
(* brings the events of the socket and detaches it.  `pc' is the place of  *)
(* a thread.                                                               *)
(* Every packet fits one buffer.  A step under the lock of the socket is   *)
(* atomic, but for the delivery, which lets buffers come and go meanwhile; *)
(* nobody who holds that lock asks for injectionMutex.                     *)
(***************************************************************************)
EXTENDS Integers, SequencesExt

CONSTANTS
  Callers, Services, injector, closer, (* threads                          *)
  Buffers,     (* the shared data buffers                                  *)
  QueueLimit,  (* how many notifications the service's queue holds         *)
  MaxPackets,  (* bound: how many packets pass the socket                  *)
  MaxInputs,   (* bound: how many packets and events it sees together      *)
  NoThread, NoBuffer

Threads == Callers \cup Services \cup {injector, closer}
Packets == 1 .. MaxPackets
Directions == {"in", "out"}

ASSUME SocketsAssumption ==
  /\ IsFiniteSet(Buffers) /\ NoBuffer \notin Buffers /\ NoThread \notin Threads
  /\ Callers \cap Services = {} /\ injector # closer
  /\ {injector, closer} \cap (Callers \cup Services) = {}
  /\ QueueLimit \in Nat /\ MaxPackets \in Nat /\ MaxInputs \in Nat

VARIABLES
  q,        (* pendingQueue: numbers of packets, by dataIndex              *)
  made,     (* how many packets were allocated                             *)
  dir, unreported, answered, allow, old, waiter,
            (* of a packet: dataInbound, needToBeReported,                 *)
            (* responseReceived, allowData, its deadline has passed,       *)
            (* the thread its waitEntry belongs to                         *)
  waiting,  (* packetsWaitingForReporting                                  *)
  pending,  (* numberOfPendingInPackets, numberOfPendingOutPackets         *)
  listed,   (* insertedInSocketsListToReport                               *)
  shrunk,   (* the receive buffer of the socket is reduced                 *)
  stage,    (* attached, listless (not in SocketsList), purged, detached   *)
  events,   (* the events the socket has seen                              *)
  disconnecting, (* f_sock_evt_disconnecting                               *)
  lock, mutex, (* who holds the lock in a delivery, and injectionMutex     *)
  free,     (* the free buffers                                            *)
  client,   (* whether the service is connected                            *)
  inbox,    (* the notifications it was sent and has not answered          *)
  pc,
  cur,      (* the packet of a thread                                      *)
  buf,      (* notification.buffers[0] of a thread                         *)
  release,  (* its releaseBuffers                                          *)
  failed,   (* its error                                                   *)
  outer,    (* the deliveries around the one it runs: what is left of them *)
  batch,    (* its packetsToInject                                         *)
  only,     (* the directions the closer injects or purges                 *)
  entered, injected (* history: the packets in the order they entered      *)
            (* pendingQueue, and were injected                             *)

packetVars == << made, dir, answered, allow, old >>
reportVars == << q, unreported, waiter, waiting, listed, shrunk >>
socketVars == << stage, events, disconnecting >>
bufferVars == << free, client, inbox >>
callVars == << cur, buf, release, failed, outer, only >>
flowVars == << pending, mutex, batch, entered, injected >>
vars == << packetVars, reportVars, socketVars, lock, bufferVars, pc, callVars, flowVars >>

GoTo(t, place) == pc' = [pc EXCEPT ![t] = place]
Set(f, x, v) == [f EXCEPT ![x] = v]
InList == stage = "attached"
Inputs == made + Cardinality(events)

(* The members of S in s, in the order they have there.                    *)
Kept(s, S) ==
  LET at == {i \in DOMAIN s : s[i] \in S}
      place(n) == CHOOSE i \in at : Cardinality({j \in at : j <= i}) = n IN
  [n \in 1 .. Cardinality(at) |-> s[place(n)]]

Init ==
  /\ q = << >> /\ made = 0 /\ dir = [p \in Packets |-> "in"]
  /\ unreported = {} /\ answered = {} /\ allow = {} /\ old = {}
  /\ waiter = [p \in Packets |-> NoThread]
  /\ waiting = 0 /\ pending = [d \in Directions |-> 0]
  /\ listed = FALSE /\ shrunk = FALSE /\ stage = "attached" /\ events = {}
  /\ disconnecting = FALSE
  /\ lock = NoThread /\ mutex = NoThread
  /\ free = Buffers /\ client = TRUE /\ inbox = {}
  /\ pc = [t \in Threads |-> "idle"]
  /\ cur = [t \in Threads |-> 0] /\ buf = [t \in Threads |-> NoBuffer]
  /\ release = [t \in Threads |-> FALSE] /\ failed = [t \in Threads |-> FALSE]
  /\ outer = [t \in Threads |-> << >>] /\ batch = [t \in Threads |-> << >>]
  /\ only = Directions
  /\ entered = << >> /\ injected = << >>

----------------------------------------------------------------------------
(* FltData *)

(* allocatePkt: the packet is counted and numbered.  No data arrive once   *)
(* the socket is being detached.                                           *)
Allocate(t) ==
  /\ pc[t] = "idle" /\ InList /\ made < MaxPackets /\ Inputs < MaxInputs
  /\ made' = made + 1
  /\ \E d \in Directions :
       dir' = Set(dir, made + 1, d) /\ pending' = [pending EXCEPT ![d] = @ + 1]
  /\ cur' = Set(cur, t, made + 1)
  /\ GoTo(t, "copy")
  /\ UNCHANGED << answered, allow, old, reportVars, socketVars, lock, bufferVars >>
  /\ UNCHANGED << buf, release, failed, outer, only, mutex, batch, entered, injected >>

(* copyDataToBuffers: NoBuffer is its ENOMEM.                              *)
TakeBuffer(t) ==
  \/ free = {} /\ buf' = Set(buf, t, NoBuffer) /\ UNCHANGED free
  \/ \E b \in free : buf' = Set(buf, t, b) /\ free' = free \ {b}

Copy(t) ==
  /\ pc[t] = "copy" /\ TakeBuffer(t)
  /\ GoTo(t, "enqueue")
  /\ UNCHANGED << packetVars, reportVars, socketVars, lock, client, inbox >>
  /\ UNCHANGED << cur, release, failed, outer, only, flowVars >>

(* A packet is not reported now without a buffer, or behind one that waits *)
(* to be reported.                                                         *)
PostponedOnlyWithoutBuffer(t) == buf[t] = NoBuffer
Postponed(t) == buf[t] = NoBuffer \/ waiting # 0

(* A postponed packet that is sent makes its sender wait; one that is      *)
(* received reduces the receive buffer.                                    *)
Enqueue(t) ==
  LET p == cur[t] IN
  /\ pc[t] = "enqueue" /\ lock = NoThread
  /\ q' = Append(q, p) /\ entered' = Append(entered, p)
  /\ IF Postponed(t)
     THEN /\ unreported' = unreported \cup {p} /\ waiting' = waiting + 1
          /\ listed' = (listed \/ waiting = 0)
          /\ shrunk' = (shrunk \/ dir[p] = "in")
          /\ waiter' = IF dir[p] = "out" THEN Set(waiter, p, t) ELSE waiter
          /\ GoTo(t, "release")
     ELSE GoTo(t, "notify") /\ UNCHANGED << unreported, waiting, listed, shrunk, waiter >>
  /\ UNCHANGED << packetVars, socketVars, lock, bufferVars >>
  /\ UNCHANGED << cur, buf, release, failed, outer, only, pending, mutex, batch, injected >>

CanNotify == client /\ Cardinality(inbox) < QueueLimit

Notify(t) ==
  /\ pc[t] = "notify"
  /\ IF CanNotify
     THEN /\ inbox' = inbox \cup {[pkt |-> cur[t], buffer |-> buf[t]]}
          /\ buf' = Set(buf, t, NoBuffer)
          /\ GoTo(t, "wait")
     ELSE GoTo(t, "release") /\ UNCHANGED << inbox, buf >>
  /\ UNCHANGED << packetVars, reportVars, socketVars, lock, free, client >>
  /\ UNCHANGED << cur, release, failed, outer, only, flowVars >>

(* releaseDataBuffersAndDeliverNotifications: a buffer that is free is not *)
(* released again.                                                         *)
ReleaseBuffer(t) ==
  /\ pc[t] = "release"
  /\ free' = free \cup ({buf[t]} \ {NoBuffer})
  /\ buf' = Set(buf, t, NoBuffer)
  /\ GoTo(t, "deliver")
  /\ UNCHANGED << packetVars, reportVars, socketVars, lock, client, inbox >>
  /\ UNCHANGED << cur, release, failed, outer, only, flowVars >>

(* The end of FltData, after the sleep of a sender that must wait.         *)
Awake(t) ==
  /\ pc[t] = "wait" /\ waiter[cur[t]] # t
  /\ cur' = Set(cur, t, 0)
  /\ GoTo(t, "idle")
  /\ UNCHANGED << packetVars, reportVars, socketVars, lock, bufferVars >>
  /\ UNCHANGED << buf, release, failed, outer, only, flowVars >>

----------------------------------------------------------------------------
(* DeliverWaitingNotifications *)

(* Where the caller goes on, and the end of a delivery: in the one around  *)
(* it, or in its caller.                                                   *)
AfterDelivery(t) ==
  IF t \in Callers THEN "wait" ELSE IF t \in Services THEN "answer" ELSE "idle"

Leave(t) ==
  IF outer[t] = << >>
  THEN GoTo(t, AfterDelivery(t)) /\ UNCHANGED outer
  ELSE GoTo(t, Head(outer[t])) /\ outer' = Set(outer, t, Tail(outer[t]))

TakeSocket(t) ==
  /\ pc[t] = "deliver"
  /\ IF listed
     THEN listed' = FALSE /\ GoTo(t, "locksocket") /\ UNCHANGED outer
     ELSE Leave(t) /\ UNCHANGED listed
  /\ UNCHANGED << packetVars, q, unreported, waiter, waiting, shrunk, socketVars, lock >>
  /\ UNCHANGED << bufferVars, cur, buf, release, failed, only, flowVars >>

LockSocket(t) ==
  /\ pc[t] = "locksocket" /\ lock = NoThread
  /\ lock' = t
  /\ GoTo(t, "report")
  /\ UNCHANGED << packetVars, reportVars, socketVars, bufferVars, callVars, flowVars >>

FirstUnreported(i) == q[i] \in unreported /\ \A j \in 1 .. i - 1 : q[j] \notin unreported

(* The packet counts as reported: its sender wakes, or the receive buffer  *)
(* is restored.                                                            *)
ReportedQuietly(p) ==
  /\ unreported' = unreported \ {p} /\ waiting' = waiting - 1
  /\ UNCHANGED << waiter, shrunk >>

Reported(p) ==
  /\ unreported' = unreported \ {p} /\ waiting' = waiting - 1
  /\ waiter' = Set(waiter, p, NoThread)
  /\ shrunk' = (shrunk /\ dir[p] = "out")

(* The loop ends and the lock is released.  A notification that was not    *)
(* sent has its buffers released, with a delivery inside this one, before  *)
(* the socket is inserted again; an error ends the delivery.               *)
EndReport(t, rest, giveBack) ==
  /\ lock' = NoThread
  /\ release' = Set(release, t, FALSE) /\ failed' = Set(failed, t, FALSE)
  /\ IF giveBack
     THEN GoTo(t, "release") /\ outer' = Set(outer, t, << rest >> \o outer[t])
     ELSE GoTo(t, rest) /\ UNCHANGED outer

(* One packet of the loop under the lock.  The notification is one         *)
(* variable of the whole loop.                                             *)
Send(t, p) ==
  /\ CanNotify
  /\ \E b \in free :
       /\ free' = free \ {b}
       /\ buf' = Set(buf, t, b)
       /\ inbox' = inbox \cup {[pkt |-> p, buffer |-> b]}
  /\ failed' = Set(failed, t, FALSE)
  /\ Reported(p)
  /\ UNCHANGED << release, allow, pc, lock, outer >>

NotSent(t, p) ==
  /\ ~CanNotify \/ free = {}
  /\ TakeBuffer(t)
  /\ IF p \in old
     THEN /\ release' = Set(release, t, release[t] \/ free # {})
          /\ failed' = Set(failed, t, TRUE)
          /\ allow' = allow \ {p} /\ Reported(p) /\ UNCHANGED << pc, lock, outer >>
     ELSE /\ EndReport(t, "reinsert", release[t] \/ free # {})
          /\ UNCHANGED << allow, unreported, waiting, waiter, shrunk >>
  /\ UNCHANGED inbox

Report(t) ==
  /\ pc[t] = "report" /\ lock = t
  /\ \E i \in DOMAIN q : FirstUnreported(i) /\ (Send(t, q[i]) \/ NotSent(t, q[i]))
  /\ UNCHANGED << made, dir, answered, old, q, listed, socketVars, client, cur, only, flowVars >>

(* The notification is dead now, unless its buffers must be released.      *)
ReportedAll(t) ==
  /\ pc[t] = "report" /\ lock = t /\ Range(q) \cap unreported = {}
  /\ EndReport(t, IF failed[t] THEN "failed" ELSE "deliver", release[t])
  /\ buf' = IF release[t] THEN buf ELSE Set(buf, t, NoBuffer)
  /\ UNCHANGED << packetVars, reportVars, socketVars, bufferVars, cur, only, flowVars >>

Reinsert(t) ==
  /\ pc[t] = "reinsert"
  /\ listed' = TRUE
  /\ Leave(t)
  /\ UNCHANGED << packetVars, q, unreported, waiter, waiting, shrunk, socketVars, lock >>
  /\ UNCHANGED << bufferVars, cur, buf, release, failed, only, flowVars >>

LeaveFailed(t) ==
  /\ pc[t] = "failed" /\ Leave(t)
  /\ UNCHANGED << packetVars, reportVars, socketVars, lock, bufferVars >>
  /\ UNCHANGED << cur, buf, release, failed, only, flowVars >>

Deliver(t) ==
  TakeSocket(t) \/ LockSocket(t) \/ Report(t) \/ ReportedAll(t) \/ Reinsert(t) \/ LeaveFailed(t)

----------------------------------------------------------------------------
(* reinjectDeferredData *)

Matches(p, directions) == dir[p] \in directions
Type(t) == IF t = closer THEN only ELSE Directions
AfterInjection(t) ==
  IF t = injector THEN "deliver"
  ELSE IF t = closer /\ only = Directions THEN "completion" ELSE "idle"

(* The packets of these directions before the first that must stay.        *)
Ready(directions) ==
  LET stays(i) == /\ Matches(q[i], directions)
                  /\ q[i] \in unreported \/ q[i] \notin answered \cup old IN
  {q[i] : i \in {k \in DOMAIN q : Matches(q[k], directions) /\ \A j \in 1 .. k : ~stays(j)}}

CollectUnserialized(t) ==
  /\ pc[t] = "collect" /\ lock = NoThread
  /\ batch' = Set(batch, t, Kept(q, Ready(Type(t))))
  /\ q' = Kept(q, Range(q) \ Ready(Type(t)))
  /\ GoTo(t, "inject")
  /\ UNCHANGED << packetVars, unreported, waiter, waiting, listed, shrunk, socketVars, lock >>
  /\ UNCHANGED << bufferVars, callVars, pending, mutex, entered, injected >>

Collect(t) ==
  /\ pc[t] = "collect" /\ mutex = NoThread /\ lock = NoThread
  /\ mutex' = t
  /\ batch' = Set(batch, t, Kept(q, Ready(Type(t))))
  /\ q' = Kept(q, Range(q) \ Ready(Type(t)))
  /\ GoTo(t, "inject")
  /\ UNCHANGED << packetVars, unreported, waiter, waiting, listed, shrunk, socketVars, lock >>
  /\ UNCHANGED << bufferVars, callVars, pending, entered, injected >>

Dropped(p) == disconnecting \/ p \notin allow

Inject(t) ==
  /\ pc[t] = "inject" /\ batch[t] # << >>
  /\ LET p == Head(batch[t]) IN
       /\ injected' = IF Dropped(p) THEN injected ELSE Append(injected, p)
       /\ pending' = [pending EXCEPT ![dir[p]] = @ - 1]
  /\ batch' = Set(batch, t, Tail(batch[t]))
  /\ UNCHANGED << packetVars, reportVars, socketVars, lock, bufferVars, pc, callVars, mutex, entered >>

(* wakeupWaitingFotInjectionCompletion: those that wait look at the        *)
(* counters.                                                               *)
Injected(t) ==
  /\ pc[t] = "inject" /\ batch[t] = << >>
  /\ mutex' = NoThread
  /\ GoTo(t, AfterInjection(t))
  /\ UNCHANGED << packetVars, reportVars, socketVars, lock, bufferVars, callVars >>
  /\ UNCHANGED << pending, batch, entered, injected >>

Reinject(t) == Collect(t) \/ Inject(t) \/ Injected(t)

----------------------------------------------------------------------------
(* processServiceResponse.  The service answers in any order, or never.    *)
Respond(t) ==
  /\ pc[t] = "idle" /\ client
  /\ \E n \in inbox :
       /\ inbox' = inbox \ {n}
       /\ cur' = Set(cur, t, n.pkt) /\ buf' = Set(buf, t, n.buffer)
  /\ GoTo(t, "release")
  /\ UNCHANGED << packetVars, reportVars, socketVars, lock, free, client >>
  /\ UNCHANGED << release, failed, outer, only, flowVars >>

(* setDeferredDataProperties, of a socket that is in SocketsList; the      *)
(* packet may be gone.                                                     *)
Found(p) == /\ Contains(q, p)
            /\ \A i \in DOMAIN q : q[i] \in unreported => \E j \in 1 .. i - 1 : q[j] = p

Answer(t) ==
  LET p == cur[t] IN
  /\ pc[t] = "answer" /\ lock = NoThread
  /\ IF InList /\ Found(p)
     THEN answered' = answered \cup {p} /\ allow' \in {allow \cup {p}, allow \ {p}}
     ELSE UNCHANGED << answered, allow >>
  /\ GoTo(t, IF InList THEN "collect" ELSE "idle")
  /\ cur' = Set(cur, t, 0)
  /\ UNCHANGED << made, dir, old, reportVars, socketVars, lock, bufferVars >>
  /\ UNCHANGED << buf, release, failed, outer, only, flowVars >>

(* InjectionThreadRoutine, every second *)
InjectorWakes ==
  /\ pc[injector] = "idle"
  /\ GoTo(injector, IF InList /\ q # << >> THEN "collect" ELSE "deliver")
  /\ UNCHANGED << packetVars, reportVars, socketVars, lock, bufferVars, callVars, flowVars >>

----------------------------------------------------------------------------
(* FltNotify and FltDetach *)

(* The events that touch the data: the purge or the injection they call    *)
(* for.                                                                    *)
Event(e, place, directions) ==
  /\ pc[closer] = "idle" /\ InList /\ e \notin events /\ Inputs < MaxInputs
  /\ events' = events \cup {e}
  /\ only' = directions
  /\ GoTo(closer, place)
  /\ UNCHANGED << packetVars, reportVars, stage, disconnecting, lock, bufferVars >>
  /\ UNCHANGED << cur, buf, release, failed, outer, flowVars >>

Closing       == Event("closing", "purge", {"in"})         (* or SHUT_RD    *)
ShutdownWrite == Event("shutdown", "collect", {"out"})
CantReceive   == Event("cantrecvmore", "collect", {"in"})
Disconnecting == Event("disconnecting", "collect", Directions)

(* checkForInjectionCompletion, of a disconnecting or detached socket; the *)
(* flag of the event is set afterwards.                                    *)
Completed ==
  /\ pc[closer] = "completion" /\ \A d \in Directions : pending[d] = 0
  /\ IF InList
     THEN disconnecting' = TRUE /\ UNCHANGED stage
     ELSE stage' = "detached" /\ UNCHANGED disconnecting
  /\ GoTo(closer, "idle")
  /\ UNCHANGED << packetVars, reportVars, events, lock, bufferVars, callVars, flowVars >>

(* removeFromSocketsList.  No data callback runs when a socket is          *)
(* detached, so the detaching lock is free.                                *)
Detach ==
  /\ pc[closer] = "idle" /\ InList /\ lock = NoThread
  /\ \A t \in Callers : pc[t] = "idle"
  /\ stage' = "listless" /\ listed' = FALSE
  /\ GoTo(closer, "purge") /\ only' = Directions
  /\ UNCHANGED << packetVars, q, unreported, waiter, waiting, shrunk, events, disconnecting >>
  /\ UNCHANGED << lock, bufferVars, cur, buf, release, failed, outer, flowVars >>

(* purgePendingQueue *)
PurgeUncounted ==
  LET purged == {p \in Range(q) : Matches(p, only)} IN
  /\ pc[closer] = "purge" /\ mutex = NoThread /\ lock = NoThread
  /\ q' = Kept(q, Range(q) \ purged)
  /\ waiter' = [p \in Packets |-> IF p \in purged THEN NoThread ELSE waiter[p]]
  /\ unreported' = unreported \ purged
  /\ pending' = [d \in Directions |-> pending[d] - Cardinality({p \in purged : dir[p] = d})]
  /\ GoTo(closer, AfterInjection(closer))
  /\ UNCHANGED << packetVars, waiting, listed, shrunk, socketVars, lock, bufferVars, callVars >>
  /\ UNCHANGED << mutex, batch, entered, injected >>

Purge ==
  LET purged == {p \in Range(q) : Matches(p, only)} IN
  /\ pc[closer] = "purge" /\ mutex = NoThread /\ lock = NoThread
  /\ q' = Kept(q, Range(q) \ purged)
  /\ waiter' = [p \in Packets |-> IF p \in purged THEN NoThread ELSE waiter[p]]
  /\ unreported' = unreported \ purged
  /\ waiting' = waiting - Cardinality(purged \cap unreported)
  /\ pending' = [d \in Directions |-> pending[d] - Cardinality({p \in purged : dir[p] = d})]
  /\ GoTo(closer, AfterInjection(closer))
  /\ UNCHANGED << packetVars, listed, shrunk, socketVars, lock, bufferVars, callVars >>
  /\ UNCHANGED << mutex, batch, entered, injected >>

(* The deadline of a pending packet passes, 60 seconds after allocation.   *)
Expire ==
  /\ \E p \in Range(q) : p \notin old /\ old' = old \cup {p}
  /\ UNCHANGED << made, dir, answered, allow, reportVars, socketVars, lock, bufferVars, pc >>
  /\ UNCHANGED << callVars, flowVars >>

(* unregisterUserClient: what the service was sent stays unanswered.       *)
ServiceLeaves ==
  /\ client /\ client' = FALSE
  /\ UNCHANGED << packetVars, reportVars, socketVars, lock, free, inbox, pc, callVars, flowVars >>

----------------------------------------------------------------------------
FltData(t) == Copy(t) \/ Enqueue(t) \/ Notify(t) \/ Awake(t)
Works(t) == FltData(t) \/ ReleaseBuffer(t) \/ Deliver(t) \/ Reinject(t)

Next ==
  \/ \E t \in Threads : Works(t)
  \/ \E t \in Callers : Allocate(t)
  \/ \E t \in Services : Respond(t) \/ Answer(t)
  \/ InjectorWakes
  \/ Closing \/ ShutdownWrite \/ CantReceive \/ Disconnecting \/ Detach
  \/ Completed \/ Purge \/ Expire \/ ServiceLeaves

Spec == Init /\ [][Next]_vars

(* Threads run and time passes.                                            *)
FairSpec ==
  /\ Spec
  /\ \A t \in Threads : WF_vars(Works(t))
  /\ \A t \in Services : WF_vars(Answer(t))
  /\ WF_vars(InjectorWakes) /\ WF_vars(Completed) /\ WF_vars(Purge) /\ WF_vars(Expire)

----------------------------------------------------------------------------
TypeOK ==
  /\ Range(q) \subseteq 1 .. made /\ unreported \cup answered \cup allow \cup old \subseteq 1 .. made
  /\ dir \in [Packets -> Directions] /\ waiter \in [Packets -> Threads \cup {NoThread}]
  /\ waiting \in Nat /\ pending \in [Directions -> Nat]
  /\ stage \in {"attached", "listless", "detached"}
  /\ free \subseteq Buffers /\ cur \in [Threads -> 0 .. MaxPackets]
  /\ buf \in [Threads -> Buffers \cup {NoBuffer}]

(* The packets that wait to be reported are at the tail of the queue, are  *)
(* counted, and are not forgotten: the socket is in the list to report or  *)
(* a delivery has it in hand (verifyPendingPacketsQueue, and the test in   *)
(* DeliverWaitingNotifications).  A sender sleeps only for such a packet.  *)
Delivering(t) ==
  pc[t] \in {"locksocket", "report", "reinsert"} \/ Contains(outer[t], "reinsert")
WaitersReported ==
  /\ TypeOK
  /\ \A i, j \in DOMAIN q : i < j /\ q[i] \in unreported => q[j] \in unreported
  /\ waiting = Cardinality(unreported) /\ unreported \subseteq Range(q)
  /\ unreported # {} => listed \/ stage # "attached" \/ \E t \in Threads : Delivering(t)
  /\ \A p \in Packets : waiter[p] # NoThread => p \in unreported

(* Packets of one direction are injected in the order in which they came,  *)
(* each once and only if the service allowed it.                           *)
InOrder ==
  /\ \A p \in Range(injected) : p \in answered \cap allow
  /\ \A i, j \in DOMAIN injected :
       i < j => /\ injected[i] # injected[j]
                /\ dir[injected[i]] = dir[injected[j]] =>
                     \E k, l \in DOMAIN entered :
                       k < l /\ entered[k] = injected[i] /\ entered[l] = injected[j]

(* The receive buffer is small only while a packet waits to be reported,   *)
(* or when nothing will be read (the purge leaves it).                     *)
WindowReopens ==
  shrunk => (\E p \in unreported : dir[p] = "in") \/ "closing" \in events \/ stage # "attached"

(* No packet that waits for the service is forgotten, and none leaves the  *)
(* socket throttled behind it.                                             *)
NoneForgotten == WaitersReported /\ WindowReopens

(* When FltDetach has returned nothing of the socket is pending and nobody *)
(* injects into it.                                                        *)
NothingAfterDetach ==
  stage = "detached" =>
    /\ q = << >> /\ waiting = 0 /\ \A d \in Directions : pending[d] = 0
    /\ \A t \in Threads : batch[t] = << >>

(* A sender is released, the detachment returns, and every packet leaves.  *)
Drains ==
  /\ \A t \in Callers : pc[t] = "wait" ~> pc[t] = "idle"
  /\ pc[closer] = "completion" ~> pc[closer] = "idle"
  /\ \A p \in Packets : Contains(q, p) ~> ~Contains(q, p)

(* The code says of a delivery that goes on after a notification was not   *)
(* sent: ``a severe logic error that results in buffers acquired forever''.*)
(* A buffer is free, in the hands of a thread, or with the service.        *)
NoBufferLost ==
  \A b \in Buffers : \/ b \in free
                     \/ \E n \in inbox : n.buffer = b
                     \/ \E t \in Threads : buf[t] = b
=============================================================================
