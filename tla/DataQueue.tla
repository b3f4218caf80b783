----------------------------- MODULE DataQueue -----------------------------
(***************************************************************************)
(* DldIODataQueue: the ring of variable sized entries that carries shadow  *)
(* requests from the threads that intercept I/O to the shadow thread.      *)
(*                                                                         *)
(* A producer reserves space under the lock, copies its data outside of    *)
(* it and publishes the entry under the lock again, in the order of the    *)
(* reservations: a producer that comes too early sleeps on the address of  *)
(* its old tail until its predecessor has published.  A consumer takes an  *)
(* entry in place and removes it later; a consumer that removes too early  *)
(* sleeps on the address of its entry.                                     *)
(*                                                                         *)
(* Offsets and sizes count cells; a header takes HeaderSize cells.  The    *)
(* memory is two functions of the offset: hdr, the header that starts      *)
(* there, and cells, the entry whose data was last copied there.  Every    *)
(* section that holds the lock is one action.  The build modelled is the   *)
(* release one, where the assertions of the code are not evaluated; the    *)
(* ones worth stating are properties below.                                *)
(*                                                                         *)
(* An operator that stands before a definition and has its name, or one    *)
(* like it, varied is that definition with a plausible mistake; the        *)
(* properties are tried on them.                                           *)
(***************************************************************************)
EXTENDS Integers, FiniteSets

CONSTANTS
  QueueSize,   (* cells of the ring, dataQueue->queueSize                  *)
  HeaderSize,  (* DLD_DATA_QUEUE_ENTRY_HEADER_SIZE                         *)
  DataSizes,   (* the sizes of the data the producers send                 *)
  Producers,
  Consumers,
  MaxEntries   (* bound: how many entries are ever reserved                *)

(* What the constants must satisfy.                                        *)
ASSUME QueueAssumption ==
  /\ QueueSize \in Nat \ {0}
  /\ HeaderSize \in Nat \ {0}
  /\ DataSizes \subseteq Nat \ {0}
  /\ MaxEntries \in Nat
  /\ Producers \cap Consumers = {}

VARIABLES
  head, tail,                    (* the space that must not be allocated   *)
  validDataHead, validDataTail,  (* the published entries inside of it     *)
  waitersForHeadPropogation,
  waitersForTailPropogation,
  hdr,      (* offset -> the entry header that starts there                *)
  cells,    (* offset -> the entry whose data the cell holds, 0 if none    *)
  pcQ,      (* where each thread is                                        *)
  loc,      (* the local variables of each thread                          *)
  waitOn,   (* the event each thread is queued on, NoEvent if runnable     *)
  n,        (* history: the number of reservations                         *)
  taken,    (* history: the number of entries handed to consumers          *)
  placed,   (* history: the placement of each reservation                  *)
  overtaken (* history: a producer has published before its turn           *)

ring     == << head, tail, validDataHead, validDataTail >>
waiters  == << waitersForHeadPropogation, waitersForTailPropogation >>
history  == << n, taken, placed, overtaken >>
ringVars == << ring, waiters, hdr, cells, pcQ, loc, waitOn, history >>

Threads == Producers \cup Consumers
Offsets == 0 .. QueueSize
Ids     == 1 .. MaxEntries

NoEvent   == -1
DataEvent == -2    (* the address of the queue itself, see waitForData     *)

Junk == [dataSize |-> -1, waitHead |-> FALSE, waitTail |-> FALSE,
         intermediate |-> FALSE, id |-> 0]
Header(s, inter, id) ==
  [dataSize |-> s, waitHead |-> FALSE, waitTail |-> FALSE,
   intermediate |-> inter, id |-> id]

NoLocals == [id |-> 0, size |-> 0, entry |-> 0, oldTail |-> 0, newTail |-> 0]

(***************************************************************************)
(* Memory.  A header destroys the headers and the data it is written over, *)
(* and so does data; what is read from a destroyed header, from memory     *)
(* never written or from behind the end of the ring is arbitrary.          *)
(***************************************************************************)
HeaderCells(o) == o .. (o + HeaderSize - 1)
DataCells(o, s) == (o + HeaderSize) .. (o + HeaderSize + s - 1)

PutData(h, o, s) ==
  [x \in Offsets |->
     IF o < x /\ x < o + HeaderSize + s THEN Junk ELSE h[x]]

At(h, o) == IF o \in Offsets THEN h[o] ELSE Junk
SizesRead(h, o) ==
  IF At(h, o) = Junk THEN 0 .. QueueSize ELSE {At(h, o).dataSize}
WaitTailRead(h, o) ==
  IF At(h, o) = Junk THEN BOOLEAN ELSE {At(h, o).waitTail}
WaitHeadRead(h, o) ==
  IF At(h, o) = Junk THEN BOOLEAN ELSE {At(h, o).waitHead}

Wakeup(event) ==
  [t \in Threads |-> IF waitOn[t] = event THEN NoEvent ELSE waitOn[t]]

----------------------------------------------------------------------------
(* enqueueScatterGather *)

EntrySize(s) == s + HeaderSize

LooseAtEnd(s) ==
  /\ tail >= head
  /\ tail + s <= QueueSize
TightEnd(s) ==
  /\ tail >= head
  /\ tail + EntrySize(s) < QueueSize
FitsAtEnd(s) ==
  /\ tail >= head
  /\ tail + EntrySize(s) <= QueueSize

(* Not enough room behind the tail, enough before the head: the tail must  *)
(* not catch up with the head, a full ring would look empty.               *)
LooseWrap(s) ==
  /\ tail >= head
  /\ tail + EntrySize(s) > QueueSize
  /\ head >= EntrySize(s)
Wraps(s) ==
  /\ tail >= head
  /\ tail + EntrySize(s) > QueueSize
  /\ head > EntrySize(s)

LooseGap(s) ==
  /\ tail < head
  /\ head - tail >= EntrySize(s)
FitsInGap(s) ==
  /\ tail < head
  /\ head - tail > EntrySize(s)

(* The entry's header goes to off, an intermediate header to the offsets   *)
(* in tramps: the trampoline to the entry at the beginning of the ring.    *)
Place(p, s, off, newTail, tramps) ==
  /\ hdr' = [x \in Offsets |->
               IF x = off THEN Header(s, FALSE, n + 1)
               ELSE IF x \in tramps THEN Header(s, TRUE, 0)
               ELSE IF \E o \in tramps \cup {off} :
                          o - HeaderSize < x /\ x < o + HeaderSize
               THEN Junk ELSE hdr[x]]
  /\ cells' = [x \in Offsets |->
                 IF \E o \in tramps \cup {off} : x \in HeaderCells(o)
                 THEN 0 ELSE cells[x]]
  /\ tail' = newTail
  /\ n' = n + 1
  /\ placed' = [placed EXCEPT ![n + 1] =
               [pre |-> tail, off |-> off, size |-> s, end |-> newTail]]
  /\ loc' = [loc EXCEPT ![p] = [id |-> n + 1, size |-> s, entry |-> off,
                                oldTail |-> tail, newTail |-> newTail]]
  /\ pcQ' = [pcQ EXCEPT ![p] = "copy"]
  /\ UNCHANGED << head, validDataHead, validDataTail, waiters, taken, waitOn, overtaken >>

ReserveAtTail(p, s) ==
  /\ pcQ[p] = "idle" /\ n < MaxEntries
  /\ FitsAtEnd(s) \/ FitsInGap(s)
  /\ Place(p, s, tail, tail + EntrySize(s), {})

(* The trampoline is written only when there is room for a header.         *)
SkipTrampoline(o) == {}
Trampolines(o) == IF QueueSize - o >= HeaderSize THEN {o} ELSE {}

ReserveWrapped(p, s) ==
  /\ pcQ[p] = "idle" /\ n < MaxEntries
  /\ Wraps(s)
  /\ Place(p, s, 0, EntrySize(s), Trampolines(tail))

Full(s) == ~FitsAtEnd(s) /\ ~Wraps(s) /\ ~FitsInGap(s)

Reject(p, s) ==
  /\ pcQ[p] = "idle" /\ n < MaxEntries
  /\ Full(s)
  /\ pcQ' = [pcQ EXCEPT ![p] = "rejected"]
  /\ UNCHANGED << ring, waiters, hdr, cells, loc, waitOn, history >>

Copy(p) ==
  /\ pcQ[p] = "copy"
  /\ LET l == loc[p] IN
       /\ hdr' = PutData(hdr, l.entry, l.size)
       /\ cells' = [x \in Offsets |->
                      IF x \in DataCells(l.entry, l.size) THEN l.id ELSE cells[x]]
  /\ pcQ' = [pcQ EXCEPT ![p] = "copied"]
  /\ UNCHANGED << ring, waiters, loc, waitOn, history >>

(* Publish the entry; under the same lock find out whether the producer of *)
(* the next entry sleeps.  w is the number of producers that sleep.        *)
PropagateTail(p, w) ==
  LET l == loc[p] IN
    /\ validDataTail' = l.newTail
    /\ \E asleep \in WaitTailRead(hdr, l.newTail) :
         pcQ' = [pcQ EXCEPT ![p] = IF w # 0 /\ asleep THEN "wakeNext" ELSE "sent"]
    /\ overtaken' = (overtaken \/ l.oldTail # validDataTail)
    /\ UNCHANGED << head, tail, validDataHead, cells, loc, n, taken, placed >>

EagerPublish(p) ==
  /\ pcQ[p] = "copied"
  /\ PropagateTail(p, waitersForTailPropogation)
  /\ UNCHANGED << waiters, hdr, waitOn >>
Publish(p) ==
  /\ pcQ[p] = "copied"
  /\ loc[p].oldTail = validDataTail
  /\ PropagateTail(p, waitersForTailPropogation)
  /\ UNCHANGED << waiters, hdr, waitOn >>

BackOffWithoutWait(p) ==
  /\ pcQ[p] = "copied"
  /\ loc[p].oldTail # validDataTail
  /\ waitersForTailPropogation' = waitersForTailPropogation + 1
  /\ hdr' = [hdr EXCEPT ![loc[p].entry].waitTail = TRUE]
  /\ pcQ' = [pcQ EXCEPT ![p] = "waitTail"]
  /\ UNCHANGED << ring, waitersForHeadPropogation, cells, loc, waitOn, history >>
BackOffUnmarked(p) ==
  /\ pcQ[p] = "copied"
  /\ loc[p].oldTail # validDataTail
  /\ waitersForTailPropogation' = waitersForTailPropogation + 1
  /\ waitOn' = [waitOn EXCEPT ![p] = loc[p].oldTail]
  /\ pcQ' = [pcQ EXCEPT ![p] = "waitTail"]
  /\ UNCHANGED << ring, waitersForHeadPropogation, hdr, cells, loc, history >>
BackOff(p) ==
  /\ pcQ[p] = "copied"
  /\ loc[p].oldTail # validDataTail
  /\ waitersForTailPropogation' = waitersForTailPropogation + 1
  /\ hdr' = [hdr EXCEPT ![loc[p].entry].waitTail = TRUE]
  /\ waitOn' = [waitOn EXCEPT ![p] = loc[p].oldTail]
  /\ pcQ' = [pcQ EXCEPT ![p] = "waitTail"]
  /\ UNCHANGED << ring, waitersForHeadPropogation, cells, loc, history >>

ResumePublish(p) ==
  /\ pcQ[p] = "waitTail" /\ waitOn[p] = NoEvent
  /\ waitersForTailPropogation' = waitersForTailPropogation - 1
  /\ PropagateTail(p, waitersForTailPropogation - 1)
  /\ UNCHANGED << waitersForHeadPropogation, hdr, waitOn >>

WakeNextProducer(p) ==
  /\ pcQ[p] = "wakeNext"
  /\ waitOn' = Wakeup(loc[p].newTail)
  /\ pcQ' = [pcQ EXCEPT ![p] = "sent"]
  /\ UNCHANGED << ring, waiters, hdr, cells, loc, history >>

(* sendDataAvailableNotificationAllThreads, called by every sender after   *)
(* the entry has been published; a rejected sender returns its failure.    *)
SkipNotifyThreads(p) ==
  /\ pcQ[p] = "sent"
  /\ pcQ' = [pcQ EXCEPT ![p] = "idle"]
  /\ UNCHANGED << ring, waiters, hdr, cells, loc, waitOn, history >>
NotifyThreads(p) ==
  /\ pcQ[p] = "sent"
  /\ waitOn' = Wakeup(DataEvent)
  /\ pcQ' = [pcQ EXCEPT ![p] = "idle"]
  /\ UNCHANGED << ring, waiters, hdr, cells, loc, history >>

ReturnRejected(p) ==
  /\ pcQ[p] = "rejected"
  /\ pcQ' = [pcQ EXCEPT ![p] = "idle"]
  /\ UNCHANGED << ring, waiters, hdr, cells, loc, waitOn, history >>

----------------------------------------------------------------------------
(* waitForData *)

WaitForData(c) ==
  /\ pcQ[c] = "idle"
  /\ IF head = tail
     THEN /\ waitOn' = [waitOn EXCEPT ![c] = DataEvent]
          /\ pcQ' = [pcQ EXCEPT ![c] = "waitData"]
     ELSE /\ pcQ' = [pcQ EXCEPT ![c] = "dequeue"]
          /\ UNCHANGED waitOn
  /\ UNCHANGED << ring, waiters, hdr, cells, loc, history >>

DataArrived(c) ==
  /\ pcQ[c] = "waitData" /\ waitOn[c] = NoEvent
  /\ pcQ' = [pcQ EXCEPT ![c] = "dequeue"]
  /\ UNCHANGED << ring, waiters, hdr, cells, loc, waitOn, history >>

----------------------------------------------------------------------------
(* dequeueDataInPlace *)

(* The test for an entry that went around the end, made with the header at *)
(* offset o and the queue's head.                                          *)
WentAround(s) ==
  \/ head + HeaderSize > QueueSize
  \/ head + s + HeaderSize > QueueSize

TakeAt(c, off, s, newHead) ==
  /\ validDataHead' = newHead
  /\ loc' = [loc EXCEPT ![c] = [NoLocals EXCEPT !.id = At(hdr, off).id,
                                                !.size = s, !.entry = off]]
  /\ pcQ' = [pcQ EXCEPT ![c] = "holding"]
  /\ taken' = taken + 1
  /\ UNCHANGED << head, tail, validDataTail, waiters, hdr, cells, waitOn, n, placed, overtaken >>

Dequeue(c) ==
  /\ pcQ[c] = "dequeue"
  /\ validDataHead # validDataTail
  /\ \E s \in SizesRead(hdr, validDataHead) :
       IF WentAround(s)
       THEN \E s0 \in SizesRead(hdr, 0) : TakeAt(c, 0, s0, s0 + HeaderSize)
       ELSE TakeAt(c, validDataHead, s, validDataHead + s + HeaderSize)

NothingToDequeue(c) ==
  /\ pcQ[c] = "dequeue"
  /\ validDataHead = validDataTail
  /\ pcQ' = [pcQ EXCEPT ![c] = "idle"]
  /\ UNCHANGED << ring, waiters, hdr, cells, loc, waitOn, history >>

----------------------------------------------------------------------------
(* removeEntry *)

(* Whether the header at o says that the entry went around the end.        *)
AroundAt(h, o) ==
  {o + HeaderSize > QueueSize \/ o + s + HeaderSize > QueueSize :
     s \in SizesRead(h, o)}

(* The head moves behind the entry; under the same lock find out whether   *)
(* the consumer of the next entry sleeps.  w is the number that sleep.     *)
NewHead(around, s) ==
  IF around THEN s + HeaderSize ELSE head + s + HeaderSize

AdvanceHead(c, h, w) ==
  \E around \in AroundAt(h, head), s \in SizesRead(h, loc[c].entry) :
    LET new == NewHead(around, s) IN
    /\ head' = new
    /\ IF w = 0
       THEN /\ pcQ' = [pcQ EXCEPT ![c] = "dequeue"]
            /\ loc' = [loc EXCEPT ![c] = NoLocals]
       ELSE \E nextAround \in AroundAt(h, new) :
              LET next == IF nextAround THEN 0 ELSE new IN
              \E asleep \in WaitHeadRead(h, next) :
                /\ pcQ' = [pcQ EXCEPT ![c] = IF asleep THEN "wakeNext" ELSE "dequeue"]
                /\ loc' = [loc EXCEPT ![c] = [NoLocals EXCEPT !.entry = next]]
    /\ UNCHANGED << tail, validDataHead, validDataTail, cells, history >>

(* The previous entries are gone when the head points to the entry or, if  *)
(* the entry went around, when the head points to where it did not fit.    *)
AtHead(e) ==
  {head = e \/ (around /\ e = 0) : around \in AroundAt(hdr, head)}

Remove(c) ==
  /\ pcQ[c] = "holding"
  /\ TRUE \in AtHead(loc[c].entry)
  /\ AdvanceHead(c, hdr, waitersForHeadPropogation)
  /\ UNCHANGED << waiters, hdr, waitOn >>

WaitUnmarked(c) ==
  /\ pcQ[c] = "holding"
  /\ FALSE \in AtHead(loc[c].entry)
  /\ waitersForHeadPropogation' = waitersForHeadPropogation + 1
  /\ waitOn' = [waitOn EXCEPT ![c] = loc[c].entry]
  /\ pcQ' = [pcQ EXCEPT ![c] = "waitHead"]
  /\ UNCHANGED << ring, waitersForTailPropogation, hdr, cells, loc, history >>
WaitToRemove(c) ==
  /\ pcQ[c] = "holding"
  /\ FALSE \in AtHead(loc[c].entry)
  /\ waitersForHeadPropogation' = waitersForHeadPropogation + 1
  /\ hdr' = [hdr EXCEPT ![loc[c].entry].waitHead = TRUE]
  /\ waitOn' = [waitOn EXCEPT ![c] = loc[c].entry]
  /\ pcQ' = [pcQ EXCEPT ![c] = "waitHead"]
  /\ UNCHANGED << ring, waitersForTailPropogation, cells, loc, history >>

ResumeRemove(c) ==
  /\ pcQ[c] = "waitHead" /\ waitOn[c] = NoEvent
  /\ waitersForHeadPropogation' = waitersForHeadPropogation - 1
  /\ hdr' = [hdr EXCEPT ![loc[c].entry].waitHead = FALSE]
  /\ AdvanceHead(c, hdr', waitersForHeadPropogation - 1)
  /\ UNCHANGED << waitersForTailPropogation, waitOn >>

WakeNextConsumer(c) ==
  /\ pcQ[c] = "wakeNext"
  /\ waitOn' = Wakeup(loc[c].entry)
  /\ pcQ' = [pcQ EXCEPT ![c] = "dequeue"]
  /\ UNCHANGED << ring, waiters, hdr, cells, loc, history >>

----------------------------------------------------------------------------
(* initWithCapacity: the offsets are zeroed, the cells are not.            *)
RingInit ==
  /\ head = 0 /\ tail = 0 /\ validDataHead = 0 /\ validDataTail = 0
  /\ waitersForHeadPropogation = 0 /\ waitersForTailPropogation = 0
  /\ hdr = [x \in Offsets |-> Junk]
  /\ cells = [x \in Offsets |-> 0]
  /\ pcQ = [t \in Threads |-> "idle"]
  /\ loc = [t \in Threads |-> NoLocals]
  /\ waitOn = [t \in Threads |-> NoEvent]
  /\ n = 0 /\ taken = 0 /\ overtaken = FALSE
  /\ placed = [i \in Ids |-> [pre |-> 0, off |-> 0, size |-> 0, end |-> 0]]

ProducerStep(p) ==
  \/ Copy(p) \/ Publish(p) \/ BackOff(p) \/ ResumePublish(p)
  \/ WakeNextProducer(p) \/ NotifyThreads(p) \/ ReturnRejected(p)

Enqueue(p) ==
  \E s \in DataSizes : ReserveAtTail(p, s) \/ ReserveWrapped(p, s) \/ Reject(p, s)

ConsumerStep(c) ==
  \/ WaitForData(c) \/ DataArrived(c) \/ Dequeue(c) \/ NothingToDequeue(c)
  \/ Remove(c) \/ WaitToRemove(c) \/ ResumeRemove(c) \/ WakeNextConsumer(c)

RingNext ==
  \/ \E p \in Producers : Enqueue(p) \/ ProducerStep(p)
  \/ \E c \in Consumers : ConsumerStep(c)

RingSpec == RingInit /\ [][RingNext]_ringVars

(* A thread that may take a step eventually takes it; nothing forces a     *)
(* producer to send another entry.                                         *)
RingFairness ==
  /\ \A p \in Producers : WF_ringVars(ProducerStep(p))
  /\ \A c \in Consumers : WF_ringVars(ConsumerStep(c))

RingFairSpec == RingSpec /\ RingFairness

----------------------------------------------------------------------------
(* Properties *)

InFlight == {p \in Producers : pcQ[p] \in {"copy", "copied", "waitTail"}}
Holders  == {c \in Consumers : pcQ[c] \in {"holding", "waitHead"}}
Removed  == taken - Cardinality(Holders)
Live     == (Removed + 1) .. n
Ready    == {i \in Live : \A p \in InFlight : loc[p].id # i}

HeaderType == [dataSize : {-1} \cup DataSizes, waitHead : BOOLEAN,
               waitTail : BOOLEAN, intermediate : BOOLEAN, id : 0 .. MaxEntries]
LocalsType == [id : 0 .. MaxEntries, size : 0 .. QueueSize, entry : Nat,
               oldTail : Nat, newTail : Nat]
ThreadStates ==
  {"idle", "copy", "copied", "waitTail", "wakeNext", "sent", "rejected",
   "waitData", "dequeue", "holding", "waitHead"}

(* Every variable has its type; the four offsets are never negative.       *)
RingTypeOK ==
  /\ head \in Nat /\ tail \in Offsets
  /\ validDataHead \in Nat /\ validDataTail \in Offsets
  /\ waitersForHeadPropogation \in Int /\ waitersForTailPropogation \in Int
  /\ hdr \in [Offsets -> HeaderType]
  /\ cells \in [Offsets -> 0 .. MaxEntries]
  /\ pcQ \in [Threads -> ThreadStates]
  /\ loc \in [Threads -> LocalsType]
  /\ waitOn \in [Threads -> Nat \cup {NoEvent, DataEvent}]
  /\ n \in 0 .. MaxEntries /\ taken \in Nat
  /\ placed \in [Ids -> [pre : Offsets, off : Offsets, size : 0 .. QueueSize,
                         end : Offsets]]

(* Entries that were given space and not yet removed never overlap and     *)
(* never reach over the end of the ring, wherever the tail wrapped         *)
(* (enqueueScatterGather, the three size comparisons).                     *)
RegionsDisjoint ==
  \A i \in Live :
    /\ placed[i].off + EntrySize(placed[i].size) <= QueueSize
    /\ \A j \in Live :
         i # j => \/ placed[i].off + EntrySize(placed[i].size) <= placed[j].off
                  \/ placed[j].off + EntrySize(placed[j].size) <= placed[i].off

(* An entry handed out in place is immutable: from its publication to its  *)
(* removal its header still names its size and every cell of its data is   *)
(* what its producer copied (DldIODataQueue.h: the header of the returned  *)
(* entry must not be changed; dequeueDataInPlace returns a pointer).       *)
InPlaceIntact ==
  \A i \in Ready :
    /\ hdr[placed[i].off].id = i
    /\ hdr[placed[i].off].dataSize = placed[i].size
    /\ ~hdr[placed[i].off].intermediate
    /\ \A x \in DataCells(placed[i].off, placed[i].size) : cells[x] = i

(* A consumer is given a real entry, never the intermediate header at the  *)
(* end of the ring nor memory nobody published (the assertions of          *)
(* dequeueDataInPlace and removeEntry).                                    *)
ConsumersHoldEntries ==
  \A c \in Holders :
    /\ loc[c].id \in Ready
    /\ loc[c].entry = placed[loc[c].id].off
    /\ loc[c].size = placed[loc[c].id].size

(* A ring without a live entry accepts every entry that takes no more than *)
(* half of it, wherever its head stopped: a smaller entry is rejected only *)
(* because others are in the ring.                                         *)
EmptyAcceptsHalf ==
  head = tail => \A s \in DataSizes :
                   2 * EntrySize(s) <= QueueSize => ~Full(s)

(* What a consumer holds is what its producer sent, and there is room for  *)
(* more when nothing is left, wherever the tail and the head have wrapped  *)
(* (enqueueScatterGather, dequeueDataInPlace and removeEntry together).    *)
RingIntact ==
  /\ RingTypeOK /\ RegionsDisjoint /\ InPlaceIntact /\ ConsumersHoldEntries
  /\ EmptyAcceptsHalf

(* A producer that slept for its predecessor publishes only when every     *)
(* earlier entry is published: the assertion after the wait in             *)
(* enqueueScatterGather, which sleeps once and does not test again.        *)
ResumesInOrder ==
  \A p \in Producers :
    pcQ[p] = "waitTail" /\ waitOn[p] = NoEvent => loc[p].oldTail = validDataTail

(* Nobody sleeps for a predecessor that is gone: when a sleeping           *)
(* producer's turn has come, some thread is on its way to wake it.         *)
TurnIsSignalled ==
  \A p \in Producers :
    /\ pcQ[p] = "waitTail" /\ waitOn[p] # NoEvent
    /\ loc[p].oldTail = validDataTail
    => \E q \in Producers : pcQ[q] = "wakeNext" /\ loc[q].newTail = waitOn[p]

(* The same for a producer whose entry lies where its predecessor ended.   *)
TurnIsSignalledInPlace ==
  \A p \in Producers :
    /\ pcQ[p] = "waitTail" /\ waitOn[p] # NoEvent
    /\ loc[p].oldTail = validDataTail /\ loc[p].entry = loc[p].oldTail
    => \E q \in Producers : pcQ[q] = "wakeNext" /\ loc[q].newTail = waitOn[p]

(* The consumer that sleeps for data is woken: a published entry is never  *)
(* left in the ring while the consumer sleeps and no sender is about to    *)
(* send the notification.                                                  *)
NoSleepOverData ==
  (\E c \in Consumers : pcQ[c] = "waitData" /\ waitOn[c] # NoEvent) =>
    \/ validDataHead = validDataTail
    \/ \E p \in Producers : pcQ[p] \in {"wakeNext", "sent"}

(* Neither a producer whose entry follows in place nor the consumer sleeps *)
(* for something that has happened.                                        *)
NobodySleepsOver == TurnIsSignalledInPlace /\ NoSleepOverData

(* An entry that was given space is handed out and removed, unless the     *)
(* wake-up of a producer whose turn has come was lost: the one way, found  *)
(* by DataQueueLostWakeup, in which the queue stops (enqueueScatterGather, *)
(* waitForData, removeEntry).                                              *)
EveryEntryRemoved ==
  \A i \in Ids : n = i ~> Removed >= i \/ ~TurnIsSignalled

Channel == INSTANCE FifoChannel WITH
  reserved  <- n,
  published <- Cardinality({i \in 1 .. n :
                 \A p \in InFlight : loc[p].id > i}),
  handedOut <- taken,
  held      <- {loc[c].id : c \in Holders}

(* The ring is a FIFO channel: entries are published in the order of their *)
(* reservations, handed out in that order, each once.                      *)
Fifo == Channel!Spec

(* The same, as far as producers publish in their turn: every step is one  *)
(* of the channel until one of them does not.                              *)
FifoUntilOvertaken ==
  Channel!Init /\ [][overtaken' \/ Channel!Next]_(Channel!vars)
=============================================================================
