# A TLA+ model of the MacOSX-Kernel-Filter driver

DLDriver is a kernel extension that guards devices and files: it hooks IOKit
objects and the vnode operations of file systems, decides for each operation
whether the user may carry it out, writes a *shadow* copy of what is written to
removable devices, isolates files until the service has seen them, and tells a
user-space *service* what it has done. This directory holds TLA+ specifications
of its concurrent core and of the data structures and decisions that core rests
on, the TLC runs that check them on small instances, and proofs of the most
important properties for every value of the constants, which TLAPS checks.
`PROJECT.json` ties every definition to the lines of the source it models.

All paths below are relative to `src/DLDriver/`.

## 1. The system

### 1.1 Components

| Component | Source | State | Operations | Modelled in |
|---|---|---|---|---|
| Data queue | `DldIODataQueue.*` | a ring of entries: `head`, `tail`, `validDataHead`, `validDataTail`, counters of waiters; a header before each entry | `enqueueScatterGather`, `dequeueDataInPlace`, `removeEntry`, `waitForData` | `DataQueue`, `FifoChannel` |
| Notification event | `DldSupportingCode.*` | one word with four values, the kernel's wait queue | init, set, wait, wait with timeout; the resetting (synchronization) variant | `NotificationEvent`, `Latch` |
| Shadow file | `DldIOShadowFile.*` | `offset`, `lastExpansion`, `maxSize`, `switchSize` under a lock; reference count | `setFileSizes`, `expandFile`, `reserveOffset`, `write`, `free` | `ShadowFiles` |
| Array of shadow files | `DldIOShadow.cpp` | array under a read/write lock, the quota flag | `addShadowFile`, `getCurrenShadowFileReserveSpace`, `releaseAllShadowFiles` | `ShadowFiles` |
| Shadow requests | `DldIOShadow.cpp`, `DldVNodeHook.cpp`, `DldKAuthVnodeGate.cpp` | a queue of requests, a worker thread, arguments on the stacks of the hooks | `shadowFileWriteInt`, `shadowFileOpenCloseInt`, `processFileWriteWQ`, `shadowCreateCloseWQ`, `shadowOperationCompletion` | `ShadowRequests` |
| SCSI tasks | `DldSCSITask.cpp`, `DldIOSCSIProtocolInterface.cpp`, `DldIOShadow.cpp` | a list of hooked tasks under a lock, the saved callbacks | execute, hook, shadow, complete, restore a task | `ScsiTasks` |
| User client, registries | `DldIOUserClient.*`, `DldIOLog.cpp`, `DldServiceProtection.cpp`, `DldIOShadow.cpp` | who has the provider open; per registry `userClient`, `pendingUnregistration`, `clientInvocations` | `open`, `close`, `clientClose`, `terminate`, `registerUserClient`, `unregisterUserClient`, `shadowNotification`, `logData` | `UserClients`, `ClientLease` |
| Vnode objects, hooked operations | `DldVnodeHashTable.cpp`, `DldIOVnode.cpp`, `DldVNodeHook.cpp` | a hash table with a lock per line; per object the reclaim flag and counter; the hooked tables with a count of their users | create, look up, reference, reclaim, hook, unhook, call the original | `Vnodes`, `ClientLease` |
| Sparse file: chunks | `DldSparseFile.cpp` | a list of free chunks in the file, its descriptor in memory | allocate, return, expand, close, open | `FreeChunks` |
| Sparse file: tree | `DldSparseFile.cpp` | a B-tree of block numbers with a cache of nodes, a list of keys by time stamp through the nodes | insert, delete, look up, flush | `SparseTree` |
| Covered file | `DldCoveringVnode.cpp` | the sparse file of a vnode, `fileDataSize`, a lock | read, write, page out, get and set the size, purge | `CoveredFile` |
| Question to the service | `DldDiskCAWL.cpp`, `DldKAuthVnodeGate.cpp` | a waiting list per vnode of frames on the stacks of the threads | `diskCawlNotification`, `processServiceResponse` | `DiskCawl` |
| Rights | `DldKernAuthorization.cpp` | ACLs per device type | `isAccessAllowed` | `AccessRights` |
| Logged users | `DldKauthCredArray.cpp` | an array of entries and the active one, under a lock | `setUserState`, remove, the walk of a check | `LoggedUsers` |
| Socket filter | `NKE/` | per socket a queue of deferred packets, an injection mutex, the buffers | take, report, answer, reinject, detach | `Sockets`, `DataBuffers` |
| White lists | `DldWhiteList.cpp`, `DldDVDWhiteList.cpp` | arrays under a lock; the request for a media's UID | set, look up | no |
| Object properties, IOKit tracking, hook engine | `DldObjectProperty.cpp`, `DldIOService.cpp`, `DldHookerCommonClass*`, `DldIOKitHookEngine.cpp` | a graph of properties, hooked virtual tables | publish, terminate, hook | no |
| Internal log, power, IPC, single-call filters, start up | the rest | little or none | | no, see section 8 |
| distorm, sample client | `distorm/`, `../DldClient` | | | third party / user space |

### 1.2 How they interact

* A **hook** of a vnode operation (any thread of the system) finds or makes the
  **object** of the vnode, prepares a request on its stack, with an event, and
  gives it to the shadow engine; the engine queues it to its **worker thread**. A
  hook may wait for the result before it calls the original operation
  (synchronous shadowing) or after it. A SCSI command is queued in the same way,
  and its completion callback is replaced until the outcome is recorded.
* The worker takes the entries of the **data queue** in order; for a write it reserves
  room in the current **shadow file**, writes the record, notifies the service
  and sets the hook's event.
* Shadow files are created by a call of the **service** through its user client
  and taken out of the array by the worker, when they are full, or by the user
  client, when the service closes its session.
* A notification finds the user client in a **registry**, which may be left by
  its process meanwhile, and puts its message into one of the queues (`IODataQueue`)
  that the service has mapped.
* Events are shared by a waiter and one or more setters and lie mostly on the
  waiter's stack.
* Whether an operation goes on is decided from the **lists of rights** of the
  device, for the caller's credentials or those of a **logged-on user**, and for
  an isolated file by the service's **answer**.
* The writes to an isolated file go to a **sparse file** of its own; the covered
  file only gets their size.
* The table of vnode operations of a file system is hooked while one of its
  vnodes has an object.

### 1.3 What is hard, and what must be right

* *Data queue*: producers and consumers touch one ring without a lock over the
  copying. Entries must not overlap, must be whole when they are handed out, must
  come in order, and nobody may sleep over a signal.
* *Event*: the setter must not touch the word once the waiter may have returned;
  no wakeup may be lost or reach the next wait.
* *Shadow files*: two records must not share bytes, a file must be open while a
  record is on its way, quotas must hold, a file that was switched out must not
  grow, an attempt must end.
* *Requests*: the original write must not pass its shadow, the worker must not
  use a stack that is gone, the references taken are given back, completion comes
  last, every hook returns.
* *SCSI tasks*: nobody uses the task of another command or one that is freed, a
  command is reported once and after its data, and comes back to its owner.
* *Registries*: a client that is being called is alive; after its process has
  gone nothing of it is left; an old and a new client are never mixed.
* *Vnodes*: one object per vnode, none lent after its reclaim, a table that stays
  hooked while vnodes count on it, and a hook that never takes itself for the
  original operation.
* *Sparse file*: no chunk is used twice, the tree is a search tree and a map of
  what was written, a change is not lost by the cache; what is read back from a
  covered file is what was written.
* *Question*: the answer that reaches a thread is the one to its question, also
  when it comes early or late.
* *Rights*: the verdict is that of the whole list, the first denial stands, the
  active user is logged on, no entry is freed in use.
* *Sockets*: packets are reinjected in order, none is forgotten when buffers or
  the queue run out, nothing follows the detach.

`PROJECT.json` lists the hazards at their lines, with the properties that catch
them. Not all of this is so: where the code does otherwise, the properties say up
to which event they hold, and section 4 has what happens then.

## 2. Modules

| Module | What it is |
|---|---|
| `FifoChannel` | what a queue promises: entries are published in the order of reservation and handed out in that order, each once |
| `DataQueue` | the ring; implements `FifoChannel` |
| `Latch` | what a hook needs of an event: raised once, then passed; renewed for the next use |
| `NotificationEvent` | the word and the wait queue; implements `Latch` |
| `ClientLease` | what a registry, or the object of a vnode, promises: whoever uses it holds a lease, and the lease is revoked only when nobody holds it |
| `UserClients` | the sessions of the processes, the registries, the notifying threads; each registry implements `ClientLease` |
| `ShadowFiles`, `ShadowRequests`, `ScsiTasks` | the shadow engine: the files and their array; the hooks, the queue and the worker; the SCSI commands |
| `Vnodes` | the objects of vnodes and the hooked table; each object implements `ClientLease` |
| `FreeChunks`, `SparseTree`, `CoveredFile`, `DiskCawl` | the isolation of files: chunks, tree, data and size, the question to the service |
| `AccessRights`, `LoggedUsers` | the decision, and the users it is made for |
| `Sockets`, `DataBuffers` | the data path of a socket; the list of free buffers |
| `DataQueueProofs`, `NotificationEventProofs`, `UserClientsProofs`, `VnodesProofs`, `SocketsProofs` | theorems about the module of that name |
| `ShadowProofs`, `CawlProofs`, `AccessProofs` | theorems about `ShadowFiles`, `ShadowRequests` and `ScsiTasks`; about `FreeChunks` and `DiskCawl`; about `AccessRights` and `LoggedUsers` |
| `MCService`, `MCWaits`, `MCShadow`, `MCAccess`, `MCLive` | instances for TLC that hold several components |
| `MCVnodes`, `MCSockets`, `MCDataQueue`, `MCUserClients`, `MCShadowRequests`, `MCSparseTree` | instances of one module |

The components in one of the first five MC modules share no variable. A variable
`part`, chosen at the start, says which of them runs; the others stand still, so
that the state space is the sum of theirs and not the product. `MCService`
extends `UserClients` and `DataQueue`; `MCWaits` extends
`NotificationEvent` and instantiates `ScsiTasks`; `MCShadow` extends
`ShadowFiles`, `ShadowRequests` and `ScsiTasks`; `MCAccess` extends `FreeChunks`,
`DiskCawl`, `CoveredFile`, `AccessRights` and `LoggedUsers` and instantiates
`SparseTree`; `MCLive` extends `ShadowRequests` and instantiates `DataQueue`,
`UserClients`, `ShadowFiles` and `Sockets`.

In the modules an operator that stands before a definition, with its name
varied (`LooseWrap` before `Wraps`), is that definition with a plausible
mistake. It is not part of the specification: exchanging the two must make a
property fail, which `PROJECT.json` lists under "mutants".

The modules' threads are program counters over the shared state. One step is
what the code does under a lock or between two accesses to shared memory; local
computations are part of the step that uses them.

### 2.1 DataQueue

`hdr[x]` is the header that the code would find at offset `x`, `cells[x]` the entry that wrote the
data cell `x`. A header takes `HeaderSize` cells and a write into a cell of a header destroys it
(`Junk`), so that a reader of a cell that is no header reads arbitrary values, as the code would.
`ReserveAtTail`, `ReserveWrapped`, `Reject` are the three ways through lines 128-261 of
`enqueueScatterGather` with the trampoline header at the end of the ring (`Trampolines`); `Copy`,
`Publish`, `BackOff`, `ResumePublish`, `WakeNextProducer`, `NotifyThreads`, `ReturnRejected` the
rest of it. `BackOff` sets `needWakeUp` of the own header and sleeps on the address of `oldTail`;
`WakeNextProducer` looks at the header at `newTail`, as the source does. `Dequeue`,
`NothingToDequeue` model `dequeueDataInPlace`; `Remove`, `WaitToRemove`, `ResumeRemove`,
`WakeNextConsumer` model `removeEntry`. `ConsumerStep` puts them in the order of
`shadowThreadMain`. The lock that the two ends share in the code makes each region one step; the
copying, the sleeps and the wakeups are outside of it. The history `overtaken` says that a
producer has published although `validDataTail` was not its `oldTail`, which the code asserts away
(lines 330 and 335).

### 2.2 NotificationEvent

The word's states are 0 (not signalled), 1 (the waiter is preparing to block),
2 (the waiter is in the wait queue) and 3 (signalled), each compare-and-swap is
a step. `use` is one of the driver's ways to use an event: a *completion* on the
stack, waited for without a timeout (all hooks); the *terminated* event of the
sparse file subsystem, a synchronization event; the *reaper* event, whose waiter
waits with a timeout in a loop (`DldSparseFile.cpp` 100-146). `Reuse` is the next
event at the same address. `round` counts the uses.

### 2.3 ShadowFiles

One file is `offset`, `last` (the end the file was expanded to), its real end,
its two sizes and its references. `ReserveOffset` is the whole of
`reserveOffset` with the quota check, the expansion and the answer. The worker's
walk through the array (`PickFile`, `ReserveOffset`, `TakeOut`, `Drop`,
`PutBack`, `SwitchCheck`, `Switch`, `Cutoff`) is split where the code gives the
array's lock back. `SetShadowFile` and `ReleaseCreated` are the service's call,
`releaseAllShadowFiles` its close. Freed files write their terminator.

### 2.4 UserClients

`open` → `Trust` → `startLogging` registers with each registry in turn
(`LookForPending`, `SwapIn`, `Retain`) and undoes all of it when one fails;
`clientClose` closes, terminates and unregisters everywhere (`SetPending`,
`SwapOut`, `WaitForInvocations`, `Release`). The threads that notify increment
the count, read the client, verify it with two exchanges and call it, or abandon
the call. The registries' code is the same in four classes.

### 2.5 ShadowRequests

A hooked operation has a *kind*: `write`, `pageout` (both wait before the original operation, or
after it), `open` (the file operation callback: after the fact), `reclaim` (nobody waits) and
`clean` (a mapped file without dirty pages). `Completed`, `NothingToShadow`, `NoShadowResources`
and `NoDirtyPages` are the early exits of `shadowFileWriteInt`; `Enqueue`, `EnqueueFails`,
`WaitInside` its end. The worker writes chunk after chunk (`WriteChunk`, `ChunkFails`), notifies
(`NotifyClient`), publishes its result (`Finish`), signals (`SignalHook`) and gives up the vnode
(`DropReference`). The history `kept` has the operations that went through `NoDirtyPages`, which
gives back one reference less than it took. The security settings are read anew at each place the
code reads them.

### 2.6 ScsiTasks

`Execute` is the head of `ExecuteCommand`, which refuses the command, passes it
on or has it shadowed; `Create`, `SetHook`, `EnqueueTask`, `QueueFull`,
`FailToWire` prepare a task, `WaitForShadow` and `Decide` end the preparation.
`TakeJob` … `Answer` are the worker. `CompleteTask` is the device (or the refusal)
that completes the command; `Find` … `ReturnTask` are the replaced callback, which
waits for the copy, records the result, puts the owner's callback back, calls it,
gives up both references of the task and so frees it. The owner's callback may
execute the same request again while the first callback is still releasing: with
`Eager` the model allows it, without it the owner waits. The history `early` says
that an owner did not wait (see 4.1).

### 2.7 Vnodes

A thread gets hold of a vnode (`Enter`, `Retrieve`), looks its object up or makes
one (`Lookup`, `Insert`), hooks the table (`HookVnode`, `HookTable`, `SetHooked`,
or `Undo` when that fails), works and leaves; or it finds an object it once saw
and asks it for its vnode (`LookAtFlag`, `Count`, `AskAgain`, `GetWithRef`,
`Uncount`, `Wake`). The kernel marks a vnode, waits for its holders and calls the
reclaim operation, hooked (`FindObject`, `Prepare`, `AssertWait`, `Recheck`,
`RemoveObject`, `Decrement`, `UnhookTable`, `CallOriginal`) or not. `Reuse` gives
the memory to another vnode. The history `miscounted` says that an entry of the
hash was removed while its count was not zero. The part of a vnode operation that the driver adds
is in `ShadowRequests` and `CoveredFile`.

### 2.8 FreeChunks, SparseTree, CoveredFile

The three are layers: the chunks of the file, the tree that tells where a block
is, and what a reader of the covered file sees. Each operation of the lower two
runs under the exclusive lock of the file and is one action. `FreeChunks` has the
list of descriptors that lie in free chunks, with each read, write and expansion
failing at will and the file closed and opened again. `SparseTree` has the
insertion and deletion as recursive operators on trees, and for each node whether
its copy in memory is written when it leaves the cache (`sync`); `tags` is the
list by time stamp. `CoveredFile` keeps the sparse file as a map, the covered
file as a sequence of cells with the size that the file system knows, and splits a
step where the lock of the vnode is given up. A write ends whole (`WriteKept`),
in part, with blocks that failed and a residual (`WriteInterrupted`, when
`disableAccessOnCawlError` is set), not begun (`WriteRefused`), or in the bypass
(`WriteFails`, when it is not set). The history `content` has what was last
written to each unit of the file, `lost` the units that the code lost by a stale
size. `sound` of `FreeChunks` is true until the file is opened again with a list
of free chunks or with an old header.

### 2.9 DiskCawl

`Begin` makes the frame and its ID, `Insert` puts it on the waiting list, `Send`
sends, `LookAndWait` waits for two minutes at most (`Timeout`), `Remove` takes the
frame off, `Decide` is what the vnode gate makes of the answer. `Answer` is
`processServiceResponse`: it writes to every frame on the list that has its ID.
The borrowed client is one step here and is in `UserClients` step by step.

### 2.10 AccessRights, LoggedUsers

One check goes through credentials, for each through three levels, for each
through a list: `StartEvaluation`, then one entry a step (`PassOver`, `Permit`,
`Deny`, `EndOfList`), `Conclude`, the list for the log, `TakeAnswer`. The level of a
list, the credentials and the exemption are chosen as the code computes them.
`VerdictRight` compares the verdict with `Expected`, which says it of the list as
a whole.

In `LoggedUsers` an announcement of the service (`setUserState`) is a thread with
one action for each hold of the lock; `Take`, `Check`, `Walk`, `NameTaken`,
`DldReleaseResources` are the check on behalf of the active user. `refs` and `sess`
are the entries' references and sessions; memory that is freed is used again.

### 2.11 Sockets, DataBuffers

A packet goes through `FltData` (`Copy`, `Enqueue`, `Notify`), is answered by the
service (`Respond`, `Answer`) or runs out of time (`Expire`), and is reinjected or
dropped (`Collect`, `Inject`, `Injected`) by whoever gets the injection mutex:
the service's thread, the sender, the injector or the thread that closes the
socket. `Report`, `Reinsert`, `Deliver` report packets that had no buffer. `Purge`
and `Detach` are the end of the socket. `DataBuffers` is the list of free buffers
that `Sockets` takes from, each compare-and-swap and each read of a link a step.

## 3. Runs

Every run ends with an exhausted state space or, for the violation runs of
section 4, with a counterexample. `CHECK_DEADLOCK FALSE` is given, except for
`DataBuffersABA`, since the bounded counters, and processes that have ended, let
the models stop.

| Run | Bounds | Shows |
|---|---|---|
| `Service` | ring of 10 cells, headers of 2, entries of 1 or 3 cells, 2 producers, 1 consumer, 6 entries; the same with a second consumer and 2 entries (no wrap); 2 processes, 2 notifying threads, 2 registries | regions apart, entries intact, each read at its turn (`RingIntact`), nobody sleeps over data, `Fifo`; live clients, no mix, nothing left behind, `Leases` |
| `Waits` | 2 setters, 3 uses, 3 rounds; 2 SCSI requests used once, a queue of 1 | no lost, stray or late wakeup, reset, `IsLatch`, waiter and setter go on; a SCSI command comes back to its owner |
| `Shadow` | 2 files, 3 records of 2 or 3 units, quotas of 5 and 8 units and none, switches at 4 and 8; 2 operations of 5 kinds, a queue of 2; 2 SCSI requests used twice, 2 tasks, 2 completing threads, a queue of 1 | room of a record, quota, cutoff, no file dropped untried; live stacks and exact references, but for the one that a clean pageout keeps, the original after its shadow, the completion last; tasks accounted, an unshadowed command refused |
| `Vnodes` | 2 vnodes, 3 threads, 3 objects, 2 entries, 1 reuse | one object of a vnode; the table hooked exactly while it has an entry, which counts the hooked vnodes until one was removed with a count; no recursion, `LentUntilReclaimed` |
| `Sockets` | 3 packets, 1 sender, 1 thread of the service, 1 buffer, a queue of 1 | no packet and no sender forgotten, order, nothing after the detach |
| `Access` | 8 chunks, 2 entries a descriptor; 10 blocks in a tree of order 2; a file of 2 blocks, 3 calls of 2 threads; 3 questions of 2 threads; 3 users, 5 lists; 2 announcements, or one and a check, with 2 sessions and 3 entries | no chunk used twice until a file with free chunks is opened again, a tree that is a map, what is read is what was written but for what a stale size loses, whichever blocks fail; own answers; the verdict and the first denial; the active user listed, entries counted |
| `Live` | ring of 7 cells, headers of 2, entries of 1 or 2 cells, 2 producers, 1 consumer, 4 entries; 1 process, 2 threads; 2 writes, a queue of 1; 3 records, 2 files; 2 packets, no buffer | every entry is removed unless the wake-up for a turn was lost, unregistration and hooks return, the search for a file ends, a socket drains |

Why the bounds suffice: the ring wraps at least twice with entries of both parities, so that each
of the three placements, the trampoline and the refusal occur at each offset that can be reached;
a third producer is needed only for a case in section 4.1. The ring of `Live` wraps with both
producers on their way, so that the lost wake-up of `DataQueueLostWakeup` occurs in it: without
the exception in `EveryEntryRemoved` the property is violated there. An event has one waiter; two
setters are the fewest that collide, the rounds show what one leaves for the next. With two files
there is a current and a next one; three records of 3 units overflow a file of 8. Two processes
are an old and a new service; two registries are the fewest with an order; two threads are in two
registries or in the same. One operation of `ShadowRequests` interferes with another only through
the queue and the worker, so that two suffice. One unit of `ShadowFiles` is 32 MB: the expansion
step is 4 units and the least quota 8, as in the source; the 16 MB of free space below which a
file is expanded are rounded up to one unit. A request of `ScsiTasks` used twice is the fewest
that meets its own past. Of three threads of `Vnodes` one creates, one finds and one reclaims, and
an entry of the table is removed too early; a fourth is needed for the second object of 4.1. Three
descriptors of free chunks are the fewest of which one is neither the first nor the last. A tree
of order 2 over ten blocks is three levels high, so that a deletion borrows, merges and loses a
level. A third question meets the late answer to the first. Two threads and three calls on a
covered file lose data in each of the three ways that `lost` remembers. The lists of rights have
up to four entries, so that a denial has something before and after it.

For most of the safety properties the bounds matter less than they seem: section
6 proves them for all values.

`LoggedUsers` is checked under two restrictions, two announcing threads, and
one with one checking thread; with all three it has some five million states
(and the properties hold, which takes longer than a run should; 6.8 proves them for
any number of threads). Symmetry is used
for producers, notifying threads, operations and the sets of `Vnodes`, in safety
runs only.

## 4. Where the code and its comments part

Each of these runs finds a behaviour of the model that contradicts what a
comment or an assertion of the code says.

| Run | What it shows |
|---|---|
| `DataQueueLostWakeup` | a producer waits marking its own header, the waker tests the header at `newTail`; when the preceding one wrapped, nobody wakes the waiter. `TurnIsSignalledInPlace` is the part that holds |
| `UserClientsDisturbed` | a process whose `open` was refused, when it ends, marks the session of the other process as aborted and removes its settings: `clientClose` and `close` do not ask who has the provider open |
| `ShadowRequestsRefused` | a write that could not be shadowed is let through, its result is overwritten by that of the notification |
| `DataBuffersABA` | two threads take the same free buffer of the socket filter: the link read before the swap of the head is stale, though the comment (`NKE/DldSocketFilter.cpp` 1088) says that there is no ABA problem |
| `SparseOldest` | the list of the oldest blocks begins with a key that the tree no longer has, which the assertion at `DldSparseFile.cpp` 5240 excludes |

### 4.1 Smaller divergences

No run of the project is spent on these. They can be seen with TLC by other
constants, or by a property that its module defines, with the assertion or comment
it comes from, and no run checks: put into a cfg, TLC refutes it.

* With two consumers and a ring that wraps (`DataQueue`, two members of
  `Consumers`, `QueueSize = 9`) `ConsumersHoldEntries` fails: `dequeueDataInPlace`
  reads the header before it is known that the entry is still the first. The
  header's "multiple consumers" (`DldIODataQueue.h` 17) holds for a ring that does
  not wrap; the driver has one consumer per queue, and the theorems of 6.9 suppose
  one.
* With three producers (`QueueSize = 8`, `HeaderSize = 1`, `MaxEntries = 7`)
  `ResumesInOrder` fails: two producers may wait on one address
  (`DldIODataQueue.cpp` 328, "there must be no more than one waiter"; the assertion at
  330), and the one that is woken publishes what others have not finished. It holds
  with two. `RingIntact`, `NobodySleepsOver` and the order of the entries are proved
  for any number of producers until it happens (`overtaken`, 6.9).
* The loop of `DldSetNotificationEvent` need not end for the reaper's event, whose
  waiter waits again and again with a timeout. `SetReturns`, a part of
  `EverybodyGoesOn`, asks it of the completion events only.
* When the expansion of a shadow file fails by way of its write (`DldIOShadowFile.cpp`
  325-341) room that does not exist is granted, against the comment at 449: the
  granted region may lie beyond `eof`.
* A terminator that crosses the quota raises the quota flag (`reserveOffset` calls
  `quotaExceedingDetected`), though "nothing will be made in this case"
  (`DldUserToKernel.h` 1092); it may also fail to be written at all when a file
  is freed (`DldIOShadowFile.cpp` 576).
* The assertion on `pendingUnregistration` in an abandoned notification
  (`DldIOShadow.cpp` 574, also in the log and the user client reference) does not
  hold: the thread may look at the flag before it is set, and after it is reset.
* `clientClosedItself` stays set after close and open; the end of the process is
  then not seen as an abort (`DldIOUserClient.cpp` 429).
* A request for a mapped file without dirty pages (`DldIOShadow.cpp` 1494-1507, the kind
  `clean` of `ShadowRequests`) keeps its vnode reference for good, against the comment
  at 960 ("all resources allocated or retained for the args structure will be released
  here in case of error or by processFileWriteWQ"): `AllReleased` fails in `Shadow`.
  `RequestHeld` says that this is the only such path, and that it keeps just one.
* The completion record of an open leaves `shadowingRetval` zero whatever the
  shadowing did (`DldKAuthVnodeGate.cpp` 1202).
* The comments on the sizes in `setFileSizes` ("128 MB", "512 MB") do not match its
  constants (256 MB, 1 GB).
* `initWithFileName` releases the object on failure and its caller `withFileName`
  does so again.
* A reservation that is refused after a failed expansion leaves a hole in the file.
* In the build with CAWL, `DldVNodeHook.cpp` 1046 overwrites the error of a denied
  write.
* The wait of `unregisterUserClient` may be prolonged by the calls of the next
  client, which is why `Live` has one process.
* With `Eager = TRUE`, where an owner executes a SCSI request again before the
  callback of its last use has returned, `OneTaskPerRequest` of `ScsiTasks` fails
  (the assertion in `withSCSITaskIdentifier`, `DldSCSITask.cpp` 2266): two tasks of one
  request are in the list, and the callback may find the older, so that `TaskAccounted`
  fails after that. `TaskAccounted` and `RefusedIfUnshadowed` are proved up to the
  first such execution (`early`); nothing in the driver makes the owner wait.
* The assertion of `DldUnHookVnodeVop` that an entry is removed with a count of zero
  (`DldVNodeHook.cpp` 4528) does not hold: `RemovedUncounted` of `Vnodes` fails with the
  three threads of the run. One counts the entry down to zero, under the shared lock;
  another removes it; a reused vnode hooks the table again with a new entry, counted 1;
  the first thread takes the exclusive lock, looks at the count of the entry it had,
  and removes the new one. The table is then not hooked although a vnode counts on it.
  `OneCountedObject` says that the count is exact until then (`miscounted`).
* With four threads (`Vnodes`) a vnode that is marked can have two objects: one
  thread fails to hook it and takes its object away from those who found it
  (`DldVnodeHashTable.cpp` 345-390), a third makes a new one, which a fourth finds.
  A reclaim may wait though its last caller has gone (`ReclaimGoesOn`).
* A delivery that goes on after a notification could not be sent loses its buffer
  (`NoBufferLost` of `Sockets` fails after 24 steps), which the code calls "a severe
  logic error that results in buffers acquired forever"
  (`NKE/DldSocketObject.cpp` 1361-1364).
* When a key was deleted from an inner node of the B-tree, a changed node may not be
  given to `BTreeFlushNode` (`EveryChangeMarked` of `SparseTree` fails; `TreeKept` asks
  it as long as there was no such deletion), and the list "in ascending order" need
  not ascend (`Ascending`).
* A file that was closed with free chunks is not opened as it was closed, against
  `DldSparseFile.h` 331 ("must be preserved in the data file so it can be reopened"):
  the first descriptor is read over the buffer of the header from which the end of the
  chunks is taken afterwards, and is itself left as it was allocated
  (`DldSparseFile.cpp` 690-706). Chunks of nodes and data are then handed out again:
  `ReopenedAsClosed` of `FreeChunks` fails at once. The same follows when the header
  could not be written on closing. `NoDoubleUse` is about the time before
  (`sound`).
* In `CoveredFile` the size the driver keeps may differ from that of the file when nobody works on
  it (`SizeIsRight`). One thread suffices: a write that extended the covered file and then failed
  does not take that back; after a write with `IO_APPEND` the offset is set to where the caller
  began and what was written (`DldCoveringVnode.cpp` 2204), and `DldSetUbcFileSize` gets that.
  Between `DldSetUbcFileSize`'s change of the size and its purge (267-304) the lock is given up: a
  write that extends the file in between has its blocks purged (`PurgedPastTheEnd` fails). A write
  that trusts a stale size cuts the covered file, or puts data past its end. `lost` has the units
  that go in these ways; of all others `ReadBack` is proved.
* A write that the sparse file refuses, with `disableAccessOnCawlError` not set, halts
  the kernel by way of a pointer set to NULL before (`BypassGoesOn`). With it set, the
  result of the notification replaces that of the write (1785-1791), so that a write
  of which a part is missing may report success with a residual.
* `gGlobalSettings.flushCAWL` is never set, so that a flush is reached by the bypass
  of `DldCoveringVnode.cpp` 1882 only.
* Two announcements of one session as active may leave nobody active, or the
  session out of the array; the walk over the logged-on users visits the active
  one only (`DldKernAuthorization.cpp` 2995).
* The decision to shadow of one credential may be overwritten by that of the next
  (`DldKernAuthorization.cpp` 3031); a denial that follows a logged permission is
  logged with the first credential; the pointer at 2291 may be NULL.
* When the port of the service is closed `diskCawlNotification` still waits for two
  minutes and reports an error; a denial that comes after the timeout is ignored
  unless errors deny (`strict`).

`DldIOShadow::stop` cannot run beside its worker, because the worker holds a
reference on the object; it is therefore not modelled.

## 5. Fairness

* `DataQueue`: each thread that is inside of an operation goes on, weakly fair
  per thread. Nothing makes a producer send.
* `NotificationEvent`: the waiter is weakly fair; a setter strongly, since it
  retries for ever and so does not miss a state that comes again and again.
  Timeouts are not assumed to happen.
* `ShadowFiles`: the worker is weakly fair, the service is not.
* `UserClients`: a call that has begun goes on (kernel threads run, `msleep`
  has a timeout), and a notification ends, since sending is retried a bounded
  number of times. Nothing makes anybody call or notify.
* `ShadowRequests`: the hook, once called, and the worker go on; that an
  operation on the underlying file ends is assumed.
* `ScsiTasks`: the executing thread, the worker and a callback go on. A command
  that is at the device is completed, with strong fairness, since the completing
  thread may be another command's for a while. Nothing makes an owner execute.
* `Sockets`: the threads that are inside go on, the service answers what is in its
  queue, the injector wakes up, an input that was reported completes, the purge
  at the end and the deadline of a packet come. Nothing makes a packet arrive.
* `Vnodes` has a fair specification, and its liveness property is false (4.1), so
  that no run uses it.

`MCLive` and `MCWaits` state the same fairness for the part that runs.

## 6. What is proved

Of the forty properties of the passing runs 31 are also theorems, for every value
of the constants that the named assumptions of the modules allow; TLC evaluates
those assumptions in the runs. The proofs use nothing else but what is part of a
theorem's statement: `OneSetter` (6.1) and `OneConsumer` (6.9), which are how the
driver uses an event and the queue. No theorem supposes that the code's own
assertions hold: where they do not (4.1), a history says from when on, the
theorem reads `[](history \/ Property)` or the property has the exception in it,
and a reader can see what is left out.

In each case the properties alone are not inductive. The invariant that is, called
`IInv` or named for its module, was checked with TLC on small instances before it
was proved; it says where each thread is and what it has there. Each of its parts
has lemmas that say which actions keep it, with a step for each action, and one
theorem puts them together (`Invariance`, `Inductive`, and in `ShadowProofs`
`FilesAlways` and `RequestsAlways`).

### 6.1 NotificationEvent

`NotificationEventProofs` proves, for every set of setters, every number of
rounds and every set of uses:

| Theorem | Statement |
|---|---|
| `TypeCorrect` | `Spec => []TypeOK` |
| `PreparingShort` | `Spec => []PreparingIsShort` |
| `WakeupEffective`, `NoWakeupLost`, `NoWakeupMissed` | `Spec => []WakeupFindsWaiter`, `Spec => []NoLostWakeup`, `Spec => []NoMissedWakeup` |
| `ResetByWait` | `Spec => ResetAfterWait` |
| `WaitsForCompletion` | `Spec /\ OneSetter => []NoEarlyReturn` |
| `NoLateTouch` | `Spec /\ OneSetter => []NoTouchAfterReturn` |
| `CompletionIsLatch` | `Spec /\ OneSetter => IsLatch`: the event implements the latch |

*The argument.* `IInv` adds to `TypeOK` what ties the word to the places of the
threads: `WaiterMatchesWord` (the word is 1 or 2 exactly while the waiter is between
its first exchange and its last one), `WakerIsAwaited` (a setter that is about to
wake up has put the word from 2 to 3, and the waiter is where the wakeup can do no
harm) and `FlagBeforeSet` (the result is written before the word says so). The latch
needs in addition that a round has one setter (`OneSetterOfRound`, which is how the
hooks use an event: the worker alone sets it) and, from it, `CompletionInv`: when
the word is 3 that setter is through with it.

### 6.2 UserClients

`UserClientsProofs` proves, for every set of processes, every finite set of
notifying threads and of registries, and every order in which the registries are
joined and left that begins and ends with the same one:

| Theorem | Statement |
|---|---|
| `TypeCorrect` | `Spec => []TypeOK` |
| `CalledClientAlive` | `Spec => []ClientAlive` |
| `OneClientEverywhere` | `Spec => []NoMixedClients` |
| `CloseLeavesNothing` | `Spec => []NothingLeftBehind` |
| `RegistriesLease` | `Spec => Leases`: each registry implements `ClientLease` |

*The argument.* The invariant is built in layers, each kept with the help of
those before it. `PlaceTypes` and `FlagTypes` are types. `CountExact`:
`clientInvocations` is the number of threads between the increment and the
decrement, so that it can be trusted when it is zero (and is never negative).
`InOrder`: a client's thread is at a place of the order it goes through.
`Registry`: a leaving client is out of the registries it has been to (`Left`), one
that joins has the first (`Joined`), and the first registry has the client that
any other has (`FirstKnows`), which is why the first must be left last. `Held`: a
thread calls only a client that its registry has or that waits for it; the wait
ends with nobody inside, so that no thread loses its client. `RefsExact`: the
references on a client are its registries, the one it is leaving, and less the
one it is about to retain. `Disowned`: who stops has closed the provider.

*The assumptions* (`RegistriesAssumption`) are that the threads and the registries
are finite, that `NULL` is no client, and that both leaving orders visit every
registry and end with the one `startLogging` begins with, which can be read off
`startLogging` and `stopLogging`.

### 6.3 ShadowFiles

`ShadowProofs`, for any set of files, any sizes, quotas and switches and any
number of records:

| Theorem | Statement |
|---|---|
| `RoomKeptAll` | `FilesSpec => []RoomKept`: open while held, records apart, within the quota |
| `CutoffIsFinalAll` | `FilesSpec => []CutoffIsFinal` |
| `UntriedFileStaysAll` | `FilesSpec => UntriedFileStays` |

*The argument.* `ThreadHas` says at which places the shadow thread has a file and a
size; `RefsCounted` that the references are those of the array, the thread and
the call that adds; `OpenAndClosed` that a file is open exactly while it has
references and gets its terminator after that; `Regions` that what was granted lies
below `offset`, before the terminator and apart; `ToldOnce` that a file whose end was
told is out of the array, and that the thread has at most the region left that it was
granted before; `Quotas` that offset and end of a file with a quota stay below it, and
that quota and switch fit each other. The assumption `FilesAssumption` has
`Step <= MinSize`: an expansion step is not larger than the least quota, as in
the source (128 MB and 256 MB), without which a quota could be overrun.

### 6.4 ShadowRequests

`ShadowProofs`, for any set of operations of any kinds, queues of any length
and any number of chunks:

| Theorem | Statement |
|---|---|
| `FrameOutlivesAll` | `Spec => []FrameOutlives`: the hook's frame is there as long as an entry points to it, and has a result when the hook reads it |
| `RequestHeldAll` | `Spec => []RequestHeld`, which adds the exact count of vnode references, with the one that a clean pageout keeps (4.1) |
| `OriginalAfterShadowAll` | `Spec => []OriginalAfterShadow` |
| `CompletionLastAll` | `Spec => []CompletionLast` |

*The argument.* `Ordered`: the queue and the worker have of an operation at most its
data and behind them its completion record, and the hook is at a place where it has
given them away (`OnItsWay`). `Logged`: whose record was written has nothing left to be
written. `HookKnows`: what a hook knows at each of its places. `HookWaits`: until the
worker has reported a request its hook has a wait before it, which with synchronous
shadowing comes before the original operation. `RefsKept`: every holder of a vnode has
a reference, and no other reference is left but one for each clean pageout (`kept`).

### 6.5 Vnodes

`VnodesProofs`, for any number of vnodes, objects, entries and threads and any
number of reuses:

| Theorem | Statement |
|---|---|
| `OneCountedObjectAll` | `Spec => []OneCountedObject`: one object, a table hooked while it has an entry, and until an entry is removed too early a count that is exact |
| `NoRecursionAll` | `Spec => []NoRecursion` |
| `LentUntilReclaimedAll` | `Spec => LentUntilReclaimed`: each object implements `ClientLease` |

*The argument.* `Homes`: an object is that of one vnode, for all who have it. `Where`:
the place of a thread tells what it has and whether it holds the vnode, and a vnode has
one reclaimer. `Found`: what a thread has found is in the hash table, and the table has
no object whose reclaim has begun, but for a vnode that is being reclaimed. `Counted`:
`delay` is the number of the threads that ask, so that a reclaim sees the asker or the
asker sees the flag; `Lent`: nobody asks for a vnode any more after
`prepareForReclaiming` has returned. `Hooks`: the table is hooked exactly while
its entry is in the hash, and no hook takes itself for the original. `Balanced`: until
`miscounted`, the entry's count is the number of the vnodes whose object is in the hash
table and marked as hooked, and of the threads that have counted and not yet set the
mark, or have taken the object out and not yet counted down (`HookIsCounted`); for
that no object is marked before (`ToBeHooked`), and who is about to count down has the
entry that is in the hash. Threads and vnodes are assumed to be finite
(`VnodesAssumption`), for the counts.

### 6.6 ScsiTasks

`ShadowProofs`, for any requests, tasks and completing threads, any
number of uses and a queue of any length, whether owners wait or not:

| Theorem | Statement |
|---|---|
| `TaskAccountedAll` | `ScsiSpec => [](early \/ TaskAccounted)`: until an owner executes a request again before the callback of its last execution has returned, nobody uses a freed task or another command's; a command is reported once, after its data, and leaves no task |
| `RefusedIfUnshadowedAll` | `ScsiSpec => [](early \/ RefusedIfUnshadowed)` |

*The argument.* `Listed`: the list holds the live tasks, each once. `OneTask`: a
request has at most one. `Prepared`, `Called`: what the task of a request looks like
while the request is prepared, and while its callback runs. `Held`: a callback has
the task of its own request, with the references it has not given up and the record
it has made. `OneCompleter`: a request has one callback at a time. `Tasked`: a task that
is live is that of the present use of a request, with what its place demands.
`InQueue`, `AtWork`: a task in the queue, or in the
worker's hands, is live and not yet copied, which a callback waits for before it
gives the task up. After an early execution a callback may find the dying
task of an earlier use, and the properties are false (4.1).

### 6.7 FreeChunks, DiskCawl and CoveredFile

`CawlProofs`, for files and descriptors of any size; for any threads and any number
of notifications; for any threads that call the hooks any number of times on a
covered file of any size, whose blocks have two units:

| Theorem | Statement |
|---|---|
| `FreeListWhileSound` | `Spec => [](sound /\ opened => Listed)`: until the file is opened again with a list of free chunks or an old header, the descriptors on the disk are a chain without a cycle, their entries and they themselves are apart, below the break and not in use, and what is in memory is the first of them |
| `UsedOnceWhileSound` | `Spec => []NoDoubleUse`: up to the same event a chunk is handed out once |
| `AnswersReachAll` | `CawlSpec => []AnswersReach` |
| `ReadBackAll` | `FileSpec => []ReadBack`: a unit that is not `lost` shows what was last written to it, wherever its block has been since and whichever blocks of a write fail |

*The argument* for the chunks: a history variable holds the chain of descriptors as a
sequence (`Chained`), and `At` tells of each place, of a descriptor or of one of its
entries, which chunk is there; all that is to be shown is that `At` is injective into
the chunks that are below the break and not in use. Taking the last entry of a
descriptor, and putting a chunk back as an entry or as the next descriptor, change it
in one place. For the question: the frames on the list are those of the threads that
wait (`ListedHere`), their IDs differ (`Numbered`), and what a frame has received is
what was said to its ID (`Unanswered`, `ReceivedAsSaid`), so that a thread that goes on
without an error has an answer (`ReceivedOrFailed`).

For the covered file: `ReadBack` holds at every moment, also while other threads are
between two steps, and is inductive together with the types of what the threads have in
their hands (`FileTypesOK`). A unit shows its data from its block of the sparse file or
from the covered file (`Seen`). A write into a part of a block fills the rest with what
is shown there (`Merged`), or drops it all (`Dropped`) and leaves both the file and the
history alone; of a write that fails, the units before the first failed block count as
written (`Counted`), and what else was touched is no longer promised (`WriteEndsStep`). A
truncation forgets what it cuts off (`SizeChanged`); a purge rounds up to a block, so
that none of the blocks it takes has a unit below the size it was called with, and what
is above that size and inside the file all the same becomes `lost` (`PurgeStep`).

### 6.8 AccessRights and LoggedUsers

`AccessProofs`, for any rights, users, subjects, lists and credentials; for any finite
sets of announcing and checking threads and any sessions and entries:

| Theorem | Statement |
|---|---|
| `VerdictRightAll` | `RightsSpec => []VerdictRight`: the entries looked at one after another give the verdict of the list as a whole |
| `DecisionStandsAll` | `RightsSpec => []DecisionStands` |
| `EntriesCountedAll` | `UsersSpec => []EntriesCounted`: the references of an entry are the places that hold it |
| `ActiveListedAll` | `UsersSpec => []ActiveListed`: an active entry is in the array or about to be cleared, and a session has one entry |

*The argument.* `Evaluating` is the invariant of the loop over a list: what is left is
what the entries so far do not permit, something is left, and none of those entries
denied. `DecisionInv` says that the level that is denied is that of the first denial
(`Denied`), and that from then on the lists are asked for the log only (`LogOnly`).
For the users (`UsersInv`), `AnnouncerHas` and `CheckerHas` say what a thread has in its
hands at each place; `OneEntry` that the array has one entry for a session and
`OfSession` that an entry has a session as long as it has a reference. `Counted` is the
equation of `EntriesCounted`. It is kept because a step changes what one thread has, and
the array and the active entry (`AnnouncerTally`, `CheckerTally`), by as much as it
changes the references; `OneEntry` is needed for it, as an entry that stood in the array
twice would lose one reference for two places. `KnownActive` needs `Counted` in turn: the
session of the active entry is kept as long as somebody refers to it, so that the thread
that removed the session finds it when it comes to clear it.
`UsersAssumption` has the threads finite, and none that announces and checks.

### 6.9 DataQueue

`DataQueueProofs`, for a ring, headers and entries of any size, any number of
entries and of producers, with one consumer (`OneConsumer`):

| Theorem | Statement |
|---|---|
| `IntactUntilOvertaken` | `RingSpec => [](overtaken \/ RingIntact)` |
| `AwakeUntilOvertaken` | `RingSpec => [](overtaken \/ NobodySleepsOver)` |
| `RingIsFifo` | `RingSpec => FifoUntilOvertaken`: every step is one of `FifoChannel` until a producer publishes before its turn |

All three are for any number of producers. The lemma `TwoInTurn` says that with two
`overtaken` never becomes true.

*The argument.* The entries that are not removed form one run from the head
upwards, or two, of which the second starts at the beginning of the ring and ends at
the tail, below the head (`Layout`, with `Lower` and `Upper`; the number that divides
them is the only thing not a function of the state, and is quantified). A reservation
extends the run the tail is in or begins the second (`GrowsAtTail`, `GrowsAround`), a
removal takes the first entry of the first run, and when that was its last the second
run becomes the first (`Shrinks`). `Headers` says that each entry's header names it and
that the place where the second run did not fit has a header with the size of the
entry that went around, or no room for one (`Bridge`): that is how `dequeueDataInPlace`
and `removeEntry` know where to look. The strict comparison in `Wraps` and `FitsInGap`
is what keeps the tail below the head: no two entries end at the same place
(`EndsApart`), so that `validDataTail` tells which entries are published. `Order` and
`Flying` are about that: the entries up to some number are published, each one after
it has exactly one producer. `Sleeping` counts those that wait and says that their
headers are marked, without which the wake-up in `NobodySleepsOver` would be lost.

*The condition and the exception.* The driver has one consumer, `shadowThreadMain`;
with two the ring is not safe when it wraps (4.1). Any thread may be a producer. With
three the wake-up for the address of an old tail may reach a producer whose turn it is
not, or no longer is, and it publishes without a test; this is the divergence in 4.1,
and `overtaken` remembers it. What is proved is that the assertion the code makes after
the sleep is all that the ring depends on. `NobodySleepsOver` has the part
`TurnIsSignalledInPlace`, of producers whose header stands where the waker looks; that
this is not always so is what `DataQueueLostWakeup` shows.

### 6.10 Sockets

`SocketsProofs`, for any number of senders, threads of the service, packets and
buffers and any limit of the queue:

| Theorem | Statement |
|---|---|
| `NothingForgotten` | `Spec => []NoneForgotten`: a packet that waits to be reported is known to someone who will, a sender that waits has a packet that waits, a receive buffer is small only while packets are pending |
| `InjectedInOrder` | `Spec => []InOrder`: only what the service allowed is injected, once, in the order of arrival |
| `DetachedForGood` | `Spec => []NothingAfterDetach` |

*The argument.* `OneInjects`: only the thread with `injectionMutex` has a batch.
`EnteredOnce`: every packet enters the queue once, and is in one place after that.
`Ordered`: of one direction what was injected came before what is in a batch, and that
before what is in the queue. It is kept because `reinjectDeferredData` collects a
prefix: it stops at the first packet it has to leave. `Counted`: the
numbers of pending packets are those under way, so that a detachment that sees zero
has seen all. `Unforgotten`: the packets that are not reported are the last of the
queue, their number is `packetsWaitingForReporting`, and while there are some the
socket is in the list, is being detached, or a thread is delivering. `Throttled` is
the same for the receive buffer. What the queue keeps when packets are taken out of
its middle is an operator of its own, `Kept`, described by the places of what stays;
the lemma `KeptOf` derives its order and its members.

## 7. Only model-checked

* Liveness everywhere (`EverybodyGoesOn`, `CommandReturns`, and the five of `Live`):
  TLAPS proves neither liveness under fairness nor what speaks of ENABLED.
* `SparseTree` (`TreeKept`): its insertion and deletion are recursive operators on
  trees. That they keep the order for trees of any height takes an induction over
  the tree, which TLAPS does not reach.
* `Fifo` as it stands, which after `overtaken` is false; 6.9 proves it up to there.
* What the histories `overtaken`, `kept`, `early`, `miscounted`, `lost` and `sound` except
  from the properties: false (4.1).

## 8. Not modelled, and why

* The white lists: arrays under a lock, and a computation of a media UID; planned.
* The graph of object properties and the callbacks of IOKit services: planned.
* The hook engine for IOKit classes and the mount hook: alike to the hooked table of
  `Vnodes`, one instance for each class.
* The internal log with its flushing thread, a debugging aid; power management.
* Start up, which undoes its steps when one fails, and the filters of a single call
  (USB controller, Ethernet, network interface, Bluetooth), which keep no state
  beyond what a registry or a lock protects.
* The contents of records, messages, paths and command descriptor blocks, which no
  property tells apart; the numbers of log statistics.
* The disassembler (third party) and the sample client (a user program, of which
  the driver only sees the calls that `UserClients` makes in any order).
* The names of covered directories and files, and the rights that encrypted media and
  lists of processes change.

The build of the repository defines neither `_DLD_MACOSX_CAWL` nor
`_DLD_SOCKET_FILTER`; `FreeChunks`, `SparseTree`, `CoveredFile`, `DiskCawl`, `Sockets` and
`DataBuffers` are about the builds that do.

## 9. Plan

1. Proofs: `SparseTree` one node at a time, with the splits, borrows and merges of
   siblings as lemmas on sequences; `CoveredFile` with blocks of any size.
2. Models: the request for a media's UID and the parallel publication of IOKit
   services; the sending order of the log; the queue that is shared with the service
   (`IODataQueueWrapper` in `DldIOUserClient.cpp`).
