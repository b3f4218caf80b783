------------------------------- MODULE Vnodes -------------------------------
(***************************************************************************)
(* The driver's objects for vnodes (DldVnodeHashTable, DldIOVnode) and the *)
(* counted hook of a file system's table of vnode operations (DldVNodeHook)*)
(* that lives as long as one of its vnodes has an object.                  *)
(*                                                                         *)
(* The vnodes are of one file system and share its table.  A thread gets   *)
(* hold of a vnode (an iocount) and calls the driver through the KAUTH     *)
(* gate or a hooked operation, or it finds the object of a vnode it once   *)
(* saw and asks the object for the vnode.  When the kernel reclaims a      *)
(* vnode it first marks it (vnode_isrecycled is then true), waits for the  *)
(* holders, and calls the reclaim operation, which is hooked or not.  The  *)
(* same memory then serves another vnode.                                  *)
(*                                                                         *)
(* What is done under a lock of the hash tables is a step, and so is each  *)
(* atomic operation or look at a flag outside of it.  An operator that     *)
(* stands before a definition and has its name with a word more is that    *)
(* definition with a plausible mistake; the properties are tried on them.  *)
(***************************************************************************)
EXTENDS Integers, FiniteSets

CONSTANTS
  VnodeIds, (* the vnodes                                                  *)
  Disk,     (* those of type VREG, VDIR, VBLK or VCHR                      *)
  Objects,  (* memory for DldIOVnode objects                               *)
  Entries,  (* memory for DldVnodeHookEntry objects                        *)
  Threads,
  MaxReuses, (* bound: how often a vnode serves another file              *)
  None      (* NULL                                                        *)

ASSUME VnodesAssumption ==
  /\ Disk \subseteq VnodeIds
  /\ None \notin VnodeIds \cup Objects \cup Entries \cup {"original", "hook"}
  /\ IsFiniteSet(Threads) /\ IsFiniteSet(VnodeIds)
  /\ MaxReuses \in Nat

VARIABLES
  phase,     (* of a vnode: "live", "marked" for reclaiming, "reclaiming"  *)
             (* or "dead"                                                  *)
  reuses,    (* how often a vnode has served another file                  *)
  object,    (* its object in the hash table                               *)
  reclaimed, (* flags.reclaimed of an object                               *)
  vopHooked, (* flags.vopHooked                                            *)
  delay,     (* delayReclaimCount                                          *)
  settled,   (* prepareForReclaiming has returned for the object           *)
  table,     (* an operation in the table: "original" or "hook"            *)
  entry,     (* the table's entry in the hash of hooked tables             *)
  counter,   (* the entry's count of vnodes                                *)
  saved,     (* the operation the entry has saved                          *)
  miscounted, (* history: an entry was removed while vnodes counted on it  *)
  pc, on, hold, has, ent, orig (* of a thread: its place, its vnode, does  *)
             (* it hold it, its object, entry and original operation       *)

vnodeVars  == << phase, reuses >>
objectVars == << object, reclaimed, vopHooked, delay, settled >>
tableVars  == << table, entry, counter, saved, miscounted >>
localVars  == << on, hold, has, ent, orig >>
vars == << vnodeVars, objectVars, tableVars, pc, localVars >>

GoTo(t, label) == pc' = [pc EXCEPT ![t] = label]

(* vnode_isrecycled *)
Recycled(v) == phase[v] # "live"

FreshObjects == {o \in Objects : /\ \A v \in VnodeIds : object[v] # o
                                 /\ \A t \in Threads : has[t] # o}
FreshEntries == {e \in Entries : entry # e /\ \A t \in Threads : ent[t] # e}

----------------------------------------------------------------------------
(* The kernel's side of a vnode's life                                     *)

Enter(t, v) ==
  /\ pc[t] = "idle" /\ phase[v] = "live"
  /\ GoTo(t, "create")
  /\ on' = [on EXCEPT ![t] = v] /\ hold' = [hold EXCEPT ![t] = TRUE]
  /\ UNCHANGED << vnodeVars, objectVars, tableVars, has, ent, orig >>

Mark(v) ==
  /\ phase[v] = "live"
  /\ phase' = [phase EXCEPT ![v] = "marked"]
  /\ UNCHANGED << reuses, objectVars, tableVars, pc, localVars >>

Reclaim(t, v) ==
  /\ pc[t] = "idle" /\ phase[v] = "marked"
  /\ \A s \in Threads : hold[s] => on[s] # v
  /\ IF table = "hook"
     THEN /\ phase' = [phase EXCEPT ![v] = "reclaiming"]
          /\ GoTo(t, "reclaim")
          /\ on' = [on EXCEPT ![t] = v]
     ELSE /\ phase' = [phase EXCEPT ![v] = "dead"]
          /\ UNCHANGED << pc, on >>
  /\ UNCHANGED << reuses, objectVars, tableVars, hold, has, ent, orig >>

Reuse(v) ==
  /\ phase[v] = "dead" /\ reuses < MaxReuses
  /\ phase' = [phase EXCEPT ![v] = "live"]
  /\ reuses' = reuses + 1
  /\ UNCHANGED << objectVars, tableVars, pc, localVars >>

----------------------------------------------------------------------------
(* CreateAndAddIOVnodByBSDVnode *)

Lookup(t) ==
  LET v == on[t] IN
  /\ pc[t] = "create"
  /\ IF Recycled(v) THEN GoTo(t, "leave") /\ UNCHANGED has
     ELSE IF object[v] # None
          THEN GoTo(t, "have") /\ has' = [has EXCEPT ![t] = object[v]]
          ELSE GoTo(t, "insert") /\ UNCHANGED has
  /\ UNCHANGED << vnodeVars, objectVars, tableVars, on, hold, ent, orig >>

InsertAlways(t) ==
  LET v == on[t] IN
  /\ pc[t] = "insert"
  /\ \E o \in FreshObjects :
       /\ object' = [object EXCEPT ![v] = o]
       /\ reclaimed' = [reclaimed EXCEPT ![o] = FALSE]
       /\ vopHooked' = [vopHooked EXCEPT ![o] = FALSE]
       /\ settled' = [settled EXCEPT ![o] = FALSE]
       /\ has' = [has EXCEPT ![t] = o]
       /\ GoTo(t, "hook")
  /\ UNCHANGED << vnodeVars, delay, tableVars, on, hold, ent, orig >>
Insert(t) ==
  LET v == on[t] IN
  /\ pc[t] = "insert"
  /\ \/ /\ object[v] # None
        /\ has' = [has EXCEPT ![t] = object[v]]
        /\ GoTo(t, "have")
        /\ UNCHANGED objectVars
     \/ /\ object[v] = None
        /\ \E o \in FreshObjects :
             /\ object' = [object EXCEPT ![v] = o]
             /\ reclaimed' = [reclaimed EXCEPT ![o] = FALSE]
             /\ vopHooked' = [vopHooked EXCEPT ![o] = FALSE]
             /\ settled' = [settled EXCEPT ![o] = FALSE]
             /\ has' = [has EXCEPT ![t] = o]
             /\ GoTo(t, "hook")
        /\ UNCHANGED delay
  /\ UNCHANGED << vnodeVars, tableVars, on, hold, ent, orig >>

(* DldHookVnodeVop: a vnode that is going away and one that is not on a    *)
(* disk are left alone; a table that is hooked counts one vnode more.      *)
HookVnode(t) ==
  /\ pc[t] = "hook"
  /\ \/ Recycled(on[t]) /\ GoTo(t, "undo") /\ UNCHANGED counter
     \/ ~Recycled(on[t]) /\ on[t] \notin Disk /\ GoTo(t, "have") /\ UNCHANGED counter
     \/ /\ ~Recycled(on[t]) /\ on[t] \in Disk
        /\ IF entry # None
           THEN /\ counter' = [counter EXCEPT ![entry] = @ + 1]
                /\ GoTo(t, "flag")
           ELSE GoTo(t, "hookTable") /\ UNCHANGED counter
  /\ UNCHANGED << vnodeVars, objectVars, table, entry, saved, miscounted, localVars >>

HookTableAlways(t) ==
  /\ pc[t] = "hookTable"
  /\ \E e \in FreshEntries :
       /\ entry' = e
       /\ counter' = [counter EXCEPT ![e] = 1]
       /\ saved' = [saved EXCEPT ![e] = table]
  /\ table' = "hook"
  /\ GoTo(t, "flag")
  /\ UNCHANGED << vnodeVars, objectVars, miscounted, localVars >>
HookTable(t) ==
  /\ pc[t] = "hookTable"
  /\ \/ /\ entry # None
        /\ counter' = [counter EXCEPT ![entry] = @ + 1]
        /\ UNCHANGED << table, entry, saved >>
     \/ /\ entry = None
        /\ \E e \in FreshEntries :
             /\ entry' = e
             /\ counter' = [counter EXCEPT ![e] = 1]
             /\ saved' = [saved EXCEPT ![e] = table]
        /\ table' = "hook"
  /\ GoTo(t, "flag")
  /\ UNCHANGED << vnodeVars, objectVars, miscounted, localVars >>

SetHooked(t) ==
  /\ pc[t] = "flag"
  /\ vopHooked' = [vopHooked EXCEPT ![has[t]] = TRUE]
  /\ GoTo(t, "have")
  /\ UNCHANGED << vnodeVars, object, reclaimed, delay, settled, tableVars, localVars >>

(* The hook failed: the object is taken out of the table, whoever has      *)
(* found it there.  It is never marked as hooked on this way.              *)
Undo(t) ==
  /\ pc[t] = "undo"
  /\ object' = [object EXCEPT ![on[t]] = None]
  /\ has' = [has EXCEPT ![t] = None]
  /\ GoTo(t, "leave")
  /\ UNCHANGED << vnodeVars, reclaimed, vopHooked, delay, settled, tableVars, on, hold, ent, orig >>

----------------------------------------------------------------------------
(* What a thread does with the object it has                               *)

(* An operation on the vnode goes through the table, hooked or not.        *)
CallOperation(t) ==
  /\ pc[t] = "have" /\ hold[t]
  /\ IF table = "hook" THEN GoTo(t, "original") ELSE GoTo(t, "leave")
  /\ UNCHANGED << vnodeVars, objectVars, tableVars, localVars >>

(* The holder puts the vnode and keeps the object, as a queued request     *)
(* does, or has only found the object by the address of the vnode.         *)
PutVnode(t) ==
  /\ pc[t] = "have"
  /\ hold' = [hold EXCEPT ![t] = FALSE]
  /\ GoTo(t, "reference")
  /\ UNCHANGED << vnodeVars, objectVars, tableVars, on, has, ent, orig >>

Retrieve(t, v) ==
  /\ pc[t] = "idle" /\ object[v] # None
  /\ on' = [on EXCEPT ![t] = v]
  /\ has' = [has EXCEPT ![t] = object[v]]
  /\ GoTo(t, "reference")
  /\ UNCHANGED << vnodeVars, objectVars, tableVars, hold, ent, orig >>

Leave(t) ==
  /\ pc[t] = "leave"
  /\ on' = [on EXCEPT ![t] = None] /\ hold' = [hold EXCEPT ![t] = FALSE]
  /\ has' = [has EXCEPT ![t] = None] /\ ent' = [ent EXCEPT ![t] = None]
  /\ orig' = [orig EXCEPT ![t] = None]
  /\ GoTo(t, "idle")
  /\ UNCHANGED << vnodeVars, objectVars, tableVars >>

(* getReferencedVnode *)

LookAtFlag(t) ==
  /\ pc[t] = "reference"
  /\ GoTo(t, IF reclaimed[has[t]] THEN "leave" ELSE "count")
  /\ UNCHANGED << vnodeVars, objectVars, tableVars, localVars >>

CountUnasked(t) ==
  /\ pc[t] = "count"
  /\ delay' = [delay EXCEPT ![has[t]] = @ + 1]
  /\ GoTo(t, "getwithref")
  /\ UNCHANGED << vnodeVars, object, reclaimed, vopHooked, settled, tableVars, localVars >>
Count(t) ==
  /\ pc[t] = "count"
  /\ delay' = [delay EXCEPT ![has[t]] = @ + 1]
  /\ GoTo(t, "ask")
  /\ UNCHANGED << vnodeVars, object, reclaimed, vopHooked, settled, tableVars, localVars >>

AskAgain(t) ==
  /\ pc[t] = "ask"
  /\ GoTo(t, IF reclaimed[has[t]] THEN "uncount" ELSE "getwithref")
  /\ UNCHANGED << vnodeVars, objectVars, tableVars, localVars >>

(* vnode_getwithref succeeds for a live vnode.                             *)
GetWithRef(t) ==
  /\ pc[t] = "getwithref"
  /\ hold' = [hold EXCEPT ![t] = ~Recycled(on[t])]
  /\ GoTo(t, "uncount")
  /\ UNCHANGED << vnodeVars, objectVars, tableVars, on, has, ent, orig >>

Uncount(t) ==
  /\ pc[t] = "uncount"
  /\ delay' = [delay EXCEPT ![has[t]] = @ - 1]
  /\ GoTo(t, "wake")
  /\ UNCHANGED << vnodeVars, object, reclaimed, vopHooked, settled, tableVars, localVars >>

Wake(t) ==
  /\ pc[t] = "wake"
  /\ pc' = [s \in Threads |->
              IF s = t THEN "leave"
              ELSE IF pc[s] = "waiting" /\ has[s] = has[t] THEN "recheck" ELSE pc[s]]
  /\ UNCHANGED << vnodeVars, objectVars, tableVars, localVars >>

----------------------------------------------------------------------------
(* DldFsdReclaimHook *)

FindObject(t) ==
  /\ pc[t] = "reclaim"
  /\ has' = [has EXCEPT ![t] = object[on[t]]]
  /\ GoTo(t, IF object[on[t]] = None THEN "original" ELSE "prepare")
  /\ UNCHANGED << vnodeVars, objectVars, tableVars, on, hold, ent, orig >>

(* prepareForReclaiming: the count is read under the spin lock, but it     *)
(* changes without it.                                                     *)
Prepare(t) ==
  /\ pc[t] = "prepare"
  /\ reclaimed' = [reclaimed EXCEPT ![has[t]] = TRUE]
  /\ GoTo(t, IF delay[has[t]] = 0 THEN "prepared" ELSE "assertWait")
  /\ UNCHANGED << vnodeVars, object, vopHooked, delay, settled, tableVars, localVars >>

AssertWait(t) ==
  /\ pc[t] = "assertWait"
  /\ GoTo(t, "waiting")
  /\ UNCHANGED << vnodeVars, objectVars, tableVars, localVars >>

GoOnWhenWoken(t) ==
  /\ pc[t] = "recheck"
  /\ GoTo(t, "prepared")
  /\ UNCHANGED << vnodeVars, objectVars, tableVars, localVars >>
Recheck(t) ==
  /\ pc[t] = "recheck"
  /\ GoTo(t, IF delay[has[t]] = 0 THEN "prepared" ELSE "assertWait")
  /\ UNCHANGED << vnodeVars, objectVars, tableVars, localVars >>

Prepared(t) ==
  /\ pc[t] = "prepared"
  /\ settled' = [settled EXCEPT ![has[t]] = TRUE]
  /\ has' = [has EXCEPT ![t] = None]
  /\ GoTo(t, "original")
  /\ UNCHANGED << vnodeVars, object, reclaimed, vopHooked, delay, tableVars, on, hold, ent, orig >>

(* DldGetOriginalVnodeOp, called by every hook: the entry's operation, or, *)
(* when the table was unhooked meanwhile and no entry has come since, what *)
(* the table has.                                                          *)
AfterOriginal(t) == IF hold[t] THEN "leave" ELSE "remove"
GetOriginal(t) ==
  /\ pc[t] = "original"
  /\ IF entry # None
     THEN orig' = [orig EXCEPT ![t] = saved[entry]] /\ GoTo(t, AfterOriginal(t))
     ELSE GoTo(t, "original2") /\ UNCHANGED orig
  /\ UNCHANGED << vnodeVars, objectVars, tableVars, on, hold, has, ent >>

CurrentEvenIfHooked == table
Current == IF entry # None THEN saved[entry] ELSE table
GetCurrent(t) ==
  /\ pc[t] = "original2"
  /\ orig' = [orig EXCEPT ![t] = Current]
  /\ GoTo(t, AfterOriginal(t))
  /\ UNCHANGED << vnodeVars, objectVars, tableVars, on, hold, has, ent >>

(* RemoveIOVnodeByBSDVnode *)
RemoveObject(t) ==
  LET o == object[on[t]] IN
  /\ pc[t] = "remove"
  /\ object' = [object EXCEPT ![on[t]] = None]
  /\ GoTo(t, IF o # None /\ vopHooked[o] THEN "unhook" ELSE "callOriginal")
  /\ UNCHANGED << vnodeVars, reclaimed, vopHooked, delay, settled, tableVars, localVars >>

(* DldUnHookVnodeVop *)
FindEntry(t) ==
  /\ pc[t] = "unhook"
  /\ ent' = [ent EXCEPT ![t] = entry]
  /\ GoTo(t, IF entry = None THEN "callOriginal" ELSE "decrement")
  /\ UNCHANGED << vnodeVars, objectVars, tableVars, on, hold, has, orig >>

Decrement(t) ==
  /\ pc[t] = "decrement"
  /\ counter' = [counter EXCEPT ![ent[t]] = @ - 1]
  /\ GoTo(t, IF counter[ent[t]] = 1 THEN "unhookTable" ELSE "callOriginal")
  /\ UNCHANGED << vnodeVars, objectVars, table, entry, saved, miscounted, localVars >>

(* Under the exclusive lock the counter of the entry that was counted down *)
(* is looked at, and the entry that is in the hash now is removed.         *)
UnhookTable(t) ==
  /\ pc[t] = "unhookTable"
  /\ IF counter[ent[t]] # 0 \/ entry = None
     THEN UNCHANGED << table, entry, miscounted >>
     ELSE /\ table' = saved[entry] /\ entry' = None
          /\ miscounted' = (miscounted \/ counter[entry] # 0)
  /\ GoTo(t, "callOriginal")
  /\ UNCHANGED << vnodeVars, objectVars, counter, saved, localVars >>

CallOriginal(t) ==
  /\ pc[t] = "callOriginal"
  /\ phase' = [phase EXCEPT ![on[t]] = "dead"]
  /\ GoTo(t, "leave")
  /\ UNCHANGED << reuses, objectVars, tableVars, localVars >>

----------------------------------------------------------------------------
Init ==
  /\ phase = [v \in VnodeIds |-> "live"] /\ reuses = 0
  /\ object = [v \in VnodeIds |-> None]
  /\ reclaimed = [o \in Objects |-> FALSE] /\ vopHooked = [o \in Objects |-> FALSE]
  /\ settled = [o \in Objects |-> FALSE] /\ delay = [o \in Objects |-> 0]
  /\ table = "original" /\ entry = None
  /\ counter = [e \in Entries |-> 0] /\ saved = [e \in Entries |-> "original"]
  /\ miscounted = FALSE
  /\ pc = [t \in Threads |-> "idle"]
  /\ on = [t \in Threads |-> None]
  /\ hold = [t \in Threads |-> FALSE]
  /\ has = [t \in Threads |-> None] /\ ent = [t \in Threads |-> None]
  /\ orig = [t \in Threads |-> None]

Creating(t) == Lookup(t) \/ Insert(t) \/ HookVnode(t) \/ HookTable(t) \/ SetHooked(t) \/ Undo(t)
Using(t) == CallOperation(t) \/ PutVnode(t) \/ Leave(t)
Referencing(t) ==
  LookAtFlag(t) \/ Count(t) \/ AskAgain(t) \/ GetWithRef(t) \/ Uncount(t) \/ Wake(t)
Reclaiming(t) ==
  \/ FindObject(t) \/ Prepare(t) \/ AssertWait(t) \/ Recheck(t) \/ Prepared(t)
  \/ GetOriginal(t) \/ GetCurrent(t) \/ RemoveObject(t)
  \/ FindEntry(t) \/ Decrement(t) \/ UnhookTable(t) \/ CallOriginal(t)
Running(t) == Creating(t) \/ Using(t) \/ Referencing(t) \/ Reclaiming(t)

Next ==
  \/ \E v \in VnodeIds : Mark(v) \/ Reuse(v)
  \/ \E t \in Threads :
       Running(t) \/ \E v \in VnodeIds : Enter(t, v) \/ Retrieve(t, v) \/ Reclaim(t, v)

Spec == Init /\ [][Next]_vars

(* A thread inside of the driver runs on.                                  *)
FairSpec == Spec /\ \A t \in Threads : WF_vars(Running(t))

----------------------------------------------------------------------------
(* Properties *)

Places == {"idle", "create", "insert", "hook", "hookTable", "flag", "undo", "have", "leave",
           "reference", "count", "ask", "getwithref", "uncount", "wake",
           "reclaim", "prepare", "assertWait", "waiting", "recheck", "prepared",
           "original", "original2", "remove", "unhook", "decrement", "unhookTable",
           "callOriginal"}

(* Every variable of the program has its type; the count of references     *)
(* asked for does not go below zero (the counter of an entry may).         *)
TypeOK ==
  /\ phase \in [VnodeIds -> {"live", "marked", "reclaiming", "dead"}]
  /\ reuses \in 0 .. MaxReuses
  /\ object \in [VnodeIds -> Objects \cup {None}]
  /\ reclaimed \in [Objects -> BOOLEAN] /\ vopHooked \in [Objects -> BOOLEAN]
  /\ settled \in [Objects -> BOOLEAN] /\ delay \in [Objects -> Nat]
  /\ table \in {"original", "hook"} /\ entry \in Entries \cup {None}
  /\ counter \in [Entries -> Int] /\ saved \in [Entries -> {"original", "hook"}]
  /\ pc \in [Threads -> Places] /\ on \in [Threads -> VnodeIds \cup {None}]
  /\ hold \in [Threads -> BOOLEAN] /\ has \in [Threads -> Objects \cup {None}]
  /\ ent \in [Threads -> Entries \cup {None}]
  /\ orig \in [Threads -> {None, "original", "hook"}]

(* A thread that holds a vnode has no object whose reclaim has begun, and  *)
(* until the kernel marks the vnode all who hold it have the same: what    *)
(* the driver knows of a file is in one place.  (Of a marked vnode four    *)
(* threads can have two objects: one that fails to hook the vnode takes    *)
(* its object away from whoever has found it, a third, which has not       *)
(* looked for it yet, puts a new one in, and a fourth finds that.)         *)
OneObject ==
  \A s, t \in Threads :
    /\ hold[s] /\ pc[s] \in {"flag", "have"}
    /\ hold[t] /\ pc[t] \in {"flag", "have"}
    /\ on[s] = on[t]
    => /\ ~reclaimed[has[s]]
       /\ ~Recycled(on[s]) => has[s] = has[t]

(* A hook never takes itself, or the hook that another thread has just     *)
(* put into the table, for the original operation and calls it for ever.   *)
NoRecursion ==
  /\ \A t \in Threads : orig[t] # "hook"
  /\ entry # None => saved[entry] = "original"

(* An entry counts the vnodes whose objects are in the hash table as       *)
(* hooked, and those a thread is about to set the flag of or to count down;*)
(* without an entry nobody counts on the table's hook, which is there      *)
(* exactly while the entry is.  All this as long as no entry was removed   *)
(* with a count: RemovedUncounted says that this does not happen, and it   *)
(* does.  An object that is taken out again because the hooking failed is  *)
(* not among those counted, whoever has found it meanwhile.                *)
HookedVnodes == {v \in VnodeIds : object[v] # None /\ vopHooked[object[v]]}
CountingThreads == {t \in Threads : pc[t] \in {"flag", "unhook", "decrement"}}
HookedByEntry == table = "hook" <=> entry # None
HookIsCounted ==
  miscounted \/ IF entry = None THEN HookedVnodes = {} /\ CountingThreads = {}
                ELSE counter[entry] = Cardinality(HookedVnodes) + Cardinality(CountingThreads)

(* What the driver knows of a file is in one place, and until an entry is  *)
(* removed too early the operations through which it learns of the file    *)
(* are hooked as long as a vnode counts on it.                             *)
OneCountedObject == TypeOK /\ OneObject /\ HookedByEntry /\ HookIsCounted

(* An object lends its vnode, as a lease, until prepareForReclaiming has   *)
(* returned: "the users of DldIOVnode will not hit a reclaimed or reused   *)
(* vnode".                                                                 *)
InUse(o) == (\E v \in VnodeIds : object[v] = o) \/ (\E t \in Threads : has[t] = o)
Lease == INSTANCE ClientLease WITH
  Clients <- Objects, Users <- Threads, Nobody <- None,
  granted <- {o \in Objects : InUse(o) /\ ~settled[o]},
  using <- [t \in Threads |-> IF pc[t] = "getwithref" THEN has[t] ELSE None]
LentUntilReclaimed == Lease!Init /\ [][Lease!Next \/ UNCHANGED Lease!vars]_vars

(* prepareForReclaiming: when the last caller of getReferencedVnode has    *)
(* gone, a reclaim that waits for it is woken ("allow the reclaim to       *)
(* continue").                                                             *)
ReclaimGoesOn ==
  \A t \in Threads : pc[t] = "waiting" =>
    \E s \in Threads : has[s] = has[t] /\ pc[s] \in {"ask", "getwithref", "uncount", "wake"}

(* The entry that is removed has a count of zero: "assert( 0x0 ==          *)
(* existingEntry->getVnodeCounter() )" in DldUnHookVnodeVop.  It need not: *)
(* the counter that was looked at may be that of an earlier entry.         *)
RemovedUncounted == ~miscounted
=============================================================================
