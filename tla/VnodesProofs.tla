---------------------------- MODULE VnodesProofs ----------------------------
(***************************************************************************)
(* Proofs about Vnodes, for any number of vnodes and threads.  A vnode that*)
(* is held is not reclaimed; what a thread has of a vnode is the object in *)
(* the hash table as long as the vnode is not marked; and whoever asks an  *)
(* object for its vnode is counted before he looks whether the reclaim has *)
(* begun, so that the reclaim sees either him or he the reclaim.           *)
(***************************************************************************)
EXTENDS Vnodes, FiniteSetTheorems, TLAPS

Holding    == {"create", "insert", "hook", "hookTable", "flag", "undo", "have"}
Inserted   == {"hook", "hookTable", "flag", "undo"}
Asking     == {"ask", "getwithref", "uncount"}
Preparing  == {"assertWait", "waiting", "recheck", "prepared"}
Removed    == {"unhook", "decrement", "unhookTable", "callOriginal"}
WithObject == Inserted \cup {"have", "reference", "count", "wake", "prepare"}
                       \cup Asking \cup Preparing
Reclaims(t) ==
  \/ pc[t] \in {"reclaim", "prepare", "remove"} \cup Preparing \cup Removed
  \/ pc[t] \in {"original", "original2"} /\ ~hold[t]

(* Every variable has its type; that a count is not below zero comes from  *)
(* what it counts.                                                         *)
Types ==
  /\ phase \in [VnodeIds -> {"live", "marked", "reclaiming", "dead"}]
  /\ reuses \in 0 .. MaxReuses
  /\ object \in [VnodeIds -> Objects \cup {None}]
  /\ reclaimed \in [Objects -> BOOLEAN] /\ vopHooked \in [Objects -> BOOLEAN]
  /\ settled \in [Objects -> BOOLEAN] /\ delay \in [Objects -> Int]
  /\ table \in {"original", "hook"} /\ entry \in Entries \cup {None}
  /\ counter \in [Entries -> Int] /\ saved \in [Entries -> {"original", "hook"}]
  /\ miscounted \in BOOLEAN
  /\ pc \in [Threads -> Places] /\ on \in [Threads -> VnodeIds \cup {None}]
  /\ hold \in [Threads -> BOOLEAN] /\ has \in [Threads -> Objects \cup {None}]
  /\ ent \in [Threads -> Entries \cup {None}]
  /\ orig \in [Threads -> {None, "original", "hook"}]

(* An object is the object of one vnode, for all who have it.              *)
Homes ==
  /\ \A v, w \in VnodeIds : object[v] # None /\ object[v] = object[w] => v = w
  /\ \A t \in Threads, v \in VnodeIds : has[t] # None /\ has[t] = object[v] => on[t] = v
  /\ \A s, t \in Threads : has[s] # None /\ has[s] = has[t] => on[s] = on[t]

(* Where a thread is tells what it has.                                    *)
Where ==
  /\ \A t \in Threads :
       /\ pc[t] \in {"idle", "create", "insert", "reclaim"} => has[t] = None
       /\ pc[t] = "idle" => ~hold[t]
       /\ hold[t] => on[t] \in VnodeIds /\ phase[on[t]] \in {"live", "marked"}
       /\ pc[t] \in Holding => hold[t]
       /\ pc[t] \in WithObject => has[t] \in Objects /\ on[t] \in VnodeIds
       /\ Reclaims(t) => on[t] \in VnodeIds /\ ~hold[t] /\ phase[on[t]] = "reclaiming"
  /\ \A s, t \in Threads : Reclaims(s) /\ Reclaims(t) /\ on[s] = on[t] => s = t

(* What a thread has found is in the hash table.                           *)
Found ==
  /\ \A t \in Threads :
       /\ pc[t] \in Inserted => object[on[t]] = has[t]
       /\ pc[t] = "undo" => Recycled(on[t])
       /\ pc[t] = "have" /\ ~Recycled(on[t]) => object[on[t]] = has[t]
       /\ pc[t] \in Inserted \cup {"have"} => ~reclaimed[has[t]]
       /\ pc[t] \in Removed => object[on[t]] = None
  /\ \A s, t \in Threads :
       pc[s] \in Inserted /\ pc[t] \in Inserted /\ on[s] = on[t] => s = t
  /\ \A v \in VnodeIds : object[v] # None /\ reclaimed[object[v]] => phase[v] = "reclaiming"

(* Who asks for a vnode is counted, and nobody does after the reclaim has  *)
(* seen the count at zero.                                                 *)
Counted ==
  \A o \in Objects : delay[o] = Cardinality({t \in Threads : pc[t] \in Asking /\ has[t] = o})
Lent ==
  /\ \A o \in Objects : settled[o] =>
       reclaimed[o] /\ \A t \in Threads : pc[t] = "getwithref" => has[t] # o
  /\ \A t \in Threads : pc[t] \in Preparing => reclaimed[has[t]]
  /\ \A s, t \in Threads : pc[s] = "prepared" /\ pc[t] = "getwithref" => has[s] # has[t]

(* The table has the hook exactly while there is an entry, and the entry   *)
(* has the original operation.                                             *)
Hooks == HookedByEntry /\ NoRecursion

(* An object is not marked as hooked before its vnode is counted, and as   *)
(* long as no entry was removed too early who is about to count down has   *)
(* the entry that is in the hash.                                          *)
ToBeHooked == \A t \in Threads : pc[t] \in Inserted => ~vopHooked[has[t]]
Balanced ==
  /\ ToBeHooked
  /\ HookIsCounted
  /\ miscounted \/ \A t \in Threads : pc[t] = "decrement" => ent[t] = entry

IInv == Types /\ Homes /\ Where /\ Found /\ Counted /\ Lent /\ Hooks /\ Balanced

----------------------------------------------------------------------------
(* The types, step by step.                                                *)
LEMMA TypesCreating ==
  ASSUME Types, Where, NEW t \in Threads, Creating(t) \/ Using(t) PROVE Types'
  <1> USE DEF Types, Places, GoTo, vnodeVars, objectVars, tableVars, localVars, FreshObjects,
              FreshEntries
  <1>1. CASE Lookup(t)
    BY <1>1 DEF Lookup, Where, Holding
  <1>2. CASE Insert(t)
    <2>1. on[t] \in VnodeIds
      BY <1>2 DEF Insert, Where, Holding
    <2>2. CASE object[on[t]] # None
      BY <1>2, <2>1, <2>2 DEF Insert
    <2>3. CASE object[on[t]] = None
      <3>1. PICK o \in Objects :
              /\ object' = [object EXCEPT ![on[t]] = o]
              /\ reclaimed' = [reclaimed EXCEPT ![o] = FALSE]
              /\ vopHooked' = [vopHooked EXCEPT ![o] = FALSE]
              /\ settled' = [settled EXCEPT ![o] = FALSE]
              /\ has' = [has EXCEPT ![t] = o]
              /\ pc' = [pc EXCEPT ![t] = "hook"]
        BY <1>2, <2>3 DEF Insert
      <3>2. UNCHANGED << phase, reuses, delay, table, entry, counter, saved, miscounted,
                         on, hold, ent, orig >>
        BY <1>2, <2>3 DEF Insert
      <3> QED
        BY <3>1, <3>2, <2>1
    <2> QED
      BY <2>2, <2>3
  <1>3. CASE HookVnode(t)
    BY <1>3 DEF HookVnode
  <1>4. CASE HookTable(t)
    BY <1>4 DEF HookTable
  <1>5. CASE SetHooked(t)
    BY <1>5 DEF SetHooked
  <1>6. CASE Undo(t)
    BY <1>6 DEF Undo
  <1>7. CASE CallOperation(t)
    BY <1>7 DEF CallOperation
  <1>8. CASE PutVnode(t)
    BY <1>8 DEF PutVnode
  <1>9. CASE Leave(t)
    BY <1>9 DEF Leave
  <1> QED
    BY <1>1, <1>2, <1>3, <1>4, <1>5, <1>6, <1>7, <1>8, <1>9 DEF Creating, Using

LEMMA TypesReferencing ==
  ASSUME Types, Where, NEW t \in Threads, Referencing(t) PROVE Types'
  <1> USE DEF Types, Places, GoTo, vnodeVars, objectVars, tableVars, localVars
  <1>1. CASE LookAtFlag(t)
    BY <1>1 DEF LookAtFlag
  <1>2. CASE Count(t)
    BY <1>2 DEF Count, Where, WithObject
  <1>3. CASE AskAgain(t)
    BY <1>3 DEF AskAgain
  <1>4. CASE GetWithRef(t)
    BY <1>4 DEF GetWithRef, Recycled
  <1>5. CASE Uncount(t)
    BY <1>5 DEF Uncount, Where, WithObject, Asking
  <1>6. CASE Wake(t)
    BY <1>6 DEF Wake
  <1> QED
    BY <1>1, <1>2, <1>3, <1>4, <1>5, <1>6 DEF Referencing

LEMMA TypesReclaiming ==
  ASSUME Types, Where, NEW t \in Threads, Reclaiming(t) PROVE Types'
  <1> USE DEF Types, Places, GoTo, vnodeVars, objectVars, tableVars, localVars
  <1>1. CASE FindObject(t)
    BY <1>1 DEF FindObject, Where, Reclaims
  <1>2. CASE Prepare(t)
    BY <1>2 DEF Prepare
  <1>3. CASE AssertWait(t)
    BY <1>3 DEF AssertWait
  <1>4. CASE Recheck(t)
    BY <1>4 DEF Recheck
  <1>5. CASE Prepared(t)
    BY <1>5 DEF Prepared
  <1>6. CASE GetOriginal(t)
    BY <1>6 DEF GetOriginal, AfterOriginal
  <1>7. CASE GetCurrent(t)
    BY <1>7 DEF GetCurrent, AfterOriginal, Current
  <1>8. CASE RemoveObject(t)
    BY <1>8 DEF RemoveObject
  <1>9. CASE FindEntry(t)
    BY <1>9 DEF FindEntry
  <1>10. CASE Decrement(t)
    <2>1. CASE ent[t] \in Entries
      BY <1>10, <2>1 DEF Decrement
    <2>2. CASE ent[t] \notin Entries
      <3>1. counter' = counter
        BY <1>10, <2>2 DEF Decrement
      <3> QED
        BY <1>10, <3>1 DEF Decrement
    <2> QED
      BY <2>1, <2>2
  <1>11. CASE UnhookTable(t)
    BY <1>11 DEF UnhookTable
  <1>12. CASE CallOriginal(t)
    BY <1>12 DEF CallOriginal
  <1> QED
    BY <1>1, <1>2, <1>3, <1>4, <1>5, <1>6, <1>7, <1>8, <1>9, <1>10, <1>11, <1>12 DEF Reclaiming

LEMMA TypesKernel ==
  ASSUME Types, NEW v \in VnodeIds,
         \/ Mark(v) \/ Reuse(v)
         \/ \E t \in Threads : Enter(t, v) \/ Retrieve(t, v) \/ Reclaim(t, v)
  PROVE  Types'
  <1> USE DEF Types, Places, GoTo, vnodeVars, objectVars, tableVars, localVars
  <1>1. CASE Mark(v)
    BY <1>1 DEF Mark
  <1>2. CASE Reuse(v)
    BY <1>2, VnodesAssumption DEF Reuse
  <1>3. ASSUME NEW t \in Threads, Enter(t, v) PROVE Types'
    BY <1>3 DEF Enter
  <1>4. ASSUME NEW t \in Threads, Retrieve(t, v) PROVE Types'
    BY <1>4 DEF Retrieve
  <1>5. ASSUME NEW t \in Threads, Reclaim(t, v) PROVE Types'
    BY <1>5 DEF Reclaim
  <1> QED
    BY <1>1, <1>2, <1>3, <1>4, <1>5

LEMMA TypesStep == Types /\ Where /\ [Next]_vars => Types'
  <1>1. Types /\ UNCHANGED vars => Types'
    BY DEF Types, vars, vnodeVars, objectVars, tableVars, localVars
  <1> QED
    BY <1>1, TypesCreating, TypesReferencing, TypesReclaiming, TypesKernel DEF Next, Running

(* The table of operations and its entry.                                  *)
LEMMA HooksStep == Types /\ Hooks /\ [Next]_vars => Hooks'
  <1> SUFFICES ASSUME Types, Hooks, [Next]_vars PROVE Hooks'
    OBVIOUS
  <1> USE DEF Hooks, HookedByEntry, NoRecursion
  <1>1. ASSUME NEW t \in Threads, HookTable(t) PROVE Hooks'
    BY <1>1, VnodesAssumption DEF HookTable, FreshEntries, localVars, Types
  <1>2. ASSUME NEW t \in Threads, UnhookTable(t) PROVE Hooks'
    BY <1>2 DEF UnhookTable, localVars, Types
  <1>3. ASSUME NEW t \in Threads, GetOriginal(t) \/ GetCurrent(t) PROVE Hooks'
    BY <1>3 DEF GetOriginal, GetCurrent, Current, tableVars, Types
  <1>4. ASSUME NEW t \in Threads, Leave(t) PROVE Hooks'
    BY <1>4, VnodesAssumption DEF Leave, tableVars, Types
  <1>5. CASE UNCHANGED << table, entry, saved, orig >>
    BY <1>5
  <1> QED
    BY <1>1, <1>2, <1>3, <1>4, <1>5
       DEF Next, Running, Creating, Using, Referencing, Reclaiming, Lookup, Insert, HookVnode,
           SetHooked, Undo, CallOperation, PutVnode, LookAtFlag, Count, AskAgain, GetWithRef,
           Uncount, Wake, FindObject, Prepare, AssertWait, Recheck, Prepared, RemoveObject,
           FindEntry, Decrement, CallOriginal, Mark, Reuse, Enter, Retrieve, Reclaim,
           vars, vnodeVars, objectVars, tableVars, localVars

----------------------------------------------------------------------------
(* The steps of the vnodes and their objects, one by one.                  *)
Core == Homes /\ Where /\ Found /\ Lent

(* When the count of an object is zero nobody asks it for its vnode.       *)
LEMMA NobodyAsks ==
  ASSUME Types, Counted, NEW o \in Objects, delay[o] = 0, NEW s \in Threads, pc[s] \in Asking
  PROVE  has[s] # o
  <1> DEFINE A == {t \in Threads : pc[t] \in Asking /\ has[t] = o}
  <1>1. IsFiniteSet(A) /\ Cardinality(A) = 0
    <2>1. IsFiniteSet(A)
      BY VnodesAssumption, FS_Subset
    <2> QED
      BY <2>1 DEF Counted
  <1>2. A = {}
    BY <1>1, FS_EmptySet
  <1> QED
    BY <1>2

(* A thread goes from one place to another and changes nothing else of the *)
(* vnodes and objects.                                                     *)
Moves(t) ==
  /\ pc' = [pc EXCEPT ![t] = pc'[t]]
  /\ \/ pc[t] \in {"hook", "hookTable", "flag"} /\ pc'[t] \in {"hookTable", "flag", "have"}
     \/ pc[t] = "hook" /\ Recycled(on[t]) /\ pc'[t] = "undo"
     \/ pc[t] = "have" /\ hold[t] /\ pc'[t] \in {"original", "leave"}
     \/ pc[t] = "reference" /\ pc'[t] \in {"leave", "count"}
     \/ pc[t] = "ask" /\ (pc'[t] = "uncount" \/ (pc'[t] = "getwithref" /\ ~reclaimed[has[t]]))
     \/ pc[t] = "assertWait" /\ pc'[t] = "waiting"
     \/ /\ pc[t] = "recheck"
        /\ \/ pc'[t] = "assertWait"
           \/ /\ pc'[t] = "prepared"
              /\ \A s \in Threads : pc[s] \in Asking => has[s] # has[t]
     \/ pc[t] = "original" /\ pc'[t] = "original2"
     \/ pc[t] \in {"original", "original2"} /\ pc'[t] = (IF hold[t] THEN "leave" ELSE "remove")
     \/ /\ pc[t] \in {"unhook", "decrement", "unhookTable"}
        /\ pc'[t] \in {"decrement", "unhookTable", "callOriginal"}
  /\ UNCHANGED << phase, object, reclaimed, settled, on, hold, has >>

LEMMA MoveStep ==
  ASSUME Types, Core, NEW t \in Threads, Moves(t) PROVE Core'
  <1> USE VnodesAssumption
      DEF Core, Holding, Inserted, Asking, Preparing, Removed, WithObject,
              Reclaims
  <1>1. Homes'
    BY DEF Homes, Moves
  <1>2. Where'
    BY DEF Where, Moves, Types
  <1>3. Found'
    BY DEF Found, Where, Moves, Recycled, Types
  <1>4. Lent'
    BY DEF Lent, Moves, Types
  <1> QED
    BY <1>1, <1>2, <1>3, <1>4

LEMMA EnterStep ==
  ASSUME Types, Core, NEW t \in Threads, NEW v \in VnodeIds, Enter(t, v) PROVE Core'
  <1> USE VnodesAssumption
      DEF Core, Holding, Inserted, Asking, Preparing, Removed, WithObject,
              Reclaims
  <1>1. /\ pc[t] = "idle"
        /\ phase[v] = "live"
        /\ pc' = [pc EXCEPT ![t] = "create"]
        /\ on' = [on EXCEPT ![t] = v]
        /\ hold' = [hold EXCEPT ![t] = TRUE]
        /\ UNCHANGED << phase, object, reclaimed, settled, has >>
    BY DEF Enter, vnodeVars, objectVars, tableVars, localVars, GoTo
  <1>2. Homes'
    BY <1>1 DEF Homes, Where, Types
  <1>3. Where'
    BY <1>1 DEF Where, Types
  <1>4. Found'
    BY <1>1 DEF Found, Homes, Where, Recycled, Types
  <1>5. Lent'
    BY <1>1 DEF Lent, Homes, Where, Found, Types
  <1> QED
    BY <1>2, <1>3, <1>4, <1>5

LEMMA LookupStep ==
  ASSUME Types, Core, NEW t \in Threads, Lookup(t) PROVE Core'
  <1> USE VnodesAssumption
      DEF Core, Holding, Inserted, Asking, Preparing, Removed, WithObject,
              Reclaims
  <1>1. /\ pc[t] = "create"
        /\ UNCHANGED << phase, object, reclaimed, settled, on, hold >>
        /\ \/ pc' = [pc EXCEPT ![t] = "leave"] /\ has' = has
           \/ pc' = [pc EXCEPT ![t] = "insert"] /\ has' = has
           \/ /\ ~Recycled(on[t]) /\ object[on[t]] # None
              /\ pc' = [pc EXCEPT ![t] = "have"] /\ has' = [has EXCEPT ![t] = object[on[t]]]
    BY DEF Lookup, vnodeVars, objectVars, tableVars, localVars, GoTo
  <1>2. Homes'
    BY <1>1 DEF Homes, Where, Types
  <1>3. Where'
    BY <1>1 DEF Where, Types
  <1>4. Found'
    BY <1>1 DEF Found, Homes, Where, Recycled, Types
  <1>5. Lent'
    BY <1>1 DEF Lent, Homes, Where, Found, Types
  <1> QED
    BY <1>2, <1>3, <1>4, <1>5

LEMMA FoundInTable ==
  ASSUME Types, Core, NEW t \in Threads, pc[t] = "insert", object[on[t]] # None,
         has' = [has EXCEPT ![t] = object[on[t]]], pc' = [pc EXCEPT ![t] = "have"],
         UNCHANGED << phase, object, reclaimed, settled, on, hold >>
  PROVE  Core'
  <1> USE VnodesAssumption
      DEF Core, Holding, Inserted, Asking, Preparing, Removed, WithObject,
              Reclaims
  <1>2. Homes'
    BY DEF Homes, Where, Types
  <1>3. Where'
    BY DEF Where, Types
  <1>4. Found'
    BY DEF Found, Homes, Where, Recycled, Types
  <1>5. Lent'
    BY DEF Lent, Homes, Where, Found, Types
  <1> QED
    BY <1>2, <1>3, <1>4, <1>5

LEMMA InsertedFresh ==
  ASSUME Types, Core, NEW t \in Threads, pc[t] = "insert", object[on[t]] = None,
         NEW o \in Objects, o \in FreshObjects,
         object' = [object EXCEPT ![on[t]] = o], reclaimed' = [reclaimed EXCEPT ![o] = FALSE],
         settled' = [settled EXCEPT ![o] = FALSE], has' = [has EXCEPT ![t] = o],
         pc' = [pc EXCEPT ![t] = "hook"], UNCHANGED << phase, on, hold >>
  PROVE  Core'
  <1> USE VnodesAssumption
      DEF Core, Holding, Inserted, Asking, Preparing, Removed, WithObject,
              Reclaims
  <1>1. on[t] \in VnodeIds /\ o # None /\ hold[t] /\ phase[on[t]] # "reclaiming"
    BY DEF Where
  <1>2. (\A v \in VnodeIds : object[v] # o) /\ \A s \in Threads : has[s] # o
    BY DEF FreshObjects
  <1>3. Homes'
    BY <1>1, <1>2 DEF Homes, Types
  <1>4. Where'
    BY <1>1 DEF Where, Types
  <1>5. Found'
    BY <1>1, <1>2 DEF Found, Where, Recycled, Types
  <1>6. Lent'
    BY <1>1, <1>2 DEF Lent, Where, Types
  <1> QED
    BY <1>3, <1>4, <1>5, <1>6

LEMMA InsertStep ==
  ASSUME Types, Core, NEW t \in Threads, Insert(t) PROVE Core'
  <1> USE DEF Insert, vnodeVars, objectVars, localVars, GoTo
  <1>1. CASE object[on[t]] # None
    BY <1>1, FoundInTable
  <1>2. CASE object[on[t]] = None
    <2>1. PICK o \in FreshObjects :
            /\ object' = [object EXCEPT ![on[t]] = o]
            /\ reclaimed' = [reclaimed EXCEPT ![o] = FALSE]
            /\ settled' = [settled EXCEPT ![o] = FALSE]
            /\ has' = [has EXCEPT ![t] = o]
            /\ pc' = [pc EXCEPT ![t] = "hook"]
      BY <1>2
    <2>2. o \in Objects
      BY DEF FreshObjects
    <2> QED
      BY <1>2, <2>1, <2>2, InsertedFresh
  <1> QED
    BY <1>1, <1>2

LEMMA UndoStep ==
  ASSUME Types, Core, NEW t \in Threads, Undo(t) PROVE Core'
  <1> USE VnodesAssumption
      DEF Core, Holding, Inserted, Asking, Preparing, Removed, WithObject,
              Reclaims
  <1>1. /\ pc[t] = "undo"
        /\ pc' = [pc EXCEPT ![t] = "leave"]
        /\ object' = [object EXCEPT ![on[t]] = None]
        /\ has' = [has EXCEPT ![t] = None]
        /\ UNCHANGED << phase, reclaimed, settled, on, hold >>
    BY DEF Undo, vnodeVars, objectVars, tableVars, localVars, GoTo
  <1>2. Homes'
    BY <1>1 DEF Homes, Where, Types
  <1>3. Where'
    BY <1>1 DEF Where, Types
  <1>4. Found'
    BY <1>1 DEF Found, Homes, Where, Recycled, Types
  <1>5. Lent'
    BY <1>1 DEF Lent, Homes, Where, Found, Types
  <1> QED
    BY <1>2, <1>3, <1>4, <1>5

LEMMA PutVnodeStep ==
  ASSUME Types, Core, NEW t \in Threads, PutVnode(t) PROVE Core'
  <1> USE VnodesAssumption
      DEF Core, Holding, Inserted, Asking, Preparing, Removed, WithObject,
              Reclaims
  <1>1. /\ pc[t] = "have"
        /\ pc' = [pc EXCEPT ![t] = "reference"]
        /\ hold' = [hold EXCEPT ![t] = FALSE]
        /\ UNCHANGED << phase, object, reclaimed, settled, on, has >>
    BY DEF PutVnode, vnodeVars, objectVars, tableVars, localVars, GoTo
  <1>2. Homes'
    BY <1>1 DEF Homes, Where, Types
  <1>3. Where'
    BY <1>1 DEF Where, Types
  <1>4. Found'
    BY <1>1 DEF Found, Homes, Where, Recycled, Types
  <1>5. Lent'
    BY <1>1 DEF Lent, Homes, Where, Found, Types
  <1> QED
    BY <1>2, <1>3, <1>4, <1>5

LEMMA RetrieveStep ==
  ASSUME Types, Core, NEW t \in Threads, NEW v \in VnodeIds, Retrieve(t, v) PROVE Core'
  <1> USE VnodesAssumption
      DEF Core, Holding, Inserted, Asking, Preparing, Removed, WithObject,
              Reclaims
  <1>1. /\ pc[t] = "idle"
        /\ object[v] # None
        /\ pc' = [pc EXCEPT ![t] = "reference"]
        /\ on' = [on EXCEPT ![t] = v]
        /\ has' = [has EXCEPT ![t] = object[v]]
        /\ UNCHANGED << phase, object, reclaimed, settled, hold >>
    BY DEF Retrieve, vnodeVars, objectVars, tableVars, localVars, GoTo
  <1>2. Homes'
    BY <1>1 DEF Homes, Where, Types
  <1>3. Where'
    BY <1>1 DEF Where, Types
  <1>4. Found'
    BY <1>1 DEF Found, Homes, Where, Recycled, Types
  <1>5. Lent'
    BY <1>1 DEF Lent, Homes, Where, Found, Types
  <1> QED
    BY <1>2, <1>3, <1>4, <1>5

LEMMA LeaveStep ==
  ASSUME Types, Core, NEW t \in Threads, Leave(t) PROVE Core'
  <1> USE VnodesAssumption
      DEF Core, Holding, Inserted, Asking, Preparing, Removed, WithObject,
              Reclaims
  <1>1. /\ pc[t] = "leave"
        /\ pc' = [pc EXCEPT ![t] = "idle"]
        /\ on' = [on EXCEPT ![t] = None]
        /\ hold' = [hold EXCEPT ![t] = FALSE]
        /\ has' = [has EXCEPT ![t] = None]
        /\ UNCHANGED << phase, object, reclaimed, settled >>
    BY DEF Leave, vnodeVars, objectVars, tableVars, localVars, GoTo
  <1>2. Homes'
    BY <1>1 DEF Homes, Where, Types
  <1>3. Where'
    BY <1>1 DEF Where, Types
  <1>4. Found'
    BY <1>1 DEF Found, Homes, Where, Recycled, Types
  <1>5. Lent'
    BY <1>1 DEF Lent, Homes, Where, Found, Types
  <1> QED
    BY <1>2, <1>3, <1>4, <1>5

LEMMA CountStep ==
  ASSUME Types, Core, NEW t \in Threads, Count(t) PROVE Core'
  <1> USE VnodesAssumption
      DEF Core, Holding, Inserted, Asking, Preparing, Removed, WithObject,
              Reclaims
  <1>1. /\ pc[t] = "count"
        /\ pc' = [pc EXCEPT ![t] = "ask"]
        /\ UNCHANGED << phase, object, reclaimed, settled, on, hold, has >>
    BY DEF Count, vnodeVars, objectVars, tableVars, localVars, GoTo
  <1>2. Homes'
    BY <1>1 DEF Homes, Where, Types
  <1>3. Where'
    BY <1>1 DEF Where, Types
  <1>4. Found'
    BY <1>1 DEF Found, Homes, Where, Recycled, Types
  <1>5. Lent'
    BY <1>1 DEF Lent, Homes, Where, Found, Types
  <1> QED
    BY <1>2, <1>3, <1>4, <1>5

LEMMA GetWithRefStep ==
  ASSUME Types, Core, NEW t \in Threads, GetWithRef(t) PROVE Core'
  <1> USE VnodesAssumption
      DEF Core, Holding, Inserted, Asking, Preparing, Removed, WithObject,
              Reclaims
  <1>1. /\ pc[t] = "getwithref"
        /\ pc' = [pc EXCEPT ![t] = "uncount"]
        /\ hold' = [hold EXCEPT ![t] = (phase[on[t]] = "live")]
        /\ UNCHANGED << phase, object, reclaimed, settled, on, has >>
    BY DEF GetWithRef, Recycled, vnodeVars, objectVars, tableVars, localVars, GoTo
  <1>2. Homes'
    BY <1>1 DEF Homes, Where, Types
  <1>3. Where'
    BY <1>1 DEF Where, Types
  <1>4. Found'
    BY <1>1 DEF Found, Homes, Where, Recycled, Types
  <1>5. Lent'
    BY <1>1 DEF Lent, Homes, Where, Found, Types
  <1> QED
    BY <1>2, <1>3, <1>4, <1>5

LEMMA UncountStep ==
  ASSUME Types, Core, NEW t \in Threads, Uncount(t) PROVE Core'
  <1> USE VnodesAssumption
      DEF Core, Holding, Inserted, Asking, Preparing, Removed, WithObject,
              Reclaims
  <1>1. /\ pc[t] = "uncount"
        /\ pc' = [pc EXCEPT ![t] = "wake"]
        /\ UNCHANGED << phase, object, reclaimed, settled, on, hold, has >>
    BY DEF Uncount, vnodeVars, objectVars, tableVars, localVars, GoTo
  <1>2. Homes'
    BY <1>1 DEF Homes, Where, Types
  <1>3. Where'
    BY <1>1 DEF Where, Types
  <1>4. Found'
    BY <1>1 DEF Found, Homes, Where, Recycled, Types
  <1>5. Lent'
    BY <1>1 DEF Lent, Homes, Where, Found, Types
  <1> QED
    BY <1>2, <1>3, <1>4, <1>5

LEMMA WakeStep ==
  ASSUME Types, Core, NEW t \in Threads, Wake(t) PROVE Core'
  <1> USE VnodesAssumption
      DEF Core, Holding, Inserted, Asking, Preparing, Removed, WithObject,
              Reclaims
  <1>1. /\ pc[t] = "wake"
        /\ \A s \in Threads : pc'[s] =
             IF s = t THEN "leave"
             ELSE IF pc[s] = "waiting" /\ has[s] = has[t] THEN "recheck" ELSE pc[s]
        /\ UNCHANGED << phase, object, reclaimed, settled, on, hold, has >>
    BY DEF Wake, vnodeVars, objectVars, tableVars, localVars, GoTo
  <1>2. Homes'
    BY <1>1 DEF Homes, Where, Types
  <1>3. Where'
    BY <1>1 DEF Where, Types
  <1>4. Found'
    BY <1>1 DEF Found, Homes, Where, Recycled, Types
  <1>5. Lent'
    BY <1>1 DEF Lent, Homes, Where, Found, Types
  <1> QED
    BY <1>2, <1>3, <1>4, <1>5

LEMMA FindObjectStep ==
  ASSUME Types, Core, NEW t \in Threads, FindObject(t) PROVE Core'
  <1> USE VnodesAssumption
      DEF Core, Holding, Inserted, Asking, Preparing, Removed, WithObject,
              Reclaims
  <1>1. /\ pc[t] = "reclaim"
        /\ has' = [has EXCEPT ![t] = object[on[t]]]
        /\ pc' = [pc EXCEPT ![t] = IF object[on[t]] = None THEN "original" ELSE "prepare"]
        /\ UNCHANGED << phase, object, reclaimed, settled, on, hold >>
    BY DEF FindObject, vnodeVars, objectVars, tableVars, localVars, GoTo
  <1>2. Homes'
    BY <1>1 DEF Homes, Where, Types
  <1>3. Where'
    BY <1>1 DEF Where, Types
  <1>4. Found'
    BY <1>1 DEF Found, Homes, Where, Recycled, Types
  <1>5. Lent'
    BY <1>1 DEF Lent, Homes, Where, Found, Types
  <1> QED
    BY <1>2, <1>3, <1>4, <1>5

LEMMA PrepareStep ==
  ASSUME Types, Core, Counted, NEW t \in Threads, Prepare(t) PROVE Core'
  <1> USE VnodesAssumption
      DEF Core, Holding, Inserted, Asking, Preparing, Removed, WithObject,
              Reclaims
  <1>0. delay[has[t]] = 0 => \A s \in Threads : pc[s] \in Asking => has[s] # has[t]
    BY NobodyAsks DEF Prepare, Where, WithObject
  <1>1. /\ pc[t] = "prepare"
        /\ has[t] \in Objects
        /\ reclaimed' = [reclaimed EXCEPT ![has[t]] = TRUE]
        /\ \/ pc' = [pc EXCEPT ![t] = "assertWait"]
           \/ /\ pc' = [pc EXCEPT ![t] = "prepared"]
              /\ \A s \in Threads : pc[s] \in Asking => has[s] # has[t]
        /\ UNCHANGED << phase, object, settled, on, hold, has >>
    BY <1>0 DEF Prepare, Where, WithObject, vnodeVars, objectVars, tableVars, localVars, GoTo
  <1>2. Homes'
    BY <1>1 DEF Homes, Where, Types
  <1>3. Where'
    BY <1>1 DEF Where, Types
  <1>4. Found'
    BY <1>1 DEF Found, Homes, Where, Recycled, Types
  <1>5. Lent'
    BY <1>1 DEF Lent, Homes, Where, Found, Types
  <1> QED
    BY <1>2, <1>3, <1>4, <1>5

LEMMA PreparedStep ==
  ASSUME Types, Core, NEW t \in Threads, Prepared(t) PROVE Core'
  <1> USE VnodesAssumption
      DEF Core, Holding, Inserted, Asking, Preparing, Removed, WithObject,
              Reclaims
  <1>1. /\ pc[t] = "prepared"
        /\ has[t] \in Objects
        /\ pc' = [pc EXCEPT ![t] = "original"]
        /\ settled' = [settled EXCEPT ![has[t]] = TRUE]
        /\ has' = [has EXCEPT ![t] = None]
        /\ UNCHANGED << phase, object, reclaimed, on, hold >>
    BY DEF Prepared, Where, WithObject, Preparing, vnodeVars, objectVars, tableVars, localVars, GoTo
  <1>2. Homes'
    BY <1>1 DEF Homes, Where, Types
  <1>3. Where'
    BY <1>1 DEF Where, Types
  <1>4. Found'
    BY <1>1 DEF Found, Homes, Where, Recycled, Types
  <1>5. Lent'
    BY <1>1 DEF Lent, Homes, Where, Found, Types
  <1> QED
    BY <1>2, <1>3, <1>4, <1>5

LEMMA RemoveObjectStep ==
  ASSUME Types, Core, NEW t \in Threads, RemoveObject(t) PROVE Core'
  <1> USE VnodesAssumption
      DEF Core, Holding, Inserted, Asking, Preparing, Removed, WithObject,
              Reclaims
  <1>1. /\ pc[t] = "remove"
        /\ pc' = [pc EXCEPT ![t] = "unhook"] \/ pc' = [pc EXCEPT ![t] = "callOriginal"]
        /\ object' = [object EXCEPT ![on[t]] = None]
        /\ UNCHANGED << phase, reclaimed, settled, on, hold, has >>
    BY DEF RemoveObject, vnodeVars, objectVars, tableVars, localVars, GoTo
  <1>2. Homes'
    BY <1>1 DEF Homes, Where, Types
  <1>3. Where'
    BY <1>1 DEF Where, Types
  <1>4. Found'
    BY <1>1 DEF Found, Homes, Where, Recycled, Types
  <1>5. Lent'
    BY <1>1 DEF Lent, Homes, Where, Found, Types
  <1> QED
    BY <1>2, <1>3, <1>4, <1>5

LEMMA CallOriginalStep ==
  ASSUME Types, Core, NEW t \in Threads, CallOriginal(t) PROVE Core'
  <1> USE VnodesAssumption
      DEF Core, Holding, Inserted, Asking, Preparing, Removed, WithObject,
              Reclaims
  <1>1. /\ pc[t] = "callOriginal"
        /\ pc' = [pc EXCEPT ![t] = "leave"]
        /\ phase' = [phase EXCEPT ![on[t]] = "dead"]
        /\ UNCHANGED << object, reclaimed, settled, on, hold, has >>
    BY DEF CallOriginal, vnodeVars, objectVars, tableVars, localVars, GoTo
  <1>2. Homes'
    BY <1>1 DEF Homes, Where, Types
  <1>3. Where'
    BY <1>1 DEF Where, Types
  <1>4. Found'
    BY <1>1 DEF Found, Homes, Where, Recycled, Types
  <1>5. Lent'
    BY <1>1 DEF Lent, Homes, Where, Found, Types
  <1> QED
    BY <1>2, <1>3, <1>4, <1>5

LEMMA MarkStep ==
  ASSUME Types, Core, NEW v \in VnodeIds, Mark(v) PROVE Core'
  <1> USE VnodesAssumption
      DEF Core, Holding, Inserted, Asking, Preparing, Removed, WithObject,
              Reclaims
  <1>1. /\ phase[v] = "live"
        /\ phase' = [phase EXCEPT ![v] = "marked"]
        /\ pc' = pc
        /\ UNCHANGED << object, reclaimed, settled, on, hold, has >>
    BY DEF Mark, vnodeVars, objectVars, tableVars, localVars, GoTo
  <1>2. Homes'
    BY <1>1 DEF Homes, Where, Types
  <1>3. Where'
    BY <1>1 DEF Where, Types
  <1>4. Found'
    BY <1>1 DEF Found, Homes, Where, Recycled, Types
  <1>5. Lent'
    BY <1>1 DEF Lent, Homes, Where, Found, Types
  <1> QED
    BY <1>2, <1>3, <1>4, <1>5

LEMMA ReuseStep ==
  ASSUME Types, Core, NEW v \in VnodeIds, Reuse(v) PROVE Core'
  <1> USE VnodesAssumption
      DEF Core, Holding, Inserted, Asking, Preparing, Removed, WithObject,
              Reclaims
  <1>1. /\ phase[v] = "dead"
        /\ phase' = [phase EXCEPT ![v] = "live"]
        /\ pc' = pc
        /\ UNCHANGED << object, reclaimed, settled, on, hold, has >>
    BY DEF Reuse, vnodeVars, objectVars, tableVars, localVars, GoTo
  <1>2. Homes'
    BY <1>1 DEF Homes, Where, Types
  <1>3. Where'
    BY <1>1 DEF Where, Types
  <1>4. Found'
    BY <1>1 DEF Found, Homes, Where, Recycled, Types
  <1>5. Lent'
    BY <1>1 DEF Lent, Homes, Where, Found, Types
  <1> QED
    BY <1>2, <1>3, <1>4, <1>5

LEMMA ReclaimStep ==
  ASSUME Types, Core, NEW t \in Threads, NEW v \in VnodeIds, Reclaim(t, v) PROVE Core'
  <1> USE VnodesAssumption
      DEF Core, Holding, Inserted, Asking, Preparing, Removed, WithObject,
              Reclaims
  <1>1. /\ pc[t] = "idle"
        /\ phase[v] = "marked"
        /\ \A s \in Threads : hold[s] => on[s] # v
        /\ \/ /\ phase' = [phase EXCEPT ![v] = "reclaiming"]
              /\ pc' = [pc EXCEPT ![t] = "reclaim"] /\ on' = [on EXCEPT ![t] = v]
           \/ phase' = [phase EXCEPT ![v] = "dead"] /\ pc' = pc /\ on' = on
        /\ UNCHANGED << object, reclaimed, settled, hold, has >>
    BY DEF Reclaim, vnodeVars, objectVars, tableVars, localVars, GoTo
  <1>2. Homes'
    BY <1>1 DEF Homes, Where, Types
  <1>3. Where'
    BY <1>1 DEF Where, Types
  <1>4. Found'
    BY <1>1 DEF Found, Homes, Where, Recycled, Types
  <1>5. Lent'
    BY <1>1 DEF Lent, Homes, Where, Found, Types
  <1> QED
    BY <1>2, <1>3, <1>4, <1>5
(* The other steps of a thread only move it.                               *)
LEMMA CreatingMoves ==
  ASSUME Types, NEW t \in Threads,
         HookVnode(t) \/ HookTable(t) \/ SetHooked(t) \/ CallOperation(t)
  PROVE  Moves(t)
  <1> USE DEF Types, Moves, vnodeVars, objectVars, localVars, GoTo
  <1>1. CASE HookVnode(t)
    BY <1>1 DEF HookVnode
  <1>2. CASE HookTable(t)
    BY <1>2 DEF HookTable
  <1>3. CASE SetHooked(t)
    BY <1>3 DEF SetHooked
  <1>4. CASE CallOperation(t)
    BY <1>4 DEF CallOperation
  <1> QED
    BY <1>1, <1>2, <1>3, <1>4

LEMMA AskingMoves ==
  ASSUME Types, NEW t \in Threads, LookAtFlag(t) \/ AskAgain(t) PROVE Moves(t)
  BY DEF LookAtFlag, AskAgain, Types, Moves, vnodeVars, objectVars, localVars, GoTo

LEMMA ReclaimingMoves ==
  ASSUME Types, Where, Counted, NEW t \in Threads,
         \/ AssertWait(t) \/ Recheck(t) \/ GetOriginal(t) \/ GetCurrent(t)
         \/ FindEntry(t) \/ Decrement(t) \/ UnhookTable(t)
  PROVE  Moves(t)
  <1> USE DEF Types, Moves, vnodeVars, objectVars, localVars, GoTo
  <1>1. CASE AssertWait(t)
    BY <1>1 DEF AssertWait
  <1>2. CASE Recheck(t)
    <2>1. has[t] \in Objects
      BY <1>2 DEF Recheck, Where, WithObject, Preparing
    <2>2. CASE delay[has[t]] = 0
      BY <1>2, <2>1, <2>2, NobodyAsks DEF Recheck
    <2>3. CASE delay[has[t]] # 0
      BY <1>2, <2>3 DEF Recheck
    <2> QED
      BY <2>2, <2>3
  <1>3. CASE GetOriginal(t)
    BY <1>3 DEF GetOriginal, AfterOriginal
  <1>4. CASE GetCurrent(t)
    BY <1>4 DEF GetCurrent, AfterOriginal
  <1>5. CASE FindEntry(t)
    BY <1>5 DEF FindEntry
  <1>6. CASE Decrement(t)
    BY <1>6 DEF Decrement
  <1>7. CASE UnhookTable(t)
    BY <1>7 DEF UnhookTable
  <1> QED
    BY <1>1, <1>2, <1>3, <1>4, <1>5, <1>6, <1>7

LEMMA CoreStep == Types /\ Core /\ Counted /\ [Next]_vars => Core'
  <1> SUFFICES ASSUME Types, Core, Counted, [Next]_vars PROVE Core'
    OBVIOUS
  <1>1. ASSUME NEW t \in Threads, Creating(t) \/ Using(t) PROVE Core'
    BY <1>1, CreatingMoves, MoveStep, LookupStep, InsertStep, UndoStep, PutVnodeStep, LeaveStep
       DEF Creating, Using
  <1>2. ASSUME NEW t \in Threads, Referencing(t) PROVE Core'
    BY <1>2, AskingMoves, MoveStep, CountStep, GetWithRefStep, UncountStep, WakeStep
       DEF Referencing
  <1>3. ASSUME NEW t \in Threads, Reclaiming(t) PROVE Core'
    BY <1>3, ReclaimingMoves, MoveStep, FindObjectStep, PrepareStep, PreparedStep,
       RemoveObjectStep, CallOriginalStep DEF Reclaiming, Core
  <1>4. CASE UNCHANGED vars
    <2>1. Homes' /\ Where'
      BY <1>4 DEF Core, Homes, Where, Reclaims, vars, vnodeVars, objectVars, localVars
    <2>2. Found' /\ Lent'
      BY <1>4 DEF Core, Found, Lent, Recycled, vars, vnodeVars, objectVars, localVars
    <2> QED
      BY <2>1, <2>2 DEF Core
  <1> QED
    BY <1>1, <1>2, <1>3, <1>4, EnterStep, RetrieveStep, ReclaimStep, MarkStep, ReuseStep
       DEF Next, Running

----------------------------------------------------------------------------
(* The count of an object is the number of those who ask it.               *)
Askers(o) == {t \in Threads : pc[t] \in Asking /\ has[t] = o}

SameAskers ==
  /\ delay' = delay
  /\ \A s \in Threads : /\ pc'[s] \in Asking <=> pc[s] \in Asking
                        /\ pc[s] \in Asking => has'[s] = has[s]

LEMMA CountKept == ASSUME Counted, SameAskers PROVE Counted'
  <1>1. ASSUME NEW o \in Objects
        PROVE  {t \in Threads : pc'[t] \in Asking /\ has'[t] = o} = Askers(o)
    BY DEF SameAskers, Askers
  <1> QED
    BY <1>1 DEF Counted, Askers, SameAskers

LEMMA CountedUp == ASSUME Types, Where, Counted, NEW t \in Threads, Count(t) PROVE Counted'
  <1> USE DEF Count, GoTo, localVars, Types, Asking
  <1>1. PICK p \in Objects : p = has[t]
    BY DEF Where, WithObject
  <1>2. \A o \in Objects : IsFiniteSet(Askers(o)) /\ delay[o] = Cardinality(Askers(o))
    BY VnodesAssumption, FS_Subset DEF Counted, Askers
  <1>3. \A o \in Objects : o # p => Askers(o)' = Askers(o)
    BY <1>1 DEF Askers
  <1>4. Askers(p)' = Askers(p) \cup {t} /\ t \notin Askers(p)
    BY <1>1 DEF Askers
  <1>5. Cardinality(Askers(p)') = delay[p] + 1
    <2>1. IsFiniteSet(Askers(p)) /\ delay[p] = Cardinality(Askers(p))
      BY <1>2
    <2> HIDE DEF Asking, Types
    <2> QED
      BY <2>1, <1>4, FS_AddElement
  <1>6. \A o \in Objects : delay'[o] = Cardinality(Askers(o)')
    BY <1>1, <1>2, <1>3, <1>5
  <1> QED
    BY <1>6 DEF Counted, Askers

LEMMA CountedDown == ASSUME Types, Where, Counted, NEW t \in Threads, Uncount(t) PROVE Counted'
  <1> USE DEF Uncount, GoTo, localVars, Types, Asking
  <1>1. PICK p \in Objects : p = has[t]
    BY DEF Where, WithObject
  <1>2. \A o \in Objects : IsFiniteSet(Askers(o)) /\ delay[o] = Cardinality(Askers(o))
    BY VnodesAssumption, FS_Subset DEF Counted, Askers
  <1>3. \A o \in Objects : o # p => Askers(o)' = Askers(o)
    BY <1>1 DEF Askers
  <1>4. Askers(p)' = Askers(p) \ {t} /\ t \in Askers(p)
    BY <1>1 DEF Askers
  <1>5. Cardinality(Askers(p)') = delay[p] - 1
    <2>1. IsFiniteSet(Askers(p)) /\ delay[p] = Cardinality(Askers(p))
      BY <1>2
    <2> HIDE DEF Asking, Types
    <2> QED
      BY <2>1, <1>4, FS_RemoveElement
  <1>6. \A o \in Objects : delay'[o] = Cardinality(Askers(o)')
    BY <1>1, <1>2, <1>3, <1>5
  <1> QED
    BY <1>6 DEF Counted, Askers

LEMMA CountedStep == Types /\ Where /\ Counted /\ [Next]_vars => Counted'
  <1> SUFFICES ASSUME Types, Where, Counted, [Next]_vars PROVE Counted'
    OBVIOUS
  <1> USE DEF Types, SameAskers, Asking, GoTo, vnodeVars, objectVars, tableVars, localVars
  <1>1. ASSUME NEW t \in Threads, Creating(t) PROVE SameAskers
    BY <1>1 DEF Creating, Lookup, Insert, HookVnode, HookTable, SetHooked, Undo
  <1>2. ASSUME NEW t \in Threads, Using(t) PROVE SameAskers
    BY <1>2 DEF Using, CallOperation, PutVnode, Leave
  <1>3. ASSUME NEW t \in Threads, LookAtFlag(t) \/ AskAgain(t) \/ GetWithRef(t) \/ Wake(t)
        PROVE  SameAskers
    BY <1>3 DEF LookAtFlag, AskAgain, GetWithRef, Wake
  <1>4. ASSUME NEW t \in Threads, Reclaiming(t) PROVE SameAskers
    BY <1>4 DEF Reclaiming, FindObject, Prepare, AssertWait, Recheck, Prepared, GetOriginal,
                GetCurrent, AfterOriginal, RemoveObject, FindEntry, Decrement, UnhookTable,
                CallOriginal
  <1>5. ASSUME NEW v \in VnodeIds, Mark(v) \/ Reuse(v) PROVE SameAskers
    BY <1>5 DEF Mark, Reuse
  <1>6. ASSUME NEW t \in Threads, NEW v \in VnodeIds,
               Enter(t, v) \/ Retrieve(t, v) \/ Reclaim(t, v)
        PROVE  SameAskers
    BY <1>6 DEF Enter, Retrieve, Reclaim
  <1> HIDE DEF Types, SameAskers, Asking
  <1>7. CASE UNCHANGED vars
    BY <1>7 DEF Counted, vars
  <1> QED
    BY <1>1, <1>2, <1>3, <1>4, <1>5, <1>6, <1>7, CountKept, CountedUp, CountedDown
       DEF Next, Running, Referencing

----------------------------------------------------------------------------
(* The counter of the entry in the hash                                    *)

LEMMA CountsOf ==
  /\ IsFiniteSet(HookedVnodes) /\ IsFiniteSet(CountingThreads)
  /\ Cardinality(HookedVnodes) \in Nat /\ Cardinality(CountingThreads) \in Nat
  /\ HookedVnodes = {} <=> Cardinality(HookedVnodes) = 0
  /\ CountingThreads = {} <=> Cardinality(CountingThreads) = 0
  <1>1. IsFiniteSet(HookedVnodes) /\ IsFiniteSet(CountingThreads)
    BY VnodesAssumption, FS_Subset DEF HookedVnodes, CountingThreads
  <1> QED
    BY <1>1, FS_EmptySet, FS_CardinalityType

(* A step that leaves everything counted as it is.                         *)
LEMMA BalanceKept ==
  ASSUME Balanced, ToBeHooked', HookedVnodes' = HookedVnodes, CountingThreads' = CountingThreads,
         UNCHANGED << entry, counter, miscounted, ent >>,
         \A t \in Threads : pc'[t] = "decrement" => pc[t] = "decrement"
  PROVE  Balanced'
  <1>1. HookIsCounted'
    BY DEF Balanced, HookIsCounted
  <1>2. miscounted' \/ \A t \in Threads : pc'[t] = "decrement" => ent'[t] = entry'
    BY DEF Balanced
  <1> QED
    BY <1>1, <1>2 DEF Balanced

(* A thread comes to count, or has counted.                                *)
LEMMA CountsOneMore ==
  ASSUME Types, NEW t \in Threads, pc[t] \notin {"flag", "unhook", "decrement"},
         pc' = [pc EXCEPT ![t] = pc'[t]], pc'[t] \in {"flag", "unhook", "decrement"}
  PROVE  Cardinality(CountingThreads') = Cardinality(CountingThreads) + 1
  <1>1. CountingThreads' = CountingThreads \cup {t} /\ t \notin CountingThreads
    BY DEF CountingThreads, Types
  <1> QED
    BY <1>1, CountsOf, FS_AddElement

LEMMA CountsOneLess ==
  ASSUME Types, NEW t \in Threads, pc[t] \in {"flag", "unhook", "decrement"},
         pc' = [pc EXCEPT ![t] = pc'[t]], pc'[t] \notin {"flag", "unhook", "decrement"}
  PROVE  Cardinality(CountingThreads') = Cardinality(CountingThreads) - 1
  <1>1. CountingThreads' = CountingThreads \ {t} /\ t \in CountingThreads
    BY DEF CountingThreads, Types
  <1> QED
    BY <1>1, CountsOf, FS_RemoveElement

LEMMA StillToBeHooked ==
  ASSUME ToBeHooked, UNCHANGED << has, vopHooked >>,
         \A t \in Threads : pc'[t] \in Inserted => pc[t] \in Inserted
  PROVE  ToBeHooked'
  BY DEF ToBeHooked

LEMMA HookVnodeCounts ==
  ASSUME Types, Balanced, NEW t \in Threads, HookVnode(t) PROVE Balanced'
  <1> USE DEF GoTo, objectVars, localVars, Inserted
  <1>1. /\ pc[t] = "hook" /\ pc' = [pc EXCEPT ![t] = pc'[t]]
        /\ UNCHANGED << object, vopHooked, entry, miscounted, has, ent >>
    BY DEF HookVnode, Types
  <1>2. ToBeHooked' /\ HookedVnodes' = HookedVnodes
    <2>1. pc'[t] \in {"undo", "have", "flag", "hookTable"}
      BY DEF HookVnode, Types
    <2> QED
      BY <1>1, <2>1, StillToBeHooked DEF HookedVnodes, Balanced, Types
  <1>3. CASE pc'[t] # "flag"
    <2>1. UNCHANGED counter /\ pc'[t] \in {"undo", "have", "hookTable"}
      BY <1>3 DEF HookVnode, Types
    <2>2. CountingThreads' = CountingThreads
      BY <1>1, <2>1 DEF CountingThreads, Types
    <2> QED
      BY <1>1, <1>2, <2>1, <2>2, BalanceKept DEF Types
  <1>4. CASE pc'[t] = "flag"
    <2>1. entry # None /\ counter' = [counter EXCEPT ![entry] = @ + 1]
      BY <1>4 DEF HookVnode, Types
    <2>2. Cardinality(CountingThreads') = Cardinality(CountingThreads) + 1
      BY <1>1, <1>4, CountsOneMore
    <2>3. HookIsCounted'
      BY <1>1, <1>2, <2>1, <2>2, CountsOf DEF Balanced, HookIsCounted, Types
    <2> QED
      BY <1>1, <1>2, <1>4, <2>3 DEF Balanced, Types
  <1> QED
    BY <1>3, <1>4

LEMMA HookTableCounts ==
  ASSUME Types, Balanced, NEW t \in Threads, HookTable(t) PROVE Balanced'
  <1> USE DEF GoTo, objectVars, localVars, Inserted
  <1>1. /\ pc[t] = "hookTable" /\ pc' = [pc EXCEPT ![t] = "flag"]
        /\ UNCHANGED << object, vopHooked, miscounted, has, ent >>
    BY DEF HookTable, Types
  <1>2. ToBeHooked' /\ HookedVnodes' = HookedVnodes
    BY <1>1, StillToBeHooked DEF HookedVnodes, Balanced, Types
  <1>3. Cardinality(CountingThreads') = Cardinality(CountingThreads) + 1
    BY <1>1, CountsOneMore DEF Types
  <1>4. CASE entry # None
    <2>1. counter' = [counter EXCEPT ![entry] = @ + 1] /\ entry' = entry
      BY <1>4 DEF HookTable
    <2>2. HookIsCounted'
      BY <1>1, <1>2, <1>3, <1>4, <2>1, CountsOf DEF Balanced, HookIsCounted, Types
    <2> QED
      BY <1>1, <1>2, <2>1, <2>2 DEF Balanced, Types
  <1>5. CASE entry = None
    <2>1. PICK e \in Entries : entry' = e /\ counter' = [counter EXCEPT ![e] = 1]
      BY <1>5 DEF HookTable, FreshEntries
    <2>2. e # None /\ counter'[e] = 1
      BY <2>1, VnodesAssumption DEF Types
    <2>3. HookIsCounted'
      BY <1>1, <1>2, <1>3, <1>5, <2>1, <2>2, CountsOf DEF Balanced, HookIsCounted
    <2>4. miscounted \/ \A s \in Threads : pc[s] # "decrement"
      BY <1>5 DEF Balanced, HookIsCounted, CountingThreads
    <2> QED
      BY <1>1, <1>2, <2>3, <2>4 DEF Balanced, Types
  <1> QED
    BY <1>4, <1>5

LEMMA InsertCounts ==
  ASSUME Types, Core, Balanced, NEW t \in Threads, Insert(t) PROVE Balanced'
  <1> USE DEF GoTo, tableVars, objectVars, Inserted
  <1>1. pc[t] = "insert" /\ on[t] \in VnodeIds
        /\ UNCHANGED << entry, counter, miscounted, ent >>
    BY DEF Insert, Core, Where, Holding
  <1>2. CASE object[on[t]] # None
    <2>1. /\ pc' = [pc EXCEPT ![t] = "have"] /\ UNCHANGED << object, vopHooked >>
          /\ has' = [has EXCEPT ![t] = object[on[t]]]
      BY <1>2 DEF Insert
    <2>2. /\ CountingThreads' = CountingThreads /\ HookedVnodes' = HookedVnodes
          /\ ToBeHooked'
      BY <1>1, <2>1 DEF CountingThreads, HookedVnodes, ToBeHooked, Balanced, Types
    <2> QED
      BY <1>1, <2>1, <2>2, BalanceKept DEF Types
  <1>3. CASE object[on[t]] = None
    <2>1. PICK o \in FreshObjects :
            /\ object' = [object EXCEPT ![on[t]] = o]
            /\ vopHooked' = [vopHooked EXCEPT ![o] = FALSE]
            /\ has' = [has EXCEPT ![t] = o]
            /\ pc' = [pc EXCEPT ![t] = "hook"]
      BY <1>3 DEF Insert
    <2>2. o \in Objects /\ (\A v \in VnodeIds : object[v] # o) /\ \A s \in Threads : has[s] # o
      BY DEF FreshObjects
    <2>3. HookedVnodes' = HookedVnodes
      <3>1. ASSUME NEW v \in VnodeIds
            PROVE  object'[v] # None /\ vopHooked'[object'[v]]
                   <=> object[v] # None /\ vopHooked[object[v]]
        BY <1>1, <1>3, <2>1, <2>2 DEF Types
      <3> QED
        BY <3>1 DEF HookedVnodes
    <2>4. CountingThreads' = CountingThreads
      BY <1>1, <2>1 DEF CountingThreads, Types
    <2>5. ToBeHooked'
      BY <2>1, <2>2 DEF ToBeHooked, Balanced, Types, Core, Where, WithObject
    <2> QED
      BY <1>1, <2>1, <2>3, <2>4, <2>5, BalanceKept DEF Types
  <1> QED
    BY <1>2, <1>3

LEMMA SetHookedCounts ==
  ASSUME Types, Core, Balanced, NEW t \in Threads, SetHooked(t) PROVE Balanced'
  <1> USE DEF GoTo, tableVars, localVars, Inserted
  <1>1. /\ pc[t] = "flag" /\ pc' = [pc EXCEPT ![t] = "have"]
        /\ vopHooked' = [vopHooked EXCEPT ![has[t]] = TRUE]
        /\ UNCHANGED << object, entry, counter, miscounted, has, ent >>
    BY DEF SetHooked
  <1>2. /\ on[t] \in VnodeIds /\ has[t] \in Objects /\ object[on[t]] = has[t]
        /\ ~vopHooked[has[t]] /\ \A v \in VnodeIds : object[v] = has[t] => v = on[t]
    BY <1>1, VnodesAssumption DEF Core, Where, Found, Homes, WithObject, Balanced, ToBeHooked
  <1>3. HookedVnodes' = HookedVnodes \cup {on[t]} /\ on[t] \notin HookedVnodes
    BY <1>1, <1>2, VnodesAssumption DEF HookedVnodes, Types
  <1>4. Cardinality(HookedVnodes') = Cardinality(HookedVnodes) + 1
    BY <1>3, CountsOf, FS_AddElement
  <1>5. Cardinality(CountingThreads') = Cardinality(CountingThreads) - 1
    BY <1>1, CountsOneLess DEF Types
  <1>6. t \in CountingThreads
    BY <1>1 DEF CountingThreads
  <1>7. HookIsCounted'
    BY <1>1, <1>4, <1>5, <1>6, CountsOf DEF Balanced, HookIsCounted
  <1>8. ToBeHooked'
    <2> SUFFICES ASSUME NEW s \in Threads, pc'[s] \in Inserted PROVE ~vopHooked'[has[s]]
      BY <1>1 DEF ToBeHooked
    <2>1. s # t /\ pc[s] \in Inserted
      BY <1>1 DEF Types
    <2>2. on[s] # on[t] /\ object[on[s]] = has[s] /\ on[s] \in VnodeIds
      BY <1>1, <2>1 DEF Core, Found, Where, WithObject
    <2>3. has[s] # has[t]
      BY <1>2, <2>2
    <2> QED
      BY <1>1, <2>1, <2>3 DEF Balanced, ToBeHooked, Types, Core, Where, WithObject
  <1> QED
    BY <1>1, <1>7, <1>8 DEF Balanced, Types

LEMMA UndoCounts ==
  ASSUME Types, Core, Balanced, NEW t \in Threads, Undo(t) PROVE Balanced'
  <1> USE DEF GoTo, tableVars, Inserted
  <1>1. /\ pc[t] = "undo" /\ pc' = [pc EXCEPT ![t] = "leave"]
        /\ object' = [object EXCEPT ![on[t]] = None] /\ has' = [has EXCEPT ![t] = None]
        /\ UNCHANGED << vopHooked, entry, counter, miscounted, ent >>
    BY DEF Undo
  <1>2. on[t] \in VnodeIds /\ object[on[t]] = has[t] /\ ~vopHooked[has[t]]
    BY <1>1 DEF Core, Where, Found, WithObject, Balanced, ToBeHooked
  <1>3. HookedVnodes' = HookedVnodes
    BY <1>1, <1>2 DEF HookedVnodes, Types
  <1>4. CountingThreads' = CountingThreads /\ ToBeHooked'
    BY <1>1 DEF CountingThreads, ToBeHooked, Balanced, Types
  <1> QED
    BY <1>1, <1>3, <1>4, BalanceKept DEF Types

LEMMA RemoveObjectCounts ==
  ASSUME Types, Core, Balanced, NEW t \in Threads, RemoveObject(t) PROVE Balanced'
  <1> USE DEF GoTo, tableVars, localVars, Inserted
  <1> DEFINE o == object[on[t]]
  <1>1. /\ pc[t] = "remove" /\ object' = [object EXCEPT ![on[t]] = None]
        /\ pc' = [pc EXCEPT ![t] = IF o # None /\ vopHooked[o] THEN "unhook" ELSE "callOriginal"]
        /\ UNCHANGED << vopHooked, entry, counter, miscounted, has, ent >>
    BY DEF RemoveObject
  <1>2. on[t] \in VnodeIds
    BY <1>1 DEF Core, Where, Reclaims
  <1>3. ToBeHooked'
    BY <1>1, StillToBeHooked DEF Balanced, Types
  <1>4. CASE o # None /\ vopHooked[o]
    <2>1. HookedVnodes' = HookedVnodes \ {on[t]} /\ on[t] \in HookedVnodes
      BY <1>1, <1>2, <1>4 DEF HookedVnodes, Types
    <2>2. Cardinality(HookedVnodes') = Cardinality(HookedVnodes) - 1
      BY <2>1, CountsOf, FS_RemoveElement
    <2>3. Cardinality(CountingThreads') = Cardinality(CountingThreads) + 1
      BY <1>1, <1>4, CountsOneMore DEF Types
    <2>4. HookIsCounted'
      BY <1>1, <2>1, <2>2, <2>3, CountsOf DEF Balanced, HookIsCounted
    <2> QED
      BY <1>1, <1>3, <1>4, <2>4 DEF Balanced, Types
  <1>5. CASE ~(o # None /\ vopHooked[o])
    <2>1. HookedVnodes' = HookedVnodes
      BY <1>1, <1>2, <1>5 DEF HookedVnodes, Types
    <2>2. CountingThreads' = CountingThreads
      BY <1>1, <1>5 DEF CountingThreads, Types
    <2> QED
      BY <1>1, <1>3, <1>5, <2>1, <2>2, BalanceKept DEF Types
  <1> QED
    BY <1>4, <1>5

LEMMA FindEntryCounts ==
  ASSUME Types, Balanced, NEW t \in Threads, FindEntry(t) PROVE Balanced'
  <1> USE DEF GoTo, tableVars, objectVars, Inserted
  <1>1. /\ pc[t] = "unhook" /\ ent' = [ent EXCEPT ![t] = entry]
        /\ pc' = [pc EXCEPT ![t] = IF entry = None THEN "callOriginal" ELSE "decrement"]
        /\ UNCHANGED << object, vopHooked, entry, counter, miscounted, has >>
    BY DEF FindEntry
  <1>2. ToBeHooked' /\ HookedVnodes' = HookedVnodes
    BY <1>1, StillToBeHooked DEF HookedVnodes, Balanced, Types
  <1>3. CASE miscounted
    BY <1>1, <1>2, <1>3 DEF Balanced, HookIsCounted
  <1>4. CASE ~miscounted
    <2>1. entry # None
      BY <1>1, <1>4 DEF Balanced, HookIsCounted, CountingThreads
    <2>2. CountingThreads' = CountingThreads
      BY <1>1, <2>1 DEF CountingThreads, Types
    <2>3. HookIsCounted'
      BY <1>1, <1>2, <2>2 DEF Balanced, HookIsCounted
    <2> QED
      BY <1>1, <1>2, <2>3 DEF Balanced, Types
  <1> QED
    BY <1>3, <1>4

LEMMA DecrementCounts ==
  ASSUME Types, Balanced, NEW t \in Threads, Decrement(t) PROVE Balanced'
  <1> USE DEF GoTo, localVars, objectVars, Inserted
  <1>1. /\ pc[t] = "decrement" /\ counter' = [counter EXCEPT ![ent[t]] = @ - 1]
        /\ pc' = [pc EXCEPT ![t] = pc'[t]] /\ pc'[t] \in {"unhookTable", "callOriginal"}
        /\ UNCHANGED << object, vopHooked, entry, miscounted, has, ent >>
    BY DEF Decrement, Types
  <1>2. ToBeHooked' /\ HookedVnodes' = HookedVnodes
    BY <1>1, StillToBeHooked DEF HookedVnodes, Balanced, Types
  <1>3. CASE miscounted
    BY <1>1, <1>2, <1>3 DEF Balanced, HookIsCounted
  <1>4. CASE ~miscounted
    <2>1. ent[t] = entry /\ entry # None
      BY <1>1, <1>4 DEF Balanced, HookIsCounted, CountingThreads
    <2>2. Cardinality(CountingThreads') = Cardinality(CountingThreads) - 1
      BY <1>1, CountsOneLess DEF Types
    <2>3. HookIsCounted'
      BY <1>1, <1>2, <2>1, <2>2, CountsOf DEF Balanced, HookIsCounted, Types
    <2> QED
      BY <1>1, <1>2, <2>3 DEF Balanced, Types
  <1> QED
    BY <1>3, <1>4

LEMMA UnhookTableCounts ==
  ASSUME Types, Balanced, NEW t \in Threads, UnhookTable(t) PROVE Balanced'
  <1> USE DEF GoTo, localVars, objectVars, Inserted
  <1>1. /\ pc[t] = "unhookTable" /\ pc' = [pc EXCEPT ![t] = "callOriginal"]
        /\ UNCHANGED << object, vopHooked, counter, has, ent >>
    BY DEF UnhookTable
  <1>2. /\ ToBeHooked' /\ HookedVnodes' = HookedVnodes /\ CountingThreads' = CountingThreads
    BY <1>1, StillToBeHooked DEF HookedVnodes, CountingThreads, Balanced, Types
  <1>3. CASE entry' = entry /\ miscounted' = miscounted
    BY <1>1, <1>2, <1>3, BalanceKept DEF Types
  <1>4. CASE entry # None /\ entry' = None /\ miscounted' = (miscounted \/ counter[entry] # 0)
    <2>1. CASE miscounted'
      BY <1>2, <2>1 DEF Balanced, HookIsCounted
    <2>2. CASE ~miscounted'
      <3>1. ~miscounted /\ counter[entry] = 0
        BY <1>4, <2>2
      <3>2. HookedVnodes = {} /\ CountingThreads = {}
        BY <1>4, <3>1, CountsOf DEF Balanced, HookIsCounted
      <3>3. HookIsCounted'
        BY <1>2, <1>4, <3>2 DEF HookIsCounted
      <3>4. \A s \in Threads : pc'[s] # "decrement"
        BY <1>2, <3>2 DEF CountingThreads
      <3> QED
        BY <1>2, <3>3, <3>4 DEF Balanced
    <2> QED
      BY <2>1, <2>2
  <1> QED
    BY <1>3, <1>4 DEF UnhookTable

(* The other steps change nothing that is counted.                         *)
Aside ==
  /\ UNCHANGED << object, vopHooked, entry, counter, miscounted >>
  /\ \A t \in Threads :
       /\ pc'[t] # pc[t] =>
            {pc[t], pc'[t]} \cap {"hook", "hookTable", "flag", "undo", "unhook", "decrement"} = {}
       /\ has'[t] # has[t] => pc'[t] \notin Inserted
       /\ ent'[t] # ent[t] => pc'[t] # "decrement"

LEMMA AsideCounts == ASSUME Types, Balanced, Aside PROVE Balanced'
  <1>1. HookedVnodes' = HookedVnodes
    BY DEF HookedVnodes, Aside
  <1>2. CountingThreads' = CountingThreads
    BY DEF CountingThreads, Aside
  <1>3. ToBeHooked'
    BY DEF Balanced, ToBeHooked, Aside, Inserted
  <1>4. HookIsCounted'
    BY <1>1, <1>2 DEF Balanced, HookIsCounted, Aside
  <1>5. miscounted' \/ \A t \in Threads : pc'[t] = "decrement" => ent'[t] = entry'
    BY DEF Balanced, Aside
  <1> QED
    BY <1>3, <1>4, <1>5 DEF Balanced

LEMMA BalanceStep == Types /\ Core /\ Balanced /\ [Next]_vars => Balanced'
  <1> SUFFICES ASSUME Types, Core, Balanced, [Next]_vars PROVE Balanced'
    OBVIOUS
  <1> USE DEF GoTo, vnodeVars, objectVars, tableVars, localVars
  <1>1. ASSUME NEW t \in Threads, Creating(t) PROVE Balanced'
    <2>1. CASE Lookup(t)
      <3>1. Aside
        BY <2>1 DEF Lookup, Aside, Types, Inserted
      <3> QED
        BY <3>1, AsideCounts
    <2> QED
      BY <1>1, <2>1, InsertCounts, HookVnodeCounts, HookTableCounts, SetHookedCounts, UndoCounts
         DEF Creating
  <1>2. ASSUME NEW t \in Threads, Using(t) PROVE Balanced'
    <2>1. Aside
      BY <1>2 DEF Using, CallOperation, PutVnode, Leave, Aside, Types, Inserted
    <2> QED
      BY <2>1, AsideCounts
  <1>3. ASSUME NEW t \in Threads, Referencing(t) PROVE Balanced'
    <2>1. Aside
      BY <1>3 DEF Referencing, LookAtFlag, Count, AskAgain, GetWithRef, Uncount, Wake, Aside, Types,
                  Inserted
    <2> QED
      BY <2>1, AsideCounts
  <1>4. ASSUME NEW t \in Threads, Reclaiming(t) PROVE Balanced'
    <2>1. CASE \/ FindObject(t) \/ Prepare(t) \/ AssertWait(t) \/ Recheck(t) \/ Prepared(t)
               \/ GetOriginal(t) \/ GetCurrent(t) \/ CallOriginal(t)
      <3>1. Aside
        BY <2>1 DEF FindObject, Prepare, AssertWait, Recheck, Prepared, GetOriginal, GetCurrent,
                    CallOriginal, AfterOriginal, Aside, Types, Inserted
      <3> QED
        BY <3>1, AsideCounts
    <2> QED
      BY <1>4, <2>1, RemoveObjectCounts, FindEntryCounts, DecrementCounts, UnhookTableCounts
         DEF Reclaiming
  <1>5. ASSUME NEW v \in VnodeIds, Mark(v) \/ Reuse(v) PROVE Balanced'
    <2>1. Aside
      BY <1>5 DEF Mark, Reuse, Aside
    <2> QED
      BY <2>1, AsideCounts
  <1>6. ASSUME NEW t \in Threads, NEW v \in VnodeIds, Enter(t, v) \/ Retrieve(t, v) \/ Reclaim(t, v)
        PROVE  Balanced'
    <2>1. Aside
      BY <1>6 DEF Enter, Retrieve, Reclaim, Aside, Types, Inserted
    <2> QED
      BY <2>1, AsideCounts
  <1>7. CASE UNCHANGED vars
    <2>1. Aside
      BY <1>7 DEF Aside, vars
    <2> QED
      BY <2>1, AsideCounts
  <1> QED
    BY <1>1, <1>2, <1>3, <1>4, <1>5, <1>6, <1>7 DEF Next, Running

----------------------------------------------------------------------------
(* The invariant *)

LEMMA InitIInv == Init => IInv
  <1> SUFFICES ASSUME Init PROVE IInv
    OBVIOUS
  <1> USE VnodesAssumption DEF Init
  <1>1. Types
    <2>1. /\ counter \in [Entries -> Int] /\ saved \in [Entries -> {"original", "hook"}]
          /\ delay \in [Objects -> Int] /\ reuses \in 0 .. MaxReuses
      OBVIOUS
    <2>2. miscounted \in BOOLEAN
      BY Zenon
    <2> QED
      BY <2>1, <2>2 DEF Types, Places
  <1>2. Homes /\ Where /\ Found /\ Lent
    BY DEF Homes, Where, Found, Lent, Holding, Inserted, Asking, Preparing, Removed, WithObject,
           Reclaims, Recycled
  <1>3. Counted
    <2>1. ASSUME NEW o \in Objects PROVE {t \in Threads : pc[t] \in Asking /\ has[t] = o} = {}
      BY DEF Asking
    <2> QED
      BY <2>1, FS_EmptySet DEF Counted
  <1>4. Hooks
    BY DEF Hooks, HookedByEntry, NoRecursion
  <1>5. Balanced
    BY DEF Balanced, ToBeHooked, HookIsCounted, HookedVnodes, CountingThreads, Inserted
  <1> QED
    BY <1>1, <1>2, <1>3, <1>4, <1>5 DEF IInv

LEMMA NextIInv == IInv /\ [Next]_vars => IInv'
  BY TypesStep, HooksStep, CoreStep, CountedStep, BalanceStep DEF IInv, Core

(* The inductive invariant holds.                                          *)
THEOREM Invariance == Spec => []IInv
  BY InitIInv, NextIInv, PTL DEF Spec

(* Whoever holds a vnode and has its object has one whose reclaim has not  *)
(* begun, the same for all as long as the vnode is not marked; the table is*)
(* hooked exactly while the hash has its entry; and until an entry is      *)
(* removed with a count, it is there as long as a vnode counts on it, and  *)
(* its counter is right (CreateAndAddIOVnodByBSDVnode, prepareForReclaim-  *)
(* ing, DldHookVnodeVop, DldUnHookVnodeVop).                               *)
THEOREM OneCountedObjectAll == Spec => []OneCountedObject
  <1>1. IInv => TypeOK
    <2>1. IInv => delay \in [Objects -> Nat]
      <3> SUFFICES ASSUME IInv, NEW o \in Objects PROVE delay[o] \in Nat
        BY DEF IInv, Types
      <3>1. IsFiniteSet({t \in Threads : pc[t] \in Asking /\ has[t] = o})
        BY VnodesAssumption, FS_Subset
      <3> QED
        BY <3>1, FS_CardinalityType DEF IInv, Counted
    <2> QED
      BY <2>1 DEF IInv, Types, TypeOK
  <1>2. IInv => OneObject
    BY DEF IInv, OneObject, Found, Inserted
  <1>3. IInv => HookedByEntry /\ HookIsCounted
    BY DEF IInv, Hooks, Balanced
  <1> QED
    BY <1>1, <1>2, <1>3, Invariance, PTL DEF OneCountedObject

(* No hook calls itself for the original operation (DldGetOriginalVnodeOp).*)
THEOREM NoRecursionAll == Spec => []NoRecursion
  <1>1. IInv => NoRecursion
    BY DEF IInv, Hooks
  <1> QED
    BY <1>1, Invariance, PTL

----------------------------------------------------------------------------
(* The objects lend their vnodes as ClientLease says: Insert grants, a     *)
(* second look at an object that is not reclaimed borrows, vnode_getwithref*)
(* gives back, and what takes an object from its last user, or finds it    *)
(* settled, revokes.                                                       *)
Granted == {o \in Objects : InUse(o) /\ ~settled[o]}
Borrowed == [t \in Threads |-> IF pc[t] = "getwithref" THEN has[t] ELSE None]

SameBorrowers ==
  \A s \in Threads : /\ pc'[s] = "getwithref" <=> pc[s] = "getwithref"
                     /\ pc[s] = "getwithref" => has'[s] = has[s]

LEMMA BorrowedKept == ASSUME SameBorrowers PROVE Borrowed' = Borrowed
  BY DEF SameBorrowers, Borrowed

(* A step that leaves the objects and their users alone.                   *)
LEMMA LeaseKept ==
  ASSUME SameBorrowers, UNCHANGED << object, settled >>,
         \A o \in Objects : InUse(o)' <=> InUse(o)
  PROVE  UNCHANGED Lease!vars
  <1>1. Granted' = Granted
    BY DEF Granted
  <1> QED
    BY <1>1, BorrowedKept DEF Lease!vars, Granted, Borrowed

LEMMA LeaseIdle ==
  ASSUME SameBorrowers, UNCHANGED << object, has, settled >> PROVE UNCHANGED Lease!vars
  BY LeaseKept DEF InUse

(* A thread that has no object takes that of a vnode.                      *)
LEMMA LeaseShared ==
  ASSUME Types, NEW t \in Threads, NEW v \in VnodeIds, has[t] = None,
         UNCHANGED << object, settled >>, SameBorrowers, has' = [has EXCEPT ![t] = object[v]]
  PROVE  UNCHANGED Lease!vars
  <1>1. ASSUME NEW o \in Objects PROVE InUse(o)' <=> InUse(o)
    BY VnodesAssumption DEF InUse, Types
  <1> QED
    BY <1>1, LeaseKept

(* An object that one user loses, or that is settled.                      *)
LEMMA LeaseLost ==
  ASSUME Types, Lent', SameBorrowers, NEW o \in Objects \cup {None},
         \A p \in Objects : p # o => (InUse(p)' <=> InUse(p)) /\ settled'[p] = settled[p],
         o # None => (InUse(o)' => InUse(o)) /\ (settled[o] => settled'[o])
  PROVE  Lease!Next \/ UNCHANGED Lease!vars
  <1>1. Borrowed' = Borrowed
    BY BorrowedKept
  <1>2. CASE o \in Granted /\ o \notin Granted'
    <2>1. o \in Objects /\ Granted' = Granted \ {o}
      BY <1>2 DEF Granted
    <2>2. ASSUME NEW u \in Threads PROVE Borrowed[u] # o
      <3>1. CASE pc[u] = "getwithref" /\ has[u] = o
        <4>1. pc'[u] = "getwithref" /\ has'[u] = o
          BY <3>1 DEF SameBorrowers
        <4>2. InUse(o)'
          BY <4>1 DEF InUse
        <4>3. settled'[o]
          BY <1>2, <2>1, <4>2 DEF Granted
        <4> QED
          BY <2>1, <4>1, <4>3 DEF Lent
      <3> QED
        BY <3>1, <2>1, VnodesAssumption DEF Borrowed
    <2>3. Lease!Revoke(o)
      BY <1>1, <1>2, <2>1, <2>2 DEF Lease!Revoke, Granted, Borrowed
    <2> QED
      BY <2>1, <2>3 DEF Lease!Next
  <1>3. CASE ~(o \in Granted /\ o \notin Granted')
    <2>1. Granted' = Granted
      BY <1>3, VnodesAssumption DEF Granted
    <2> QED
      BY <1>1, <2>1 DEF Lease!vars, Granted, Borrowed
  <1> QED
    BY <1>2, <1>3

LEMMA LeaseInsert ==
  ASSUME Types, Where, NEW t \in Threads, Insert(t)
  PROVE  Lease!Next \/ UNCHANGED Lease!vars
  <1> USE VnodesAssumption DEF Insert, localVars, GoTo
  <1>1. on[t] \in VnodeIds /\ has[t] = None
    BY DEF Where, Holding
  <1>2. SameBorrowers
    BY DEF SameBorrowers, objectVars, Types
  <1>3. CASE object[on[t]] # None
    BY <1>1, <1>2, <1>3, LeaseShared DEF objectVars
  <1>4. CASE object[on[t]] = None
    <2>1. PICK o \in FreshObjects : /\ object' = [object EXCEPT ![on[t]] = o]
                                   /\ settled' = [settled EXCEPT ![o] = FALSE]
                                   /\ has' = [has EXCEPT ![t] = o]
      BY <1>4
    <2>2. o \in Objects /\ o # None
      BY DEF FreshObjects
    <2>3. ~InUse(o)
      BY DEF FreshObjects, InUse
    <2>4. InUse(o)' /\ ~settled'[o]
      BY <1>1, <2>1, <2>2 DEF InUse, Types
    <2>5. ASSUME NEW p \in Objects, p # o PROVE (InUse(p)' <=> InUse(p)) /\ settled'[p] = settled[p]
      BY <1>1, <1>4, <2>1, <2>2, <2>5 DEF InUse, Types
    <2>6. Granted' = Granted \cup {o} /\ o \notin Granted
      BY <2>2, <2>3, <2>4, <2>5 DEF Granted
    <2>7. Lease!Grant(o)
      BY <1>2, <2>6, BorrowedKept DEF Lease!Grant, Granted, Borrowed
    <2> QED
      BY <2>2, <2>7 DEF Lease!Next
  <1> QED
    BY <1>3, <1>4

LEMMA LeaseAskAgain ==
  ASSUME Types, Where, Lent, NEW t \in Threads, AskAgain(t)
  PROVE  Lease!Next \/ UNCHANGED Lease!vars
  <1> USE VnodesAssumption DEF AskAgain, objectVars, localVars, GoTo
  <1>1. CASE reclaimed[has[t]]
    <2>1. SameBorrowers
      BY <1>1 DEF SameBorrowers, Types
    <2> QED
      BY <2>1, LeaseIdle
  <1>2. CASE ~reclaimed[has[t]]
    <2>1. PICK o \in Objects : o = has[t] /\ ~settled[o]
      BY <1>2 DEF Where, WithObject, Asking, Lent
    <2>2. Granted' = Granted /\ o \in Granted
      BY <2>1 DEF Granted, InUse
    <2>3. Borrowed[t] = None /\ Borrowed' = [Borrowed EXCEPT ![t] = o]
      BY <1>2, <2>1 DEF Borrowed, Types
    <2>4. Lease!Borrow(t, o)
      BY <2>2, <2>3 DEF Lease!Borrow, Granted, Borrowed
    <2> QED
      BY <2>4 DEF Lease!Next
  <1> QED
    BY <1>1, <1>2

LEMMA LeaseGetWithRef ==
  ASSUME Types, Where, NEW t \in Threads, GetWithRef(t) PROVE Lease!Next
  <1> USE VnodesAssumption DEF GetWithRef, objectVars, GoTo
  <1>1. has[t] \in Objects
    BY DEF Where, WithObject, Asking
  <1>2. Granted' = Granted
    BY DEF Granted, InUse
  <1>3. Borrowed[t] # None /\ Borrowed' = [Borrowed EXCEPT ![t] = None]
    BY <1>1 DEF Borrowed, Types
  <1>4. Lease!GiveBack(t)
    BY <1>2, <1>3 DEF Lease!GiveBack, Granted, Borrowed
  <1> QED
    BY <1>4 DEF Lease!Next

LEMMA LeaseLosing ==
  ASSUME Types, Where, Found, Lent', NEW t \in Threads,
         Undo(t) \/ Leave(t) \/ Prepared(t) \/ RemoveObject(t)
  PROVE  Lease!Next \/ UNCHANGED Lease!vars
  <1> USE VnodesAssumption DEF objectVars, localVars, GoTo
  <1>1. CASE Undo(t)
    <2> USE <1>1 DEF Undo
    <2>1. has[t] \in Objects /\ on[t] \in VnodeIds /\ object[on[t]] = has[t]
      BY DEF Where, Found, WithObject, Inserted
    <2>2. SameBorrowers
      BY DEF SameBorrowers, Types
    <2>3. \A p \in Objects : p # has[t] => (InUse(p)' <=> InUse(p))
      BY <2>1 DEF InUse, Types
    <2>4. InUse(has[t])
      BY DEF InUse
    <2> QED
      BY <2>1, <2>2, <2>3, <2>4, LeaseLost
  <1>2. CASE Leave(t)
    <2> USE <1>2 DEF Leave
    <2>1. has[t] \in Objects \cup {None}
      BY DEF Types
    <2>2. SameBorrowers
      BY DEF SameBorrowers, Types
    <2>3. \A p \in Objects : p # has[t] => (InUse(p)' <=> InUse(p))
      BY DEF InUse, Types
    <2>4. InUse(has[t])
      BY DEF InUse
    <2> QED
      BY <2>1, <2>2, <2>3, <2>4, LeaseLost
  <1>3. CASE Prepared(t)
    <2> USE <1>3 DEF Prepared
    <2>1. has[t] \in Objects
      BY DEF Where, WithObject, Preparing
    <2>2. SameBorrowers
      BY DEF SameBorrowers, Types
    <2>3. \A p \in Objects : p # has[t] => (InUse(p)' <=> InUse(p)) /\ settled'[p] = settled[p]
      BY DEF InUse, Types
    <2>4. InUse(has[t]) /\ settled'[has[t]]
      BY <2>1 DEF InUse, Types
    <2> QED
      BY <2>1, <2>2, <2>3, <2>4, LeaseLost
  <1>4. CASE RemoveObject(t)
    <2> USE <1>4 DEF RemoveObject
    <2>1. on[t] \in VnodeIds
      BY DEF Where, Reclaims
    <2>2. object[on[t]] \in Objects \cup {None}
      BY <2>1 DEF Types
    <2>3. SameBorrowers
      BY DEF SameBorrowers, Types
    <2>4. \A p \in Objects : p # object[on[t]] => (InUse(p)' <=> InUse(p))
      BY <2>1 DEF InUse, Types
    <2>5. InUse(object[on[t]])
      BY <2>1 DEF InUse
    <2> QED
      BY <2>2, <2>3, <2>4, <2>5, LeaseLost
  <1> QED
    BY <1>1, <1>2, <1>3, <1>4

LEMMA LeaseStep == IInv /\ IInv' /\ [Next]_vars => Lease!Next \/ UNCHANGED Lease!vars
  <1> SUFFICES ASSUME IInv, IInv', [Next]_vars PROVE Lease!Next \/ UNCHANGED Lease!vars
    OBVIOUS
  <1>0. Types /\ Where /\ Found /\ Lent /\ Lent'
    BY DEF IInv
  <1> USE DEF GoTo, vnodeVars, objectVars, tableVars, localVars
  <1>1. ASSUME NEW t \in Threads, Lookup(t) PROVE UNCHANGED Lease!vars
    <2>1. SameBorrowers
      BY <1>0, <1>1 DEF Lookup, SameBorrowers, Types
    <2>2. on[t] \in VnodeIds /\ has[t] = None
      BY <1>0, <1>1 DEF Lookup, Where, Holding
    <2> QED
      BY <1>0, <1>1, <2>1, <2>2, LeaseIdle, LeaseShared DEF Lookup
  <1>2. ASSUME NEW t \in Threads, FindObject(t) PROVE UNCHANGED Lease!vars
    <2>1. SameBorrowers
      BY <1>0, <1>2 DEF FindObject, SameBorrowers, Types
    <2>2. on[t] \in VnodeIds /\ has[t] = None
      BY <1>0, <1>2 DEF FindObject, Where, Reclaims
    <2> QED
      BY <1>0, <1>2, <2>1, <2>2, LeaseShared DEF FindObject
  <1>3. ASSUME NEW t \in Threads, NEW v \in VnodeIds, Retrieve(t, v) PROVE UNCHANGED Lease!vars
    <2>1. SameBorrowers /\ has[t] = None
      BY <1>0, <1>3 DEF Retrieve, SameBorrowers, Types, Where
    <2> QED
      BY <1>0, <1>3, <2>1, LeaseShared DEF Retrieve
  <1>4. ASSUME NEW t \in Threads, HookVnode(t) \/ HookTable(t) \/ SetHooked(t)
        PROVE  UNCHANGED Lease!vars
    <2>1. SameBorrowers
      BY <1>0, <1>4 DEF HookVnode, HookTable, SetHooked, SameBorrowers, Types
    <2> QED
      BY <1>4, <2>1, LeaseIdle DEF HookVnode, HookTable, SetHooked
  <1>5. ASSUME NEW t \in Threads,
               \/ CallOperation(t) \/ PutVnode(t)
               \/ LookAtFlag(t) \/ Count(t) \/ Uncount(t) \/ Wake(t)
        PROVE  UNCHANGED Lease!vars
    <2>1. SameBorrowers
      BY <1>0, <1>5 DEF CallOperation, PutVnode, LookAtFlag, Count, Uncount, Wake,
                        SameBorrowers, Types
    <2> QED
      BY <1>5, <2>1, LeaseIdle DEF CallOperation, PutVnode, LookAtFlag, Count, Uncount, Wake
  <1>6. ASSUME NEW t \in Threads,
               \/ Prepare(t) \/ AssertWait(t) \/ Recheck(t) \/ GetOriginal(t) \/ GetCurrent(t)
               \/ FindEntry(t) \/ Decrement(t) \/ UnhookTable(t) \/ CallOriginal(t)
        PROVE  UNCHANGED Lease!vars
    <2>1. SameBorrowers
      BY <1>0, <1>6 DEF Prepare, AssertWait, Recheck, GetOriginal, GetCurrent, AfterOriginal,
                        FindEntry, Decrement, UnhookTable, CallOriginal, SameBorrowers, Types
    <2> QED
      BY <1>6, <2>1, LeaseIdle DEF Prepare, AssertWait, Recheck, GetOriginal, GetCurrent,
                                   FindEntry, Decrement, UnhookTable, CallOriginal
  <1>7. ASSUME NEW v \in VnodeIds,
               \/ Mark(v) \/ Reuse(v)
               \/ \E t \in Threads : Enter(t, v) \/ Reclaim(t, v)
        PROVE  UNCHANGED Lease!vars
    <2>1. SameBorrowers
      BY <1>0, <1>7 DEF Mark, Reuse, Enter, Reclaim, SameBorrowers, Types
    <2> QED
      BY <1>7, <2>1, LeaseIdle DEF Mark, Reuse, Enter, Reclaim
  <1>8. CASE UNCHANGED vars
    <2>1. SameBorrowers
      BY <1>8 DEF SameBorrowers, vars
    <2> QED
      BY <1>8, <2>1, LeaseIdle DEF vars
  <1> QED
    BY <1>0, <1>1, <1>2, <1>3, <1>4, <1>5, <1>6, <1>7, <1>8, LeaseInsert, LeaseAskAgain,
       LeaseGetWithRef, LeaseLosing
       DEF Next, Running, Creating, Using, Referencing, Reclaiming

(* An object lends its vnode only until prepareForReclaiming has returned: *)
(* nobody asks the kernel for a vnode by an object that is settled.        *)
THEOREM LentUntilReclaimedAll == Spec => LentUntilReclaimed
  <1>1. Init => Lease!Init
    BY VnodesAssumption DEF Init, Lease!Init, InUse
  <1>2. IInv /\ IInv' /\ [Next]_vars => [Lease!Next \/ UNCHANGED Lease!vars]_vars
    BY LeaseStep
  <1>3. Spec => Init /\ [][Next]_vars /\ []IInv
    BY Invariance DEF Spec
  <1> QED
    BY <1>1, <1>2, <1>3, PTL DEF LentUntilReclaimed
=============================================================================
