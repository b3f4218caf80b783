------------------------- MODULE UserClientsProofs -------------------------
(***************************************************************************)
(* The registries of the user client, for any set of processes, of         *)
(* registries and of orders in which they are joined and left, and any     *)
(* finite set of notifying threads.                                        *)
(***************************************************************************)
EXTENDS UserClients, FiniteSetTheorems, TLAPS

(***************************************************************************)
(* The inductive invariant.                                                *)
(***************************************************************************)

(* The types, those that arithmetic is done with apart.                    *)
PlaceTypes ==
  /\ owner \in Clients \cup {Nobody} /\ policy \in Clients \cup {Nobody}
  /\ userClient \in [Registries -> Clients \cup {Nobody}]
  /\ pc \in [Clients -> ClientPlaces]
  /\ mode \in [Clients -> {"run", "undo", "stop"}]
  /\ pcU \in [Users -> UserPlaces]
  /\ reg \in [Users -> Registries]
  /\ got \in [Users -> Clients \cup {Nobody}]

FlagTypes ==
  /\ aborted \in BOOLEAN /\ closedItself \in [Clients -> BOOLEAN]
  /\ pending \in [Registries -> BOOLEAN]

(* clientInvocations of a registry counts the threads that are inside.     *)
InsidePlaces == {"read", "verify", "abandon", "call"}
Inside(r) == {u \in Users : reg[u] = r /\ pcU[u] \in InsidePlaces}
CountExact ==
  /\ invocations \in [Registries -> Nat]
  /\ \A r \in Registries : invocations[r] = Cardinality(Inside(r))

(* A client's thread is at a registry of the order it goes through.        *)
JoiningPlaces == {"register", "swapIn", "retain"}
LeavingPlaces == {"unregister", "swapOut", "wait", "release"}
StoppedPlaces == {"abort", "close", "terminate", "gone"}
InOrderAt(c) ==
  /\ pc[c] \in JoiningPlaces => mode[c] = "run" /\ at[c] \in 1 .. Len(RegisterOrder)
  /\ pc[c] \in LeavingPlaces =>
       mode[c] \in {"undo", "stop"} /\ at[c] \in 1 .. Len(LeaveOrder(c))
  /\ pc[c] \in {"idle", "trust"} => mode[c] = "run"
  /\ pc[c] = "cleanup" => mode[c] \in {"run", "stop"}
  /\ pc[c] \in StoppedPlaces => mode[c] = "stop"
InOrder == at \in [Clients -> Nat \ {0}] /\ \A c \in Clients : InOrderAt(c)

(* A client that leaves is out of the registries it has been to.           *)
LeftAt(c) ==
  /\ pc[c] \in LeavingPlaces =>
       \A k \in 1 .. at[c] - 1 : userClient[LeaveOrder(c)[k]] # c
  /\ pc[c] \in {"wait", "release"} => userClient[Leaving(c)] # c
  /\ pc[c] = "swapOut" => userClient[Leaving(c)] = c
  /\ pc[c] = "gone" => \A r \in Registries : userClient[r] # c
Left == \A c \in Clients : LeftAt(c)

(* The first registry is joined first and left last: it has the client     *)
(* that any other has.                                                     *)
First == RegisterOrder[1]
Joined == \A c \in Clients :
  pc[c] = "retain" \/ (pc[c] \in JoiningPlaces /\ at[c] > 1) => userClient[First] = c
FirstKnows == \A r \in Registries : userClient[r] # Nobody => userClient[First] = userClient[r]

(* What a thread calls, the registry has or waits for it.                  *)
Held == \A u \in Users :
  /\ pcU[u] = "verify" => got[u] \in Clients
  /\ pcU[u] = "call" => got[u] \in GrantedAt(reg[u])

(* The references are those of the registries that have the client, of the *)
(* one it is leaving, and less the one that is about to be taken.          *)
Having(c) == {r \in Registries : userClient[r] = c}
RefsExact ==
  /\ refs \in [Clients -> Int]
  /\ \A c \in Clients :
       refs[c] = Cardinality(Having(c))
                 + (IF pc[c] \in {"wait", "release"} THEN 1 ELSE 0)
                 - (IF pc[c] = "retain" THEN 1 ELSE 0)

(* A client that stops has closed the provider.                            *)
Disowned == \A c \in Clients :
  pc[c] = "gone" \/ (pc[c] \in LeavingPlaces /\ mode[c] = "stop") => owner # c

LEMMA InsideFinite ==
  ASSUME NEW r \in Registries
  PROVE  IsFiniteSet(Inside(r)) /\ Cardinality(Inside(r)) \in Nat
<1>1. Inside(r) \subseteq Users
  BY DEF Inside
<1>2. IsFiniteSet(Inside(r))
  BY <1>1, RegistriesAssumption, FS_Subset DEF RegistriesAssumption
<1> QED
  BY <1>2, FS_CardinalityType

LEMMA PlaceTypesKept ==
  ASSUME PlaceTypes, [Next]_vars
  PROVE  PlaceTypes'
<1> USE DEF PlaceTypes, ClientPlaces, UserPlaces, GoTo, UserGoTo
<1>1. ASSUME NEW c \in Clients, ClientCalls(c) \/ ClientWorks(c) PROVE PlaceTypes'
  <2>1. CASE OpenProvider(c) \/ Trust(c) \/ SetPolicy(c) \/ Close(c) \/ Cleanup(c)
    BY <2>1 DEF OpenProvider, Trust, SetPolicy, Close, Cleanup, ProviderClosedBy,
                registryVars, clientVars, userVars
  <2>2. CASE ClientClose(c) \/ MarkAborted(c) \/ Terminate(c)
    BY <2>2 DEF ClientClose, MarkAborted, Terminate, ProviderClosedBy, registryVars,
                userVars
  <2>3. CASE LookForPending(c) \/ SwapIn(c) \/ Retain(c)
    BY <2>3 DEF LookForPending, SwapIn, Retain, Undo, providerVars, registryVars,
                userVars
  <2>4. CASE NotRegistered(c) \/ SetPending(c) \/ Release(c)
    BY <2>4 DEF NotRegistered, SetPending, Release, NextRegistry, providerVars,
                registryVars, userVars
  <2>5. CASE SwapOut(c) \/ WaitForInvocations(c)
    BY <2>5 DEF SwapOut, WaitForInvocations, providerVars, registryVars, userVars
  <2> QED
    BY <1>1, <2>1, <2>2, <2>3, <2>4, <2>5 DEF ClientCalls, ClientWorks
<1>2. ASSUME NEW u \in Users, Notify(u) \/ UserWorks(u) PROVE PlaceTypes'
  <2>1. CASE Notify(u) \/ GiveUp(u) \/ GoOn(u) \/ Increment(u)
    BY <2>1 DEF Notify, GiveUp, GoOn, Increment, providerVars, registryVars,
                clientVars
  <2>2. CASE ReadClient(u) \/ Verify(u)
    BY <2>2 DEF ReadClient, Verify, providerVars, registryVars, clientVars
  <2>3. CASE Abandon(u) \/ Return(u)
    BY <2>3 DEF Abandon, Return, providerVars, clientVars
  <2> QED
    BY <1>2, <2>1, <2>2, <2>3 DEF UserWorks
<1>3. CASE UNCHANGED vars
  BY <1>3 DEF vars, providerVars, registryVars, clientVars, userVars
<1> QED
  BY <1>1, <1>2, <1>3 DEF Next

LEMMA FlagTypesKept ==
  ASSUME FlagTypes, [Next]_vars
  PROVE  FlagTypes'
<1> USE DEF FlagTypes
<1>1. ASSUME NEW c \in Clients, ClientCalls(c) \/ ClientWorks(c) PROVE FlagTypes'
  BY <1>1, Zenon DEF ClientCalls, ClientWorks, OpenProvider, Trust, SetPolicy, Close, Cleanup,
     ClientClose, MarkAborted, Terminate, LookForPending, SwapIn, Retain,
     NotRegistered, SetPending, Release, SwapOut, WaitForInvocations,
     providerVars, registryVars
<1>2. ASSUME NEW u \in Users, Notify(u) \/ UserWorks(u) PROVE FlagTypes'
  BY <1>2 DEF UserWorks, Notify, GiveUp, GoOn, Increment, ReadClient, Verify,
     Abandon, Return, providerVars, registryVars
<1>3. CASE UNCHANGED vars
  BY <1>3 DEF vars, providerVars, registryVars
<1> QED
  BY <1>1, <1>2, <1>3 DEF Next

LEMMA TypesAlways == Spec => [](PlaceTypes /\ FlagTypes)
<1>1. RegisterOrder[1] \in Registries
  BY RegistriesAssumption DEF RegistriesAssumption
<1>2. Init => PlaceTypes
  BY <1>1 DEF Init, PlaceTypes, ClientPlaces, UserPlaces
<1>3. Init => FlagTypes
  <2>1. /\ [c \in Clients |-> FALSE] \in [Clients -> BOOLEAN]
        /\ [r \in Registries |-> FALSE] \in [Registries -> BOOLEAN]
    OBVIOUS
  <2> QED
    BY <2>1, Zenon DEF Init, FlagTypes
<1> QED
  BY <1>2, <1>3, PlaceTypesKept, FlagTypesKept, PTL DEF Spec

(***************************************************************************)
(* The counters of the registries.                                         *)
(***************************************************************************)
LEMMA InsideAfterIncrement ==
  ASSUME PlaceTypes, NEW u \in Users, Increment(u), NEW r \in Registries
  PROVE  /\ r # reg[u] => Inside(r)' = Inside(r)
         /\ r = reg[u] => u \notin Inside(r) /\ Inside(r)' = Inside(r) \cup {u}
BY DEF PlaceTypes, Increment, UserGoTo, Inside, InsidePlaces

LEMMA InsideAfterLeave ==
  ASSUME PlaceTypes, NEW u \in Users, Abandon(u) \/ Return(u), NEW r \in Registries
  PROVE  /\ r # reg[u] => Inside(r)' = Inside(r)
         /\ r = reg[u] => u \in Inside(r) /\ Inside(r)' = Inside(r) \ {u}
BY DEF PlaceTypes, Abandon, Return, UserGoTo, Inside, InsidePlaces

LEMMA CountExactKept ==
  ASSUME PlaceTypes, CountExact, [Next]_vars
  PROVE  CountExact'
<1>1. ASSUME UNCHANGED invocations, \A r \in Registries : Inside(r)' = Inside(r)
      PROVE  CountExact'
  BY <1>1 DEF CountExact
<1>2. ASSUME UNCHANGED << invocations, pcU, reg >> PROVE CountExact'
  BY <1>1, <1>2 DEF Inside
<1>3. ASSUME NEW c \in Clients, ClientCalls(c) \/ ClientWorks(c)
      PROVE  UNCHANGED << invocations, pcU, reg >>
  BY <1>3 DEF ClientCalls, ClientWorks, OpenProvider, Trust, SetPolicy, Close, Cleanup,
     ClientClose, MarkAborted, Terminate, LookForPending, SwapIn, Retain,
     NotRegistered, SetPending, Release, SwapOut, WaitForInvocations,
     registryVars, userVars
<1>4. ASSUME NEW u \in Users, Increment(u) PROVE CountExact'
  <2>1. invocations' = [invocations EXCEPT ![reg[u]] = invocations[reg[u]] + 1]
    BY <1>4 DEF Increment, Count
  <2>2. ASSUME NEW r \in Registries
        PROVE  Cardinality(Inside(r))' =
                 IF r = reg[u] THEN Cardinality(Inside(r)) + 1 ELSE Cardinality(Inside(r))
    BY <1>4, InsideAfterIncrement, InsideFinite, FS_AddElement
  <2> QED
    BY <2>1, <2>2 DEF CountExact, PlaceTypes
<1>5. ASSUME NEW u \in Users, Abandon(u) \/ Return(u) PROVE CountExact'
  <2>1. invocations' = [invocations EXCEPT ![reg[u]] = invocations[reg[u]] - 1]
    BY <1>5 DEF Abandon, Return, Count
  <2>2. ASSUME NEW r \in Registries
        PROVE  Cardinality(Inside(r))' =
                 IF r = reg[u] THEN Cardinality(Inside(r)) - 1 ELSE Cardinality(Inside(r))
    BY <1>5, InsideAfterLeave, InsideFinite, FS_RemoveElement
  <2>3. ASSUME NEW r \in Registries PROVE Cardinality(Inside(r))' \in Nat
    BY <1>5, InsideAfterLeave, InsideFinite, FS_RemoveElement, FS_CardinalityType
  <2> QED
    BY <2>1, <2>2, <2>3 DEF CountExact, PlaceTypes
<1>6. ASSUME NEW u \in Users,
             Notify(u) \/ GiveUp(u) \/ GoOn(u) \/ ReadClient(u) \/ Verify(u)
      PROVE  CountExact'
  <2>1. UNCHANGED invocations
    BY <1>6 DEF Notify, GiveUp, GoOn, ReadClient, Verify, registryVars
  <2>2. \A r \in Registries : Inside(r)' = Inside(r)
    BY <1>6 DEF PlaceTypes, Notify, GiveUp, GoOn, ReadClient, Verify, UserGoTo,
                Inside, InsidePlaces
  <2> QED
    BY <1>1, <2>1, <2>2
<1>7. UNCHANGED vars => UNCHANGED << invocations, pcU, reg >>
  BY DEF vars, registryVars, userVars
<1> QED
  BY <1>2, <1>3, <1>4, <1>5, <1>6, <1>7 DEF Next, UserWorks

LEMMA CountAlways == Spec => []CountExact
<1>1. Init => CountExact
  <2> SUFFICES ASSUME Init PROVE CountExact
    OBVIOUS
  <2>1. \A r \in Registries : Inside(r) = {}
    BY DEF Init, Inside, InsidePlaces
  <2> QED
    BY <2>1, FS_EmptySet DEF Init, CountExact
<1> QED
  BY <1>1, TypesAlways, CountExactKept, PTL DEF Spec

(***************************************************************************)
(* The way of a client through its orders.                                 *)
(***************************************************************************)

(* The values of the flags do not matter to it.                            *)
LEMMA LookForPendingLeads ==
  ASSUME NEW c \in Clients, LookForPending(c)
  PROVE  /\ pc[c] = "register"
         /\ Undo(c) \/ (GoTo(c, "swapIn") /\ UNCHANGED << mode, at >>)
         /\ UNCHANGED << userClient, refs, owner >>
BY Zenon DEF LookForPending, registryVars, providerVars

LEMMA SetPendingLeads ==
  ASSUME NEW c \in Clients, SetPending(c)
  PROVE  /\ pc[c] = "unregister" /\ userClient[Leaving(c)] = c
         /\ GoTo(c, "swapOut")
         /\ UNCHANGED << userClient, mode, at, refs, owner >>
BY Zenon DEF SetPending, providerVars

LEMMA ReleaseLeads ==
  ASSUME NEW c \in Clients, Release(c)
  PROVE  /\ pc[c] = "release" /\ NextRegistry(c)
         /\ refs' = [refs EXCEPT ![c] = @ - 1]
         /\ UNCHANGED << userClient, owner >>
BY Zenon DEF Release, providerVars

LEMMA ClientCloseLeads ==
  ASSUME NEW c \in Clients, ClientClose(c)
  PROVE  /\ pc[c] = "idle" /\ mode' = [mode EXCEPT ![c] = "stop"]
         /\ GoTo(c, "terminate") \/ GoTo(c, "abort")
         /\ UNCHANGED << userClient, at, refs >>
         /\ owner' \in {owner, ProviderClosedBy(c)}
<1>1. UNCHANGED owner \/ owner' = ProviderClosedBy(c)
  BY Zenon DEF ClientClose
<1> QED
  BY <1>1, Zenon DEF ClientClose, registryVars

LEMMA OrdersNotEmpty ==
  /\ RegisterOrder \in Seq(Registries) /\ 1 \in 1 .. Len(RegisterOrder)
  /\ \A c \in Clients : LeaveOrder(c) \in Seq(Registries) /\ 1 \in 1 .. Len(LeaveOrder(c))
<1>1. ASSUME NEW S \in Seq(Registries), S # << >> PROVE 1 \in 1 .. Len(S)
  BY <1>1
<1> QED
  BY <1>1, RegistriesAssumption DEF RegistriesAssumption, LeaveOrder, LeavesFirstLast

(* A step of one client leaves the others where they are.                  *)
LEMMA OthersStay ==
  ASSUME PlaceTypes, InOrder, NEW c \in Clients, ClientCalls(c) \/ ClientWorks(c)
  PROVE  /\ at' \in [Clients -> Nat \ {0}]
         /\ \A d \in Clients \ {c} :
              pc'[d] = pc[d] /\ mode'[d] = mode[d] /\ at'[d] = at[d]
<1> USE DEF PlaceTypes, InOrder, GoTo
<1>1. CASE OpenProvider(c) \/ Trust(c) \/ SetPolicy(c) \/ Close(c) \/ Cleanup(c)
  BY <1>1 DEF OpenProvider, Trust, SetPolicy, Close, Cleanup, clientVars
<1>2. CASE MarkAborted(c) \/ Terminate(c) \/ SwapOut(c) \/ WaitForInvocations(c)
  BY <1>2 DEF MarkAborted, Terminate, SwapOut, WaitForInvocations
<1>3. CASE ClientClose(c) \/ SetPending(c)
  BY <1>3, ClientCloseLeads, SetPendingLeads
<1>4. CASE LookForPending(c)
  BY <1>4, LookForPendingLeads DEF Undo
<1>5. CASE SwapIn(c)
  BY <1>5 DEF SwapIn, Undo
<1>6. CASE Retain(c)
  BY <1>6 DEF Retain
<1>7. CASE NotRegistered(c) \/ Release(c)
  BY <1>7, ReleaseLeads DEF NotRegistered, NextRegistry
<1> QED
  BY <1>1, <1>2, <1>3, <1>4, <1>5, <1>6, <1>7 DEF ClientCalls, ClientWorks

LEMMA InOrderKept ==
  ASSUME PlaceTypes, InOrder, [Next]_vars
  PROVE  InOrder'
<1>1. ASSUME NEW c \in Clients, ClientCalls(c) \/ ClientWorks(c)
      PROVE  InOrderAt(c)'
  <2> USE DEF PlaceTypes, InOrder, InOrderAt, JoiningPlaces, LeavingPlaces,
              StoppedPlaces, GoTo
  <2>1. CASE OpenProvider(c) \/ SetPolicy(c) \/ Close(c) \/ Cleanup(c) \/ MarkAborted(c)
    BY <2>1 DEF OpenProvider, SetPolicy, Close, Cleanup, MarkAborted, clientVars
  <2>2. CASE Trust(c)
    BY <2>2, OrdersNotEmpty DEF Trust
  <2>3. CASE ClientClose(c)
    BY <2>3, ClientCloseLeads
  <2>4. CASE Terminate(c)
    BY <2>4, OrdersNotEmpty DEF Terminate, LeaveOrder
  <2>5. ASSUME Undo(c), pc[c] \in JoiningPlaces PROVE InOrderAt(c)'
    <3>1. mode'[c] = "undo" /\ at'[c] = 1 /\ pc'[c] = "unregister"
      BY <2>5 DEF Undo
    <3>2. 1 \in 1 .. Len(UndoOrder)
      BY RegistriesAssumption DEF RegistriesAssumption, LeavesFirstLast
    <3> QED
      BY <3>1, <3>2 DEF LeaveOrder
  <2>6. CASE LookForPending(c)
    BY <2>5, <2>6, LookForPendingLeads
  <2>7. CASE SwapIn(c)
    BY <2>5, <2>7 DEF SwapIn
  <2>8. CASE Retain(c)
    BY <2>8 DEF Retain
  <2>9. CASE SetPending(c) \/ SwapOut(c) \/ WaitForInvocations(c)
    BY <2>9, SetPendingLeads DEF SwapOut, WaitForInvocations, LeaveOrder
  <2>10. CASE NotRegistered(c) \/ Release(c)
    <3>1. pc[c] \in LeavingPlaces /\ NextRegistry(c)
      BY <2>10, ReleaseLeads DEF NotRegistered
    <3>2. CASE at[c] < Len(LeaveOrder(c))
      BY <3>1, <3>2, OrdersNotEmpty DEF NextRegistry, LeaveOrder
    <3>3. CASE ~(at[c] < Len(LeaveOrder(c)))
      BY <3>1, <3>3 DEF NextRegistry
    <3> QED
      BY <3>2, <3>3
  <2> QED
    BY <1>1, <2>1, <2>2, <2>3, <2>4, <2>6, <2>7, <2>8, <2>9, <2>10
    DEF ClientCalls, ClientWorks
<1>2. ASSUME UNCHANGED << pc, mode, at >> PROVE InOrder'
  BY <1>2 DEF InOrder, InOrderAt, LeaveOrder
<1>3. ASSUME NEW c \in Clients, ClientCalls(c) \/ ClientWorks(c) PROVE InOrder'
  <2>1. ASSUME NEW d \in Clients \ {c} PROVE InOrderAt(d)'
    BY <1>3, <2>1, OthersStay DEF InOrder, InOrderAt, LeaveOrder
  <2> QED
    BY <1>1, <1>3, <2>1, OthersStay DEF InOrder
<1>4. ASSUME NEW u \in Users, Notify(u) \/ UserWorks(u) PROVE UNCHANGED << pc, mode, at >>
  BY <1>4 DEF UserWorks, Notify, GiveUp, GoOn, Increment, ReadClient, Verify,
     Abandon, Return, clientVars
<1>5. UNCHANGED vars => UNCHANGED << pc, mode, at >>
  BY DEF vars, clientVars
<1> QED
  BY <1>2, <1>3, <1>4, <1>5 DEF Next

LEMMA InOrderAlways == Spec => []InOrder
<1>1. Init => InOrder
  BY DEF Init, InOrder, InOrderAt, JoiningPlaces, LeavingPlaces, StoppedPlaces
<1> QED
  BY <1>1, TypesAlways, InOrderKept, PTL DEF Spec

(***************************************************************************)
(* The registries and the clients they have.                               *)
(***************************************************************************)
Registry == Left /\ Joined /\ FirstKnows

LEMMA FirstIsRegistry == First \in Registries
BY OrdersNotEmpty DEF First

(* Only SwapIn and SwapOut change a registry.                              *)
LEMMA RegistryFrame ==
  ASSUME [Next]_vars
  PROVE  UNCHANGED userClient \/ \E c \in Clients : SwapIn(c) \/ SwapOut(c)
<1>1. ASSUME NEW c \in Clients, ClientCalls(c) \/ ClientWorks(c)
      PROVE  UNCHANGED userClient \/ SwapIn(c) \/ SwapOut(c)
  BY <1>1, LookForPendingLeads, SetPendingLeads, ReleaseLeads, ClientCloseLeads
  DEF ClientCalls, ClientWorks, OpenProvider, Trust, SetPolicy, Close, Cleanup,
      MarkAborted, Terminate, Retain, NotRegistered, WaitForInvocations, registryVars
<1>2. ASSUME NEW u \in Users, Notify(u) \/ UserWorks(u) PROVE UNCHANGED userClient
  BY <1>2 DEF UserWorks, Notify, GiveUp, GoOn, Increment, ReadClient, Verify,
     Abandon, Return, registryVars
<1>3. UNCHANGED vars => UNCHANGED userClient
  BY DEF vars, registryVars
<1> QED
  BY <1>1, <1>2, <1>3 DEF Next

(* The registry a leaving client is at is a registry.                      *)
LEMMA LeavingIsRegistry ==
  ASSUME InOrder, NEW c \in Clients, pc[c] \in LeavingPlaces
  PROVE  Leaving(c) \in Registries
<1>1. at[c] \in 1 .. Len(LeaveOrder(c))
  BY DEF InOrder, InOrderAt
<1> QED
  BY <1>1, OrdersNotEmpty DEF Leaving

LEMMA RegisteringIsRegistry ==
  ASSUME InOrder, NEW c \in Clients, pc[c] \in JoiningPlaces
  PROVE  Registering(c) \in Registries
<1>1. at[c] \in 1 .. Len(RegisterOrder)
  BY DEF InOrder, InOrderAt
<1> QED
  BY <1>1, OrdersNotEmpty DEF Registering

(* The last place of the orders is the first registry's.                   *)
LEMMA FirstIsLast ==
  ASSUME NEW c \in Clients, NEW k \in 1 .. Len(LeaveOrder(c))
  PROVE  /\ LeaveOrder(c)[k] = First <=> k = Len(LeaveOrder(c))
         /\ \A r \in Registries : \E i \in 1 .. Len(LeaveOrder(c)) : LeaveOrder(c)[i] = r
BY RegistriesAssumption DEF RegistriesAssumption, LeavesFirstLast, LeaveOrder, First

(* A swap in finds its registry empty, and the first one is the client's   *)
(* or just becomes it.                                                     *)
LEMMA SwapInChanges ==
  ASSUME PlaceTypes, InOrder, NEW c \in Clients, SwapIn(c)
  PROVE  \/ UNCHANGED userClient
         \/ /\ Registering(c) \in Registries /\ userClient[Registering(c)] = Nobody
            /\ userClient' = [userClient EXCEPT ![Registering(c)] = c]
            /\ pc' = [pc EXCEPT ![c] = "retain"] /\ UNCHANGED << mode, at >>
            /\ Registering(c) = First \/ at[c] > 1
<1>1. pc[c] = "swapIn" /\ at[c] \in 1 .. Len(RegisterOrder)
  BY DEF SwapIn, InOrder, InOrderAt, JoiningPlaces
<1>2. Registering(c) \in Registries /\ (Registering(c) = First \/ at[c] > 1)
  BY <1>1, OrdersNotEmpty DEF Registering, First
<1> QED
  BY <1>2 DEF SwapIn, GoTo

LEMMA FirstKnowsKept ==
  ASSUME PlaceTypes, InOrder, Registry, [Next]_vars
  PROVE  FirstKnows'
<1> USE FirstIsRegistry DEF PlaceTypes, FirstKnows
<1>1. ASSUME UNCHANGED userClient PROVE FirstKnows'
  BY <1>1 DEF Registry, First
<1>2. ASSUME NEW c \in Clients, SwapIn(c) PROVE FirstKnows'
  <2>1. Registering(c) = First \/ userClient[First] = c \/ UNCHANGED userClient
    BY <1>2, SwapInChanges DEF SwapIn, Registry, Joined, JoiningPlaces
  <2> QED
    BY <1>1, <1>2, <2>1, SwapInChanges, RegistriesAssumption
    DEF RegistriesAssumption, Registry, First
<1>3. ASSUME NEW c \in Clients, SwapOut(c) PROVE FirstKnows'
  <2>1. pc[c] = "swapOut" /\ Leaving(c) \in Registries /\ userClient[Leaving(c)] = c
    BY <1>3, LeavingIsRegistry DEF SwapOut, LeavingPlaces, Registry, Left, LeftAt
  <2>2. userClient' = [userClient EXCEPT ![Leaving(c)] = Nobody]
    BY <1>3 DEF SwapOut
  <2>3. CASE Leaving(c) # First
    BY <2>1, <2>2, <2>3 DEF Registry, First
  <2>4. ASSUME Leaving(c) = First, NEW r \in Registries, r # First
        PROVE  userClient[r] = Nobody
    <3>1. userClient[r] # Nobody => userClient[r] = c
      BY <2>1, <2>4 DEF Registry
    <3>2. at[c] \in 1 .. Len(LeaveOrder(c))
      BY <2>1 DEF InOrder, InOrderAt, LeavingPlaces
    <3>3. at[c] = Len(LeaveOrder(c))
      BY <2>4, <3>2, FirstIsLast DEF Leaving
    <3>4. PICK i \in 1 .. Len(LeaveOrder(c)) : LeaveOrder(c)[i] = r
      BY <3>2, FirstIsLast
    <3>5. i # Len(LeaveOrder(c))
      BY <2>4, <3>4, FirstIsLast
    <3>6. Len(LeaveOrder(c)) \in Nat
      BY OrdersNotEmpty
    <3>7. i \in 1 .. at[c] - 1
      BY <3>3, <3>4, <3>5, <3>6
    <3>8. userClient[r] # c
      BY <2>1, <3>4, <3>7 DEF Registry, Left, LeftAt, LeavingPlaces
    <3> QED
      BY <3>1, <3>8
  <2>5. CASE Leaving(c) = First
    BY <2>2, <2>4, <2>5 DEF First
  <2> QED
    BY <2>3, <2>5
<1> QED
  BY <1>1, <1>2, <1>3, RegistryFrame

(* The steps of one client do not change what the registries have of the   *)
(* others.                                                                 *)
LEMMA OthersKeep ==
  ASSUME PlaceTypes, InOrder, Registry,
         NEW c \in Clients, ClientCalls(c) \/ ClientWorks(c),
         NEW d \in Clients \ {c}, NEW r \in Registries
  PROVE  userClient'[r] = d <=> userClient[r] = d
<1>1. UNCHANGED userClient \/ SwapIn(c) \/ SwapOut(c)
  BY LookForPendingLeads, SetPendingLeads, ReleaseLeads, ClientCloseLeads
  DEF ClientCalls, ClientWorks, OpenProvider, Trust, SetPolicy, Close, Cleanup,
      MarkAborted, Terminate, Retain, NotRegistered, WaitForInvocations, registryVars
<1>2. CASE SwapIn(c)
  BY <1>2, SwapInChanges, RegistriesAssumption DEF RegistriesAssumption, PlaceTypes
<1>3. CASE SwapOut(c)
  <2>1. userClient[Leaving(c)] = c /\ userClient' = [userClient EXCEPT ![Leaving(c)] = Nobody]
    BY <1>3 DEF SwapOut, Registry, Left, LeftAt
  <2> QED
    BY <2>1, RegistriesAssumption DEF RegistriesAssumption, PlaceTypes
<1> QED
  BY <1>1, <1>2, <1>3

LEMMA JoinedKept ==
  ASSUME PlaceTypes, InOrder, Registry, [Next]_vars
  PROVE  Joined'
<1> DEFINE J(c) == pc[c] = "retain" \/ (pc[c] \in JoiningPlaces /\ at[c] > 1)
                     => userClient[First] = c
<1> USE FirstIsRegistry DEF PlaceTypes, GoTo, JoiningPlaces
<1>1. \A c \in Clients : J(c)
  BY DEF Registry, Joined
<1>2. First' = First
  BY DEF First
<1>3. ASSUME NEW c \in Clients, ClientCalls(c) \/ ClientWorks(c) PROVE J(c)'
  <2> USE DEF InOrder
  <2>1. CASE OpenProvider(c) \/ SetPolicy(c) \/ Close(c) \/ Cleanup(c) \/ MarkAborted(c)
             \/ Trust(c) \/ Terminate(c)
    BY <2>1 DEF OpenProvider, SetPolicy, Close, Cleanup, MarkAborted, Trust, Terminate,
                clientVars
  <2>2. CASE ClientClose(c) \/ SetPending(c)
    BY <2>2, ClientCloseLeads, SetPendingLeads
  <2>3. CASE LookForPending(c)
    BY <1>1, <1>2, <2>3, LookForPendingLeads DEF Undo
  <2>4. CASE SwapIn(c)
    <3>1. CASE UNCHANGED userClient
      BY <1>1, <2>4, <3>1, RegistriesAssumption
      DEF RegistriesAssumption, SwapIn, Undo, InOrderAt, Registering
    <3>2. CASE userClient[Registering(c)] = Nobody /\ Registering(c) \in Registries
               /\ userClient' = [userClient EXCEPT ![Registering(c)] = c]
               /\ (Registering(c) = First \/ at[c] > 1)
      BY <1>1, <1>2, <2>4, <3>2 DEF SwapIn
    <3> QED
      BY <2>4, <3>1, <3>2, SwapInChanges
  <2>5. CASE Retain(c)
    BY <1>1, <1>2, <2>5 DEF Retain, registryVars
  <2>6. CASE SwapOut(c) \/ WaitForInvocations(c)
    BY <2>6 DEF SwapOut, WaitForInvocations
  <2>7. CASE NotRegistered(c) \/ Release(c)
    BY <2>7, ReleaseLeads DEF NotRegistered, NextRegistry
  <2> QED
    BY <1>3, <2>1, <2>2, <2>3, <2>4, <2>5, <2>6, <2>7 DEF ClientCalls, ClientWorks
<1>4. ASSUME NEW c \in Clients, ClientCalls(c) \/ ClientWorks(c), NEW d \in Clients \ {c}
      PROVE  J(d)'
  BY <1>1, <1>2, <1>4, OthersStay, OthersKeep
<1>5. ASSUME UNCHANGED << pc, at, userClient >> PROVE \A c \in Clients : J(c)'
  BY <1>1, <1>2, <1>5
<1>6. ASSUME NEW u \in Users, Notify(u) \/ UserWorks(u) PROVE UNCHANGED << pc, at, userClient >>
  BY <1>6 DEF UserWorks, Notify, GiveUp, GoOn, Increment, ReadClient, Verify,
     Abandon, Return, clientVars, registryVars
<1>7. UNCHANGED vars => UNCHANGED << pc, at, userClient >>
  BY DEF vars, clientVars, registryVars
<1>8. \A c \in Clients : J(c)'
  BY <1>3, <1>4, <1>5, <1>6, <1>7 DEF Next
<1> QED
  BY <1>8 DEF Joined

LEMMA LeftKept ==
  ASSUME PlaceTypes, InOrder, Registry, [Next]_vars
  PROVE  Left'
<1> USE DEF PlaceTypes, GoTo, LeavingPlaces
<1>1. ASSUME NEW c \in Clients, ClientCalls(c) \/ ClientWorks(c) PROVE LeftAt(c)'
  <2> USE DEF InOrder
  <2>1. CASE OpenProvider(c) \/ SetPolicy(c) \/ Close(c) \/ Cleanup(c) \/ MarkAborted(c)
             \/ Trust(c) \/ Retain(c)
    BY <2>1 DEF OpenProvider, SetPolicy, Close, Cleanup, MarkAborted, Trust, Retain,
                clientVars, LeftAt
  <2>2. CASE ClientClose(c)
    BY <2>2, ClientCloseLeads DEF LeftAt
  <2>3. CASE Terminate(c)
    BY <2>3 DEF Terminate, LeftAt
  <2>4. CASE LookForPending(c)
    BY <2>4, LookForPendingLeads DEF Undo, LeftAt
  <2>5. CASE SwapIn(c)
    BY <2>5 DEF SwapIn, Undo, LeftAt
  <2>6. CASE SetPending(c)
    BY <2>6, SetPendingLeads DEF Registry, Left, LeftAt, LeaveOrder, Leaving
  <2>7. CASE SwapOut(c)
    <3>1. Leaving(c) \in Registries
      BY <2>7, LeavingIsRegistry DEF SwapOut
    <3>2. userClient' = [userClient EXCEPT ![Leaving(c)] = Nobody]
          /\ Leaving(c)' = Leaving(c) /\ LeaveOrder(c)' = LeaveOrder(c)
          /\ at' = at /\ pc'[c] = "wait" /\ pc[c] = "swapOut"
      BY <2>7 DEF SwapOut, Leaving, LeaveOrder
    <3>3. at[c] \in 1 .. Len(LeaveOrder(c)) /\ Len(LeaveOrder(c)) \in Nat
      BY <3>2, OrdersNotEmpty DEF InOrderAt
    <3>4. \A k \in 1 .. at[c] - 1 : LeaveOrder(c)[k] \in Registries
      BY <3>3, OrdersNotEmpty
    <3> QED
      BY <3>1, <3>2, <3>3, <3>4, RegistriesAssumption
      DEF RegistriesAssumption, Registry, Left, LeftAt
  <2>8. CASE WaitForInvocations(c)
    BY <2>8 DEF WaitForInvocations, registryVars, Registry, Left, LeftAt, Leaving, LeaveOrder
  <2>9. CASE NotRegistered(c) \/ Release(c)
    <3>1. /\ pc[c] \in {"unregister", "release"} /\ NextRegistry(c)
          /\ UNCHANGED userClient /\ userClient[Leaving(c)] # c
      BY <2>9, ReleaseLeads DEF NotRegistered, registryVars, Registry, Left, LeftAt
    <3>2. at[c] \in 1 .. Len(LeaveOrder(c)) /\ Len(LeaveOrder(c)) \in Nat
      BY <3>1, OrdersNotEmpty DEF InOrderAt
    <3>3. \A k \in 1 .. at[c] : userClient[LeaveOrder(c)[k]] # c
      BY <3>1, <3>2 DEF Registry, Left, LeftAt, Leaving
    <3>4. CASE at[c] < Len(LeaveOrder(c))
      <4>1. /\ pc'[c] = "unregister" /\ at'[c] = at[c] + 1
            /\ LeaveOrder(c)' = LeaveOrder(c)
        BY <3>1, <3>4 DEF NextRegistry, LeaveOrder
      <4> QED
        BY <3>1, <3>2, <3>3, <4>1 DEF LeftAt
    <3>5. CASE ~(at[c] < Len(LeaveOrder(c)))
      <4>1. at[c] = Len(LeaveOrder(c)) /\ pc'[c] \in {"gone", "idle"}
        BY <3>1, <3>2, <3>5 DEF NextRegistry
      <4>2. ASSUME NEW r \in Registries PROVE userClient[r] # c
        <5>1. PICK i \in 1 .. Len(LeaveOrder(c)) : LeaveOrder(c)[i] = r
          BY <3>2, FirstIsLast
        <5> QED
          BY <3>3, <4>1, <5>1
      <4> QED
        BY <3>1, <4>1, <4>2 DEF LeftAt
    <3> QED
      BY <3>4, <3>5
  <2> QED
    BY <1>1, <2>1, <2>2, <2>3, <2>4, <2>5, <2>6, <2>7, <2>8, <2>9
    DEF ClientCalls, ClientWorks
<1>2. ASSUME NEW c \in Clients, ClientCalls(c) \/ ClientWorks(c), NEW d \in Clients \ {c}
      PROVE  LeftAt(d)'
  <2>1. pc'[d] = pc[d] /\ at'[d] = at[d] /\ mode'[d] = mode[d]
    BY <1>2, OthersStay
  <2>2. LeaveOrder(d)' = LeaveOrder(d) /\ Leaving(d)' = Leaving(d)
    BY <2>1 DEF LeaveOrder, Leaving
  <2>3. ASSUME pc[d] \in LeavingPlaces, NEW k \in 1 .. at[d]
        PROVE  LeaveOrder(d)[k] \in Registries
    <3>1. at[d] \in 1 .. Len(LeaveOrder(d)) /\ Len(LeaveOrder(d)) \in Nat
      BY <2>3, OrdersNotEmpty DEF InOrder, InOrderAt
    <3> QED
      BY <3>1, OrdersNotEmpty
  <2>4. at[d] \in Nat \ {0}
    BY DEF InOrder
  <2>5. pc[d] \in LeavingPlaces => Leaving(d) \in Registries
    BY LeavingIsRegistry
  <2>6. \A r \in Registries : userClient'[r] = d <=> userClient[r] = d
    BY <1>2, OthersKeep
  <2>7. pc[d] \in LeavingPlaces =>
          \A k \in 1 .. at[d] - 1 : userClient'[LeaveOrder(d)[k]] # d
    BY <2>3, <2>4, <2>6 DEF Registry, Left, LeftAt
  <2> QED
    BY <2>1, <2>2, <2>5, <2>6, <2>7 DEF Registry, Left, LeftAt
<1>3. ASSUME UNCHANGED << pc, mode, at, userClient >> PROVE Left'
  BY <1>3 DEF Registry, Left, LeftAt, Leaving, LeaveOrder
<1>4. ASSUME NEW u \in Users, Notify(u) \/ UserWorks(u)
      PROVE  UNCHANGED << pc, mode, at, userClient >>
  BY <1>4 DEF UserWorks, Notify, GiveUp, GoOn, Increment, ReadClient, Verify,
     Abandon, Return, clientVars, registryVars
<1>5. UNCHANGED vars => UNCHANGED << pc, mode, at, userClient >>
  BY DEF vars, clientVars, registryVars
<1> QED
  BY <1>1, <1>2, <1>3, <1>4, <1>5 DEF Next, Left

LEMMA RegistryAlways == Spec => []Registry
<1>1. Init => Registry
  BY FirstIsRegistry, RegistriesAssumption
  DEF Init, RegistriesAssumption, Registry, Left, LeftAt, Joined, FirstKnows,
      LeavingPlaces, JoiningPlaces
<1>2. PlaceTypes /\ InOrder /\ Registry /\ [Next]_vars => Registry'
  BY FirstKnowsKept, JoinedKept, LeftKept DEF Registry
<1> QED
  BY <1>1, <1>2, TypesAlways, InOrderAlways, PTL DEF Spec

(***************************************************************************)
(* The threads that hold a client, and the references on it.               *)
(***************************************************************************)

(* A client is granted at a registry until the wait is over.               *)
LEMMA GrantedKept ==
  ASSUME PlaceTypes, CountExact, InOrder, Registry, NEW r \in Registries,
         Inside(r) # {}, [Next]_vars, NEW d \in GrantedAt(r)
  PROVE  d \in GrantedAt(r)'
<1> USE DEF PlaceTypes, GoTo
<1>1. d \in Clients /\ (userClient[r] = d \/ (pc[d] = "wait" /\ Leaving(d) = r))
  BY DEF GrantedAt
<1>2. ASSUME userClient'[r] = d PROVE d \in GrantedAt(r)'
  BY <1>1, <1>2 DEF GrantedAt
<1>3. ASSUME pc'[d] = "wait", Leaving(d)' = r PROVE d \in GrantedAt(r)'
  BY <1>1, <1>3 DEF GrantedAt
<1>4. ASSUME ClientCalls(d) \/ ClientWorks(d) PROVE d \in GrantedAt(r)'
  <2>1. CASE userClient[r] = d
    <3>1. UNCHANGED userClient \/ SwapIn(d) \/ SwapOut(d)
      BY <1>1, <1>4, LookForPendingLeads, SetPendingLeads, ReleaseLeads, ClientCloseLeads
      DEF ClientCalls, ClientWorks, OpenProvider, Trust, SetPolicy, Close, Cleanup,
          MarkAborted, Terminate, Retain, NotRegistered, WaitForInvocations, registryVars
    <3>2. CASE SwapIn(d)
      BY <1>1, <1>2, <2>1, <3>2, SwapInChanges, RegistriesAssumption DEF RegistriesAssumption
    <3>3. CASE SwapOut(d)
      <4>1. /\ userClient' = [userClient EXCEPT ![Leaving(d)] = Nobody]
            /\ pc'[d] = "wait" /\ Leaving(d)' = Leaving(d)
        BY <1>1, <3>3 DEF SwapOut, Leaving, LeaveOrder
      <4> QED
        BY <1>2, <1>3, <2>1, <4>1
    <3> QED
      BY <1>2, <2>1, <3>1, <3>2, <3>3
  <2>2. CASE pc[d] = "wait" /\ Leaving(d) = r
    <3>1. WaitForInvocations(d)
      BY <1>1, <1>4, <2>2, LookForPendingLeads, SetPendingLeads, ReleaseLeads, ClientCloseLeads
      DEF ClientCalls, ClientWorks, OpenProvider, Trust, SetPolicy, Close, Cleanup,
          MarkAborted, Terminate, Retain, NotRegistered, SwapIn, SwapOut
    <3>2. Cardinality(Inside(r)) = 0
      BY <2>2, <3>1 DEF WaitForInvocations, CountExact
    <3>3. Inside(r) = {}
      BY <3>2, InsideFinite, FS_EmptySet
    <3> QED
      BY <3>3
  <2> QED
    BY <1>1, <2>1, <2>2
<1>5. ASSUME NEW c \in Clients, c # d, ClientCalls(c) \/ ClientWorks(c)
      PROVE  d \in GrantedAt(r)'
  <2>1. pc'[d] = pc[d] /\ at'[d] = at[d] /\ mode'[d] = mode[d]
    BY <1>1, <1>5, OthersStay
  <2>2. userClient'[r] = d <=> userClient[r] = d
    BY <1>1, <1>5, OthersKeep
  <2> QED
    BY <1>1, <1>2, <1>3, <2>1, <2>2 DEF Leaving, LeaveOrder
<1>6. ASSUME UNCHANGED << pc, mode, at, userClient >> PROVE d \in GrantedAt(r)'
  BY <1>1, <1>6 DEF GrantedAt, Leaving, LeaveOrder
<1>7. ASSUME NEW u \in Users, Notify(u) \/ UserWorks(u)
      PROVE  UNCHANGED << pc, mode, at, userClient >>
  BY <1>7 DEF UserWorks, Notify, GiveUp, GoOn, Increment, ReadClient, Verify,
     Abandon, Return, clientVars, registryVars
<1>8. UNCHANGED vars => UNCHANGED << pc, mode, at, userClient >>
  BY DEF vars, clientVars, registryVars
<1> QED
  BY <1>4, <1>5, <1>6, <1>7, <1>8 DEF Next

LEMMA HeldKept ==
  ASSUME PlaceTypes, CountExact, InOrder, Registry, Held, [Next]_vars
  PROVE  Held'
<1> DEFINE H(u) == /\ pcU[u] = "verify" => got[u] \in Clients
                   /\ pcU[u] = "call" => got[u] \in GrantedAt(reg[u])
<1>1. \A u \in Users : H(u)
  BY DEF Held
<1>2. ASSUME NEW u \in Users, pcU'[u] = pcU[u], got'[u] = got[u], reg'[u] = reg[u]
      PROVE  H(u)'
  <2>1. CASE pcU[u] = "call"
    <3>1. u \in Inside(reg[u]) /\ reg[u] \in Registries
      BY <2>1 DEF PlaceTypes, Inside, InsidePlaces
    <3> QED
      BY <1>1, <1>2, <2>1, <3>1, GrantedKept
  <2> QED
    BY <1>1, <1>2, <2>1
<1>3. ASSUME NEW u \in Users, Notify(u) \/ UserWorks(u) PROVE H(u)'
  <2> USE DEF PlaceTypes, UserGoTo
  <2>1. CASE Notify(u) \/ GiveUp(u) \/ GoOn(u) \/ Increment(u) \/ Abandon(u) \/ Return(u)
    BY <2>1 DEF Notify, GiveUp, GoOn, Increment, Abandon, Return
  <2>2. CASE ReadClient(u)
    BY <2>2 DEF ReadClient
  <2>3. CASE Verify(u)
    <3>1. got[u] \in Clients
      BY <1>1, <2>3 DEF Verify
    <3> QED
      BY <2>3, <3>1 DEF Verify, GrantedAt, registryVars
  <2> QED
    BY <1>3, <2>1, <2>2, <2>3 DEF UserWorks
<1>4. ASSUME NEW u \in Users, Notify(u) \/ UserWorks(u), NEW v \in Users \ {u}
      PROVE  pcU'[v] = pcU[v] /\ got'[v] = got[v] /\ reg'[v] = reg[v]
  BY <1>4 DEF UserWorks, Notify, GiveUp, GoOn, Increment, ReadClient, Verify,
     Abandon, Return, UserGoTo, PlaceTypes
<1>5. ASSUME NEW c \in Clients, ClientCalls(c) \/ ClientWorks(c) PROVE UNCHANGED userVars
  BY <1>5 DEF ClientCalls, ClientWorks, OpenProvider, Trust, SetPolicy, Close, Cleanup,
     ClientClose, MarkAborted, Terminate, LookForPending, SwapIn, Retain,
     NotRegistered, SetPending, Release, SwapOut, WaitForInvocations, userVars
<1>6. UNCHANGED vars => UNCHANGED userVars
  BY DEF vars
<1>7. UNCHANGED userVars => \A u \in Users : H(u)'
  BY <1>2 DEF userVars
<1>8. \A u \in Users : H(u)'
  BY <1>2, <1>3, <1>4, <1>5, <1>6, <1>7 DEF Next
<1> QED
  BY <1>8 DEF Held

LEMMA HeldAlways == Spec => []Held
<1>1. Init => Held
  BY DEF Init, Held
<1> QED
  BY <1>1, TypesAlways, CountAlways, InOrderAlways, RegistryAlways, HeldKept, PTL DEF Spec

LEMMA HavingFinite ==
  ASSUME NEW c \in Clients
  PROVE  IsFiniteSet(Having(c)) /\ Cardinality(Having(c)) \in Nat
<1>1. Having(c) \subseteq Registries
  BY DEF Having
<1>2. IsFiniteSet(Having(c))
  BY <1>1, RegistriesAssumption, FS_Subset DEF RegistriesAssumption
<1> QED
  BY <1>2, FS_CardinalityType

LEMMA RefsExactKept ==
  ASSUME PlaceTypes, InOrder, Registry, RefsExact, [Next]_vars
  PROVE  RefsExact'
<1> DEFINE Taken(c)  == IF pc[c] = "retain" THEN 1 ELSE 0
           Kept(c)   == IF pc[c] \in {"wait", "release"} THEN 1 ELSE 0
           Exact(c)  == refs[c] = Cardinality(Having(c)) + Kept(c) - Taken(c)
<1>1. refs \in [Clients -> Int] /\ \A c \in Clients : Exact(c)
  BY DEF RefsExact
<1>2. ASSUME NEW c \in Clients, ClientCalls(c) \/ ClientWorks(c)
      PROVE  refs' \in [Clients -> Int] /\ Exact(c)'
  <2> USE DEF PlaceTypes, GoTo
  <2>1. CASE OpenProvider(c) \/ SetPolicy(c) \/ Close(c) \/ Cleanup(c) \/ MarkAborted(c)
             \/ Trust(c) \/ Terminate(c)
    BY <1>1, <2>1 DEF OpenProvider, SetPolicy, Close, Cleanup, MarkAborted, Trust,
                Terminate, clientVars, registryVars, Having
  <2>2. CASE ClientClose(c)
    BY <1>1, <2>2, ClientCloseLeads DEF Having
  <2>3. CASE LookForPending(c) \/ SetPending(c)
    BY <1>1, <2>3, LookForPendingLeads, SetPendingLeads DEF Undo, Having
  <2>4. CASE SwapIn(c)
    <3>1. UNCHANGED refs /\ pc[c] = "swapIn"
      BY <2>4 DEF SwapIn
    <3>2. CASE userClient[Registering(c)] # Nobody
      <4>1. UNCHANGED userClient /\ pc'[c] = "unregister"
        BY <2>4, <3>2 DEF SwapIn, Undo
      <4> QED
        BY <1>1, <3>1, <4>1 DEF Having
    <3>3. CASE userClient[Registering(c)] = Nobody
      <4>1. /\ userClient' = [userClient EXCEPT ![Registering(c)] = c]
            /\ pc'[c] = "retain" /\ Registering(c) \in Registries
        BY <2>4, <3>3, RegisteringIsRegistry DEF SwapIn, JoiningPlaces
      <4>2. Registering(c) \notin Having(c) /\ Having(c)' = Having(c) \cup {Registering(c)}
        BY <3>3, <4>1, RegistriesAssumption DEF RegistriesAssumption, Having
      <4>3. Cardinality(Having(c))' = Cardinality(Having(c)) + 1
        BY <4>2, HavingFinite, FS_AddElement
      <4> QED
        BY <1>1, <3>1, <4>1, <4>3, HavingFinite
    <3> QED
      BY <3>2, <3>3
  <2>5. CASE Retain(c)
    <3>1. /\ refs' = [refs EXCEPT ![c] = refs[c] + 1] /\ UNCHANGED userClient
          /\ pc[c] = "retain" /\ pc'[c] \in {"idle", "register"}
      BY <2>5 DEF Retain, registryVars
    <3>2. Having(c)' = Having(c) /\ Cardinality(Having(c)) \in Nat
      BY <3>1, HavingFinite DEF Having
    <3> QED
      BY <1>1, <3>1, <3>2
  <2>6. CASE SwapOut(c)
    <3>1. /\ userClient[Leaving(c)] = c /\ Leaving(c) \in Registries
          /\ userClient' = [userClient EXCEPT ![Leaving(c)] = Nobody]
          /\ pc[c] = "swapOut" /\ pc'[c] = "wait" /\ UNCHANGED refs
      BY <2>6, LeavingIsRegistry DEF SwapOut, LeavingPlaces, Registry, Left, LeftAt
    <3>2. Leaving(c) \in Having(c) /\ Having(c)' = Having(c) \ {Leaving(c)}
      BY <3>1, RegistriesAssumption DEF RegistriesAssumption, Having
    <3>3. Cardinality(Having(c))' = Cardinality(Having(c)) - 1
      <4>1. IsFiniteSet(Having(c))
        BY HavingFinite
      <4> QED
        BY <3>2, <4>1, FS_RemoveElement
    <3>4. Cardinality(Having(c)) \in Nat
      BY HavingFinite
    <3> QED
      BY <1>1, <3>1, <3>3, <3>4
  <2>7. CASE WaitForInvocations(c)
    BY <1>1, <2>7 DEF WaitForInvocations, registryVars, Having
  <2>8. CASE NotRegistered(c)
    <3>1. /\ UNCHANGED << userClient, refs >> /\ pc[c] = "unregister"
          /\ pc'[c] \in {"unregister", "gone", "idle"}
      BY <2>8 DEF NotRegistered, NextRegistry, registryVars
    <3> QED
      BY <1>1, <3>1 DEF Having
  <2>9. CASE Release(c)
    <3>1. /\ refs' = [refs EXCEPT ![c] = refs[c] - 1] /\ UNCHANGED userClient
          /\ pc[c] = "release" /\ pc'[c] \in {"unregister", "gone", "idle"}
      BY <2>9, ReleaseLeads DEF NextRegistry
    <3>2. Having(c)' = Having(c) /\ Cardinality(Having(c)) \in Nat
      BY <3>1, HavingFinite DEF Having
    <3> QED
      BY <1>1, <3>1, <3>2
  <2> QED
    BY <1>2, <2>1, <2>2, <2>3, <2>4, <2>5, <2>6, <2>7, <2>8, <2>9
    DEF ClientCalls, ClientWorks
<1>3. ASSUME NEW c \in Clients, ClientCalls(c) \/ ClientWorks(c), NEW d \in Clients \ {c}
      PROVE  Exact(d)'
  <2>1. refs'[d] = refs[d]
    BY <1>1, <1>3, LookForPendingLeads, SetPendingLeads, ReleaseLeads, ClientCloseLeads
    DEF ClientCalls, ClientWorks, OpenProvider, Trust, SetPolicy, Close, Cleanup,
        MarkAborted, Terminate, Retain, NotRegistered, WaitForInvocations, SwapIn,
        SwapOut, clientVars
  <2>2. pc'[d] = pc[d] /\ Having(d)' = Having(d)
    BY <1>3, OthersStay, OthersKeep DEF Having
  <2> QED
    BY <1>1, <2>1, <2>2
<1>4. ASSUME UNCHANGED << pc, refs, userClient >>
      PROVE  refs' \in [Clients -> Int] /\ \A c \in Clients : Exact(c)'
  BY <1>1, <1>4 DEF Having
<1>5. ASSUME NEW u \in Users, Notify(u) \/ UserWorks(u)
      PROVE  UNCHANGED << pc, refs, userClient >>
  BY <1>5 DEF UserWorks, Notify, GiveUp, GoOn, Increment, ReadClient, Verify,
     Abandon, Return, clientVars, registryVars
<1>6. UNCHANGED vars => UNCHANGED << pc, refs, userClient >>
  BY DEF vars, clientVars, registryVars
<1>7. refs' \in [Clients -> Int] /\ \A c \in Clients : Exact(c)'
  BY <1>2, <1>3, <1>4, <1>5, <1>6 DEF Next
<1> QED
  BY <1>7 DEF RefsExact

LEMMA RefsAlways == Spec => []RefsExact
<1>1. Init => RefsExact
  <2> SUFFICES ASSUME Init PROVE RefsExact
    OBVIOUS
  <2>1. \A c \in Clients : Having(c) = {}
    BY RegistriesAssumption DEF RegistriesAssumption, Init, Having
  <2> QED
    BY <2>1, FS_EmptySet DEF Init, RefsExact
<1> QED
  BY <1>1, TypesAlways, InOrderAlways, RegistryAlways, RefsExactKept, PTL DEF Spec

LEMMA DisownedKept ==
  ASSUME PlaceTypes, InOrder, Disowned, [Next]_vars
  PROVE  Disowned'
<1> DEFINE D(c) == pc[c] = "gone" \/ (pc[c] \in LeavingPlaces /\ mode[c] = "stop") => owner # c
<1> USE DEF PlaceTypes, GoTo, LeavingPlaces, ProviderClosedBy
<1>1. \A c \in Clients : D(c)
  BY DEF Disowned
<1>2. ASSUME NEW c \in Clients, ClientCalls(c) \/ ClientWorks(c) PROVE D(c)'
  <2>1. CASE OpenProvider(c) \/ Trust(c) \/ SetPolicy(c) \/ Close(c) \/ Cleanup(c) \/ MarkAborted(c)
             \/ Retain(c)
    BY <2>1 DEF OpenProvider, Trust, SetPolicy, Close, Cleanup, MarkAborted, Retain, clientVars
  <2>2. CASE ClientClose(c)
    BY <2>2, ClientCloseLeads
  <2>3. CASE Terminate(c)
    BY <2>3, RegistriesAssumption DEF Terminate, RegistriesAssumption
  <2>4. CASE LookForPending(c)
    BY <2>4, LookForPendingLeads DEF Undo
  <2>5. CASE SwapIn(c)
    BY <2>5 DEF SwapIn, Undo
  <2>6. CASE SetPending(c) \/ SwapOut(c) \/ WaitForInvocations(c)
    BY <1>1, <2>6, SetPendingLeads DEF SwapOut, WaitForInvocations, providerVars
  <2>7. CASE NotRegistered(c) \/ Release(c)
    BY <1>1, <2>7, ReleaseLeads DEF NotRegistered, NextRegistry, providerVars,
       InOrder, InOrderAt
  <2> QED
    BY <1>2, <2>1, <2>2, <2>3, <2>4, <2>5, <2>6, <2>7 DEF ClientCalls, ClientWorks
<1>3. ASSUME NEW c \in Clients, ClientCalls(c) \/ ClientWorks(c), NEW d \in Clients \ {c}
      PROVE  D(d)'
  <2>1. pc'[d] = pc[d] /\ mode'[d] = mode[d]
    BY <1>3, OthersStay
  <2>2. owner # d => owner' # d
    BY <1>3, LookForPendingLeads, SetPendingLeads, ReleaseLeads, ClientCloseLeads,
       RegistriesAssumption
    DEF ClientCalls, ClientWorks, OpenProvider, Trust, SetPolicy, Close, Cleanup,
        MarkAborted, Terminate, Retain, NotRegistered, WaitForInvocations, SwapIn,
        SwapOut, providerVars, RegistriesAssumption
  <2> QED
    BY <1>1, <2>1, <2>2
<1>4. ASSUME UNCHANGED << pc, mode, owner >> PROVE \A c \in Clients : D(c)'
  BY <1>1, <1>4
<1>5. ASSUME NEW u \in Users, Notify(u) \/ UserWorks(u) PROVE UNCHANGED << pc, mode, owner >>
  BY <1>5 DEF UserWorks, Notify, GiveUp, GoOn, Increment, ReadClient, Verify,
     Abandon, Return, clientVars, providerVars
<1>6. UNCHANGED vars => UNCHANGED << pc, mode, owner >>
  BY DEF vars, clientVars, providerVars
<1>7. \A c \in Clients : D(c)'
  BY <1>2, <1>3, <1>4, <1>5, <1>6 DEF Next
<1> QED
  BY <1>7 DEF Disowned

LEMMA DisownedAlways == Spec => []Disowned
<1>1. Init => Disowned
  BY DEF Init, Disowned, LeavingPlaces
<1> QED
  BY <1>1, TypesAlways, InOrderAlways, DisownedKept, PTL DEF Spec

(***************************************************************************)
(* The theorems.                                                           *)
(***************************************************************************)

(* Every variable has its type; clientInvocations never goes below zero,   *)
(* because it counts the threads between OSIncrementAtomic and             *)
(* OSDecrementAtomic.                                                      *)
THEOREM TypeCorrect == Spec => []TypeOK
<1>1. PlaceTypes /\ FlagTypes /\ CountExact /\ InOrder /\ RefsExact => TypeOK
  BY Zenon DEF PlaceTypes, FlagTypes, CountExact, InOrder, RefsExact, TypeOK
<1> QED
  BY <1>1, TypesAlways, CountAlways, InOrderAlways, RefsAlways, PTL

(* Whatever registries and orders, the client that shadowNotification or   *)
(* logData is calling is still registered or its unregisterUserClient is   *)
(* waiting for the call.                                                   *)
THEOREM CalledClientAlive == Spec => []ClientAlive
<1>1. PlaceTypes /\ InOrder /\ Registry /\ Held => ClientAlive
  <2> SUFFICES ASSUME PlaceTypes, InOrder, Registry, Held, NEW u \in Users, pcU[u] = "call"
               PROVE  got[u] \in Clients /\ pc[got[u]] # "gone"
    BY DEF ClientAlive
  <2>1. got[u] \in GrantedAt(reg[u]) /\ reg[u] \in Registries
    BY DEF Held, PlaceTypes
  <2> QED
    BY <2>1 DEF GrantedAt, Registry, Left, LeftAt
<1> QED
  BY <1>1, TypesAlways, InOrderAlways, RegistryAlways, HeldAlways, PTL

(* An old and a new service are never registered at the same time, because *)
(* stopLogging leaves gServiceUserClient last, where startLogging begins.  *)
THEOREM OneClientEverywhere == Spec => []NoMixedClients
<1>1. Registry => NoMixedClients
  BY DEF Registry, FirstKnows, NoMixedClients
<1> QED
  BY <1>1, RegistryAlways, PTL

(* The retains of registerUserClient and the releases of                   *)
(* unregisterUserClient balance on every way through open, close, a failed *)
(* startLogging and clientClose.                                           *)
THEOREM CloseLeavesNothing == Spec => []NothingLeftBehind
<1>1. Registry /\ RefsExact /\ Disowned => NothingLeftBehind
  <2> SUFFICES ASSUME Registry, RefsExact, Disowned, NEW c \in Clients, pc[c] = "gone"
               PROVE  refs[c] = 0 /\ owner # c /\ \A r \in Registries : userClient[r] # c
    BY DEF NothingLeftBehind
  <2>1. \A r \in Registries : userClient[r] # c
    BY DEF Registry, Left, LeftAt
  <2>2. Having(c) = {}
    BY <2>1 DEF Having
  <2>3. Cardinality(Having(c)) = 0
    BY <2>2, FS_EmptySet
  <2>4. refs[c] = 0
    BY <2>3 DEF RefsExact
  <2> QED
    BY <2>1, <2>4 DEF Disowned
<1> QED
  BY <1>1, RegistryAlways, RefsAlways, DisownedAlways, PTL

(* What a client's own step does to its grant at a registry.               *)
LEMMA OwnGrant ==
  ASSUME PlaceTypes, InOrder, Registry, NEW r \in Registries,
         NEW c \in Clients, ClientCalls(c) \/ ClientWorks(c)
  PROVE  \/ c \in GrantedAt(r)' <=> c \in GrantedAt(r)
         \/ SwapIn(c) /\ c \notin GrantedAt(r) /\ c \in GrantedAt(r)'
         \/ WaitForInvocations(c) /\ Leaving(c) = r /\ c \in GrantedAt(r) /\ c \notin GrantedAt(r)'
<1> USE DEF PlaceTypes, GoTo
<1>1. CASE SwapIn(c)
  <2>1. pc[c] = "swapIn" /\ pc'[c] \in {"retain", "unregister"}
    BY <1>1 DEF SwapIn, Undo
  <2> QED
    BY <1>1, <2>1, SwapInChanges, RegistriesAssumption DEF RegistriesAssumption, GrantedAt
<1>2. CASE SwapOut(c)
  <2>1. /\ pc[c] = "swapOut" /\ pc'[c] = "wait" /\ Leaving(c)' = Leaving(c)
        /\ userClient' = [userClient EXCEPT ![Leaving(c)] = Nobody]
        /\ userClient[Leaving(c)] = c
    BY <1>2 DEF SwapOut, Leaving, LeaveOrder, Registry, Left, LeftAt
  <2> QED
    BY <2>1 DEF GrantedAt
<1>3. CASE WaitForInvocations(c)
  <2>1. /\ pc[c] = "wait" /\ pc'[c] = "release" /\ UNCHANGED userClient
        /\ userClient[Leaving(c)] # c
    BY <1>3 DEF WaitForInvocations, registryVars, Registry, Left, LeftAt
  <2> QED
    BY <1>3, <2>1 DEF GrantedAt
<1>4. CASE LookForPending(c) \/ SetPending(c) \/ Release(c) \/ ClientClose(c) \/ NotRegistered(c)
  <2>1. UNCHANGED userClient /\ pc[c] # "wait" /\ pc'[c] # "wait"
    BY <1>4, LookForPendingLeads, SetPendingLeads, ReleaseLeads, ClientCloseLeads
    DEF Undo, NotRegistered, NextRegistry, registryVars
  <2> QED
    BY <2>1 DEF GrantedAt
<1>5. CASE OpenProvider(c) \/ Trust(c) \/ SetPolicy(c) \/ Close(c) \/ Cleanup(c)
           \/ MarkAborted(c) \/ Terminate(c) \/ Retain(c)
  <2>1. UNCHANGED userClient /\ pc[c] # "wait" /\ pc'[c] # "wait"
    BY <1>5 DEF OpenProvider, Trust, SetPolicy, Close, Cleanup, MarkAborted, Terminate,
                Retain, registryVars, clientVars
  <2> QED
    BY <2>1 DEF GrantedAt
<1> QED
  BY <1>1, <1>2, <1>3, <1>4, <1>5 DEF ClientCalls, ClientWorks

LEMMA ClientLeaseStep ==
  ASSUME PlaceTypes, CountExact, InOrder, Registry, Held, NEW r \in Registries,
         NEW c \in Clients, ClientCalls(c) \/ ClientWorks(c)
  PROVE  Lease(r)!Next \/ UNCHANGED Lease(r)!vars
<1>1. \A d \in Clients \ {c} : d \in GrantedAt(r)' <=> d \in GrantedAt(r)
  BY OthersStay, OthersKeep DEF GrantedAt, Leaving, LeaveOrder
<1>2. GrantedAt(r) \subseteq Clients /\ GrantedAt(r)' \subseteq Clients
  BY DEF GrantedAt
<1>3. UNCHANGED userVars
  BY DEF ClientCalls, ClientWorks, OpenProvider, Trust, SetPolicy, Close, Cleanup,
     ClientClose, MarkAborted, Terminate, LookForPending, SwapIn, Retain,
     NotRegistered, SetPending, Release, SwapOut, WaitForInvocations, userVars
<1>4. UsingAt(r)' = UsingAt(r)
  BY <1>3 DEF userVars, UsingAt
<1>5. CASE c \in GrantedAt(r)' <=> c \in GrantedAt(r)
  BY <1>1, <1>2, <1>4, <1>5 DEF Lease!vars
<1>6. CASE c \notin GrantedAt(r) /\ c \in GrantedAt(r)'
  <2>1. GrantedAt(r)' = GrantedAt(r) \cup {c}
    BY <1>1, <1>2, <1>6
  <2> QED
    BY <1>4, <1>6, <2>1 DEF Lease!Next, Lease!Grant
<1>7. CASE WaitForInvocations(c) /\ Leaving(c) = r /\ c \in GrantedAt(r) /\ c \notin GrantedAt(r)'
  <2>1. GrantedAt(r)' = GrantedAt(r) \ {c}
    BY <1>1, <1>2, <1>7
  <2>2. Cardinality(Inside(r)) = 0
    BY <1>7 DEF WaitForInvocations, CountExact
  <2>3. Inside(r) = {}
    BY <2>2, InsideFinite, FS_EmptySet
  <2>4. \A u \in Users : UsingAt(r)[u] = Nobody
    BY <2>3 DEF UsingAt, Inside, InsidePlaces
  <2> QED
    BY <1>4, <1>7, <2>1, <2>4, RegistriesAssumption
    DEF RegistriesAssumption, Lease!Next, Lease!Revoke
<1> QED
  BY <1>5, <1>6, <1>7, OwnGrant

LEMMA UserLeaseStep ==
  ASSUME PlaceTypes, Held, NEW r \in Registries, NEW u \in Users, Notify(u) \/ UserWorks(u)
  PROVE  Lease(r)!Next \/ UNCHANGED Lease(r)!vars
<1> USE DEF PlaceTypes, UserGoTo
<1>1. GrantedAt(r)' = GrantedAt(r)
  BY DEF UserWorks, Notify, GiveUp, GoOn, Increment, ReadClient, Verify, Abandon, Return,
     clientVars, registryVars, GrantedAt, Leaving, LeaveOrder
<1>2. CASE Notify(u) \/ GiveUp(u) \/ GoOn(u) \/ Increment(u) \/ ReadClient(u) \/ Abandon(u)
  <2>1. UsingAt(r)' = UsingAt(r)
    BY <1>2 DEF UsingAt, Notify, GiveUp, GoOn, Increment, ReadClient, Abandon
  <2> QED
    BY <1>1, <2>1 DEF Lease!vars
<1>3. CASE Verify(u)
  <2>1. CASE reg[u] = r /\ userClient[r] = got[u]
    <3>1. got[u] \in Clients /\ got[u] \in GrantedAt(r) /\ UsingAt(r)[u] = Nobody
      BY <1>3, <2>1 DEF Verify, Held, GrantedAt, UsingAt
    <3>2. UsingAt(r)' = [UsingAt(r) EXCEPT ![u] = got[u]]
      BY <1>3, <2>1 DEF Verify, UsingAt
    <3>3. Lease(r)!Borrow(u, got[u])
      BY <1>1, <3>1, <3>2 DEF Lease!Borrow
    <3> QED
      BY <3>1, <3>3 DEF Lease!Next
  <2>2. CASE ~(reg[u] = r /\ userClient[r] = got[u])
    <3>1. UsingAt(r)' = UsingAt(r)
      BY <1>3, <2>2 DEF Verify, UsingAt
    <3> QED
      BY <1>1, <3>1 DEF Lease!vars
  <2> QED
    BY <2>1, <2>2
<1>4. CASE Return(u)
  <2>1. CASE reg[u] = r
    <3>1. UsingAt(r)[u] \in Clients
      BY <1>4, <2>1 DEF Return, Held, GrantedAt, UsingAt
    <3>2. UsingAt(r)' = [UsingAt(r) EXCEPT ![u] = Nobody]
      BY <1>4, <2>1 DEF Return, UsingAt
    <3>3. Lease(r)!GiveBack(u)
      BY <1>1, <3>1, <3>2, RegistriesAssumption DEF RegistriesAssumption, Lease!GiveBack
    <3> QED
      BY <3>3 DEF Lease!Next
  <2>2. CASE reg[u] # r
    <3>1. UsingAt(r)' = UsingAt(r)
      BY <1>4, <2>2 DEF Return, UsingAt
    <3> QED
      BY <1>1, <3>1 DEF Lease!vars
  <2> QED
    BY <2>1, <2>2
<1> QED
  BY <1>2, <1>3, <1>4 DEF UserWorks

(* Each registry implements ClientLease: SwapIn grants, Verify borrows,    *)
(* Return gives back and WaitForInvocations revokes.                       *)
THEOREM RegistriesLease == Spec => Leases
<1> DEFINE Step == \A r \in Registries : Lease(r)!Next \/ UNCHANGED Lease(r)!vars
<1>1. Init => \A r \in Registries : Lease(r)!Init
  BY RegistriesAssumption DEF Init, RegistriesAssumption, Lease!Init, GrantedAt, UsingAt
<1>2. PlaceTypes /\ CountExact /\ InOrder /\ Registry /\ Held /\ [Next]_vars => [Step]_vars
  BY ClientLeaseStep, UserLeaseStep DEF Next
<1>3. Spec => /\ \A r \in Registries : Lease(r)!Init
              /\ [][Step]_vars
  BY <1>1, <1>2, TypesAlways, CountAlways, InOrderAlways, RegistryAlways, HeldAlways, PTL
  DEF Spec
<1> QED
  BY <1>3 DEF Leases
=============================================================================
