---------------------------- MODULE UserClients ----------------------------
(***************************************************************************)
(* DldIOUserClient's connection to the driver and the registries that hand *)
(* the client to the threads that send it notifications.                   *)
(*                                                                         *)
(* A process opens its client, which registers it with gServiceUserClient, *)
(* gLog, gShadow and gServiceProtection one after the other; all of them   *)
(* have the same code.  It may close it, open it again, and when it ends   *)
(* clientClose cleans up and unregisters the client everywhere.  The calls *)
(* of one process come one after the other, those of two processes (an old *)
(* and a new service) and of the notifying threads interleave at each      *)
(* atomic operation on the shared fields.                                  *)
(*                                                                         *)
(* An operator that stands before a definition and has its name with a     *)
(* word more is that definition with a plausible mistake; the properties   *)
(* are tried on them.                                                      *)
(***************************************************************************)
EXTENDS Integers, Sequences, FiniteSets

CONSTANTS
  Clients,        (* the user clients, one for each process                *)
  Users,          (* the threads that send notifications                   *)
  Registries,
  RegisterOrder,  (* startLogging: the registries in the order of its calls *)
  UndoOrder,      (* startLogging, when one of the calls failed            *)
  StopOrder,      (* stopLogging                                           *)
  Nobody          (* NULL                                                  *)

(* An order in which each registry is left, and the one that the client    *)
(* was registered with first is left last.                                 *)
LeavesFirstLast(order) ==
  /\ order \in Seq(Registries) /\ order # << >>
  /\ \A r \in Registries : \E k \in 1 .. Len(order) : order[k] = r
  /\ \A k \in 1 .. Len(order) : order[k] = RegisterOrder[1] <=> k = Len(order)

ASSUME RegistriesAssumption ==
  /\ Nobody \notin Clients
  /\ IsFiniteSet(Users) /\ IsFiniteSet(Registries)
  /\ RegisterOrder \in Seq(Registries) /\ RegisterOrder # << >>
  /\ LeavesFirstLast(UndoOrder) /\ LeavesFirstLast(StopOrder)

VARIABLES
  owner,         (* who has the provider open                              *)
  aborted,       (* gClientWasAbnormallyTerminated                         *)
  policy,        (* whose ACLs, protected files and shadow files are set   *)
  userClient,    (* of each registry                                       *)
  pending,       (* pendingUnregistration of each registry                 *)
  invocations,   (* clientInvocations of each registry                     *)
  pc,            (* where each client's thread is                          *)
  mode,          (* "run", "undo" in startLogging's __exit, "stop"         *)
  at,            (* the place in the order of the registries               *)
  refs,          (* the references the registries have on each client      *)
  closedItself,  (* clientClosedItself of each client                      *)
  pcU, reg, got  (* a notifying thread: where it is, at which registry,    *)
                 (* and the currentClient it has read                      *)

providerVars == << owner, aborted, policy, closedItself >>
registryVars == << userClient, pending, invocations >>
clientVars   == << pc, mode, at, refs >>
userVars     == << pcU, reg, got >>
vars == << providerVars, registryVars, clientVars, userVars >>

GoTo(c, label) == pc' = [pc EXCEPT ![c] = label]
ProviderClosedBy(c) == IF owner = c THEN Nobody ELSE owner

----------------------------------------------------------------------------
(* open *)

OpenProvider(c) ==
  /\ pc[c] = "idle" /\ owner = Nobody
  /\ owner' = c
  /\ GoTo(c, "trust")
  /\ UNCHANGED << aborted, policy, closedItself, registryVars, mode, at, refs, userVars >>

Trust(c) ==
  /\ pc[c] = "trust"
  /\ aborted' = FALSE
  /\ GoTo(c, "register")
  /\ at' = [at EXCEPT ![c] = 1]
  /\ UNCHANGED << owner, policy, closedItself, registryVars, mode, refs, userVars >>

(* startLogging: registerUserClient for one registry after the other       *)

Registering(c) == RegisterOrder[at[c]]

Undo(c) ==
  /\ mode' = [mode EXCEPT ![c] = "undo"]
  /\ at' = [at EXCEPT ![c] = 1]
  /\ GoTo(c, "unregister")

LookForPending(c) ==
  /\ pc[c] = "register"
  /\ IF pending[Registering(c)]
     THEN Undo(c)
     ELSE GoTo(c, "swapIn") /\ UNCHANGED << mode, at >>
  /\ UNCHANGED << providerVars, registryVars, refs, userVars >>

SwapIn(c) ==
  /\ pc[c] = "swapIn"
  /\ IF userClient[Registering(c)] = Nobody
     THEN /\ userClient' = [userClient EXCEPT ![Registering(c)] = c]
          /\ GoTo(c, "retain")
          /\ UNCHANGED << mode, at >>
     ELSE Undo(c) /\ UNCHANGED userClient
  /\ UNCHANGED << providerVars, pending, invocations, refs, userVars >>

RetainAgain(c) ==
  /\ pc[c] = "retain"
  /\ refs' = [refs EXCEPT ![c] = @ + IF at[c] = 1 THEN 2 ELSE 1]
  /\ IF at[c] = Len(RegisterOrder)
     THEN GoTo(c, "idle") /\ UNCHANGED at
     ELSE GoTo(c, "register") /\ at' = [at EXCEPT ![c] = @ + 1]
  /\ UNCHANGED << providerVars, registryVars, mode, userVars >>
Retain(c) ==
  /\ pc[c] = "retain"
  /\ refs' = [refs EXCEPT ![c] = @ + 1]
  /\ IF at[c] = Len(RegisterOrder)
     THEN GoTo(c, "idle") /\ UNCHANGED at
     ELSE GoTo(c, "register") /\ at' = [at EXCEPT ![c] = @ + 1]
  /\ UNCHANGED << providerVars, registryVars, mode, userVars >>

----------------------------------------------------------------------------
(* unregisterUserClient for one registry after the other                   *)

RegisterOrderAgain(c) == RegisterOrder
LeaveOrder(c) == IF mode[c] = "undo" THEN UndoOrder ELSE StopOrder
Leaving(c) == LeaveOrder(c)[at[c]]

NextRegistry(c) ==
  IF at[c] < Len(LeaveOrder(c))
  THEN /\ GoTo(c, "unregister")
       /\ at' = [at EXCEPT ![c] = @ + 1]
       /\ UNCHANGED mode
  ELSE /\ GoTo(c, IF mode[c] = "stop" THEN "gone" ELSE "idle")
       /\ mode' = [mode EXCEPT ![c] = IF @ = "undo" THEN "run" ELSE @]
       /\ UNCHANGED at

NotRegistered(c) ==
  /\ pc[c] = "unregister" /\ userClient[Leaving(c)] # c
  /\ NextRegistry(c)
  /\ UNCHANGED << providerVars, registryVars, refs, userVars >>

SetPending(c) ==
  /\ pc[c] = "unregister" /\ userClient[Leaving(c)] = c
  /\ pending' = [pending EXCEPT ![Leaving(c)] = TRUE]
  /\ GoTo(c, "swapOut")
  /\ UNCHANGED << providerVars, userClient, invocations, mode, at, refs, userVars >>

(* The exchange cannot fail: nobody else takes c out of the registry.      *)
SwapOut(c) ==
  /\ pc[c] = "swapOut"
  /\ userClient' = [userClient EXCEPT ![Leaving(c)] = Nobody]
  /\ GoTo(c, "wait")
  /\ UNCHANGED << providerVars, pending, invocations, mode, at, refs, userVars >>

(* msleep has a timeout, so that the sleep may end at any time; then the   *)
(* thread goes on when nobody is inside of an invocation.                  *)
DoNotWait(c) ==
  /\ pc[c] = "wait"
  /\ GoTo(c, "release")
  /\ UNCHANGED << providerVars, registryVars, mode, at, refs, userVars >>
WaitForAllButOne(c) ==
  /\ pc[c] = "wait" /\ invocations[Leaving(c)] <= 1
  /\ GoTo(c, "release")
  /\ UNCHANGED << providerVars, registryVars, mode, at, refs, userVars >>
WaitForInvocations(c) ==
  /\ pc[c] = "wait" /\ invocations[Leaving(c)] = 0
  /\ GoTo(c, "release")
  /\ UNCHANGED << providerVars, registryVars, mode, at, refs, userVars >>

Release(c) ==
  /\ pc[c] = "release"
  /\ refs' = [refs EXCEPT ![c] = @ - 1]
  /\ pending' = [pending EXCEPT ![Leaving(c)] = FALSE]
  /\ NextRegistry(c)
  /\ UNCHANGED << providerVars, userClient, invocations, userVars >>

----------------------------------------------------------------------------
(* The settings, close and clientClose *)

Registered(c) == \A r \in Registries : userClient[r] = c
Established(c) == owner = c /\ Registered(c)

SetPolicy(c) ==
  /\ pc[c] = "idle" /\ Established(c)
  /\ policy' = c
  /\ UNCHANGED << owner, aborted, closedItself, registryVars, clientVars, userVars >>

(* close called by the process ("idle") or by clientClose ("close")        *)
Close(c) ==
  /\ pc[c] \in {"idle", "close"}
  /\ owner' = ProviderClosedBy(c)
  /\ GoTo(c, "cleanup")
  /\ UNCHANGED << aborted, policy, closedItself, registryVars, mode, at, refs, userVars >>

Cleanup(c) ==
  /\ pc[c] = "cleanup"
  /\ policy' = Nobody
  /\ closedItself' = [closedItself EXCEPT ![c] = TRUE]
  /\ GoTo(c, IF mode[c] = "stop" THEN "terminate" ELSE "idle")
  /\ UNCHANGED << owner, aborted, registryVars, mode, at, refs, userVars >>

(* clientClose: the process has ended or given the connection back.        *)
ClientClose(c) ==
  /\ pc[c] = "idle"
  /\ mode' = [mode EXCEPT ![c] = "stop"]
  /\ IF closedItself[c]
     THEN GoTo(c, "terminate") /\ UNCHANGED owner
     ELSE GoTo(c, "abort") /\ owner' = ProviderClosedBy(c)
  /\ UNCHANGED << aborted, policy, closedItself, registryVars, at, refs, userVars >>

MarkAborted(c) ==
  /\ pc[c] = "abort"
  /\ aborted' = TRUE
  /\ GoTo(c, "close")
  /\ UNCHANGED << owner, policy, closedItself, registryVars, mode, at, refs, userVars >>

Terminate(c) ==
  /\ pc[c] = "terminate"
  /\ owner' = ProviderClosedBy(c)
  /\ at' = [at EXCEPT ![c] = 1]
  /\ GoTo(c, "unregister")
  /\ UNCHANGED << aborted, policy, closedItself, registryVars, mode, refs, userVars >>

----------------------------------------------------------------------------
(* shadowNotification, logData, getUserClient and releaseUserClient *)

UserGoTo(u, label) == pcU' = [pcU EXCEPT ![u] = label]
Count(u, n) == invocations' = [invocations EXCEPT ![reg[u]] = n]

Notify(u) ==
  /\ pcU[u] = "idle"
  /\ \E r \in Registries :
       /\ userClient[r] # Nobody
       /\ reg' = [reg EXCEPT ![u] = r]
  /\ UserGoTo(u, "pending")
  /\ UNCHANGED << providerVars, registryVars, clientVars, got >>

GiveUp(u) ==
  /\ pcU[u] = "pending" /\ pending[reg[u]]
  /\ UserGoTo(u, "idle")
  /\ UNCHANGED << providerVars, registryVars, clientVars, reg, got >>

GoOn(u) ==
  /\ pcU[u] = "pending" /\ ~pending[reg[u]]
  /\ UserGoTo(u, "increment")
  /\ UNCHANGED << providerVars, registryVars, clientVars, reg, got >>

Uncounted(u) ==
  /\ pcU[u] = "increment"
  /\ UserGoTo(u, "read")
  /\ UNCHANGED << providerVars, registryVars, clientVars, reg, got >>
Increment(u) ==
  /\ pcU[u] = "increment"
  /\ Count(u, invocations[reg[u]] + 1)
  /\ UserGoTo(u, "read")
  /\ UNCHANGED << providerVars, userClient, pending, clientVars, reg, got >>

ReadClient(u) ==
  /\ pcU[u] = "read"
  /\ got' = [got EXCEPT ![u] = userClient[reg[u]]]
  /\ UserGoTo(u, IF userClient[reg[u]] = Nobody THEN "abandon" ELSE "verify")
  /\ UNCHANGED << providerVars, registryVars, clientVars, reg >>

(* The two exchanges behind the read; when the client is gone at the       *)
(* second one it might as well have been gone at the first one.            *)
Verify(u) ==
  /\ pcU[u] = "verify"
  /\ UserGoTo(u, IF userClient[reg[u]] = got[u] THEN "call" ELSE "abandon")
  /\ UNCHANGED << providerVars, registryVars, clientVars, reg, got >>

AbandonCounted(u) ==
  /\ pcU[u] = "abandon"
  /\ got' = [got EXCEPT ![u] = Nobody]
  /\ UserGoTo(u, "idle")
  /\ UNCHANGED << providerVars, registryVars, clientVars, reg >>
Abandon(u) ==
  /\ pcU[u] = "abandon"
  /\ Count(u, invocations[reg[u]] - 1)
  /\ got' = [got EXCEPT ![u] = Nobody]
  /\ UserGoTo(u, "idle")
  /\ UNCHANGED << providerVars, userClient, pending, clientVars, reg >>

(* The notification is sent, at most maxAttemptsToResendBuffer times.      *)
Return(u) ==
  /\ pcU[u] = "call"
  /\ Count(u, invocations[reg[u]] - 1)
  /\ got' = [got EXCEPT ![u] = Nobody]
  /\ UserGoTo(u, "idle")
  /\ UNCHANGED << providerVars, userClient, pending, clientVars, reg >>

----------------------------------------------------------------------------
Init ==
  /\ owner = Nobody /\ aborted = FALSE /\ policy = Nobody
  /\ closedItself = [c \in Clients |-> FALSE]
  /\ userClient = [r \in Registries |-> Nobody]
  /\ pending = [r \in Registries |-> FALSE]
  /\ invocations = [r \in Registries |-> 0]
  /\ pc = [c \in Clients |-> "idle"]
  /\ mode = [c \in Clients |-> "run"]
  /\ at = [c \in Clients |-> 1]
  /\ refs = [c \in Clients |-> 0]
  /\ pcU = [u \in Users |-> "idle"]
  /\ reg = [u \in Users |-> RegisterOrder[1]]
  /\ got = [u \in Users |-> Nobody]

(* The steps a client's thread makes inside of a call.                     *)
ClientWorks(c) ==
  \/ Trust(c) \/ LookForPending(c) \/ SwapIn(c) \/ Retain(c)
  \/ NotRegistered(c) \/ SetPending(c) \/ SwapOut(c) \/ WaitForInvocations(c)
  \/ Release(c) \/ MarkAborted(c) \/ Cleanup(c) \/ Terminate(c)
  \/ (pc[c] = "close" /\ Close(c))

ClientCalls(c) ==
  \/ OpenProvider(c) \/ SetPolicy(c) \/ ClientClose(c)
  \/ (pc[c] = "idle" /\ Close(c))

UserWorks(u) ==
  \/ GiveUp(u) \/ GoOn(u) \/ Increment(u) \/ ReadClient(u) \/ Verify(u)
  \/ Abandon(u) \/ Return(u)

Next ==
  \/ \E c \in Clients : ClientCalls(c) \/ ClientWorks(c)
  \/ \E u \in Users : Notify(u) \/ UserWorks(u)

Spec == Init /\ [][Next]_vars

(* A call, once made, runs on: kernel threads, and msleep has a timeout.   *)
(* Nothing makes a process call or a thread send a notification.           *)
FairSpec ==
  /\ Spec
  /\ \A c \in Clients : WF_vars(ClientWorks(c))
  /\ \A u \in Users : WF_vars(UserWorks(u))

----------------------------------------------------------------------------
(* Properties *)

ClientPlaces == {"idle", "trust", "register", "swapIn", "retain", "unregister",
                 "swapOut", "wait", "release", "close", "cleanup", "abort",
                 "terminate", "gone"}
UserPlaces == {"idle", "pending", "increment", "read", "verify", "abandon", "call"}

(* Every variable has its type.                                            *)
TypeOK ==
  /\ owner \in Clients \cup {Nobody} /\ policy \in Clients \cup {Nobody}
  /\ aborted \in BOOLEAN /\ closedItself \in [Clients -> BOOLEAN]
  /\ userClient \in [Registries -> Clients \cup {Nobody}]
  /\ pending \in [Registries -> BOOLEAN]
  /\ invocations \in [Registries -> Nat]
  /\ pc \in [Clients -> ClientPlaces]
  /\ mode \in [Clients -> {"run", "undo", "stop"}]
  /\ at \in [Clients -> Nat \ {0}]
  /\ refs \in [Clients -> Int]
  /\ pcU \in [Users -> UserPlaces]
  /\ reg \in [Users -> Registries]
  /\ got \in [Users -> Clients \cup {Nobody}]

(* A client that a thread is calling has not been unregistered yet, so     *)
(* that its data queues are still there (DldIOUserClient::free).           *)
ClientAlive ==
  \A u \in Users : pcU[u] = "call" => got[u] \in Clients /\ pc[got[u]] # "gone"

(* All registries that have a client have the same one: a new service is   *)
(* in no registry before the old one has left all of them.                 *)
NoMixedClients ==
  \A q, r \in Registries :
    userClient[q] # Nobody /\ userClient[r] # Nobody => userClient[q] = userClient[r]

(* When clientClose returns the client is in no registry and none has a    *)
(* reference on it, whatever way its opens and closes went before.         *)
NothingLeftBehind ==
  \A c \in Clients : pc[c] = "gone" =>
    /\ refs[c] = 0 /\ owner # c
    /\ \A r \in Registries : userClient[r] # c

(* Each registry implements ClientLease: it grants a client until the wait *)
(* of unregisterUserClient is over.                                        *)
GrantedAt(r) ==
  {c \in Clients : userClient[r] = c \/ (pc[c] = "wait" /\ Leaving(c) = r)}
UsingAt(r) ==
  [u \in Users |-> IF pcU[u] = "call" /\ reg[u] = r THEN got[u] ELSE Nobody]
Lease(r) == INSTANCE ClientLease WITH granted <- GrantedAt(r), using <- UsingAt(r)
Leases ==
  /\ \A r \in Registries : Lease(r)!Init
  /\ [][\A r \in Registries : Lease(r)!Next \/ UNCHANGED Lease(r)!vars]_vars

(* A client that unregisters gets through.                                 *)
UnregisterReturns == \A c \in Clients : pc[c] = "wait" ~> pc[c] # "wait"

(* open: "only one user client allowed", and it "has taken the security    *)
(* responsibility": while its session stands, no other client changes what *)
(* the driver believes of its end or removes what it has set.              *)
InSession(c) == Established(c) /\ pc[c] = "idle"
SessionUndisturbed ==
  [][\A c \in Clients : InSession(c) /\ InSession(c)' =>
       aborted' = aborted /\ policy' \in {policy, c}]_vars
=============================================================================
