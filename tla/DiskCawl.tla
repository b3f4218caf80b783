------------------------------ MODULE DiskCawl ------------------------------
(***************************************************************************)
(* The question to the service whether a covered file may be accessed      *)
(* (DldDiskCAWL::diskCawlNotification), its answer (processServiceResponse)*)
(* and what the vnode gate makes of it.  The thread that asks puts a frame *)
(* of its stack on the waiting list of the vnode, sends the notification,  *)
(* and waits for two minutes at most; the answer may come before it waits, *)
(* late, or never.                                                         *)
(*                                                                         *)
(* The files are one: what the list of a vnode and the vnode's ID tell     *)
(* apart, the ID of the notification tells apart too.  How the client is   *)
(* borrowed is in UserClients step by step, here it is one step.           *)
(***************************************************************************)
EXTENDS Integers

CONSTANTS
  Threads,
  MaxID     (* bound: how many notifications are made                      *)

ASSUME CawlAssumption == MaxID \in Nat

VARIABLES
  strict,           (* securitySettings.disableAccessOnCawlError           *)
  client,           (* "none", "registered" or "leaving"                   *)
  IdGenerator,
  pc, op, error,    (* of a thread: its place, opCode and error            *)
  notificationID, responseReceived, disableAccess, (* of its notifyDataInt *)
  cawlWaitList,     (* the threads whose notifyDataInt is on the list      *)
  inbox,            (* notifications the service has not answered          *)
  said,             (* history: the service's answer to a notification     *)
  verdict           (* of a thread: what the gate has decided              *)

frameVars   == << notificationID, responseReceived, disableAccess >>
serviceVars == << inbox, said >>
cawlVars == << strict, client, IdGenerator, pc, op, error, frameVars,
           cawlWaitList, serviceVars, verdict >>

IDs == 0 .. MaxID - 1
Outside == {"idle", "decided"}
Inside(t) == pc[t] \notin Outside

CawlInit ==
  /\ strict \in BOOLEAN
  /\ client = "none" /\ IdGenerator = 0
  /\ pc = [t \in Threads |-> "idle"] /\ op = [t \in Threads |-> "access"]
  /\ error = [t \in Threads |-> FALSE]
  /\ notificationID = [t \in Threads |-> 0]
  /\ responseReceived = [t \in Threads |-> FALSE]
  /\ disableAccess = [t \in Threads |-> FALSE]
  /\ cawlWaitList = {} /\ inbox = {}
  /\ said = [i \in IDs |-> "nothing"]
  /\ verdict = [t \in Threads |-> "allow"]

GoTo(t, label) == pc' = [pc EXCEPT ![t] = label]

----------------------------------------------------------------------------
(* The client                                                              *)

Register ==
  /\ client = "none" /\ client' = "registered"
  /\ UNCHANGED << strict, IdGenerator, pc, op, error, frameVars, cawlWaitList,
                  serviceVars, verdict >>

Unregister ==
  /\ client = "registered" /\ client' = "leaving"
  /\ UNCHANGED << strict, IdGenerator, pc, op, error, frameVars, cawlWaitList,
                  serviceVars, verdict >>

(* clientInvocations has come down to zero; the queue goes with the client.*)
Unregistered ==
  /\ client = "leaving" /\ \A t \in Threads : ~Inside(t)
  /\ client' = "none" /\ inbox' = {}
  /\ UNCHANGED << strict, IdGenerator, pc, op, error, frameVars, cawlWaitList,
                  said, verdict >>

----------------------------------------------------------------------------
(* The thread that asks                                                    *)

(* Nobody to ask: the access is not denied.                                *)
BeginUnasked(t) ==
  /\ ~Inside(t) /\ client # "registered"
  /\ GoTo(t, "decided") /\ verdict' = [verdict EXCEPT ![t] = "allow"]
  /\ UNCHANGED << strict, client, IdGenerator, op, error, frameVars,
                  cawlWaitList, serviceVars >>

Begin(t) ==
  /\ ~Inside(t) /\ client = "registered" /\ IdGenerator < MaxID
  /\ GoTo(t, "begun")
  /\ \E opCode \in {"access", "write"} : op' = [op EXCEPT ![t] = opCode]
  /\ IdGenerator' = IdGenerator + 1
  /\ notificationID' = [notificationID EXCEPT ![t] = IdGenerator]
  /\ responseReceived' = [responseReceived EXCEPT ![t] = FALSE]
  /\ disableAccess' = [disableAccess EXCEPT ![t] = FALSE]
  /\ error' = [error EXCEPT ![t] = FALSE]
  /\ UNCHANGED << strict, client, cawlWaitList, serviceVars, verdict >>

(* The service itself, or a medium whose driver is not yet started.        *)
Skip(t) ==
  /\ pc[t] = "begun"
  /\ GoTo(t, "decided") /\ verdict' = [verdict EXCEPT ![t] = "allow"]
  /\ UNCHANGED << strict, client, IdGenerator, op, error, frameVars,
                  cawlWaitList, serviceVars >>

Insert(t) ==
  /\ pc[t] = "begun"
  /\ GoTo(t, "listed") /\ cawlWaitList' = cawlWaitList \cup {t}
  /\ UNCHANGED << strict, client, IdGenerator, op, error, frameVars,
                  serviceVars, verdict >>

AfterSend(t) == IF op[t] = "access" THEN "look" ELSE "remove"

(* Into the queue, or nowhere and a success if the service has no port.    *)
Send(t) ==
  /\ pc[t] = "listed"
  /\ \/ inbox' = inbox \cup {notificationID[t]}
     \/ UNCHANGED inbox
  /\ GoTo(t, AfterSend(t))
  /\ UNCHANGED << strict, client, IdGenerator, op, error, frameVars,
                  cawlWaitList, said, verdict >>

(* The queue is full.                                                      *)
SendFailed(t) ==
  /\ pc[t] = "listed"
  /\ error' = [error EXCEPT ![t] = TRUE]
  /\ GoTo(t, "remove")
  /\ UNCHANGED << strict, client, IdGenerator, op, frameVars, cawlWaitList,
                  serviceVars, verdict >>

WaitAnyway(t) ==
  /\ pc[t] = "look" /\ GoTo(t, "waiting")
  /\ UNCHANGED << strict, client, IdGenerator, op, error, frameVars,
                  cawlWaitList, serviceVars, verdict >>

(* assert_wait_timeout, under the vnode's spin lock.                       *)
LookAndWait(t) ==
  /\ pc[t] = "look"
  /\ GoTo(t, IF responseReceived[t] THEN "remove" ELSE "waiting")
  /\ UNCHANGED << strict, client, IdGenerator, op, error, frameVars,
                  cawlWaitList, serviceVars, verdict >>

Timeout(t) ==
  /\ pc[t] = "waiting" /\ GoTo(t, "remove")
  /\ error' = [error EXCEPT ![t] = TRUE]
  /\ UNCHANGED << strict, client, IdGenerator, op, frameVars, cawlWaitList,
                  serviceVars, verdict >>

Remove(t) ==
  /\ pc[t] = "remove" /\ GoTo(t, "decide")
  /\ cawlWaitList' = cawlWaitList \ {t}
  /\ UNCHANGED << strict, client, IdGenerator, op, error, frameVars,
                  serviceVars, verdict >>

(* An error decides over an answer; the gate then consults the settings.   *)
Verdict(t) ==
  IF (IF error[t] THEN strict ELSE disableAccess[t]) THEN "deny" ELSE "allow"

Decide(t) ==
  /\ pc[t] = "decide" /\ GoTo(t, "decided")
  /\ verdict' = [verdict EXCEPT ![t] = IF op[t] = "access" THEN Verdict(t) ELSE "allow"]
  /\ UNCHANGED << strict, client, IdGenerator, op, error, frameVars,
                  cawlWaitList, serviceVars >>

----------------------------------------------------------------------------
(* The service                                                             *)

AddressedAll(i) == cawlWaitList
Addressed(i) == {t \in cawlWaitList : notificationID[t] = i}

(* processServiceResponse, under the vnode's spin lock.                    *)
Answer(i, denied) ==
  /\ client # "none" /\ i \in inbox
  /\ inbox' = inbox \ {i}
  /\ said' = [said EXCEPT ![i] = IF denied THEN "deny" ELSE "allow"]
  /\ responseReceived' = [t \in Threads |-> t \in Addressed(i) \/ responseReceived[t]]
  /\ disableAccess' = [t \in Threads |-> IF t \in Addressed(i) THEN denied ELSE disableAccess[t]]
  /\ pc' = [t \in Threads |->
             IF t \in Addressed(i) /\ pc[t] = "waiting" THEN "remove" ELSE pc[t]]
  /\ UNCHANGED << strict, client, IdGenerator, op, error, notificationID,
                  cawlWaitList, verdict >>

CawlNext ==
  \/ Register \/ Unregister \/ Unregistered
  \/ \E i \in IDs, denied \in BOOLEAN : Answer(i, denied)
  \/ \E t \in Threads :
       \/ BeginUnasked(t) \/ Begin(t) \/ Skip(t) \/ Insert(t) \/ Send(t)
       \/ SendFailed(t) \/ LookAndWait(t) \/ Timeout(t) \/ Remove(t) \/ Decide(t)

CawlSpec == CawlInit /\ [][CawlNext]_cawlVars

----------------------------------------------------------------------------
(* Nobody sleeps until the timeout over an answer that has been given.     *)
AwakeWhenAnswered == \A t \in Threads : pc[t] = "waiting" => ~responseReceived[t]

(* The list has only frames of threads that are still in the function.     *)
FramesAlive == \A t \in cawlWaitList : Inside(t)

(* Who has waited without an error leaves with the answer to his own       *)
(* question, never with none and never with that to another.               *)
OwnAnswer ==
  \A t \in Threads :
    pc[t] = "decide" /\ op[t] = "access" /\ ~error[t] => said[notificationID[t]] = Verdict(t)

(* The answer of the service reaches the thread that has asked, however it *)
(* falls between the sending, the wait, the timeout and the next question. *)
AnswersReach == AwakeWhenAnswered /\ FramesAlive /\ OwnAnswer
=============================================================================
