---------------------------- MODULE DataBuffers ----------------------------
(***************************************************************************)
(* The list of the free data buffers of the socket filter: freeBuffers is  *)
(* an array that links each free buffer to the next, freeBuffersHead the   *)
(* index of the first, and both ends work without a lock, by compare and   *)
(* swap of the head.  A swap is one step, and so is each access of an      *)
(* element of the array.                                                   *)
(***************************************************************************)
EXTENDS Integers

CONSTANTS
  Threads,
  NumBuffers, (* kt_DldSocketBuffersNumber                                 *)
  NoBuffer    (* UINT8_MAX                                                 *)

Buffers == 0 .. NumBuffers - 1

VARIABLES
  head,   (* freeBuffersHead                                               *)
  next,   (* freeBuffers                                                   *)
  owned,  (* the buffers a thread has acquired                             *)
  pc, index, link (* of a thread: its place, freeIndex or index, and the   *)
                  (* element of the array it has read                      *)

vars == << head, next, owned, pc, index, link >>

GoTo(t, place) == pc' = [pc EXCEPT ![t] = place]

(* withDefault puts the buffers into the list one after the other.         *)
Init ==
  /\ head = NumBuffers - 1
  /\ next = [b \in Buffers |-> IF b = 0 THEN NoBuffer ELSE b - 1]
  /\ owned = [t \in Threads |-> {}]
  /\ pc = [t \in Threads |-> "idle"]
  /\ index = [t \in Threads |-> NoBuffer] /\ link = [t \in Threads |-> NoBuffer]

(* acquireSocketDataBufferForIO; without a free buffer there is none.      *)
ReadHead(t) ==
  /\ pc[t] \in {"idle", "again"}
  /\ index' = [index EXCEPT ![t] = head]
  /\ GoTo(t, IF head = NoBuffer THEN "idle" ELSE "link")
  /\ UNCHANGED << head, next, owned, link >>

ReadLink(t) ==
  /\ pc[t] = "link"
  /\ link' = [link EXCEPT ![t] = next[index[t]]]
  /\ GoTo(t, "take")
  /\ UNCHANGED << head, next, owned, index >>

Take(t) ==
  /\ pc[t] = "take"
  /\ IF head = index[t]
     THEN head' = link[t] /\ GoTo(t, "mark")
     ELSE UNCHANGED head /\ GoTo(t, "again")
  /\ UNCHANGED << next, owned, index, link >>

Mark(t) ==
  /\ pc[t] = "mark"
  /\ next' = [next EXCEPT ![index[t]] = NoBuffer]
  /\ owned' = [owned EXCEPT ![t] = @ \cup {index[t]}]
  /\ GoTo(t, "idle")
  /\ UNCHANGED << head, index, link >>

(* releaseSocketDataBufferFromIO, of a buffer that looks acquired; the     *)
(* element the swap compares with is the one just written.                 *)
BeginRelease(t) ==
  /\ pc[t] = "idle"
  /\ \E b \in owned[t] :
       /\ owned' = [owned EXCEPT ![t] = @ \ {b}]
       /\ index' = [index EXCEPT ![t] = b]
       /\ GoTo(t, IF next[b] = NoBuffer THEN "write" ELSE "idle")
  /\ UNCHANGED << head, next, link >>

WriteLink(t) ==
  /\ pc[t] = "write"
  /\ next' = [next EXCEPT ![index[t]] = head]
  /\ GoTo(t, "put")
  /\ UNCHANGED << head, owned, index, link >>

Put(t) ==
  /\ pc[t] = "put"
  /\ IF head = next[index[t]]
     THEN head' = index[t] /\ GoTo(t, "idle")
     ELSE UNCHANGED head /\ GoTo(t, "write")
  /\ UNCHANGED << next, owned, index, link >>

Next ==
  \E t \in Threads : ReadHead(t) \/ ReadLink(t) \/ Take(t) \/ Mark(t)
                       \/ BeginRelease(t) \/ WriteLink(t) \/ Put(t)

Spec == Init /\ [][Next]_vars

----------------------------------------------------------------------------
(* ``We do not suffer from ABA problem here as an array is used'': a       *)
(* buffer one thread has acquired is in no other thread's hands (the       *)
(* assertion on acquireForIO).                                             *)
OneOwner ==
  \A t, u \in Threads : t # u => owned[t] \cap owned[u] = {}
=============================================================================
