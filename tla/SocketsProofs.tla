--------------------------- MODULE SocketsProofs ---------------------------
(***************************************************************************)
(* The data path of a socket keeps its promises for any number of threads, *)
(* packets and buffers: no packet and no sender is forgotten, packets are  *)
(* injected in order, and nothing is pending after the detachment.  The    *)
(* argument is about who has a packet: it is on its way into the queue, in *)
(* the queue, or in the batch of the thread with the mutex, and is counted *)
(* until it leaves.                                                        *)
(***************************************************************************)
EXTENDS Sockets, FiniteSetTheorems, SequenceTheorems, WellFoundedInduction,
        NaturalsInduction, TLAPS

Places ==
  {"idle", "copy", "enqueue", "notify", "release", "wait", "deliver", "locksocket", "report",
   "reinsert", "failed", "collect", "inject", "answer", "purge", "completion"}

Types ==
  /\ TypeOK
  /\ made \in 0 .. MaxPackets
  /\ q \in Seq(Packets) /\ entered \in Seq(Packets) /\ injected \in Seq(Packets)
  /\ batch \in [Threads -> Seq(Packets)]
  /\ outer \in [Threads -> Seq({"reinsert", "failed", "deliver"})]
  /\ pc \in [Threads -> Places]
  /\ release \in [Threads -> BOOLEAN] /\ failed \in [Threads -> BOOLEAN]
  /\ listed \in BOOLEAN /\ shrunk \in BOOLEAN /\ only \subseteq Directions
  /\ mutex \in Threads \cup {NoThread}
  /\ \A m \in inbox : m.pkt \in 0 .. made /\ m.buffer \in Buffers \cup {NoBuffer}
  /\ \A t \in Threads : cur[t] <= made

(* The threads with a packet that has not entered the queue, and the       *)
(* packets that are counted.                                               *)
Arriving == {t \in Threads : pc[t] \in {"copy", "enqueue"}}
InBatch == UNION {Range(batch[t]) : t \in Threads}
Underway == Range(q) \cup InBatch \cup {cur[t] : t \in Arriving}

(* Only the thread with the mutex injects.                                 *)
OneInjects ==
  \A t \in Threads :
    /\ pc[t] = "inject" <=> mutex = t
    /\ batch[t] # << >> => mutex = t

(* Every packet enters the queue once, before it goes on.                  *)
EnteredOnce ==
  /\ Range(entered) \subseteq 1 .. made
  /\ Range(q) \subseteq Range(entered) /\ Range(injected) \subseteq Range(entered)
  /\ InBatch \subseteq Range(entered)
  /\ \A t \in Arriving : cur[t] \in (1 .. made) \ Range(entered)
  /\ \A t, u \in Arriving : cur[t] = cur[u] => t = u

(* p comes before r in s.                                                  *)
Precedes(s, p, r) == \E k, l \in DOMAIN s : k < l /\ s[k] = p /\ s[l] = r
FirstEntered(p, r) == dir[p] = dir[r] => Precedes(entered, p, r)

(* The queue and the batches are in the order of the arrivals.  Of one     *)
(* direction what was injected came before what is in a batch, and that    *)
(* before what is in the queue.                                            *)
Ordered ==
  /\ \A p : ~Precedes(entered, p, p)
  /\ \A p, r : Precedes(q, p, r) => Precedes(entered, p, r)
  /\ \A t \in Threads : \A p, r : Precedes(batch[t], p, r) => Precedes(entered, p, r)
  /\ \A p, r : Precedes(injected, p, r) => FirstEntered(p, r)
  /\ \A p \in InBatch, r \in Range(q) : FirstEntered(p, r)
  /\ \A p \in Range(injected), r \in Range(q) \cup InBatch : FirstEntered(p, r)

Allowed == allow \subseteq answered /\ Range(injected) \subseteq allow

Counted ==
  /\ \A d \in Directions : pending[d] = Cardinality({p \in Underway : dir[p] = d})
  /\ stage = "detached" => \A d \in Directions : pending[d] = 0

(* What waits to be reported.                                              *)
Unforgotten ==
  /\ waiting = Cardinality(unreported) /\ unreported \subseteq Range(q)
  /\ \A p, r : Precedes(q, p, r) /\ p \in unreported => r \in unreported
  /\ unreported # {} => listed \/ stage # "attached" \/ \E t \in Threads : Delivering(t)
  /\ \A p \in Packets : waiter[p] # NoThread => p \in unreported

Throttled ==
  /\ WindowReopens
  /\ pc[closer] = "purge" => "closing" \in events \/ stage # "attached"

IInv ==
  /\ Types /\ OneInjects /\ EnteredOnce /\ Ordered /\ Allowed /\ Counted /\ Unforgotten
  /\ Throttled

----------------------------------------------------------------------------
(* Sequences *)

(* A set of numbers has a least one.                                       *)
LEMMA SmallestOf ==
  ASSUME NEW X, X \subseteq Nat, X # {}
  PROVE  \E n \in X : \A l \in X : n <= l
  <1> DEFINE R == {p \in Nat \X Nat : p[1] < p[2]}
  <1>1. IsWellFoundedOn(R, Nat)
    BY NatLessThanWellFounded DEF OpToRel
  <1>2. \A a, b \in Nat : a < b => << a, b >> \in R
    OBVIOUS
  <1> HIDE DEF R
  <1>3. PICK n \in X : \A l \in X : << l, n >> \notin R
    BY <1>1, WFMin
  <1>4. ASSUME NEW l \in X PROVE n <= l
    <2>1. l \in Nat /\ n \in Nat /\ ~(l < n)
      BY <1>2, <1>3
    <2> QED
      BY <2>1
  <1> QED
    BY <1>4


(* The members of S in s at their places.                                  *)
LEMMA KeptOf ==
  ASSUME NEW X, NEW s \in Seq(X), NEW S
  PROVE  /\ Kept(s, S) \in Seq(X) /\ Range(Kept(s, S)) = Range(s) \cap S
         /\ \A p, r : Precedes(Kept(s, S), p, r) => Precedes(s, p, r)
  <1> DEFINE at == {i \in DOMAIN s : s[i] \in S}
             upto(i) == {j \in at : j <= i}
             place(n) == CHOOSE i \in at : Cardinality(upto(i)) = n
             u == Kept(s, S)
  <1>1. /\ Len(s) \in Nat /\ DOMAIN s = 1 .. Len(s) /\ at \subseteq 1 .. Len(s)
        /\ \A i \in DOMAIN s : s[i] \in X
    OBVIOUS
  <1>2. IsFiniteSet(at) /\ Cardinality(at) \in Nat
    <2>1. IsFiniteSet(1 .. Len(s))
      BY <1>1, FS_Interval
    <2> HIDE DEF at
    <2> QED
      BY <1>1, <2>1, FS_Subset, FS_CardinalityType
  <1>3. \A i : upto(i) \subseteq at /\ IsFiniteSet(upto(i)) /\ Cardinality(upto(i)) \in Nat
                             /\ Cardinality(upto(i)) <= Cardinality(at)
    BY <1>2, FS_Subset, FS_CardinalityType
  <1>4. ASSUME NEW i \in at, NEW k \in at, i < k
        PROVE  Cardinality(upto(i)) < Cardinality(upto(k))
    <2>1. upto(i) \subseteq upto(k) /\ k \in upto(k) /\ k \notin upto(i)
      BY <1>1, <1>4
    <2>2. upto(i) \in SUBSET upto(k) /\ upto(i) # upto(k)
      BY <2>1
    <2> HIDE DEF at, upto
    <2>3. Cardinality(upto(i)) <= Cardinality(upto(k)) /\ Cardinality(upto(i)) # Cardinality(upto(k))
      BY <1>3, <2>2, FS_Subset
    <2> QED
      BY <1>3, <2>3
  <1>5. ASSUME NEW n \in 1 .. Cardinality(at)
        PROVE  \E i \in at : Cardinality(upto(i)) = n
    <2> DEFINE M == {k \in 0 .. Len(s) : Cardinality(upto(k)) >= n}
    <2>1. upto(Len(s)) = at /\ upto(0) = {}
      BY <1>1
    <2>2. Len(s) \in M /\ 0 \notin M
      <3>1. Cardinality(at) >= n /\ Cardinality({}) = 0 /\ ~(0 >= n)
        BY <1>2, FS_EmptySet
      <3>2. Cardinality(upto(Len(s))) >= n /\ ~(Cardinality(upto(0)) >= n)
        BY <2>1, <3>1, Zenon
      <3>3. Len(s) \in 0 .. Len(s)
        BY <1>1
      <3> HIDE DEF at, upto
      <3> QED
        BY <3>2, <3>3
    <2>3. M \subseteq Nat
      OBVIOUS
    <2> HIDE DEF M
    <2>4. PICK m \in M : \A l \in M : m <= l
      BY <2>2, <2>3, SmallestOf
    <2>5. m \in 1 .. Len(s) /\ m - 1 \notin M /\ m - 1 \in 0 .. Len(s)
      <3>1. m \in 0 .. Len(s) /\ m # 0
        BY <2>2, <2>4 DEF M
      <3>2. m \in 1 .. Len(s) /\ m - 1 \in 0 .. Len(s) /\ ~(m <= m - 1)
        BY <1>1, <3>1
      <3> QED
        BY <2>4, <3>2
    <2>6. Cardinality(upto(m)) >= n /\ ~(Cardinality(upto(m - 1)) >= n)
      <3> HIDE DEF upto, at
      <3> QED
        BY <2>4, <2>5 DEF M
    <2>7. Cardinality(upto(m)) \in Nat /\ Cardinality(upto(m - 1)) \in Nat /\ n \in Nat
      <3> HIDE DEF upto, at
      <3> QED
        BY <1>2, <1>3
    <2>8. CASE m \in at
      <3>1. upto(m) = upto(m - 1) \cup {m} /\ m \notin upto(m - 1)
        BY <1>1, <2>5, <2>8
      <3>2. Cardinality(upto(m)) = Cardinality(upto(m - 1)) + 1
        <4> HIDE DEF at, upto
        <4> QED
          BY <1>3, <3>1, FS_AddElement
      <3>3. Cardinality(upto(m)) = n
        <4> HIDE DEF at, upto
        <4> QED
          BY <2>6, <2>7, <3>2
      <3> QED
        BY <2>8, <3>3
    <2>9. CASE m \notin at
      <3>1. upto(m) = upto(m - 1)
        BY <1>1, <2>5, <2>9
      <3>2. Cardinality(upto(m)) = Cardinality(upto(m - 1))
        BY <3>1
      <3> HIDE DEF at, upto
      <3> QED
        BY <2>6, <2>7, <3>2
    <2> QED
      BY <2>8, <2>9
  <1>6. ASSUME NEW n \in 1 .. Cardinality(at)
        PROVE  place(n) \in at /\ Cardinality(upto(place(n))) = n
    BY <1>5
  <1>7. /\ DOMAIN u = 1 .. Cardinality(at)
        /\ \A n \in 1 .. Cardinality(at) : u[n] = s[place(n)]
    BY DEF Kept
  <1>8. u = [n \in 1 .. Cardinality(at) |-> s[place(n)]]
    BY DEF Kept
  <1> HIDE DEF upto, place, u
  <1>9. \A n \in 1 .. Cardinality(at) : s[place(n)] \in X
    BY <1>1, <1>6
  <1>10. u \in Seq(X)
    BY <1>2, <1>8, <1>9
  <1>11. Range(u) = Range(s) \cap S
    <2>1. ASSUME NEW i \in at PROVE s[i] \in Range(u)
      <3> DEFINE n == Cardinality(upto(i))
      <3>1. i \in upto(i)
        BY <1>1 DEF upto
      <3>2. n \in 1 .. Cardinality(at)
        <4>1. n # 0
          BY <1>3, <3>1, FS_EmptySet
        <4> QED
          BY <1>2, <1>3, <4>1
      <3>3. place(n) = i
        <4>1. place(n) \in at /\ Cardinality(upto(place(n))) = n
          BY <1>6, <3>2
        <4>2. n \in Nat /\ ~(n < n)
          BY <1>2, <3>2
        <4>3. ~(place(n) < i) /\ ~(i < place(n))
          BY <1>4, <4>1, <4>2
        <4> QED
          BY <1>1, <4>1, <4>3
      <3> QED
        BY <1>7, <3>2, <3>3 DEF Range
    <2>2. ASSUME NEW n \in DOMAIN u PROVE u[n] \in Range(s) \cap S
      BY <1>6, <1>7 DEF Range
    <2> QED
      BY <2>1, <2>2 DEF Range
  <1>12. ASSUME NEW p, NEW r, Precedes(u, p, r) PROVE Precedes(s, p, r)
    <2>1. PICK k, l \in DOMAIN u : k < l /\ u[k] = p /\ u[l] = r
      BY <1>12 DEF Precedes
    <2>2. /\ place(k) \in at /\ Cardinality(upto(place(k))) = k
          /\ place(l) \in at /\ Cardinality(upto(place(l))) = l
      BY <1>6, <1>7, <2>1
    <2>3. k \in Nat /\ l \in Nat
      BY <1>7
    <2>4. ~(place(l) < place(k)) /\ place(l) # place(k)
      BY <1>4, <2>1, <2>2, <2>3
    <2>5. place(k) < place(l)
      BY <1>1, <2>2, <2>4
    <2> QED
      BY <1>7, <2>1, <2>2, <2>5 DEF Precedes
  <1> QED
    BY <1>10, <1>11, <1>12 DEF u

(* One more at the end, and one less at the front.                         *)
LEMMA AppendOf ==
  ASSUME NEW X, NEW s \in Seq(X), NEW e \in X
  PROVE  /\ Append(s, e) \in Seq(X) /\ Range(Append(s, e)) = Range(s) \cup {e}
         /\ \A p, r : Precedes(Append(s, e), p, r) <=>
                       Precedes(s, p, r) \/ (p \in Range(s) /\ r = e)
  <1> SUFFICES ASSUME NEW u, u = Append(s, e)
               PROVE  /\ u \in Seq(X) /\ Range(u) = Range(s) \cup {e}
                      /\ \A p, r : Precedes(u, p, r) <=>
                                    Precedes(s, p, r) \/ (p \in Range(s) /\ r = e)
    BY Zenon
  <1>1. /\ DOMAIN s = 1 .. Len(s) /\ Len(s) \in Nat /\ u \in Seq(X)
        /\ DOMAIN u = 1 .. Len(s) + 1 /\ u[Len(s) + 1] = e
        /\ \A i \in 1 .. Len(s) : u[i] = s[i]
    OBVIOUS
  <1>2. Range(u) = Range(s) \cup {e}
    <2>1. ASSUME NEW x \in Range(u) PROVE x \in Range(s) \cup {e}
      BY <1>1 DEF Range
    <2>2. ASSUME NEW i \in DOMAIN s PROVE s[i] \in Range(u)
      <3>1. i \in DOMAIN u /\ u[i] = s[i]
        BY <1>1
      <3> QED
        BY <3>1 DEF Range
    <2>3. e \in Range(u)
      <3>1. Len(s) + 1 \in DOMAIN u
        BY <1>1
      <3> QED
        BY <1>1, <3>1 DEF Range
    <2> QED
      BY <2>1, <2>2, <2>3 DEF Range
  <1>3. ASSUME NEW p, NEW r, Precedes(u, p, r)
        PROVE  Precedes(s, p, r) \/ (p \in Range(s) /\ r = e)
    <2>1. PICK k, l \in DOMAIN u : k < l /\ u[k] = p /\ u[l] = r
      BY <1>3 DEF Precedes
    <2>2. k \in DOMAIN s /\ s[k] = p
      BY <1>1, <2>1
    <2>3. CASE l \in DOMAIN s
      <3>1. s[l] = r
        BY <1>1, <2>1, <2>3
      <3> QED
        BY <2>1, <2>2, <2>3, <3>1 DEF Precedes
    <2>4. CASE l = Len(s) + 1
      BY <1>1, <2>1, <2>2, <2>4 DEF Range
    <2> QED
      BY <1>1, <2>3, <2>4
  <1>4. ASSUME NEW p, NEW r, Precedes(s, p, r) PROVE Precedes(u, p, r)
    <2>1. PICK k, l \in DOMAIN s : k < l /\ s[k] = p /\ s[l] = r
      BY <1>4 DEF Precedes
    <2>2. k \in DOMAIN u /\ l \in DOMAIN u /\ u[k] = p /\ u[l] = r
      BY <1>1, <2>1
    <2> QED
      BY <2>1, <2>2 DEF Precedes
  <1>5. ASSUME NEW p \in Range(s) PROVE Precedes(u, p, e)
    <2>1. PICK k \in DOMAIN s : s[k] = p
      BY <1>5 DEF Range
    <2>2. k \in DOMAIN u /\ u[k] = p /\ k < Len(s) + 1 /\ Len(s) + 1 \in DOMAIN u
      BY <1>1, <2>1
    <2> QED
      BY <1>1, <2>2 DEF Precedes
  <1> QED
    BY <1>1, <1>2, <1>3, <1>4, <1>5

LEMMA TailOf ==
  ASSUME NEW X, NEW s \in Seq(X), s # << >>
  PROVE  /\ Tail(s) \in Seq(X) /\ Head(s) \in X /\ Range(s) = Range(Tail(s)) \cup {Head(s)}
         /\ \A p, r : Precedes(Tail(s), p, r) => Precedes(s, p, r)
         /\ \A r \in Range(Tail(s)) : Precedes(s, Head(s), r)
  <1> SUFFICES ASSUME NEW u, u = Tail(s)
               PROVE  /\ u \in Seq(X) /\ Head(s) \in X /\ Range(s) = Range(u) \cup {Head(s)}
                      /\ \A p, r : Precedes(u, p, r) => Precedes(s, p, r)
                      /\ \A r \in Range(u) : Precedes(s, Head(s), r)
    BY Zenon
  <1>1. /\ DOMAIN s = 1 .. Len(s) /\ Len(s) \in Nat \ {0} /\ u \in Seq(X)
        /\ DOMAIN u = 1 .. Len(s) - 1 /\ Head(s) = s[1] /\ s[1] \in X
        /\ \A i \in 1 .. Len(s) - 1 : u[i] = s[i + 1]
    OBVIOUS
  <1>2. \A i \in DOMAIN u : i + 1 \in DOMAIN s /\ i + 1 > 1 /\ u[i] = s[i + 1]
    BY <1>1
  <1>3. 1 \in DOMAIN s
    BY <1>1
  <1>4. Range(s) = Range(u) \cup {s[1]}
    <2>1. ASSUME NEW j \in DOMAIN s, j # 1 PROVE s[j] \in Range(u)
      <3>1. j - 1 \in DOMAIN u /\ u[j - 1] = s[j]
        BY <1>1, <2>1
      <3> QED
        BY <3>1 DEF Range
    <2> QED
      BY <1>2, <1>3, <2>1 DEF Range
  <1>5. ASSUME NEW p, NEW r, Precedes(u, p, r) PROVE Precedes(s, p, r)
    <2>1. PICK k, l \in DOMAIN u : k < l /\ u[k] = p /\ u[l] = r
      BY <1>5 DEF Precedes
    <2>2. k + 1 < l + 1
      BY <1>1, <2>1
    <2> QED
      BY <1>2, <2>1, <2>2 DEF Precedes
  <1>6. ASSUME NEW r \in Range(u) PROVE Precedes(s, s[1], r)
    <2>1. PICK i \in DOMAIN u : u[i] = r
      BY <1>6 DEF Range
    <2>2. 1 < i + 1
      BY <1>2
    <2> QED
      BY <1>2, <1>3, <2>1, <2>2 DEF Precedes
  <1> QED
    BY <1>1, <1>4, <1>5, <1>6

LEMMA PrecedesIn ==
  ASSUME NEW s, NEW p, NEW r, Precedes(s, p, r) PROVE p \in Range(s) /\ r \in Range(s)
  BY DEF Precedes, Range

LEMMA EmptyOrder ==
  ASSUME NEW s, s = << >> PROVE Range(s) = {} /\ \A p, r : ~Precedes(s, p, r)
  BY DEF Precedes, Range

----------------------------------------------------------------------------
LEMMA InitIInv == ASSUME Init PROVE IInv
  <1> USE SocketsAssumption DEF Init
  <1>1. Range(<< >>) = {} /\ \A p, r : ~Precedes(<< >>, p, r)
    BY EmptyOrder
  <1>2. Cardinality({}) = 0
    BY FS_EmptySet
  <1>3. Types
    <2>1. /\ pc \in [Threads -> Places]
          /\ outer \in [Threads -> Seq({"reinsert", "failed", "deliver"})]
          /\ batch \in [Threads -> Seq(Packets)]
      BY DEF Places
    <2>2. TypeOK
      BY <1>1 DEF TypeOK, Packets, Directions, Threads
    <2>3. made \in 0 .. MaxPackets /\ \A t \in Threads : cur[t] <= made
      OBVIOUS
    <2>4. q \in Seq(Packets) /\ entered \in Seq(Packets) /\ injected \in Seq(Packets)
      OBVIOUS
    <2>5. /\ release \in [Threads -> BOOLEAN] /\ failed \in [Threads -> BOOLEAN]
          /\ listed \in BOOLEAN /\ shrunk \in BOOLEAN /\ only \subseteq Directions
          /\ mutex \in Threads \cup {NoThread} /\ inbox = {}
      OBVIOUS
    <2> QED
      BY <2>1, <2>2, <2>3, <2>4, <2>5, Zenon DEF Types
  <1>4. InBatch = {} /\ Arriving = {} /\ Underway = {}
    BY <1>1 DEF InBatch, Arriving, Underway
  <1>5. OneInjects /\ EnteredOnce /\ Allowed
    BY <1>1, <1>4 DEF OneInjects, EnteredOnce, Allowed, Arriving
  <1>6. Ordered
    <2>1. \A t \in Threads : batch[t] = << >>
      OBVIOUS
    <2> QED
      BY <1>1, <1>4, <2>1 DEF Ordered
  <1>7. Counted
    <2>1. \A d : {p \in Underway : dir[p] = d} = {}
      BY <1>4
    <2> QED
      BY <1>2, <2>1 DEF Counted
  <1>8. Unforgotten /\ Throttled
    <2>1. \A p \in Packets : waiter[p] = NoThread
      OBVIOUS
    <2>2. pc[closer] = "idle"
      BY DEF Threads
    <2> QED
      BY <1>1, <1>2, <2>1, <2>2 DEF Unforgotten, Throttled, WindowReopens
  <1> QED
    BY <1>3, <1>5, <1>6, <1>7, <1>8 DEF IInv

(* Steps that move no packet, and steps that report none.                  *)
SameFlow ==
  /\ q' = q /\ entered' = entered /\ injected' = injected /\ batch' = batch /\ dir' = dir
  /\ pending' = pending /\ mutex' = mutex /\ made' = made
  /\ \A t \in Threads :
       /\ pc[t] = "inject" <=> pc'[t] = "inject"
       /\ t \in Arriving <=> t \in Arriving'
       /\ t \in Arriving => cur'[t] = cur[t]

LEMMA FlowKept ==
  ASSUME IInv, SameFlow, Allowed', stage' = "detached" => \A d \in Directions : pending[d] = 0
  PROVE  OneInjects' /\ EnteredOnce' /\ Ordered' /\ Counted'
  <1> USE DEF SameFlow
  <1>1. InBatch' = InBatch
    BY DEF InBatch
  <1>2. Arriving' = Arriving /\ \A t \in Arriving : cur'[t] = cur[t] /\ t \in Threads
    BY DEF Arriving
  <1>3. Underway' = Underway
    <2>1. {cur[t] : t \in Arriving}' = {cur[t] : t \in Arriving}
      BY <1>2
    <2> QED
      BY <1>1, <2>1 DEF Underway
  <1>4. OneInjects' /\ EnteredOnce'
    BY <1>1, <1>2 DEF IInv, OneInjects, EnteredOnce
  <1>5. Ordered'
    BY <1>1 DEF IInv, Ordered, FirstEntered
  <1>6. Counted'
    BY <1>3 DEF IInv, Counted
  <1> QED
    BY <1>4, <1>5, <1>6

SameReports ==
  /\ q' = q /\ unreported' = unreported /\ waiting' = waiting /\ waiter' = waiter
  /\ shrunk' = shrunk /\ \A p \in unreported : dir'[p] = dir[p]
  /\ events \subseteq events' /\ (stage # "attached" => stage' # "attached")

Known == unreported # {} => listed \/ stage # "attached" \/ \E t \in Threads : Delivering(t)
PurgesAtEnd == pc[closer] = "purge" => "closing" \in events \/ stage # "attached"

LEMMA ReportsKept ==
  ASSUME IInv, SameReports, Known', PurgesAtEnd'
  PROVE  Unforgotten' /\ Throttled'
  <1> USE DEF SameReports
  <1>1. Unforgotten'
    BY DEF IInv, Unforgotten, Known
  <1>2. WindowReopens'
    BY DEF IInv, Throttled, WindowReopens
  <1> QED
    BY <1>1, <1>2 DEF Throttled, PurgesAtEnd

(* A thread goes on and nobody stops delivering.                           *)
LEMMA KnownKept ==
  ASSUME IInv, unreported' = unreported, listed' = listed,
         stage # "attached" => stage' # "attached",
         \A t \in Threads : Delivering(t) => Delivering(t)'
  PROVE  Known'
  BY DEF IInv, Unforgotten, Known
(* What a thread does alone leaves the others where they are.              *)
Alone(t) == \A u \in Threads : u # t => pc'[u] = pc[u] /\ outer'[u] = outer[u] /\ cur'[u] = cur[u]

LEMMA AloneDelivers ==
  ASSUME NEW t \in Threads, Alone(t), Delivering(t) => Delivering(t)'
  PROVE  \A u \in Threads : Delivering(u) => Delivering(u)'
  BY DEF Alone, Delivering

LEMMA AloneFlows ==
  ASSUME NEW t \in Threads, Alone(t), pc[t] \notin {"inject"}, pc'[t] \notin {"inject"},
         pc[t] \in {"copy", "enqueue"} <=> pc'[t] \in {"copy", "enqueue"},
         pc[t] \in {"copy", "enqueue"} => cur'[t] = cur[t],
         UNCHANGED << q, entered, injected, batch, dir, pending, mutex, made >>
  PROVE  SameFlow
  <1>1. \A u \in Threads : (pc[u] = "inject" <=> pc'[u] = "inject") /\ (u \in Arriving <=> u \in Arriving')
                           /\ (u \in Arriving => cur'[u] = cur[u])
    BY DEF Alone, Arriving
  <1> QED
    BY <1>1 DEF SameFlow

LEMMA CopyKeeps == ASSUME IInv, NEW t \in Threads, Copy(t) PROVE IInv'
  <1> USE DEF packetVars, reportVars, socketVars, bufferVars, callVars, flowVars
  <1>1. Types'
    BY DEF IInv, Types, TypeOK, Copy, TakeBuffer, GoTo, Set, Places
  <1>2. Alone(t) /\ pc[t] = "copy" /\ pc'[t] = "enqueue" /\ cur' = cur /\ outer' = outer
    BY DEF IInv, Types, Copy, GoTo, Alone
  <1>3. SameFlow
    <2> UNCHANGED << q, entered, injected, batch, dir, pending, mutex, made >>
      BY DEF Copy
    <2> QED
      BY <1>2, AloneFlows
  <1>4. Allowed' /\ SameReports /\ listed' = listed /\ stage' = stage
    BY DEF IInv, Allowed, Copy, SameReports
  <1>5. Known' /\ PurgesAtEnd'
    <2>1. Delivering(t) => Delivering(t)'
      BY <1>2 DEF Delivering
    <2>2. Known'
      BY <1>2, <1>4, <2>1, AloneDelivers, KnownKept DEF SameReports
    <2>3. PurgesAtEnd'
      BY <1>2, <1>4 DEF IInv, Throttled, Alone, PurgesAtEnd, SameReports, Threads
    <2> QED
      BY <2>2, <2>3
  <1>6. stage' = "detached" => \A d \in Directions : pending[d] = 0
    BY <1>4 DEF IInv, Counted
  <1> QED
    BY <1>1, <1>3, <1>4, <1>5, <1>6, FlowKept, ReportsKept DEF IInv
(* A step of one thread that moves and reports no packet.                  *)
LEMMA QuietStep ==
  ASSUME IInv, NEW t \in Threads, Types', Allowed', Alone(t), SameFlow, SameReports, Known',
         stage' = stage, pc'[t] # "purge"
  PROVE  IInv'
  <1>1. PurgesAtEnd'
    BY DEF IInv, Throttled, Alone, PurgesAtEnd, SameReports, Threads
  <1>2. stage' = "detached" => \A d \in Directions : pending[d] = 0
    BY DEF IInv, Counted
  <1> QED
    BY <1>1, <1>2, FlowKept, ReportsKept DEF IInv

LEMMA NotifyKeeps == ASSUME IInv, NEW t \in Threads, Notify(t) PROVE IInv'
  <1> USE DEF packetVars, reportVars, socketVars, bufferVars, callVars, flowVars
  <1>1. Types'
    <2>1. \A m \in inbox' : m.pkt \in 0 .. made /\ m.buffer \in Buffers \cup {NoBuffer}
      <3>1. cur[t] \in 0 .. made /\ buf[t] \in Buffers \cup {NoBuffer}
        BY DEF IInv, Types, TypeOK
      <3>2. inbox' \subseteq inbox \cup {[pkt |-> cur[t], buffer |-> buf[t]]}
        BY DEF Notify
      <3> QED
        BY <3>1, <3>2 DEF IInv, Types
    <2> QED
      BY <2>1 DEF IInv, Types, TypeOK, Notify, GoTo, Set, Places
  <1>2. /\ Alone(t) /\ pc[t] = "notify" /\ pc'[t] \in {"wait", "release"}
        /\ cur' = cur /\ outer' = outer
    BY DEF IInv, Types, Notify, GoTo, Alone
  <1>3. SameFlow
    <2> UNCHANGED << q, entered, injected, batch, dir, pending, mutex, made >>
      BY DEF Notify
    <2> QED
      BY <1>2, AloneFlows
  <1>4. Allowed' /\ SameReports /\ listed' = listed /\ stage' = stage
    BY DEF IInv, Allowed, Notify, SameReports
  <1>5. Delivering(t) => Delivering(t)'
    BY <1>2 DEF Delivering
  <1>6. Known'
    BY <1>2, <1>4, <1>5, AloneDelivers, KnownKept DEF SameReports
  <1> QED
    BY <1>1, <1>2, <1>3, <1>4, <1>6, QuietStep

LEMMA ReleaseBufferKeeps == ASSUME IInv, NEW t \in Threads, ReleaseBuffer(t) PROVE IInv'
  <1> USE DEF packetVars, reportVars, socketVars, bufferVars, callVars, flowVars
  <1>1. Types'
    BY DEF IInv, Types, TypeOK, ReleaseBuffer, GoTo, Set, Places
  <1>2. /\ Alone(t) /\ pc[t] = "release" /\ pc'[t] = "deliver" /\ cur' = cur /\ outer' = outer
    BY DEF IInv, Types, ReleaseBuffer, GoTo, Alone
  <1>3. SameFlow
    <2> UNCHANGED << q, entered, injected, batch, dir, pending, mutex, made >>
      BY DEF ReleaseBuffer
    <2> QED
      BY <1>2, AloneFlows
  <1>4. Allowed' /\ SameReports /\ listed' = listed /\ stage' = stage
    BY DEF IInv, Allowed, ReleaseBuffer, SameReports
  <1>5. Delivering(t) => Delivering(t)'
    BY <1>2 DEF Delivering
  <1>6. Known'
    BY <1>2, <1>4, <1>5, AloneDelivers, KnownKept DEF SameReports
  <1> QED
    BY <1>1, <1>2, <1>3, <1>4, <1>6, QuietStep

LEMMA AwakeKeeps == ASSUME IInv, NEW t \in Threads, Awake(t) PROVE IInv'
  <1> USE DEF packetVars, reportVars, socketVars, bufferVars, callVars, flowVars
  <1>1. Types'
    <2>1. cur' \in [Threads -> 0 .. MaxPackets] /\ \A u \in Threads : cur'[u] <= made
      BY SocketsAssumption DEF IInv, Types, TypeOK, Awake, Set
    <2> QED
      BY <2>1 DEF IInv, Types, TypeOK, Awake, GoTo, Places
  <1>2. Alone(t) /\ pc[t] = "wait" /\ pc'[t] = "idle" /\ outer' = outer
    BY DEF IInv, Types, TypeOK, Awake, GoTo, Set, Alone
  <1>3. SameFlow
    <2> UNCHANGED << q, entered, injected, batch, dir, pending, mutex, made >>
      BY DEF Awake
    <2> QED
      BY <1>2, AloneFlows
  <1>4. Allowed' /\ SameReports /\ listed' = listed /\ stage' = stage
    BY DEF IInv, Allowed, Awake, SameReports
  <1>5. Delivering(t) => Delivering(t)'
    BY <1>2 DEF Delivering
  <1>6. Known'
    BY <1>2, <1>4, <1>5, AloneDelivers, KnownKept DEF SameReports
  <1> QED
    BY <1>1, <1>2, <1>3, <1>4, <1>6, QuietStep

(* The end of a delivery: the one around it goes on.                       *)
LEMMA LeaveGoes ==
  ASSUME Types, NEW t \in Threads, Leave(t)
  PROVE  /\ pc' \in [Threads -> Places]
         /\ outer' \in [Threads -> Seq({"reinsert", "failed", "deliver"})]
         /\ \A u \in Threads : u # t => pc'[u] = pc[u] /\ outer'[u] = outer[u]
         /\ pc'[t] \in {"wait", "answer", "idle", "reinsert", "failed", "deliver"}
         /\ Contains(outer[t], "reinsert") => Delivering(t)'
  <1> DEFINE D == {"reinsert", "failed", "deliver"}
  <1>1. pc \in [Threads -> Places] /\ outer \in [Threads -> Seq(D)]
    BY DEF Types
  <1>2. CASE outer[t] = << >>
    <2>1. pc' = [pc EXCEPT ![t] = AfterDelivery(t)] /\ outer' = outer
      BY <1>2 DEF Leave, GoTo
    <2>2. AfterDelivery(t) \in {"wait", "answer", "idle"}
      BY DEF AfterDelivery
    <2>3. ~Contains(outer[t], "reinsert")
      BY <1>2 DEF Contains
    <2> QED
      BY <1>1, <2>1, <2>2, <2>3 DEF Places
  <1>3. CASE outer[t] # << >>
    <2>1. pc' = [pc EXCEPT ![t] = Head(outer[t])] /\ outer' = [outer EXCEPT ![t] = Tail(outer[t])]
      BY <1>3 DEF Leave, GoTo, Set
    <2>2. outer[t] \in Seq(D)
      BY <1>1
    <2>3. Head(outer[t]) \in D /\ Tail(outer[t]) \in Seq(D)
      BY <1>3, <2>2
    <2>4. ASSUME Contains(outer[t], "reinsert")
          PROVE  Head(outer[t]) = "reinsert" \/ Contains(Tail(outer[t]), "reinsert")
      <3> DEFINE s == outer[t]
      <3>1. PICK i \in 1 .. Len(s) : s[i] = "reinsert"
        BY <2>4 DEF Contains
      <3>2. CASE i = 1
        BY <2>2, <3>1, <3>2
      <3>3. CASE i # 1
        <4>1. i - 1 \in 1 .. Len(Tail(s)) /\ Tail(s)[i - 1] = s[i]
          BY <1>3, <2>2, <3>1, <3>3
        <4> QED
          BY <3>1, <4>1 DEF Contains
      <3> QED
        BY <3>2, <3>3
    <2>5. pc'[t] = Head(outer[t]) /\ outer'[t] = Tail(outer[t])
      BY <1>1, <2>1
    <2>6. Contains(outer[t], "reinsert") => Delivering(t)'
      BY <2>4, <2>5 DEF Delivering
    <2>7. /\ pc' \in [Threads -> Places] /\ outer' \in [Threads -> Seq(D)]
          /\ \A u \in Threads : u # t => pc'[u] = pc[u] /\ outer'[u] = outer[u]
      BY <1>1, <2>1, <2>3 DEF Places
    <2> QED
      BY <2>3, <2>5, <2>6, <2>7
  <1> QED
    BY <1>2, <1>3

(* The same for the steps of a delivery that report nothing.               *)
LEMMA DeliveryStep ==
  ASSUME IInv, NEW t \in Threads, Types', pc[t] \notin {"copy", "enqueue", "inject"},
         pc'[t] \notin {"copy", "enqueue", "inject", "purge"}, Alone(t), Known',
         UNCHANGED << packetVars, q, unreported, waiter, waiting, shrunk, socketVars, flowVars >>
  PROVE  IInv'
  <1> USE DEF packetVars, socketVars, flowVars
  <1>1. SameFlow
    <2> UNCHANGED << q, entered, injected, batch, dir, pending, mutex, made >>
      OBVIOUS
    <2> QED
      BY AloneFlows
  <1>2. Allowed' /\ SameReports
    BY DEF IInv, Allowed, SameReports
  <1> QED
    BY <1>1, <1>2, QuietStep

LEMMA TakeSocketKeeps == ASSUME IInv, NEW t \in Threads, TakeSocket(t) PROVE IInv'
  <1>1. /\ Types /\ pc[t] = "deliver" /\ cur' = cur
        /\ UNCHANGED << packetVars, q, unreported, waiter, waiting, shrunk, socketVars, flowVars >>
    BY DEF IInv, TakeSocket
  <1>2. CASE listed
    <2>1. listed' = FALSE /\ pc' = [pc EXCEPT ![t] = "locksocket"] /\ outer' = outer
      BY <1>2 DEF TakeSocket, GoTo
    <2>2. pc'[t] = "locksocket" /\ Alone(t)
      BY <1>1, <2>1 DEF Types, Alone
    <2>3. Known'
      BY <2>2 DEF Known, Delivering
    <2>4. Types'
      BY <1>1, <1>2, <2>1 DEF Types, TypeOK, TakeSocket, Places, packetVars, socketVars, bufferVars, flowVars
    <2> QED
      BY <1>1, <2>2, <2>3, <2>4, DeliveryStep
  <1>3. CASE ~listed
    <2>1. listed' = listed /\ Leave(t)
      BY <1>3 DEF TakeSocket
    <2>2. /\ pc'[t] \notin {"copy", "enqueue", "inject", "purge"} /\ Alone(t)
          /\ Delivering(t) => Delivering(t)'
      BY <1>1, <2>1, LeaveGoes DEF Alone, Delivering
    <2>3. Known'
      BY <1>1, <2>1, <2>2, AloneDelivers, KnownKept DEF socketVars
    <2>4. Types'
      BY <1>1, <1>3, <2>1, LeaveGoes DEF Types, TypeOK, TakeSocket, packetVars, socketVars, bufferVars, flowVars
    <2> QED
      BY <1>1, <2>2, <2>3, <2>4, DeliveryStep
  <1> QED
    BY <1>2, <1>3

LEMMA LockSocketKeeps == ASSUME IInv, NEW t \in Threads, LockSocket(t) PROVE IInv'
  <1> USE DEF LockSocket, reportVars
  <1>1. /\ Types /\ pc[t] = "locksocket" /\ cur' = cur /\ outer' = outer /\ pc' = [pc EXCEPT ![t] = "report"]
        /\ UNCHANGED << packetVars, q, unreported, waiter, waiting, listed, shrunk, socketVars, flowVars >>
    BY DEF IInv, GoTo, callVars
  <1>2. pc'[t] = "report" /\ Alone(t)
    BY <1>1 DEF Types, Alone
  <1>3. Known'
    BY <1>1, <1>2, AloneDelivers, KnownKept DEF socketVars, Delivering
  <1>4. Types'
    BY <1>1 DEF Types, TypeOK, Places, packetVars, socketVars, bufferVars, callVars, flowVars
  <1> QED
    BY <1>1, <1>2, <1>3, <1>4, DeliveryStep

LEMMA ReinsertKeeps == ASSUME IInv, NEW t \in Threads, Reinsert(t) PROVE IInv'
  <1>1. /\ Types /\ pc[t] = "reinsert" /\ cur' = cur /\ listed' = TRUE /\ Leave(t)
        /\ UNCHANGED << packetVars, q, unreported, waiter, waiting, shrunk, socketVars, flowVars >>
    BY DEF IInv, Reinsert
  <1>2. pc'[t] \notin {"copy", "enqueue", "inject", "purge"} /\ Alone(t)
    BY <1>1, LeaveGoes DEF Alone
  <1>3. Known'
    BY <1>1 DEF Known
  <1>4. Types'
    BY <1>1, LeaveGoes DEF Types, TypeOK, Reinsert, packetVars, socketVars, bufferVars, flowVars
  <1> QED
    BY <1>1, <1>2, <1>3, <1>4, DeliveryStep

LEMMA LeaveFailedKeeps == ASSUME IInv, NEW t \in Threads, LeaveFailed(t) PROVE IInv'
  <1>1. /\ Types /\ pc[t] = "failed" /\ cur' = cur /\ Leave(t) /\ listed' = listed
        /\ UNCHANGED << packetVars, q, unreported, waiter, waiting, shrunk, socketVars, flowVars >>
    BY DEF IInv, LeaveFailed, reportVars
  <1>2. /\ pc'[t] \notin {"copy", "enqueue", "inject", "purge"} /\ Alone(t)
        /\ Delivering(t) => Delivering(t)'
    BY <1>1, LeaveGoes DEF Alone, Delivering
  <1>3. Known'
    BY <1>1, <1>2, AloneDelivers, KnownKept DEF socketVars
  <1>4. Types'
    BY <1>1, LeaveGoes DEF Types, TypeOK, LeaveFailed, packetVars, socketVars, bufferVars, flowVars
  <1> QED
    BY <1>1, <1>2, <1>3, <1>4, DeliveryStep

(* What was injected is in the queue no more.                              *)
LEMMA InjectedGone ==
  ASSUME IInv, NEW p \in Range(q) PROVE p \notin Range(injected)
  BY DEF IInv, Ordered, FirstEntered

LEMMA RespondKeeps == ASSUME IInv, NEW t \in Threads, Respond(t) PROVE IInv'
  <1> USE DEF packetVars, reportVars, socketVars, bufferVars, callVars, flowVars
  <1>1. Types'
    <2>1. PICK m \in inbox : /\ inbox' = inbox \ {m} /\ cur' = [cur EXCEPT ![t] = m.pkt]
                             /\ buf' = [buf EXCEPT ![t] = m.buffer]
      BY DEF Respond, Set
    <2>2. m.pkt \in 0 .. MaxPackets /\ m.pkt <= made /\ m.buffer \in Buffers \cup {NoBuffer}
      BY SocketsAssumption DEF IInv, Types
    <2>3. cur' \in [Threads -> 0 .. MaxPackets] /\ \A u \in Threads : cur'[u] <= made
      BY <2>1, <2>2 DEF IInv, Types, TypeOK
    <2>4. /\ buf' \in [Threads -> Buffers \cup {NoBuffer}]
          /\ \A k \in inbox' : k.pkt \in 0 .. made /\ k.buffer \in Buffers \cup {NoBuffer}
      BY <2>1, <2>2 DEF IInv, Types, TypeOK
    <2> QED
      BY <2>3, <2>4 DEF IInv, Types, TypeOK, Respond, GoTo, Places
  <1>2. Alone(t) /\ pc[t] = "idle" /\ pc'[t] = "release" /\ outer' = outer
    BY DEF IInv, Types, TypeOK, Respond, GoTo, Set, Alone
  <1>3. SameFlow
    <2> UNCHANGED << q, entered, injected, batch, dir, pending, mutex, made >>
      BY DEF Respond
    <2> QED
      BY <1>2, AloneFlows
  <1>4. Allowed' /\ SameReports /\ listed' = listed /\ stage' = stage
    BY DEF IInv, Allowed, Respond, SameReports
  <1>5. Delivering(t) => Delivering(t)'
    BY <1>2 DEF Delivering
  <1>6. Known'
    BY <1>2, <1>4, <1>5, AloneDelivers, KnownKept DEF SameReports
  <1> QED
    BY <1>1, <1>2, <1>3, <1>4, <1>6, QuietStep

LEMMA AnswerKeeps == ASSUME IInv, NEW t \in Threads, Answer(t) PROVE IInv'
  <1> USE DEF packetVars, reportVars, socketVars, bufferVars, callVars, flowVars
  <1> DEFINE p == cur[t]
  <1>1. /\ answered \subseteq answered' /\ answered' \subseteq answered \cup Range(q)
        /\ allow' \subseteq answered' /\ allow \ Range(q) \subseteq allow'
    <2>1. CASE InList /\ Found(p)
      <3>1. p \in Range(q)
        BY <2>1 DEF Found, Contains, Range, IInv, Types
      <3>2. answered' = answered \cup {p} /\ allow' \in {allow \cup {p}, allow \ {p}}
        BY <2>1 DEF Answer
      <3> QED
        BY <3>1, <3>2 DEF IInv, Allowed
    <2>2. CASE ~(InList /\ Found(p))
      BY <2>2 DEF Answer, IInv, Allowed
    <2> QED
      BY <2>1, <2>2
  <1>2. Allowed'
    BY <1>1, InjectedGone DEF IInv, Allowed, Answer
  <1>3. Types'
    <2>1. cur' \in [Threads -> 0 .. MaxPackets] /\ \A u \in Threads : cur'[u] <= made
      BY SocketsAssumption DEF IInv, Types, TypeOK, Answer, Set
    <2>2. answered' \subseteq 1 .. made /\ allow' \subseteq 1 .. made
      <3>1. answered \subseteq 1 .. made /\ allow \subseteq 1 .. made /\ Range(q) \subseteq 1 .. made
        BY DEF IInv, Types, TypeOK
      <3>2. allow' \subseteq allow \cup answered'
        BY <1>1
      <3> QED
        BY <1>1, <3>1, <3>2
    <2>3. pc' \in [Threads -> Places]
      BY DEF IInv, Types, Answer, GoTo, Places
    <2>4. UNCHANGED << made, q, entered, injected, batch, outer, release, failed, listed, shrunk,
                       only, mutex, inbox, unreported, old, dir, waiter, waiting, pending, stage,
                       free, buf >>
      BY DEF Answer
    <2> QED
      BY <2>1, <2>2, <2>3, <2>4 DEF IInv, Types, TypeOK
  <1>4. Alone(t) /\ pc[t] = "answer" /\ pc'[t] \in {"collect", "idle"} /\ outer' = outer
    BY DEF IInv, Types, TypeOK, Answer, GoTo, Set, Alone
  <1>5. SameFlow
    <2> UNCHANGED << q, entered, injected, batch, dir, pending, mutex, made >>
      BY DEF Answer
    <2> QED
      BY <1>4, AloneFlows
  <1>6. SameReports /\ listed' = listed /\ stage' = stage
    BY DEF Answer, SameReports
  <1>7. Delivering(t) => Delivering(t)'
    BY <1>4 DEF Delivering
  <1>8. Known'
    BY <1>4, <1>6, <1>7, AloneDelivers, KnownKept DEF SameReports
  <1> QED
    BY <1>2, <1>3, <1>4, <1>5, <1>6, <1>8, QuietStep

LEMMA InjectorWakesKeeps == ASSUME IInv, InjectorWakes PROVE IInv'
  <1> USE DEF packetVars, reportVars, socketVars, bufferVars, callVars, flowVars
  <1>1. Types'
    BY DEF IInv, Types, TypeOK, InjectorWakes, GoTo, Places
  <1>2. /\ injector \in Threads /\ Alone(injector) /\ pc[injector] = "idle"
        /\ pc'[injector] \in {"collect", "deliver"} /\ outer' = outer
    BY DEF IInv, Types, TypeOK, InjectorWakes, GoTo, Alone, Threads
  <1>3. SameFlow
    <2> UNCHANGED << q, entered, injected, batch, dir, pending, mutex, made >>
      BY DEF InjectorWakes
    <2> QED
      BY <1>2, AloneFlows
  <1>4. Allowed' /\ SameReports /\ listed' = listed /\ stage' = stage
    BY DEF IInv, Allowed, InjectorWakes, SameReports
  <1>5. Delivering(injector) => Delivering(injector)'
    BY <1>2 DEF Delivering
  <1>6. Known'
    BY <1>2, <1>4, <1>5, AloneDelivers, KnownKept DEF SameReports
  <1> QED
    BY <1>1, <1>2, <1>3, <1>4, <1>6, QuietStep

(* The thread that closes the socket.                                      *)
LEMMA EventKeeps ==
  ASSUME IInv, NEW e, NEW place \in {"purge", "collect"}, NEW directions \in SUBSET Directions,
         Event(e, place, directions), place = "purge" => e = "closing"
  PROVE  IInv'
  <1> USE DEF packetVars, reportVars, socketVars, bufferVars, callVars, flowVars
  <1>1. Types'
    BY DEF IInv, Types, TypeOK, Event, GoTo, Places
  <1>2. /\ closer \in Threads /\ Alone(closer) /\ pc[closer] = "idle" /\ pc'[closer] = place
        /\ outer' = outer
    BY DEF IInv, Types, TypeOK, Event, GoTo, Alone, Threads
  <1>3. SameFlow
    <2> UNCHANGED << q, entered, injected, batch, dir, pending, mutex, made >>
      BY DEF Event
    <2> QED
      BY <1>2, AloneFlows
  <1>4. Allowed' /\ SameReports /\ listed' = listed /\ stage' = stage
    BY DEF IInv, Allowed, Event, SameReports
  <1>5. Delivering(closer) => Delivering(closer)'
    BY <1>2 DEF Delivering
  <1>6. Known'
    BY <1>2, <1>4, <1>5, AloneDelivers, KnownKept DEF SameReports
  <1>7. PurgesAtEnd'
    BY <1>2 DEF Event, PurgesAtEnd
  <1>8. stage' = "detached" => \A d \in Directions : pending[d] = 0
    BY <1>4 DEF IInv, Counted
  <1> QED
    BY <1>1, <1>3, <1>4, <1>6, <1>7, <1>8, FlowKept, ReportsKept DEF IInv

LEMMA CompletedKeeps == ASSUME IInv, Completed PROVE IInv'
  <1> USE DEF packetVars, reportVars, socketVars, bufferVars, callVars, flowVars
  <1>1. Types'
    BY DEF IInv, Types, TypeOK, Completed, GoTo, Places
  <1>2. /\ closer \in Threads /\ Alone(closer) /\ pc[closer] = "completion"
        /\ pc'[closer] = "idle" /\ outer' = outer
    BY DEF IInv, Types, TypeOK, Completed, GoTo, Alone, Threads
  <1>3. SameFlow
    <2> UNCHANGED << q, entered, injected, batch, dir, pending, mutex, made >>
      BY DEF Completed
    <2> QED
      BY <1>2, AloneFlows
  <1>4. Allowed' /\ SameReports /\ listed' = listed
    BY DEF IInv, Allowed, Completed, SameReports, InList
  <1>5. Delivering(closer) => Delivering(closer)'
    BY <1>2 DEF Delivering
  <1>6. Known'
    BY <1>2, <1>4, <1>5, AloneDelivers, KnownKept DEF SameReports
  <1>7. PurgesAtEnd'
    BY <1>2 DEF PurgesAtEnd
  <1>8. \A d \in Directions : pending[d] = 0
    BY DEF Completed
  <1> QED
    BY <1>1, <1>3, <1>4, <1>6, <1>7, <1>8, FlowKept, ReportsKept DEF IInv

LEMMA DetachKeeps == ASSUME IInv, Detach PROVE IInv'
  <1> USE DEF packetVars, reportVars, socketVars, bufferVars, callVars, flowVars
  <1>1. Types'
    BY DEF IInv, Types, TypeOK, Detach, GoTo, Places
  <1>2. /\ closer \in Threads /\ Alone(closer) /\ pc[closer] = "idle" /\ pc'[closer] = "purge"
    BY DEF IInv, Types, TypeOK, Detach, GoTo, Alone, Threads
  <1>3. SameFlow
    <2> UNCHANGED << q, entered, injected, batch, dir, pending, mutex, made >>
      BY DEF Detach
    <2> QED
      BY <1>2, AloneFlows
  <1>4. Allowed' /\ SameReports /\ stage' = "listless"
    BY DEF IInv, Allowed, Detach, SameReports
  <1>5. Known' /\ PurgesAtEnd'
    BY <1>4 DEF Known, PurgesAtEnd
  <1>6. stage' # "detached"
    BY <1>4
  <1> QED
    BY <1>1, <1>3, <1>4, <1>5, <1>6, FlowKept, ReportsKept DEF IInv

(* Steps of nobody.                                                        *)
LEMMA NobodysStep ==
  ASSUME IInv, Types', UNCHANGED << answered, allow, made, dir, reportVars, socketVars, pc,
                                    callVars, flowVars >>
  PROVE  IInv'
  <1> USE DEF reportVars, socketVars, callVars, flowVars
  <1>1. SameFlow
    BY DEF SameFlow, Arriving
  <1>2. Allowed' /\ SameReports
    BY DEF IInv, Allowed, SameReports
  <1>3. Known' /\ PurgesAtEnd'
    BY DEF IInv, Unforgotten, Throttled, Known, PurgesAtEnd, Delivering
  <1>4. stage' = "detached" => \A d \in Directions : pending[d] = 0
    BY DEF IInv, Counted
  <1> QED
    BY <1>1, <1>2, <1>3, <1>4, FlowKept, ReportsKept DEF IInv

LEMMA ExpireKeeps == ASSUME IInv, Expire PROVE IInv'
  <1>1. Types'
    BY DEF IInv, Types, TypeOK, Expire, reportVars, socketVars, bufferVars, callVars, flowVars
  <1> QED
    BY <1>1, NobodysStep DEF Expire

LEMMA ServiceLeavesKeeps == ASSUME IInv, ServiceLeaves PROVE IInv'
  <1>1. Types'
    BY DEF IInv, Types, TypeOK, ServiceLeaves, packetVars, reportVars, socketVars, callVars, flowVars
  <1> QED
    BY <1>1, NobodysStep DEF ServiceLeaves, packetVars

----------------------------------------------------------------------------
(* The loop of a delivery *)

LEMMA EndReportGoes ==
  ASSUME Types, NEW t \in Threads, NEW rest \in {"reinsert", "failed", "deliver"},
         NEW giveBack \in BOOLEAN, EndReport(t, rest, giveBack)
  PROVE  /\ pc' \in [Threads -> Places]
         /\ outer' \in [Threads -> Seq({"reinsert", "failed", "deliver"})]
         /\ release' \in [Threads -> BOOLEAN] /\ failed' \in [Threads -> BOOLEAN]
         /\ \A u \in Threads : u # t => pc'[u] = pc[u] /\ outer'[u] = outer[u]
         /\ pc'[t] \in {"release", "reinsert", "failed", "deliver"}
         /\ rest = "reinsert" => Delivering(t)'
  <1> DEFINE D == {"reinsert", "failed", "deliver"}
  <1>1. pc \in [Threads -> Places] /\ outer \in [Threads -> Seq(D)]
    BY DEF Types
  <1>2. release' \in [Threads -> BOOLEAN] /\ failed' \in [Threads -> BOOLEAN]
    BY DEF Types, EndReport, Set
  <1>3. CASE giveBack
    <2>1. /\ pc' = [pc EXCEPT ![t] = "release"]
          /\ outer' = [outer EXCEPT ![t] = << rest >> \o outer[t]]
      BY <1>3 DEF EndReport, GoTo, Set
    <2>2. outer[t] \in Seq(D) /\ << rest >> \in Seq(D)
      BY <1>1
    <2>3. << rest >> \o outer[t] \in Seq(D) /\ Contains(<< rest >> \o outer[t], rest)
      <3> DEFINE s == << rest >> \o outer[t]
      <3>1. s \in Seq(D) /\ 1 \in 1 .. Len(s) /\ s[1] = rest
        BY <2>2
      <3> QED
        BY <3>1 DEF Contains
    <2>4. pc'[t] = "release" /\ outer'[t] = << rest >> \o outer[t]
      BY <1>1, <2>1
    <2>5. /\ pc' \in [Threads -> Places] /\ outer' \in [Threads -> Seq(D)]
          /\ \A u \in Threads : u # t => pc'[u] = pc[u] /\ outer'[u] = outer[u]
      BY <1>1, <2>1, <2>3 DEF Places
    <2> QED
      BY <1>2, <2>3, <2>4, <2>5 DEF Delivering
  <1>4. CASE ~giveBack
    <2>1. pc' = [pc EXCEPT ![t] = rest] /\ outer' = outer
      BY <1>4 DEF EndReport, GoTo
    <2> QED
      BY <1>1, <1>2, <2>1 DEF Delivering, Places
  <1> QED
    BY <1>3, <1>4

LEMMA ReportedAllKeeps == ASSUME IInv, NEW t \in Threads, ReportedAll(t) PROVE IInv'
  <1> DEFINE rest == IF failed[t] THEN "failed" ELSE "deliver"
  <1>1. /\ Types /\ pc[t] = "report" /\ cur' = cur /\ release[t] \in BOOLEAN
        /\ EndReport(t, rest, release[t]) /\ rest \in {"reinsert", "failed", "deliver"}
        /\ UNCHANGED << packetVars, reportVars, socketVars, bufferVars, only, flowVars >>
        /\ buf' = IF release[t] THEN buf ELSE Set(buf, t, NoBuffer)
    BY DEF IInv, Types, ReportedAll
  <1> HIDE DEF rest
  <1>2. /\ pc' \in [Threads -> Places]
        /\ outer' \in [Threads -> Seq({"reinsert", "failed", "deliver"})]
        /\ release' \in [Threads -> BOOLEAN] /\ failed' \in [Threads -> BOOLEAN]
        /\ \A u \in Threads : u # t => pc'[u] = pc[u] /\ outer'[u] = outer[u]
        /\ pc'[t] \in {"release", "reinsert", "failed", "deliver"}
    BY <1>1, EndReportGoes
  <1>3. Types'
    BY <1>1, <1>2 DEF Types, TypeOK, Set, packetVars, reportVars, socketVars, bufferVars, flowVars
  <1>4. Known'
    <2>1. unreported = {} /\ unreported' = unreported
      BY DEF IInv, Unforgotten, ReportedAll, reportVars
    <2> QED
      BY <2>1 DEF Known
  <1> QED
    BY <1>1, <1>2, <1>3, <1>4, DeliveryStep DEF Alone, reportVars

(* The first of those that wait is reported.                               *)
LEMMA ReportedFirst ==
  ASSUME IInv, NEW i \in DOMAIN q, FirstUnreported(i), Reported(q[i]), Known', PurgesAtEnd',
         UNCHANGED << q, dir, events, stage >>
  PROVE  Unforgotten' /\ Throttled'
  <1> DEFINE p == q[i]
  <1>1. /\ unreported' = unreported \ {p} /\ waiting' = waiting - 1 /\ p \in unreported
        /\ p \in Packets /\ waiter' = [waiter EXCEPT ![p] = NoThread]
        /\ shrunk' = (shrunk /\ dir[p] = "out")
    BY DEF Reported, FirstUnreported, Set, IInv, Types
  <1>2. waiting' = Cardinality(unreported')
    <2>1. IsFiniteSet(1 .. made) /\ unreported \in SUBSET (1 .. made)
      BY FS_Interval DEF IInv, Types, TypeOK
    <2>2. IsFiniteSet(unreported)
      BY <2>1, FS_Subset
    <2>3. Cardinality(unreported \ {p}) = Cardinality(unreported) - 1
      BY <1>1, <2>2, FS_RemoveElement
    <2> QED
      BY <1>1, <2>3 DEF IInv, Unforgotten
  <1>3. ASSUME NEW a, NEW b, Precedes(q, a, b), a \in unreported' PROVE b \in unreported'
    <2>1. a \in unreported /\ b \in unreported
      BY <1>1, <1>3 DEF IInv, Unforgotten
    <2>2. b # p
      <3> SUFFICES ASSUME b = p PROVE FALSE
        OBVIOUS
      <3>1. PICK k, l \in DOMAIN q : k < l /\ q[k] = a /\ q[l] = p
        BY <1>3 DEF Precedes
      <3>2. DOMAIN q = 1 .. Len(q) /\ Len(q) \in Nat
        BY DEF IInv, Types
      <3>3. ~Precedes(q, p, p)
        BY DEF IInv, Ordered
      <3>4. ~(l < i) /\ ~(i < l)
        BY <3>1, <3>3 DEF Precedes
      <3>5. k \in 1 .. i - 1
        BY <3>1, <3>2, <3>4
      <3> QED
        BY <2>1, <3>1, <3>5 DEF FirstUnreported
    <2> QED
      BY <1>1, <2>1, <2>2
  <1>4. unreported' \subseteq Range(q)'
    BY <1>1 DEF IInv, Unforgotten
  <1>5. \A r \in Packets : waiter'[r] # NoThread => r \in unreported'
    BY <1>1 DEF IInv, Unforgotten, Types, TypeOK
  <1>6. WindowReopens'
    <2>1. shrunk' => \A r \in unreported : dir[r] = "in" => r # p
      BY <1>1
    <2> QED
      BY <1>1, <2>1 DEF IInv, Throttled, WindowReopens
  <1> QED
    BY <1>2, <1>3, <1>4, <1>5, <1>6 DEF Unforgotten, Throttled, Known, PurgesAtEnd

LEMMA TakeBufferTypes ==
  ASSUME Types, NEW t \in Threads, TakeBuffer(t)
  PROVE  free' \subseteq Buffers /\ buf' \in [Threads -> Buffers \cup {NoBuffer}]
  BY DEF Types, TypeOK, TakeBuffer, Set

LEMMA ReportKeeps == ASSUME IInv, NEW t \in Threads, Report(t) PROVE IInv'
  <1>1. PICK i \in DOMAIN q : FirstUnreported(i) /\ (Send(t, q[i]) \/ NotSent(t, q[i]))
    BY DEF Report
  <1> DEFINE p == q[i]
  <1>2. /\ Types /\ pc[t] = "report" /\ p \in Packets /\ p \in Range(q) /\ p \in 1 .. made
        /\ UNCHANGED << made, dir, answered, old, q, listed, socketVars, client, cur, only, flowVars >>
    <2>1. p \in Packets /\ p \in Range(q)
      BY DEF IInv, Types, Range
    <2> QED
      BY <2>1 DEF IInv, Types, TypeOK, Report
  <1>3. ASSUME Alone(t), pc'[t] \notin {"copy", "enqueue", "inject", "purge"}
        PROVE  SameFlow /\ PurgesAtEnd'
    <2>1. SameFlow
      <3> UNCHANGED << q, entered, injected, batch, dir, pending, mutex, made >>
        BY <1>2 DEF flowVars
      <3> QED
        BY <1>2, <1>3, AloneFlows
    <2>2. PurgesAtEnd'
      BY <1>2, <1>3 DEF IInv, Throttled, PurgesAtEnd, Alone, Threads, socketVars
    <2> QED
      BY <2>1, <2>2
  <1>4. stage' = "detached" => \A d \in Directions : pending[d] = 0
    BY <1>2 DEF IInv, Counted, socketVars
  <1>5. CASE Send(t, p) \/ (NotSent(t, p) /\ p \in old)
    <2>1. /\ UNCHANGED << pc, lock, outer >> /\ Reported(p)
          /\ release' \in [Threads -> BOOLEAN] /\ failed' \in [Threads -> BOOLEAN]
          /\ allow \ {p} \subseteq allow' /\ allow' \subseteq allow
      BY <1>2, <1>5 DEF Send, NotSent, Set, Types
    <2>2. /\ free' \subseteq Buffers /\ buf' \in [Threads -> Buffers \cup {NoBuffer}]
          /\ \A m \in inbox' : m.pkt \in 0 .. made /\ m.buffer \in Buffers \cup {NoBuffer}
      <3>1. CASE Send(t, p)
        <4>1. PICK b \in free : /\ free' = free \ {b} /\ buf' = [buf EXCEPT ![t] = b]
                                /\ inbox' = inbox \cup {[pkt |-> p, buffer |-> b]}
          BY <3>1 DEF Send, Set
        <4> QED
          BY <1>2, <4>1 DEF Types, TypeOK
      <3>2. CASE NotSent(t, p)
        BY <1>2, <3>2, TakeBufferTypes DEF NotSent, Types
      <3> QED
        BY <1>5, <3>1, <3>2
    <2>3. Alone(t) /\ Known' /\ Allowed'
      <3>1. Delivering(t)'
        BY <1>2, <2>1 DEF Delivering
      <3> QED
        BY <1>2, <2>1, <3>1, InjectedGone DEF Alone, Known, IInv, Allowed, flowVars
    <2>4. SameFlow /\ PurgesAtEnd'
      BY <1>2, <1>3, <2>1, <2>3
    <2>5. Types'
      <3>1. /\ unreported' = unreported \ {p} /\ waiting' = waiting - 1
            /\ waiter' = [waiter EXCEPT ![p] = NoThread] /\ shrunk' = (shrunk /\ dir[p] = "out")
        BY <2>1 DEF Reported, Set
      <3>2. waiting' \in Nat
        <4>1. IsFiniteSet(1 .. made) /\ unreported \in SUBSET (1 .. made)
          BY <1>2, FS_Interval DEF Types, TypeOK
        <4>2. IsFiniteSet(unreported) /\ unreported # {}
          BY <1>1, <4>1, FS_Subset DEF FirstUnreported
        <4>3. Cardinality(unreported) \in Nat \ {0}
          BY <4>2, FS_EmptySet, FS_CardinalityType
        <4> QED
          BY <3>1, <4>3 DEF IInv, Unforgotten
      <3>3. waiter' \in [Packets -> Threads \cup {NoThread}]
        BY <1>2, <3>1 DEF Types, TypeOK
      <3> QED
        BY <1>2, <2>1, <2>2, <3>1, <3>2, <3>3 DEF Types, TypeOK, socketVars, flowVars
    <2>6. Unforgotten' /\ Throttled'
      BY <1>1, <1>2, <2>1, <2>3, <2>4, ReportedFirst DEF socketVars
    <2> QED
      BY <1>4, <2>3, <2>4, <2>5, <2>6, FlowKept DEF IInv
  <1>6. CASE NotSent(t, p) /\ p \notin old
    <2> DEFINE giveBack == release[t] \/ free # {}
    <2>1. /\ EndReport(t, "reinsert", giveBack) /\ TakeBuffer(t)
          /\ UNCHANGED << allow, unreported, waiting, waiter, shrunk, inbox >>
      BY <1>6 DEF NotSent
    <2>2. giveBack \in BOOLEAN
      BY <1>2 DEF Types
    <2> HIDE DEF giveBack
    <2>3. /\ pc' \in [Threads -> Places]
          /\ outer' \in [Threads -> Seq({"reinsert", "failed", "deliver"})]
          /\ release' \in [Threads -> BOOLEAN] /\ failed' \in [Threads -> BOOLEAN]
          /\ \A u \in Threads : u # t => pc'[u] = pc[u] /\ outer'[u] = outer[u]
          /\ pc'[t] \in {"release", "reinsert", "failed", "deliver"}
          /\ Delivering(t)'
      BY <1>2, <2>1, <2>2, EndReportGoes
    <2>4. Types'
      BY <1>2, <2>1, <2>3, TakeBufferTypes DEF Types, TypeOK, socketVars, flowVars
    <2>5. Known'
      BY <2>3 DEF Known
    <2> QED
      BY <1>2, <2>1, <2>3, <2>4, <2>5, DeliveryStep DEF Alone, packetVars
  <1> QED
    BY <1>1, <1>5, <1>6

----------------------------------------------------------------------------
(* The steps that move packets *)

LEMMA UnderwayFinite ==
  ASSUME IInv
  PROVE  /\ Underway \subseteq 1 .. made
         /\ \A d : IsFiniteSet({p \in Underway : dir[p] = d})
                   /\ Cardinality({p \in Underway : dir[p] = d}) \in Nat
  <1>1. Underway \subseteq 1 .. made
    BY DEF IInv, EnteredOnce, Underway
  <1>2. IsFiniteSet(1 .. made)
    BY FS_Interval DEF IInv, Types
  <1>3. ASSUME NEW d
        PROVE  IsFiniteSet({p \in Underway : dir[p] = d})
               /\ Cardinality({p \in Underway : dir[p] = d}) \in Nat
    <2> DEFINE A == {p \in Underway : dir[p] = d}
    <2>1. A \in SUBSET (1 .. made)
      BY <1>1
    <2> HIDE DEF A
    <2>2. IsFiniteSet(A) /\ Cardinality(A) \in Nat
      BY <1>2, <2>1, FS_Subset, FS_CardinalityType
    <2> QED
      BY <2>2 DEF A
  <1> QED
    BY <1>1, <1>3

LEMMA AllocateKeeps == ASSUME IInv, NEW t \in Threads, Allocate(t) PROVE IInv'
  <1> USE DEF packetVars, reportVars, socketVars, bufferVars, callVars, flowVars
  <1> DEFINE new == made + 1
  <1>1. PICK d \in Directions :
          dir' = [dir EXCEPT ![new] = d] /\ pending' = [pending EXCEPT ![d] = @ + 1]
    BY DEF Allocate, Set
  <1>2. /\ Types /\ pc[t] = "idle" /\ made' = new /\ new \in Packets /\ new \notin 1 .. made
        /\ cur' = [cur EXCEPT ![t] = new] /\ pc' = [pc EXCEPT ![t] = "copy"]
        /\ UNCHANGED << q, unreported, waiter, waiting, listed, shrunk, answered, allow, old,
                        stage, events, free, inbox, buf, release, failed, outer, only, mutex,
                        batch, entered, injected >>
    BY SocketsAssumption DEF IInv, Types, Allocate, Set, GoTo, Packets
  <1>3. /\ \A p : p # new => dir'[p] = dir[p]
        /\ \A e \in Directions : pending'[e] = IF e = d THEN pending[e] + 1 ELSE pending[e]
        /\ dir'[new] = d
    BY <1>1, <1>2 DEF Types, TypeOK
  <1>4. /\ pc'[t] = "copy" /\ cur'[t] = new
        /\ \A u \in Threads : u # t => pc'[u] = pc[u] /\ cur'[u] = cur[u]
    BY <1>2 DEF Types, TypeOK
  <1>5. Types'
    <2>1. cur' \in [Threads -> 0 .. MaxPackets] /\ \A u \in Threads : cur'[u] <= made'
      BY <1>2, SocketsAssumption DEF Types, TypeOK, Packets
    <2>2. dir' \in [Packets -> Directions] /\ pending' \in [Directions -> Nat]
      BY <1>1, <1>2 DEF Types, TypeOK
    <2>3. 1 .. made \subseteq 1 .. made' /\ 0 .. made \subseteq 0 .. made' /\ made' \in 0 .. MaxPackets
      BY <1>2 DEF Types, Packets
    <2> QED
      BY <1>2, <2>1, <2>2, <2>3 DEF Types, TypeOK, Places
  <1>6. InBatch' = InBatch /\ Arriving' = Arriving \cup {t} /\ t \notin Arriving
    BY <1>2, <1>4 DEF InBatch, Arriving
  <1>7. OneInjects'
    BY <1>2, <1>4 DEF IInv, OneInjects
  <1>8. EnteredOnce'
    <2>1. 1 .. made \subseteq 1 .. made' /\ new \in 1 .. made'
      BY <1>2 DEF Types
    <2>2. \A u \in Arriving' : cur'[u] \in (1 .. made') \ Range(entered)
      BY <1>2, <1>4, <1>6, <2>1 DEF IInv, EnteredOnce, Arriving
    <2>3. \A u, v \in Arriving' : cur'[u] = cur'[v] => u = v
      BY <1>2, <1>4, <1>6 DEF IInv, EnteredOnce, Arriving
    <2> QED
      BY <1>2, <1>6, <2>1, <2>2, <2>3 DEF IInv, EnteredOnce
  <1>9. Ordered'
    <2>1. \A p \in Range(entered) : dir'[p] = dir[p]
      BY <1>2, <1>3 DEF IInv, EnteredOnce
    <2>2. \A p, r \in Range(entered) : FirstEntered(p, r) => FirstEntered(p, r)'
      BY <1>2, <2>1 DEF FirstEntered
    <2>3. \A p, r : Precedes(injected, p, r) => p \in Range(entered) /\ r \in Range(entered)
      BY PrecedesIn DEF IInv, EnteredOnce
    <2> QED
      BY <1>2, <1>6, <2>2, <2>3 DEF IInv, Ordered, EnteredOnce
  <1>10. Allowed'
    BY <1>2 DEF IInv, Allowed
  <1>11. Counted'
    <2>1. Underway' = Underway \cup {new}
      BY <1>2, <1>4, <1>6 DEF Underway, Arriving
    <2>2. Underway \subseteq 1 .. made /\ new \notin Underway
      BY <1>2, UnderwayFinite
    <2>3. ASSUME NEW e \in Directions
          PROVE  pending'[e] = Cardinality({p \in Underway' : dir'[p] = e})
      <3> DEFINE A == {p \in Underway : dir[p] = e}
      <3>1. IsFiniteSet(A) /\ new \notin A /\ pending[e] = Cardinality(A)
        BY <2>2, UnderwayFinite DEF IInv, Counted
      <3>2. CASE e = d
        <4>1. {p \in Underway' : dir'[p] = e} = A \cup {new}
          BY <1>3, <2>1, <2>2, <3>2
        <4>2. Cardinality(A \cup {new}) = Cardinality(A) + 1
          <5> HIDE DEF A
          <5> QED
            BY <3>1, FS_AddElement
        <4> QED
          BY <1>3, <3>1, <3>2, <4>1, <4>2
      <3>3. CASE e # d
        <4>1. {p \in Underway' : dir'[p] = e} = A
          BY <1>3, <2>1, <2>2, <3>3
        <4> QED
          BY <1>3, <3>1, <3>3, <4>1
      <3> QED
        BY <3>2, <3>3
    <2>4. stage' # "detached"
      BY <1>2 DEF Allocate, InList
    <2> QED
      BY <2>3, <2>4 DEF Counted
  <1>12. SameReports
    BY <1>2, <1>3 DEF SameReports, Types, TypeOK
  <1>13. Known' /\ PurgesAtEnd'
    <2>1. \A u \in Threads : Delivering(u) => Delivering(u)'
      BY <1>2, <1>4 DEF Delivering
    <2> QED
      BY <1>2, <1>4, <2>1, KnownKept DEF IInv, Throttled, PurgesAtEnd, Threads
  <1> QED
    BY <1>5, <1>7, <1>8, <1>9, <1>10, <1>11, <1>12, <1>13, ReportsKept DEF IInv

LEMMA EnqueueKeeps == ASSUME IInv, NEW t \in Threads, Enqueue(t) PROVE IInv'
  <1> USE DEF packetVars, reportVars, socketVars, bufferVars, callVars, flowVars
  <1>0. PICK p : p = cur[t]
    OBVIOUS
  <1>1. /\ Types /\ pc[t] = "enqueue" /\ q' = Append(q, p) /\ entered' = Append(entered, p)
        /\ UNCHANGED << made, dir, answered, allow, old, stage, events, free, inbox, cur, buf,
                        release, failed, outer, only, pending, mutex, batch, injected >>
    BY <1>0 DEF IInv, Enqueue
  <1>2. t \in Arriving /\ p \in (1 .. made) \ Range(entered) /\ p \in Packets
    <2>1. t \in Arriving /\ p \in (1 .. made) \ Range(entered)
      BY <1>0, <1>1 DEF Arriving, IInv, EnteredOnce
    <2> QED
      BY <1>1, <2>1, SocketsAssumption DEF Types, Packets
  <1>3. /\ pc'[t] \in {"release", "notify"} /\ pc' \in [Threads -> Places]
        /\ \A u \in Threads : u # t => pc'[u] = pc[u]
    BY <1>1 DEF Enqueue, GoTo, Types, Places
  <1>4. /\ q' \in Seq(Packets) /\ Range(q') = Range(q) \cup {p}
        /\ \A a, b : Precedes(q', a, b) <=> Precedes(q, a, b) \/ (a \in Range(q) /\ b = p)
    BY <1>1, <1>2, AppendOf DEF Types
  <1>5. /\ entered' \in Seq(Packets) /\ Range(entered') = Range(entered) \cup {p}
        /\ \A a, b : Precedes(entered', a, b) <=>
                       Precedes(entered, a, b) \/ (a \in Range(entered) /\ b = p)
    BY <1>1, <1>2, AppendOf DEF Types
  <1>6. InBatch' = InBatch /\ Arriving' = Arriving \ {t}
    BY <1>1, <1>3 DEF InBatch, Arriving
  <1>7. /\ Range(q) \subseteq Range(entered) /\ unreported \subseteq Range(q)
        /\ p \notin unreported /\ unreported \subseteq 1 .. made
    BY <1>1, <1>2 DEF IInv, EnteredOnce, Unforgotten, Types, TypeOK
  <1>8. OneInjects' /\ Allowed'
    BY <1>1, <1>3 DEF IInv, OneInjects, Allowed
  <1>9. EnteredOnce'
    <2>1. \A u \in Arriving' : cur'[u] \in (1 .. made') \ Range(entered')
      BY <1>0, <1>1, <1>2, <1>5, <1>6 DEF IInv, EnteredOnce
    <2> QED
      BY <1>1, <1>2, <1>4, <1>5, <1>6, <2>1 DEF IInv, EnteredOnce
  <1>10. Ordered'
    <2>1. \A a, b : FirstEntered(a, b) => FirstEntered(a, b)'
      BY <1>1, <1>5 DEF FirstEntered
    <2>2. \A a \in Range(entered) : FirstEntered(a, p)'
      BY <1>5 DEF FirstEntered
    <2>3. \A a : ~Precedes(entered', a, a)
      BY <1>2, <1>5 DEF IInv, Ordered
    <2>4. \A a, b : Precedes(q', a, b) => Precedes(entered', a, b)
      BY <1>4, <1>5, <1>7 DEF IInv, Ordered
    <2>5. \A u \in Threads : \A a, b : Precedes(batch'[u], a, b) => Precedes(entered', a, b)
      BY <1>1, <1>5 DEF IInv, Ordered
    <2>6. \A a \in InBatch', b \in Range(q') : FirstEntered(a, b)'
      BY <1>4, <1>6, <2>1, <2>2 DEF IInv, Ordered, EnteredOnce
    <2>7. \A a \in Range(injected)', b \in Range(q') \cup InBatch' : FirstEntered(a, b)'
      BY <1>1, <1>4, <1>6, <2>1, <2>2 DEF IInv, Ordered, EnteredOnce
    <2>8. \A a, b : Precedes(injected', a, b) => FirstEntered(a, b)'
      BY <1>1, <2>1 DEF IInv, Ordered
    <2> QED
      BY <2>3, <2>4, <2>5, <2>6, <2>7, <2>8 DEF Ordered
  <1>11. Counted'
    <2>1. {cur[u] : u \in Arriving} = {cur[u] : u \in Arriving \ {t}} \cup {p}
      BY <1>0, <1>2
    <2>2. Underway' = Underway
      BY <1>1, <1>4, <1>6, <2>1 DEF Underway
    <2> QED
      BY <1>1, <2>2 DEF IInv, Counted
  <1>12. \A u \in Threads : Delivering(u) => Delivering(u)'
    BY <1>1, <1>3 DEF Delivering
  <1>13. PurgesAtEnd'
    BY <1>1, <1>3 DEF IInv, Throttled, PurgesAtEnd, Threads
  <1>14. CASE Postponed(t)
    <2>1. /\ unreported' = unreported \cup {p} /\ waiting' = waiting + 1
          /\ listed' = (listed \/ waiting = 0) /\ shrunk' = (shrunk \/ dir[p] = "in")
          /\ waiter' = IF dir[p] = "out" THEN [waiter EXCEPT ![p] = t] ELSE waiter
      BY <1>0, <1>14 DEF Enqueue, Set
    <2>2. Types'
      <3>1. waiter' \in [Packets -> Threads \cup {NoThread}] /\ waiting' \in Nat
        BY <1>1, <1>2, <2>1 DEF Types, TypeOK
      <3> QED
        BY <1>1, <1>2, <1>3, <1>4, <1>5, <2>1, <3>1 DEF Types, TypeOK
    <2>3. waiting' = Cardinality(unreported')
      <3>1. IsFiniteSet(unreported)
        <4>1. IsFiniteSet(1 .. made)
          BY <1>1, FS_Interval DEF Types
        <4> QED
          BY <1>7, <4>1, FS_Subset
      <3>2. Cardinality(unreported \cup {p}) = Cardinality(unreported) + 1
        BY <1>7, <3>1, FS_AddElement
      <3> QED
        BY <2>1, <3>2 DEF IInv, Unforgotten
    <2>4. Known'
      <3>1. CASE unreported = {}
        <4>1. waiting = 0
          BY <3>1, FS_EmptySet DEF IInv, Unforgotten
        <4> QED
          BY <2>1, <4>1 DEF Known
      <3>2. CASE unreported # {}
        <4>1. listed \/ stage # "attached" \/ \E u \in Threads : Delivering(u)
          BY <3>2 DEF IInv, Unforgotten
        <4> QED
          BY <1>1, <1>12, <2>1, <4>1 DEF Known
      <3> QED
        BY <3>1, <3>2
    <2>5. \A a, b : Precedes(q', a, b) /\ a \in unreported' => b \in unreported'
      <3>1. \A a, b : Precedes(q, a, b) => a # p
        BY <1>2, <1>7, PrecedesIn
      <3> QED
        BY <1>2, <1>4, <1>7, <2>1, <3>1 DEF IInv, Unforgotten
    <2>6. unreported' \subseteq Range(q')
      BY <1>4, <1>7, <2>1
    <2>7. \A r \in Packets : waiter'[r] # NoThread => r \in unreported'
      BY <1>1, <2>1 DEF IInv, Unforgotten, Types, TypeOK
    <2>8. WindowReopens'
      BY <1>1, <2>1 DEF IInv, Throttled, WindowReopens
    <2>9. Unforgotten' /\ Throttled'
      BY <1>13, <2>3, <2>4, <2>5, <2>6, <2>7, <2>8 DEF Unforgotten, Throttled, Known, PurgesAtEnd
    <2> QED
      BY <1>8, <1>9, <1>10, <1>11, <2>2, <2>9 DEF IInv
  <1>15. CASE ~Postponed(t)
    <2>1. /\ UNCHANGED << unreported, waiting, listed, shrunk, waiter >> /\ waiting = 0
      BY <1>15 DEF Enqueue, Postponed
    <2>2. Types'
      BY <1>1, <1>2, <1>3, <1>4, <1>5, <2>1 DEF Types, TypeOK
    <2>3. unreported = {}
      <3>1. IsFiniteSet(unreported)
        <4>1. IsFiniteSet(1 .. made)
          BY <1>1, FS_Interval DEF Types
        <4> QED
          BY <1>7, <4>1, FS_Subset
      <3> QED
        BY <2>1, <3>1, FS_EmptySet DEF IInv, Unforgotten
    <2>4. Unforgotten'
      BY <1>1, <2>1, <2>3 DEF IInv, Unforgotten
    <2>5. Throttled'
      BY <1>1, <1>13, <2>1 DEF IInv, Throttled, WindowReopens, PurgesAtEnd
    <2> QED
      BY <1>8, <1>9, <1>10, <1>11, <2>2, <2>4, <2>5 DEF IInv
  <1> QED
    BY <1>14, <1>15

(* The mutex is free: nobody has a batch.                                  *)
LEMMA NoBatches ==
  ASSUME IInv, mutex = NoThread
  PROVE  /\ \A t \in Threads : batch[t] = << >> /\ pc[t] # "inject"
         /\ InBatch = {}
  <1>1. \A t \in Threads : batch[t] = << >> /\ pc[t] # "inject"
    BY SocketsAssumption DEF IInv, OneInjects
  <1> QED
    BY <1>1, EmptyOrder DEF InBatch

LEMMA Unfinished ==
  ASSUME IInv
  PROVE  /\ {cur[u] : u \in Arriving} \cap Range(entered) = {}
         /\ Range(q) \subseteq Range(entered) /\ Range(q) \subseteq 1 .. made
         /\ unreported \subseteq Range(q)
  BY DEF IInv, EnteredOnce, Unforgotten

LEMMA CollectKeeps == ASSUME IInv, NEW t \in Threads, Collect(t) PROVE IInv'
  <1> USE DEF packetVars, reportVars, socketVars, bufferVars, callVars, flowVars
  <1> DEFINE stays(k) == /\ Matches(q[k], Type(t))
                         /\ q[k] \in unreported \/ q[k] \notin answered \cup old
  <1>0. PICK R : R = Ready(Type(t))
    OBVIOUS
  <1>1. /\ Types /\ pc[t] = "collect" /\ mutex = NoThread /\ mutex' = t
        /\ batch' = [batch EXCEPT ![t] = Kept(q, R)] /\ q' = Kept(q, Range(q) \ R)
        /\ pc' = [pc EXCEPT ![t] = "inject"]
        /\ UNCHANGED << made, dir, answered, allow, old, unreported, waiter, waiting, listed, shrunk,
                        stage, events, free, inbox, cur, buf, release, failed, outer, only,
                        pending, entered, injected >>
    BY <1>0 DEF IInv, Collect, Set, GoTo
  <1>2. \A u \in Threads : batch[u] = << >> /\ pc[u] # "inject"
    BY <1>1, NoBatches
  <1>3. /\ Kept(q, R) \in Seq(Packets) /\ Range(Kept(q, R)) = Range(q) \cap R
        /\ \A a, b : Precedes(Kept(q, R), a, b) => Precedes(q, a, b)
    BY <1>1, KeptOf DEF Types
  <1>4. /\ q' \in Seq(Packets) /\ Range(q') = Range(q) \ R
        /\ \A a, b : Precedes(q', a, b) => Precedes(q, a, b)
    BY <1>1, KeptOf DEF Types
  <1>5. /\ batch'[t] = Kept(q, R) /\ pc'[t] = "inject"
        /\ \A u \in Threads : u # t => batch'[u] = << >> /\ pc'[u] = pc[u]
    BY <1>1, <1>2 DEF Types
  <1>6. InBatch' = Range(q) \cap R
    BY <1>3, <1>5, EmptyOrder DEF InBatch
  <1>7. Arriving' = Arriving /\ \A u \in Threads : Delivering(u) => Delivering(u)'
    BY <1>1, <1>5 DEF Arriving, Delivering
  <1>8. Types'
    <2>1. Range(q') \subseteq 1 .. made
      BY <1>4, Unfinished
    <2> QED
      BY <1>1, <1>3, <1>4, <2>1 DEF Types, TypeOK, Places
  <1>9. OneInjects' /\ Allowed'
    BY <1>1, <1>2, <1>5 DEF IInv, OneInjects, Allowed
  <1>10. EnteredOnce'
    BY <1>1, <1>4, <1>6, <1>7 DEF IInv, EnteredOnce
  <1>11. \A a, b : FirstEntered(a, b) => FirstEntered(a, b)'
    BY <1>1 DEF FirstEntered
  <1>12. ASSUME NEW a \in Range(q) \cap R, NEW b \in Range(q) \ R PROVE FirstEntered(a, b)
    <2> SUFFICES ASSUME dir[a] = dir[b] PROVE Precedes(entered, a, b)
      BY DEF FirstEntered
    <2>1. DOMAIN q = 1 .. Len(q) /\ Len(q) \in Nat
      BY <1>1 DEF Types
    <2>2. PICK i \in DOMAIN q : /\ a = q[i] /\ Matches(q[i], Type(t))
                                /\ \A k \in 1 .. i : ~stays(k)
      BY <1>0 DEF Ready
    <2>3. PICK j \in DOMAIN q : b = q[j]
      BY DEF Range
    <2>4. ~(j < i)
      <3> SUFFICES ASSUME j < i PROVE FALSE
        OBVIOUS
      <3>1. Matches(q[j], Type(t))
        BY <2>2, <2>3 DEF Matches
      <3>2. \A k \in 1 .. j : k \in 1 .. i
        BY <2>1
      <3> HIDE DEF stays
      <3>3. \A k \in 1 .. j : ~stays(k)
        BY <2>2, <3>2
      <3>4. q[j] \in Ready(Type(t))
        BY <3>1, <3>3 DEF Ready, stays
      <3> QED
        BY <1>0, <2>3, <3>4
    <2>5. i < j
      BY <2>1, <2>2, <2>3, <2>4
    <2> QED
      BY <2>2, <2>3, <2>5 DEF Precedes, IInv, Ordered
  <1>13. Ordered'
    <2>1. \A u \in Threads : \A a, b : Precedes(batch'[u], a, b) => Precedes(entered, a, b)
      BY <1>3, <1>5, EmptyOrder DEF IInv, Ordered
    <2>2. \A a, b : Precedes(q', a, b) => Precedes(entered, a, b)
      BY <1>4 DEF IInv, Ordered
    <2>3. \A a \in InBatch', b \in Range(q') : FirstEntered(a, b)'
      BY <1>4, <1>6, <1>11, <1>12
    <2>4. \A a \in Range(injected)', b \in Range(q') \cup InBatch' : FirstEntered(a, b)'
      BY <1>1, <1>4, <1>6, <1>11 DEF IInv, Ordered
    <2>5. \A a, b : Precedes(injected', a, b) => FirstEntered(a, b)'
      BY <1>1, <1>11 DEF IInv, Ordered
    <2> QED
      BY <1>1, <2>1, <2>2, <2>3, <2>4, <2>5 DEF IInv, Ordered
  <1>14. Counted'
    <2>1. Underway' = Underway
      <3>1. {cur[u] : u \in Arriving}' = {cur[u] : u \in Arriving}
        BY <1>1, <1>7
      <3>2. InBatch = {}
        BY <1>1, NoBatches
      <3> QED
        BY <1>4, <1>6, <3>1, <3>2 DEF Underway
    <2> QED
      BY <1>1, <2>1 DEF IInv, Counted
  <1>15. Unforgotten'
    <2>1. unreported \cap R = {}
      <3>1. ASSUME NEW a \in R PROVE a \notin unreported
        <4>1. PICK i \in DOMAIN q : /\ a = q[i] /\ Matches(q[i], Type(t))
                                    /\ \A k \in 1 .. i : ~stays(k)
          BY <1>0, <3>1 DEF Ready
        <4>2. i \in 1 .. i
          BY <1>1 DEF Types
        <4> QED
          BY <4>1, <4>2
      <3> QED
        BY <3>1
    <2>2. unreported' \subseteq Range(q')
      BY <1>1, <1>4, <2>1, Unfinished
    <2>3. Known'
      BY <1>1, <1>7, KnownKept
    <2> QED
      BY <1>1, <1>4, <2>2, <2>3 DEF IInv, Unforgotten, Known
  <1>16. Throttled'
    BY <1>1, <1>5 DEF IInv, Throttled, WindowReopens, Threads
  <1> QED
    BY <1>8, <1>9, <1>10, <1>13, <1>14, <1>15, <1>16 DEF IInv

LEMMA InjectKeeps == ASSUME IInv, NEW t \in Threads, Inject(t) PROVE IInv'
  <1> USE DEF packetVars, reportVars, socketVars, bufferVars, callVars, flowVars
  <1>0. PICK p, s : s = batch[t] /\ p = Head(s)
    OBVIOUS
  <1>1. /\ Types /\ pc[t] = "inject" /\ s # << >> /\ s \in Seq(Packets) /\ batch' = [batch EXCEPT ![t] = Tail(s)]
        /\ injected' = (IF Dropped(p) THEN injected ELSE Append(injected, p))
        /\ pending' = [pending EXCEPT ![dir[p]] = @ - 1]
        /\ UNCHANGED << q, made, dir, answered, allow, old, unreported, waiter, waiting, listed,
                        shrunk, stage, events, free, inbox, cur, buf, release, failed, outer, only,
                        pc, mutex, entered >>
    BY <1>0 DEF IInv, Types, Inject, Set
  <1>2. /\ Tail(s) \in Seq(Packets) /\ p \in Packets /\ Range(s) = Range(Tail(s)) \cup {p}
        /\ \A a, b : Precedes(Tail(s), a, b) => Precedes(s, a, b)
        /\ \A b \in Range(Tail(s)) : Precedes(s, p, b)
    BY <1>0, <1>1, TailOf
  <1>3. /\ batch'[t] = Tail(s) /\ \A u \in Threads : u # t => batch'[u] = batch[u] /\ batch[u] = << >>
        /\ mutex = t
    BY <1>1 DEF IInv, OneInjects, Types
  <1>4. InBatch = Range(s) /\ InBatch' = Range(Tail(s))
    BY <1>0, <1>3, EmptyOrder DEF InBatch
  <1>5. /\ p \notin Range(Tail(s)) /\ p \notin Range(q) /\ p \notin {cur[u] : u \in Arriving}
        /\ p \in Range(entered) /\ p \notin Range(injected)
    <2>1. p \in InBatch /\ ~Precedes(entered, p, p)
      BY <1>2, <1>4 DEF IInv, Ordered
    <2>2. p \notin Range(Tail(s))
      BY <1>0, <1>2, <2>1 DEF IInv, Ordered
    <2>3. p \notin Range(q) /\ p \notin Range(injected)
      BY <2>1 DEF IInv, Ordered, FirstEntered
    <2>4. p \in Range(entered)
      BY <2>1 DEF IInv, EnteredOnce
    <2> QED
      BY <2>2, <2>3, <2>4, Unfinished
  <1>6. /\ injected' \in Seq(Packets) /\ Range(injected') \subseteq Range(injected) \cup {p}
        /\ p \in Range(injected') => p \in allow
        /\ \A a, b : Precedes(injected', a, b) =>
                       Precedes(injected, a, b) \/ (a \in Range(injected) /\ b = p)
    <2>1. CASE Dropped(p)
      <3>1. injected' = injected
        BY <1>1, <2>1
      <3> QED
        BY <1>1, <1>5, <3>1 DEF Types
    <2>2. CASE ~Dropped(p)
      <3>1. injected' = Append(injected, p) /\ p \in allow
        BY <1>1, <2>2 DEF Dropped
      <3>2. injected \in Seq(Packets)
        BY <1>1 DEF Types
      <3> QED
        BY <1>2, <3>1, <3>2, AppendOf
    <2> QED
      BY <2>1, <2>2
  <1>7. Arriving' = Arriving /\ \A u \in Threads : Delivering(u) => Delivering(u)'
    BY <1>1 DEF Arriving, Delivering
  <1>8. OneInjects'
    BY <1>1, <1>3 DEF IInv, OneInjects
  <1>9. EnteredOnce' /\ Allowed'
    BY <1>1, <1>2, <1>4, <1>5, <1>6, <1>7 DEF IInv, EnteredOnce, Allowed
  <1>10. Ordered'
    <2>1. \A a, b : FirstEntered(a, b) => FirstEntered(a, b)'
      BY <1>1 DEF FirstEntered
    <2>2. \A u \in Threads : \A a, b : Precedes(batch'[u], a, b) => Precedes(entered, a, b)
      BY <1>0, <1>2, <1>3 DEF IInv, Ordered
    <2>3. \A a \in InBatch', b \in Range(q') : FirstEntered(a, b)'
      BY <1>1, <1>2, <1>4, <2>1 DEF IInv, Ordered
    <2>4. \A b \in Range(Tail(s)) : FirstEntered(p, b)
      BY <1>0, <1>2 DEF IInv, Ordered, FirstEntered
    <2>5. \A b \in Range(q) : FirstEntered(p, b)
      BY <1>2, <1>4 DEF IInv, Ordered
    <2>6. \A a \in Range(injected), b \in Range(q) \cup Range(s) : FirstEntered(a, b)
      BY <1>4 DEF IInv, Ordered
    <2>7. \A a \in Range(injected)', b \in Range(q') \cup InBatch' : FirstEntered(a, b)'
      BY <1>1, <1>2, <1>4, <1>6, <2>1, <2>4, <2>5, <2>6
    <2>8. \A a, b : Precedes(injected', a, b) => FirstEntered(a, b)'
      BY <1>2, <1>6, <2>1, <2>6 DEF IInv, Ordered
    <2> QED
      BY <1>1, <2>2, <2>3, <2>7, <2>8 DEF IInv, Ordered
  <1>11. Underway' = Underway \ {p} /\ p \in Underway
    <2>1. {cur[u] : u \in Arriving}' = {cur[u] : u \in Arriving}
      BY <1>1, <1>7
    <2> QED
      BY <1>1, <1>2, <1>4, <1>5, <2>1 DEF Underway
  <1>12. ASSUME NEW e \in Directions
         PROVE  /\ pending'[e] = Cardinality({r \in Underway' : dir'[r] = e})
                /\ pending'[e] \in Nat /\ pending'[e] <= pending[e]
    <2> DEFINE A == {r \in Underway : dir[r] = e}
    <2>1. IsFiniteSet(A) /\ pending[e] = Cardinality(A) /\ Cardinality(A) \in Nat
      BY UnderwayFinite DEF IInv, Counted
    <2>2. pending'[e] = IF e = dir[p] THEN pending[e] - 1 ELSE pending[e]
      BY <1>1 DEF Types, TypeOK
    <2>3. CASE e = dir[p]
      <3>1. {r \in Underway' : dir'[r] = e} = A \ {p} /\ p \in A
        BY <1>1, <1>11, <2>3
      <3> HIDE DEF A
      <3>2. Cardinality(A \ {p}) = Cardinality(A) - 1 /\ Cardinality(A \ {p}) \in Nat
        BY <2>1, <3>1, FS_RemoveElement, FS_CardinalityType
      <3>3. pending'[e] = Cardinality(A \ {p}) /\ pending'[e] \in Nat /\ pending'[e] <= pending[e]
        BY <2>1, <2>2, <2>3, <3>2
      <3> QED
        BY <3>1, <3>3
    <2>4. CASE e # dir[p]
      <3>1. {r \in Underway' : dir'[r] = e} = A
        BY <1>1, <1>11, <2>4
      <3> HIDE DEF A
      <3> QED
        BY <2>1, <2>2, <2>4, <3>1
    <2> QED
      BY <2>3, <2>4
  <1>13. Types'
    <2>1. pending' \in [Directions -> Nat]
      BY <1>1, <1>12 DEF Types, TypeOK
    <2> QED
      BY <1>1, <1>2, <1>6, <2>1 DEF Types, TypeOK
  <1>14. Counted'
    <2>1. ASSUME NEW e \in Directions, pending[e] = 0 PROVE pending'[e] = 0
      <3>1. pending'[e] \in Nat /\ pending'[e] <= 0
        BY <1>12, <2>1
      <3> QED
        BY <3>1
    <2> QED
      BY <1>1, <1>12, <2>1 DEF IInv, Counted
  <1>15. SameReports /\ Known' /\ PurgesAtEnd'
    <2>1. SameReports /\ PurgesAtEnd'
      BY <1>1 DEF SameReports, IInv, Throttled, PurgesAtEnd
    <2> QED
      BY <1>1, <1>7, <2>1, KnownKept
  <1> QED
    BY <1>8, <1>9, <1>10, <1>13, <1>14, <1>15, ReportsKept DEF IInv

LEMMA InjectedKeeps == ASSUME IInv, NEW t \in Threads, Injected(t) PROVE IInv'
  <1> USE DEF packetVars, reportVars, socketVars, bufferVars, callVars, flowVars
  <1>1. /\ Types /\ pc[t] = "inject" /\ batch[t] = << >> /\ mutex' = NoThread
        /\ pc' = [pc EXCEPT ![t] = AfterInjection(t)]
        /\ UNCHANGED << q, made, dir, answered, allow, old, unreported, waiter, waiting, listed,
                        shrunk, stage, events, free, inbox, cur, buf, release, failed, outer, only,
                        batch, pending, entered, injected >>
    BY DEF IInv, Injected, GoTo
  <1>2. AfterInjection(t) \in {"deliver", "completion", "idle"}
    BY DEF AfterInjection
  <1>3. /\ pc'[t] \in {"deliver", "completion", "idle"}
        /\ \A u \in Threads : u # t => pc'[u] = pc[u]
    BY <1>1, <1>2 DEF Types
  <1>4. Arriving' = Arriving /\ InBatch' = InBatch
    BY <1>1, <1>3 DEF Arriving, InBatch
  <1>5. Types'
    BY <1>1, <1>2 DEF Types, TypeOK, Places
  <1>6. OneInjects'
    <2>1. mutex = t /\ \A u \in Threads : u # t => pc[u] # "inject" /\ batch[u] = << >>
      BY <1>1 DEF IInv, OneInjects
    <2> QED
      BY <1>1, <1>3, <2>1, SocketsAssumption DEF OneInjects
  <1>7. EnteredOnce' /\ Ordered' /\ Allowed'
    <2>1. Ordered'
      BY <1>1, <1>4 DEF IInv, Ordered, FirstEntered
    <2> QED
      BY <1>1, <1>4, <2>1 DEF IInv, EnteredOnce, Allowed
  <1>8. Counted'
    <2>1. {cur[u] : u \in Arriving}' = {cur[u] : u \in Arriving}
      BY <1>1, <1>4
    <2>2. Underway' = Underway
      BY <1>1, <1>4, <2>1 DEF Underway
    <2> QED
      BY <1>1, <2>2 DEF IInv, Counted
  <1>9. SameReports /\ Known' /\ PurgesAtEnd'
    <2>1. \A u \in Threads : Delivering(u) => Delivering(u)'
      BY <1>1, <1>3 DEF Delivering
    <2>2. SameReports /\ PurgesAtEnd'
      BY <1>1, <1>3 DEF SameReports, IInv, Throttled, PurgesAtEnd, Threads
    <2> QED
      BY <1>1, <2>1, <2>2, KnownKept
  <1> QED
    BY <1>5, <1>6, <1>7, <1>8, <1>9, ReportsKept DEF IInv

LEMMA PurgeKeeps == ASSUME IInv, Purge PROVE IInv'
  <1> USE DEF packetVars, reportVars, socketVars, bufferVars, callVars, flowVars
  <1>0. PICK P : P = {p \in Range(q) : Matches(p, only)}
    OBVIOUS
  <1>1. /\ Types /\ pc[closer] = "purge" /\ mutex = NoThread
        /\ q' = Kept(q, Range(q) \ P) /\ unreported' = unreported \ P
        /\ waiter' = [p \in Packets |-> IF p \in P THEN NoThread ELSE waiter[p]]
        /\ waiting' = waiting - Cardinality(P \cap unreported)
        /\ pending' = [d \in Directions |-> pending[d] - Cardinality({p \in P : dir[p] = d})]
        /\ pc' = [pc EXCEPT ![closer] = AfterInjection(closer)]
        /\ UNCHANGED << made, dir, answered, allow, old, listed, shrunk, stage, events, free, inbox,
                        cur, buf, release, failed, outer, only, batch, mutex, entered, injected >>
    BY <1>0 DEF IInv, Purge, GoTo
  <1>2. AfterInjection(closer) \in {"deliver", "completion", "idle"}
    BY DEF AfterInjection
  <1>3. /\ closer \in Threads /\ pc'[closer] \in {"deliver", "completion", "idle"}
        /\ \A u \in Threads : u # closer => pc'[u] = pc[u]
    BY <1>1, <1>2 DEF Types, Threads
  <1>4. /\ q' \in Seq(Packets) /\ Range(q') = Range(q) \ P
        /\ \A a, b : Precedes(q', a, b) => Precedes(q, a, b)
    BY <1>1, KeptOf DEF Types
  <1>5. Arriving' = Arriving /\ InBatch' = InBatch /\ InBatch = {} /\ P \subseteq Range(q)
    BY <1>0, <1>1, <1>3, NoBatches DEF Arriving, InBatch
  <1>6. OneInjects' /\ EnteredOnce' /\ Allowed'
    <2>1. OneInjects'
      BY <1>1, <1>3, NoBatches DEF IInv, OneInjects
    <2> QED
      BY <1>1, <1>4, <1>5, <2>1 DEF IInv, EnteredOnce, Allowed
  <1>7. Ordered'
    <2>1. \A a, b : FirstEntered(a, b) => FirstEntered(a, b)'
      BY <1>1 DEF FirstEntered
    <2> QED
      BY <1>1, <1>4, <1>5, <2>1 DEF IInv, Ordered
  <1>8. Underway' = Underway \ P /\ P \subseteq Underway
    <2>1. {cur[u] : u \in Arriving}' = {cur[u] : u \in Arriving}
      BY <1>1, <1>5
    <2>2. {cur[u] : u \in Arriving} \cap P = {}
      BY <1>5, Unfinished
    <2> QED
      BY <1>4, <1>5, <2>1, <2>2 DEF Underway
  <1>9. ASSUME NEW d \in Directions
        PROVE  /\ pending'[d] = Cardinality({p \in Underway' : dir'[p] = d})
               /\ pending'[d] \in Nat /\ pending'[d] <= pending[d]
    <2> DEFINE A == {p \in Underway : dir[p] = d}
               B == {p \in P : dir[p] = d}
    <2>1. IsFiniteSet(A) /\ pending[d] = Cardinality(A) /\ Cardinality(A) \in Nat
      BY UnderwayFinite DEF IInv, Counted
    <2>2. pending'[d] = pending[d] - Cardinality(B)
      BY <1>1
    <2>3. {p \in Underway' : dir'[p] = d} = A \ B /\ A \cap B = B /\ B \in SUBSET A /\ A \ B \in SUBSET A
      BY <1>1, <1>8
    <2> HIDE DEF A, B
    <2>4. Cardinality(A \ B) = Cardinality(A) - Cardinality(A \cap B)
      BY <2>1, FS_Difference
    <2>5. Cardinality(A \ B) \in Nat /\ Cardinality(A \ B) <= Cardinality(A)
      BY <2>1, <2>3, FS_Subset, FS_CardinalityType
    <2>6. pending'[d] = Cardinality(A \ B)
      BY <2>1, <2>2, <2>3, <2>4
    <2> QED
      BY <2>1, <2>3, <2>5, <2>6
  <1>10. Counted'
    <2>1. ASSUME NEW d \in Directions, pending[d] = 0 PROVE pending'[d] = 0
      <3>1. pending'[d] \in Nat /\ pending'[d] <= 0
        BY <1>9, <2>1
      <3> QED
        BY <3>1
    <2> QED
      BY <1>1, <1>9, <2>1 DEF IInv, Counted
  <1>11. waiting' = Cardinality(unreported') /\ waiting' \in Nat
    <2>1. IsFiniteSet(unreported)
      <3>1. IsFiniteSet(1 .. made) /\ unreported \in SUBSET (1 .. made)
        BY <1>1, FS_Interval DEF Types, TypeOK
      <3> QED
        BY <3>1, FS_Subset
    <2>2. unreported \cap P = P \cap unreported
      OBVIOUS
    <2>3. /\ IsFiniteSet(unreported \ P)
          /\ Cardinality(unreported \ P) = Cardinality(unreported) - Cardinality(P \cap unreported)
      BY <2>1, <2>2, FS_Difference
    <2>4. Cardinality(unreported \ P) \in Nat
      BY <2>3, FS_CardinalityType
    <2> QED
      BY <1>1, <2>3, <2>4 DEF IInv, Unforgotten
  <1>12. Types'
    <2>1. pending' \in [Directions -> Nat]
      BY <1>1, <1>9
    <2>2. Range(q') \subseteq 1 .. made
      BY <1>4, Unfinished
    <2>3. waiter' \in [Packets -> Threads \cup {NoThread}]
      BY <1>1 DEF Types, TypeOK
    <2> QED
      BY <1>1, <1>2, <1>4, <1>11, <2>1, <2>2, <2>3 DEF Types, TypeOK, Places
  <1>13. Unforgotten'
    <2>1. \A u \in Threads : Delivering(u) => Delivering(u)'
      BY <1>1, <1>3 DEF Delivering
    <2>2. Known'
      BY <1>1, <2>1 DEF IInv, Unforgotten, Known
    <2>3. \A a, b : Precedes(q', a, b) /\ a \in unreported' => b \in unreported'
      <3>1. \A a, b : Precedes(q', a, b) => b \in Range(q) \ P
        BY <1>4, PrecedesIn
      <3> QED
        BY <1>1, <1>4, <3>1 DEF IInv, Unforgotten
    <2>4. unreported' \subseteq Range(q')
      BY <1>1, <1>4, Unfinished
    <2>5. \A r \in Packets : waiter'[r] # NoThread => r \in unreported'
      BY <1>1 DEF IInv, Unforgotten
    <2> QED
      BY <1>11, <2>2, <2>3, <2>4, <2>5 DEF Unforgotten, Known
  <1>14. Throttled'
    BY <1>1, <1>3 DEF IInv, Throttled, WindowReopens
  <1> QED
    BY <1>6, <1>7, <1>10, <1>12, <1>13, <1>14 DEF IInv

----------------------------------------------------------------------------
LEMMA StutterKeeps == ASSUME IInv, UNCHANGED vars PROVE IInv'
  <1>1. Types'
    BY DEF IInv, Types, TypeOK, vars, packetVars, reportVars, socketVars, bufferVars, callVars, flowVars
  <1> QED
    BY <1>1, NobodysStep DEF vars, packetVars

LEMMA WorksKeeps == ASSUME IInv, NEW t \in Threads, Works(t) PROVE IInv'
  <1>1. CASE FltData(t)
    BY <1>1, CopyKeeps, EnqueueKeeps, NotifyKeeps, AwakeKeeps DEF FltData
  <1>2. CASE ReleaseBuffer(t)
    BY <1>2, ReleaseBufferKeeps
  <1>3. CASE Deliver(t)
    BY <1>3, TakeSocketKeeps, LockSocketKeeps, ReportKeeps, ReportedAllKeeps, ReinsertKeeps,
       LeaveFailedKeeps DEF Deliver
  <1>4. CASE Reinject(t)
    BY <1>4, CollectKeeps, InjectKeeps, InjectedKeeps DEF Reinject
  <1> QED
    BY <1>1, <1>2, <1>3, <1>4 DEF Works

LEMMA EventsKeep ==
  ASSUME IInv, Closing \/ ShutdownWrite \/ CantReceive \/ Disconnecting PROVE IInv'
  <1>1. {"in"} \in SUBSET Directions /\ {"out"} \in SUBSET Directions
    BY DEF Directions
  <1>2. CASE Closing
    BY <1>1, <1>2, EventKeeps DEF Closing
  <1>3. CASE ShutdownWrite
    BY <1>1, <1>3, EventKeeps DEF ShutdownWrite
  <1>4. CASE CantReceive
    BY <1>1, <1>4, EventKeeps DEF CantReceive
  <1>5. CASE Disconnecting
    BY <1>5, EventKeeps DEF Disconnecting
  <1> QED
    BY <1>2, <1>3, <1>4, <1>5

(* The invariant holds in every state the socket can be in.                *)
THEOREM Inductive == Spec => []IInv
  <1>1. Init => IInv
    BY InitIInv
  <1>2. IInv /\ [Next]_vars => IInv'
    <2> SUFFICES ASSUME IInv, [Next]_vars PROVE IInv'
      OBVIOUS
    <2>1. ASSUME NEW t \in Threads, Works(t) PROVE IInv'
      BY <2>1, WorksKeeps
    <2>2. ASSUME NEW t \in Callers, Allocate(t) PROVE IInv'
      BY <2>2, AllocateKeeps DEF Threads
    <2>3. ASSUME NEW t \in Services, Respond(t) \/ Answer(t) PROVE IInv'
      BY <2>3, RespondKeeps, AnswerKeeps DEF Threads
    <2>4. CASE InjectorWakes
      BY <2>4, InjectorWakesKeeps
    <2>5. CASE Closing \/ ShutdownWrite \/ CantReceive \/ Disconnecting
      BY <2>5, EventsKeep
    <2>6. CASE Detach
      BY <2>6, DetachKeeps
    <2>7. CASE Completed
      BY <2>7, CompletedKeeps
    <2>8. CASE Purge
      BY <2>8, PurgeKeeps
    <2>9. CASE Expire \/ ServiceLeaves
      BY <2>9, ExpireKeeps, ServiceLeavesKeeps
    <2>10. CASE UNCHANGED vars
      BY <2>10, StutterKeeps
    <2> QED
      BY <2>1, <2>2, <2>3, <2>4, <2>5, <2>6, <2>7, <2>8, <2>9, <2>10 DEF Next
  <1> QED
    BY <1>1, <1>2, PTL DEF Spec

(* No packet that waits for the service is forgotten, whatever comes in    *)
(* between, and none leaves its sender asleep or the socket throttled: the *)
(* list of sockets to report, DeliverWaitingNotifications and              *)
(* purgePendingQueue together.                                             *)
THEOREM NothingForgotten == Spec => []NoneForgotten
  <1>1. IInv => NoneForgotten
    <2> SUFFICES ASSUME IInv PROVE NoneForgotten
      OBVIOUS
    <2>1. \A i, j \in DOMAIN q : i < j /\ q[i] \in unreported => q[j] \in unreported
      BY DEF IInv, Unforgotten, Precedes
    <2> QED
      BY <2>1 DEF IInv, Types, Unforgotten, Throttled, NoneForgotten, WaitersReported
  <1> QED
    BY <1>1, Inductive, PTL

(* Packets of one direction are injected once, in the order of their       *)
(* arrival, and only when the service allowed them, for any number of      *)
(* threads that reinject (reinjectDeferredData).                           *)
THEOREM InjectedInOrder == Spec => []InOrder
  <1>1. IInv => InOrder
    <2> SUFFICES ASSUME IInv PROVE InOrder
      OBVIOUS
    <2>1. \A p \in Range(injected) : p \in answered \cap allow
      BY DEF IInv, Allowed
    <2>2. ASSUME NEW i \in DOMAIN injected, NEW j \in DOMAIN injected, i < j
          PROVE  /\ injected[i] # injected[j]
                 /\ dir[injected[i]] = dir[injected[j]] =>
                      Precedes(entered, injected[i], injected[j])
      <3>1. Precedes(injected, injected[i], injected[j])
        BY <2>2 DEF Precedes
      <3>2. FirstEntered(injected[i], injected[j]) /\ ~Precedes(entered, injected[i], injected[i])
        BY <3>1 DEF IInv, Ordered
      <3> QED
        BY <3>2 DEF FirstEntered
    <2> QED
      BY <2>1, <2>2 DEF InOrder, Precedes
  <1> QED
    BY <1>1, Inductive, PTL

(* When FltDetach has returned nothing of the socket is pending.           *)
THEOREM DetachedForGood == Spec => []NothingAfterDetach
  <1>1. IInv => NothingAfterDetach
    <2> SUFFICES ASSUME IInv, stage = "detached"
                 PROVE  /\ q = << >> /\ waiting = 0 /\ \A d \in Directions : pending[d] = 0
                        /\ \A t \in Threads : batch[t] = << >>
      BY DEF NothingAfterDetach
    <2>1. \A d \in Directions : pending[d] = 0
      BY DEF IInv, Counted
    <2>2. Underway = {}
      <3>1. \A d \in Directions : {p \in Underway : dir[p] = d} = {}
        BY <2>1, UnderwayFinite, FS_EmptySet DEF IInv, Counted
      <3>2. \A p \in Underway : p \in Packets
        BY UnderwayFinite, SocketsAssumption DEF IInv, Types, Packets
      <3>3. \A p \in Underway : dir[p] \in Directions
        BY <3>2 DEF IInv, Types, TypeOK
      <3> QED
        BY <3>1, <3>3
    <2>3. Range(q) = {} /\ \A t \in Threads : Range(batch[t]) = {}
      BY <2>2 DEF Underway, InBatch
    <2>4. q \in Seq(Packets) /\ \A t \in Threads : batch[t] \in Seq(Packets)
      BY DEF IInv, Types
    <2>5. ASSUME NEW s \in Seq(Packets), Range(s) = {} PROVE s = << >>
      <3>1. ASSUME s # << >> PROVE FALSE
        <4>1. s[1] \in Range(s)
          BY <3>1 DEF Range
        <4> QED
          BY <2>5, <4>1
      <3> QED
        BY <3>1
    <2>6. q = << >> /\ \A t \in Threads : batch[t] = << >>
      BY <2>3, <2>4, <2>5
    <2>7. waiting = 0
      <3>1. unreported = {}
        BY <2>3 DEF IInv, Unforgotten
      <3> QED
        BY <3>1, FS_EmptySet DEF IInv, Unforgotten
    <2> QED
      BY <2>1, <2>6, <2>7
  <1> QED
    BY <1>1, Inductive, PTL

=============================================================================
