----------------------------- MODULE CawlProofs -----------------------------
(***************************************************************************)
(* The chunks of the data file of a covered vnode, the notifications to    *)
(* the service about it, and the data of the covered file.                 *)
(*                                                                         *)
(* Until the file is opened again without its list of free chunks or with  *)
(* an old header, no chunk of it is handed out twice, whatever the capacity*)
(* of a descriptor and the size of the file.  The invariant follows the    *)
(* list of free chunks.  A place of the list is <<i, 0>>, the chunk that backs  *)
(* the i-th descriptor from the end, or <<i, k>>, its k-th entry: no chunk *)
(* stands in two places, or in one and among those in use.                 *)
(*                                                                         *)
(* The answer of the service reaches the thread that has asked, for any    *)
(* number of threads and of notifications.  A notification has one answer  *)
(* at most, so that one that is in the queue has none, and the threads in  *)
(* the function have different notifications.                              *)
(*                                                                         *)
(* A read of an isolated file finds what was written last: its units are   *)
(* tracked one by one through writes, purges and changes of the size.      *)
(***************************************************************************)
EXTENDS FreeChunks, DiskCawl, CoveredFile, FiniteSetTheorems, SequenceTheorems, TLAPS

Links == Offsets \cup {InvalidOffset}
Descriptors == [kind : {"free"}, entries : Seq(Offsets), flink : Links]

(* Every variable has its type.                                            *)
TypeOK ==
  /\ opened \in BOOLEAN /\ sound \in BOOLEAN
  /\ fileSize \in 3 .. MaxSize /\ breakOffset \in 0 .. fileSize
  /\ firstFreeChunk \in Links
  /\ descriptor \in {NoDescriptor} \cup Descriptors
  /\ disk \in [Offsets -> {Data} \cup Descriptors]
  /\ header \in [break : 0 .. fileSize, first : Links]
  /\ used \subseteq Offsets /\ chain \in Seq(Offsets)

(* The i-th descriptor from the end of the list, and what it links to.     *)
DescriptorAt(i) == IF i = Len(chain) THEN descriptor ELSE disk[chain[i]]
LinkOf(i) == IF i = 1 THEN InvalidOffset ELSE chain[i - 1]

(* The list in memory and on the disk is the one of the history variable.  *)
Chained ==
  /\ descriptor = NoDescriptor <=> Len(chain) = 0
  /\ firstFreeChunk = IF Len(chain) = 0 THEN InvalidOffset ELSE chain[Len(chain)]
  /\ \A i \in 1 .. Len(chain) :
       /\ DescriptorAt(i) \in Descriptors
       /\ Len(DescriptorAt(i).entries) \in 1 .. Capacity
       /\ DescriptorAt(i).flink = LinkOf(i)

Places ==
  {p \in (1 .. Len(chain)) \X (0 .. Capacity) : p[2] <= Len(DescriptorAt(p[1]).entries)}
At == [p \in Places |-> IF p[2] = 0 THEN chain[p[1]] ELSE DescriptorAt(p[1]).entries[p[2]]]

Different(f, T) ==
  /\ \A x \in DOMAIN f : f[x] \in T
  /\ \A x, y \in DOMAIN f : f[x] = f[y] => x = y

Taken == 1 .. breakOffset - 1

IInv ==
  /\ TypeOK
  /\ sound => breakOffset >= 1 /\ used \subseteq Taken
  /\ sound /\ opened => Chained /\ Different(At, Taken \ used)

----------------------------------------------------------------------------
(* Facts about functions, sequences and the list *)

LEMMA Kept ==
  ASSUME NEW f, NEW g, NEW T, NEW U, Different(f, T),
         \A x \in DOMAIN g : x \in DOMAIN f /\ g[x] = f[x] /\ g[x] \in U
  PROVE  Different(g, U)
  BY DEF Different

LEMMA FrontOf ==
  ASSUME NEW S, NEW s \in Seq(S), Len(s) # 0
  PROVE  /\ Front(s) \in Seq(S) /\ Len(Front(s)) = Len(s) - 1
         /\ \A k \in 1 .. Len(s) - 1 : Front(s)[k] = s[k]
         /\ Final(s) \in S
  <1>1. Len(s) \in Nat /\ Len(s) - 1 \in Nat /\ \A k \in 1 .. Len(s) - 1 : s[k] \in S
    OBVIOUS
  <1>2. /\ Front(s) \in Seq(S)
        /\ Len(Front(s)) = IF 1 <= Len(s) - 1 THEN Len(s) - 1 - 1 + 1 ELSE 0
        /\ \A i \in 1 .. Len(s) - 1 - 1 + 1 : Front(s)[i] = s[1 + i - 1]
    BY <1>1, SubSeqProperties DEF Front
  <1>4. Len(Front(s)) = Len(s) - 1
    <2>1. ASSUME NEW m \in Nat, Len(s) = m, m # 0
          PROVE  (IF 1 <= m - 1 THEN m - 1 - 1 + 1 ELSE 0) = m - 1
      BY <2>1
    <2> QED
      BY <1>1, <1>2, <2>1
  <1>5. ASSUME NEW k \in 1 .. Len(s) - 1 PROVE Front(s)[k] = s[k]
    <2>1. k \in 1 .. Len(s) - 1 - 1 + 1 /\ 1 + k - 1 = k
      BY <1>1
    <2>2. Front(s)[k] = s[1 + k - 1]
      BY <1>2, <2>1
    <2> QED
      BY <2>1, <2>2
  <1>3. s[Len(s)] \in S
    BY <1>1
  <1> QED
    BY <1>2, <1>3, <1>4, <1>5 DEF Final

LEMMA ExpandedMore ==
  ASSUME NEW size \in Nat
  PROVE  Expanded(size) \in Nat /\ Expanded(size) >= size + 1
  BY DEF Expanded

(* The chunks of a list are in Offsets and stand in their places.          *)
LEMMA PlaceOf ==
  ASSUME TypeOK, Chained, NEW i \in 1 .. Len(chain)
  PROVE  /\ << i, 0 >> \in Places /\ At[<< i, 0 >>] = chain[i] /\ chain[i] \in Offsets
         /\ \A k \in 1 .. Len(DescriptorAt(i).entries) :
              << i, k >> \in Places /\ At[<< i, k >>] = DescriptorAt(i).entries[k]
  <1>1. Len(DescriptorAt(i).entries) \in 1 .. Capacity
    BY DEF Chained
  <1>2. Capacity \in Nat
    BY ChunksAssumption
  <1>3. ASSUME NEW k \in 0 .. Len(DescriptorAt(i).entries)
        PROVE  << i, k >> \in Places
    BY <1>1, <1>2, <1>3 DEF Places
  <1>4. chain[i] \in Offsets
    BY DEF TypeOK
  <1> QED
    BY <1>1, <1>3, <1>4 DEF At

LEMMA PlaceIs ==
  ASSUME NEW p \in Places
  PROVE  \E i \in 1 .. Len(chain) : \E k \in 0 .. Len(DescriptorAt(i).entries) : p = << i, k >>
  BY ChunksAssumption DEF Places

(* The descriptor in memory is the last place.                             *)
LEMMA LastPlace ==
  ASSUME TypeOK, Chained, descriptor # NoDescriptor
  PROVE  /\ Len(chain) \in Nat \ {0} /\ DescriptorAt(Len(chain)) = descriptor
         /\ descriptor \in Descriptors /\ Len(descriptor.entries) \in 1 .. Capacity
         /\ descriptor.flink = LinkOf(Len(chain))
         /\ firstFreeChunk = chain[Len(chain)] /\ firstFreeChunk \in Offsets
  <1>1. Len(chain) \in Nat \ {0}
    BY DEF TypeOK, Chained
  <1>2. DescriptorAt(Len(chain)) = descriptor
    BY DEF DescriptorAt
  <1>3. chain[Len(chain)] \in Offsets
    BY <1>1 DEF TypeOK
  <1> QED
    BY <1>1, <1>2, <1>3 DEF Chained

(* The property holds in every state of the invariant.                     *)
LEMMA OfferedFree ==
  ASSUME IInv PROVE NoDoubleUse
  <1> SUFFICES ASSUME sound, opened
               PROVE  Offered \notin used \cup {0} /\ firstFreeChunk \notin used \cup {0}
    BY DEF NoDoubleUse, UsedOnce
  <1> USE DEF IInv
  <1>0. breakOffset \in Nat \ {0}
    BY ChunksAssumption DEF TypeOK
  <1>1. CASE descriptor = NoDescriptor
    <2>1. Offered = breakOffset /\ firstFreeChunk = InvalidOffset
      BY <1>1 DEF Offered, Chained
    <2> QED
      BY <1>0, <2>1 DEF Taken, InvalidOffset
  <1>2. CASE descriptor # NoDescriptor
    <2>1. /\ Len(chain) \in 1 .. Len(chain) /\ DescriptorAt(Len(chain)) = descriptor
          /\ Len(descriptor.entries) \in 1 .. Len(descriptor.entries)
          /\ firstFreeChunk = chain[Len(chain)]
      BY <1>2, LastPlace, ChunksAssumption
    <2>2. \E p \in Places : At[p] = Offered
      BY <1>2, <2>1, PlaceOf DEF Offered, Final
    <2>3. \E p \in Places : At[p] = firstFreeChunk
      BY <2>1, PlaceOf
    <2>4. \A p \in Places : At[p] \in Taken \ used
      BY DEF Different, At
    <2> QED
      BY <1>0, <2>2, <2>3, <2>4 DEF Taken
  <1> QED
    BY <1>1, <1>2

----------------------------------------------------------------------------
(* The list after each operation *)

Listed == Chained /\ Different(At, Taken \ used)

LEMMA EmptyList ==
  ASSUME chain' = << >>, descriptor' = NoDescriptor, firstFreeChunk' = InvalidOffset
  PROVE  Listed'
  BY DEF Listed, Chained, Different, At, Places

(* A chunk that is in use may be forgotten.                                *)
LEMMA SameList ==
  ASSUME TypeOK, Listed, UNCHANGED << firstFreeChunk, descriptor, disk, chain >>,
         Taken \ used \subseteq (Taken \ used)'
  PROVE  Listed'
  <1>1. Chained' /\ At' = At
    BY DEF Listed, Chained, At, Places, DescriptorAt, LinkOf
  <1>2. \A x \in DOMAIN At : At[x] \in (Taken \ used)'
    BY DEF Listed, Different
  <1> QED
    BY <1>1, <1>2 DEF Listed, Different

LEMMA AllocateFromListKeeps ==
  ASSUME IInv, AllocateFromList PROVE Listed'
  <1> DEFINE n == Len(chain)
             c == Final(descriptor.entries)
  <1>1. /\ TypeOK /\ Chained /\ Different(At, Taken \ used) /\ descriptor # NoDescriptor
        /\ used' = used \cup {c} /\ disk' = [disk EXCEPT ![c] = Data]
        /\ breakOffset' = breakOffset
    BY DEF IInv, AllocateFromList, Works, HandOut
  <1>2. /\ n \in Nat \ {0} /\ DescriptorAt(n) = descriptor /\ descriptor \in Descriptors
        /\ Len(descriptor.entries) \in 1 .. Capacity /\ descriptor.flink = LinkOf(n)
        /\ firstFreeChunk = chain[n]
    BY <1>1, LastPlace
  <1>3. Capacity \in Nat /\ Len(descriptor.entries) \in Nat
    BY <1>2, ChunksAssumption
  <1>4. /\ << n, Len(descriptor.entries) >> \in Places
        /\ At[<< n, Len(descriptor.entries) >>] = c
    <2>1. n \in 1 .. Len(chain) /\ Len(descriptor.entries) \in 1 .. Len(DescriptorAt(n).entries)
      BY <1>2, <1>3
    <2>2. \A k \in 1 .. Len(DescriptorAt(n).entries) :
            << n, k >> \in Places /\ At[<< n, k >>] = DescriptorAt(n).entries[k]
      BY <1>1, <2>1, PlaceOf
    <2> QED
      BY <1>2, <2>1, <2>2 DEF Final
  (* No other place has the chunk that is handed out.                      *)
  <1>5. \A p \in Places : p # << n, Len(descriptor.entries) >> => At[p] \in (Taken \ used)'
    BY <1>1, <1>4 DEF Different, At, Taken
  <1>6. ASSUME NEW i \in 1 .. n PROVE chain[i] # c /\ chain[i] \in Offsets
    <2>1. << i, 0 >> \in Places /\ At[<< i, 0 >>] = chain[i] /\ chain[i] \in Offsets
      BY <1>1, PlaceOf
    <2>2. << i, 0 >> # << n, Len(descriptor.entries) >>
      BY <1>2
    <2> QED
      BY <1>1, <1>4, <2>1, <2>2 DEF Different, At
  <1>7. \A i \in 1 .. n : disk'[chain[i]] = disk[chain[i]]
    BY <1>1, <1>6 DEF TypeOK
  <1>8. CASE /\ Len(descriptor.entries) # 1
             /\ descriptor' = [descriptor EXCEPT !.entries = Front(@)]
             /\ UNCHANGED << firstFreeChunk, chain >>
    <2>1. /\ descriptor' \in Descriptors /\ descriptor'.flink = descriptor.flink
          /\ descriptor'.entries = Front(descriptor.entries)
          /\ Len(descriptor'.entries) = Len(descriptor.entries) - 1
          /\ \A k \in 1 .. Len(descriptor.entries) - 1 :
               descriptor'.entries[k] = descriptor.entries[k]
      <3>1. descriptor.entries \in Seq(Offsets) /\ Len(descriptor.entries) # 0
        BY <1>2, <1>3 DEF Descriptors
      <3>2. /\ Front(descriptor.entries) \in Seq(Offsets)
            /\ Len(Front(descriptor.entries)) = Len(descriptor.entries) - 1
            /\ \A k \in 1 .. Len(descriptor.entries) - 1 :
                 Front(descriptor.entries)[k] = descriptor.entries[k]
        BY <3>1, FrontOf
      <3>3. /\ descriptor' \in Descriptors /\ descriptor'.flink = descriptor.flink
            /\ descriptor'.entries = Front(descriptor.entries)
        BY <1>2, <1>8, <3>2 DEF Descriptors
      <3> QED
        BY <3>2, <3>3
    <2>2. \A i \in 1 .. n : DescriptorAt(i)' = IF i = n THEN descriptor' ELSE DescriptorAt(i)
      BY <1>7, <1>8 DEF DescriptorAt
    <2>3. Len(descriptor'.entries) \in 1 .. Capacity
      <3>1. Len(descriptor.entries) \in 2 .. Capacity
        <4>1. Len(descriptor.entries) # 1 /\ Len(descriptor.entries) \in 1 .. Capacity
          BY <1>2, <1>8
        <4>2. ASSUME NEW l \in 1 .. Capacity, l # 1 PROVE l \in 2 .. Capacity
          BY <1>3, <4>2
        <4> QED
          BY <4>1, <4>2
      <3> QED
        BY <1>3, <2>1, <3>1
    <2>4. Chained'
      <3>1. descriptor' # NoDescriptor
        BY <2>1 DEF Descriptors, NoDescriptor
      <3>2. \A i \in 1 .. n : LinkOf(i)' = LinkOf(i)
        BY <1>8 DEF LinkOf
      <3> QED
        BY <1>1, <1>2, <1>8, <2>1, <2>2, <2>3, <3>1, <3>2 DEF Chained
    <2>5. ASSUME NEW p \in Places'
          PROVE  /\ p \in Places /\ At'[p] = At[p]
                 /\ p # << n, Len(descriptor.entries) >>
      <3>1. PICK i \in 1 .. n : \E k \in 0 .. Capacity :
              p = << i, k >> /\ k <= Len(DescriptorAt(i)'.entries)
        BY <1>8 DEF Places
      <3>2. PICK k \in 0 .. Capacity : p = << i, k >> /\ k <= Len(DescriptorAt(i)'.entries)
        BY <3>1
      <3>3. CASE i = n
        <4>1. DescriptorAt(i)' = descriptor' /\ k <= Len(descriptor.entries) - 1
          BY <3>2, <3>3, <2>1, <2>2
        <4>2. p \in Places /\ p # << n, Len(descriptor.entries) >>
          BY <3>2, <3>3, <4>1, <1>2, <1>3 DEF Places
        <4>3. k = 0 \/ descriptor'.entries[k] = descriptor.entries[k]
          BY <4>1, <1>3, <2>1
        <4> QED
          BY <3>2, <3>3, <4>1, <4>2, <4>3, <1>2, <1>8 DEF At
      <3>4. CASE i # n
        BY <3>2, <3>4, <2>2, <1>8 DEF At, Places
      <3> QED
        BY <3>3, <3>4
    <2>6. Different(At', (Taken \ used)')
      <3>1. \A x \in DOMAIN At' :
              x \in DOMAIN At /\ At'[x] = At[x] /\ At'[x] \in (Taken \ used)'
        BY <2>5, <1>5 DEF At
      <3> QED
        BY <3>1, <1>1, Kept
    <2> QED
      BY <2>4, <2>6 DEF Listed, Different
  <1>9. CASE /\ descriptor.flink # InvalidOffset
             /\ firstFreeChunk' = descriptor.flink /\ descriptor' = disk[descriptor.flink]
             /\ chain' = Front(chain)
    <2>1. n # 1 /\ descriptor.flink = chain[n - 1]
      BY <1>2, <1>9 DEF LinkOf
    <2>2. /\ n - 1 \in 1 .. n /\ Len(chain') = n - 1
          /\ \A i \in 1 .. n - 1 : chain'[i] = chain[i]
      <3>1. chain \in Seq(Offsets) /\ Len(chain) # 0
        BY <1>1, <1>2 DEF TypeOK
      <3>2. Len(Front(chain)) = n - 1 /\ \A k \in 1 .. n - 1 : Front(chain)[k] = chain[k]
        BY <3>1, FrontOf
      <3> QED
        BY <1>2, <1>9, <2>1, <3>2
    <2>3. \A i \in 1 .. n - 1 : DescriptorAt(i)' = DescriptorAt(i) /\ LinkOf(i)' = LinkOf(i)
      BY <1>2, <1>7, <1>9, <2>1, <2>2 DEF DescriptorAt, LinkOf
    <2>4. Chained'
      <3>1. descriptor' = DescriptorAt(n - 1)
        BY <1>2, <1>9, <2>1 DEF DescriptorAt
      <3>2. descriptor' # NoDescriptor
        BY <3>1, <2>2, <1>1 DEF Chained, Descriptors, NoDescriptor
      <3>3. \A i \in 1 .. n - 1 : i \in 1 .. n
        BY <1>2
      <3> QED
        BY <1>1, <1>2, <1>9, <2>1, <2>2, <2>3, <3>2, <3>3 DEF Chained
    <2>5. ASSUME NEW p \in Places'
          PROVE  /\ p \in Places /\ At'[p] = At[p]
                 /\ p # << n, Len(descriptor.entries) >>
      BY <1>2, <2>2, <2>3 DEF Places, At
    <2>6. Different(At', (Taken \ used)')
      <3>1. \A x \in DOMAIN At' :
              x \in DOMAIN At /\ At'[x] = At[x] /\ At'[x] \in (Taken \ used)'
        BY <2>5, <1>5 DEF At
      <3> QED
        BY <3>1, <1>1, Kept
    <2> QED
      BY <2>4, <2>6 DEF Listed, Different
  <1>10. CASE firstFreeChunk' = InvalidOffset /\ descriptor' = NoDescriptor /\ chain' = << >>
    BY <1>10, EmptyList
  <1> QED
    BY <1>8, <1>9, <1>10 DEF AllocateFromList, NextDescriptor

LEMMA ReturnToPoolKeeps ==
  ASSUME IInv, Works, NEW c \in used, ReturnToPool(c), used' = used \ {c}
  PROVE  Listed'
  <1>1. c \in Taken /\ breakOffset = c + 1 /\ breakOffset' = c /\ c \in Nat
    BY DEF IInv, Works, ReturnToPool, TypeOK, Taken, Offsets
  <1>2. Taken \ used \subseteq (Taken \ used)'
    BY <1>1 DEF Taken
  <1> QED
    BY <1>2, SameList DEF IInv, Works, ReturnToPool, Listed

LEMMA ReturnToDescriptorKeeps ==
  ASSUME IInv, Works, NEW c \in used, ReturnToDescriptor(c), used' = used \ {c}
  PROVE  Listed'
  <1> DEFINE n == Len(chain)
             m == Len(descriptor.entries)
  <1>1. /\ TypeOK /\ Chained /\ Different(At, Taken \ used) /\ descriptor # NoDescriptor
        /\ c \in Offsets /\ c \in Taken /\ breakOffset' = breakOffset /\ m < Capacity
        /\ UNCHANGED << firstFreeChunk, disk, chain >>
        /\ descriptor' = [descriptor EXCEPT !.entries = Append(@, c)]
    BY DEF IInv, Works, ReturnToDescriptor, TypeOK
  <1>2. /\ n \in Nat \ {0} /\ DescriptorAt(n) = descriptor /\ descriptor \in Descriptors
        /\ m \in 1 .. Capacity /\ descriptor.flink = LinkOf(n) /\ firstFreeChunk = chain[n]
    BY <1>1, LastPlace
  <1>3. Capacity \in Nat /\ m \in Nat /\ m + 1 \in 1 .. Capacity
    BY <1>1, <1>2, ChunksAssumption
  <1>4. /\ descriptor' \in Descriptors /\ descriptor'.flink = descriptor.flink
        /\ Len(descriptor'.entries) = m + 1
        /\ \A k \in 1 .. m : descriptor'.entries[k] = descriptor.entries[k]
        /\ descriptor'.entries[m + 1] = c
    <2>1. descriptor.entries \in Seq(Offsets)
      BY <1>2 DEF Descriptors
    <2>2. /\ Append(descriptor.entries, c) \in Seq(Offsets)
          /\ Len(Append(descriptor.entries, c)) = m + 1
          /\ \A k \in 1 .. m : Append(descriptor.entries, c)[k] = descriptor.entries[k]
          /\ Append(descriptor.entries, c)[m + 1] = c
      BY <1>1, <2>1, AppendProperties
    <2>3. /\ descriptor' \in Descriptors /\ descriptor'.flink = descriptor.flink
          /\ descriptor'.entries = Append(descriptor.entries, c)
      BY <1>1, <1>2, <2>2 DEF Descriptors
    <2> QED
      BY <2>2, <2>3
  <1>5. \A i \in 1 .. n : /\ DescriptorAt(i)' = IF i = n THEN descriptor' ELSE DescriptorAt(i)
                          /\ LinkOf(i)' = LinkOf(i)
    BY <1>1 DEF DescriptorAt, LinkOf
  <1>6. Chained'
    <2>1. descriptor' # NoDescriptor
      BY <1>4 DEF Descriptors, NoDescriptor
    <2> QED
      BY <1>1, <1>2, <1>3, <1>4, <1>5, <2>1 DEF Chained
  <1>7. ASSUME NEW p \in Places'
        PROVE  (p = << n, m + 1 >> /\ At'[p] = c) \/ (p \in Places /\ At'[p] = At[p])
    <2>1. PICK i \in 1 .. n : \E k \in 0 .. Capacity :
            p = << i, k >> /\ k <= Len(DescriptorAt(i)'.entries)
      BY <1>1 DEF Places
    <2>2. PICK k \in 0 .. Capacity : p = << i, k >> /\ k <= Len(DescriptorAt(i)'.entries)
      BY <2>1
    <2>3. CASE i = n /\ k = m + 1
      <3>1. At'[p] = descriptor'.entries[m + 1]
        BY <2>2, <2>3, <1>3, <1>5 DEF At
      <3>2. p = << n, m + 1 >> /\ At'[p] = c
        BY <2>2, <2>3, <3>1, <1>4
      <3> QED
        BY <3>2
    <2>4. CASE i = n /\ k # m + 1
      <3>1. k \in 0 .. m
        BY <2>2, <2>4, <1>3, <1>4, <1>5
      <3>2. p \in Places
        BY <2>2, <2>4, <3>1, <1>2 DEF Places
      <3>3. k = 0 \/ descriptor'.entries[k] = descriptor.entries[k]
        BY <3>1, <1>3, <1>4
      <3> QED
        BY <2>2, <2>4, <3>2, <3>3, <1>1, <1>2, <1>5 DEF At
    <2>5. CASE i # n
      BY <2>2, <2>5, <1>5, <1>1 DEF At, Places
    <2> QED
      BY <2>3, <2>4, <2>5
  <1>8. Different(At', (Taken \ used)')
    <2>1. c \in (Taken \ used)' \ (Taken \ used) /\ Taken \ used \subseteq (Taken \ used)'
      BY <1>1 DEF Taken
    <2>2. \A x \in DOMAIN At' :
            (x = << n, m + 1 >> /\ At'[x] = c) \/ (x \in DOMAIN At /\ At'[x] = At[x])
      BY <1>7 DEF At
    <2> DEFINE T == Taken \ used
               U == (Taken \ used)'
    <2>3. Different(At, T) /\ c \in U /\ c \notin T /\ T \subseteq U
      BY <1>1, <2>1
    <2> DEFINE y == << n, m + 1 >>
    <2>4. \A x \in DOMAIN At' : (x = y /\ At'[x] = c) \/ (x \in DOMAIN At /\ At'[x] = At[x])
      BY <2>2
    <2> HIDE DEF T, U, y
    <2>5. Different(At', U)
      BY <2>3, <2>4 DEF Different
    <2> QED
      BY <2>5 DEF U
  <1> QED
    BY <1>6, <1>8 DEF Listed, Different

(* The list where the last entry of the first descriptor is taken away,    *)
(* and perhaps becomes the chunk of a new one with one entry.              *)
LEMMA ReturnToNewDescriptorKeeps ==
  ASSUME IInv, Works, NEW c \in used, ReturnToNewDescriptor(c), used' = used \ {c}
  PROVE  Listed'
  <1> DEFINE n == Len(chain)
             m == Len(descriptor.entries)
             b == Borrowed
             full == [descriptor EXCEPT !.entries = Front(@)]
  <1>1. /\ TypeOK /\ Chained /\ Different(At, Taken \ used) /\ descriptor # NoDescriptor
        /\ c \in Offsets /\ c \in Taken /\ breakOffset' = breakOffset /\ m = Capacity
    BY DEF IInv, Works, ReturnToNewDescriptor, TypeOK
  <1>2. /\ n \in Nat \ {0} /\ DescriptorAt(n) = descriptor /\ descriptor \in Descriptors
        /\ descriptor.flink = LinkOf(n) /\ firstFreeChunk = chain[n]
    BY <1>1, LastPlace
  <1>3. Capacity \in Nat \ {0, 1} /\ m - 1 \in 1 .. Capacity /\ m \in Nat
    BY <1>1, ChunksAssumption
  <1>4. /\ full \in Descriptors /\ full.flink = descriptor.flink
        /\ Len(full.entries) = m - 1
        /\ \A k \in 1 .. m - 1 : full.entries[k] = descriptor.entries[k]
    <2>1. descriptor.entries \in Seq(Offsets) /\ Len(descriptor.entries) # 0
      BY <1>2, <1>3 DEF Descriptors
    <2>2. /\ Front(descriptor.entries) \in Seq(Offsets)
          /\ Len(Front(descriptor.entries)) = m - 1
          /\ \A k \in 1 .. m - 1 : Front(descriptor.entries)[k] = descriptor.entries[k]
      BY <2>1, FrontOf
    <2>3. /\ full \in Descriptors /\ full.flink = descriptor.flink
          /\ full.entries = Front(descriptor.entries)
      BY <1>2, <2>2 DEF Descriptors
    <2> QED
      BY <2>2, <2>3
  <1>5. << n, m >> \in Places /\ At[<< n, m >>] = b
    <2>1. n \in 1 .. Len(chain) /\ m \in 1 .. Len(DescriptorAt(n).entries)
      BY <1>2, <1>3
    <2>2. \A k \in 1 .. Len(DescriptorAt(n).entries) :
            << n, k >> \in Places /\ At[<< n, k >>] = DescriptorAt(n).entries[k]
      BY <1>1, <2>1, PlaceOf
    <2> QED
      BY <1>2, <2>1, <2>2 DEF Borrowed, Final
  <1>6. ASSUME NEW i \in 1 .. n PROVE chain[i] \in Offsets /\ (i # n => chain[i] # chain[n])
    <2>1. \A j \in 1 .. n :
            << j, 0 >> \in Places /\ At[<< j, 0 >>] = chain[j] /\ chain[j] \in Offsets
      BY <1>1, PlaceOf
    <2>2. n \in 1 .. n /\ (i # n => << i, 0 >> # << n, 0 >>)
      BY <1>2
    <2>3. At[<< i, 0 >>] = At[<< n, 0 >>] => << i, 0 >> = << n, 0 >>
      BY <1>1, <2>1, <2>2 DEF Different, At
    <2> QED
      BY <2>1, <2>2, <2>3
  <1>7. c \in (Taken \ used)' \ (Taken \ used) /\ Taken \ used \subseteq (Taken \ used)'
    BY <1>1 DEF Taken
  <1>8. CASE /\ disk' = [disk EXCEPT ![firstFreeChunk] = full]
             /\ firstFreeChunk' = b
             /\ descriptor' = Descriptor(<< c >>, firstFreeChunk)
             /\ chain' = Append(chain, b)
    <2>1. /\ Len(chain') = n + 1 /\ chain'[n + 1] = b /\ b \in Offsets
          /\ \A i \in 1 .. n : chain'[i] = chain[i]
      <3>1. b \in Taken
        BY <1>1, <1>5 DEF Different, At
      <3>2. b \in Offsets
        BY <3>1, <1>1, ChunksAssumption DEF Taken, TypeOK, Offsets
      <3>3. chain \in Seq(Offsets)
        BY <1>1 DEF TypeOK
      <3> QED
        BY <3>2, <3>3, <1>8
    <2>2. /\ descriptor' \in Descriptors /\ descriptor' # NoDescriptor
          /\ descriptor'.flink = chain[n] /\ descriptor'.entries = << c >>
      <3>1. chain[n] \in Links
        BY <1>2, <1>6 DEF Links
      <3>2. << c >> \in Seq(Offsets)
        BY <1>1
      <3> QED
        BY <1>2, <1>8, <3>1, <3>2 DEF Descriptors, Descriptor, NoDescriptor
    <2>3. ASSUME NEW i \in 1 .. n + 1
          PROVE  /\ i = n + 1 => DescriptorAt(i)' = descriptor' /\ LinkOf(i)' = chain[n]
                 /\ i = n => DescriptorAt(i)' = full /\ LinkOf(i)' = LinkOf(i)
                 /\ i \in 1 .. n - 1 => DescriptorAt(i)' = DescriptorAt(i) /\ LinkOf(i)' = LinkOf(i)
      <3>1. disk'[chain[n]] = full /\ \A j \in 1 .. n - 1 : disk'[chain[j]] = disk[chain[j]]
        BY <1>1, <1>2, <1>6, <1>8 DEF TypeOK
      <3>2. CASE i = n + 1
        BY <3>2, <1>2, <2>1 DEF DescriptorAt, LinkOf
      <3>3. CASE i = n
        BY <3>3, <1>2, <2>1, <3>1 DEF DescriptorAt, LinkOf
      <3>4. CASE i \in 1 .. n - 1
        <4>1. i \in 1 .. n /\ i # n /\ i # n + 1 /\ (i # 1 => i - 1 \in 1 .. n)
          BY <1>2, <3>4
        <4> QED
          BY <3>4, <4>1, <2>1, <3>1 DEF DescriptorAt, LinkOf
      <3> QED
        BY <1>2, <3>2, <3>3, <3>4
    <2>4. Chained'
      <3>1. ASSUME NEW i \in 1 .. n + 1
            PROVE  /\ DescriptorAt(i)' \in Descriptors
                   /\ Len(DescriptorAt(i)'.entries) \in 1 .. Capacity
                   /\ DescriptorAt(i)'.flink = LinkOf(i)'
        <4>1. CASE i = n + 1
          <5>1. Len(<< c >>) = 1 /\ 1 \in 1 .. Capacity
            BY <1>3
          <5>2. DescriptorAt(i)' = descriptor' /\ LinkOf(i)' = chain[n]
            BY <4>1, <2>3
          <5> QED
            BY <5>1, <5>2, <2>2
        <4>2. CASE i = n
          <5>1. DescriptorAt(i)' = full /\ LinkOf(i)' = LinkOf(i)
            BY <4>2, <2>3
          <5> QED
            BY <4>2, <5>1, <1>2, <1>3, <1>4
        <4>3. CASE i \in 1 .. n - 1
          BY <4>3, <1>1, <1>2, <2>3 DEF Chained
        <4> QED
          BY <1>2, <4>1, <4>2, <4>3
      <3> QED
        BY <1>2, <1>8, <2>1, <2>2, <3>1 DEF Chained
    <2>5. ASSUME NEW p \in Places'
          PROVE  \/ p \in Places \ {<< n, m >>} /\ At'[p] = At[p]
                 \/ p = << n + 1, 0 >> /\ At'[p] = At[<< n, m >>]
                 \/ p = << n + 1, 1 >> /\ At'[p] = c
      <3>1. PICK i \in 1 .. n + 1 : \E k \in 0 .. Capacity :
              p = << i, k >> /\ k <= Len(DescriptorAt(i)'.entries)
        BY <2>1 DEF Places
      <3>2. PICK k \in 0 .. Capacity : p = << i, k >> /\ k <= Len(DescriptorAt(i)'.entries)
        BY <3>1
      <3>3. CASE i = n + 1
        <4>1. k \in {0, 1}
          <5>1. DescriptorAt(i)'.entries = << c >>
            BY <3>3, <2>2, <2>3
          <5>2. k <= Len(<< c >>)
            BY <3>2, <5>1
          <5> QED
            BY <5>2
        <4>2. At'[p] = IF k = 0 THEN b ELSE << c >>[k]
          <5>1. DescriptorAt(i)'.entries = << c >> /\ chain'[i] = b
            BY <3>3, <2>1, <2>2, <2>3
          <5> QED
            BY <3>2, <5>1 DEF At
        <4> QED
          BY <3>2, <3>3, <4>1, <4>2, <1>5
      <3>4. CASE i = n
        <4>1. k \in 0 .. m - 1 /\ DescriptorAt(i)' = full
          <5>1. DescriptorAt(i)' = full
            BY <3>4, <2>3
          <5>2. k <= Len(full.entries)
            BY <3>2, <5>1
          <5> QED
            BY <5>1, <5>2, <1>3, <1>4
        <4>2. p \in Places /\ p # << n, m >>
          BY <3>2, <3>4, <4>1, <1>2, <1>3 DEF Places
        <4>3. k = 0 \/ full.entries[k] = descriptor.entries[k]
          BY <4>1, <1>3, <1>4
        <4> QED
          <5>1. At'[p] = IF k = 0 THEN chain[n] ELSE full.entries[k]
            <6>1. n \in 1 .. n /\ chain'[n] = chain[n]
              BY <1>2, <2>1
            <6> QED
              BY <3>2, <3>4, <4>1, <6>1 DEF At
          <5>2. At[p] = IF k = 0 THEN chain[n] ELSE descriptor.entries[k]
            BY <3>2, <3>4, <4>2, <1>2 DEF At
          <5> QED
            BY <4>2, <4>3, <5>1, <5>2
      <3>5. CASE i \in 1 .. n - 1
        BY <3>2, <3>5, <1>2, <2>1, <2>3 DEF At, Places
      <3> QED
        BY <1>2, <3>3, <3>4, <3>5
    <2>6. Different(At', (Taken \ used)')
      <3>1. \A x \in DOMAIN At' :
              \/ x \in DOMAIN At \ {<< n, m >>} /\ At'[x] = At[x]
              \/ x = << n + 1, 0 >> /\ At'[x] = At[<< n, m >>]
              \/ x = << n + 1, 1 >> /\ At'[x] = c
        BY <2>5 DEF At
      <3>2. << n, m >> \in DOMAIN At
        BY <1>5 DEF At
      <3> DEFINE T == Taken \ used
                 U == (Taken \ used)'
                 w == << n, m >>
                 y == << n + 1, 0 >>
                 z == << n + 1, 1 >>
      <3>3. Different(At, T) /\ c \in U /\ c \notin T /\ T \subseteq U /\ w \in DOMAIN At
        BY <1>1, <1>7, <3>2
      <3>4. \A x \in DOMAIN At' :
              \/ x \in DOMAIN At \ {w} /\ At'[x] = At[x]
              \/ x = y /\ At'[x] = At[w]
              \/ x = z /\ At'[x] = c
        BY <3>1
      <3> HIDE DEF T, U, w, y, z
      <3>5. Different(At', U)
        BY <3>3, <3>4 DEF Different
      <3> QED
        BY <3>5 DEF U
    <2> QED
      BY <2>4, <2>6 DEF Listed, Different
  <1>9. CASE descriptor' = full /\ UNCHANGED << disk, firstFreeChunk, chain >>
    <2>1. \A i \in 1 .. n : /\ DescriptorAt(i)' = IF i = n THEN full ELSE DescriptorAt(i)
                            /\ LinkOf(i)' = LinkOf(i)
      BY <1>9 DEF DescriptorAt, LinkOf
    <2>2. Chained'
      <3>1. descriptor' # NoDescriptor
        BY <1>4, <1>9 DEF Descriptors, NoDescriptor
      <3> QED
        BY <1>1, <1>2, <1>3, <1>4, <1>9, <2>1, <3>1 DEF Chained
    <2>3. ASSUME NEW p \in Places' PROVE p \in Places /\ At'[p] = At[p]
      <3>1. PICK i \in 1 .. n : \E k \in 0 .. Capacity :
              p = << i, k >> /\ k <= Len(DescriptorAt(i)'.entries)
        BY <1>9 DEF Places
      <3>2. PICK k \in 0 .. Capacity : p = << i, k >> /\ k <= Len(DescriptorAt(i)'.entries)
        BY <3>1
      <3>3. CASE i = n
        <4>1. k \in 0 .. m - 1 /\ DescriptorAt(i)' = full
          <5>1. DescriptorAt(i)' = full
            BY <3>3, <2>1
          <5>2. k <= Len(full.entries)
            BY <3>2, <5>1
          <5> QED
            BY <5>1, <5>2, <1>3, <1>4
        <4>2. p \in Places
          BY <3>2, <3>3, <4>1, <1>2, <1>3 DEF Places
        <4>3. k = 0 \/ full.entries[k] = descriptor.entries[k]
          BY <4>1, <1>3, <1>4
        <4> QED
          BY <3>2, <3>3, <4>1, <4>2, <4>3, <1>2, <1>9 DEF At
      <3>4. CASE i # n
        BY <3>2, <3>4, <2>1, <1>9 DEF At, Places
      <3> QED
        BY <3>3, <3>4
    <2>4. Different(At', (Taken \ used)')
      <3>1. \A x \in DOMAIN At' :
              x \in DOMAIN At /\ At'[x] = At[x] /\ At'[x] \in (Taken \ used)'
        BY <2>3, <1>1, <1>7 DEF At, Different
      <3> QED
        BY <3>1, <1>1, Kept
    <2> QED
      BY <2>2, <2>4 DEF Listed, Different
  <1> QED
    BY <1>8, <1>9 DEF ReturnToNewDescriptor

----------------------------------------------------------------------------
(* Every step keeps the types *)

LEMMA PoolTypes ==
  ASSUME TypeOK, TakeFromPool
  PROVE  /\ fileSize' \in 3 .. MaxSize /\ fileSize <= fileSize' /\ breakOffset \in Offsets
         /\ breakOffset' \in 0 .. fileSize' /\ breakOffset' = breakOffset + 1
  <1>1. Expanded(fileSize) \in Nat /\ Expanded(fileSize) >= fileSize + 1
    BY ExpandedMore, ChunksAssumption DEF TypeOK
  <1> QED
    BY <1>1, ChunksAssumption DEF TypeOK, TakeFromPool, Offsets

LEMMA DescriptorTypes ==
  ASSUME TypeOK, descriptor # NoDescriptor
  PROVE  /\ descriptor \in Descriptors /\ descriptor.flink \in Links
         /\ descriptor.entries \in Seq(Offsets)
  BY DEF TypeOK, Descriptors

LEMMA AllocateTypes ==
  ASSUME IInv, AllocateFromPool \/ AllocateFromList
  PROVE  TypeOK'
  <1> USE DEF IInv, Works
  <1>1. CASE AllocateFromPool
    <2>1. /\ fileSize' \in 3 .. MaxSize /\ fileSize <= fileSize' /\ breakOffset \in Offsets
          /\ breakOffset' \in 0 .. fileSize'
      BY <1>1, PoolTypes DEF AllocateFromPool
    <2>2. header' \in [break : 0 .. fileSize', first : Links]
      BY <1>1, <2>1 DEF AllocateFromPool, TypeOK
    <2> QED
      BY <1>1, <2>1, <2>2 DEF AllocateFromPool, TypeOK, HandOut
  <1>2. CASE AllocateFromList
    <2>1. /\ Len(descriptor.entries) # 0 /\ descriptor.entries \in Seq(Offsets)
          /\ descriptor \in Descriptors /\ descriptor.flink \in Links
          /\ Len(chain) # 0 /\ chain \in Seq(Offsets)
      BY <1>2, LastPlace, ChunksAssumption, DescriptorTypes DEF AllocateFromList, TypeOK
    <2>2. /\ Front(descriptor.entries) \in Seq(Offsets) /\ Final(descriptor.entries) \in Offsets
          /\ Front(chain) \in Seq(Offsets)
      BY <2>1, FrontOf
    <2>3. used' \subseteq Offsets /\ disk' \in [Offsets -> {Data} \cup Descriptors]
      BY <1>2, <2>2 DEF AllocateFromList, HandOut, TypeOK
    <2>4. /\ firstFreeChunk' \in Links /\ descriptor' \in {NoDescriptor} \cup Descriptors
          /\ chain' \in Seq(Offsets)
      <3>1. CASE Len(descriptor.entries) = 1
        <4>1. CASE /\ descriptor.flink # InvalidOffset
                   /\ firstFreeChunk' = descriptor.flink /\ descriptor' = disk[descriptor.flink]
                   /\ chain' = Front(chain)
          <5>1. Len(chain) \in Nat \ {0} /\ descriptor.flink = LinkOf(Len(chain))
            BY <1>2, LastPlace DEF AllocateFromList
          <5>2. /\ Len(chain) # 1 /\ descriptor.flink = chain[Len(chain) - 1]
                /\ Len(chain) - 1 \in 1 .. Len(chain)
            <6>1. Len(chain) # 1 /\ descriptor.flink = chain[Len(chain) - 1]
              BY <5>1, <4>1 DEF LinkOf
            <6>2. ASSUME NEW n \in Nat \ {0}, n # 1 PROVE n - 1 \in 1 .. n
              BY <6>2
            <6> QED
              BY <5>1, <6>1, <6>2
          <5>3. descriptor' = DescriptorAt(Len(chain) - 1)
            BY <4>1, <5>1, <5>2 DEF DescriptorAt
          <5>4. descriptor' \in Descriptors
            BY <1>2, <5>2, <5>3 DEF AllocateFromList, Chained
          <5> QED
            BY <4>1, <2>1, <2>2, <5>4
        <4>2. CASE /\ firstFreeChunk' = InvalidOffset /\ descriptor' = NoDescriptor
                   /\ chain' = << >>
          BY <4>2 DEF Links
        <4> QED
          BY <1>2, <3>1, <4>1, <4>2 DEF AllocateFromList, NextDescriptor
      <3>2. CASE Len(descriptor.entries) # 1
        <4>1. /\ descriptor' = [descriptor EXCEPT !.entries = Front(@)]
              /\ UNCHANGED << firstFreeChunk, chain >>
          BY <1>2, <3>2 DEF AllocateFromList
        <4>2. descriptor' \in Descriptors
          BY <4>1, <2>1, <2>2 DEF Descriptors
        <4> QED
          BY <4>1, <4>2 DEF TypeOK
      <3> QED
        BY <3>1, <3>2
    <2> QED
      BY <1>2, <2>3, <2>4 DEF AllocateFromList, TypeOK
  <1> QED
    BY <1>1, <1>2

LEMMA ReturnTypes ==
  ASSUME IInv, NEW c \in used, Return(c)
  PROVE  TypeOK'
  <1>1. /\ TypeOK /\ c \in Offsets /\ used' \subseteq Offsets
        /\ UNCHANGED << opened, header, sound >>
    BY DEF IInv, TypeOK, Return
  <1>2. CASE ReturnToPool(c)
    BY <1>1, <1>2, ChunksAssumption DEF ReturnToPool, TypeOK, Offsets
  <1>3. CASE ReturnToDescriptor(c)
    <2>1. descriptor \in Descriptors /\ descriptor.entries \in Seq(Offsets)
      BY <1>1, <1>3, DescriptorTypes DEF ReturnToDescriptor
    <2>2. Append(descriptor.entries, c) \in Seq(Offsets)
      BY <1>1, <2>1
    <2>3. descriptor' \in Descriptors
      BY <1>3, <2>1, <2>2 DEF ReturnToDescriptor, Descriptors
    <2> QED
      BY <1>1, <1>3, <2>3 DEF ReturnToDescriptor, TypeOK
  <1>4. CASE ReturnToNewDescriptor(c)
    <2> DEFINE full == [descriptor EXCEPT !.entries = Front(@)]
    <2>1. /\ descriptor \in Descriptors /\ descriptor.entries \in Seq(Offsets)
          /\ Len(descriptor.entries) # 0
      BY <1>1, <1>4, DescriptorTypes, ChunksAssumption DEF ReturnToNewDescriptor
    <2>2. Front(descriptor.entries) \in Seq(Offsets) /\ Borrowed \in Offsets
      BY <2>1, FrontOf DEF Borrowed
    <2>3. full \in Descriptors
      BY <2>1, <2>2 DEF Descriptors
    <2>4. CASE /\ disk' = [disk EXCEPT ![firstFreeChunk] = full]
               /\ firstFreeChunk' = Borrowed
               /\ descriptor' = Descriptor(<< c >>, firstFreeChunk)
               /\ chain' = Append(chain, Borrowed)
      <3>1. << c >> \in Seq(Offsets) /\ firstFreeChunk \in Links
        BY <1>1 DEF TypeOK
      <3>2. descriptor' \in Descriptors
        BY <2>4, <3>1 DEF Descriptor, Descriptors
      <3>3. chain' \in Seq(Offsets) /\ firstFreeChunk' \in Links
        BY <1>1, <2>2, <2>4 DEF TypeOK, Links
      <3>4. disk' \in [Offsets -> {Data} \cup Descriptors]
        BY <1>1, <2>3, <2>4 DEF TypeOK
      <3> QED
        BY <1>1, <1>4, <3>2, <3>3, <3>4 DEF ReturnToNewDescriptor, TypeOK
    <2>5. CASE descriptor' = full /\ UNCHANGED << disk, firstFreeChunk, chain >>
      BY <1>1, <1>4, <2>3, <2>5 DEF ReturnToNewDescriptor, TypeOK
    <2> QED
      BY <1>4, <2>4, <2>5 DEF ReturnToNewDescriptor
  <1>5. CASE ReturnToFirstDescriptor(c)
    <2>1. /\ fileSize' \in 3 .. MaxSize /\ fileSize <= fileSize' /\ breakOffset \in Offsets
          /\ breakOffset' \in 0 .. fileSize'
      BY <1>1, <1>5, PoolTypes DEF ReturnToFirstDescriptor
    <2>2. header' \in [break : 0 .. fileSize', first : Links]
      BY <1>1, <2>1 DEF TypeOK
    <2>3. << c >> \in Seq(Offsets) /\ << breakOffset >> \in Seq(Offsets)
      BY <1>1, <2>1
    <2>4. descriptor' \in Descriptors
      BY <1>5, <2>3 DEF ReturnToFirstDescriptor, Descriptor, Descriptors, Links
    <2> QED
      BY <1>1, <1>5, <2>1, <2>2, <2>3, <2>4 DEF ReturnToFirstDescriptor, TypeOK, Links
  <1>6. CASE ReturnWithoutMemory(c)
    <2>1. fileSize' \in 3 .. MaxSize /\ fileSize <= fileSize'
      <3>1. Expanded(fileSize) \in Nat /\ Expanded(fileSize) >= fileSize + 1
        BY <1>1, ExpandedMore, ChunksAssumption DEF TypeOK
      <3> QED
        BY <1>1, <1>6, <3>1, ChunksAssumption DEF ReturnWithoutMemory, TypeOK
    <2>2. header' \in [break : 0 .. fileSize', first : Links] /\ breakOffset' \in 0 .. fileSize'
      BY <1>1, <1>6, <2>1, ChunksAssumption DEF TypeOK, ReturnWithoutMemory, memory
    <2> QED
      BY <1>1, <1>6, <2>1, <2>2 DEF ReturnWithoutMemory, memory, TypeOK
  <1> QED
    BY <1>2, <1>3, <1>4, <1>5, <1>6 DEF Return

LEMMA FileTypes ==
  ASSUME IInv, Free \/ Open \/ OpenWithFreeChunks \/ RecreateWithDescriptor \/ Recreate
  PROVE  TypeOK'
  <1>0. TypeOK /\ MaxSize \in Nat /\ MaxSize >= 3
    BY ChunksAssumption DEF IInv
  <1>1. ASSUME NEW entry \in Offsets
        PROVE  Descriptor(<< entry >>, InvalidOffset) \in Descriptors
    <2>1. << entry >> \in Seq(Offsets)
      OBVIOUS
    <2> QED
      BY <2>1 DEF Descriptor, Descriptors, Links
  <1>2. CASE Free
    <2>1. /\ firstFreeChunk' \in Links /\ chain' \in Seq(Offsets)
          /\ disk' \in [Offsets -> {Data} \cup Descriptors]
      <3>1. CASE descriptor = NoDescriptor
        BY <1>0, <1>2, <3>1 DEF Free, TypeOK
      <3>2. CASE descriptor # NoDescriptor
        <4>1. Len(chain) # 0 /\ chain \in Seq(Offsets)
          BY <1>2, <3>2, LastPlace DEF IInv, Free, Works, TypeOK
        <4>2. Front(chain) \in Seq(Offsets)
          BY <4>1, FrontOf
        <4>3. descriptor \in Descriptors /\ descriptor.flink \in Links
          BY <1>0, <3>2, DescriptorTypes
        <4> QED
          BY <1>0, <1>2, <3>2, <4>2, <4>3 DEF Free, TypeOK
      <3> QED
        BY <3>1, <3>2
    <2>2. header' \in [break : 0 .. fileSize, first : Links]
      BY <1>0, <1>2, <2>1 DEF Free, Header, TypeOK
    <2> QED
      BY <1>0, <1>2, <2>1, <2>2 DEF Free, TypeOK
  <1>3. CASE Open
    BY <1>0, <1>3 DEF Open, TypeOK, Links
  <1>4. CASE OpenWithFreeChunks
    <2>1. descriptor' \in Descriptors /\ chain' \in Seq(Offsets)
      BY <1>1, <1>4 DEF OpenWithFreeChunks
    <2> QED
      BY <1>0, <1>4, <2>1 DEF OpenWithFreeChunks, TypeOK, Links
  <1>5. CASE RecreateWithDescriptor
    <2>1. descriptor' \in Descriptors /\ chain' \in Seq(Offsets)
      BY <1>1, <1>5 DEF RecreateWithDescriptor
    <2>2. header' \in [break : 0 .. fileSize', first : Links]
      BY <1>5 DEF RecreateWithDescriptor, Links, Header
    <2>3. fileSize' \in 3 .. MaxSize /\ breakOffset' \in 0 .. fileSize' /\ firstFreeChunk' \in Links
      BY <1>0, <1>5 DEF RecreateWithDescriptor, Links
    <2> QED
      BY <1>0, <1>5, <2>1, <2>2, <2>3 DEF RecreateWithDescriptor, TypeOK
  <1>6. CASE Recreate
    BY <1>0, <1>6 DEF Recreate, TypeOK, Links, Header
  <1> QED
    BY <1>2, <1>3, <1>4, <1>5, <1>6

----------------------------------------------------------------------------
(* The theorems *)

LEMMA UsedBelowBreak ==
  ASSUME IInv, Next
  PROVE  (sound => breakOffset >= 1 /\ used \subseteq Taken)'
  <1>0. TypeOK /\ (sound => breakOffset >= 1 /\ used \subseteq Taken)
    BY DEF IInv
  <1>1. CASE AllocateFromPool
    BY <1>0, <1>1 DEF AllocateFromPool, Works, TakeFromPool, HandOut, Taken, TypeOK
  <1>2. CASE AllocateFromList
    <2>1. NoDoubleUse
      BY OfferedFree
    <2>2. /\ used' = used \cup {Final(descriptor.entries)} /\ breakOffset' = breakOffset
          /\ descriptor # NoDescriptor /\ sound' = sound
      BY <1>2 DEF AllocateFromList, HandOut
    <2>3. Final(descriptor.entries) \in Taken
      <3>1. /\ TypeOK /\ Chained /\ Different(At, Taken \ used)
            /\ Len(chain) \in 1 .. Len(chain) /\ DescriptorAt(Len(chain)) = descriptor
            /\ Len(descriptor.entries) \in 1 .. Len(descriptor.entries)
        BY <1>2, <2>2, LastPlace, ChunksAssumption DEF IInv, AllocateFromList, Works
      <3>2. \E p \in Places : At[p] = Final(descriptor.entries)
        BY <3>1, PlaceOf DEF Final
      <3> QED
        BY <3>1, <3>2 DEF Different, At
    <2> QED
      BY <1>0, <2>2, <2>3 DEF Taken
  <1>3. ASSUME NEW c \in used, Return(c)
        PROVE  (sound => breakOffset >= 1 /\ used \subseteq Taken)'
    <2>1. sound /\ sound' /\ used' = used \ {c} /\ c \in Taken
      BY <1>0, <1>3 DEF Return, Works
    <2>2. CASE ReturnToPool(c)
      BY <1>0, <2>1, <2>2 DEF ReturnToPool, Taken, TypeOK
    <2>3. CASE ReturnToFirstDescriptor(c)
      BY <1>0, <2>1, <2>3 DEF ReturnToFirstDescriptor, TakeFromPool, Taken, TypeOK
    <2>4. CASE breakOffset' = breakOffset
      BY <1>0, <2>1, <2>4 DEF Taken
    <2> QED
      BY <1>3, <2>2, <2>3, <2>4
      DEF Return, ReturnToDescriptor, ReturnToNewDescriptor, ReturnWithoutMemory, memory
  <1>4. CASE Free
    BY <1>0, <1>4 DEF Free, Taken
  <1>5. CASE Open
    <2>1. sound' => sound /\ breakOffset' = breakOffset /\ used' = used
      <3>1. /\ sound' = (sound /\ header = Header(breakOffset, firstFreeChunk))
            /\ breakOffset' = header.break /\ used' = used
        BY <1>5 DEF Open
      <3>2. header = Header(breakOffset, firstFreeChunk) => header.break = breakOffset
        BY DEF Header
      <3> QED
        BY <3>1, <3>2
    <2> QED
      BY <1>0, <2>1 DEF Taken
  <1>6. CASE OpenWithFreeChunks \/ RecreateWithDescriptor
    BY <1>6 DEF OpenWithFreeChunks, RecreateWithDescriptor
  <1>7. CASE Recreate
    BY <1>7 DEF Recreate, Taken
  <1> QED
    BY <1>1, <1>2, <1>3, <1>4, <1>5, <1>6, <1>7 DEF Next

LEMMA ListKept ==
  ASSUME IInv, Next
  PROVE  (sound /\ opened => Listed)'
  <1>1. CASE AllocateFromPool
    <2>1. IInv /\ sound /\ opened /\ descriptor = NoDescriptor
      BY <1>1 DEF AllocateFromPool, Works
    <2>2. chain = << >> /\ firstFreeChunk = InvalidOffset
      BY <2>1 DEF IInv, Chained, TypeOK
    <2> QED
      BY <1>1, <2>1, <2>2, EmptyList DEF AllocateFromPool
  <1>2. CASE AllocateFromList
    BY <1>2, AllocateFromListKeeps
  <1>3. ASSUME NEW c \in used, Return(c)
        PROVE  Listed'
    <2>1. Works /\ used' = used \ {c}
      BY <1>3 DEF Return
    <2>2. CASE ReturnToFirstDescriptor(c)
      <3>1. /\ c \in Taken /\ c \in Offsets /\ breakOffset' = breakOffset + 1
            /\ breakOffset \in Nat \ {0} /\ breakOffset \in Offsets /\ Capacity \in Nat \ {0}
        BY <2>1, <2>2, ChunksAssumption
        DEF IInv, Works, ReturnToFirstDescriptor, TakeFromPool, TypeOK, Offsets
      <3>2. /\ chain' = << breakOffset >> /\ Len(chain') = 1 /\ chain'[1] = breakOffset
            /\ firstFreeChunk' = breakOffset /\ descriptor' = Descriptor(<< c >>, InvalidOffset)
        BY <2>2 DEF ReturnToFirstDescriptor
      <3>3. /\ descriptor' \in Descriptors /\ descriptor' # NoDescriptor
            /\ descriptor'.entries = << c >> /\ descriptor'.flink = InvalidOffset
        <4>1. << c >> \in Seq(Offsets)
          BY <3>1
        <4> QED
          BY <3>2, <4>1 DEF Descriptor, Descriptors, NoDescriptor, Links
      <3>4. \A i \in 1 .. 1 : DescriptorAt(i)' = descriptor' /\ LinkOf(i)' = InvalidOffset
        BY <3>2 DEF DescriptorAt, LinkOf
      <3>5. Len(<< c >>) = 1 /\ 1 \in 1 .. Capacity
        BY <3>1
      <3>6. Chained'
        <4>1. ASSUME NEW i \in 1 .. Len(chain')
              PROVE  /\ DescriptorAt(i)' \in Descriptors
                     /\ Len(DescriptorAt(i)'.entries) \in 1 .. Capacity
                     /\ DescriptorAt(i)'.flink = LinkOf(i)'
          <5>1. DescriptorAt(i)' = descriptor' /\ LinkOf(i)' = InvalidOffset
            BY <3>2, <3>4
          <5> QED
            BY <5>1, <3>3, <3>5
        <4> QED
          BY <3>2, <3>3, <4>1 DEF Chained
      <3>7. ASSUME NEW p \in Places'
            PROVE  \/ p = << 1, 0 >> /\ At'[p] = breakOffset
                   \/ p = << 1, 1 >> /\ At'[p] = c
        <4>1. PICK k \in 0 .. Capacity : p = << 1, k >> /\ k <= Len(DescriptorAt(1)'.entries)
          BY <3>2 DEF Places
        <4>2. k \in {0, 1}
          <5>1. DescriptorAt(1)' = descriptor'
            BY <3>4
          <5>2. Len(DescriptorAt(1)'.entries) = 1
            BY <5>1, <3>3, <3>5
          <5>3. k <= 1
            BY <4>1, <5>2, Zenon
          <5>4. k \in Nat
            BY ChunksAssumption
          <5> QED
            BY <5>3, <5>4
        <4>3. At'[p] = IF k = 0 THEN breakOffset ELSE << c >>[k]
          BY <4>1, <3>2, <3>3, <3>4 DEF At
        <4> QED
          BY <4>1, <4>2, <4>3
      <3>8. c # breakOffset /\ c \in (Taken \ used)' /\ breakOffset \in (Taken \ used)'
        BY <3>1, <2>1 DEF IInv, Works, Taken
      <3>9. \A x \in DOMAIN At' : \/ x = << 1, 0 >> /\ At'[x] = breakOffset
                                  \/ x = << 1, 1 >> /\ At'[x] = c
        BY <3>7 DEF At
      <3> QED
        BY <3>6, <3>8, <3>9 DEF Listed, Different
    <2>3. CASE ReturnWithoutMemory(c)
      <3>1. Taken \ used \subseteq (Taken \ used)'
        BY <2>1, <2>3 DEF ReturnWithoutMemory, memory, Taken
      <3> QED
        BY <2>1, <2>3, <3>1, SameList DEF IInv, Works, ReturnWithoutMemory, memory, Listed
    <2> QED
      BY <1>3, <2>1, <2>2, <2>3, ReturnToPoolKeeps, ReturnToDescriptorKeeps,
         ReturnToNewDescriptorKeeps DEF Return
  <1>4. CASE Free \/ OpenWithFreeChunks \/ RecreateWithDescriptor
    BY <1>4 DEF Free, OpenWithFreeChunks, RecreateWithDescriptor
  <1>5. CASE Open \/ Recreate
    BY <1>5, EmptyList DEF Open, Recreate
  <1> QED
    BY <1>1, <1>2, <1>3, <1>4, <1>5 DEF Next

(* The invariant holds in every reachable state.                           *)
LEMMA ChunksInvariance == Spec => []IInv
  <1>1. Init => IInv
    BY ChunksAssumption
    DEF Init, IInv, TypeOK, Chained, Different, At, Places, Taken, Header, Links, Offsets,
        InvalidOffset, NoDescriptor
  <1>2. IInv /\ [Next]_vars => IInv'
    <2> SUFFICES ASSUME IInv, [Next]_vars PROVE IInv'
      OBVIOUS
    <2>1. CASE Next
      <3>1. TypeOK'
        BY <2>1, AllocateTypes, ReturnTypes, FileTypes DEF Next
      <3> QED
        BY <2>1, <3>1, UsedBelowBreak, ListKept DEF IInv, Listed
    <2>2. CASE UNCHANGED vars
      BY <2>2 DEF vars, memory, IInv, TypeOK, Chained, Different, At, Places, Taken, DescriptorAt,
                  LinkOf
    <2> QED
      BY <2>1, <2>2
  <1> QED
    BY <1>1, <1>2, PTL DEF Spec

(* Until the file is opened again without its list of free chunks, or with *)
(* a header that could not be written, the list in memory and on the disk  *)
(* is the one that the returned chunks made, each of its chunks is below   *)
(* the break, in one place of it, and not in use: allocateChunkFrom-       *)
(* DataFile, returnChunkToFreeList, free and createDataFileByName.         *)
THEOREM FreeListWhileSound == Spec => [](sound /\ opened => Listed)
  <1>1. IInv => (sound /\ opened => Listed)
    BY DEF IInv, Listed
  <1> QED
    BY <1>1, ChunksInvariance, PTL

(* As long, no chunk is handed out while it is in use, and no descriptor is*)
(* written over one.                                                       *)
THEOREM UsedOnceWhileSound == Spec => []NoDoubleUse
  BY ChunksInvariance, OfferedFree, PTL

----------------------------------------------------------------------------
(* The notifications                                                       *)

OnList == {"listed", "look", "waiting", "remove"}
ThreadPlaces == Outside \cup OnList \cup {"begun", "decide"}
Answers == {"nothing", "deny", "allow"}

(* Every variable has its type.                                            *)
CawlTypeOK ==
  /\ strict \in BOOLEAN /\ client \in {"none", "registered", "leaving"}
  /\ IdGenerator \in 0 .. MaxID
  /\ pc \in [Threads -> ThreadPlaces] /\ op \in [Threads -> {"access", "write"}]
  /\ error \in [Threads -> BOOLEAN] /\ notificationID \in [Threads -> Nat]
  /\ responseReceived \in [Threads -> BOOLEAN]
  /\ disableAccess \in [Threads -> BOOLEAN]
  /\ cawlWaitList \subseteq Threads /\ inbox \subseteq IDs
  /\ said \in [IDs -> Answers] /\ verdict \in [Threads -> Answers]

(* The frames on the list are those of the threads at these places.        *)
ListedHere == \A t \in Threads : t \in cawlWaitList <=> pc[t] \in OnList

(* Notifications are numbered in order, and one number is one thread's.    *)
Numbered ==
  /\ \A t \in Threads : Inside(t) => notificationID[t] < IdGenerator
  /\ \A t, u \in Threads :
       Inside(t) /\ Inside(u) /\ t # u => notificationID[t] # notificationID[u]

(* What has not been answered, and what has not even been asked.           *)
Unanswered ==
  /\ \A i \in inbox : i < IdGenerator /\ said[i] = "nothing"
  /\ \A i \in IDs : i >= IdGenerator => said[i] = "nothing"
  /\ \A t \in Threads :
       pc[t] \in {"begun", "listed"} =>
         notificationID[t] \notin inbox /\ said[notificationID[t]] = "nothing"

(* What a frame says was received is what the service has said.            *)
ReceivedAsSaid ==
  \A t \in Threads :
    Inside(t) /\ responseReceived[t] =>
      said[notificationID[t]] = IF disableAccess[t] THEN "deny" ELSE "allow"

(* Without an error a thread goes on only with an answer.                  *)
ReceivedOrFailed ==
  \A t \in Threads :
    pc[t] \in {"remove", "decide"} /\ op[t] = "access" /\ ~error[t] => responseReceived[t]

CawlInv ==
  /\ CawlTypeOK /\ ListedHere /\ Numbered /\ Unanswered /\ ReceivedAsSaid
  /\ ReceivedOrFailed /\ AwakeWhenAnswered

----------------------------------------------------------------------------
LEMMA Numbers == MaxID \in Nat /\ IDs = 0 .. MaxID - 1
  BY CawlAssumption DEF IDs

LEMMA InitCawlInv == ASSUME CawlInit PROVE CawlInv
  <1> USE Numbers DEF CawlInit
  <1>1. CawlTypeOK
    BY DEF CawlTypeOK, Answers, ThreadPlaces, Outside
  <1>2. ListedHere /\ Numbered /\ ReceivedAsSaid /\ ReceivedOrFailed /\ AwakeWhenAnswered
    BY DEF ListedHere, OnList, Numbered, ReceivedAsSaid, ReceivedOrFailed,
           AwakeWhenAnswered, Inside, Outside
  <1>3. Unanswered
    BY DEF Unanswered
  <1> QED
    BY <1>1, <1>2, <1>3 DEF CawlInv

(* A thread in the function has a notification that exists.                *)
LEMMA OwnID ==
  ASSUME CawlInv, NEW t \in Threads, Inside(t)
  PROVE  notificationID[t] \in IDs
  BY Numbers DEF CawlInv, CawlTypeOK, Numbered

(* The steps that leave the threads alone.                                 *)
LEMMA ClientSteps ==
  ASSUME CawlInv, Register \/ Unregister \/ Unregistered PROVE CawlInv'
  <1> USE DEF CawlInv, Register, Unregister, Unregistered, frameVars, serviceVars
  <1>1. CawlTypeOK'
    BY DEF CawlTypeOK
  <1>2. (ListedHere /\ Numbered)'
    BY DEF ListedHere, Numbered, Inside
  <1>3. Unanswered'
    BY DEF Unanswered
  <1>4. (ReceivedAsSaid /\ ReceivedOrFailed /\ AwakeWhenAnswered)'
    BY DEF ReceivedAsSaid, ReceivedOrFailed, AwakeWhenAnswered, Inside
  <1> QED
    BY <1>1, <1>2, <1>3, <1>4

LEMMA BeginStep ==
  ASSUME CawlInv, NEW t \in Threads, Begin(t) PROVE CawlInv'
  <1> USE DEF CawlInv
  <1>1. /\ pc' = [pc EXCEPT ![t] = "begun"] /\ IdGenerator' = IdGenerator + 1
        /\ notificationID' = [notificationID EXCEPT ![t] = IdGenerator]
        /\ responseReceived' = [responseReceived EXCEPT ![t] = FALSE]
        /\ disableAccess' = [disableAccess EXCEPT ![t] = FALSE]
        /\ error' = [error EXCEPT ![t] = FALSE] /\ IdGenerator < MaxID /\ ~Inside(t)
        /\ \E o \in {"access", "write"} : op' = [op EXCEPT ![t] = o]
        /\ UNCHANGED << strict, client, cawlWaitList, inbox, said, verdict >>
    BY DEF Begin, GoTo, serviceVars
  <1>2. CawlTypeOK'
    BY <1>1, Numbers DEF CawlTypeOK, ThreadPlaces
  <1>3. ListedHere'
    BY <1>1 DEF CawlTypeOK, ListedHere, OnList, Inside, Outside
  <1>4. Numbered'
    BY <1>1 DEF CawlTypeOK, Numbered, Inside
  <1>5. Unanswered'
    <2>1. IdGenerator \in IDs /\ IdGenerator \notin inbox /\ said[IdGenerator] = "nothing"
      <3>1. IdGenerator \in Int /\ IdGenerator \in IDs
        BY <1>1, Numbers DEF CawlTypeOK
      <3>2. IdGenerator \notin inbox
        BY <3>1 DEF Unanswered
      <3> QED
        BY <3>1, <3>2 DEF Unanswered
    <2>2. /\ \A i \in inbox' : i < IdGenerator' /\ said'[i] = "nothing"
          /\ \A i \in IDs : i >= IdGenerator' => said'[i] = "nothing"
      <3>1. IdGenerator \in Int /\ \A i \in IDs : i \in Int
        BY Numbers DEF CawlTypeOK
      <3>2. \A i \in inbox : i \in IDs
        BY DEF CawlTypeOK
      <3>3. IdGenerator' = IdGenerator + 1 /\ inbox' = inbox /\ said' = said
        BY <1>1
      <3> QED
        BY <3>1, <3>2, <3>3 DEF Unanswered
    <2>3. ASSUME NEW u \in Threads, pc'[u] \in {"begun", "listed"}
          PROVE  notificationID'[u] \notin inbox' /\ said'[notificationID'[u]] = "nothing"
      <3>1. CASE u = t
        BY <1>1, <2>1, <3>1 DEF CawlTypeOK
      <3>2. CASE u # t
        BY <1>1, <2>3, <3>2 DEF CawlTypeOK, Unanswered
      <3> QED
        BY <3>1, <3>2
    <2> QED
      BY <2>2, <2>3 DEF Unanswered
  <1>6. ReceivedAsSaid'
    BY <1>1 DEF CawlTypeOK, ReceivedAsSaid, Inside
  <1>7. (ReceivedOrFailed /\ AwakeWhenAnswered)'
    BY <1>1 DEF CawlTypeOK, ReceivedOrFailed, AwakeWhenAnswered
  <1> QED
    BY <1>2, <1>3, <1>4, <1>5, <1>6, <1>7

(* A thread that moves on, with or without its frame on the list, with an  *)
(* error or without: what is to be shown of the place it comes to.         *)
LEMMA MoveStep ==
  ASSUME CawlInv, NEW t \in Threads, NEW label \in ThreadPlaces,
         pc' = [pc EXCEPT ![t] = label], error' \in [Threads -> BOOLEAN],
         \A u \in Threads \ {t} : error'[u] = error[u],
         cawlWaitList' = IF label \in OnList THEN cawlWaitList \cup {t}
                                             ELSE cawlWaitList \ {t},
         verdict' \in [Threads -> Answers],
         label \notin Outside => Inside(t),
         label \in {"begun", "listed"} => pc[t] \in {"begun", "listed"},
         label \in {"remove", "decide"} /\ op[t] = "access" /\ ~error'[t]
           => responseReceived[t],
         label = "waiting" => ~responseReceived[t],
         UNCHANGED << strict, client, IdGenerator, op, frameVars, serviceVars >>
  PROVE  CawlInv'
  <1> USE DEF CawlInv, frameVars, serviceVars
  <1>1. CawlTypeOK'
    BY DEF CawlTypeOK
  <1>2. ListedHere'
    BY DEF CawlTypeOK, ListedHere
  <1>3. \A u \in Threads : Inside(u)' => Inside(u)
    BY DEF CawlTypeOK, Inside
  <1>4. Numbered'
    BY <1>3 DEF Numbered
  <1>5. Unanswered'
    BY DEF CawlTypeOK, Unanswered
  <1>6. ReceivedAsSaid'
    BY <1>3 DEF ReceivedAsSaid
  <1>7. ReceivedOrFailed' /\ AwakeWhenAnswered'
    BY DEF CawlTypeOK, ReceivedOrFailed, AwakeWhenAnswered
  <1> QED
    BY <1>1, <1>2, <1>4, <1>5, <1>6, <1>7

LEMMA ThreadSteps ==
  ASSUME CawlInv, NEW t \in Threads,
         \/ BeginUnasked(t) \/ Skip(t) \/ Insert(t) \/ SendFailed(t)
         \/ LookAndWait(t) \/ Timeout(t) \/ Remove(t) \/ Decide(t)
  PROVE  CawlInv'
  <1> USE DEF GoTo, OnList, ThreadPlaces, Outside, Inside
  <1>t. /\ error \in [Threads -> BOOLEAN] /\ verdict \in [Threads -> Answers]
        /\ pc \in [Threads -> ThreadPlaces] /\ cawlWaitList \subseteq Threads
        /\ responseReceived \in [Threads -> BOOLEAN]
        /\ (t \in cawlWaitList <=> pc[t] \in OnList)
    BY DEF CawlInv, CawlTypeOK, ListedHere
  <1>1. CASE BeginUnasked(t) \/ Skip(t) \/ Decide(t)
    <2>1. pc' = [pc EXCEPT ![t] = "decided"] /\ verdict' \in [Threads -> Answers]
      BY <1>1, <1>t DEF BeginUnasked, Skip, Decide, Verdict, Answers
    <2>2. t \notin cawlWaitList /\ cawlWaitList' = cawlWaitList \ {t}
      BY <1>1, <1>t DEF BeginUnasked, Skip, Decide
    <2>3. UNCHANGED << strict, client, IdGenerator, op, error, frameVars, serviceVars >>
      BY <1>1 DEF BeginUnasked, Skip, Decide
    <2> QED
      BY <1>t, <2>1, <2>2, <2>3, MoveStep
  <1>2. CASE Insert(t)
    <2>1. /\ pc[t] = "begun" /\ pc' = [pc EXCEPT ![t] = "listed"]
          /\ cawlWaitList' = cawlWaitList \cup {t}
          /\ UNCHANGED << strict, client, IdGenerator, op, error, frameVars,
                          serviceVars, verdict >>
      BY <1>2 DEF Insert
    <2> QED
      BY <1>t, <2>1, MoveStep
  <1>3. CASE SendFailed(t) \/ Timeout(t)
    <2>1. /\ pc[t] \in {"listed", "waiting"} /\ pc' = [pc EXCEPT ![t] = "remove"]
          /\ error' = [error EXCEPT ![t] = TRUE]
          /\ UNCHANGED << strict, client, IdGenerator, op, frameVars, cawlWaitList,
                          serviceVars, verdict >>
      BY <1>3 DEF SendFailed, Timeout
    <2>2. cawlWaitList' = cawlWaitList \cup {t}
      BY <1>t, <2>1
    <2>3. error' \in [Threads -> BOOLEAN] /\ error'[t]
      BY <1>t, <2>1
    <2> QED
      BY <1>t, <2>1, <2>2, <2>3, MoveStep
  <1>4. CASE LookAndWait(t)
    <2>1. /\ pc[t] = "look"
          /\ pc' = [pc EXCEPT ![t] = IF responseReceived[t] THEN "remove" ELSE "waiting"]
          /\ UNCHANGED << strict, client, IdGenerator, op, error, frameVars,
                          cawlWaitList, serviceVars, verdict >>
      BY <1>4 DEF LookAndWait
    <2>2. cawlWaitList' = cawlWaitList \cup {t}
      BY <1>t, <2>1
    <2>3. CASE responseReceived[t]
      BY <1>t, <2>1, <2>2, <2>3, MoveStep
    <2>4. CASE ~responseReceived[t]
      BY <1>t, <2>1, <2>2, <2>4, MoveStep
    <2> QED
      BY <2>3, <2>4
  <1>5. CASE Remove(t)
    <2>1. /\ pc[t] = "remove" /\ pc' = [pc EXCEPT ![t] = "decide"]
          /\ cawlWaitList' = cawlWaitList \ {t}
          /\ UNCHANGED << strict, client, IdGenerator, op, error, frameVars,
                          serviceVars, verdict >>
      BY <1>5 DEF Remove
    <2>2. op[t] = "access" /\ ~error[t] => responseReceived[t]
      BY <2>1 DEF CawlInv, ReceivedOrFailed
    <2> QED
      BY <1>t, <2>1, <2>2, MoveStep
  <1> QED
    BY <1>1, <1>2, <1>3, <1>4, <1>5

LEMMA SendStep ==
  ASSUME CawlInv, NEW t \in Threads, Send(t) PROVE CawlInv'
  <1> USE DEF CawlInv
  <1>1. /\ pc[t] = "listed" /\ pc' = [pc EXCEPT ![t] = AfterSend(t)]
        /\ inbox' \in {inbox, inbox \cup {notificationID[t]}}
        /\ UNCHANGED << strict, client, IdGenerator, op, error, frameVars,
                        cawlWaitList, said, verdict >>
    BY DEF Send, GoTo
  <1>2. /\ Inside(t) /\ notificationID[t] \in IDs /\ notificationID[t] < IdGenerator
        /\ said[notificationID[t]] = "nothing"
    BY <1>1, OwnID DEF Inside, Outside, Numbered, Unanswered
  <1>3. AfterSend(t) \in {"look", "remove"} /\ (AfterSend(t) = "remove" => op[t] # "access")
    BY DEF AfterSend
  <1>4. CawlTypeOK'
    BY <1>1, <1>2, <1>3 DEF CawlTypeOK, ThreadPlaces, OnList, frameVars
  <1>5. ListedHere'
    BY <1>1, <1>3 DEF CawlTypeOK, ListedHere, OnList
  <1>6. \A u \in Threads : Inside(u)' <=> Inside(u)
    BY <1>1, <1>3 DEF CawlTypeOK, Inside, Outside
  <1>7. (Numbered /\ ReceivedAsSaid)'
    BY <1>1, <1>6 DEF Numbered, ReceivedAsSaid, frameVars
  <1>8. Unanswered'
    <2>1. \A u \in Threads : pc'[u] \in {"begun", "listed"} =>
            u # t /\ pc[u] \in {"begun", "listed"}
      BY <1>1, <1>3 DEF CawlTypeOK
    <2>2. \A u \in Threads : pc'[u] \in {"begun", "listed"} =>
            notificationID[u] # notificationID[t]
      BY <1>2, <2>1 DEF Numbered, Inside, Outside
    <2> QED
      BY <1>1, <1>2, <2>1, <2>2 DEF Unanswered, frameVars
  <1>9. (ReceivedOrFailed /\ AwakeWhenAnswered)'
    BY <1>1, <1>3 DEF CawlTypeOK, ReceivedOrFailed, AwakeWhenAnswered, frameVars
  <1> QED
    BY <1>4, <1>5, <1>7, <1>8, <1>9

LEMMA AnswerStep ==
  ASSUME CawlInv, NEW i \in IDs, NEW denied \in BOOLEAN, Answer(i, denied)
  PROVE  CawlInv'
  <1> USE DEF CawlInv
  <1> DEFINE there(u) == u \in cawlWaitList /\ notificationID[u] = i
  <1>1. /\ i \in inbox /\ inbox' = inbox \ {i}
        /\ said' = [said EXCEPT ![i] = IF denied THEN "deny" ELSE "allow"]
        /\ responseReceived' = [u \in Threads |-> there(u) \/ responseReceived[u]]
        /\ disableAccess' = [u \in Threads |-> IF there(u) THEN denied ELSE disableAccess[u]]
        /\ pc' = [u \in Threads |->
                    IF there(u) /\ pc[u] = "waiting" THEN "remove" ELSE pc[u]]
        /\ UNCHANGED << strict, client, IdGenerator, op, error, notificationID,
                        cawlWaitList, verdict >>
    BY Zenon DEF Answer, Addressed
  <1>2. said[i] = "nothing" /\ i < IdGenerator
    BY <1>1 DEF Unanswered
  <1>3. CawlTypeOK'
    <2>1. /\ responseReceived' \in [Threads -> BOOLEAN]
          /\ disableAccess' \in [Threads -> BOOLEAN]
      BY <1>1, Zenon DEF CawlTypeOK
    <2>2. pc' \in [Threads -> ThreadPlaces] /\ said' \in [IDs -> Answers] /\ inbox' \subseteq IDs
      BY <1>1 DEF CawlTypeOK, ThreadPlaces, OnList, Answers
    <2> QED
      BY <1>1, <2>1, <2>2 DEF CawlTypeOK
  <1>4. ListedHere'
    BY <1>1 DEF CawlTypeOK, ListedHere, OnList
  <1>5. \A u \in Threads : Inside(u)' <=> Inside(u)
    BY <1>1 DEF CawlTypeOK, Inside, Outside
  <1>6. Numbered'
    BY <1>1, <1>5 DEF Numbered
  <1>7. Unanswered'
    <2>1. \A u \in Threads : pc'[u] \in {"begun", "listed"} =>
            pc[u] \in {"begun", "listed"} /\ notificationID[u] # i
      BY <1>1 DEF CawlTypeOK, Unanswered
    <2>2. \A k \in IDs : k # i => said'[k] = said[k]
      BY <1>1 DEF CawlTypeOK
    <2>3. \A k \in inbox' : k < IdGenerator' /\ said'[k] = "nothing"
      BY <1>1, <2>2 DEF CawlTypeOK, Unanswered
    <2>4. \A k \in IDs : k >= IdGenerator' => said'[k] = "nothing"
      <3>1. i \in Int /\ IdGenerator \in Int
        BY Numbers DEF CawlTypeOK
      <3>2. \A k \in IDs : k >= IdGenerator => k # i
        BY <1>2, <3>1
      <3> QED
        BY <1>1, <2>2, <3>2 DEF Unanswered
    <2>5. ASSUME NEW u \in Threads, pc'[u] \in {"begun", "listed"}
          PROVE  notificationID'[u] \notin inbox' /\ said'[notificationID'[u]] = "nothing"
      <3>1. Inside(u) /\ notificationID[u] \in IDs
        BY <2>1, <2>5, OwnID DEF Inside, Outside
      <3> QED
        BY <1>1, <2>1, <2>2, <2>5, <3>1 DEF Unanswered
    <2> QED
      BY <2>3, <2>4, <2>5 DEF Unanswered
  <1>8. ReceivedAsSaid'
    <2> SUFFICES ASSUME NEW u \in Threads, Inside(u)', responseReceived'[u]
                 PROVE  said'[notificationID[u]] = IF disableAccess'[u] THEN "deny" ELSE "allow"
      BY <1>1 DEF ReceivedAsSaid
    <2>1. Inside(u) /\ notificationID[u] \in IDs
      BY <1>5, OwnID
    <2>2. CASE there(u)
      <3>1. disableAccess'[u] = denied
        BY <1>1, <2>2, Zenon
      <3>2. said'[notificationID[u]] = IF denied THEN "deny" ELSE "allow"
        BY <1>1, <2>2 DEF CawlTypeOK
      <3> QED
        BY <3>1, <3>2
    <2>3. CASE ~there(u)
      <3>1. responseReceived[u] /\ disableAccess'[u] = disableAccess[u]
        BY <1>1, <2>3, Zenon
      <3>2. said[notificationID[u]] = IF disableAccess[u] THEN "deny" ELSE "allow"
        BY <2>1, <3>1 DEF ReceivedAsSaid
      <3>3. notificationID[u] # i
        BY <1>2, <3>2
      <3>4. said'[notificationID[u]] = said[notificationID[u]]
        BY <1>1, <2>1, <3>3 DEF CawlTypeOK
      <3> QED
        BY <3>1, <3>2, <3>4
    <2> QED
      BY <2>2, <2>3
  <1>9. ReceivedOrFailed'
    BY <1>1, Zenon DEF ReceivedOrFailed
  <1>10. AwakeWhenAnswered'
    <2> SUFFICES ASSUME NEW u \in Threads, pc'[u] = "waiting" PROVE ~responseReceived'[u]
      BY DEF AwakeWhenAnswered
    <2>1. pc[u] = "waiting" /\ ~there(u)
      BY <1>1
    <2> QED
      BY <1>1, <2>1, Zenon DEF AwakeWhenAnswered
  <1> QED
    BY <1>3, <1>4, <1>6, <1>7, <1>8, <1>9, <1>10

LEMMA NextCawlInv == ASSUME CawlInv, [CawlNext]_cawlVars PROVE CawlInv'
  <1>1. CASE UNCHANGED cawlVars
    BY <1>1 DEF cawlVars, frameVars, serviceVars, CawlInv, CawlTypeOK, ListedHere, Numbered, Unanswered,
                ReceivedAsSaid, ReceivedOrFailed, AwakeWhenAnswered, Inside
  <1>2. CASE Register \/ Unregister \/ Unregistered
    BY <1>2, ClientSteps
  <1>3. ASSUME NEW i \in IDs, NEW denied \in BOOLEAN, Answer(i, denied) PROVE CawlInv'
    BY <1>3, AnswerStep
  <1>4. ASSUME NEW t \in Threads,
               \/ BeginUnasked(t) \/ Begin(t) \/ Skip(t) \/ Insert(t) \/ Send(t)
               \/ SendFailed(t) \/ LookAndWait(t) \/ Timeout(t) \/ Remove(t) \/ Decide(t)
        PROVE  CawlInv'
    BY <1>4, BeginStep, ThreadSteps, SendStep
  <1> QED
    BY <1>1, <1>2, <1>3, <1>4 DEF CawlNext

LEMMA AnswersImplied == ASSUME CawlInv PROVE AnswersReach
  <1>1. FramesAlive
    BY DEF CawlInv, CawlTypeOK, ListedHere, FramesAlive, OnList, Inside, Outside
  <1>2. OwnAnswer
    BY Zenon DEF CawlInv, ReceivedAsSaid, ReceivedOrFailed, OwnAnswer, Verdict, Inside, Outside
  <1> QED
    BY <1>1, <1>2 DEF AnswersReach, CawlInv

----------------------------------------------------------------------------
(* The answer of the service reaches the thread that has asked, for every  *)
(* number of threads and of notifications (diskCawlNotification and        *)
(* processServiceResponse).                                                *)
THEOREM AnswersReachAll == CawlSpec => []AnswersReach
  <1>1. CawlInit => CawlInv
    BY InitCawlInv
  <1>2. CawlInv /\ [CawlNext]_cawlVars => CawlInv'
    BY NextCawlInv
  <1>3. CawlInv => AnswersReach
    BY AnswersImplied
  <1> QED
    BY <1>1, <1>2, <1>3, PTL DEF CawlSpec

----------------------------------------------------------------------------
(* The covered file and its sparse file.  A truncation loses units of the  *)
(* covered file before it purges blocks; the purge, which rounds up, takes *)
(* none with a unit below its size.  ReadBack needs only the types of what *)
(* the threads have in their hands to be inductive.                        *)

(* What a thread has in its hands at each place.                           *)
CallerHas(s) ==
  /\ s.place = "rwData" => s.off \in Nat /\ s.length \in Nat /\ s.from \in Nat /\ s.value \in Int
  /\ s.place \in {"sizing", "purge"} => s.size \in Nat

FileTypesOK ==
  /\ fileDataSize \in Nat /\ covered \in Seq(Int) /\ DOMAIN sparse \subseteq Nat
  /\ content \in [Units -> Int] /\ calls \in Nat
  /\ DOMAIN at = Callers /\ \A p \in Callers : CallerHas(at[p])

FileInv == FileTypesOK /\ ReadBack

LEMMA UnitFacts ==
  /\ Units \subseteq Nat
  /\ \A u \in Units : /\ Block(u) \in Nat /\ u % BlockSize \in 0 .. BlockSize - 1
                      /\ u = Block(u) * BlockSize + (u % BlockSize)
  <1>1. Units \subseteq Nat
    BY FileAssumption DEF Units
  <1>2. \A u \in Nat : u \div 2 \in Nat
    OBVIOUS
  <1>3. \A u \in Nat : u % 2 \in 0 .. 1
    OBVIOUS
  <1>4. \A u \in Nat : u = (u \div 2) * 2 + (u % 2)
    <2>1. \A u \in Nat : u % 2 = u - (u \div 2) * 2
      OBVIOUS
    <2> QED
      BY <1>2, <1>3, <2>1
  <1> QED
    BY <1>1, <1>2, <1>3, <1>4 DEF Block, BlockSize

LEMMA ResizedFacts ==
  ASSUME NEW s \in Seq(Int), NEW n \in Nat
  PROVE  /\ Resized(s, n) \in Seq(Int) /\ Len(Resized(s, n)) = n
         /\ \A i \in 1 .. n : i <= Len(s) => Resized(s, n)[i] = s[i]
  BY DEF Resized

LEMMA InitFile == ASSUME FileInit PROVE FileInv
  <1>1. FileTypesOK
    BY DEF FileInit, FileTypesOK, CallerHas, Idle, Units, Original, Any
  <1>2. \A u \in Units : content[u] # Any => u = 0
    BY DEF FileInit
  <1>3. 0 \in Units => Len(covered) = 1 /\ content[0] = Original /\ covered[1] = Original
    BY DEF FileInit
  <1>4. Block(0) = 0 /\ DOMAIN sparse = {}
    BY DEF FileInit, Block, BlockSize
  <1> QED
    BY <1>1, <1>2, <1>3, <1>4 DEF FileInv, ReadBack, Seen

(* A thread that goes on with what its place demands.                      *)
LEMMA GoesOn ==
  ASSUME FileTypesOK, NEW p \in Callers, NEW s, CallerHas(s), Goes(p, s)
  PROVE  DOMAIN at' = Callers /\ \A q \in Callers : CallerHas(at'[q])
  BY DEF FileTypesOK, Goes

(* Nothing that was written shows otherwise when the file gets longer, or  *)
(* shorter by what is forgotten or lost.                                   *)
LEMMA SizeChanged ==
  ASSUME FileInv, UNCHANGED sparse, NEW n \in Nat, covered' = Resized(covered, n),
         lost \subseteq lost',
         \A u \in Units \ lost' : content'[u] # Any => content'[u] = content[u] /\ u < n
  PROVE  ReadBack'
  <1> SUFFICES ASSUME NEW u \in Units \ lost', content'[u] # Any
               PROVE  u < Len(covered') /\ Seen(u)' = content'[u]
    BY DEF ReadBack
  <1>1. /\ u < Len(covered) /\ Seen(u) = content[u] /\ content'[u] = content[u]
        /\ u < n /\ u \in Nat
    BY UnitFacts DEF FileInv, ReadBack
  <1>2. covered \in Seq(Int) /\ Len(covered) \in Nat
    BY DEF FileInv, FileTypesOK
  <1>3. Len(covered') = n /\ u + 1 \in 1 .. n /\ u + 1 <= Len(covered)
    BY <1>1, <1>2, ResizedFacts
  <1>4. covered'[u + 1] = covered[u + 1]
    BY <1>2, <1>3, ResizedFacts
  <1> QED
    BY <1>1, <1>3, <1>4 DEF Seen

(* The steps that change neither the data nor the size of the file.        *)
LEMMA StayingStep ==
  ASSUME FileInv, UNCHANGED << sparse, covered, content, lost >>,
         fileDataSize' \in Nat, calls' \in Nat,
         NEW p \in Callers, NEW s, CallerHas(s), Goes(p, s)
  PROVE  FileInv'
  <1>1. FileTypesOK'
    BY GoesOn DEF FileInv, FileTypesOK
  <1>2. ReadBack'
    BY DEF FileInv, ReadBack, Seen
  <1> QED
    BY <1>1, <1>2 DEF FileInv

(* A write that cuts the file loses what it cuts.                          *)
LEMMA WriteBeginsStep ==
  ASSUME FileInv, NEW p \in Callers, NEW offset \in Units, NEW length \in 1 .. BlockSize + 1,
         NEW append \in BOOLEAN, WriteBegins(p, offset, length, append)
  PROVE  FileInv'
  <1> DEFINE off == IF append THEN fileDataSize ELSE offset
             end == off + length
             s == [place |-> "rwData", off |-> off, length |-> length, from |-> offset,
                   page |-> FALSE, value |-> calls + 1]
  <1>1. FileTypesOK
    BY DEF FileInv
  <1>2. off \in Nat /\ length \in Nat /\ offset \in Nat /\ end \in Nat
    BY <1>1, UnitFacts DEF FileTypesOK, BlockSize
  <1>3. CallerHas(s)
    BY <1>1, <1>2 DEF CallerHas, FileTypesOK
  <1>4. Goes(p, s)
    BY DEF WriteBegins
  <1>5. /\ calls' = calls + 1 /\ UNCHANGED << fileDataSize, sparse, content >>
        /\ IF end > fileDataSize
           THEN /\ covered' = Resized(covered, end)
                /\ lost' = lost \cup {u \in Units : end <= u /\ u < Len(covered)}
           ELSE UNCHANGED << covered, lost >>
    BY DEF WriteBegins, Begins
  <1> HIDE DEF end, off, s
  <1>6. calls' \in Nat /\ fileDataSize' \in Nat
    BY <1>1, <1>5 DEF FileTypesOK
  <1>7. CASE end > fileDataSize
    <2>1. covered' \in Seq(Int)
      BY <1>1, <1>2, <1>5, <1>7, ResizedFacts DEF FileTypesOK
    <2>2. FileTypesOK'
      BY <1>1, <1>3, <1>4, <1>5, <1>6, <2>1, GoesOn DEF FileTypesOK
    <2>3. \A u \in Units \ lost' : content'[u] # Any => content'[u] = content[u] /\ u < end
      <3> SUFFICES ASSUME NEW u \in Units \ lost', content[u] # Any PROVE u < end
        BY <1>5
      <3>1. u \in Nat /\ u < Len(covered) /\ ~(end <= u /\ u < Len(covered))
        BY <1>5, <1>7, UnitFacts DEF FileInv, ReadBack
      <3> QED
        BY <1>2, <3>1
    <2>4. ReadBack'
      BY <1>2, <1>5, <1>7, <2>3, SizeChanged
    <2> QED
      BY <2>2, <2>4 DEF FileInv
  <1>8. CASE ~(end > fileDataSize)
    BY <1>3, <1>4, <1>5, <1>6, <1>8, StayingStep
  <1> QED
    BY <1>7, <1>8

LEMMA QuietFileStep ==
  ASSUME FileInv, NEW p \in Callers, NEW offset \in Units, NEW length \in 1 .. BlockSize + 1,
         \/ PageoutBegins(p, offset) \/ Read(p, offset, length) \/ GetAttr(p)
         \/ WriteRefused(p) \/ WriteFails(p)
  PROVE  FileInv'
  <1>1. /\ fileDataSize \in Nat /\ offset \in Nat /\ length \in Nat /\ Len(covered) \in Nat
        /\ calls \in Nat /\ BlockSize \in Nat
    BY UnitFacts DEF FileInv, FileTypesOK, BlockSize
  <1>2. UNCHANGED << fileDataSize, sparse, covered, content, lost >>
    BY DEF PageoutBegins, Read, GetAttr, WriteRefused, WriteFails
  <1>3. calls' \in Nat
    <2>1. calls' = calls \/ calls' = calls + 1
      BY Zenon DEF PageoutBegins, Read, GetAttr, WriteRefused, WriteFails, Begins
    <2> QED
      BY <1>1, <2>1
  <1>4. \E s : CallerHas(s) /\ Goes(p, s)
    <2>1. CASE PageoutBegins(p, offset)
      <3> DEFINE s == [place |-> "rwData", off |-> offset,
                       length |-> Least(BlockSize, fileDataSize - offset), from |-> offset,
                       page |-> TRUE, value |-> calls + 1]
      <3>1. offset < fileDataSize /\ Goes(p, s)
        BY <2>1 DEF PageoutBegins
      <3>2. CallerHas(s)
        BY <1>1, <3>1 DEF CallerHas, Least
      <3> QED
        BY <3>1, <3>2
    <2>2. CASE Read(p, offset, length)
      <3> DEFINE done == IF offset >= fileDataSize THEN 0 ELSE Least(length, fileDataSize - offset)
      <3>1. Goes(p, Sizing(offset + done, FALSE))
        BY <2>2 DEF Read
      <3>2. done \in Nat
        BY <1>1 DEF Least
      <3> HIDE DEF done
      <3>3. CallerHas(Sizing(offset + done, FALSE))
        BY <1>1, <3>2 DEF CallerHas, Sizing
      <3> QED
        BY <3>1, <3>3
    <2>3. CASE GetAttr(p)
      BY <1>1, <2>3 DEF GetAttr, CallerHas, Sizing
    <2>4. CASE WriteFails(p)
      BY <2>4 DEF WriteFails, CallerHas
    <2>5. CASE WriteRefused(p)
      BY <2>5 DEF WriteRefused, CallerHas, Idle
    <2> QED
      BY <2>1, <2>2, <2>3, <2>4, <2>5
  <1> QED
    BY <1>1, <1>2, <1>3, <1>4, StayingStep

LEMMA SetAttrStep ==
  ASSUME FileInv, NEW p \in Callers, NEW size \in 0 .. MaxUnits, SetAttr(p, size)
  PROVE  FileInv'
  <1>1. FileTypesOK /\ size \in Nat
    BY FileAssumption DEF FileInv
  <1>2. /\ calls' = calls + 1 /\ covered' = Resized(covered, size)
        /\ content' = [u \in Units |-> IF u < size THEN content[u] ELSE Any]
        /\ Goes(p, Sizing(size, TRUE)) /\ UNCHANGED << fileDataSize, sparse, lost >>
    BY DEF SetAttr, Begins
  <1>3. CallerHas(Sizing(size, TRUE))
    BY <1>1 DEF CallerHas, Sizing
  <1>4. content' \in [Units -> Int]
    BY <1>1, <1>2 DEF FileTypesOK, Any
  <1>5. covered' \in Seq(Int)
    BY <1>1, <1>2, ResizedFacts DEF FileTypesOK
  <1>6. FileTypesOK'
    <2>1. DOMAIN at' = Callers /\ \A q \in Callers : CallerHas(at'[q])
      BY <1>1, <1>2, <1>3, GoesOn
    <2>2. calls' \in Nat
      BY <1>1, <1>2 DEF FileTypesOK
    <2> QED
      BY <1>1, <1>2, <1>4, <1>5, <2>1, <2>2 DEF FileTypesOK
  <1>7. \A u \in Units : content'[u] # Any => content'[u] = content[u] /\ u < size
    BY <1>2
  <1> QED
    BY <1>1, <1>2, <1>6, <1>7, SizeChanged DEF FileInv

LEMMA SetUbcFileSizeStep ==
  ASSUME FileInv, NEW p \in Callers, SetUbcFileSize(p)
  PROVE  FileInv'
  <1>1. FileTypesOK /\ at[p].place = "sizing" /\ at[p].size \in Nat
    BY DEF FileInv, FileTypesOK, CallerHas, SetUbcFileSize
  <1>2. CallerHas(Idle) /\ CallerHas([place |-> "purge", size |-> at[p].size])
    BY <1>1 DEF CallerHas, Idle
  <1>3. /\ fileDataSize' \in Nat /\ calls' \in Nat
        /\ UNCHANGED << sparse, covered, content, lost >>
    BY <1>1 DEF SetUbcFileSize, FileTypesOK
  <1>4. \E s : CallerHas(s) /\ Goes(p, s)
    BY <1>2 DEF SetUbcFileSize
  <1> QED
    BY <1>3, <1>4, StayingStep

(* A purge keeps every block that has a unit below its size; of the others *)
(* it loses what is still in the file.                                     *)
LEMMA PurgeStep ==
  ASSUME FileInv, NEW p \in Callers, Purge(p)
  PROVE  FileInv'
  <1> DEFINE size == at[p].size
  <1>1. FileTypesOK /\ size \in Nat /\ Len(covered) \in Nat
    BY DEF FileInv, FileTypesOK, CallerHas, Purge
  <1>2. /\ sparse' = [b \in {c \in DOMAIN sparse : c < FirstPurged(size)} |-> sparse[b]]
        /\ lost' = lost \cup {u \in Units : /\ size <= u /\ u < Len(covered)
                                            /\ Block(u) \in DOMAIN sparse \ DOMAIN sparse'}
        /\ Goes(p, Idle) /\ UNCHANGED << fileDataSize, covered, calls, content >>
    BY DEF Purge
  <1> HIDE DEF size
  <1>3. FileTypesOK'
    <2>1. CallerHas(Idle)
      BY DEF CallerHas, Idle
    <2> QED
      BY <1>1, <1>2, <2>1, GoesOn DEF FileTypesOK
  <1>4. ReadBack'
    <2> SUFFICES ASSUME NEW u \in Units \ lost', content[u] # Any
                 PROVE  u < Len(covered) /\ Seen(u)' = content[u]
      BY <1>2 DEF ReadBack
    <2>1. u < Len(covered) /\ Seen(u) = content[u]
      BY <1>2 DEF FileInv, ReadBack
    <2>2. /\ Block(u) \in DOMAIN sparse' <=> Block(u) \in DOMAIN sparse
          /\ Block(u) \in DOMAIN sparse => sparse'[Block(u)] = sparse[Block(u)]
      <3>1. CASE u < size
        <4>1. Block(u) < FirstPurged(size)
          BY <1>1, <3>1, UnitFacts DEF Block, FirstPurged, BlockSize
        <4> QED
          BY <1>2, <4>1
      <3>2. CASE ~(u < size)
        <4>1. size <= u
          BY <1>1, <3>2, UnitFacts
        <4>2. ~(Block(u) \in DOMAIN sparse \ DOMAIN sparse')
          BY <1>2, <2>1, <4>1
        <4> QED
          BY <1>2, <4>2
      <3> QED
        BY <3>1, <3>2
    <2> QED
      BY <1>2, <2>1, <2>2 DEF Seen
  <1> QED
    BY <1>3, <1>4 DEF FileInv

(* A write shows in the blocks it goes to, and what was there around it,   *)
(* whichever of its blocks fail.                                           *)
LEMMA WriteEndsStep ==
  ASSUME FileInv, NEW p \in Callers, at[p].place = "rwData",
         NEW failed, NEW hollow, NEW told \in BOOLEAN, hollow \subseteq failed,
         hollow \subseteq {b \in BlocksOf(at[p]) : Missing(b) /\ Whole(at[p], b)},
         WriteEnds(p, failed, hollow, told)
  PROVE  FileInv'
  <1> DEFINE w == at[p]
             stored == BlocksOf(w) \ failed
             counted == IF told THEN Counted(w, failed) ELSE {}
             upto == w.from + (IF w.page THEN 0 ELSE Cardinality(counted))
  <1>1. /\ FileTypesOK /\ Len(covered) \in Nat
        /\ w.off \in Nat /\ w.length \in Nat /\ w.from \in Nat /\ w.value \in Int
    BY DEF FileInv, FileTypesOK, CallerHas
  <1>2. /\ sparse' = [b \in DOMAIN sparse \cup stored \cup hollow |->
                       IF b \in stored THEN Merged(w, b)
                       ELSE IF b \in hollow THEN [i \in 0 .. BlockSize - 1 |-> Leftover]
                       ELSE sparse[b]]
        /\ content' = [u \in Units |->
                        IF u \in counted THEN w.value
                        ELSE IF u \in Extent(w) /\ Block(u) \in stored \cup hollow THEN Any
                        ELSE content[u]]
        /\ lost' = (lost \ counted) \cup {u \in counted : u >= Len(covered)}
        /\ Goes(p, IF told THEN Sizing(upto, FALSE) ELSE Idle)
        /\ UNCHANGED << fileDataSize, covered, calls >>
    BY DEF WriteEnds
  <1>3. stored \subseteq BlocksOf(w) /\ hollow \subseteq BlocksOf(w)
    OBVIOUS
  <1>4. counted \subseteq Extent(w) /\ \A u \in counted : Block(u) \in stored
    BY DEF Counted
  <1>5. hollow \cap stored = {} /\ \A b \in hollow : UnitsOf(b) \subseteq Extent(w)
    BY DEF Whole
  <1>6. upto \in Nat
    <2>1. IsFiniteSet(Extent(w))
      <3>1. w.off \in Int /\ w.off + w.length - 1 \in Int
        BY <1>1
      <3> QED
        BY <3>1, FS_Interval DEF Extent
    <2>2. Cardinality(counted) \in Nat
      BY <1>4, <2>1, FS_Subset, FS_CardinalityType
    <2> QED
      BY <1>1, <2>2
  <1> HIDE DEF w, stored, counted, upto
  <1>7. FileTypesOK'
    <2>1. CallerHas(IF told THEN Sizing(upto, FALSE) ELSE Idle)
      BY <1>6 DEF CallerHas, Sizing, Idle
    <2>2. \A b \in BlocksOf(w) : b \in Nat
      <3>1. \A u \in Extent(w) : u \in Nat
        BY <1>1 DEF Extent
      <3>2. \A u \in Nat : u \div 2 \in Nat
        OBVIOUS
      <3> QED
        BY <3>1, <3>2 DEF BlocksOf, Block, BlockSize
    <2>3. DOMAIN sparse' \subseteq Nat
      BY <1>1, <1>2, <1>3, <2>2 DEF FileTypesOK
    <2>4. content' \in [Units -> Int]
      BY <1>1, <1>2 DEF FileTypesOK, Any
    <2> QED
      BY <1>1, <1>2, <2>1, <2>3, <2>4, GoesOn DEF FileTypesOK
  <1>8. ReadBack'
    <2> SUFFICES ASSUME NEW u \in Units \ lost', content'[u] # Any
                 PROVE  u < Len(covered) /\ Seen(u)' = content'[u]
      BY <1>2 DEF ReadBack
    <2>1. /\ u \in Nat /\ Block(u) \in Nat /\ u % BlockSize \in 0 .. BlockSize - 1
          /\ Block(u) * BlockSize + (u % BlockSize) = u
      BY UnitFacts
    <2>2. u \notin counted => u \notin lost
      BY <1>2
    <2>3. CASE Block(u) \in stored
      <3>1. Seen(u)' = Merged(w, Block(u))[u % BlockSize]
        BY <1>2, <2>3 DEF Seen
      <3>2. Merged(w, Block(u))[u % BlockSize] = IF u \in Extent(w) THEN w.value ELSE Seen(u)
        BY <2>1 DEF Merged
      <3>3. CASE u \in Extent(w)
        <4>1. u \in counted
          BY <1>2, <2>3, <3>3
        <4>2. u < Len(covered)
          BY <1>1, <1>2, <2>1, <4>1
        <4> QED
          BY <1>2, <3>1, <3>2, <3>3, <4>1, <4>2
      <3>4. CASE u \notin Extent(w)
        <4>1. u \notin counted /\ content'[u] = content[u]
          BY <1>2, <1>4, <3>4
        <4> QED
          BY <2>2, <3>1, <3>2, <3>4, <4>1 DEF FileInv, ReadBack
      <3> QED
        BY <3>3, <3>4
    <2>4. CASE Block(u) \notin stored
      <3>1. u \notin counted
        BY <1>4, <2>4
      <3>2. Block(u) \notin hollow
        <4>1. u \in UnitsOf(Block(u))
          BY DEF UnitsOf
        <4> QED
          BY <1>2, <1>5, <3>1, <4>1
      <3>3. content'[u] = content[u]
        BY <1>2, <2>4, <3>1, <3>2
      <3>4. Seen(u)' = Seen(u)
        BY <1>2, <2>4, <3>2 DEF Seen
      <3> QED
        BY <2>2, <3>1, <3>3, <3>4 DEF FileInv, ReadBack
    <2> QED
      BY <2>3, <2>4
  <1> QED
    BY <1>7, <1>8 DEF FileInv

LEMMA NextFileInv == ASSUME FileInv, [FileNext]_fileVars PROVE FileInv'
  <1>1. CASE UNCHANGED fileVars
    BY <1>1 DEF fileVars, FileInv, FileTypesOK, ReadBack, Seen
  <1>2. ASSUME NEW p \in Callers, Step(p) PROVE FileInv'
    <2>1. ASSUME NEW offset \in Units, NEW length \in 1 .. BlockSize + 1, NEW append \in BOOLEAN,
                 WriteBegins(p, offset, length, append)
          PROVE  FileInv'
      BY <2>1, WriteBeginsStep
    <2>2. ASSUME NEW offset \in Units, NEW length \in 1 .. BlockSize + 1, Read(p, offset, length)
          PROVE  FileInv'
      BY <2>2, QuietFileStep
    <2>3. 1 \in 1 .. BlockSize + 1 /\ 0 \in Units
      BY FileAssumption DEF BlockSize, Units
    <2>4. ASSUME NEW offset \in Units, PageoutBegins(p, offset)
          PROVE  FileInv'
      BY <2>3, <2>4, QuietFileStep
    <2>5. CASE GetAttr(p) \/ WriteRefused(p) \/ WriteFails(p)
      BY <2>3, <2>5, QuietFileStep
    <2>6. ASSUME NEW size \in 0 .. MaxUnits, SetAttr(p, size)
          PROVE  FileInv'
      BY <2>6, SetAttrStep
    <2>7. CASE SetUbcFileSize(p) \/ Purge(p)
      BY <2>7, SetUbcFileSizeStep, PurgeStep
    <2>8. CASE WriteKept(p)
      BY <2>8, WriteEndsStep DEF WriteKept
    <2>9. CASE WriteInterrupted(p)
      <3>1. PICK failed \in SUBSET BlocksOf(at[p]), told \in BOOLEAN :
              \E hollow \in SUBSET {b \in failed : Missing(b) /\ Whole(at[p], b)} :
                WriteEnds(p, failed, hollow, told)
        BY <2>9 DEF WriteInterrupted
      <3>2. at[p].place = "rwData"
        BY <2>9 DEF WriteInterrupted
      <3> QED
        BY <3>1, <3>2, WriteEndsStep
    <2> QED
      BY <1>2, <2>1, <2>2, <2>4, <2>5, <2>6, <2>7, <2>8, <2>9, Zenon DEF Step
  <1> QED
    BY <1>1, <1>2 DEF FileNext

----------------------------------------------------------------------------
(* A unit of an isolated file shows what was last written to it, whether   *)
(* its block is in the sparse file or still in the covered one, for every  *)
(* number of threads, size of the file and order of the calls, whichever   *)
(* blocks fail; except for the units that the code cuts off, leaves past   *)
(* the end or purges because it relies on a stale size (the history lost;  *)
(* PurgedPastTheEnd shows the purge).                                      *)
THEOREM ReadBackAll == FileSpec => []ReadBack
  <1>1. FileInit => FileInv
    BY InitFile
  <1>2. FileInv /\ [FileNext]_fileVars => FileInv'
    BY NextFileInv
  <1>3. FileInv => ReadBack
    BY DEF FileInv
  <1> QED
    BY <1>1, <1>2, <1>3, PTL DEF FileSpec
=============================================================================
