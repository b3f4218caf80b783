------------------------- MODULE DataQueueProofs -------------------------
(***************************************************************************)
(* The ring of the data queue, for every size of the ring, of the header   *)
(* and of the entries, and for any number of entries.  What lies between   *)
(* the head and the tail is one run of entries or two, the second at the   *)
(* beginning of the ring; the argument is where the entries of each run    *)
(* lie, which of them are published, and what the memory says of them.     *)
(*                                                                         *)
(* The driver has one thread that consumes, and so has the ring here.      *)
(* Any number of threads produce.  From the third on the code lets one     *)
(* publish before its turn (see README.md): what is proved is what holds   *)
(* until one does, overtaken, which is the failure of the assertion that   *)
(* enqueueScatterGather makes after its sleep.  Nothing is supposed of how *)
(* the threads run.                                                        *)
(***************************************************************************)
EXTENDS DataQueue, FiniteSetTheorems, TLAPS

(* One thread consumes: only shadowThread of DldIOShadow waits for data,   *)
(* and there is one for each queue.                                        *)
OneConsumer == \A c, d \in Consumers : c = d

(* The placements P of the entries, of which the model keeps a history.    *)
PlacementType == [pre : Offsets, off : Offsets, size : 0 .. QueueSize, end : Offsets]
Off(P, i)  == P[i].off
Size(P, i) == P[i].size
End(P, i)  == IF i = 0 THEN 0 ELSE P[i].end

(* The entries that are not removed, r + 1 to m, begin where the tail was  *)
(* or at the beginning of the ring, and end within it.                     *)
Regular(P, r, m) ==
  \A i \in (r + 1) .. m :
    /\ Size(P, i) \in DataSizes
    /\ P[i].pre = End(P, i - 1)
    /\ End(P, i) = Off(P, i) + HeaderSize + Size(P, i)
    /\ End(P, i) <= QueueSize

(* The entries r + 1 to w follow each other from the head h upwards.       *)
Lower(P, h, r, w) ==
  /\ h <= End(P, w)
  /\ \A i \in (r + 1) .. w :
       /\ Off(P, i) = End(P, i - 1)
       /\ h <= Off(P, i)
       /\ End(P, i) <= End(P, w)
  /\ \A i, j \in (r + 1) .. w : i < j => End(P, i) <= Off(P, j)

(* The entry w + 1 did not fit behind the entry w and went to the          *)
(* beginning of the ring; those after it follow each other up to the tail  *)
(* t, below the head.                                                      *)
Upper(P, h, t, m, w) ==
  /\ w < m =>
       /\ t < h
       /\ Off(P, w + 1) = 0
       /\ End(P, w) + HeaderSize + Size(P, w + 1) > QueueSize
  /\ \A i \in (w + 1) .. m : End(P, i) <= t /\ (i # w + 1 => Off(P, i) = End(P, i - 1))
  /\ \A i, j \in (w + 1) .. m : i < j => End(P, i) <= Off(P, j)

(* Both runs together.  There is no second one when w = m.                 *)
Layout(P, h, t, m, r, w) ==
  /\ r \in 0 .. m /\ w \in r .. m
  /\ h = End(P, r) /\ t = End(P, m)
  /\ Regular(P, r, m)
  /\ Lower(P, h, r, w)
  /\ Upper(P, h, t, m, w)

(* The header of entry i, in the memory h, says what the entry is.         *)
Named(P, h, i) ==
  /\ h[Off(P, i)].id = i
  /\ h[Off(P, i)].dataSize = Size(P, i)
  /\ ~h[Off(P, i)].intermediate

(* Where entry w + 1 did not fit there is a header with its size, if there *)
(* was room for a header: the trampoline.                                  *)
Bridge(P, h, m, w) ==
  w < m /\ End(P, w) + HeaderSize <= QueueSize =>
    h[End(P, w)].dataSize = Size(P, w + 1)

(* The data of entry i is what its producer copied, in the memory c.       *)
Filled(P, c, i) == \A x \in DataCells(Off(P, i), Size(P, i)) : c[x] = i

(* With one consumer at most one entry is handed out and not removed.      *)
Gone == IF Holders = {} THEN taken ELSE taken - 1
Waiting == {p \in Producers : pcQ[p] = "waitTail"}

(* The layout of the ring as it is, and its headers.                       *)
Ring(w) == Layout(placed, head, tail, n, Gone, w)
Headers(w) ==
  /\ \A i \in (Gone + 1) .. n : Named(placed, hdr, i)
  /\ Bridge(placed, hdr, n, w)

(* An entry has its data once it has been copied.                          *)
Data ==
  \A i \in (Gone + 1) .. n :
    (\A p \in Producers : pcQ[p] = "copy" => loc[p].id # i) => Filled(placed, cells, i)

(* The entries up to u are published, those up to taken handed out; the    *)
(* offsets of the published entries say so.                                *)
Order(u) ==
  /\ taken \in 0 .. u /\ u \in 0 .. n
  /\ validDataHead = End(placed, taken) /\ validDataTail = End(placed, u)

(* The consumer has the entry handed out last.  It never has to wait for   *)
(* another one to be removed.                                              *)
HoldsTaken(c) ==
  /\ 0 < taken
  /\ loc[c].id = taken
  /\ loc[c].entry = Off(placed, taken)
  /\ loc[c].size = Size(placed, taken)

Consuming ==
  /\ waitersForHeadPropogation = 0
  /\ \A c \in Consumers :
       /\ pcQ[c] \in {"idle", "waitData", "dequeue", "holding"}
       /\ waitOn[c] # NoEvent => pcQ[c] = "waitData" /\ waitOn[c] = DataEvent
       /\ pcQ[c] = "holding" => HoldsTaken(c)

(* Each entry after u has one producer, who knows where it lies.           *)
InFlightAt(p) ==
  /\ loc[p].entry = Off(placed, loc[p].id)
  /\ loc[p].size = Size(placed, loc[p].id)
  /\ loc[p].oldTail = End(placed, loc[p].id - 1)
  /\ loc[p].newTail = End(placed, loc[p].id)

Flying(u) ==
  /\ \A p \in InFlight : loc[p].id \in (u + 1) .. n /\ InFlightAt(p)
  /\ \A i \in (u + 1) .. n : \E p \in InFlight : loc[p].id = i
  /\ \A p, q \in InFlight : loc[p].id = loc[q].id => p = q

(* The producers that sleep for their turn are counted, and the header of  *)
(* the entry of each says so.                                              *)
Sleeping ==
  /\ IsFiniteSet(Waiting)
  /\ waitersForTailPropogation = Cardinality(Waiting)
  /\ \A p \in Producers :
       /\ pcQ[p] \in {"idle", "copy", "copied", "waitTail", "wakeNext", "sent",
                      "rejected"}
       /\ waitOn[p] # NoEvent => pcQ[p] = "waitTail" /\ waitOn[p] = loc[p].oldTail
       /\ pcQ[p] = "waitTail" => hdr[loc[p].entry].waitTail

(* The inductive invariant.  That the data is where the consumer looks     *)
(* depends on who has published what and on who sleeps, so its parts are   *)
(* proved together.                                                        *)
IInv ==
  /\ RingTypeOK
  /\ \E w \in 0 .. n : Ring(w) /\ Headers(w)
  /\ Data
  /\ \E u \in 0 .. n : Order(u) /\ Flying(u)
  /\ Consuming
  /\ Sleeping
  /\ TurnIsSignalledInPlace
  /\ NoSleepOverData

Placements == [Ids -> PlacementType]

(* Ends and sizes are numbers within the ring.                             *)
LEMMA PlacedTypes ==
  ASSUME NEW P \in Placements
  PROVE  /\ \A i \in Ids : Off(P, i) \in Nat /\ Size(P, i) \in Nat
         /\ \A i \in 0 .. MaxEntries : End(P, i) \in Nat /\ End(P, i) <= QueueSize
         /\ End(P, 0) = 0
  BY QueueAssumption DEF Placements, PlacementType, Off, Size, End, Offsets, Ids

(* P2 is P with one placement more.                                        *)
Grown(P, P2, m, new) ==
  /\ P2 \in Placements
  /\ Off(P2, m + 1) = new.off /\ Size(P2, m + 1) = new.size
  /\ End(P2, m + 1) = new.end /\ P2[m + 1].pre = new.pre
  /\ \A i \in 1 .. m : /\ Off(P2, i) = Off(P, i) /\ Size(P2, i) = Size(P, i)
                       /\ P2[i].pre = P[i].pre
  /\ \A i \in 0 .. m : End(P2, i) = End(P, i)

(* Writing the placement m + 1 extends P.                                  *)
LEMMA Extended ==
  ASSUME NEW P \in Placements, NEW m \in Nat, m < MaxEntries, NEW new \in PlacementType,
         NEW P2, P2 = [P EXCEPT ![m + 1] = new]
  PROVE  Grown(P, P2, m, new)
  <1>1. m + 1 \in Ids /\ \A i \in 1 .. m : i \in Ids /\ i # m + 1
    BY QueueAssumption DEF Ids
  <1>2. P2 \in Placements /\ P2[m + 1] = new /\ \A i \in 1 .. m : P2[i] = P[i]
    BY <1>1 DEF Placements
  <1>3. \A i \in 0 .. m : i = 0 \/ i \in 1 .. m
    OBVIOUS
  <1>4. m + 1 # 0
    OBVIOUS
  <1> QED
    BY <1>2, <1>3, <1>4 DEF Off, Size, End, Grown

(* No two entries end at the same place: the end tells the entry.          *)
LEMMA EndsApart ==
  ASSUME NEW P \in Placements, NEW h, NEW t, NEW m \in 0 .. MaxEntries, NEW r, NEW w,
         Layout(P, h, t, m, r, w), NEW a \in r .. m, NEW b \in r .. m, a < b
  PROVE  End(P, a) # End(P, b)
  <1>1. r \in 0 .. m /\ w \in r .. m /\ h = End(P, r) /\ t = End(P, m)
    BY DEF Layout
  <1>2. Regular(P, r, m) /\ Lower(P, h, r, w) /\ Upper(P, h, t, m, w)
    BY DEF Layout
  <1>3. b \in (r + 1) .. m /\ b \in Ids
    BY <1>1, QueueAssumption DEF Ids
  <1>4. Off(P, b) < End(P, b)
    BY <1>2, <1>3, PlacedTypes, QueueAssumption DEF Regular
  <1>5. End(P, a) \in Nat /\ End(P, b) \in Nat /\ Off(P, b) \in Nat /\ t \in Nat /\ h \in Nat
    BY <1>1, <1>3, PlacedTypes, QueueAssumption DEF Ids
  <1>6. CASE b <= w
    <2>1. b \in (r + 1) .. w
      BY <1>1, <1>3, <1>6
    <2>2. CASE a = r
      BY <1>1, <1>2, <1>4, <1>5, <2>1, <2>2 DEF Lower
    <2>3. CASE a # r
      <3>1. a \in (r + 1) .. w
        BY <1>1, <1>6, <2>3
      <3> QED
        BY <1>2, <1>4, <1>5, <2>1, <3>1 DEF Lower
    <2> QED
      BY <2>2, <2>3
  <1>7. CASE w < b
    <2>1. b \in (w + 1) .. m /\ w < m
      BY <1>1, <1>3, <1>7
    <2>2. CASE a <= w
      <3>1. End(P, b) <= t /\ t < h
        BY <1>2, <2>1 DEF Upper
      <3>2. CASE a = r
        BY <1>1, <1>5, <3>1, <3>2
      <3>3. CASE a # r
        <4>1. a \in (r + 1) .. w /\ a \in (r + 1) .. m /\ a \in Ids
          BY <1>1, <2>2, <3>3, QueueAssumption DEF Ids
        <4>2. h <= Off(P, a) /\ Off(P, a) < End(P, a) /\ Off(P, a) \in Nat
          BY <1>2, <4>1, PlacedTypes, QueueAssumption DEF Lower, Regular
        <4> QED
          BY <1>5, <3>1, <4>2
      <3> QED
        BY <3>2, <3>3
    <2>3. CASE w < a
      <3>1. a \in (w + 1) .. m
        BY <1>1, <2>3
      <3> QED
        BY <1>2, <1>4, <1>5, <2>1, <3>1 DEF Upper
    <2> QED
      BY <1>1, <2>2, <2>3
  <1> QED
    BY <1>1, <1>6, <1>7

(* The entries lie apart, and below the place where the one that went      *)
(* around did not fit.                                                     *)
LEMMA PlacesApart ==
  ASSUME NEW P \in Placements, NEW h, NEW t, NEW m \in 0 .. MaxEntries, NEW r, NEW w,
         Layout(P, h, t, m, r, w)
  PROVE  /\ \A i, j \in (r + 1) .. m :
              i # j => End(P, i) <= Off(P, j) \/ End(P, j) <= Off(P, i)
         /\ w < m => \A i \in (r + 1) .. m : End(P, i) <= End(P, w)
         /\ w = m => \A i \in (r + 1) .. m : End(P, i) <= t
         /\ w < m => \A i \in (w + 1) .. m : End(P, i) <= t
         /\ \A i \in (r + 1) .. w : h <= Off(P, i)
  <1>1. r \in 0 .. m /\ w \in r .. m /\ h = End(P, r) /\ t = End(P, m)
    BY DEF Layout
  <1>2. Regular(P, r, m) /\ Lower(P, h, r, w) /\ Upper(P, h, t, m, w)
    BY DEF Layout
  <1>3. h \in Nat /\ t \in Nat /\ End(P, w) \in Nat
    BY <1>1, PlacedTypes, QueueAssumption
  <1>4. \A i \in (r + 1) .. m : /\ i \in (r + 1) .. w \/ i \in (w + 1) .. m
                                /\ i \in Ids /\ i \in 0 .. MaxEntries
    BY <1>1, QueueAssumption DEF Ids
  <1>5. \A i \in (r + 1) .. m : End(P, i) \in Nat /\ Off(P, i) \in Nat
    BY <1>4, PlacedTypes
  <1>6. \A i \in (w + 1) .. m : w < m /\ End(P, i) <= t /\ t < h
    <2> SUFFICES ASSUME NEW i \in (w + 1) .. m
                 PROVE  w < m /\ End(P, i) <= t /\ t < h
      OBVIOUS
    <2>1. w < m
      BY <1>1
    <2> QED
      BY <1>2, <2>1 DEF Upper
  <1>7. \A i \in (r + 1) .. w : h <= Off(P, i) /\ End(P, i) <= End(P, w)
    BY <1>2 DEF Lower
  <1>8. h <= End(P, w)
    BY <1>2 DEF Lower
  <1>9. ASSUME NEW i \in (r + 1) .. m, NEW j \in (r + 1) .. m, i < j
        PROVE  End(P, i) <= Off(P, j) \/ End(P, j) <= Off(P, i)
    <2>1. CASE i \in (r + 1) .. w /\ j \in (r + 1) .. w
      BY <1>2, <1>9, <2>1 DEF Lower
    <2>2. CASE i \in (w + 1) .. m /\ j \in (w + 1) .. m
      BY <1>2, <1>9, <2>2 DEF Upper
    <2>3. CASE i \in (r + 1) .. w /\ j \in (w + 1) .. m
      BY <1>3, <1>5, <1>6, <1>7, <2>3
    <2>4. ~(i \in (w + 1) .. m /\ j \in (r + 1) .. w)
      BY <1>1, <1>9
    <2> QED
      BY <1>4, <2>1, <2>2, <2>3, <2>4
  <1>10. \A i, j \in (r + 1) .. m : i # j => i < j \/ j < i
    BY <1>1
  <1>11. w < m => \A i \in (r + 1) .. m : End(P, i) <= End(P, w)
    BY <1>3, <1>4, <1>5, <1>6, <1>7, <1>8
  <1>12. w = m => \A i \in (r + 1) .. m : End(P, i) <= t
    BY <1>1, <1>7
  <1> QED
    BY <1>6, <1>7, <1>9, <1>10, <1>11, <1>12

(* An entry at the tail extends the run the tail is in.                    *)
LEMMA GrowsAtTail ==
  ASSUME NEW P \in Placements, NEW h, NEW t, NEW m \in 0 .. MaxEntries, NEW r, NEW w,
         Layout(P, h, t, m, r, w), m < MaxEntries, NEW s \in DataSizes,
         \/ t >= h /\ t + EntrySize(s) <= QueueSize
         \/ t < h /\ h - t > EntrySize(s),
         NEW P2, Grown(P, P2, m, [pre |-> t, off |-> t, size |-> s, end |-> t + EntrySize(s)])
  PROVE  Layout(P2, h, t + EntrySize(s), m + 1, r, IF t >= h THEN m + 1 ELSE w)
  <1>1. r \in 0 .. m /\ w \in r .. m /\ h = End(P, r) /\ t = End(P, m)
    BY DEF Layout
  <1>2. Regular(P, r, m) /\ Lower(P, h, r, w) /\ Upper(P, h, t, m, w)
    BY DEF Layout
  <1>3. h \in Nat /\ t \in Nat /\ End(P, w) \in Nat /\ h <= QueueSize
    BY <1>1, PlacedTypes, QueueAssumption
  <1>4. /\ Off(P2, m + 1) = t /\ Size(P2, m + 1) = s
        /\ End(P2, m + 1) = t + HeaderSize + s /\ P2[m + 1].pre = t
    BY <1>3, QueueAssumption DEF Grown, EntrySize
  <1>5. s \in Nat /\ HeaderSize \in Nat /\ HeaderSize > 0 /\ s > 0 /\ QueueSize \in Nat
    BY QueueAssumption
  <1>6. \A i \in (r + 1) .. m : /\ Off(P2, i) = Off(P, i) /\ Size(P2, i) = Size(P, i)
                                /\ P2[i].pre = P[i].pre
    BY <1>1 DEF Grown
  <1>7. \A i \in r .. m : End(P2, i) = End(P, i) /\ End(P2, i) \in Nat
    BY <1>1, PlacedTypes, QueueAssumption DEF Grown
  <1>8. \A i \in (r + 1) .. (m + 1) : i = m + 1 \/ i \in (r + 1) .. m
    BY <1>1
  <1>9. \A i \in (r + 1) .. (m + 1) : i - 1 \in r .. m
    BY <1>1
  <1>10. t + HeaderSize + s <= QueueSize
    BY <1>3, <1>5 DEF EntrySize
  <1>11. Regular(P2, r, m + 1)
    <2>1. \A i \in (r + 1) .. m : i \in r .. m
      BY <1>1
    <2> QED
      BY <1>1, <1>2, <1>4, <1>5, <1>6, <1>7, <1>8, <1>9, <1>10, <2>1 DEF Regular
  <1>12. m + 1 - 1 = m /\ m \in r .. m /\ r \in r .. m
    BY <1>1
  <1>13. \A i \in (r + 1) .. m : Off(P, i) \in Nat
    BY <1>1, PlacedTypes, QueueAssumption DEF Ids
  <1>14. CASE t >= h
    <2>1. w = m
      BY <1>1, <1>2, <1>3, <1>14 DEF Upper
    <2>2. \A i \in (r + 1) .. m : Off(P, i) = End(P, i - 1) /\ h <= Off(P, i) /\ End(P, i) <= t
      BY <1>1, <1>2, <2>1 DEF Lower
    <2>3. \A i, j \in (r + 1) .. m : i < j => End(P, i) <= Off(P, j)
      BY <1>2, <2>1 DEF Lower
    <2>4. \A i \in (r + 1) .. m : i \in r .. m
      BY <1>1
    <2>5. \A i \in (r + 1) .. m : End(P2, i) <= t
      BY <1>7, <2>2, <2>4
    <2>6. \A i \in (r + 1) .. (m + 1) : Off(P2, i) = End(P2, i - 1)
      BY <1>1, <1>4, <1>6, <1>7, <1>8, <1>9, <1>12, <2>2
    <2>7. \A i \in (r + 1) .. (m + 1) : h <= Off(P2, i)
      BY <1>3, <1>4, <1>6, <1>8, <1>14, <2>2
    <2>8. \A i \in (r + 1) .. (m + 1) : End(P2, i) <= End(P2, m + 1)
      BY <1>3, <1>4, <1>5, <1>7, <1>8, <2>4, <2>5
    <2>9. \A i, j \in (r + 1) .. (m + 1) : i < j => End(P2, i) <= Off(P2, j)
      <3> SUFFICES ASSUME NEW i \in (r + 1) .. (m + 1), NEW j \in (r + 1) .. (m + 1), i < j
                   PROVE  End(P2, i) <= Off(P2, j)
        OBVIOUS
      <3>1. i \in (r + 1) .. m
        BY <1>1
      <3>2. CASE j = m + 1
        BY <1>4, <2>5, <3>1, <3>2
      <3>3. CASE j \in (r + 1) .. m
        BY <1>6, <1>7, <2>3, <2>4, <3>1, <3>3
      <3> QED
        BY <1>8, <3>2, <3>3
    <2>10. h <= End(P2, m + 1)
      BY <1>3, <1>4, <1>5, <1>14
    <2>11. Lower(P2, h, r, m + 1)
      BY <2>6, <2>7, <2>8, <2>9, <2>10 DEF Lower
    <2>12. Upper(P2, h, t + EntrySize(s), m + 1, m + 1)
      BY <1>1 DEF Upper
    <2> QED
      BY <1>1, <1>4, <1>5, <1>7, <1>11, <1>12, <1>14, <2>11, <2>12, <1>3
      DEF Layout, EntrySize
  <1>15. CASE t < h
    <2>1. w < m
      BY <1>1, <1>2, <1>3, <1>15 DEF Lower
    <2>2. Lower(P2, h, r, w)
      <3>1. \A i \in (r + 1) .. w : i \in (r + 1) .. m /\ i \in r .. m /\ i - 1 \in r .. m
        BY <1>1
      <3>2. w \in r .. m
        BY <1>1
      <3> QED
        BY <1>2, <1>6, <1>7, <3>1, <3>2 DEF Lower
    <2>3. t + HeaderSize + s < h
      BY <1>3, <1>5, <1>15 DEF EntrySize
    <2>4. \A i \in (w + 1) .. m : i \in (r + 1) .. m /\ i \in r .. m /\ i - 1 \in r .. m
      BY <1>1
    <2>5. \A i \in (w + 1) .. (m + 1) : i = m + 1 \/ i \in (w + 1) .. m
      BY <1>1
    <2>6. w + 1 \in (r + 1) .. m /\ w \in r .. m /\ m + 1 # w + 1
      BY <1>1, <2>1
    <2>7. Off(P2, w + 1) = 0 /\ End(P2, w) + HeaderSize + Size(P2, w + 1) > QueueSize
      BY <1>2, <1>6, <1>7, <2>1, <2>6 DEF Upper
    <2>8. \A i \in (w + 1) .. m : End(P2, i) <= t
      BY <1>2, <1>7, <2>4 DEF Upper
    <2>9. \A i \in (w + 1) .. (m + 1) : End(P2, i) <= t + HeaderSize + s
      BY <1>3, <1>4, <1>5, <1>7, <2>4, <2>5, <2>8
    <2>10. \A i \in (w + 1) .. (m + 1) : i # w + 1 => Off(P2, i) = End(P2, i - 1)
      BY <1>1, <1>2, <1>4, <1>6, <1>7, <1>12, <2>4, <2>5 DEF Upper
    <2>11. \A i, j \in (w + 1) .. (m + 1) : i < j => End(P2, i) <= Off(P2, j)
      <3> SUFFICES ASSUME NEW i \in (w + 1) .. (m + 1), NEW j \in (w + 1) .. (m + 1), i < j
                   PROVE  End(P2, i) <= Off(P2, j)
        OBVIOUS
      <3>1. i \in (w + 1) .. m
        BY <1>1
      <3>2. CASE j = m + 1
        BY <1>4, <2>8, <3>1, <3>2
      <3>3. CASE j \in (w + 1) .. m
        BY <1>2, <1>6, <1>7, <2>4, <3>1, <3>3 DEF Upper
      <3> QED
        BY <2>5, <3>2, <3>3
    <2>12. Upper(P2, h, t + HeaderSize + s, m + 1, w)
      BY <2>3, <2>7, <2>9, <2>10, <2>11 DEF Upper
    <2>13. t + EntrySize(s) = t + HeaderSize + s /\ ~(t >= h)
      BY <1>3, <1>5, <1>15 DEF EntrySize
    <2> QED
      BY <1>1, <1>4, <1>7, <1>11, <1>12, <2>2, <2>12, <2>13 DEF Layout
  <1> QED
    BY <1>3, <1>14, <1>15

(* An entry that goes around ends the run the tail was in.                 *)
LEMMA GrowsAround ==
  ASSUME NEW P \in Placements, NEW h, NEW t, NEW m \in 0 .. MaxEntries, NEW r, NEW w,
         Layout(P, h, t, m, r, w), m < MaxEntries, NEW s \in DataSizes,
         t >= h, t + EntrySize(s) > QueueSize, h > EntrySize(s),
         NEW P2, Grown(P, P2, m, [pre |-> t, off |-> 0, size |-> s, end |-> EntrySize(s)])
  PROVE  w = m /\ Layout(P2, h, EntrySize(s), m + 1, r, m)
  <1>1. r \in 0 .. m /\ w \in r .. m /\ h = End(P, r) /\ t = End(P, m)
    BY DEF Layout
  <1>2. Regular(P, r, m) /\ Lower(P, h, r, w) /\ Upper(P, h, t, m, w)
    BY DEF Layout
  <1>3. h \in Nat /\ t \in Nat /\ h <= QueueSize
    BY <1>1, PlacedTypes, QueueAssumption
  <1>4. w = m
    BY <1>1, <1>2, <1>3 DEF Upper
  <1>5. s \in Nat /\ HeaderSize \in Nat /\ HeaderSize > 0 /\ s > 0 /\ QueueSize \in Nat
    BY QueueAssumption
  <1>6. /\ Off(P2, m + 1) = 0 /\ Size(P2, m + 1) = s
        /\ End(P2, m + 1) = HeaderSize + s /\ P2[m + 1].pre = t
    BY <1>5 DEF Grown, EntrySize
  <1>7. \A i \in (r + 1) .. m : /\ Off(P2, i) = Off(P, i) /\ Size(P2, i) = Size(P, i)
                                /\ P2[i].pre = P[i].pre
    BY <1>1 DEF Grown
  <1>8. \A i \in r .. m : End(P2, i) = End(P, i) /\ End(P2, i) \in Nat
    BY <1>1, PlacedTypes, QueueAssumption DEF Grown
  <1>9. \A i \in (r + 1) .. (m + 1) : i = m + 1 \/ i \in (r + 1) .. m
    BY <1>1
  <1>10. \A i \in (r + 1) .. (m + 1) : i - 1 \in r .. m
    BY <1>1
  <1>11. m + 1 - 1 = m /\ m \in r .. m /\ r \in r .. m
    BY <1>1
  <1>12. Regular(P2, r, m + 1)
    <2>1. \A i \in (r + 1) .. m : i \in r .. m
      BY <1>1
    <2>2. HeaderSize + s <= QueueSize
      BY <1>3, <1>5 DEF EntrySize
    <2> QED
      BY <1>1, <1>2, <1>5, <1>6, <1>7, <1>8, <1>9, <1>10, <1>11, <2>1, <2>2 DEF Regular
  <1>13. Lower(P2, h, r, m)
    <2>1. \A i \in (r + 1) .. m : i \in r .. m /\ i - 1 \in r .. m
      BY <1>1
    <2> QED
      BY <1>2, <1>4, <1>7, <1>8, <1>11, <2>1 DEF Lower
  <1>14. Upper(P2, h, HeaderSize + s, m + 1, m)
    <2>1. \A i \in (m + 1) .. (m + 1) : i = m + 1
      BY <1>1
    <2>2. HeaderSize + s < h /\ t + HeaderSize + s > QueueSize
      BY <1>3, <1>5 DEF EntrySize
    <2>3. End(P2, m) = t
      BY <1>1, <1>8, <1>11
    <2> QED
      BY <1>1, <1>3, <1>5, <1>6, <2>1, <2>2, <2>3 DEF Upper
  <1>15. r \in 0 .. (m + 1) /\ m \in r .. (m + 1) /\ EntrySize(s) = HeaderSize + s
    BY <1>1, <1>5 DEF EntrySize
  <1> QED
    BY <1>1, <1>4, <1>6, <1>8, <1>11, <1>12, <1>13, <1>14, <1>15 DEF Layout

(* Without its first entry the ring is still two runs, or one when the     *)
(* first run is empty now.                                                 *)
LEMMA Shrinks ==
  ASSUME NEW P \in Placements, NEW h, NEW t, NEW m \in 0 .. MaxEntries, NEW r, NEW w,
         Layout(P, h, t, m, r, w), r < m
  PROVE  Layout(P, End(P, r + 1), t, m, r + 1, IF w = r THEN m ELSE w)
  <1>1. r \in 0 .. m /\ w \in r .. m /\ h = End(P, r) /\ t = End(P, m)
    BY DEF Layout
  <1>2. Regular(P, r, m) /\ Lower(P, h, r, w) /\ Upper(P, h, t, m, w)
    BY DEF Layout
  <1>3. h \in Nat /\ t \in Nat /\ End(P, r + 1) \in Nat
    BY <1>1, PlacedTypes, QueueAssumption
  <1>4. Regular(P, r + 1, m)
    <2>1. \A i \in (r + 2) .. m : i \in (r + 1) .. m
      BY <1>1
    <2> QED
      BY <1>1, <1>2, <2>1 DEF Regular
  <1>5. r + 1 \in 0 .. m
    BY <1>1
  <1>6. r + 1 \in (r + 1) .. m /\ r + 1 \in Ids
    BY <1>1, QueueAssumption DEF Ids
  <1>7. Off(P, r + 1) < End(P, r + 1) /\ Off(P, r + 1) \in Nat
    BY <1>2, <1>6, PlacedTypes, QueueAssumption DEF Regular
  <1>8. CASE w = r
    <2>1. \A i \in (r + 1) .. m : End(P, i) <= t /\ (i # r + 1 => Off(P, i) = End(P, i - 1))
      BY <1>2, <1>8 DEF Upper
    <2>2. \A i, j \in (r + 1) .. m : i < j => End(P, i) <= Off(P, j)
      BY <1>2, <1>8 DEF Upper
    <2>3. \A i \in (r + 1 + 1) .. m : i \in (r + 1) .. m /\ i # r + 1 /\ r + 1 < i
      BY <1>1
    <2>4. Lower(P, End(P, r + 1), r + 1, m)
      BY <1>1, <1>6, <2>1, <2>2, <2>3 DEF Lower
    <2>5. Upper(P, End(P, r + 1), t, m, m)
      BY <1>1 DEF Upper
    <2> QED
      BY <1>1, <1>4, <1>5, <1>8, <2>4, <2>5 DEF Layout
  <1>9. CASE w # r
    <2>1. r + 1 \in (r + 1) .. w /\ w \in (r + 1) .. m
      BY <1>1, <1>9
    <2>2. \A i \in (r + 1 + 1) .. w : i \in (r + 1) .. w /\ r + 1 < i
      BY <1>1
    <2>3. Lower(P, End(P, r + 1), r + 1, w)
      BY <1>2, <2>1, <2>2 DEF Lower
    <2>4. h <= End(P, r + 1)
      BY <1>2, <1>3, <1>7, <2>1 DEF Lower
    <2>5. Upper(P, End(P, r + 1), t, m, w)
      BY <1>2, <1>3, <2>4 DEF Upper
    <2> QED
      BY <1>1, <1>4, <1>5, <1>9, <2>1, <2>3, <2>5 DEF Layout
  <1> QED
    BY <1>8, <1>9

Free(P, r, m, a, b) == \A i \in (r + 1) .. m : End(P, i) <= a \/ b <= Off(P, i)
FreeForHeaders(P, r, m, off, tramps) ==
  \A o \in tramps \cup {off} : Free(P, r, m, o, o + HeaderSize)

HeadersWritten(h, h2, off, tramps, s, k) ==
  h2 = [x \in Offsets |->
          IF x = off THEN Header(s, FALSE, k)
          ELSE IF x \in tramps THEN Header(s, TRUE, 0)
          ELSE IF \E o \in tramps \cup {off} :
                     o - HeaderSize < x /\ x < o + HeaderSize
          THEN Junk ELSE h[x]]

(* Where a header is written no live entry is. *)
LEMMA HeadersStay ==
  ASSUME NEW P \in Placements, NEW r \in Nat, NEW m \in 0 .. MaxEntries, Regular(P, r, m),
         NEW h, NEW h2, NEW off \in Nat, NEW tramps \in SUBSET Nat, NEW s, NEW k,
         FreeForHeaders(P, r, m, off, tramps),
         HeadersWritten(h, h2, off, tramps, s, k)
  PROVE  \A i \in (r + 1) .. m : h2[Off(P, i)] = h[Off(P, i)]
  <1> SUFFICES ASSUME NEW i \in (r + 1) .. m
               PROVE  h2[Off(P, i)] = h[Off(P, i)]
    OBVIOUS
  <1>1. i \in Ids
    BY QueueAssumption DEF Ids
  <1>2. /\ Off(P, i) \in Nat /\ Size(P, i) \in Nat /\ End(P, i) \in Nat
        /\ End(P, i) = Off(P, i) + HeaderSize + Size(P, i) /\ End(P, i) <= QueueSize
    BY <1>1, PlacedTypes, QueueAssumption DEF Regular, Ids
  <1>3. Off(P, i) \in Offsets
    BY <1>2, QueueAssumption DEF Offsets
  <1>4. ASSUME NEW o \in tramps \cup {off}
        PROVE  ~(o - HeaderSize < Off(P, i) /\ Off(P, i) < o + HeaderSize)
    <2>1. End(P, i) <= o \/ o + HeaderSize <= Off(P, i)
      BY <1>4 DEF FreeForHeaders, Free
    <2>2. o \in Nat
      BY <1>4
    <2> QED
      BY <1>2, <2>1, <2>2, QueueAssumption
  <1>5. \A o \in tramps \cup {off} : o \in Nat /\ Off(P, i) # o
    <2> SUFFICES ASSUME NEW o \in tramps \cup {off} PROVE o \in Nat /\ Off(P, i) # o
      OBVIOUS
    <2>1. o \in Nat
      OBVIOUS
    <2> QED
      BY <1>2, <1>4, <2>1, QueueAssumption
  <1> HIDE DEF Header
  <1> QED
    BY <1>3, <1>4, <1>5, Zenon DEF HeadersWritten

(* What lies apart from the entries leaves their cells alone.              *)
LEMMA CellsStay ==
  ASSUME NEW P \in Placements, NEW r \in Nat, NEW m \in 0 .. MaxEntries, Regular(P, r, m),
         NEW c, NEW c2, NEW places \in SUBSET Nat,
         \A o \in places : Free(P, r, m, o, o + HeaderSize),
         c2 = [x \in Offsets |-> IF \E o \in places : x \in HeaderCells(o)
                                 THEN 0 ELSE c[x]]
  PROVE  \A i \in (r + 1) .. m : Filled(P, c, i) => Filled(P, c2, i)
  <1> SUFFICES ASSUME NEW i \in (r + 1) .. m, Filled(P, c, i),
                      NEW x \in DataCells(Off(P, i), Size(P, i))
               PROVE  c2[x] = i
    BY DEF Filled
  <1>1. i \in Ids
    BY QueueAssumption DEF Ids
  <1>2. /\ Off(P, i) \in Nat /\ Size(P, i) \in Nat /\ End(P, i) \in Nat
        /\ End(P, i) = Off(P, i) + HeaderSize + Size(P, i) /\ End(P, i) <= QueueSize
    BY <1>1, PlacedTypes, QueueAssumption DEF Regular, Ids
  <1>3. x \in Nat /\ Off(P, i) + HeaderSize <= x /\ x < End(P, i)
    BY <1>2, QueueAssumption DEF DataCells
  <1>4. x \in Offsets
    BY <1>2, <1>3, QueueAssumption DEF Offsets
  <1>5. ASSUME NEW o \in places PROVE x \notin HeaderCells(o)
    <2>1. End(P, i) <= o \/ o + HeaderSize <= Off(P, i)
      BY <1>5 DEF Free
    <2>2. o \in Nat
      BY <1>5
    <2> QED
      BY <1>2, <1>3, <2>1, <2>2, QueueAssumption DEF HeaderCells
  <1>6. c[x] = i
    BY DEF Filled
  <1> QED
    BY <1>4, <1>5, <1>6, Zenon

(* The types, one by one.                                                  *)
LEMMA Types ==
  ASSUME RingTypeOK
  PROVE  /\ placed \in Placements /\ n \in Nat /\ n <= MaxEntries /\ n \in 0 .. MaxEntries
         /\ taken \in Nat /\ head \in Nat /\ tail \in Offsets /\ tail \in Nat
         /\ \A p \in Producers : p \in Threads /\ p \notin Consumers
         /\ \A c \in Consumers : c \in Threads /\ c \notin Producers
         /\ \A t \in Threads : loc[t].id \in Nat
  BY QueueAssumption
  DEF RingTypeOK, Placements, PlacementType, Threads, Offsets, LocalsType

(* What the counters are.                                                  *)
LEMMA Bounds ==
  ASSUME RingTypeOK, OneConsumer, NEW u, Order(u), Consuming
  PROVE  /\ Gone \in 0 .. taken /\ taken - Gone \in {0, 1} /\ Removed = Gone
         /\ u \in Nat /\ u <= n /\ taken <= u
  <1>1. taken \in Nat /\ u \in Nat /\ u <= n /\ taken <= u
    BY Types DEF Order
  <1>2. CASE Holders = {}
    BY <1>1, <1>2, FS_EmptySet DEF Gone, Removed
  <1>3. CASE Holders # {}
    <2>1. PICK c \in Consumers : pcQ[c] = "holding" /\ Holders = {c}
      BY <1>3 DEF Holders, OneConsumer, Consuming
    <2>2. Cardinality(Holders) = 1
      BY <2>1, FS_Singleton
    <2>3. 0 < taken
      BY <2>1 DEF Consuming, HoldsTaken
    <2> QED
      BY <1>1, <1>3, <2>2, <2>3 DEF Gone, Removed
  <1> QED
    BY <1>2, <1>3

(* The entry of a producer that has not published yet.                     *)
LEMMA Mine ==
  ASSUME RingTypeOK, OneConsumer, NEW u, Order(u), Consuming, Flying(u), NEW p \in InFlight
  PROVE  /\ loc[p].id \in (Gone + 1) .. n /\ loc[p].id \in 1 .. n /\ loc[p].id - 1 \in 0 .. n
         /\ loc[p].id - 1 \in Gone .. n /\ loc[p].id \in Ids /\ InFlightAt(p)
         /\ p \in Producers
  <1>1. loc[p].id \in (u + 1) .. n /\ InFlightAt(p) /\ p \in Producers
    BY DEF Flying, InFlight
  <1>2. /\ Gone \in Nat /\ u \in Nat /\ Gone <= u /\ n \in Nat /\ n <= MaxEntries
    BY Types, Bounds
  <1> QED
    BY <1>1, <1>2, QueueAssumption DEF Ids

(* A reservation keeps the invariant when the layout and the headers it    *)
(* leaves behind are as required.                                          *)
LEMMA PlaceStep ==
  ASSUME IInv, OneConsumer, NEW p \in Producers, pcQ[p] = "idle", n < MaxEntries,
         NEW s \in DataSizes, NEW off \in Offsets, NEW newTail \in Offsets,
         newTail = off + EntrySize(s), NEW tramps \in SUBSET Nat,
         Place(p, s, off, newTail, tramps),
         \A o \in tramps \cup {off} : Free(placed, Gone, n, o, o + HeaderSize),
         NEW v \in 0 .. (n + 1),
         Layout(placed', head, newTail, n + 1, Gone, v),
         Bridge(placed', hdr', n + 1, v)
  PROVE  IInv'
  <1> DEFINE new == [pre |-> tail, off |-> off, size |-> s, end |-> newTail]
             l == [id |-> n + 1, size |-> s, entry |-> off, oldTail |-> tail,
                   newTail |-> newTail]
  <1>1. PICK w \in 0 .. n : Ring(w) /\ Headers(w)
    BY DEF IInv
  <1>2. PICK u \in 0 .. n : Order(u) /\ Flying(u)
    BY DEF IInv
  <1>3. RingTypeOK /\ Data /\ Consuming /\ Sleeping /\ TurnIsSignalledInPlace /\ NoSleepOverData
    BY DEF IInv
  <1>4. /\ placed \in Placements /\ n \in Nat /\ n \in 0 .. MaxEntries
        /\ p \in Threads /\ p \notin Consumers
        /\ \A c \in Consumers : c \in Threads /\ c # p
        /\ \A t \in Producers : t \in Threads
    BY <1>3, Types
  <1>5. /\ placed' = [placed EXCEPT ![n + 1] = new]
        /\ loc' = [loc EXCEPT ![p] = l]
        /\ pcQ' = [pcQ EXCEPT ![p] = "copy"]
        /\ tail' = newTail /\ n' = n + 1
        /\ UNCHANGED << head, validDataHead, validDataTail, waiters, taken, waitOn >>
    BY DEF Place
  <1>6. s \in 0 .. QueueSize /\ s \in Nat
    BY QueueAssumption DEF Offsets, EntrySize
  <1>7. new \in PlacementType
    BY <1>3, <1>4, <1>6, Types DEF PlacementType
  <1>8. Grown(placed, placed', n, new)
    BY <1>4, <1>5, <1>7, Extended
  <1>9. /\ Gone \in 0 .. taken /\ taken - Gone \in {0, 1} /\ u \in Nat /\ u <= n /\ taken <= u
        /\ taken \in Nat /\ Gone \in Nat /\ Gone <= taken /\ taken - Gone <= 1
    BY <1>2, <1>3, Bounds, Types
  <1>10. pcQ \in [Threads -> ThreadStates] /\ loc \in [Threads -> LocalsType]
    BY <1>3 DEF RingTypeOK
  <1>11. /\ \A t \in Threads : t # p => pcQ'[t] = pcQ[t] /\ loc'[t] = loc[t]
         /\ pcQ'[p] = "copy" /\ loc'[p] = l
    BY <1>4, <1>5, <1>10
  <1>12. /\ InFlight' = InFlight \cup {p} /\ p \notin InFlight
         /\ Holders' = Holders /\ Gone' = Gone /\ Waiting' = Waiting
    <2>1. InFlight' = InFlight \cup {p} /\ p \notin InFlight
      BY <1>4, <1>11 DEF InFlight
    <2>2. Holders' = Holders
      BY <1>4, <1>11 DEF Holders
    <2>3. Waiting' = Waiting
      BY <1>4, <1>11 DEF Waiting
    <2> QED
      BY <1>5, <2>1, <2>2, <2>3 DEF Gone
  <1>13. Regular(placed, Gone, n)
    BY <1>1 DEF Ring, Layout
  <1>14. /\ hdr' = [x \in Offsets |->
                 IF x = off THEN Header(s, FALSE, n + 1)
                 ELSE IF x \in tramps THEN Header(s, TRUE, 0)
                 ELSE IF \E o \in tramps \cup {off} :
                            o - HeaderSize < x /\ x < o + HeaderSize
                 THEN Junk ELSE hdr[x]]
         /\ cells' = [x \in Offsets |-> IF \E o \in tramps \cup {off} : x \in HeaderCells(o)
                                        THEN 0 ELSE cells[x]]
    BY DEF Place
  <1>15. off \in Nat
    BY QueueAssumption DEF Offsets
  <1>16. \A i \in (Gone + 1) .. n : hdr'[Off(placed, i)] = hdr[Off(placed, i)]
    <2>1. HeadersWritten(hdr, hdr', off, tramps, s, n + 1)
      BY <1>14, Zenon DEF HeadersWritten
    <2> QED
      <3>1. FreeForHeaders(placed, Gone, n, off, tramps)
        BY DEF FreeForHeaders
      <3>2. placed \in Placements /\ Gone \in Nat /\ n \in 0 .. MaxEntries
        BY <1>4, <1>9
      <3> QED
        BY <1>13, <1>15, <2>1, <3>1, <3>2, HeadersStay, SMT
  <1>17. \A i \in (Gone + 1) .. n : Filled(placed, cells, i) => Filled(placed, cells', i)
    <2>1. tramps \cup {off} \in SUBSET Nat
      BY <1>15
    <2> QED
      BY <1>4, <1>9, <1>13, <1>14, <2>1, CellsStay
  <1>18. \A i \in (Gone + 1) .. (n + 1) : i = n + 1 \/ (i \in (Gone + 1) .. n /\ i \in 1 .. n)
    BY <1>4, <1>9
  <1>19. \A i \in 1 .. n : Off(placed', i) = Off(placed, i) /\ Size(placed', i) = Size(placed, i)
    BY <1>8 DEF Grown
  <1>20. \A i \in 0 .. n : End(placed', i) = End(placed, i)
    BY <1>8 DEF Grown
  <1>21. /\ Off(placed', n + 1) = off /\ Size(placed', n + 1) = s
         /\ End(placed', n + 1) = newTail
    BY <1>8 DEF Grown
  <1>22. RingTypeOK'
    <2>1. loc' \in [Threads -> LocalsType]
      <3>1. l \in LocalsType
        BY <1>3, <1>4, <1>6, QueueAssumption DEF LocalsType, RingTypeOK, Offsets
      <3> QED
        BY <1>5, <1>10, <3>1
    <2>2. hdr' \in [Offsets -> HeaderType]
      <3>1. Header(s, FALSE, n + 1) \in HeaderType /\ Header(s, TRUE, 0) \in HeaderType
        BY <1>4, QueueAssumption DEF HeaderType, Header
      <3>2. Junk \in HeaderType
        BY QueueAssumption DEF HeaderType, Junk
      <3>3. \A x \in Offsets : hdr[x] \in HeaderType
        BY <1>3 DEF RingTypeOK
      <3> QED
        BY <1>14, <3>1, <3>2, <3>3, Zenon
    <2>3. cells' \in [Offsets -> 0 .. MaxEntries]
      BY <1>3, <1>14, QueueAssumption DEF RingTypeOK
    <2>4. pcQ' \in [Threads -> ThreadStates]
      BY <1>5, <1>10 DEF ThreadStates
    <2>5. placed' \in [Ids -> [pre : Offsets, off : Offsets, size : 0 .. QueueSize,
                               end : Offsets]]
      BY <1>8 DEF Grown, Placements, PlacementType
    <2>6. n' \in 0 .. MaxEntries
      BY <1>4, <1>5, QueueAssumption
    <2> QED
      BY <1>3, <1>5, <2>1, <2>2, <2>3, <2>4, <2>5, <2>6 DEF RingTypeOK, waiters
  <1>23. Ring(v)'
    BY <1>5, <1>12 DEF Ring
  <1>24. Headers(v)'
    <2>1. \A i \in (Gone + 1) .. (n + 1) : Named(placed', hdr', i)
      <3> SUFFICES ASSUME NEW i \in (Gone + 1) .. (n + 1) PROVE Named(placed', hdr', i)
        OBVIOUS
      <3>1. CASE i = n + 1
        <4>1. hdr'[off] = Header(s, FALSE, n + 1)
          BY <1>14
        <4> QED
          BY <1>21, <3>1, <4>1 DEF Named, Header
      <3>2. CASE i \in (Gone + 1) .. n /\ i \in 1 .. n
        <4>1. Named(placed, hdr, i)
          BY <1>1, <3>2 DEF Headers
        <4> QED
          BY <1>16, <1>19, <3>2, <4>1 DEF Named
      <3> QED
        BY <1>18, <3>1, <3>2
    <2> QED
      BY <1>5, <1>12, <2>1 DEF Headers
  <1>25. Data'
    <2> SUFFICES ASSUME NEW i \in (Gone + 1) .. (n + 1),
                        \A t \in Producers : pcQ'[t] = "copy" => loc'[t].id # i
                 PROVE  Filled(placed', cells', i)
      BY <1>5, <1>12 DEF Data
    <2>1. i # n + 1
      BY <1>11
    <2>2. i \in (Gone + 1) .. n /\ i \in 1 .. n
      BY <1>18, <2>1
    <2>3. \A t \in Producers : pcQ[t] = "copy" => loc[t].id # i
      BY <1>4, <1>11
    <2>4. Filled(placed, cells', i)
      BY <1>3, <1>17, <2>2, <2>3 DEF Data
    <2> QED
      BY <1>19, <2>2, <2>4 DEF Filled
  <1>26. Order(u)'
    <2>1. taken \in 0 .. n /\ u \in 0 .. n /\ u \in 0 .. (n + 1) /\ taken \in 0 .. u
      BY <1>4, <1>9
    <2> QED
      BY <1>2, <1>5, <1>20, <2>1 DEF Order
  <1>27. Flying(u)'
    <2>1. ASSUME NEW t \in InFlight
          PROVE  loc[t].id \in (u + 1) .. n /\ InFlightAt(t)' /\ loc'[t].id = loc[t].id /\ t # p
      <3>1. loc'[t] = loc[t] /\ t # p
        BY <1>4, <1>11, <1>12 DEF InFlight
      <3>2. loc[t].id \in 1 .. n /\ loc[t].id - 1 \in 0 .. n /\ loc[t].id \in 0 .. n /\ InFlightAt(t)
        BY <1>2, <1>3, <2>1, Mine
      <3> QED
        BY <1>2, <1>19, <1>20, <3>1, <3>2 DEF InFlightAt, Flying
    <2>2. InFlightAt(p)'
      <3>1. tail = End(placed, n) /\ n + 1 - 1 = n /\ n \in 0 .. n
        BY <1>1, <1>4 DEF Ring, Layout
      <3> QED
        BY <1>11, <1>20, <1>21, <3>1 DEF InFlightAt
    <2>3. \A t \in InFlight' : loc'[t].id \in (u + 1) .. (n + 1) /\ InFlightAt(t)'
      <3>1. n + 1 \in (u + 1) .. (n + 1) /\ (u + 1) .. n \subseteq (u + 1) .. (n + 1)
        BY <1>4, <1>9
      <3> QED
        BY <1>11, <1>12, <2>1, <2>2, <3>1
    <2>4. \A i \in (u + 1) .. (n + 1) : \E t \in InFlight' : loc'[t].id = i
      <3> SUFFICES ASSUME NEW i \in (u + 1) .. (n + 1)
                   PROVE  \E t \in InFlight' : loc'[t].id = i
        OBVIOUS
      <3>1. CASE i = n + 1
        BY <1>11, <1>12, <3>1
      <3>2. CASE i # n + 1
        <4>1. i \in (u + 1) .. n
          BY <1>4, <1>9, <3>2
        <4>2. PICK t \in InFlight : loc[t].id = i
          BY <1>2, <4>1 DEF Flying
        <4> QED
          BY <1>12, <2>1, <4>2
      <3> QED
        BY <3>1, <3>2
    <2>5. \A t, q \in InFlight' : loc'[t].id = loc'[q].id => t = q
      <3>1. \A t \in InFlight : loc'[t].id # n + 1
        BY <1>4, <1>9, <2>1
      <3> QED
        BY <1>2, <1>11, <1>12, <2>1, <3>1 DEF Flying
    <2> QED
      BY <1>5, <2>3, <2>4, <2>5 DEF Flying
  <1>28. Consuming'
    <2> SUFFICES ASSUME NEW c \in Consumers
                 PROVE  /\ pcQ'[c] \in {"idle", "waitData", "dequeue", "holding"}
                        /\ waitOn'[c] # NoEvent => pcQ'[c] = "waitData" /\ waitOn'[c] = DataEvent
                        /\ pcQ'[c] = "holding" => HoldsTaken(c)'
      BY <1>3, <1>5 DEF Consuming, waiters
    <2>1. pcQ'[c] = pcQ[c] /\ loc'[c] = loc[c] /\ waitOn'[c] = waitOn[c]
      BY <1>4, <1>5, <1>11
    <2>2. ASSUME pcQ[c] = "holding" PROVE HoldsTaken(c)'
      <3>1. HoldsTaken(c)
        BY <1>3, <2>2 DEF Consuming
      <3>2. taken \in 1 .. n
        BY <1>4, <1>9, <3>1 DEF HoldsTaken
      <3> QED
        BY <1>5, <1>19, <2>1, <3>1, <3>2 DEF HoldsTaken
    <2> QED
      BY <1>3, <2>1, <2>2 DEF Consuming
  <1>29. Sleeping'
    <2>1. ASSUME NEW t \in Producers, pcQ'[t] = "waitTail"
          PROVE  pcQ[t] = "waitTail" /\ loc'[t] = loc[t] /\ hdr'[loc'[t].entry].waitTail
      <3>1. pcQ[t] = "waitTail" /\ loc'[t] = loc[t] /\ t \in InFlight
        BY <1>4, <1>11, <2>1 DEF InFlight
      <3>2. loc[t].id \in (Gone + 1) .. n /\ InFlightAt(t)
        BY <1>2, <1>3, <3>1, Mine
      <3>3. hdr'[loc[t].entry] = hdr[loc[t].entry]
        BY <1>16, <3>2 DEF InFlightAt
      <3> QED
        BY <1>3, <3>1, <3>3 DEF Sleeping
    <2>2. ASSUME NEW t \in Producers, waitOn'[t] # NoEvent
          PROVE  pcQ'[t] = "waitTail" /\ waitOn'[t] = loc'[t].oldTail
      <3>1. waitOn[t] # NoEvent /\ waitOn'[t] = waitOn[t]
        BY <1>5, <2>2
      <3>2. pcQ[t] = "waitTail" /\ waitOn[t] = loc[t].oldTail
        BY <1>3, <3>1 DEF Sleeping
      <3> QED
        BY <1>4, <1>11, <3>1, <3>2
    <2>3. \A t \in Producers :
            pcQ'[t] \in {"idle", "copy", "copied", "waitTail", "wakeNext", "sent", "rejected"}
      BY <1>3, <1>4, <1>11 DEF Sleeping
    <2> QED
      BY <1>3, <1>5, <1>12, <2>1, <2>2, <2>3 DEF Sleeping, waiters
  <1>30. TurnIsSignalledInPlace'
    <2> SUFFICES ASSUME NEW t \in Producers, pcQ'[t] = "waitTail", waitOn'[t] # NoEvent,
                        loc'[t].oldTail = validDataTail', loc'[t].entry = loc'[t].oldTail
                 PROVE  \E q \in Producers : pcQ'[q] = "wakeNext" /\ loc'[q].newTail = waitOn'[t]
      BY DEF TurnIsSignalledInPlace
    <2>1. t # p /\ pcQ[t] = "waitTail" /\ loc'[t] = loc[t] /\ waitOn'[t] = waitOn[t]
      BY <1>4, <1>5, <1>11
    <2>2. PICK q \in Producers : pcQ[q] = "wakeNext" /\ loc[q].newTail = waitOn[t]
      BY <1>3, <1>5, <2>1 DEF TurnIsSignalledInPlace
    <2> QED
      BY <1>4, <1>11, <2>1, <2>2
  <1>31. NoSleepOverData'
    <2>1. \A t \in Producers : pcQ[t] \in {"wakeNext", "sent"} => pcQ'[t] \in {"wakeNext", "sent"}
      BY <1>4, <1>11
    <2>2. \A c \in Consumers : pcQ'[c] = pcQ[c]
      BY <1>4, <1>11
    <2> QED
      BY <1>3, <1>5, <2>1, <2>2 DEF NoSleepOverData
  <1>32. \E x \in 0 .. n' : Ring(x)' /\ Headers(x)'
    BY <1>5, <1>23, <1>24
  <1>33. u \in 0 .. n'
    BY <1>4, <1>5
  <1>34. \E x \in 0 .. n' : Order(x)' /\ Flying(x)'
    BY <1>26, <1>27, <1>33
  <1> QED
    BY <1>22, <1>25, <1>28, <1>29, <1>30, <1>31, <1>32, <1>34 DEF IInv

(* A reservation adds one placement.                                       *)
LEMMA PlacementGrows ==
  ASSUME RingTypeOK, NEW p \in Producers, n < MaxEntries, NEW s \in DataSizes,
         NEW off \in Offsets, NEW newTail \in Offsets, newTail = off + EntrySize(s), NEW tramps,
         Place(p, s, off, newTail, tramps)
  PROVE  Grown(placed, placed', n, [pre |-> tail, off |-> off, size |-> s, end |-> newTail])
  <1> DEFINE new == [pre |-> tail, off |-> off, size |-> s, end |-> newTail]
  <1>1. placed' = [placed EXCEPT ![n + 1] = new]
    BY DEF Place
  <1>2. s \in 0 .. QueueSize
    BY QueueAssumption DEF Offsets, EntrySize
  <1>3. new \in PlacementType
    BY <1>2, Types DEF PlacementType
  <1> QED
    BY <1>1, <1>3, Types, Extended

(* A reservation at the tail destroys no header and no data of another     *)
(* entry.                                                                  *)
LEMMA ReserveAtTailStep ==
  ASSUME IInv, OneConsumer, NEW p \in Producers, NEW s \in DataSizes, ReserveAtTail(p, s)
  PROVE  IInv'
  <1>1. PICK w \in 0 .. n : Ring(w) /\ Headers(w)
    BY DEF IInv
  <1>2. Layout(placed, head, tail, n, Gone, w)
    BY <1>1 DEF Ring
  <1>3. RingTypeOK
    BY DEF IInv
  <1>4. /\ placed \in Placements /\ n \in Nat /\ n \in 0 .. MaxEntries
        /\ head \in Nat /\ tail \in Nat /\ tail \in Offsets
    BY <1>3, Types
  <1>5. /\ pcQ[p] = "idle" /\ n < MaxEntries
        /\ FitsAtEnd(s) \/ FitsInGap(s)
        /\ Place(p, s, tail, tail + EntrySize(s), {})
    BY DEF ReserveAtTail
  <1>6. s \in Nat /\ s > 0 /\ HeaderSize \in Nat /\ HeaderSize > 0 /\ QueueSize \in Nat
    BY QueueAssumption
  <1>7. /\ Gone \in 0 .. n /\ w \in Gone .. n /\ Gone \in Nat
        /\ head = End(placed, Gone) /\ tail = End(placed, n)
        /\ Regular(placed, Gone, n)
        /\ Lower(placed, head, Gone, w) /\ Upper(placed, head, tail, n, w)
    BY <1>2, <1>4 DEF Layout
  <1>8. head <= QueueSize /\ End(placed, w) \in Nat /\ End(placed, w) <= QueueSize
    BY <1>4, <1>7, PlacedTypes, QueueAssumption
  <1>9. tail + EntrySize(s) \in Offsets /\ EntrySize(s) \in Nat /\ EntrySize(s) >= HeaderSize
    BY <1>4, <1>5, <1>6, <1>8 DEF FitsAtEnd, FitsInGap, EntrySize, Offsets
  <1>10. Grown(placed, placed', n,
               [pre |-> tail, off |-> tail, size |-> s, end |-> tail + EntrySize(s)])
    BY <1>3, <1>4, <1>5, <1>9, PlacementGrows
  <1>11. PICK v : v = IF tail >= head THEN n + 1 ELSE w
    OBVIOUS
  <1>12. \/ tail >= head /\ tail + EntrySize(s) <= QueueSize
         \/ tail < head /\ head - tail > EntrySize(s)
    BY <1>5 DEF FitsAtEnd, FitsInGap
  <1>13. Layout(placed', head, tail + EntrySize(s), n + 1, Gone, v)
    BY <1>2, <1>4, <1>5, <1>10, <1>11, <1>12, GrowsAtTail
  <1>14. v \in 0 .. (n + 1)
    BY <1>4, <1>7, <1>11
  <1>15. Free(placed, Gone, n, tail, tail + HeaderSize)
    <2> SUFFICES ASSUME NEW i \in (Gone + 1) .. n
                 PROVE  End(placed, i) <= tail \/ tail + HeaderSize <= Off(placed, i)
      BY DEF Free
    <2>1. i \in (Gone + 1) .. w \/ i \in (w + 1) .. n
      BY <1>7
    <2>2. CASE tail >= head
      <3>1. w = n
        BY <1>4, <1>7, <2>2 DEF Upper
      <3> QED
        BY <1>2, <1>4, <3>1, PlacesApart
    <2>3. CASE tail < head /\ i \in (w + 1) .. n
      <3>1. w < n
        BY <1>4, <1>7, <2>3
      <3> QED
        BY <1>7, <2>3, <3>1 DEF Upper
    <2>4. CASE tail < head /\ i \in (Gone + 1) .. w
      <3>1. head <= Off(placed, i)
        BY <1>7, <2>4 DEF Lower
      <3>2. Off(placed, i) \in Nat
        BY <1>4, <1>7, PlacedTypes, QueueAssumption DEF Ids
      <3>3. tail + EntrySize(s) < head
        BY <1>4, <1>9, <1>12, <2>4
      <3> QED
        BY <1>4, <1>6, <1>9, <3>1, <3>2, <3>3
    <2> QED
      BY <1>4, <2>1, <2>2, <2>3, <2>4
  <1>16. Bridge(placed', hdr', n + 1, v)
    <2>1. CASE tail >= head
      BY <1>4, <1>11, <2>1 DEF Bridge
    <2>2. CASE tail < head
      <3>1. v = w
        BY <1>4, <1>11, <2>2
      <3>2. w < n
        BY <1>4, <1>7, <2>2 DEF Lower
      <3>3. head <= End(placed, w)
        BY <1>7 DEF Lower
      <3>4. hdr'[End(placed, w)] = hdr[End(placed, w)]
        <4>1. tail + HeaderSize < End(placed, w)
          BY <1>4, <1>6, <1>8, <1>9, <1>12, <2>2, <3>3
        <4>2. End(placed, w) \in Offsets
          BY <1>6, <1>8 DEF Offsets
        <4>3. \A o \in {} \cup {tail} :
                /\ End(placed, w) # o
                /\ ~(o - HeaderSize < End(placed, w) /\ End(placed, w) < o + HeaderSize)
          BY <1>4, <1>6, <1>8, <4>1
        <4>4. HeadersWritten(hdr, hdr', tail, {}, s, n + 1)
          BY <1>5, Zenon DEF Place, HeadersWritten
        <4> QED
          BY <4>2, <4>3, <4>4, Zenon DEF HeadersWritten
      <3>5. w \in 0 .. n /\ w + 1 \in 1 .. n
        BY <1>4, <1>7, <3>2
      <3>6. End(placed', w) = End(placed, w) /\ Size(placed', w + 1) = Size(placed, w + 1)
        BY <1>10, <3>5 DEF Grown
      <3>7. Bridge(placed, hdr, n, w)
        BY <1>1 DEF Headers
      <3> QED
        BY <3>1, <3>2, <3>4, <3>6, <3>7 DEF Bridge
    <2> QED
      BY <1>4, <2>1, <2>2
  <1>17. \A o \in {} \cup {tail} : Free(placed, Gone, n, o, o + HeaderSize)
    BY <1>15
  <1> QED
    BY <1>4, <1>5, <1>9, <1>13, <1>14, <1>16, <1>17, PlaceStep

(* Nor does one that goes around, with its trampoline.                     *)
LEMMA ReserveWrappedStep ==
  ASSUME IInv, OneConsumer, NEW p \in Producers, NEW s \in DataSizes, ReserveWrapped(p, s)
  PROVE  IInv'
  <1>1. PICK w \in 0 .. n : Ring(w) /\ Headers(w)
    BY DEF IInv
  <1>2. Layout(placed, head, tail, n, Gone, w)
    BY <1>1 DEF Ring
  <1>3. RingTypeOK
    BY DEF IInv
  <1>4. /\ placed \in Placements /\ n \in Nat /\ n \in 0 .. MaxEntries
        /\ head \in Nat /\ tail \in Nat /\ tail \in Offsets
    BY <1>3, Types
  <1>5. /\ pcQ[p] = "idle" /\ n < MaxEntries
        /\ tail >= head /\ tail + EntrySize(s) > QueueSize /\ head > EntrySize(s)
        /\ Place(p, s, 0, EntrySize(s), Trampolines(tail))
    BY DEF ReserveWrapped, Wraps
  <1>6. s \in Nat /\ s > 0 /\ HeaderSize \in Nat /\ HeaderSize > 0 /\ QueueSize \in Nat
    BY QueueAssumption
  <1>7. /\ Gone \in 0 .. n /\ w \in Gone .. n /\ Gone \in Nat
        /\ head = End(placed, Gone) /\ tail = End(placed, n)
        /\ Regular(placed, Gone, n)
        /\ Lower(placed, head, Gone, w) /\ Upper(placed, head, tail, n, w)
    BY <1>2, <1>4 DEF Layout
  <1>8. head <= QueueSize /\ tail <= QueueSize
    BY <1>4, <1>7, PlacedTypes, QueueAssumption
  <1>9. /\ EntrySize(s) \in Offsets /\ EntrySize(s) = 0 + EntrySize(s) /\ 0 \in Offsets
        /\ EntrySize(s) \in Nat /\ EntrySize(s) >= HeaderSize
    BY <1>4, <1>5, <1>6, <1>8 DEF EntrySize, Offsets
  <1>10. Grown(placed, placed', n,
               [pre |-> tail, off |-> 0, size |-> s, end |-> EntrySize(s)])
    BY <1>3, <1>4, <1>5, <1>9, PlacementGrows
  <1>11. w = n /\ Layout(placed', head, EntrySize(s), n + 1, Gone, n)
    BY <1>2, <1>4, <1>5, <1>10, GrowsAround
  <1>12. n \in 0 .. (n + 1)
    BY <1>4
  <1>13. Trampolines(tail) \in SUBSET Nat /\ \A o \in Trampolines(tail) : o = tail
    BY <1>4 DEF Trampolines
  <1>14. \A o \in Trampolines(tail) \cup {0} : Free(placed, Gone, n, o, o + HeaderSize)
    <2>1. Free(placed, Gone, n, tail, tail + HeaderSize)
      BY <1>2, <1>4, <1>11, PlacesApart DEF Free
    <2>2. Free(placed, Gone, n, 0, 0 + HeaderSize)
      <3> SUFFICES ASSUME NEW i \in (Gone + 1) .. n
                   PROVE  0 + HeaderSize <= Off(placed, i)
        BY DEF Free
      <3>1. head <= Off(placed, i)
        BY <1>7, <1>11 DEF Lower
      <3>2. Off(placed, i) \in Nat
        BY <1>4, <1>7, PlacedTypes, QueueAssumption DEF Ids
      <3> QED
        BY <1>4, <1>5, <1>6, <1>9, <3>1, <3>2
    <2> QED
      BY <1>13, <2>1, <2>2
  <1>15. Bridge(placed', hdr', n + 1, n)
    <2>1. n \in 0 .. n
      BY <1>4
    <2>2. End(placed', n) = tail /\ Size(placed', n + 1) = s
      BY <1>7, <1>10, <2>1 DEF Grown
    <2>3. SUFFICES ASSUME tail + HeaderSize <= QueueSize
                   PROVE  hdr'[tail].dataSize = s
      BY <2>2 DEF Bridge
    <2>4. tail \in Trampolines(tail) /\ tail # 0
      BY <1>4, <1>5, <1>6, <1>9, <2>3 DEF Trampolines
    <2>5. HeadersWritten(hdr, hdr', 0, Trampolines(tail), s, n + 1)
      BY <1>5, Zenon DEF Place, HeadersWritten
    <2>6. hdr'[tail] = Header(s, TRUE, 0)
      BY <1>4, <2>4, <2>5, Zenon DEF HeadersWritten
    <2> QED
      BY <2>6 DEF Header
  <1> QED
    BY <1>5, <1>9, <1>11, <1>12, <1>13, <1>14, <1>15, PlaceStep

(* The places of a thread that has an entry.                               *)
Busy == {"copy", "copied", "waitTail", "holding", "waitHead"}

(* A step that changes neither the ring nor its memory, and who has an     *)
(* entry neither.                                                          *)
LEMMA QuietStep ==
  ASSUME IInv, OneConsumer,
         UNCHANGED << ring, waiters, hdr, cells, loc, history >>,
         NEW t \in Threads, NEW new \in ThreadStates \ Busy, pcQ[t] \notin Busy,
         pcQ' = [pcQ EXCEPT ![t] = new],
         t \in Producers => new \in {"idle", "sent", "rejected"},
         t \in Consumers => new \in {"idle", "waitData", "dequeue"},
         waitOn' \in [Threads -> Nat \cup {NoEvent, DataEvent}],
         \A p \in Producers : waitOn'[p] # NoEvent => waitOn'[p] = waitOn[p],
         \A c \in Consumers :
           waitOn'[c] # NoEvent => pcQ'[c] = "waitData" /\ waitOn'[c] = DataEvent,
         TurnIsSignalledInPlace', NoSleepOverData'
  PROVE  IInv'
  <1>1. PICK w \in 0 .. n : Ring(w) /\ Headers(w)
    BY DEF IInv
  <1>2. PICK u \in 0 .. n : Order(u) /\ Flying(u)
    BY DEF IInv
  <1>3. RingTypeOK /\ Data /\ Consuming /\ Sleeping
    BY DEF IInv
  <1>4. \A x \in Producers : x \in Threads /\ x \notin Consumers
    BY <1>3, Types
  <1>5. \A x \in Consumers : x \in Threads /\ x \notin Producers
    BY <1>3, Types
  <1>6. /\ UNCHANGED << head, tail, validDataHead, validDataTail, hdr, cells, loc, n, taken,
                        placed, waitersForHeadPropogation, waitersForTailPropogation >>
    BY DEF ring, waiters, history
  <1>7. pcQ \in [Threads -> ThreadStates] /\ pcQ' \in [Threads -> ThreadStates]
    BY <1>3 DEF RingTypeOK
  <1>8. pcQ'[t] = new /\ \A x \in Threads : x # t => pcQ'[x] = pcQ[x]
    BY <1>7
  <1>9. \A x \in Threads, b \in Busy : pcQ'[x] = b <=> pcQ[x] = b
    BY <1>8
  <1>10. InFlight' = InFlight /\ Holders' = Holders /\ Waiting' = Waiting /\ Gone' = Gone
    <2>1. InFlight' = InFlight
      BY <1>4, <1>9 DEF InFlight, Busy
    <2>2. Holders' = Holders
      BY <1>5, <1>9 DEF Holders, Busy
    <2>3. Waiting' = Waiting
      BY <1>4, <1>9 DEF Waiting, Busy
    <2> QED
      BY <1>6, <2>1, <2>2, <2>3 DEF Gone
  <1>11. RingTypeOK'
    BY <1>3, <1>6, <1>7 DEF RingTypeOK
  <1>12. Ring(w)' /\ Headers(w)'
    BY <1>1, <1>6, <1>10 DEF Ring, Headers
  <1>13. Order(u)' /\ Flying(u)'
    <2>1. \A p : InFlightAt(p) => InFlightAt(p)'
      BY <1>6 DEF InFlightAt
    <2> QED
      BY <1>2, <1>6, <1>10, <2>1 DEF Order, Flying
  <1>14. Data'
    <2>1. \A p \in Producers : pcQ'[p] = "copy" <=> pcQ[p] = "copy"
      BY <1>4, <1>9 DEF Busy
    <2> QED
      BY <1>3, <1>6, <1>10, <2>1 DEF Data
  <1>15. Consuming'
    <2>1. ASSUME NEW c \in Consumers
          PROVE  pcQ'[c] \in {"idle", "waitData", "dequeue", "holding"}
      BY <1>3, <1>5, <1>8 DEF Consuming
    <2>2. ASSUME NEW c \in Consumers, pcQ'[c] = "holding" PROVE HoldsTaken(c)'
      BY <1>3, <1>5, <1>6, <1>9, <2>2 DEF Consuming, HoldsTaken, Busy
    <2> QED
      BY <1>3, <1>6, <2>1, <2>2 DEF Consuming
  <1>16. Sleeping'
    <2>1. ASSUME NEW p \in Producers
          PROVE  pcQ'[p] \in {"idle", "copy", "copied", "waitTail", "wakeNext", "sent",
                              "rejected"}
      BY <1>3, <1>4, <1>8 DEF Sleeping
    <2>2. ASSUME NEW p \in Producers
          PROVE  /\ waitOn'[p] # NoEvent => pcQ'[p] = "waitTail" /\ waitOn'[p] = loc'[p].oldTail
                 /\ pcQ'[p] = "waitTail" => hdr'[loc'[p].entry].waitTail
      BY <1>3, <1>4, <1>6, <1>9 DEF Sleeping, Busy
    <2> QED
      BY <1>3, <1>6, <1>10, <2>1, <2>2 DEF Sleeping
  <1>17. \E x \in 0 .. n' : Ring(x)' /\ Headers(x)'
    BY <1>6, <1>12
  <1>18. \E x \in 0 .. n' : Order(x)' /\ Flying(x)'
    BY <1>6, <1>13
  <1> QED
    BY <1>11, <1>14, <1>15, <1>16, <1>17, <1>18 DEF IInv

(* The rejection of an entry and the wake-ups are such steps.              *)
LEMMA QuietProducerStep ==
  ASSUME IInv, OneConsumer, NEW p \in Producers,
         \/ \E s \in DataSizes : Reject(p, s)
         \/ ReturnRejected(p) \/ WakeNextProducer(p) \/ NotifyThreads(p)
  PROVE  IInv'
  <1>1. RingTypeOK /\ Consuming /\ Sleeping /\ TurnIsSignalledInPlace /\ NoSleepOverData
    BY DEF IInv
  <1>2. \A x \in Producers : x \in Threads /\ x \notin Consumers
    BY <1>1, Types
  <1>3. \A x \in Consumers : x \in Threads /\ x \notin Producers
    BY <1>1, Types
  <1>4. /\ pcQ \in [Threads -> ThreadStates] /\ p \in Threads
        /\ waitOn \in [Threads -> Nat \cup {NoEvent, DataEvent}]
    BY <1>1, <1>2 DEF RingTypeOK
  <1>5. CASE (\E s \in DataSizes : Reject(p, s)) \/ ReturnRejected(p)
    <2>1. PICK new \in {"idle", "rejected"} :
            /\ pcQ' = [pcQ EXCEPT ![p] = new] /\ pcQ[p] \in {"idle", "rejected"}
            /\ UNCHANGED << ring, waiters, hdr, cells, loc, waitOn, history >>
      BY <1>5 DEF Reject, ReturnRejected
    <2>2. pcQ'[p] = new /\ \A x \in Threads : x # p => pcQ'[x] = pcQ[x]
      BY <1>4, <2>1
    <2>3. TurnIsSignalledInPlace'
      BY <1>1, <1>2, <2>1, <2>2 DEF TurnIsSignalledInPlace, ring
    <2>4. NoSleepOverData'
      BY <1>1, <1>2, <1>3, <2>1, <2>2 DEF NoSleepOverData, ring
    <2>5. \A c \in Consumers :
            waitOn'[c] # NoEvent => pcQ'[c] = "waitData" /\ waitOn'[c] = DataEvent
      BY <1>1, <1>2, <1>3, <2>1, <2>2 DEF Consuming
    <2>6. waitOn' = waitOn /\ new \in ThreadStates \ Busy /\ pcQ[p] \notin Busy
      BY <2>1 DEF ThreadStates, Busy
    <2> QED
      BY <1>2, <1>4, <2>1, <2>3, <2>4, <2>5, <2>6, QuietStep
  <1>6. CASE WakeNextProducer(p)
    <2>1. /\ pcQ' = [pcQ EXCEPT ![p] = "sent"] /\ pcQ[p] = "wakeNext"
          /\ waitOn' = Wakeup(loc[p].newTail)
          /\ UNCHANGED << ring, waiters, hdr, cells, loc, history >>
      BY <1>6 DEF WakeNextProducer
    <2>2. pcQ'[p] = "sent" /\ \A x \in Threads : x # p => pcQ'[x] = pcQ[x]
      BY <1>4, <2>1
    <2>3. /\ waitOn' \in [Threads -> Nat \cup {NoEvent, DataEvent}]
          /\ \A x \in Threads : waitOn'[x] # NoEvent =>
                                  waitOn'[x] = waitOn[x] /\ waitOn[x] # loc[p].newTail
      BY <1>4, <2>1 DEF Wakeup
    <2>4. TurnIsSignalledInPlace'
      BY <1>1, <1>2, <2>1, <2>2, <2>3 DEF TurnIsSignalledInPlace, ring
    <2>5. NoSleepOverData'
      BY <1>1, <1>2, <1>3, <2>1, <2>2, <2>3 DEF NoSleepOverData, ring
    <2>6. \A c \in Consumers :
            waitOn'[c] # NoEvent => pcQ'[c] = "waitData" /\ waitOn'[c] = DataEvent
      BY <1>1, <1>2, <1>3, <2>1, <2>2, <2>3 DEF Consuming
    <2>7. "sent" \in ThreadStates \ Busy /\ pcQ[p] \notin Busy
      BY <2>1 DEF ThreadStates, Busy
    <2> QED
      BY <1>2, <1>4, <2>1, <2>3, <2>4, <2>5, <2>6, <2>7, QuietStep
  <1>7. CASE NotifyThreads(p)
    <2>1. /\ pcQ' = [pcQ EXCEPT ![p] = "idle"] /\ pcQ[p] = "sent"
          /\ waitOn' = Wakeup(DataEvent)
          /\ UNCHANGED << ring, waiters, hdr, cells, loc, history >>
      BY <1>7 DEF NotifyThreads
    <2>2. pcQ'[p] = "idle" /\ \A x \in Threads : x # p => pcQ'[x] = pcQ[x]
      BY <1>4, <2>1
    <2>3. /\ waitOn' \in [Threads -> Nat \cup {NoEvent, DataEvent}]
          /\ \A x \in Threads : waitOn'[x] # NoEvent =>
                                  waitOn'[x] = waitOn[x] /\ waitOn[x] # DataEvent
      BY <1>4, <2>1 DEF Wakeup
    <2>4. TurnIsSignalledInPlace'
      BY <1>1, <1>2, <2>1, <2>2, <2>3 DEF TurnIsSignalledInPlace, ring
    <2>5. \A c \in Consumers : waitOn'[c] = NoEvent
      BY <1>1, <1>3, <2>3 DEF Consuming
    <2>6. NoSleepOverData'
      BY <2>5 DEF NoSleepOverData
    <2>7. "idle" \in ThreadStates \ Busy /\ pcQ[p] \notin Busy
      BY <2>1 DEF ThreadStates, Busy
    <2> QED
      BY <1>2, <1>4, <2>1, <2>3, <2>4, <2>5, <2>6, <2>7, QuietStep
  <1> QED
    BY <1>5, <1>6, <1>7

(* When the head is the tail, nothing is published that is not taken.      *)
LEMMA EmptyRing ==
  ASSUME IInv, OneConsumer, head = tail
  PROVE  validDataHead = validDataTail
  <1>1. PICK w \in 0 .. n : Ring(w)
    BY DEF IInv
  <1>2. PICK u \in 0 .. n : Order(u)
    BY DEF IInv
  <1>3. RingTypeOK /\ Consuming
    BY DEF IInv
  <1>4. placed \in Placements /\ n \in 0 .. MaxEntries /\ n \in Nat /\ taken \in Nat
    BY <1>3, Types
  <1>5. Layout(placed, head, tail, n, Gone, w)
    BY <1>1 DEF Ring
  <1>6. head = End(placed, Gone) /\ tail = End(placed, n)
    BY <1>5 DEF Layout
  <1>7. Gone \in 0 .. taken /\ u \in Nat /\ u <= n /\ taken <= u
    BY <1>2, <1>3, Bounds
  <1>8. Gone \in Gone .. n /\ n \in Gone .. n
    BY <1>4, <1>7
  <1>9. ~(Gone < n)
    BY <1>4, <1>5, <1>6, <1>8, EndsApart
  <1>10. taken = u
    BY <1>4, <1>7, <1>9
  <1> QED
    BY <1>2, <1>10 DEF Order

(* Waiting for data is such a step: who sleeps has seen an empty ring.     *)
LEMMA QuietConsumerStep ==
  ASSUME IInv, OneConsumer, NEW c \in Consumers,
         WaitForData(c) \/ DataArrived(c) \/ NothingToDequeue(c)
  PROVE  IInv'
  <1>1. RingTypeOK /\ Consuming /\ Sleeping /\ TurnIsSignalledInPlace /\ NoSleepOverData
    BY DEF IInv
  <1>2. \A x \in Producers : x \in Threads /\ x \notin Consumers
    BY <1>1, Types
  <1>3. \A x \in Consumers : x \in Threads /\ x \notin Producers /\ x = c
    BY <1>1, Types DEF OneConsumer
  <1>4. /\ pcQ \in [Threads -> ThreadStates] /\ c \in Threads
        /\ waitOn \in [Threads -> Nat \cup {NoEvent, DataEvent}]
    BY <1>1, <1>3 DEF RingTypeOK
  <1>5. PICK new \in {"idle", "waitData", "dequeue"} :
          /\ pcQ' = [pcQ EXCEPT ![c] = new] /\ pcQ[c] \in {"idle", "waitData", "dequeue"}
          /\ UNCHANGED << ring, waiters, hdr, cells, loc, history >>
          /\ \/ /\ new = "waitData" /\ head = tail
                /\ waitOn' = [waitOn EXCEPT ![c] = DataEvent]
             \/ /\ new # "waitData" /\ UNCHANGED waitOn
                /\ pcQ[c] = "waitData" => waitOn[c] = NoEvent
    BY DEF WaitForData, DataArrived, NothingToDequeue
  <1>6. pcQ'[c] = new /\ \A x \in Threads : x # c => pcQ'[x] = pcQ[x]
    BY <1>4, <1>5
  <1>7. /\ waitOn' \in [Threads -> Nat \cup {NoEvent, DataEvent}]
        /\ \A x \in Threads : x # c => waitOn'[x] = waitOn[x]
        /\ waitOn'[c] # NoEvent => new = "waitData" /\ waitOn'[c] = DataEvent /\ head = tail
    <2>1. waitOn[c] # NoEvent => pcQ[c] = "waitData"
      BY <1>1 DEF Consuming
    <2> QED
      BY <1>4, <1>5, <2>1
  <1>8. TurnIsSignalledInPlace'
    BY <1>1, <1>2, <1>3, <1>5, <1>6, <1>7 DEF TurnIsSignalledInPlace, ring
  <1>9. NoSleepOverData'
    <2>1. waitOn'[c] # NoEvent => validDataHead = validDataTail
      BY <1>7, EmptyRing
    <2> QED
      BY <1>3, <1>5, <2>1 DEF NoSleepOverData, ring
  <1>10. new \in ThreadStates \ Busy /\ pcQ[c] \notin Busy
    BY <1>5 DEF ThreadStates, Busy
  <1>11. \A p \in Producers : waitOn'[p] = waitOn[p]
    BY <1>2, <1>3, <1>7
  <1>12. \A x \in Consumers :
           waitOn'[x] # NoEvent => pcQ'[x] = "waitData" /\ waitOn'[x] = DataEvent
    BY <1>3, <1>6, <1>7
  <1> QED
    BY <1>3, <1>4, <1>5, <1>7, <1>8, <1>9, <1>10, <1>11, <1>12, QuietStep

(* A producer copies into its own entry only.                              *)
LEMMA CopyStep ==
  ASSUME IInv, OneConsumer, NEW p \in Producers, Copy(p)
  PROVE  IInv'
  <1>1. PICK w \in 0 .. n : Ring(w) /\ Headers(w)
    BY DEF IInv
  <1>2. PICK u \in 0 .. n : Order(u) /\ Flying(u)
    BY DEF IInv
  <1>3. RingTypeOK /\ Data /\ Consuming /\ Sleeping /\ TurnIsSignalledInPlace /\ NoSleepOverData
    BY DEF IInv
  <1>4. \A x \in Producers : x \in Threads /\ x \notin Consumers
    BY <1>3, Types
  <1>5. \A x \in Consumers : x \in Threads /\ x \notin Producers
    BY <1>3, Types
  <1>6. UNCHANGED << head, tail, validDataHead, validDataTail, loc, n, taken, placed, waitOn,
                     waitersForHeadPropogation, waitersForTailPropogation >>
    BY DEF Copy, ring, waiters, history
  <1>7. pcQ \in [Threads -> ThreadStates]
    BY <1>3 DEF RingTypeOK
  <1>8. pcQ[p] = "copy" /\ pcQ'[p] = "copied" /\ \A x \in Threads : x # p => pcQ'[x] = pcQ[x]
    BY <1>4, <1>7 DEF Copy
  <1>9. InFlight' = InFlight /\ Holders' = Holders /\ Waiting' = Waiting /\ Gone' = Gone
    <2>1. InFlight' = InFlight
      BY <1>4, <1>8 DEF InFlight
    <2>2. Holders' = Holders
      BY <1>4, <1>5, <1>8 DEF Holders
    <2>3. Waiting' = Waiting
      BY <1>4, <1>8 DEF Waiting
    <2> QED
      BY <1>6, <2>1, <2>2, <2>3 DEF Gone
  <1>10. p \in InFlight
    BY <1>8 DEF InFlight
  <1>11. PICK i \in (Gone + 1) .. n : i = loc[p].id
    BY <1>2, <1>3, <1>10, Mine
  <1>12. loc[p].entry = Off(placed, i) /\ loc[p].size = Size(placed, i)
    BY <1>2, <1>3, <1>10, <1>11, Mine DEF InFlightAt
  <1>13. /\ hdr' = PutData(hdr, Off(placed, i), Size(placed, i))
         /\ cells' = [x \in Offsets |-> IF x \in DataCells(Off(placed, i), Size(placed, i))
                                        THEN i ELSE cells[x]]
    BY <1>11, <1>12 DEF Copy
  <1>14. Layout(placed, head, tail, n, Gone, w)
    BY <1>1 DEF Ring
  <1>15. Regular(placed, Gone, n) /\ w \in Gone .. n
    BY <1>14 DEF Layout
  <1>16. placed \in Placements /\ n \in Nat /\ n \in 0 .. MaxEntries
    BY <1>3, Types
  <1>17. Gone \in Nat
    BY <1>2, <1>3, Bounds, Types
  <1>18. ASSUME NEW j \in (Gone + 1) .. n
         PROVE  /\ Off(placed, j) \in Nat /\ Size(placed, j) \in Nat /\ End(placed, j) \in Nat
                /\ End(placed, j) = Off(placed, j) + HeaderSize + Size(placed, j)
                /\ Off(placed, j) \in Offsets /\ End(placed, j) <= QueueSize /\ j \in Ids
    <2>1. j \in Ids /\ j \in 0 .. MaxEntries
      BY <1>16, <1>17, QueueAssumption DEF Ids
    <2>2. /\ End(placed, j) = Off(placed, j) + HeaderSize + Size(placed, j)
          /\ End(placed, j) <= QueueSize
      BY <1>15 DEF Regular
    <2> QED
      BY <1>16, <2>1, <2>2, PlacedTypes, QueueAssumption DEF Offsets
  <1>19. \A j \in (Gone + 1) .. n :
           j # i => \/ End(placed, i) <= Off(placed, j)
                    \/ End(placed, j) <= Off(placed, i)
    BY <1>14, <1>16, PlacesApart
  <1>20. \A j \in (Gone + 1) .. n : hdr'[Off(placed, j)] = hdr[Off(placed, j)]
    <2> SUFFICES ASSUME NEW j \in (Gone + 1) .. n
                 PROVE  hdr'[Off(placed, j)] = hdr[Off(placed, j)]
      OBVIOUS
    <2>1. ~(/\ Off(placed, i) < Off(placed, j)
            /\ Off(placed, j) < Off(placed, i) + HeaderSize + Size(placed, i))
      BY <1>18, <1>19, QueueAssumption
    <2> QED
      BY <1>13, <1>18, <2>1 DEF PutData
  <1>21. w < n => hdr'[End(placed, w)] = hdr[End(placed, w)]
    <2> SUFFICES ASSUME w < n PROVE hdr'[End(placed, w)] = hdr[End(placed, w)]
      OBVIOUS
    <2>1. End(placed, i) <= End(placed, w)
      BY <1>14, <1>16, PlacesApart
    <2>2. w \in 0 .. MaxEntries
      BY <1>15, <1>16, <1>17, QueueAssumption
    <2>3. End(placed, w) \in Offsets /\ End(placed, w) \in Nat
      BY <1>16, <2>2, PlacedTypes, QueueAssumption DEF Offsets
    <2>4. ~(End(placed, w) < Off(placed, i) + HeaderSize + Size(placed, i))
      BY <1>18, <2>1, <2>3, QueueAssumption
    <2> QED
      BY <1>13, <2>3, <2>4 DEF PutData
  <1>22. RingTypeOK'
    <2>1. hdr' \in [Offsets -> HeaderType]
      <3>1. Junk \in HeaderType
        BY QueueAssumption DEF HeaderType, Junk
      <3>2. \A x \in Offsets : hdr[x] \in HeaderType
        BY <1>3 DEF RingTypeOK
      <3> QED
        BY <1>13, <3>1, <3>2, Zenon DEF PutData
    <2>2. cells' \in [Offsets -> 0 .. MaxEntries]
      <3>1. i \in 0 .. MaxEntries
        BY <1>18 DEF Ids
      <3>2. \A x \in Offsets : cells[x] \in 0 .. MaxEntries
        BY <1>3 DEF RingTypeOK
      <3> QED
        BY <1>13, <3>1, <3>2, Zenon
    <2>3. pcQ' \in [Threads -> ThreadStates]
      BY <1>7 DEF Copy, ThreadStates
    <2> QED
      BY <1>3, <1>6, <2>1, <2>2, <2>3 DEF RingTypeOK
  <1>23. Ring(w)' /\ Headers(w)'
    <2>1. \A j \in (Gone + 1) .. n : Named(placed, hdr, j) => Named(placed, hdr', j)
      BY <1>20 DEF Named
    <2>2. Bridge(placed, hdr', n, w)
      BY <1>1, <1>21 DEF Headers, Bridge
    <2> QED
      BY <1>1, <1>6, <1>9, <2>1, <2>2 DEF Ring, Headers
  <1>24. Order(u)' /\ Flying(u)'
    <2>1. \A x : InFlightAt(x) => InFlightAt(x)'
      BY <1>6 DEF InFlightAt
    <2> QED
      BY <1>2, <1>6, <1>9, <2>1 DEF Order, Flying
  <1>25. Data'
    <2> SUFFICES ASSUME NEW j \in (Gone + 1) .. n,
                        \A t \in Producers : pcQ'[t] = "copy" => loc[t].id # j
                 PROVE  Filled(placed, cells', j)
      BY <1>6, <1>9 DEF Data
    <2>1. \A x \in DataCells(Off(placed, j), Size(placed, j)) :
            x \in Offsets /\ Off(placed, j) <= x /\ x < End(placed, j)
      BY <1>18, QueueAssumption DEF DataCells, Offsets
    <2>2. CASE j = i
      BY <1>13, <2>1, <2>2 DEF Filled
    <2>3. CASE j # i
      <3>1. \A t \in Producers : pcQ[t] = "copy" => loc[t].id # j
        BY <1>4, <1>8, <1>11, <2>3
      <3>2. Filled(placed, cells, j)
        BY <1>3, <3>1 DEF Data
      <3>3. \A x \in DataCells(Off(placed, j), Size(placed, j)) :
              x \notin DataCells(Off(placed, i), Size(placed, i))
        <4> SUFFICES ASSUME NEW x \in DataCells(Off(placed, j), Size(placed, j))
                     PROVE  x \notin DataCells(Off(placed, i), Size(placed, i))
          OBVIOUS
        <4>1. Off(placed, j) <= x /\ x < End(placed, j) /\ x \in Nat
          BY <2>1, QueueAssumption DEF Offsets
        <4>2. \/ End(placed, i) <= Off(placed, j)
              \/ End(placed, j) <= Off(placed, i)
          BY <1>19, <2>3
        <4> QED
          BY <1>18, <4>1, <4>2, QueueAssumption DEF DataCells
      <3> QED
        BY <1>13, <2>1, <3>2, <3>3, Zenon DEF Filled
    <2> QED
      BY <2>2, <2>3
  <1>26. Consuming'
    <2>1. \A c \in Consumers : pcQ'[c] = pcQ[c]
      BY <1>4, <1>5, <1>8
    <2>2. \A c \in Consumers : HoldsTaken(c) => HoldsTaken(c)'
      BY <1>6 DEF HoldsTaken
    <2> QED
      BY <1>3, <1>6, <2>1, <2>2 DEF Consuming
  <1>27. Sleeping'
    <2>1. ASSUME NEW t \in Producers
          PROVE  /\ pcQ'[t] \in {"idle", "copy", "copied", "waitTail", "wakeNext", "sent",
                                 "rejected"}
                 /\ pcQ'[t] = "waitTail" <=> pcQ[t] = "waitTail"
      BY <1>3, <1>4, <1>8 DEF Sleeping
    <2>2. ASSUME NEW t \in Producers, pcQ[t] = "waitTail"
          PROVE  hdr'[loc[t].entry].waitTail
      <3>1. t \in InFlight
        BY <2>2 DEF InFlight
      <3>2. loc[t].id \in (Gone + 1) .. n /\ InFlightAt(t)
        BY <1>2, <1>3, <3>1, Mine
      <3>3. hdr'[loc[t].entry] = hdr[loc[t].entry]
        BY <1>20, <3>2 DEF InFlightAt
      <3> QED
        BY <1>3, <2>2, <3>3 DEF Sleeping
    <2> QED
      BY <1>3, <1>6, <1>9, <2>1, <2>2 DEF Sleeping
  <1>28. TurnIsSignalledInPlace'
    <2>1. \A x \in Producers : /\ pcQ'[x] = "waitTail" <=> pcQ[x] = "waitTail"
                               /\ pcQ'[x] = "wakeNext" <=> pcQ[x] = "wakeNext"
      BY <1>4, <1>8
    <2> QED
      BY <1>3, <1>6, <2>1 DEF TurnIsSignalledInPlace
  <1>29. NoSleepOverData'
    <2>1. \A x \in Producers : pcQ[x] \in {"wakeNext", "sent"} => pcQ'[x] = pcQ[x]
      BY <1>4, <1>8
    <2>2. \A x \in Consumers : pcQ'[x] = pcQ[x]
      BY <1>4, <1>5, <1>8
    <2> QED
      BY <1>3, <1>6, <2>1, <2>2 DEF NoSleepOverData
  <1>30. \E x \in 0 .. n' : Ring(x)' /\ Headers(x)'
    BY <1>6, <1>23
  <1>31. \E x \in 0 .. n' : Order(x)' /\ Flying(x)'
    BY <1>6, <1>24
  <1> QED
    BY <1>22, <1>25, <1>26, <1>27, <1>28, <1>29, <1>30, <1>31 DEF IInv

(* Two entries with the same end are one.                                  *)
LEMMA EndsSame ==
  ASSUME NEW P \in Placements, NEW h, NEW t, NEW m \in 0 .. MaxEntries, NEW r, NEW w,
         Layout(P, h, t, m, r, w), NEW a \in r .. m, NEW b \in r .. m, End(P, a) = End(P, b)
  PROVE  a = b
  <1>1. a \in Int /\ b \in Int
    BY DEF Layout
  <1> QED
    BY <1>1, EndsApart

(* An entry is published in its turn; its successor, if it sleeps, is      *)
(* found by the header behind it.                                          *)
LEMMA PublishStep ==
  ASSUME IInv, OneConsumer, NEW p \in Producers, Publish(p) \/ ResumePublish(p),
         loc[p].oldTail = validDataTail
  PROVE  IInv'
  <1>1. PICK w \in 0 .. n : Ring(w) /\ Headers(w)
    BY DEF IInv
  <1>2. PICK u \in 0 .. n : Order(u) /\ Flying(u)
    BY DEF IInv
  <1>3. RingTypeOK /\ Data /\ Consuming /\ Sleeping /\ TurnIsSignalledInPlace /\ NoSleepOverData
    BY DEF IInv
  <1>4. \A x \in Producers : x \in Threads /\ x \notin Consumers
    BY <1>3, Types
  <1>5. \A x \in Consumers : x \in Threads /\ x \notin Producers
    BY <1>3, Types
  <1>6. /\ pcQ \in [Threads -> ThreadStates]
        /\ waitersForTailPropogation \in Int
    BY <1>3 DEF RingTypeOK
  <1>7. UNCHANGED << head, tail, validDataHead, hdr, cells, loc, n, taken, placed, waitOn,
                     waitersForHeadPropogation >>
    BY DEF Publish, ResumePublish, PropagateTail, waiters, history
  <1>8. PICK asleep \in WaitTailRead(hdr, loc[p].newTail), new \in {"wakeNext", "sent"} :
          /\ new = IF waitersForTailPropogation' # 0 /\ asleep THEN "wakeNext" ELSE "sent"
          /\ pcQ' = [pcQ EXCEPT ![p] = new]
    BY DEF Publish, ResumePublish, PropagateTail, waiters
  <1>9. /\ validDataTail' = loc[p].newTail
        /\ \/ pcQ[p] = "copied" /\ waitersForTailPropogation' = waitersForTailPropogation
           \/ /\ pcQ[p] = "waitTail"
              /\ waitersForTailPropogation' = waitersForTailPropogation - 1
        /\ waitOn[p] = NoEvent
    BY <1>3 DEF Publish, ResumePublish, PropagateTail, waiters, Sleeping
  <1>10. new \in {"wakeNext", "sent"} /\ new \in ThreadStates
    BY <1>8 DEF ThreadStates
  <1>11. pcQ'[p] = new /\ \A x \in Threads : x # p => pcQ'[x] = pcQ[x]
    BY <1>4, <1>6, <1>8
  <1>12. p \in InFlight
    BY <1>9 DEF InFlight
  <1>13. /\ InFlight' = InFlight \ {p} /\ Holders' = Holders /\ Waiting' = Waiting \ {p}
         /\ Gone' = Gone
    <2>1. InFlight' = InFlight \ {p}
      BY <1>4, <1>10, <1>11 DEF InFlight
    <2>2. Holders' = Holders
      BY <1>4, <1>5, <1>11 DEF Holders
    <2>3. Waiting' = Waiting \ {p}
      BY <1>4, <1>10, <1>11 DEF Waiting
    <2> QED
      BY <1>7, <2>1, <2>2, <2>3 DEF Gone
  <1>14. placed \in Placements /\ n \in Nat /\ n \in 0 .. MaxEntries /\ taken \in Nat
    BY <1>3, Types
  <1>15. Gone \in Nat /\ Gone <= u /\ u \in Nat /\ u <= n /\ taken <= u
    BY <1>2, <1>3, <1>14, Bounds
  <1>16. Layout(placed, head, tail, n, Gone, w)
    BY <1>1 DEF Ring
  <1>17. loc[p].id = u + 1 /\ u + 1 \in 0 .. n
    <2>1. loc[p].oldTail = End(placed, u)
      BY <1>2 DEF Order
    <2>2. /\ loc[p].oldTail = End(placed, loc[p].id - 1) /\ loc[p].id - 1 \in Gone .. n
          /\ loc[p].id \in 1 .. n
      BY <1>2, <1>3, <1>12, Mine DEF InFlightAt
    <2>3. u \in Gone .. n
      BY <1>14, <1>15
    <2>4. loc[p].id - 1 = u
      BY <1>14, <1>16, <2>1, <2>2, <2>3, EndsSame
    <2> QED
      BY <1>14, <1>15, <2>2, <2>4
  <1>18. loc[p].newTail = End(placed, u + 1)
    BY <1>2, <1>3, <1>12, <1>17, Mine DEF InFlightAt
  <1>19. IsFiniteSet(Waiting') /\ waitersForTailPropogation' = Cardinality(Waiting')
    <2>1. IsFiniteSet(Waiting) /\ waitersForTailPropogation = Cardinality(Waiting)
      BY <1>3 DEF Sleeping
    <2>2. CASE pcQ[p] = "copied"
      <3>1. Waiting' = Waiting
        BY <1>13, <2>2 DEF Waiting
      <3> QED
        BY <1>9, <2>1, <2>2, <3>1
    <2>3. CASE pcQ[p] = "waitTail"
      <3>1. p \in Waiting
        BY <2>3 DEF Waiting
      <3> QED
        BY <1>9, <1>13, <2>1, <2>3, <3>1, FS_RemoveElement
    <2> QED
      BY <1>9, <2>2, <2>3
  <1>20. RingTypeOK'
    <2>1. validDataTail' \in Offsets
      BY <1>9, <1>14, <1>17, <1>18, PlacedTypes, QueueAssumption DEF Offsets
    <2>2. waitersForTailPropogation' \in Int
      BY <1>6, <1>9
    <2>3. pcQ' \in [Threads -> ThreadStates]
      BY <1>6, <1>8, <1>10
    <2> QED
      BY <1>3, <1>7, <2>1, <2>2, <2>3 DEF RingTypeOK
  <1>21. Ring(w)' /\ Headers(w)'
    BY <1>1, <1>7, <1>13 DEF Ring, Headers
  <1>22. Order(u + 1)'
    <2>1. taken \in 0 .. (u + 1)
      BY <1>14, <1>15
    <2> QED
      BY <1>2, <1>7, <1>9, <1>17, <1>18, <2>1 DEF Order
  <1>23. Flying(u + 1)'
    <2>1. \A x : InFlightAt(x) => InFlightAt(x)'
      BY <1>7 DEF InFlightAt
    <2>2. \A t \in InFlight : t # p => loc[t].id # u + 1
      BY <1>2, <1>12, <1>17 DEF Flying
    <2>3. \A t \in InFlight' : loc[t].id \in (u + 1 + 1) .. n /\ InFlightAt(t)'
      <3> SUFFICES ASSUME NEW t \in InFlight'
                   PROVE  loc[t].id \in (u + 1 + 1) .. n /\ InFlightAt(t)'
        OBVIOUS
      <3>1. t \in InFlight /\ t # p
        BY <1>13
      <3>2. loc[t].id \in (u + 1) .. n /\ InFlightAt(t) /\ loc[t].id # u + 1
        BY <1>2, <2>2, <3>1 DEF Flying
      <3> QED
        BY <1>14, <1>15, <2>1, <3>2
    <2>4. \A i \in (u + 1 + 1) .. n : \E t \in InFlight' : loc[t].id = i
      <3> SUFFICES ASSUME NEW i \in (u + 1 + 1) .. n
                   PROVE  \E t \in InFlight' : loc[t].id = i
        OBVIOUS
      <3>1. i \in (u + 1) .. n /\ i # u + 1
        BY <1>14, <1>15
      <3> QED
        BY <1>2, <1>13, <1>17, <3>1 DEF Flying
    <2>5. \A t, q \in InFlight' : loc[t].id = loc[q].id => t = q
      BY <1>2, <1>13 DEF Flying
    <2> QED
      BY <1>7, <2>3, <2>4, <2>5 DEF Flying
  <1>24. Data'
    <2>1. \A t \in Producers : pcQ[t] = "copy" <=> pcQ'[t] = "copy"
      BY <1>4, <1>9, <1>10, <1>11
    <2> QED
      BY <1>3, <1>7, <1>13, <2>1 DEF Data
  <1>25. Consuming'
    <2>1. \A c \in Consumers : pcQ'[c] = pcQ[c]
      BY <1>4, <1>5, <1>11
    <2>2. \A c \in Consumers : HoldsTaken(c) => HoldsTaken(c)'
      BY <1>7 DEF HoldsTaken
    <2> QED
      BY <1>3, <1>7, <2>1, <2>2 DEF Consuming
  <1>26. Sleeping'
    <2>1. ASSUME NEW t \in Producers
          PROVE  pcQ'[t] \in {"idle", "copy", "copied", "waitTail", "wakeNext", "sent",
                              "rejected"}
      BY <1>3, <1>4, <1>10, <1>11 DEF Sleeping
    <2>2. ASSUME NEW t \in Producers, waitOn'[t] # NoEvent
          PROVE  pcQ'[t] = "waitTail" /\ waitOn'[t] = loc'[t].oldTail
      BY <1>3, <1>4, <1>7, <1>9, <1>11, <2>2 DEF Sleeping
    <2>3. ASSUME NEW t \in Producers, pcQ'[t] = "waitTail"
          PROVE  hdr'[loc'[t].entry].waitTail
      BY <1>3, <1>4, <1>7, <1>10, <1>11, <2>3 DEF Sleeping
    <2> QED
      BY <1>19, <2>1, <2>2, <2>3 DEF Sleeping
  <1>27. TurnIsSignalledInPlace'
    <2> SUFFICES ASSUME NEW t \in Producers, pcQ'[t] = "waitTail", waitOn[t] # NoEvent,
                        loc[t].oldTail = validDataTail', loc[t].entry = loc[t].oldTail
                 PROVE  pcQ'[p] = "wakeNext" /\ loc[p].newTail = waitOn[t]
      BY <1>7 DEF TurnIsSignalledInPlace
    <2>1. t # p /\ pcQ[t] = "waitTail" /\ t \in InFlight
      BY <1>4, <1>10, <1>11 DEF InFlight
    <2>2. waitOn[t] = loc[t].oldTail /\ hdr[loc[t].entry].waitTail
      BY <1>3, <2>1 DEF Sleeping
    <2>3. loc[t].id \in (Gone + 1) .. n /\ loc[t].id \in Ids /\ InFlightAt(t)
      BY <1>2, <1>3, <2>1, Mine
    <2>4. Off(placed, loc[t].id) \in Offsets /\ Size(placed, loc[t].id) \in Nat
      <3>1. Off(placed, loc[t].id) \in Nat /\ Size(placed, loc[t].id) \in Nat
        BY <1>14, <2>3, PlacedTypes
      <3>2. /\ End(placed, loc[t].id)
                 = Off(placed, loc[t].id) + HeaderSize + Size(placed, loc[t].id)
            /\ End(placed, loc[t].id) <= QueueSize
        BY <1>16, <2>3 DEF Layout, Regular
      <3> QED
        BY <3>1, <3>2, QueueAssumption DEF Offsets
    <2>5. Named(placed, hdr, loc[t].id)
      BY <1>1, <2>3 DEF Headers
    <2>6. loc[p].newTail = loc[t].entry /\ loc[t].entry = Off(placed, loc[t].id)
      BY <1>9, <2>3 DEF InFlightAt
    <2>7. hdr[loc[p].newTail] # Junk
      BY <2>4, <2>5, <2>6 DEF Named, Junk
    <2>8. At(hdr, loc[p].newTail) = hdr[loc[p].newTail]
      BY <2>4, <2>6 DEF At
    <2>9. hdr[loc[p].newTail].waitTail = TRUE
      <3>1. hdr[loc[p].newTail] \in HeaderType
        BY <1>3, <2>4, <2>6 DEF RingTypeOK
      <3> QED
        BY <2>2, <2>6, <3>1 DEF HeaderType
    <2>10. asleep = TRUE
      BY <1>8, <2>7, <2>8, <2>9 DEF WaitTailRead
    <2>11. waitersForTailPropogation' # 0
      <3>1. t \in Waiting'
        BY <2>1, <1>13 DEF Waiting
      <3> QED
        BY <1>19, <3>1, FS_EmptySet
    <2> QED
      BY <1>8, <1>9, <1>11, <2>2, <2>10, <2>11
  <1>28. NoSleepOverData'
    BY <1>10, <1>11 DEF NoSleepOverData
  <1>29. \E x \in 0 .. n' : Ring(x)' /\ Headers(x)'
    BY <1>7, <1>21
  <1>30. u + 1 \in 0 .. n'
    BY <1>7, <1>17
  <1>31. \E x \in 0 .. n' : Order(x)' /\ Flying(x)'
    <2>1. PICK x \in 0 .. n' : x = u + 1
      BY <1>30
    <2>2. Order(x)' /\ Flying(x)'
      BY <1>22, <1>23, <2>1
    <2> QED
      BY <2>2
  <1> QED
    BY <1>20, <1>24, <1>25, <1>26, <1>27, <1>28, <1>29, <1>31 DEF IInv

(* A producer that comes too early marks its own header and sleeps.        *)
LEMMA BackOffStep ==
  ASSUME IInv, OneConsumer, NEW p \in Producers, BackOff(p)
  PROVE  IInv'
  <1>1. PICK w \in 0 .. n : Ring(w) /\ Headers(w)
    BY DEF IInv
  <1>2. PICK u \in 0 .. n : Order(u) /\ Flying(u)
    BY DEF IInv
  <1>3. RingTypeOK /\ Data /\ Consuming /\ Sleeping /\ TurnIsSignalledInPlace /\ NoSleepOverData
    BY DEF IInv
  <1>4. \A x \in Producers : x \in Threads /\ x \notin Consumers
    BY <1>3, Types
  <1>5. \A x \in Consumers : x \in Threads /\ x \notin Producers
    BY <1>3, Types
  <1>6. /\ pcQ \in [Threads -> ThreadStates]
        /\ waitersForTailPropogation \in Int
        /\ waitOn \in [Threads -> Nat \cup {NoEvent, DataEvent}]
        /\ loc \in [Threads -> LocalsType]
        /\ hdr \in [Offsets -> HeaderType]
    BY <1>3 DEF RingTypeOK
  <1>7. UNCHANGED << head, tail, validDataHead, validDataTail, cells, loc, n, taken, placed,
                     waitersForHeadPropogation >>
    BY DEF BackOff, ring, history
  <1>8. /\ pcQ[p] = "copied" /\ loc[p].oldTail # validDataTail
        /\ waitersForTailPropogation' = waitersForTailPropogation + 1
        /\ hdr' = [hdr EXCEPT ![loc[p].entry].waitTail = TRUE]
        /\ waitOn' = [waitOn EXCEPT ![p] = loc[p].oldTail]
        /\ pcQ' = [pcQ EXCEPT ![p] = "waitTail"]
    BY DEF BackOff
  <1>9. pcQ'[p] = "waitTail" /\ \A x \in Threads : x # p => pcQ'[x] = pcQ[x]
    BY <1>4, <1>6, <1>8
  <1>10. waitOn'[p] = loc[p].oldTail /\ \A x \in Threads : x # p => waitOn'[x] = waitOn[x]
    BY <1>4, <1>6, <1>8
  <1>11. p \in InFlight
    BY <1>8 DEF InFlight
  <1>12. /\ InFlight' = InFlight /\ Holders' = Holders /\ Waiting' = Waiting \cup {p}
         /\ p \notin Waiting /\ Gone' = Gone
    <2>1. InFlight' = InFlight
      BY <1>4, <1>8, <1>9 DEF InFlight
    <2>2. Holders' = Holders
      BY <1>4, <1>5, <1>9 DEF Holders
    <2>3. Waiting' = Waiting \cup {p} /\ p \notin Waiting
      BY <1>4, <1>8, <1>9 DEF Waiting
    <2> QED
      BY <1>7, <2>1, <2>2, <2>3 DEF Gone
  <1>13. placed \in Placements /\ n \in 0 .. MaxEntries
    BY <1>3, Types
  <1>14. loc[p].entry \in Offsets
    <2>1. loc[p].id \in (Gone + 1) .. n /\ loc[p].id \in Ids
          /\ loc[p].entry = Off(placed, loc[p].id)
      BY <1>2, <1>3, <1>11, Mine DEF InFlightAt
    <2> QED
      BY <1>13, <2>1 DEF Placements, PlacementType, Off
  <1>15. \A x \in Offsets : /\ hdr'[x].id = hdr[x].id /\ hdr'[x].dataSize = hdr[x].dataSize
                            /\ hdr'[x].intermediate = hdr[x].intermediate
                            /\ hdr'[x].waitTail = (hdr[x].waitTail \/ x = loc[p].entry)
                            /\ hdr'[x] \in HeaderType
    <2> SUFFICES ASSUME NEW x \in Offsets
                 PROVE  /\ hdr'[x].id = hdr[x].id /\ hdr'[x].dataSize = hdr[x].dataSize
                        /\ hdr'[x].intermediate = hdr[x].intermediate
                        /\ hdr'[x].waitTail = (hdr[x].waitTail \/ x = loc[p].entry)
                        /\ hdr'[x] \in HeaderType
      OBVIOUS
    <2>1. hdr[x] \in HeaderType
      BY <1>6
    <2>2. CASE x = loc[p].entry
      <3>1. hdr'[x] = [hdr[x] EXCEPT !.waitTail = TRUE]
        BY <1>6, <1>8, <2>2
      <3> QED
        BY <2>1, <2>2, <3>1 DEF HeaderType
    <2>3. CASE x # loc[p].entry
      <3>1. hdr'[x] = hdr[x]
        BY <1>6, <1>8, <2>3
      <3> QED
        BY <2>1, <2>3, <3>1 DEF HeaderType
    <2> QED
      BY <2>2, <2>3
  <1>16. RingTypeOK'
    <2>1. hdr' \in [Offsets -> HeaderType]
      BY <1>6, <1>8, <1>15
    <2>2. waitOn' \in [Threads -> Nat \cup {NoEvent, DataEvent}]
      BY <1>4, <1>6, <1>8 DEF LocalsType
    <2>3. pcQ' \in [Threads -> ThreadStates]
      BY <1>6, <1>8 DEF ThreadStates
    <2> QED
      BY <1>3, <1>7, <1>8, <2>1, <2>2, <2>3 DEF RingTypeOK
  <1>17. \A j \in (Gone + 1) .. n : Off(placed, j) \in Offsets
    <2>1. Gone \in Nat
      BY <1>2, <1>3, Bounds, Types
    <2> QED
      BY <1>13, <2>1, QueueAssumption DEF Placements, PlacementType, Off, Ids
  <1>18. Ring(w)' /\ Headers(w)'
    <2>1. \A j \in (Gone + 1) .. n : Named(placed, hdr, j) => Named(placed, hdr', j)
      BY <1>15, <1>17 DEF Named
    <2>2. Bridge(placed, hdr', n, w)
      <3>1. w \in 0 .. MaxEntries
        BY <1>13, QueueAssumption
      <3>2. End(placed, w) \in Offsets
        BY <1>13, <3>1, PlacedTypes, QueueAssumption DEF Offsets
      <3> QED
        BY <1>1, <1>15, <3>2 DEF Headers, Bridge
    <2> QED
      BY <1>1, <1>7, <1>12, <2>1, <2>2 DEF Ring, Headers
  <1>19. Order(u)' /\ Flying(u)'
    <2>1. \A x : InFlightAt(x) => InFlightAt(x)'
      BY <1>7 DEF InFlightAt
    <2> QED
      BY <1>2, <1>7, <1>12, <2>1 DEF Order, Flying
  <1>20. Data'
    <2>1. \A t \in Producers : pcQ'[t] = "copy" <=> pcQ[t] = "copy"
      BY <1>4, <1>8, <1>9
    <2> QED
      BY <1>3, <1>7, <1>12, <2>1 DEF Data
  <1>21. Consuming'
    <2>1. \A c \in Consumers : pcQ'[c] = pcQ[c] /\ waitOn'[c] = waitOn[c]
      BY <1>4, <1>5, <1>9, <1>10
    <2>2. \A c \in Consumers : HoldsTaken(c) => HoldsTaken(c)'
      BY <1>7 DEF HoldsTaken
    <2> QED
      BY <1>3, <1>7, <2>1, <2>2 DEF Consuming
  <1>22. Sleeping'
    <2>1. IsFiniteSet(Waiting') /\ waitersForTailPropogation' = Cardinality(Waiting')
      BY <1>3, <1>8, <1>12, FS_AddElement DEF Sleeping
    <2>2. ASSUME NEW t \in Producers
          PROVE  pcQ'[t] \in {"idle", "copy", "copied", "waitTail", "wakeNext", "sent",
                              "rejected"}
      BY <1>3, <1>4, <1>9 DEF Sleeping
    <2>3. ASSUME NEW t \in Producers, waitOn'[t] # NoEvent
          PROVE  pcQ'[t] = "waitTail" /\ waitOn'[t] = loc'[t].oldTail
      BY <1>3, <1>4, <1>7, <1>9, <1>10, <2>3 DEF Sleeping
    <2>4. ASSUME NEW t \in Producers, pcQ'[t] = "waitTail"
          PROVE  hdr'[loc[t].entry].waitTail
      <3>1. CASE t = p
        BY <1>14, <1>15, <3>1
      <3>2. CASE t # p
        <4>1. pcQ[t] = "waitTail" /\ t \in InFlight
          BY <1>4, <1>9, <2>4, <3>2 DEF InFlight
        <4>2. hdr[loc[t].entry].waitTail
          BY <1>3, <4>1 DEF Sleeping
        <4>3. loc[t].entry \in Offsets
          BY <1>2, <1>3, <1>17, <4>1, Mine DEF InFlightAt
        <4> QED
          BY <1>15, <4>2, <4>3
      <3> QED
        BY <3>1, <3>2
    <2> QED
      BY <1>7, <2>1, <2>2, <2>3, <2>4 DEF Sleeping
  <1>23. TurnIsSignalledInPlace'
    <2> SUFFICES ASSUME NEW t \in Producers, pcQ'[t] = "waitTail", waitOn'[t] # NoEvent,
                        loc[t].oldTail = validDataTail, loc[t].entry = loc[t].oldTail
                 PROVE  \E x \in Producers : pcQ'[x] = "wakeNext" /\ loc[x].newTail = waitOn'[t]
      BY <1>7 DEF TurnIsSignalledInPlace
    <2>1. t # p /\ pcQ[t] = "waitTail" /\ waitOn'[t] = waitOn[t]
      BY <1>4, <1>8, <1>9, <1>10
    <2>2. PICK x \in Producers : pcQ[x] = "wakeNext" /\ loc[x].newTail = waitOn[t]
      BY <1>3, <2>1 DEF TurnIsSignalledInPlace
    <2> QED
      BY <1>4, <1>8, <1>9, <2>1, <2>2
  <1>24. NoSleepOverData'
    <2>1. \A x \in Producers : pcQ[x] \in {"wakeNext", "sent"} => pcQ'[x] = pcQ[x]
      BY <1>4, <1>8, <1>9
    <2>2. \A x \in Consumers : pcQ'[x] = pcQ[x] /\ waitOn'[x] = waitOn[x]
      BY <1>4, <1>5, <1>9, <1>10
    <2> QED
      BY <1>3, <1>7, <2>1, <2>2 DEF NoSleepOverData
  <1>25. \E x \in 0 .. n' : Ring(x)' /\ Headers(x)'
    BY <1>7, <1>18
  <1>26. \E x \in 0 .. n' : Order(x)' /\ Flying(x)'
    BY <1>7, <1>19
  <1> QED
    BY <1>16, <1>20, <1>21, <1>22, <1>23, <1>24, <1>25, <1>26 DEF IInv

(* What the memory says at the head of the entry after it: that it lies    *)
(* there, or that it went around.                                          *)
LEMMA FirstEntry ==
  ASSUME RingTypeOK, NEW w, Ring(w), Headers(w), NEW k, k = Gone + 1, Gone \in Nat, Gone < n
  PROVE  /\ SizesRead(hdr, Off(placed, k)) = {Size(placed, k)}
         /\ At(hdr, Off(placed, k)).id = k
         /\ k \in Ids /\ k \in 0 .. n /\ Off(placed, k) \in Nat /\ Size(placed, k) \in Nat
         /\ Size(placed, k) <= QueueSize
         /\ \/ /\ head = Off(placed, k)
               /\ End(placed, k) = head + Size(placed, k) + HeaderSize
               /\ End(placed, k) <= QueueSize
               /\ w # Gone
            \/ /\ Off(placed, k) = 0
               /\ End(placed, k) = Size(placed, k) + HeaderSize
               /\ \A s \in SizesRead(hdr, head) :
                    head + HeaderSize > QueueSize \/ head + s + HeaderSize > QueueSize
               /\ w = Gone
  <1>1. placed \in Placements /\ n \in Nat /\ n \in 0 .. MaxEntries /\ head \in Nat
    BY Types
  <1>2. Layout(placed, head, tail, n, Gone, w)
    BY DEF Ring
  <1>3. /\ Gone \in 0 .. n /\ w \in Gone .. n /\ head = End(placed, Gone)
        /\ Regular(placed, Gone, n)
        /\ Lower(placed, head, Gone, w) /\ Upper(placed, head, tail, n, w)
    BY <1>2 DEF Layout
  <1>4. k \in (Gone + 1) .. n /\ k \in Ids /\ k \in 0 .. n /\ k - 1 = Gone /\ Gone \in 0 .. MaxEntries
    BY <1>1, QueueAssumption DEF Ids
  <1>5. /\ Off(placed, k) \in Nat /\ Size(placed, k) \in Nat /\ Size(placed, k) \in DataSizes
        /\ End(placed, k) = Off(placed, k) + HeaderSize + Size(placed, k)
        /\ End(placed, k) <= QueueSize
    BY <1>1, <1>3, <1>4, PlacedTypes DEF Regular
  <1>6. Size(placed, k) # -1 /\ HeaderSize \in Nat /\ QueueSize \in Nat /\ HeaderSize > 0
    BY <1>5, QueueAssumption
  <1>7. Off(placed, k) \in Offsets
    BY <1>5, <1>6 DEF Offsets
  <1>8. Named(placed, hdr, k)
    BY <1>4 DEF Headers
  <1>9. At(hdr, Off(placed, k)) = hdr[Off(placed, k)]
    BY <1>7 DEF At
  <1>10. hdr[Off(placed, k)] # Junk
    BY <1>6, <1>8 DEF Named, Junk
  <1>11. SizesRead(hdr, Off(placed, k)) = {Size(placed, k)}
    BY <1>8, <1>9, <1>10 DEF SizesRead, Named
  <1>12. At(hdr, Off(placed, k)).id = k
    BY <1>8, <1>9 DEF Named
  <1>13. Size(placed, k) <= QueueSize
    BY <1>5, <1>6
  <1>14. CASE w # Gone
    <2>1. k \in (Gone + 1) .. w
      BY <1>1, <1>3, <1>14
    <2>2. Off(placed, k) = head
      BY <1>3, <1>4, <2>1 DEF Lower
    <2> QED
      BY <1>4, <1>5, <1>6, <1>11, <1>12, <1>13, <1>14, <2>2
  <1>15. CASE w = Gone
    <2>1. Off(placed, k) = 0 /\ head + HeaderSize + Size(placed, k) > QueueSize
      BY <1>3, <1>15 DEF Upper
    <2>2. ASSUME NEW s \in SizesRead(hdr, head)
          PROVE  head + HeaderSize > QueueSize \/ head + s + HeaderSize > QueueSize
      <3>1. CASE head + HeaderSize <= QueueSize
        <4>1. hdr[head].dataSize = Size(placed, k)
          BY <1>3, <1>15, <3>1 DEF Headers, Bridge
        <4>2. At(hdr, head) = hdr[head]
          BY <1>1, <1>6, <3>1 DEF At, Offsets
        <4>3. hdr[head] # Junk
          BY <1>6, <4>1 DEF Junk
        <4>4. s = Size(placed, k)
          BY <4>1, <4>2, <4>3 DEF SizesRead
        <4> QED
          BY <1>1, <1>5, <1>6, <2>1, <4>4
      <3> QED
        BY <1>1, <1>6, <3>1
    <2> QED
      BY <1>4, <1>5, <1>6, <1>11, <1>12, <1>13, <1>15, <2>1, <2>2
  <1> QED
    BY <1>14, <1>15

(* The entry handed out is the next one published, where it lies.          *)
LEMMA DequeueStep ==
  ASSUME IInv, OneConsumer, NEW c \in Consumers, Dequeue(c)
  PROVE  IInv'
  <1>1. PICK w \in 0 .. n : Ring(w) /\ Headers(w)
    BY DEF IInv
  <1>2. PICK u \in 0 .. n : Order(u) /\ Flying(u)
    BY DEF IInv
  <1>3. RingTypeOK /\ Data /\ Consuming /\ Sleeping /\ TurnIsSignalledInPlace /\ NoSleepOverData
    BY DEF IInv
  <1>4. \A x \in Producers : x \in Threads /\ x \notin Consumers /\ x # c
    BY <1>3, Types
  <1>5. \A x \in Consumers : x = c
    BY DEF OneConsumer
  <1>6. c \in Threads
    BY <1>3, Types
  <1>7. /\ pcQ \in [Threads -> ThreadStates] /\ loc \in [Threads -> LocalsType]
        /\ taken \in Nat /\ n \in Nat /\ n <= MaxEntries
    BY <1>3, Types DEF RingTypeOK
  <1>8. pcQ[c] = "dequeue" /\ validDataHead # validDataTail
    BY DEF Dequeue
  <1>9. Holders = {} /\ Gone = taken
    BY <1>5, <1>8 DEF Holders, Gone
  <1>10. /\ validDataHead = End(placed, taken) /\ validDataTail = End(placed, u)
         /\ taken \in 0 .. u
    BY <1>2 DEF Order
  <1>11. taken < u /\ u \in Nat /\ Gone < n /\ Gone \in Nat
    BY <1>7, <1>8, <1>9, <1>10
  <1>12. head = validDataHead /\ head \in Nat
    BY <1>1, <1>3, <1>9, <1>10, Types DEF Ring, Layout
  <1>13. PICK k : k = taken + 1
    OBVIOUS
  <1>14. TakeAt(c, Off(placed, k), Size(placed, k), End(placed, k))
    <2>1. PICK s \in SizesRead(hdr, head) :
            IF WentAround(s)
            THEN \E s0 \in SizesRead(hdr, 0) : TakeAt(c, 0, s0, s0 + HeaderSize)
            ELSE TakeAt(c, head, s, head + s + HeaderSize)
      BY <1>12 DEF Dequeue
    <2>2. CASE /\ head = Off(placed, k)
               /\ End(placed, k) = head + Size(placed, k) + HeaderSize
               /\ End(placed, k) <= QueueSize
      <3>1. s = Size(placed, k) /\ Size(placed, k) \in Nat
        BY <1>1, <1>3, <1>9, <1>11, <1>13, <2>2, FirstEntry
      <3>2. ~WentAround(s)
        BY <1>12, <2>2, <3>1, QueueAssumption DEF WentAround
      <3> QED
        BY <2>1, <2>2, <3>1, <3>2
    <2>3. CASE /\ Off(placed, k) = 0
               /\ End(placed, k) = Size(placed, k) + HeaderSize
               /\ \A x \in SizesRead(hdr, head) :
                    head + HeaderSize > QueueSize \/ head + x + HeaderSize > QueueSize
      <3>1. SizesRead(hdr, 0) = {Size(placed, k)}
        BY <1>1, <1>3, <1>9, <1>11, <1>13, <2>3, FirstEntry
      <3>2. WentAround(s)
        BY <2>3 DEF WentAround
      <3> QED
        BY <2>1, <2>3, <3>1, <3>2
    <2> QED
      BY <1>1, <1>3, <1>9, <1>11, <1>13, <2>2, <2>3, FirstEntry
  <1>15. /\ k \in 0 .. n /\ k \in Ids /\ Size(placed, k) \in 0 .. QueueSize
         /\ Off(placed, k) \in Nat /\ At(hdr, Off(placed, k)).id = k /\ End(placed, k) \in Nat
    <2>1. /\ k \in 0 .. n /\ k \in Ids /\ Size(placed, k) \in Nat
          /\ Size(placed, k) <= QueueSize
          /\ Off(placed, k) \in Nat /\ At(hdr, Off(placed, k)).id = k
      BY <1>1, <1>3, <1>9, <1>11, <1>13, FirstEntry
    <2>2. End(placed, k) \in Nat
      BY <1>3, <1>7, <2>1, Types, PlacedTypes, QueueAssumption
    <2> QED
      BY <2>1, <2>2, QueueAssumption
  <1>16. /\ validDataHead' = End(placed, k)
         /\ loc' = [loc EXCEPT ![c] = [NoLocals EXCEPT !.id = k, !.size = Size(placed, k),
                                                       !.entry = Off(placed, k)]]
         /\ pcQ' = [pcQ EXCEPT ![c] = "holding"]
         /\ taken' = taken + 1
    BY <1>14, <1>15 DEF TakeAt
  <1>17. UNCHANGED << head, tail, validDataTail, waitersForHeadPropogation,
                      waitersForTailPropogation, hdr, cells, waitOn, n, placed >>
    BY <1>14 DEF TakeAt, waiters
  <1>18. pcQ'[c] = "holding" /\ \A x \in Threads : x # c => pcQ'[x] = pcQ[x] /\ loc'[x] = loc[x]
    BY <1>6, <1>7, <1>16
  <1>19. loc'[c].id = k /\ loc'[c].size = Size(placed, k) /\ loc'[c].entry = Off(placed, k)
         /\ loc'[c] \in LocalsType
    <2>1. loc'[c] = [NoLocals EXCEPT !.id = k, !.size = Size(placed, k),
                                     !.entry = Off(placed, k)]
      BY <1>6, <1>7, <1>16
    <2>2. k \in 0 .. MaxEntries
      BY <1>15, QueueAssumption DEF Ids
    <2>3. loc'[c] = [id |-> k, size |-> Size(placed, k), entry |-> Off(placed, k),
                     oldTail |-> 0, newTail |-> 0]
      BY <2>1 DEF NoLocals
    <2> QED
      BY <1>15, <2>2, <2>3 DEF LocalsType
  <1>20. /\ InFlight' = InFlight /\ Waiting' = Waiting /\ Holders' # {} /\ Gone' = Gone
    <2>1. InFlight' = InFlight
      BY <1>4, <1>18 DEF InFlight
    <2>2. Holders' # {}
      BY <1>18 DEF Holders
    <2>3. Waiting' = Waiting
      BY <1>4, <1>18 DEF Waiting
    <2> QED
      BY <1>7, <1>9, <1>16, <2>1, <2>2, <2>3 DEF Gone
  <1>21. RingTypeOK'
    <2>1. loc' \in [Threads -> LocalsType]
      BY <1>7, <1>16, <1>18, <1>19
    <2>2. pcQ' \in [Threads -> ThreadStates]
      BY <1>7, <1>16 DEF ThreadStates
    <2>3. taken' \in Nat
      BY <1>7, <1>16
    <2> QED
      BY <1>3, <1>15, <1>16, <1>17, <2>1, <2>2, <2>3 DEF RingTypeOK
  <1>22. Ring(w)' /\ Headers(w)'
    BY <1>1, <1>17, <1>20 DEF Ring, Headers
  <1>23. Order(u)' /\ Flying(u)'
    <2>1. \A x \in InFlight : loc'[x] = loc[x]
      BY <1>4, <1>18 DEF InFlight
    <2>2. \A x \in InFlight : InFlightAt(x) => InFlightAt(x)'
      BY <1>17, <2>1 DEF InFlightAt
    <2>3. Flying(u)'
      BY <1>2, <1>17, <1>20, <2>1, <2>2 DEF Flying
    <2>4. taken' \in 0 .. u /\ validDataHead' = End(placed, taken')
      BY <1>7, <1>11, <1>13, <1>16
    <2> QED
      BY <1>2, <1>17, <2>3, <2>4 DEF Order
  <1>24. Data'
    <2>1. \A t \in Producers : (pcQ'[t] = "copy" <=> pcQ[t] = "copy") /\ loc'[t] = loc[t]
      BY <1>4, <1>18
    <2> QED
      BY <1>3, <1>17, <1>20, <2>1 DEF Data
  <1>25. Consuming'
    <2>1. HoldsTaken(c)'
      BY <1>7, <1>13, <1>16, <1>17, <1>19 DEF HoldsTaken
    <2>2. waitOn'[c] = NoEvent
      BY <1>3, <1>8, <1>17 DEF Consuming
    <2> QED
      BY <1>3, <1>5, <1>17, <1>18, <2>1, <2>2 DEF Consuming
  <1>26. Sleeping'
    <2>1. \A t \in Producers : pcQ'[t] = pcQ[t] /\ loc'[t] = loc[t]
      BY <1>4, <1>18
    <2> QED
      BY <1>3, <1>17, <1>20, <2>1 DEF Sleeping
  <1>27. TurnIsSignalledInPlace'
    <2>1. \A t \in Producers : pcQ'[t] = pcQ[t] /\ loc'[t] = loc[t]
      BY <1>4, <1>18
    <2> QED
      BY <1>3, <1>17, <2>1 DEF TurnIsSignalledInPlace
  <1>28. NoSleepOverData'
    BY <1>5, <1>18 DEF NoSleepOverData
  <1>29. \E x \in 0 .. n' : Ring(x)' /\ Headers(x)'
    BY <1>17, <1>22
  <1>30. \E x \in 0 .. n' : Order(x)' /\ Flying(x)'
    BY <1>17, <1>23
  <1> QED
    BY <1>21, <1>24, <1>25, <1>26, <1>27, <1>28, <1>29, <1>30 DEF IInv

(* The head moves behind the entry that is removed.                        *)
LEMMA Around ==
  ASSUME RingTypeOK, NEW w, Ring(w), Headers(w), NEW k, k = Gone + 1, Gone \in Nat, Gone < n,
         NEW around \in AroundAt(hdr, head)
  PROVE  /\ head = Off(placed, k) \/ (around /\ Off(placed, k) = 0)
         /\ NewHead(around, Size(placed, k)) = End(placed, k)
  <1>1. PICK s \in SizesRead(hdr, head) :
          around = (head + HeaderSize > QueueSize \/ head + s + HeaderSize > QueueSize)
    BY DEF AroundAt
  <1>2. head \in Nat
    BY Types
  <1>3. CASE /\ head = Off(placed, k)
             /\ End(placed, k) = head + Size(placed, k) + HeaderSize
             /\ End(placed, k) <= QueueSize
    <2>1. s = Size(placed, k) /\ Size(placed, k) \in Nat
      BY <1>3, FirstEntry
    <2>2. ~(head + HeaderSize > QueueSize) /\ ~(head + s + HeaderSize > QueueSize)
      BY <1>2, <1>3, <2>1, QueueAssumption
    <2>3. around = FALSE
      BY <1>1, <2>2
    <2>4. NewHead(around, Size(placed, k)) = End(placed, k)
      BY <1>3, <2>3 DEF NewHead
    <2> QED
      BY <1>3, <2>4, Zenon
  <1>4. CASE /\ Off(placed, k) = 0
             /\ End(placed, k) = Size(placed, k) + HeaderSize
             /\ \A x \in SizesRead(hdr, head) :
                  head + HeaderSize > QueueSize \/ head + x + HeaderSize > QueueSize
    <2>1. around = TRUE
      BY <1>1, <1>4
    <2> QED
      BY <1>4, <2>1 DEF NewHead
  <1> QED
    BY <1>3, <1>4, FirstEntry

(* The entry the consumer has is the first in the ring, and the test of    *)
(* removeEntry finds it so.                                                *)
LEMMA HolderIsFirst ==
  ASSUME IInv, OneConsumer, NEW c \in Consumers, pcQ[c] = "holding",
         NEW w \in 0 .. n, Ring(w), Headers(w),
         NEW around \in AroundAt(hdr, head)
  PROVE  /\ Gone + 1 = taken /\ Gone \in Nat /\ Gone < n
         /\ HoldsTaken(c)
         /\ SizesRead(hdr, loc[c].entry) = {Size(placed, taken)}
         /\ head = loc[c].entry \/ (around /\ loc[c].entry = 0)
         /\ NewHead(around, Size(placed, taken)) = End(placed, taken)
  <1>0. PICK k : k = Gone + 1
    OBVIOUS
  <1>1. PICK u \in 0 .. n : Order(u)
    BY DEF IInv
  <1>2. RingTypeOK /\ Consuming
    BY DEF IInv
  <1>3. Holders # {} /\ HoldsTaken(c)
    BY <1>2 DEF Holders, Consuming
  <1>4. Gone = taken - 1 /\ 0 < taken /\ taken \in Nat /\ u \in Nat /\ u <= n /\ taken <= u
    BY <1>1, <1>2, <1>3, Bounds, Types DEF Gone, HoldsTaken
  <1>5. k = taken /\ Gone \in Nat /\ Gone < n
    BY <1>0, <1>2, <1>4, Types
  <1>6. loc[c].entry = Off(placed, k)
    BY <1>3, <1>5 DEF HoldsTaken
  <1>7. SizesRead(hdr, loc[c].entry) = {Size(placed, k)}
    BY <1>0, <1>2, <1>5, <1>6, FirstEntry
  <1>8. /\ head = Off(placed, k) \/ (around /\ Off(placed, k) = 0)
        /\ NewHead(around, Size(placed, k)) = End(placed, k)
    BY <1>0, <1>2, <1>5, Around
  <1> QED
    BY <1>0, <1>3, <1>5, <1>6, <1>7, <1>8, Zenon

(* The removal frees the place of that entry alone.                        *)
LEMMA RemoveStep ==
  ASSUME IInv, OneConsumer, NEW c \in Consumers, Remove(c)
  PROVE  IInv'
  <1>1. PICK w \in 0 .. n : Ring(w) /\ Headers(w)
    BY DEF IInv
  <1>2. PICK u \in 0 .. n : Order(u) /\ Flying(u)
    BY DEF IInv
  <1>3. RingTypeOK /\ Data /\ Consuming /\ Sleeping /\ TurnIsSignalledInPlace /\ NoSleepOverData
    BY DEF IInv
  <1>4. \A x \in Producers : x \in Threads /\ x \notin Consumers /\ x # c
    BY <1>3, Types
  <1>5. \A x \in Consumers : x = c
    BY DEF OneConsumer
  <1>6. c \in Threads
    BY <1>3, Types
  <1>7. /\ pcQ \in [Threads -> ThreadStates] /\ loc \in [Threads -> LocalsType]
        /\ taken \in Nat /\ n \in Nat /\ n <= MaxEntries /\ n \in 0 .. MaxEntries
        /\ placed \in Placements
    BY <1>3, Types DEF RingTypeOK
  <1>8. pcQ[c] = "holding" /\ waitersForHeadPropogation = 0
    BY <1>3 DEF Remove, Consuming
  <1>9. PICK k : k = Gone + 1
    OBVIOUS
  <1>10. PICK around \in AroundAt(hdr, head), s \in SizesRead(hdr, loc[c].entry) :
           /\ head' = NewHead(around, s)
           /\ pcQ' = [pcQ EXCEPT ![c] = "dequeue"]
           /\ loc' = [loc EXCEPT ![c] = NoLocals]
    BY <1>8 DEF Remove, AdvanceHead
  <1>11. UNCHANGED << tail, validDataHead, validDataTail, waitersForHeadPropogation,
                      waitersForTailPropogation, hdr, cells, waitOn, n, taken, placed >>
    BY DEF Remove, AdvanceHead, waiters, history
  <1>12. k = taken /\ Gone \in Nat /\ Gone < n /\ SizesRead(hdr, loc[c].entry) = {Size(placed, k)}
         /\ NewHead(around, Size(placed, k)) = End(placed, k)
    <2>1. around \in AroundAt(hdr, head) /\ pcQ[c] = "holding" /\ Ring(w) /\ Headers(w)
      BY <1>1, <1>8, <1>10
    <2>2. /\ Gone + 1 = taken /\ Gone \in Nat /\ Gone < n
          /\ SizesRead(hdr, loc[c].entry) = {Size(placed, taken)}
          /\ NewHead(around, Size(placed, taken)) = End(placed, taken)
      BY <2>1, HolderIsFirst, Zenon
    <2> QED
      BY <1>9, <2>2
  <1>13. head' = End(placed, Gone + 1)
    BY <1>9, <1>10, <1>12
  <1>14. pcQ'[c] = "dequeue" /\ \A x \in Threads : x # c => pcQ'[x] = pcQ[x] /\ loc'[x] = loc[x]
    BY <1>6, <1>7, <1>10
  <1>15. InFlight' = InFlight /\ Waiting' = Waiting /\ Holders' = {} /\ Gone' = Gone + 1
    <2>1. InFlight' = InFlight
      BY <1>4, <1>14 DEF InFlight
    <2>2. Holders' = {}
      BY <1>5, <1>14 DEF Holders
    <2>3. Waiting' = Waiting
      BY <1>4, <1>14 DEF Waiting
    <2> QED
      BY <1>7, <1>9, <1>11, <1>12, <2>1, <2>2, <2>3 DEF Gone
  <1>16. Layout(placed, head, tail, n, Gone, w)
    BY <1>1 DEF Ring
  <1>17. PICK v : v = IF w = Gone THEN n ELSE w
    OBVIOUS
  <1>18. Layout(placed, End(placed, Gone + 1), tail, n, Gone + 1, v) /\ v \in 0 .. n
    BY <1>7, <1>12, <1>16, <1>17, Shrinks
  <1>19. Ring(v)' /\ Headers(v)'
    <2>1. Ring(v)'
      BY <1>11, <1>13, <1>15, <1>18 DEF Ring
    <2>2. \A i \in (Gone + 1 + 1) .. n : Named(placed, hdr, i)
      <3>1. \A i \in (Gone + 1 + 1) .. n : i \in (Gone + 1) .. n
        BY <1>7, <1>12
      <3> QED
        BY <1>1, <3>1 DEF Headers
    <2>3. Bridge(placed, hdr, n, v)
      BY <1>1, <1>7, <1>17 DEF Headers, Bridge
    <2> QED
      BY <1>11, <1>15, <2>1, <2>2, <2>3 DEF Headers
  <1>20. RingTypeOK'
    <2>1. head' \in Nat
      <3>1. Gone + 1 \in 0 .. MaxEntries
        BY <1>7, <1>12, QueueAssumption
      <3> QED
        BY <1>7, <1>13, <3>1, PlacedTypes
    <2>2. loc' \in [Threads -> LocalsType]
      <3>1. NoLocals \in LocalsType
        BY QueueAssumption DEF NoLocals, LocalsType
      <3> QED
        BY <1>7, <1>10, <3>1
    <2>3. pcQ' \in [Threads -> ThreadStates]
      BY <1>7, <1>10 DEF ThreadStates
    <2> QED
      BY <1>3, <1>11, <2>1, <2>2, <2>3 DEF RingTypeOK
  <1>21. Order(u)' /\ Flying(u)'
    <2>1. \A x \in InFlight : loc'[x] = loc[x]
      BY <1>4, <1>14 DEF InFlight
    <2>2. \A x \in InFlight : InFlightAt(x) => InFlightAt(x)'
      BY <1>11, <2>1 DEF InFlightAt
    <2> QED
      BY <1>2, <1>11, <1>15, <2>1, <2>2 DEF Flying, Order
  <1>22. Data'
    <2>1. \A t \in Producers : (pcQ'[t] = "copy" <=> pcQ[t] = "copy") /\ loc'[t] = loc[t]
      BY <1>4, <1>14
    <2>2. \A i \in (Gone + 1 + 1) .. n : i \in (Gone + 1) .. n
      BY <1>7, <1>12
    <2> QED
      BY <1>3, <1>11, <1>15, <2>1, <2>2 DEF Data
  <1>23. Consuming'
    <2>1. waitOn'[c] = NoEvent
      BY <1>3, <1>8, <1>11 DEF Consuming
    <2> QED
      BY <1>3, <1>5, <1>11, <1>14, <2>1 DEF Consuming
  <1>24. \A t \in Producers : pcQ'[t] = pcQ[t] /\ loc'[t] = loc[t]
    BY <1>4, <1>14
  <1>25. Sleeping'
    BY <1>3, <1>11, <1>15, <1>24 DEF Sleeping
  <1>26. TurnIsSignalledInPlace'
    BY <1>3, <1>11, <1>24 DEF TurnIsSignalledInPlace
  <1>27. NoSleepOverData'
    BY <1>5, <1>14 DEF NoSleepOverData
  <1>28. \E x \in 0 .. n' : Ring(x)' /\ Headers(x)'
    BY <1>11, <1>18, <1>19
  <1>29. \E x \in 0 .. n' : Order(x)' /\ Flying(x)'
    BY <1>11, <1>21
  <1> QED
    BY <1>20, <1>22, <1>23, <1>25, <1>26, <1>27, <1>28, <1>29 DEF IInv

(* The invariant holds when the queue is made.                             *)
LEMMA InitIInv ==
  ASSUME OneConsumer, RingInit
  PROVE  IInv
  <1>1. n = 0 /\ taken = 0 /\ 0 \in 0 .. n /\ 0 \in Nat /\ 0 \in Offsets /\ 0 \in 0 .. MaxEntries
    BY QueueAssumption DEF RingInit, Offsets
  <1>2. \A t \in Threads : pcQ[t] = "idle" /\ waitOn[t] = NoEvent
    BY DEF RingInit
  <1>3. InFlight = {} /\ Holders = {} /\ Waiting = {} /\ Gone = 0
    BY <1>1, <1>2 DEF InFlight, Holders, Waiting, Gone, Threads
  <1>4. RingTypeOK
    <2>1. Junk \in HeaderType /\ NoLocals \in LocalsType
      BY QueueAssumption DEF HeaderType, Junk, NoLocals, LocalsType
    <2>2. hdr \in [Offsets -> HeaderType] /\ loc \in [Threads -> LocalsType]
      BY <2>1 DEF RingInit
    <2>3. cells \in [Offsets -> 0 .. MaxEntries]
      BY <1>1 DEF RingInit
    <2>4. /\ pcQ \in [Threads -> ThreadStates]
          /\ waitOn \in [Threads -> Nat \cup {NoEvent, DataEvent}]
      BY DEF RingInit, ThreadStates
    <2>5. placed \in [Ids -> [pre : Offsets, off : Offsets, size : 0 .. QueueSize,
                              end : Offsets]]
      BY <1>1, QueueAssumption DEF RingInit, Offsets
    <2> QED
      BY <1>1, <2>2, <2>3, <2>4, <2>5 DEF RingInit, RingTypeOK
  <1>5. End(placed, 0) = 0
    BY DEF End
  <1>6. Ring(0) /\ Headers(0)
    <2>1. \A i \in (0 + 1) .. 0 : FALSE
      OBVIOUS
    <2>2. Layout(placed, 0, 0, 0, 0, 0)
      BY <1>5, <2>1 DEF Layout, Regular, Lower, Upper
    <2> QED
      BY <1>1, <1>3, <2>1, <2>2 DEF Ring, Headers, Bridge, RingInit
  <1>7. Order(0) /\ Flying(0)
    BY <1>1, <1>3, <1>5 DEF Order, Flying, RingInit
  <1>8. Data
    BY <1>1, <1>3 DEF Data
  <1>9. Consuming
    BY <1>2 DEF Consuming, RingInit, Threads
  <1>10. Sleeping
    BY <1>2, <1>3, FS_EmptySet DEF Sleeping, RingInit, Threads
  <1>11. TurnIsSignalledInPlace /\ NoSleepOverData
    BY <1>2 DEF TurnIsSignalledInPlace, NoSleepOverData, Threads
  <1> QED
    BY <1>1, <1>4, <1>6, <1>7, <1>8, <1>9, <1>10, <1>11 DEF IInv

(* Each step of the queue with one consumer keeps the invariant, unless a  *)
(* producer publishes before its turn in it.                               *)
LEMMA Inductive ==
  ASSUME OneConsumer, IInv, ~overtaken', [RingNext]_ringVars
  PROVE  IInv'
  <1>1. Consuming
    BY DEF IInv
  <1>2. CASE UNCHANGED ringVars
    BY <1>2
    DEF IInv, ringVars, ring, waiters, history, RingTypeOK, Ring, Headers, Data, Order, Flying,
        InFlight, InFlightAt, Consuming, HoldsTaken, Sleeping, Waiting, Gone, Holders,
        TurnIsSignalledInPlace, NoSleepOverData
  <1>3. ASSUME NEW p \in Producers, Enqueue(p) PROVE IInv'
    BY <1>3, ReserveAtTailStep, ReserveWrappedStep, QuietProducerStep DEF Enqueue
  <1>4. ASSUME NEW p \in Producers, ProducerStep(p) PROVE IInv'
    <2>1. Publish(p) => loc[p].oldTail = validDataTail
      BY DEF Publish
    <2>2. ResumePublish(p) => loc[p].oldTail = validDataTail
      BY DEF ResumePublish, PropagateTail
    <2> QED
      BY <1>4, <2>1, <2>2, CopyStep, PublishStep, BackOffStep, QuietProducerStep
      DEF ProducerStep
  <1>5. ASSUME NEW c \in Consumers, ConsumerStep(c) PROVE IInv'
    <2>1. ~ResumeRemove(c) /\ ~WakeNextConsumer(c)
      BY <1>1 DEF Consuming, ResumeRemove, WakeNextConsumer
    <2>2. ~WaitToRemove(c)
      <3>1. SUFFICES ASSUME pcQ[c] = "holding" PROVE FALSE \notin AtHead(loc[c].entry)
        BY DEF WaitToRemove
      <3>2. PICK w \in 0 .. n : Ring(w) /\ Headers(w)
        BY DEF IInv
      <3>3. SUFFICES ASSUME NEW around \in AroundAt(hdr, head)
                     PROVE  head = loc[c].entry \/ (around /\ loc[c].entry = 0)
        BY Zenon DEF AtHead
      <3> QED
        BY <3>1, <3>2, HolderIsFirst, Zenon
    <2> QED
      BY <1>5, <2>1, <2>2, QuietConsumerStep, DequeueStep, RemoveStep DEF ConsumerStep
  <1> QED
    BY <1>2, <1>3, <1>4, <1>5 DEF RingNext

(* The history of overtaking changes only when a producer publishes.       *)
LEMMA OvertakenStays ==
  ASSUME overtaken, [RingNext]_ringVars
  PROVE  overtaken'
  <1>1. CASE UNCHANGED ringVars
    BY <1>1 DEF ringVars, history
  <1>2. ASSUME NEW p \in Producers, Enqueue(p) PROVE overtaken'
    BY <1>2 DEF Enqueue, ReserveAtTail, ReserveWrapped, Reject, Place, history
  <1>3. ASSUME NEW p \in Producers, ProducerStep(p) PROVE overtaken'
    BY <1>3 DEF ProducerStep, Copy, Publish, BackOff, ResumePublish, WakeNextProducer,
                NotifyThreads, ReturnRejected, PropagateTail, history
  <1>4. ASSUME NEW c \in Consumers, ConsumerStep(c) PROVE overtaken'
    BY <1>4 DEF ConsumerStep, WaitForData, DataArrived, Dequeue, TakeAt, NothingToDequeue,
                Remove, WaitToRemove, ResumeRemove, WakeNextConsumer, AdvanceHead, history
  <1> QED
    BY <1>1, <1>2, <1>3, <1>4 DEF RingNext

LEMMA OvertakenOutOfTurn ==
  ASSUME ResumesInOrder, ~overtaken, [RingNext]_ringVars
  PROVE  ~overtaken'
  <1>1. CASE UNCHANGED ringVars
    BY <1>1 DEF ringVars, history
  <1>2. ASSUME NEW p \in Producers, Enqueue(p) PROVE ~overtaken'
    BY <1>2 DEF Enqueue, ReserveAtTail, ReserveWrapped, Reject, Place, history
  <1>3. ASSUME NEW p \in Producers, ProducerStep(p) PROVE ~overtaken'
    BY <1>3 DEF ProducerStep, Copy, Publish, BackOff, ResumePublish, WakeNextProducer,
                NotifyThreads, ReturnRejected, PropagateTail, ResumesInOrder, history
  <1>4. ASSUME NEW c \in Consumers, ConsumerStep(c) PROVE ~overtaken'
    BY <1>4 DEF ConsumerStep, WaitForData, DataArrived, Dequeue, TakeAt, NothingToDequeue,
                Remove, WaitToRemove, ResumeRemove, WakeNextConsumer, AdvanceHead, history
  <1> QED
    BY <1>1, <1>2, <1>3, <1>4 DEF RingNext

(* At most two threads produce.                                            *)
TwoProducers == \A p, q, r \in Producers : p = q \/ q = r \/ p = r

(* Who is woken is next: with two producers nobody publishes between the   *)
(* wake-up of a producer and its going on.                                 *)
LEMMA TurnsKept ==
  ASSUME OneConsumer, TwoProducers, IInv, IInv', ResumesInOrder, [RingNext]_ringVars
  PROVE  ResumesInOrder'
  <1>1. PICK w \in 0 .. n : Ring(w)
    BY DEF IInv
  <1>2. PICK u \in 0 .. n : Order(u) /\ Flying(u)
    BY DEF IInv
  <1>3. RingTypeOK /\ Consuming /\ Sleeping
    BY DEF IInv
  <1>4. /\ placed \in Placements /\ n \in Nat /\ n \in 0 .. MaxEntries
        /\ \A x \in Producers : x \in Threads /\ x \notin Consumers
    BY <1>3, Types
  <1>5. /\ pcQ \in [Threads -> ThreadStates] /\ loc \in [Threads -> LocalsType]
        /\ waitOn \in [Threads -> Nat \cup {NoEvent, DataEvent}]
    BY <1>3 DEF RingTypeOK
  <1> SUFFICES ASSUME NEW p \in Producers, pcQ'[p] = "waitTail", waitOn'[p] = NoEvent
               PROVE  loc'[p].oldTail = validDataTail'
    BY DEF ResumesInOrder
  <1>6. p \in Threads /\ p \notin Consumers
    BY <1>4
  <1>7. CASE pcQ'[p] = pcQ[p] /\ waitOn'[p] = waitOn[p] /\ loc'[p] = loc[p]
             /\ validDataTail' = validDataTail
    BY <1>7 DEF ResumesInOrder
  <1>8. CASE UNCHANGED ringVars
    BY <1>7, <1>8 DEF ringVars, ring
  <1>9. ASSUME NEW q \in Producers, NEW s \in DataSizes,
               ReserveAtTail(q, s) \/ ReserveWrapped(q, s) \/ Reject(q, s)
        PROVE  loc'[p].oldTail = validDataTail'
    <2>1. q # p
      BY <1>5, <1>6, <1>9 DEF ReserveAtTail, ReserveWrapped, Reject, Place
    <2> QED
      BY <1>5, <1>6, <1>7, <1>9, <2>1 DEF ReserveAtTail, ReserveWrapped, Reject, Place, ring
  <1>10. ASSUME NEW q \in Producers, Copy(q) \/ NotifyThreads(q) \/ ReturnRejected(q)
         PROVE  loc'[p].oldTail = validDataTail'
    <2>1. q # p
      BY <1>5, <1>6, <1>10 DEF Copy, NotifyThreads, ReturnRejected
    <2>2. pcQ'[p] = pcQ[p] /\ loc'[p] = loc[p] /\ validDataTail' = validDataTail
      BY <1>5, <1>6, <1>10, <2>1 DEF Copy, NotifyThreads, ReturnRejected, ring
    <2>3. waitOn[p] # NoEvent => waitOn[p] # DataEvent
      BY <1>3, <1>5, <1>6 DEF Sleeping, LocalsType, DataEvent
    <2>4. waitOn'[p] = waitOn[p]
      BY <1>5, <1>6, <1>10, <2>3 DEF Copy, NotifyThreads, ReturnRejected, Wakeup
    <2> QED
      BY <1>7, <2>2, <2>4
  <1>11. ASSUME NEW q \in Producers, BackOff(q)
         PROVE  loc'[p].oldTail = validDataTail'
    <2>1. q # p
      BY <1>5, <1>6, <1>11 DEF BackOff, LocalsType, NoEvent
    <2> QED
      BY <1>5, <1>6, <1>7, <1>11, <2>1 DEF BackOff, ring
  <1>12. ASSUME NEW q \in Producers, Publish(q) \/ ResumePublish(q)
         PROVE  loc'[p].oldTail = validDataTail'
    <2>1. q # p
      BY <1>5, <1>6, <1>12 DEF Publish, ResumePublish, PropagateTail
    <2>2. pcQ[p] = "waitTail" /\ waitOn[p] = NoEvent
      BY <1>5, <1>6, <1>12, <2>1 DEF Publish, ResumePublish, PropagateTail
    <2>3. loc[p].oldTail = validDataTail /\ loc[q].oldTail = validDataTail
      BY <1>12, <2>2 DEF Publish, ResumePublish, ResumesInOrder
    <2>4. p \in InFlight /\ q \in InFlight
      BY <1>12, <2>2 DEF InFlight, Publish, ResumePublish
    <2>5. /\ loc[p].id - 1 \in Gone .. n /\ loc[p].oldTail = End(placed, loc[p].id - 1)
          /\ loc[p].id \in 1 .. n
      BY <1>2, <1>3, <2>4, Mine DEF InFlightAt
    <2>6. /\ loc[q].id - 1 \in Gone .. n /\ loc[q].oldTail = End(placed, loc[q].id - 1)
          /\ loc[q].id \in 1 .. n
      BY <1>2, <1>3, <2>4, Mine DEF InFlightAt
    <2>7. loc[p].id - 1 = loc[q].id - 1
      BY <1>1, <1>4, <2>3, <2>5, <2>6, EndsSame DEF Ring
    <2>8. loc[p].id = loc[q].id
      BY <1>4, <2>5, <2>6, <2>7
    <2> QED
      BY <1>2, <2>1, <2>4, <2>8 DEF Flying
  <1>13. ASSUME NEW q \in Producers, WakeNextProducer(q)
         PROVE  loc'[p].oldTail = validDataTail'
    <2>1. /\ q # p /\ pcQ[q] = "wakeNext" /\ pcQ[p] = "waitTail" /\ loc'[p] = loc[p]
          /\ validDataTail' = validDataTail
      BY <1>5, <1>6, <1>13 DEF WakeNextProducer, ring
    <2>2. p \in InFlight /\ q \notin InFlight
      BY <2>1 DEF InFlight
    <2>3. \A t \in InFlight : t = p
      BY <2>1, <2>2 DEF TwoProducers, InFlight
    <2>4. loc[p].id \in (u + 1) .. n /\ loc[p].oldTail = End(placed, loc[p].id - 1)
      BY <1>2, <2>2 DEF Flying, InFlightAt
    <2>5. u \in Nat /\ u + 1 \in (u + 1) .. n
      BY <1>4, <2>4
    <2>6. loc[p].id = u + 1
      BY <1>2, <2>3, <2>5 DEF Flying
    <2>7. loc[p].oldTail = End(placed, u)
      BY <2>4, <2>5, <2>6
    <2> QED
      BY <1>2, <2>1, <2>7 DEF Order
  <1>14. ASSUME NEW c \in Consumers, ConsumerStep(c)
         PROVE  loc'[p].oldTail = validDataTail'
    <2>1. c # p
      BY <1>6
    <2>2. ~ResumeRemove(c) /\ ~WakeNextConsumer(c)
      BY <1>3 DEF Consuming, ResumeRemove, WakeNextConsumer
    <2>3. CASE WaitForData(c) \/ DataArrived(c) \/ NothingToDequeue(c) \/ WaitToRemove(c)
      BY <1>5, <1>6, <1>7, <2>1, <2>3
      DEF WaitForData, DataArrived, NothingToDequeue, WaitToRemove, ring
    <2>4. CASE Dequeue(c)
      <3>1. \E off, s, newHead : TakeAt(c, off, s, newHead)
        BY <2>4 DEF Dequeue
      <3> QED
        BY <1>5, <1>6, <1>7, <2>1, <3>1 DEF TakeAt
    <2>5. CASE Remove(c)
      <3>1. waitersForHeadPropogation = 0
        BY <1>3 DEF Consuming
      <3>2. pcQ' = [pcQ EXCEPT ![c] = "dequeue"] /\ loc' = [loc EXCEPT ![c] = NoLocals]
            /\ waitOn' = waitOn /\ validDataTail' = validDataTail
        BY <2>5, <3>1 DEF Remove, AdvanceHead
      <3> QED
        BY <1>5, <1>6, <1>7, <2>1, <3>2
    <2> QED
      BY <1>14, <2>2, <2>3, <2>4, <2>5 DEF ConsumerStep
  <1> QED
    BY <1>8, <1>9, <1>10, <1>11, <1>12, <1>13, <1>14 DEF RingNext, Enqueue, ProducerStep

(* What the invariant says of the entries in the ring.                     *)
LEMMA IntactFromIInv ==
  ASSUME OneConsumer, IInv
  PROVE  RingIntact
  <1>1. PICK w \in 0 .. n : Ring(w) /\ Headers(w)
    BY DEF IInv
  <1>2. PICK u \in 0 .. n : Order(u) /\ Flying(u)
    BY DEF IInv
  <1>3. RingTypeOK /\ Data /\ Consuming
    BY DEF IInv
  <1>4. /\ placed \in Placements /\ n \in Nat /\ n \in 0 .. MaxEntries /\ taken \in Nat
        /\ head \in Nat /\ tail \in Nat
    BY <1>3, Types
  <1>5. /\ Gone \in Nat /\ Gone <= taken /\ taken <= u /\ u <= n /\ u \in Nat /\ Removed = Gone
        /\ taken - Gone \in {0, 1}
    BY <1>2, <1>3, <1>4, Bounds
  <1>6. Live = (Gone + 1) .. n
    BY <1>5 DEF Live
  <1>7. Layout(placed, head, tail, n, Gone, w)
    BY <1>1 DEF Ring
  <1>8. \A i \in Live : /\ End(placed, i) = placed[i].off + EntrySize(placed[i].size)
                        /\ End(placed, i) <= QueueSize
    <2> SUFFICES ASSUME NEW i \in Live
                 PROVE  /\ End(placed, i) = placed[i].off + EntrySize(placed[i].size)
                        /\ End(placed, i) <= QueueSize
      OBVIOUS
    <2>1. End(placed, i) = Off(placed, i) + HeaderSize + Size(placed, i)
          /\ End(placed, i) <= QueueSize
      BY <1>6, <1>7 DEF Layout, Regular
    <2>2. i \in Ids
      BY <1>4, <1>5, <1>6, QueueAssumption DEF Ids
    <2>3. Off(placed, i) \in Nat /\ Size(placed, i) \in Nat
      BY <1>4, <2>2, PlacedTypes
    <2> QED
      BY <2>1, <2>3, QueueAssumption DEF EntrySize, Off, Size
  <1>9. RegionsDisjoint
    <2>1. \A i, j \in Live : i # j => \/ End(placed, i) <= placed[j].off
                                      \/ End(placed, j) <= placed[i].off
      BY <1>4, <1>6, <1>7, PlacesApart DEF Off
    <2> QED
      BY <1>8, <2>1 DEF RegionsDisjoint
  <1>10. InPlaceIntact
    <2> SUFFICES ASSUME NEW i \in Ready
                 PROVE  Named(placed, hdr, i) /\ Filled(placed, cells, i)
      BY Zenon DEF InPlaceIntact, Named, Filled, Off, Size
    <2>1. i \in (Gone + 1) .. n /\ \A p \in InFlight : loc[p].id # i
      BY <1>6 DEF Ready
    <2>2. \A p \in Producers : pcQ[p] = "copy" => loc[p].id # i
      BY <2>1 DEF InFlight
    <2> QED
      BY <1>1, <1>3, <2>1, <2>2 DEF Headers, Data
  <1>11. ConsumersHoldEntries
    <2> SUFFICES ASSUME NEW c \in Holders
                 PROVE  /\ loc[c].id \in Ready
                        /\ loc[c].entry = placed[loc[c].id].off
                        /\ loc[c].size = placed[loc[c].id].size
      BY DEF ConsumersHoldEntries
    <2>1. HoldsTaken(c)
      BY <1>3 DEF Holders, Consuming
    <2>2. Gone = taken - 1 /\ 0 < taken
      BY <2>1 DEF Gone, HoldsTaken
    <2>3. taken \in Live
      BY <1>4, <1>5, <1>6, <2>2
    <2>4. \A p \in InFlight : loc[p].id # taken
      BY <1>2, <1>4, <1>5 DEF Flying
    <2> QED
      BY <2>1, <2>3, <2>4 DEF HoldsTaken, Ready, Off, Size
  <1>12. EmptyAcceptsHalf
    <2> SUFFICES ASSUME head = tail, NEW s \in DataSizes, 2 * EntrySize(s) <= QueueSize
                 PROVE  ~Full(s)
      BY DEF EmptyAcceptsHalf
    <2>1. EntrySize(s) \in Nat
      BY QueueAssumption DEF EntrySize
    <2>2. CASE tail + EntrySize(s) <= QueueSize
      BY <1>4, <2>2 DEF Full, FitsAtEnd
    <2>3. CASE tail + EntrySize(s) > QueueSize
      <3>1. head > EntrySize(s)
        BY <1>4, <2>1, <2>3, QueueAssumption
      <3> QED
        BY <1>4, <2>3, <3>1 DEF Full, Wraps
    <2> QED
      BY <1>4, <2>1, <2>2, <2>3, QueueAssumption
  <1> QED
    BY <1>3, <1>9, <1>10, <1>11, <1>12 DEF RingIntact

(* The invariant holds until a producer publishes before its turn.         *)
LEMMA IInvAlways ==
  ASSUME OneConsumer
  PROVE  RingSpec => [](overtaken \/ IInv)
  <1>1. RingInit => IInv
    BY InitIInv
  <1>2. IInv /\ [RingNext]_ringVars /\ ~overtaken' => IInv'
    BY Inductive
  <1>3. overtaken /\ [RingNext]_ringVars => overtaken'
    BY OvertakenStays
  <1> QED
    BY <1>1, <1>2, <1>3, PTL DEF RingSpec

(* For any number of producers: until one publishes before its turn,       *)
(* entries never overlap, what is handed out in place is what was sent and *)
(* stays so until it is removed, and an empty ring has room again          *)
(* (enqueueScatterGather, dequeueDataInPlace, removeEntry).                *)
THEOREM IntactUntilOvertaken ==
  ASSUME OneConsumer
  PROVE  RingSpec => [](overtaken \/ RingIntact)
  <1>1. IInv => RingIntact
    BY IntactFromIInv
  <1> QED
    BY <1>1, IInvAlways, PTL

(* Likewise no producer whose entry follows in place sleeps when its turn  *)
(* has come, nor the consumer when there is data, unless its wake-up is    *)
(* under way (enqueueScatterGather, waitForData).                          *)
THEOREM AwakeUntilOvertaken ==
  ASSUME OneConsumer
  PROVE  RingSpec => [](overtaken \/ NobodySleepsOver)
  <1>1. IInv => NobodySleepsOver
    BY DEF IInv, NobodySleepsOver
  <1> QED
    BY <1>1, IInvAlways, PTL

(* Of two producers none publishes before its turn, as the runs suppose    *)
(* that check the ring without a condition.                                *)
THEOREM TwoInTurn ==
  ASSUME OneConsumer, TwoProducers
  PROVE  RingSpec => []~overtaken
  <1> DEFINE J == IInv /\ ResumesInOrder /\ ~overtaken
  <1>1. RingInit => J
    BY InitIInv DEF RingInit, ResumesInOrder, Threads
  <1>2. J /\ [RingNext]_ringVars => J'
    <2> SUFFICES ASSUME J, [RingNext]_ringVars PROVE J'
      OBVIOUS
    <2>1. ~overtaken'
      BY OvertakenOutOfTurn
    <2> QED
      BY <2>1, Inductive, TurnsKept
  <1> QED
    BY <1>1, <1>2, PTL DEF RingSpec

(* What the channel sees of the ring: how many entries are published, and  *)
(* which are handed out.                                                   *)
PublishedCount == Cardinality({i \in 1 .. n : \A p \in InFlight : loc[p].id > i})
HeldEntries == {loc[c].id : c \in Holders}

(* The view, in the terms of the invariant.                                *)
ViewOfRing ==
  /\ PublishedCount \in 0 .. n /\ taken \in 0 .. PublishedCount
  /\ validDataHead = End(placed, taken)
  /\ validDataTail = End(placed, PublishedCount)
  /\ Gone \in 0 .. PublishedCount /\ n \in Nat
  /\ HeldEntries = IF Holders = {} THEN {} ELSE {taken}

(* The invariant gives the view.                                           *)
LEMMA View == OneConsumer /\ IInv => ViewOfRing
  <1> SUFFICES ASSUME OneConsumer, IInv PROVE ViewOfRing
    OBVIOUS
  <1>1. PICK u \in 0 .. n : Order(u) /\ Flying(u)
    BY DEF IInv
  <1>2. RingTypeOK /\ Consuming
    BY DEF IInv
  <1>3. n \in Nat /\ u \in Nat /\ u <= n /\ \A t \in Producers : t \in Threads
    BY <1>2, Types
  <1>4. {i \in 1 .. n : \A p \in InFlight : loc[p].id > i} = 1 .. u
    <2>1. ASSUME NEW i \in 1 .. n, NEW p \in InFlight, i \in 1 .. u PROVE loc[p].id > i
      <3>1. loc[p].id \in (u + 1) .. n
        BY <1>1 DEF Flying
      <3> QED
        BY <1>3, <2>1, <3>1
    <2>2. ASSUME NEW i \in 1 .. n, i \notin 1 .. u PROVE \E p \in InFlight : ~(loc[p].id > i)
      <3>1. i \in (u + 1) .. n
        BY <1>3, <2>2
      <3>2. PICK p \in InFlight : loc[p].id = i
        BY <1>1, <3>1 DEF Flying
      <3> QED
        BY <3>2
    <2>3. \A i \in 1 .. u : i \in 1 .. n
      BY <1>3
    <2> QED
      BY <2>1, <2>2, <2>3
  <1>5. PublishedCount = u
    <2>1. Cardinality(1 .. u) = IF 1 > u THEN 0 ELSE u - 1 + 1
      BY <1>3, FS_Interval
    <2> QED
      <3>1. PublishedCount = Cardinality(1 .. u)
        BY <1>4, Zenon DEF PublishedCount
      <3> QED
        BY <1>3, <2>1, <3>1
  <1>6. HeldEntries = IF Holders = {} THEN {} ELSE {taken}
    <2>1. \A c \in Holders : loc[c].id = taken
      BY <1>2 DEF Holders, Consuming, HoldsTaken
    <2> QED
      BY <2>1 DEF HeldEntries
  <1>7. Gone \in 0 .. u
    BY <1>1, <1>2, <1>3, Bounds, Types
  <1> QED
    BY <1>1, <1>3, <1>5, <1>6, <1>7 DEF Order, ViewOfRing

(* The tail of the published entries tells how many they are.              *)
TailTells ==
  \A u \in 0 .. n : Gone <= u /\ validDataTail = End(placed, u) => PublishedCount = u

(* For no two entries in the ring end at the same place.                   *)
LEMMA SameTail == OneConsumer /\ IInv => TailTells
  <1> SUFFICES ASSUME OneConsumer, IInv, NEW u \in 0 .. n, Gone <= u,
                      validDataTail = End(placed, u)
               PROVE  PublishedCount = u
    BY DEF TailTells
  <1>1. PICK w \in 0 .. n : Ring(w)
    BY DEF IInv
  <1>2. placed \in Placements /\ n \in Nat /\ n \in 0 .. MaxEntries
    BY Types DEF IInv
  <1>3. /\ PublishedCount \in 0 .. n /\ Gone \in 0 .. PublishedCount
        /\ validDataTail = End(placed, PublishedCount)
    BY View DEF ViewOfRing
  <1>4. u \in Gone .. n /\ PublishedCount \in Gone .. n
    BY <1>2, <1>3
  <1> QED
    BY <1>1, <1>2, <1>3, <1>4, EndsSame DEF Ring

(* The steps of the channel, by what they change of the view.              *)
ChannelStep ==
  \/ /\ n' = n + 1 /\ PublishedCount' = PublishedCount
     /\ taken' = taken /\ HeldEntries' = HeldEntries
  \/ /\ PublishedCount < n /\ PublishedCount' = PublishedCount + 1
     /\ n' = n /\ taken' = taken /\ HeldEntries' = HeldEntries
  \/ /\ taken < PublishedCount /\ taken' = taken + 1
     /\ HeldEntries' = HeldEntries \cup {taken + 1}
     /\ n' = n /\ PublishedCount' = PublishedCount
  \/ /\ \E e \in HeldEntries : HeldEntries' = HeldEntries \ {e}
     /\ n' = n /\ PublishedCount' = PublishedCount /\ taken' = taken
  \/ /\ n' = n /\ PublishedCount' = PublishedCount /\ taken' = taken
     /\ HeldEntries' = HeldEntries

(* Each step of the ring is one of the channel's, or changes nothing the   *)
(* channel sees.                                                           *)
LEMMA StepsOfChannel ==
  ASSUME OneConsumer, IInv, IInv', ViewOfRing', TailTells', [RingNext]_ringVars
  PROVE  ChannelStep
  <1>1. /\ PublishedCount \in 0 .. n /\ taken \in 0 .. PublishedCount
        /\ validDataHead = End(placed, taken)
        /\ validDataTail = End(placed, PublishedCount)
        /\ Gone \in 0 .. PublishedCount /\ n \in Nat
        /\ HeldEntries = IF Holders = {} THEN {} ELSE {taken}
    BY View DEF ViewOfRing
  <1>2. /\ PublishedCount' \in 0 .. n' /\ taken' \in 0 .. PublishedCount'
        /\ validDataHead' = End(placed', taken')
        /\ validDataTail' = End(placed', PublishedCount')
        /\ Gone' \in 0 .. PublishedCount' /\ n' \in Nat
        /\ HeldEntries' = IF Holders' = {} THEN {} ELSE {taken'}
    BY DEF ViewOfRing
  <1>3. ASSUME NEW u \in 0 .. n', Gone' <= u, validDataTail' = End(placed', u)
        PROVE  PublishedCount' = u
    BY <1>3 DEF TailTells
  <1>4. RingTypeOK /\ Consuming /\ Sleeping
    BY DEF IInv
  <1>5. /\ \A x \in Producers : x \in Threads /\ x \notin Consumers
        /\ \A x \in Consumers : x \in Threads /\ x \notin Producers
        /\ placed \in Placements
    BY <1>4, Types
  <1>6. pcQ \in [Threads -> ThreadStates]
    BY <1>4 DEF RingTypeOK
  <1>7. ASSUME UNCHANGED << n, taken, placed, validDataTail >>, Holders' = Holders
        PROVE  ChannelStep
    <2>1. Gone' = Gone
      BY <1>7 DEF Gone
    <2>2. PublishedCount' = PublishedCount
      BY <1>1, <1>3, <1>7, <2>1
    <2> QED
      BY <1>1, <1>2, <1>7, <2>2 DEF ChannelStep
  <1>8. CASE UNCHANGED ringVars
    BY <1>7, <1>8 DEF ringVars, ring, history, Holders
  <1>9. ASSUME NEW p \in Producers, NEW s \in DataSizes, ReserveAtTail(p, s) \/ ReserveWrapped(p, s)
        PROVE  ChannelStep
    <2>1. \E off \in Nat, newTail \in Nat, tramps \in {{}, Trampolines(tail)} :
            Place(p, s, off, newTail, tramps) /\ newTail = off + EntrySize(s)
      BY <1>4, <1>9, Types, QueueAssumption DEF ReserveAtTail, ReserveWrapped, EntrySize
    <2>2. /\ n' = n + 1 /\ taken' = taken /\ validDataTail' = validDataTail
          /\ pcQ' = [pcQ EXCEPT ![p] = "copy"]
          /\ \E new : placed' = [placed EXCEPT ![n + 1] = new]
      BY <2>1 DEF Place
    <2>3. Holders' = Holders
      BY <1>5, <1>6, <2>2 DEF Holders
    <2>4. Gone' = Gone
      BY <2>2, <2>3 DEF Gone
    <2>5. End(placed', PublishedCount) = End(placed, PublishedCount)
      <3>1. \A i \in 1 .. n : placed'[i] = placed[i]
        <4>1. \A i \in 1 .. n : i \in Ids /\ i # n + 1
          BY <1>4, Types, QueueAssumption DEF Ids
        <4> QED
          BY <1>5, <2>2, <4>1 DEF Placements
      <3>2. PublishedCount = 0 \/ PublishedCount \in 1 .. n
        BY <1>1
      <3> QED
        BY <3>1, <3>2 DEF End
    <2>6. PublishedCount' = PublishedCount
      BY <1>1, <1>3, <2>2, <2>4, <2>5
    <2> QED
      BY <1>1, <1>2, <2>2, <2>3, <2>6 DEF ChannelStep
  <1>10. ASSUME NEW p \in Producers,
                \/ \E s \in DataSizes : Reject(p, s)
                \/ Copy(p) \/ BackOff(p) \/ WakeNextProducer(p) \/ NotifyThreads(p)
                \/ ReturnRejected(p)
         PROVE  ChannelStep
    <2>1. UNCHANGED << n, taken, placed, validDataTail >>
      BY <1>10
      DEF Reject, Copy, BackOff, WakeNextProducer, NotifyThreads, ReturnRejected, ring, history
    <2>2. \A x \in Consumers : pcQ'[x] = pcQ[x]
      BY <1>5, <1>6, <1>10
      DEF Reject, Copy, BackOff, WakeNextProducer, NotifyThreads, ReturnRejected
    <2> QED
      BY <1>7, <2>1, <2>2 DEF Holders
  <1>11. ASSUME NEW p \in Producers, Publish(p) \/ ResumePublish(p)
         PROVE  ChannelStep
    <2>1. UNCHANGED << n, taken, placed, loc >>
      BY <1>11 DEF Publish, ResumePublish, PropagateTail, history
    <2>2. /\ \A x \in Threads : x # p => pcQ'[x] = pcQ[x]
          /\ pcQ'[p] \in {"wakeNext", "sent"} /\ p \in InFlight
      BY <1>5, <1>6, <1>11 DEF Publish, ResumePublish, PropagateTail, InFlight
    <2>3. Holders' = Holders /\ InFlight' = InFlight \ {p}
      BY <1>5, <2>2 DEF Holders, InFlight
    <2>4. PICK u \in 0 .. n : Order(u) /\ Flying(u)
      BY DEF IInv
    <2>5. PICK v \in 0 .. n' : Order(v)' /\ Flying(v)'
      BY DEF IInv
    <2>6. Gone' = Gone /\ Gone <= u /\ Gone <= v
      <3>1. Gone' = Gone
        BY <2>1, <2>3 DEF Gone
      <3>2. Gone \in 0 .. taken /\ taken \in 0 .. u /\ taken \in 0 .. v /\ taken \in Nat
        BY <1>4, <2>1, <2>4, <2>5, Bounds, Types DEF Order
      <3> QED
        BY <1>1, <2>1, <3>1, <3>2
    <2>7. PublishedCount = u /\ PublishedCount' = v
      BY <1>3, <2>4, <2>5, <2>6, SameTail DEF Order, TailTells
    <2>8. v = u + 1
      <3>1. \A x \in InFlight : x # p => loc[x].id # loc[p].id
        BY <2>2, <2>4 DEF Flying
      <3>2. loc[p].id \in (u + 1) .. n
        BY <2>2, <2>4 DEF Flying
      <3>3. \A i \in (v + 1) .. n : \E x \in InFlight : x # p /\ loc[x].id = i
        BY <2>1, <2>3, <2>5 DEF Flying
      <3>4. \A x \in InFlight : x # p => loc[x].id \in (v + 1) .. n
        BY <2>1, <2>3, <2>5 DEF Flying
      <3>5. ~(loc[p].id \in (v + 1) .. n)
        BY <3>1, <3>3
      <3>6. ASSUME NEW i \in (u + 1) .. n, i # loc[p].id PROVE i \in (v + 1) .. n
        BY <2>4, <3>4, <3>6 DEF Flying
      <3>7. ASSUME NEW i \in (v + 1) .. n PROVE i \in (u + 1) .. n /\ i # loc[p].id
        BY <2>4, <3>3, <3>5 DEF Flying
      <3>8. u \in Nat /\ v \in Nat /\ v <= n /\ u <= n /\ n \in Nat /\ loc[p].id \in Nat
        BY <1>1, <2>1, <3>2
      <3>9. loc[p].id <= v
        BY <3>2, <3>5, <3>8
      <3>10. u < v
        BY <3>2, <3>8, <3>9
      <3>11. ~(u + 1 < v)
        <4> SUFFICES ASSUME u + 1 < v PROVE FALSE
          OBVIOUS
        <4>1. v \in (u + 1) .. n /\ v - 1 \in (u + 1) .. n
          BY <3>8
        <4>2. v = loc[p].id /\ v - 1 = loc[p].id
          BY <3>6, <3>8, <4>1
        <4> QED
          BY <3>8, <4>2
      <3> QED
        BY <3>8, <3>10, <3>11
    <2> QED
      BY <1>1, <1>2, <2>1, <2>3, <2>7, <2>8 DEF ChannelStep
  <1>12. ASSUME NEW c \in Consumers, WaitForData(c) \/ DataArrived(c) \/ NothingToDequeue(c)
         PROVE  ChannelStep
    <2>1. UNCHANGED << n, taken, placed, validDataTail >>
      BY <1>12 DEF WaitForData, DataArrived, NothingToDequeue, ring, history
    <2>2. Holders' = Holders
      BY <1>5, <1>6, <1>12 DEF WaitForData, DataArrived, NothingToDequeue, Holders
    <2> QED
      BY <1>7, <2>1, <2>2
  <1>13. ASSUME NEW c \in Consumers, Dequeue(c)
         PROVE  ChannelStep
    <2>1. \E off, s, newHead : TakeAt(c, off, s, newHead)
      BY <1>13 DEF Dequeue
    <2>2. pcQ[c] = "dequeue" /\ validDataHead # validDataTail
      BY <1>13 DEF Dequeue
    <2>3. /\ taken' = taken + 1 /\ UNCHANGED << n, placed, validDataTail >>
          /\ pcQ' = [pcQ EXCEPT ![c] = "holding"]
      BY <2>1 DEF TakeAt
    <2>4. Holders = {}
      BY <2>2 DEF Holders, OneConsumer
    <2>5. Holders' # {}
      BY <1>5, <1>6, <2>3 DEF Holders
    <2>6. Gone' = Gone
      BY <1>1, <2>3, <2>4, <2>5 DEF Gone
    <2>7. PublishedCount' = PublishedCount
      BY <1>1, <1>3, <2>3, <2>6
    <2>8. taken < PublishedCount
      BY <1>1, <2>2
    <2> QED
      BY <1>1, <1>2, <2>3, <2>4, <2>5, <2>7, <2>8 DEF ChannelStep
  <1>14. ASSUME NEW c \in Consumers, Remove(c)
         PROVE  ChannelStep
    <2>1. waitersForHeadPropogation = 0 /\ pcQ[c] = "holding"
      BY <1>4, <1>14 DEF Consuming, Remove
    <2>2. /\ UNCHANGED << n, taken, placed, validDataTail >>
          /\ pcQ' = [pcQ EXCEPT ![c] = "dequeue"]
      BY <1>14, <2>1 DEF Remove, AdvanceHead, history
    <2>3. Holders # {}
      BY <2>1 DEF Holders
    <2>4. Holders' = {}
      BY <1>5, <1>6, <2>2 DEF Holders, OneConsumer
    <2>5. Gone' = taken
      BY <2>2, <2>4 DEF Gone
    <2>6. PublishedCount' = PublishedCount
      BY <1>1, <1>3, <2>2, <2>5
    <2> QED
      BY <1>1, <1>2, <2>2, <2>3, <2>4, <2>6 DEF ChannelStep
  <1>15. ASSUME NEW c \in Consumers, WaitToRemove(c) \/ ResumeRemove(c) \/ WakeNextConsumer(c)
         PROVE  ChannelStep
    <2>1. ~ResumeRemove(c) /\ ~WakeNextConsumer(c)
      BY <1>4 DEF Consuming, ResumeRemove, WakeNextConsumer
    <2>2. FALSE
      <3>1. pcQ'[c] = "waitHead"
        BY <1>5, <1>6, <1>15, <2>1 DEF WaitToRemove
      <3> QED
        BY <3>1 DEF IInv, Consuming
    <2> QED
      BY <2>2
  <1> QED
    BY <1>8, <1>9, <1>10, <1>11, <1>12, <1>13, <1>14, <1>15
    DEF RingNext, Enqueue, ProducerStep, ConsumerStep

(* The queue is a FIFO channel: entries are published in the order of      *)
(* their reservations and handed out in that order, each once, whichever   *)
(* way the ring wraps, until a producer publishes before its turn.         *)
THEOREM RingIsFifo ==
  ASSUME OneConsumer
  PROVE  RingSpec => FifoUntilOvertaken
  <1>1. RingInit => Channel!Init
    <2> SUFFICES ASSUME RingInit PROVE Channel!Init
      OBVIOUS
    <2>1. IInv
      BY InitIInv
    <2>2. n = 0 /\ taken = 0 /\ Holders = {}
      BY DEF RingInit, Holders, Threads
    <2>3. PublishedCount = 0 /\ HeldEntries = {}
      BY <2>1, <2>2, View DEF ViewOfRing
    <2> QED
      BY <2>2, <2>3 DEF Channel!Init, PublishedCount, HeldEntries
  <1>2. ChannelStep => [Channel!Next]_(Channel!vars)
    BY DEF ChannelStep, Channel!Next, Channel!Reserve, Channel!Publish, Channel!HandOut,
           Channel!Release, Channel!vars, PublishedCount, HeldEntries
  <1>3. IInv /\ IInv' /\ ViewOfRing' /\ TailTells' /\ [RingNext]_ringVars
          => [Channel!Next]_(Channel!vars)
    BY <1>2, StepsOfChannel
  <1>4. IInv => ViewOfRing /\ TailTells
    BY View, SameTail
  <1>5. IInv' => ViewOfRing' /\ TailTells'
    BY <1>4, PTL
  <1>6. overtaken /\ [RingNext]_ringVars => overtaken'
    BY OvertakenStays
  <1>7. (overtaken \/ IInv) /\ (overtaken \/ IInv)' /\ [RingNext]_ringVars
          => [overtaken' \/ Channel!Next]_(Channel!vars)
    BY <1>3, <1>5, <1>6
  <1> QED
    BY <1>1, <1>7, IInvAlways, PTL DEF RingSpec, FifoUntilOvertaken

=============================================================================
