---------------------------- MODULE FreeChunks ----------------------------
(***************************************************************************)
(* DldSparseFile: the chunks of the data file of an isolated file.         *)
(*                                                                         *)
(* A chunk holds a B-tree node or data.  It is taken from a list of free   *)
(* chunks or, when there is none, from the end of the used part of the     *)
(* file, the break.  The list is kept in descriptors: the first one is in  *)
(* memory, the others in free chunks of the file, linked by offsets.  The  *)
(* lock of the file is held over each operation, so that each is one       *)
(* action; every read, write, allocation and expansion may fail.  When the *)
(* object of the file is freed the descriptor and the header are written,  *)
(* and the file may be opened again later.                                 *)
(*                                                                         *)
(* An offset counts chunks; the header is chunk 0.  An operator that       *)
(* stands before a definition and has its name with a word more is that    *)
(* definition with a plausible mistake; the properties are tried on them.  *)
(***************************************************************************)
EXTENDS Integers, Sequences

CONSTANTS
  Capacity,   (* sFreeChunksArrayCapacity                                  *)
  MaxSize     (* bound: the volume of the file is full beyond              *)

ASSUME ChunksAssumption == Capacity \in Nat \ {0, 1} /\ MaxSize \in Nat \ {0, 1, 2}

InvalidOffset == -1
Offsets == 0 .. MaxSize
Data == [kind |-> "data"]
NoDescriptor == [kind |-> "none"]
Descriptor(entries, flink) == [kind |-> "free", entries |-> entries, flink |-> flink]
Header(break, chunk) == [break |-> break, first |-> chunk]

VARIABLES
  opened,       (* there is an object for the file                         *)
  breakOffset, fileSize, firstFreeChunk,
  descriptor,   (* *freeChunksDescriptor, the one in memory                *)
  disk,         (* what was last written to each chunk                     *)
  header,       (* what was last written to the header                     *)
  used,         (* the chunks that hold a node or data                     *)
  chain,        (* history: the offsets of the descriptors, the first last *)
  sound         (* history: the file was not opened with a header that was *)
                (* not up to date or that had a list of free chunks        *)

memory == << breakOffset, firstFreeChunk, descriptor >>
vars == << opened, memory, fileSize, disk, header, used, chain, sound >>

Front(s) == SubSeq(s, 1, Len(s) - 1)
Final(s) == s[Len(s)]

----------------------------------------------------------------------------
(* allocateChunkFromDataFile *)

Expanded(size) == size + (IF size \div 2 < 1 THEN 1 ELSE size \div 2)

(* The file may be opened again without its list of free chunks (see       *)
(* OpenWithFreeChunks) or with an old header; what goes on in it then is   *)
(* not followed.                                                           *)
Works == opened /\ sound

(* The break is moved, after the file was expanded if it ends there.       *)
TakeFromPoolUnmoved ==
  \/ breakOffset <= fileSize - 1 /\ breakOffset' = breakOffset + 1 /\ UNCHANGED fileSize
  \/ /\ breakOffset > fileSize - 1 /\ fileSize' = Expanded(fileSize) /\ fileSize' <= MaxSize
     /\ UNCHANGED breakOffset
TakeFromPool ==
  /\ \/ breakOffset <= fileSize - 1 /\ UNCHANGED fileSize
     \/ breakOffset > fileSize - 1 /\ fileSize' = Expanded(fileSize) /\ fileSize' <= MaxSize
  /\ breakOffset' = breakOffset + 1

(* Whoever gets a chunk writes to it.                                      *)
HandOut(c) == used' = used \cup {c} /\ disk' = [disk EXCEPT ![c] = Data]

AllocateFromPool ==
  /\ Works /\ descriptor = NoDescriptor
  /\ TakeFromPool
  /\ HandOut(breakOffset)
  /\ UNCHANGED << opened, firstFreeChunk, descriptor, header, chain, sound >>

(* The chunk that backs a descriptor that has become empty is not returned *)
(* to anybody; neither is the rest of the list if it cannot be read.       *)
NextDescriptor ==
  \/ /\ descriptor.flink # InvalidOffset
     /\ firstFreeChunk' = descriptor.flink /\ descriptor' = disk[descriptor.flink]
     /\ chain' = Front(chain)
  \/ /\ firstFreeChunk' = InvalidOffset /\ descriptor' = NoDescriptor /\ chain' = << >>

AllocateFromList ==
  /\ Works /\ descriptor # NoDescriptor
  /\ HandOut(Final(descriptor.entries))
  /\ IF Len(descriptor.entries) = 1
     THEN NextDescriptor
     ELSE /\ descriptor' = [descriptor EXCEPT !.entries = Front(@)]
          /\ UNCHANGED << firstFreeChunk, chain >>
  /\ UNCHANGED << opened, breakOffset, fileSize, header, sound >>

----------------------------------------------------------------------------
(* returnChunkToFreeList *)

ReturnToPool(c) ==
  /\ breakOffset = c + 1
  /\ breakOffset' = c
  /\ UNCHANGED << firstFreeChunk, descriptor, fileSize, disk, chain >>

ReturnToDescriptor(c) ==
  /\ breakOffset # c + 1 /\ descriptor # NoDescriptor
  /\ Len(descriptor.entries) < Capacity
  /\ descriptor' = [descriptor EXCEPT !.entries = Append(@, c)]
  /\ UNCHANGED << breakOffset, firstFreeChunk, fileSize, disk, chain >>

(* The last entry of a full descriptor is borrowed for a new one, and lost *)
(* together with c if the full one cannot be written.                      *)
Borrowed == Final(descriptor.entries)
ReturnToNewDescriptor(c) ==
  /\ breakOffset # c + 1 /\ descriptor # NoDescriptor
  /\ Len(descriptor.entries) = Capacity
  /\ LET full == [descriptor EXCEPT !.entries = Front(@)] IN
     \/ /\ disk' = [disk EXCEPT ![firstFreeChunk] = full]
        /\ firstFreeChunk' = Borrowed
        /\ descriptor' = Descriptor(<< c >>, firstFreeChunk)
        /\ chain' = Append(chain, Borrowed)
     \/ descriptor' = full /\ UNCHANGED << disk, firstFreeChunk, chain >>
  /\ UNCHANGED << breakOffset, fileSize >>

(* The first descriptor takes a chunk of its own from the pool; without    *)
(* memory for it that chunk goes back, and c is lost.                      *)
ReturnToFirstDescriptor(c) ==
  /\ breakOffset # c + 1 /\ descriptor = NoDescriptor
  /\ TakeFromPool
  /\ firstFreeChunk' = breakOffset
  /\ descriptor' = Descriptor(<< c >>, InvalidOffset)
  /\ chain' = << breakOffset >>
  /\ UNCHANGED disk
ReturnWithoutMemory(c) ==
  /\ breakOffset # c + 1 /\ descriptor = NoDescriptor
  /\ \/ UNCHANGED fileSize
     \/ breakOffset > fileSize - 1 /\ fileSize' = Expanded(fileSize) /\ fileSize' <= MaxSize
  /\ UNCHANGED << memory, disk, chain >>

Return(c) ==
  /\ Works /\ c \in used
  /\ \/ ReturnToPool(c) \/ ReturnToDescriptor(c) \/ ReturnToNewDescriptor(c)
     \/ ReturnToFirstDescriptor(c) \/ ReturnWithoutMemory(c)
  /\ used' = used \ {c}
  /\ UNCHANGED << opened, header, sound >>

----------------------------------------------------------------------------
(* free and createDataFileByName *)

(* The descriptor and the header are written; each write may fail.         *)
Free ==
  /\ Works /\ opened' = FALSE
  /\ \/ /\ descriptor # NoDescriptor
        /\ disk' = [disk EXCEPT ![firstFreeChunk] = descriptor]
        /\ UNCHANGED << firstFreeChunk, chain >>
     \/ /\ descriptor # NoDescriptor
        /\ firstFreeChunk' = descriptor.flink /\ chain' = Front(chain)
        /\ UNCHANGED disk
     \/ descriptor = NoDescriptor /\ UNCHANGED << firstFreeChunk, chain, disk >>
  /\ header' \in {Header(breakOffset, firstFreeChunk'), header}
  /\ descriptor' = NoDescriptor
  /\ UNCHANGED << breakOffset, fileSize, used, sound >>

(* Without a free chunk the header has all that is needed.                 *)
Open ==
  /\ ~opened /\ opened' = TRUE
  /\ header.first = InvalidOffset
  /\ breakOffset' = header.break /\ firstFreeChunk' = InvalidOffset
  /\ descriptor' = NoDescriptor /\ chain' = << >>
  /\ sound' = (sound /\ header = Header(breakOffset, firstFreeChunk))
  /\ UNCHANGED << fileSize, disk, header, used >>

(* With free chunks the first descriptor is read over the header that the  *)
(* other fields are then taken from, while the memory for the descriptor   *)
(* keeps what was in it, and firstFreeChunk what it was set to before.     *)
OpenWithFreeChunks ==
  /\ ~opened /\ opened' = TRUE
  /\ header.first # InvalidOffset
  /\ breakOffset' \in 0 .. fileSize /\ firstFreeChunk' = InvalidOffset
  /\ \E entry \in Offsets : descriptor' = Descriptor(<< entry >>, InvalidOffset)
  /\ chain' = << >> /\ sound' = FALSE
  /\ UNCHANGED << fileSize, disk, header, used >>

(* A descriptor that cannot be read: the file is made anew, and what is in *)
(* the memory for it stays.                                                *)
RecreateWithDescriptor ==
  /\ ~opened /\ opened' = TRUE
  /\ header.first # InvalidOffset
  /\ fileSize' = 3 /\ breakOffset' = 1 /\ firstFreeChunk' = InvalidOffset
  /\ \E entry \in Offsets : descriptor' = Descriptor(<< entry >>, InvalidOffset)
  /\ header' = Header(1, InvalidOffset)
  /\ used' = {} /\ chain' = << >> /\ sound' = FALSE
  /\ UNCHANGED disk

(* A header that cannot be read: the file is made anew.                    *)
Recreate ==
  /\ ~opened /\ opened' = TRUE
  /\ fileSize' = 3 /\ breakOffset' = 1 /\ firstFreeChunk' = InvalidOffset
  /\ descriptor' = NoDescriptor /\ chain' = << >>
  /\ header' = Header(1, InvalidOffset)
  /\ used' = {} /\ sound' = TRUE
  /\ UNCHANGED disk

----------------------------------------------------------------------------
Init ==
  /\ opened = TRUE /\ fileSize = 3 /\ breakOffset = 1
  /\ firstFreeChunk = InvalidOffset /\ descriptor = NoDescriptor
  /\ disk = [c \in Offsets |-> Data] /\ header = Header(1, InvalidOffset)
  /\ used = {} /\ chain = << >> /\ sound = TRUE

Next ==
  \/ AllocateFromPool \/ AllocateFromList
  \/ \E c \in used : Return(c)
  \/ Free \/ Open \/ OpenWithFreeChunks \/ RecreateWithDescriptor \/ Recreate

Spec == Init /\ [][Next]_vars

----------------------------------------------------------------------------
(* Properties *)

(* The chunk that the next allocation takes.                               *)
Offered == IF descriptor = NoDescriptor THEN breakOffset ELSE Final(descriptor.entries)

(* No chunk is handed out while somebody has it, and the descriptors are   *)
(* never written over a chunk that holds a node or data, whichever reads,  *)
(* expansions and writes of descriptors have failed - until the file is    *)
(* opened again with a list of free chunks, which createDataFileByName     *)
(* does not restore, or with a header that could not be written when it    *)
(* was freed.  Then the chunks of nodes and data are handed out again.     *)
UsedOnce == Offered \notin used \cup {0} /\ firstFreeChunk \notin used \cup {0}
NoDoubleUse == sound /\ opened => UsedOnce

(* "the entire B-Tree and data structure must be preserved in the data     *)
(* file so it can be reopened" (flags.preserveDataFile): when the header   *)
(* was written, the next chunk that is handed out is not one that held a   *)
(* node or data when the file was freed.                                   *)
ReopenedAsClosed ==
  [][~opened /\ opened' /\ header' = header /\ header = Header(breakOffset, firstFreeChunk)
       => Offered' \notin used]_vars
=============================================================================
