---------------------------- MODULE CoveredFile ----------------------------
(***************************************************************************)
(* The isolation of a file on a removable disk (CAWL): the data written to *)
(* the covering vnode are kept in a sparse file until the service has seen *)
(* them, and the covered file only gets their size.                        *)
(*                                                                         *)
(* The hooks call DldCoveringFsd::processWrite, processRead and            *)
(* processPageout, which hold the lock of the covering vnode, and then     *)
(* DldSetUbcFileSize, which takes it again.  The original operations of    *)
(* the file system that get and set the size run without it.  What a       *)
(* thread does to the files while it holds the lock of the vnode is a      *)
(* step or, where another thread's purge could come between, two.          *)
(*                                                                         *)
(* Offsets count units, of which there are two in a block of the sparse    *)
(* file; the sparse file is the map from the numbers of its blocks to      *)
(* their data.  SparseTree and FreeChunks tell how it is kept.             *)
(***************************************************************************)
EXTENDS Integers, Sequences, FiniteSets

CONSTANTS
  Callers,   (* threads that call the hooks                                *)
  MaxUnits,  (* bound: units of the file                                   *)
  MaxCalls   (* bound: calls of the hooks                                  *)

ASSUME FileAssumption == MaxUnits \in Nat \ {0} /\ MaxCalls \in Nat

VARIABLES
  fileDataSize,   (* of the object of the covering vnode                   *)
  lock,           (* the threads that hold its lock; exclusively           *)
  sparse,         (* what performIO finds                                  *)
  covered,        (* the data of the covered file, which only gets longer  *)
                  (* and shorter                                           *)
  at,             (* where each thread is                                  *)
  calls,
  content,        (* history: what was last written to each unit, or Any   *)
  lost            (* history: the units whose data a wrong size has cut,   *)
                  (* left past the end or purged                           *)

fileVars == << fileDataSize, lock, sparse, covered, at, calls, content, lost >>

BlockSize == 2
Units == 0 .. MaxUnits - 1
Any == -1
Original == -2   (* what the file had before it was isolated *)
Leftover == -3   (* what a chunk had that was never written  *)
Idle == [place |-> "idle"]
Block(u) == u \div BlockSize
UnitsOf(b) == {u \in Units : Block(u) = b}
Least(a, b) == IF a < b THEN a ELSE b
Resized(s, n) == [i \in 1 .. n |-> IF i <= Len(s) THEN s[i] ELSE 0]
Seen(u) ==
  IF Block(u) \in DOMAIN sparse THEN sparse[Block(u)][u % BlockSize]
  ELSE IF u < Len(covered) THEN covered[u + 1] ELSE 0

SizeRight == fileDataSize = Len(covered)
Goes(p, where) == at' = [at EXCEPT ![p] = where]
Sizing(size, force) == [place |-> "sizing", size |-> size, force |-> force]

----------------------------------------------------------------------------
(* processWrite and processPageout *)

Begins(p) == at[p] = Idle /\ calls < MaxCalls /\ calls' = calls + 1

(* A write at the end starts at fileDataSize; the covered file is given    *)
(* the size that the write needs, which cuts it if fileDataSize was old.   *)
WriteBegins(p, offset, length, append) ==
  LET off == IF append THEN fileDataSize ELSE offset
      end == off + length
  IN
  /\ Begins(p) /\ lock = {} /\ end <= MaxUnits
  /\ lock' = {p}
  /\ IF end > fileDataSize
     THEN /\ covered' = Resized(covered, end)
          /\ lost' = lost \cup {u \in Units : end <= u /\ u < Len(covered)}
     ELSE UNCHANGED << covered, lost >>
  /\ Goes(p, [place |-> "rwData", off |-> off, length |-> length, from |-> offset,
              page |-> FALSE, value |-> calls + 1])
  /\ UNCHANGED << fileDataSize, sparse, content >>

(* A page is a block; what is past fileDataSize is not written.            *)
PageoutBegins(p, offset) ==
  /\ Begins(p) /\ lock = {}
  /\ offset % BlockSize = 0 /\ offset < fileDataSize
  /\ lock' = {p}
  /\ Goes(p, [place |-> "rwData", off |-> offset,
              length |-> Least(BlockSize, fileDataSize - offset), from |-> offset,
              page |-> TRUE, value |-> calls + 1])
  /\ UNCHANGED << fileDataSize, sparse, covered, content, lost >>

(* rwData: a block that is present, or is written as a whole, goes to the  *)
(* sparse file; the missing part of another is read from the covered file. *)
(* Nothing is written if there is nothing to read.                         *)
Extent(w) == w.off .. w.off + w.length - 1
Whole(w, b) == UnitsOf(b) \subseteq Extent(w) /\ Cardinality(UnitsOf(b)) = BlockSize
Missing(b) == b \notin DOMAIN sparse
Dropped(w, b) == Missing(b) /\ ~Whole(w, b) /\ b * BlockSize >= Len(covered)
BlocksOf(w) == {b \in {Block(u) : u \in Extent(w)} : ~Dropped(w, b)}
MergedZero(w, b) ==
  [i \in 0 .. BlockSize - 1 |->
    IF b * BlockSize + i \in Extent(w) THEN w.value
    ELSE IF Missing(b) THEN 0 ELSE sparse[b][i]]
Merged(w, b) ==
  [i \in 0 .. BlockSize - 1 |->
    IF b * BlockSize + i \in Extent(w) THEN w.value ELSE Seen(b * BlockSize + i)]

(* Of a write to which the blocks in failed have failed, the units up to   *)
(* the first of these count if the caller is told of a success: they are   *)
(* then the last that was written.  What else was stored is not promised.  *)
(* A failed block may stay in the tree with its chunk not written (hollow).*)
(* The hook goes on to DldSetUbcFileSize from where a write has come to,   *)
(* from its begin for a pageout.                                           *)
Counted(w, failed) ==
  {u \in Extent(w) : Block(u) \in BlocksOf(w) \ failed /\ \A b \in failed : Block(u) < b}

WriteEnds(p, failed, hollow, told) ==
  LET w == at[p]
      stored == BlocksOf(w) \ failed
      counted == IF told THEN Counted(w, failed) ELSE {}
  IN
  /\ sparse' = [b \in DOMAIN sparse \cup stored \cup hollow |->
                 IF b \in stored THEN Merged(w, b)
                 ELSE IF b \in hollow THEN [i \in 0 .. BlockSize - 1 |-> Leftover]
                 ELSE sparse[b]]
  /\ content' = [u \in Units |->
                  IF u \in counted THEN w.value
                  ELSE IF u \in Extent(w) /\ Block(u) \in stored \cup hollow THEN Any
                  ELSE content[u]]
  /\ lost' = (lost \ counted) \cup {u \in counted : u >= Len(covered)}
  /\ lock' = {}
  /\ Goes(p, IF told THEN Sizing(w.from + (IF w.page THEN 0 ELSE Cardinality(counted)), FALSE)
             ELSE Idle)
  /\ UNCHANGED << fileDataSize, covered, calls >>

WriteKept(p) == at[p].place = "rwData" /\ WriteEnds(p, {}, {}, TRUE)

(* disableAccessOnCawlError is set: the result is that of the notification *)
(* of the service, whatever has failed, and if that is an error a write    *)
(* that is not IO_UNIT and has come further is a success all the same.  A  *)
(* failure ends the loop, which stores the blocks that have to be merged   *)
(* with the covered file; performIO has stored the others.                 *)
WriteInterrupted(p) ==
  LET w == at[p] IN
  /\ w.place = "rwData"
  /\ \E failed \in SUBSET BlocksOf(w), told \in BOOLEAN :
       /\ \A f \in failed, b \in BlocksOf(w) \ failed : f < b => Whole(w, b) \/ ~Missing(b)
       /\ \E hollow \in SUBSET {b \in failed : Missing(b) /\ Whole(w, b)} :
            WriteEnds(p, failed, hollow, told)

(* Nothing was begun: no sparse file, or no memory to describe the data.   *)
WriteRefused(p) ==
  /\ at[p].place = "rwData"
  /\ lock' = {} /\ Goes(p, Idle)
  /\ UNCHANGED << fileDataSize, sparse, covered, calls, content, lost >>

(* disableAccessOnCawlError is not set: if the sparse file fails its       *)
(* blocks are flushed, and the data are written to the covered file.  The  *)
(* notification that follows takes the identifier of the sparse file from  *)
(* a pointer that was set to NULL before: the kernel halts, and nobody     *)
(* sees these data.                                                        *)
WriteFails(p) ==
  /\ at[p].place = "rwData"
  /\ Goes(p, [place |-> "halted"])
  /\ UNCHANGED << fileDataSize, lock, sparse, covered, calls, content, lost >>

----------------------------------------------------------------------------
(* processRead: the lock is held shared, so that the read is one step.     *)

Read(p, offset, length) ==
  LET done == IF offset >= fileDataSize THEN 0 ELSE Least(length, fileDataSize - offset) IN
  /\ Begins(p) /\ lock = {}
  /\ Goes(p, Sizing(offset + done, FALSE))
  /\ UNCHANGED << fileDataSize, lock, sparse, covered, content, lost >>

----------------------------------------------------------------------------
(* The hooks of the original operations that get and set the size, and     *)
(* DldSetUbcFileSize.                                                      *)

GetAttr(p) ==
  /\ Begins(p)
  /\ Goes(p, Sizing(Len(covered), TRUE))
  /\ UNCHANGED << fileDataSize, lock, sparse, covered, content, lost >>

(* What is past the end of a truncated file is lost; what a file shows     *)
(* that was extended is not promised.                                      *)
SetAttr(p, size) ==
  /\ Begins(p)
  /\ covered' = Resized(covered, size)
  /\ content' = [u \in Units |-> IF u < size THEN content[u] ELSE Any]
  /\ Goes(p, Sizing(size, TRUE))
  /\ UNCHANGED << fileDataSize, lock, sparse, lost >>

SetUbcFileSize(p) ==
  LET s == at[p] IN
  /\ s.place = "sizing" /\ lock = {}
  /\ IF fileDataSize < s.size \/ s.force
     THEN /\ fileDataSize' = s.size
          /\ Goes(p, IF fileDataSize > s.size THEN [place |-> "purge", size |-> s.size] ELSE Idle)
     ELSE Goes(p, Idle) /\ UNCHANGED fileDataSize
  /\ UNCHANGED << lock, sparse, covered, calls, content, lost >>

(* purgeFromOffset, of the blocks that begin past the size                 *)
FirstPurgedRoundedDown(size) == size \div BlockSize
FirstPurged(size) == (size + BlockSize - 1) \div BlockSize
Purge(p) ==
  /\ at[p].place = "purge"
  /\ sparse' = [b \in {c \in DOMAIN sparse : c < FirstPurged(at[p].size)} |-> sparse[b]]
  /\ lost' = lost \cup {u \in Units : /\ at[p].size <= u /\ u < Len(covered)
                                       /\ Block(u) \in DOMAIN sparse \ DOMAIN sparse'}
  /\ Goes(p, Idle)
  /\ UNCHANGED << fileDataSize, lock, covered, calls, content >>

----------------------------------------------------------------------------
FileInit ==
  /\ fileDataSize = 1 /\ covered = << Original >> /\ sparse = << >>
  /\ lock = {} /\ at = [p \in Callers |-> Idle] /\ calls = 0
  /\ content = [u \in Units |-> IF u = 0 THEN Original ELSE Any]
  /\ lost = {}

Step(p) ==
  \/ \E offset \in Units, length \in 1 .. BlockSize + 1 :
       \/ \E append \in BOOLEAN : WriteBegins(p, offset, length, append)
       \/ Read(p, offset, length)
  \/ \E offset \in Units : PageoutBegins(p, offset)
  \/ WriteKept(p) \/ WriteInterrupted(p) \/ WriteRefused(p) \/ WriteFails(p)
  \/ GetAttr(p)
  \/ \E size \in 0 .. MaxUnits : SetAttr(p, size)
  \/ SetUbcFileSize(p) \/ Purge(p)
NobodyHalts == \A p \in Callers : at[p].place # "halted"
FileNext == NobodyHalts /\ \E p \in Callers : Step(p)

FileSpec == FileInit /\ [][FileNext]_fileVars

----------------------------------------------------------------------------
(* Properties *)

Quiet == \A p \in Callers : at[p] = Idle

(* A unit shows what was last written to it, at every moment and wherever  *)
(* its block has been since: still in the covered file, merged with what   *)
(* is there, kept by a purge, or beside a block of the write that failed;  *)
(* except for the units that the code itself loses when it relies on a     *)
(* stale size, that another thread is about to set, that a failed write    *)
(* has left behind, or that the hook of an appending write took from an    *)
(* offset already set back (lost): cut off by a write that takes the file  *)
(* to be shorter, put past the end by one that takes it to be longer, or   *)
(* purged by a late DldSetUbcFileSize (PurgedPastTheEnd).  How far a read  *)
(* goes is the matter of SizeIsRight.                                      *)
ReadBack ==
  \A u \in Units \ lost : content[u] # Any => u < Len(covered) /\ Seen(u) = content[u]

(* "we should not fail requests because of the CAWL errors" (rwData): a    *)
(* write that the sparse file refuses is done all the same.                *)
BypassGoesOn == NobodyHalts

(* The size that is kept is the one of the covered file when nobody is     *)
(* about to change it: "the file size as reported to UBC" (DldIOVnode).    *)
SizeIsRight == Quiet => SizeRight

(* "if the file is being truncated the CAWL related cached data past the   *)
(* new size must be purged" (DldSetUbcFileSize): no data are purged that   *)
(* were written to a part of the file that is still there.                 *)
PurgedPastTheEnd ==
  [][\A p \in Callers, u \in Units :
       Purge(p) /\ content[u] # Any /\ u < Len(covered) /\ Block(u) \in DOMAIN sparse
         => Block(u) \in DOMAIN sparse']_fileVars
=============================================================================
