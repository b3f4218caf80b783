---------------------------- MODULE ShadowFiles ----------------------------
(***************************************************************************)
(* DldIOShadowFile and the array of shadow files in DldIOShadow.           *)
(*                                                                         *)
(* The shadow thread reserves a region at the end of the current file (the *)
(* first one of the array), which expands the file ahead of the writes;    *)
(* when a region cannot be had it drops the file and tries the next one,   *)
(* when the file has grown beyond its switch size it takes the file out of *)
(* the array although it still writes to it.  The user client adds files   *)
(* at the end of the array and releases all of them when it closes.  A     *)
(* file is freed, with a terminator behind its last record, by whoever     *)
(* drops the last reference.                                               *)
(*                                                                         *)
(* Only the shadow thread calls reserveOffset on a shared file, so that    *)
(* the two locked sections of expandFile meet nobody in between and the    *)
(* reservation is one action; everything that the user client can get      *)
(* between is an action of its own.  Sizes are in units of a scale that    *)
(* the constants fix.                                                      *)
(*                                                                         *)
(* An operator that stands before a definition and has its name, or one    *)
(* like it, varied is that definition with a plausible mistake; the        *)
(* properties are tried on them.                                           *)
(***************************************************************************)
EXTENDS Integers, Sequences, FiniteSets

CONSTANTS
  Files,          (* the shadow files the client may ever open             *)
  Brink,          (* 16 MB: free space below which a file is expanded      *)
  Step,           (* 128 MB: how far a file is expanded                    *)
  MinSize,        (* DLD_SHADOW_FILE_DEFAULT_MINSIZE, 256 MB               *)
  RecordSizes,    (* the sizes of the records, header included             *)
  TerminatorSize, (* sizeof( DLD_SHADOW_FILE_TERMINATOR )                  *)
  MaxSizes,       (* what the client asks for as maxFileSize               *)
  SwitchSizes,    (* and as switchFileSize                                 *)
  MaxRecords      (* bound: how many records are ever written              *)

Ignore == -1      (* DLD_IGNR_FSIZE *)
NoFile == "none"

ASSUME FilesAssumption ==
  /\ NoFile \notin Files
  /\ {Brink, Step, MinSize, TerminatorSize} \subseteq Nat \ {0}
  /\ Brink < Step /\ Step <= MinSize
  /\ RecordSizes \subseteq Nat \ {0}
  /\ MaxSizes \subseteq Int /\ SwitchSizes \subseteq Int
  /\ MaxRecords \in Nat

VARIABLES
  array,         (* shadowFilesArray                                       *)
  file,          (* the fields of each file                                *)
  fileRefs,      (* the reference count of each file                       *)
  quotaExceeded,
  pcT,           (* where the shadow thread is                             *)
  cur,           (* its currentFile                                        *)
  want,          (* the size it needs, the offset it got                   *)
  pcC,           (* the file the client thread has not yet released        *)
  records,       (* history: the regions that were granted and written     *)
  cutoffs        (* history: the offsets told to the client, for each file *)

filesVars == << array, file, fileRefs, quotaExceeded, pcT, cur, want, pcC, records, cutoffs >>

Larger(a, b)  == IF a > b THEN a ELSE b
Smaller(a, b) == IF a < b THEN a ELSE b

----------------------------------------------------------------------------
(* setFileSizes *)

SwitchUncapped(max, switch) ==
  IF switch \in {Ignore, 0} \/ switch < max \div 2 THEN max - max \div 8 ELSE switch
SwitchOfLimited(max, switch) ==
  LET cap == max - max \div 8 IN
  IF switch \in {Ignore, 0} \/ switch < max \div 2 THEN cap ELSE Smaller(switch, cap)

SwitchOfUnlimited(switch) ==
  IF switch \in {Ignore, 0} THEN 4 * MinSize ELSE Larger(switch, MinSize)

HonouredSwitch(max, switch) ==
  IF max # Ignore /\ switch > max THEN 0 ELSE switch

HonouredMax(max) == IF max # Ignore /\ max < MinSize THEN MinSize ELSE max

SwitchSize(max, switch) ==
  IF max # Ignore
  THEN SwitchOfLimited(HonouredMax(max), HonouredSwitch(max, switch))
  ELSE SwitchOfUnlimited(HonouredSwitch(max, switch))

Limited(f) == f.max # Ignore
isFileSwicthingRequired(f) == f.switch <= f.offset

----------------------------------------------------------------------------
(* expandFile and reserveOffset.  A file f is a record; ok tells whether   *)
(* the file system lets the file be expanded.                              *)

UncappedTarget(f, low) ==
  Larger(Larger(f.offset, f.last) + Step, low)
Target(f, low) ==
  LET t == Larger(Larger(f.offset, f.last) + Step, low) IN
  IF Limited(f) /\ t > f.max THEN f.max ELSE t

(* The file after the expansion.  When the target lies behind the offset   *)
(* the file system sets the size of the file to the target; else the code  *)
(* takes the file for expanded by a write.                                 *)
Expand(f, low, ok) ==
  LET t == Target(f, low) IN
  IF (Limited(f) /\ f.last = f.max) \/ t < low \/ ~ok
  THEN f
  ELSE IF t > f.offset
       THEN [f EXCEPT !.last = t, !.eof = t]
       ELSE [f EXCEPT !.last = f.offset]

IgnoreQuota(f, size) == FALSE
OverQuota(f, size) == Limited(f) /\ f.offset + size > f.max

NeedsExpansion(f) == f.offset > f.last \/ f.last - f.offset < Brink

(* The file after reserveOffset.  The region is granted when it ends       *)
(* inside of the expansion.                                                *)
ReserveAlways(f, size, ok) == f
Reserve(f, size, ok) ==
  LET moved == [f EXCEPT !.offset = f.offset + size] IN
  IF OverQuota(f, size) THEN f
  ELSE IF NeedsExpansion(moved) THEN Expand(moved, moved.offset, ok) ELSE moved

Granted(f, size, ok) ==
  ~OverQuota(f, size) /\ f.offset + size <= Reserve(f, size, ok).last

----------------------------------------------------------------------------
(* Life and death of a file *)

Unopened == [open |-> FALSE, offset |-> 0, last |-> 0, eof |-> 0,
             max |-> Ignore, switch |-> 4 * Step, data |-> 0, term |-> -1]

(* initWithFileName makes the first expansion before the limits are set.   *)
Opened(max, switch, ok) ==
  [Expand([Unopened EXCEPT !.open = TRUE], 0, ok) EXCEPT
     !.max = HonouredMax(max), !.switch = SwitchSize(max, switch)]

Written(f, off, size) ==
  [f EXCEPT !.eof = Larger(@, off + size), !.data = Larger(@, off + size)]

(* free: the terminator is written like a record, then the file is closed. *)
Freed(f, ok) ==
  LET r == Reserve(f, TerminatorSize, ok) IN
  IF Granted(f, TerminatorSize, ok)
  THEN [Written(r, f.offset, TerminatorSize) EXCEPT !.open = FALSE, !.term = f.offset]
  ELSE [r EXCEPT !.open = FALSE]

(* One reference less on every file of fs; the last one frees the file.    *)
Release(fs, ok) ==
  LET dead == {g \in fs : fileRefs[g] = 1} IN
  /\ fileRefs' = [g \in Files |-> IF g \in fs THEN fileRefs[g] - 1 ELSE fileRefs[g]]
  /\ file' = [g \in Files |-> IF g \in dead THEN Freed(file[g], ok) ELSE file[g]]
  /\ quotaExceeded' = \/ quotaExceeded
                      \/ \E g \in dead : OverQuota(file[g], TerminatorSize)

----------------------------------------------------------------------------
(* The user client *)

(* setShadowFile up to addShadowFile; the creator's reference is left.     *)
QuotaFlagAfterAdd(limited) == IF limited THEN quotaExceeded ELSE FALSE

SetShadowFile ==
  /\ pcC = NoFile
  /\ \E g \in Files, max \in MaxSizes, switch \in SwitchSizes, ok \in BOOLEAN :
       /\ file[g] = Unopened /\ fileRefs[g] = 0
       /\ file' = [file EXCEPT ![g] = Opened(max, switch, ok)]
       /\ pcC' = g
       /\ \/ /\ array' = Append(array, g)
             /\ fileRefs' = [fileRefs EXCEPT ![g] = 2]
             /\ quotaExceeded' = QuotaFlagAfterAdd(max # Ignore)
          \/ /\ fileRefs' = [fileRefs EXCEPT ![g] = 1]   \* no room in the array
             /\ UNCHANGED << array, quotaExceeded >>
  /\ UNCHANGED << pcT, cur, want, records, cutoffs >>

ReleaseCreated ==
  /\ pcC # NoFile
  /\ \E ok \in BOOLEAN : Release({pcC}, ok)
  /\ pcC' = NoFile
  /\ UNCHANGED << array, pcT, cur, want, records, cutoffs >>

(* close of the client: flushCollection under the lock.                    *)
releaseAllShadowFiles ==
  /\ pcC = NoFile /\ array # << >>
  /\ \E ok \in BOOLEAN : Release({array[i] : i \in DOMAIN array}, ok)
  /\ array' = << >>
  /\ UNCHANGED << pcT, cur, want, pcC, records, cutoffs >>

----------------------------------------------------------------------------
(* The shadow thread: getCurrenShadowFileReserveSpace, the write of the    *)
(* record and its notification                                             *)

NewRecord ==
  /\ pcT = "idle" /\ Cardinality(records) < MaxRecords
  /\ \E s \in RecordSizes : want' = [size |-> s, off |-> 0]
  /\ pcT' = "pick"
  /\ UNCHANGED << array, file, fileRefs, quotaExceeded, cur, pcC, records, cutoffs >>

(* Under the shared lock: the current file, referenced; without a file the *)
(* record is not shadowed.                                                 *)
PickUnreferenced ==
  /\ pcT = "pick" /\ array # << >>
  /\ cur' = array[1]
  /\ pcT' = "reserve"
  /\ UNCHANGED << array, file, fileRefs, quotaExceeded, want, pcC, records, cutoffs >>
PickFile ==
  /\ pcT = "pick" /\ array # << >>
  /\ cur' = array[1]
  /\ fileRefs' = [fileRefs EXCEPT ![array[1]] = @ + 1]
  /\ pcT' = "reserve"
  /\ UNCHANGED << array, file, quotaExceeded, want, pcC, records, cutoffs >>

NoShadowFile ==
  /\ pcT = "pick" /\ array = << >>
  /\ pcT' = "idle"
  /\ want' = [size |-> 0, off |-> 0]
  /\ UNCHANGED << array, file, fileRefs, quotaExceeded, cur, pcC, records, cutoffs >>

ReserveOffset ==
  /\ pcT = "reserve"
  /\ \E ok \in BOOLEAN :
       /\ file' = [file EXCEPT ![cur] = Reserve(@, want.size, ok)]
       /\ want' = [want EXCEPT !.off = file[cur].offset]
       /\ pcT' = IF Granted(file[cur], want.size, ok) THEN "check" ELSE "drop"
  /\ quotaExceeded' = (quotaExceeded \/ OverQuota(file[cur], want.size))
  /\ UNCHANGED << array, fileRefs, cur, pcC, records, cutoffs >>

(* Under the exclusive lock: the file is taken out of the array, if it is  *)
(* still the current one.  The array's reference is not the last one.      *)
IsCurrent(a) == a # << >> /\ a[1] = cur
TakeOut ==
  /\ array' = Tail(array)
  /\ fileRefs' = [fileRefs EXCEPT ![cur] = @ - 1]

(* The region was refused.                                                 *)
DropUnchecked ==
  /\ pcT = "drop"
  /\ IF array # << >>
     THEN /\ array' = Tail(array)
          /\ fileRefs' = [fileRefs EXCEPT ![array[1]] = @ - 1]
          /\ pcT' = "dropCutoff"
     ELSE pcT' = "putBack" /\ UNCHANGED << array, fileRefs >>
  /\ UNCHANGED << file, quotaExceeded, cur, want, pcC, records, cutoffs >>
Drop ==
  /\ pcT = "drop"
  /\ IF IsCurrent(array) THEN TakeOut /\ pcT' = "dropCutoff"
                         ELSE pcT' = "putBack" /\ UNCHANGED << array, fileRefs >>
  /\ UNCHANGED << file, quotaExceeded, cur, want, pcC, records, cutoffs >>

(* Look without the lock whether to switch to the next file.               *)
SwitchCheck ==
  /\ pcT = "check"
  /\ pcT' = IF isFileSwicthingRequired(file[cur]) /\ Len(array) > 1
            THEN "switch" ELSE "write"
  /\ UNCHANGED << array, file, fileRefs, quotaExceeded, cur, want, pcC, records, cutoffs >>

SwitchKeeping ==
  /\ pcT = "switch"
  /\ pcT' = IF IsCurrent(array) /\ Len(array) > 1 THEN "switchCutoff" ELSE "write"
  /\ UNCHANGED << array, fileRefs, file, quotaExceeded, cur, want, pcC, records, cutoffs >>
Switch ==
  /\ pcT = "switch"
  /\ IF IsCurrent(array) /\ Len(array) > 1
     THEN TakeOut /\ pcT' = "switchCutoff"
     ELSE pcT' = "write" /\ UNCHANGED << array, fileRefs >>
  /\ UNCHANGED << file, quotaExceeded, cur, want, pcC, records, cutoffs >>

(* shadowFileRemovedNotification *)
Cutoff ==
  /\ pcT \in {"dropCutoff", "switchCutoff"}
  /\ cutoffs' = [cutoffs EXCEPT ![cur] = Append(@, file[cur].offset)]
  /\ pcT' = IF pcT = "dropCutoff" THEN "putBack" ELSE "write"
  /\ UNCHANGED << array, file, fileRefs, quotaExceeded, cur, want, pcC, records >>

PutBackAndWait ==
  /\ pcT = "putBack" /\ array # << >>
  /\ \E ok \in BOOLEAN : Release({cur}, ok)
  /\ cur' = NoFile
  /\ want' = [want EXCEPT !.off = 0]
  /\ pcT' = "pick"
  /\ UNCHANGED << array, pcC, records, cutoffs >>
PutBack ==
  /\ pcT = "putBack"
  /\ \E ok \in BOOLEAN : Release({cur}, ok)
  /\ cur' = NoFile
  /\ want' = [want EXCEPT !.off = 0]
  /\ pcT' = "pick"
  /\ UNCHANGED << array, pcC, records, cutoffs >>

(* The file system may fail the write; the region stays reserved, and the  *)
(* client is notified of the record in any case.                           *)
WriteRecord ==
  /\ pcT = "write"
  /\ \E ok \in BOOLEAN :
       file' = IF ok THEN [file EXCEPT ![cur] = Written(@, want.off, want.size)]
                     ELSE file
  /\ records' = records \cup {[file |-> cur, off |-> want.off, size |-> want.size]}
  /\ pcT' = "finish"
  /\ UNCHANGED << array, fileRefs, quotaExceeded, cur, want, pcC, cutoffs >>

FinishRecord ==
  /\ pcT = "finish"
  /\ \E ok \in BOOLEAN : Release({cur}, ok)
  /\ cur' = NoFile
  /\ want' = [size |-> 0, off |-> 0]
  /\ pcT' = "idle"
  /\ UNCHANGED << array, pcC, records, cutoffs >>

----------------------------------------------------------------------------
FilesInit ==
  /\ array = << >>
  /\ file = [g \in Files |-> Unopened]
  /\ fileRefs = [g \in Files |-> 0]
  /\ quotaExceeded = FALSE
  /\ pcT = "idle" /\ cur = NoFile /\ want = [size |-> 0, off |-> 0]
  /\ pcC = NoFile
  /\ records = {} /\ cutoffs = [g \in Files |-> << >>]

ThreadStep ==
  \/ PickFile \/ NoShadowFile \/ ReserveOffset \/ Drop \/ SwitchCheck \/ Switch
  \/ Cutoff \/ PutBack \/ WriteRecord \/ FinishRecord

ClientStep == SetShadowFile \/ ReleaseCreated \/ releaseAllShadowFiles

FilesNext == NewRecord \/ ThreadStep \/ ClientStep

FilesSpec == FilesInit /\ [][FilesNext]_filesVars

(* The shadow thread is a kernel thread that is always runnable.           *)
FilesFairSpec == FilesSpec /\ WF_filesVars(ThreadStep)

----------------------------------------------------------------------------
(* Properties *)

InArray(g) == \E i \in DOMAIN array : array[i] = g
End(r) == r.off + r.size

ThreadStates == {"idle", "pick", "reserve", "drop", "check", "switch", "dropCutoff",
                 "switchCutoff", "putBack", "write", "finish"}

(* Every variable has its type.                                            *)
FilesTypeOK ==
  /\ array \in Seq(Files)
  /\ file \in [Files -> [open : BOOLEAN, offset : Nat, last : Nat, eof : Nat,
                         max : Int, switch : Int, data : Nat, term : Int]]
  /\ fileRefs \in [Files -> Nat]
  /\ quotaExceeded \in BOOLEAN
  /\ pcT \in ThreadStates
  /\ cur \in Files \cup {NoFile} /\ pcC \in Files \cup {NoFile}
  /\ want \in [size : {0} \cup RecordSizes, off : Nat]
  /\ records \subseteq [file : Files, off : Nat, size : RecordSizes]
  /\ cutoffs \in [Files -> Seq(Nat)]

(* A file is open exactly as long as the array, the shadow thread or the   *)
(* client that is adding it has it: nobody writes behind the terminator,   *)
(* and no file stays open after the client closed, which would block the   *)
(* unmount (the comment in DldIOUserClient::close).                        *)
OpenWhileHeld ==
  \A g \in Files : file[g].open <=> InArray(g) \/ cur = g \/ pcC = g

(* Records never share a byte with each other, and the terminator is the   *)
(* last data of the file (DldUserToKernel.h, DLD_SHADOW_FILE_TERMINATOR).  *)
RecordsApart ==
  \A r \in records :
    /\ file[r.file].term # -1 => End(r) <= file[r.file].term
    /\ \A q \in records : r.file = q.file /\ r # q => End(r) <= q.off \/ End(q) <= r.off
    /\ pcT \in {"check", "switch", "switchCutoff", "write"} /\ cur = r.file
         => End(r) <= want.off

(* The files are held while they are open and their records stay apart,    *)
(* whatever the client adds and releases beside the shadow thread.         *)
FilesIntact == FilesTypeOK /\ OpenWhileHeld /\ RecordsApart

(* A file with a quota neither grows nor is reserved beyond it, with the   *)
(* expansions made ahead of the writes and the terminator.                 *)
WithinQuota ==
  \A g \in Files : Limited(file[g]) =>
    file[g].offset <= file[g].max /\ file[g].eof <= file[g].max

(* Whatever the client asked for, a file with a quota is switched before   *)
(* the quota is reached and not before half of it, a file without one not  *)
(* before MinSize (the comments in setFileSizes).                          *)
SwitchInTime ==
  \A g \in Files : file[g].open =>
    IF Limited(file[g])
    THEN /\ file[g].max >= MinSize
         /\ file[g].switch >= file[g].max \div 2
         /\ file[g].switch <= file[g].max - file[g].max \div 8
    ELSE file[g].switch >= MinSize

(* A file is left in time, and nothing goes beyond its quota meanwhile.    *)
QuotaKept == WithinQuota /\ SwitchInTime

(* A record has room of its own, in a file that is held and within its     *)
(* quota, whatever the client does beside the shadow thread.               *)
RoomKept == FilesIntact /\ QuotaKept

(* The shadow thread takes no other file out of the array than the one it  *)
(* found full, although it looks and acts under different locks and the    *)
(* client may have replaced all files in between.                          *)
UntriedFileStays ==
  [][pcT' # pcT => \A g \in Files : InArray(g) /\ ~InArray(g)' => g = cur]_filesVars

(* The client is told once that a file is complete, and the offset it is   *)
(* told is final: no record is ever written behind it.                     *)
CutoffIsFinal ==
  \A g \in Files :
    /\ Len(cutoffs[g]) <= 1
    /\ \A i \in DOMAIN cutoffs[g], r \in records :
         r.file = g => End(r) <= cutoffs[g][i]

(* The search for a file with room comes to an end.                        *)
RecordFinishes == pcT = "pick" ~> pcT = "idle"
=============================================================================
