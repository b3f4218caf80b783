---------------------------- MODULE ShadowProofs ----------------------------
(***************************************************************************)
(* What a write that is shadowed goes through, for every value of the      *)
(* constants: the files the shadow thread writes to, the requests it is    *)
(* sent and the hooks that wait for it, and the tasks of SCSI commands.    *)
(* The three parts share no variable; each has an inductive invariant.     *)
(***************************************************************************)
EXTENDS ShadowFiles, ShadowRequests, ScsiTasks, FiniteSetTheorems,
        SequenceTheorems, TLAPS

----------------------------------------------------------------------------
(***************************************************************************)
(* ShadowFiles, for any files, sizes and quotas.  A region                 *)
(* that was granted lies below the offset of its file and the offset never *)
(* goes back; a file that was taken out of the array or freed is never     *)
(* opened again; hence nothing is written behind a record, a terminator or *)
(* the offset the client was told.                                         *)
(***************************************************************************)

One(b)      == IF b THEN 1 ELSE 0
In(s, g)    == \E i \in DOMAIN s : s[i] = g
Distinct(s) == \A i, j \in DOMAIN s : s[i] = s[j] => i = j
WithFile    == ThreadStates \ {"idle", "pick"}
WithRegion  == {"check", "switch", "switchCutoff", "write"}

FileRecord ==
  [open : BOOLEAN, offset : Nat, last : Nat, eof : Nat, max : Int, switch : Int,
   data : Nat, term : Int]

(* FilesTypeOK, with a name for the records of the files.                  *)
FilesTypes ==
  /\ array \in Seq(Files)
  /\ file \in [Files -> FileRecord] /\ fileRefs \in [Files -> Nat]
  /\ quotaExceeded \in BOOLEAN
  /\ pcT \in ThreadStates
  /\ cur \in Files \cup {NoFile} /\ pcC \in Files \cup {NoFile}
  /\ want \in [size : {0} \cup RecordSizes, off : Nat]
  /\ records \subseteq [file : Files, off : Nat, size : RecordSizes]
  /\ cutoffs \in [Files -> Seq(Nat)]

(* The shadow thread has a file and a size while it needs them.            *)
ThreadHas ==
  /\ pcT \in WithFile => cur \in Files
  /\ pcT \notin WithFile => cur = NoFile
  /\ pcT # "idle" => want.size \in RecordSizes

(* Who holds a file has a reference, and every reference has a holder.     *)
RefsCounted ==
  /\ Distinct(array)
  /\ \A g \in Files : fileRefs[g] = One(In(array, g)) + One(cur = g) + One(pcC = g)

(* A file is open while it has references and has its terminator after it; *)
(* what was never opened has no past.                                      *)
OpenAndClosed ==
  \A g \in Files :
    /\ file[g].open <=> fileRefs[g] > 0
    /\ file[g].open => file[g].term = -1
    /\ file[g] = Unopened =>
         cutoffs[g] = << >> /\ \A r \in records : r.file # g

(* What was granted lies below the offset of its file, before its          *)
(* terminator and beside all else.                                         *)
Regions ==
  /\ \A r \in records :
       /\ End(r) <= file[r.file].offset
       /\ file[r.file].term # -1 => End(r) <= file[r.file].term
       /\ pcT \in WithRegion /\ cur = r.file => End(r) <= want.off
       /\ \A q \in records :
            r.file = q.file /\ r # q => End(r) <= q.off \/ End(q) <= r.off
  /\ pcT \in WithRegion => want.off + want.size <= file[cur].offset

(* A file the client was told about is out of the array, and the shadow    *)
(* thread has at most the region left that it was granted before.          *)
ToldOnce ==
  /\ pcT \in {"dropCutoff", "switchCutoff"} => ~In(array, cur) /\ cutoffs[cur] = << >>
  /\ \A g \in Files : cutoffs[g] # << >> =>
       /\ Len(cutoffs[g]) = 1 /\ ~In(array, g)
       /\ \A r \in records : r.file = g => End(r) <= cutoffs[g][1]
       /\ cur = g => pcT \in {"putBack", "write", "finish"}
       /\ cur = g /\ pcT = "write" => want.off + want.size <= cutoffs[g][1]

(* Limits that fit each other, and a file within them.                     *)
QuotaOf(f)  == Limited(f) => f.offset <= f.max /\ f.eof <= f.max
SwitchOf(f) ==
  IF Limited(f)
  THEN /\ f.max >= MinSize
       /\ f.switch >= f.max \div 2 /\ f.switch <= f.max - f.max \div 8
  ELSE f.switch >= MinSize
Quotas == \A g \in Files : QuotaOf(file[g]) /\ (file[g].open => SwitchOf(file[g]))

FilesIInv == FilesTypes /\ ThreadHas /\ RefsCounted /\ OpenAndClosed /\ Regions /\ ToldOnce /\ Quotas

----------------------------------------------------------------------------
(* The array after its first file was taken out or one was added.          *)
LEMMA TailIn ==
  ASSUME NEW s \in Seq(Files), s # << >>, Distinct(s)
  PROVE  /\ Tail(s) \in Seq(Files) /\ Distinct(Tail(s))
         /\ s[1] \in Files /\ In(s, s[1])
         /\ \A g : In(Tail(s), g) <=> In(s, g) /\ g # s[1]
  <1>1. /\ Tail(s) \in Seq(Files) /\ Len(s) \in Nat \ {0} /\ Len(Tail(s)) = Len(s) - 1
        /\ \A i \in 1 .. Len(s) - 1 : Tail(s)[i] = s[i + 1]
    BY HeadTailProperties, EmptySeq
  <1>2. DOMAIN Tail(s) = 1 .. Len(s) - 1 /\ DOMAIN s = 1 .. Len(s)
    BY <1>1, LenProperties
  <1>3. 1 \in DOMAIN s /\ s[1] \in Files
    BY <1>1, <1>2, ElementOfSeq
  <1>4. Distinct(Tail(s))
    BY <1>1, <1>2 DEF Distinct
  <1>5. ASSUME NEW g PROVE In(Tail(s), g) <=> In(s, g) /\ g # s[1]
    <2>1. In(Tail(s), g) => In(s, g) /\ g # s[1]
      BY <1>1, <1>2 DEF In, Distinct
    <2>2. ASSUME NEW i \in DOMAIN s, s[i] = g, g # s[1] PROVE In(Tail(s), g)
      <3>1. i - 1 \in 1 .. Len(s) - 1 /\ (i - 1) + 1 = i
        BY <1>1, <1>2, <2>2
      <3>2. Tail(s)[i - 1] = g
        BY <1>1, <2>2, <3>1
      <3> QED
        BY <1>2, <3>1, <3>2 DEF In
    <2> QED
      BY <2>1, <2>2 DEF In
  <1> QED
    BY <1>1, <1>3, <1>4, <1>5 DEF In

LEMMA AppendIn ==
  ASSUME NEW s \in Seq(Files), NEW f \in Files, Distinct(s), ~In(s, f)
  PROVE  /\ Append(s, f) \in Seq(Files) /\ Distinct(Append(s, f))
         /\ \A g : In(Append(s, f), g) <=> In(s, g) \/ g = f
  <1>1. /\ Append(s, f) \in Seq(Files) /\ Len(s) \in Nat
        /\ DOMAIN Append(s, f) = 1 .. Len(s) + 1 /\ DOMAIN s = 1 .. Len(s)
        /\ \A i \in 1 .. Len(s) : Append(s, f)[i] = s[i]
        /\ Append(s, f)[Len(s) + 1] = f
    BY AppendProperties, LenProperties
  <1> QED
    BY <1>1 DEF Distinct, In

----------------------------------------------------------------------------
(* What the operations on a file leave alone and what they bound.          *)
LEMMA ExpandFacts ==
  ASSUME NEW f \in FileRecord, NEW low \in Nat, NEW ok \in BOOLEAN
  PROVE  LET e == Expand(f, low, ok) IN
         /\ e \in FileRecord
         /\ e.open = f.open /\ e.offset = f.offset /\ e.max = f.max
         /\ e.switch = f.switch /\ e.data = f.data /\ e.term = f.term
         /\ QuotaOf(f) => QuotaOf(e)
         /\ e.eof = f.eof \/ e.eof = Target(f, low)
  <1>1. Target(f, low) \in Int /\ (Limited(f) => Target(f, low) <= f.max)
    BY FilesAssumption DEF Target, Larger, FileRecord
  <1> DEFINE t == Target(f, low)
             wide == [f EXCEPT !.last = t, !.eof = t]
             here == [f EXCEPT !.last = f.offset]
  <1>2. \/ Expand(f, low, ok) = f
        \/ t >= low /\ Expand(f, low, ok) = wide
        \/ Expand(f, low, ok) = here
    BY <1>1 DEF Expand
  <1> HIDE DEF t
  <1>3. /\ here \in FileRecord /\ here.open = f.open /\ here.offset = f.offset
        /\ here.max = f.max /\ here.switch = f.switch /\ here.data = f.data
        /\ here.term = f.term /\ here.eof = f.eof
    BY DEF FileRecord
  <1>4. t \in Nat =>
          /\ wide \in FileRecord /\ wide.open = f.open /\ wide.offset = f.offset
          /\ wide.max = f.max /\ wide.switch = f.switch /\ wide.data = f.data
          /\ wide.term = f.term /\ wide.eof = t
    BY DEF FileRecord
  <1> HIDE DEF here, wide
  <1> QED
    BY <1>1, <1>2, <1>3, <1>4 DEF QuotaOf, Limited, t

LEMMA ReserveFacts ==
  ASSUME NEW f \in FileRecord, NEW size \in Nat \ {0}, NEW ok \in BOOLEAN
  PROVE  LET e == Reserve(f, size, ok) IN
         /\ e \in FileRecord
         /\ e.open = f.open /\ e.max = f.max /\ e.switch = f.switch
         /\ e.data = f.data /\ e.term = f.term
         /\ e.offset = f.offset \/ e.offset = f.offset + size
         /\ ~OverQuota(f, size) => e.offset = f.offset + size
         /\ QuotaOf(f) => QuotaOf(e)
  <1> DEFINE moved == [f EXCEPT !.offset = f.offset + size]
  <1>1. /\ moved \in FileRecord /\ moved.offset = f.offset + size /\ moved.offset \in Nat
        /\ moved.open = f.open /\ moved.max = f.max /\ moved.switch = f.switch
        /\ moved.data = f.data /\ moved.term = f.term
        /\ ~OverQuota(f, size) /\ QuotaOf(f) => QuotaOf(moved)
    BY DEF FileRecord, QuotaOf, OverQuota, Limited
  <1>2. \/ OverQuota(f, size) /\ Reserve(f, size, ok) = f
        \/ ~OverQuota(f, size) /\ Reserve(f, size, ok) = moved
        \/ ~OverQuota(f, size) /\ Reserve(f, size, ok) = Expand(moved, moved.offset, ok)
    BY DEF Reserve
  <1> HIDE DEF moved
  <1> QED
    BY <1>1, <1>2, ExpandFacts

LEMMA WrittenFacts ==
  ASSUME NEW f \in FileRecord, NEW off \in Nat, NEW size \in Nat, off + size <= f.offset
  PROVE  LET e == Written(f, off, size) IN
         /\ e \in FileRecord
         /\ e.open = f.open /\ e.max = f.max /\ e.switch = f.switch
         /\ e.offset = f.offset /\ e.term = f.term
         /\ QuotaOf(f) => QuotaOf(e)
  <1> DEFINE eof  == Larger(f.eof, off + size)
             data == Larger(f.data, off + size)
             e == [f EXCEPT !.eof = eof, !.data = data]
  <1>1. /\ eof \in Nat /\ data \in Nat /\ f.offset \in Nat /\ f.eof \in Nat /\ f.max \in Int
        /\ eof = f.eof \/ eof <= f.offset
    BY DEF Larger, FileRecord
  <1>2. Written(f, off, size) = e
    BY DEF Written
  <1> HIDE DEF eof, data
  <1>3. /\ e \in FileRecord /\ e.open = f.open /\ e.max = f.max /\ e.switch = f.switch
        /\ e.offset = f.offset /\ e.term = f.term /\ e.eof = eof
    BY <1>1 DEF FileRecord
  <1> HIDE DEF e
  <1> QED
    BY <1>1, <1>2, <1>3 DEF QuotaOf, Limited

LEMMA FreedFacts ==
  ASSUME NEW f \in FileRecord, NEW ok \in BOOLEAN
  PROVE  LET e == Freed(f, ok) IN
         /\ e \in FileRecord /\ ~e.open /\ e # Unopened
         /\ e.max = f.max /\ e.switch = f.switch /\ e.offset >= f.offset
         /\ e.term = f.term \/ e.term = f.offset
         /\ QuotaOf(f) => QuotaOf(e)
  <1> DEFINE r == Reserve(f, TerminatorSize, ok)
  <1>1. TerminatorSize \in Nat \ {0} /\ f.offset \in Nat /\ r.offset \in Nat
    BY FilesAssumption, ReserveFacts DEF FileRecord
  <1>2. /\ r \in FileRecord /\ r.max = f.max /\ r.switch = f.switch /\ r.term = f.term
        /\ r.offset >= f.offset /\ (QuotaOf(f) => QuotaOf(r))
        /\ ~OverQuota(f, TerminatorSize) => r.offset = f.offset + TerminatorSize
    BY <1>1, ReserveFacts
  <1>3. r.max # Ignore \/ r.offset > 0
    BY <1>1, <1>2 DEF OverQuota, Limited, FileRecord
  <1>4. CASE Granted(f, TerminatorSize, ok)
    <2> DEFINE w == Written(r, f.offset, TerminatorSize)
               e == [w EXCEPT !.open = FALSE, !.term = f.offset]
    <2>1. f.offset + TerminatorSize <= r.offset
      BY <1>1, <1>2, <1>4 DEF Granted
    <2>2. /\ w \in FileRecord /\ w.max = r.max /\ w.switch = r.switch
          /\ w.offset = r.offset /\ (QuotaOf(r) => QuotaOf(w))
      BY <1>1, <1>2, <2>1, WrittenFacts
    <2>3. Freed(f, ok) = e
      BY <1>4 DEF Freed
    <2> HIDE DEF w, r
    <2>4. /\ e \in FileRecord /\ ~e.open /\ e.max = w.max /\ e.switch = w.switch
          /\ e.offset = w.offset /\ e.term = f.offset /\ e.eof = w.eof
      <3>1. w \in FileRecord /\ f.offset \in Int
        BY <1>1, <2>2
      <3> QED
        BY <3>1 DEF FileRecord
    <2>5. QuotaOf(w) => QuotaOf(e)
      BY <2>4 DEF QuotaOf, Limited
    <2> HIDE DEF e
    <2>6. e # Unopened
      BY <1>3, <2>2, <2>4 DEF Unopened
    <2> QED
      BY <1>2, <2>2, <2>3, <2>4, <2>5, <2>6
  <1>5. CASE ~Granted(f, TerminatorSize, ok)
    <2> DEFINE e == [r EXCEPT !.open = FALSE]
    <2>1. Freed(f, ok) = e
      BY <1>5 DEF Freed
    <2> HIDE DEF r
    <2>2. /\ e \in FileRecord /\ ~e.open /\ e.max = r.max /\ e.switch = r.switch
          /\ e.offset = r.offset /\ e.term = r.term /\ e.eof = r.eof
      BY <1>2 DEF FileRecord
    <2>3. QuotaOf(r) => QuotaOf(e)
      BY <2>2 DEF QuotaOf, Limited
    <2> HIDE DEF e
    <2>4. e # Unopened
      BY <1>3, <2>2 DEF Unopened
    <2> QED
      BY <1>2, <2>1, <2>2, <2>3, <2>4
  <1> QED
    BY <1>4, <1>5

(* What the client asks for is made to fit (setFileSizes).                 *)
LEMMA OpenedFacts ==
  ASSUME NEW max \in MaxSizes, NEW switch \in SwitchSizes, NEW ok \in BOOLEAN
  PROVE  LET e == Opened(max, switch, ok) IN
         /\ e \in FileRecord /\ e.open /\ e.offset = 0 /\ e.term = -1
         /\ QuotaOf(e) /\ SwitchOf(e)
  <1> DEFINE u == [Unopened EXCEPT !.open = TRUE]
             x == Expand(u, 0, ok)
             m == HonouredMax(max)
             w == SwitchSize(max, switch)
             e == [x EXCEPT !.max = m, !.switch = w]
  <1>1. /\ u \in FileRecord /\ u.open /\ u.offset = 0 /\ u.eof = 0 /\ u.term = -1
        /\ Target(u, 0) = Step
    <2>1. Step \in Nat \ {0} /\ 4 * Step \in Int /\ Ignore \in Int /\ -1 \in Int
      BY FilesAssumption DEF Ignore
    <2>2. /\ Unopened \in FileRecord /\ Unopened.offset = 0 /\ Unopened.last = 0
          /\ Unopened.eof = 0 /\ Unopened.term = -1 /\ Unopened.max = Ignore
      BY <2>1 DEF Unopened, FileRecord
    <2>3. u \in FileRecord /\ u.open /\ u.offset = 0 /\ u.last = 0
      BY <2>2 DEF FileRecord
    <2>4. u.eof = 0 /\ u.term = -1 /\ u.max = Ignore
      BY <2>2 DEF FileRecord
    <2> HIDE DEF u
    <2>5. Target(u, 0) = Step
      BY <2>1, <2>3, <2>4 DEF Target, Limited, Larger
    <2> QED
      BY <2>3, <2>4, <2>5
  <1>2. /\ x \in FileRecord /\ x.open /\ x.offset = 0 /\ x.term = -1
        /\ x.eof = 0 \/ x.eof = Step
    BY <1>1, ExpandFacts
  <1>3. m \in Int /\ w \in Int /\ (m # Ignore => m >= MinSize)
    BY FilesAssumption
       DEF HonouredMax, SwitchSize, SwitchOfLimited, SwitchOfUnlimited, HonouredSwitch,
           Ignore, Larger, Smaller
  <1>4. IF m # Ignore THEN w >= m \div 2 /\ w <= m - m \div 8 ELSE w >= MinSize
    BY FilesAssumption
       DEF HonouredMax, SwitchSize, SwitchOfLimited, SwitchOfUnlimited, HonouredSwitch,
           Ignore, Larger, Smaller
  <1>5. Opened(max, switch, ok) = e
    BY DEF Opened
  <1> HIDE DEF u, x, m, w
  <1>6. /\ e \in FileRecord /\ e.open /\ e.offset = 0 /\ e.term = -1
        /\ e.max = m /\ e.switch = w /\ e.eof = x.eof
    BY <1>2, <1>3 DEF FileRecord
  <1> HIDE DEF e
  <1> QED
    BY <1>2, <1>3, <1>4, <1>5, <1>6, FilesAssumption DEF QuotaOf, SwitchOf, Limited

----------------------------------------------------------------------------
(* The numbers of the records and of the shadow thread.                    *)
LEMMA Numbers ==
  ASSUME FilesTypes
  PROVE  /\ \A r \in records : /\ r.file \in Files /\ r.off \in Nat
                               /\ r.size \in Nat \ {0} /\ End(r) \in Nat
         /\ want.off \in Nat /\ want.size \in Nat
         /\ \A g \in Files : /\ file[g] \in FileRecord /\ file[g].offset \in Nat
                             /\ file[g].term \in Int
  <1>1. RecordSizes \subseteq Nat \ {0}
    BY FilesAssumption
  <1>2. \A r \in records : r.file \in Files /\ r.off \in Nat /\ r.size \in Nat \ {0}
    <2>1. records \subseteq [file : Files, off : Nat, size : RecordSizes]
      BY DEF FilesTypes
    <2>2. \A r \in [file : Files, off : Nat, size : RecordSizes] :
            r.file \in Files /\ r.off \in Nat /\ r.size \in RecordSizes
      OBVIOUS
    <2> QED
      BY <1>1, <2>1, <2>2
  <1>3. \A r \in records : End(r) \in Nat
    BY <1>2 DEF End
  <1>4. want.off \in Nat /\ want.size \in Nat
    <2>1. want \in [size : {0} \cup RecordSizes, off : Nat]
      BY DEF FilesTypes
    <2>2. want.off \in Nat /\ want.size \in {0} \cup RecordSizes
      BY <2>1
    <2>3. want.size = 0 \/ want.size \in RecordSizes
      BY <2>2
    <2>4. CASE want.size = 0
      BY <2>2, <2>4
    <2>5. CASE want.size \in RecordSizes
      BY <1>1, <2>2, <2>5
    <2> QED
      BY <2>3, <2>4, <2>5
  <1>5. \A g \in Files : file[g] \in FileRecord
    BY DEF FilesTypes
  <1>6. \A f \in FileRecord : f.offset \in Nat /\ f.term \in Int
    BY DEF FileRecord
  <1> QED
    BY <1>2, <1>3, <1>4, <1>5, <1>6

(* The references follow what holds the files.                             *)
LEMMA RefsMove ==
  ASSUME FilesTypes, RefsCounted, Distinct(array'), fileRefs' \in [Files -> Nat],
         \A g \in Files :
           fileRefs'[g] = fileRefs[g] + (One(In(array', g)) - One(In(array, g)))
                            + (One(cur' = g) - One(cur = g)) + (One(pcC' = g) - One(pcC = g))
  PROVE  RefsCounted'
  <1>1. ASSUME NEW g \in Files
        PROVE  fileRefs'[g] = One(In(array', g)) + One(cur' = g) + One(pcC' = g)
    <2>1. fileRefs[g] = One(In(array, g)) + One(cur = g) + One(pcC = g)
      BY DEF RefsCounted
    <2>2. /\ One(In(array, g)) \in Int /\ One(In(array', g)) \in Int
          /\ One(cur = g) \in Int /\ One(cur' = g) \in Int
          /\ One(pcC = g) \in Int /\ One(pcC' = g) \in Int
      BY DEF One
    <2> QED
      BY <2>1, <2>2
  <1> QED
    BY <1>1 DEF RefsCounted

(* A file whose last reference goes is closed for good; nothing else       *)
(* happens to a file when references are dropped.                          *)
LEMMA ReleaseFacts ==
  ASSUME FilesTypes, OpenAndClosed, Regions, Quotas, NEW fs \in SUBSET Files, NEW ok \in BOOLEAN,
         Release(fs, ok), \A g \in fs : fileRefs[g] >= 1, UNCHANGED << records, cutoffs >>
  PROVE  /\ file' \in [Files -> FileRecord] /\ fileRefs' \in [Files -> Nat]
         /\ quotaExceeded' \in BOOLEAN
         /\ \A g \in Files : /\ fileRefs'[g] = fileRefs[g] - One(g \in fs)
                             /\ file'[g].offset >= file[g].offset
         /\ OpenAndClosed' /\ Quotas'
         /\ \A r \in records :
              /\ End(r) <= file'[r.file].offset
              /\ file'[r.file].term # -1 => End(r) <= file'[r.file].term
  <1>1. fileRefs' \in [Files -> Nat] /\ quotaExceeded' \in BOOLEAN
        /\ \A g \in Files : fileRefs'[g] = fileRefs[g] - One(g \in fs)
    BY DEF Release, FilesTypes, One
  <1>2. \A g \in Files : \/ file'[g] = file[g] /\ (g \in fs => fileRefs'[g] > 0)
                         \/ /\ fileRefs'[g] = 0 /\ file'[g] = Freed(file[g], ok)
                            /\ file[g].open
    <2> TAKE g \in Files
    <2>1. fileRefs[g] \in Nat /\ (file[g].open <=> fileRefs[g] > 0)
      BY DEF FilesTypes, OpenAndClosed
    <2>2. file'[g] = (IF g \in fs /\ fileRefs[g] = 1 THEN Freed(file[g], ok) ELSE file[g])
      BY DEF Release
    <2> QED
      BY <1>1, <2>1, <2>2 DEF One
  <1>3. \A g \in Files : file'[g] \in FileRecord
    BY <1>2, FreedFacts, Numbers
  <1>4. file' \in [Files -> FileRecord]
    BY <1>3 DEF Release
  <1>5. \A g \in Files :
          /\ file'[g].offset >= file[g].offset
          /\ file'[g].term = file[g].term \/ file'[g].term = file[g].offset
          /\ file'[g] = Unopened => file[g] = Unopened
    BY <1>2, FreedFacts, Numbers
  <1>6. OpenAndClosed'
    <2> SUFFICES ASSUME NEW g \in Files
                 PROVE  /\ file'[g].open <=> fileRefs'[g] > 0
                        /\ file'[g].open => file'[g].term = -1
                        /\ file'[g] = Unopened =>
                             cutoffs[g] = << >> /\ \A r \in records : r.file # g
      BY DEF OpenAndClosed
    <2>1. fileRefs[g] \in Nat /\ (g \notin fs => fileRefs'[g] = fileRefs[g])
          /\ (fileRefs'[g] > 0 => fileRefs[g] > 0)
      BY <1>1 DEF FilesTypes, One
    <2>2. CASE file'[g] = file[g]
      BY <1>2, <2>1, <2>2, FreedFacts, Numbers DEF OpenAndClosed
    <2>3. CASE fileRefs'[g] = 0 /\ file'[g] = Freed(file[g], ok)
      BY <2>3, FreedFacts, Numbers
    <2> QED
      BY <1>2, <2>2, <2>3
  <1>7. Quotas'
    <2> SUFFICES ASSUME NEW g \in Files
                 PROVE  QuotaOf(file'[g]) /\ (file'[g].open => SwitchOf(file'[g]))
      BY DEF Quotas, QuotaOf, SwitchOf, Limited
    <2> QED
      BY <1>2, FreedFacts, Numbers DEF Quotas
  <1>8. \A r \in records :
          /\ End(r) <= file'[r.file].offset
          /\ file'[r.file].term # -1 => End(r) <= file'[r.file].term
    <2> SUFFICES ASSUME NEW r \in records
                 PROVE  /\ End(r) <= file'[r.file].offset
                        /\ file'[r.file].term # -1 => End(r) <= file'[r.file].term
      OBVIOUS
    <2>1. /\ r.file \in Files /\ End(r) \in Nat /\ file[r.file].offset \in Nat
          /\ file'[r.file].offset \in Nat
      BY <1>3, Numbers DEF FileRecord
    <2> QED
      BY <1>5, <2>1 DEF Regions
  <1> QED
    BY <1>1, <1>4, <1>5, <1>6, <1>7, <1>8

(* The end of a step that releases: the rest of Regions.                   *)
LEMMA ReleaseRegions ==
  ASSUME FilesTypes, Regions, UNCHANGED records,
         \A r \in records :
           /\ End(r) <= file'[r.file].offset
           /\ file'[r.file].term # -1 => End(r) <= file'[r.file].term,
         file' \in [Files -> FileRecord],
         \/ pcT' \notin WithRegion
         \/ /\ UNCHANGED << pcT, cur, want >> /\ cur \in Files
            /\ file'[cur].offset >= file[cur].offset
  PROVE  Regions'
  <1>1. ASSUME NEW r \in records, pcT' \in WithRegion, cur' = r.file PROVE End(r) <= want'.off
    BY <1>1 DEF Regions
  <1>2. ASSUME pcT' \in WithRegion PROVE want'.off + want'.size <= file'[cur'].offset
    <2>1. want.off \in Nat /\ want.size \in Nat /\ file[cur].offset \in Nat
          /\ file'[cur].offset \in Nat
      BY <1>2, Numbers DEF FileRecord
    <2> QED
      BY <1>2, <2>1 DEF Regions
  <1> QED
    BY <1>1, <1>2 DEF Regions, End

LEMMA ReleaseCreatedStep ==
  ASSUME FilesIInv, ReleaseCreated PROVE FilesIInv'
  <1> USE DEF FilesIInv
  <1>1. PICK ok \in BOOLEAN : Release({pcC}, ok)
    BY DEF ReleaseCreated
  <1>2. /\ pcC \in Files /\ pcC' = NoFile /\ NoFile \notin Files
        /\ UNCHANGED << array, pcT, cur, want, records, cutoffs >>
    BY FilesAssumption DEF ReleaseCreated, FilesTypes
  <1>3. fileRefs[pcC] >= 1 /\ {pcC} \in SUBSET Files
    BY <1>2 DEF RefsCounted, One
  <1>4. /\ file' \in [Files -> FileRecord] /\ fileRefs' \in [Files -> Nat]
        /\ quotaExceeded' \in BOOLEAN
        /\ \A g \in Files : /\ fileRefs'[g] = fileRefs[g] - One(g \in {pcC})
                            /\ file'[g].offset >= file[g].offset
        /\ OpenAndClosed' /\ Quotas'
        /\ \A r \in records :
             /\ End(r) <= file'[r.file].offset
             /\ file'[r.file].term # -1 => End(r) <= file'[r.file].term
    BY <1>1, <1>2, <1>3, ReleaseFacts
  <1>5. FilesTypes' /\ ThreadHas'
    BY <1>2, <1>4 DEF FilesTypes, ThreadHas
  <1>6. RefsCounted'
    <2>1. Distinct(array')
      BY <1>2 DEF RefsCounted
    <2>2. ASSUME NEW g \in Files
          PROVE  /\ fileRefs'[g] = fileRefs[g] - One(pcC = g) /\ One(pcC' = g) = 0
                 /\ One(In(array', g)) = One(In(array, g)) /\ One(cur' = g) = One(cur = g)
      BY <1>2, <1>4 DEF One
    <2>3. \A g \in Files : fileRefs[g] \in Nat
      BY DEF FilesTypes
    <2> QED
      BY <1>4, <2>1, <2>2, <2>3, RefsMove DEF One
  <1>7. Regions'
    <2>1. pcT \notin WithRegion \/ cur \in Files
      BY DEF ThreadHas, WithRegion, WithFile, ThreadStates
    <2> QED
      BY <1>2, <1>4, <2>1, ReleaseRegions
  <1>8. ToldOnce'
    BY <1>2 DEF ToldOnce
  <1> QED
    BY <1>4, <1>5, <1>6, <1>7, <1>8

LEMMA ReleaseAllStep ==
  ASSUME FilesIInv, releaseAllShadowFiles PROVE FilesIInv'
  <1> USE DEF FilesIInv
  <1> DEFINE fs == {array[i] : i \in DOMAIN array}
  <1>1. PICK ok \in BOOLEAN : Release(fs, ok)
    BY DEF releaseAllShadowFiles
  <1>2. /\ array' = << >> /\ UNCHANGED << pcT, cur, want, pcC, records, cutoffs >>
    BY DEF releaseAllShadowFiles
  <1>3. fs \in SUBSET Files /\ \A g : g \in fs <=> In(array, g)
    BY ElementOfSeq, LenProperties DEF FilesTypes, In
  <1>4. \A g \in fs : fileRefs[g] >= 1
    BY <1>3 DEF RefsCounted, One
  <1> HIDE DEF fs
  <1>5. /\ file' \in [Files -> FileRecord] /\ fileRefs' \in [Files -> Nat]
        /\ quotaExceeded' \in BOOLEAN
        /\ \A g \in Files : /\ fileRefs'[g] = fileRefs[g] - One(g \in fs)
                            /\ file'[g].offset >= file[g].offset
        /\ OpenAndClosed' /\ Quotas'
        /\ \A r \in records :
             /\ End(r) <= file'[r.file].offset
             /\ file'[r.file].term # -1 => End(r) <= file'[r.file].term
    BY <1>1, <1>2, <1>3, <1>4, ReleaseFacts
  <1>6. FilesTypes' /\ ThreadHas'
    BY <1>2, <1>5, EmptySeq DEF FilesTypes, ThreadHas
  <1>7. \A g : ~In(array', g)
    BY <1>2 DEF In
  <1>8. RefsCounted'
    <2>1. Distinct(array')
      BY <1>2 DEF Distinct
    <2>2. ASSUME NEW g \in Files
          PROVE  /\ fileRefs'[g] = fileRefs[g] - One(In(array, g))
                 /\ One(In(array', g)) = 0
                 /\ One(pcC' = g) = One(pcC = g) /\ One(cur' = g) = One(cur = g)
      BY <1>2, <1>3, <1>5, <1>7 DEF One
    <2>3. \A g \in Files : fileRefs[g] \in Nat
      BY DEF FilesTypes
    <2> QED
      BY <1>5, <2>1, <2>2, <2>3, RefsMove DEF One
  <1>9. Regions'
    <2>1. pcT \notin WithRegion \/ cur \in Files
      BY DEF ThreadHas, WithRegion, WithFile, ThreadStates
    <2> QED
      BY <1>2, <1>5, <2>1, ReleaseRegions
  <1>10. ToldOnce'
    BY <1>2, <1>7 DEF ToldOnce, In
  <1> QED
    BY <1>5, <1>6, <1>8, <1>9, <1>10

(* The shadow thread gives its file back.                                  *)
LEMMA GiveBackStep ==
  ASSUME FilesIInv, PutBack \/ FinishRecord PROVE FilesIInv'
  <1> USE DEF FilesIInv
  <1>1. PICK ok \in BOOLEAN : Release({cur}, ok)
    BY DEF PutBack, FinishRecord
  <1>2. /\ pcT \in {"putBack", "finish"} /\ pcT' \in {"pick", "idle"} /\ cur' = NoFile
        /\ want' \in [size : {0} \cup RecordSizes, off : Nat]
        /\ pcT' = "pick" => want'.size \in RecordSizes
        /\ UNCHANGED << array, pcC, records, cutoffs >>
    <2>1. CASE PutBack
      BY <2>1 DEF PutBack, FilesTypes, ThreadHas
    <2>2. CASE FinishRecord
      BY <2>2 DEF FinishRecord
    <2> QED
      BY <2>1, <2>2
  <1>3. cur \in Files /\ NoFile \notin Files
    BY <1>2, FilesAssumption DEF ThreadHas, WithFile, ThreadStates
  <1>4. fileRefs[cur] >= 1 /\ {cur} \in SUBSET Files
    BY <1>3 DEF RefsCounted, One
  <1>5. /\ file' \in [Files -> FileRecord] /\ fileRefs' \in [Files -> Nat]
        /\ quotaExceeded' \in BOOLEAN
        /\ \A g \in Files : /\ fileRefs'[g] = fileRefs[g] - One(g \in {cur})
                            /\ file'[g].offset >= file[g].offset
        /\ OpenAndClosed' /\ Quotas'
        /\ \A r \in records :
             /\ End(r) <= file'[r.file].offset
             /\ file'[r.file].term # -1 => End(r) <= file'[r.file].term
    BY <1>1, <1>2, <1>4, ReleaseFacts
  <1>6. FilesTypes'
    BY <1>2, <1>5 DEF FilesTypes, ThreadStates
  <1>7. ThreadHas'
    BY <1>2 DEF ThreadHas, WithFile
  <1>8. RefsCounted'
    <2>1. Distinct(array')
      BY <1>2 DEF RefsCounted
    <2>2. ASSUME NEW g \in Files
          PROVE  /\ fileRefs'[g] = fileRefs[g] - One(cur = g) /\ One(cur' = g) = 0
                 /\ One(In(array', g)) = One(In(array, g)) /\ One(pcC' = g) = One(pcC = g)
      BY <1>2, <1>3, <1>5 DEF One
    <2>3. \A g \in Files : fileRefs[g] \in Nat
      BY DEF FilesTypes
    <2> QED
      BY <1>5, <2>1, <2>2, <2>3, RefsMove DEF One
  <1>9. Regions'
    BY <1>2, <1>5, ReleaseRegions DEF WithRegion
  <1>10. ToldOnce'
    BY <1>2, <1>3 DEF ToldOnce
  <1> QED
    BY <1>5, <1>6, <1>7, <1>8, <1>9, <1>10

----------------------------------------------------------------------------
(* The user client opens a file.                                           *)
LEMMA SetShadowFileStep ==
  ASSUME FilesIInv, SetShadowFile PROVE FilesIInv'
  <1> USE DEF FilesIInv
  <1>1. PICK f \in Files, max \in MaxSizes, switch \in SwitchSizes, ok \in BOOLEAN :
          /\ file[f] = Unopened /\ fileRefs[f] = 0
          /\ file' = [file EXCEPT ![f] = Opened(max, switch, ok)]
          /\ pcC' = f
          /\ \/ /\ array' = Append(array, f)
                /\ fileRefs' = [fileRefs EXCEPT ![f] = 2]
                /\ quotaExceeded' = QuotaFlagAfterAdd(max # Ignore)
             \/ /\ fileRefs' = [fileRefs EXCEPT ![f] = 1]
                /\ UNCHANGED << array, quotaExceeded >>
    BY DEF SetShadowFile
  <1>2. pcC = NoFile /\ NoFile \notin Files /\ UNCHANGED << pcT, cur, want, records, cutoffs >>
    BY FilesAssumption DEF SetShadowFile
  <1>3. ~In(array, f) /\ cur # f /\ Distinct(array)
    BY <1>1 DEF RefsCounted, One
  <1>4. cutoffs[f] = << >> /\ \A r \in records : r.file # f
    BY <1>1 DEF OpenAndClosed
  <1> DEFINE e == Opened(max, switch, ok)
  <1>5. /\ e \in FileRecord /\ e.open /\ e.offset = 0 /\ e.term = -1
        /\ QuotaOf(e) /\ SwitchOf(e)
    BY OpenedFacts
  <1>6. /\ file' = [file EXCEPT ![f] = e] /\ file' \in [Files -> FileRecord]
        /\ file'[f] = e /\ \A g \in Files : g # f => file'[g] = file[g]
    BY <1>1, <1>5 DEF FilesTypes
  <1> HIDE DEF e
  <1>7. /\ fileRefs' \in [Files -> Nat] /\ fileRefs'[f] \in {1, 2} /\ quotaExceeded' \in BOOLEAN
        /\ \A g \in Files : g # f => fileRefs'[g] = fileRefs[g]
    <2>1. fileRefs \in [Files -> Nat] /\ quotaExceeded \in BOOLEAN
      BY DEF FilesTypes
    <2>2. quotaExceeded' \in BOOLEAN
      BY <1>1, <2>1 DEF QuotaFlagAfterAdd
    <2> QED
      BY <1>1, <2>1, <2>2
  <1>8. /\ array' \in Seq(Files) /\ Distinct(array')
        /\ \A g : g # f => (In(array', g) <=> In(array, g))
        /\ fileRefs'[f] = 1 + One(In(array', f))
    <2>1. fileRefs \in [Files -> Nat] /\ array \in Seq(Files)
      BY DEF FilesTypes
    <2>2. CASE array' = Append(array, f) /\ fileRefs' = [fileRefs EXCEPT ![f] = 2]
      BY <1>3, <2>1, <2>2, AppendIn DEF One
    <2>3. CASE array' = array /\ fileRefs' = [fileRefs EXCEPT ![f] = 1]
      BY <1>3, <2>1, <2>3 DEF One
    <2> QED
      BY <1>1, <2>2, <2>3
  <1>9. FilesTypes' /\ ThreadHas'
    BY <1>1, <1>2, <1>6, <1>7, <1>8 DEF FilesTypes, ThreadHas
  <1>10. RefsCounted'
    <2>1. ASSUME NEW g \in Files
          PROVE  fileRefs'[g] = One(In(array', g)) + One(cur' = g) + One(pcC' = g)
      <3>1. CASE g = f
        BY <1>1, <1>2, <1>3, <1>8, <3>1 DEF One
      <3>2. CASE g # f
        BY <1>1, <1>2, <1>7, <1>8, <3>2 DEF One, RefsCounted
      <3> QED
        BY <3>1, <3>2
    <2> QED
      BY <1>8, <2>1 DEF RefsCounted
  <1>11. OpenAndClosed'
    <2>1. ASSUME NEW g \in Files
          PROVE  /\ file'[g].open <=> fileRefs'[g] > 0
                 /\ file'[g].open => file'[g].term = -1
                 /\ file'[g] = Unopened =>
                      cutoffs[g] = << >> /\ \A r \in records : r.file # g
      BY <1>4, <1>5, <1>6, <1>7 DEF OpenAndClosed
    <2> QED
      BY <1>2, <2>1 DEF OpenAndClosed
  <1>12. Regions'
    <2>1. \A r \in records : r.file \in Files /\ file'[r.file] = file[r.file]
      BY <1>4, <1>6, Numbers
    <2>2. pcT \in WithRegion => file'[cur] = file[cur]
      BY <1>3, <1>6 DEF ThreadHas, WithRegion, WithFile, ThreadStates
    <2> QED
      BY <1>2, <2>1, <2>2 DEF Regions, End
  <1>13. ToldOnce'
    <2>1. pcT \in {"dropCutoff", "switchCutoff"} => ~In(array', cur)
      BY <1>3, <1>8 DEF ToldOnce
    <2>2. \A g \in Files : cutoffs[g] # << >> => ~In(array', g)
      BY <1>4, <1>8 DEF ToldOnce
    <2> QED
      BY <1>2, <2>1, <2>2 DEF ToldOnce, End
  <1>14. Quotas'
    <2>1. \A g \in Files : QuotaOf(file'[g]) /\ (file'[g].open => SwitchOf(file'[g]))
      BY <1>5, <1>6 DEF Quotas
    <2> QED
      BY <2>1 DEF Quotas, QuotaOf, SwitchOf, Limited
  <1> QED
    BY <1>9, <1>10, <1>11, <1>12, <1>13, <1>14

----------------------------------------------------------------------------
(* The shadow thread begins a record, or finds no file for it.             *)
LEMMA BeginStep ==
  ASSUME FilesIInv, NewRecord \/ NoShadowFile PROVE FilesIInv'
  <1> USE DEF FilesIInv
  <1>1. /\ UNCHANGED << array, file, fileRefs, quotaExceeded, cur, pcC, records, cutoffs >>
        /\ pcT \in {"idle", "pick"} /\ pcT' \in {"idle", "pick"}
        /\ want' \in [size : {0} \cup RecordSizes, off : Nat]
        /\ pcT' = "pick" => want'.size \in RecordSizes
    BY DEF NewRecord, NoShadowFile
  <1>2. FilesTypes' /\ ThreadHas'
    BY <1>1 DEF FilesTypes, ThreadHas, WithFile, ThreadStates
  <1>3. RefsCounted' /\ OpenAndClosed' /\ Quotas'
    BY <1>1 DEF RefsCounted, OpenAndClosed, Quotas
  <1>4. Regions'
    BY <1>1 DEF Regions, WithRegion, End
  <1>5. ToldOnce'
    BY <1>1, FilesAssumption DEF ToldOnce, ThreadHas, WithFile, End
  <1> QED
    BY <1>2, <1>3, <1>4, <1>5

LEMMA PickFileStep ==
  ASSUME FilesIInv, PickFile PROVE FilesIInv'
  <1> USE DEF FilesIInv
  <1>1. /\ pcT = "pick" /\ pcT' = "reserve" /\ array # << >> /\ cur' = array[1]
        /\ fileRefs' = [fileRefs EXCEPT ![array[1]] = @ + 1]
        /\ UNCHANGED << array, file, quotaExceeded, want, pcC, records, cutoffs >>
    BY DEF PickFile
  <1>2. array[1] \in Files /\ In(array, array[1])
    BY <1>1, TailIn DEF RefsCounted, FilesTypes
  <1>3. cur = NoFile /\ want.size \in RecordSizes /\ NoFile \notin Files
    BY <1>1, FilesAssumption DEF ThreadHas, WithFile
  <1>4. /\ fileRefs' \in [Files -> Nat]
        /\ \A g \in Files : fileRefs[g] \in Nat /\ fileRefs'[g] = fileRefs[g] + One(array[1] = g)
    BY <1>1, <1>2 DEF FilesTypes, One
  <1>5. FilesTypes' /\ ThreadHas'
    BY <1>1, <1>2, <1>3, <1>4 DEF FilesTypes, ThreadHas, WithFile, ThreadStates
  <1>6. RefsCounted'
    <2>1. Distinct(array')
      BY <1>1 DEF RefsCounted
    <2>2. ASSUME NEW g \in Files
          PROVE  /\ One(cur = g) = 0 /\ One(cur' = g) = One(array[1] = g)
                 /\ One(In(array', g)) = One(In(array, g)) /\ One(pcC' = g) = One(pcC = g)
      BY <1>1, <1>3 DEF One
    <2> QED
      BY <1>4, <2>1, <2>2, RefsMove DEF One
  <1>7. OpenAndClosed' /\ Quotas'
    <2>1. fileRefs[array[1]] > 0
      BY <1>2 DEF RefsCounted, One
    <2>2. \A g \in Files : fileRefs'[g] > 0 <=> fileRefs[g] > 0
      BY <1>4, <2>1 DEF One
    <2> QED
      BY <1>1, <2>2 DEF OpenAndClosed, Quotas
  <1>8. Regions'
    BY <1>1 DEF Regions, WithRegion, End
  <1>9. ToldOnce'
    BY <1>1, <1>2 DEF ToldOnce, End
  <1> QED
    BY <1>5, <1>6, <1>7, <1>8, <1>9

(* The shadow thread moves on without a change to any file.                *)
LEMMA MoveStep ==
  ASSUME FilesIInv, pcT \in {"check", "switch", "drop"}, pcT' \in {"switch", "write", "putBack"},
         pcT = "drop" => pcT' = "putBack",
         UNCHANGED << array, file, fileRefs, quotaExceeded, cur, want, pcC, records, cutoffs >>
  PROVE  FilesIInv'
  <1> USE DEF FilesIInv
  <1>1. FilesTypes' /\ ThreadHas'
    BY DEF FilesTypes, ThreadHas, WithFile, ThreadStates
  <1>2. RefsCounted' /\ OpenAndClosed' /\ Quotas'
    BY DEF RefsCounted, OpenAndClosed, Quotas
  <1>3. Regions'
    BY DEF Regions, End, WithRegion
  <1>4. ToldOnce'
    BY DEF ToldOnce, End
  <1> QED
    BY <1>1, <1>2, <1>3, <1>4

(* The shadow thread takes its file, the current one, out of the array.    *)
LEMMA TakeOutStep ==
  ASSUME FilesIInv, pcT \in {"drop", "switch"}, IsCurrent(array), TakeOut,
         pcT' = (IF pcT = "drop" THEN "dropCutoff" ELSE "switchCutoff"),
         UNCHANGED << file, quotaExceeded, cur, want, pcC, records, cutoffs >>
  PROVE  FilesIInv'
  <1> USE DEF FilesIInv
  <1>1. /\ array \in Seq(Files) /\ array # << >> /\ array[1] = cur /\ array' = Tail(array)
        /\ fileRefs' = [fileRefs EXCEPT ![cur] = @ - 1]
    BY DEF IsCurrent, TakeOut, FilesTypes
  <1>2. /\ array' \in Seq(Files) /\ Distinct(array') /\ cur \in Files /\ In(array, cur)
        /\ \A g : In(array', g) <=> In(array, g) /\ g # cur
    BY <1>1, TailIn DEF RefsCounted
  <1>3. /\ fileRefs \in [Files -> Nat] /\ fileRefs[cur] >= 2
        /\ \A g \in Files : g # cur => fileRefs'[g] = fileRefs[g]
        /\ fileRefs'[cur] = fileRefs[cur] - 1 /\ fileRefs' \in [Files -> Nat]
    <2>1. fileRefs \in [Files -> Nat]
      BY DEF FilesTypes
    <2>2. fileRefs[cur] >= 2
      BY <1>2, <2>1 DEF RefsCounted, One
    <2> QED
      BY <1>1, <1>2, <2>1, <2>2
  <1>4. FilesTypes' /\ ThreadHas'
    BY <1>2, <1>3 DEF FilesTypes, ThreadHas, WithFile, ThreadStates
  <1>5. RefsCounted'
    <2>1. ASSUME NEW g \in Files
          PROVE  fileRefs'[g] = One(In(array', g)) + One(cur' = g) + One(pcC' = g)
      <3>1. fileRefs[g] = One(In(array, g)) + One(cur = g) + One(pcC = g)
        BY DEF RefsCounted
      <3> QED
        BY <1>2, <1>3, <3>1 DEF One
    <2> QED
      BY <1>2, <2>1 DEF RefsCounted
  <1>6. OpenAndClosed' /\ Quotas'
    <2>1. \A g \in Files : fileRefs'[g] > 0 <=> fileRefs[g] > 0
      BY <1>3
    <2> QED
      BY <2>1 DEF OpenAndClosed, Quotas
  <1>7. Regions'
    BY DEF Regions, End, WithRegion
  <1>8. ToldOnce'
    <2>1. cutoffs[cur] = << >>
      BY <1>2 DEF ToldOnce
    <2> QED
      BY <1>2, <2>1 DEF ToldOnce, End
  <1> QED
    BY <1>4, <1>5, <1>6, <1>7, <1>8

LEMMA DropAndSwitchSteps ==
  ASSUME FilesIInv, Drop \/ SwitchCheck \/ Switch PROVE FilesIInv'
  <1>1. CASE SwitchCheck
    BY <1>1, MoveStep DEF SwitchCheck
  <1>2. CASE Drop
    BY <1>2, MoveStep, TakeOutStep DEF Drop
  <1>3. CASE Switch
    BY <1>3, MoveStep, TakeOutStep DEF Switch
  <1> QED
    BY <1>1, <1>2, <1>3

(* A region is granted or refused.                                         *)
LEMMA ReserveOffsetStep ==
  ASSUME FilesIInv, ReserveOffset PROVE FilesIInv'
  <1> USE DEF FilesIInv
  <1>1. PICK ok \in BOOLEAN :
          /\ file' = [file EXCEPT ![cur] = Reserve(@, want.size, ok)]
          /\ want' = [want EXCEPT !.off = file[cur].offset]
          /\ pcT' = IF Granted(file[cur], want.size, ok) THEN "check" ELSE "drop"
    BY DEF ReserveOffset
  <1>2. /\ pcT = "reserve" /\ quotaExceeded' = (quotaExceeded \/ OverQuota(file[cur], want.size))
        /\ UNCHANGED << array, fileRefs, cur, pcC, records, cutoffs >>
    BY DEF ReserveOffset
  <1>3. /\ cur \in Files /\ want.size \in Nat \ {0} /\ want.size \in RecordSizes
        /\ file[cur] \in FileRecord /\ file[cur].offset \in Nat
        /\ file \in [Files -> FileRecord]
    BY <1>2, Numbers, FilesAssumption DEF ThreadHas, WithFile, ThreadStates, FilesTypes
  <1> DEFINE e == Reserve(file[cur], want.size, ok)
  <1>4. /\ e \in FileRecord
        /\ e.open = file[cur].open /\ e.max = file[cur].max /\ e.switch = file[cur].switch
        /\ e.term = file[cur].term
        /\ e.offset = file[cur].offset \/ e.offset = file[cur].offset + want.size
        /\ Granted(file[cur], want.size, ok) => e.offset = file[cur].offset + want.size
        /\ QuotaOf(file[cur]) => QuotaOf(e)
    BY <1>3, ReserveFacts DEF Granted
  <1>5. /\ file' = [file EXCEPT ![cur] = e] /\ file' \in [Files -> FileRecord]
        /\ file'[cur] = e /\ \A g \in Files : g # cur => file'[g] = file[g]
    BY <1>1, <1>3, <1>4
  <1> HIDE DEF e
  <1>6. /\ want'.size = want.size /\ want'.off = file[cur].offset
        /\ want' \in [size : {0} \cup RecordSizes, off : Nat]
    BY <1>1, <1>3 DEF FilesTypes
  <1>7. FilesTypes' /\ ThreadHas'
    BY <1>1, <1>2, <1>3, <1>5, <1>6 DEF FilesTypes, ThreadHas, WithFile, ThreadStates
  <1>8. RefsCounted'
    BY <1>2 DEF RefsCounted
  <1>9. file[cur].open
    <2>1. fileRefs[cur] > 0
      BY <1>3 DEF RefsCounted, One
    <2> QED
      BY <1>3, <2>1 DEF OpenAndClosed
  <1>10. OpenAndClosed'
    <2>1. e.open /\ ~Unopened.open
      BY <1>4, <1>9 DEF Unopened
    <2> QED
      BY <1>2, <1>3, <1>4, <1>5, <2>1 DEF OpenAndClosed
  <1>11. Regions'
    <2>1. ASSUME NEW r \in records
          PROVE  /\ End(r) <= file'[r.file].offset
                 /\ file'[r.file].term # -1 => End(r) <= file'[r.file].term
                 /\ cur = r.file => End(r) <= want'.off
      <3>1. End(r) <= file[r.file].offset /\ End(r) \in Nat /\ r.file \in Files
            /\ (file[r.file].term # -1 => End(r) <= file[r.file].term)
        BY Numbers DEF Regions
      <3> QED
        BY <1>3, <1>4, <1>5, <1>6, <3>1
    <2>2. pcT' \in WithRegion => want'.off + want'.size <= file'[cur].offset
      BY <1>1, <1>3, <1>4, <1>5, <1>6 DEF WithRegion
    <2> QED
      BY <1>2, <2>1, <2>2 DEF Regions, End
  <1>12. ToldOnce'
    BY <1>1, <1>2 DEF ToldOnce, End
  <1>13. Quotas'
    <2>1. \A g \in Files : QuotaOf(file'[g]) /\ (file'[g].open => SwitchOf(file'[g]))
      BY <1>3, <1>4, <1>5 DEF Quotas, SwitchOf, Limited
    <2> QED
      BY <2>1 DEF Quotas, QuotaOf, SwitchOf, Limited
  <1> QED
    BY <1>7, <1>8, <1>10, <1>11, <1>12, <1>13

(* The client is told that the file is complete.                           *)
LEMMA CutoffStep ==
  ASSUME FilesIInv, Cutoff PROVE FilesIInv'
  <1> USE DEF FilesIInv
  <1>1. /\ pcT \in {"dropCutoff", "switchCutoff"}
        /\ cutoffs' = [cutoffs EXCEPT ![cur] = Append(@, file[cur].offset)]
        /\ pcT' = (IF pcT = "dropCutoff" THEN "putBack" ELSE "write")
        /\ UNCHANGED << array, file, fileRefs, quotaExceeded, cur, want, pcC, records >>
    BY DEF Cutoff
  <1>2. /\ cur \in Files /\ cutoffs[cur] = << >> /\ ~In(array, cur)
        /\ file[cur].offset \in Nat
    BY <1>1, Numbers DEF ThreadHas, WithFile, ThreadStates, ToldOnce
  <1>3. /\ cutoffs'[cur] = << file[cur].offset >> /\ cutoffs' \in [Files -> Seq(Nat)]
        /\ \A g \in Files : g # cur => cutoffs'[g] = cutoffs[g]
        /\ Len(cutoffs'[cur]) = 1 /\ cutoffs'[cur][1] = file[cur].offset
    <2>1. /\ cutoffs \in [Files -> Seq(Nat)]
          /\ Append(<< >>, file[cur].offset) = << file[cur].offset >>
      BY DEF FilesTypes
    <2> QED
      BY <1>1, <1>2, <2>1
  <1>4. FilesTypes' /\ ThreadHas'
    BY <1>1, <1>2, <1>3 DEF FilesTypes, ThreadHas, WithFile, ThreadStates
  <1>5. RefsCounted' /\ Quotas'
    BY <1>1 DEF RefsCounted, Quotas
  <1>6. OpenAndClosed'
    <2>1. fileRefs[cur] > 0
      BY <1>2 DEF RefsCounted, One
    <2>2. file[cur].open /\ ~Unopened.open
      BY <1>2, <2>1 DEF OpenAndClosed, Unopened
    <2> QED
      BY <1>1, <1>3, <2>2 DEF OpenAndClosed
  <1>7. Regions'
    BY <1>1 DEF Regions, End, WithRegion
  <1>8. ToldOnce'
    <2>1. \A r \in records : r.file = cur => End(r) <= file[cur].offset
      BY DEF Regions
    <2>2. pcT = "switchCutoff" => want.off + want.size <= file[cur].offset
      BY DEF Regions, WithRegion
    <2> QED
      BY <1>1, <1>2, <1>3, <2>1, <2>2 DEF ToldOnce, End
  <1> QED
    BY <1>4, <1>5, <1>6, <1>7, <1>8

(* The record is written to its region.                                    *)
LEMMA WriteRecordStep ==
  ASSUME FilesIInv, WriteRecord PROVE FilesIInv'
  <1> USE DEF FilesIInv
  <1> DEFINE new == [file |-> cur, off |-> want.off, size |-> want.size]
  <1>1. /\ pcT = "write" /\ pcT' = "finish" /\ records' = records \cup {new}
        /\ \/ file' = [file EXCEPT ![cur] = Written(@, want.off, want.size)]
           \/ file' = file
        /\ UNCHANGED << array, fileRefs, quotaExceeded, cur, want, pcC, cutoffs >>
    BY DEF WriteRecord
  <1>2. /\ cur \in Files /\ want.size \in Nat \ {0} /\ want.size \in RecordSizes
        /\ want.off \in Nat /\ want.off + want.size <= file[cur].offset
        /\ file[cur] \in FileRecord /\ file \in [Files -> FileRecord]
        /\ new \in [file : Files, off : Nat, size : RecordSizes]
    BY <1>1, Numbers, FilesAssumption
       DEF ThreadHas, WithFile, ThreadStates, Regions, WithRegion, FilesTypes
  <1>3. new.file = cur /\ new.off = want.off /\ End(new) = want.off + want.size
    BY DEF End
  <1> HIDE DEF new
  <1>4. file[cur].open /\ file[cur].term = -1
    <2>1. fileRefs[cur] > 0
      BY <1>2 DEF RefsCounted, One
    <2> QED
      BY <1>2, <2>1 DEF OpenAndClosed
  <1> DEFINE e == Written(file[cur], want.off, want.size)
  <1>5. /\ e \in FileRecord
        /\ e.open = file[cur].open /\ e.max = file[cur].max /\ e.switch = file[cur].switch
        /\ e.offset = file[cur].offset /\ e.term = file[cur].term
        /\ QuotaOf(file[cur]) => QuotaOf(e)
    BY <1>2, WrittenFacts
  <1>6. /\ file' \in [Files -> FileRecord]
        /\ \A g \in Files : file'[g] = file[g] \/ (g = cur /\ file'[g] = e)
    BY <1>1, <1>2, <1>5
  <1> HIDE DEF e
  <1>7. FilesTypes' /\ ThreadHas'
    BY <1>1, <1>2, <1>6 DEF FilesTypes, ThreadHas, WithFile, ThreadStates
  <1>8. RefsCounted'
    BY <1>1 DEF RefsCounted
  <1>9. OpenAndClosed'
    <2>1. e.open /\ file[cur].open /\ ~Unopened.open
      BY <1>4, <1>5 DEF Unopened
    <2> QED
      BY <1>1, <1>3, <1>5, <1>6, <2>1 DEF OpenAndClosed
  <1>10. Regions'
    <2>1. \A r \in records : End(r) \in Nat /\ r.off \in Nat /\ r.file \in Files
      BY Numbers
    <2>2. ASSUME NEW r \in records'
          PROVE  /\ End(r) <= file'[r.file].offset
                 /\ file'[r.file].term # -1 => End(r) <= file'[r.file].term
      <3>1. /\ r.file \in Files /\ End(r) <= file[r.file].offset
            /\ file[r.file].term # -1 => End(r) <= file[r.file].term
        BY <1>1, <1>2, <1>3, <1>4, <2>1 DEF Regions
      <3> QED
        BY <1>5, <1>6, <3>1
    <2>3. ASSUME NEW r \in records', NEW q \in records', r.file = q.file, r # q
          PROVE  End(r) <= q.off \/ End(q) <= r.off
      BY <1>1, <1>3, <2>3 DEF Regions, WithRegion
    <2> QED
      BY <1>1, <2>2, <2>3 DEF Regions, End, WithRegion
  <1>11. ToldOnce'
    <2>1. \A g \in Files : cutoffs[g] # << >> /\ new.file = g => End(new) <= cutoffs[g][1]
      BY <1>1, <1>3 DEF ToldOnce
    <2> QED
      BY <1>1, <2>1 DEF ToldOnce, End
  <1>12. Quotas'
    <2>1. \A g \in Files : QuotaOf(file'[g]) /\ (file'[g].open => SwitchOf(file'[g]))
      BY <1>2, <1>5, <1>6 DEF Quotas, SwitchOf, Limited
    <2> QED
      BY <2>1 DEF Quotas, QuotaOf, SwitchOf, Limited
  <1> QED
    BY <1>7, <1>8, <1>9, <1>10, <1>11, <1>12

----------------------------------------------------------------------------
(* The invariant.                                                          *)
LEMMA InitFiles == FilesInit => FilesIInv
  <1> SUFFICES ASSUME FilesInit PROVE FilesIInv
    OBVIOUS
  <1> USE FilesAssumption DEF FilesInit
  <1>1. Unopened \in FileRecord /\ ~Unopened.open /\ Unopened.max = Ignore
    BY DEF Unopened, FileRecord, Ignore
  <1>2. FilesTypes
    BY <1>1, EmptySeq DEF FilesTypes, ThreadStates
  <1>3. ThreadHas
    BY DEF ThreadHas, WithFile
  <1>4. RefsCounted
    BY DEF RefsCounted, Distinct, In, One
  <1>5. OpenAndClosed
    BY <1>1 DEF OpenAndClosed
  <1>6. Regions /\ ToldOnce
    BY DEF Regions, ToldOnce, WithRegion
  <1>7. Quotas
    BY <1>1 DEF Quotas, QuotaOf, Limited
  <1> QED
    BY <1>2, <1>3, <1>4, <1>5, <1>6, <1>7 DEF FilesIInv

LEMMA NextFiles == FilesIInv /\ [FilesNext]_filesVars => FilesIInv'
  <1> SUFFICES ASSUME FilesIInv, [FilesNext]_filesVars PROVE FilesIInv'
    OBVIOUS
  <1>1. CASE FilesNext
    BY <1>1, BeginStep, PickFileStep, ReserveOffsetStep, DropAndSwitchSteps, CutoffStep,
       GiveBackStep, WriteRecordStep, SetShadowFileStep, ReleaseCreatedStep, ReleaseAllStep
       DEF FilesNext, ThreadStep, ClientStep
  <1>2. CASE UNCHANGED filesVars
    BY <1>2 DEF filesVars, FilesIInv, FilesTypes, ThreadHas, RefsCounted, OpenAndClosed, Regions, End,
                ToldOnce, Quotas
  <1> QED
    BY <1>1, <1>2

(* The inductive invariant holds.                                          *)
THEOREM FilesAlways == FilesSpec => []FilesIInv
  BY InitFiles, NextFiles, PTL DEF FilesSpec

(* A record has room of its own, in a file that is open exactly as long as *)
(* somebody has it, and neither the file nor its records go beyond the     *)
(* quota, whatever the client asks for and whatever it does meanwhile.     *)
THEOREM RoomKeptAll == FilesSpec => []RoomKept
  <1>1. FilesIInv => RoomKept
    <2> SUFFICES ASSUME FilesIInv PROVE RoomKept
      OBVIOUS
    <2> USE DEF FilesIInv
    <2>1. FilesTypeOK
      BY DEF FilesTypes, FilesTypeOK, FileRecord
    <2>2. OpenWhileHeld
      BY DEF OpenAndClosed, RefsCounted, One, OpenWhileHeld, InArray, In
    <2>3. RecordsApart
      BY DEF Regions, RecordsApart, WithRegion
    <2>4. WithinQuota /\ SwitchInTime
      BY DEF Quotas, QuotaOf, SwitchOf, WithinQuota, SwitchInTime
    <2> QED
      BY <2>1, <2>2, <2>3, <2>4 DEF RoomKept, FilesIntact, QuotaKept
  <1> QED
    BY <1>1, FilesAlways, PTL

(* The offset the client is told for a file is told once and is final.     *)
THEOREM CutoffIsFinalAll == FilesSpec => []CutoffIsFinal
  <1>1. FilesIInv => CutoffIsFinal
    <2> SUFFICES ASSUME FilesIInv, NEW g \in Files
                 PROVE  /\ Len(cutoffs[g]) <= 1
                        /\ \A i \in DOMAIN cutoffs[g], r \in records :
                             r.file = g => End(r) <= cutoffs[g][i]
      BY DEF CutoffIsFinal
    <2>1. cutoffs[g] \in Seq(Nat)
      BY DEF FilesIInv, FilesTypes
    <2>2. CASE cutoffs[g] = << >>
      BY <2>2
    <2>3. CASE cutoffs[g] # << >>
      <3>1. Len(cutoffs[g]) = 1 /\ DOMAIN cutoffs[g] = {1}
        BY <2>1, <2>3, LenProperties DEF FilesIInv, ToldOnce
      <3> QED
        BY <2>3, <3>1 DEF FilesIInv, ToldOnce
    <2> QED
      BY <2>2, <2>3
  <1> QED
    BY <1>1, FilesAlways, PTL

(* The shadow thread takes no other file out of the array than the one it  *)
(* tried.                                                                  *)
THEOREM UntriedFileStaysAll == FilesSpec => UntriedFileStays
  <1>1. ASSUME FilesIInv, [FilesNext]_filesVars
        PROVE  [pcT' # pcT => \A g \in Files : InArray(g) /\ ~InArray(g)' => g = cur]_filesVars
    <2>1. CASE array' = array
      BY <2>1 DEF InArray
    <2>2. CASE UNCHANGED pcT
      BY <2>2
    <2>3. CASE IsCurrent(array) /\ TakeOut
      <3>1. \A g : In(array', g) <=> In(array, g) /\ g # cur
        BY <1>1, <2>3, TailIn DEF IsCurrent, TakeOut, FilesIInv, FilesTypes, RefsCounted
      <3> QED
        BY <3>1 DEF InArray, In
    <2> QED
      BY <1>1, <2>1, <2>2, <2>3
         DEF FilesNext, ThreadStep, ClientStep, NewRecord, PickFile, NoShadowFile, ReserveOffset,
             Drop, SwitchCheck, Switch, Cutoff, PutBack, WriteRecord, FinishRecord,
             SetShadowFile, ReleaseCreated, releaseAllShadowFiles, filesVars
  <1> QED
    BY <1>1, FilesAlways, PTL DEF FilesSpec, UntriedFileStays

----------------------------------------------------------------------------
(***************************************************************************)
(* ShadowRequests, for any operations, whatever their kinds,               *)
(* any length of the queue and any settings.  That a hook may return rests *)
(* on what is known of an operation whose data is still in the queue or in *)
(* the hands of the shadow thread: its event is not set, and its hook is   *)
(* at a place from which every way leads through a wait for it.            *)
(***************************************************************************)

Early == {"start", "check", "clean", "enqueue"}
Late  == {"return", "done"}
Data(o) == [op |-> o, what |-> "data"]

(* Every variable has its type, TypeOK in a form that the provers like,    *)
(* but for the references, which are counted below.                        *)
RequestsTypes ==
  /\ queue \in Seq(Entries) /\ Len(queue) <= QueueLimit
  /\ pcS \in {"idle", "chunk", "notify", "finish", "signal", "drop"}
  /\ IF pcS = "idle" THEN job = NoJob ELSE job \in Entries
  /\ left \in 0 .. MaxChunks /\ wrc \in {"ok", "failed"}
  /\ pcW \in [Ops -> Early \cup Late \cup
                     {"waitInside", "submitted", "waitSync", "original", "waitAsync",
                      "complete"}]
  /\ kind \in [Ops -> Kinds \cup {"write"}]
  /\ sync \in [Ops -> BOOLEAN] /\ shadowed \in [Ops -> BOOLEAN]
  /\ denied \in [Ops -> BOOLEAN] /\ event \in [Ops -> BOOLEAN]
  /\ ran \in [Ops -> BOOLEAN] /\ rc \in [Ops -> Results]
  /\ refs \in [Ops -> Int] /\ chunks \in [Ops -> 0 .. MaxChunks]
  /\ log \in Seq(Entries)

(* Where a hook is while its request, and its record, are on their way.    *)
OnItsWay(e) ==
  IF e.what = "data" THEN pcW[e.op] \notin Early /\ chunks[e.op] >= 1
                     ELSE pcW[e.op] \in Late

(* The queue and the thread have at most the data and then the record of   *)
(* an operation.                                                           *)
Ordered ==
  /\ \A i, j \in DOMAIN queue :
       i < j /\ queue[i].op = queue[j].op =>
         queue[i].what = "data" /\ queue[j].what = "completion"
  /\ pcS # "idle" =>
       \A i \in DOMAIN queue :
         queue[i].op = job.op => job.what = "data" /\ queue[i].what = "completion"
  /\ \A i \in DOMAIN queue : OnItsWay(queue[i])
  /\ pcS # "idle" => OnItsWay(job)
  /\ pcS \in {"chunk", "notify"} => left >= 1
  /\ pcS # "idle" /\ job.what = "completion" => left <= 1

(* Whose record has been written has nothing left to be written.           *)
Logged ==
  \A i \in DOMAIN log : log[i].what = "completion" =>
    /\ pcW[log[i].op] \in Late
    /\ \A j \in DOMAIN queue : queue[j].op # log[i].op
    /\ pcS # "idle" /\ job.op = log[i].op => job.what = "completion" /\ pcS # "chunk"
    /\ \A j \in DOMAIN log : i < j => log[j].op # log[i].op

(* What a hook knows at each of its places.                                *)
HookKnows ==
  \A o \in Ops :
    /\ pcW[o] \in Early => ~event[o]
    /\ ran[o] => pcW[o] \in {"waitAsync", "complete", "return", "done"}
    /\ kind[o] \notin Hooked => ~sync[o]
    /\ pcW[o] \in {"check", "waitInside", "waitSync", "original"} => kind[o] \in Hooked
    /\ pcW[o] = "clean" => kind[o] = "clean"
    /\ kind[o] \in Hooked =>
         /\ event[o] => rc[o] # "invalid"
         /\ pcW[o] \in {"original", "waitAsync"} /\ (sync[o] \/ ~shadowed[o]) =>
              rc[o] # "invalid"
         /\ pcW[o] \in {"complete", "return", "done"} => rc[o] # "invalid"

(* Until the thread has reported a request its hook has a wait before it.  *)
HookWaits ==
  /\ \A o \in Ops : Data(o) \in Unreported /\ kind[o] # "reclaim" =>
       /\ ~event[o] /\ shadowed[o]
       /\ pcW[o] \in {"waitInside", "submitted", "waitSync", "original", "waitAsync"}
       /\ pcW[o] \in {"original", "waitAsync"} => ~sync[o]
  /\ pcS = "signal" => WithEvent(job) /\ rc[job.op] # "invalid"

(* Every holder of a vnode has a reference.  Only the hook of a pageout    *)
(* without dirty pages leaves one behind, when it is past the submission.  *)
Kept(o) == IF o \in kept THEN 1 ELSE 0
RefsKept ==
  \A o \in Ops :
    /\ refs[o] = Holders(o) + Kept(o)
    /\ pcW[o] \in Early => o \notin kept

RequestsIInv == RequestsTypes /\ Ordered /\ Logged /\ HookKnows /\ HookWaits /\ RefsKept

----------------------------------------------------------------------------
(* An entry has an operation and says what it is for.                      *)
LEMMA EntryTypes ==
  /\ \A e \in Entries : e.op \in Ops /\ e.what \in {"data", "completion"}
  /\ \A e \in Entries : e = [op |-> e.op, what |-> e.what]
  /\ \A o \in Ops : Data(o) \in Entries /\ Data(o).op = o /\ Data(o).what = "data"
  /\ \A o \in Ops : [op |-> o, what |-> "completion"] \in Entries
  /\ NoJob.op \notin Ops /\ NoJob \notin Entries
  BY RequestsAssumption DEF Entries, Data, NoJob

(* The queue after an entry was appended, and after the first was taken.   *)
LEMMA QueueAppend ==
  ASSUME NEW s \in Seq(Entries), NEW e \in Entries
  PROVE  /\ Append(s, e) \in Seq(Entries) /\ Len(Append(s, e)) = Len(s) + 1
         /\ DOMAIN Append(s, e) = 1 .. Len(s) + 1 /\ DOMAIN s = 1 .. Len(s)
         /\ Len(s) \in Nat
         /\ \A i \in 1 .. Len(s) : Append(s, e)[i] = s[i]
         /\ Append(s, e)[Len(s) + 1] = e
  BY AppendProperties, LenProperties

LEMMA QueueTail ==
  ASSUME NEW s \in Seq(Entries), s # << >>
  PROVE  /\ Tail(s) \in Seq(Entries) /\ Len(Tail(s)) = Len(s) - 1
         /\ Head(s) \in Entries /\ Head(s) = s[1]
         /\ DOMAIN Tail(s) = 1 .. Len(s) - 1 /\ DOMAIN s = 1 .. Len(s)
         /\ Len(s) \in Nat \ {0} /\ 1 \in DOMAIN s
         /\ \A i \in 1 .. Len(s) - 1 : Tail(s)[i] = s[i + 1] /\ i + 1 \in DOMAIN s
  <1>1. Tail(s) \in Seq(Entries) /\ Len(Tail(s)) = Len(s) - 1 /\ Len(s) \in Nat \ {0}
    BY HeadTailProperties, EmptySeq
  <1>2. \A i \in 1 .. Len(s) - 1 : Tail(s)[i] = s[i + 1]
    BY <1>1, HeadTailProperties
  <1>3. DOMAIN Tail(s) = 1 .. Len(s) - 1 /\ DOMAIN s = 1 .. Len(s)
    BY <1>1, LenProperties
  <1>4. Head(s) = s[1] /\ Head(s) \in Entries
    BY HeadTailProperties
  <1> QED
    BY <1>1, <1>2, <1>3, <1>4

(* How many entries of a queue are those of an operation.                  *)
Of(s, o) == {i \in DOMAIN s : s[i].op = o}

LEMMA OfFinite ==
  ASSUME NEW s \in Seq(Entries), NEW o
  PROVE  IsFiniteSet(Of(s, o)) /\ Cardinality(Of(s, o)) \in Nat
  <1>1. IsFiniteSet(DOMAIN s)
    BY LenProperties, FS_Interval
  <1>2. Of(s, o) \subseteq DOMAIN s
    BY DEF Of
  <1> QED
    BY <1>1, <1>2, FS_Subset, FS_CardinalityType

LEMMA OfAppend ==
  ASSUME NEW s \in Seq(Entries), NEW e \in Entries, NEW o
  PROVE  Cardinality(Of(Append(s, e), o)) =
           Cardinality(Of(s, o)) + (IF e.op = o THEN 1 ELSE 0)
  <1>1. CASE e.op = o
    <2>1. Of(Append(s, e), o) = Of(s, o) \cup {Len(s) + 1} /\ Len(s) + 1 \notin Of(s, o)
      BY <1>1, QueueAppend DEF Of
    <2> QED
      BY <1>1, <2>1, OfFinite, FS_AddElement
  <1>2. CASE e.op # o
    <2>1. Of(Append(s, e), o) = Of(s, o)
      BY <1>2, QueueAppend DEF Of
    <2> QED
      BY <1>2, <2>1, OfFinite
  <1> QED
    BY <1>1, <1>2

LEMMA OfTail ==
  ASSUME NEW s \in Seq(Entries), s # << >>, NEW o
  PROVE  Cardinality(Of(Tail(s), o)) =
           Cardinality(Of(s, o)) - (IF Head(s).op = o THEN 1 ELSE 0)
  <1> DEFINE Rest == Of(s, o) \ {1}
             f == [i \in Rest |-> i - 1]
  <1>1. IsFiniteSet(Rest)
        /\ Cardinality(Rest) = Cardinality(Of(s, o)) - (IF Head(s).op = o THEN 1 ELSE 0)
    <2>1. 1 \in Of(s, o) <=> Head(s).op = o
      BY QueueTail DEF Of
    <2> QED
      BY <2>1, OfFinite, FS_RemoveElement
  <1>2. f \in Bijection(Rest, Of(Tail(s), o))
    <2>1. \A i \in Rest : i - 1 \in Of(Tail(s), o)
      BY QueueTail DEF Of
    <2>2. \A j \in Of(Tail(s), o) : j + 1 \in Rest /\ (j + 1) - 1 = j
      BY QueueTail DEF Of
    <2>3. \A i, j \in Rest : i - 1 = j - 1 => i = j
      BY QueueTail DEF Of
    <2>4. f \in [Rest -> Of(Tail(s), o)]
      BY <2>1
    <2>5. \A j \in Of(Tail(s), o) : f[j + 1] = j
      BY <2>2
    <2>6. f \in Injection(Rest, Of(Tail(s), o))
      BY <2>3, <2>4 DEF Injection, IsInjective
    <2>7. f \in Surjection(Rest, Of(Tail(s), o))
      BY <2>2, <2>4, <2>5 DEF Surjection
    <2> QED
      BY <2>6, <2>7 DEF Bijection
  <1>3. Cardinality(Of(Tail(s), o)) = Cardinality(Rest)
    BY <1>1, <1>2, FS_Bijection DEF ExistsBijection
  <1> QED
    BY <1>1, <1>3

----------------------------------------------------------------------------
(* The steps of a hook that are not a submission.                          *)
Quiet(o) ==
  \/ Start(o) \/ NothingToShadow(o) \/ NoShadowResources(o) \/ PrepareRequest(o)
  \/ NoDirtyPages(o) \/ EnqueueFails(o) \/ WaitInside(o) \/ Submitted(o)
  \/ SubmittedUnhooked(o) \/ WaitSync(o) \/ CallOriginal(o) \/ WaitAsync(o) \/ Return(o)

LEMMA QuietTypes ==
  ASSUME RequestsTypes, NEW o \in Ops, Quiet(o) PROVE RequestsTypes'
  <1> USE DEF RequestsTypes, GoTo, Result, Signal, Reference, Completed, Early, Late, Results,
              threadVars, hookVars
  <1>1. CASE Start(o)
    BY <1>1, RequestsAssumption DEF Start
  <1>2. CASE NothingToShadow(o)
    BY <1>2 DEF NothingToShadow
  <1>3. CASE NoShadowResources(o)
    BY <1>3 DEF NoShadowResources
  <1>4. CASE PrepareRequest(o)
    BY <1>4 DEF PrepareRequest
  <1>5. CASE NoDirtyPages(o)
    BY <1>5 DEF NoDirtyPages
  <1>6. CASE EnqueueFails(o)
    BY <1>6 DEF EnqueueFails
  <1>7. CASE WaitInside(o)
    BY <1>7 DEF WaitInside
  <1>8. CASE Submitted(o)
    BY <1>8, RequestsAssumption DEF Submitted
  <1>9. CASE SubmittedUnhooked(o)
    BY <1>9 DEF SubmittedUnhooked
  <1>10. CASE WaitSync(o)
    BY <1>10, RequestsAssumption DEF WaitSync
  <1>11. CASE CallOriginal(o)
    BY <1>11 DEF CallOriginal
  <1>12. CASE WaitAsync(o)
    BY <1>12 DEF WaitAsync
  <1>13. CASE Return(o)
    BY <1>13 DEF Return
  <1> QED
    BY <1>1, <1>2, <1>3, <1>4, <1>5, <1>6, <1>7, <1>8, <1>9, <1>10, <1>11, <1>12, <1>13
       DEF Quiet

(* Such a step leaves the queue and the thread alone, and it goes on.      *)
LEMMA QuietMoves ==
  ASSUME RequestsTypes, NEW o \in Ops, Quiet(o)
  PROVE  /\ UNCHANGED << queue, pcS, job, left, wrc, chunks, log >>
         /\ \A p \in Ops : p # o =>
              /\ pcW'[p] = pcW[p] /\ kind'[p] = kind[p] /\ sync'[p] = sync[p]
              /\ shadowed'[p] = shadowed[p] /\ event'[p] = event[p] /\ rc'[p] = rc[p]
         /\ pcW[o] \notin Early => pcW'[o] \notin Early /\ kind'[o] = kind[o]
         /\ pcW[o] \in Late => pcW'[o] \in Late
         /\ rc[o] # "invalid" => rc'[o] # "invalid"
  <1> USE DEF RequestsTypes, GoTo, Result, Signal, Reference, Completed, Early, Late, threadVars, hookVars
  <1>1. CASE Start(o)
    BY <1>1 DEF Start
  <1>2. CASE NothingToShadow(o)
    BY <1>2 DEF NothingToShadow
  <1>3. CASE NoShadowResources(o)
    BY <1>3 DEF NoShadowResources
  <1>4. CASE PrepareRequest(o)
    BY <1>4 DEF PrepareRequest
  <1>5. CASE NoDirtyPages(o)
    BY <1>5 DEF NoDirtyPages
  <1>6. CASE EnqueueFails(o)
    BY <1>6 DEF EnqueueFails
  <1>7. CASE WaitInside(o)
    BY <1>7 DEF WaitInside
  <1>8. CASE Submitted(o)
    BY <1>8 DEF Submitted
  <1>9. CASE SubmittedUnhooked(o)
    BY <1>9 DEF SubmittedUnhooked
  <1>10. CASE WaitSync(o)
    BY <1>10 DEF WaitSync
  <1>11. CASE CallOriginal(o)
    BY <1>11 DEF CallOriginal
  <1>12. CASE WaitAsync(o)
    BY <1>12 DEF WaitAsync
  <1>13. CASE Return(o)
    BY <1>13 DEF Return
  <1> QED
    BY <1>1, <1>2, <1>3, <1>4, <1>5, <1>6, <1>7, <1>8, <1>9, <1>10, <1>11, <1>12, <1>13
       DEF Quiet

LEMMA QuietOrdered ==
  ASSUME RequestsTypes, Ordered, Logged, NEW o \in Ops, Quiet(o) PROVE Ordered' /\ Logged'
  <1>1. /\ UNCHANGED << queue, pcS, job, left, wrc, chunks, log >>
        /\ \A p \in Ops : pcW[p] \notin Early => pcW'[p] \notin Early
        /\ \A p \in Ops : pcW[p] \in Late => pcW'[p] \in Late
    BY QuietMoves
  <1>2. \A e \in Entries : OnItsWay(e) => OnItsWay(e)'
    BY <1>1, EntryTypes DEF OnItsWay
  <1>3. \A i \in DOMAIN queue : queue[i] \in Entries
    BY LenProperties, ElementOfSeq DEF RequestsTypes
  <1>4. \A i \in DOMAIN log : log[i] \in Entries
    BY LenProperties, ElementOfSeq DEF RequestsTypes
  <1>5. Ordered'
    BY <1>1, <1>2, <1>3 DEF Ordered, RequestsTypes
  <1>6. Logged'
    BY <1>1, <1>4, EntryTypes DEF Logged
  <1> QED
    BY <1>5, <1>6

LEMMA QuietKnows ==
  ASSUME RequestsTypes, HookKnows, NEW o \in Ops, Quiet(o) PROVE HookKnows'
  <1> USE DEF RequestsTypes, HookKnows, GoTo, Result, Signal, Reference, Completed, Early, Late, Hooked,
              threadVars, hookVars
  <1>1. CASE Start(o)
    BY <1>1 DEF Start
  <1>2. CASE NothingToShadow(o)
    BY <1>2 DEF NothingToShadow
  <1>3. CASE NoShadowResources(o)
    BY <1>3 DEF NoShadowResources
  <1>4. CASE PrepareRequest(o)
    BY <1>4 DEF PrepareRequest
  <1>5. CASE NoDirtyPages(o)
    BY <1>5 DEF NoDirtyPages
  <1>6. CASE EnqueueFails(o)
    BY <1>6 DEF EnqueueFails
  <1>7. CASE WaitInside(o)
    BY <1>7 DEF WaitInside
  <1>8. CASE Submitted(o)
    BY <1>8 DEF Submitted
  <1>9. CASE SubmittedUnhooked(o)
    BY <1>9 DEF SubmittedUnhooked
  <1>10. CASE WaitSync(o)
    BY <1>10 DEF WaitSync
  <1>11. CASE CallOriginal(o)
    BY <1>11 DEF CallOriginal
  <1>12. CASE WaitAsync(o)
    BY <1>12 DEF WaitAsync
  <1>13. CASE Return(o)
    BY <1>13 DEF Return
  <1> QED
    BY <1>1, <1>2, <1>3, <1>4, <1>5, <1>6, <1>7, <1>8, <1>9, <1>10, <1>11, <1>12, <1>13
       DEF Quiet

(* Whose data are unreported has left the early places.                    *)
LEMMA UnreportedOnItsWay ==
  ASSUME RequestsTypes, Ordered, NEW o \in Ops, Data(o) \in Unreported
  PROVE  pcW[o] \notin Early /\ chunks[o] >= 1
  <1>1. CASE \E i \in DOMAIN queue : queue[i] = Data(o)
    BY <1>1, EntryTypes DEF Ordered, OnItsWay
  <1>2. CASE pcS # "idle" /\ job = Data(o)
    BY <1>2, EntryTypes DEF Ordered, OnItsWay
  <1> QED
    BY <1>1, <1>2 DEF Unreported

Waits(o) ==
  /\ ~event[o] /\ shadowed[o]
  /\ pcW[o] \in {"waitInside", "submitted", "waitSync", "original", "waitAsync"}
  /\ pcW[o] \in {"original", "waitAsync"} => ~sync[o]

LEMMA QuietWaits ==
  ASSUME RequestsTypes, Ordered, HookKnows, HookWaits, NEW o \in Ops, Quiet(o) PROVE HookWaits'
  <1>1. UNCHANGED << queue, pcS, job >> /\ Unreported' = Unreported
    BY QuietMoves DEF Unreported
  <1>3. ASSUME Waits(o), kind[o] # "reclaim" PROVE Waits(o)'
    <2> USE <1>3 DEF RequestsTypes, Waits, HookKnows, GoTo, Result, Signal, Hooked, threadVars, hookVars
    <2>14. kind[o] \in Hooked \cup {"open", "reclaim"}
      BY RequestsAssumption DEF AllKinds
    <2>1. CASE Start(o)
      BY <2>1 DEF Start
    <2>2. CASE NothingToShadow(o)
      BY <2>2 DEF NothingToShadow
    <2>3. CASE NoShadowResources(o)
      BY <2>3 DEF NoShadowResources
    <2>4. CASE PrepareRequest(o)
      BY <2>4 DEF PrepareRequest
    <2>5. CASE NoDirtyPages(o)
      BY <2>5 DEF NoDirtyPages
    <2>6. CASE EnqueueFails(o)
      BY <2>6 DEF EnqueueFails
    <2>7. CASE WaitInside(o)
      BY <2>7 DEF WaitInside
    <2>8. CASE Submitted(o)
      BY <2>8 DEF Submitted
    <2>9. CASE SubmittedUnhooked(o)
      BY <2>9, <2>14 DEF SubmittedUnhooked
    <2>10. CASE WaitSync(o)
      BY <2>10 DEF WaitSync
    <2>11. CASE CallOriginal(o)
      BY <2>11 DEF CallOriginal
    <2>12. CASE WaitAsync(o)
      BY <2>12 DEF WaitAsync
    <2>13. CASE Return(o)
      BY <2>13 DEF Return
    <2> QED
      BY <2>1, <2>2, <2>3, <2>4, <2>5, <2>6, <2>7, <2>8, <2>9, <2>10, <2>11, <2>12, <2>13
         DEF Quiet
  <1>4. ASSUME NEW p \in Ops, p # o PROVE Waits(p)' = Waits(p) /\ kind'[p] = kind[p]
    BY <1>4, QuietMoves DEF Waits
  <1>5. ASSUME NEW p \in Ops, Data(p) \in Unreported', kind'[p] # "reclaim" PROVE Waits(p)'
    <2>1. pcW[p] \notin Early
      BY <1>1, <1>5, UnreportedOnItsWay
    <2>2. kind'[p] = kind[p]
      BY <2>1, <1>4, QuietMoves
    <2>3. Waits(p)
      BY <1>1, <1>5, <2>2 DEF HookWaits, Waits
    <2> QED
      BY <1>3, <1>4, <1>5, <2>2, <2>3
  <1>6. ASSUME pcS' = "signal" PROVE (WithEvent(job) /\ rc[job.op] # "invalid")'
    <2>1. job \in Entries /\ WithEvent(job) /\ rc[job.op] # "invalid" /\ pcS = "signal"
      BY <1>1, <1>6 DEF HookWaits, RequestsTypes
    <2>2. job.op \in Ops /\ job = Data(job.op) /\ Data(job.op) \in Unreported
      BY <2>1, EntryTypes DEF WithEvent, Unreported, Data
    <2>3. pcW[job.op] \notin Early
      BY <2>2, UnreportedOnItsWay
    <2>4. kind'[job.op] = kind[job.op] /\ rc'[job.op] # "invalid"
      BY <2>1, <2>2, <2>3, QuietMoves
    <2> QED
      BY <1>1, <2>1, <2>4 DEF WithEvent
  <1> QED
    BY <1>5, <1>6 DEF HookWaits, Waits

----------------------------------------------------------------------------
(* The submissions.                                                        *)
LEMMA EnqueueStep ==
  ASSUME RequestsTypes, Ordered, Logged, HookKnows, HookWaits, NEW o \in Ops, Enqueue(o)
  PROVE  RequestsTypes' /\ Ordered' /\ Logged' /\ HookKnows' /\ HookWaits'
  <1>1. /\ pcW[o] = "enqueue" /\ pcW' \in [Ops -> {"waitInside", "submitted"} \cup
                                              {pcW[p] : p \in Ops}]
        /\ pcW'[o] = (IF kind[o] = "pageout" THEN "waitInside" ELSE "submitted")
        /\ \A p \in Ops : p # o => pcW'[p] = pcW[p]
    BY DEF Enqueue, GoTo, RequestsTypes
  <1>2. /\ queue' = Append(queue, Data(o)) /\ Data(o) \in Entries
        /\ \E n \in 1 .. MaxChunks : chunks' = [chunks EXCEPT ![o] = n]
        /\ shadowed' = [shadowed EXCEPT ![o] = TRUE]
        /\ refs' = [refs EXCEPT ![o] = @ + 1]
        /\ UNCHANGED << pcS, job, left, wrc, kind, sync, denied, event, rc, ran, log >>
    <2>1. PICK n \in 1 .. MaxChunks :
            chunks' = [chunks EXCEPT ![o] = IF kind[o] \in Hooked THEN n ELSE 1]
      BY DEF Enqueue
    <2>2. (IF kind[o] \in Hooked THEN n ELSE 1) \in 1 .. MaxChunks
      BY RequestsAssumption
    <2>3. \E m \in 1 .. MaxChunks : chunks' = [chunks EXCEPT ![o] = m]
      BY <2>1, <2>2
    <2> QED
      BY <2>3, EntryTypes DEF Enqueue, Reference, threadVars, Data
  <1>3. /\ DOMAIN queue' = 1 .. Len(queue) + 1 /\ DOMAIN queue = 1 .. Len(queue)
        /\ Len(queue) \in Nat /\ queue'[Len(queue) + 1] = Data(o)
        /\ \A i \in DOMAIN queue : queue'[i] = queue[i]
    BY <1>2, QueueAppend DEF RequestsTypes
  <1>4. /\ \A i \in DOMAIN queue : queue[i].op # o
        /\ pcS # "idle" => job.op # o
        /\ \A i \in DOMAIN log : log[i].what = "completion" => log[i].op # o
    BY <1>1 DEF Ordered, OnItsWay, Logged, Early, Late
  <1>5. RequestsTypes'
    <2>1. queue' \in Seq(Entries) /\ Len(queue') <= QueueLimit
      BY <1>2, QueueAppend, RequestsAssumption DEF RequestsTypes, Enqueue, HasRoom
    <2> QED
      BY <1>2, <2>1 DEF RequestsTypes, Enqueue, GoTo
  <1>6. Ordered'
    <2>1. \A e \in Entries : e.op # o /\ OnItsWay(e) => OnItsWay(e)'
      BY <1>1, <1>2, EntryTypes DEF OnItsWay, RequestsTypes
    <2>2. OnItsWay(Data(o))'
      BY <1>1, <1>2, EntryTypes DEF OnItsWay, RequestsTypes, Early
    <2>3. \A i \in DOMAIN queue : queue[i] \in Entries /\ OnItsWay(queue[i])
      BY <1>3, ElementOfSeq DEF Ordered, RequestsTypes
    <2>4. \A i \in DOMAIN queue' : i \in DOMAIN queue \/ i = Len(queue) + 1
      BY <1>3
    <2>5. \A i \in DOMAIN queue' : OnItsWay(queue[i])'
      BY <1>3, <1>4, <2>1, <2>2, <2>3, <2>4
    <2>6. pcS' # "idle" => OnItsWay(job)'
      BY <1>2, <1>4, <2>1 DEF Ordered, RequestsTypes
    <2>7. \A i, j \in DOMAIN queue' :
            i < j /\ queue'[i].op = queue'[j].op =>
              queue'[i].what = "data" /\ queue'[j].what = "completion"
      <3>1. SUFFICES ASSUME NEW i \in DOMAIN queue', NEW j \in DOMAIN queue', i < j,
                            queue'[i].op = queue'[j].op
                     PROVE  queue'[i].what = "data" /\ queue'[j].what = "completion"
        OBVIOUS
      <3>2. i \in DOMAIN queue
        BY <1>3, <3>1
      <3>3. j \in DOMAIN queue
        BY <1>2, <1>3, <1>4, <2>4, <3>1, <3>2, EntryTypes
      <3> QED
        BY <1>3, <3>1, <3>2, <3>3 DEF Ordered
    <2>8. pcS' # "idle" =>
            \A i \in DOMAIN queue' :
              queue'[i].op = job'.op => job'.what = "data" /\ queue'[i].what = "completion"
      BY <1>2, <1>3, <1>4, <2>4, EntryTypes DEF Ordered
    <2> QED
      BY <1>2, <2>5, <2>6, <2>7, <2>8 DEF Ordered
  <1>7. Logged'
    <2>1. \A i \in DOMAIN log : log[i].op \in Ops
      BY LenProperties, ElementOfSeq, EntryTypes DEF RequestsTypes
    <2> QED
      BY <1>1, <1>2, <1>3, <1>4, <2>1, EntryTypes DEF Logged
  <1>8. HookKnows'
    BY <1>1, <1>2 DEF HookKnows, RequestsTypes, Early, Hooked, Enqueue, GoTo
  <1>9. HookWaits'
    <2>1. ASSUME NEW p \in Ops, Data(p) \in Unreported', kind'[p] # "reclaim" PROVE Waits(p)'
      <3>1. CASE p = o
        BY <1>1, <1>2, <3>1 DEF Waits, HookKnows, Early, RequestsTypes
      <3>2. CASE p # o
        <4>1. Data(p) # Data(o)
          BY <3>2 DEF Data
        <4>2. Data(p) \in Unreported
          BY <1>2, <1>3, <2>1, <4>1 DEF Unreported
        <4>3. Waits(p)
          BY <1>2, <2>1, <4>2 DEF HookWaits, Waits
        <4> QED
          BY <1>1, <1>2, <3>2, <4>3 DEF Waits
      <3> QED
        BY <3>1, <3>2
    <2>2. pcS' = "signal" => (WithEvent(job) /\ rc[job.op] # "invalid")'
      BY <1>2 DEF HookWaits, WithEvent
    <2> QED
      BY <2>1, <2>2 DEF HookWaits, Waits
  <1> QED
    BY <1>5, <1>6, <1>7, <1>8, <1>9

LEMMA CompleteStep ==
  ASSUME RequestsTypes, Ordered, Logged, HookKnows, HookWaits, NEW o \in Ops, Complete(o)
  PROVE  RequestsTypes' /\ Ordered' /\ Logged' /\ HookKnows' /\ HookWaits'
  <1> DEFINE record == [op |-> o, what |-> "completion"]
  <1>1. /\ pcW[o] = "complete" /\ pcW'[o] = "return" /\ pcW' = [pcW EXCEPT ![o] = "return"]
        /\ \A p \in Ops : p # o => pcW'[p] = pcW[p]
        /\ UNCHANGED << pcS, job, left, wrc, kind, sync, shadowed, denied, event, rc, chunks,
                        ran, log >>
        /\ record \in Entries /\ record.op = o /\ record.what = "completion"
        /\ refs' = refs \/ refs' = [refs EXCEPT ![o] = @ + 1]
    BY EntryTypes DEF Complete, GoTo, Reference, RequestsTypes, threadVars
  <1>2. DOMAIN queue = 1 .. Len(queue) /\ Len(queue) \in Nat
    BY LenProperties DEF RequestsTypes
  <1>3. /\ \A i \in DOMAIN queue : queue[i].op = o => queue[i].what = "data"
        /\ pcS # "idle" /\ job.op = o => job.what = "data"
        /\ \A i \in DOMAIN log : log[i].what = "completion" => log[i].op # o
    <2>1. \A i \in DOMAIN queue : queue[i] \in Entries
      BY ElementOfSeq, <1>2 DEF RequestsTypes
    <2> QED
      BY <1>1, <2>1, EntryTypes DEF Ordered, OnItsWay, Logged, Late, RequestsTypes
  <1>4. \A e \in Entries : OnItsWay(e) => OnItsWay(e)'
    BY <1>1, EntryTypes DEF OnItsWay, Early, Late
  <1>5. HookKnows'
    BY <1>1 DEF HookKnows, RequestsTypes, Early, Hooked
  <1>6. CASE UNCHANGED queue
    <2>1. RequestsTypes'
      BY <1>1, <1>6 DEF RequestsTypes, Late
    <2>2. Ordered'
      BY <1>1, <1>4, <1>6, ElementOfSeq, <1>2 DEF Ordered, RequestsTypes
    <2>3. Logged'
      BY <1>1, <1>3, <1>6 DEF Logged
    <2>4. HookWaits'
      BY <1>1, <1>6 DEF HookWaits, Unreported, WithEvent
    <2> QED
      BY <1>5, <2>1, <2>2, <2>3, <2>4
  <1>7. CASE queue' = Append(queue, record) /\ HasRoom
    <2>1. /\ DOMAIN queue' = 1 .. Len(queue) + 1 /\ queue'[Len(queue) + 1] = record
          /\ \A i \in DOMAIN queue : queue'[i] = queue[i]
          /\ queue' \in Seq(Entries) /\ Len(queue') <= QueueLimit
      BY <1>1, <1>2, <1>7, QueueAppend, RequestsAssumption DEF RequestsTypes, HasRoom
    <2>2. RequestsTypes'
      BY <1>1, <2>1 DEF RequestsTypes, Late
    <2>3. OnItsWay(record)'
      BY <1>1 DEF OnItsWay, Late
    <2>4. \A i \in DOMAIN queue' : OnItsWay(queue[i])'
      <3>1. \A i \in DOMAIN queue : queue[i] \in Entries /\ OnItsWay(queue[i])
        BY <1>2, ElementOfSeq DEF Ordered, RequestsTypes
      <3>2. \A i \in DOMAIN queue' : i \in DOMAIN queue \/ i = Len(queue) + 1
        BY <1>2, <2>1
      <3> QED
        BY <1>4, <2>1, <2>3, <3>1, <3>2
    <2>5. Ordered'
      <3>1. \A i, j \in DOMAIN queue' :
              i < j /\ queue'[i].op = queue'[j].op =>
                queue'[i].what = "data" /\ queue'[j].what = "completion"
        BY <1>1, <1>2, <1>3, <2>1 DEF Ordered
      <3>2. pcS' # "idle" =>
              \A i \in DOMAIN queue' :
                queue'[i].op = job'.op => job'.what = "data" /\ queue'[i].what = "completion"
        BY <1>1, <1>2, <1>3, <2>1 DEF Ordered
      <3>3. pcS' # "idle" => OnItsWay(job)'
        BY <1>1, <1>4 DEF Ordered, RequestsTypes
      <3> QED
        BY <1>1, <2>4, <3>1, <3>2, <3>3 DEF Ordered
    <2>6. Logged'
      BY <1>1, <1>2, <1>3, <2>1 DEF Logged
    <2>7. HookWaits'
      <3>1. \A p \in Ops : Data(p) \in Unreported' => Data(p) \in Unreported
        BY <1>1, <1>2, <2>1 DEF Unreported, Data
      <3> QED
        BY <1>1, <3>1 DEF HookWaits, WithEvent
    <2> QED
      BY <1>5, <2>2, <2>5, <2>6, <2>7
  <1> QED
    BY <1>6, <1>7 DEF Complete

----------------------------------------------------------------------------
(* The shadow thread.                                                      *)
LEMMA DequeueStep ==
  ASSUME RequestsTypes, Ordered, Logged, HookKnows, HookWaits, Dequeue
  PROVE  RequestsTypes' /\ Ordered' /\ Logged' /\ HookKnows' /\ HookWaits'
  <1>1. /\ pcS = "idle" /\ queue # << >> /\ queue' = Tail(queue) /\ job' = queue[1]
        /\ left' = (IF queue[1].what = "data" THEN chunks[queue[1].op] ELSE 1)
        /\ wrc' = "ok" /\ pcS' = "chunk"
        /\ UNCHANGED << pcW, kind, sync, shadowed, denied, event, rc, refs, chunks, ran, log >>
    BY QueueTail DEF Dequeue, RequestsTypes, hookVars
  <1>2. /\ Tail(queue) \in Seq(Entries) /\ Len(Tail(queue)) = Len(queue) - 1
        /\ queue[1] \in Entries /\ Len(queue) \in Nat \ {0}
        /\ DOMAIN queue' = 1 .. Len(queue) - 1 /\ DOMAIN queue = 1 .. Len(queue)
        /\ \A i \in DOMAIN queue' : queue'[i] = queue[i + 1] /\ i + 1 \in DOMAIN queue
        /\ 1 \in DOMAIN queue
    BY <1>1, QueueTail DEF RequestsTypes
  <1>3. left' \in 1 .. MaxChunks /\ (queue[1].what = "completion" => left' <= 1)
    <2>1. queue[1].what = "data" => chunks[queue[1].op] >= 1
      BY <1>2 DEF Ordered, OnItsWay
    <2>2. chunks[queue[1].op] \in 0 .. MaxChunks /\ MaxChunks \in Nat \ {0}
      BY <1>2, EntryTypes, RequestsAssumption DEF RequestsTypes
    <2> QED
      BY <1>1, <2>1, <2>2
  <1>4. RequestsTypes'
    <2>1. Len(queue') <= QueueLimit
      BY <1>1, <1>2, RequestsAssumption DEF RequestsTypes
    <2> QED
      BY <1>1, <1>2, <1>3, <2>1 DEF RequestsTypes
  <1>5. Ordered'
    <2>1. \A e \in Entries : OnItsWay(e)' = OnItsWay(e)
      BY <1>1 DEF OnItsWay
    <2>2. \A i \in DOMAIN queue : queue[i] \in Entries /\ OnItsWay(queue[i])
      BY <1>2, ElementOfSeq DEF Ordered, RequestsTypes
    <2>3. \A i \in DOMAIN queue' : OnItsWay(queue[i])'
      BY <1>2, <2>1, <2>2
    <2>4. OnItsWay(job)'
      BY <1>1, <1>2, <2>1, <2>2
    <2>5. \A i, j \in DOMAIN queue' :
            i < j /\ queue'[i].op = queue'[j].op =>
              queue'[i].what = "data" /\ queue'[j].what = "completion"
      BY <1>2 DEF Ordered
    <2>6. \A i \in DOMAIN queue' :
            queue'[i].op = job'.op => job'.what = "data" /\ queue'[i].what = "completion"
      BY <1>1, <1>2 DEF Ordered
    <2> QED
      BY <1>1, <1>3, <2>3, <2>4, <2>5, <2>6 DEF Ordered
  <1>6. Logged'
    BY <1>1, <1>2 DEF Logged
  <1>7. HookKnows'
    BY <1>1 DEF HookKnows
  <1>8. HookWaits'
    <2>1. Unreported' \subseteq Unreported
      BY <1>1, <1>2 DEF Unreported
    <2> QED
      BY <1>1, <2>1 DEF HookWaits
  <1> QED
    BY <1>4, <1>5, <1>6, <1>7, <1>8

LEMMA WriteSteps ==
  ASSUME RequestsTypes, Ordered, Logged, HookKnows, HookWaits,
         ChunkFails \/ WriteChunk \/ NotifyClient
  PROVE  RequestsTypes' /\ Ordered' /\ Logged' /\ HookKnows' /\ HookWaits'
  <1>1. /\ UNCHANGED << queue, job, pcW, kind, sync, shadowed, denied, event, rc, refs,
                        chunks, ran >>
        /\ pcS \in {"chunk", "notify"} /\ pcS' \in {"chunk", "notify", "finish"}
        /\ wrc' \in {"ok", "failed"} /\ left' \in 0 .. MaxChunks /\ left' <= left
        /\ pcS' \in {"chunk", "notify"} => left' >= 1
        /\ pcS' = "chunk" => left > 1
        /\ job \in Entries
        /\ \/ UNCHANGED log
           \/ pcS = "chunk" /\ log' = Append(log, job)
    <2> USE RequestsAssumption, EntryTypes DEF RequestsTypes, Ordered, hookVars
    <2>1. CASE ChunkFails
      BY <2>1 DEF ChunkFails
    <2>2. CASE WriteChunk
      BY <2>2 DEF WriteChunk
    <2>3. CASE NotifyClient
      BY <2>3 DEF NotifyClient
    <2> QED
      BY <2>1, <2>2, <2>3
  <1>2. /\ log' \in Seq(Entries) /\ DOMAIN log = 1 .. Len(log) /\ Len(log) \in Nat
        /\ \/ UNCHANGED log
           \/ /\ pcS = "chunk" /\ DOMAIN log' = 1 .. Len(log) + 1
              /\ \A i \in 1 .. Len(log) : log'[i] = log[i]
              /\ log'[Len(log) + 1] = job
    <2>1. log \in Seq(Entries) /\ DOMAIN log = 1 .. Len(log) /\ Len(log) \in Nat
      BY LenProperties DEF RequestsTypes
    <2>2. CASE UNCHANGED log
      BY <2>1, <2>2
    <2>3. CASE pcS = "chunk" /\ log' = Append(log, job)
      BY <1>1, <2>1, <2>3, QueueAppend
    <2> QED
      BY <1>1, <2>2, <2>3
  <1>3. RequestsTypes'
    BY <1>1, <1>2 DEF RequestsTypes
  <1>4. Ordered'
    <2>1. \A e \in Entries : OnItsWay(e)' = OnItsWay(e)
      BY <1>1 DEF OnItsWay
    <2>2. (\A i \in DOMAIN queue : OnItsWay(queue[i]))' /\ OnItsWay(job)'
      BY <1>1, <2>1, ElementOfSeq, LenProperties DEF Ordered, RequestsTypes
    <2>3. job.what = "completion" => left' <= 1
      BY <1>1 DEF Ordered, RequestsTypes
    <2> QED
      BY <1>1, <2>2, <2>3 DEF Ordered
  <1>5. Logged'
    <2>1. ASSUME NEW i \in DOMAIN log', log'[i].what = "completion", i \in DOMAIN log
          PROVE  /\ pcW[log'[i].op] \in Late
                 /\ \A j \in DOMAIN queue : queue[j].op # log'[i].op
                 /\ job.op = log'[i].op => job.what = "completion" /\ pcS' # "chunk"
                 /\ \A j \in DOMAIN log' : i < j => log'[j].op # log'[i].op
      <3>1. log'[i] = log[i]
        BY <1>2, <2>1
      <3>2. job.op = log[i].op => job.what = "completion" /\ pcS # "chunk"
        BY <1>1, <2>1, <3>1 DEF Logged
      <3>3. job.op = log[i].op => pcS' # "chunk"
        BY <1>1, <3>2 DEF Ordered, RequestsTypes
      <3>4. \A j \in DOMAIN log' : i < j => log'[j].op # log'[i].op
        BY <1>2, <2>1, <3>1, <3>2 DEF Logged
      <3> QED
        BY <1>2, <2>1, <3>1, <3>2, <3>3, <3>4 DEF Logged
    <2>2. ASSUME NEW i \in DOMAIN log', log'[i].what = "completion", i \notin DOMAIN log
          PROVE  /\ pcW[log'[i].op] \in Late
                 /\ \A j \in DOMAIN queue : queue[j].op # log'[i].op
                 /\ job.op = log'[i].op => job.what = "completion" /\ pcS' # "chunk"
                 /\ \A j \in DOMAIN log' : i < j => log'[j].op # log'[i].op
      <3>1. log'[i] = job /\ pcS = "chunk" /\ \A j \in DOMAIN log' : ~ i < j
        BY <1>2, <2>2
      <3>2. pcW[job.op] \in Late /\ \A j \in DOMAIN queue : queue[j].op # job.op
        BY <2>2, <3>1 DEF Ordered, OnItsWay
      <3>3. pcS' # "chunk"
        BY <1>1, <2>2, <3>1 DEF Ordered, RequestsTypes
      <3> QED
        BY <2>2, <3>1, <3>2, <3>3
    <2> QED
      BY <1>1, <2>1, <2>2 DEF Logged
  <1>6. HookKnows'
    BY <1>1 DEF HookKnows
  <1>7. HookWaits'
    <2>1. Unreported' = Unreported
      BY <1>1 DEF Unreported
    <2> QED
      BY <1>1, <2>1 DEF HookWaits
  <1> QED
    BY <1>3, <1>4, <1>5, <1>6, <1>7

LEMMA ReportSteps ==
  ASSUME RequestsTypes, Ordered, Logged, HookKnows, HookWaits, Finish \/ SignalHook \/ DropReference
  PROVE  RequestsTypes' /\ Ordered' /\ Logged' /\ HookKnows' /\ HookWaits'
  <1>1. /\ pcS \in {"finish", "signal", "drop"} /\ pcS' \in {"signal", "drop", "idle"}
        /\ job \in Entries /\ job.op \in Ops
        /\ UNCHANGED << queue, pcW, kind, sync, shadowed, denied, chunks, ran, log >>
        /\ pcS' # "idle" => UNCHANGED << job, left >>
        /\ RequestsTypes'
    <2> USE EntryTypes DEF RequestsTypes
    <2>1. CASE Finish
      <3>1. pcS = "finish" /\ pcS' \in {"signal", "drop"} /\ job \in Entries
            /\ UNCHANGED << queue, job, left, wrc, pcW, kind, sync, shadowed, denied, event,
                            refs, chunks, ran, log >>
            /\ (rc' = rc \/ rc' = [rc EXCEPT ![job.op] = wrc])
        BY <2>1 DEF Finish, Result
      <3>2. rc \in [Ops -> Results] /\ wrc \in Results
        BY DEF Results
      <3>3. rc' \in [Ops -> Results]
        <4> HIDE DEF RequestsTypes
        <4> QED
          BY <3>1, <3>2, Zenon
      <3> QED
        BY <3>1, <3>3
    <2>2. CASE SignalHook
      BY <2>2 DEF SignalHook, Signal
    <2>3. CASE DropReference
      BY <2>3, RequestsAssumption DEF DropReference
    <2> QED
      BY <2>1, <2>2, <2>3
  <1>2. Ordered'
    <2>1. \A e \in Entries : OnItsWay(e)' = OnItsWay(e)
      BY <1>1 DEF OnItsWay
    <2>2. (\A i \in DOMAIN queue : OnItsWay(queue[i]))' /\ (pcS' # "idle" => OnItsWay(job)')
      BY <1>1, <2>1, ElementOfSeq, LenProperties DEF Ordered, RequestsTypes
    <2> QED
      BY <1>1, <2>2 DEF Ordered
  <1>3. Logged'
    BY <1>1 DEF Logged
  <1>4. HookKnows' /\ HookWaits'
    <2>1. CASE Finish
      <3>1. HookKnows'
        BY <1>1, <2>1 DEF Finish, Result, HookKnows, RequestsTypes, Hooked
      <3>2. Unreported' \subseteq Unreported
        BY <1>1, <2>1 DEF Finish, Unreported
      <3>3. pcS' = "signal" => (WithEvent(job) /\ rc[job.op] # "invalid")'
        BY <1>1, <2>1 DEF Finish, Result, WithEvent, RequestsTypes
      <3> QED
        BY <1>1, <2>1, <3>1, <3>2, <3>3 DEF HookWaits, Finish
    <2>2. CASE SignalHook
      <3>1. /\ WithEvent(job) /\ rc[job.op] # "invalid" /\ pcS' = "drop"
            /\ event' = [event EXCEPT ![job.op] = TRUE] /\ UNCHANGED rc
            /\ pcW[job.op] \notin Early
        BY <1>1, <2>2 DEF SignalHook, Signal, HookWaits, Ordered, OnItsWay, WithEvent
      <3>2. HookKnows'
        BY <1>1, <3>1 DEF HookKnows, RequestsTypes
      <3>3. \A p \in Ops : Data(p) \in Unreported' => Data(p) \in Unreported /\ p # job.op
        BY <1>1, <3>1, EntryTypes DEF Unreported, Ordered
      <3> QED
        BY <1>1, <3>1, <3>2, <3>3 DEF HookWaits, RequestsTypes
    <2>3. CASE DropReference
      <3>1. pcS' = "idle" /\ Unreported' = Unreported /\ UNCHANGED << event, rc >>
        BY <1>1, <2>3 DEF DropReference, Unreported
      <3> QED
        BY <1>1, <3>1 DEF HookKnows, HookWaits
    <2> QED
      BY <2>1, <2>2, <2>3
  <1> QED
    BY <1>1, <1>2, <1>3, <1>4

----------------------------------------------------------------------------
(* The references.                                                         *)
Hook(o)    == IF pcW[o] \in {"start", "done"} THEN 0 ELSE 1
StillQueued(o) == Cardinality(Of(queue, o))
Thread(o)  == IF job.op = o THEN 1 ELSE 0

(* The holders of a vnode, before and after a step.                        *)
LEMMA HoldersAre ==
  ASSUME RequestsTypes, RequestsTypes', NEW o
  PROVE  /\ Holders(o) = Hook(o) + StillQueued(o) + Thread(o)
         /\ Holders(o)' = Hook(o)' + StillQueued(o)' + Thread(o)'
         /\ Hook(o) \in Nat /\ StillQueued(o) \in Nat /\ Thread(o) \in Nat
         /\ Hook(o)' \in Nat /\ StillQueued(o)' \in Nat /\ Thread(o)' \in Nat
  <1>1. /\ Holders(o) = Hook(o) + StillQueued(o) + Thread(o)
        /\ Holders(o)' = Hook(o)' + StillQueued(o)' + Thread(o)'
    BY DEF Holders, Hook, StillQueued, Of, Thread
  <1>2. StillQueued(o) \in Nat
    BY OfFinite DEF RequestsTypes, StillQueued
  <1>3. StillQueued(o)' \in Nat
    <2>1. StillQueued(o)' = Cardinality(Of(queue', o)) /\ queue' \in Seq(Entries)
      BY DEF StillQueued, Of, RequestsTypes
    <2> QED
      BY <2>1, OfFinite
  <1> QED
    BY <1>1, <1>2, <1>3 DEF Hook, Thread

(* The references are kept when each changes with the number of holders    *)
(* and with what is left behind.                                           *)
LEMMA RefsFollow ==
  ASSUME RequestsTypes, RequestsTypes', RefsKept,
         \A p \in Ops :
           /\ refs'[p] - refs[p] = (Hook(p)' - Hook(p)) + (StillQueued(p)' - StillQueued(p))
                                     + (Thread(p)' - Thread(p)) + (Kept(p)' - Kept(p))
           /\ pcW'[p] \in Early => p \notin kept'
  PROVE  RefsKept'
  <1> SUFFICES ASSUME NEW p \in Ops PROVE refs'[p] = Holders(p)' + Kept(p)'
    BY DEF RefsKept
  <1>1. /\ refs[p] \in Int /\ refs'[p] \in Int
        /\ Kept(p) \in Int /\ Kept(p)' \in Int
    BY DEF RequestsTypes, Kept
  <1>2. refs[p] = Holders(p) + Kept(p)
    BY DEF RefsKept
  <1> QED
    BY <1>1, <1>2, HoldersAre

LEMMA QuietRefs ==
  ASSUME RequestsTypes, RequestsTypes', HookKnows, RefsKept, NEW o \in Ops, Quiet(o) PROVE RefsKept'
  <1>1. UNCHANGED << queue, job >> /\ \A p \in Ops : p # o => pcW'[p] = pcW[p]
    BY QuietMoves
  <1>2. \A p : StillQueued(p)' = StillQueued(p) /\ Thread(p)' = Thread(p)
    BY <1>1 DEF StillQueued, Of, Thread
  <1>3. \/ refs' = refs /\ Hook(o)' = Hook(o)
        \/ refs' = [refs EXCEPT ![o] = @ + 1] /\ Hook(o)' = Hook(o) + 1
        \/ refs' = [refs EXCEPT ![o] = @ - 1] /\ Hook(o)' = Hook(o) - 1
        \/ /\ refs' = [refs EXCEPT ![o] = @ + 1] /\ Hook(o)' = Hook(o)
           /\ NoDirtyPages(o)
    <2> USE DEF RequestsTypes, GoTo, Result, Signal, Reference, Completed, Hook, threadVars, hookVars
    <2>1. CASE Start(o)
      BY <2>1 DEF Start
    <2>2. CASE NothingToShadow(o)
      BY <2>2 DEF NothingToShadow
    <2>3. CASE NoShadowResources(o)
      BY <2>3 DEF NoShadowResources
    <2>4. CASE PrepareRequest(o)
      BY <2>4 DEF PrepareRequest
    <2>5. CASE NoDirtyPages(o)
      BY <2>5 DEF NoDirtyPages
    <2>6. CASE EnqueueFails(o)
      BY <2>6 DEF EnqueueFails
    <2>7. CASE WaitInside(o)
      BY <2>7 DEF WaitInside
    <2>8. CASE Submitted(o)
      BY <2>8 DEF Submitted
    <2>9. CASE SubmittedUnhooked(o)
      BY <2>9 DEF SubmittedUnhooked
    <2>10. CASE WaitSync(o)
      BY <2>10 DEF WaitSync
    <2>11. CASE CallOriginal(o)
      BY <2>11 DEF CallOriginal
    <2>12. CASE WaitAsync(o)
      BY <2>12 DEF WaitAsync
    <2>13. CASE Return(o)
      BY <2>13 DEF Return
    <2> QED
      BY <2>1, <2>2, <2>3, <2>4, <2>5, <2>6, <2>7, <2>8, <2>9, <2>10, <2>11, <2>12, <2>13
         DEF Quiet
  <1>4. \/ kept' = kept /\ ~NoDirtyPages(o)
        \/ kept' = kept \cup {o} /\ NoDirtyPages(o) /\ o \notin kept /\ pcW'[o] \notin Early
    <2>1. CASE NoDirtyPages(o)
      BY <2>1 DEF NoDirtyPages, Completed, GoTo, RefsKept, RequestsTypes, Early
    <2>2. CASE ~NoDirtyPages(o)
      BY <2>2 DEF Quiet, Start, NothingToShadow, NoShadowResources, PrepareRequest, EnqueueFails,
                  WaitInside, Submitted, SubmittedUnhooked, WaitSync, CallOriginal, WaitAsync,
                  Return
    <2> QED
      BY <2>1, <2>2
  <1>5. ASSUME NEW p \in Ops, p # o
        PROVE  /\ refs'[p] = refs[p] /\ Hook(p)' = Hook(p) /\ Kept(p)' = Kept(p)
               /\ pcW'[p] \in Early => p \notin kept'
    BY <1>1, <1>3, <1>4, <1>5 DEF RequestsTypes, Hook, Kept, RefsKept
  <1>6. \A p \in Ops : /\ refs[p] \in Int /\ Hook(p) \in Nat /\ Hook(p)' \in Nat
                       /\ StillQueued(p) \in Nat /\ Thread(p) \in Nat
                       /\ Kept(p) \in Nat /\ Kept(p)' \in Nat
    BY HoldersAre DEF RequestsTypes, Kept
  <1>7. refs'[o] - refs[o] = (Hook(o)' - Hook(o)) + (Kept(o)' - Kept(o))
    <2>1. refs \in [Ops -> Int]
      BY DEF RequestsTypes
    <2>2. CASE NoDirtyPages(o)
      <3>1. refs' = [refs EXCEPT ![o] = @ + 1]
        BY <2>2 DEF NoDirtyPages, Reference
      <3>2. Hook(o)' = Hook(o)
        BY <2>2 DEF NoDirtyPages, Completed, GoTo, Hook, RequestsTypes
      <3>3. Kept(o) = 0 /\ Kept(o)' = 1
        BY <1>4, <2>2 DEF Kept
      <3> QED
        BY <1>6, <2>1, <3>1, <3>2, <3>3
    <2>3. CASE ~NoDirtyPages(o)
      <3>1. Kept(o)' = Kept(o)
        BY <1>4, <2>3 DEF Kept
      <3> QED
        BY <1>3, <1>6, <2>1, <2>3, <3>1
    <2> QED
      BY <2>2, <2>3
  <1>8. pcW'[o] \in Early => o \notin kept'
    <2>1. pcW'[o] \in Early => pcW[o] \in Early
      BY QuietMoves
    <2> QED
      BY <1>4, <2>1 DEF RefsKept
  <1>9. \A p \in Ops :
           /\ refs'[p] - refs[p] = (Hook(p)' - Hook(p)) + (StillQueued(p)' - StillQueued(p))
                                     + (Thread(p)' - Thread(p)) + (Kept(p)' - Kept(p))
           /\ pcW'[p] \in Early => p \notin kept'
    <2> TAKE p \in Ops
    <2>1. CASE p = o
      BY <1>2, <1>6, <1>7, <1>8, <2>1
    <2>2. CASE p # o
      BY <1>2, <1>5, <1>6, <2>2
    <2> QED
      BY <2>1, <2>2
  <1> QED
    BY <1>9, RefsFollow

LEMMA SubmitRefs ==
  ASSUME RequestsTypes, RequestsTypes', RefsKept, NEW o \in Ops, Enqueue(o) \/ Complete(o) PROVE RefsKept'
  <1>1. /\ UNCHANGED << job, kept >> /\ \A p \in Ops : Hook(p)' = Hook(p)
        /\ \A p \in Ops : pcW'[p] \in Early => pcW[p] \in Early
        /\ \/ UNCHANGED << queue, refs >>
           \/ /\ refs' = [refs EXCEPT ![o] = @ + 1]
              /\ \E e \in Entries : e.op = o /\ queue' = Append(queue, e)
    <2>1. CASE Enqueue(o)
      BY <2>1, EntryTypes
      DEF Enqueue, GoTo, Reference, Hook, RequestsTypes, threadVars, Data, Early
    <2>2. CASE Complete(o)
      <3>1. /\ UNCHANGED << job, kept >> /\ pcW[o] = "complete" /\ pcW' = [pcW EXCEPT ![o] = "return"]
            /\ \/ UNCHANGED << queue, refs >>
               \/ /\ refs' = [refs EXCEPT ![o] = @ + 1]
                  /\ queue' = Append(queue, [op |-> o, what |-> "completion"])
        BY <2>2 DEF Complete, GoTo, Reference, threadVars
      <3>2. \A p \in Ops : Hook(p)' = Hook(p) /\ (pcW'[p] \in Early => pcW[p] \in Early)
        BY <3>1 DEF Hook, RequestsTypes, Early
      <3> QED
        BY <3>1, <3>2, EntryTypes
    <2> QED
      BY <2>1, <2>2
  <1>2. \A p : Thread(p)' = Thread(p)
    BY <1>1 DEF Thread
  <1>3. ASSUME NEW p \in Ops
        PROVE  refs'[p] - refs[p] = (Hook(p)' - Hook(p)) + (StillQueued(p)' - StillQueued(p))
                                     + (Thread(p)' - Thread(p))
    <2>1. refs[p] \in Int /\ Hook(p) \in Nat /\ StillQueued(p) \in Nat /\ Thread(p) \in Nat
      BY HoldersAre DEF RequestsTypes
    <2>2. CASE UNCHANGED << queue, refs >>
      <3>1. StillQueued(p)' = StillQueued(p)
        BY <2>2 DEF StillQueued, Of
      <3> QED
        BY <1>1, <1>2, <2>2, <2>1, <3>1
    <2>3. ASSUME NEW e \in Entries, e.op = o, queue' = Append(queue, e),
                 refs' = [refs EXCEPT ![o] = @ + 1]
          PROVE  refs'[p] - refs[p] = (Hook(p)' - Hook(p)) + (StillQueued(p)' - StillQueued(p))
                                       + (Thread(p)' - Thread(p))
      <3>1. StillQueued(p)' = StillQueued(p) + (IF o = p THEN 1 ELSE 0)
        <4>1. StillQueued(p)' = Cardinality(Of(Append(queue, e), p))
          BY <2>3 DEF StillQueued, Of
        <4> QED
          BY <2>3, <4>1, OfAppend DEF RequestsTypes, StillQueued
      <3>2. refs'[p] = refs[p] + (IF o = p THEN 1 ELSE 0) /\ refs[p] \in Int
        BY <2>3 DEF RequestsTypes
      <3> QED
        BY <1>1, <1>2, <2>1, <3>1, <3>2
    <2> QED
      BY <1>1, <2>2, <2>3
  <1>4. \A p \in Ops : /\ Kept(p) \in Nat /\ Kept(p)' = Kept(p)
                       /\ pcW'[p] \in Early => p \notin kept'
    BY <1>1 DEF Kept, RefsKept
  <1>5. \A p \in Ops : /\ refs[p] \in Int /\ refs'[p] \in Int
                       /\ Hook(p) \in Nat /\ StillQueued(p) \in Nat /\ Thread(p) \in Nat
                       /\ Hook(p)' \in Nat /\ StillQueued(p)' \in Nat /\ Thread(p)' \in Nat
    BY HoldersAre DEF RequestsTypes
  <1> QED
    BY <1>3, <1>4, <1>5, RefsFollow

LEMMA ThreadRefs ==
  ASSUME RequestsTypes, RequestsTypes', RefsKept, ThreadWorks PROVE RefsKept'
  <1>1. UNCHANGED << pcW, kept >>
    BY DEF ThreadWorks, Dequeue, ChunkFails, WriteChunk, NotifyClient, Finish, SignalHook,
           DropReference
  <1>2. /\ \A p : Hook(p)' = Hook(p)
        /\ \A p \in Ops : /\ Kept(p) \in Nat /\ Kept(p)' = Kept(p)
                          /\ pcW'[p] \in Early => p \notin kept'
    BY <1>1 DEF Hook, Kept, RefsKept
  <1>3. CASE Dequeue
    <2>1. /\ queue # << >> /\ job.op \notin Ops /\ job' = Head(queue)
          /\ queue' = Tail(queue) /\ UNCHANGED refs
      BY <1>3, EntryTypes DEF Dequeue, RequestsTypes, hookVars
    <2>2. ASSUME NEW p \in Ops
          PROVE  StillQueued(p)' + Thread(p)' = StillQueued(p) + Thread(p)
      <3>1. StillQueued(p)' = StillQueued(p) - (IF Head(queue).op = p THEN 1 ELSE 0)
        <4>1. StillQueued(p)' = Cardinality(Of(Tail(queue), p))
          BY <2>1 DEF StillQueued, Of
        <4> QED
          BY <2>1, <4>1, OfTail DEF RequestsTypes, StillQueued
      <3>2. Thread(p) = 0 /\ Thread(p)' = (IF Head(queue).op = p THEN 1 ELSE 0)
        BY <2>1 DEF Thread
      <3> QED
        BY <3>1, <3>2, HoldersAre
    <2>3. \A p \in Ops : /\ refs[p] \in Int /\ Hook(p) \in Nat
                         /\ StillQueued(p) \in Nat /\ Thread(p) \in Nat
                         /\ StillQueued(p)' \in Nat /\ Thread(p)' \in Nat
      BY HoldersAre DEF RequestsTypes
    <2> QED
      BY <1>2, <2>1, <2>2, <2>3, RefsFollow
  <1>4. CASE ChunkFails \/ WriteChunk \/ NotifyClient \/ Finish \/ SignalHook
    <2>1. UNCHANGED << queue, job, refs >>
      BY <1>4 DEF ChunkFails, WriteChunk, NotifyClient, Finish, SignalHook, hookVars
    <2>2. \A p : StillQueued(p)' = StillQueued(p) /\ Thread(p)' = Thread(p)
      BY <2>1 DEF StillQueued, Of, Thread
    <2>3. \A p \in Ops : /\ refs[p] \in Int /\ Hook(p) \in Nat
                         /\ StillQueued(p) \in Nat /\ Thread(p) \in Nat
      BY HoldersAre DEF RequestsTypes
    <2> QED
      BY <1>2, <2>1, <2>2, <2>3, RefsFollow
  <1>5. CASE DropReference
    <2>1. /\ job.op \in Ops /\ refs' = [refs EXCEPT ![job.op] = @ - 1]
          /\ job'.op \notin Ops /\ UNCHANGED queue
      BY <1>5, EntryTypes DEF DropReference, RequestsTypes
    <2>2. \A p : StillQueued(p)' = StillQueued(p)
      BY <2>1 DEF StillQueued, Of
    <2>3. \A p \in Ops : Thread(p) = (IF job.op = p THEN 1 ELSE 0) /\ Thread(p)' = 0
      BY <2>1 DEF Thread
    <2>4. \A p \in Ops : /\ refs[p] \in Int /\ Hook(p) \in Nat /\ StillQueued(p) \in Nat
                         /\ refs'[p] = refs[p] - (IF job.op = p THEN 1 ELSE 0)
      <3> TAKE p \in Ops
      <3>1. refs'[p] = refs[p] - (IF job.op = p THEN 1 ELSE 0) /\ refs[p] \in Int
        BY <2>1 DEF RequestsTypes
      <3> QED
        BY <3>1, HoldersAre
    <2> QED
      BY <1>2, <2>2, <2>3, <2>4, RefsFollow
  <1> QED
    BY <1>3, <1>4, <1>5 DEF ThreadWorks

----------------------------------------------------------------------------
(* The invariant.                                                          *)
LEMMA InitRequests == Init => RequestsIInv
  <1> SUFFICES ASSUME Init PROVE RequestsIInv
    OBVIOUS
  <1> USE RequestsAssumption DEF Init
  <1>1. RequestsTypes
    BY EmptySeq DEF RequestsTypes, Early, Late, Results
  <1>2. Ordered /\ Logged
    BY DEF Ordered, Logged
  <1>3. HookKnows
    BY DEF HookKnows, Early, Hooked
  <1>4. HookWaits
    BY DEF HookWaits, Unreported
  <1>5. RefsKept
    <2>1. \A o : Of(queue, o) = {}
      BY DEF Of
    <2>2. ASSUME NEW o \in Ops PROVE Holders(o) = 0 /\ refs[o] = 0
      <3>1. Cardinality({i \in DOMAIN queue : queue[i].op = o}) = 0
        BY <2>1, FS_EmptySet DEF Of
      <3> QED
        BY <3>1, EntryTypes DEF Holders
    <2> QED
      BY <2>2 DEF RefsKept, Kept
  <1> QED
    BY <1>1, <1>2, <1>3, <1>4, <1>5 DEF RequestsIInv

LEMMA NextRequests == RequestsIInv /\ [Next]_vars => RequestsIInv'
  <1> SUFFICES ASSUME RequestsIInv, [Next]_vars PROVE RequestsIInv'
    OBVIOUS
  <1> USE DEF RequestsIInv
  <1>1. ASSUME NEW o \in Ops, Quiet(o) PROVE RequestsIInv'
    <2>1. RequestsTypes' /\ Ordered' /\ Logged' /\ HookKnows' /\ HookWaits'
      BY <1>1, QuietTypes, QuietOrdered, QuietKnows, QuietWaits
    <2> QED
      BY <1>1, <2>1, QuietRefs
  <1>2. ASSUME NEW o \in Ops, Enqueue(o) \/ Complete(o) PROVE RequestsIInv'
    <2>1. RequestsTypes' /\ Ordered' /\ Logged' /\ HookKnows' /\ HookWaits'
      BY <1>2, EnqueueStep, CompleteStep
    <2> QED
      BY <1>2, <2>1, SubmitRefs
  <1>3. CASE ThreadWorks
    <2>1. RequestsTypes' /\ Ordered' /\ Logged' /\ HookKnows' /\ HookWaits'
      BY <1>3, DequeueStep, WriteSteps, ReportSteps DEF ThreadWorks
    <2> QED
      BY <1>3, <2>1, ThreadRefs
  <1>4. CASE UNCHANGED vars
    BY <1>4 DEF vars, threadVars, hookVars, RequestsTypes, Ordered, OnItsWay, Logged, HookKnows,
                HookWaits, Unreported, WithEvent, RefsKept, Kept, Holders
  <1> QED
    BY <1>1, <1>2, <1>3, <1>4 DEF Next, HookWorks, Quiet

(* The inductive invariant holds.                                          *)
THEOREM RequestsAlways == Spec => []RequestsIInv
  BY InitRequests, NextRequests, PTL DEF Spec

(* The frame of a hook, with its event and its result code, outlives the   *)
(* entry that points to it, and what the hook finds there is a result, for *)
(* all kinds of operations.                                                *)
LEMMA FrameHeld == RequestsIInv => FrameOutlives
  <1> SUFFICES ASSUME RequestsIInv PROVE FrameOutlives
    OBVIOUS
  <1> USE DEF RequestsIInv
  <1>1. \A o \in Ops : refs[o] \in Nat
    <2> TAKE o \in Ops
    <2>1. Cardinality({i \in DOMAIN queue : queue[i].op = o}) \in Nat
      BY OfFinite DEF Of, RequestsTypes
    <2>2. refs[o] \in Int /\ refs[o] = Holders(o) + Kept(o)
      BY DEF RequestsTypes, RefsKept
    <2> QED
      BY <2>1, <2>2 DEF Holders, Kept
  <1>2. TypeOK
    BY <1>1, EntryTypes, RequestsAssumption
       DEF TypeOK, RequestsTypes, Early, Late, AllKinds, Hooked
  <1>3. StackAlive
    <2> SUFFICES ASSUME NEW e \in Unreported, WithEvent(e)
                 PROVE  pcW[e.op] \notin {"complete", "return", "done"}
      BY DEF StackAlive
    <2>1. e \in Entries
      BY ElementOfSeq, LenProperties DEF Unreported, RequestsTypes
    <2>2. e = Data(e.op) /\ e.op \in Ops /\ kind[e.op] # "reclaim"
      BY <2>1, EntryTypes DEF WithEvent, Data
    <2>3. pcW[e.op] \in {"waitInside", "submitted", "waitSync", "original", "waitAsync"}
      BY <2>2 DEF HookWaits
    <2> QED
      BY <2>3
  <1>4. ResultKnown
    BY DEF ResultKnown, HookKnows
  <1> QED
    BY <1>2, <1>3, <1>4 DEF FrameOutlives

(* The frame of a hook outlives the queue entry that points to it, for     *)
(* operations of every kind.                                               *)
THEOREM FrameOutlivesAll == Spec => []FrameOutlives
  BY RequestsAlways, FrameHeld, PTL

(* For operations of every kind: each holder of a vnode has its reference, *)
(* and each reference its holder but the one that a pageout without dirty  *)
(* pages leaves behind; what the frame of the hook is used for is over     *)
(* before it goes.                                                         *)
THEOREM RequestHeldAll == Spec => []RequestHeld
  <1>1. RequestsIInv => RequestHeld
    BY FrameHeld DEF RequestHeld, VnodeReferences, RequestsIInv, RefsKept, Kept
  <1> QED
    BY <1>1, RequestsAlways, PTL

(* With the synchronous shadowing no original operation runs while its     *)
(* data are in the queue or in the hands of the shadow thread.             *)
THEOREM OriginalAfterShadowAll == Spec => []OriginalAfterShadow
  <1>1. RequestsIInv => OriginalAfterShadow
    <2> SUFFICES ASSUME RequestsIInv, NEW e \in Unreported, e.what = "data", sync[e.op], ran[e.op]
                 PROVE  FALSE
      BY DEF OriginalAfterShadow
    <2>1. e \in Entries
      BY ElementOfSeq, LenProperties DEF Unreported, RequestsTypes, RequestsIInv
    <2>2. e = Data(e.op) /\ e.op \in Ops
      BY <2>1, EntryTypes DEF Data
    <2>3. kind[e.op] # "reclaim" /\ pcW[e.op] \in {"waitAsync", "complete", "return", "done"}
      BY <2>2 DEF RequestsIInv, HookKnows, Hooked
    <2> QED
      BY <2>2, <2>3 DEF RequestsIInv, HookWaits
  <1> QED
    BY <1>1, RequestsAlways, PTL

(* In the shadow files nothing of an operation stands behind its           *)
(* completion record.                                                      *)
THEOREM CompletionLastAll == Spec => []CompletionLast
  <1>1. RequestsIInv => CompletionLast
    BY DEF RequestsIInv, Logged, CompletionLast
  <1> QED
    BY <1>1, RequestsAlways, PTL

----------------------------------------------------------------------------
(***************************************************************************)
(* ScsiTasks.  A shadowed command keeps its task, is reported once, for any*)
(* number of requests, tasks and completers, if an owner does not execute  *)
(* a request again before the callback has returned.  Then a request has   *)
(* one task at most, the first that the callback finds in the list is its  *)
(* own, and the two references of the task are those of the list and of    *)
(* the callback.                                                           *)
(***************************************************************************)

Places ==
  {"owner", "create", "hook", "enqueue", "wait", "decide", "device", "deny", "callback"}
CallbackPlaces ==
  {"idle", "find", "wait", "record", "restore", "call", "release1", "release2", "free1",
   "free2", "unlink1", "unlink2", "return"}

(* Where a completer has a task in its hands.                              *)
Inside == {"wait", "record", "restore", "call", "release1", "release2", "free2", "unlink2"}
Uses(k, d) == pcK[k] \in Inside /\ task[k] = d

(* How many references and completion records its task has then, where the *)
(* request is and whose callback it has.                                   *)
RefsAt(place) ==
  IF place \in {"wait", "record", "restore", "call", "release1"} THEN 2
  ELSE IF place = "release2" THEN 1 ELSE 0
RecordsAt(place) == IF place \in {"wait", "record"} THEN 0 ELSE 1
WhereAt(place) ==
  IF place \in {"find", "wait", "record", "restore", "call"} THEN "callback" ELSE "owner"
CallbackAt(place) ==
  IF place \in {"find", "wait", "record", "restore"} THEN "hook" ELSE "owner"

(* The list holds the tasks that live, each once.                          *)
Listed ==
  /\ IsInjective(list)
  /\ \A d \in Tasks : Live(d) <=> d \in Range(list)

(* The thread that executes a request has a task while it prepares it, and *)
(* a callback that is replaced is replaced for a task.                     *)
Prepared ==
  \A r \in Requests :
    /\ where[r] \in {"hook", "enqueue"} => mine[r] \in Tasks /\ req[mine[r]] = r
    /\ where[r] \notin {"hook", "enqueue"} => mine[r] = NoTask
    /\ where[r] \in {"owner", "create", "hook"} => callback[r] = "owner"
    /\ where[r] \in {"create", "hook", "enqueue"} => answer[r] = "none"
    /\ callback[r] = "hook" => \E d \in Tasks : req[d] = r
    /\ where[r] = "callback" => \E k \in Completers : of[k] = r

(* Where a completer is, its request and its task are.                     *)
Called ==
  \A k \in Completers :
    /\ pcK[k] \notin {"free1", "unlink1"}
    /\ pcK[k] = "idle" => of[k] = NoRequest
    /\ pcK[k] # "idle" => of[k] \in Requests /\ where[of[k]] = WhereAt(pcK[k])
                                           /\ callback[of[k]] = CallbackAt(pcK[k])

(* The task of a completer.                                                *)
Held ==
  \A k \in Completers :
    pcK[k] \in Inside =>
      /\ task[k] \in Tasks /\ req[task[k]] = of[k]
      /\ taskRefs[task[k]] = RefsAt(pcK[k])
      /\ recorded[task[k]] = RecordsAt(pcK[k])
      /\ pcK[k] # "wait" => shadow[task[k]] # "pending"

(* A request has one completer and one task at most.                       *)
OneCompleter == \A k, l \in Completers : of[k] = of[l] /\ of[k] # NoRequest => k = l
OneTask == \A d, e \in Tasks : req[d] = req[e] /\ Live(d) => d = e

(* What a task that lives is for.                                          *)
Tasked ==
  \A d \in Tasks : Live(d) =>
    /\ use[d] = uses[req[d]]
    /\ where[req[d]] # "create"
    /\ where[req[d]] \in {"hook", "enqueue"} => mine[req[d]] = d /\ shadow[d] = "pending"
    /\ where[req[d]] \in {"enqueue", "wait", "decide", "device", "deny"} =>
         callback[req[d]] = "hook"
    /\ where[req[d]] # "hook" => original[d] = "owner"
    /\ where[req[d]] = "owner" => \E k \in Completers : Uses(k, d)
    /\ (\A k \in Completers : ~Uses(k, d)) => taskRefs[d] = 1 /\ recorded[d] = 0

(* The queue of the worker has tasks that wait for their data.             *)
Waiting(d) ==
  /\ d \in Tasks /\ Live(d) /\ shadow[d] = "pending"
  /\ where[req[d]] \in {"wait", "decide", "device", "deny", "callback"}
  /\ strict => where[req[d]] = "wait" /\ answer[req[d]] = "none"

InQueue ==
  /\ IsInjective(taskQueue) /\ copied \notin Range(taskQueue)
  /\ \A d \in Range(taskQueue) : Waiting(d)

(* What the worker is doing.                                               *)
AtWork ==
  /\ pcTask \in {"copy", "signal"} => Waiting(copied) /\ asker = req[copied]
  /\ pcTask \notin {"copy", "signal"} => copied = NoTask
  /\ pcTask \in {"signal", "answer"} => taskRc \in {"ok", "failed"}
  /\ pcTask = "answer" =>
       /\ strict /\ asker \in Requests /\ where[asker] = "wait" /\ answer[asker] = "none"
       /\ \A d \in Tasks : req[d] = asker => shadow[d] # "pending"

TasksIInv ==
  /\ ScsiTypeOK /\ Listed /\ Prepared /\ Called /\ Held /\ OneCompleter /\ OneTask /\ Tasked
  /\ InQueue /\ AtWork /\ RefusedIfUnshadowed

----------------------------------------------------------------------------
(* One element less in a sequence without repetitions.                     *)
LEMMA RemovedOnce ==
  ASSUME NEW S, NEW s \in Seq(S), NEW n \in DOMAIN s, NEW u, u = RemoveAt(s, n),
         IsInjective(s)
  PROVE  u \in Seq(S) /\ IsInjective(u) /\ Range(u) = Range(s) \ {s[n]}
  <1> DEFINE a == SubSeq(s, 1, n - 1)
             b == SubSeq(s, n + 1, Len(s))
  <1>1. /\ n \in 1 .. Len(s) /\ Len(s) \in Nat /\ DOMAIN s = 1 .. Len(s)
        /\ \A i \in 1 .. Len(s) : s[i] \in S
    OBVIOUS
  <1>2. a \in Seq(S) /\ Len(a) = n - 1 /\ \A i \in 1 .. n - 1 : a[i] = s[i]
    <2>1. n - 1 \in Int /\ \A i \in 1 .. n - 1 : s[i] \in S
      BY <1>1
    <2> QED
      BY <1>1, <2>1, SubSeqProperties
  <1>3. b \in Seq(S) /\ Len(b) = Len(s) - n /\ \A i \in 1 .. Len(s) - n : b[i] = s[n + i]
    <2>1. n + 1 \in Int /\ Len(s) \in Int /\ \A i \in n + 1 .. Len(s) : s[i] \in S
      BY <1>1
    <2>2. \A i \in 1 .. Len(s) - n : n + 1 + i - 1 = n + i
      BY <1>1
    <2> QED
      BY <1>1, <2>1, <2>2, SubSeqProperties
  <1>4. u = a \o b
    BY DEF RemoveAt
  <1> HIDE DEF a, b
  <1>5. /\ u \in Seq(S) /\ Len(u) = Len(s) - 1 /\ DOMAIN u = 1 .. Len(s) - 1
        /\ \A i \in 1 .. Len(s) - 1 : u[i] = IF i <= n - 1 THEN a[i] ELSE b[i - (n - 1)]
    <2>1. /\ u \in Seq(S) /\ Len(u) = Len(a) + Len(b)
          /\ \A i \in 1 .. Len(a) + Len(b) : u[i] = IF i <= Len(a) THEN a[i] ELSE b[i - Len(a)]
      <3>1. a \in Seq(S) /\ b \in Seq(S)
        BY <1>2, <1>3
      <3>2. /\ a \o b \in Seq(S) /\ Len(a \o b) = Len(a) + Len(b)
            /\ \A i \in 1 .. Len(a) + Len(b) :
                 (a \o b)[i] = IF i <= Len(a) THEN a[i] ELSE b[i - Len(a)]
        BY <3>1, ConcatProperties, Zenon
      <3> QED
        BY <1>4, <3>2, Zenon
    <2>2. Len(a) = n - 1 /\ Len(a) + Len(b) = Len(s) - 1
      BY <1>1, <1>2, <1>3
    <2> QED
      BY <2>1, <2>2
  <1>6. \A i \in 1 .. Len(s) - 1 : u[i] = IF i < n THEN s[i] ELSE s[i + 1]
    <2> SUFFICES ASSUME NEW i \in 1 .. Len(s) - 1
                 PROVE  u[i] = IF i < n THEN s[i] ELSE s[i + 1]
      OBVIOUS
    <2>1. CASE i < n
      BY <1>1, <1>2, <1>5, <2>1
    <2>2. CASE i >= n
      <3>1. i - (n - 1) \in 1 .. Len(s) - n /\ n + (i - (n - 1)) = i + 1
            /\ ~(i <= n - 1) /\ ~(i < n)
        BY <1>1, <2>2
      <3>2. u[i] = b[i - (n - 1)]
        BY <1>5, <3>1
      <3>3. b[i - (n - 1)] = s[n + (i - (n - 1))]
        BY <1>3, <3>1
      <3> QED
        BY <3>1, <3>2, <3>3
    <2> QED
      BY <1>1, <2>1, <2>2
  <1>7. ASSUME NEW i \in DOMAIN u, NEW j \in DOMAIN u, u[i] = u[j] PROVE i = j
    <2>1. PICK p \in DOMAIN s : u[i] = s[p] /\ p = IF i < n THEN i ELSE i + 1
      BY <1>1, <1>5, <1>6
    <2>2. PICK q \in DOMAIN s : u[j] = s[q] /\ q = IF j < n THEN j ELSE j + 1
      BY <1>1, <1>5, <1>6
    <2>3. p = q
      BY <1>7, <2>1, <2>2 DEF IsInjective
    <2> QED
      BY <1>1, <1>5, <2>1, <2>2, <2>3
  <1>8. ASSUME NEW e
        PROVE  e \in Range(u) <=> e # s[n] /\ e \in Range(s)
    <2>1. ASSUME NEW i \in DOMAIN u, u[i] = e
          PROVE  e # s[n] /\ e \in Range(s)
      <3>1. PICK j \in DOMAIN s : u[i] = s[j] /\ j = IF i < n THEN i ELSE i + 1
        BY <1>1, <1>5, <1>6
      <3>2. j # n
        BY <1>1, <1>5, <3>1
      <3>3. s[j] # s[n]
        BY <3>2 DEF IsInjective
      <3> QED
        BY <2>1, <3>1, <3>3 DEF Range
    <2>2. ASSUME e # s[n], NEW j \in DOMAIN s, s[j] = e
          PROVE  e \in Range(u)
      <3>1. CASE j < n
        <4>1. j \in DOMAIN u /\ u[j] = e
          BY <1>1, <1>5, <1>6, <2>2, <3>1
        <4> QED
          BY <4>1 DEF Range
      <3>2. CASE j > n
        <4>1. j - 1 \in DOMAIN u /\ u[j - 1] = e
          BY <1>1, <1>5, <1>6, <2>2, <3>2
        <4> QED
          BY <4>1 DEF Range
      <3> QED
        BY <1>1, <2>2, <3>1, <3>2
    <2> QED
      BY <2>1, <2>2 DEF Range
  <1> QED
    BY <1>5, <1>7, <1>8 DEF IsInjective

(* One element more at the end, and one less at the front.                 *)
LEMMA AppendedOnce ==
  ASSUME NEW S, NEW s \in Seq(S), NEW e \in S, IsInjective(s), e \notin Range(s)
  PROVE  /\ Append(s, e) \in Seq(S) /\ IsInjective(Append(s, e))
         /\ Range(Append(s, e)) = Range(s) \cup {e}
  <1> SUFFICES ASSUME NEW u, u = Append(s, e)
               PROVE  u \in Seq(S) /\ IsInjective(u) /\ Range(u) = Range(s) \cup {e}
    BY Zenon
  <1>1. /\ DOMAIN s = 1 .. Len(s) /\ Len(s) \in Nat /\ u \in Seq(S)
        /\ DOMAIN u = 1 .. Len(s) + 1 /\ u[Len(s) + 1] = e
        /\ \A i \in 1 .. Len(s) : u[i] = s[i]
    OBVIOUS
  <1>2. ASSUME NEW i \in DOMAIN u, NEW j \in DOMAIN u, u[i] = u[j] PROVE i = j
    <2>1. \A m \in 1 .. Len(s) : u[m] # e
      BY <1>1 DEF Range
    <2>2. CASE i \in DOMAIN s /\ j \in DOMAIN s
      BY <1>1, <1>2, <2>2 DEF IsInjective
    <2>3. CASE i = Len(s) + 1
      BY <1>1, <1>2, <2>1, <2>3
    <2>4. CASE j = Len(s) + 1
      BY <1>1, <1>2, <2>1, <2>4
    <2> QED
      BY <1>1, <2>2, <2>3, <2>4
  <1>3. Range(u) = Range(s) \cup {e}
    <2>1. ASSUME NEW x \in Range(u) PROVE x \in Range(s) \cup {e}
      BY <1>1 DEF Range
    <2>2. ASSUME NEW i \in DOMAIN s PROVE s[i] \in Range(u)
      <3>1. i \in DOMAIN u /\ u[i] = s[i]
        BY <1>1
      <3> QED
        BY <3>1 DEF Range
    <2>3. e \in Range(u)
      <3>1. Len(s) + 1 \in DOMAIN u
        BY <1>1
      <3> QED
        BY <1>1, <3>1 DEF Range
    <2> QED
      BY <2>1, <2>2, <2>3 DEF Range
  <1> QED
    BY <1>1, <1>2, <1>3 DEF IsInjective

LEMMA TailOnce ==
  ASSUME NEW S, NEW s \in Seq(S), s # << >>, NEW u, u = Tail(s), IsInjective(s)
  PROVE  /\ u \in Seq(S) /\ IsInjective(u) /\ Head(s) \in S
         /\ Head(s) \in Range(s) /\ Range(u) = Range(s) \ {Head(s)}
  <1>1. /\ DOMAIN s = 1 .. Len(s) /\ Len(s) \in Nat \ {0} /\ u \in Seq(S)
        /\ DOMAIN u = 1 .. Len(s) - 1 /\ Head(s) = s[1]
        /\ \A i \in 1 .. Len(s) - 1 : u[i] = s[i + 1]
    OBVIOUS
  <1>2. ASSUME NEW i \in DOMAIN u, NEW j \in DOMAIN u, u[i] = u[j] PROVE i = j
    BY <1>1, <1>2 DEF IsInjective
  <1>3. 1 \in DOMAIN s
    BY <1>1
  <1>4. ASSUME NEW i \in DOMAIN u PROVE u[i] \in Range(s) \ {s[1]}
    <2>1. i + 1 \in DOMAIN s /\ i + 1 # 1 /\ u[i] = s[i + 1]
      BY <1>1
    <2>2. s[i + 1] # s[1]
      BY <1>3, <2>1 DEF IsInjective
    <2> QED
      BY <2>1, <2>2 DEF Range
  <1>5. ASSUME NEW j \in DOMAIN s, s[j] # s[1] PROVE s[j] \in Range(u)
    <2>1. j - 1 \in DOMAIN u /\ u[j - 1] = s[j]
      BY <1>1, <1>5
    <2> QED
      BY <2>1 DEF Range
  <1> QED
    BY <1>1, <1>2, <1>3, <1>4, <1>5 DEF IsInjective, Range

LEMMA WithoutIs ==
  ASSUME ScsiTypeOK, Listed, NEW d \in Tasks, Live(d)
  PROVE  /\ Without(d) \in Seq(Tasks) /\ IsInjective(Without(d))
         /\ Range(Without(d)) = Range(list) \ {d}
  <1> DEFINE n == CHOOSE i \in DOMAIN list : list[i] = d
  <1>1. n \in DOMAIN list /\ list[n] = d
    BY DEF Listed, Range
  <1>2. list \in Seq(Tasks) /\ IsInjective(list)
    BY DEF ScsiTypeOK, Listed
  <1>3. Without(d) = RemoveAt(list, n)
    BY DEF Without
  <1> HIDE DEF n
  <1> QED
    BY <1>1, <1>2, <1>3, RemovedOnce

LEMMA InitTasks == ASSUME ScsiInit PROVE TasksIInv
  <1> USE ScsiAssumption DEF ScsiInit
  <1>1. ScsiTypeOK
    <2>1. /\ where \in [Requests -> Places] /\ uses \in [Requests -> 0 .. MaxUses]
          /\ callback \in [Requests -> {"owner", "hook"}]
          /\ mine \in [Requests -> Tasks \cup {NoTask}]
          /\ answer \in [Requests -> {"none", "ok", "failed"}]
      BY DEF Places
    <2>2. /\ use \in [Tasks -> 0 .. MaxUses] /\ recorded \in [Tasks -> Nat]
          /\ list \in Seq(Tasks) /\ taskQueue \in Seq(Tasks)
      OBVIOUS
    <2> QED
      BY <2>1, <2>2 DEF ScsiTypeOK, Places
  <1>2. Listed /\ Prepared /\ Called /\ OneCompleter /\ OneTask /\ RefusedIfUnshadowed
    BY DEF Listed, Prepared, Called, OneCompleter, OneTask, RefusedIfUnshadowed, Live,
           IsInjective, Range, WhereAt, CallbackAt
  <1>3. Held /\ Tasked /\ InQueue /\ AtWork
    BY DEF Held, Tasked, InQueue, AtWork, Live, Inside, IsInjective, Range
  <1> QED
    BY <1>1, <1>2, <1>3 DEF TasksIInv

(* What waits in the queue or is at work stays so.                         *)
LEMMA QueueKept ==
  ASSUME TasksIInv, UNCHANGED << strict, workerVars >>,
         \A d \in Tasks : Waiting(d) => Waiting(d)' /\ req'[d] = req[d],
         \A r \in Requests : where[r] = "wait" /\ answer[r] = "none" =>
           where'[r] = "wait" /\ answer'[r] = "none",
         \A d \in Tasks : req'[d] \in Requests /\ where[req'[d]] = "wait" =>
           req[d] = req'[d] /\ shadow'[d] = shadow[d]
  PROVE  InQueue' /\ AtWork'
  <1>1. InQueue'
    <2>1. taskQueue' = taskQueue /\ copied' = copied
      BY DEF workerVars
    <2>2. ASSUME NEW d \in Range(taskQueue) PROVE Waiting(d)'
      BY DEF TasksIInv, InQueue, Waiting
    <2> QED
      BY <2>1, <2>2 DEF TasksIInv, InQueue
  <1>2. AtWork'
    BY DEF TasksIInv, ScsiTypeOK, AtWork, Waiting, workerVars
  <1> QED
    BY <1>1, <1>2

LEMMA ExecuteKeeps ==
  ASSUME TasksIInv, NEW r \in Requests, Execute(r), ~early'
  PROVE  TasksIInv'
  <1>1. PICK place \in {"deny", "device", "create"} : where' = [where EXCEPT ![r] = place]
    BY DEF Execute, At
  <1>2. /\ where[r] = "owner" /\ uses[r] < MaxUses /\ \A k \in Completers : of[k] # r
        /\ uses' = [uses EXCEPT ![r] = @ + 1] /\ answer' = [answer EXCEPT ![r] = "none"]
        /\ UNCHANGED << strict, callback, mine, taskVars, workerVars, frameVars >>
    BY DEF Execute
  <1> USE <1>1, <1>2 DEF TasksIInv
  <1>3. ScsiTypeOK'
    <2>1. /\ where' \in [Requests -> Places] /\ uses' \in [Requests -> 0 .. MaxUses]
          /\ answer' \in [Requests -> {"none", "ok", "failed"}]
      BY ScsiAssumption DEF ScsiTypeOK, Places
    <2> QED
      BY <2>1 DEF ScsiTypeOK, Places, taskVars, workerVars, frameVars
  <1>4. (Listed /\ OneCompleter /\ OneTask)'
    BY DEF Listed, Live, OneCompleter, OneTask, taskVars, frameVars
  <1>5. Prepared'
    BY DEF ScsiTypeOK, Prepared, taskVars, frameVars
  <1>6. (Called /\ Held)'
    BY DEF ScsiTypeOK, Called, Held, Inside, taskVars, frameVars, WhereAt, CallbackAt
  <1>7. \A d \in Tasks : req[d] # r
    <2> SUFFICES ASSUME NEW d \in Tasks, req[d] = r PROVE FALSE
      OBVIOUS
    <2>1. PICK k \in Completers : Uses(k, d)
      BY ScsiAssumption DEF Tasked, Live
    <2> QED
      BY <2>1 DEF Held, Uses
  <1>8. Tasked'
    BY <1>7 DEF ScsiTypeOK, Tasked, Uses, Live, taskVars, frameVars
  <1>9. InQueue' /\ AtWork'
    BY <1>7, QueueKept DEF ScsiTypeOK, Waiting, Live, taskVars, workerVars
  <1>10. RefusedIfUnshadowed'
    BY DEF ScsiTypeOK, RefusedIfUnshadowed
  <1> QED
    BY <1>3, <1>4, <1>6, <1>8, <1>9, <1>10, <1>5

LEMMA CreateKeeps ==
  ASSUME TasksIInv, NEW r \in Requests, Create(r)
  PROVE  TasksIInv'
  <1>1. PICK d \in Tasks :
          /\ ~Live(d)
          /\ req' = [req EXCEPT ![d] = r] /\ use' = [use EXCEPT ![d] = uses[r]]
          /\ taskRefs' = [taskRefs EXCEPT ![d] = 1]
          /\ original' = [original EXCEPT ![d] = "none"]
          /\ hooked' = [hooked EXCEPT ![d] = FALSE]
          /\ shadow' = [shadow EXCEPT ![d] = "pending"]
          /\ recorded' = [recorded EXCEPT ![d] = 0]
          /\ list' = Append(list, d) /\ mine' = [mine EXCEPT ![r] = d]
    BY DEF Create
  <1>2. /\ where[r] = "create" /\ where' = [where EXCEPT ![r] = "hook"]
        /\ UNCHANGED << strict, uses, callback, answer, workerVars, frameVars >>
    BY DEF Create, At
  <1> USE <1>1, <1>2 DEF TasksIInv
  <1>3. list \in Seq(Tasks) /\ IsInjective(list) /\ d \notin Range(list)
    BY DEF ScsiTypeOK, Listed
  <1>4. list' \in Seq(Tasks) /\ IsInjective(list') /\ Range(list') = Range(list) \cup {d}
    <2>1. /\ Append(list, d) \in Seq(Tasks) /\ IsInjective(Append(list, d))
          /\ Range(Append(list, d)) = Range(list) \cup {d}
      BY <1>1, <1>3, AppendedOnce
    <2> QED
      BY <1>1, <2>1, Zenon
  <1>5. \A e \in Tasks : req[e] # r
    <2> SUFFICES ASSUME NEW e \in Tasks, req[e] = r PROVE FALSE
      OBVIOUS
    <2> QED
      BY ScsiAssumption DEF Tasked, Live
  <1>6. ScsiTypeOK'
    <2>1. /\ where' \in [Requests -> Places] /\ mine' \in [Requests -> Tasks \cup {NoTask}]
          /\ req' \in [Tasks -> Requests \cup {NoRequest}] /\ use' \in [Tasks -> 0 .. MaxUses]
          /\ taskRefs' \in [Tasks -> Int] /\ original' \in [Tasks -> {"none", "owner", "hook"}]
      BY DEF ScsiTypeOK, Places
    <2>2. /\ hooked' \in [Tasks -> BOOLEAN] /\ shadow' \in [Tasks -> {"pending", "ok", "failed"}]
          /\ recorded' \in [Tasks -> Nat]
      BY DEF ScsiTypeOK
    <2> QED
      BY <1>4, <2>1, <2>2 DEF ScsiTypeOK, Places, workerVars, frameVars
  <1>7. Listed'
    BY <1>4, ScsiAssumption DEF ScsiTypeOK, Listed, Live
  <1>8. Prepared'
    <2>1. \A s \in Requests : (\E e \in Tasks : req[e] = s) => \E e \in Tasks : req'[e] = s
      BY ScsiAssumption DEF ScsiTypeOK, Live
    <2>2. \A s \in Requests : where[s] \in {"hook", "enqueue"} => mine[s] # d
      BY ScsiAssumption DEF Prepared, Live
    <2>3. ASSUME NEW s \in Requests, s # r
          PROVE  where'[s] = where[s] /\ mine'[s] = mine[s] /\ answer'[s] = answer[s]
                 /\ (where[s] \in {"hook", "enqueue"} => req'[mine[s]] = req[mine[s]])
      BY <2>2, <2>3 DEF ScsiTypeOK, Prepared
    <2>4. mine'[r] = d /\ req'[d] = r /\ where'[r] = "hook"
      BY DEF ScsiTypeOK
    <2> QED
      BY <2>1, <2>3, <2>4 DEF Prepared, frameVars
  <1>9. (OneCompleter /\ OneTask)'
    BY <1>5 DEF ScsiTypeOK, OneCompleter, OneTask, Live, frameVars
  <1>10. \A k \in Completers : pcK[k] \in Inside => task[k] # d
    <2> SUFFICES ASSUME NEW k \in Completers, pcK[k] \in Inside, task[k] = d PROVE FALSE
      OBVIOUS
    <2>1. req[d] = of[k] /\ pcK[k] # "idle"
      BY DEF Held, Inside
    <2> QED
      BY <2>1, ScsiAssumption DEF Called, Live, WhereAt, CallbackAt
  <1>11. Called' /\ Held'
    <2>1. Called'
      BY DEF ScsiTypeOK, Called, frameVars, WhereAt, CallbackAt
    <2>2. Held'
      BY <1>10 DEF ScsiTypeOK, Held, frameVars
    <2> QED
      BY <2>1, <2>2
  <1>12. Tasked'
    BY <1>5, <1>10 DEF ScsiTypeOK, Tasked, Uses, Live, frameVars
  <1>13. InQueue' /\ AtWork'
    BY <1>5, QueueKept DEF ScsiTypeOK, Waiting, Live, workerVars
  <1>14. RefusedIfUnshadowed'
    BY DEF ScsiTypeOK, RefusedIfUnshadowed
  <1> QED
    BY <1>6, <1>7, <1>8, <1>9, <1>11, <1>12, <1>13, <1>14

(* The task of a request that could not be prepared.                       *)
LEMMA DiscardKeeps ==
  ASSUME TasksIInv, NEW r \in Requests, where[r] \in {"hook", "enqueue"}, Discard(r),
         callback' = [callback EXCEPT ![r] = "owner"], UNCHANGED workerVars
  PROVE  TasksIInv'
  <1>1. PICK d \in Tasks : mine[r] = d /\ req[d] = r
    BY DEF TasksIInv, Prepared
  <1>2. /\ req' = [req EXCEPT ![d] = NoRequest] /\ taskRefs' = [taskRefs EXCEPT ![d] = 0]
        /\ list' = Without(d) /\ mine' = [mine EXCEPT ![r] = NoTask]
        /\ answer' = [answer EXCEPT ![r] = "failed"]
        /\ where' = [where EXCEPT ![r] = "decide"]
        /\ UNCHANGED << strict, uses, use, original, hooked, shadow, recorded, frameVars >>
    BY <1>1 DEF Discard, At
  <1> USE <1>1, <1>2 DEF TasksIInv
  <1>3. Live(d)
    BY ScsiAssumption DEF Live
  <1>4. list' \in Seq(Tasks) /\ IsInjective(list') /\ Range(list') = Range(list) \ {d}
    BY <1>3, WithoutIs
  <1>5. \A e \in Tasks : req[e] = r => e = d
    BY <1>3 DEF OneTask, Live
  <1>6. ScsiTypeOK'
    <2>1. /\ where' \in [Requests -> Places] /\ mine' \in [Requests -> Tasks \cup {NoTask}]
          /\ answer' \in [Requests -> {"none", "ok", "failed"}]
          /\ callback' \in [Requests -> {"owner", "hook"}]
          /\ req' \in [Tasks -> Requests \cup {NoRequest}] /\ taskRefs' \in [Tasks -> Int]
      BY DEF ScsiTypeOK, Places
    <2> QED
      BY <1>4, <2>1 DEF ScsiTypeOK, Places, workerVars, frameVars
  <1>7. Listed'
    BY <1>4 DEF ScsiTypeOK, Listed, Live
  <1>8. Prepared'
    BY <1>5 DEF ScsiTypeOK, Prepared, frameVars
  <1>9. OneCompleter' /\ OneTask'
    BY DEF ScsiTypeOK, OneCompleter, OneTask, Live, frameVars
  <1>10. \A k \in Completers : of[k] # r
    <2> SUFFICES ASSUME NEW k \in Completers, of[k] = r PROVE FALSE
      OBVIOUS
    <2>1. pcK[k] # "idle"
      BY ScsiAssumption DEF Called, WhereAt, CallbackAt
    <2>2. where[r] \in {"callback", "owner"}
      BY <2>1 DEF ScsiTypeOK, Called, WhereAt, CallbackAt
    <2> QED
      BY <2>2
  <1>11. \A k \in Completers : pcK[k] \in Inside => task[k] # d
    BY <1>10 DEF Held
  <1>12. Called' /\ Held'
    <2>1. Called'
      BY <1>10 DEF ScsiTypeOK, Called, frameVars, WhereAt, CallbackAt
    <2>2. Held'
      BY <1>11 DEF ScsiTypeOK, Held, frameVars
    <2> QED
      BY <2>1, <2>2
  <1>13. Tasked'
    BY <1>5 DEF ScsiTypeOK, Tasked, Uses, Live, frameVars
  <1>14. InQueue' /\ AtWork'
    BY <1>5, ScsiAssumption, QueueKept DEF ScsiTypeOK, Waiting, Live
  <1>15. RefusedIfUnshadowed'
    BY DEF ScsiTypeOK, RefusedIfUnshadowed
  <1> QED
    BY <1>6, <1>7, <1>8, <1>9, <1>12, <1>13, <1>14, <1>15

LEMMA FailToWireKeeps ==
  ASSUME TasksIInv, NEW r \in Requests, FailToWire(r)
  PROVE  TasksIInv'
  <1>1. callback' = [callback EXCEPT ![r] = "owner"]
    BY DEF FailToWire, TasksIInv, ScsiTypeOK, Prepared
  <1> QED
    BY <1>1, DiscardKeeps DEF FailToWire

LEMMA QueueFullKeeps ==
  ASSUME TasksIInv, NEW r \in Requests, QueueFull(r)
  PROVE  TasksIInv'
  <1>1. mine[r] \in Tasks /\ req[mine[r]] = r
    BY DEF QueueFull, TasksIInv, Prepared
  <1>2. original[mine[r]] = "owner"
    BY <1>1, ScsiAssumption DEF QueueFull, TasksIInv, Tasked, Live
  <1> QED
    BY <1>2, DiscardKeeps DEF QueueFull

LEMMA SetHookKeeps ==
  ASSUME TasksIInv, NEW r \in Requests, SetHook(r)
  PROVE  TasksIInv'
  <1>1. PICK d \in Tasks : mine[r] = d /\ req[d] = r
    BY DEF TasksIInv, Prepared, SetHook
  <1>2. /\ where[r] = "hook" /\ callback[r] = "owner"
        /\ original' = [original EXCEPT ![d] = "owner"]
        /\ callback' = [callback EXCEPT ![r] = "hook"]
        /\ hooked' = [hooked EXCEPT ![d] = TRUE]
        /\ where' = [where EXCEPT ![r] = "enqueue"]
        /\ UNCHANGED << strict, uses, mine, answer, req, use, taskRefs, shadow, recorded, list,
                        workerVars, frameVars >>
    BY <1>1 DEF SetHook, At, TasksIInv, Prepared
  <1> USE <1>1, <1>2 DEF TasksIInv
  <1>3. Live(d)
    BY ScsiAssumption DEF Live
  <1>4. \A e \in Tasks : req[e] = r => e = d
    BY <1>3 DEF OneTask, Live
  <1>5. ScsiTypeOK'
    <2>1. /\ where' \in [Requests -> Places] /\ callback' \in [Requests -> {"owner", "hook"}]
          /\ original' \in [Tasks -> {"none", "owner", "hook"}] /\ hooked' \in [Tasks -> BOOLEAN]
      BY DEF ScsiTypeOK, Places
    <2> QED
      BY <2>1 DEF ScsiTypeOK, Places, workerVars, frameVars
  <1>6. (Listed /\ OneCompleter /\ OneTask)'
    BY DEF Listed, OneCompleter, OneTask, Live, frameVars
  <1>7. Prepared'
    BY DEF ScsiTypeOK, Prepared, frameVars
  <1>8. Called' /\ Held'
    <2>1. Called'
      BY DEF ScsiTypeOK, Called, frameVars, WhereAt, CallbackAt
    <2>2. Held'
      BY DEF Held, frameVars
    <2> QED
      BY <2>1, <2>2
  <1>9. Tasked'
    BY <1>4 DEF ScsiTypeOK, Tasked, Uses, Live, frameVars
  <1>10. InQueue' /\ AtWork'
    BY QueueKept DEF ScsiTypeOK, Waiting, Live
  <1>11. RefusedIfUnshadowed'
    BY DEF ScsiTypeOK, RefusedIfUnshadowed
  <1> QED
    BY <1>5, <1>6, <1>7, <1>8, <1>9, <1>10, <1>11

LEMMA EnqueueTaskKeeps ==
  ASSUME TasksIInv, NEW r \in Requests, EnqueueTask(r)
  PROVE  TasksIInv'
  <1>1. PICK d \in Tasks : mine[r] = d /\ req[d] = r
    BY DEF TasksIInv, Prepared, EnqueueTask
  <1>2. /\ where[r] = "enqueue" /\ taskQueue' = Append(taskQueue, d)
        /\ mine' = [mine EXCEPT ![r] = NoTask]
        /\ UNCHANGED << strict, uses, callback, taskVars, pcTask, copied, asker, taskRc,
                        frameVars >>
    BY <1>1 DEF EnqueueTask
  <1>3. /\ strict => where' = [where EXCEPT ![r] = "wait"] /\ answer' = answer
        /\ ~strict => where' = [where EXCEPT ![r] = "decide"]
                      /\ answer' = [answer EXCEPT ![r] = "ok"]
    BY DEF EnqueueTask, At
  <1>4. Live(d) /\ shadow[d] = "pending"
    BY <1>1, <1>2, ScsiAssumption DEF TasksIInv, Live, Tasked
  <1>5. \A e \in Tasks : req[e] = r => e = d
    BY <1>1, <1>4 DEF TasksIInv, OneTask, Live
  <1>6. d \notin Range(taskQueue) /\ d # copied
    <2>1. ~Waiting(d)
      BY <1>1, <1>2 DEF Waiting
    <2>2. d \notin Range(taskQueue)
      BY <2>1 DEF TasksIInv, InQueue
    <2>3. pcTask \in {"copy", "signal"} => d # copied
      BY <2>1 DEF TasksIInv, AtWork
    <2> QED
      BY <2>2, <2>3, ScsiAssumption DEF TasksIInv, AtWork
  <1>7. /\ taskQueue' \in Seq(Tasks) /\ IsInjective(taskQueue')
        /\ Range(taskQueue') = Range(taskQueue) \cup {d}
    <2>1. taskQueue \in Seq(Tasks) /\ IsInjective(taskQueue)
      BY DEF TasksIInv, ScsiTypeOK, InQueue
    <2>2. d \in Tasks /\ taskQueue' = Append(taskQueue, d) /\ d \notin Range(taskQueue)
      BY <1>1, <1>2, <1>6
    <2>3. /\ Append(taskQueue, d) \in Seq(Tasks) /\ IsInjective(Append(taskQueue, d))
          /\ Range(Append(taskQueue, d)) = Range(taskQueue) \cup {d}
      BY <2>1, <2>2, AppendedOnce
    <2> QED
      BY <2>2, <2>3, Zenon
  <1> USE <1>1, <1>2, <1>3 DEF TasksIInv
  <1>8. ScsiTypeOK'
    <2>1. /\ where' \in [Requests -> Places] /\ mine' \in [Requests -> Tasks \cup {NoTask}]
          /\ answer' \in [Requests -> {"none", "ok", "failed"}]
      BY DEF ScsiTypeOK, Places
    <2> QED
      BY <1>7, <2>1 DEF ScsiTypeOK, Places, taskVars, frameVars
  <1>9. (Listed /\ OneCompleter /\ OneTask)'
    BY DEF Listed, OneCompleter, OneTask, Live, taskVars, frameVars
  <1>10. Prepared'
    <2>1. mine'[r] = NoTask /\ where'[r] \in {"wait", "decide"}
      BY DEF ScsiTypeOK
    <2>2. \A s \in Requests : s # r => /\ where'[s] = where[s] /\ mine'[s] = mine[s]
                                      /\ answer'[s] = answer[s]
      BY DEF ScsiTypeOK
    <2> QED
      BY <2>1, <2>2 DEF Prepared, taskVars, frameVars
  <1>11. Called' /\ Held'
    <2>1. Called'
      BY DEF ScsiTypeOK, Called, frameVars, WhereAt, CallbackAt
    <2>2. Held'
      BY DEF Held, taskVars, frameVars
    <2> QED
      BY <2>1, <2>2
  <1>12. Tasked'
    BY <1>5 DEF ScsiTypeOK, Tasked, Uses, Live, taskVars, frameVars
  <1>13. answer[r] = "none"
    BY DEF Prepared
  <1>14. ASSUME NEW e \in Tasks, Waiting(e) \/ e = d PROVE Waiting(e)'
    BY <1>4, <1>13, <1>14 DEF ScsiTypeOK, Waiting, Live, taskVars
  <1>15. InQueue'
    BY <1>6, <1>7, <1>14 DEF InQueue, Waiting
  <1>16. AtWork'
    BY <1>14 DEF ScsiTypeOK, AtWork, Waiting, taskVars
  <1>17. RefusedIfUnshadowed'
    BY DEF ScsiTypeOK, RefusedIfUnshadowed
  <1> QED
    BY <1>8, <1>9, <1>10, <1>11, <1>12, <1>15, <1>16, <1>17

LEMMA WaitForShadowKeeps ==
  ASSUME TasksIInv, NEW r \in Requests, WaitForShadow(r) \/ Decide(r)
  PROVE  TasksIInv'
  <1>1. PICK place \in {"decide", "deny", "device"} : where' = [where EXCEPT ![r] = place]
    BY DEF WaitForShadow, Decide, At
  <1>2. /\ where[r] \in {"wait", "decide"} /\ (where[r] = "wait" => answer[r] # "none")
        /\ (strict /\ where'[r] = "device" => answer[r] = "ok")
        /\ UNCHANGED << strict, uses, callback, mine, answer, taskVars, workerVars, frameVars >>
    BY DEF WaitForShadow, Decide, At, TasksIInv, ScsiTypeOK
  <1> USE <1>1, <1>2 DEF TasksIInv
  <1>3. ScsiTypeOK'
    <2>1. where' \in [Requests -> Places]
      BY DEF ScsiTypeOK, Places
    <2> QED
      BY <2>1 DEF ScsiTypeOK, Places, taskVars, workerVars, frameVars
  <1>4. (Listed /\ OneCompleter /\ OneTask)'
    BY DEF Listed, OneCompleter, OneTask, Live, taskVars, frameVars
  <1>5. Prepared'
    BY DEF ScsiTypeOK, Prepared, taskVars, frameVars
  <1>6. Called' /\ Held'
    <2>1. Called'
      BY DEF ScsiTypeOK, Called, frameVars, WhereAt, CallbackAt
    <2>2. Held'
      BY DEF Held, taskVars, frameVars
    <2> QED
      BY <2>1, <2>2
  <1>7. Tasked'
    BY DEF ScsiTypeOK, Tasked, Uses, Live, taskVars, frameVars
  <1>8. InQueue' /\ AtWork'
    BY QueueKept DEF ScsiTypeOK, Waiting, Live, taskVars
  <1>9. RefusedIfUnshadowed'
    BY DEF ScsiTypeOK, RefusedIfUnshadowed
  <1> QED
    BY <1>3, <1>4, <1>5, <1>6, <1>7, <1>8, <1>9

(* The steps of the worker leave the places of the others alone.           *)
LEMMA OthersKept ==
  ASSUME TasksIInv, UNCHANGED << strict, where, uses, callback, mine, frameVars >>,
         UNCHANGED << req, use, taskRefs, original, hooked, recorded, list >>,
         \A r \in Requests : where[r] \in {"create", "hook", "enqueue", "device"} =>
           answer'[r] = answer[r],
         \A d \in Tasks : Live(d) /\ where[req[d]] \in {"hook", "enqueue"} =>
           shadow'[d] = shadow[d],
         \A d \in Tasks : shadow[d] # "pending" => shadow'[d] # "pending"
  PROVE  /\ Listed' /\ Prepared' /\ Called' /\ Held' /\ OneCompleter' /\ OneTask' /\ Tasked'
         /\ RefusedIfUnshadowed'
  <1> USE DEF TasksIInv, frameVars
  <1>1. Listed' /\ Prepared' /\ OneCompleter' /\ OneTask'
    BY DEF Listed, Prepared, OneCompleter, OneTask, Live
  <1>2. Called' /\ Held'
    BY DEF Called, Held, WhereAt, CallbackAt
  <1>3. Tasked'
    BY DEF Tasked, Live, Uses
  <1>4. RefusedIfUnshadowed'
    BY DEF RefusedIfUnshadowed
  <1> QED
    BY <1>1, <1>2, <1>3, <1>4

LEMMA TakeJobKeeps ==
  ASSUME TasksIInv, TakeJob
  PROVE  TasksIInv'
  <1>1. /\ pcTask = "idle" /\ taskQueue # << >> /\ copied' = Head(taskQueue)
        /\ taskQueue' = Tail(taskQueue) /\ asker' = req[Head(taskQueue)] /\ pcTask' = "copy"
        /\ UNCHANGED << requestVars, taskVars, taskRc, frameVars >>
    BY DEF TakeJob
  <1>2. taskQueue \in Seq(Tasks) /\ IsInjective(taskQueue)
    BY DEF TasksIInv, ScsiTypeOK, InQueue
  <1>3. /\ taskQueue' \in Seq(Tasks) /\ IsInjective(taskQueue') /\ copied' \in Tasks
        /\ copied' \in Range(taskQueue) /\ Range(taskQueue') = Range(taskQueue) \ {copied'}
    BY <1>1, <1>2, TailOnce, Zenon
  <1> USE DEF TasksIInv
  <1>4. asker' = req[copied'] /\ asker' \in Requests
    BY <1>1, <1>3 DEF InQueue, Waiting, Live, ScsiTypeOK
  <1>5. ScsiTypeOK'
    BY <1>1, <1>3, <1>4 DEF ScsiTypeOK, requestVars, taskVars, frameVars
  <1>6. /\ Listed' /\ Prepared' /\ Called' /\ Held' /\ OneCompleter' /\ OneTask' /\ Tasked'
        /\ RefusedIfUnshadowed'
    BY <1>1, OthersKept DEF requestVars, taskVars
  <1>7. \A d \in Tasks : Waiting(d) => Waiting(d)'
    BY <1>1 DEF Waiting, Live, requestVars, taskVars
  <1>8. InQueue'
    BY <1>3, <1>7 DEF InQueue, Waiting
  <1>9. AtWork'
    <2>1. Waiting(copied)'
      BY <1>3, <1>7 DEF InQueue, Waiting
    <2> QED
      BY <1>1, <1>4, <2>1 DEF AtWork, taskVars
  <1> QED
    BY <1>5, <1>6, <1>8, <1>9

LEMMA CopyKeeps ==
  ASSUME TasksIInv, Copy
  PROVE  TasksIInv'
  <1>1. /\ pcTask = "copy" /\ taskRc' \in {"ok", "failed"} /\ pcTask' = "signal"
        /\ UNCHANGED << requestVars, taskVars, taskQueue, copied, asker, frameVars >>
    BY DEF Copy
  <1> USE DEF TasksIInv
  <1>2. ScsiTypeOK'
    BY <1>1 DEF ScsiTypeOK, requestVars, taskVars, frameVars
  <1>3. /\ Listed' /\ Prepared' /\ Called' /\ Held' /\ OneCompleter' /\ OneTask' /\ Tasked'
        /\ RefusedIfUnshadowed'
    BY <1>1, OthersKept DEF requestVars, taskVars
  <1>4. InQueue' /\ AtWork'
    BY <1>1 DEF InQueue, AtWork, Waiting, Live, requestVars, taskVars
  <1> QED
    BY <1>2, <1>3, <1>4

LEMMA SignalTaskKeeps ==
  ASSUME TasksIInv, SignalTask
  PROVE  TasksIInv'
  <1>1. PICK d \in Tasks : copied = d /\ Waiting(d) /\ asker = req[d]
    BY DEF TasksIInv, AtWork, Waiting, SignalTask
  <1>2. /\ pcTask = "signal" /\ shadow' = [shadow EXCEPT ![d] = taskRc] /\ copied' = NoTask
        /\ taskRc \in {"ok", "failed"}
        /\ (strict => pcTask' = "answer" /\ UNCHANGED << asker, taskRc >>)
        /\ (~strict => pcTask' = "idle" /\ asker' = NoRequest /\ taskRc' = "none")
        /\ UNCHANGED << requestVars, req, use, taskRefs, original, hooked, recorded, list,
                        taskQueue, frameVars >>
    BY <1>1 DEF SignalTask, TasksIInv, AtWork
  <1> USE <1>1, <1>2 DEF TasksIInv
  <1>3. ScsiTypeOK'
    <2>1. /\ shadow' \in [Tasks -> {"pending", "ok", "failed"}]
          /\ copied' \in Tasks \cup {NoTask} /\ pcTask' \in {"idle", "copy", "signal", "answer"}
          /\ asker' \in Requests \cup {NoRequest} /\ taskRc' \in {"none", "ok", "failed"}
      BY DEF ScsiTypeOK
    <2> QED
      BY <2>1 DEF ScsiTypeOK, requestVars, frameVars
  <1>4. /\ Listed' /\ Prepared' /\ Called' /\ Held' /\ OneCompleter' /\ OneTask' /\ Tasked'
        /\ RefusedIfUnshadowed'
    BY OthersKept DEF requestVars, ScsiTypeOK, Waiting
  <1>5. \A e \in Tasks : Waiting(e) /\ e # d => Waiting(e)'
    BY DEF ScsiTypeOK, Waiting, Live, requestVars
  <1>6. InQueue'
    BY <1>5, ScsiAssumption DEF InQueue, Waiting
  <1>7. AtWork'
    <2>1. \A e \in Tasks : req[e] = asker => e = d
      BY DEF OneTask, Live, Waiting
    <2>2. asker \in Requests /\ (strict => where[asker] = "wait" /\ answer[asker] = "none")
      BY DEF Waiting, Live, ScsiTypeOK
    <2> QED
      BY <2>1, <2>2 DEF AtWork, ScsiTypeOK, requestVars
  <1> QED
    BY <1>3, <1>4, <1>6, <1>7

LEMMA AnswerKeeps ==
  ASSUME TasksIInv, Answer
  PROVE  TasksIInv'
  <1>1. PICK r \in Requests : asker = r /\ where[r] = "wait" /\ strict
    BY DEF TasksIInv, AtWork, Answer
  <1>2. /\ pcTask = "answer" /\ answer' = [answer EXCEPT ![r] = taskRc]
        /\ taskRc \in {"ok", "failed"} /\ pcTask' = "idle" /\ asker' = NoRequest
        /\ taskRc' = "none" /\ copied = NoTask
        /\ UNCHANGED << strict, where, uses, callback, mine, taskVars, taskQueue, copied,
                        frameVars >>
    BY <1>1 DEF Answer, TasksIInv, AtWork
  <1> USE <1>1, <1>2 DEF TasksIInv
  <1>3. ScsiTypeOK'
    <2>1. answer' \in [Requests -> {"none", "ok", "failed"}]
      BY DEF ScsiTypeOK
    <2> QED
      BY <2>1 DEF ScsiTypeOK, taskVars, frameVars
  <1>4. /\ Listed' /\ Prepared' /\ Called' /\ Held' /\ OneCompleter' /\ OneTask' /\ Tasked'
        /\ RefusedIfUnshadowed'
    BY OthersKept DEF ScsiTypeOK, taskVars
  <1>5. \A e \in Tasks : Waiting(e) => Waiting(e)'
    BY DEF ScsiTypeOK, Waiting, Live, taskVars, AtWork
  <1>6. InQueue' /\ AtWork'
    BY <1>5, ScsiAssumption DEF InQueue, AtWork, Waiting
  <1> QED
    BY <1>3, <1>4, <1>6

LEMMA CompleteTaskKeeps ==
  ASSUME TasksIInv, NEW r \in Requests, NEW k \in Completers, CompleteTask(k, r)
  PROVE  TasksIInv'
  <1>1. /\ where[r] \in {"device", "deny"} /\ pcK[k] = "idle"
        /\ UNCHANGED << strict, uses, callback, mine, answer, taskVars, workerVars, task >>
    BY DEF CompleteTask
  <1>2. /\ callback[r] = "owner" => where' = [where EXCEPT ![r] = "owner"]
                                  /\ UNCHANGED << pcK, of >>
        /\ callback[r] = "hook" => where' = [where EXCEPT ![r] = "callback"]
                                 /\ pcK' = [pcK EXCEPT ![k] = "find"]
                                 /\ of' = [of EXCEPT ![k] = r]
    BY DEF CompleteTask, At, CallbackGoTo
  <1>3. callback[r] \in {"owner", "hook"}
    BY DEF TasksIInv, ScsiTypeOK
  <1> USE <1>1, <1>2, <1>3 DEF TasksIInv
  <1>4. \A l \in Completers : of[l] # r
    <2> SUFFICES ASSUME NEW l \in Completers, of[l] = r PROVE FALSE
      OBVIOUS
    <2>1. pcK[l] # "idle"
      BY ScsiAssumption DEF Called, WhereAt, CallbackAt
    <2> QED
      BY <2>1 DEF ScsiTypeOK, Called, WhereAt, CallbackAt
  <1>5. callback[r] = "owner" => \A d \in Tasks : req[d] # r
    <2> SUFFICES ASSUME callback[r] = "owner", NEW d \in Tasks, req[d] = r PROVE FALSE
      OBVIOUS
    <2> QED
      BY ScsiAssumption DEF Tasked, Live
  <1>6. ScsiTypeOK'
    <2>1. where' \in [Requests -> Places]
      <3>1. where \in [Requests -> Places]
        BY DEF ScsiTypeOK, Places
      <3>2. CASE callback[r] = "owner"
        BY <3>1, <3>2 DEF Places
      <3>3. CASE callback[r] = "hook"
        BY <3>1, <3>3 DEF Places
      <3> QED
        BY <3>2, <3>3
    <2>2. /\ of' \in [Completers -> Requests \cup {NoRequest}]
          /\ pcK' \in [Completers -> CallbackPlaces]
      <3>1. /\ of \in [Completers -> Requests \cup {NoRequest}]
            /\ pcK \in [Completers -> CallbackPlaces]
        BY DEF ScsiTypeOK, CallbackPlaces
      <3>2. CASE callback[r] = "owner"
        BY <3>1, <3>2
      <3>3. CASE callback[r] = "hook"
        BY <3>1, <3>3 DEF CallbackPlaces
      <3> QED
        BY <3>2, <3>3
    <2> QED
      BY <2>1, <2>2 DEF ScsiTypeOK, Places, CallbackPlaces, taskVars, workerVars
  <1>7. Listed' /\ OneTask'
    BY DEF Listed, OneTask, Live, taskVars
  <1>8. OneCompleter'
    <2>1. CASE callback[r] = "owner"
      BY <2>1 DEF OneCompleter
    <2>2. CASE callback[r] = "hook"
      <3>1. \A l \in Completers : of'[l] = IF l = k THEN r ELSE of[l]
        BY <2>2 DEF ScsiTypeOK
      <3> QED
        BY <1>4, <3>1 DEF OneCompleter
    <2> QED
      BY <2>1, <2>2
  <1>9. Prepared'
    <2>1. ASSUME NEW s \in Requests, s # r
          PROVE  where'[s] = where[s] /\ ((\E l \in Completers : of[l] = s) =>
                                          \E l \in Completers : of'[l] = s)
      <3>1. CASE callback[r] = "owner"
        BY <2>1, <3>1 DEF ScsiTypeOK
      <3>2. CASE callback[r] = "hook"
        <4>1. of[k] # s
          BY ScsiAssumption DEF Called, WhereAt, CallbackAt
        <4>2. where'[s] = where[s] /\ \A l \in Completers : l # k => of'[l] = of[l]
          BY <2>1, <3>2 DEF ScsiTypeOK
        <4> QED
          BY <4>1, <4>2
      <3> QED
        BY <3>1, <3>2
    <2>2. \/ callback[r] = "owner" /\ where'[r] = "owner"
          \/ where'[r] = "callback" /\ of'[k] = r
      BY DEF ScsiTypeOK
    <2> QED
      BY <2>1, <2>2 DEF Prepared, taskVars
  <1>10. Called'
    BY <1>4 DEF ScsiTypeOK, Called, WhereAt, CallbackAt
  <1>11. Held'
    BY DEF ScsiTypeOK, Held, Inside, taskVars
  <1>12. Tasked'
    <2>1. \A d \in Tasks, l \in Completers : Uses(l, d)' <=> Uses(l, d)
      BY DEF ScsiTypeOK, Uses, Inside
    <2> QED
      BY <1>5, <2>1 DEF ScsiTypeOK, Tasked, Live, taskVars
  <1>13. InQueue' /\ AtWork'
    BY <1>5, QueueKept DEF ScsiTypeOK, Waiting, Live, taskVars
  <1>14. RefusedIfUnshadowed'
    BY DEF ScsiTypeOK, RefusedIfUnshadowed
  <1> QED
    BY <1>6, <1>7, <1>8, <1>9, <1>10, <1>11, <1>12, <1>13, <1>14

(* What a completer uses is only one completer's.                          *)
LEMMA OneUser ==
  ASSUME TasksIInv, NEW k \in Completers, NEW l \in Completers, NEW d,
         Uses(k, d), Uses(l, d)
  PROVE  k = l
  <1>1. of[k] = req[d] /\ of[l] = req[d]
    BY DEF TasksIInv, Held, Uses
  <1>2. of[k] # NoRequest
    BY ScsiAssumption DEF TasksIInv, Called, Uses, Inside, WhereAt, CallbackAt
  <1> QED
    BY <1>1, <1>2 DEF TasksIInv, OneCompleter

(* The steps of a completer that has a task in its hands.                  *)
LEMMA FindKeeps ==
  ASSUME TasksIInv, NEW k \in Completers, Find(k)
  PROVE  TasksIInv'
  <1>1. PICK r \in Requests : of[k] = r /\ where[r] = "callback" /\ callback[r] = "hook"
    BY DEF TasksIInv, Called, Find, WhereAt, CallbackAt
  <1>2. PICK d \in Tasks : /\ req[d] = r /\ task' = [task EXCEPT ![k] = d]
                           /\ taskRefs' = [taskRefs EXCEPT ![d] = @ + 1]
    <2>1. PICK i \in Matching(r) : /\ task' = [task EXCEPT ![k] = list[i]]
                                    /\ taskRefs' = [taskRefs EXCEPT ![list[i]] = @ + 1]
      BY <1>1 DEF Find
    <2>2. list[i] \in Tasks /\ req[list[i]] = r
      BY <2>1 DEF Matching, TasksIInv, ScsiTypeOK
    <2> QED
      BY <2>1, <2>2
  <1>3. /\ pcK[k] = "find" /\ pcK' = [pcK EXCEPT ![k] = "wait"]
        /\ UNCHANGED << requestVars, req, use, original, hooked, shadow, recorded, list,
                        workerVars, of >>
    BY DEF Find, CallbackGoTo
  <1> USE <1>1, <1>2, <1>3 DEF TasksIInv
  <1>4. Live(d)
    BY ScsiAssumption DEF Live
  <1>5. \A l \in Completers : ~Uses(l, d)
    <2> SUFFICES ASSUME NEW l \in Completers, Uses(l, d) PROVE FALSE
      OBVIOUS
    <2>1. of[l] = of[k] /\ of[k] # NoRequest
      BY ScsiAssumption DEF Held, Uses
    <2> QED
      BY <2>1 DEF OneCompleter, Uses, Inside
  <1>6. taskRefs[d] = 1 /\ recorded[d] = 0
    BY <1>4, <1>5 DEF Tasked
  <1>7. ScsiTypeOK'
    <2>1. pcK' \in [Completers -> CallbackPlaces]
      BY DEF ScsiTypeOK, CallbackPlaces
    <2>2. task' \in [Completers -> Tasks \cup {NoTask}] /\ taskRefs' \in [Tasks -> Int]
      BY DEF ScsiTypeOK
    <2> QED
      BY <2>1, <2>2 DEF ScsiTypeOK, CallbackPlaces, requestVars, workerVars
  <1>8. (Listed /\ OneTask /\ OneCompleter /\ Prepared /\ RefusedIfUnshadowed)'
    BY DEF Listed, OneTask, OneCompleter, Prepared, RefusedIfUnshadowed, Live, requestVars
  <1>9. Called'
    BY DEF ScsiTypeOK, Called, requestVars, WhereAt, CallbackAt
  <1>10. Held'
    <2>1. ASSUME NEW l \in Completers, l # k, pcK'[l] \in Inside
          PROVE  pcK'[l] = pcK[l] /\ task'[l] = task[l] /\ task[l] # d
      BY <1>5, <2>1 DEF ScsiTypeOK, Uses
    <2>2. pcK'[k] = "wait" /\ task'[k] = d /\ taskRefs'[d] = 2
      BY <1>6 DEF ScsiTypeOK
    <2> QED
      BY <1>6, <2>1, <2>2 DEF ScsiTypeOK, Held, RefsAt, RecordsAt
  <1>11. Tasked'
    <2>1. Uses(k, d)'
      BY DEF ScsiTypeOK, Uses, Inside
    <2>2. \A e \in Tasks, l \in Completers : e # d => (Uses(l, e)' <=> Uses(l, e))
      BY DEF ScsiTypeOK, Uses, Inside
    <2>3. \A e \in Tasks : e # d => taskRefs'[e] = taskRefs[e]
      BY DEF ScsiTypeOK
    <2> QED
      BY <2>1, <2>2, <2>3 DEF Tasked, Live, requestVars
  <1>12. InQueue' /\ AtWork'
    BY QueueKept DEF Waiting, Live, requestVars
  <1> QED
    BY <1>7, <1>8, <1>9, <1>10, <1>11, <1>12

(* The steps of a completer with its task in its hands.                    *)
LEMMA HeldTask ==
  ASSUME TasksIInv, NEW k \in Completers, pcK[k] \in Inside
  PROVE  /\ task[k] \in Tasks /\ of[k] \in Requests /\ req[task[k]] = of[k] /\ Live(task[k])
         /\ \A e \in Tasks : req[e] = of[k] => e = task[k]
         /\ \A l \in Completers : Uses(l, task[k]) => l = k
         /\ \A l \in Completers : of[l] = of[k] => l = k
  <1>1. task[k] \in Tasks /\ of[k] \in Requests /\ req[task[k]] = of[k] /\ Uses(k, task[k])
    BY DEF TasksIInv, Held, Called, Uses, Inside, WhereAt, CallbackAt
  <1>2. Live(task[k])
    BY <1>1, ScsiAssumption DEF Live
  <1>3. \A e \in Tasks : req[e] = of[k] => e = task[k]
    BY <1>1, <1>2 DEF TasksIInv, OneTask, Live
  <1>4. \A l \in Completers : of[l] = of[k] => l = k
    BY <1>1, ScsiAssumption DEF TasksIInv, OneCompleter
  <1> QED
    BY <1>1, <1>2, <1>3, <1>4, OneUser

(* Steps that only move a completer forward with its task.                 *)
Moves(k, place) ==
  /\ pcK' = [pcK EXCEPT ![k] = place]
  /\ callback' = [callback EXCEPT ![of[k]] = CallbackAt(place)]
  /\ recorded' = [recorded EXCEPT ![task[k]] = RecordsAt(place)]
  /\ taskRefs' = [taskRefs EXCEPT ![task[k]] = RefsAt(place)]
  /\ hooked' \in [Tasks -> BOOLEAN]
  /\ UNCHANGED << strict, where, uses, mine, answer, req, use, original, shadow, list,
                  workerVars, of, task >>

LEMMA MoveKeeps ==
  ASSUME TasksIInv, NEW k \in Completers, pcK[k] \in Inside, NEW place \in Inside, Moves(k, place),
         WhereAt(place) = where[of[k]], place # "wait", shadow[task[k]] # "pending"
  PROVE  TasksIInv'
  <1>1. PICK d \in Tasks : d = task[k] /\ req[d] = of[k] /\ Live(d)
    BY HeldTask
  <1>2. of[k] \in Requests /\ \A l \in Completers : Uses(l, d) => l = k
    BY <1>1, HeldTask
  <1>3. \A l \in Completers : of[l] = of[k] => l = k
    BY HeldTask
  <1>4. PICK c \in {"owner", "hook"} :
          callback' = [callback EXCEPT ![of[k]] = c] /\ (c = "hook" => where[of[k]] = "callback")
    <2>1. /\ CallbackAt(place) \in {"owner", "hook"}
          /\ CallbackAt(place) = "hook" => where[of[k]] = "callback"
      BY DEF CallbackAt, WhereAt
    <2>2. callback' = [callback EXCEPT ![of[k]] = CallbackAt(place)]
      BY DEF Moves
    <2> QED
      BY <2>1, <2>2
  <1>5. recorded' \in [Tasks -> Nat] /\ taskRefs' \in [Tasks -> Int]
    BY <1>1 DEF Moves, RefsAt, RecordsAt, TasksIInv, ScsiTypeOK
  <1> USE <1>1, <1>2, <1>4, <1>5 DEF TasksIInv, Moves
  <1>6. \A l \in Completers : \A e : Uses(l, e)' <=> Uses(l, e)
    BY DEF ScsiTypeOK, Uses
  <1>7. ScsiTypeOK'
    <2>1. pcK' \in [Completers -> CallbackPlaces] /\ callback' \in [Requests -> {"owner", "hook"}]
      BY DEF ScsiTypeOK, CallbackPlaces, Inside
    <2> QED
      BY <2>1 DEF ScsiTypeOK, CallbackPlaces, workerVars
  <1>8. (Listed /\ OneTask /\ OneCompleter /\ RefusedIfUnshadowed)'
    BY DEF Listed, OneTask, OneCompleter, RefusedIfUnshadowed, Live
  <1>9. Prepared'
    BY DEF ScsiTypeOK, Prepared
  <1>10. Called'
    <2>1. \A l \in Completers : l # k => of[l] # of[k]
      BY <1>3
    <2>2. pcK'[k] = place /\ place \notin {"idle", "free1", "unlink1"}
      BY DEF ScsiTypeOK, Inside
    <2>3. callback'[of[k]] = CallbackAt(place)
      BY DEF ScsiTypeOK
    <2>4. \A l \in Completers : l # k => pcK'[l] = pcK[l] /\ of'[l] = of[l]
      BY DEF ScsiTypeOK
    <2>5. \A r \in Requests : r # of[k] => callback'[r] = callback[r]
      BY DEF ScsiTypeOK
    <2> QED
      BY <2>1, <2>2, <2>3, <2>4, <2>5 DEF Called
  <1>11. Held'
    <2>1. ASSUME NEW l \in Completers, l # k, pcK'[l] \in Inside
          PROVE  pcK'[l] = pcK[l] /\ task'[l] # d
      BY <2>1 DEF ScsiTypeOK, Uses
    <2>2. pcK'[k] = place /\ taskRefs'[d] = RefsAt(place) /\ recorded'[d] = RecordsAt(place)
      BY DEF ScsiTypeOK
    <2> QED
      BY <2>1, <2>2 DEF ScsiTypeOK, Held
  <1>12. Tasked'
    <2>1. Uses(k, d)
      BY DEF Uses
    <2>2. \A e \in Tasks : e # d => req[e] # of[k]
      BY HeldTask
    <2>3. \A e \in Tasks : e # d => taskRefs'[e] = taskRefs[e] /\ recorded'[e] = recorded[e]
      BY DEF ScsiTypeOK
    <2>4. \A r \in Requests : r # of[k] => callback'[r] = callback[r]
      BY DEF ScsiTypeOK
    <2>5. where[of[k]] \in {"callback", "owner"}
      BY DEF WhereAt
    <2>6. \A e \in Tasks : Live(e) => req[e] \in Requests
      BY DEF ScsiTypeOK, Live
    <2> QED
      BY <1>6, <2>1, <2>2, <2>3, <2>4, <2>5, <2>6 DEF Tasked, Live
  <1>13. InQueue' /\ AtWork'
    BY QueueKept DEF Waiting, Live
  <1> QED
    BY <1>7, <1>8, <1>9, <1>10, <1>11, <1>12, <1>13

(* What is known of the completer and of its task.                         *)
LEMMA Holding ==
  ASSUME TasksIInv, NEW k \in Completers, pcK[k] \in Inside
  PROVE  /\ task[k] \in Tasks /\ of[k] \in Requests
         /\ callback \in [Requests -> {"owner", "hook"}]
         /\ taskRefs \in [Tasks -> Int] /\ recorded \in [Tasks -> Nat]
         /\ hooked \in [Tasks -> BOOLEAN]
         /\ taskRefs[task[k]] = RefsAt(pcK[k]) /\ recorded[task[k]] = RecordsAt(pcK[k])
         /\ pcK[k] # "wait" => shadow[task[k]] # "pending"
         /\ where[of[k]] = WhereAt(pcK[k]) /\ callback[of[k]] = CallbackAt(pcK[k])
         /\ original[task[k]] = "owner"
  <1>1. /\ task[k] \in Tasks /\ of[k] \in Requests /\ req[task[k]] = of[k] /\ Live(task[k])
    BY HeldTask
  <1>2. /\ callback \in [Requests -> {"owner", "hook"}]
        /\ taskRefs \in [Tasks -> Int] /\ recorded \in [Tasks -> Nat]
        /\ hooked \in [Tasks -> BOOLEAN]
    BY DEF TasksIInv, ScsiTypeOK
  <1>3. where[of[k]] = WhereAt(pcK[k]) /\ callback[of[k]] = CallbackAt(pcK[k])
    BY DEF TasksIInv, Called, Inside
  <1>4. original[task[k]] = "owner"
    BY <1>1, <1>3 DEF TasksIInv, Tasked, WhereAt
  <1> QED
    BY <1>1, <1>2, <1>3, <1>4 DEF TasksIInv, Held

LEMMA WaitKeeps ==
  ASSUME TasksIInv, NEW k \in Completers, Wait(k)
  PROVE  TasksIInv'
  <1>1. pcK[k] = "wait" /\ pcK[k] \in Inside
    BY DEF Wait, Inside
  <1>2. /\ task[k] \in Tasks /\ of[k] \in Requests
        /\ callback \in [Requests -> {"owner", "hook"}] /\ hooked \in [Tasks -> BOOLEAN]
        /\ taskRefs \in [Tasks -> Int] /\ recorded \in [Tasks -> Nat]
        /\ taskRefs[task[k]] = 2 /\ recorded[task[k]] = 0 /\ original[task[k]] = "owner"
        /\ callback[of[k]] = "hook" /\ where[of[k]] = "callback" /\ shadow[task[k]] # "pending"
    <2> HIDE DEF TasksIInv
    <2> QED
      BY <1>1, Holding DEF Wait, RefsAt, RecordsAt, CallbackAt, WhereAt
  <1>3. Moves(k, "record")
    BY <1>1, <1>2 DEF Wait, CallbackGoTo, Moves, requestVars, taskVars,
                     RefsAt, RecordsAt, CallbackAt
  <1>4. WhereAt("record") = where[of[k]]
    BY <1>2 DEF WhereAt
  <1> QED
    BY <1>1, <1>2, <1>3, <1>4, MoveKeeps DEF Inside

LEMMA RecordKeeps ==
  ASSUME TasksIInv, NEW k \in Completers, Record(k)
  PROVE  TasksIInv'
  <1>1. pcK[k] = "record" /\ pcK[k] \in Inside
    BY DEF Record, Inside
  <1>2. /\ task[k] \in Tasks /\ of[k] \in Requests
        /\ callback \in [Requests -> {"owner", "hook"}] /\ hooked \in [Tasks -> BOOLEAN]
        /\ taskRefs \in [Tasks -> Int] /\ recorded \in [Tasks -> Nat]
        /\ taskRefs[task[k]] = 2 /\ recorded[task[k]] = 0 /\ original[task[k]] = "owner"
        /\ callback[of[k]] = "hook" /\ where[of[k]] = "callback" /\ shadow[task[k]] # "pending"
    <2> HIDE DEF TasksIInv
    <2> QED
      BY <1>1, Holding DEF RefsAt, RecordsAt, CallbackAt, WhereAt
  <1>3. Moves(k, "restore")
    BY <1>1, <1>2 DEF Record, CallbackGoTo, Moves, requestVars, taskVars,
                     RefsAt, RecordsAt, CallbackAt
  <1>4. WhereAt("restore") = where[of[k]]
    BY <1>2 DEF WhereAt
  <1> QED
    BY <1>1, <1>2, <1>3, <1>4, MoveKeeps DEF Inside

LEMMA RestoreKeeps ==
  ASSUME TasksIInv, NEW k \in Completers, Restore(k)
  PROVE  TasksIInv'
  <1>1. pcK[k] = "restore" /\ pcK[k] \in Inside
    BY DEF Restore, Inside
  <1>2. /\ task[k] \in Tasks /\ of[k] \in Requests
        /\ callback \in [Requests -> {"owner", "hook"}] /\ hooked \in [Tasks -> BOOLEAN]
        /\ taskRefs \in [Tasks -> Int] /\ recorded \in [Tasks -> Nat]
        /\ taskRefs[task[k]] = 2 /\ recorded[task[k]] = 1 /\ original[task[k]] = "owner"
        /\ callback[of[k]] = "hook" /\ where[of[k]] = "callback" /\ shadow[task[k]] # "pending"
    <2> HIDE DEF TasksIInv
    <2> QED
      BY <1>1, Holding DEF RefsAt, RecordsAt, CallbackAt, WhereAt
  <1>3. Moves(k, "call")
    BY <1>1, <1>2 DEF Restore, CallbackGoTo, Moves, requestVars, taskVars,
                     RefsAt, RecordsAt, CallbackAt
  <1>4. WhereAt("call") = where[of[k]]
    BY <1>2 DEF WhereAt
  <1> QED
    BY <1>1, <1>2, <1>3, <1>4, MoveKeeps DEF Inside

LEMMA ReleaseTaskKeeps ==
  ASSUME TasksIInv, NEW k \in Completers, ReleaseTask(k)
  PROVE  TasksIInv'
  <1>1. pcK[k] \in {"release1", "release2"} /\ pcK[k] \in Inside
    BY DEF ReleaseTask, Inside
  <1>2. /\ task[k] \in Tasks /\ of[k] \in Requests
        /\ callback \in [Requests -> {"owner", "hook"}] /\ hooked \in [Tasks -> BOOLEAN]
        /\ taskRefs \in [Tasks -> Int] /\ recorded \in [Tasks -> Nat]
        /\ taskRefs[task[k]] = RefsAt(pcK[k]) /\ recorded[task[k]] = 1
        /\ callback[of[k]] = "owner" /\ where[of[k]] = "owner" /\ shadow[task[k]] # "pending"
    BY <1>1, Holding DEF RecordsAt, CallbackAt, WhereAt
  <1>3. PICK place \in {"release2", "free2"} :
          /\ pcK' = [pcK EXCEPT ![k] = place]
          /\ taskRefs' = [taskRefs EXCEPT ![task[k]] = RefsAt(place)]
    <2>1. CASE pcK[k] = "release1"
      <3>1. taskRefs[task[k]] = 2
        BY <1>2, <2>1 DEF RefsAt
      <3> QED
        BY <1>2, <2>1, <3>1 DEF ReleaseTask, CallbackGoTo, RefsAt
    <2>2. CASE pcK[k] = "release2"
      <3>1. taskRefs[task[k]] = 1
        BY <1>2, <2>2 DEF RefsAt
      <3> QED
        BY <1>2, <2>2, <3>1 DEF ReleaseTask, CallbackGoTo, RefsAt
    <2> QED
      BY <1>1, <2>1, <2>2
  <1>4. Moves(k, place)
    BY <1>2, <1>3 DEF ReleaseTask, Moves, requestVars, RecordsAt, CallbackAt
  <1>5. WhereAt(place) = where[of[k]]
    BY <1>2, <1>3 DEF WhereAt
  <1> QED
    BY <1>1, <1>2, <1>3, <1>4, <1>5, MoveKeeps DEF Inside

LEMMA FreeRestoreKeeps ==
  ASSUME TasksIInv, NEW k \in Completers, FreeRestore(k)
  PROVE  TasksIInv'
  <1>1. pcK[k] = "free2" /\ pcK[k] \in Inside
    BY DEF FreeRestore, Inside, TasksIInv, Called
  <1>2. /\ task[k] \in Tasks /\ of[k] \in Requests
        /\ callback \in [Requests -> {"owner", "hook"}] /\ hooked \in [Tasks -> BOOLEAN]
        /\ taskRefs \in [Tasks -> Int] /\ recorded \in [Tasks -> Nat]
        /\ taskRefs[task[k]] = 0 /\ recorded[task[k]] = 1 /\ original[task[k]] = "owner"
        /\ callback[of[k]] = "owner" /\ where[of[k]] = "owner" /\ shadow[task[k]] # "pending"
    <2> HIDE DEF TasksIInv
    <2> QED
      BY <1>1, Holding DEF RefsAt, RecordsAt, CallbackAt, WhereAt
  <1>3. Moves(k, "unlink2")
    BY <1>1, <1>2 DEF FreeRestore, CallbackGoTo, Moves, requestVars, taskVars,
                     RefsAt, RecordsAt, CallbackAt
  <1>4. WhereAt("unlink2") = where[of[k]]
    BY <1>2 DEF WhereAt
  <1> QED
    BY <1>1, <1>2, <1>3, <1>4, MoveKeeps DEF Inside

(* The request goes back to its owner, its callback with it.               *)
LEMMA CallKeeps ==
  ASSUME TasksIInv, NEW k \in Completers, Call(k)
  PROVE  TasksIInv'
  <1>1. PICK r \in Requests : of[k] = r /\ callback[r] = "owner"
    BY DEF TasksIInv, Called, CallbackAt, Call
  <1>2. /\ pcK[k] = "call" /\ where' = [where EXCEPT ![r] = "owner"]
        /\ pcK' = [pcK EXCEPT ![k] = "release1"]
        /\ UNCHANGED << strict, uses, callback, mine, answer, taskVars, workerVars, of, task >>
    BY <1>1 DEF Call, At, CallbackGoTo
  <1>3. PICK d \in Tasks : /\ d = task[k] /\ req[d] = r /\ Live(d) /\ shadow[d] # "pending"
                           /\ \A e \in Tasks : req[e] = r => e = d
    <2>1. pcK[k] \in Inside /\ pcK[k] # "wait"
      BY <1>2 DEF Inside
    <2> QED
      BY <1>1, <2>1, HeldTask, Holding
  <1>4. \A l \in Completers : of[l] = r => l = k
    BY <1>1, <1>2, HeldTask DEF Inside
  <1> USE <1>1, <1>2, <1>3 DEF TasksIInv
  <1>5. ScsiTypeOK'
    <2>1. where' \in [Requests -> Places] /\ pcK' \in [Completers -> CallbackPlaces]
      BY DEF ScsiTypeOK, Places, CallbackPlaces
    <2> QED
      BY <2>1 DEF ScsiTypeOK, Places, CallbackPlaces, taskVars, workerVars
  <1>6. (Listed /\ OneTask /\ OneCompleter)'
    BY DEF Listed, OneTask, OneCompleter, Live, taskVars
  <1>7. where[r] = "callback"
    BY DEF Called, WhereAt
  <1>8. Prepared'
    <2>1. mine[r] = NoTask
      BY <1>7 DEF Prepared
    <2>2. where'[r] = "owner"
      BY DEF ScsiTypeOK
    <2>3. \A s \in Requests : s # r => where'[s] = where[s]
      BY DEF ScsiTypeOK
    <2> QED
      BY <2>1, <2>3, <2>2 DEF Prepared, taskVars
  <1>9. Called'
    BY <1>4 DEF ScsiTypeOK, Called, WhereAt, CallbackAt
  <1>10. \A l \in Completers : \A e : Uses(l, e)' <=> Uses(l, e)
    BY DEF ScsiTypeOK, Uses, Inside
  <1>11. Held'
    BY DEF ScsiTypeOK, Held, Inside, RefsAt, RecordsAt, taskVars
  <1>12. Tasked'
    <2>1. Uses(k, d)
      BY DEF Uses, Inside
    <2> QED
      BY <1>10, <2>1 DEF ScsiTypeOK, Tasked, Live, taskVars
  <1>13. \A e \in Tasks : Waiting(e) => e # d
    BY DEF Waiting
  <1>14. InQueue' /\ AtWork'
    BY <1>13, <1>7, QueueKept DEF ScsiTypeOK, Waiting, Live, taskVars
  <1>15. RefusedIfUnshadowed'
    BY DEF ScsiTypeOK, RefusedIfUnshadowed
  <1> QED
    BY <1>5, <1>6, <1>8, <1>9, <1>11, <1>12, <1>14, <1>15

LEMMA FreeUnlinkKeeps ==
  ASSUME TasksIInv, NEW k \in Completers, FreeUnlink(k)
  PROVE  TasksIInv'
  <1>1. pcK[k] = "unlink2" /\ pcK[k] \in Inside
    BY DEF FreeUnlink, TasksIInv, Called, Inside
  <1>2. PICK d \in Tasks :
          /\ task[k] = d /\ Live(d) /\ of[k] \in Requests /\ req[d] = of[k]
          /\ where[of[k]] = "owner" /\ callback[of[k]] = "owner"
          /\ \A e \in Tasks : req[e] = of[k] => e = d
          /\ \A l \in Completers : Uses(l, d) => l = k
    BY <1>1, HeldTask, Holding DEF WhereAt, CallbackAt
  <1>3. /\ list' = Without(d) /\ req' = [req EXCEPT ![d] = NoRequest]
        /\ pcK' = [pcK EXCEPT ![k] = "return"]
        /\ UNCHANGED << requestVars, use, taskRefs, original, hooked, shadow, recorded,
                        workerVars, of, task >>
    BY <1>1, <1>2 DEF FreeUnlink, CallbackGoTo
  <1> USE <1>1, <1>2, <1>3 DEF TasksIInv
  <1>4. list' \in Seq(Tasks) /\ IsInjective(list') /\ Range(list') = Range(list) \ {d}
    BY WithoutIs
  <1>5. ScsiTypeOK'
    <2>1. req' \in [Tasks -> Requests \cup {NoRequest}] /\ pcK' \in [Completers -> CallbackPlaces]
      BY DEF ScsiTypeOK, CallbackPlaces
    <2> QED
      BY <1>4, <2>1 DEF ScsiTypeOK, CallbackPlaces, requestVars, workerVars
  <1>6. Listed'
    BY <1>4 DEF ScsiTypeOK, Listed, Live
  <1>7. OneTask' /\ OneCompleter' /\ RefusedIfUnshadowed'
    BY DEF ScsiTypeOK, OneTask, OneCompleter, RefusedIfUnshadowed, Live, requestVars
  <1>8. Prepared'
    <2>1. \A r \in Requests : where[r] \in {"hook", "enqueue"} => mine[r] # d
      BY DEF Prepared
    <2>2. \A r \in Requests : callback[r] = "hook" => \E e \in Tasks : req[e] = r /\ e # d
      BY DEF Prepared
    <2> QED
      BY <2>1, <2>2 DEF ScsiTypeOK, Prepared, requestVars
  <1>9. Called'
    BY DEF ScsiTypeOK, Called, WhereAt, CallbackAt, requestVars
  <1>10. \A l \in Completers : pcK'[l] \in Inside => l # k /\ task[l] # d /\ pcK'[l] = pcK[l]
    BY DEF ScsiTypeOK, Uses, Inside
  <1>11. Held'
    BY <1>10 DEF ScsiTypeOK, Held
  <1>12. Tasked'
    <2>1. \A e \in Tasks, l \in Completers : e # d => (Uses(l, e)' <=> Uses(l, e))
      BY DEF ScsiTypeOK, Uses, Inside
    <2>2. \A e \in Tasks : Live(e)' => e # d /\ req'[e] = req[e]
      BY DEF ScsiTypeOK, Live
    <2> QED
      BY <2>1, <2>2 DEF Tasked, Live, requestVars
  <1>13. \A e \in Tasks : Waiting(e) => e # d
    BY DEF Waiting
  <1>14. InQueue' /\ AtWork'
    BY <1>13, ScsiAssumption, QueueKept DEF ScsiTypeOK, Waiting, Live, requestVars
  <1> QED
    BY <1>5, <1>6, <1>7, <1>8, <1>9, <1>11, <1>12, <1>14

LEMMA ReturnTaskKeeps ==
  ASSUME TasksIInv, NEW k \in Completers, ReturnTask(k)
  PROVE  TasksIInv'
  <1>1. /\ pcK[k] = "return" /\ of[k] \in Requests /\ where[of[k]] = "owner"
        /\ pcK' = [pcK EXCEPT ![k] = "idle"] /\ of' = [of EXCEPT ![k] = NoRequest]
        /\ task' = [task EXCEPT ![k] = NoTask]
        /\ UNCHANGED << requestVars, taskVars, workerVars >>
    BY DEF ReturnTask, CallbackGoTo, TasksIInv, Called, WhereAt
  <1> USE <1>1 DEF TasksIInv
  <1>2. ScsiTypeOK'
    <2>1. pcK' \in [Completers -> CallbackPlaces]
          /\ of' \in [Completers -> Requests \cup {NoRequest}]
          /\ task' \in [Completers -> Tasks \cup {NoTask}]
      BY DEF ScsiTypeOK, CallbackPlaces
    <2> QED
      BY <2>1 DEF ScsiTypeOK, CallbackPlaces, requestVars, taskVars, workerVars
  <1>3. (Listed /\ OneTask /\ RefusedIfUnshadowed)'
    BY DEF Listed, OneTask, RefusedIfUnshadowed, Live, requestVars, taskVars
  <1>4. OneCompleter'
    BY DEF ScsiTypeOK, OneCompleter
  <1>5. Prepared'
    BY DEF ScsiTypeOK, Prepared, requestVars, taskVars
  <1>6. Called'
    BY DEF ScsiTypeOK, Called, requestVars
  <1>7. \A l \in Completers : pcK'[l] \in Inside => l # k
    BY DEF ScsiTypeOK, Inside
  <1>8. Held'
    BY <1>7 DEF ScsiTypeOK, Held, taskVars
  <1>9. \A l \in Completers : \A e : Uses(l, e)' <=> Uses(l, e)
    BY <1>7 DEF ScsiTypeOK, Uses, Inside
  <1>10. Tasked'
    BY <1>9 DEF Tasked, Live, requestVars, taskVars
  <1>11. InQueue' /\ AtWork'
    BY QueueKept DEF Waiting, Live, requestVars, taskVars
  <1> QED
    BY <1>2, <1>3, <1>4, <1>5, <1>6, <1>8, <1>10, <1>11

----------------------------------------------------------------------------
LEMMA NextTasks == ASSUME TasksIInv, [ScsiNext]_scsiVars, ~early' PROVE TasksIInv'
  <1>1. ASSUME NEW r \in Requests, Execute(r) \/ ExecuteWorks(r) \/ Completes(r) PROVE TasksIInv'
    <2>1. CASE Completes(r)
      BY <2>1, CompleteTaskKeeps DEF Completes
    <2> QED
      BY <1>1, <2>1, ExecuteKeeps, CreateKeeps, FailToWireKeeps, SetHookKeeps, EnqueueTaskKeeps,
         QueueFullKeeps, WaitForShadowKeeps DEF ExecuteWorks
  <1>2. ASSUME WorkerWorks PROVE TasksIInv'
    BY <1>2, TakeJobKeeps, CopyKeeps, SignalTaskKeeps, AnswerKeeps DEF WorkerWorks
  <1>3. ASSUME NEW k \in Completers, CallbackWorks(k) PROVE TasksIInv'
    BY <1>3, FindKeeps, WaitKeeps, RecordKeeps, RestoreKeeps, CallKeeps, ReleaseTaskKeeps,
       FreeRestoreKeeps, FreeUnlinkKeeps, ReturnTaskKeeps DEF CallbackWorks
  <1>4. ASSUME UNCHANGED scsiVars PROVE TasksIInv'
    <2>1. ScsiTypeOK' /\ Listed' /\ OneTask' /\ OneCompleter' /\ RefusedIfUnshadowed'
      BY <1>4 DEF scsiVars, requestVars, taskVars, workerVars, frameVars, TasksIInv, ScsiTypeOK,
                  Listed, OneTask, OneCompleter, RefusedIfUnshadowed, Live
    <2>2. Prepared' /\ Called' /\ Held'
      BY <1>4 DEF scsiVars, requestVars, taskVars, frameVars, TasksIInv, Prepared, Called, Held
    <2>3. Tasked' /\ InQueue' /\ AtWork'
      BY <1>4 DEF scsiVars, requestVars, taskVars, workerVars, frameVars, TasksIInv, Tasked, InQueue,
                  AtWork, Waiting, Uses, Live
    <2> QED
      BY <2>1, <2>2, <2>3 DEF TasksIInv
  <1> QED
    BY <1>1, <1>2, <1>3, <1>4 DEF ScsiNext

LEMMA Accounted == ASSUME TasksIInv PROVE TaskAccounted
  <1> USE DEF TasksIInv
  <1>1. DataHeld
    <2> SUFFICES ASSUME NEW d \in Queued
                 PROVE  /\ Live(d) /\ taskRefs[d] > 0
                        /\ where[req[d]] # "owner" /\ use[d] = uses[req[d]]
      BY DEF DataHeld
    <2>1. Waiting(d)
      BY ScsiAssumption DEF Queued, InQueue, AtWork, Range, ScsiTypeOK
    <2>2. taskRefs[d] > 0
      <3>1. CASE \A k \in Completers : ~Uses(k, d)
        BY <2>1, <3>1 DEF Tasked, Waiting
      <3>2. CASE \E k \in Completers : Uses(k, d)
        <4>1. PICK k \in Completers : pcK[k] \in Inside /\ task[k] = d
          BY <3>2 DEF Uses
        <4>2. pcK[k] = "wait"
          BY <2>1, <4>1, Holding DEF Waiting
        <4> QED
          BY <4>1, <4>2, Holding DEF RefsAt
      <3> QED
        BY <3>1, <3>2
    <2> QED
      BY <2>1, <2>2 DEF Waiting, Tasked
  <1>2. OwnTask
    <2> SUFFICES ASSUME NEW k \in Completers,
                        pcK[k] \in {"wait", "record", "restore", "call", "release1", "release2"}
                 PROVE  /\ Live(task[k]) /\ taskRefs[task[k]] > 0 /\ req[task[k]] = of[k]
                        /\ where[of[k]] = "callback" => use[task[k]] = uses[of[k]]
      BY DEF OwnTask
    <2>1. task[k] \in Tasks /\ Live(task[k]) /\ req[task[k]] = of[k]
      BY HeldTask DEF Inside
    <2>2. taskRefs[task[k]] > 0
      BY Holding DEF Inside, RefsAt
    <2> QED
      BY <2>1, <2>2 DEF Tasked
  <1>3. ReportedOnce
    <2>1. ASSUME NEW d \in Tasks, Live(d)
          PROVE  recorded[d] <= 1 /\ (recorded[d] = 1 => shadow[d] # "pending")
      <3>1. CASE \A k \in Completers : ~Uses(k, d)
        BY <2>1, <3>1 DEF Tasked
      <3>2. CASE \E k \in Completers : Uses(k, d)
        <4>1. PICK k \in Completers : pcK[k] \in Inside /\ task[k] = d
          BY <3>2 DEF Uses
        <4> QED
          BY <4>1, Holding DEF RecordsAt
      <3> QED
        BY <3>1, <3>2
    <2>2. ASSUME NEW r \in Requests, where[r] = "owner", \A k \in Completers : of[k] # r,
                 NEW d \in Tasks, req[d] = r
          PROVE  FALSE
      <3>1. PICK k \in Completers : Uses(k, d)
        BY <2>2, ScsiAssumption DEF Tasked, Live
      <3> QED
        BY <2>2, <3>1 DEF Held, Uses
    <2> QED
      BY <2>1, <2>2 DEF ReportedOnce
  <1> QED
    BY <1>1, <1>2, <1>3 DEF TaskAccounted, TaskHeld

(* An execution that came early stays one.                                 *)
LEMMA EarlyStays == ASSUME early, [ScsiNext]_scsiVars PROVE early'
  <1> USE DEF requestVars
  <1>1. ASSUME NEW r \in Requests, Execute(r) \/ ExecuteWorks(r) \/ Completes(r) PROVE early'
    BY <1>1 DEF Execute, ExecuteWorks, Completes, Create, FailToWire, SetHook, EnqueueTask,
                QueueFull, Discard, WaitForShadow, Decide, CompleteTask
  <1>2. ASSUME WorkerWorks PROVE early'
    BY <1>2 DEF WorkerWorks, TakeJob, Copy, SignalTask, Answer
  <1>3. ASSUME NEW k \in Completers, CallbackWorks(k) PROVE early'
    BY <1>3 DEF CallbackWorks, Find, Wait, Record, Restore, Call, ReleaseTask, FreeRestore,
                FreeUnlink, ReturnTask
  <1> QED
    BY <1>1, <1>2, <1>3 DEF ScsiNext, scsiVars

LEMMA TasksUnlessEarly == ScsiSpec => [](early \/ TasksIInv)
  <1>1. ScsiInit => early \/ TasksIInv
    BY InitTasks
  <1>2. (early \/ TasksIInv) /\ [ScsiNext]_scsiVars => (early \/ TasksIInv)'
    BY EarlyStays, NextTasks
  <1> QED
    BY <1>1, <1>2, PTL DEF ScsiSpec

(* Until a request is executed again before the callback of its last       *)
(* execution has returned, nobody uses a task that is gone or another's,   *)
(* and a shadowed command is reported exactly once, after its data (shadow-*)
(* CSITaskCompletionCallbackHook with GetReferencedSCSITask, and process-  *)
(* SCSIOperationWQ). Nothing in the driver keeps an owner from being so    *)
(* early, and afterwards it is false: see OneTaskPerRequest.               *)
THEOREM TaskAccountedAll == ScsiSpec => [](early \/ TaskAccounted)
  <1>1. TasksIInv => TaskAccounted
    BY Accounted
  <1> QED
    BY <1>1, TasksUnlessEarly, PTL

(* As long, a command whose shadowing has failed does not reach the device *)
(* if errors of the shadowing disable it.                                  *)
THEOREM RefusedIfUnshadowedAll == ScsiSpec => [](early \/ RefusedIfUnshadowed)
  <1>1. TasksIInv => RefusedIfUnshadowed
    BY DEF TasksIInv
  <1> QED
    BY <1>1, TasksUnlessEarly, PTL

=============================================================================
