----------------------------- MODULE LoggedUsers -----------------------------
(***************************************************************************)
(* The users who are logged on: DldKauthCredArray, with the part of        *)
(* isAccessAllowed that checks a request on behalf of the active user      *)
(* because no process stands behind it.                                    *)
(*                                                                         *)
(* The agents of the users announce through the service that a session     *)
(* was opened, became active, was deactivated or has gone; a call of the   *)
(* service is a thread of its own.  The array and the entry of the active  *)
(* user are read and changed under a lock, which is given up between the   *)
(* steps: each action here is one hold of the lock.                        *)
(***************************************************************************)
EXTENDS Integers, Sequences, FiniteSets

Seqs == INSTANCE SequencesExt

CONSTANTS
  Announcers, Checkers,  (* threads                                        *)
  Sessions,
  Entries,               (* memory for the entries                         *)
  None

ASSUME UsersAssumption ==
  /\ None \notin Entries /\ None \notin Sessions
  /\ IsFiniteSet(Announcers) /\ IsFiniteSet(Checkers) /\ Announcers \cap Checkers = {}

VARIABLES
  refs, sess,            (* of an entry: references, the session it is of  *)
  array, active,         (* the array, activeUserEntry                     *)
  pcU,
  call,                  (* of an announcer: what it announces             *)
  found,                 (*   its reference to the entry (setUserState)    *)
  old,                   (*   oldActiveEntry, whose reference it took over *)
  target, back,          (*   the session to remove, and what follows      *)
  walk,                  (* of a checker: i of its walk through the array  *)
  current, taken, decision  (* currentCredEntry, activeKauthCredEntry and
                               decisionKauthCredEntry                      *)

entryVars    == << refs, sess, array, active >>
announceVars == << call, found, old, target, back >>
checkVars    == << walk, current, taken, decision >>
usersVars    == << entryVars, pcU, announceVars, checkVars >>

States == {"opened", "active", "deactivated", "out"}
NoCall == [session |-> None, state |-> "out"]

UsersInit ==
  /\ refs = [e \in Entries |-> 0] /\ sess = [e \in Entries |-> None]
  /\ array = << >> /\ active = None
  /\ pcU = [t \in Announcers \cup Checkers |-> "idle"]
  /\ call = [t \in Announcers |-> NoCall]
  /\ found = [t \in Announcers |-> None] /\ old = [t \in Announcers |-> None]
  /\ target = [t \in Announcers |-> None] /\ back = [t \in Announcers |-> "exit"]
  /\ walk = [c \in Checkers |-> 0] /\ current = [c \in Checkers |-> None]
  /\ taken = [c \in Checkers |-> None] /\ decision = [c \in Checkers |-> None]

Goto(t, place) == pcU' = [pcU EXCEPT ![t] = place]

(* References: n more to e; an entry without any is freed.                 *)
Ref(e, n) ==
  /\ refs' = [refs EXCEPT ![e] = @ + n]
  /\ sess' = IF refs'[e] = 0 THEN [sess EXCEPT ![e] = None] ELSE sess

Where(s) == {i \in 1 .. Len(array) : sess[array[i]] = s}
Listed(s) == Where(s) # {}
IndexOf(s) == CHOOSE i \in Where(s) : \A j \in Where(s) : i <= j
EntryOf(s) == array[IndexOf(s)]
ActiveSession == IF active = None THEN None ELSE sess[active]

----------------------------------------------------------------------------
(* An announcement                                                         *)

setUserState(t) ==
  /\ pcU[t] = "idle"
  /\ \E s \in Sessions, state \in States :
       IF state = "out"
       THEN target' = [target EXCEPT ![t] = s] /\ Goto(t, "remove") /\ UNCHANGED call
       ELSE /\ call' = [call EXCEPT ![t] = [session |-> s, state |-> state]]
            /\ Goto(t, "find") /\ UNCHANGED target
  /\ UNCHANGED << entryVars, found, old, back, checkVars >>

(* An entry that is missing is added, and the call repeated.               *)
Find(t) ==
  /\ pcU[t] = "find"
  /\ LET s == call[t].session IN
     IF Listed(s)
     THEN /\ found' = [found EXCEPT ![t] = EntryOf(s)]
          /\ Ref(EntryOf(s), 1)
          /\ target' = [target EXCEPT ![t] = IF call[t].state = "deactivated" THEN s ELSE @]
          /\ UNCHANGED back
          /\ Goto(t, CASE call[t].state = "active" -> "setLook"
                       [] call[t].state = "deactivated" -> "clearLook"
                       [] OTHER -> "exit")
     ELSE /\ back' = [back EXCEPT ![t] = "find"] /\ Goto(t, "add")
          /\ UNCHANGED << refs, sess, found, target >>
  /\ UNCHANGED << array, active, call, old, checkVars >>

(* Memory: any entry that nobody refers to.                                *)
FreeEntry == CHOOSE e \in Entries : refs[e] = 0

(* A new entry is dropped when the session got one in the meantime; it may *)
(* also be impossible to make.  The reference of its maker is given up at  *)
(* the end of the same call and is left out.                               *)
addCredForProcWithLock(t) ==
  /\ pcU[t] = "add"
  /\ back' = [back EXCEPT ![t] = "exit"]
  /\ \/ Goto(t, "exit") /\ UNCHANGED << refs, sess, array >>
     \/ /\ Goto(t, back[t])
        /\ IF Listed(call[t].session)
           THEN UNCHANGED << refs, sess, array >>
           ELSE \E e \in Entries :
                  /\ refs[e] = 0 /\ e = FreeEntry
                  /\ refs' = [refs EXCEPT ![e] = 1]
                  /\ sess' = [sess EXCEPT ![e] = call[t].session]
                  /\ array' = Append(array, e)
  /\ UNCHANGED << active, call, found, old, target, checkVars >>

SetLook(t) ==
  /\ pcU[t] = "setLook"
  /\ Goto(t, IF ActiveSession = call[t].session THEN "exit" ELSE "set")
  /\ UNCHANGED << entryVars, announceVars, checkVars >>

(* The session that was active so far is taken to have ended, as the       *)
(* service does not say so.                                                *)
setProcCredAsActiveUser(t) ==
  /\ pcU[t] = "set"
  /\ LET s == call[t].session IN
     IF Listed(s)
     THEN /\ active' = EntryOf(s) /\ Ref(EntryOf(s), 1)
          /\ IF active = None
             THEN Goto(t, "exit") /\ UNCHANGED << old, target, back >>
             ELSE /\ old' = [old EXCEPT ![t] = active]
                  /\ target' = [target EXCEPT ![t] = sess[active]]
                  /\ back' = [back EXCEPT ![t] = "releaseOld"]
                  /\ Goto(t, "remove")
     ELSE /\ back' = [back EXCEPT ![t] = "setLook"] /\ Goto(t, "add")
          /\ UNCHANGED << refs, sess, active, old, target >>
  /\ UNCHANGED << array, call, found, checkVars >>

----------------------------------------------------------------------------
(* The end of a session                                                    *)

RemoveOnly(t) ==
  /\ pcU[t] = "remove"
  /\ IF Listed(target[t])
     THEN /\ array' = Seqs!RemoveAt(array, IndexOf(target[t]))
          /\ Ref(EntryOf(target[t]), -1)
     ELSE UNCHANGED << refs, sess, array >>
  /\ Goto(t, back[t])
  /\ UNCHANGED << active, announceVars, checkVars >>

removeCredForSessionWithLock(t) ==
  /\ pcU[t] = "remove"
  /\ IF Listed(target[t])
     THEN /\ array' = Seqs!RemoveAt(array, IndexOf(target[t]))
          /\ Ref(EntryOf(target[t]), -1)
     ELSE UNCHANGED << refs, sess, array >>
  /\ Goto(t, "clearLook")
  /\ UNCHANGED << active, announceVars, checkVars >>

Forget(t) ==
  /\ Goto(t, back[t])
  /\ target' = [target EXCEPT ![t] = None] /\ back' = [back EXCEPT ![t] = "exit"]

ClearLook(t) ==
  /\ pcU[t] = "clearLook"
  /\ IF ActiveSession = target[t]
     THEN Goto(t, "clear") /\ UNCHANGED << target, back >>
     ELSE Forget(t)
  /\ UNCHANGED << entryVars, call, found, old, checkVars >>

removeSessionAsActiveUser(t) ==
  /\ pcU[t] = "clear"
  /\ IF ActiveSession = target[t]
     THEN active' = None /\ Ref(active, -1)
     ELSE UNCHANGED << refs, sess, active >>
  /\ Forget(t)
  /\ UNCHANGED << array, call, found, old, checkVars >>

ReleaseOld(t) ==
  /\ pcU[t] = "releaseOld"
  /\ Ref(old[t], -1)
  /\ old' = [old EXCEPT ![t] = None]
  /\ Goto(t, "exit")
  /\ UNCHANGED << array, active, call, found, target, back, checkVars >>

Exit(t) ==
  /\ pcU[t] = "exit"
  /\ IF found[t] = None THEN UNCHANGED << refs, sess >> ELSE Ref(found[t], -1)
  /\ found' = [found EXCEPT ![t] = None] /\ call' = [call EXCEPT ![t] = NoCall]
  /\ Goto(t, "idle")
  /\ UNCHANGED << array, active, old, target, back, checkVars >>

----------------------------------------------------------------------------
(* A check on behalf of the users who are logged on                        *)

TakeOnce(c) ==
  /\ pcU[c] = "idle" /\ (active # None \/ array # << >>)
  /\ LET e == IF active # None THEN active ELSE array[1] IN
     /\ taken' = [taken EXCEPT ![c] = e] /\ current' = [current EXCEPT ![c] = e]
     /\ Ref(e, 1)
  /\ walk' = [walk EXCEPT ![c] = 0]
  /\ Goto(c, "check")
  /\ UNCHANGED << array, active, announceVars, decision >>

(* The active user, or else the first; without any nothing is checked.     *)
Take(c) ==
  /\ pcU[c] = "idle" /\ (active # None \/ array # << >>)
  /\ LET e == IF active # None THEN active ELSE array[1] IN
     /\ taken' = [taken EXCEPT ![c] = e] /\ current' = [current EXCEPT ![c] = e]
     /\ Ref(e, 2)
  /\ walk' = [walk EXCEPT ![c] = 0]
  /\ Goto(c, "check")
  /\ UNCHANGED << array, active, announceVars, decision >>

(* Without a decision the one still current is released, and the user      *)
(* taken at the start is named.                                            *)
NameTaken(c) ==
  /\ refs' = [refs EXCEPT ![current[c]] = @ - 1, ![taken[c]] = @ + 1]
  /\ sess' = IF refs'[current[c]] = 0 THEN [sess EXCEPT ![current[c]] = None] ELSE sess
  /\ decision' = [decision EXCEPT ![c] = taken[c]]
  /\ current' = [current EXCEPT ![c] = None]
  /\ Goto(c, "use")

(* The user decides, or the next is asked, or the device is not checked at *)
(* all.  A decision keeps the reference of its user.                       *)
Check(c) ==
  /\ pcU[c] = "check"
  /\ \/ /\ decision' = [decision EXCEPT ![c] = current[c]]
        /\ current' = [current EXCEPT ![c] = None]
        /\ Goto(c, "use") /\ UNCHANGED << refs, sess >>
     \/ Goto(c, "walk") /\ UNCHANGED << refs, sess, decision, current >>
     \/ NameTaken(c)
  /\ UNCHANGED << array, active, announceVars, walk, taken >>

(* Both comparisons that are to skip who was asked look at the one just    *)
(* asked.                                                                  *)
Walk(c) ==
  /\ pcU[c] = "walk"
  /\ LET cur  == current[c]
         next == {j \in walk[c] + 1 .. Len(array) : cur # array[j] /\ cur # taken[c]} IN
     IF next = {}
     THEN NameTaken(c) /\ UNCHANGED walk
     ELSE LET j == CHOOSE k \in next : \A l \in next : k <= l IN
          /\ walk' = [walk EXCEPT ![c] = j]
          /\ current' = [current EXCEPT ![c] = array[j]]
          /\ refs' = [refs EXCEPT ![cur] = @ - 1, ![array[j]] = @ + 1]
          /\ sess' = IF refs'[cur] = 0 THEN [sess EXCEPT ![cur] = None] ELSE sess
          /\ Goto(c, "check") /\ UNCHANGED decision
  /\ UNCHANGED << array, active, announceVars, taken >>

DldReleaseResources(c) ==
  /\ pcU[c] = "use"
  /\ LET less(e) == Cardinality({x \in {"taken", "decision"} :
                                   e = IF x = "taken" THEN taken[c] ELSE decision[c]}) IN
     /\ refs' = [e \in Entries |-> refs[e] - less(e)]
     /\ sess' = [e \in Entries |-> IF refs'[e] = 0 THEN None ELSE sess[e]]
  /\ taken' = [taken EXCEPT ![c] = None] /\ decision' = [decision EXCEPT ![c] = None]
  /\ walk' = [walk EXCEPT ![c] = 0]
  /\ Goto(c, "idle")
  /\ UNCHANGED << array, active, announceVars, current >>

AnnouncerStep(t) ==
  \/ setUserState(t) \/ Find(t) \/ addCredForProcWithLock(t)
  \/ SetLook(t) \/ setProcCredAsActiveUser(t)
  \/ removeCredForSessionWithLock(t) \/ ClearLook(t)
  \/ removeSessionAsActiveUser(t) \/ ReleaseOld(t) \/ Exit(t)
CheckerStep(c) == Take(c) \/ Check(c) \/ Walk(c) \/ DldReleaseResources(c)

UsersNext ==
  (\E t \in Announcers : AnnouncerStep(t)) \/ (\E c \in Checkers : CheckerStep(c))

UsersSpec == UsersInit /\ [][UsersNext]_usersVars

----------------------------------------------------------------------------
(* Who has left is not taken for the active user: an active entry is in    *)
(* the array, or the thread that took it out is about to clear it; and a   *)
(* session has one entry there.                                            *)
ActiveListed ==
  /\ \/ active = None
     \/ \E i \in 1 .. Len(array) : array[i] = active
     \/ \E t \in Announcers : pcU[t] \in {"clearLook", "clear"} /\ target[t] = sess[active]
  /\ \A s \in Sessions : Cardinality(Where(s)) <= 1

(* Every reference to an entry has an owner and every owner a reference,   *)
(* whatever order the threads take the lock in: no entry is freed while a  *)
(* check still uses its credentials, and none stays behind.                *)
Owners(e) ==
  Cardinality({i \in 1 .. Len(array) : array[i] = e})
    + (IF active = e THEN 1 ELSE 0)
    + Cardinality({t \in Announcers : found[t] = e})
    + Cardinality({t \in Announcers : old[t] = e})
    + Cardinality({c \in Checkers : current[c] = e})
    + Cardinality({c \in Checkers : taken[c] = e})
    + Cardinality({c \in Checkers : decision[c] = e})
EntriesCounted == \A e \in Entries : refs[e] = Owners(e)
=============================================================================
