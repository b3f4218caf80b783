---------------------------- MODULE AccessProofs -----------------------------
(***************************************************************************)
(* Proofs about who may use a device.                                      *)
(*                                                                         *)
(* AccessRights: the evaluation of a list, entry by entry, gives the       *)
(* verdict of the list as a whole, whatever the list, the user and the     *)
(* rights that are asked for.                                              *)
(*                                                                         *)
(* LoggedUsers: for any number of announcing and checking threads, the     *)
(* references of an entry are the places that hold it, and an active entry *)
(* is listed or about to be cleared.                                       *)
(***************************************************************************)
EXTENDS AccessRights, LoggedUsers, FiniteSetTheorems, SequenceTheorems,
        WellFoundedInduction, TLAPS

----------------------------------------------------------------------------
(* The verdict of a list.                                                  *)

(* What more entries permit includes what fewer permit.                    *)
LEMMA PermittedMore ==
  ASSUME NEW user, NEW list, NEW m \in Int, NEW n \in Int, m <= n
  PROVE  Permitted(user, list, m) \subseteq Permitted(user, list, n)
  BY DEF Permitted

(* One more entry: a permission that applies to the user adds its rights,  *)
(* any other entry nothing.                                                *)
LEMMA PermittedStep ==
  ASSUME NEW user, NEW list, NEW n \in Nat \ {0}
  PROVE  Permitted(user, list, n + 1) =
           Permitted(user, list, n) \cup
             (IF list[n].kind = "permit" /\ Applies(user, list[n])
              THEN list[n].rights ELSE {})
<1> DEFINE P(k) == {j \in 1 .. k - 1 : list[j].kind = "permit" /\ Applies(user, list[j])}
<1>1. P(n + 1) = P(n) \cup (IF list[n].kind = "permit" /\ Applies(user, list[n])
                            THEN {n} ELSE {})
  OBVIOUS
<1> HIDE DEF P
<1>2. (UNION {list[i].rights : i \in P(n + 1)}) =
        (UNION {list[i].rights : i \in P(n)}) \cup
          (IF list[n].kind = "permit" /\ Applies(user, list[n])
           THEN list[n].rights ELSE {})
  BY <1>1
<1> QED
  BY <1>2 DEF P, Permitted

(* No entry permits anything before the first.                             *)
LEMMA PermittedNone ==
  ASSUME NEW user, NEW list
  PROVE  Permitted(user, list, 1) = {}
  BY DEF Permitted

(* Something is asked of every list.                                       *)
LEMMA SomethingRequested ==
  ASSUME request \in Requests
  PROVE  Requested # {}
<1>1. request # {}
  BY RightsAssumption
<1>2. ParentRights # {}
  BY <1>1 DEF ParentRights
<1> QED
  BY <1>1, <1>2 DEF Requested

----------------------------------------------------------------------------
(* Where the evaluation stands: what is left is what the entries so far do *)
(* not permit, something is left, and none of them denied.                 *)
Evaluating ==
  place = "entry" =>
    /\ acl \in Acls
    /\ next \in 1 .. Len(acl) + 1
    /\ residual = Requested \ Permitted(User, acl, next)
    /\ residual # {}
    /\ aeResult = "defer"
    /\ \A i \in 1 .. next - 1 : ~DeniedBy(User, acl, Requested, i)

Asked == place # "idle" => request \in Requests

RightsInv == Asked /\ Evaluating /\ VerdictRight

(* The three ways in which an evaluation ends.                             *)
LEMMA DeniedHere ==
  ASSUME NEW user, NEW list, NEW rights, NEW n \in 1 .. Len(list),
         rights \ Permitted(user, list, n) # {}, DeniedBy(user, list, rights, n)
  PROVE  Expected(user, list, rights) = "deny"
  BY DEF Expected, DeniedByList

LEMMA AllowedHere ==
  ASSUME NEW user, NEW list, Len(list) \in Nat, NEW rights, NEW n \in 1 .. Len(list),
         rights \subseteq Permitted(user, list, n + 1),
         \A i \in 1 .. n : ~DeniedBy(user, list, rights, i)
  PROVE  /\ Expected(user, list, rights) = "allow"
         /\ rights \subseteq Permitted(user, list, Len(list) + 1)
<1>1. \A i \in n + 1 .. Len(list) + 1 : rights \subseteq Permitted(user, list, i)
  <2> TAKE i \in n + 1 .. Len(list) + 1
  <2>1. Permitted(user, list, n + 1) \subseteq Permitted(user, list, i)
    BY PermittedMore
  <2> QED
    BY <2>1
<1>2. ~DeniedByList(user, list, rights)
  BY <1>1 DEF DeniedByList
<1> QED
  BY <1>1, <1>2 DEF Expected

LEMMA NothingMore ==
  ASSUME NEW user, NEW list, NEW rights,
         rights \ Permitted(user, list, Len(list) + 1) # {},
         \A i \in 1 .. Len(list) : ~DeniedBy(user, list, rights, i)
  PROVE  Expected(user, list, rights) = "defer"
  BY DEF Expected, DeniedByList

----------------------------------------------------------------------------
LEMMA RightsInitially == RightsInit => RightsInv
  BY DEF RightsInit, RightsInv, Asked, Evaluating, VerdictRight

(* Whoever is asked and for what stays the same while a list is evaluated. *)
LEMMA SameQuestion ==
  ASSUME UNCHANGED << deviceVars, whoVars >>
  PROVE  User' = User /\ Requested' = Requested
  BY DEF deviceVars, whoVars, User, Requested, ParentRights

LEMMA StartKeeps ==
  ASSUME RightsInv, NEW p, StartEvaluation(p), place # "idle",
         UNCHANGED << deviceVars, whoVars >>
  PROVE  RightsInv'
<1>1. User' = User /\ Requested' = Requested
  BY SameQuestion
<1>2. request \in Requests /\ request' = request
  BY DEF RightsInv, Asked, deviceVars
<1>3. Asked'
  BY <1>2 DEF Asked
<1>4. CASE acl' = NoAcl /\ place' = "judged"
  BY <1>3, <1>4 DEF RightsInv, Evaluating, VerdictRight
<1>5. CASE acl' \in Acls /\ User \in NoGuid /\ place' = "judged"
  BY <1>1, <1>3, <1>5 DEF RightsInv, Evaluating, VerdictRight
<1>6. CASE acl' \in Acls /\ place' = "entry" /\ aeResult' = "defer"
  <2>1. next' = 1 /\ residual' = Requested
    BY DEF StartEvaluation
  <2>2. Len(acl') \in Nat
    BY RightsAssumption, <1>6
  <2>3. Permitted(User, acl', 1) = {}
    BY PermittedNone
  <2>4. Requested # {}
    BY <1>2, SomethingRequested
  <2>5. Evaluating'
    BY <1>1, <1>6, <2>1, <2>2, <2>3, <2>4 DEF Evaluating
  <2> QED
    BY <1>3, <1>6, <2>5 DEF RightsInv, VerdictRight
<1> QED
  BY <1>4, <1>5, <1>6 DEF StartEvaluation

LEMMA EndOfListKeeps ==
  ASSUME RightsInv, EndOfList
  PROVE  RightsInv'
<1>1. User' = User /\ Requested' = Requested /\ acl' = acl /\ aeResult' = aeResult
      /\ residual' = residual
  BY SameQuestion DEF EndOfList, evalVars
<1>2. Asked'
  BY DEF EndOfList, RightsInv, Asked, deviceVars
<1>3. acl \in Acls /\ Len(acl) \in Nat /\ next = Len(acl) + 1
  BY RightsAssumption DEF EndOfList, RightsInv, Evaluating
<1>4. residual = Requested \ Permitted(User, acl, Len(acl) + 1) /\ residual # {}
  BY <1>3 DEF EndOfList, RightsInv, Evaluating
<1>5. \A i \in 1 .. Len(acl) : ~DeniedBy(User, acl, Requested, i)
  BY <1>3 DEF EndOfList, RightsInv, Evaluating
<1>6. Expected(User, acl, Requested) = "defer"
  BY <1>4, <1>5, NothingMore
<1>7. aeResult = "defer"
  BY DEF EndOfList, RightsInv, Evaluating
<1>8. VerdictRight'
  BY <1>1, <1>4, <1>6, <1>7 DEF VerdictRight
<1> QED
  BY <1>2, <1>8 DEF EndOfList, RightsInv, Evaluating

LEMMA PassOverKeeps ==
  ASSUME RightsInv, PassOver
  PROVE  RightsInv'
<1>1. User' = User /\ Requested' = Requested /\ acl' = acl /\ aeResult' = aeResult
      /\ residual' = residual /\ next' = next + 1 /\ place' = "entry"
  BY SameQuestion DEF PassOver
<1>2. Asked'
  BY DEF PassOver, RightsInv, Asked, deviceVars
<1>3. acl \in Acls /\ Len(acl) \in Nat /\ next \in 1 .. Len(acl)
  BY RightsAssumption DEF PassOver, RightsInv, Evaluating
<1>4. residual = Requested \ Permitted(User, acl, next)
  BY DEF PassOver, RightsInv, Evaluating
<1>5. residual = Requested \ Permitted(User, acl, next + 1)
  <2>1. CASE acl[next].kind = "permit" /\ Applies(User, acl[next])
    <3>1. acl[next].rights \cap residual = {}
      BY <2>1 DEF PassOver
    <3>2. Permitted(User, acl, next + 1) = Permitted(User, acl, next) \cup acl[next].rights
      <4>1. next \in Nat \ {0}
        BY <1>3
      <4> QED
        BY <2>1, <4>1, PermittedStep
    <3> QED
      BY <1>4, <3>1, <3>2
  <2>2. CASE ~(acl[next].kind = "permit" /\ Applies(User, acl[next]))
    BY <1>3, <1>4, <2>2, PermittedStep
  <2> QED
    BY <2>1, <2>2
<1>6. ~DeniedBy(User, acl, Requested, next)
  BY DEF PassOver, DeniedBy
<1>7. \A i \in 1 .. next : ~DeniedBy(User, acl, Requested, i)
  BY <1>3, <1>6 DEF PassOver, RightsInv, Evaluating
<1>8. Evaluating'
  BY <1>1, <1>3, <1>5, <1>7 DEF PassOver, RightsInv, Evaluating
<1> QED
  BY <1>1, <1>2, <1>8 DEF RightsInv, VerdictRight

LEMMA PermitKeeps ==
  ASSUME RightsInv, Permit
  PROVE  RightsInv'
<1>1. User' = User /\ Requested' = Requested /\ acl' = acl /\ next' = next + 1
  BY SameQuestion DEF Permit
<1>2. Asked'
  BY DEF Permit, RightsInv, Asked, deviceVars
<1>3. acl \in Acls /\ Len(acl) \in Nat /\ next \in 1 .. Len(acl)
  BY RightsAssumption DEF Permit, RightsInv, Evaluating
<1>4. residual = Requested \ Permitted(User, acl, next)
  BY DEF Permit, RightsInv, Evaluating
<1>5. residual' = Requested \ Permitted(User, acl, next + 1)
  <2>1. Permitted(User, acl, next + 1) = Permitted(User, acl, next) \cup acl[next].rights
    <3>1. next \in Nat \ {0}
      BY <1>3
    <3>2. acl[next].kind = "permit" /\ Applies(User, acl[next])
      BY DEF Permit
    <3> QED
      BY <3>1, <3>2, PermittedStep
  <2> QED
    BY <1>4, <2>1 DEF Permit
<1>6. ~DeniedBy(User, acl, Requested, next)
  BY DEF Permit, DeniedBy
<1>7. \A i \in 1 .. next : ~DeniedBy(User, acl, Requested, i)
  BY <1>3, <1>6 DEF Permit, RightsInv, Evaluating
<1>8. CASE residual' = {}
  <2>1. Requested \subseteq Permitted(User, acl, next + 1)
    BY <1>5, <1>8
  <2>2. /\ Expected(User, acl, Requested) = "allow"
        /\ Requested \subseteq Permitted(User, acl, Len(acl) + 1)
    BY <1>3, <1>7, <2>1, AllowedHere
  <2>3. aeResult' = "allow" /\ place' = "judged"
    BY <1>8 DEF Permit
  <2>4. residual' = Requested \ Permitted(User, acl, Len(acl) + 1)
    BY <1>8, <2>2
  <2> QED
    BY <1>1, <1>2, <2>2, <2>3, <2>4 DEF RightsInv, Evaluating, VerdictRight
<1>9. CASE residual' # {}
  <2>1. aeResult' = aeResult /\ place' = "entry"
    BY <1>9 DEF Permit
  <2>2. Evaluating'
    BY <1>1, <1>3, <1>5, <1>7, <1>9, <2>1 DEF Permit, RightsInv, Evaluating
  <2> QED
    BY <1>2, <2>1, <2>2 DEF RightsInv, VerdictRight
<1> QED
  BY <1>8, <1>9

LEMMA DenyKeeps ==
  ASSUME RightsInv, Deny
  PROVE  RightsInv'
<1>1. User' = User /\ Requested' = Requested /\ acl' = acl
  BY SameQuestion DEF Deny
<1>2. Asked'
  BY DEF Deny, RightsInv, Asked, deviceVars
<1>3. acl \in Acls /\ Len(acl) \in Nat /\ next \in 1 .. Len(acl)
  BY RightsAssumption DEF Deny, RightsInv, Evaluating
<1>4. DeniedBy(User, acl, Requested, next)
  BY DEF Deny, DeniedBy
<1>5. Requested \ Permitted(User, acl, next) # {}
  BY DEF Deny, RightsInv, Evaluating
<1>6. Expected(User, acl, Requested) = "deny"
  BY <1>3, <1>4, <1>5, DeniedHere
<1>7. aeResult' = "deny" /\ place' = "judged"
  BY DEF Deny
<1> QED
  BY <1>1, <1>2, <1>6, <1>7 DEF RightsInv, Evaluating, VerdictRight

LEMMA CheckKeeps ==
  ASSUME RightsInv, CheckLevel \/ CheckLog
  PROVE  RightsInv'
<1>1. place # "idle" /\ UNCHANGED << deviceVars, whoVars >>
  BY DEF CheckLevel, CheckLog
<1>2. CASE StartEvaluation("access")
  BY <1>1, <1>2, StartKeeps
<1>3. CASE StartEvaluation("log")
  BY <1>1, <1>3, StartKeeps
<1>4. CASE place' = "logging"
  BY <1>1, <1>4 DEF RightsInv, Asked, Evaluating, VerdictRight, deviceVars
<1> QED
  BY <1>2, <1>3, <1>4 DEF CheckLevel, CheckLog

(* All that happens between the evaluations.                               *)
LEMMA OthersKeep ==
  ASSUME RightsInv,
         \/ BeginCheck \/ FetchWhiteList \/ SkipLevel \/ Conclude \/ ConcludeLog
         \/ SkipLog \/ EndLevel \/ TakeAnswer
  PROVE  RightsInv'
<1>1. place' \notin {"entry", "judged"}
  BY DEF BeginCheck, FetchWhiteList, SkipLevel, Conclude, ConcludeLog, SkipLog, EndLevel,
         GoOn, TakeAnswer
<1>2. Asked'
  BY DEF BeginCheck, FetchWhiteList, SkipLevel, Conclude, ConcludeLog, SkipLog, EndLevel,
         TakeAnswer, RightsInv, Asked, deviceVars
<1> QED
  BY <1>1, <1>2 DEF RightsInv, Evaluating, VerdictRight

LEMMA StutterKeeps ==
  ASSUME RightsInv, UNCHANGED rightsVars
  PROVE  RightsInv'
<1>1. UNCHANGED << deviceVars, whoVars, evalVars, place >>
  BY DEF rightsVars
<1>2. User' = User /\ Requested' = Requested
  BY <1>1, SameQuestion
<1> QED
  BY <1>1, <1>2 DEF RightsInv, Asked, Evaluating, VerdictRight, evalVars, deviceVars

LEMMA RightsStep ==
  ASSUME RightsInv, [RightsNext]_rightsVars
  PROVE  RightsInv'
<1>1. CASE RightsNext
  BY <1>1, EndOfListKeeps, PassOverKeeps, PermitKeeps, DenyKeeps, CheckKeeps,
     OthersKeep DEF RightsNext
<1>2. CASE UNCHANGED rightsVars
  BY <1>2, StutterKeeps
<1> QED
  BY <1>1, <1>2

----------------------------------------------------------------------------
(* The evaluation that stops at the first entry that decides gives the     *)
(* verdict of the list as a whole (DldKauthAclEvaluate), for every list,   *)
(* every user and every set of rights.                                     *)
THEOREM VerdictRightAll == RightsSpec => []VerdictRight
<1>1. RightsInit => RightsInv
  BY RightsInitially
<1>2. RightsInv /\ [RightsNext]_rightsVars => RightsInv'
  BY RightsStep
<1>3. RightsInv => VerdictRight
  BY DEF RightsInv
<1> QED
  BY <1>1, <1>2, <1>3, PTL DEF RightsSpec

----------------------------------------------------------------------------
(* What is denied is the level of the first denial, and it ends the check: *)
(* from then on the lists are asked for the log only.                      *)
Denied ==
  aclType = "security" =>
    /\ disable = [l \in Levels |-> l = denial]
    /\ denial \in Levels \cup {"none"}
    /\ checkCompleted <=> denial # "none"
LogOnly ==
  /\ aclType = "security" /\ checkCompleted =>
       \/ checkForLogOnly \/ place \in {"logging", "checked"}
       \/ place \in {"entry", "judged"} /\ purpose = "log"
  /\ place \in {"entry", "judged"} /\ purpose = "access" => ~checkForLogOnly
DecisionInv ==
  /\ level \in Levels
  /\ checkForLogOnly \in BOOLEAN /\ checkCompleted \in BOOLEAN
  /\ place = "idle" => aclType = "security" /\ ~checkCompleted
  /\ Denied /\ LogOnly

LEMMA DecisionInitially == RightsInit => DecisionInv
  BY DEF RightsInit, DecisionInv, Denied, LogOnly, Levels, Nowhere

(* Steps that leave the decision as it is.                                 *)
LEMMA DecisionKept ==
  ASSUME DecisionInv,
         \/ FetchWhiteList \/ EndOfList \/ PassOver \/ Permit \/ Deny \/ SkipLevel
         \/ CheckLevel \/ CheckLog \/ ConcludeLog \/ SkipLog
  PROVE  DecisionInv'
<1> USE DEF DecisionInv, Denied, LogOnly, deviceVars, flagVars, whoVars, outputVars
<1>1. CASE FetchWhiteList
  BY <1>1 DEF FetchWhiteList, Levels
<1>2. CASE EndOfList \/ PassOver \/ Permit \/ Deny
  BY <1>2 DEF EndOfList, PassOver, Permit, Deny
<1>3. CASE SkipLevel \/ ConcludeLog \/ SkipLog
  BY <1>3 DEF SkipLevel, ConcludeLog, SkipLog
<1>4. CASE CheckLevel \/ CheckLog
  BY <1>4 DEF CheckLevel, CheckLog, StartEvaluation
<1> QED
  BY <1>1, <1>2, <1>3, <1>4

LEMMA EndLevelKeeps ==
  ASSUME DecisionInv, EndLevel
  PROVE  DecisionInv'
<1> USE DEF DecisionInv, Denied, LogOnly, deviceVars, outputVars
<1>1. level' \in Levels
  BY DEF EndLevel, GoOn, AfterLevel, Levels
<1>2. place' \in {"level", "credential"}
  BY DEF EndLevel, GoOn
<1>3. aclType = "security" /\ checkCompleted => checkForLogOnly'
  BY DEF EndLevel
<1> QED
  BY <1>1, <1>2, <1>3 DEF EndLevel

LEMMA ConcludeKeeps ==
  ASSUME DecisionInv, Conclude
  PROVE  DecisionInv'
<1>1. PICK died \in BOOLEAN, exempt \in BOOLEAN :
        LET verdict == FinalResult(died, exempt) IN
        IF aclType = "security"
        THEN /\ disable' = IF verdict = "defer" THEN disable
                           ELSE [disable EXCEPT ![level] = verdict = "deny"]
             /\ denial' = IF verdict = "deny" /\ denial = "none" THEN level ELSE denial
             /\ checkCompleted' = (verdict = "deny" \/ checkCompleted)
        ELSE checkCompleted' = (verdict = "allow" \/ checkCompleted)
  BY DEF Conclude
<1>2. place' = "logging" /\ level' = level /\ aclType' = aclType
      /\ checkForLogOnly' = checkForLogOnly
  BY DEF Conclude, deviceVars, whoVars
<1>3. level \in Levels /\ checkCompleted' \in BOOLEAN /\ checkForLogOnly' \in BOOLEAN
  BY <1>1, <1>2 DEF DecisionInv
<1>4. LogOnly'
  BY <1>2 DEF LogOnly
<1>5. ASSUME aclType = "security"
      PROVE  Denied'
  <2> DEFINE verdict == FinalResult(died, exempt)
  <2>1. ~checkCompleted /\ denial = "none" /\ disable = [l \in Levels |-> FALSE]
    BY <1>5 DEF Conclude, DecisionInv, Denied, LogOnly, Levels
  <2> HIDE DEF verdict
  <2>2. disable' = IF verdict = "defer" THEN disable
                   ELSE [disable EXCEPT ![level] = verdict = "deny"]
    BY <1>1, <1>5 DEF verdict
  <2>3. denial' = IF verdict = "deny" THEN level ELSE "none"
    BY <1>1, <1>5, <2>1 DEF verdict
  <2>4. checkCompleted' <=> verdict = "deny"
    BY <1>1, <1>5, <2>1 DEF verdict
  <2>5. level # "none"
    BY <1>3 DEF Levels
  <2>6. disable' = [l \in Levels |-> l = denial']
    BY <1>3, <2>1, <2>2, <2>3 DEF Levels
  <2> QED
    BY <1>2, <1>3, <1>5, <2>3, <2>4, <2>5, <2>6 DEF Denied
<1> QED
  BY <1>2, <1>3, <1>4, <1>5 DEF DecisionInv, Denied

LEMMA CallKeeps ==
  ASSUME DecisionInv, BeginCheck \/ TakeAnswer
  PROVE  DecisionInv'
<1>1. CASE BeginCheck
  BY <1>1 DEF BeginCheck, DecisionInv, Denied, LogOnly, outputVars
<1>2. CASE TakeAnswer
  BY <1>2 DEF TakeAnswer, DecisionInv, Denied, LogOnly, Levels, Nowhere
<1> QED
  BY <1>1, <1>2

LEMMA DecisionStep ==
  ASSUME DecisionInv, [RightsNext]_rightsVars
  PROVE  DecisionInv'
<1>1. CASE RightsNext
  BY <1>1, DecisionKept, EndLevelKeeps, ConcludeKeeps, CallKeeps DEF RightsNext
<1>2. CASE UNCHANGED rightsVars
  BY <1>2 DEF rightsVars, DecisionInv, Denied, LogOnly, deviceVars, flagVars,
     whoVars, outputVars
<1> QED
  BY <1>1, <1>2

(* The first denial stands (isAccessAllowed): no later credential and no   *)
(* other level takes it back or adds another, whatever the lists, however  *)
(* often the service replaces them, and whoever asks.                      *)
THEOREM DecisionStandsAll == RightsSpec => []DecisionStands
<1>1. RightsInit => DecisionInv
  BY DecisionInitially
<1>2. DecisionInv /\ [RightsNext]_rightsVars => DecisionInv'
  BY DecisionStep
<1>3. DecisionInv => DecisionStands
  BY DEF DecisionInv, Denied, DecisionStands
<1> QED
  BY <1>1, <1>2, <1>3, PTL DEF RightsSpec

----------------------------------------------------------------------------
(* The users who are logged on.                                            *)

AnnouncerPlaces ==
  {"idle", "find", "add", "setLook", "set", "remove", "clearLook", "clear", "releaseOld", "exit"}
Removing == {"remove", "clearLook", "clear"}

UsersTypes ==
  /\ refs \in [Entries -> Int] /\ sess \in [Entries -> Sessions \cup {None}]
  /\ array \in Seq(Entries) /\ active \in Entries \cup {None}
  /\ pcU \in [Announcers \cup Checkers -> AnnouncerPlaces \cup {"check", "walk", "use"}]
  /\ call \in [Announcers -> [session : Sessions \cup {None}, state : States]]
  /\ found \in [Announcers -> Entries \cup {None}]
  /\ old \in [Announcers -> Entries \cup {None}]
  /\ target \in [Announcers -> Sessions \cup {None}]
  /\ back \in [Announcers -> {"exit", "find", "setLook", "releaseOld"}]
  /\ walk \in [Checkers -> Nat]
  /\ current \in [Checkers -> Entries \cup {None}]
  /\ taken \in [Checkers -> Entries \cup {None}]
  /\ decision \in [Checkers -> Entries \cup {None}]

(* What an announcement has in its hands at each place, and where it goes  *)
(* on after an entry was added or removed.                                 *)
AnnouncerHas ==
  \A t \in Announcers :
    /\ pcU[t] \in AnnouncerPlaces
    /\ pcU[t] \in {"find", "add", "setLook", "set"} => call[t].session \in Sessions
    /\ pcU[t] \in Removing => target[t] \in Sessions
    /\ back[t] \in IF pcU[t] = "add" THEN {"find", "setLook"}
                   ELSE IF pcU[t] \in Removing THEN {"exit", "releaseOld"} ELSE {"exit"}
    /\ pcU[t] \in {"idle", "find"} \/ back[t] = "find" => found[t] = None
    /\ old[t] # None <=> pcU[t] = "releaseOld" \/ back[t] = "releaseOld"

(* And a check.                                                            *)
CheckerHas ==
  \A c \in Checkers :
    /\ pcU[c] \in {"idle", "check", "walk", "use"}
    /\ current[c] # None <=> pcU[c] \in {"check", "walk"}
    /\ taken[c] # None <=> pcU[c] # "idle"
    /\ decision[c] # None <=> pcU[c] = "use"

(* A session has one entry in the array at most, and an entry has a        *)
(* session as long as somebody refers to it.                               *)
OneEntry  == \A i, j \in DOMAIN array : sess[array[i]] = sess[array[j]] => i = j
OfSession == \A e \in Entries : sess[e] = None <=> refs[e] = 0

(* Owners, with a name for each count.                                     *)
One(b) == IF b THEN 1 ELSE 0
In(e)  == \E i \in DOMAIN array : array[i] = e
Number(f, T, e) == Cardinality({t \in T : f[t] = e})
Tally(e) ==
  One(In(e)) + One(active = e) + Number(found, Announcers, e) + Number(old, Announcers, e)
    + Number(current, Checkers, e) + Number(taken, Checkers, e) + Number(decision, Checkers, e)
Counted == \A e \in Entries : refs[e] = Tally(e)

(* An active entry is listed or about to be cleared.                       *)
Clears(t, s) == pcU[t] \in {"clearLook", "clear"} /\ target[t] = s
KnownActive ==
  active = None \/ In(active) \/ \E t \in Announcers : Clears(t, sess[active])

UsersInv ==
  /\ UsersTypes /\ AnnouncerHas /\ CheckerHas /\ OneEntry /\ OfSession /\ Counted
  /\ KnownActive

----------------------------------------------------------------------------
(* How many of a set of threads have an entry, when one of them takes      *)
(* another one.                                                            *)
OnlyAt(f, g, T, t) == \A u \in T : u # t => g[u] = f[u]
Moved(f, g, T, t) ==
  \A e : Number(g, T, e) = Number(f, T, e) - One(f[t] = e) + One(g[t] = e)
LEMMA NumberMoved ==
  ASSUME NEW T, IsFiniteSet(T), NEW f, NEW g, NEW t \in T, OnlyAt(f, g, T, t)
  PROVE  Moved(f, g, T, t)
  <1> SUFFICES ASSUME NEW e
               PROVE  Number(g, T, e) = Number(f, T, e) - One(f[t] = e) + One(g[t] = e)
    BY DEF Moved
  <1> USE DEF OnlyAt
  <1> DEFINE A == {u \in T : f[u] = e}
             B == {u \in T : g[u] = e}
             C == A \ {t}
  <1>1. IsFiniteSet(A) /\ IsFiniteSet(C)
    BY FS_Subset
  <1>2. Cardinality(A) \in Nat /\ Cardinality(C) \in Nat
    BY <1>1, FS_CardinalityType
  <1>3. Cardinality(A) = Cardinality(C) + One(f[t] = e)
    <2>1. CASE f[t] = e
      <3>1. t \in A
        BY <2>1
      <3>2. Cardinality(C) = Cardinality(A) - 1
        BY <1>1, <3>1, FS_RemoveElement
      <3> QED
        BY <1>2, <2>1, <3>2 DEF One
    <2>2. CASE f[t] # e
      <3>1. A = C
        BY <2>2
      <3> QED
        BY <1>2, <2>2, <3>1 DEF One
    <2> QED
      BY <2>1, <2>2
  <1>4. Cardinality(B) = Cardinality(C) + One(g[t] = e)
    <2>1. CASE g[t] = e
      <3>1. B = C \cup {t} /\ t \notin C
        BY <2>1
      <3>2. Cardinality(C \cup {t}) = Cardinality(C) + 1
        BY <1>1, <3>1, FS_AddElement
      <3> QED
        BY <2>1, <3>1, <3>2 DEF One
    <2>2. CASE g[t] # e
      <3>1. B = C
        BY <2>2
      <3>2. Cardinality(B) = Cardinality(C) /\ One(g[t] = e) = 0
        BY <2>2, <3>1 DEF One
      <3> HIDE DEF B, C
      <3> QED
        BY <1>2, <3>2
    <2> QED
      BY <2>1, <2>2
  <1>5. Number(f, T, e) = Cardinality(A) /\ Number(g, T, e) = Cardinality(B)
    BY DEF Number
  <1> HIDE DEF A, B, C
  <1> QED
    BY <1>2, <1>3, <1>4, <1>5 DEF One

(* Whoever has an entry is counted.                                        *)
LEMMA NumberPositive ==
  ASSUME NEW T, IsFiniteSet(T), NEW f, NEW e
  PROVE  Number(f, T, e) \in Nat /\ \A t \in T : f[t] = e => Number(f, T, e) >= 1
  <1> DEFINE A == {u \in T : f[u] = e}
  <1>1. IsFiniteSet(A)
    BY FS_Subset
  <1>2. Cardinality(A) \in Nat /\ (A # {} => Cardinality(A) # 0)
    BY <1>1, FS_CardinalityType, FS_EmptySet
  <1>3. \A t \in T : f[t] = e => A # {}
    OBVIOUS
  <1>4. Number(f, T, e) = Cardinality(A)
    BY DEF Number
  <1> HIDE DEF A
  <1> QED
    BY <1>2, <1>3, <1>4

LEMMA Numbers ==
  \A e : /\ Number(found, Announcers, e) \in Nat /\ Number(old, Announcers, e) \in Nat
         /\ Number(current, Checkers, e) \in Nat /\ Number(taken, Checkers, e) \in Nat
         /\ Number(decision, Checkers, e) \in Nat
  BY UsersAssumption, NumberPositive DEF UsersAssumption

(* Who is listed, active or in somebody's hands has a reference.           *)
Owned(e) ==
  \/ In(e) \/ active = e
  \/ \E t \in Announcers : found[t] = e \/ old[t] = e
  \/ \E c \in Checkers : current[c] = e \/ taken[c] = e \/ decision[c] = e
Referenced == \A e \in Entries : Owned(e) => refs[e] >= 1
LEMMA CountedReferenced ==
  Counted => Referenced
  <1> SUFFICES ASSUME Counted, NEW e \in Entries, Owned(e) PROVE refs[e] >= 1
    BY DEF Referenced
  <1>2. refs[e] = Tally(e)
    BY DEF Counted
  <1>3. \/ In(e) \/ active = e
        \/ Number(found, Announcers, e) >= 1 \/ Number(old, Announcers, e) >= 1
        \/ Number(current, Checkers, e) >= 1 \/ Number(taken, Checkers, e) >= 1
        \/ Number(decision, Checkers, e) >= 1
    BY UsersAssumption, NumberPositive DEF UsersAssumption, Owned
  <1> QED
    BY <1>2, <1>3, Numbers DEF Tally, One

LEMMA ReferencedNext ==
  ASSUME Counted' PROVE Referenced'
  BY CountedReferenced, PTL

(* A change of the references of one entry.                                *)
Kept == \A e \in Entries : refs'[e] # 0 => sess'[e] = sess[e]
LEMMA RefKept ==
  ASSUME UsersTypes, OfSession, NEW x \in Entries, NEW n \in Int, refs[x] # 0, Ref(x, n)
  PROVE  /\ refs' \in [Entries -> Int] /\ sess' \in [Entries -> Sessions \cup {None}]
         /\ \A e \in Entries : refs'[e] = IF e = x THEN refs[e] + n ELSE refs[e]
         /\ OfSession' /\ Kept
  BY UsersAssumption DEF UsersAssumption, UsersTypes, OfSession, Ref, Kept

LEMMA Same ==
  ASSUME UsersTypes, OfSession, UNCHANGED << refs, sess >>
  PROVE  /\ refs' \in [Entries -> Int] /\ sess' \in [Entries -> Sessions \cup {None}]
         /\ OfSession' /\ Kept
  BY DEF UsersTypes, OfSession, Kept

(* The array stays.                                                        *)
LEMMA ListKept ==
  ASSUME UsersTypes, OneEntry, Counted', Kept, array' = array
  PROVE  OneEntry'
  <1>1. Referenced'
    BY ReferencedNext
  <1>2. \A i \in DOMAIN array : array[i] \in Entries /\ sess'[array[i]] = sess[array[i]]
    <2> SUFFICES ASSUME NEW i \in DOMAIN array
                 PROVE  array[i] \in Entries /\ sess'[array[i]] = sess[array[i]]
      OBVIOUS
    <2>1. array[i] \in Entries
      BY DEF UsersTypes
    <2>2. Owned(array[i])'
      BY DEF Owned, In
    <2>3. refs'[array[i]] >= 1
      BY <1>1, <2>1, <2>2 DEF Referenced
    <2> QED
      BY <2>1, <2>3 DEF Kept
  <1> QED
    BY <1>2 DEF OneEntry

(* The active entry stays, and so does whoever is to clear it.             *)
LEMMA ActiveKept ==
  ASSUME UsersTypes, KnownActive, Counted', Kept, active' = active,
         \A e : In(e) => In(e)',
         active # None =>
           \A t \in Announcers : \A s : s = sess[active] /\ Clears(t, s) => Clears(t, s)'
  PROVE  KnownActive'
  <1>1. Referenced'
    BY ReferencedNext
  <1> SUFFICES ASSUME active # None PROVE KnownActive'
    BY DEF KnownActive
  <1>2. sess'[active] = sess[active]
    <2>1. active \in Entries /\ Owned(active)'
      BY DEF UsersTypes, Owned
    <2>2. refs'[active] >= 1
      BY <1>1, <2>1 DEF Referenced
    <2> QED
      BY <2>1, <2>2 DEF Kept
  <1> QED
    BY <1>2 DEF KnownActive


----------------------------------------------------------------------------
(* The entry of a session that is listed.                                  *)
LEMMA TheEntry ==
  ASSUME UsersTypes, OneEntry, NEW s, Listed(s)
  PROVE  /\ IndexOf(s) \in DOMAIN array /\ EntryOf(s) = array[IndexOf(s)]
         /\ EntryOf(s) \in Entries /\ sess[EntryOf(s)] = s /\ In(EntryOf(s))
  <1>1. PICK i \in Where(s) : TRUE
    BY DEF Listed
  <1>2. i \in DOMAIN array /\ sess[array[i]] = s /\ i \in Nat
    BY <1>1 DEF Where, UsersTypes
  <1>3. \A j \in Where(s) : i <= j
    <2> SUFFICES ASSUME NEW j \in Where(s) PROVE i <= j
      OBVIOUS
    <2>1. j \in DOMAIN array /\ sess[array[j]] = s
      BY DEF Where, UsersTypes
    <2>2. i = j
      BY <1>2, <2>1 DEF OneEntry
    <2> QED
      BY <1>2, <2>2
  <1>4. IndexOf(s) \in Where(s)
    BY <1>1, <1>3 DEF IndexOf
  <1>5. IndexOf(s) \in DOMAIN array /\ sess[array[IndexOf(s)]] = s
    BY <1>4 DEF Where, UsersTypes
  <1> QED
    BY <1>5 DEF EntryOf, In, UsersTypes

(* Steps that leave the entries and who has them as they are.              *)
LEMMA Quietly ==
  ASSUME UsersInv, UNCHANGED << entryVars, found, old, current, taken, decision >>
  PROVE  /\ refs' \in [Entries -> Int] /\ sess' \in [Entries -> Sessions \cup {None}]
         /\ OfSession' /\ Kept /\ Counted' /\ OneEntry' /\ \A e : In(e) => In(e)'
  <1>1. UsersTypes /\ OfSession /\ OneEntry /\ Counted
    BY DEF UsersInv
  <1>2. Counted'
    BY <1>1 DEF Counted, Tally, In, entryVars
  <1> QED
    BY <1>1, <1>2, Same, ListKept DEF entryVars, In

LEMMA OthersOfAnnouncer ==
  ASSUME UsersTypes, CheckerHas, NEW t \in Announcers, NEW p, Goto(t, p), UNCHANGED checkVars
  PROVE  CheckerHas'
  <1>1. \A c \in Checkers : pcU'[c] = pcU[c]
    BY UsersAssumption DEF UsersAssumption, UsersTypes, Goto
  <1> QED
    BY <1>1 DEF CheckerHas, checkVars

LEMMA OthersOfChecker ==
  ASSUME UsersTypes, AnnouncerHas, NEW c \in Checkers, NEW p, Goto(c, p),
         UNCHANGED announceVars
  PROVE  AnnouncerHas' /\ \A t \in Announcers : \A s : Clears(t, s) => Clears(t, s)'
  <1>1. \A t \in Announcers : pcU'[t] = pcU[t]
    BY UsersAssumption DEF UsersAssumption, UsersTypes, Goto
  <1> QED
    BY <1>1 DEF AnnouncerHas, Clears, announceVars

(* The owners change by what the thread that takes the step has, and by    *)
(* what the array and the active entry have.                               *)
Mine(t, e) == One(In(e)) + One(active = e) + One(found[t] = e) + One(old[t] = e)
His(c, e)  == One(current[c] = e) + One(taken[c] = e) + One(decision[c] = e)

LEMMA AnnouncerTally ==
  ASSUME Counted, NEW t \in Announcers,
         \A u \in Announcers : u # t => found'[u] = found[u] /\ old'[u] = old[u],
         UNCHANGED << current, taken, decision >>,
         \A e \in Entries : refs'[e] = refs[e] - Mine(t, e) + Mine(t, e)'
  PROVE  Counted'
  <1>1. \A e : Number(found', Announcers, e)
                 = Number(found, Announcers, e) - One(found[t] = e) + One(found'[t] = e)
    <2>1. IsFiniteSet(Announcers) /\ OnlyAt(found, found', Announcers, t)
      BY UsersAssumption DEF UsersAssumption, OnlyAt
    <2>2. Moved(found, found', Announcers, t)
      BY <2>1, NumberMoved
    <2> QED
      BY <2>2 DEF Moved
  <1>2. \A e : Number(old', Announcers, e)
                 = Number(old, Announcers, e) - One(old[t] = e) + One(old'[t] = e)
    <2>1. IsFiniteSet(Announcers) /\ OnlyAt(old, old', Announcers, t)
      BY UsersAssumption DEF UsersAssumption, OnlyAt
    <2>2. Moved(old, old', Announcers, t)
      BY <2>1, NumberMoved
    <2> QED
      BY <2>2 DEF Moved
  <1> SUFFICES ASSUME NEW e \in Entries PROVE refs'[e] = Tally(e)'
    BY DEF Counted
  <1>3. refs[e] = Tally(e)
    BY DEF Counted
  <1> QED
    BY <1>1, <1>2, <1>3, Numbers DEF Tally, Mine, One

LEMMA CheckerTally ==
  ASSUME Counted, NEW c \in Checkers,
         \A d \in Checkers : d # c => /\ current'[d] = current[d] /\ taken'[d] = taken[d]
                                      /\ decision'[d] = decision[d],
         UNCHANGED << array, active, found, old >>,
         \A e \in Entries : refs'[e] = refs[e] - His(c, e) + His(c, e)'
  PROVE  Counted'
  <1>1. \A e : Number(current', Checkers, e)
                 = Number(current, Checkers, e) - One(current[c] = e) + One(current'[c] = e)
    <2>1. IsFiniteSet(Checkers) /\ OnlyAt(current, current', Checkers, c)
      BY UsersAssumption DEF UsersAssumption, OnlyAt
    <2>2. Moved(current, current', Checkers, c)
      BY <2>1, NumberMoved
    <2> QED
      BY <2>2 DEF Moved
  <1>2. \A e : Number(taken', Checkers, e)
                 = Number(taken, Checkers, e) - One(taken[c] = e) + One(taken'[c] = e)
    <2>1. IsFiniteSet(Checkers) /\ OnlyAt(taken, taken', Checkers, c)
      BY UsersAssumption DEF UsersAssumption, OnlyAt
    <2>2. Moved(taken, taken', Checkers, c)
      BY <2>1, NumberMoved
    <2> QED
      BY <2>2 DEF Moved
  <1>3. \A e : Number(decision', Checkers, e)
                 = Number(decision, Checkers, e) - One(decision[c] = e)
                     + One(decision'[c] = e)
    <2>1. IsFiniteSet(Checkers) /\ OnlyAt(decision, decision', Checkers, c)
      BY UsersAssumption DEF UsersAssumption, OnlyAt
    <2>2. Moved(decision, decision', Checkers, c)
      BY <2>1, NumberMoved
    <2> QED
      BY <2>2 DEF Moved
  <1> SUFFICES ASSUME NEW e \in Entries PROVE refs'[e] = Tally(e)'
    BY DEF Counted
  <1>4. refs[e] = Tally(e) /\ In(e)' = In(e)
    BY DEF Counted, In
  <1> QED
    BY <1>1, <1>2, <1>3, <1>4, Numbers DEF Tally, His, One

(* Each step of an announcement keeps the invariant.                       *)
LEMMA SetUserStateInv ==
  ASSUME UsersInv, NEW t \in Announcers, setUserState(t) PROVE UsersInv'
  <1> USE DEF setUserState, UsersInv
  <1>1. PICK s \in Sessions, state \in States :
          IF state = "out"
          THEN target' = [target EXCEPT ![t] = s] /\ Goto(t, "remove") /\ UNCHANGED call
          ELSE /\ call' = [call EXCEPT ![t] = [session |-> s, state |-> state]]
               /\ Goto(t, "find") /\ UNCHANGED target
    OBVIOUS
  <1>2. UNCHANGED << entryVars, found, old, back, checkVars >> /\ pcU[t] = "idle"
    OBVIOUS
  <1> HIDE DEF setUserState
  <1>3. /\ refs' \in [Entries -> Int] /\ sess' \in [Entries -> Sessions \cup {None}]
        /\ OfSession' /\ Kept /\ Counted' /\ OneEntry' /\ \A e : In(e) => In(e)'
    BY <1>2, Quietly DEF entryVars, checkVars
  <1>4. UsersTypes'
    <2>1. /\ target' \in [Announcers -> Sessions \cup {None}]
          /\ call' \in [Announcers -> [session : Sessions \cup {None}, state : States]]
      <3> DEFINE C == [session : Sessions \cup {None}, state : States]
      <3>1. [session |-> s, state |-> state] \in C
        OBVIOUS
      <3>2. call \in [Announcers -> C] /\ target \in [Announcers -> Sessions \cup {None}]
        BY DEF UsersTypes
      <3> HIDE DEF C
      <3>3. call' \in [Announcers -> C] /\ target' \in [Announcers -> Sessions \cup {None}]
        BY <1>1, <3>1, <3>2
      <3> QED
        BY <3>3 DEF C
    <2>2. pcU' \in [Announcers \cup Checkers -> AnnouncerPlaces \cup {"check", "walk", "use"}]
      BY <1>1 DEF UsersTypes, Goto, AnnouncerPlaces
    <2> QED
      BY <1>2, <1>3, <2>1, <2>2 DEF UsersTypes, entryVars, checkVars
  <1>5. AnnouncerHas'
    BY <1>1, <1>2, UsersAssumption
    DEF AnnouncerHas, UsersTypes, UsersAssumption, Goto, Removing, AnnouncerPlaces
  <1>6. CheckerHas'
    BY <1>1, <1>2, OthersOfAnnouncer
  <1>7. KnownActive'
    <2>1. \A u \in Announcers : \A z : Clears(u, z) => Clears(u, z)'
      BY <1>1, <1>2 DEF Clears, UsersTypes, Goto
    <2> QED
      BY <1>2, <1>3, <2>1, ActiveKept DEF entryVars
  <1> QED
    BY <1>3, <1>4, <1>5, <1>6, <1>7

LEMMA FindInv ==
  ASSUME UsersInv, NEW t \in Announcers, Find(t) PROVE UsersInv'
  <1> DEFINE s == call[t].session
  <1> USE DEF UsersInv
  <1>1. /\ pcU[t] = "find" /\ UNCHANGED << array, active, call, old, checkVars >>
        /\ s \in Sessions /\ back[t] = "exit" /\ found[t] = None
    BY DEF Find, AnnouncerHas, Removing
  <1>2. CASE Listed(s)
    <2> DEFINE x == EntryOf(s)
    <2>1. /\ found' = [found EXCEPT ![t] = x] /\ Ref(x, 1) /\ UNCHANGED back
          /\ target' = [target EXCEPT ![t] = IF call[t].state = "deactivated" THEN s ELSE @]
          /\ Goto(t, CASE call[t].state = "active" -> "setLook"
                       [] call[t].state = "deactivated" -> "clearLook"
                       [] OTHER -> "exit")
      BY <1>2 DEF Find
    <2>2. PICK p \in {"setLook", "clearLook", "exit"} :
            Goto(t, p) /\ (p = "clearLook" => target'[t] = s)
      BY <2>1 DEF UsersTypes
    <2>3. x \in Entries /\ refs[x] >= 1
      BY <1>2, TheEntry, CountedReferenced DEF Referenced, Owned
    <2>4. /\ refs' \in [Entries -> Int] /\ sess' \in [Entries -> Sessions \cup {None}]
          /\ \A e \in Entries : refs'[e] = IF e = x THEN refs[e] + 1 ELSE refs[e]
          /\ OfSession' /\ Kept
      <3>1. refs[x] # 0 /\ 1 \in Int
        BY <2>3
      <3> QED
        BY <2>1, <2>3, <3>1, RefKept
    <2> HIDE DEF x
    <2>5. Counted'
      <3>1. /\ \A u \in Announcers : u # t => found'[u] = found[u]
            /\ found'[t] = x
        BY <2>1 DEF UsersTypes
      <3>2. \A e \in Entries : refs'[e] = refs[e] - Mine(t, e) + Mine(t, e)'
        <4> SUFFICES ASSUME NEW e \in Entries
                     PROVE  refs'[e] = refs[e] - Mine(t, e) + Mine(t, e)'
          OBVIOUS
        <4>1. /\ refs[e] \in Int /\ refs'[e] = IF e = x THEN refs[e] + 1 ELSE refs[e]
              /\ e # None
          BY <2>4, UsersAssumption DEF UsersTypes, UsersAssumption
        <4>2. In(e)' = In(e)
          BY <1>1 DEF In
        <4> HIDE DEF UsersInv
        <4> QED
          BY <1>1, <3>1, <4>1, <4>2 DEF Mine, One
      <3> QED
        BY <1>1, <3>1, <3>2, AnnouncerTally DEF checkVars
    <2>6. OneEntry'
      BY <1>1, <2>4, <2>5, ListKept
    <2>7. UsersTypes'
      BY <1>1, <2>1, <2>2, <2>3, <2>4 DEF UsersTypes, checkVars, Goto, AnnouncerPlaces
    <2>8. AnnouncerHas'
      BY <1>1, <2>1, <2>2, UsersAssumption
      DEF AnnouncerHas, UsersTypes, UsersAssumption, Goto, Removing, AnnouncerPlaces
    <2>9. CheckerHas'
      BY <1>1, <2>2, OthersOfAnnouncer
    <2>10. KnownActive'
      <3>1. \A u \in Announcers : \A z : Clears(u, z) => Clears(u, z)'
        BY <1>1, <2>1, <2>2 DEF Clears, UsersTypes, Goto
      <3>2. \A e : In(e) => In(e)'
        BY <1>1 DEF In
      <3> QED
        BY <1>1, <2>4, <2>5, <3>1, <3>2, ActiveKept
    <2> QED
      BY <2>4, <2>5, <2>6, <2>7, <2>8, <2>9, <2>10
  <1>3. CASE ~Listed(s)
    <2>1. /\ back' = [back EXCEPT ![t] = "find"] /\ Goto(t, "add")
          /\ UNCHANGED << refs, sess, found, target >>
      BY <1>3 DEF Find
    <2>2. /\ refs' \in [Entries -> Int] /\ sess' \in [Entries -> Sessions \cup {None}]
          /\ OfSession' /\ Kept /\ Counted' /\ OneEntry' /\ \A e : In(e) => In(e)'
      BY <1>1, <2>1, Quietly DEF entryVars, checkVars
    <2>3. UsersTypes'
      BY <1>1, <2>1, <2>2 DEF UsersTypes, checkVars, Goto, AnnouncerPlaces
    <2>4. AnnouncerHas'
      BY <1>1, <2>1, UsersAssumption
      DEF AnnouncerHas, UsersTypes, UsersAssumption, Goto, Removing, AnnouncerPlaces
    <2>5. CheckerHas'
      BY <1>1, <2>1, OthersOfAnnouncer
    <2>6. \A u \in Announcers : \A z : Clears(u, z) => Clears(u, z)'
      BY <1>1, <2>1 DEF Clears, UsersTypes, Goto
    <2>7. KnownActive'
      BY <1>1, <2>2, <2>6, ActiveKept
    <2> QED
      BY <2>2, <2>3, <2>4, <2>5, <2>7
  <1> QED
    BY <1>2, <1>3

LEMMA AddInv ==
  ASSUME UsersInv, NEW t \in Announcers, addCredForProcWithLock(t) PROVE UsersInv'
  <1> DEFINE s == call[t].session
  <1>1. /\ UsersTypes /\ AnnouncerHas /\ CheckerHas /\ OneEntry /\ OfSession /\ Counted
        /\ KnownActive /\ Referenced
    BY CountedReferenced DEF UsersInv
  <1>2. /\ pcU[t] = "add" /\ back' = [back EXCEPT ![t] = "exit"] /\ s \in Sessions
        /\ UNCHANGED << active, call, found, old, target, checkVars >>
        /\ back[t] \in {"find", "setLook"} /\ (back[t] = "find" => found[t] = None)
        /\ old[t] = None
    BY <1>1 DEF addCredForProcWithLock, AnnouncerHas, Removing
  <1>3. PICK p \in {"exit", "find", "setLook"} : Goto(t, p) /\ p \in {"exit", back[t]}
    BY <1>2 DEF addCredForProcWithLock
  <1>4. \/ UNCHANGED << refs, sess, array >>
        \/ /\ ~Listed(s)
           /\ \E e \in Entries : /\ refs[e] = 0 /\ refs' = [refs EXCEPT ![e] = 1]
                                 /\ sess' = [sess EXCEPT ![e] = s]
                                 /\ array' = Append(array, e)
    BY DEF addCredForProcWithLock
  <1>5. AnnouncerHas'
    BY <1>1, <1>2, <1>3, UsersAssumption
    DEF AnnouncerHas, UsersTypes, UsersAssumption, Goto, Removing, AnnouncerPlaces
  <1>6. CheckerHas'
    BY <1>1, <1>2, <1>3, OthersOfAnnouncer
  <1>7. \A u \in Announcers : \A z : Clears(u, z) => Clears(u, z)'
    BY <1>1, <1>2, <1>3 DEF Clears, UsersTypes, Goto
  <1>8. /\ pcU' \in [Announcers \cup Checkers -> AnnouncerPlaces \cup {"check", "walk", "use"}]
        /\ back' \in [Announcers -> {"exit", "find", "setLook", "releaseOld"}]
    BY <1>1, <1>2, <1>3 DEF UsersTypes, Goto, AnnouncerPlaces
  <1>9. CASE UNCHANGED << refs, sess, array >>
    <2>1. /\ refs' \in [Entries -> Int] /\ sess' \in [Entries -> Sessions \cup {None}]
          /\ OfSession' /\ Kept /\ Counted' /\ OneEntry' /\ \A e : In(e) => In(e)'
      BY <1>2, <1>9, Quietly DEF entryVars, checkVars
    <2>2. UsersTypes'
      BY <1>1, <1>2, <1>8, <1>9, <2>1 DEF UsersTypes, checkVars
    <2>3. KnownActive'
      BY <1>1, <1>2, <1>7, <2>1, ActiveKept
    <2> QED
      BY <1>5, <1>6, <2>1, <2>2, <2>3 DEF UsersInv
  <1>10. ASSUME ~Listed(s), NEW x \in Entries, refs[x] = 0, refs' = [refs EXCEPT ![x] = 1],
                sess' = [sess EXCEPT ![x] = s], array' = Append(array, x)
         PROVE  UsersInv'
    <2>1. ~Owned(x)
      BY <1>1, <1>10 DEF Referenced
    <2>2. /\ Len(array) \in Nat /\ DOMAIN array = 1 .. Len(array) /\ array' \in Seq(Entries)
          /\ DOMAIN array' = 1 .. Len(array) + 1
          /\ \A i \in DOMAIN array' : array'[i] = IF i \in DOMAIN array THEN array[i] ELSE x
          /\ \A i \in DOMAIN array : array[i] \in Entries /\ array[i] # x
      <3>1. array \in Seq(Entries)
        BY <1>1 DEF UsersTypes
      <3>2. \A i \in DOMAIN array : array[i] # x
        BY <2>1 DEF Owned, In
      <3> QED
        BY <1>10, <3>1, <3>2
    <2>3. \A e : In(e)' <=> In(e) \/ e = x
      BY <2>2 DEF In
    <2>4. /\ refs' \in [Entries -> Int] /\ sess' \in [Entries -> Sessions \cup {None}]
          /\ OfSession'
      BY <1>1, <1>2, <1>10, UsersAssumption DEF UsersTypes, OfSession, UsersAssumption
    <2>5. Counted'
      <3>1. \A e \in Entries : refs'[e] = refs[e] - Mine(t, e) + Mine(t, e)'
        <4> SUFFICES ASSUME NEW e \in Entries
                     PROVE  refs'[e] = refs[e] - Mine(t, e) + Mine(t, e)'
          OBVIOUS
        <4>1. refs[e] \in Int /\ refs'[e] = IF e = x THEN refs[e] + 1 ELSE refs[e]
          BY <1>1, <1>10 DEF UsersTypes
        <4>2. ~In(x)
          BY <2>1 DEF Owned
        <4> QED
          BY <1>2, <2>3, <4>1, <4>2 DEF Mine, One
      <3> QED
        BY <1>1, <1>2, <3>1, AnnouncerTally DEF checkVars
    <2>6. OneEntry'
      <3>1. \A i \in DOMAIN array : sess[array[i]] # s
        BY <1>10, <2>2 DEF Listed, Where
      <3>2. /\ \A i \in DOMAIN array : sess'[array[i]] = sess[array[i]]
            /\ sess'[x] = s
        BY <1>1, <1>10, <2>2 DEF UsersTypes
      <3>3. \A i, j \in DOMAIN array' : i \notin DOMAIN array /\ j \notin DOMAIN array => i = j
        BY <2>2
      <3> QED
        BY <1>1, <2>2, <3>1, <3>2, <3>3 DEF OneEntry
    <2>7. UsersTypes'
      BY <1>1, <1>2, <1>8, <2>2, <2>4 DEF UsersTypes, checkVars
    <2>8. KnownActive'
      <3>1. active # x
        BY <2>1 DEF Owned
      <3>2. active # None => sess'[active] = sess[active]
        BY <1>1, <1>10, <3>1 DEF UsersTypes
      <3> QED
        BY <1>1, <1>2, <1>7, <2>3, <3>2 DEF KnownActive
    <2> QED
      BY <1>5, <1>6, <2>4, <2>5, <2>6, <2>7, <2>8 DEF UsersInv
  <1> QED
    BY <1>4, <1>9, <1>10

LEMMA SetLookInv ==
  ASSUME UsersInv, NEW t \in Announcers, SetLook(t) PROVE UsersInv'
  <1>1. /\ UsersTypes /\ AnnouncerHas /\ CheckerHas /\ OneEntry /\ OfSession /\ Counted
        /\ KnownActive
    BY DEF UsersInv
  <1>2. PICK p \in {"exit", "set"} : Goto(t, p)
    BY DEF SetLook
  <1>3. pcU[t] = "setLook" /\ UNCHANGED << entryVars, announceVars, checkVars >>
    BY DEF SetLook
  <1>4. /\ refs' \in [Entries -> Int] /\ sess' \in [Entries -> Sessions \cup {None}]
        /\ OfSession' /\ Kept /\ Counted' /\ OneEntry' /\ \A e : In(e) => In(e)'
    BY <1>3, Quietly DEF entryVars, announceVars, checkVars
  <1>5. UsersTypes'
    BY <1>1, <1>2, <1>3 DEF UsersTypes, entryVars, announceVars, checkVars, Goto,
                            AnnouncerPlaces
  <1>6. AnnouncerHas'
    BY <1>1, <1>2, <1>3, UsersAssumption
    DEF AnnouncerHas, UsersTypes, UsersAssumption, Goto, Removing, AnnouncerPlaces,
        announceVars
  <1>7. CheckerHas'
    BY <1>1, <1>2, <1>3, OthersOfAnnouncer
  <1>8. KnownActive'
    <2>1. \A u \in Announcers : \A z : Clears(u, z) => Clears(u, z)'
      BY <1>1, <1>2, <1>3 DEF Clears, UsersTypes, Goto, announceVars
    <2> QED
      BY <1>1, <1>3, <1>4, <2>1, ActiveKept DEF entryVars
  <1> QED
    BY <1>4, <1>5, <1>6, <1>7, <1>8 DEF UsersInv

LEMMA SetInv ==
  ASSUME UsersInv, NEW t \in Announcers, setProcCredAsActiveUser(t) PROVE UsersInv'
  <1> DEFINE s == call[t].session
  <1>1. /\ UsersTypes /\ AnnouncerHas /\ CheckerHas /\ OneEntry /\ OfSession /\ Counted
        /\ KnownActive /\ Referenced
    BY CountedReferenced DEF UsersInv
  <1>2. /\ pcU[t] = "set" /\ s \in Sessions /\ back[t] = "exit" /\ old[t] = None
        /\ UNCHANGED << array, call, found, checkVars >>
    BY <1>1 DEF setProcCredAsActiveUser, AnnouncerHas, Removing
  <1>3. CASE Listed(s)
    <2> DEFINE x == EntryOf(s)
    <2>1. /\ active' = x /\ Ref(x, 1)
          /\ IF active = None
             THEN Goto(t, "exit") /\ UNCHANGED << old, target, back >>
             ELSE /\ old' = [old EXCEPT ![t] = active]
                  /\ target' = [target EXCEPT ![t] = sess[active]]
                  /\ back' = [back EXCEPT ![t] = "releaseOld"]
                  /\ Goto(t, "remove")
      BY <1>3 DEF setProcCredAsActiveUser
    <2>2. x \in Entries /\ refs[x] >= 1 /\ In(x)
      BY <1>1, <1>3, TheEntry DEF Referenced, Owned
    <2> HIDE DEF x
    <2>3. /\ refs' \in [Entries -> Int] /\ sess' \in [Entries -> Sessions \cup {None}]
          /\ \A e \in Entries : refs'[e] = IF e = x THEN refs[e] + 1 ELSE refs[e]
          /\ OfSession' /\ Kept
      <3>1. refs[x] # 0 /\ 1 \in Int
        BY <2>2
      <3> QED
        BY <1>1, <2>1, <2>2, <3>1, RefKept
    <2>4. active # None => active \in Entries /\ sess[active] \in Sessions
      <3>1. active # None => active \in Entries /\ refs[active] >= 1
        BY <1>1 DEF UsersTypes, Referenced, Owned
      <3> QED
        BY <1>1, <3>1, UsersAssumption DEF UsersTypes, OfSession, UsersAssumption
    <2>5. PICK p \in {"exit", "remove"} :
            Goto(t, p) /\ (p = "exit" <=> active = None)
      BY <2>1
    <2>6. /\ \A u \in Announcers : u # t => old'[u] = old[u]
          /\ old'[t] = active
      BY <1>1, <1>2, <2>1 DEF UsersTypes
    <2>7. Counted'
      <3>1. \A e \in Entries : refs'[e] = refs[e] - Mine(t, e) + Mine(t, e)'
        <4> SUFFICES ASSUME NEW e \in Entries
                     PROVE  refs'[e] = refs[e] - Mine(t, e) + Mine(t, e)'
          OBVIOUS
        <4>1. /\ refs[e] \in Int /\ refs'[e] = IF e = x THEN refs[e] + 1 ELSE refs[e]
              /\ e # None
          BY <1>1, <2>3, UsersAssumption DEF UsersTypes, UsersAssumption
        <4>2. In(e)' = In(e)
          BY <1>2 DEF In
        <4> QED
          BY <1>2, <2>1, <2>6, <4>1, <4>2 DEF Mine, One
      <3> QED
        BY <1>1, <1>2, <2>6, <3>1, AnnouncerTally DEF checkVars
    <2>8. OneEntry'
      BY <1>1, <1>2, <2>3, <2>7, ListKept
    <2>9. UsersTypes'
      <3>1. /\ pcU' \in [Announcers \cup Checkers ->
                          AnnouncerPlaces \cup {"check", "walk", "use"}]
            /\ back' \in [Announcers -> {"exit", "find", "setLook", "releaseOld"}]
            /\ old' \in [Announcers -> Entries \cup {None}]
            /\ target' \in [Announcers -> Sessions \cup {None}]
        BY <1>1, <2>1, <2>4, <2>5 DEF UsersTypes, Goto, AnnouncerPlaces
      <3>2. active' \in Entries \cup {None}
        BY <2>1, <2>2
      <3> QED
        BY <1>1, <1>2, <2>3, <3>1, <3>2 DEF UsersTypes, checkVars
    <2>10. AnnouncerHas'
      BY <1>1, <1>2, <2>1, <2>4, <2>5, <2>6, UsersAssumption
      DEF AnnouncerHas, UsersTypes, UsersAssumption, Goto, Removing, AnnouncerPlaces
    <2>11. CheckerHas'
      BY <1>1, <1>2, <2>5, OthersOfAnnouncer
    <2>12. KnownActive'
      BY <1>2, <2>1, <2>2 DEF KnownActive, In
    <2> QED
      BY <2>3, <2>7, <2>8, <2>9, <2>10, <2>11, <2>12 DEF UsersInv
  <1>4. CASE ~Listed(s)
    <2>1. /\ back' = [back EXCEPT ![t] = "setLook"] /\ Goto(t, "add")
          /\ UNCHANGED << refs, sess, active, old, target >>
      BY <1>4 DEF setProcCredAsActiveUser
    <2>2. /\ refs' \in [Entries -> Int] /\ sess' \in [Entries -> Sessions \cup {None}]
          /\ OfSession' /\ Kept /\ Counted' /\ OneEntry' /\ \A e : In(e) => In(e)'
      BY <1>2, <2>1, Quietly DEF entryVars, checkVars
    <2>3. UsersTypes'
      BY <1>1, <1>2, <2>1, <2>2 DEF UsersTypes, checkVars, Goto, AnnouncerPlaces
    <2>4. AnnouncerHas'
      BY <1>1, <1>2, <2>1, UsersAssumption
      DEF AnnouncerHas, UsersTypes, UsersAssumption, Goto, Removing, AnnouncerPlaces
    <2>5. CheckerHas'
      BY <1>1, <1>2, <2>1, OthersOfAnnouncer
    <2>6. \A u \in Announcers : \A z : Clears(u, z) => Clears(u, z)'
      BY <1>1, <1>2, <2>1 DEF Clears, UsersTypes, Goto
    <2>7. KnownActive'
      BY <1>1, <2>1, <2>2, <2>6, ActiveKept
    <2> QED
      BY <2>2, <2>3, <2>4, <2>5, <2>7 DEF UsersInv
  <1> QED
    BY <1>3, <1>4

(* A sequence without repetitions, and one element less of it.             *)
NoRepeats(s) == \A i, j \in DOMAIN s : s[i] = s[j] => i = j
Lists(s, e)  == \E i \in DOMAIN s : s[i] = e
Without(u, s, x) == NoRepeats(u) /\ \A e : Lists(u, e) <=> e # x /\ Lists(s, e)
LEMMA TakenOut ==
  ASSUME NEW S, NEW s \in Seq(S), NEW n \in DOMAIN s, NoRepeats(s)
  PROVE  Seqs!RemoveAt(s, n) \in Seq(S) /\ Without(Seqs!RemoveAt(s, n), s, s[n])
  <1> DEFINE u == Seqs!RemoveAt(s, n)
  <1> DEFINE a == SubSeq(s, 1, n - 1)
             b == SubSeq(s, n + 1, Len(s))
  <1>1. /\ n \in 1 .. Len(s) /\ Len(s) \in Nat /\ DOMAIN s = 1 .. Len(s)
        /\ \A i \in 1 .. Len(s) : s[i] \in S
    OBVIOUS
  <1>2. a \in Seq(S) /\ Len(a) = n - 1 /\ \A i \in 1 .. n - 1 : a[i] = s[i]
    <2>1. n - 1 \in Int /\ \A i \in 1 .. n - 1 : s[i] \in S
      BY <1>1
    <2> QED
      BY <1>1, <2>1, SubSeqProperties
  <1>3. b \in Seq(S) /\ Len(b) = Len(s) - n /\ \A i \in 1 .. Len(s) - n : b[i] = s[n + i]
    <2>1. n + 1 \in Int /\ Len(s) \in Int /\ \A i \in n + 1 .. Len(s) : s[i] \in S
      BY <1>1
    <2>2. \A i \in 1 .. Len(s) - n : n + 1 + i - 1 = n + i
      BY <1>1
    <2> QED
      BY <1>1, <2>1, <2>2, SubSeqProperties
  <1>4. u = a \o b
    BY DEF Seqs!RemoveAt
  <1> HIDE DEF a, b, u
  <1>5. /\ u \in Seq(S) /\ Len(u) = Len(s) - 1 /\ DOMAIN u = 1 .. Len(s) - 1
        /\ \A i \in 1 .. Len(s) - 1 : u[i] = IF i <= n - 1 THEN a[i] ELSE b[i - (n - 1)]
    <2>1. /\ u \in Seq(S) /\ Len(u) = Len(a) + Len(b)
          /\ \A i \in 1 .. Len(a) + Len(b) : u[i] = IF i <= Len(a) THEN a[i] ELSE b[i - Len(a)]
      <3>1. a \in Seq(S) /\ b \in Seq(S)
        BY <1>2, <1>3
      <3>2. /\ a \o b \in Seq(S) /\ Len(a \o b) = Len(a) + Len(b)
            /\ \A i \in 1 .. Len(a) + Len(b) :
                 (a \o b)[i] = IF i <= Len(a) THEN a[i] ELSE b[i - Len(a)]
        BY <3>1, ConcatProperties, Zenon
      <3> QED
        BY <1>4, <3>2, Zenon
    <2>2. Len(a) = n - 1 /\ Len(a) + Len(b) = Len(s) - 1
      BY <1>1, <1>2, <1>3
    <2> QED
      BY <2>1, <2>2
  <1>6. \A i \in 1 .. Len(s) - 1 : u[i] = IF i < n THEN s[i] ELSE s[i + 1]
    <2> SUFFICES ASSUME NEW i \in 1 .. Len(s) - 1
                 PROVE  u[i] = IF i < n THEN s[i] ELSE s[i + 1]
      OBVIOUS
    <2>1. CASE i < n
      BY <1>1, <1>2, <1>5, <2>1
    <2>2. CASE i >= n
      <3>1. i - (n - 1) \in 1 .. Len(s) - n /\ n + (i - (n - 1)) = i + 1
            /\ ~(i <= n - 1) /\ ~(i < n)
        BY <1>1, <2>2
      <3>2. u[i] = b[i - (n - 1)]
        BY <1>5, <3>1
      <3>3. b[i - (n - 1)] = s[n + (i - (n - 1))]
        BY <1>3, <3>1
      <3> QED
        BY <3>1, <3>2, <3>3
    <2> QED
      BY <1>1, <2>1, <2>2
  <1>7. ASSUME NEW i \in DOMAIN u, NEW j \in DOMAIN u, u[i] = u[j] PROVE i = j
    <2>1. PICK p \in DOMAIN s : u[i] = s[p] /\ p = IF i < n THEN i ELSE i + 1
      BY <1>1, <1>5, <1>6
    <2>2. PICK q \in DOMAIN s : u[j] = s[q] /\ q = IF j < n THEN j ELSE j + 1
      BY <1>1, <1>5, <1>6
    <2>3. p = q
      BY <1>7, <2>1, <2>2 DEF NoRepeats
    <2> QED
      BY <1>1, <1>5, <2>1, <2>2, <2>3
  <1>8. ASSUME NEW e
        PROVE  (\E k \in DOMAIN u : u[k] = e) <=> e # s[n] /\ \E k \in DOMAIN s : s[k] = e
    <2>1. ASSUME NEW i \in DOMAIN u, u[i] = e
          PROVE  e # s[n] /\ \E k \in DOMAIN s : s[k] = e
      <3>1. PICK j \in DOMAIN s : u[i] = s[j] /\ j = IF i < n THEN i ELSE i + 1
        BY <1>1, <1>5, <1>6
      <3>2. j # n
        BY <1>1, <1>5, <3>1
      <3>3. s[j] # s[n]
        BY <3>2 DEF NoRepeats
      <3> QED
        BY <2>1, <3>1, <3>3
    <2>2. ASSUME e # s[n], NEW j \in DOMAIN s, s[j] = e
          PROVE  (\E k \in DOMAIN u : u[k] = e)
      <3>1. CASE j < n
        <4>1. j \in DOMAIN u /\ u[j] = e
          BY <1>1, <1>5, <1>6, <2>2, <3>1
        <4> QED
          BY <4>1
      <3>2. CASE j > n
        <4>1. j - 1 \in DOMAIN u /\ u[j - 1] = e
          BY <1>1, <1>5, <1>6, <2>2, <3>2
        <4> QED
          BY <4>1
      <3> QED
        BY <1>1, <2>2, <3>1, <3>2
    <2> QED
      BY <2>1, <2>2
  <1> QED
    BY <1>5, <1>7, <1>8 DEF Without, NoRepeats, Lists, u

LEMMA RemoveInv ==
  ASSUME UsersInv, NEW t \in Announcers, removeCredForSessionWithLock(t) PROVE UsersInv'
  <1> DEFINE s == target[t]
  <1>1. /\ UsersTypes /\ AnnouncerHas /\ CheckerHas /\ OneEntry /\ OfSession /\ Counted
        /\ KnownActive /\ Referenced
    BY CountedReferenced DEF UsersInv
  <1>2. /\ pcU[t] = "remove" /\ s \in Sessions /\ Goto(t, "clearLook")
        /\ UNCHANGED << active, announceVars, checkVars >>
    BY <1>1 DEF removeCredForSessionWithLock, AnnouncerHas, Removing
  <1>3. AnnouncerHas'
    BY <1>1, <1>2, UsersAssumption
    DEF AnnouncerHas, UsersTypes, UsersAssumption, Goto, Removing, AnnouncerPlaces,
        announceVars
  <1>4. CheckerHas'
    BY <1>1, <1>2, OthersOfAnnouncer
  <1>5. /\ \A u \in Announcers : \A z : Clears(u, z) => Clears(u, z)'
        /\ Clears(t, s)'
    BY <1>1, <1>2, UsersAssumption
    DEF Clears, UsersTypes, Goto, announceVars, UsersAssumption
  <1>6. pcU' \in [Announcers \cup Checkers -> AnnouncerPlaces \cup {"check", "walk", "use"}]
    BY <1>1, <1>2 DEF UsersTypes, Goto, AnnouncerPlaces
  <1>7. CASE Listed(s)
    <2> DEFINE x == EntryOf(s)
    <2>1. array' = Seqs!RemoveAt(array, IndexOf(s)) /\ Ref(x, -1)
      BY <1>7 DEF removeCredForSessionWithLock
    <2>2. /\ x \in Entries /\ refs[x] >= 1 /\ In(x) /\ sess[x] = s
          /\ IndexOf(s) \in DOMAIN array /\ x = array[IndexOf(s)]
      BY <1>1, <1>7, TheEntry DEF Referenced, Owned
    <2> HIDE DEF x
    <2>3. /\ refs' \in [Entries -> Int] /\ sess' \in [Entries -> Sessions \cup {None}]
          /\ \A e \in Entries : refs'[e] = IF e = x THEN refs[e] + (-1) ELSE refs[e]
          /\ OfSession' /\ Kept
      <3>1. refs[x] # 0 /\ -1 \in Int
        BY <2>2
      <3> QED
        BY <1>1, <2>1, <2>2, <3>1, RefKept
    <2>4. /\ array' \in Seq(Entries) /\ \A i, j \in DOMAIN array' : array'[i] = array'[j] => i = j
          /\ \A e : In(e)' <=> e # x /\ In(e)
      <3>1. array \in Seq(Entries) /\ NoRepeats(array)
        BY <1>1 DEF UsersTypes, OneEntry, NoRepeats
      <3>2. array' \in Seq(Entries) /\ Without(array', array, array[IndexOf(s)])
        BY <2>1, <2>2, <3>1, TakenOut
      <3> QED
        BY <2>2, <3>2 DEF In, Without, NoRepeats, Lists
    <2>5. Counted'
      <3>1. \A e \in Entries : refs'[e] = refs[e] - Mine(t, e) + Mine(t, e)'
        <4> SUFFICES ASSUME NEW e \in Entries
                     PROVE  refs'[e] = refs[e] - Mine(t, e) + Mine(t, e)'
          OBVIOUS
        <4>1. /\ refs[e] \in Int /\ refs'[e] = IF e = x THEN refs[e] + (-1) ELSE refs[e]
          BY <1>1, <2>3 DEF UsersTypes
        <4>2. In(e)' <=> e # x /\ In(e)
          BY <2>4
        <4>3. One(In(e))' = One(In(e)) - One(e = x)
          BY <2>2, <4>2 DEF One
        <4> QED
          BY <1>2, <4>1, <4>3 DEF Mine, One, announceVars
      <3> QED
        BY <1>1, <1>2, <3>1, AnnouncerTally DEF checkVars, announceVars
    <2>6. OneEntry'
      <3>1. Referenced'
        BY <2>5, ReferencedNext
      <3> SUFFICES ASSUME NEW i \in DOMAIN array', NEW j \in DOMAIN array',
                          sess'[array'[i]] = sess'[array'[j]]
                   PROVE  i = j
        BY DEF OneEntry
      <3>2. PICK p \in DOMAIN array : array[p] = array'[i]
        BY <2>4 DEF In
      <3>3. PICK q \in DOMAIN array : array[q] = array'[j]
        BY <2>4 DEF In
      <3>4. \A e \in Entries : In(e)' => sess'[e] = sess[e]
        <4> SUFFICES ASSUME NEW e \in Entries, In(e)' PROVE sess'[e] = sess[e]
          OBVIOUS
        <4>1. refs'[e] >= 1
          BY <3>1 DEF Referenced, Owned
        <4> QED
          BY <2>3, <4>1 DEF Kept
      <3>5. \A k \in DOMAIN array' : sess'[array'[k]] = sess[array'[k]]
        <4> SUFFICES ASSUME NEW k \in DOMAIN array' PROVE sess'[array'[k]] = sess[array'[k]]
          OBVIOUS
        <4>1. PICK e \in Entries : e = array'[k]
          BY <2>4
        <4>2. In(e)'
          BY <4>1 DEF In
        <4> QED
          BY <3>4, <4>1, <4>2
      <3>6. p = q
        BY <1>1, <3>2, <3>3, <3>5 DEF OneEntry
      <3> QED
        BY <2>4, <3>2, <3>3, <3>6
    <2>7. UsersTypes'
      BY <1>1, <1>2, <1>6, <2>3, <2>4 DEF UsersTypes, checkVars, announceVars
    <2>8. KnownActive'
      <3>1. Referenced'
        BY <2>5, ReferencedNext
      <3> SUFFICES ASSUME active # None PROVE KnownActive'
        BY <1>2 DEF KnownActive
      <3>2. active \in Entries /\ sess'[active] = sess[active]
        <4>1. active \in Entries /\ Owned(active)'
          BY <1>1, <1>2 DEF UsersTypes, Owned
        <4>2. refs'[active] >= 1
          BY <3>1, <4>1, <1>2 DEF Referenced
        <4> QED
          BY <2>3, <4>1, <4>2 DEF Kept
      <3>3. CASE In(active)
        <4>1. active = x => Clears(t, sess[active])'
          BY <1>2, <1>5, <2>2, <3>2 DEF Clears, announceVars
        <4>2. active # x => In(active)'
          BY <1>2, <2>4, <3>3
        <4> QED
          BY <4>1, <4>2 DEF KnownActive
      <3>4. ASSUME NEW u \in Announcers, Clears(u, sess[active]) PROVE KnownActive'
        BY <1>2, <1>5, <3>2, <3>4 DEF KnownActive
      <3> QED
        BY <1>1, <3>3, <3>4 DEF KnownActive
    <2> QED
      BY <1>3, <1>4, <2>3, <2>5, <2>6, <2>7, <2>8 DEF UsersInv
  <1>8. CASE ~Listed(s)
    <2>1. UNCHANGED << refs, sess, array >>
      BY <1>8 DEF removeCredForSessionWithLock
    <2>2. /\ refs' \in [Entries -> Int] /\ sess' \in [Entries -> Sessions \cup {None}]
          /\ OfSession' /\ Kept /\ Counted' /\ OneEntry' /\ \A e : In(e) => In(e)'
      BY <1>2, <2>1, Quietly DEF UsersInv, entryVars, checkVars, announceVars
    <2>3. UsersTypes'
      BY <1>1, <1>2, <1>6, <2>1, <2>2 DEF UsersTypes, checkVars, announceVars
    <2>4. KnownActive'
      BY <1>1, <1>2, <1>5, <2>2, ActiveKept
    <2> QED
      BY <1>3, <1>4, <2>2, <2>3, <2>4 DEF UsersInv
  <1> QED
    BY <1>7, <1>8

(* What was to be cleared is forgotten; the active entry is not of it.     *)
LEMMA ForgetHas ==
  ASSUME UsersTypes, AnnouncerHas, NEW t \in Announcers,
         pcU[t] \in {"clearLook", "clear"}, Forget(t), UNCHANGED << call, found, old >>
  PROVE  /\ AnnouncerHas'
         /\ pcU' \in [Announcers \cup Checkers -> AnnouncerPlaces \cup {"check", "walk", "use"}]
         /\ target' \in [Announcers -> Sessions \cup {None}]
         /\ back' \in [Announcers -> {"exit", "find", "setLook", "releaseOld"}]
         /\ Goto(t, back[t])
         /\ \A u \in Announcers : \A z : z # target[t] /\ Clears(u, z) => Clears(u, z)'
  <1>1. back[t] \in {"exit", "releaseOld"} /\ Goto(t, back[t])
    BY DEF AnnouncerHas, Removing, Forget
  <1>2. /\ pcU' = [pcU EXCEPT ![t] = back[t]]
        /\ target' = [target EXCEPT ![t] = None] /\ back' = [back EXCEPT ![t] = "exit"]
    BY DEF Forget, Goto
  <1>3. AnnouncerHas'
    BY <1>1, <1>2, UsersAssumption
    DEF AnnouncerHas, UsersTypes, UsersAssumption, Removing, AnnouncerPlaces
  <1>4. /\ pcU' \in [Announcers \cup Checkers -> AnnouncerPlaces \cup {"check", "walk", "use"}]
        /\ target' \in [Announcers -> Sessions \cup {None}]
        /\ back' \in [Announcers -> {"exit", "find", "setLook", "releaseOld"}]
    BY <1>1, <1>2 DEF UsersTypes, AnnouncerPlaces
  <1>5. \A u \in Announcers : \A z : z # target[t] /\ Clears(u, z) => Clears(u, z)'
    BY <1>2 DEF UsersTypes, Clears
  <1> QED
    BY <1>1, <1>3, <1>4, <1>5

LEMMA ForgetInv ==
  ASSUME UsersInv, NEW t \in Announcers, pcU[t] \in {"clearLook", "clear"},
         ActiveSession # target[t], Forget(t),
         UNCHANGED << entryVars, call, found, old, checkVars >>
  PROVE  UsersInv'
  <1>1. /\ UsersTypes /\ AnnouncerHas /\ CheckerHas /\ OneEntry /\ OfSession /\ Counted
        /\ KnownActive
    BY DEF UsersInv
  <1>2. /\ AnnouncerHas'
        /\ pcU' \in [Announcers \cup Checkers -> AnnouncerPlaces \cup {"check", "walk", "use"}]
        /\ target' \in [Announcers -> Sessions \cup {None}]
        /\ back' \in [Announcers -> {"exit", "find", "setLook", "releaseOld"}]
        /\ Goto(t, back[t])
        /\ \A u \in Announcers : \A z : z # target[t] /\ Clears(u, z) => Clears(u, z)'
    BY <1>1, ForgetHas
  <1>3. /\ refs' \in [Entries -> Int] /\ sess' \in [Entries -> Sessions \cup {None}]
        /\ OfSession' /\ Kept /\ Counted' /\ OneEntry' /\ \A e : In(e) => In(e)'
    BY Quietly DEF entryVars, checkVars
  <1>4. UsersTypes'
    BY <1>1, <1>2, <1>3 DEF UsersTypes, entryVars, checkVars
  <1>5. CheckerHas'
    BY <1>1, <1>2, OthersOfAnnouncer
  <1>6. KnownActive'
    <2>1. active # None => sess[active] # target[t]
      BY DEF ActiveSession
    <2> QED
      BY <1>1, <1>2, <1>3, <2>1, ActiveKept DEF entryVars
  <1> QED
    BY <1>2, <1>3, <1>4, <1>5, <1>6 DEF UsersInv

LEMMA ClearLookInv ==
  ASSUME UsersInv, NEW t \in Announcers, ClearLook(t) PROVE UsersInv'
  <1>1. /\ UsersTypes /\ AnnouncerHas /\ CheckerHas /\ OneEntry /\ OfSession /\ Counted
        /\ KnownActive
    BY DEF UsersInv
  <1>2. /\ pcU[t] = "clearLook" /\ UNCHANGED << entryVars, call, found, old, checkVars >>
    BY DEF ClearLook
  <1>3. CASE ActiveSession = target[t]
    <2>1. Goto(t, "clear") /\ UNCHANGED << target, back >>
      BY <1>3 DEF ClearLook
    <2>2. /\ refs' \in [Entries -> Int] /\ sess' \in [Entries -> Sessions \cup {None}]
          /\ OfSession' /\ Kept /\ Counted' /\ OneEntry' /\ \A e : In(e) => In(e)'
      BY <1>2, Quietly DEF entryVars, checkVars
    <2>3. UsersTypes'
      BY <1>1, <1>2, <2>1, <2>2 DEF UsersTypes, entryVars, checkVars, Goto, AnnouncerPlaces
    <2>4. AnnouncerHas'
      BY <1>1, <1>2, <2>1, UsersAssumption
      DEF AnnouncerHas, UsersTypes, UsersAssumption, Goto, Removing, AnnouncerPlaces
    <2>5. CheckerHas'
      BY <1>1, <1>2, <2>1, OthersOfAnnouncer
    <2>6. \A u \in Announcers : \A z : Clears(u, z) => Clears(u, z)'
      BY <1>1, <1>2, <2>1 DEF Clears, UsersTypes, Goto
    <2>7. KnownActive'
      BY <1>1, <1>2, <2>2, <2>6, ActiveKept DEF entryVars
    <2> QED
      BY <2>2, <2>3, <2>4, <2>5, <2>7 DEF UsersInv
  <1>4. CASE ActiveSession # target[t]
    <2>1. Forget(t)
      BY <1>4 DEF ClearLook
    <2> QED
      BY <1>2, <1>4, <2>1, ForgetInv
  <1> QED
    BY <1>3, <1>4

LEMMA ClearInv ==
  ASSUME UsersInv, NEW t \in Announcers, removeSessionAsActiveUser(t) PROVE UsersInv'
  <1>1. /\ UsersTypes /\ AnnouncerHas /\ CheckerHas /\ OneEntry /\ OfSession /\ Counted
        /\ KnownActive /\ Referenced
    BY CountedReferenced DEF UsersInv
  <1>2. /\ pcU[t] = "clear" /\ Forget(t) /\ target[t] \in Sessions
        /\ UNCHANGED << array, call, found, old, checkVars >>
    BY <1>1 DEF removeSessionAsActiveUser, AnnouncerHas, Removing
  <1>3. CASE ActiveSession = target[t]
    <2>1. active' = None /\ Ref(active, -1)
      BY <1>3 DEF removeSessionAsActiveUser
    <2>2. active \in Entries /\ refs[active] >= 1
      <3>1. active # None
        BY <1>2, <1>3, UsersAssumption DEF ActiveSession, UsersAssumption
      <3> QED
        BY <1>1, <3>1 DEF UsersTypes, Referenced, Owned
    <2>3. /\ refs' \in [Entries -> Int] /\ sess' \in [Entries -> Sessions \cup {None}]
          /\ \A e \in Entries : refs'[e] = IF e = active THEN refs[e] + (-1) ELSE refs[e]
          /\ OfSession' /\ Kept
      <3>1. refs[active] # 0 /\ -1 \in Int
        BY <2>2
      <3> QED
        BY <1>1, <2>1, <2>2, <3>1, RefKept
    <2>4. Counted'
      <3>1. \A e \in Entries : refs'[e] = refs[e] - Mine(t, e) + Mine(t, e)'
        <4> SUFFICES ASSUME NEW e \in Entries
                     PROVE  refs'[e] = refs[e] - Mine(t, e) + Mine(t, e)'
          OBVIOUS
        <4>1. /\ refs[e] \in Int /\ e # None
              /\ refs'[e] = IF e = active THEN refs[e] + (-1) ELSE refs[e]
          BY <1>1, <2>3, UsersAssumption DEF UsersTypes, UsersAssumption
        <4>2. In(e)' = In(e)
          BY <1>2 DEF In
        <4> QED
          BY <1>2, <2>1, <4>1, <4>2 DEF Mine, One
      <3> QED
        BY <1>1, <1>2, <3>1, AnnouncerTally DEF checkVars
    <2>5. OneEntry'
      BY <1>1, <1>2, <2>3, <2>4, ListKept
    <2>6. /\ AnnouncerHas'
          /\ pcU' \in [Announcers \cup Checkers ->
                        AnnouncerPlaces \cup {"check", "walk", "use"}]
          /\ target' \in [Announcers -> Sessions \cup {None}]
          /\ back' \in [Announcers -> {"exit", "find", "setLook", "releaseOld"}]
          /\ Goto(t, back[t])
      BY <1>1, <1>2, ForgetHas
    <2>7. UsersTypes'
      BY <1>1, <1>2, <2>1, <2>3, <2>6 DEF UsersTypes, checkVars
    <2>8. CheckerHas'
      BY <1>1, <1>2, <2>6, OthersOfAnnouncer
    <2>9. KnownActive'
      BY <2>1 DEF KnownActive
    <2> QED
      BY <2>3, <2>4, <2>5, <2>6, <2>7, <2>8, <2>9 DEF UsersInv
  <1>4. CASE ActiveSession # target[t]
    <2>1. UNCHANGED << refs, sess, active >>
      BY <1>4 DEF removeSessionAsActiveUser
    <2> QED
      BY <1>2, <1>4, <2>1, ForgetInv DEF entryVars
  <1> QED
    BY <1>3, <1>4

LEMMA ReleaseOldInv ==
  ASSUME UsersInv, NEW t \in Announcers, ReleaseOld(t) PROVE UsersInv'
  <1>1. /\ UsersTypes /\ AnnouncerHas /\ CheckerHas /\ OneEntry /\ OfSession /\ Counted
        /\ KnownActive /\ Referenced
    BY CountedReferenced DEF UsersInv
  <1>2. /\ pcU[t] = "releaseOld" /\ Ref(old[t], -1) /\ old' = [old EXCEPT ![t] = None]
        /\ Goto(t, "exit") /\ UNCHANGED << array, active, call, found, target, back, checkVars >>
    BY DEF ReleaseOld
  <1>3. old[t] \in Entries /\ refs[old[t]] >= 1
    <2>1. old[t] \in Entries
      BY <1>1, <1>2 DEF AnnouncerHas, UsersTypes
    <2> QED
      BY <1>1, <2>1 DEF Referenced, Owned
  <1>4. /\ refs' \in [Entries -> Int] /\ sess' \in [Entries -> Sessions \cup {None}]
        /\ \A e \in Entries : refs'[e] = IF e = old[t] THEN refs[e] + (-1) ELSE refs[e]
        /\ OfSession' /\ Kept
    <2>1. refs[old[t]] # 0 /\ -1 \in Int
      BY <1>3
    <2> QED
      BY <1>1, <1>2, <1>3, <2>1, RefKept
  <1>5. /\ \A u \in Announcers : u # t => old'[u] = old[u]
        /\ old'[t] = None
    BY <1>1, <1>2 DEF UsersTypes
  <1>6. Counted'
    <2>1. \A e \in Entries : refs'[e] = refs[e] - Mine(t, e) + Mine(t, e)'
      <3> SUFFICES ASSUME NEW e \in Entries
                   PROVE  refs'[e] = refs[e] - Mine(t, e) + Mine(t, e)'
        OBVIOUS
      <3>1. /\ refs[e] \in Int /\ e # None
            /\ refs'[e] = IF e = old[t] THEN refs[e] + (-1) ELSE refs[e]
        BY <1>1, <1>4, UsersAssumption DEF UsersTypes, UsersAssumption
      <3>2. In(e)' = In(e)
        BY <1>2 DEF In
      <3> QED
        BY <1>2, <1>5, <3>1, <3>2 DEF Mine, One
    <2> QED
      BY <1>1, <1>2, <1>5, <2>1, AnnouncerTally DEF checkVars
  <1>7. OneEntry'
    BY <1>1, <1>2, <1>4, <1>6, ListKept
  <1>8. UsersTypes'
    BY <1>1, <1>2, <1>4 DEF UsersTypes, checkVars, Goto, AnnouncerPlaces
  <1>9. AnnouncerHas'
    BY <1>1, <1>2, <1>5, UsersAssumption
    DEF AnnouncerHas, UsersTypes, UsersAssumption, Goto, Removing, AnnouncerPlaces
  <1>10. CheckerHas'
    BY <1>1, <1>2, OthersOfAnnouncer
  <1>11. KnownActive'
    <2>1. \A u \in Announcers : \A z : Clears(u, z) => Clears(u, z)'
      BY <1>1, <1>2 DEF Clears, UsersTypes, Goto
    <2>2. \A e : In(e) => In(e)'
      BY <1>2 DEF In
    <2> QED
      BY <1>1, <1>2, <1>4, <1>6, <2>1, <2>2, ActiveKept
  <1> QED
    BY <1>4, <1>6, <1>7, <1>8, <1>9, <1>10, <1>11 DEF UsersInv

LEMMA ExitInv ==
  ASSUME UsersInv, NEW t \in Announcers, Exit(t) PROVE UsersInv'
  <1>1. /\ UsersTypes /\ AnnouncerHas /\ CheckerHas /\ OneEntry /\ OfSession /\ Counted
        /\ KnownActive /\ Referenced
    BY CountedReferenced DEF UsersInv
  <1>2. /\ pcU[t] = "exit" /\ found' = [found EXCEPT ![t] = None]
        /\ call' = [call EXCEPT ![t] = NoCall] /\ Goto(t, "idle")
        /\ IF found[t] = None THEN UNCHANGED << refs, sess >> ELSE Ref(found[t], -1)
        /\ UNCHANGED << array, active, old, target, back, checkVars >>
    BY DEF Exit
  <1>3. /\ refs' \in [Entries -> Int] /\ sess' \in [Entries -> Sessions \cup {None}]
        /\ \A e \in Entries : refs'[e] = IF e = found[t] THEN refs[e] + (-1) ELSE refs[e]
        /\ OfSession' /\ Kept
    <2>1. CASE found[t] = None
      BY <1>1, <1>2, <2>1, Same, UsersAssumption DEF UsersAssumption
    <2>2. CASE found[t] # None
      <3>1. found[t] \in Entries /\ refs[found[t]] >= 1
        BY <1>1, <2>2 DEF UsersTypes, Referenced, Owned
      <3>2. refs[found[t]] # 0 /\ -1 \in Int /\ Ref(found[t], -1)
        BY <1>2, <2>2, <3>1
      <3> QED
        BY <1>1, <3>1, <3>2, RefKept
    <2> QED
      BY <2>1, <2>2
  <1>4. /\ \A u \in Announcers : u # t => found'[u] = found[u]
        /\ found'[t] = None
    BY <1>1, <1>2 DEF UsersTypes
  <1>5. Counted'
    <2>1. \A e \in Entries : refs'[e] = refs[e] - Mine(t, e) + Mine(t, e)'
      <3> SUFFICES ASSUME NEW e \in Entries
                   PROVE  refs'[e] = refs[e] - Mine(t, e) + Mine(t, e)'
        OBVIOUS
      <3>1. /\ refs[e] \in Int /\ e # None
            /\ refs'[e] = IF e = found[t] THEN refs[e] + (-1) ELSE refs[e]
        BY <1>1, <1>3, UsersAssumption DEF UsersTypes, UsersAssumption
      <3>2. In(e)' = In(e)
        BY <1>2 DEF In
      <3> QED
        BY <1>2, <1>4, <3>1, <3>2 DEF Mine, One
    <2> QED
      BY <1>1, <1>2, <1>4, <2>1, AnnouncerTally DEF checkVars
  <1>6. OneEntry'
    BY <1>1, <1>2, <1>3, <1>5, ListKept
  <1>7. UsersTypes'
    <2>1. call' \in [Announcers -> [session : Sessions \cup {None}, state : States]]
      <3> DEFINE C == [session : Sessions \cup {None}, state : States]
      <3>1. NoCall \in C /\ call \in [Announcers -> C]
        BY <1>1 DEF NoCall, States, UsersTypes
      <3> HIDE DEF C
      <3>2. call' \in [Announcers -> C]
        BY <1>2, <3>1
      <3> QED
        BY <3>2 DEF C
    <2> QED
      BY <1>1, <1>2, <1>3, <2>1 DEF UsersTypes, checkVars, Goto, AnnouncerPlaces
  <1>8. AnnouncerHas'
    BY <1>1, <1>2, <1>4, UsersAssumption
    DEF AnnouncerHas, UsersTypes, UsersAssumption, Goto, Removing, AnnouncerPlaces
  <1>9. CheckerHas'
    BY <1>1, <1>2, OthersOfAnnouncer
  <1>10. KnownActive'
    <2>1. \A u \in Announcers : \A z : Clears(u, z) => Clears(u, z)'
      BY <1>1, <1>2 DEF Clears, UsersTypes, Goto
    <2>2. \A e : In(e) => In(e)'
      BY <1>2 DEF In
    <2> QED
      BY <1>1, <1>2, <1>3, <1>5, <2>1, <2>2, ActiveKept
  <1> QED
    BY <1>3, <1>5, <1>6, <1>7, <1>8, <1>9, <1>10 DEF UsersInv

----------------------------------------------------------------------------
(* The steps of a check.  What it has changes, and the entries with it; an *)
(* entry is free of its session when its last reference is given up.       *)
LEMMA RefsKept ==
  ASSUME UsersTypes, OfSession, refs' \in [Entries -> Int],
         \A e \in Entries : refs[e] = 0 => refs'[e] = 0,
         sess' \in [Entries -> Sessions \cup {None}],
         \A e \in Entries : sess'[e] = IF refs'[e] = 0 THEN None ELSE sess[e]
  PROVE  OfSession' /\ Kept
  BY DEF UsersTypes, OfSession, Kept

(* A check at place p has k at hand, took a and decided on d.              *)
Gets(c, p, k, a, d) ==
  /\ UNCHANGED << array, active, announceVars >> /\ OfSession' /\ Kept
  /\ refs' \in [Entries -> Int] /\ sess' \in [Entries -> Sessions \cup {None}]
  /\ Goto(c, p) /\ p \in {"idle", "check", "walk", "use"}
  /\ {k, a, d} \subseteq Entries \cup {None}
  /\ current' = [current EXCEPT ![c] = k] /\ taken' = [taken EXCEPT ![c] = a]
  /\ decision' = [decision EXCEPT ![c] = d] /\ walk' \in [Checkers -> Nat]
  /\ k # None <=> p \in {"check", "walk"}
  /\ a # None <=> p # "idle"
  /\ d # None <=> p = "use"
  /\ \A e \in Entries : refs'[e] = refs[e] - His(c, e) + One(k = e) + One(a = e) + One(d = e)

LEMMA CheckerStepInv ==
  ASSUME UsersInv, NEW c \in Checkers, NEW p, NEW k, NEW a, NEW d, Gets(c, p, k, a, d)
  PROVE  UsersInv'
  <1> USE DEF Gets
  <1>1. /\ UsersTypes /\ AnnouncerHas /\ CheckerHas /\ OneEntry /\ OfSession /\ Counted
        /\ KnownActive
    BY DEF UsersInv
  <1>2. /\ \A b \in Checkers : b # c => /\ current'[b] = current[b] /\ taken'[b] = taken[b]
                                        /\ decision'[b] = decision[b] /\ pcU'[b] = pcU[b]
        /\ current'[c] = k /\ taken'[c] = a /\ decision'[c] = d /\ pcU'[c] = p
    BY <1>1 DEF UsersTypes, Goto
  <1>3. Counted'
    <2>1. \A e \in Entries : refs'[e] = refs[e] - His(c, e) + His(c, e)'
      <3> SUFFICES ASSUME NEW e \in Entries
                   PROVE  refs'[e] = refs[e] - His(c, e) + His(c, e)'
        OBVIOUS
      <3>1. His(c, e)' = One(k = e) + One(a = e) + One(d = e)
        BY <1>2 DEF His, One
      <3>2. refs[e] \in Int /\ His(c, e) \in Int
        BY <1>1 DEF UsersTypes, His, One
      <3> QED
        BY <3>1, <3>2 DEF One
    <2> QED
      BY <1>1, <1>2, <2>1, CheckerTally DEF announceVars
  <1>4. OneEntry'
    BY <1>1, <1>3, ListKept
  <1>5. UsersTypes'
    <2>1. pcU' \in [Announcers \cup Checkers -> AnnouncerPlaces \cup {"check", "walk", "use"}]
      <3>1. p \in AnnouncerPlaces \cup {"check", "walk", "use"}
        BY DEF AnnouncerPlaces
      <3>2. c \in Announcers \cup Checkers /\ pcU' = [pcU EXCEPT ![c] = p]
        BY DEF Goto
      <3>3. pcU \in [Announcers \cup Checkers -> AnnouncerPlaces \cup {"check", "walk", "use"}]
        BY <1>1 DEF UsersTypes
      <3> QED
        BY <3>1, <3>2, <3>3
    <2>2. /\ current' \in [Checkers -> Entries \cup {None}]
          /\ taken' \in [Checkers -> Entries \cup {None}]
          /\ decision' \in [Checkers -> Entries \cup {None}]
      BY <1>1 DEF UsersTypes
    <2> QED
      BY <1>1, <2>1, <2>2 DEF UsersTypes, announceVars
  <1>6. AnnouncerHas' /\ \A t \in Announcers : \A s : Clears(t, s) => Clears(t, s)'
    BY <1>1, OthersOfChecker
  <1>7. CheckerHas'
    BY <1>1, <1>2 DEF CheckerHas
  <1>8. KnownActive'
    <2>1. \A e : In(e) => In(e)'
      BY DEF In
    <2> QED
      BY <1>1, <1>3, <1>6, <2>1, ActiveKept
  <1> QED
    BY <1>3, <1>4, <1>5, <1>6, <1>7, <1>8 DEF UsersInv

LEMMA TakeInv ==
  ASSUME UsersInv, NEW c \in Checkers, Take(c) PROVE UsersInv'
  <1> DEFINE x == IF active # None THEN active ELSE array[1]
  <1>1. /\ UsersTypes /\ CheckerHas /\ OfSession /\ Referenced
    BY CountedReferenced DEF UsersInv
  <1>2. /\ pcU[c] = "idle" /\ (active # None \/ array # << >>)
        /\ taken' = [taken EXCEPT ![c] = x] /\ current' = [current EXCEPT ![c] = x]
        /\ Ref(x, 2) /\ walk' = [walk EXCEPT ![c] = 0] /\ Goto(c, "check")
        /\ UNCHANGED << array, active, announceVars, decision >>
    BY DEF Take
  <1>3. x \in Entries /\ refs[x] >= 1
    <2>1. CASE active # None
      BY <1>1, <2>1 DEF UsersTypes, Referenced, Owned
    <2>2. CASE active = None
      <3>1. 1 \in DOMAIN array /\ array[1] \in Entries
        BY <1>1, <1>2, <2>2 DEF UsersTypes
      <3>2. In(array[1])
        BY <3>1 DEF In
      <3> QED
        BY <1>1, <2>2, <3>1, <3>2 DEF Referenced, Owned
    <2> QED
      BY <2>1, <2>2
  <1> HIDE DEF x
  <1>4. /\ refs' \in [Entries -> Int] /\ sess' \in [Entries -> Sessions \cup {None}]
        /\ \A e \in Entries : refs'[e] = IF e = x THEN refs[e] + 2 ELSE refs[e]
        /\ OfSession' /\ Kept
    <2>1. refs[x] # 0 /\ 2 \in Int
      BY <1>3
    <2> QED
      BY <1>1, <1>2, <1>3, <2>1, RefKept
  <1>5. /\ current[c] = None /\ taken[c] = None /\ decision[c] = None
        /\ decision' = [decision EXCEPT ![c] = None]
        /\ x # None /\ None \notin Entries
    BY <1>1, <1>2, <1>3, UsersAssumption DEF CheckerHas, UsersTypes, UsersAssumption
  <1>6. \A e \in Entries :
          refs'[e] = refs[e] - His(c, e) + One(x = e) + One(x = e) + One(None = e)
    <2> SUFFICES ASSUME NEW e \in Entries
                 PROVE  refs'[e] = refs[e] - His(c, e) + One(x = e) + One(x = e) + One(None = e)
      OBVIOUS
    <2>1. refs[e] \in Int /\ e # None /\ His(c, e) = 0
      BY <1>1, <1>5 DEF UsersTypes, His, One
    <2> QED
      BY <1>4, <2>1 DEF One
  <1>7. walk' \in [Checkers -> Nat]
    BY <1>1, <1>2 DEF UsersTypes
  <1> QED
    <2>1. Gets(c, "check", x, x, None)
      BY <1>2, <1>3, <1>4, <1>5, <1>6, <1>7 DEF Gets
    <2> QED
      BY <2>1, CheckerStepInv

LEMMA NameTakenInv ==
  ASSUME UsersInv, NEW c \in Checkers, pcU[c] \in {"check", "walk"}, NameTaken(c),
         UNCHANGED << array, active, announceVars, walk, taken >>
  PROVE  UsersInv'
  <1> DEFINE k == current[c]
             a == taken[c]
  <1>1. /\ UsersTypes /\ CheckerHas /\ OfSession /\ Referenced
    BY CountedReferenced DEF UsersInv
  <1>2. /\ refs' = [refs EXCEPT ![k] = @ - 1, ![a] = @ + 1]
        /\ sess' = IF refs'[k] = 0 THEN [sess EXCEPT ![k] = None] ELSE sess
        /\ decision' = [decision EXCEPT ![c] = a]
        /\ current' = [current EXCEPT ![c] = None] /\ Goto(c, "use")
    BY DEF NameTaken
  <1>3. /\ k \in Entries /\ a \in Entries /\ decision[c] = None
        /\ None \notin Entries /\ taken' = [taken EXCEPT ![c] = a]
    BY <1>1, UsersAssumption DEF CheckerHas, UsersTypes, UsersAssumption
  <1>4. refs[k] >= 1 /\ refs[a] >= 1
    BY <1>1, <1>3 DEF Referenced, Owned
  <1>5. \A e \in Entries : His(c, e) = One(k = e) + One(a = e)
    BY <1>3 DEF His, One
  <1> HIDE DEF k, a
  <1>6. /\ refs' \in [Entries -> Int]
        /\ \A e \in Entries : refs'[e] = refs[e] - One(k = e) + One(a = e)
    BY <1>1, <1>2, <1>3 DEF UsersTypes, One
  <1>7. \A e \in Entries : e # k /\ refs[e] = 0 => refs'[e] = 0
    BY <1>1, <1>3, <1>4, <1>6 DEF One
  <1>8. /\ sess' \in [Entries -> Sessions \cup {None}]
        /\ \A e \in Entries : sess'[e] = IF refs'[e] = 0 THEN None ELSE sess[e]
    <2>1. \A e \in Entries : e # k /\ refs'[e] = 0 => sess[e] = None
      <3> SUFFICES ASSUME NEW e \in Entries, e # k, refs'[e] = 0 PROVE sess[e] = None
        OBVIOUS
      <3>1. refs[e] \in Int /\ refs'[e] = refs[e] + One(a = e) /\ (a = e => refs[e] >= 1)
        BY <1>1, <1>4, <1>6 DEF UsersTypes, One
      <3>2. refs[e] = 0
        BY <3>1 DEF One
      <3> QED
        BY <1>1, <3>2 DEF OfSession
    <2> QED
      BY <1>1, <1>2, <1>3, <2>1 DEF UsersTypes
  <1>9. OfSession' /\ Kept
    BY <1>1, <1>4, <1>6, <1>7, <1>8, RefsKept
  <1>10. \A e \in Entries :
           refs'[e] = refs[e] - His(c, e) + One(None = e) + One(a = e) + One(a = e)
    <2> SUFFICES ASSUME NEW e \in Entries
                 PROVE  refs'[e] = refs[e] - His(c, e) + One(None = e) + One(a = e) + One(a = e)
      OBVIOUS
    <2>1. refs[e] \in Int /\ e # None /\ His(c, e) = One(k = e) + One(a = e)
      BY <1>1, <1>3, <1>5 DEF UsersTypes
    <2> QED
      BY <1>6, <2>1 DEF One
  <1>11. walk' \in [Checkers -> Nat] /\ a # None
    BY <1>1, <1>3 DEF UsersTypes
  <1> QED
    <2>1. Gets(c, "use", None, a, a)
      BY <1>2, <1>3, <1>6, <1>8, <1>9, <1>10, <1>11 DEF Gets
    <2> QED
      BY <2>1, CheckerStepInv

LEMMA CheckInv ==
  ASSUME UsersInv, NEW c \in Checkers, Check(c) PROVE UsersInv'
  <1> DEFINE k == current[c]
             a == taken[c]
  <1>1. UsersTypes /\ CheckerHas /\ OfSession
    BY DEF UsersInv
  <1>2. pcU[c] = "check" /\ UNCHANGED << array, active, announceVars, walk, taken >>
    BY DEF Check
  <1>3. /\ k \in Entries /\ a \in Entries /\ decision[c] = None
        /\ None \notin Entries /\ taken' = [taken EXCEPT ![c] = a]
        /\ walk' \in [Checkers -> Nat]
    BY <1>1, <1>2, UsersAssumption DEF CheckerHas, UsersTypes, UsersAssumption
  <1>4. \A e \in Entries : /\ His(c, e) = One(k = e) + One(a = e) /\ refs[e] \in Int
                           /\ One(None = e) = 0
    BY <1>1, <1>3 DEF His, One, UsersTypes
  <1> HIDE DEF k, a
  <1>5. CASE /\ decision' = [decision EXCEPT ![c] = k] /\ current' = [current EXCEPT ![c] = None]
             /\ Goto(c, "use") /\ UNCHANGED << refs, sess >>
    <2>1. /\ refs' \in [Entries -> Int] /\ sess' \in [Entries -> Sessions \cup {None}]
          /\ OfSession' /\ Kept
      BY <1>1, <1>5, Same
    <2>2. \A e \in Entries :
            refs'[e] = refs[e] - His(c, e) + One(None = e) + One(a = e) + One(k = e)
      BY <1>4, <1>5 DEF One
    <2>3. k # None /\ a # None
      BY <1>3
    <2> QED
      <3>1. Gets(c, "use", None, a, k)
        BY <1>2, <1>3, <1>5, <2>1, <2>2, <2>3 DEF Gets
      <3> QED
        BY <3>1, CheckerStepInv
  <1>6. CASE Goto(c, "walk") /\ UNCHANGED << refs, sess, decision, current >>
    <2>1. /\ refs' \in [Entries -> Int] /\ sess' \in [Entries -> Sessions \cup {None}]
          /\ OfSession' /\ Kept
      BY <1>1, <1>6, Same
    <2>2. \A e \in Entries :
            refs'[e] = refs[e] - His(c, e) + One(k = e) + One(a = e) + One(None = e)
      BY <1>4, <1>6 DEF One
    <2>3. /\ k # None /\ a # None
          /\ decision' = [decision EXCEPT ![c] = None] /\ current' = [current EXCEPT ![c] = k]
      BY <1>1, <1>3, <1>6 DEF UsersTypes, k
    <2> QED
      <3>1. Gets(c, "walk", k, a, None)
        BY <1>2, <1>3, <1>6, <2>1, <2>2, <2>3 DEF Gets
      <3> QED
        BY <3>1, CheckerStepInv
  <1>7. CASE NameTaken(c)
    BY <1>2, <1>7, NameTakenInv
  <1> QED
    BY <1>5, <1>6, <1>7 DEF Check, k

(* A set of numbers that is not empty has a smallest one.                  *)
LEMMA SmallestOf ==
  ASSUME NEW X, X \subseteq Nat, X # {}
  PROVE  \E n \in X : \A l \in X : n <= l
  <1> DEFINE R == {p \in Nat \X Nat : p[1] < p[2]}
  <1>1. IsWellFoundedOn(R, Nat)
    BY NatLessThanWellFounded DEF OpToRel
  <1>2. \A a, b \in Nat : a < b => << a, b >> \in R
    OBVIOUS
  <1> HIDE DEF R
  <1>3. PICK n \in X : \A l \in X : << l, n >> \notin R
    BY <1>1, WFMin
  <1>4. ASSUME NEW l \in X PROVE n <= l
    <2>1. l \in Nat /\ n \in Nat /\ ~(l < n)
      BY <1>2, <1>3
    <2> QED
      BY <2>1
  <1> QED
    BY <1>4

LEMMA WalkInv ==
  ASSUME UsersInv, NEW c \in Checkers, Walk(c) PROVE UsersInv'
  <1> DEFINE k == current[c]
             a == taken[c]
             ahead == {j \in walk[c] + 1 .. Len(array) : k # array[j] /\ k # a}
  <1>1. UsersTypes /\ CheckerHas /\ OfSession /\ Referenced
    BY CountedReferenced DEF UsersInv
  <1>2. pcU[c] = "walk" /\ UNCHANGED << array, active, announceVars, taken >>
    BY DEF Walk
  <1>3. CASE ahead = {}
    <2>1. NameTaken(c) /\ UNCHANGED walk
      BY <1>3 DEF Walk
    <2> QED
      BY <1>2, <2>1, NameTakenInv
  <1>4. CASE ahead # {}
    <2> DEFINE j == CHOOSE n \in ahead : \A l \in ahead : n <= l
               x == array[j]
    <2>1. /\ walk' = [walk EXCEPT ![c] = j] /\ current' = [current EXCEPT ![c] = x]
          /\ refs' = [refs EXCEPT ![k] = @ - 1, ![x] = @ + 1]
          /\ sess' = IF refs'[k] = 0 THEN [sess EXCEPT ![k] = None] ELSE sess
          /\ Goto(c, "check") /\ UNCHANGED decision
      BY <1>4 DEF Walk
    <2>2. j \in ahead
      <3>1. ahead \subseteq Nat
        BY <1>1 DEF UsersTypes
      <3>2. \E n \in ahead : \A l \in ahead : n <= l
        BY <1>4, <3>1, SmallestOf
      <3> QED
        BY <3>2
    <2>3. j \in DOMAIN array /\ j \in Nat /\ x \in Entries /\ k # x /\ In(x)
      <3>1. j \in walk[c] + 1 .. Len(array) /\ walk[c] \in Nat /\ array \in Seq(Entries) /\ k # x
        BY <1>1, <2>2 DEF UsersTypes
      <3> HIDE DEF j, ahead
      <3>2. j \in DOMAIN array /\ j \in Nat
        BY <3>1
      <3> QED
        BY <3>1, <3>2 DEF In
    <2>4. /\ k \in Entries /\ a \in Entries /\ decision[c] = None /\ None \notin Entries
          /\ taken' = [taken EXCEPT ![c] = a] /\ decision' = [decision EXCEPT ![c] = None]
      BY <1>1, <1>2, <2>1, UsersAssumption DEF CheckerHas, UsersTypes, UsersAssumption
    <2>5. refs[k] >= 1 /\ refs[x] >= 1
      BY <1>1, <2>3, <2>4 DEF Referenced, Owned
    <2>6. \A e \in Entries : His(c, e) = One(k = e) + One(a = e)
      BY <2>4 DEF His, One
    <2>7. walk' \in [Checkers -> Nat]
      BY <1>1, <2>1, <2>3 DEF UsersTypes
    <2> HIDE DEF k, a, j, x, ahead
    <2>8. /\ refs' \in [Entries -> Int]
          /\ \A e \in Entries : refs'[e] = refs[e] - One(k = e) + One(x = e)
      BY <1>1, <2>1, <2>3, <2>4 DEF UsersTypes, One
    <2>9. /\ sess' \in [Entries -> Sessions \cup {None}]
          /\ \A e \in Entries : sess'[e] = IF refs'[e] = 0 THEN None ELSE sess[e]
      <3>1. \A e \in Entries : e # k /\ refs'[e] = 0 => sess[e] = None
        <4> SUFFICES ASSUME NEW e \in Entries, e # k, refs'[e] = 0 PROVE sess[e] = None
          OBVIOUS
        <4>1. refs[e] \in Int /\ refs'[e] = refs[e] + One(x = e) /\ (x = e => refs[e] >= 1)
          BY <1>1, <2>5, <2>8 DEF UsersTypes, One
        <4>2. refs[e] = 0
          BY <4>1 DEF One
        <4> QED
          BY <1>1, <4>2 DEF OfSession
      <3> QED
        BY <1>1, <2>1, <2>4, <3>1 DEF UsersTypes
    <2>10. \A e \in Entries : refs[e] = 0 => refs'[e] = 0
      BY <1>1, <2>4, <2>5, <2>8 DEF One
    <2>11. OfSession' /\ Kept
      BY <1>1, <2>8, <2>9, <2>10, RefsKept
    <2>12. \A e \in Entries :
             refs'[e] = refs[e] - His(c, e) + One(x = e) + One(a = e) + One(None = e)
      <3> SUFFICES ASSUME NEW e \in Entries
                   PROVE  refs'[e] = refs[e] - His(c, e) + One(x = e) + One(a = e) + One(None = e)
        OBVIOUS
      <3>1. refs[e] \in Int /\ e # None /\ His(c, e) = One(k = e) + One(a = e)
        BY <1>1, <2>4, <2>6 DEF UsersTypes
      <3> QED
        BY <2>8, <3>1 DEF One
    <2>13. x # None /\ a # None
      BY <2>3, <2>4
    <2>14. Gets(c, "check", x, a, None)
      BY <1>2, <2>1, <2>3, <2>4, <2>7, <2>8, <2>9, <2>11, <2>12, <2>13 DEF Gets
    <2> QED
      BY <2>14, CheckerStepInv
  <1> QED
    BY <1>3, <1>4

LEMMA ReleaseResourcesInv ==
  ASSUME UsersInv, NEW c \in Checkers, DldReleaseResources(c) PROVE UsersInv'
  <1> DEFINE Less(e) == Cardinality({x \in {"taken", "decision"} :
                                       e = IF x = "taken" THEN taken[c] ELSE decision[c]})
  <1>1. UsersTypes /\ CheckerHas /\ OfSession /\ Referenced
    BY CountedReferenced DEF UsersInv
  <1>2. /\ pcU[c] = "use" /\ refs' = [e \in Entries |-> refs[e] - Less(e)]
        /\ sess' = [e \in Entries |-> IF refs'[e] = 0 THEN None ELSE sess[e]]
        /\ taken' = [taken EXCEPT ![c] = None] /\ decision' = [decision EXCEPT ![c] = None]
        /\ walk' = [walk EXCEPT ![c] = 0] /\ Goto(c, "idle")
        /\ UNCHANGED << array, active, announceVars, current >>
    BY DEF DldReleaseResources
  <1>3. /\ current[c] = None /\ current' = [current EXCEPT ![c] = None] /\ None \notin Entries
        /\ taken[c] \in Entries /\ decision[c] \in Entries /\ walk' \in [Checkers -> Nat]
    BY <1>1, <1>2, UsersAssumption DEF CheckerHas, UsersTypes, UsersAssumption
  <1>4. \A e : Less(e) = One(taken[c] = e) + One(decision[c] = e)
    <2> SUFFICES ASSUME NEW e PROVE Less(e) = One(taken[c] = e) + One(decision[c] = e)
      OBVIOUS
    <2> DEFINE X == {x \in {"taken", "decision"} :
                       e = IF x = "taken" THEN taken[c] ELSE decision[c]}
    <2>1. /\ Cardinality({}) = 0 /\ Cardinality({"taken"}) = 1 /\ Cardinality({"decision"}) = 1
          /\ Cardinality({"taken", "decision"}) = 2
      <3>1. "taken" \notin {"decision"} /\ {"taken", "decision"} = {"decision"} \cup {"taken"}
        OBVIOUS
      <3>2. Cardinality({}) = 0
        BY FS_EmptySet
      <3>3. Cardinality({"taken"}) = 1
        BY FS_Singleton
      <3>4. Cardinality({"decision"}) = 1 /\ IsFiniteSet({"decision"})
        BY FS_Singleton
      <3>5. Cardinality({"decision"} \cup {"taken"}) = Cardinality({"decision"}) + 1
        BY <3>1, <3>4, FS_AddElement
      <3> QED
        BY <3>1, <3>2, <3>3, <3>4, <3>5
    <2>2. X = (IF taken[c] = e THEN {"taken"} ELSE {})
                \cup (IF decision[c] = e THEN {"decision"} ELSE {})
      OBVIOUS
    <2>3. CASE taken[c] = e /\ decision[c] = e
      <3>1. X = {"taken", "decision"}
        BY <2>2, <2>3
      <3> QED
        BY <2>1, <2>3, <3>1 DEF One
    <2>4. CASE taken[c] = e /\ decision[c] # e
      <3>1. X = {"taken"}
        BY <2>2, <2>4
      <3> QED
        BY <2>1, <2>4, <3>1 DEF One
    <2>5. CASE taken[c] # e /\ decision[c] = e
      <3>1. X = {"decision"}
        BY <2>2, <2>5
      <3> QED
        BY <2>1, <2>5, <3>1 DEF One
    <2>6. CASE taken[c] # e /\ decision[c] # e
      <3>1. X = {}
        BY <2>2, <2>6
      <3> QED
        BY <2>1, <2>6, <3>1 DEF One
    <2> QED
      BY <2>3, <2>4, <2>5, <2>6
  <1> HIDE DEF Less
  <1>5. /\ refs' \in [Entries -> Int]
        /\ \A e \in Entries : refs'[e] = refs[e] - One(taken[c] = e) - One(decision[c] = e)
    BY <1>1, <1>2, <1>4 DEF UsersTypes, One
  <1>6. \A e \in Entries : refs[e] = 0 => refs'[e] = 0
    <2>1. refs[taken[c]] >= 1 /\ refs[decision[c]] >= 1
      BY <1>1, <1>3 DEF Referenced, Owned
    <2> QED
      BY <1>1, <1>5, <2>1 DEF One
  <1>7. /\ sess' \in [Entries -> Sessions \cup {None}]
        /\ \A e \in Entries : sess'[e] = IF refs'[e] = 0 THEN None ELSE sess[e]
    BY <1>1, <1>2 DEF UsersTypes
  <1>8. OfSession' /\ Kept
    BY <1>1, <1>5, <1>6, <1>7, RefsKept
  <1>9. \A e \in Entries :
          refs'[e] = refs[e] - His(c, e) + One(None = e) + One(None = e) + One(None = e)
    <2> SUFFICES ASSUME NEW e \in Entries
                 PROVE  refs'[e] = refs[e] - His(c, e)
                                     + One(None = e) + One(None = e) + One(None = e)
      OBVIOUS
    <2>1. /\ refs[e] \in Int /\ e # None
          /\ His(c, e) = One(taken[c] = e) + One(decision[c] = e)
      BY <1>1, <1>3 DEF UsersTypes, His, One
    <2> QED
      BY <1>5, <2>1 DEF One
  <1>10. Gets(c, "idle", None, None, None)
    BY <1>2, <1>3, <1>5, <1>7, <1>8, <1>9 DEF Gets
  <1> QED
    BY <1>10, CheckerStepInv

----------------------------------------------------------------------------
(* The invariant and what follows from it.                                 *)
LEMMA UsersFirst ==
  UsersInit => UsersInv
  <1> SUFFICES ASSUME UsersInit PROVE UsersInv
    OBVIOUS
  <1> USE DEF UsersInit
  <1>1. UsersTypes
    <2>1. call \in [Announcers -> [session : Sessions \cup {None}, state : States]]
      BY DEF NoCall, States
    <2>2. pcU \in [Announcers \cup Checkers -> AnnouncerPlaces \cup {"check", "walk", "use"}]
      BY DEF AnnouncerPlaces
    <2> QED
      BY <2>1, <2>2 DEF UsersTypes
  <1>2. AnnouncerHas /\ CheckerHas
    BY DEF AnnouncerHas, CheckerHas, AnnouncerPlaces, Removing
  <1>3. OneEntry /\ OfSession /\ KnownActive
    BY DEF OneEntry, OfSession, KnownActive
  <1>4. Counted
    <2> SUFFICES ASSUME NEW e \in Entries PROVE refs[e] = Tally(e)
      BY DEF Counted
    <2>1. e # None
      BY UsersAssumption DEF UsersAssumption
    <2>2. /\ {t \in Announcers : found[t] = e} = {} /\ {t \in Announcers : old[t] = e} = {}
          /\ {c \in Checkers : current[c] = e} = {} /\ {c \in Checkers : taken[c] = e} = {}
          /\ {c \in Checkers : decision[c] = e} = {}
      BY <2>1
    <2>3. Cardinality({}) = 0
      BY FS_EmptySet
    <2>4. ~In(e) /\ active # e /\ refs[e] = 0
      BY <2>1 DEF In
    <2>5. /\ Number(found, Announcers, e) = 0 /\ Number(old, Announcers, e) = 0
          /\ Number(current, Checkers, e) = 0 /\ Number(taken, Checkers, e) = 0
          /\ Number(decision, Checkers, e) = 0
      BY <2>2, <2>3 DEF Number
    <2> QED
      BY <2>4, <2>5 DEF Tally, One
  <1> QED
    BY <1>1, <1>2, <1>3, <1>4 DEF UsersInv

LEMMA UsersStutter ==
  ASSUME UsersInv, UNCHANGED usersVars PROVE UsersInv'
  <1> USE DEF usersVars, entryVars, announceVars, checkVars
  <1>1. UsersTypes' /\ AnnouncerHas' /\ CheckerHas'
    BY DEF UsersInv, UsersTypes, AnnouncerHas, CheckerHas
  <1>2. OneEntry' /\ OfSession' /\ Counted'
    BY DEF UsersInv, OneEntry, OfSession, Counted, Tally, In
  <1>3. KnownActive'
    BY DEF UsersInv, KnownActive, In, Clears
  <1> QED
    BY <1>1, <1>2, <1>3 DEF UsersInv

THEOREM UsersInvariant ==
  UsersSpec => []UsersInv
  <1>1. ASSUME UsersInv, [UsersNext]_usersVars PROVE UsersInv'
    <2>1. ASSUME NEW t \in Announcers, AnnouncerStep(t) PROVE UsersInv'
      BY <1>1, <2>1, SetUserStateInv, FindInv, AddInv, SetLookInv, SetInv, RemoveInv,
         ClearLookInv, ClearInv, ReleaseOldInv, ExitInv DEF AnnouncerStep
    <2>2. ASSUME NEW c \in Checkers, CheckerStep(c) PROVE UsersInv'
      BY <1>1, <2>2, TakeInv, CheckInv, WalkInv, ReleaseResourcesInv DEF CheckerStep
    <2>3. CASE UNCHANGED usersVars
      BY <1>1, <2>3, UsersStutter
    <2> QED
      BY <1>1, <2>1, <2>2, <2>3 DEF UsersNext
  <1> QED
    BY <1>1, UsersFirst, PTL DEF UsersSpec

(* Where an entry stands in the array, and where one of a session does.    *)
LEMMA Singles ==
  ASSUME UsersInv
  PROVE  /\ \A e : Cardinality({i \in 1 .. Len(array) : array[i] = e}) = One(In(e))
         /\ \A s : Cardinality(Where(s)) <= 1
  <1>1. /\ DOMAIN array = 1 .. Len(array)
        /\ \A i, j \in DOMAIN array : sess[array[i]] = sess[array[j]] => i = j
    BY DEF UsersInv, UsersTypes, OneEntry
  <1>2. Cardinality({}) = 0 /\ \A i : Cardinality({i}) = 1
    BY FS_EmptySet, FS_Singleton
  <1>3. ASSUME NEW e
        PROVE  Cardinality({i \in 1 .. Len(array) : array[i] = e}) = One(In(e))
    <2> DEFINE X == {i \in 1 .. Len(array) : array[i] = e}
    <2>1. CASE In(e)
      <3>1. PICK i \in DOMAIN array : array[i] = e
        BY <2>1 DEF In
      <3>2. X = {i}
        BY <1>1, <3>1
      <3> QED
        BY <1>2, <2>1, <3>2 DEF One
    <2>2. CASE ~In(e)
      <3>1. X = {}
        BY <1>1, <2>2 DEF In
      <3> QED
        BY <1>2, <2>2, <3>1 DEF One
    <2> QED
      BY <2>1, <2>2
  <1>4. ASSUME NEW s PROVE Cardinality(Where(s)) <= 1
    <2>1. CASE Where(s) = {}
      BY <1>2, <2>1
    <2>2. CASE Where(s) # {}
      <3>1. PICK i \in Where(s) : TRUE
        BY <2>2
      <3>2. Where(s) = {i}
        BY <1>1, <3>1 DEF Where
      <3>3. Cardinality(Where(s)) = 1
        BY <1>2, <3>2, Zenon
      <3> QED
        BY <3>3
    <2> QED
      BY <2>1, <2>2
  <1> QED
    BY <1>3, <1>4

(* The references of an entry are its owners, whatever order the threads   *)
(* take the lock in: no entry is freed while a check uses its credentials, *)
(* and none is left when nobody has it.                                    *)
THEOREM EntriesCountedAll ==
  UsersSpec => []EntriesCounted
  <1>1. UsersInv => EntriesCounted
    <2> SUFFICES ASSUME UsersInv, NEW e \in Entries PROVE refs[e] = Owners(e)
      BY DEF EntriesCounted
    <2>1. Cardinality({i \in 1 .. Len(array) : array[i] = e}) = One(In(e))
      BY Singles
    <2>2. refs[e] = Tally(e)
      BY DEF UsersInv, Counted
    <2> QED
      BY <2>1, <2>2 DEF Tally, Owners, Number, One
  <1> QED
    BY <1>1, UsersInvariant, PTL

(* Who has left is not taken for the active user: an active entry is in    *)
(* the array, or the thread that took it out is about to clear it; and a   *)
(* session has one entry there.                                            *)
THEOREM ActiveListedAll ==
  UsersSpec => []ActiveListed
  <1>1. UsersInv => ActiveListed
    <2> SUFFICES ASSUME UsersInv PROVE ActiveListed
      OBVIOUS
    <2>1. In(active) => \E i \in 1 .. Len(array) : array[i] = active
      BY DEF UsersInv, UsersTypes, In
    <2> QED
      BY <2>1, Singles DEF UsersInv, KnownActive, Clears, ActiveListed
  <1> QED
    BY <1>1, UsersInvariant, PTL
=============================================================================
