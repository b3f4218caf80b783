---------------------------- MODULE AccessRights ----------------------------
(***************************************************************************)
(* Who may do what with a device: isAccessAllowed with the evaluation of   *)
(* an access control list (DldKauthAclEvaluate).                           *)
(*                                                                         *)
(* A check goes through the credentials of the caller, and for each of     *)
(* them through three levels: the full type of the device (a removable on  *)
(* USB), its parent type (USB) and its major type (a removable).  A level  *)
(* has a list in each array of permissions, which the service may replace  *)
(* at any time, so that a list is taken as it is found.  The lists of the  *)
(* security decide, two others say what is logged; the lists of the        *)
(* shadowing and of the isolation (one kind here) are consulted alike.     *)
(*                                                                         *)
(* The rights that encrypted media and USB classes change and the wording  *)
(* of the log are left out; an exemption (DldApplySecurityQuirks) is given *)
(* or not.                                                                 *)
(***************************************************************************)
EXTENDS Integers, Sequences, FiniteSets

CONSTANTS
  Rights,
  DeviceRead, DeviceWrite, (* DEVICE_READ and DEVICE_WRITE among them      *)
  FullWrite,           (* DEVICE_FULL_WRITE                                *)
  Users, Root,
  NoGuid,              (* users whose GUID cannot be had                   *)
  Subjects,            (* whom an entry may name                           *)
  Membership,          (* "yes", "no" or "unresolved", of a user           *)
  Acls,                (* the lists the service may set                    *)
  Requests             (* the sets of rights asked for                     *)

Levels == {"full", "parent", "major"}

(* An entry that is only inherited or of an unknown kind is skipped.       *)
AclEntries == [kind : {"permit", "deny", "skipped"}, who : Subjects, rights : SUBSET Rights]

ASSUME RightsAssumption ==
  /\ DeviceRead \in Rights /\ DeviceWrite \in Rights /\ FullWrite \subseteq Rights
  /\ Root \in Users /\ NoGuid \subseteq Users
  /\ Membership \in [Users -> [Subjects -> {"yes", "no", "unresolved"}]]
  /\ Acls \subseteq Seq(AclEntries)
  /\ Requests \subseteq (SUBSET Rights) \ {{}}

VARIABLES
  place,
  aclType,         (* "security" or "shadow"                               *)
  request,         (* requestedAccess                                      *)
  device,          (* has it a minor type, and which of its types is USB   *)
  checkForLogOnly, checkCompleted,
  creds,           (* credArray from credArrayIndx on                      *)
  whiteListed,     (* the levels at which the present user needs no check  *)
  level, purpose,  (* which list is looked at, and for "access" or "log"   *)
  acl, next, residual, aeResult, (* the evaluation of a list               *)
  disable, log, shadow,          (* the output, of a level                 *)
  denial           (* history: the level of the first denial               *)

deviceVars == << aclType, request, device >>
flagVars   == << checkForLogOnly, checkCompleted >>
whoVars    == << creds, whiteListed, level >>
evalVars   == << acl, next, residual, aeResult >>
outputVars == << disable, log, shadow, denial >>
rightsVars == << place, deviceVars, flagVars, whoVars, purpose, evalVars, outputVars >>

NoAcl == << [kind |-> "none"] >>
User == Head(creds)
Nowhere == [l \in Levels |-> FALSE]

RightsInit ==
  /\ place = "idle" /\ aclType = "security" /\ request = {}
  /\ device = [minor |-> FALSE, usb |-> {}]
  /\ checkForLogOnly = FALSE /\ checkCompleted = FALSE
  /\ creds = << >> /\ whiteListed = {} /\ level = "full" /\ purpose = "access"
  /\ acl = NoAcl /\ next = 1 /\ residual = {} /\ aeResult = "defer"
  /\ disable = Nowhere /\ log = Nowhere /\ shadow = Nowhere /\ denial = "none"

----------------------------------------------------------------------------
(* Whose credentials are checked                                           *)

(* The real user, unless he is root: setuid would breach the settings.     *)
(* A process that did not inherit its credentials counts as one of the     *)
(* user who is logged on; sudo leaves the audit user.                      *)
RealUser(uid, ruid, enforced, active) ==
  IF uid # ruid /\ ruid # Root THEN << ruid >>
  ELSE IF enforced THEN << active >> ELSE << >>
AuditUser(uid, ruid, auid) ==
  IF auid # ruid /\ ruid = uid /\ uid = Root THEN << auid >> ELSE << >>
CredArray(uid, ruid, auid, enforced, active) ==
  << uid >> \o RealUser(uid, ruid, enforced, active) \o AuditUser(uid, ruid, auid)

BeginCheck ==
  /\ place = "idle" /\ place' = "credential"
  /\ aclType' \in {"security", "shadow"}
  /\ request' \in Requests
  /\ device' \in [minor : BOOLEAN, usb : SUBSET {"major", "minor"}]
  /\ "minor" \in device'.usb => device'.minor
  /\ checkForLogOnly' \in (IF aclType' = "security" THEN BOOLEAN ELSE {FALSE})
  /\ \E uid, ruid, auid, active \in Users, enforced \in BOOLEAN :
       creds' = CredArray(uid, ruid, auid, enforced, active)
  /\ UNCHANGED << checkCompleted, whiteListed, level, purpose, evalVars, outputVars >>

(* DldFetchUsbWhiteListSettings: is the device in the list, and is that    *)
(* propagated to what is attached to it?                                   *)
OnWhiteList(in, up) ==
  IF ~in THEN {}
  ELSE IF up THEN Levels
  ELSE {l \in Levels : \/ l \in {"full", "major"} /\ "major" \in device.usb
                       \/ l \in {"full", "parent"} /\ "minor" \in device.usb}

FetchWhiteList ==
  /\ place = "credential"
  /\ IF creds = << >>
     THEN place' = "done" /\ UNCHANGED << whiteListed, level >>
     ELSE /\ place' = "level" /\ level' = "full"
          /\ \E in, up \in BOOLEAN : whiteListed' = OnWhiteList(in, up)
  /\ UNCHANGED << deviceVars, flagVars, creds, purpose, evalVars, outputVars >>

----------------------------------------------------------------------------
(* The evaluation of a list, entry by entry                                *)

(* What is asked of the parent's list; USB and FireWire have a full set of *)
(* rights.                                                                 *)
ParentRights ==
  IF "minor" \in device.usb THEN request
  ELSE (IF request \cap FullWrite # {} THEN {DeviceWrite} ELSE {}) \cup
       (IF request \ FullWrite # {} THEN {DeviceRead} ELSE {})
Requested == IF level = "parent" THEN ParentRights ELSE request

(* What cannot be resolved counts against the user.                        *)
Applies(user, entry) ==
  \/ Membership[user][entry.who] = "yes"
  \/ Membership[user][entry.who] = "unresolved" /\ entry.kind = "deny"

StartEvaluation(p) ==
  /\ purpose' = p /\ residual' = Requested /\ next' = 1
  /\ \/ acl' = NoAcl /\ aeResult' = "defer" /\ place' = "judged"
     \/ /\ acl' \in Acls
        /\ IF User \in NoGuid
           THEN aeResult' = "deny" /\ place' = "judged"
           ELSE aeResult' = "defer" /\ place' = "entry"

(* The structure of an evaluation is cleared for the next.                 *)
StopEvaluation == acl' = NoAcl /\ next' = 1 /\ residual' = {} /\ aeResult' = "defer"

EndOfList ==
  /\ place = "entry" /\ next > Len(acl)
  /\ place' = "judged"
  /\ UNCHANGED << deviceVars, flagVars, whoVars, purpose, evalVars, outputVars >>

PassOverCleared ==
  /\ place = "entry" /\ next <= Len(acl)
  /\ LET entry == acl[next] IN
     \/ entry.kind = "skipped" \/ ~Applies(User, entry)
     \/ entry.kind = "permit" /\ entry.rights \cap residual = {}
     \/ entry.kind = "deny" /\ entry.rights \cap residual = {}
  /\ next' = next + 1
  /\ UNCHANGED << place, deviceVars, flagVars, whoVars, purpose, acl, residual,
                  aeResult, outputVars >>

PassOver ==
  /\ place = "entry" /\ next <= Len(acl)
  /\ LET entry == acl[next] IN
     \/ entry.kind = "skipped" \/ ~Applies(User, entry)
     \/ entry.kind = "permit" /\ entry.rights \cap residual = {}
     \/ entry.kind = "deny" /\ entry.rights \cap Requested = {}
  /\ next' = next + 1
  /\ UNCHANGED << place, deviceVars, flagVars, whoVars, purpose, acl, residual,
                  aeResult, outputVars >>

Permit ==
  /\ place = "entry" /\ next <= Len(acl)
  /\ LET entry == acl[next] IN
     /\ entry.kind = "permit" /\ Applies(User, entry)
     /\ entry.rights \cap residual # {}
     /\ residual' = residual \ entry.rights
  /\ next' = next + 1
  /\ IF residual' = {}
     THEN aeResult' = "allow" /\ place' = "judged"
     ELSE UNCHANGED << aeResult, place >>
  /\ UNCHANGED << deviceVars, flagVars, whoVars, purpose, acl, outputVars >>

Deny ==
  /\ place = "entry" /\ next <= Len(acl)
  /\ LET entry == acl[next] IN
     entry.kind = "deny" /\ Applies(User, entry) /\ entry.rights \cap Requested # {}
  /\ aeResult' = "deny" /\ place' = "judged"
  /\ UNCHANGED << deviceVars, flagVars, whoVars, purpose, acl, next, residual, outputVars >>

----------------------------------------------------------------------------
(* The levels                                                              *)

ToCheck ==
  /\ level \notin whiteListed
  /\ level # "full" => device.minor

AfterLevel == IF level = "full" THEN {"parent"} ELSE IF level = "parent" THEN {"major"} ELSE {}

(* On to the next level, or to the next credential.                        *)
GoOn ==
  \/ level' \in AfterLevel /\ place' = "level" /\ UNCHANGED << creds, whiteListed >>
  \/ /\ AfterLevel = {} /\ place' = "credential" /\ creds' = Tail(creds)
     /\ UNCHANGED << whiteListed, level >>

(* checkParentType is the caller's choice.                                 *)
SkipLevel ==
  /\ place = "level" /\ (~ToCheck \/ level = "parent")
  /\ place' = "checked"
  /\ UNCHANGED << deviceVars, flagVars, whoVars, purpose, evalVars, outputVars >>

CheckLevel ==
  /\ place = "level" /\ ToCheck
  /\ IF checkForLogOnly
     THEN place' = "logging" /\ UNCHANGED << purpose, evalVars >>
     ELSE StartEvaluation("access")
  /\ UNCHANGED << deviceVars, flagVars, whoVars, outputVars >>

(* What is not cleared is denied, unless there is no list; the service may *)
(* have died and left the order to deny, and the device may be exempted.   *)
FinalResult(died, exempt) ==
  LET judged == IF aeResult = "defer" /\ acl # NoAcl THEN "deny" ELSE aeResult IN
  IF ~died /\ judged # "deny" THEN judged
  ELSE IF exempt /\ aclType = "security" THEN "allow" ELSE "deny"

ConcludeUnfinished ==
  /\ place = "judged" /\ purpose = "access" /\ place' = "logging"
  /\ \E died, exempt \in BOOLEAN :
       LET verdict == FinalResult(died, exempt) IN
       IF aclType = "security"
       THEN /\ disable' = IF verdict = "defer" THEN disable
                          ELSE [disable EXCEPT ![level] = verdict = "deny"]
            /\ denial' = IF verdict = "deny" /\ denial = "none" THEN level ELSE denial
            /\ UNCHANGED << checkCompleted, shadow >>
       ELSE /\ shadow' = IF verdict = "defer" THEN shadow
                         ELSE [shadow EXCEPT ![level] = verdict = "allow"]
            /\ checkCompleted' = (verdict = "allow" \/ checkCompleted)
            /\ UNCHANGED << disable, denial >>
  /\ StopEvaluation
  /\ UNCHANGED << deviceVars, checkForLogOnly, whoVars, purpose, log >>

Conclude ==
  /\ place = "judged" /\ purpose = "access" /\ place' = "logging"
  /\ \E died, exempt \in BOOLEAN :
       LET verdict == FinalResult(died, exempt) IN
       IF aclType = "security"
       THEN /\ disable' = IF verdict = "defer" THEN disable
                          ELSE [disable EXCEPT ![level] = verdict = "deny"]
            /\ denial' = IF verdict = "deny" /\ denial = "none" THEN level ELSE denial
            /\ checkCompleted' = (verdict = "deny" \/ checkCompleted)
            /\ UNCHANGED shadow
       ELSE /\ shadow' = IF verdict = "defer" THEN shadow
                         ELSE [shadow EXCEPT ![level] = verdict = "allow"]
            /\ checkCompleted' = (verdict = "allow" \/ checkCompleted)
            /\ UNCHANGED << disable, denial >>
  /\ StopEvaluation
  /\ UNCHANGED << deviceVars, checkForLogOnly, whoVars, purpose, log >>

(* The list of what is logged when denied, or of what when allowed.        *)
CheckLog ==
  /\ place = "logging" /\ aclType = "security" /\ ~log[level]
  /\ StartEvaluation("log")
  /\ UNCHANGED << deviceVars, flagVars, whoVars, outputVars >>

(* One right that is to be logged suffices.                                *)
ConcludeLog ==
  /\ place = "judged" /\ purpose = "log" /\ place' = "checked"
  /\ log' = [log EXCEPT ![level] =
              /\ acl # NoAcl
              /\ \/ aeResult = "allow"
                 \/ aeResult = "defer" /\ residual # Requested]
  /\ StopEvaluation
  /\ UNCHANGED << deviceVars, flagVars, whoVars, purpose, disable, shadow, denial >>

SkipLog ==
  /\ place = "logging" /\ (aclType # "security" \/ log[level])
  /\ place' = "checked"
  /\ UNCHANGED << deviceVars, flagVars, whoVars, purpose, evalVars, outputVars >>

(* A decision ends the check; that of the security is still logged.        *)
EndLevel ==
  /\ place = "checked"
  /\ checkForLogOnly' = (checkForLogOnly \/ (checkCompleted /\ aclType = "security"))
  /\ IF checkCompleted /\ aclType # "security"
     THEN place' = "credential" /\ creds' = Tail(creds) /\ UNCHANGED << whiteListed, level >>
     ELSE GoOn
  /\ UNCHANGED << deviceVars, checkCompleted, purpose, evalVars, outputVars >>

(* The caller takes the answer.                                            *)
TakeAnswer ==
  /\ place = "done" /\ place' = "idle"
  /\ aclType' = "security" /\ request' = {} /\ device' = [minor |-> FALSE, usb |-> {}]
  /\ checkForLogOnly' = FALSE /\ checkCompleted' = FALSE
  /\ creds' = << >> /\ whiteListed' = {} /\ level' = "full" /\ purpose' = "access"
  /\ disable' = Nowhere /\ log' = Nowhere /\ shadow' = Nowhere /\ denial' = "none"
  /\ UNCHANGED evalVars

RightsNext ==
  \/ BeginCheck \/ FetchWhiteList \/ EndOfList \/ PassOver \/ Permit \/ Deny
  \/ SkipLevel \/ CheckLevel \/ Conclude \/ CheckLog \/ ConcludeLog \/ SkipLog
  \/ EndLevel \/ TakeAnswer

RightsSpec == RightsInit /\ [][RightsNext]_rightsVars

----------------------------------------------------------------------------
(* What a list says                                                        *)

(* The rights that the entries before the n-th permit the user.            *)
Permitted(user, list, n) ==
  UNION {list[i].rights : i \in {j \in 1 .. n - 1 : /\ list[j].kind = "permit"
                                                   /\ Applies(user, list[j])}}

DeniedBy(user, list, rights, i) ==
  list[i].kind = "deny" /\ Applies(user, list[i]) /\ list[i].rights \cap rights # {}

(* Some right is denied before all of them were permitted.                 *)
DeniedByList(user, list, rights) ==
  \E i \in 1 .. Len(list) :
    DeniedBy(user, list, rights, i) /\ ~(rights \subseteq Permitted(user, list, i))

Expected(user, list, rights) ==
  IF DeniedByList(user, list, rights) THEN "deny"
  ELSE IF rights \subseteq Permitted(user, list, Len(list) + 1) THEN "allow"
  ELSE "defer"

(* The evaluation that goes from entry to entry and stops at the first     *)
(* that decides gives the verdict of the list as a whole, and what is left *)
(* of the rights is what the list does not permit.                         *)
VerdictRight ==
  place = "judged" /\ acl # NoAcl /\ User \notin NoGuid =>
    /\ aeResult = Expected(User, acl, Requested)
    /\ aeResult # "deny" => residual = Requested \ Permitted(User, acl, Len(acl) + 1)

(* The first denial ends the check of the security: no later credential    *)
(* and no other level takes it back or adds another, and nothing else      *)
(* denies.                                                                 *)
DecisionStands ==
  place = "done" /\ aclType = "security" => disable = [l \in Levels |-> l = denial]
=============================================================================
