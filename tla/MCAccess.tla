------------------------------ MODULE MCAccess ------------------------------
(***************************************************************************)
(* What becomes of an access to a device, on small instances: who is       *)
(* logged on, what the lists of rights say, what the service answers about *)
(* an isolated file, and the isolation itself: the chunks of the sparse    *)
(* file, its B-tree and the covered file.  They share no variable; part    *)
(* says which one runs, and the others stand still.                        *)
(*                                                                         *)
(* The bounds: descriptors of two entries in a file of eight chunks, so    *)
(* that the list of free chunks gets three descriptors; a tree of order 2  *)
(* (nodes of one to three keys) over ten blocks that are written at once,  *)
(* so that it is three levels high and every case of the deletion occurs,  *)
(* and one that is written again; three calls by two threads on a file of  *)
(* two blocks; three notifications, so that one that is answered late      *)
(* meets the next one of its thread; three users and five lists of rights  *)
(* of up to four entries; two announcements, or one and a check, over two  *)
(* sessions and three entries.                                             *)
(***************************************************************************)
EXTENDS FreeChunks, DiskCawl, CoveredFile, AccessRights, LoggedUsers

VARIABLES
  part,
  root, tags, damaged, written, inner    \* SparseTree

treeVars  == << root, tags, damaged, written, inner >>
isolationVars == << vars, treeVars, fileVars >>

T == INSTANCE SparseTree WITH
  BTreeOrder <- 2, Blocks <- 10, Sizes <- {0, 8},
  Requests <- {<< 0, 9 >>, << 3, 3 >>}

ASSUME T!TreeAssumption

----------------------------------------------------------------------------
(* The users and the lists of AccessRights.  ann is of the staff, whether  *)
(* root is cannot be found out; nobody is a guest; bob has no GUID.        *)
Belongs(user, subject) ==
  CASE subject = "all" -> "yes"
    [] subject = "staff" -> IF user = "ann" THEN "yes" ELSE "unresolved"
    [] OTHER -> "no"
Groups == [u \in Users |-> [s \in Subjects |-> Belongs(u, s)]]

Ace(kind, who, rights) == [kind |-> kind, who |-> who, rights |-> rights]
Lists ==
  { << >>,
    << Ace("permit", "all", {"r", "w"}) >>,
    << Ace("deny", "staff", {"w"}), Ace("permit", "all", {"r"}) >>,
    << Ace("permit", "all", {"r"}), Ace("deny", "staff", {"r"}), Ace("permit", "all", {"w"}) >>,
    << Ace("skipped", "all", {"w"}), Ace("deny", "guests", {"r", "w"}),
       Ace("permit", "staff", {"w"}), Ace("deny", "all", {"r"}) >> }

(* Of the threads that announce only one does while a check goes on.       *)
Agent == CHOOSE t \in Announcers : TRUE

----------------------------------------------------------------------------
AccessInit ==
  /\ part \in {"chunks", "tree", "file", "answer", "rights", "users", "checks"}
  /\ Init /\ T!Init /\ FileInit /\ CawlInit /\ RightsInit /\ UsersInit
  /\ part # "answer" => strict

AccessNext ==
  /\ UNCHANGED part
  /\ \/ /\ part = "chunks" /\ Next
        /\ UNCHANGED << treeVars, fileVars, cawlVars, rightsVars, usersVars >>
     \/ /\ part = "tree" /\ T!Next
        /\ UNCHANGED << vars, fileVars, cawlVars, rightsVars, usersVars >>
     \/ /\ part = "file" /\ FileNext
        /\ UNCHANGED << vars, treeVars, cawlVars, rightsVars, usersVars >>
     \/ /\ part = "answer" /\ CawlNext
        /\ UNCHANGED << isolationVars, rightsVars, usersVars >>
     \/ /\ part = "rights" /\ RightsNext
        /\ UNCHANGED << isolationVars, cawlVars, usersVars >>
     \/ /\ part = "users" /\ \E t \in Announcers : AnnouncerStep(t)
        /\ UNCHANGED << isolationVars, cawlVars, rightsVars >>
     \/ /\ part = "checks"
        /\ AnnouncerStep(Agent) \/ \E c \in Checkers : CheckerStep(c)
        /\ UNCHANGED << isolationVars, cawlVars, rightsVars >>

AccessSpec ==
  AccessInit /\ [][AccessNext]_<< part, isolationVars, cawlVars, rightsVars, usersVars >>

TreeKept == T!TreeKept
=============================================================================
