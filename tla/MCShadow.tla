------------------------------ MODULE MCShadow ------------------------------
(***************************************************************************)
(* The safety of the shadow engine on small instances: the array of shadow *)
(* files (one unit is 32 MB, so that an expansion step is 4 units, the     *)
(* least quota 8 and a record at most 3), the requests with their hooks,   *)
(* and the SCSI commands that are shadowed.  The three share no variable;  *)
(* part says which one runs.                                               *)
(***************************************************************************)
EXTENDS ShadowFiles, ShadowRequests, ScsiTasks, TLC

VARIABLE part

(* No quota, one below the least quota and one that is honoured; a switch  *)
(* at half of the quota and one that would come too late.                  *)
QuotaOrNot   == {Ignore, 5, 8}
EarlyAndLate == {4, 8}

ShadowInit ==
  /\ part \in {"files", "requests", "scsi"}
  /\ FilesInit /\ Init /\ ScsiInit
  /\ part # "scsi" => strict

ShadowNext ==
  /\ \/ part = "files" /\ FilesNext /\ UNCHANGED << vars, scsiVars >>
     \/ part = "requests" /\ Next /\ UNCHANGED << filesVars, scsiVars >>
     \/ part = "scsi" /\ ScsiNext /\ UNCHANGED << filesVars, vars >>
  /\ UNCHANGED part

ShadowSpec == ShadowInit /\ [][ShadowNext]_<< part, filesVars, vars, scsiVars >>

OpSymmetry == Permutations(Ops)
=============================================================================
