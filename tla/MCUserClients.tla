--------------------------- MODULE MCUserClients ---------------------------
(* Small instances of UserClients for TLC: of the four registries, which   *)
(* are alike, the first and the last of startLogging.                      *)
EXTENDS UserClients, TLC

CONSTANTS service, log

InRegisterOrder == << service, log >>
InLeaveOrder    == << log, service >>

UserSymmetry == Permutations(Users)
=============================================================================
