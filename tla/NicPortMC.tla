----------------------------- MODULE NicPortMC -----------------------------
(***************************************************************************)
(* The port as the program opens it (one NIC, shared by its threads), and  *)
(* the same driver in redundant mode on one request.  The first step       *)
(* chooses which of the two is looked at; the other one stays as it is.    *)
(***************************************************************************)
EXTENDS NicPort, RedundantPort, TLC

CONSTANTS sdo, pdo

VARIABLE mode

MCRounds == (sdo :> 3) @@ (pdo :> 1)

mcVars == <<vars, mode, redVars>>

MCInit ==
  /\ Init /\ RedInit
  /\ mode = "redundant" \/ (mode = "single" /\ brk = N + 1)
MCNext ==
  \/ mode = "single" /\ Next /\ UNCHANGED <<mode, redVars>>
  \/ mode = "redundant" /\ RedNext /\ UNCHANGED <<mode, vars>>
MCSpec == MCInit /\ [][MCNext]_mcVars
=============================================================================
