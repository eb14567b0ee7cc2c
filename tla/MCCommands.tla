------------------------------ MODULE MCCommands ------------------------------
(***************************************************************************)
(* Instances of what happens to a command on the bus for TLC.  A behaviour *)
(* is one of its data (MCDataPointers) or one of its status (AhcStatus);   *)
(* the other stands still.                                                 *)
(***************************************************************************)
EXTENDS MCDataPointers, AhcStatus

VARIABLE part

dataVars == <<family, vars, ahcVars>>

CommandsInit ==
    /\ FamilyInit /\ StatusInit
    /\ \/ part = "data"
       \/ part = "status" /\ family = "aic7xxx" /\ ahcList = <<4>>

CommandsNext ==
    /\ UNCHANGED part
    /\ \/ part = "data" /\ FamilyNext /\ UNCHANGED statusVars
       \/ part = "status" /\ StatusNext /\ UNCHANGED dataVars

CommandsSpec ==
    /\ CommandsInit
    /\ [][CommandsNext]_<<part, dataVars, statusVars>>
    /\ Fairness
=============================================================================
