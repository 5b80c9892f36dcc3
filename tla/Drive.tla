------------------------------- MODULE Drive -------------------------------
(***************************************************************************)
(* The drive of src/mmc.rs but for the handshake (module Ake): its table   *)
(* of Bus-Encryption Sector Extents (BusExtents), its commands and the     *)
(* CPRM Media Key Block (Commands), its features (Features).  In src/ they *)
(* share no state but the drive's Bus Key, so a behaviour has one part.    *)
(***************************************************************************)
EXTENDS BusExtents, Commands, Features

VARIABLE part

driveVars == <<vars, commandVars, featureVars, part>>

DriveInit ==
    /\ part \in {"extents", "commands", "cprm", "features"}
    /\ Init /\ CommandsInit /\ FeaturesInit
    \* The other parts of a behaviour are not told apart.
    /\ part # "extents" => capacity = (CHOOSE c \in Capacities : TRUE)
                           /\ maximum = (CHOOSE m \in Maxima : TRUE)
    /\ part \notin {"commands", "cprm"} => auth = Static
    /\ part # "cprm" => mkb_len = (CHOOSE n \in MkbLens : TRUE)

DriveNext ==
    \/ /\ part = "extents"
       /\ Next
       /\ UNCHANGED <<commandVars, featureVars, part>>
    \/ /\ part = "commands"
       /\ CommandsNext
       /\ UNCHANGED <<vars, featureVars, part>>
    \/ /\ part = "cprm"
       /\ CprmNext
       /\ UNCHANGED <<vars, featureVars, part>>
    \/ /\ part = "features"
       /\ FeaturesNext
       /\ UNCHANGED <<vars, commandVars, part>>

DriveSpec == DriveInit /\ [][DriveNext]_driveVars
=============================================================================
