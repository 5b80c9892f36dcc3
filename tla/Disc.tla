-------------------------------- MODULE Disc --------------------------------
(***************************************************************************)
(* What a player reads from a disc and its companions.  A KEYDB is scanned *)
(* to its end and a volume opened, looked up in it and decrypted (modules  *)
(* KeyDb and Volume); the usage rules of a CPS unit are saved and read     *)
(* (UsageFile); an Enhanced Title is opened on-line (Online).  In src/ the *)
(* last two share no state with the volume, so a behaviour has one part.   *)
(***************************************************************************)
EXTENDS Volume, UsageFile, Online

VARIABLE part

discVars == <<vars, volumeVars, usageVars, onlineVars, part>>

\* KeyDb::parse returns before its result is looked anything up in.
ScanNext ==
    /\ volume = None /\ mkb_bytes = None /\ Harmed = {}
    /\ Next
    /\ UNCHANGED volumeVars

\* Bound: discs are played with short KEYDBs of nothing but what a lookup sees.
Plain ==
    /\ Len(lines) <= MaxLookupLines
    /\ \A n \in DOMAIN lines :
          lines[n].leader \in {"DISCID", "VUK", "legacy"} /\ lines[n].label = None
    /\ skipped = <<>>

PlayNext ==
    /\ Plain
    /\ VolumeNext
    /\ UNCHANGED vars

DiscInit ==
    /\ part \in {"volume", "usage", "online"}
    /\ Init /\ VolumeInit /\ UsageInit /\ OnlineInit

DiscNext ==
    \/ /\ part = "volume"
       /\ ScanNext \/ PlayNext
       /\ UNCHANGED <<usageVars, onlineVars, part>>
    \/ /\ part = "usage"
       /\ UsageNext
       /\ UNCHANGED <<vars, volumeVars, onlineVars, part>>
    \/ /\ part = "online"
       /\ OnlineNext
       /\ UNCHANGED <<vars, volumeVars, usageVars, part>>

DiscSpec == DiscInit /\ [][DiscNext]_discVars
=============================================================================
