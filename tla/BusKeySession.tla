--------------------------- MODULE BusKeySession ---------------------------
(***************************************************************************)
(* What the drive-host authentication promises the rest of the crate, with *)
(* no messages, certificates or handshake steps: a drive holds at most one *)
(* Bus Key, a host is handed a Bus Key only in the very step in which the  *)
(* drive adopts that key, and what the two exchange afterwards comes out   *)
(* right exactly while both still hold the same key.  Module Ake is shown  *)
(* to implement this specification.                                        *)
(***************************************************************************)
CONSTANTS
    Hosts,       \* callers that may hold a session with the drive
    Keys,        \* Bus Keys
    DataKeys,    \* plaintext Write Data Keys
    FirstKwd,    \* the Write Data Key the drive starts with
    Garbled,     \* a block unwrapped under the wrong Bus Key
    None

VARIABLES
    current,     \* the drive's Bus Key, or None
    held,        \* the Bus Key each host was handed last, or None
    kwd,         \* the drive's plaintext Write Data Key
    answer       \* what the last session command told its caller

vars == <<current, held, kwd, answer>>

Verdict == {"verified", "mac_invalid"}

NoAnswer == [to |-> None, says |-> None]

TypeOK ==
    /\ current \in Keys \cup {None}
    /\ held \in [Hosts -> Keys \cup {None}]
    /\ kwd \in DataKeys \cup {Garbled}
    /\ answer \in [to : Hosts \cup {None},
                   says : Verdict \cup DataKeys \cup {Garbled, None}]

Init ==
    /\ current = None
    /\ held = [h \in Hosts |-> None]
    /\ kwd = FirstKwd
    /\ answer = NoAnswer

\* A key no party holds at the moment.
Unheld(k) == k # current /\ \A h \in Hosts : held[h] # k

\* A handshake ends well on both sides: one key, handed to both at once.
Establish(h, k) ==
    /\ Unheld(k)
    /\ current' = k
    /\ held' = [held EXCEPT ![h] = k]
    /\ UNCHANGED <<kwd, answer>>

\* The drive accepts the host's key and its reply is lost: the drive moves to
\* a key that no host was handed.
Orphan(k) ==
    /\ Unheld(k)
    /\ current' = k
    /\ UNCHANGED <<held, kwd, answer>>

\* The drive starts afresh; the hosts are not told.
Forget == current' = None /\ UNCHANGED <<held, kwd, answer>>

InSession(h) == held[h] = current

\* A host verifies the Volume ID's MAC under the key it holds.
CheckVolumeId(h) ==
    /\ held[h] # None
    /\ answer' = [to |-> h,
                  says |-> IF InSession(h) THEN "verified" ELSE "mac_invalid"]
    /\ UNCHANGED <<current, held, kwd>>

\* A host reads the Write Data Key and unwraps it under the key it holds.
FetchKwd(h) ==
    /\ held[h] # None /\ current # None
    /\ answer' = [to |-> h, says |-> IF InSession(h) THEN kwd ELSE Garbled]
    /\ UNCHANGED <<current, held, kwd>>

\* A host replaces the Write Data Key, wrapped under the key it holds.
StoreKwd(h, k) ==
    /\ held[h] # None /\ current # None
    /\ kwd' = IF InSession(h) THEN k ELSE Garbled
    /\ UNCHANGED <<current, held, answer>>

Next ==
    \/ \E k \in Keys : Orphan(k) \/ \E h \in Hosts : Establish(h, k)
    \/ Forget
    \/ \E h \in Hosts :
          \/ CheckVolumeId(h)
          \/ FetchKwd(h)
          \/ \E k \in DataKeys : StoreKwd(h, k)

Spec == Init /\ [][Next]_vars
=============================================================================
