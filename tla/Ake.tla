-------------------------------- MODULE Ake --------------------------------
(***************************************************************************)
(* The AACS drive-host authentication and the session it opens, from       *)
(* src/ake.rs and the authenticating dispatch of MockDrive in src/mmc.rs.  *)
(*                                                                         *)
(* host_authenticate is a straight line of five SCSI commands; each        *)
(* DriveCommand::execute is one atomic step of the drive, and between two  *)
(* of them other hosts with a handle on the same drive may run.  One       *)
(* DriveAuthState serves them all.  A command may be lost on its way, and  *)
(* a reply may be lost on its way back, after the drive acted.             *)
(*                                                                         *)
(* Cryptography is symbolic.  One draw stands for the pair (Hn, Hk) of a   *)
(* host_authenticate call, or (Dn, Dk) of a DriveAuthState; a curve point  *)
(* is the set of secrets the generator was multiplied by, so that          *)
(* Hk*(Dk*G) and Dk*(Hk*G) are the same point; a signature is the pair of  *)
(* its key and its message; a wrapped block is the pair of its key and its *)
(* plaintext.                                                              *)
(***************************************************************************)
EXTENDS Naturals, FiniteSets

CONSTANTS
    Hosts,             \* callers of host_authenticate, each with its handle
    HostCerts,         \* host certificates, each standing for its public key
    CertOf,            \* the certificate of each host's HostCredentials
    KeyOf,             \* the certificate each host's host_priv really matches
    TrustedHostCerts,  \* well-formed and signed by the drive's AACS LA key
    TrustingHosts,     \* hosts whose AACS LA key verifies the drive's cert
    DataKeys,          \* plaintext Write Data Keys
    FirstKwd,          \* the drive's initial Write Data Key
    Garbled,           \* a block unwrapped under the wrong Bus Key
    Drive,             \* the drive's own signing identity
    None,
    Exclusive,         \* a call owns the drive (&mut D) from start to end
    StatusBackend,     \* a refused command comes back as Ok(status 0x02)
    MaxAttempts,       \* bound on the calls of each host
    MaxArms,           \* bound on the DriveAuthState instances
    MaxFaults          \* bound on the lost commands and replies
-----------------------------------------------------------------------------
(* Symbolic cryptography *)

G == {}
Mul(k, P) == P \cup {k}
Sign(key, msg) == [key |-> key, msg |-> msg]
Verifies(pub, sig, msg) == sig = Sign(pub, msg)
Wrap(key, plain) == [key |-> key, plain |-> plain]
Unwrap(key, wire) == IF wire.key = key THEN wire.plain ELSE Garbled
Cmac(key) == [mac |-> key]

\* The draws there can be, and the Bus Keys a handshake can produce from them.
HostDraws == UNION {[by : {h}, n : 1..MaxAttempts[h]] : h \in Hosts}
DriveDraws == [by : {Drive}, n : 1..MaxArms]

BusKey(d, e) == Mul(d, Mul(e, G))
BusKeys == {BusKey(d, e) : d \in HostDraws, e \in DriveDraws}

AkeResult == [bus_key : BusKeys, host_nonce : HostDraws]

ASSUME CredentialsAssumption ==
    /\ CertOf \in [Hosts -> HostCerts]
    /\ KeyOf \in [Hosts -> HostCerts]
    /\ TrustedHostCerts \subseteq HostCerts
    /\ TrustingHosts \subseteq Hosts
ASSUME NamesAssumption ==
    /\ Drive \notin Hosts
    /\ None \notin HostCerts
    /\ None \notin Hosts \cup BusKeys \cup AkeResult
    /\ FirstKwd \in DataKeys
ASSUME BoundsAssumption ==
    /\ MaxAttempts \in [Hosts -> Nat]
    /\ MaxArms \in Nat \ {0} /\ MaxFaults \in Nat
    /\ Exclusive \in BOOLEAN /\ StatusBackend \in BOOLEAN

-----------------------------------------------------------------------------
VARIABLES
    auth,       \* the drive's DriveAuthState
    arms,       \* how many DriveAuthState instances the drive has had
    kwd,        \* the drive's write_data_key
    pc,         \* the command each host's call issues next, or "idle"
    attempt,    \* how many calls each host has made
    heard,      \* what each call has learnt of the drive: Dn and Dv
    result,     \* the AkeResult each host holds, or None
    answer,     \* what the last session command told its caller
    faults      \* lost commands and replies so far

vars == <<auth, arms, kwd, pc, attempt, heard, result, answer, faults>>
-----------------------------------------------------------------------------
(* The drive: DriveAuthState *)

\* DriveAuthState::new: a fresh (Dn, Dk) and nothing of any host.
NewAuth(n) ==
    [draw |-> [by |-> Drive, n |-> n],
     host_nonce |-> None, host_cert |-> None, bus_key |-> None]

\* Faulty variants, for the sensitivity of the properties: the two captures
\* swapped; a new challenge drops the session; the first captured Hn is kept.
ChallengeSwapped(a, hn, cert) ==
    [a EXCEPT !.host_nonce = cert, !.host_cert = hn]
ChallengeDropsSession(a, hn, cert) ==
    [a EXCEPT !.host_nonce = hn, !.host_cert = cert, !.bus_key = None]
ChallengeKeepsFirst(a, hn, cert) ==
    [a EXCEPT !.host_nonce = IF @ = None THEN hn ELSE @, !.host_cert = cert]

\* accept_host_cert_challenge stores Hn and the certificate it verified; the
\* Bus Key of an earlier handshake stays.
AcceptHostCertChallenge(a, hn, cert) ==
    [a EXCEPT !.host_nonce = hn, !.host_cert = cert]

DriveDv(a) == Mul(a.draw, G)

\* drive_key_response: Dsig over the stored Hn.
DriveSig(a) == Sign(Drive, <<a.host_nonce, DriveDv(a)>>)

\* Faulty variants: no signature check; a signature that is not bound to Dn.
HostKeyUnsigned(a, hv, hsig) == a.host_cert # None
HostKeyAnyNonce(a, hv, hsig) ==
    /\ a.host_cert # None
    /\ hsig.key = a.host_cert /\ hsig.msg[2] = hv

\* accept_host_key answers only after a challenge, and only to a signature over
\* its own Dn by the key of the stored certificate.
HostKeyOk(a, hv, hsig) ==
    /\ a.host_cert # None
    /\ Verifies(a.host_cert, hsig, <<a.draw, hv>>)

\* Faulty variant: the key of the first handshake is never replaced.
AcceptOnlyFirstKey(a, hv) ==
    [a EXCEPT !.bus_key = IF @ = None THEN Mul(a.draw, hv) ELSE @]

AcceptHostKey(a, hv) == [a EXCEPT !.bus_key = Mul(a.draw, hv)]
-----------------------------------------------------------------------------
(* The host *)

Steps == <<"agid", "host_cert", "drive_cert", "drive_key", "host_key">>
Active == {Steps[i] : i \in DOMAIN Steps}

\* The (Hn, Hk) of a host's latest call.
Draw(h) == [by |-> h, n |-> attempt[h]]

NothingHeard == [drive_nonce |-> None, dv |-> None]

\* Under Exclusive no other call is in progress while h's runs.
Owns(h) == Exclusive => \A g \in Hosts \ {h} : pc[g] = "idle"

At(h, step) == pc[h] = step /\ Owns(h)

Goto(h, step) == pc' = [pc EXCEPT ![h] = step]

\* Every error ends the call; the AkeResult of an earlier call is the caller's.
Abort(h) == Goto(h, "idle") /\ heard' = [heard EXCEPT ![h] = NothingHeard]

\* The reply is lost after the drive acted: execute returns Err.
ReplyLost(h) ==
    /\ faults < MaxFaults
    /\ faults' = faults + 1
    /\ Abort(h)

\* A SEND KEY's reply reaches the host.  host_authenticate only looks at the
\* Result, never at ScsiResponse.status.
Accepted(ok) == ok \/ StatusBackend

Start(h) ==
    /\ At(h, "idle")
    /\ attempt[h] < MaxAttempts[h]
    /\ attempt' = [attempt EXCEPT ![h] = @ + 1]
    /\ Goto(h, "agid")
    /\ UNCHANGED <<auth, arms, kwd, heard, result, answer, faults>>

AcquireAgid(h) ==
    /\ At(h, "agid")
    /\ Goto(h, "host_cert")
    /\ UNCHANGED <<auth, arms, kwd, attempt, heard, result, answer, faults>>

SendHostCert(h) ==
    /\ At(h, "host_cert")
    /\ LET ok == CertOf[h] \in TrustedHostCerts
       IN  /\ auth' = IF ok THEN AcceptHostCertChallenge(auth, Draw(h), CertOf[h])
                            ELSE auth
           /\ \/ /\ Accepted(ok)
                 /\ Goto(h, "drive_cert")
                 /\ UNCHANGED <<heard, faults>>
              \/ ~Accepted(ok) /\ Abort(h) /\ UNCHANGED faults
              \/ ReplyLost(h)
    /\ UNCHANGED <<arms, kwd, attempt, result, answer>>

GetDriveCert(h) ==
    /\ At(h, "drive_cert")
    /\ IF h \in TrustingHosts
         THEN /\ Goto(h, "drive_key")
              /\ heard' = [heard EXCEPT ![h].drive_nonce = auth.draw]
         ELSE Abort(h)
    /\ UNCHANGED <<auth, arms, kwd, attempt, result, answer, faults>>

\* Without an accepted challenge the drive has no Hn and refuses; a refusal
\* carries no Dv, so it ends the call even on a StatusBackend.
GetDriveKey(h) ==
    /\ At(h, "drive_key")
    /\ IF /\ auth.host_nonce # None
          /\ Verifies(Drive, DriveSig(auth), <<Draw(h), DriveDv(auth)>>)
         THEN /\ Goto(h, "host_key")
              /\ heard' = [heard EXCEPT ![h].dv = DriveDv(auth)]
         ELSE Abort(h)
    /\ UNCHANGED <<auth, arms, kwd, attempt, result, answer, faults>>

\* Faulty variant: Dsig is checked after the Host Key is sent, on what the drive
\* holds by then.
VerifyAfterSending(h) ==
    /\ At(h, "host_key")
    /\ LET hv == Mul(Draw(h), G)
           ok == HostKeyOk(auth, hv, Sign(KeyOf[h], <<heard[h].drive_nonce, hv>>))
       IN  /\ auth' = IF ok THEN AcceptHostKey(auth, hv) ELSE auth
           /\ IF ok /\ Verifies(Drive, DriveSig(auth), <<Draw(h), DriveDv(auth)>>)
                THEN result' = [result EXCEPT ![h] =
                        [bus_key |-> Mul(Draw(h), heard[h].dv),
                         host_nonce |-> Draw(h)]]
                ELSE UNCHANGED result
           /\ Abort(h)
    /\ UNCHANGED <<arms, kwd, attempt, answer, faults>>

SendHostKey(h) ==
    /\ At(h, "host_key")
    /\ LET hv == Mul(Draw(h), G)
           ok == HostKeyOk(auth, hv, Sign(KeyOf[h], <<heard[h].drive_nonce, hv>>))
       IN  /\ auth' = IF ok THEN AcceptHostKey(auth, hv) ELSE auth
           /\ \/ /\ Accepted(ok)
                 /\ result' = [result EXCEPT ![h] =
                        [bus_key |-> Mul(Draw(h), heard[h].dv),
                         host_nonce |-> Draw(h)]]
                 /\ Abort(h)
                 /\ UNCHANGED faults
              \/ ~Accepted(ok) /\ Abort(h) /\ UNCHANGED <<result, faults>>
              \/ ReplyLost(h) /\ UNCHANGED result
    /\ UNCHANGED <<arms, kwd, attempt, answer>>

\* A command, or the reply to one that changes nothing on the drive, is lost.
CommandLost(h) ==
    /\ pc[h] # "idle" /\ Owns(h)
    /\ ReplyLost(h)
    /\ UNCHANGED <<auth, arms, kwd, attempt, result, answer>>
-----------------------------------------------------------------------------
(* The session: commands of a host that holds an AkeResult *)

InSession(h) == At(h, "idle") /\ result[h] # None

Tell(h, what) == answer' = [to |-> h, says |-> what]

\* read_verified_volume_id: without a Bus Key the drive sends its fixture MAC.
ReadVerifiedVolumeId(h) ==
    /\ InSession(h)
    /\ Tell(h, IF Cmac(auth.bus_key) = Cmac(result[h].bus_key)
               THEN "verified" ELSE "mac_invalid")
    /\ UNCHANGED <<auth, arms, kwd, pc, attempt, heard, result, faults>>

\* READ DISC STRUCTURE 0x84 and DataKeysResponse::decrypt_write_data_key.
ReadDataKeys(h) ==
    /\ InSession(h)
    /\ auth.bus_key # None
    /\ Tell(h, Unwrap(result[h].bus_key, Wrap(auth.bus_key, kwd)))
    /\ UNCHANGED <<auth, arms, kwd, pc, attempt, heard, result, faults>>

\* SEND DISC STRUCTURE 0x84: the drive unwraps under the Bus Key it has now.
SendWriteDataKey(h, k) ==
    /\ InSession(h)
    /\ auth.bus_key # None
    /\ kwd' = Unwrap(auth.bus_key, Wrap(result[h].bus_key, k))
    /\ UNCHANGED <<auth, arms, pc, attempt, heard, result, answer, faults>>
-----------------------------------------------------------------------------

\* The drive is given a new DriveAuthState, as after a power cycle.
Arm ==
    /\ arms < MaxArms
    /\ Exclusive => \A h \in Hosts : pc[h] = "idle"
    /\ arms' = arms + 1
    /\ auth' = NewAuth(arms + 1)
    /\ UNCHANGED <<kwd, pc, attempt, heard, result, answer, faults>>

Init ==
    /\ arms = 1
    /\ auth = NewAuth(1)
    /\ kwd = FirstKwd
    /\ pc = [h \in Hosts |-> "idle"]
    /\ attempt = [h \in Hosts |-> 0]
    /\ heard = [h \in Hosts |-> NothingHeard]
    /\ result = [h \in Hosts |-> None]
    /\ answer = [to |-> None, says |-> None]
    /\ faults = 0

Handshake(h) ==
    \/ AcquireAgid(h)
    \/ SendHostCert(h)
    \/ GetDriveCert(h)
    \/ GetDriveKey(h)
    \/ SendHostKey(h)

Session(h) ==
    \/ ReadVerifiedVolumeId(h)
    \/ ReadDataKeys(h)
    \/ \E k \in DataKeys : SendWriteDataKey(h, k)

Next ==
    \/ Arm
    \/ \E h \in Hosts :
          Start(h) \/ Handshake(h) \/ CommandLost(h) \/ Session(h)

Spec == Init /\ [][Next]_vars

\* A call that has begun keeps issuing its commands.  Nothing makes a caller
\* begin one, lose a message or re-arm the drive.
FairSpec == Spec /\ \A h \in Hosts : WF_vars(Handshake(h))
-----------------------------------------------------------------------------
(* What holds of it *)

TypeOK ==
    /\ auth \in [draw : DriveDraws, host_nonce : HostDraws \cup {None},
                 host_cert : HostCerts \cup {None}, bus_key : BusKeys \cup {None}]
    /\ arms \in 1..MaxArms
    /\ kwd \in DataKeys \cup {Garbled}
    /\ pc \in [Hosts -> Active \cup {"idle"}]
    /\ attempt \in [Hosts -> Nat]
    /\ \A h \in Hosts : attempt[h] <= MaxAttempts[h]
    /\ heard \in [Hosts -> [drive_nonce : DriveDraws \cup {None},
                            dv : {Mul(e, G) : e \in DriveDraws} \cup {None}]]
    /\ result \in [Hosts -> AkeResult \cup {None}]
    /\ answer \in [to : Hosts \cup {None},
                   says : {"verified", "mac_invalid", Garbled, None} \cup DataKeys]
    /\ faults \in Nat

\* Both sides were authenticated before the drive keyed itself: a Bus Key in
\* the drive was made with this instance's own Dk, for a call of a host that
\* had verified the drive certificate and that signed with the private key of
\* a certificate the drive trusts.  Whatever the other hosts did in between
\* (a challenge of theirs replaces the stored Hn and certificate) cannot break
\* this.
MutualAuthentication ==
    auth.bus_key # None =>
        \E h \in TrustingHosts :
            /\ KeyOf[h] \in TrustedHostCerts
            /\ \E n \in 1..attempt[h] :
                  auth.bus_key = BusKey([by |-> h, n |-> n], auth.draw)

\* The call after which the drive adopted a key returned that key to its
\* caller, or the reply was lost: everything on the host's side that can fail
\* comes before the last command, so a drive is never keyed for nobody.
OnlyLossesOrphanKeys ==
    \A h \in Hosts : \A n \in 1..attempt[h] :
        (faults = 0 /\ auth.bus_key = BusKey([by |-> h, n |-> n], auth.draw)) =>
            result[h] # None /\ result[h].host_nonce.n >= n

\* A refused or abandoned handshake leaves no session without a key: as long as
\* the drive keeps the DriveAuthState a host's AkeResult was made with, the
\* drive is keyed, with that host's key or with one it accepted later.
SessionSurvives ==
    \A h \in Hosts :
        (result[h] # None /\ auth.draw \in result[h].bus_key) =>
            auth.bus_key # None

\* host_authenticate "returns the shared Bus Key ... on success": in the step
\* in which a call hands out an AkeResult the drive holds the same Bus Key.
OkMeansShared ==
    [][\A h \in Hosts :
          result'[h] # result[h] => result'[h].bus_key = auth'.bus_key]_vars

\* The whole of it: every step is one of BusKeySession's, or changes nothing
\* that BusKeySession talks of.
Promise == INSTANCE BusKeySession WITH
    Keys <- BusKeys,
    current <- auth.bus_key,
    held <- [h \in Hosts |-> IF result[h] = None THEN None ELSE result[h].bus_key]
ImplementsBusKeySession == Promise!Spec

\* A call that begins with the drive to itself, good credentials on both sides
\* and no further loss returns an AkeResult, whatever earlier calls, lost
\* replies and other hosts left behind in the drive.
UndisturbedCallSucceeds ==
    \A h \in TrustingHosts :
        (CertOf[h] \in TrustedHostCerts /\ KeyOf[h] = CertOf[h]) =>
            ((pc[h] = "agid" /\ faults = MaxFaults) ~>
                (result[h] # None /\ result[h].host_nonce = Draw(h)))
=============================================================================
