----------------------------- MODULE AkeProofs -----------------------------
(***************************************************************************)
(* Proofs about module Ake, for every set of hosts, every distribution of  *)
(* certificates and keys among them and every bound.                       *)
(*                                                                         *)
(* The inductive invariant adds to TypeOK what the hosts' positions say    *)
(* about what they have learnt.  SendHostKey is the step that needs it: it *)
(* uses Dn and Dv, which two earlier commands fetched from a drive that    *)
(* may have been re-armed since.                                           *)
(*                                                                         *)
(* From it follow the safety properties, and that Ake implements           *)
(* BusKeySession: every step is one of the session's or changes nothing    *)
(* the session talks of.  The one thing to show there beyond OkMeansShared *)
(* is that a key is new when the drive adopts it.                          *)
(***************************************************************************)
EXTENDS Ake, TLAPS

\* The drive's draw is that of its latest DriveAuthState, and the certificate
\* it holds is one it verified.
DriveInv ==
    /\ auth.draw = [by |-> Drive, n |-> arms]
    /\ auth.host_cert # None => auth.host_cert \in TrustedHostCerts

\* A call in progress has been counted, and past the certificate check its host
\* trusts the drive.
ProgressInv ==
    \A h \in Hosts :
        /\ pc[h] # "idle" => attempt[h] >= 1
        /\ pc[h] \in {"drive_key", "host_key"} => h \in TrustingHosts

\* Dn comes from a DriveAuthState that exists or existed, and Dv is not older
\* than Dn: if Dn is still the drive's, so is Dv.
HeardInv ==
    \A h \in Hosts :
        /\ pc[h] \in {"drive_key", "host_key"} =>
              heard[h].drive_nonce \in DriveDraws /\ heard[h].drive_nonce.n <= arms
        /\ pc[h] = "host_key" =>
              /\ \E e \in DriveDraws : e.n <= arms /\ heard[h].dv = Mul(e, G)
              /\ heard[h].drive_nonce = auth.draw => heard[h].dv = Mul(auth.draw, G)

IInv == TypeOK /\ DriveInv /\ ProgressInv /\ HeardInv
-----------------------------------------------------------------------------
(* Lemmas *)

\* The two sides compute one key: Hk*(Dk*G) = Dk*(Hk*G), and both are what
\* BusKey names.
LEMMA SharedPoint ==
    ASSUME NEW d, NEW e
    PROVE  /\ Mul(d, Mul(e, G)) = Mul(e, Mul(d, G))
           /\ BusKey(d, e) = Mul(d, Mul(e, G))
BY DEF Mul, G, BusKey

\* The draw of a host that has made a call is one of HostDraws.
LEMMA DrawType ==
    ASSUME TypeOK, NEW h \in Hosts, attempt[h] >= 1
    PROVE  Draw(h) \in HostDraws
<1>1. attempt[h] \in 1..MaxAttempts[h]
  BY BoundsAssumption DEF TypeOK
<1>2. Draw(h) \in [by : {h}, n : 1..MaxAttempts[h]]
  BY <1>1 DEF Draw
<1>. QED BY <1>2 DEF HostDraws

LEMMA InitIInv == Init => IInv
<1>. SUFFICES ASSUME Init PROVE IInv
  OBVIOUS
<1>. USE DEF Init, NewAuth, NothingHeard
<1>1. TypeOK
  BY BoundsAssumption, NamesAssumption DEF TypeOK, DriveDraws
<1>2. DriveInv /\ ProgressInv /\ HeardInv
  BY DEF DriveInv, ProgressInv, HeardInv
<1>. QED BY <1>1, <1>2 DEF IInv

\* The session commands and stuttering touch nothing the invariant is about but
\* the types of kwd and answer.
LEMMA SessionKeepsIInv ==
    ASSUME IInv, NEW h \in Hosts, Session(h)
    PROVE  IInv'
<1>. USE DEF IInv, InSession, Tell
<1>1. UNCHANGED <<auth, arms, pc, attempt, heard, result, faults>>
  BY DEF Session, ReadVerifiedVolumeId, ReadDataKeys, SendWriteDataKey
<1>2. kwd' \in DataKeys \cup {Garbled}
  BY DEF Session, ReadVerifiedVolumeId, ReadDataKeys, SendWriteDataKey,
         TypeOK, Unwrap, Wrap
<1>3. answer' \in [to : Hosts \cup {None},
                   says : {"verified", "mac_invalid", Garbled, None} \cup DataKeys]
  BY DEF Session, ReadVerifiedVolumeId, ReadDataKeys, SendWriteDataKey,
         TypeOK, Unwrap, Wrap
<1>4. TypeOK'
  BY <1>1, <1>2, <1>3 DEF TypeOK
<1>5. DriveInv' /\ ProgressInv' /\ HeardInv'
  BY <1>1 DEF DriveInv, ProgressInv, HeardInv
<1>. QED BY <1>4, <1>5

\* An aborted call leaves its host idle, about which nothing is claimed.
LEMMA AbortKeepsHosts ==
    ASSUME IInv, NEW h \in Hosts, Abort(h),
           auth.draw = auth'.draw, UNCHANGED <<arms, attempt>>
    PROVE  /\ ProgressInv' /\ HeardInv'
           /\ pc' \in [Hosts -> Active \cup {"idle"}]
           /\ heard' \in [Hosts -> [drive_nonce : DriveDraws \cup {None},
                                    dv : {Mul(e, G) : e \in DriveDraws} \cup {None}]]
<1>. USE DEF IInv, Abort, Goto, NothingHeard
<1>1. /\ pc' \in [Hosts -> Active \cup {"idle"}]
      /\ heard' \in [Hosts -> [drive_nonce : DriveDraws \cup {None},
                               dv : {Mul(e, G) : e \in DriveDraws} \cup {None}]]
  BY DEF TypeOK
<1>2. \A g \in Hosts \ {h} : pc'[g] = pc[g] /\ heard'[g] = heard[g]
  BY DEF TypeOK
<1>3. pc'[h] = "idle"
  BY DEF TypeOK
<1>4. ProgressInv'
  BY <1>2, <1>3 DEF ProgressInv
<1>5. HeardInv'
  BY <1>2, <1>3 DEF HeardInv
<1>. QED BY <1>1, <1>4, <1>5
-----------------------------------------------------------------------------
(* The inductive invariant, one lemma per step of the protocol *)

LEMMA StartKeepsIInv ==
    ASSUME IInv, NEW h \in Hosts, Start(h)
    PROVE  IInv'
<1>. USE DEF IInv, Start, At, Goto
<1>0. \A g \in Hosts : attempt'[g] = IF g = h THEN attempt[g] + 1 ELSE attempt[g]
  BY DEF TypeOK
<1>1. attempt' \in [Hosts -> Nat] /\ \A g \in Hosts : attempt'[g] <= MaxAttempts[g]
  <2>1. attempt' \in [Hosts -> Nat]
    BY DEF TypeOK
  <2>2. attempt[h] \in Nat /\ MaxAttempts[h] \in Nat /\ attempt[h] < MaxAttempts[h]
    BY BoundsAssumption DEF TypeOK
  <2>3. \A g \in Hosts : attempt'[g] <= MaxAttempts[g]
    BY <1>0, <2>2 DEF TypeOK
  <2>. QED BY <2>1, <2>3
<1>2. pc' \in [Hosts -> Active \cup {"idle"}]
  BY DEF TypeOK, Active, Steps
<1>3. TypeOK'
  BY <1>1, <1>2 DEF TypeOK
<1>4. DriveInv'
  BY DEF DriveInv
<1>5. \A g \in Hosts : /\ g # h => pc'[g] = pc[g] /\ attempt'[g] = attempt[g]
                       /\ g = h => pc'[g] = "agid" /\ attempt'[g] >= 1
  BY DEF TypeOK
<1>6. ProgressInv'
  BY <1>5 DEF ProgressInv
<1>7. HeardInv'
  BY <1>5 DEF HeardInv
<1>. QED BY <1>3, <1>4, <1>6, <1>7

LEMMA AcquireAgidKeepsIInv ==
    ASSUME IInv, NEW h \in Hosts, AcquireAgid(h)
    PROVE  IInv'
<1>. USE DEF IInv, AcquireAgid, At, Goto
<1>1. TypeOK'
  BY DEF TypeOK, Active, Steps
<1>2. \A g \in Hosts : pc'[g] = IF g = h THEN "host_cert" ELSE pc[g]
  BY DEF TypeOK
<1>3. DriveInv' /\ ProgressInv' /\ HeardInv'
  BY <1>2 DEF DriveInv, ProgressInv, HeardInv
<1>. QED BY <1>1, <1>3

LEMMA SendHostCertKeepsIInv ==
    ASSUME IInv, NEW h \in Hosts, SendHostCert(h)
    PROVE  IInv'
<1>. USE DEF IInv
<1>1. Draw(h) \in HostDraws
  BY DrawType DEF SendHostCert, At, ProgressInv
<1>2. /\ auth'.draw = auth.draw
      /\ auth' \in [draw : DriveDraws, host_nonce : HostDraws \cup {None},
                    host_cert : HostCerts \cup {None}, bus_key : BusKeys \cup {None}]
      /\ auth'.host_cert # None => auth'.host_cert \in TrustedHostCerts
  BY <1>1, CredentialsAssumption
     DEF SendHostCert, AcceptHostCertChallenge, TypeOK, DriveInv
<1>3. UNCHANGED <<arms, kwd, attempt, result, answer>>
  BY DEF SendHostCert
<1>4. DriveInv'
  BY <1>2, <1>3 DEF DriveInv
<1>5. faults' \in Nat
  BY DEF SendHostCert, ReplyLost, TypeOK
<1>6. CASE Abort(h)
  <2>1. /\ ProgressInv' /\ HeardInv'
        /\ pc' \in [Hosts -> Active \cup {"idle"}]
        /\ heard' \in [Hosts -> [drive_nonce : DriveDraws \cup {None},
                                 dv : {Mul(e, G) : e \in DriveDraws} \cup {None}]]
    BY <1>2, <1>3, <1>6, AbortKeepsHosts
  <2>2. TypeOK'
    BY <2>1, <1>2, <1>3, <1>5 DEF TypeOK
  <2>. QED BY <2>1, <2>2, <1>4
<1>7. CASE Goto(h, "drive_cert") /\ UNCHANGED heard
  <2>1. TypeOK'
    BY <1>2, <1>3, <1>5, <1>7 DEF TypeOK, Goto, Active, Steps
  <2>2. \A g \in Hosts : pc'[g] = IF g = h THEN "drive_cert" ELSE pc[g]
    BY <1>7 DEF TypeOK, Goto
  <2>3. attempt[h] >= 1
    BY DEF SendHostCert, At, ProgressInv
  <2>4. ProgressInv' /\ HeardInv'
    BY <2>2, <2>3, <1>2, <1>3, <1>7 DEF ProgressInv, HeardInv
  <2>. QED BY <2>1, <2>4, <1>4
<1>. QED BY <1>6, <1>7 DEF SendHostCert, ReplyLost

LEMMA GetDriveCertKeepsIInv ==
    ASSUME IInv, NEW h \in Hosts, GetDriveCert(h)
    PROVE  IInv'
<1>. USE DEF IInv
<1>1. UNCHANGED <<auth, arms, kwd, attempt, result, answer, faults>>
  BY DEF GetDriveCert
<1>2. DriveInv'
  BY <1>1 DEF DriveInv
<1>3. CASE Abort(h)
  BY <1>1, <1>2, <1>3, AbortKeepsHosts DEF TypeOK
<1>4. CASE /\ h \in TrustingHosts
           /\ Goto(h, "drive_key")
           /\ heard' = [heard EXCEPT ![h].drive_nonce = auth.draw]
  <2>1. TypeOK'
    BY <1>1, <1>4 DEF TypeOK, Goto, Active, Steps
  <2>2. \A g \in Hosts \ {h} : pc'[g] = pc[g] /\ heard'[g] = heard[g]
    BY <1>4 DEF TypeOK, Goto
  <2>3. pc'[h] = "drive_key" /\ heard'[h].drive_nonce = auth.draw
    BY <1>4 DEF TypeOK, Goto
  <2>4. ProgressInv'
    BY <1>1, <1>4, <2>2, <2>3 DEF ProgressInv, GetDriveCert, At
  <2>5. auth.draw \in DriveDraws /\ auth.draw.n <= arms
    BY DEF TypeOK, DriveInv
  <2>6. HeardInv'
    BY <1>1, <2>2, <2>3, <2>5 DEF HeardInv
  <2>. QED BY <1>2, <2>1, <2>4, <2>6
<1>. QED BY <1>3, <1>4 DEF GetDriveCert

LEMMA GetDriveKeyKeepsIInv ==
    ASSUME IInv, NEW h \in Hosts, GetDriveKey(h)
    PROVE  IInv'
<1>. USE DEF IInv
<1>1. UNCHANGED <<auth, arms, kwd, attempt, result, answer, faults>>
  BY DEF GetDriveKey
<1>2. DriveInv'
  BY <1>1 DEF DriveInv
<1>3. CASE Abort(h)
  BY <1>1, <1>2, <1>3, AbortKeepsHosts DEF TypeOK
<1>4. CASE /\ Goto(h, "host_key")
           /\ heard' = [heard EXCEPT ![h].dv = DriveDv(auth)]
  <2>1. /\ DriveDv(auth) = Mul(auth.draw, G)
        /\ auth.draw \in DriveDraws /\ auth.draw.n <= arms
    BY DEF DriveDv, TypeOK, DriveInv
  <2>2. TypeOK'
    BY <1>1, <1>4, <2>1 DEF TypeOK, Goto, Active, Steps
  <2>3. \A g \in Hosts \ {h} : pc'[g] = pc[g] /\ heard'[g] = heard[g]
    BY <1>4 DEF TypeOK, Goto
  <2>4. /\ pc'[h] = "host_key"
        /\ heard'[h].dv = Mul(auth.draw, G)
        /\ heard'[h].drive_nonce = heard[h].drive_nonce
    BY <1>4, <2>1 DEF TypeOK, Goto
  <2>5. pc[h] = "drive_key"
    BY DEF GetDriveKey, At
  <2>6. ProgressInv'
    BY <1>1, <2>3, <2>4, <2>5 DEF ProgressInv
  <2>7. HeardInv'
    BY <1>1, <2>1, <2>3, <2>4, <2>5 DEF HeardInv
  <2>. QED BY <1>2, <2>2, <2>6, <2>7
<1>. QED BY <1>3, <1>4 DEF GetDriveKey

\* What the drive computes when it accepts a Host Key, and what the host puts in
\* its AkeResult.
LEMMA HostKeyFacts ==
    ASSUME IInv, NEW h \in Hosts, SendHostKey(h)
    PROVE  /\ Draw(h) \in HostDraws
           /\ UNCHANGED <<arms, kwd, attempt, answer>>
           /\ auth'.draw = auth.draw /\ auth'.host_cert = auth.host_cert
           /\ auth'.host_nonce = auth.host_nonce
           /\ \/ auth' = auth
              \/ /\ auth'.bus_key = BusKey(Draw(h), auth.draw)
                 /\ KeyOf[h] \in TrustedHostCerts
                 /\ h \in TrustingHosts
<1>. USE DEF IInv
<1>. DEFINE hv == Mul(Draw(h), G)
            sig == Sign(KeyOf[h], <<heard[h].drive_nonce, hv>>)
<1>1. pc[h] = "host_key" /\ attempt[h] >= 1 /\ h \in TrustingHosts
  BY DEF SendHostKey, At, ProgressInv
<1>2. Draw(h) \in HostDraws
  BY <1>1, DrawType
<1>3. UNCHANGED <<arms, kwd, attempt, answer>>
  BY DEF SendHostKey
<1>4. auth' = IF HostKeyOk(auth, hv, sig) THEN AcceptHostKey(auth, hv) ELSE auth
  BY DEF SendHostKey
<1>5. ASSUME HostKeyOk(auth, hv, sig)
      PROVE  KeyOf[h] \in TrustedHostCerts
  <2>1. auth.host_cert # None /\ KeyOf[h] = auth.host_cert
    BY <1>5 DEF HostKeyOk, Verifies, Sign
  <2>. QED BY <2>1 DEF DriveInv
<1>6. /\ AcceptHostKey(auth, hv).bus_key = BusKey(Draw(h), auth.draw)
      /\ AcceptHostKey(auth, hv).draw = auth.draw
      /\ AcceptHostKey(auth, hv).host_cert = auth.host_cert
      /\ AcceptHostKey(auth, hv).host_nonce = auth.host_nonce
  BY SharedPoint DEF AcceptHostKey, TypeOK
<1>. QED BY <1>1, <1>2, <1>3, <1>4, <1>5, <1>6

LEMMA SendHostKeyKeepsIInv ==
    ASSUME IInv, NEW h \in Hosts, SendHostKey(h)
    PROVE  IInv'
<1>. USE DEF IInv
<1>1. /\ auth'.draw = auth.draw /\ auth'.host_cert = auth.host_cert
      /\ UNCHANGED <<arms, kwd, attempt, answer>>
      /\ Draw(h) \in HostDraws
  BY HostKeyFacts
<1>2. auth.draw \in DriveDraws
  BY DEF TypeOK
<1>3. BusKey(Draw(h), auth.draw) \in BusKeys
  BY <1>1, <1>2 DEF BusKeys
<1>4. Mul(auth.draw, Mul(Draw(h), G)) \in BusKeys
  BY <1>3, SharedPoint
<1>5. auth' \in [draw : DriveDraws, host_nonce : HostDraws \cup {None},
                 host_cert : HostCerts \cup {None}, bus_key : BusKeys \cup {None}]
  BY <1>4 DEF SendHostKey, AcceptHostKey, TypeOK
<1>6. Abort(h)
  BY DEF SendHostKey, ReplyLost
<1>7. faults' \in Nat
  BY DEF SendHostKey, ReplyLost, TypeOK
<1>8. result' \in [Hosts -> AkeResult \cup {None}]
  <2>1. PICK e \in DriveDraws : heard[h].dv = Mul(e, G)
    BY DEF SendHostKey, At, HeardInv
  <2>2. Mul(Draw(h), heard[h].dv) \in BusKeys
    BY <1>1, <2>1, SharedPoint DEF BusKeys
  <2>3. \/ UNCHANGED result
        \/ result' = [result EXCEPT ![h] = [bus_key |-> Mul(Draw(h), heard[h].dv),
                                            host_nonce |-> Draw(h)]]
    BY DEF SendHostKey
  <2>. QED BY <1>1, <2>2, <2>3 DEF TypeOK, AkeResult
<1>9. /\ ProgressInv' /\ HeardInv'
      /\ pc' \in [Hosts -> Active \cup {"idle"}]
      /\ heard' \in [Hosts -> [drive_nonce : DriveDraws \cup {None},
                               dv : {Mul(e, G) : e \in DriveDraws} \cup {None}]]
  BY <1>1, <1>6, AbortKeepsHosts
<1>10. TypeOK'
  BY <1>1, <1>5, <1>7, <1>8, <1>9 DEF TypeOK
<1>11. DriveInv'
  BY <1>1 DEF DriveInv
<1>. QED BY <1>9, <1>10, <1>11

LEMMA CommandLostKeepsIInv ==
    ASSUME IInv, NEW h \in Hosts, CommandLost(h)
    PROVE  IInv'
<1>. USE DEF IInv
<1>1. UNCHANGED <<auth, arms, kwd, attempt, result, answer>> /\ Abort(h) /\ faults' \in Nat
  BY DEF CommandLost, ReplyLost, TypeOK
<1>2. /\ ProgressInv' /\ HeardInv'
      /\ pc' \in [Hosts -> Active \cup {"idle"}]
      /\ heard' \in [Hosts -> [drive_nonce : DriveDraws \cup {None},
                               dv : {Mul(e, G) : e \in DriveDraws} \cup {None}]]
  BY <1>1, AbortKeepsHosts
<1>. QED BY <1>1, <1>2 DEF TypeOK, DriveInv

\* A re-armed drive has a draw no host has heard of.
LEMMA ArmKeepsIInv ==
    ASSUME IInv, Arm
    PROVE  IInv'
<1>. USE DEF IInv, NewAuth
<1>1. /\ arms \in 1..MaxArms /\ arms' \in 1..MaxArms
      /\ arms' = arms + 1
      /\ UNCHANGED <<kwd, pc, attempt, heard, result, answer, faults>>
  BY BoundsAssumption DEF Arm, TypeOK
<1>2. /\ auth' = NewAuth(arms')
      /\ auth'.draw = [by |-> Drive, n |-> arms']
      /\ auth'.host_cert = None
      /\ auth'.draw \in DriveDraws
  BY <1>1 DEF Arm, DriveDraws
<1>3. TypeOK'
  BY <1>1, <1>2 DEF TypeOK
<1>4. DriveInv' /\ ProgressInv'
  BY <1>1, <1>2 DEF DriveInv, ProgressInv
<1>5. \A h \in Hosts : pc[h] \in {"drive_key", "host_key"} =>
          heard[h].drive_nonce # auth'.draw /\ heard[h].drive_nonce.n <= arms'
  <2>1. TAKE h \in Hosts
  <2>2. HAVE pc[h] \in {"drive_key", "host_key"}
  <2>3. heard[h].drive_nonce \in DriveDraws /\ heard[h].drive_nonce.n <= arms
    BY <2>2 DEF HeardInv
  <2>4. heard[h].drive_nonce.n \in Nat
    BY <2>3 DEF DriveDraws
  <2>. QED BY <1>1, <1>2, <2>3, <2>4
<1>6. \A h \in Hosts : pc[h] = "host_key" =>
          \E e \in DriveDraws : e.n <= arms' /\ heard[h].dv = Mul(e, G)
  <2>1. \A e \in DriveDraws : e.n \in Nat
    BY DEF DriveDraws
  <2>. QED BY <1>1, <2>1 DEF HeardInv
<1>7. HeardInv'
  BY <1>1, <1>5, <1>6 DEF HeardInv
<1>. QED BY <1>3, <1>4, <1>7

LEMMA StepIInv == IInv /\ [Next]_vars => IInv'
<1>. SUFFICES ASSUME IInv, [Next]_vars PROVE IInv'
  OBVIOUS
<1>1. CASE Arm
  BY <1>1, ArmKeepsIInv
<1>2. ASSUME NEW h \in Hosts, Start(h) \/ CommandLost(h) \/ Session(h)
      PROVE  IInv'
  BY <1>2, StartKeepsIInv, CommandLostKeepsIInv, SessionKeepsIInv
<1>3. ASSUME NEW h \in Hosts, Handshake(h)
      PROVE  IInv'
  BY <1>3, AcquireAgidKeepsIInv, SendHostCertKeepsIInv, GetDriveCertKeepsIInv,
     GetDriveKeyKeepsIInv, SendHostKeyKeepsIInv DEF Handshake
<1>4. CASE UNCHANGED vars
  BY <1>4 DEF vars, IInv, TypeOK, DriveInv, ProgressInv, HeardInv
<1>. QED BY <1>1, <1>2, <1>3, <1>4 DEF Next

\* The inductive invariant holds in every reachable state.
THEOREM Invariance == Spec => []IInv
BY InitIInv, StepIInv, PTL DEF Spec

\* Every variable of the handshake keeps its type: in particular a Bus Key is
\* always the product of one host draw and one drive draw.
THEOREM TypeCorrect == Spec => []TypeOK
<1>1. IInv => TypeOK
  BY DEF IInv
<1>. QED BY <1>1, Invariance, PTL
-----------------------------------------------------------------------------
(* Lemmas on what each kind of step leaves alone *)

\* The steps that neither key the drive nor hand out a result.
Quiet == UNCHANGED <<auth.draw, auth.bus_key, arms, result>>

LEMMA StepKinds ==
    ASSUME IInv, [Next]_vars
    PROVE  \/ Arm
           \/ \E h \in Hosts : SendHostKey(h)
           \/ \E h \in Hosts : Start(h)
           \/ Quiet /\ UNCHANGED attempt /\ faults' >= faults
<1>. USE DEF Quiet
<1>0. faults \in Nat /\ faults + 1 >= faults
  BY DEF IInv, TypeOK
<1>1. CASE UNCHANGED vars
  BY <1>0, <1>1 DEF vars
<1>2. ASSUME NEW h \in Hosts, SendHostCert(h)
      PROVE  Quiet /\ UNCHANGED attempt /\ faults' >= faults
  BY <1>0, <1>2 DEF SendHostCert, AcceptHostCertChallenge, ReplyLost, IInv, TypeOK
<1>3. ASSUME NEW h \in Hosts,
             AcquireAgid(h) \/ GetDriveCert(h) \/ GetDriveKey(h) \/ CommandLost(h)
      PROVE  Quiet /\ UNCHANGED attempt /\ faults' >= faults
  BY <1>0, <1>3 DEF AcquireAgid, GetDriveCert, GetDriveKey, CommandLost, ReplyLost
<1>4. ASSUME NEW h \in Hosts, Session(h)
      PROVE  Quiet /\ UNCHANGED attempt /\ faults' >= faults
  BY <1>0, <1>4 DEF Session, ReadVerifiedVolumeId, ReadDataKeys, SendWriteDataKey
<1>. QED BY <1>1, <1>2, <1>3, <1>4 DEF Next, Handshake

\* Two Bus Keys of one drive draw are the same only if the host draws are.
LEMMA KeysDiffer ==
    ASSUME NEW d \in HostDraws, NEW c \in HostDraws, NEW e \in DriveDraws,
           BusKey(d, e) = BusKey(c, e)
    PROVE  d = c
<1>1. d.by \in Hosts /\ c.by \in Hosts /\ e.by = Drive
  BY DEF HostDraws, DriveDraws
<1>2. d # e /\ c # e
  BY <1>1, NamesAssumption
<1>3. d \in BusKey(c, e) /\ c \in BusKey(d, e)
  BY DEF BusKey, Mul, G
<1>. QED BY <1>2, <1>3 DEF BusKey, Mul, G

\* A call that was counted drew a member of HostDraws.
LEMMA DrawOfCall ==
    ASSUME TypeOK, NEW h \in Hosts, NEW n \in 1..attempt[h]
    PROVE  [by |-> h, n |-> n] \in HostDraws
<1>1. n \in 1..MaxAttempts[h]
  BY BoundsAssumption DEF TypeOK
<1>2. [by |-> h, n |-> n] \in [by : {h}, n : 1..MaxAttempts[h]]
  BY <1>1
<1>. QED BY <1>2 DEF HostDraws
-----------------------------------------------------------------------------
(* Mutual authentication *)

LEMMA StepMutualAuthentication ==
    IInv /\ MutualAuthentication /\ [Next]_vars => MutualAuthentication'
<1>. SUFFICES ASSUME IInv, MutualAuthentication, [Next]_vars
              PROVE  MutualAuthentication'
  OBVIOUS
<1>1. CASE Arm
  BY <1>1 DEF Arm, NewAuth, MutualAuthentication
<1>2. ASSUME NEW h \in Hosts, SendHostKey(h)
      PROVE  MutualAuthentication'
  <2>1. CASE auth' = auth
    BY <1>2, <2>1, HostKeyFacts DEF MutualAuthentication
  <2>2. CASE /\ auth'.bus_key = BusKey(Draw(h), auth.draw)
             /\ KeyOf[h] \in TrustedHostCerts
             /\ h \in TrustingHosts
    <3>1. attempt' = attempt /\ auth'.draw = auth.draw
      BY <1>2, HostKeyFacts
    <3>2. attempt[h] \in 1..attempt[h]
      BY <1>2 DEF SendHostKey, At, IInv, TypeOK, ProgressInv
    <3>3. auth'.bus_key = BusKey([by |-> h, n |-> attempt[h]], auth'.draw)
      BY <2>2, <3>1 DEF Draw
    <3>. QED BY <2>2, <3>1, <3>2, <3>3 DEF MutualAuthentication
  <2>. QED BY <1>2, <2>1, <2>2, HostKeyFacts
<1>3. ASSUME NEW h \in Hosts, Start(h)
      PROVE  MutualAuthentication'
  <2>1. auth' = auth /\ \A g \in Hosts : 1..attempt[g] \subseteq 1..attempt'[g]
    BY <1>3 DEF Start, IInv, TypeOK
  <2>. QED BY <2>1, CredentialsAssumption DEF MutualAuthentication
<1>4. CASE Quiet /\ UNCHANGED attempt
  BY <1>4 DEF Quiet, MutualAuthentication
<1>. QED BY <1>1, <1>2, <1>3, <1>4, StepKinds

\* A keyed drive was keyed by a call of a host that verified the drive's
\* certificate and that owns the private key of a trusted one.
THEOREM MutuallyAuthenticated == Spec => []MutualAuthentication
<1>1. Init => MutualAuthentication
  BY DEF Init, NewAuth, MutualAuthentication
<1>. QED BY <1>1, StepMutualAuthentication, Invariance, PTL DEF Spec
-----------------------------------------------------------------------------
(* A result is handed out in the step in which the drive adopts its key *)

LEMMA ResultIsShared ==
    ASSUME IInv, ~StatusBackend, [Next]_vars, NEW g \in Hosts, result'[g] # result[g]
    PROVE  /\ result'[g].bus_key = auth'.bus_key
           /\ \E h \in Hosts : SendHostKey(h)
<1>1. PICK h \in Hosts : SendHostKey(h)
  BY StepKinds DEF Arm, Start, Quiet
<1>. DEFINE hv == Mul(Draw(h), G)
            ok == HostKeyOk(auth, hv, Sign(KeyOf[h], <<heard[h].drive_nonce, hv>>))
<1>2. /\ ok
      /\ result' = [result EXCEPT ![h] =
             [bus_key |-> Mul(Draw(h), heard[h].dv), host_nonce |-> Draw(h)]]
  BY <1>1 DEF SendHostKey, Accepted
<1>3. auth' = AcceptHostKey(auth, hv)
  BY <1>1, <1>2 DEF SendHostKey
<1>4. g = h
  BY <1>2 DEF IInv, TypeOK
<1>5. heard[h].drive_nonce = auth.draw
  BY <1>2 DEF HostKeyOk, Verifies, Sign
<1>6. heard[h].dv = Mul(auth.draw, G)
  BY <1>1, <1>5 DEF IInv, HeardInv, SendHostKey, At
<1>7. result'[h].bus_key = Mul(Draw(h), Mul(auth.draw, G))
  BY <1>2, <1>6 DEF IInv, TypeOK
<1>8. auth'.bus_key = Mul(auth.draw, hv)
  BY <1>3 DEF AcceptHostKey, IInv, TypeOK
<1>. QED BY <1>1, <1>4, <1>7, <1>8, SharedPoint

\* host_authenticate returns the key the drive has just adopted.  This is where
\* the transport must report a refusal as an error.
THEOREM SharedOnSuccess == ASSUME ~StatusBackend PROVE Spec => OkMeansShared
<1>1. IInv /\ [Next]_vars =>
          [\A h \in Hosts :
              result'[h] # result[h] => result'[h].bus_key = auth'.bus_key]_vars
  BY ResultIsShared
<1>. QED BY <1>1, Invariance, PTL DEF Spec, OkMeansShared
-----------------------------------------------------------------------------
(* Sessions outlive refused handshakes *)

\* The key in an AkeResult is of a DriveAuthState the drive has had.
ResultInv ==
    \A h \in Hosts : result[h] # None =>
        \E d \in HostDraws, e \in DriveDraws :
            e.n <= arms /\ result[h].bus_key = BusKey(d, e)

LEMMA StepResultInv == IInv /\ ResultInv /\ [Next]_vars => ResultInv'
<1>. SUFFICES ASSUME IInv, ResultInv, [Next]_vars PROVE ResultInv'
  OBVIOUS
<1>0. \A e \in DriveDraws : e.n \in Nat
  BY DEF DriveDraws
<1>1. CASE arms' >= arms /\ arms \in Nat /\ arms' \in Nat /\ result' = result
  BY <1>0, <1>1 DEF ResultInv
<1>2. ASSUME NEW h \in Hosts, SendHostKey(h)
      PROVE  ResultInv'
  <2>1. PICK e \in DriveDraws : e.n <= arms /\ heard[h].dv = Mul(e, G)
    BY <1>2 DEF IInv, HeardInv, SendHostKey, At
  <2>2. Draw(h) \in HostDraws /\ arms' = arms
    BY <1>2, HostKeyFacts
  <2>3. \/ result' = result
        \/ result' = [result EXCEPT ![h] = [bus_key |-> BusKey(Draw(h), e),
                                            host_nonce |-> Draw(h)]]
    BY <1>2, <2>1 DEF SendHostKey, BusKey
  <2>. QED BY <2>1, <2>2, <2>3 DEF ResultInv, IInv, TypeOK
<1>3. arms \in Nat
  BY DEF IInv, TypeOK
<1>. QED BY <1>1, <1>2, <1>3, StepKinds DEF Arm, Start, Quiet

\* None is no Bus Key.
LEMMA KeyIsSome ==
    ASSUME NEW d \in HostDraws, NEW e \in DriveDraws
    PROVE  BusKey(d, e) # None
BY NamesAssumption DEF BusKeys

LEMMA StepSessionSurvives ==
    ASSUME ~StatusBackend, IInv, ResultInv, SessionSurvives, [Next]_vars
    PROVE  SessionSurvives'
<1>1. CASE Arm
  <2>1. result' = result /\ auth'.draw = [by |-> Drive, n |-> arms + 1]
    BY <1>1 DEF Arm, NewAuth
  <2>2. ASSUME NEW h \in Hosts, result[h] # None
        PROVE  auth'.draw \notin result[h].bus_key
    <3>1. PICK d \in HostDraws, e \in DriveDraws :
              e.n <= arms /\ result[h].bus_key = BusKey(d, e)
      BY <2>2 DEF ResultInv
    <3>2. d.by # Drive /\ e.n # arms + 1
      BY <3>1, NamesAssumption DEF HostDraws, DriveDraws, IInv, TypeOK
    <3>3. auth'.draw # d /\ auth'.draw # e
      BY <2>1, <3>2
    <3>. QED BY <3>1, <3>3 DEF BusKey, Mul, G
  <2>. QED BY <2>1, <2>2 DEF SessionSurvives
<1>2. ASSUME NEW h \in Hosts, SendHostKey(h)
      PROVE  SessionSurvives'
  <2>. DEFINE hv == Mul(Draw(h), G)
              ok == HostKeyOk(auth, hv, Sign(KeyOf[h], <<heard[h].drive_nonce, hv>>))
  <2>1. CASE ok
    <3>1. auth'.bus_key = Mul(auth.draw, hv)
      BY <1>2, <2>1 DEF SendHostKey, AcceptHostKey, IInv, TypeOK
    <3>2. Draw(h) \in HostDraws /\ auth.draw \in DriveDraws
      BY <1>2, HostKeyFacts DEF IInv, TypeOK
    <3>3. auth'.bus_key # None
      BY <3>1, <3>2, SharedPoint, KeyIsSome
    <3>. QED BY <3>3 DEF SessionSurvives
  <2>2. CASE ~ok
    <3>1. auth' = auth /\ result' = result
      BY <1>2, <2>2 DEF SendHostKey, Accepted
    <3>. QED BY <3>1 DEF SessionSurvives
  <2>. QED BY <2>1, <2>2
<1>3. CASE UNCHANGED <<auth.draw, auth.bus_key, result>>
  BY <1>3 DEF SessionSurvives
<1>. QED BY <1>1, <1>2, <1>3, StepKinds DEF Start, Quiet

\* A host's session is never left with an unkeyed drive by other handshakes,
\* refused or abandoned; only a new DriveAuthState ends it.
THEOREM SessionsSurvive == ASSUME ~StatusBackend PROVE Spec => []SessionSurvives
<1>1. Init => ResultInv /\ SessionSurvives
  BY DEF Init, ResultInv, SessionSurvives
<1>2. IInv /\ (ResultInv /\ SessionSurvives) /\ [Next]_vars
        => (ResultInv /\ SessionSurvives)'
  BY StepResultInv, StepSessionSurvives
<1>. QED BY <1>1, <1>2, Invariance, PTL DEF Spec
-----------------------------------------------------------------------------
(* Only a lost message leaves the drive keyed for nobody *)

LEMMA StepOnlyLosses ==
    ASSUME IInv, MutualAuthentication, OnlyLossesOrphanKeys, [Next]_vars
    PROVE  OnlyLossesOrphanKeys'
<1>. USE DEF OnlyLossesOrphanKeys
<1>0. faults \in Nat /\ faults' \in Nat
  BY StepIInv DEF IInv, TypeOK
<1>1. SUFFICES ASSUME NEW g \in Hosts, NEW n \in 1..attempt'[g], faults' = 0,
                      auth'.bus_key = BusKey([by |-> g, n |-> n], auth'.draw)
               PROVE  result'[g] # None /\ result'[g].host_nonce.n >= n
  OBVIOUS
<1>2. TypeOK'
  BY StepIInv DEF IInv
<1>3. [by |-> g, n |-> n] \in HostDraws /\ auth'.draw \in DriveDraws
  <2>1. n \in 1..MaxAttempts[g]
    BY <1>2, BoundsAssumption DEF TypeOK
  <2>2. [by |-> g, n |-> n] \in [by : {g}, n : 1..MaxAttempts[g]]
    BY <2>1
  <2>. QED BY <1>2, <2>2 DEF HostDraws, TypeOK
<1>4. CASE Arm
  <2>1. auth'.bus_key = None
    BY <1>4 DEF Arm, NewAuth
  <2>. QED BY <1>1, <1>3, <2>1, KeyIsSome
<1>5. ASSUME NEW h \in Hosts, SendHostKey(h)
      PROVE  result'[g] # None /\ result'[g].host_nonce.n >= n
  <2>. DEFINE hv == Mul(Draw(h), G)
              ok == HostKeyOk(auth, hv, Sign(KeyOf[h], <<heard[h].drive_nonce, hv>>))
              mine == [bus_key |-> Mul(Draw(h), heard[h].dv), host_nonce |-> Draw(h)]
  <2>1. Draw(h) \in HostDraws /\ auth'.draw = auth.draw /\ UNCHANGED attempt
    BY <1>5, HostKeyFacts
  <2>2. \/ Accepted(ok) /\ result' = [result EXCEPT ![h] = mine] /\ faults' = faults
        \/ ~Accepted(ok) /\ result' = result /\ faults' = faults
    BY <1>0, <1>1, <1>5 DEF SendHostKey, ReplyLost
  <2>3. mine # None
    <3>1. PICK e \in DriveDraws : heard[h].dv = Mul(e, G)
      BY <1>5 DEF SendHostKey, At, IInv, HeardInv
    <3>2. mine.bus_key \in BusKeys
      BY <2>1, <3>1 DEF BusKeys, BusKey
    <3>3. mine \in AkeResult
      BY <2>1, <3>2 DEF AkeResult
    <3>. QED BY <3>3, NamesAssumption
  <2>4. CASE ok
    <3>1. auth'.bus_key = BusKey(Draw(h), auth'.draw)
      BY <1>5, <2>1, <2>4, SharedPoint DEF SendHostKey, AcceptHostKey, IInv, TypeOK
    <3>2. Draw(h) = [by |-> g, n |-> n]
      BY <1>1, <1>3, <2>1, <3>1, KeysDiffer
    <3>3. h = g /\ mine.host_nonce.n = n
      BY <3>2 DEF Draw
    <3>4. result'[g] = mine
      BY <2>2, <2>4, <3>3 DEF Accepted, IInv, TypeOK
    <3>. QED BY <2>3, <3>3, <3>4
  <2>5. CASE ~ok
    <3>1. auth' = auth
      BY <1>5, <2>5 DEF SendHostKey
    <3>2. result[g] # None /\ result[g].host_nonce.n >= n
      BY <1>1, <2>1, <2>2, <3>1
    <3>3. CASE result'[g] = result[g]
      BY <3>2, <3>3
    <3>4. CASE g = h /\ result'[g] = mine
      BY <1>1, <2>1, <2>3, <3>4 DEF Draw
    <3>. QED BY <2>2, <3>3, <3>4 DEF IInv, TypeOK
  <2>. QED BY <2>4, <2>5
<1>6. ASSUME NEW h \in Hosts, Start(h)
      PROVE  result'[g] # None /\ result'[g].host_nonce.n >= n
  <2>1. auth' = auth /\ result' = result /\ faults' = faults
    BY <1>6 DEF Start
  <2>2. PICK k \in TrustingHosts : \E m \in 1..attempt[k] :
            auth.bus_key = BusKey([by |-> k, n |-> m], auth.draw)
    BY <1>1, <1>3, <2>1, KeyIsSome DEF MutualAuthentication
  <2>3. PICK m \in 1..attempt[k] : auth.bus_key = BusKey([by |-> k, n |-> m], auth.draw)
    BY <2>2
  <2>4. k \in Hosts
    BY CredentialsAssumption
  <2>5. [by |-> k, n |-> m] \in HostDraws
    BY <2>4, DrawOfCall DEF IInv
  <2>6. [by |-> k, n |-> m] = [by |-> g, n |-> n]
    BY <1>1, <1>3, <2>1, <2>3, <2>5, KeysDiffer
  <2>7. k = g /\ m = n
    BY <2>6
  <2>. QED BY <1>1, <2>1, <2>3, <2>7
<1>7. CASE Quiet /\ UNCHANGED attempt /\ faults' >= faults
  <2>1. faults = 0
    BY <1>0, <1>1, <1>7
  <2>. QED BY <1>1, <1>7, <2>1 DEF Quiet
<1>. QED BY <1>4, <1>5, <1>6, <1>7, StepKinds

\* While nothing was lost, the call that keyed the drive has returned that
\* session to its caller.
THEOREM LossesOrphanKeys == Spec => []OnlyLossesOrphanKeys
<1>1. Init => OnlyLossesOrphanKeys
  BY DEF Init, OnlyLossesOrphanKeys
<1>2. IInv /\ MutualAuthentication /\ OnlyLossesOrphanKeys /\ [Next]_vars
        => OnlyLossesOrphanKeys'
  BY StepOnlyLosses
<1>. QED BY <1>1, <1>2, Invariance, MutuallyAuthenticated, PTL DEF Spec
-----------------------------------------------------------------------------
(* The refinement of BusKeySession *)

\* A draw that went into a key some party holds.
Used(d) ==
    \/ auth.bus_key # None /\ d \in auth.bus_key
    \/ \E g \in Hosts : result[g] # None /\ d \in result[g].bus_key

\* The keys around were made by calls that were counted and are over.
UsedInv ==
    \A h \in Hosts : \A n \in Nat :
        Used([by |-> h, n |-> n]) =>
            n <= attempt[h] /\ (pc[h] # "idle" => n # attempt[h])

\* Only Start begins a call.
LEMMA OnlyStartBegins ==
    ASSUME IInv, NEW h \in Hosts,
           SendHostKey(h) \/ Arm \/ CommandLost(h) \/ Session(h) \/ UNCHANGED vars
           \/ AcquireAgid(h) \/ SendHostCert(h) \/ GetDriveCert(h) \/ GetDriveKey(h)
    PROVE  /\ attempt' = attempt
           /\ \A g \in Hosts : pc'[g] # "idle" => pc[g] # "idle"
<1>1. \/ pc' = pc
      \/ /\ pc[h] # "idle"
         /\ \E step \in Active \cup {"idle"} : Goto(h, step)
  BY DEF SendHostKey, Arm, CommandLost, Session, ReadVerifiedVolumeId, ReadDataKeys,
         SendWriteDataKey, vars, AcquireAgid, SendHostCert, GetDriveCert, GetDriveKey,
         ReplyLost, Abort, At, Active, Steps
<1>2. attempt' = attempt
  BY DEF SendHostKey, Arm, CommandLost, Session, ReadVerifiedVolumeId, ReadDataKeys,
         SendWriteDataKey, vars, AcquireAgid, SendHostCert, GetDriveCert, GetDriveKey
<1>. QED BY <1>1, <1>2 DEF Goto, IInv, TypeOK

LEMMA StepUsedInv ==
    ASSUME IInv, ResultInv, UsedInv, [Next]_vars
    PROVE  UsedInv'
<1>0. \A g \in Hosts : attempt[g] \in Nat
  BY DEF IInv, TypeOK
<1>1. ASSUME NEW h \in Hosts, Start(h)
      PROVE  UsedInv'
  <2>1. auth' = auth /\ result' = result
    BY <1>1 DEF Start
  <2>2. \A g \in Hosts : /\ g # h => attempt'[g] = attempt[g] /\ pc'[g] = pc[g]
                         /\ g = h => attempt'[g] = attempt[g] + 1
    BY <1>1 DEF Start, Goto, IInv, TypeOK
  <2>. QED BY <1>0, <2>1, <2>2 DEF UsedInv, Used
<1>2. ASSUME NEW h \in Hosts, SendHostKey(h)
      PROVE  UsedInv'
  <2>1. PICK e \in DriveDraws : heard[h].dv = Mul(e, G)
    BY <1>2 DEF SendHostKey, At, IInv, HeardInv
  <2>2. /\ attempt' = attempt
        /\ \A g \in Hosts : pc'[g] # "idle" => pc[g] # "idle"
        /\ pc'[h] = "idle"
    BY <1>2, OnlyStartBegins DEF SendHostKey, ReplyLost, Abort, Goto, IInv, TypeOK
  <2>3. \/ auth'.bus_key = auth.bus_key
        \/ auth'.bus_key = BusKey(Draw(h), auth.draw)
    BY <1>2, HostKeyFacts
  <2>4. \A g \in Hosts : \/ result'[g] = result[g]
                         \/ g = h /\ result'[g].bus_key = BusKey(Draw(h), e)
    BY <1>2, <2>1 DEF SendHostKey, BusKey, IInv, TypeOK
  <2>5. ASSUME NEW g \in Hosts, NEW n \in Nat, NEW f \in DriveDraws,
               [by |-> g, n |-> n] \in BusKey(Draw(h), f)
        PROVE  g = h /\ n = attempt[h]
    <3>1. [by |-> g, n |-> n] = Draw(h) \/ [by |-> g, n |-> n] = f
      BY <2>5 DEF BusKey, Mul, G
    <3>2. [by |-> g, n |-> n] # f
      BY NamesAssumption DEF DriveDraws
    <3>. QED BY <3>1, <3>2 DEF Draw
  <2>6. ASSUME NEW g \in Hosts, NEW n \in Nat, Used([by |-> g, n |-> n])'
        PROVE  Used([by |-> g, n |-> n]) \/ (g = h /\ n = attempt[h])
    <3>1. auth.draw \in DriveDraws
      BY DEF IInv, TypeOK
    <3>. QED BY <2>3, <2>4, <2>5, <2>6, <3>1 DEF Used
  <2>. QED BY <1>0, <2>2, <2>6 DEF UsedInv
<1>3. ASSUME NEW h \in Hosts, /\ attempt' = attempt
                              /\ \A g \in Hosts : pc'[g] # "idle" => pc[g] # "idle"
                              /\ auth'.bus_key \in {auth.bus_key, None}
                              /\ result' = result
      PROVE  UsedInv'
  BY <1>3 DEF UsedInv, Used
<1>4. CASE Arm
  <2>1. \A g \in Hosts : pc'[g] # "idle" => pc[g] # "idle"
    BY <1>4 DEF Arm
  <2>2. attempt' = attempt /\ auth'.bus_key = None /\ result' = result
    BY <1>4 DEF Arm, NewAuth
  <2>. QED BY <2>1, <2>2 DEF UsedInv, Used
<1>5. CASE UNCHANGED vars
  BY <1>5 DEF vars, UsedInv, Used
<1>6. ASSUME NEW h \in Hosts,
             \/ CommandLost(h) \/ Session(h)
             \/ AcquireAgid(h) \/ SendHostCert(h) \/ GetDriveCert(h) \/ GetDriveKey(h)
      PROVE  UsedInv'
  <2>1. auth'.bus_key = auth.bus_key /\ result' = result
    BY <1>6 DEF CommandLost, Session, ReadVerifiedVolumeId, ReadDataKeys, SendWriteDataKey,
       AcquireAgid, SendHostCert, AcceptHostCertChallenge, GetDriveCert, GetDriveKey,
       IInv, TypeOK
  <2>. QED BY <1>3, <1>6, <2>1, OnlyStartBegins
<1>. QED BY <1>1, <1>2, <1>4, <1>5, <1>6 DEF Next, Handshake
-----------------------------------------------------------------------------
(* Step simulation *)

Held == [h \in Hosts |-> IF result[h] = None THEN None ELSE result[h].bus_key]

\* What a host is said to hold is None or the key of its AkeResult.
LEMMA HeldType ==
    ASSUME TypeOK, NEW h \in Hosts
    PROVE  /\ Held[h] # None <=> result[h] # None
           /\ result[h] # None => Held[h] = result[h].bus_key /\ Held[h] \in BusKeys
BY NamesAssumption DEF TypeOK, Held, AkeResult

\* While a call runs, nobody holds a key made with its draw.
LEMMA FreshKey ==
    ASSUME IInv, UsedInv, NEW h \in Hosts, pc[h] # "idle"
    PROVE  Promise!Unheld(BusKey(Draw(h), auth.draw))
<1>. DEFINE k == BusKey(Draw(h), auth.draw)
<1>1. Draw(h) \in HostDraws /\ auth.draw \in DriveDraws
  BY DrawType DEF IInv, TypeOK, ProgressInv
<1>2. k # None /\ Draw(h) \in k
  BY <1>1, KeyIsSome DEF BusKey, Mul, G
<1>3. ~Used(Draw(h))
  BY DEF UsedInv, Draw, IInv, TypeOK
<1>4. k # auth.bus_key
  BY <1>2, <1>3 DEF Used
<1>5. \A g \in Hosts : Held[g] # k
  BY <1>2, <1>3 DEF Used, Held
<1>. QED BY <1>4, <1>5 DEF Promise!Unheld, Held

\* The last command either establishes a session, orphans a key or does nothing.
LEMMA SendHostKeyRefines ==
    ASSUME ~StatusBackend, IInv, UsedInv, NEW h \in Hosts, SendHostKey(h)
    PROVE  [Promise!Next]_Promise!vars
<1>. DEFINE hv == Mul(Draw(h), G)
            ok == HostKeyOk(auth, hv, Sign(KeyOf[h], <<heard[h].drive_nonce, hv>>))
            k == BusKey(Draw(h), auth.draw)
            mine == [bus_key |-> Mul(Draw(h), heard[h].dv), host_nonce |-> Draw(h)]
<1>1. kwd' = kwd /\ answer' = answer
  BY DEF SendHostKey
<1>2. CASE ~ok
  <2>1. auth' = auth /\ result' = result
    BY <1>2 DEF SendHostKey, Accepted
  <2>. QED BY <1>1, <2>1 DEF Promise!vars
<1>3. CASE ok
  <2>1. k \in BusKeys /\ Promise!Unheld(k)
    <3>1. Draw(h) \in HostDraws /\ auth.draw \in DriveDraws
      BY HostKeyFacts DEF IInv, TypeOK
    <3>. QED BY <3>1, FreshKey DEF BusKeys, SendHostKey, At
  <2>2. auth'.bus_key = k
    BY <1>3, SharedPoint DEF SendHostKey, AcceptHostKey, IInv, TypeOK
  <2>3. CASE result' = result
    <3>1. Promise!Orphan(k)
      BY <1>1, <2>1, <2>2, <2>3 DEF Promise!Orphan
    <3>. QED BY <2>1, <3>1 DEF Promise!Next
  <2>4. CASE result' = [result EXCEPT ![h] = mine]
    <3>1. heard[h].drive_nonce = auth.draw
      BY <1>3 DEF HostKeyOk, Verifies, Sign
    <3>2. heard[h].dv = Mul(auth.draw, G)
      BY <3>1 DEF IInv, HeardInv, SendHostKey, At
    <3>3. mine.bus_key = k
      BY <3>2 DEF BusKey
    <3>4. mine # None
      <4>1. mine \in AkeResult
        BY <2>1, <3>3, HostKeyFacts DEF AkeResult
      <4>. QED BY <4>1, NamesAssumption
    <3>5. \A g \in Hosts : result'[g] = IF g = h THEN mine ELSE result[g]
      BY <2>4 DEF IInv, TypeOK
    <3>6. Held' = [Held EXCEPT ![h] = k]
      BY <3>3, <3>4, <3>5 DEF Held
    <3>7. PICK j \in BusKeys : j = k
      BY <2>1
    <3>8. Promise!Establish(h, j)
      BY <1>1, <2>1, <2>2, <3>6, <3>7 DEF Promise!Establish, Held
    <3>. QED BY <3>8 DEF Promise!Next
  <2>. QED BY <2>3, <2>4 DEF SendHostKey
<1>. QED BY <1>2, <1>3

\* The session commands are the session's own.
LEMMA SessionRefines ==
    ASSUME IInv, NEW h \in Hosts, Session(h)
    PROVE  Promise!Next
<1>1. /\ auth' = auth /\ result' = result
      /\ result[h] # None /\ Held[h] # None
      /\ result[h].bus_key = Held[h]
  BY HeldType DEF Session, ReadVerifiedVolumeId, ReadDataKeys, SendWriteDataKey,
     InSession, IInv
<1>2. Promise!InSession(h) <=> result[h].bus_key = auth.bus_key
  BY <1>1 DEF Promise!InSession, Held
<1>3. CASE ReadVerifiedVolumeId(h)
  <2>1. Cmac(auth.bus_key) = Cmac(result[h].bus_key) <=> Promise!InSession(h)
    BY <1>2 DEF Cmac
  <2>2. Promise!CheckVolumeId(h)
    BY <1>1, <1>3, <2>1 DEF ReadVerifiedVolumeId, Tell, Promise!CheckVolumeId, Held
  <2>. QED BY <2>2 DEF Promise!Next
<1>4. CASE ReadDataKeys(h)
  <2>1. Promise!FetchKwd(h)
    BY <1>1, <1>2, <1>4 DEF ReadDataKeys, Tell, Wrap, Unwrap, Promise!FetchKwd, Held
  <2>. QED BY <2>1 DEF Promise!Next
<1>5. ASSUME NEW k \in DataKeys, SendWriteDataKey(h, k)
      PROVE  Promise!Next
  <2>1. Promise!StoreKwd(h, k)
    BY <1>1, <1>2, <1>5 DEF SendWriteDataKey, Wrap, Unwrap, Promise!StoreKwd, Held
  <2>. QED BY <2>1 DEF Promise!Next
<1>. QED BY <1>3, <1>4, <1>5 DEF Session

LEMMA StepRefines ==
    ASSUME ~StatusBackend, IInv, UsedInv, [Next]_vars
    PROVE  [Promise!Next]_Promise!vars
<1>1. CASE Arm
  <2>1. Promise!Forget
    BY <1>1 DEF Arm, NewAuth, Promise!Forget
  <2>. QED BY <2>1 DEF Promise!Next
<1>2. CASE UNCHANGED vars
  BY <1>2 DEF vars, Promise!vars
<1>3. ASSUME NEW h \in Hosts,
             \/ Start(h) \/ CommandLost(h)
             \/ AcquireAgid(h) \/ SendHostCert(h) \/ GetDriveCert(h) \/ GetDriveKey(h)
      PROVE  UNCHANGED Promise!vars
  <2>1. auth'.bus_key = auth.bus_key
    BY <1>3 DEF Start, CommandLost, AcquireAgid, SendHostCert, AcceptHostCertChallenge,
       GetDriveCert, GetDriveKey, IInv, TypeOK
  <2>2. result' = result /\ kwd' = kwd /\ answer' = answer
    BY <1>3 DEF Start, CommandLost, AcquireAgid, SendHostCert, GetDriveCert, GetDriveKey
  <2>. QED BY <2>1, <2>2 DEF Promise!vars
<1>4. ASSUME NEW h \in Hosts, SendHostKey(h) \/ Session(h)
      PROVE  [Promise!Next]_Promise!vars
  BY <1>4, SendHostKeyRefines, SessionRefines
<1>. QED BY <1>1, <1>2, <1>3, <1>4 DEF Next, Handshake

\* Over a transport that reports refusals as errors, the five-command handshake
\* with its shared drive state, lost messages and re-arming does exactly what
\* BusKeySession promises.
THEOREM Implements == ASSUME ~StatusBackend PROVE Spec => ImplementsBusKeySession
<1>1. Init => Promise!Init
  BY DEF Init, NewAuth, Promise!Init, Promise!NoAnswer
<1>2. Init => ResultInv /\ UsedInv
  BY DEF Init, NewAuth, ResultInv, UsedInv, Used
<1>3. IInv /\ (ResultInv /\ UsedInv) /\ [Next]_vars => (ResultInv /\ UsedInv)'
  BY StepResultInv, StepUsedInv
<1>4. IInv /\ (ResultInv /\ UsedInv) /\ [Next]_vars => [Promise!Next]_Promise!vars
  BY StepRefines
<1>. QED
  BY <1>1, <1>2, <1>3, <1>4, Invariance, PTL
     DEF Spec, ImplementsBusKeySession, Promise!Spec
=============================================================================
