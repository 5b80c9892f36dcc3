----------------------------- MODULE MCAkeLive -----------------------------
(* One host of each kind: good credentials, an untrusted certificate, a    *)
(* private key that is not the certificate's, and an AACS LA key that does *)
(* not verify the drive.                                                   *)
EXTENDS Ake
CONSTANTS good, unknown, mismatched, wary, c1, c2, k1
MCHosts == {good, unknown, mismatched, wary}
MCCertOf == [h \in MCHosts |-> IF h = unknown THEN c2 ELSE c1]
MCKeyOf == [h \in MCHosts |-> IF h \in {unknown, mismatched} THEN c2 ELSE c1]
MCAttempts == [h \in MCHosts |-> IF h = good THEN 3 ELSE 1]
MCTrusting == MCHosts \ {wary}
=============================================================================
