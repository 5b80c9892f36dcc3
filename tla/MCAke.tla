------------------------------- MODULE MCAke -------------------------------
EXTENDS Ake
CONSTANTS h1, h2, h3, c1, c2, k1, k2
MCHosts == {h1, h2, h3}
MCCertOf == [h \in MCHosts |-> c1]
MCKeyOf == [h \in MCHosts |-> IF h = h3 THEN c2 ELSE c1]
MCAttempts == [h \in MCHosts |-> IF h = h1 THEN 2 ELSE 1]
=============================================================================
