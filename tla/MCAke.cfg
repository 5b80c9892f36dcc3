SPECIFICATION Spec
CONSTANTS
  h1 = h1
  h2 = h2
  h3 = h3
  c1 = c1
  c2 = c2
  k1 = k1
  k2 = k2
  Hosts <- MCHosts
  HostCerts = {c1, c2}
  CertOf <- MCCertOf
  KeyOf <- MCKeyOf
  TrustedHostCerts = {c1}
  TrustingHosts <- MCHosts
  DataKeys = {k1, k2}
  FirstKwd = k1
  Garbled = Garbled
  Drive = Drive
  None = None
  Exclusive = FALSE
  StatusBackend = FALSE
  MaxAttempts <- MCAttempts
  MaxArms = 2
  MaxFaults = 1
CHECK_DEADLOCK FALSE
INVARIANT TypeOK
INVARIANT MutualAuthentication
INVARIANT OnlyLossesOrphanKeys
INVARIANT SessionSurvives
PROPERTY OkMeansShared
PROPERTY ImplementsBusKeySession
