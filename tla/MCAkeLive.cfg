SPECIFICATION FairSpec
CONSTANTS
  good = good
  unknown = unknown
  mismatched = mismatched
  wary = wary
  c1 = c1
  c2 = c2
  k1 = k1
  Hosts <- MCHosts
  HostCerts = {c1, c2}
  CertOf <- MCCertOf
  KeyOf <- MCKeyOf
  TrustedHostCerts = {c1}
  TrustingHosts <- MCTrusting
  DataKeys = {k1}
  FirstKwd = k1
  Garbled = Garbled
  Drive = Drive
  None = None
  Exclusive = TRUE
  StatusBackend = FALSE
  MaxAttempts <- MCAttempts
  MaxArms = 2
  MaxFaults = 2
CHECK_DEADLOCK FALSE
PROPERTY UndisturbedCallSucceeds
