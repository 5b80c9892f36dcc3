SPECIFICATION Spec
CONSTANTS
  h1 = h1
  h2 = h2
  h3 = h3
  c1 = c1
  c2 = c2
  k1 = k1
  k2 = k2
  Hosts <- MCHosts
  HostCerts = {c1, c2}
  CertOf <- MCCertOf
  KeyOf <- MCKeyOf
  TrustedHostCerts = {c1}
  TrustingHosts <- MCHosts
  DataKeys = {k1}
  FirstKwd = k1
  Garbled = Garbled
  Drive = Drive
  None = None
  Exclusive = TRUE
  StatusBackend = TRUE
  MaxAttempts <- MCAttempts
  MaxArms = 1
  MaxFaults = 0
CHECK_DEADLOCK FALSE
PROPERTY OkMeansShared
