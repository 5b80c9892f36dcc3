SPECIFICATION Spec
CONSTANTS
  W = 4
  Cases <- MCCases
  Devices <- MCDevices
  Km = Km
  Kmp = Kmp
  Kcd = Kcd
  Garbled = Garbled
  None = None
CHECK_DEADLOCK FALSE
INVARIANT RevokedExactlyWhenExcluded
INVARIANT OnlyTheRightKeyOpens
INVARIANT OneKeyOpens
