SPECIFICATION AisSpec
INVARIANT AisAttribution
CONSTANTS
  Mmsis = {m1, m2}
  NoMmsi = NoMmsi
  TargetCapacity = 2
  MaxAisMessages = 3
CHECK_DEADLOCK FALSE
