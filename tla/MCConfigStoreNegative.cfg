\* The expectation of PersistentNumber_test.cpp:339, which a negative breaks.
CONSTANTS
  BYTE = 4
  numbers <- MCnumbers
  Signed <- MCSigned
  mMin <- MCmMin
  mMax <- MCmMax
  mDefaultValue <- MCDefault
  crc <- MCcrc
  CONFIG_MAGIC = 0
  Found <- MCFound
  Sent <- MCSent
  MaxFailures = 1
SPECIFICATION Spec
PROPERTY NegativeIsRestored
