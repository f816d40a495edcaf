\* Three power failures: one may cut the erasure, one a save and one what
\* setup() does about it.
CONSTANTS
  BYTE = 4
  numbers <- MCnumbers
  Signed <- MCSigned
  mMin <- MCmMin
  mMax <- MCmMax
  mDefaultValue <- MCDefault
  crc <- MCcrc
  CONFIG_MAGIC = 0
  Found <- MCFound
  Sent <- MCSent
  MaxFailures = 3
SPECIFICATION FairSpec
INVARIANT TypeOK
PROPERTIES RestartRestores SavedIsRestored StartsUp
