\* What AHT20.h:48 says of getMeasurements, which a failed bus breaks.
CONSTANTS
  WORD = 8
  INT_WORD = 5
  UPDATE = 1
  MIN_READ = 2
  FULL = 1048576
  HYSTERESIS <- MCHysteresis
  Measured <- MCMeasured
  MaxLag = 1
SPECIFICATION FairSpec
PROPERTY FailedReadReturns
