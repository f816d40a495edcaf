\* The chip is read every two seconds, sensors are updated every second, a turn
\* may be one late.  millis() rolls over every eight seconds.
CONSTANTS
  WORD = 8
  INT_WORD = 5
  UPDATE = 1
  MIN_READ = 2
  FULL = 1048576
  HYSTERESIS <- MCHysteresis
  Measured <- MCMeasured
  MaxLag = 1
SPECIFICATION FairSpec
INVARIANTS TypeOK ReportsFollowReadings ReadingsAreFresh
PROPERTIES TriggersAreSpaced LoopGoesOn
