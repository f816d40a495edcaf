\* The last minute before millis() rolls over is not a whole one: 17 % 3 # 0, as
\* 2^32 % 60000 # 0.  A transmission takes less than a minute.
CONSTANTS
  N = 2
  MINUTE = 3
  Item <- MCItem
  Zero = 0
  WORD = 17
  FULL = 10
  LIMIT = 6
  PPM_MAX = 15
  MaxTx = 1
  MaxClock = 20
SPECIFICATION Spec
INVARIANT AssertsHold
