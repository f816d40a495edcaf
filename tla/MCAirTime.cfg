\* An hour of four minutes of two ms.  millis() rolls over after 13 ms, in the
\* middle of a minute (13 % 2 # 0, as 2^32 % 60000 # 0), and the clock runs on for
\* more than an hour: minutes are no longer aligned then, and silences of an hour
\* occur after traffic on both sides.  A message of 3 ms spans up to three
\* minutes; the limit is reached at 2 ms on air, PPM_MAX at 5.
CONSTANTS
  N = 4
  MINUTE = 2
  Item <- MCItem
  Zero = 0
  WORD = 13
  FULL = 8
  LIMIT = 2
  PPM_MAX = 5
  MaxTx = 3
  MaxClock = 22
SPECIFICATION FairSpec
INVARIANTS TypeOK AssertsHold AccountingExact DutyCycle
PROPERTIES LimiterSpec UpdateReturnsEventually
