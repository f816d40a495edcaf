\* A second is 1; the interval between reports is three of them, and a turn of
\* loop() may be one late.  millis() rolls over every six.  All items fit exactly.
CONSTANTS
  BYTE = 32
  LORA_MAX_PAYLOAD_LENGTH = 56
  WORD = 6
  UPDATE = 1
  INTERVAL = 3
  HYSTERESIS = 3
  Distances <- MCDistances
  Configs <- MCConfigs
  MaxLag = 1
SPECIFICATION Spec
INVARIANTS TypeOK LargeChangesAreReported StablePresenceIsReported
  FlickerIsNotReported OnlyDropsSilence GatewayCatchesUp
