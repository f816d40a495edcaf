\* The expectation of LoRaHandler_test.cpp:411, which an acked request breaks.
CONSTANTS
  ID_WORD = 3
  mMyAddress = 1
  mGatewayAddress = 0
  Broadcast = 255
  components <- MCcomponents
  AllEntities = 255
  AckMark = 33
  Heard <- MCHeard
SPECIFICATION Spec
INVARIANT AckedRequestIsDispatched
