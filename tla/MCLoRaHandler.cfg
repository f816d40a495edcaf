\* Three ids wrap around at once; two components; every request type, with and
\* without ack, whole or cut short after any cell.
CONSTANTS
  ID_WORD = 3
  mMyAddress = 1
  mGatewayAddress = 0
  Broadcast = 255
  components <- MCcomponents
  AllEntities = 255
  AckMark = 33
  Heard <- MCHeard
SPECIFICATION FairSpec
INVARIANTS TypeOK DispatchIsFaithful GapsAreDrops
PROPERTIES EveryTransmissionHasACause ServesAsPromised HandlerReturns
