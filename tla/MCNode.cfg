\* One place between the ends; frames whole or cut, in any order.
CONSTANTS
  ID_WORD = 1
  mMyAddress = 1
  mGatewayAddress = 0
  Broadcast = 255
  components <- MCcomponents
  AllEntities = 255
  AckMark = 33
  Heard <- MCHeard
  garageCover = 0
  Lengths <- MCLengths
  TOP = 2
SPECIFICATION FairSpec
INVARIANTS DoorObeysGateway GatewayKnowsDoor
PROPERTIES RelayHasACause HandlerReturns
