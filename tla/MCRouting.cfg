SPECIFICATION RoutingSpec
CONSTANTS
  k1 = k1
  k2 = k2
  Setups <- MCSetups
  Carriers <- MCCarriers
  Destinations <- MCDestinations
  Senders <- MCSenders
  Kind <- MCKind
  SystemDefault <- MiniSMS
  NoSender <- Empty
  AnySender <- AnyWord
  NoCarrier = NoCarrier
  MaxEdits = 1
  MaxFaults = 1
  MaxAttempts = 2
INVARIANTS
  RoutingInv
  NoUnseenLoss
  SimulationAgrees
  SenderKept
\* Nothing happens once the message is done and resent.
CHECK_DEADLOCK FALSE
