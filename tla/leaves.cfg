\* One of three cards leaves at any moment.
SPECIFICATION RoundSpec
CONSTANTS
  Slot = {1, 2, 3, 33, 35}
  Dynamic = {1, 2, 3, 33, 35}
  MaxAge = 15
  ForwardDelay = 3
  AgeFull = 16
  LiveAge = 3
  QueueCap = 8
  MaxStops = 1
  Lossy = FALSE
  Looping = FALSE
  Chassis <- Losing
  Settle = 260
INVARIANTS
  RoundTypeOK
  
  RolesMatchCards
  PortsMatchRole
  SettledInTime
  OneMasterInTime
  ForgottenInTime
PROPERTIES
  SettledStays
  GossipNeverRevives
