\* A statically configured line card beside a fabric card under CTP.
SPECIFICATION RoundSpec
CONSTANTS
  Slot = {1, 33}
  Dynamic = {33}
  MaxAge = 15
  ForwardDelay = 3
  AgeFull = 16
  LiveAge = 3
  QueueCap = 8
  MaxStops = 0
  Lossy = FALSE
  Looping = FALSE
  Chassis <- AllPowered
  Settle = 0
INVARIANTS
  StaticPortsStay
