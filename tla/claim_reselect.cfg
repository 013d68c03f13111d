\* The designated line card leaves on a signal.
SPECIFICATION RoundSpec
CONSTANTS
  Slot = {1, 3, 33}
  Dynamic = {1, 3, 33}
  MaxAge = 15
  ForwardDelay = 3
  AgeFull = 16
  LiveAge = 3
  QueueCap = 8
  MaxStops = 1
  Lossy = FALSE
  Looping = FALSE
  Chassis <- AllPowered
  Settle = 0
PROPERTIES
  ReselectsOnLeave
