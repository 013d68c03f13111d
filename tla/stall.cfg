\* A line card is plugged into a fabric card, and either of their loops may stand
\* still, once, for longer than the pair can bear; the timers of the code.
SPECIFICATION StallSpec
CONSTANTS
  Slot = {1, 33}
  Dynamic = {1, 33}
  MaxAge = 15
  ForwardDelay = 3
  AgeFull = 16
  LiveAge = 3
  QueueCap = 64
  MaxStops = 0
  Lossy = FALSE
  Looping = FALSE
  Chassis <- PluggedIn
  Settle = 25
  MaxStall = 15
  MaxStalls = 1
  Tolerance = 13
INVARIANTS
  
  SettledInTime
  Undisturbed
