\* Two line cards and two fabric cards powered on together, or a third card
\* plugged into a pair at any moment; the timers of the code.
SPECIFICATION RoundSpec
CONSTANTS
  Slot = {1, 3, 33, 35, 37}
  Dynamic = {1, 3, 33, 35, 37}
  MaxAge = 15
  ForwardDelay = 3
  AgeFull = 16
  LiveAge = 3
  QueueCap = 8
  MaxStops = 0
  Lossy = FALSE
  Looping = FALSE
  Chassis <- PoweredOrPluggedIn
  Settle = 17
INVARIANTS
  LinksAreTree
  
  
  SettledInTime
  OneMasterInTime
  LineCardsSteadyInTime
