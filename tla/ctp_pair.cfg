\* A line card and a fabric card that start and tick at any pace,
\* over a network that loses frames; one stop.  Timers shortened to their
\* smallest ratios.
SPECIFICATION Spec
CONSTANTS
  Slot = {1, 33}
  Dynamic = {1, 33}
  MaxAge = 2
  ForwardDelay = 1
  AgeFull = 3
  LiveAge = 2
  QueueCap = 1
  MaxStops = 1
  Lossy = TRUE
  Looping = FALSE
INVARIANTS
  TypeOK
  RecordsAgree
PROPERTIES
  PortsWait
