\* A master FC with its neighbour, the master FC of the other half, and an LC of
\* each half.  The counts of failed readings shortened.
SPECIFICATION Spec
CONSTANTS
  Fc = {33, 35, 37}
  Driven = {33}
  Lc = {0, 4}
  Sensor = {1, 25}
  RetryCount = 1
  GiveUpRounds = 2
  NetCap = 1
INVARIANTS
  TypeOK
  CutOffForAReason
PROPERTIES
  
  ForwardedOnce
