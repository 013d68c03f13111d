\* One FC and its own sensor.
SPECIFICATION Spec
CONSTANTS
  Fc = {33}
  Driven = {33}
  Lc = {0, 4}
  Sensor = {1, 25}
  RetryCount = 2
  GiveUpRounds = 3
  NetCap = 1
PROPERTIES
  ConsecutiveErrors
