\* A daemon that runs is restarted.
CHECK_DEADLOCK FALSE
SPECIFICATION FairSpec
CONSTANTS
  Pid = {2, 4}
  Commands = {"start", "restart"}
  MaxCommands = 2
  MaxCrashes = 0
  IpMayFail = FALSE
INVARIANTS
  StartedIsServed
