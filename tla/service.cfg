\* Four commands, at any moments of the daemons' lives; two crashes.
\* Once no operator gives a command, the card rests: the system may stop.
CHECK_DEADLOCK FALSE
SPECIFICATION FairSpec
CONSTANTS
  Pid = {2, 4, 6, 8}
  Commands = {"start", "stop", "restart", "try-restart", "burn-in"}
  MaxCommands = 4
  MaxCrashes = 2
  IpMayFail = TRUE
INVARIANTS
  TypeOK
  OneDaemon
  UnlockedIsStopped
  ServesUndisturbed
PROPERTIES
  Recovers
