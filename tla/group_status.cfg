\* A card that asks and two that are asked.
\* Once no operator asks anything, the cards rest: the system may stop.
CHECK_DEADLOCK FALSE
SPECIFICATION FairSpec
CONSTANTS
  Card = {1, 2, 5}
  MiddleSlots = {5}
  Member = {1, 2, 5}
  Host = {1}
  Kinds = {"ping", "hw"}
  Options = {0}
  LcCount = 2
  FcCount = 1
  Tries = 2
  Waits = 2
  QueueCap = 2
  MaxRequests = 2
  MaxRestarts = 1
INVARIANTS
  TypeOK
  StatusComplete

  
