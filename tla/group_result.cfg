\* Two cards, one of which asks; a line card and, in a middle slot, a fabric card.
\* Once no operator asks anything, the cards rest: the system may stop.
CHECK_DEADLOCK FALSE
SPECIFICATION FairSpec
CONSTANTS
  Card = {1, 5}
  MiddleSlots = {5}
  Member = {1, 5}
  Host = {1}
  Kinds = {"health", "traffic"}
  Options = {5}
  LcCount = 1
  FcCount = 1
  Tries = 2
  Waits = 2
  QueueCap = 2
  MaxRequests = 2
  MaxRestarts = 0
INVARIANTS
  ResultComplete
  BurnInInOrder
PROPERTIES
  CommandOnce
  
