CONSTANTS
  Name = {n1, n2}
  Query = {q1, q2}
  MaxObjects = 2
  MaxVersion = 1
  MaxQueue = 2
  NoName = NoName
  Liberty = {}
SPECIFICATION FairSpec
INVARIANTS TypeOK NothingDeadIsUsed FollowsStore
PROPERTIES FreshStart ReadySlotsRun
CHECK_DEADLOCK FALSE
