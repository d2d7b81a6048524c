\* A client that writes its own documents one after the other.
CONSTANTS
  o1 = o1
  o2 = o2
  x = x
  f = f
  g = g
  v1 = v1
  v2 = v2
  NoDoc = NoDoc
  NoEvent = NoEvent
  Id = {o1, o2, x}
  Own = {o1, o2}
  Field = {f}
  Value = {v1, v2}
  Documents <- MCDocuments
  Modifiers <- MCModifiers
  Contents <- MCContents
  MaxDepth = 3
  MaxWrites = 3
  MaxForeign = 1
  Liberty = {}
SPECIFICATION FairSpec
INVARIANTS
  TypeOK
  Mirrors
  CopiesDifferByMessages
PROPERTIES
  MirroredInTheEnd
  ImplementsReplica
\* The writes are bounded: in the end nothing is left to do.
CHECK_DEADLOCK FALSE
