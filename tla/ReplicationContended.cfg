\* Documents written by several clients, overtaking writes, rejections, losses.
CONSTANTS
  o1 = o1
  o2 = o2
  x = x
  f = f
  g = g
  v1 = v1
  v2 = v2
  NoDoc = NoDoc
  NoEvent = NoEvent
  Id = {o1, x}
  Own = {o1}
  Field = {f, g}
  Value = {v1, v2}
  Documents <- MCDocuments
  Modifiers <- MCModifiersTwo
  Contents <- MCContents
  MaxDepth = 2
  MaxWrites = 2
  MaxForeign = 1
  Liberty = {"pending", "conflict", "shared", "reject"}
  MaxLosses = 2
  Haste = {}
SPECIFICATION FairSpecLink
INVARIANTS
  LinkTypeOK
  ChangesPushedOnce
PROPERTIES
  IdleEndsUnlessLost
  SubscribingRepairs
\* Losses and writes are bounded: in the end nothing is left to do.
CHECK_DEADLOCK FALSE
