\* A callback upserts while a change of the server is applied.
CONSTANTS
  o1 = o1
  o2 = o2
  x = x
  f = f
  g = g
  v1 = v1
  v2 = v2
  NoDoc = NoDoc
  NoEvent = NoEvent
  Id = {o1, o2, x}
  Own = {o1, o2}
  Field = {f}
  Value = {v1, v2}
  Documents <- MCDocuments
  Modifiers <- MCModifiers
  Contents <- MCContents
  MaxDepth = 2
  MaxWrites = 3
  MaxForeign = 1
  Liberty = {"upsert"}
SPECIFICATION Spec
INVARIANTS
  Mirrors
\* The writes are bounded: in the end nothing is left to do.
CHECK_DEADLOCK FALSE
