\* Two live queries whose callbacks throw out of every kind of call; a write
\* through end() after a skipped announcement ends the behaviour.
CONSTANTS
  Id = {a, b}
  Field = {f}
  Value = {1}
  NoDoc = NoDoc
  NoSelector = NoSelector
  NoEvent = NoEvent
  MaxQueries = 2
  MaxDepth = 2
  MaxCopies = 1
  Documents <- MCFull
  Selectors <- MCSelectors
  Modifiers <- MCModifiers
  Licence = {"throw"}
SPECIFICATION Spec
INVARIANT IInv
CHECK_DEADLOCK FALSE
