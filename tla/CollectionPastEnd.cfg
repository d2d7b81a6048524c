\* A callback of the first live query writes the new document.
CONSTANTS
  Id = {a}
  Field = {f}
  Value = {1, 2}
  NoDoc = NoDoc
  NoSelector = NoSelector
  NoEvent = NoEvent
  MaxQueries = 2
  MaxDepth = 2
  MaxCopies = 1
  Documents <- MCDocuments
  Selectors <- MCSelectors
  Modifiers <- MCModifiers
  Licence = {"conflict"}
SPECIFICATION Spec
INVARIANTS
  ReplaceFindsDocument
