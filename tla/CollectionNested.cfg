\* Writes nested two deep through the callbacks of two live queries.
CONSTANTS
  Id = {a, b}
  Field = {f}
  Value = {1, 2}
  NoDoc = NoDoc
  NoSelector = NoSelector
  NoEvent = NoEvent
  MaxQueries = 2
  MaxDepth = 2
  MaxCopies = 1
  Documents <- MCDocuments
  Selectors <- MCSelectorsAndIds
  Modifiers <- MCModifiers
  Licence = {}
SPECIFICATION FairSpec
INVARIANTS
  TypeOK
  ViewsMirrorStore
  ReplaceFindsDocument
  EventsRebuildResults
PROPERTIES
  ViewChangesAreCurrent
  ImplementsLiveView
  CallsReturn
