CONSTANTS
  MaxSend = 2
  MaxServed = 2
SPECIFICATION FairSpec
INVARIANTS TypeOK HandlersInOrder NoStrandedWrites CloseFrameLast
PROPERTIES ImplementsChannel KeepsPromises ClosingEnds
\* A connection that closed, or waits for a server that does nothing, stops.
CHECK_DEADLOCK FALSE
