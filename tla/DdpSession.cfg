\* Two connections, calls at any time, and a network that fails.
CONSTANTS
  MaxConnections = 2
  MaxMethods = 2
  Sub = {s1}
  MaxPings = 1
  Liberty = {"early", "hasty", "replace", "noslot", "close", "refuse"}
SPECIFICATION Spec
INVARIANTS
  TypeOK
  SlotsAwaitAnswers
  HandshakeFirst
\* The program stops when its connections are closed and nothing is left to send.
CHECK_DEADLOCK FALSE
