\* A user who reconnects when the connection is lost.
CONSTANTS
  MaxConnections = 2
  MaxMethods = 2
  Sub = {s1}
  MaxPings = 1
  Liberty = {"close"}
SPECIFICATION FairSpec
INVARIANTS
  HandshakeOnce
PROPERTIES
  MethodsAnsweredOrLost
  SubscriptionsReadyOrLost
  PingsAnswered
\* The program stops when its connections are closed and nothing is left to send.
CHECK_DEADLOCK FALSE
