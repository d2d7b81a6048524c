CONSTANTS
  Scripts <- MCScripts
  m_max_message_size = 130
  SizeT = 1000000
  max_header_size = 60
SPECIFICATION Spec
INVARIANTS TypeOK HandshakeAsSent AsSent MessagesAreBounded
CHECK_DEADLOCK FALSE
