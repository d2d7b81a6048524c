CONSTANTS
  Scripts <- MCCutScripts
  m_max_message_size = 130
  SizeT = 1000000
  max_header_size = 60
SPECIFICATION Spec
INVARIANT TextIsComplete
CHECK_DEADLOCK FALSE
