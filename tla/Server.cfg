SPECIFICATION McpSpec
CONSTANTS
  Message <- MCMessage
  Lease = {"l1", "keep"}
  LongTerm = {"keep"}
  MaxLines = 2
  MaxFaults = 1
INVARIANTS McpTypeOK ConfinedDuringCalls LongTermNeedsConfirm
PROPERTIES CallsHoldOffSweeps IdleIsNoticed ImplementsProtocol
CHECK_DEADLOCK FALSE
