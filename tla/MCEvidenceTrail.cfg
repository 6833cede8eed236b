SPECIFICATION LiveSpec
CONSTANTS
  plain = plain
  terminal = terminal
  direct = direct
  Events = {plain, terminal, direct}
  Kind <- MCKind
  Capacity = 2
  DeferredSize = 1
  OutboxSize = 2
  MaxResets = 1
  NoEvent = NoEvent
  Torn = Torn
INVARIANTS
  EvidenceIsKept
  CleanIsDurable
PROPERTIES FifoSpec TerminalDelivered
CHECK_DEADLOCK FALSE
