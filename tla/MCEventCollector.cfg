\* Every loss, failed commit, reconnect and restart until the faults stop.
SPECIFICATION Spec
CONSTANT Events <- MCEvents
CONSTANT Forged <- MCForged
CONSTANT Malformed <- MCMalformed
CONSTANT Slot <- MCSlot
CONSTANT Projected <- MCProjected
CONSTANT Journal <- MCJournal
CONSTANT Capacity = 1
INVARIANTS HistoryIsGenuine AnnouncedInTurn
PROPERTY EverythingAnnounced
CHECK_DEADLOCK FALSE
