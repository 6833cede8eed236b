\* Statuses in any order, lost connections, orderly and sudden ends.
SPECIFICATION Spec
CONSTANTS MaxBoot = 2
          MaxRevision = 2
          MaxConnections = 2
          Capacity = 1
          Commands <- MCCommands
INVARIANTS OnlineIsGuarded EvidenceIsCurrent
PROPERTY SilenceIsShown
