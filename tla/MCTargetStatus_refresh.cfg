\* A new boot whose commit asks for no ACL refresh.
SPECIFICATION Spec
CONSTANTS MaxBoot = 2
          MaxRevision = 2
          MaxConnections = 2
          Capacity = 1
          Commands <- MCCommands
PROPERTY BootQueuesItsRefresh
