SPECIFICATION LiveSpec
CONSTANTS
  h1 = h1
  h2 = h2
  Handles <- MCHandles
  WriteCapacity = 1
  ChallengeLife = 1
  AuthTimeout = 1
  MaxLinks = 2
  MaxSessions = 2
INVARIANTS
  SessionIsOwned
PROPERTIES
  CommittedStays
  RestartQuiet
  RestartHappens
