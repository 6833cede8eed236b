SPECIFICATION Spec
CONSTANTS
  h1 = h1
  h2 = h2
  Handles <- MCOneHandle
  WriteCapacity = 1
  ChallengeLife = 1
  AuthTimeout = 1
  MaxLinks = 1
  MaxSessions = 1
PROPERTIES
  OverflowFirst
