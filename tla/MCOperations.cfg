\* Every component of the backend and the operator's tools, side by side.
SPECIFICATION Spec
CONSTANTS
  p1 = p1
  p2 = p2
  c1 = c1
  e1 = e1
  e2 = e2
  s1 = s1
  s2 = s2
  Builds = {1, 2, 3}
  Takes = {1, 2}
  Released <- MCReleased
  Phones = {p1, p2}
  Chosen = {c1}
  Enrolled = {e1, e2}
  PhoneOf <- MCPhoneOf
  Withdrawn = {"REVOKED"}
  Challenges = {ch}
  NoPhone = NoPhone
  NoKey = NoKey
  MaxRows = 2
  Handlers = {"h1", "h2"}
  Operators = {"a", "b"}
  Approvers = {"b", "c"}
  Proofs <- MCProofs
  Kind <- MCKind
  Settings = {0, 1, 2}
  KeyRequests = {"r1", "r2"}
  Inputs = {1, 2}
  Versioned = {1}
  MaxActivations = 2
  MaxAdoptions = 2
  StopMayTimeOut = {"worker"}
  SignedRequests = {1, 2, 3}
  MaxCycles = 9
  PendingCapacity = 2
  Publishers = {"a", "b"}
  Prober = "probe"
  MaxInflight = 1
  Threshold = 2
  MaxAttempts = 3
  Streams <- MCStreams
  Required <- MCRequired
  HandsFree = {"ARMED"}
  Tables = {"logs"}
  Contents = {"a", "b"}
  MaxBackups = 2
  Restorers = {1, 2}
  Sessions = {s1, s2}
  NoOne = "none"
  MaxBoot = 2
SYMMETRY MCSymmetry
INVARIANTS
  PublishedIsWhole
  KeyHasItsAccount
  EffectsHappenOnce
  EffectIsAccountable
  WayBack
  AdoptionIsSafe
  MaintenanceIsSafe
  OwnerIsTold
  PublisherIsSafe
  StreamIsJudged
  PassLosesNothing
  AnswerIsTrue
PROPERTIES
  PublicationMovesForward
  TenantIsKept
CHECK_DEADLOCK FALSE
