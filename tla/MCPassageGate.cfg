SPECIFICATION LivePSpec
CONSTANTS
  RelayHold <- MCRelayHold
  FailsafeGrace <- MCFailsafeGrace
  Cooldown <- MCCooldown
  AuthTimeout <- MCAuthTimeout
  ArmDurations <- MCArmDurations
  MaxAge <- MCMaxAge
  TimerMayFail = FALSE
  ArmConfigured <- MCArmConfigured
  BlockedArm <- MCBlockedArm
  IdleYield <- MCIdleYield
  RetryQuiet <- MCRetryQuiet
  Window <- MCWindow
  ClearNeeded <- MCClearNeeded
PROPERTIES
  OnePulsePerEpisode
  FreshMajority
  RetryBudget
  DoorSpec
  GateRecovers
