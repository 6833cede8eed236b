SPECIFICATION Spec
CONSTANTS
  arm = arm
  manual = manual
  reboot = reboot
  Commands <- AccessCommands
  Issued <- MCIssued
  Kind <- MCKind
  Entries = 2
  ReadsMayFail = FALSE
  MaxBoot = 2
  NoCommand = NoCommand
  NoLedger = NoLedger
INVARIANT ResetAnsweredUncertain
