SPECIFICATION FairSpec
CONSTANTS
  c1 = c1
  Credentials = {c1}
  Withdrawn = {"REVOKED"}
  MaxVersion = 3
  MaxRevision = 2
INVARIANT RevocationIsPursued
PROPERTIES
  BootRefreshIsNew
  JobsAreWorked
