SPECIFICATION Spec
CONSTANTS
  PolicyDigest = "digest"
  PolicyVersion = "v1"
  ManifestId = "m"
  OutputAdmissible <- MCOutputAdmissible
  Candidate <- MCCandidates
  Captured <- MCCaptured
  Scope <- MCScope
  Source <- MCSources
  Claim <- MCClaims
  None = None
  MaxSources = 2
  MaxClaims = 3
  MaxTime = 2
CHECK_DEADLOCK FALSE
INVARIANTS
  PreparedIsGrounded
  ValidInItsContextOnly
