SPECIFICATION Spec
CONSTANTS
  PolicyDigest = "digest"
  PolicyVersion = "v1"
  NoOne = NoOne
  Base <- MCBase
  Clearance <- MCClearances
  Denial <- MCDenials
  Record <- MCRecords
  AccessRequest <- MCRequests
  ReviewSubject <- MCSubjects
  MaxRecords = 3
  MaxTime = 1
CHECK_DEADLOCK FALSE
INVARIANTS
  ReviewMatchesReference
  NoSelfGrant
PROPERTIES
  RestrictionsNeverPermit
