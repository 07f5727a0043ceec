SPECIFICATION Spec
CONSTANTS
  Absent = Absent
  FailureCodes <- FAILURE_CODES_V2
  Invariants <- INVARIANTS_V2
  DatasetVersions <- MCVersions
  ManifestId = "manifest"
  TtlSeconds = 2
  Text <- MCTexts
  Tampering <- MCTampering
  Given <- MCGiven
  Answer <- MCAnswers
  Time = {1, 2, 4}
INVARIANTS
  AllowedIsAuthorized
  RefusalIsTraceable
  RiskIsRefused
  EmittedIsAdmissible
PROPERTIES
  GateSettles
