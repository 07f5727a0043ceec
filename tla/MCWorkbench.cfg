SPECIFICATION Spec
CONSTANTS
  Organization = "org"
  TrustedKey <- SessionKeys
  Artifact <- WorkbenchArtifact
  None = None
  NoOne = NoOne
  SubjectHash <- MCSubjects
  MalformedSubject = {}
  CandidateSubject <- MCSubjects
  RevocableKey = {}
  RevocableId = {}
  Time = {10}
  Request = {}
  Context <- MCContexts
  PolicyDigest = "digest"
  PolicyVersion = "v1"
  ManifestId = "m"
  OutputAdmissible <- MCOutputAdmissible
  ScopedAccess <- CheckedAccess
  ScopedReview <- CheckedReview
  CandidateReason <- CheckedPackage
  BindingReason <- CheckedBinding
  CompleteAssessment <- CheckedAssessment
  AudienceReadsSources <- AudienceReadsEvidence
  ReviewerReadsSources <- ReviewerReadsEvidence
  Tab = {"t1", "t2"}
  SessionMode = {"GOVERNANCE"}
  MaxRequests = 4
CHECK_DEADLOCK FALSE
INVARIANTS
  NothingOverwrittenUnseen
  StatusAgreesWithHistory
  RefreshBeforeWrite
  SignedRecordsAreAccepted
PROPERTIES
  PageRecovers
