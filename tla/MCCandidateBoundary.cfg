SPECIFICATION Spec
CONSTANTS
  Organization = "org"
  TrustedKey <- MCKeys
  Artifact <- MCAssessments
  None = None
  NoOne = NoOne
  SubjectHash <- MCSubjects
  MalformedSubject <- MCMalformed
  CandidateSubject <- MCSubjects
  RevocableKey = {"bob"}
  RevocableId = {}
  Time = {0, 2}
  Request <- MCRequests
  Context <- MCContexts
  PolicyDigest = "digest"
  PolicyVersion = "v1"
  ManifestId = "m"
  OutputAdmissible <- MCOutputAdmissible
  ScopedAccess <- CheckedAccess
  ScopedReview <- CheckedReview
  CandidateReason <- CheckedPackage
  BindingReason <- CheckedBinding
  CompleteAssessment <- CheckedAssessment
  AudienceReadsSources <- AudienceReadsEvidence
  ReviewerReadsSources <- ReviewerReadsEvidence
  Capacity = 3
INVARIANTS
  CandidateCompletionIsAttested
