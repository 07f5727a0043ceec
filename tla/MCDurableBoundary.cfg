SPECIFICATION DurableSpec
CONSTANTS
  Organization = "org"
  TrustedKey <- MCTrustedKey
  Artifact <- MCFewArtifacts
  None = None
  SubjectHash = {"doc"}
  MalformedSubject = {"bad"}
  CandidateSubject = {}
  RevocableKey = {"alice"}
  RevocableId = {"ra"}
  Time = {1, 3}
  Request = {"alice"}
  Context = {}
  ScopedAccess <- MCScopedAccess
  ScopedReview <- MCScopedReview
  CandidateReason <- MCCandidateReason
  BindingReason <- MCBindingReason
  CompleteAssessment <- MCAssessmentComplete
  AudienceReadsSources <- MCAudienceReadsSources
  ReviewerReadsSources <- MCReviewerReadsSources
  Capacity = 3
INVARIANTS
  HistoryRebuilds
PROPERTIES
  LedgerSpec
