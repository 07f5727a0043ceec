SPECIFICATION Spec
CONSTANTS
  Organization = "org"
  TrustedKey <- MCTrustedKey
  Artifact <- MCArtifacts
  None = None
  SubjectHash = {"doc", "pkg"}
  MalformedSubject = {"bad"}
  CandidateSubject = {"pkg"}
  RevocableKey = {"alice", "bob"}
  RevocableId = {"ra", "snap"}
  Time = {1, 3}
  Request = {"alice"}
  Context = {}
  ScopedAccess <- MCScopedAccess
  ScopedReview <- MCScopedReview
  CandidateReason <- MCCandidateReason
  BindingReason <- MCBindingReason
  CompleteAssessment <- MCAssessmentComplete
  AudienceReadsSources <- MCAudienceReadsSources
  ReviewerReadsSources <- MCReviewerReadsSources
  Capacity = 3
INVARIANTS
  NoRevisionRollback
  NothingAfterRevocation
  StableReviewIdentity
  RejectionIsFinal
  DecisionsUseNewestSnapshot
  CompletionNeedsLiveReviews
