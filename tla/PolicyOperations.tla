-------------------------- MODULE PolicyOperations --------------------------
(***************************************************************************)
(* The public operations of scripts/review-policy/durable-boundary.ts      *)
(* (class DurablePolicySimulation), each as a function of the projection   *)
(* its transaction works on:                                               *)
(*   Precheck(op)     what is refused before the store is touched,         *)
(*   EventOf(op)      the event the transaction tries to accept,           *)
(*   VerdictOf(q, op) what it answers once that event is applied to q, and *)
(*                    whether the transaction commits or throws.           *)
(* The scoped-policy and candidate-package checks that the operations call *)
(* are parameters: each returns "OK" or the reason for a refusal.          *)
(***************************************************************************)
EXTENDS PolicyProjection

CONSTANTS
  MalformedSubject,          \* subjects that fail the subject schema
  CandidateSubject,          \* subjects whose candidate is a review package
  Request,                   \* access requests
  Context,                   \* captured candidate contexts
  ScopedAccess(_, _, _),     \* checkScopedAccess(request, snapshot, now)
  ScopedReview(_, _, _, _),  \* checkScopedReview(subject, records, snapshot, now)
  CandidateReason(_, _, _),  \* validateCandidateReviewSubject(subject, context, now)
  BindingReason(_, _),       \* assessmentBindingReason(subject's package, record)
  CompleteAssessment(_, _),  \* assessmentComplete(subject's package, record)
  AudienceReadsSources(_, _, _),  \* every recipient may read every source
  ReviewerReadsSources(_, _, _, _) \* reviewerCanReadSources

Subject == SubjectHash \cup MalformedSubject

(* The operations and their arguments.                                      *)
AcceptSnapshots == [name : {"acceptSnapshot"}, artifact : Artifact, now : Time]

AcceptReviews == [name : {"acceptReview"}, artifact : Artifact, subject : Subject, now : Time]

AcceptCandidateReviews ==
  [name : {"acceptCandidateReview"}, subject : Subject, context : Context,
   artifact : Artifact, now : Time]

RevokeKeys == [name : {"revokeKey"}, key : RevocableKey, now : Time]

RevokeArtifacts == [name : {"revokeArtifact"}, kind : Kind, id : RevocableId, now : Time]

CheckAccesses == [name : {"checkAccess"}, request : Request, artifact : Artifact, now : Time]

CheckReviews == [name : {"checkReview"}, subject : Subject, artifact : Artifact, now : Time]

CheckCandidateReviews ==
  [name : {"checkCandidateReview"}, subject : Subject, context : Context,
   artifact : Artifact, now : Time]

Operation ==
  AcceptSnapshots \cup AcceptReviews \cup AcceptCandidateReviews
    \cup RevokeKeys \cup RevokeArtifacts
    \cup CheckAccesses \cup CheckReviews \cup CheckCandidateReviews

EventOf(op) ==
  CASE op.name \in {"acceptSnapshot", "checkAccess", "checkReview", "checkCandidateReview"} ->
         ArtifactEvent(op.artifact, op.now, None)
    [] op.name \in {"acceptReview", "acceptCandidateReview"} ->
         ArtifactEvent(op.artifact, op.now, op.subject)
    [] op.name = "revokeKey"      -> RevokeKeyEvent(op.key, op.now)
    [] op.name = "revokeArtifact" -> RevokeArtifactEvent(op.kind, op.id, op.now)

(* Explicit rejections are accepted without a positive evidence assessment. *)
CandidateReviewPrecheck(op) ==
  LET package == CandidateReason(op.subject, op.context, op.now)
      record  == op.artifact.payload
  IN  IF package # "OK" THEN package
      ELSE IF op.artifact.kind = "review" /\ record.decision = "REJECT" THEN "OK"
      ELSE BindingReason(op.subject, record)

ReviewPrecheck(op) ==
  IF op.subject \in MalformedSubject THEN "INVALID_REVIEW_CONTRACT"
  ELSE IF op.subject \in CandidateSubject THEN "USE_CANDIDATE_REVIEW_BOUNDARY"
  ELSE "OK"

Precheck(op) ==
  CASE op.name = "acceptCandidateReview" -> CandidateReviewPrecheck(op)
    [] op.name = "checkReview"           -> ReviewPrecheck(op)
    [] op.name = "checkCandidateReview"  -> CandidateReason(op.subject, op.context, op.now)
    [] OTHER                             -> "OK"

(* A throw rolls the transaction back; a returned decision commits it, also *)
(* when the decision is negative.                                           *)
Throws(code) == [commit |-> FALSE, positive |-> FALSE, reason |-> code]
Returns(code) == [commit |-> TRUE, positive |-> code = "OK", reason |-> code]

Recorded == [commit |-> TRUE, positive |-> TRUE, reason |-> "RECORDED"]

AccessVerdict(q, op) ==
  LET code == VerifyCode(q.verifier, op.artifact, "snapshot", op.now, None)
  IN  IF code # "OK" THEN Throws(code)
      ELSE Returns(ScopedAccess(op.request, op.artifact.payload, op.now))

(* The latest accepted record of every reviewer of the subject.             *)
StoredReviews(q, s) ==
  {a \in {q.reviews[id] : id \in ReviewId} : a # None /\ a.payload.subjectHash = s}

(* Mutant of StoredReviewCode: stored reviews are trusted as they are.      *)
StoredReviewCodeCached(q, op) == "OK"

(* Stored reviews are verified again at the time of the check. The code     *)
(* reports the first failure in insertion order; any one is chosen here.    *)
StoredReviewCode(q, op) ==
  LET failures == {VerifyCode(q.verifier, a, "review", op.now, op.subject) :
                     a \in StoredReviews(q, op.subject)} \ {"OK"}
  IN  IF failures = {} THEN "OK" ELSE CHOOSE code \in failures : TRUE

Records(q, s) == {a.payload : a \in StoredReviews(q, s)}

CandidateVerdict(q, op) ==
  LET snapshot == op.artifact.payload
      eligible == {r \in Records(q, op.subject) :
                     /\ CompleteAssessment(op.subject, r)
                     /\ ReviewerReadsSources(op.subject, r, snapshot, op.now)}
  IN  IF ~AudienceReadsSources(op.subject, snapshot, op.now)
      THEN Throws("AUDIENCE_EVIDENCE_ACCESS_DENIED")
      ELSE Returns(ScopedReview(op.subject, eligible, snapshot, op.now))

ReviewVerdict(q, op) ==
  LET snapshotCode == VerifyCode(q.verifier, op.artifact, "snapshot", op.now, None)
  IN  IF op.subject \in q.rejected THEN Returns("REVIEW_REJECTED")
      ELSE IF StoredReviewCode(q, op) # "OK" THEN Throws(StoredReviewCode(q, op))
      ELSE IF snapshotCode # "OK" THEN Throws(snapshotCode)
      ELSE IF op.name = "checkCandidateReview" THEN CandidateVerdict(q, op)
      ELSE Returns(ScopedReview(op.subject, Records(q, op.subject), op.artifact.payload, op.now))

VerdictOf(q, op) ==
  CASE op.name = "checkAccess" -> AccessVerdict(q, op)
    [] op.name \in {"checkReview", "checkCandidateReview"} -> ReviewVerdict(q, op)
    [] OTHER -> Recorded

(* A refusal carries its reason only; an answer also what was asked.        *)
Refusal(reason) == [op |-> None, positive |-> FALSE, reason |-> reason]

Answer(op, verdict) ==
  [op |-> op, positive |-> verdict.positive, reason |-> verdict.reason]
=============================================================================
