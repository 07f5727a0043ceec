--------------------------- MODULE CandidateReview ---------------------------
(***************************************************************************)
(* scripts/review-policy/candidate-review.ts: the structural checks on a   *)
(* candidate review package, and what a signed assessment must say of it.  *)
(*                                                                         *)
(* A text is a sequence of characters, each TRUE (visible) or FALSE        *)
(* (white space).  A hash stands for what it is of: a source names its     *)
(* content, a package the context it was prepared in, and an assessment    *)
(* the package and the answer it is about.  Spans count characters from 0, *)
(* the end excluded.                                                       *)
(***************************************************************************)
EXTENDS Integers, Sequences, FiniteSets, Functions

CONSTANTS
  PolicyDigest,            \* the digest of the draft policy in force
  PolicyVersion,           \* its version
  ManifestId,              \* the governance manifest in force
  OutputAdmissible(_, _)   \* assertAdmissible of an input decision and an answer

(* What the items say in one of their fields.                               *)
Column(items, field) == [i \in DOMAIN items |-> items[i][field]]

Span(item) == item.start..(item.end - 1)

(* A non-empty stretch of the text with something to see in it.             *)
ValidSpan(item, text) ==
  /\ item.start < item.end
  /\ item.end <= Len(text)
  /\ \E offset \in Span(item) : text[offset + 1]

(* A source with its text is as its receipt says, and no receipt is missing.*)
Receipted(source, receipts) ==
  \E i \in DOMAIN receipts : receipts[i] = [x \in DOMAIN source \ {"text"} |-> source[x]]

SourceCode(source, subject, context, now) ==
  LET refs == subject.candidate.candidate.source_refs
  IN  IF ~Receipted(source, context.evidenceReceipts) THEN "SOURCE_RECEIPT_MISMATCH"
      ELSE IF source.organization # subject.organization \/ source.domain # subject.domain
      THEN "SOURCE_SCOPE_MISMATCH"
      ELSE IF source.captured_at > now THEN "FUTURE_SOURCE"
      ELSE IF source.content # source.text
              \/ [source_id |-> source.source_id, content |-> source.content] \notin Range(refs)
      THEN "SOURCE_CONTENT_MISMATCH"
      ELSE "OK"

SupportCode(support, sources) ==
  LET cited == {i \in DOMAIN sources : sources[i].source_id = support.source_id}
  IN  IF cited = {} THEN "UNKNOWN_SUPPORT_SOURCE"
      ELSE IF \E i \in cited : ~ValidSpan(support, sources[i].text) THEN "INVALID_SUPPORT_SPAN"
      ELSE "OK"

(* Mutant of ClaimCode: overlaps are looked for with the previous claim.    *)
ClaimCodeAdjacent(n, claims, answer, sources) ==
  IF ~ValidSpan(claims[n], answer) THEN "INVALID_CLAIM_SPAN"
  ELSE IF n > 1 /\ Span(claims[n]) \cap Span(claims[n - 1]) # {} THEN "OVERLAPPING_CLAIMS"
  ELSE IF ~IsInjective(claims[n].support) THEN "DUPLICATE_SUPPORT"
  ELSE IF \E i \in DOMAIN claims[n].support : SupportCode(claims[n].support[i], sources) # "OK"
  THEN "INVALID_SUPPORT"
  ELSE "OK"

(* One claim, given those before it. The two refusals of a support are one  *)
(* here.                                                                    *)
ClaimCode(n, claims, answer, sources) ==
  IF ~ValidSpan(claims[n], answer) THEN "INVALID_CLAIM_SPAN"
  ELSE IF \E m \in 1..(n - 1) : Span(claims[n]) \cap Span(claims[m]) # {} THEN "OVERLAPPING_CLAIMS"
  ELSE IF ~IsInjective(claims[n].support) THEN "DUPLICATE_SUPPORT"
  ELSE IF \E i \in DOMAIN claims[n].support : SupportCode(claims[n].support[i], sources) # "OK"
  THEN "INVALID_SUPPORT"
  ELSE "OK"

(* The first of some checks that fails, or "OK".                            *)
FirstRefusal(codes) ==
  LET failing == {n \in DOMAIN codes : codes[n] # "OK"}
  IN  IF failing = {} THEN "OK"
      ELSE codes[CHOOSE n \in failing : \A m \in failing : n <= m]

SourcesCode(subject, context, now) ==
  LET pkg      == subject.candidate
      receipts == context.evidenceReceipts
  IN  IF ~IsInjective(Column(receipts, "source_id")) THEN "INVALID_SOURCE_RECEIPTS"
      ELSE IF ~IsInjective(Column(pkg.sources, "source_id")) THEN "DUPLICATE_SOURCE"
      ELSE IF \/ Len(pkg.candidate.source_refs) # Len(pkg.sources)
              \/ Len(receipts) # Len(pkg.sources)
              \/ Len(context.candidateContext.sourceReceipts) # Len(pkg.sources)
      THEN "SOURCE_SET_MISMATCH"
      ELSE FirstRefusal([n \in DOMAIN pkg.sources |-> SourceCode(pkg.sources[n], subject, context, now)])

Covered(claims) == UNION {Span(claims[n]) : n \in DOMAIN claims}

Used(claims) ==
  {support.source_id : support \in UNION {Range(claims[n].support) : n \in DOMAIN claims}}

ClaimsCode(pkg) ==
  LET answer == pkg.candidate.answer
      claims == pkg.claims
      each   == FirstRefusal([n \in DOMAIN claims |-> ClaimCode(n, claims, answer, pkg.sources)])
  IN  IF ~IsInjective(Column(claims, "id")) THEN "DUPLICATE_CLAIM"
      ELSE IF each # "OK" THEN each
      ELSE IF \E i \in DOMAIN answer : answer[i] /\ i - 1 \notin Covered(claims)
      THEN "UNCOVERED_ANSWER_TEXT"
      ELSE IF Cardinality(Used(claims)) # Len(pkg.sources) THEN "UNUSED_SOURCE"
      ELSE "OK"

(* validateAnswerCandidate (runtime/answers/candidate.ts).                  *)
CandidateCode(candidate, context) ==
  LET input == context.inputDecision
      refs  == candidate.source_refs
  IN  IF ~candidate.wellFormed THEN "INVALID_CONTRACT"
      ELSE IF ~input.allowed THEN "INPUT_NOT_ALLOWED"
      ELSE IF \/ candidate.trace_id # input.trace_id
              \/ candidate.manifest # input.manifest
              \/ candidate.manifest # ManifestId
      THEN "BINDING_MISMATCH"
      ELSE IF candidate.provenance # context.invocation THEN "PROVENANCE_MISMATCH"
      ELSE IF candidate.provenance.answer # candidate.answer THEN "ANSWER_HASH_MISMATCH"
      ELSE IF \/ ~IsInjective(Column(context.sourceReceipts, "source_id"))
              \/ ~IsInjective(Column(refs, "source_id"))
              \/ ~(Range(refs) \subseteq Range(context.sourceReceipts))
      THEN "EVIDENCE_MISMATCH"
      ELSE "OK"

(* What the schema of a package asks for, beyond the types of its fields.   *)
ValidPackage(pkg) ==
  /\ {"candidate", "context", "sources", "claims"} \subseteq DOMAIN pkg
  /\ pkg.sources # <<>>
  /\ pkg.claims # <<>>
  /\ \A n \in DOMAIN pkg.sources : TRUE \in Range(pkg.sources[n].text)
  /\ \A n \in DOMAIN pkg.claims : pkg.claims[n].support # <<>>

(* Mutant of InContext: only the invocation is compared.                    *)
InContextByInvocation(pkg, context) ==
  pkg.context.candidateContext = context.candidateContext

InContext(pkg, context) == pkg.context = context

(* validateCandidateReviewSubject: the checks in the order of the code.     *)
PackageCode(subject, context, now) ==
  LET pkg       == subject.candidate
      candidate == CandidateCode(pkg.candidate, context.candidateContext)
      sources   == SourcesCode(subject, context, now)
  IN  IF now < 0 THEN "INVALID_REVIEW_TIME"
      ELSE IF ~subject.wellFormed \/ ~ValidPackage(pkg) THEN "INVALID_CANDIDATE_REVIEW_PACKAGE"
      ELSE IF subject.policyVersion # PolicyVersion \/ subject.policy_digest # PolicyDigest
      THEN "SCOPE_OR_POLICY_MISMATCH"
      ELSE IF candidate # "OK" THEN candidate
      ELSE IF ~InContext(pkg, context) THEN "CANDIDATE_CONTEXT_MISMATCH"
      ELSE IF pkg.candidate.provenance.completed_at > now THEN "FUTURE_CANDIDATE"
      ELSE IF ~OutputAdmissible(context.candidateContext.inputDecision, pkg.candidate.answer)
      THEN "CANDIDATE_OUTPUT_REFUSED"
      ELSE IF sources # "OK" THEN sources
      ELSE ClaimsCode(pkg)

(* prepareCandidateReview: the subject under review, if it is valid.        *)
Prepared(candidate, context, scope, sources, claims) ==
  LET pkg == [candidate |-> candidate, context |-> context, sources |-> sources,
              claims |-> claims]
  IN  [x \in DOMAIN scope \cup {"candidate"} |-> IF x = "candidate" THEN pkg ELSE scope[x]]

(* assessmentBindingReason: an assessment is about this very package, made  *)
(* after its contents existed, and checks no claim twice or out of thin air.*)
AssessmentBindingReason(pkg, record) ==
  LET assessment == record.candidateAssessment
      checks     == assessment.claim_checks
      created    == {pkg.candidate.provenance.completed_at}
                      \cup {source.captured_at : source \in Range(pkg.sources)}
  IN  IF "candidateAssessment" \notin DOMAIN record
      THEN "SIGNED_CANDIDATE_ASSESSMENT_REQUIRED"
      ELSE IF \/ assessment.package # pkg
              \/ assessment.answer # pkg.candidate.provenance.answer
      THEN "ASSESSMENT_BINDING_MISMATCH"
      ELSE IF \E time \in created : record.reviewedAt < time
      THEN "ASSESSMENT_PREDATES_CONTENT"
      ELSE IF \/ ~IsInjective(Column(checks, "claim_id"))
              \/ \E check \in Range(checks) :
                   \A claim \in Range(pkg.claims) : claim.id # check.claim_id
      THEN "ASSESSMENT_CLAIM_MISMATCH"
      ELSE "OK"

(* Mutant of AssessmentComplete: the checks present suffice.                *)
AssessmentCompleteAsFar(pkg, record) ==
  LET assessment == record.candidateAssessment
  IN  /\ AssessmentBindingReason(pkg, record) = "OK"
      /\ record.decision = "APPROVE" /\ record.evidence = "VERIFIED"
      /\ record.authorityClaims = "CLEARED" /\ record.outputChecks = "PASS"
      /\ assessment.coverage = "COMPLETE" /\ assessment.authority_claims = "CLEARED"
      /\ assessment.output_admissibility = "PASS"
      /\ \A check \in Range(assessment.claim_checks) : check.finding = "SUPPORTED"

AssessmentComplete(pkg, record) ==
  LET assessment == record.candidateAssessment
  IN  /\ AssessmentBindingReason(pkg, record) = "OK"
      /\ record.decision = "APPROVE" /\ record.evidence = "VERIFIED"
      /\ record.authorityClaims = "CLEARED" /\ record.outputChecks = "PASS"
      /\ assessment.coverage = "COMPLETE" /\ assessment.authority_claims = "CLEARED"
      /\ assessment.output_admissibility = "PASS"
      /\ Len(assessment.claim_checks) = Len(pkg.claims)
      /\ \A check \in Range(assessment.claim_checks) : check.finding = "SUPPORTED"
=============================================================================
