---------------------------- MODULE PolicyChecks ----------------------------
(***************************************************************************)
(* The checks of the scoped policy and of the candidate packages in the    *)
(* form the durable boundary calls them: values for the operator constants *)
(* of PolicyOperations. The stored reviews of a subject are handed over in *)
(* any order; with one record per reviewer the answer does not depend on   *)
(* it (property ReviewMatchesReference of OrganizationPolicy).             *)
(***************************************************************************)
EXTENDS PolicyOperations, SequencesExt

CONSTANTS
  PolicyDigest,            \* see ScopedPolicy and CandidateReview
  PolicyVersion,
  NoOne,
  ManifestId,
  OutputAdmissible(_, _)

Scoped == INSTANCE ScopedPolicy

Package == INSTANCE CandidateReview

ReceiptFor(snapshot, now) == Scoped!Receipt(snapshot, Organization, now)

CheckedAccess(request, snapshot, now) ==
  Scoped!CheckScopedAccess(request, snapshot, ReceiptFor(snapshot, now))

CheckedReview(subject, records, snapshot, now) ==
  Scoped!CheckScopedReview(subject, SetToSeq(records), snapshot, ReceiptFor(snapshot, now))

CheckedPackage(subject, context, now) == Package!PackageCode(subject, context, now)

CheckedBinding(subject, record) == Package!AssessmentBindingReason(subject.candidate, record)

CheckedAssessment(subject, record) == Package!AssessmentComplete(subject.candidate, record)

(* The resources the sources of the package were taken from.                *)
Evidence(subject) == {source.resource : source \in Range(subject.candidate.sources)}

AudienceReadsEvidence(subject, snapshot, now) ==
  \A resource \in Evidence(subject) :
    Scoped!AudienceReads(subject, resource, snapshot, ReceiptFor(snapshot, now))

ReviewerReadsEvidence(subject, record, snapshot, now) ==
  Scoped!ReviewerCanReadSources(subject, record, {subject.resource} \cup Evidence(subject),
                                snapshot, ReceiptFor(snapshot, now))
=============================================================================
