--------------------------- MODULE MCPolicyFixture ---------------------------
(***************************************************************************)
(* A small organization for model checking: one snapshot key, two          *)
(* reviewers, two subjects (one a candidate package), conflicting and      *)
(* superseding snapshots, an identity-stealing and a rejecting review.     *)
(***************************************************************************)
MCTrustedKey ==
  [admin |-> [principal |-> "root",  purposes |-> {"snapshot"},           notBefore |-> 0, expiresAt |-> 9],
   alice |-> [principal |-> "alice", purposes |-> {"review"},             notBefore |-> 0, expiresAt |-> 9],
   bob   |-> [principal |-> "bob",   purposes |-> {"review", "snapshot"}, notBefore |-> 0, expiresAt |-> 9]]

MCSnapshot(key, id, revision, expires, permits) ==
  [wellFormed |-> TRUE, signed |-> TRUE, kind |-> "snapshot", key_id |-> key,
   organization |-> "org", artifact_id |-> id, revision |-> revision,
   issued_at |-> 1, expires_at |-> expires,
   payload |-> [wellFormed |-> TRUE, id |-> id, organization |-> "org",
                issued_at |-> 1, expires_at |-> expires, permits |-> permits]]

MCReview(key, id, revision, expires, subject, decision) ==
  [wellFormed |-> TRUE, signed |-> TRUE, kind |-> "review", key_id |-> key,
   organization |-> "org", artifact_id |-> id, revision |-> revision,
   issued_at |-> 1, expires_at |-> expires,
   payload |-> [wellFormed |-> TRUE, id |-> id, reviewer |-> MCTrustedKey[key].principal,
                subjectHash |-> subject, decision |-> decision,
                reviewedAt |-> 1, expiresAt |-> expires, revoked |-> FALSE]]

MCArtifacts ==
  {MCSnapshot("admin", "snap", 1, 4, {"alice", "bob"}),
   MCSnapshot("admin", "snap", 2, 4, {"bob"}),
   MCSnapshot("bob", "fork", 2, 4, {"alice"}),
   MCReview("alice", "ra", 1, 3, "doc", "APPROVE"),
   MCReview("alice", "ra", 2, 4, "doc", "APPROVE"),
   MCReview("alice", "rz", 1, 4, "doc", "APPROVE"),
   MCReview("bob", "rb", 1, 4, "doc", "REJECT"),
   MCReview("bob", "rb", 2, 4, "doc", "APPROVE"),
   MCReview("bob", "ra", 3, 4, "pkg", "APPROVE")}

(* Fewer of them, for longer histories.                                     *)
MCFewArtifacts ==
  {MCSnapshot("admin", "snap", 1, 4, {"alice", "bob"}),
   MCSnapshot("bob", "fork", 2, 4, {"alice"}),
   MCReview("alice", "ra", 1, 3, "doc", "APPROVE"),
   MCReview("bob", "rb", 1, 4, "doc", "REJECT")}

(* Stand-ins for the scoped policy: a reviewer counts while the snapshot    *)
(* names them, and access is given to the principals it names.              *)
MCScopedAccess(request, snapshot, now) ==
  IF request \in snapshot.permits THEN "OK" ELSE "CLEARANCE_REQUIRED"

MCScopedReview(subject, records, snapshot, now) ==
  IF \E r \in records : r.decision = "APPROVE" /\ r.reviewer \in snapshot.permits
  THEN "OK" ELSE "QUALIFIED_REVIEW_REQUIRED"

MCCandidateReason(subject, context, now) ==
  IF subject # "pkg" THEN "INVALID_CANDIDATE_REVIEW_PACKAGE"
  ELSE IF context # "captured" THEN "CANDIDATE_CONTEXT_MISMATCH" ELSE "OK"

MCBindingReason(subject, record) ==
  IF "subjectHash" \in DOMAIN record /\ record.subjectHash = subject
  THEN "OK" ELSE "ASSESSMENT_BINDING_MISMATCH"

MCAssessmentComplete(subject, record) == record.decision = "APPROVE"

MCAudienceReadsSources(subject, snapshot, now) == "bob" \in snapshot.permits

MCReviewerReadsSources(subject, record, snapshot, now) == record.reviewer \in snapshot.permits
=============================================================================
