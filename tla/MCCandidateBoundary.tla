------------------------- MODULE MCCandidateBoundary -------------------------
(***************************************************************************)
(* The organization of MCOrganizationFixture reviews the answer of         *)
(* MCPackageFixture: ann's assessment is complete, then in doubt; bob's is *)
(* complete, but the second snapshot keeps a source from him; cat leaves   *)
(* out a claim.                                                            *)
(***************************************************************************)
EXTENDS CandidateBoundary, MCOrganizationFixture, MCPackageFixture

ASSUME HypothesesHold == RealChecks /\ ReviewFormats

MCKeys ==
  [id \in {"admin", "ann", "bob", "cat"} |->
     [principal |-> id, purposes |-> IF id = "admin" THEN {"snapshot"} ELSE {"review"},
      notBefore |-> 0, expiresAt |-> 9]]

MCAll == {"doc", "book", "page"}

(* bob's governance clearance covers the given resources.                   *)
MCSnapshotFor(revision, bobs) ==
  [wellFormed |-> TRUE, signed |-> TRUE, kind |-> "snapshot", key_id |-> "admin",
   organization |-> "org", artifact_id |-> "snap", revision |-> revision,
   issued_at |-> 0, expires_at |-> 9,
   payload |->
     MCSnapshotOf(MCAll,
       {MCClearanceFor(MCAll, "c1", "ann", "domain_reviewer", "root", 9),
        MCClearanceFor(bobs, "c2", "bob", "governance_officer", "root", 9),
        MCClearanceFor(MCAll, "c3", "cat", "governance_officer", "ann", 9)})]

MCPackage ==
  [candidate |-> MCCandidate(MCRefs), context |-> MCContext("t1", MCReceipts),
   sources   |-> <<MCSource(MCReceipts[1], MCText1), MCSource(MCReceipts[2], MCText2)>>,
   claims    |-> <<MCClaim("c1", 0, 1, <<MCQuote("s1", 0, 1)>>),
                   MCClaim("c2", 2, 3, <<MCQuote("s2", 0, 2)>>)>>]

MCCandidateSubject == MCSubjectOf({"cat"}, MCPackage)

MCChecked(claims, finding) ==
  [n \in DOMAIN claims |-> [claim_id |-> claims[n], finding |-> finding]]

MCAssessed(id, revision, reviewer, role, checks) ==
  [wellFormed |-> TRUE, signed |-> TRUE, kind |-> "review", key_id |-> reviewer,
   organization |-> "org", artifact_id |-> id, revision |-> revision,
   issued_at |-> 1, expires_at |-> 3,
   payload |->
     [wellFormed |-> TRUE, id |-> id, reviewer |-> reviewer, role |-> role,
      subjectHash |-> MCCandidateSubject, decision |-> "APPROVE", evidence |-> "VERIFIED",
      authorityClaims |-> "CLEARED", outputChecks |-> "PASS",
      reviewedAt |-> 1, expiresAt |-> 3, revoked |-> FALSE,
      candidateAssessment |->
        [package |-> MCPackage, answer |-> MCAnswer, coverage |-> "COMPLETE",
         authority_claims |-> "CLEARED", output_admissibility |-> "PASS",
         claim_checks |-> checks]]]

MCAssessments ==
  {MCSnapshotFor(1, MCAll), MCSnapshotFor(2, {"doc"}),
   MCAssessed("ra", 1, "ann", "domain_reviewer", MCChecked(<<"c1", "c2">>, "SUPPORTED")),
   MCAssessed("ra", 2, "ann", "domain_reviewer", MCChecked(<<"c1", "c2">>, "UNCERTAIN")),
   MCAssessed("rb", 1, "bob", "governance_officer", MCChecked(<<"c2", "c1">>, "SUPPORTED")),
   MCAssessed("rc", 1, "cat", "governance_officer", MCChecked(<<"c2">>, "SUPPORTED"))}

MCContexts == {MCContext("t1", MCReceipts), MCContext("t2", MCReceipts)}

MCSubjects == {MCCandidateSubject}

MCMalformed == {[MCCandidateSubject EXCEPT !.wellFormed = FALSE]}

MCRequests == {Scoped!RequestOf(MCCandidateSubject, "bob", "book", "read")}
=============================================================================
