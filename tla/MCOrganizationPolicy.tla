------------------------ MODULE MCOrganizationPolicy ------------------------
(* OrganizationPolicy for the organization of MCOrganizationFixture.        *)
EXTENDS OrganizationPolicy, MCOrganizationFixture

MCBase == MCSnapshotOf({"doc"}, {})

MCClearance(id, subject, role, issuer, expires) ==
  MCClearanceFor({"doc"}, id, subject, role, issuer, expires)

MCClearances ==
  {MCClearance("c1", "ann", "domain_reviewer", "ann", 2),
   MCClearance("c1", "ann", "domain_reviewer", "root", 2),
   MCClearance("c2", "bob", "governance_officer", "root", 1),
   MCClearance("c3", "cat", "domain_reviewer", "ann", 2),
   MCClearance("c4", "cat", "governance_officer", "root", 2)}

MCDenial(id, actors, operations) ==
  [id |-> id, actors |-> actors, domains |-> {"*"}, resources |-> {"doc"},
   modes |-> {"GOVERNANCE"}, operations |-> operations, purposes |-> {"*"},
   environments |-> {"test"}]

MCDenials ==
  {MCDenial("d1", {"cat"}, {"review_release"}), MCDenial("d2", {"ann"}, {"read"})}

MCSubject == MCSubjectOf({"bob", "cat"}, "memo")

MCRecord(id, reviewer, role, decision) ==
  [id |-> id, reviewer |-> reviewer, role |-> role, subjectHash |-> MCSubject,
   decision |-> decision, evidence |-> "VERIFIED", authorityClaims |-> "CLEARED",
   outputChecks |-> "PASS", reviewedAt |-> 0, expiresAt |-> 2, revoked |-> FALSE]

MCRecords ==
  {MCRecord("r1", "ann", "domain_reviewer", "APPROVE"),
   MCRecord("r2", "bob", "governance_officer", "APPROVE"),
   MCRecord("r3", "cat", "domain_reviewer", "APPROVE"),
   MCRecord("r4", "cat", "governance_officer", "APPROVE"),
   MCRecord("r5", "ann", "governance_officer", "REJECT")}

MCRequests == {RequestOf(MCSubject, actor, "doc", "read") : actor \in {"ann", "bob", "cat"}}

MCSubjects == {MCSubject}
=============================================================================
