-------------------------- MODULE CandidateBoundary --------------------------
(***************************************************************************)
(* The policy ledger with the real checks of the scoped policy and of the  *)
(* candidate packages (PolicyChecks) in place of its parameters.           *)
(***************************************************************************)
EXTENDS PolicyLedger, PolicyChecks

ReviewArtifact == {a \in Artifact : a.kind = "review"}

SnapshotArtifact == {a \in Artifact : a.kind = "snapshot"}

(* The parameters of the ledger that a candidate's review depends on are    *)
(* the checks of PolicyChecks.                                              *)
RealChecks ==
  \A s \in Subject, now \in Time :
    /\ \A context \in Context :
         CandidateReason(s, context, now) = CheckedPackage(s, context, now)
    /\ \A a \in ReviewArtifact : CompleteAssessment(s, a.payload) = CheckedAssessment(s, a.payload)
    /\ \A snapshot \in SnapshotArtifact :
         /\ \A a \in ReviewArtifact :
              ReviewerReadsSources(s, a.payload, snapshot.payload, now)
                = ReviewerReadsEvidence(s, a.payload, snapshot.payload, now)
         /\ \A records \in SUBSET {a.payload : a \in ReviewArtifact} :
              ScopedReview(s, records, snapshot.payload, now)
                = CheckedReview(s, records, snapshot.payload, now)

(* What the schemas say of the lists in packages and assessments.           *)
IsSequence(items) == items \in Seq(Range(items))

ReviewFormats ==
  /\ \A s \in Subject, context \in Context, now \in Time :
       CheckedPackage(s, context, now) = "OK" => IsSequence(s.candidate.claims)
  /\ \A a \in ReviewArtifact :
       "candidateAssessment" \in DOMAIN a.payload
       => IsSequence(a.payload.candidateAssessment.claim_checks)
-----------------------------------------------------------------------------
(* The reviewer may read the resource in the role: somebody else gave them  *)
(* a clearance for it that still counts.                                    *)
MayRead(reviewer, role, resource, snapshot, now) ==
  \E c \in snapshot.clearances :
    /\ c.subject = reviewer /\ c.issuer # reviewer /\ c.role = role
    /\ resource \in c.resources /\ "read" \in c.operations
    /\ ~c.revoked /\ c.issuedAt <= now /\ now < c.expiresAt

(* The assessment is of this package, and finds every claim of it supported.*)
Attests(record, pkg) ==
  /\ record.decision = "APPROVE"
  /\ record.candidateAssessment.package = pkg
  /\ \A claim \in Range(pkg.claims) :
       \E check \in Range(record.candidateAssessment.claim_checks) :
         check.claim_id = claim.id /\ check.finding = "SUPPORTED"
  /\ \A check \in Range(record.candidateAssessment.claim_checks) : check.finding = "SUPPORTED"

(* checkCandidateReview: a candidate's review is complete only if, for each *)
(* role its mode requires, a different person outside its making recorded   *)
(* an assessment of this very package, in force now, which finds each of    *)
(* its claims supported, and may read each of its sources. It does not      *)
(* matter through which operation the records came in.                      *)
CandidateCompletionIsAttested ==
  Positive({"checkCandidateReview"})
  => LET s        == reply.op.subject
         now      == reply.op.now
         snapshot == reply.op.artifact.payload
         roles    == Scoped!ReviewerRoles[s.accessMode]
     IN  \E choice \in [DOMAIN roles -> {proj.reviews[id] : id \in ReviewId} \ {None}] :
           /\ \A m, n \in DOMAIN roles :
                m # n => choice[m].payload.reviewer # choice[n].payload.reviewer
           /\ \A n \in DOMAIN roles :
                LET record == choice[n].payload
                IN  /\ \E i \in DOMAIN log : IsReview(log[i]) /\ log[i].artifact = choice[n]
                    /\ record.subjectHash = s /\ record.role = roles[n]
                    /\ record.reviewer \notin {s.requester, s.producer}
                    /\ record.reviewedAt <= now /\ now < choice[n].expires_at
                    /\ Attests(record, s.candidate)
                    /\ \A resource \in {s.resource} \cup Evidence(s) :
                         MayRead(record.reviewer, roles[n], resource, snapshot, now)
=============================================================================
