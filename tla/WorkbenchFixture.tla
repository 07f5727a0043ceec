--------------------------- MODULE WorkbenchFixture ---------------------------
(***************************************************************************)
(* The synthetic session behind the review workbench, one per mode:        *)
(* makeCandidateReviewFixture and createSession. The answer is two words   *)
(* with a space between them, one claim each, and quotes itself as its     *)
(* source. The clock stands still; a time unit is a second.                *)
(***************************************************************************)
EXTENDS PolicyChecks, Sequences

AccessMode == {"DEFAULT", "GOVERNANCE", "ARCHITECT"}

SessionNow == 10
-----------------------------------------------------------------------------
AudienceRole(mode) ==
  CASE mode = "DEFAULT"    -> "user"
    [] mode = "GOVERNANCE" -> "governance_officer"
    [] mode = "ARCHITECT"  -> "engineering_maintainer"

Holders == {"reviewer", "officer", "maintainer", "alice"}

RoleOf(who, mode) ==
  CASE who = "reviewer"   -> "domain_reviewer"
    [] who = "officer"    -> "governance_officer"
    [] who = "maintainer" -> "engineering_maintainer"
    [] who = "alice"      -> AudienceRole(mode)

RequiredReviewers(mode) ==
  CASE mode = "DEFAULT"    -> {"reviewer"}
    [] mode = "GOVERNANCE" -> {"reviewer", "officer"}
    [] mode = "ARCHITECT"  -> {"maintainer", "officer"}

(* Everybody signs with a key of their own name.                            *)
SessionKeys ==
  [id \in Holders \cup {"publisher"} |->
     [principal |-> id, purposes |-> {IF id = "publisher" THEN "snapshot" ELSE "review"},
      notBefore |-> SessionNow - 10, expiresAt |-> SessionNow + 20]]

RecordIdOf(who) == <<who, "record">>
-----------------------------------------------------------------------------
SessionText == <<TRUE, FALSE, TRUE>>

SessionSource ==
  [source_id |-> "source-1", text |-> SessionText, content |-> SessionText,
   resource |-> "sources/guide", organization |-> Organization, domain |-> "engineering",
   captured_at |-> SessionNow - 2]

SessionReceipt == [x \in DOMAIN SessionSource \ {"text"} |-> SessionSource[x]]

SessionCandidate ==
  [wellFormed |-> TRUE, trace_id |-> "trace", manifest |-> ManifestId,
   provenance |-> [answer |-> SessionText, completed_at |-> SessionNow - 1,
                   request |-> "synthetic-request"],
   answer |-> SessionText,
   source_refs |-> <<[source_id |-> SessionSource.source_id, content |-> SessionText]>>]

SessionContext ==
  [candidateContext |->
     [inputDecision  |-> [allowed |-> TRUE, trace_id |-> "trace", manifest |-> ManifestId],
      invocation     |-> SessionCandidate.provenance,
      sourceReceipts |-> SessionCandidate.source_refs],
   evidenceReceipts |-> <<SessionReceipt>>]

SessionScope(mode) ==
  [wellFormed |-> TRUE, accessMode |-> mode, domain |-> "engineering", resource |-> "answers/draft",
   audience |-> {"alice"}, requester |-> "alice", producer |-> "model",
   policyVersion |-> PolicyVersion, purpose |-> "education", environment |-> "development",
   organization |-> Organization, policy_digest |-> PolicyDigest]

SessionClaims ==
  [n \in 1..2 |->
     [id |-> n, start |-> 2 * n - 2, end |-> 2 * n - 1,
      support |-> <<[source_id |-> SessionSource.source_id, start |-> 2 * n - 2,
                     end |-> 2 * n - 1]>>]]

SessionSubject(mode) ==
  Package!Prepared(SessionCandidate, SessionContext, SessionScope(mode), <<SessionSource>>,
                   SessionClaims)
-----------------------------------------------------------------------------
SessionSnapshot(mode) ==
  [wellFormed |-> TRUE, id |-> "snapshot-1", organization |-> Organization,
   policy_digest |-> PolicyDigest, issued_at |-> SessionNow - 5, expires_at |-> SessionNow + 10,
   principals |->
     {[id |-> who, roles |-> {RoleOf(who, mode)}, domains |-> {"engineering"}] : who \in Holders}
       \cup {[id |-> "admin", roles |-> {"access_administrator"}, domains |-> {"engineering"}]},
   resources |->
     {[id |-> id, domain |-> "engineering", environment |-> "development",
       classification |-> CASE mode = "GOVERNANCE" -> "domain_restricted"
                            [] mode = "ARCHITECT"  -> "engineering_sandbox"
                            [] mode = "DEFAULT"    -> "public"] :
        id \in {"answers/draft", "sources/guide"}},
   issuerMandates |->
     {[issuer |-> "admin", domains |-> {"engineering"}, modes |-> {mode},
       roles |-> {"user", "domain_reviewer", "governance_officer", "engineering_maintainer"}]},
   clearances |->
     {[id |-> <<who, resource>>, subject |-> who, role |-> RoleOf(who, mode), issuer |-> "admin",
       domain |-> "engineering", modes |-> {mode}, resources |-> {resource},
       operations |-> {"read", "review_release"}, issuedAt |-> SessionNow - 5,
       expiresAt |-> SessionNow + 10, revoked |-> FALSE, purposes |-> {"education"},
       environments |-> {"development"}] :
        who \in Holders, resource \in {"answers/draft", "sources/guide"}},
   denials |-> {}]

Sealed(kind, key, id, revision, from, until, payload) ==
  [wellFormed |-> TRUE, signed |-> TRUE, kind |-> kind, key_id |-> key,
   organization |-> Organization, artifact_id |-> id, revision |-> revision,
   issued_at |-> from, expires_at |-> until, payload |-> payload]

SignedSnapshot(mode) ==
  Sealed("snapshot", "publisher", "snapshot-1", 1, SessionNow - 5, SessionNow + 10,
         SessionSnapshot(mode))

(* A record the test signer of a reviewer signs.                            *)
SignedReview(mode, who, revision, decision, evidence, authorityClaims, outputChecks, assessment) ==
  Sealed("review", who, RecordIdOf(who), revision, SessionNow, SessionNow + 5,
    [wellFormed |-> TRUE, id |-> RecordIdOf(who), reviewer |-> who, role |-> RoleOf(who, mode),
     subjectHash |-> SessionSubject(mode), decision |-> decision, evidence |-> evidence,
     authorityClaims |-> authorityClaims, outputChecks |-> outputChecks,
     reviewedAt |-> SessionNow, expiresAt |-> SessionNow + 5, revoked |-> FALSE,
     candidateAssessment |-> assessment])
=============================================================================
