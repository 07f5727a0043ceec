---------------------------- MODULE ScopedPolicy ----------------------------
(***************************************************************************)
(* The draft access and review policy as pure checks over one policy       *)
(* snapshot: scripts/review-policy/policy.ts, simulate.ts and boundary.ts. *)
(* A check returns the code of its refusal, or "OK".                       *)
(*                                                                         *)
(* The lists of a snapshot are sets, since nothing depends on their order; *)
(* review records are a sequence, since reviewers are chosen in its order. *)
(* A digest is collision free, so the hashed value stands for it. A schema *)
(* is the field wellFormed; review records have passed theirs when the     *)
(* verifier accepted them.                                                 *)
(***************************************************************************)
EXTENDS Integers, Sequences

CONSTANTS
  PolicyDigest,    \* digest of the draft policy
  PolicyVersion,   \* its version
  NoOne            \* no reviewer

Modes ==
  [DEFAULT    |-> [roles      |-> {"user", "domain_reviewer", "governance_officer",
                                   "engineering_maintainer", "access_administrator"},
                   classes    |-> {"public"},
                   operations |-> {"read", "request_review"}],
   GOVERNANCE |-> [roles      |-> {"domain_reviewer", "governance_officer"},
                   classes    |-> {"public", "domain_restricted"},
                   operations |-> {"read", "request_review", "review_evidence", "review_release"}],
   ARCHITECT  |-> [roles      |-> {"engineering_maintainer"},
                   classes    |-> {"public", "engineering_sandbox"},
                   operations |-> {"read", "request_review", "test", "debug", "propose_change",
                                   "review_release"}]]

ReviewerRoles ==
  [DEFAULT    |-> <<"domain_reviewer">>,
   GOVERNANCE |-> <<"domain_reviewer", "governance_officer">>,
   ARCHITECT  |-> <<"engineering_maintainer", "governance_officer">>]
-----------------------------------------------------------------------------
UniqueIds(items) == \A x, y \in items : x.id = y.id => x = y

(* The receipt of a snapshot the verifier accepted.                         *)
Receipt(snapshot, organization, now) ==
  [snapshot_id |-> snapshot.id, snapshot_digest |-> snapshot, organization |-> organization,
   now |-> now]

CheckSnapshot(snapshot, receipt) ==
  /\ snapshot.wellFormed
  /\ 0 <= receipt.now
  /\ snapshot.id = receipt.snapshot_id /\ snapshot.organization = receipt.organization
  /\ snapshot.policy_digest = PolicyDigest /\ snapshot = receipt.snapshot_digest
  /\ snapshot.issued_at <= receipt.now /\ receipt.now < snapshot.expires_at
  /\ UniqueIds(snapshot.principals) /\ UniqueIds(snapshot.resources)
  /\ UniqueIds(snapshot.clearances) /\ UniqueIds(snapshot.denials)

Matches(values, value) == "*" \in values \/ value \in values

RuleMatches(rule, r) ==
  /\ Matches(rule.actors, r.actor) /\ Matches(rule.domains, r.domain)
  /\ Matches(rule.resources, r.resource)
  /\ r.mode \in rule.modes /\ r.operation \in rule.operations
  /\ Matches(rule.purposes, r.purpose) /\ Matches(rule.environments, r.environment)

(* Mutant of IsDenied: every rule must match instead of one.                *)
IsDeniedByAll(r, snapshot) ==
  \A rule \in snapshot.denials : RuleMatches(rule, r)

IsDenied(r, snapshot) == \E rule \in snapshot.denials : RuleMatches(rule, r)

ScopeMatches(r, snapshot) ==
  /\ r.organization = snapshot.organization /\ r.policy_digest = PolicyDigest
  /\ \E x \in snapshot.resources : x.id = r.resource /\ x.environment = r.environment

(* The snapshot as the simulation sees it: only clearances for the purpose  *)
(* and the environment of the request.                                      *)
ContextFor(r, snapshot, now) ==
  [principals |-> snapshot.principals, resources |-> snapshot.resources,
   issuerMandates |-> snapshot.issuerMandates, now |-> now,
   clearances |-> {c \in snapshot.clearances :
                     r.purpose \in c.purposes /\ r.environment \in c.environments}]
-----------------------------------------------------------------------------
(* The issuer administers access in the domain, with a mandate for the role.*)
MayIssue(issuer, r, role, context) ==
  /\ \E p \in context.principals :
       p.id = issuer /\ "access_administrator" \in p.roles /\ r.domain \in p.domains
  /\ \E m \in context.issuerMandates :
       m.issuer = issuer /\ r.domain \in m.domains /\ role \in m.roles /\ r.mode \in m.modes

(* Mutant of Grants: administrators may clear themselves.                   *)
GrantsSelf(c, r, role, context) ==
  /\ c.subject = r.actor /\ c.role = role /\ c.domain = r.domain
  /\ r.mode \in c.modes /\ r.resource \in c.resources /\ r.operation \in c.operations
  /\ ~c.revoked /\ c.issuedAt <= context.now /\ context.now < c.expiresAt
  /\ MayIssue(c.issuer, r, role, context)

Grants(c, r, role, context) ==
  /\ c.subject = r.actor /\ c.role = role /\ c.domain = r.domain
  /\ r.mode \in c.modes /\ r.resource \in c.resources /\ r.operation \in c.operations
  /\ ~c.revoked /\ c.issuedAt <= context.now /\ context.now < c.expiresAt
  /\ c.issuer # r.actor
  /\ MayIssue(c.issuer, r, role, context)

HasClearance(r, role, context) == \E c \in context.clearances : Grants(c, r, role, context)

SimulateAccess(r, context) ==
  LET actors    == {p \in context.principals : p.id = r.actor}
      resources == {x \in context.resources : x.id = r.resource}
      mode      == Modes[r.mode]
      roles     == (UNION {p.roles : p \in actors}) \cap mode.roles
  IN  IF ~(UniqueIds(context.principals) /\ UniqueIds(context.resources)
           /\ UniqueIds(context.clearances))
      THEN "INVALID_CONTEXT"
      ELSE IF r.mode \notin DOMAIN Modes THEN "UNKNOWN_MODE"
      ELSE IF actors = {} \/ resources = {} THEN "UNKNOWN_PRINCIPAL_OR_RESOURCE"
      ELSE IF \E x \in resources : x.classification = "protected" THEN "PROTECTED_RESOURCE"
      ELSE IF \/ \E x \in resources : x.domain # r.domain
              \/ \E p \in actors : r.domain \notin p.domains
      THEN "DOMAIN_MISMATCH"
      ELSE IF \/ \E x \in resources : x.classification \notin mode.classes
              \/ r.operation \notin mode.operations
      THEN "MODE_SCOPE_DENIED"
      ELSE IF roles = {} THEN "ROLE_DENIED"
      ELSE IF ~\E role \in roles : HasClearance(r, role, context) THEN "CLEARANCE_REQUIRED"
      ELSE "OK"

CheckScopedAccess(r, snapshot, receipt) ==
  IF ~r.wellFormed THEN "INVALID_REQUEST"
  ELSE IF ~CheckSnapshot(snapshot, receipt) THEN "INVALID_OR_STALE_SNAPSHOT"
  ELSE IF ~ScopeMatches(r, snapshot) THEN "SCOPE_OR_POLICY_MISMATCH"
  ELSE IF IsDenied(r, snapshot) THEN "EXPLICIT_DENIAL"
  ELSE SimulateAccess(r, ContextFor(r, snapshot, receipt.now))
-----------------------------------------------------------------------------
(* A request in the scope of a review subject.                              *)
RequestOf(subject, actor, resource, operation) ==
  [wellFormed |-> TRUE, actor |-> actor, mode |-> subject.accessMode, domain |-> subject.domain,
   resource |-> resource, operation |-> operation, purpose |-> subject.purpose,
   environment |-> subject.environment, organization |-> subject.organization,
   policy_digest |-> subject.policy_digest]

ReleaseRequest(subject, actor) == RequestOf(subject, actor, subject.resource, "review_release")

(* The record is a current approval of the subject by a reviewer in the     *)
(* role who is not taken and had no part in the subject.                    *)
Qualifies(record, role, subject, taken, context) ==
  /\ record.subjectHash = subject
  /\ record.role = role /\ record.decision = "APPROVE" /\ record.evidence = "VERIFIED"
  /\ record.authorityClaims = "CLEARED" /\ record.outputChecks = "PASS" /\ ~record.revoked
  /\ record.reviewedAt <= context.now /\ context.now < record.expiresAt
  /\ record.reviewer \notin {subject.requester, subject.producer} \cup taken
  /\ \E p \in context.principals :
       p.id = record.reviewer /\ role \in p.roles /\ subject.domain \in p.domains
  /\ HasClearance(ReleaseRequest(subject, record.reviewer), role, context)

(* The reviewer of the first of the given records, NoOne if there is none.  *)
FirstReviewer(records, indices) ==
  IF indices = {} THEN NoOne
  ELSE records[CHOOSE i \in indices : \A j \in indices : i <= j].reviewer

(* Mutant of Reviewers: the first record of a role is taken or nobody's.    *)
ReviewersFirstOfRole(subject, records, context) ==
  LET roles == ReviewerRoles[subject.accessMode]
      taken(chosen) == {chosen[i] : i \in DOMAIN chosen}
      upTo[n \in 0..Len(roles)] ==
        IF n = 0 THEN <<>>
        ELSE LET first == FirstReviewer(records, {i \in DOMAIN records : records[i].role = roles[n]})
             IN  Append(upTo[n - 1],
                        IF \E i \in DOMAIN records :
                             /\ records[i].reviewer = first
                             /\ Qualifies(records[i], roles[n], subject, taken(upTo[n - 1]), context)
                        THEN first ELSE NoOne)
  IN  upTo[Len(roles)]

(* Role by role, the reviewer of the first record that qualifies.           *)
Reviewers(subject, records, context) ==
  LET roles == ReviewerRoles[subject.accessMode]
      taken(chosen) == {chosen[i] : i \in DOMAIN chosen}
      upTo[n \in 0..Len(roles)] ==
        IF n = 0 THEN <<>>
        ELSE Append(upTo[n - 1],
                    FirstReviewer(records,
                      {i \in DOMAIN records :
                         Qualifies(records[i], roles[n], subject, taken(upTo[n - 1]), context)}))
  IN  upTo[Len(roles)]

SimulateReleaseReview(subject, records, context) ==
  LET resources == {x \in context.resources : x.id = subject.resource}
      reviewers == Reviewers(subject, records, context)
  IN  IF \/ subject.accessMode \notin DOMAIN ReviewerRoles
         \/ subject.policyVersion # PolicyVersion
         \/ ~(UniqueIds(context.principals) /\ UniqueIds(context.resources)
              /\ UniqueIds(context.clearances))
         \/ \E i, j \in DOMAIN records : i # j /\ records[i].id = records[j].id
         \/ subject.audience = {}
      THEN "INVALID_CONTEXT"
      ELSE IF \/ resources = {}
              \/ \E x \in resources :
                   \/ x.classification = "protected" \/ x.domain # subject.domain
                   \/ x.classification \notin Modes[subject.accessMode].classes
      THEN "RESOURCE_DENIED"
      ELSE IF \E i \in DOMAIN records :
                records[i].subjectHash = subject /\ records[i].decision = "REJECT"
      THEN "REVIEW_REJECTED"
      ELSE IF \E n \in DOMAIN reviewers : reviewers[n] = NoOne THEN "QUALIFIED_REVIEW_REQUIRED"
      ELSE "OK"

(* An explicit denial removes a reviewer's clearances, not their records.   *)
ReviewContext(subject, snapshot, now) ==
  LET context == ContextFor(ReleaseRequest(subject, subject.requester), snapshot, now)
  IN  [context EXCEPT !.clearances =
         {c \in @ : ~IsDenied(ReleaseRequest(subject, c.subject), snapshot)}]

(* Every recipient may read the resource.                                   *)
AudienceReads(subject, resource, snapshot, receipt) ==
  \A actor \in subject.audience :
    CheckScopedAccess(RequestOf(subject, actor, resource, "read"), snapshot, receipt) = "OK"

CheckScopedReview(subject, records, snapshot, receipt) ==
  IF ~subject.wellFormed THEN "INVALID_REVIEW_CONTRACT"
  ELSE IF ~CheckSnapshot(snapshot, receipt) THEN "INVALID_OR_STALE_SNAPSHOT"
  ELSE IF ~ScopeMatches(ReleaseRequest(subject, subject.requester), snapshot)
  THEN "SCOPE_OR_POLICY_MISMATCH"
  ELSE IF ~AudienceReads(subject, subject.resource, snapshot, receipt)
  THEN "AUDIENCE_ACCESS_DENIED"
  ELSE IF IsDenied(ReleaseRequest(subject, subject.requester), snapshot) THEN "EXPLICIT_DENIAL"
  ELSE SimulateReleaseReview(subject, records, ReviewContext(subject, snapshot, receipt.now))

(* A reviewer in a role of the subject's mode may read all the resources.   *)
ReviewerCanReadSources(subject, record, resources, snapshot, receipt) ==
  /\ CheckSnapshot(snapshot, receipt)
  /\ \E p \in snapshot.principals :
       p.id = record.reviewer /\ record.role \in p.roles /\ subject.domain \in p.domains
  /\ \E n \in DOMAIN ReviewerRoles[subject.accessMode] :
       ReviewerRoles[subject.accessMode][n] = record.role
  /\ \A resource \in resources :
       LET r == RequestOf(subject, record.reviewer, resource, "read")
       IN  /\ ScopeMatches(r, snapshot)
           /\ \E x \in snapshot.resources :
                /\ x.id = resource /\ x.domain = subject.domain /\ x.classification # "protected"
                /\ x.classification \in Modes[subject.accessMode].classes
           /\ ~IsDenied(r, snapshot)
           /\ HasClearance(r, record.role, ContextFor(r, snapshot, receipt.now))
=============================================================================
