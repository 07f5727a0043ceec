------------------------- MODULE OrganizationPolicy -------------------------
(***************************************************************************)
(* An organization whose policy snapshot and review records change, and    *)
(* what the checks of ScopedPolicy answer as they do.  The changes are     *)
(* those the formats of a snapshot and of a record allow: clearances are   *)
(* issued and revoked, denials added, reviews filed, and time passes.      *)
(***************************************************************************)
EXTENDS ScopedPolicy

CONSTANTS
  Base,           \* the snapshot without clearances and denials
  Clearance,      \* clearances that may be issued
  Denial,         \* denials that may be added
  Record,         \* reviews that may be filed
  AccessRequest,  \* access requests to consider
  ReviewSubject,  \* review subjects to consider
  MaxRecords,     \* bound on the reviews filed
  MaxTime         \* bound on the clock

ASSUME BoundsAssumption == MaxRecords \in Nat /\ MaxTime \in Nat

(* The formats of a clearance and of a snapshot; NoOne files no review.     *)
IsClearance(c) ==
  c = [id |-> c.id, subject |-> c.subject, role |-> c.role, issuer |-> c.issuer,
       domain |-> c.domain, modes |-> c.modes, resources |-> c.resources,
       operations |-> c.operations, purposes |-> c.purposes, environments |-> c.environments,
       issuedAt |-> c.issuedAt, expiresAt |-> c.expiresAt, revoked |-> c.revoked]

IsSnapshot(s) ==
  s = [wellFormed |-> s.wellFormed, id |-> s.id, organization |-> s.organization,
       policy_digest |-> s.policy_digest, issued_at |-> s.issued_at,
       expires_at |-> s.expires_at, principals |-> s.principals, resources |-> s.resources,
       issuerMandates |-> s.issuerMandates, clearances |-> s.clearances, denials |-> s.denials]

ASSUME FormatAssumption ==
  /\ \A c \in Clearance : IsClearance(c)
  /\ IsSnapshot(Base)
  /\ \A record \in Record : record.reviewer # NoOne

VARIABLES clearances, denials, records, now

vars == <<clearances, denials, records, now>>

Init == clearances = {} /\ denials = {} /\ records = <<>> /\ now = 0

Revoked(c) == [c EXCEPT !.revoked = TRUE]

Issue(c) ==
  /\ \A x \in clearances : x.id # c.id
  /\ clearances' = clearances \cup {c}
  /\ UNCHANGED <<denials, records, now>>

Revoke(c) ==
  /\ c \in clearances
  /\ clearances' = (clearances \ {c}) \cup {Revoked(c)}
  /\ UNCHANGED <<denials, records, now>>

Deny(rule) ==
  /\ rule \notin denials
  /\ denials' = denials \cup {rule}
  /\ UNCHANGED <<clearances, records, now>>

File(record) ==
  /\ Len(records) < MaxRecords
  /\ \A i \in DOMAIN records : records[i].id # record.id
  /\ records' = Append(records, record)
  /\ UNCHANGED <<clearances, denials, now>>

Tick ==
  /\ now < MaxTime
  /\ now' = now + 1
  /\ UNCHANGED <<clearances, denials, records>>

Next ==
  \/ \E c \in Clearance : Issue(c) \/ Revoke(c)
  \/ \E rule \in Denial : Deny(rule)
  \/ \E record \in Record : File(record)
  \/ Tick

Spec == Init /\ [][Next]_vars
-----------------------------------------------------------------------------
Snapshot == [Base EXCEPT !.clearances = clearances, !.denials = denials]

AccessAnswer(r) == CheckScopedAccess(r, Snapshot, Receipt(Snapshot, Base.organization, now))

ReviewAnswer(subject) ==
  CheckScopedReview(subject, records, Snapshot, Receipt(Snapshot, Base.organization, now))

(* The record is a current approval of the subject by someone other than    *)
(* its requester and producer, whom no denial bars and to whom someone else,*)
(* with a mandate, issued a current clearance for the role.                 *)
Supports(record, role, subject) ==
  LET r == ReleaseRequest(subject, record.reviewer)
  IN  /\ record.subjectHash = subject /\ record.role = role /\ record.decision = "APPROVE"
      /\ record.evidence = "VERIFIED" /\ record.authorityClaims = "CLEARED"
      /\ record.outputChecks = "PASS" /\ ~record.revoked
      /\ record.reviewedAt <= now /\ now < record.expiresAt
      /\ record.reviewer \notin {subject.requester, subject.producer}
      /\ ~IsDenied(r, Snapshot)
      /\ \E x \in Base.principals :
           x.id = record.reviewer /\ role \in x.roles /\ subject.domain \in x.domains
      /\ \E c \in clearances :
           /\ c.subject = record.reviewer /\ c.issuer # record.reviewer /\ c.role = role
           /\ MayIssue(c.issuer, r, role, Base)
           /\ c.domain = subject.domain /\ subject.accessMode \in c.modes
           /\ subject.resource \in c.resources /\ "review_release" \in c.operations
           /\ subject.purpose \in c.purposes /\ subject.environment \in c.environments
           /\ ~c.revoked /\ c.issuedAt <= now /\ now < c.expiresAt

(* Different people support the subject in every role its mode requires.    *)
IndependentlyReviewed(subject) ==
  LET roles == ReviewerRoles[subject.accessMode]
  IN  \E choice \in [DOMAIN roles -> DOMAIN records] :
        /\ \A n \in DOMAIN roles : Supports(records[choice[n]], roles[n], subject)
        /\ \A m, n \in DOMAIN roles :
             m # n => records[choice[m]].reviewer # records[choice[n]].reviewer

OneRecordEach ==
  \A i, j \in DOMAIN records :
    records[i].reviewer = records[j].reviewer /\ records[i].subjectHash = records[j].subjectHash
    => i = j

(* simulateReleaseReview, lines 112-126: a complete review has independent  *)
(* reviewers; and where every reviewer has one record per subject, as the   *)
(* durable boundary enforces, taking the first record that qualifies, role  *)
(* by role, misses none, in whatever order the records come.                *)
ReviewMatchesReference ==
  \A subject \in ReviewSubject :
    /\ ReviewAnswer(subject) = "OK" => IndependentlyReviewed(subject)
    /\ OneRecordEach /\ ReviewAnswer(subject) = "QUALIFIED_REVIEW_REQUIRED"
       => ~IndependentlyReviewed(subject)

(* hasClearance, line 33: nobody's access depends on a clearance they       *)
(* issued themselves, or on one issued to somebody else.                    *)
NoSelfGrant ==
  \A r \in AccessRequest :
    LET others == [Snapshot EXCEPT !.clearances =
                     {c \in clearances : c.subject = r.actor /\ c.issuer # r.actor}]
    IN  AccessAnswer(r) = CheckScopedAccess(r, others, Receipt(others, Base.organization, now))

(* denied and hasClearance: revoking a clearance or adding a denial never   *)
(* opens access that was closed, nor completes a review that was not; where *)
(* a reviewer has two records for a subject, it may free them for the other *)
(* role and complete the review.                                            *)
RestrictionsNeverPermit ==
  [][(\E c \in Clearance : Revoke(c)) \/ (\E rule \in Denial : Deny(rule))
     => /\ \A r \in AccessRequest : AccessAnswer(r)' = "OK" => AccessAnswer(r) = "OK"
        /\ OneRecordEach =>
             \A subject \in ReviewSubject :
               ReviewAnswer(subject)' = "OK" => ReviewAnswer(subject) = "OK"]_vars
=============================================================================
