---------------------------- MODULE PolicyLedger ----------------------------
(***************************************************************************)
(* What the durable policy boundary promises: an append-only history of    *)
(* accepted events, operations that take effect one at a time, and a       *)
(* projection that is kept up to date incrementally.  The implementation   *)
(* (scripts/review-policy/durable-boundary.ts over history-store.ts)       *)
(* rebuilds the projection from the store in every transaction; module     *)
(* DurableBoundary states that version and implements this one.            *)
(***************************************************************************)
EXTENDS BoundaryState

VARIABLE proj   \* the projection of log

vars == <<log, proj, reply>>

Init ==
  /\ log = <<>>
  /\ proj = NewProjection
  /\ reply = Refusal("NONE")

(* An event that was recorded before is not appended again.                 *)
Recording(ev) == IF ev \in Range(log) THEN log ELSE Append(log, ev)

HasRoom(ev) == ev \in Range(log) \/ Len(log) < Capacity

Refuse(code) ==
  /\ code # "OK"
  /\ reply' = Refusal(code)
  /\ UNCHANGED <<log, proj>>

(* One transaction: apply the event, append it, answer. A refusal by the    *)
(* projection and a throw by the check leave no trace.                      *)
Transact(op) ==
  LET ev      == EventOf(op)
      code    == ApplyCode(proj, ev)
      verdict == VerdictOf(Applied(proj, ev), op)
  IN  \/ Refuse(code)
      \/ /\ code = "OK"
         /\ HasRoom(ev)
         /\ ~verdict.commit
         /\ Refuse(verdict.reason)
      \/ /\ code = "OK"
         /\ HasRoom(ev)
         /\ verdict.commit
         /\ log' = Recording(ev)
         /\ proj' = Applied(proj, ev)
         /\ reply' = Answer(op, verdict)

Perform(op) ==
  \/ Refuse(Precheck(op))
  \/ Precheck(op) = "OK" /\ Transact(op)

AcceptSnapshot == \E op \in AcceptSnapshots : Perform(op)

AcceptReview == \E op \in AcceptReviews : Perform(op)

AcceptCandidateReview == \E op \in AcceptCandidateReviews : Perform(op)

RevokeKey == \E op \in RevokeKeys : Perform(op)

RevokeArtifact == \E op \in RevokeArtifacts : Perform(op)

CheckAccess == \E op \in CheckAccesses : Perform(op)

CheckReview == \E op \in CheckReviews : Perform(op)

CheckCandidateReview == \E op \in CheckCandidateReviews : Perform(op)

(* A full, busy, closed, replaced, corrupt or unwritable store fails the    *)
(* call with one reason, and the caller cannot tell which it was.           *)
StoreUnavailable ==
  Refuse("STORE_UNAVAILABLE_OR_CORRUPT")

Next ==
  \/ AcceptSnapshot \/ AcceptReview \/ AcceptCandidateReview
  \/ RevokeKey \/ RevokeArtifact
  \/ CheckAccess \/ CheckReview \/ CheckCandidateReview
  \/ StoreUnavailable

Spec == Init /\ [][Next]_vars
-----------------------------------------------------------------------------
(* Type correctness; the history never outgrows the store's capacity.       *)
TypeOK ==
  /\ log \in Seq(Event)
  /\ Len(log) <= Capacity
  /\ proj \in Projection
  /\ reply.positive \in BOOLEAN

(* Projection.apply: recorded times never go back, although revocations     *)
(* advance only the projection's clock and not the verifier's.              *)
HistoryClockMonotone ==
  \A i, j \in DOMAIN log : i < j => 0 <= log[i].now /\ log[i].now <= log[j].now

(* InMemoryPolicyVerifier.#verify: along a stream the recorded revisions    *)
(* never decrease, and one revision never stands for two envelopes.         *)
NoRevisionRollback ==
  \A i, j \in DOMAIN log :
    /\ i < j
    /\ log[i].type = "artifact"
    /\ log[j].type = "artifact"
    /\ Stream(log[i].artifact) = Stream(log[j].artifact)
    => \/ log[i].artifact.revision < log[j].artifact.revision
       \/ log[i].artifact = log[j].artifact

(* DurablePolicySimulation.revokeKey and revokeArtifact: nothing signed by  *)
(* a revoked key or carrying a revoked id is recorded after the revocation. *)
NothingAfterRevocation ==
  \A i, j \in DOMAIN log :
    i < j /\ log[j].type = "artifact"
    => /\ log[i].type = "revoke-key" => log[j].artifact.key_id # log[i].keyId
       /\ log[i].type = "revoke-artifact"
          => <<log[j].artifact.kind, log[j].artifact.artifact_id>>
               # <<log[i].kind, log[i].artifactId>>

(* Projection.apply: over the whole history a reviewer has one record id    *)
(* per subject and a record id has one reviewer and one subject.            *)
StableReviewIdentity ==
  \A i, j \in DOMAIN log :
    IsReview(log[i]) /\ IsReview(log[j])
    => LET o == Owner(log[i].artifact)
           q == Owner(log[j].artifact)
       IN  SameOwner(o, q) <=> o.id = q.id

(* Every recorded artifact was signed by a trusted key for its purpose and  *)
(* was current when it was recorded, the ends of both windows included.     *)
AcceptedUnderTrust ==
  \A i \in DOMAIN log :
    log[i].type = "artifact"
    => LET a   == log[i].artifact
           key == TrustedKey[a.key_id]
       IN  /\ a.signed
           /\ a.kind \in key.purposes
           /\ key.notBefore <= a.issued_at
           /\ a.issued_at <= log[i].now
           /\ log[i].now < a.expires_at
           /\ a.expires_at <= key.expiresAt

(* DurablePolicySimulation.#transaction applies an event it has seen before *)
(* without appending it: that is sound because an event of the history that *)
(* is still accepted changes nothing.                                       *)
ReobservationIsIdempotent ==
  \A i \in DOMAIN log : ApplyCode(proj, log[i]) = "OK" => Applied(proj, log[i]) = proj

(* Projection, class: the projection accounts for the history it was built  *)
(* from, in everything that later checks consult.                           *)
ProjectionCoversHistory == Covers(log, proj)

ReviewCheck == {"checkReview", "checkCandidateReview"}

Positive(names) == reply.positive /\ reply.op.name \in names

(* DurablePolicySimulation.#checkReview: one recorded REJECT blocks its     *)
(* subject for good, whatever its reviewer or others record, whoever is     *)
(* revoked and however much time passes.                                    *)
RejectionIsFinal ==
  Positive(ReviewCheck)
  => \A i \in DOMAIN log :
       ~ /\ IsReview(log[i])
         /\ log[i].artifact.payload.subjectHash = reply.op.subject
         /\ log[i].artifact.payload.decision = "REJECT"

(* checkAccess and #checkReview: a positive answer rests on a snapshot that *)
(* was recorded at the time of the check and that no recorded snapshot of   *)
(* the organization, under any snapshot id, supersedes.                     *)
DecisionsUseNewestSnapshot ==
  Positive(ReviewCheck \cup {"checkAccess"})
  => /\ ArtifactEvent(reply.op.artifact, reply.op.now, None) \in Range(log)
     /\ \A i \in DOMAIN log :
          IsSnapshot(log[i]) => \/ log[i].artifact.revision < reply.op.artifact.revision
                                \/ log[i].artifact = reply.op.artifact

(* #checkReview: a subject is complete only while every record ever         *)
(* accepted for it is unrevoked and the latest version of each is signed by *)
(* an unrevoked key and unexpired; revoking one record id blocks the subject*)
(* for good.                                                                *)
CompletionNeedsLiveReviews ==
  Positive(ReviewCheck)
  => \A i \in DOMAIN log :
       IsReview(log[i]) /\ log[i].artifact.payload.subjectHash = reply.op.subject
       => LET a == proj.reviews[log[i].artifact.artifact_id]
          IN  /\ \A j \in DOMAIN log :
                   /\ log[j].type = "revoke-artifact" /\ log[j].kind = "review"
                      => log[j].artifactId # log[i].artifact.artifact_id
                   /\ log[j].type = "revoke-key" => log[j].keyId # a.key_id
              /\ log[i].artifact.revision <= a.revision
              /\ reply.op.now < a.expires_at
=============================================================================
