--------------------------- MODULE PolicyVerifier ---------------------------
(***************************************************************************)
(* The signature, trust, revocation and revision checks of                 *)
(* scripts/review-policy/verifier.ts (class InMemoryPolicyVerifier), as    *)
(* operators on a verifier state.                                          *)
(*                                                                         *)
(* An artifact (type SignedArtifact) is a record.  Its JSON schema check   *)
(* and its Ed25519 check are the Boolean fields wellFormed and signed; the *)
(* checks of its payload that involve nothing but the payload (its schema, *)
(* and for a snapshot the policy digest and the distinct ids in its lists) *)
(* are the Boolean field payload.wellFormed.  The canonical hash of an     *)
(* unsigned envelope is taken to be collision free, so the envelope itself *)
(* stands for its digest.                                                  *)
(***************************************************************************)
EXTENDS Integers

CONSTANTS
  Organization,   \* the organization the verifier was constructed for
  TrustedKey,     \* key id -> [principal, purposes, notBefore, expiresAt]
  Artifact,       \* the signed artifacts that callers may present
  None            \* absent value (undefined / null in the code)

Kind == {"snapshot", "review"}

(* Mutant of Stream: one stream of revisions per snapshot id.               *)
StreamPerId(a) == <<a.kind, a.artifact_id>>

(* An artifact id and the stream of revisions it belongs to. Snapshots of   *)
(* the organization share one stream, whatever their ids.                   *)
Stream(a) ==
  IF a.kind = "snapshot" THEN <<"snapshot", "organization-snapshot">>
                         ELSE <<"review", a.artifact_id>>

Streams == {Stream(a) : a \in Artifact}

(* Well-typed inputs: the bounds the envelope schema and the constructor of *)
(* the verifier impose. Everything else about an artifact is unconstrained. *)
ASSUME ArtifactAssumption ==
  /\ None \notin Artifact
  /\ \A a \in Artifact :
       /\ a.kind \in Kind
       /\ a.revision \in Nat \ {0}
       /\ a.issued_at \in Nat
       /\ a.expires_at \in Nat
       /\ a.wellFormed \in BOOLEAN
       /\ a.signed \in BOOLEAN

ASSUME TrustAssumption ==
  \A k \in DOMAIN TrustedKey :
    /\ TrustedKey[k].purposes \in (SUBSET Kind) \ {{}}
    /\ TrustedKey[k].notBefore \in Nat
    /\ TrustedKey[k].expiresAt \in Nat
    /\ TrustedKey[k].expiresAt > TrustedKey[k].notBefore

(* The state of a freshly constructed verifier. latest holds, for each      *)
(* stream, the envelope last verified in it (its revision and digest).      *)
NewVerifier ==
  [revokedKeys      |-> {},
   revokedArtifacts |-> {},
   latest           |-> [s \in Streams |-> None],
   lastTime         |-> -1]

RevokeKeyIn(v, key) == [v EXCEPT !.revokedKeys = @ \cup {key}]

(* Mutant of RevokeArtifactIn: only the last revocation is remembered.      *)
RevokeArtifactInForgets(v, kind, id) ==
  [v EXCEPT !.revokedArtifacts = {<<kind, id>>}]

RevokeArtifactIn(v, kind, id) ==
  [v EXCEPT !.revokedArtifacts = @ \cup {<<kind, id>>}]

(* now falls inside the artifact's window and both inside the key's.        *)
InValidityWindow(a, now) ==
  LET key == TrustedKey[a.key_id]
  IN  /\ a.issued_at >= key.notBefore
      /\ now >= key.notBefore
      /\ now < key.expiresAt
      /\ a.expires_at <= key.expiresAt
      /\ a.issued_at <= now
      /\ now < a.expires_at
      /\ a.expires_at > a.issued_at

(* The payload repeats what the envelope says.                              *)
SnapshotPayloadOK(a) ==
  /\ a.payload.wellFormed
  /\ a.payload.id = a.artifact_id
  /\ a.payload.organization = a.organization
  /\ a.payload.issued_at = a.issued_at
  /\ a.payload.expires_at = a.expires_at

ReviewPayloadOK(a, subjectHash) ==
  /\ a.payload.wellFormed
  /\ a.payload.id = a.artifact_id
  /\ a.payload.reviewer = TrustedKey[a.key_id].principal
  /\ a.payload.subjectHash = subjectHash
  /\ a.payload.reviewedAt = a.issued_at
  /\ a.payload.expiresAt = a.expires_at
  /\ ~a.payload.revoked

PayloadCode(a, subjectHash) ==
  IF a.kind = "snapshot"
  THEN IF SnapshotPayloadOK(a) THEN "OK" ELSE "INVALID_SNAPSHOT_PAYLOAD"
  ELSE IF ReviewPayloadOK(a, subjectHash) THEN "OK" ELSE "INVALID_REVIEW_PAYLOAD"

(* Mutant of RevisionCode: without the conflict check.                      *)
RevisionCodeNoConflict(v, a) ==
  LET last == v.latest[Stream(a)]
  IN  IF last # None /\ a.revision < last.revision THEN "REVISION_ROLLBACK" ELSE "OK"

(* An older revision, or another envelope under the revision last verified. *)
RevisionCode(v, a) ==
  LET last == v.latest[Stream(a)]
  IN  IF last = None                 THEN "OK"
      ELSE IF a.revision < last.revision THEN "REVISION_ROLLBACK"
      ELSE IF a.revision = last.revision /\ a # last THEN "REVISION_CONFLICT"
      ELSE "OK"

(* The first check that fails, in the code's order, or "OK".                *)
VerifyCode(v, a, kind, now, subjectHash) ==
  IF now < 0 \/ now < v.lastTime THEN "INVALID_OR_ROLLED_BACK_CLOCK"
  ELSE IF ~a.wellFormed \/ a.kind # kind THEN "INVALID_ENVELOPE"
  ELSE IF a.organization # Organization THEN "ORGANIZATION_MISMATCH"
  ELSE IF a.key_id \notin DOMAIN TrustedKey THEN "UNTRUSTED_SIGNER"
  ELSE IF kind \notin TrustedKey[a.key_id].purposes THEN "UNTRUSTED_SIGNER"
  ELSE IF a.key_id \in v.revokedKeys THEN "KEY_REVOKED"
  ELSE IF <<kind, a.artifact_id>> \in v.revokedArtifacts THEN "ARTIFACT_REVOKED"
  ELSE IF ~InValidityWindow(a, now) THEN "OUTSIDE_VALIDITY_WINDOW"
  ELSE IF ~a.signed THEN "INVALID_SIGNATURE"
  ELSE IF PayloadCode(a, subjectHash) # "OK" THEN PayloadCode(a, subjectHash)
  ELSE RevisionCode(v, a)

(* What a successful verification leaves behind.                            *)
Verified(v, a, now) ==
  [v EXCEPT !.latest[Stream(a)] = a, !.lastTime = now]
=============================================================================
