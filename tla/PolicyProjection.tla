-------------------------- MODULE PolicyProjection --------------------------
(***************************************************************************)
(* The projection of an accepted history, scripts/review-policy/           *)
(* durable-boundary.ts (class Projection): a verifier, the latest review   *)
(* per record id, the rejected subjects and the identity of each reviewer's*)
(* record for each subject, folded event by event.                         *)
(***************************************************************************)
EXTENDS PolicyVerifier

CONSTANTS
  SubjectHash,    \* hashes of review subjects (well-formed sha256 strings)
  RevocableKey,   \* key ids an operator may revoke, trusted or not
  RevocableId,    \* artifact ids an operator may revoke
  Time            \* clock readings, invalid (negative) ones included

ASSUME TimeAssumption == Time \subseteq Int
ASSUME NullHashAssumption == None \notin SubjectHash

(* Events of the history, and what may be offered as one.                   *)
ArtifactEvent(a, now, subjectHash) ==
  [type |-> "artifact", now |-> now, artifact |-> a, subjectHash |-> subjectHash]

RevokeKeyEvent(key, now) == [type |-> "revoke-key", now |-> now, keyId |-> key]

RevokeArtifactEvent(kind, id, now) ==
  [type |-> "revoke-artifact", now |-> now, kind |-> kind, artifactId |-> id]

Event ==
  {ArtifactEvent(a, now, h) : a \in Artifact, now \in Time, h \in SubjectHash \cup {None}}
    \cup {RevokeKeyEvent(key, now) : key \in RevocableKey, now \in Time}
    \cup {RevokeArtifactEvent(kind, id, now) : kind \in Kind, id \in RevocableId, now \in Time}

IsSnapshot(ev) == ev.type = "artifact" /\ ev.artifact.kind = "snapshot"

IsReview(ev) == ev.type = "artifact" /\ ev.artifact.kind = "review"

ReviewId == {a.artifact_id : a \in {b \in Artifact : b.kind = "review"}}

(* The maps identities (owner -> id) and recordOwners (id -> owner) always  *)
(* hold the same pairs; owners is that set of pairs.                        *)
Owner(a) == [reviewer |-> a.payload.reviewer, subjectHash |-> a.payload.subjectHash,
             id |-> a.payload.id]

SameOwner(o, q) == o.reviewer = q.reviewer /\ o.subjectHash = q.subjectHash

VerifierState ==
  [revokedKeys      : SUBSET RevocableKey,
   revokedArtifacts : SUBSET (Kind \X RevocableId),
   latest           : [Streams -> Artifact \cup {None}],
   lastTime         : Int]

Projection ==
  [verifier : VerifierState,
   now      : Int,
   reviews  : [ReviewId -> Artifact \cup {None}],
   rejected : SUBSET SubjectHash,
   owners   : SUBSET {Owner(a) : a \in {b \in Artifact : b.kind = "review"}}]

ASSUME ProjectionAssumption == None \notin Projection

NewProjection ==
  [verifier |-> NewVerifier,
   now      |-> -1,
   reviews  |-> [id \in ReviewId |-> None],
   rejected |-> {},
   owners   |-> {}]

(* Mutant of IdentityConflict: only recordOwners is consulted.              *)
IdentityConflictById(p, a) ==
  \E o \in p.owners : o.id = a.payload.id /\ ~SameOwner(o, Owner(a))

(* A reviewer has one record id per subject, and an id one owner, forever.  *)
IdentityConflict(p, a) ==
  \E o \in p.owners :
    \/ SameOwner(o, Owner(a)) /\ o.id # a.payload.id
    \/ o.id = a.payload.id /\ ~SameOwner(o, Owner(a))

ReviewCode(p, ev) ==
  LET code == VerifyCode(p.verifier, ev.artifact, "review", ev.now, ev.subjectHash)
  IN  IF ev.subjectHash \notin SubjectHash THEN "INVALID_SUBJECT_HASH"
      ELSE IF code # "OK" THEN code
      ELSE IF IdentityConflict(p, ev.artifact) THEN "REVIEW_IDENTITY_CONFLICT"
      ELSE "OK"

SnapshotCode(p, ev) ==
  IF ev.subjectHash # None THEN "INVALID_HISTORY_EVENT"
  ELSE VerifyCode(p.verifier, ev.artifact, "snapshot", ev.now, None)

(* Why Projection.apply refuses an event, or "OK".                          *)
ApplyCode(p, ev) ==
  IF ev.now < 0 \/ ev.now < p.now THEN "INVALID_OR_ROLLED_BACK_CLOCK"
  ELSE IF IsSnapshot(ev) THEN SnapshotCode(p, ev)
  ELSE IF IsReview(ev) THEN ReviewCode(p, ev)
  ELSE "OK"

ApplySnapshot(p, ev) ==
  [p EXCEPT !.verifier = Verified(p.verifier, ev.artifact, ev.now),
            !.now = ev.now]

(* Mutant of ApplyReview: a later approval clears the rejection.            *)
ApplyReviewClears(p, ev) ==
  LET a == ev.artifact
  IN  [verifier |-> Verified(p.verifier, a, ev.now),
       now      |-> ev.now,
       reviews  |-> [p.reviews EXCEPT ![a.artifact_id] = a],
       rejected |-> IF a.payload.decision = "REJECT"
                    THEN p.rejected \cup {a.payload.subjectHash}
                    ELSE p.rejected \ {a.payload.subjectHash},
       owners   |-> p.owners \cup {Owner(a)}]

ApplyReview(p, ev) ==
  LET a == ev.artifact
  IN  [verifier |-> Verified(p.verifier, a, ev.now),
       now      |-> ev.now,
       reviews  |-> [p.reviews EXCEPT ![a.artifact_id] = a],
       rejected |-> IF a.payload.decision = "REJECT"
                    THEN p.rejected \cup {a.payload.subjectHash} ELSE p.rejected,
       owners   |-> p.owners \cup {Owner(a)}]

ApplyRevokeKey(p, ev) ==
  [p EXCEPT !.verifier = RevokeKeyIn(p.verifier, ev.keyId), !.now = ev.now]

ApplyRevokeArtifact(p, ev) ==
  [p EXCEPT !.verifier = RevokeArtifactIn(p.verifier, ev.kind, ev.artifactId),
            !.now = ev.now]

(* The projection after an event that ApplyCode lets through.               *)
Applied(p, ev) ==
  IF IsSnapshot(ev) THEN ApplySnapshot(p, ev)
  ELSE IF IsReview(ev) THEN ApplyReview(p, ev)
  ELSE IF ev.type = "revoke-key" THEN ApplyRevokeKey(p, ev)
  ELSE ApplyRevokeArtifact(p, ev)
-----------------------------------------------------------------------------
(* What each part of a projection remembers of the history it was built     *)
(* from.                                                                    *)
ClockCovers(history, p) ==
  /\ p.verifier.lastTime <= p.now
  /\ \A i \in DOMAIN history :
       /\ 0 <= history[i].now /\ history[i].now <= p.now
       /\ history[i].type = "artifact" => history[i].now <= p.verifier.lastTime

LatestCovers(history, p) ==
  \A i \in DOMAIN history :
    history[i].type = "artifact"
    => LET newest == p.verifier.latest[Stream(history[i].artifact)]
       IN  /\ newest # None
           /\ history[i].artifact.revision < newest.revision \/ history[i].artifact = newest

RevocationsCover(history, p) ==
  \A i \in DOMAIN history :
    /\ history[i].type = "revoke-key" => history[i].keyId \in p.verifier.revokedKeys
    /\ history[i].type = "revoke-artifact"
       => <<history[i].kind, history[i].artifactId>> \in p.verifier.revokedArtifacts

(* What the projection remembers of one review of the history.              *)
Remembered(a, p) ==
  /\ Owner(a) \in p.owners
  /\ a.payload.id = a.artifact_id
  /\ p.reviews[a.artifact_id] = p.verifier.latest[Stream(a)]
  /\ a.payload.decision = "REJECT" => a.payload.subjectHash \in p.rejected

(* What is true of the record stored under an id.                           *)
Filed(id, p) ==
  p.reviews[id] # None
  => /\ p.reviews[id].artifact_id = id
     /\ p.reviews[id].payload.id = id
     /\ p.reviews[id].kind = "review"
     /\ Owner(p.reviews[id]) \in p.owners

ReviewsCover(history, p) ==
  /\ \A i \in DOMAIN history : IsReview(history[i]) => Remembered(history[i].artifact, p)
  /\ \A id \in ReviewId : Filed(id, p)

OwnersAgree(p) == \A o, q \in p.owners : SameOwner(o, q) <=> o.id = q.id

Covers(history, p) ==
  /\ ClockCovers(history, p) /\ LatestCovers(history, p)
  /\ RevocationsCover(history, p) /\ ReviewsCover(history, p) /\ OwnersAgree(p)
=============================================================================
