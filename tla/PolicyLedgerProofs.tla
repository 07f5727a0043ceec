------------------------- MODULE PolicyLedgerProofs -------------------------
(***************************************************************************)
(* Proofs about PolicyLedger, for every set of keys, artifacts, subjects   *)
(* and times and every scoped policy: its invariants and, from them, that  *)
(* the durable boundary, which rebuilds its projection from the stored     *)
(* history in every transaction, implements the ledger, which keeps it,    *)
(* for every history and every capacity; and what a completed candidate    *)
(* review rests on when the ledger's checks are the real ones              *)
(* (CandidateBoundary).                                                    *)
(***************************************************************************)
EXTENDS CandidateBoundary, DurableBoundary, FiniteSetTheorems, WellFoundedInduction, TLAPS


(* What InMemoryPolicyVerifier.#verify has established when it returns ok.  *)
Passes(v, a, kind, now, h) ==
  /\ ~(now < 0) /\ ~(now < v.lastTime)
  /\ a.kind = kind
  /\ a.key_id \in DOMAIN TrustedKey
  /\ kind \in TrustedKey[a.key_id].purposes
  /\ a.key_id \notin v.revokedKeys
  /\ <<kind, a.artifact_id>> \notin v.revokedArtifacts
  /\ InValidityWindow(a, now)
  /\ a.signed
  /\ PayloadCode(a, h) = "OK"
  /\ RevisionCode(v, a) = "OK"

(* A verification that returns ok has passed every check.                   *)
LEMMA VerifyAccepts ==
  ASSUME NEW v, NEW a, NEW kind, NEW now, NEW h,
         VerifyCode(v, a, kind, now, h) = "OK"
  PROVE  Passes(v, a, kind, now, h)
  BY DEF VerifyCode, Passes

(* A verified envelope is newer than the last of its stream, or is it.      *)
LEMMA RevisionAccepts ==
  ASSUME NEW v, NEW a \in Artifact, RevisionCode(v, a) = "OK",
         v.latest \in [Streams -> Artifact \cup {None}]
  PROVE  LET last == v.latest[Stream(a)]
         IN  last # None => last.revision < a.revision \/ last = a
<1>1. Stream(a) \in Streams BY DEF Streams
<1>2. CASE v.latest[Stream(a)] = None BY <1>2
<1>3. CASE v.latest[Stream(a)] # None
  <2>1. v.latest[Stream(a)] \in Artifact BY <1>1, <1>3
  <2>2. a.revision \in Nat /\ v.latest[Stream(a)].revision \in Nat
    BY <2>1, ArtifactAssumption
  <2>3. QED BY <1>3, <2>2 DEF RevisionCode
<1>4. QED BY <1>2, <1>3

(* What Projection.apply has established when it does not throw.            *)
LEMMA ApplyAccepts ==
  ASSUME NEW p, NEW ev, ev.now \in Int, ApplyCode(p, ev) = "OK"
  PROVE  /\ ~(ev.now < 0) /\ ~(ev.now < p.now)
         /\ IsSnapshot(ev) => /\ ev.subjectHash = None
                              /\ VerifyCode(p.verifier, ev.artifact, "snapshot", ev.now, None) = "OK"
         /\ ~IsSnapshot(ev) /\ IsReview(ev) =>
              /\ ev.subjectHash \in SubjectHash
              /\ VerifyCode(p.verifier, ev.artifact, "review", ev.now, ev.subjectHash) = "OK"
              /\ ~IdentityConflict(p, ev.artifact)
  BY DEF ApplyCode, SnapshotCode, ReviewCode

(* The shape of the four kinds of event, and of the event of an operation.  *)
LEMMA EventShape ==
  ASSUME NEW ev \in Event
  PROVE  /\ ev.now \in Int
         /\ \/ /\ ev.type = "artifact" /\ ev.artifact \in Artifact
               /\ ev.subjectHash \in SubjectHash \cup {None}
               /\ IsSnapshot(ev) \/ IsReview(ev)
               /\ IsSnapshot(ev) => ev.artifact.kind = "snapshot" /\ ~IsReview(ev)
               /\ IsReview(ev) => ev.artifact.kind = "review" /\ ~IsSnapshot(ev)
            \/ /\ ev.type = "revoke-key" /\ ev.keyId \in RevocableKey
               /\ ~IsSnapshot(ev) /\ ~IsReview(ev)
            \/ /\ ev.type = "revoke-artifact" /\ ev.kind \in Kind /\ ev.artifactId \in RevocableId
               /\ ~IsSnapshot(ev) /\ ~IsReview(ev)
  BY ArtifactAssumption, TimeAssumption
     DEF Event, ArtifactEvent, RevokeKeyEvent, RevokeArtifactEvent, IsSnapshot, IsReview, Kind

(* An artifact belongs to a stream, and a review has a record id.           *)
LEMMA StreamTyped ==
  ASSUME NEW a \in Artifact
  PROVE  /\ Stream(a) \in Streams
         /\ a.kind = "review" => a.artifact_id \in ReviewId
  BY DEF Streams, ReviewId

(* A successful verification moves one stream and the clock, nothing else.  *)
LEMMA VerifiedTyped ==
  ASSUME NEW v \in VerifierState, NEW a \in Artifact, NEW now \in Int
  PROVE  /\ Verified(v, a, now) \in VerifierState
         /\ Verified(v, a, now).revokedKeys = v.revokedKeys
         /\ Verified(v, a, now).revokedArtifacts = v.revokedArtifacts
         /\ Verified(v, a, now).lastTime = now
         /\ Verified(v, a, now).latest = [v.latest EXCEPT ![Stream(a)] = a]
  BY StreamTyped DEF Verified, VerifierState

(* Projection.apply, snapshot branch: what it writes.                       *)
LEMMA SnapshotEffect ==
  ASSUME NEW p \in Projection, NEW ev \in Event, IsSnapshot(ev)
  PROVE  LET q == Applied(p, ev)
         IN  /\ q \in Projection
             /\ q.now = ev.now
             /\ q.verifier = Verified(p.verifier, ev.artifact, ev.now)
             /\ q.reviews = p.reviews /\ q.rejected = p.rejected /\ q.owners = p.owners
<1>1. ev.now \in Int /\ ev.artifact \in Artifact BY EventShape DEF IsSnapshot
<1>2. Verified(p.verifier, ev.artifact, ev.now) \in VerifierState
  BY <1>1, VerifiedTyped DEF Projection
<1>3. Applied(p, ev) = ApplySnapshot(p, ev) BY DEF Applied
<1>4. QED BY <1>1, <1>2, <1>3 DEF ApplySnapshot, Projection

(* Projection.apply, review branch: what it writes.                         *)
LEMMA ReviewEffect ==
  ASSUME NEW p \in Projection, NEW ev \in Event, IsReview(ev), ApplyCode(p, ev) = "OK"
  PROVE  LET q == Applied(p, ev)
             a == ev.artifact
         IN  /\ q \in Projection
             /\ q.now = ev.now
             /\ q.verifier = Verified(p.verifier, a, ev.now)
             /\ q.reviews = [p.reviews EXCEPT ![a.artifact_id] = a]
             /\ q.owners = p.owners \cup {Owner(a)}
             /\ q.rejected = IF a.payload.decision = "REJECT"
                             THEN p.rejected \cup {a.payload.subjectHash} ELSE p.rejected
<1> DEFINE a == ev.artifact
<1>1. ev.now \in Int /\ a \in Artifact /\ ~IsSnapshot(ev) /\ a.kind = "review"
  BY EventShape DEF IsReview
<1>2. Verified(p.verifier, a, ev.now) \in VerifierState
  BY <1>1, VerifiedTyped DEF Projection
<1>3. Applied(p, ev) = ApplyReview(p, ev) BY <1>1 DEF Applied
<1>4. a.artifact_id \in ReviewId BY <1>1, StreamTyped
<1>5. a.payload.subjectHash \in SubjectHash
  <2>1. /\ ev.subjectHash \in SubjectHash
        /\ VerifyCode(p.verifier, a, "review", ev.now, ev.subjectHash) = "OK"
    BY <1>1, ApplyAccepts
  <2>2. PayloadCode(a, ev.subjectHash) = "OK"
    <3>1. Passes(p.verifier, a, "review", ev.now, ev.subjectHash) BY <2>1, VerifyAccepts
    <3>2. QED BY <3>1 DEF Passes
  <2>3. QED BY <1>1, <2>1, <2>2 DEF PayloadCode, ReviewPayloadOK
<1>6. Owner(a) \in {Owner(b) : b \in {c \in Artifact : c.kind = "review"}} BY <1>1
<1>7. /\ p.reviews \in [ReviewId -> Artifact \cup {None}]
      /\ p.rejected \in SUBSET SubjectHash
      /\ p.owners \in SUBSET {Owner(b) : b \in {c \in Artifact : c.kind = "review"}}
  BY DEF Projection
<1> DEFINE rj == IF a.payload.decision = "REJECT"
                 THEN p.rejected \cup {a.payload.subjectHash} ELSE p.rejected
           rv == [p.reviews EXCEPT ![a.artifact_id] = a]
           ow == p.owners \cup {Owner(a)}
           vf == Verified(p.verifier, a, ev.now)
<1>8. ApplyReview(p, ev) =
        [verifier |-> vf, now |-> ev.now, reviews |-> rv, rejected |-> rj, owners |-> ow]
  BY DEF ApplyReview
<1>9. rj \in SUBSET SubjectHash BY <1>5, <1>7
<1>10. rv \in [ReviewId -> Artifact \cup {None}] BY <1>1, <1>4, <1>7
<1>11. ow \in SUBSET {Owner(b) : b \in {c \in Artifact : c.kind = "review"}} BY <1>6, <1>7
<1> HIDE DEF rj, rv, ow, vf
<1>12. [verifier |-> vf, now |-> ev.now, reviews |-> rv, rejected |-> rj, owners |-> ow] \in Projection
  BY <1>1, <1>2, <1>9, <1>10, <1>11 DEF Projection, vf
<1>13. QED BY <1>3, <1>8, <1>12 DEF rj, rv, ow, vf

(* Projection.apply, revocation branches: what they write.                  *)
LEMMA RevocationEffect ==
  ASSUME NEW p \in Projection, NEW ev \in Event, ev.type # "artifact"
  PROVE  LET q == Applied(p, ev)
         IN  /\ q \in Projection
             /\ q.now = ev.now
             /\ q.reviews = p.reviews /\ q.rejected = p.rejected /\ q.owners = p.owners
             /\ q.verifier.latest = p.verifier.latest
             /\ q.verifier.lastTime = p.verifier.lastTime
             /\ p.verifier.revokedKeys \subseteq q.verifier.revokedKeys
             /\ p.verifier.revokedArtifacts \subseteq q.verifier.revokedArtifacts
             /\ ev.type = "revoke-key" => q.verifier.revokedKeys = p.verifier.revokedKeys \cup {ev.keyId}
             /\ ev.type = "revoke-artifact" =>
                  q.verifier.revokedArtifacts =
                    p.verifier.revokedArtifacts \cup {<<ev.kind, ev.artifactId>>}
<1>1. ev.now \in Int /\ ~IsSnapshot(ev) /\ ~IsReview(ev) BY EventShape
<1> DEFINE v == p.verifier
<1>2. v \in VerifierState BY DEF Projection
<1>3. CASE ev.type = "revoke-key"
  <2> DEFINE w == RevokeKeyIn(v, ev.keyId)
  <2>1. ev.keyId \in RevocableKey BY <1>3, EventShape
  <2>2. Applied(p, ev) = [p EXCEPT !.verifier = w, !.now = ev.now]
    BY <1>1, <1>3 DEF Applied, ApplyRevokeKey
  <2>3. /\ w \in VerifierState /\ w.latest = v.latest /\ w.lastTime = v.lastTime
        /\ w.revokedKeys = v.revokedKeys \cup {ev.keyId}
        /\ w.revokedArtifacts = v.revokedArtifacts
    BY <1>2, <2>1 DEF RevokeKeyIn, VerifierState
  <2> HIDE DEF w
  <2>4. QED BY <1>1, <1>3, <2>2, <2>3 DEF Projection
<1>4. CASE ev.type = "revoke-artifact"
  <2> DEFINE w == RevokeArtifactIn(v, ev.kind, ev.artifactId)
  <2>1. ev.kind \in Kind /\ ev.artifactId \in RevocableId BY <1>4, EventShape
  <2>2. Applied(p, ev) = [p EXCEPT !.verifier = w, !.now = ev.now]
    BY <1>1, <1>4 DEF Applied, ApplyRevokeArtifact
  <2>3. /\ w \in VerifierState /\ w.latest = v.latest /\ w.lastTime = v.lastTime
        /\ w.revokedKeys = v.revokedKeys
        /\ w.revokedArtifacts = v.revokedArtifacts \cup {<<ev.kind, ev.artifactId>>}
    BY <1>2, <2>1 DEF RevokeArtifactIn, VerifierState
  <2> HIDE DEF w
  <2>4. QED BY <1>1, <1>4, <2>2, <2>3 DEF Projection
<1>5. QED BY <1>3, <1>4, EventShape
-----------------------------------------------------------------------------
(* The two kinds of step: an operation that commits, and anything else.     *)
Commits(op) ==
  /\ Precheck(op) = "OK"
  /\ ApplyCode(proj, EventOf(op)) = "OK"
  /\ HasRoom(EventOf(op))
  /\ log' = Recording(EventOf(op))
  /\ proj' = Applied(proj, EventOf(op))
  /\ reply' = Answer(op, VerdictOf(Applied(proj, EventOf(op)), op))

Quiet ==
  /\ UNCHANGED <<log, proj>>
  /\ reply' = reply \/ \E code : reply' = Refusal(code)

(* An operation commits its event or changes nothing but the answer.        *)
LEMMA PerformShape ==
  ASSUME NEW op, Perform(op)
  PROVE  Quiet \/ Commits(op)
  BY DEF Perform, Transact, Refuse, Quiet, Commits

(* Every step is quiet or commits the event of one operation.               *)
LEMMA NextShape ==
  ASSUME [Next]_vars
  PROVE  Quiet \/ \E op \in Operation : Commits(op)
<1>1. CASE UNCHANGED vars BY <1>1 DEF vars, Quiet
<1>2. CASE AcceptSnapshot BY <1>2, PerformShape DEF AcceptSnapshot, Operation
<1>3. CASE AcceptReview BY <1>3, PerformShape DEF AcceptReview, Operation
<1>4. CASE AcceptCandidateReview BY <1>4, PerformShape DEF AcceptCandidateReview, Operation
<1>5. CASE RevokeKey BY <1>5, PerformShape DEF RevokeKey, Operation
<1>6. CASE RevokeArtifact BY <1>6, PerformShape DEF RevokeArtifact, Operation
<1>7. CASE CheckAccess BY <1>7, PerformShape DEF CheckAccess, Operation
<1>8. CASE CheckReview BY <1>8, PerformShape DEF CheckReview, Operation
<1>9. CASE CheckCandidateReview BY <1>9, PerformShape DEF CheckCandidateReview, Operation
<1>10. CASE StoreUnavailable BY <1>10 DEF StoreUnavailable, Refuse, Quiet
<1>11. QED BY <1>1, <1>2, <1>3, <1>4, <1>5, <1>6, <1>7, <1>8, <1>9, <1>10 DEF Next

(* An operation whose event the projection accepts offers a proper event.   *)
LEMMA OperationEvent ==
  ASSUME NEW p, NEW op \in Operation, ApplyCode(p, EventOf(op)) = "OK"
  PROVE  EventOf(op) \in Event
<1> DEFINE ev == EventOf(op)
<1>1. ASSUME NEW a \in Artifact, NEW now \in Time, ev = ArtifactEvent(a, now, None)
      PROVE  ev \in Event
  BY <1>1 DEF Event
<1>2. ASSUME NEW a \in Artifact, NEW s \in Subject, NEW now \in Time,
             ev = ArtifactEvent(a, now, s)
      PROVE  ev \in Event
  <2>1. ev.now \in Int /\ ev.type = "artifact" /\ ev.artifact = a /\ ev.subjectHash = s
    BY <1>2, TimeAssumption DEF ArtifactEvent
  <2>2. IsSnapshot(ev) => s = None BY <2>1, ApplyAccepts
  <2>3. ~IsSnapshot(ev) => s \in SubjectHash
    <3>1. a.kind \in Kind BY ArtifactAssumption
    <3>2. ~IsSnapshot(ev) => IsReview(ev) BY <2>1, <3>1 DEF IsSnapshot, IsReview, Kind
    <3>3. QED BY <2>1, <3>2, ApplyAccepts
  <2>4. QED BY <1>2, <2>2, <2>3 DEF Event
<1>3. CASE op \in AcceptSnapshots BY <1>1, <1>3 DEF EventOf, AcceptSnapshots
<1>4. CASE op \in AcceptReviews BY <1>2, <1>4 DEF EventOf, AcceptReviews
<1>5. CASE op \in AcceptCandidateReviews BY <1>2, <1>5 DEF EventOf, AcceptCandidateReviews
<1>6. CASE op \in RevokeKeys BY <1>6 DEF EventOf, RevokeKeys, Event
<1>7. CASE op \in RevokeArtifacts BY <1>7 DEF EventOf, RevokeArtifacts, Event
<1>8. CASE op \in CheckAccesses BY <1>1, <1>8 DEF EventOf, CheckAccesses
<1>9. CASE op \in CheckReviews BY <1>1, <1>9 DEF EventOf, CheckReviews
<1>10. CASE op \in CheckCandidateReviews BY <1>1, <1>10 DEF EventOf, CheckCandidateReviews
<1>11. QED BY <1>3, <1>4, <1>5, <1>6, <1>7, <1>8, <1>9, <1>10 DEF Operation

(* A history, once the event is recorded in it.                             *)
Extended(h, ev) == IF ev \in Range(h) THEN h ELSE Append(h, ev)

(* Appending: which events the new history has, and in which order.         *)
LEMMA RecordingShape ==
  ASSUME NEW h \in Seq(Event), NEW ev \in Event, NEW h2, h2 = Extended(h, ev)
  PROVE  /\ h2 \in Seq(Event)
         /\ \A i \in DOMAIN h2 : \/ i \in DOMAIN h /\ h2[i] = h[i]
                                 \/ /\ i \notin DOMAIN h /\ h2[i] = ev
                                    /\ \A j \in DOMAIN h : j < i
         /\ \A i, j \in DOMAIN h2 : i < j => i \in DOMAIN h /\ h2[i] = h[i]
         /\ ev \in Range(h2)
         /\ DOMAIN h2 \subseteq Nat
<1>1. CASE ev \in Range(h)
  BY <1>1 DEF Extended, Range
<1>2. CASE ev \notin Range(h)
  <2>1. h2 = Append(h, ev) BY <1>2 DEF Extended
  <2>2. QED BY <1>2, <2>1 DEF Range
<1>3. QED BY <1>1, <1>2
-----------------------------------------------------------------------------
(* Both kinds of artifact event, once accepted.                             *)
Admitted(p, q, ev, a) ==
  /\ a \in Artifact
  /\ q.verifier = Verified(p.verifier, a, ev.now)
  /\ a.key_id \in DOMAIN TrustedKey
  /\ a.kind \in TrustedKey[a.key_id].purposes
  /\ a.key_id \notin p.verifier.revokedKeys
  /\ <<a.kind, a.artifact_id>> \notin p.verifier.revokedArtifacts
  /\ InValidityWindow(a, ev.now)
  /\ a.signed
  /\ RevisionCode(p.verifier, a) = "OK"

(* An artifact event that the projection accepts has been admitted.         *)
LEMMA AcceptedArtifact ==
  ASSUME NEW p \in Projection, NEW ev \in Event, ev.type = "artifact",
         ApplyCode(p, ev) = "OK"
  PROVE  Admitted(p, Applied(p, ev), ev, ev.artifact)
<1> DEFINE a == ev.artifact
<1>1. a \in Artifact /\ ev.now \in Int BY EventShape
<1>2. CASE IsSnapshot(ev)
  <2>1. VerifyCode(p.verifier, a, "snapshot", ev.now, None) = "OK" BY <1>1, <1>2, ApplyAccepts
  <2>2. Passes(p.verifier, a, "snapshot", ev.now, None) BY <2>1, VerifyAccepts
  <2>3. Applied(p, ev).verifier = Verified(p.verifier, a, ev.now) BY <1>2, SnapshotEffect
  <2>4. QED BY <1>1, <2>2, <2>3 DEF Passes, Admitted
<1>3. CASE IsReview(ev)
  <2>1. VerifyCode(p.verifier, a, "review", ev.now, ev.subjectHash) = "OK"
    BY <1>1, <1>3, ApplyAccepts, EventShape
  <2>2. Passes(p.verifier, a, "review", ev.now, ev.subjectHash) BY <2>1, VerifyAccepts
  <2>3. Applied(p, ev).verifier = Verified(p.verifier, a, ev.now) BY <1>3, ReviewEffect
  <2>4. QED BY <1>1, <2>2, <2>3 DEF Passes, Admitted
<1>4. QED BY <1>2, <1>3, EventShape

(* Applying an accepted event yields a projection at the event's time.      *)
LEMMA AppliedTyped ==
  ASSUME NEW p \in Projection, NEW ev \in Event, ApplyCode(p, ev) = "OK"
  PROVE  Applied(p, ev) \in Projection /\ Applied(p, ev).now = ev.now
<1>1. CASE IsSnapshot(ev) BY <1>1, SnapshotEffect
<1>2. CASE IsReview(ev) BY <1>2, ReviewEffect
<1>3. CASE ev.type # "artifact" BY <1>3, RevocationEffect
<1>4. QED BY <1>1, <1>2, <1>3, EventShape

(* Every verdict is positive or not.                                        *)
LEMMA VerdictTyped ==
  ASSUME NEW q, NEW op
  PROVE  VerdictOf(q, op).positive \in BOOLEAN
<1>1. AccessVerdict(q, op).positive \in BOOLEAN
  BY DEF AccessVerdict, Throws, Returns
<1>2. CandidateVerdict(q, op).positive \in BOOLEAN
  BY DEF CandidateVerdict, Throws, Returns
<1>3. ReviewVerdict(q, op).positive \in BOOLEAN
  BY <1>2 DEF ReviewVerdict, Throws, Returns
<1>4. Recorded.positive \in BOOLEAN BY DEF Recorded
<1>5. CASE op.name = "checkAccess" BY <1>1, <1>5 DEF VerdictOf
<1>6. CASE op.name \in {"checkReview", "checkCandidateReview"} BY <1>3, <1>6 DEF VerdictOf
<1>7. CASE op.name \notin {"checkAccess", "checkReview", "checkCandidateReview"}
  BY <1>4, <1>7 DEF VerdictOf
<1>8. QED BY <1>5, <1>6, <1>7

(* The initial state is well typed.                                         *)
LEMMA InitTyped == Init => TypeOK
<1> SUFFICES ASSUME Init PROVE TypeOK OBVIOUS
<1>1. NewVerifier \in VerifierState BY DEF NewVerifier, VerifierState
<1>2. proj \in Projection BY <1>1 DEF Init, NewProjection, Projection
<1>3. log \in Seq(Event) /\ Len(log) <= Capacity BY CapacityAssumption DEF Init
<1>4. reply.positive \in BOOLEAN BY DEF Init, Refusal
<1>5. QED BY <1>2, <1>3, <1>4 DEF TypeOK

(* Every step preserves the types and the capacity.                         *)
LEMMA NextTyped == TypeOK /\ [Next]_vars => TypeOK'
<1> SUFFICES ASSUME TypeOK, [Next]_vars PROVE TypeOK' OBVIOUS
<1>1. CASE Quiet
  <2>1. ASSUME NEW code, reply' = Refusal(code) PROVE reply'.positive \in BOOLEAN
    BY <2>1 DEF Refusal
  <2>2. reply' = reply => reply'.positive \in BOOLEAN BY DEF TypeOK
  <2>3. QED BY <1>1, <2>1, <2>2 DEF Quiet, TypeOK
<1>2. ASSUME NEW op \in Operation, Commits(op) PROVE TypeOK'
  <2> DEFINE ev == EventOf(op)
  <2>1. ev \in Event BY <1>2, OperationEvent DEF Commits
  <2>2. log' \in Seq(Event) /\ Len(log') <= Capacity
    <3>1. log \in Seq(Event) /\ Len(log) <= Capacity /\ HasRoom(ev) /\ log' = Recording(ev)
      BY <1>2 DEF Commits, TypeOK
    <3>2. CASE ev \in Range(log) BY <3>1, <3>2 DEF Recording
    <3>3. CASE ev \notin Range(log)
      BY <2>1, <3>1, <3>3, CapacityAssumption DEF Recording, HasRoom
    <3>4. QED BY <3>2, <3>3
  <2>3. proj' \in Projection BY <1>2, <2>1, AppliedTyped DEF Commits, TypeOK
  <2>4. reply'.positive \in BOOLEAN BY <1>2, VerdictTyped DEF Commits, Answer
  <2>5. QED BY <2>2, <2>3, <2>4 DEF TypeOK
<1>3. QED BY <1>1, <1>2, NextShape

(* Type correctness: the history stays a sequence of well-formed events     *)
(* within the capacity of the store, whatever callers present.              *)
THEOREM TypeCorrect == Spec => []TypeOK
  BY InitTyped, NextTyped, PTL DEF Spec
-----------------------------------------------------------------------------
(* The projection p of history h accepts the event ev.                      *)
Accepts(h, p, ev) ==
  /\ h \in Seq(Event) /\ p \in Projection /\ Covers(h, p)
  /\ ev \in Event
  /\ ApplyCode(p, ev) = "OK"

(* An event of the new history is one of the old ones or the accepted one.  *)
LEMMA ExtendedHistory ==
  ASSUME NEW h, NEW p, NEW ev, Accepts(h, p, ev)
  PROVE  LET q  == Applied(p, ev)
             h2 == Extended(h, ev)
         IN  /\ \A i \in DOMAIN h2 : \/ i \in DOMAIN h /\ h2[i] = h[i] /\ h[i] \in Event
                                     \/ h2[i] = ev
             /\ \A i, j \in DOMAIN h2 :
                  i < j => /\ i \in DOMAIN h /\ h2[i] = h[i] /\ h[i] \in Event
                           /\ \/ j \in DOMAIN h /\ h2[j] = h[j] /\ h[j] \in Event
                              \/ h2[j] = ev
             /\ ev \in Range(h2)
             /\ p \in Projection /\ q \in Projection
             /\ ev \in Event /\ ev.now \in Int
             /\ ApplyCode(p, ev) = "OK"
<1> DEFINE q  == Applied(p, ev)
           h2 == Extended(h, ev)
<1>1. h \in Seq(Event) /\ ev \in Event /\ h2 = Extended(h, ev) BY DEF Accepts
<1>2. \A i \in DOMAIN h : h[i] \in Event BY <1>1
<1>3. q \in Projection /\ p \in Projection BY AppliedTyped DEF Accepts
<1>4. ev.now \in Int BY <1>1, EventShape
<1>5. QED BY <1>1, <1>2, <1>3, <1>4, RecordingShape DEF Accepts

(* What accepting an artifact does to the verifier.                         *)
LEMMA ArtifactEffect ==
  ASSUME NEW p \in Projection, NEW ev \in Event, ApplyCode(p, ev) = "OK", ev.type = "artifact"
  PROVE  LET q == Applied(p, ev)
         IN  /\ Admitted(p, q, ev, ev.artifact)
             /\ ev.artifact \in Artifact
             /\ Stream(ev.artifact) \in Streams
             /\ q.verifier.lastTime = ev.now
             /\ q.verifier.revokedKeys = p.verifier.revokedKeys
             /\ q.verifier.revokedArtifacts = p.verifier.revokedArtifacts
             /\ q.verifier.latest = [p.verifier.latest EXCEPT ![Stream(ev.artifact)] = ev.artifact]
             /\ RevisionCode(p.verifier, ev.artifact) = "OK"
<1> DEFINE q == Applied(p, ev)
<1>1. q = Applied(p, ev) /\ ev.now \in Int BY EventShape
<1>2. Admitted(p, q, ev, ev.artifact) BY <1>1, AcceptedArtifact
<1>3. /\ ev.artifact \in Artifact /\ p.verifier \in VerifierState
      /\ q.verifier = Verified(p.verifier, ev.artifact, ev.now)
      /\ RevisionCode(p.verifier, ev.artifact) = "OK"
  BY <1>1, <1>2 DEF Admitted, Projection
<1>4. QED BY <1>1, <1>2, <1>3, VerifiedTyped, StreamTyped

(* Accepting an event keeps the clocks at or past every recorded time.      *)
LEMMA ClockStep ==
  ASSUME NEW h, NEW p, NEW ev, Accepts(h, p, ev)
  PROVE  ClockCovers(Extended(h, ev), Applied(p, ev))
<1> DEFINE q  == Applied(p, ev)
           h2 == Extended(h, ev)
<1>1. q.now = ev.now BY ExtendedHistory, AppliedTyped
<1>2. 0 <= ev.now /\ p.now <= ev.now /\ p.now \in Int /\ p.verifier.lastTime \in Int
  BY ExtendedHistory, ApplyAccepts DEF Projection, VerifierState
<1>3. p.verifier.lastTime <= p.now BY DEF Accepts, Covers, ClockCovers
<1>4. /\ q.verifier.lastTime <= ev.now
      /\ p.verifier.lastTime <= q.verifier.lastTime
      /\ ev.type = "artifact" => q.verifier.lastTime = ev.now
  <2>1. CASE ev.type = "artifact"
    <3>1. q.verifier.lastTime = ev.now BY <2>1, ArtifactEffect DEF Accepts
    <3>2. QED BY <1>2, <1>3, <3>1, ExtendedHistory
  <2>2. CASE ev.type # "artifact"
    <3>1. q.verifier.lastTime = p.verifier.lastTime BY <2>2, ExtendedHistory, RevocationEffect
    <3>2. QED BY <1>2, <1>3, <2>2, <3>1, ExtendedHistory
  <2>3. QED BY <2>1, <2>2
<1>5. q.verifier.lastTime \in Int BY ExtendedHistory DEF Projection, VerifierState
<1>6. ASSUME NEW i \in DOMAIN h2
      PROVE  /\ 0 <= h2[i].now /\ h2[i].now <= ev.now
             /\ h2[i].type = "artifact" => h2[i].now <= q.verifier.lastTime
  <2>1. CASE i \in DOMAIN h /\ h2[i] = h[i] /\ h[i] \in Event
    <3>1. /\ 0 <= h[i].now /\ h[i].now <= p.now /\ h[i].now \in Int
          /\ h[i].type = "artifact" => h[i].now <= p.verifier.lastTime
      BY <2>1, EventShape DEF Accepts, Covers, ClockCovers
    <3>2. QED BY <1>2, <1>4, <1>5, <2>1, <3>1, ExtendedHistory
  <2>2. CASE h2[i] = ev BY <1>2, <1>4, <2>2, ExtendedHistory
  <2>3. QED BY <2>1, <2>2, ExtendedHistory
<1>7. QED BY <1>1, <1>4, <1>6 DEF ClockCovers

(* Accepting an event keeps the newest revision of every stream.            *)
LEMMA LatestStep ==
  ASSUME NEW h, NEW p, NEW ev, Accepts(h, p, ev)
  PROVE  LatestCovers(Extended(h, ev), Applied(p, ev))
<1> DEFINE q  == Applied(p, ev)
           h2 == Extended(h, ev)
           v  == p.verifier
<1>1. v \in VerifierState /\ v.latest \in [Streams -> Artifact \cup {None}]
  BY ExtendedHistory DEF Projection, VerifierState
<1>2. CASE ev.type = "artifact"
  <2> DEFINE a == ev.artifact
  <2>1. /\ a \in Artifact
        /\ q.verifier.latest = [v.latest EXCEPT ![Stream(a)] = a]
        /\ RevisionCode(v, a) = "OK"
    BY <1>2, ArtifactEffect DEF Accepts
  <2>2. v.latest[Stream(a)] # None
        => v.latest[Stream(a)].revision < a.revision \/ v.latest[Stream(a)] = a
    BY <1>1, <2>1, RevisionAccepts
  <2>3. Stream(a) \in Streams BY <2>1, StreamTyped
  <2>4. ASSUME NEW i \in DOMAIN h2, h2[i].type = "artifact"
        PROVE  LET last == q.verifier.latest[Stream(h2[i].artifact)]
               IN  last # None /\ (h2[i].artifact.revision < last.revision \/ h2[i].artifact = last)
    <3>1. CASE h2[i] = ev BY <2>1, <2>3, <3>1, ArtifactAssumption, <1>1
    <3>2. CASE i \in DOMAIN h /\ h2[i] = h[i] /\ h[i] \in Event
      <4> DEFINE b == h[i].artifact
      <4>1. b \in Artifact /\ Stream(b) \in Streams BY <2>4, <3>2, EventShape, StreamTyped
      <4>2. /\ v.latest[Stream(b)] # None
            /\ b.revision < v.latest[Stream(b)].revision \/ b = v.latest[Stream(b)]
        BY <2>4, <3>2 DEF Accepts, Covers, LatestCovers
      <4>3. CASE Stream(b) = Stream(a)
        <5>1. q.verifier.latest[Stream(b)] = a BY <1>1, <2>1, <2>3, <4>3
        <5>2. v.latest[Stream(a)] \in Artifact BY <1>1, <2>3, <4>2, <4>3
        <5>3. b.revision < a.revision \/ b = a
          <6>1. b.revision \in Nat /\ a.revision \in Nat /\ v.latest[Stream(a)].revision \in Nat
            BY <2>1, <4>1, <5>2, ArtifactAssumption
          <6>2. QED BY <2>2, <4>2, <4>3, <6>1
        <5>4. a # None BY <2>1, ArtifactAssumption
        <5>5. QED BY <3>2, <5>1, <5>3, <5>4
      <4>4. CASE Stream(b) # Stream(a)
        <5>1. q.verifier.latest[Stream(b)] = v.latest[Stream(b)] BY <1>1, <2>1, <4>1, <4>4
        <5>2. QED BY <3>2, <4>2, <5>1
      <4>5. QED BY <4>3, <4>4
    <3>3. QED BY <3>1, <3>2, ExtendedHistory
  <2>5. QED BY <2>4 DEF LatestCovers
<1>3. CASE ev.type # "artifact"
  <2>1. q.verifier.latest = v.latest BY <1>3, ExtendedHistory, RevocationEffect
  <2>2. QED BY <1>3, <2>1, ExtendedHistory DEF Accepts, Covers, LatestCovers
<1>4. QED BY <1>2, <1>3
(* Accepting an event forgets no revocation.                                *)
LEMMA RevocationsStep ==
  ASSUME NEW h, NEW p, NEW ev, Accepts(h, p, ev)
  PROVE  RevocationsCover(Extended(h, ev), Applied(p, ev))
<1> DEFINE q  == Applied(p, ev)
           h2 == Extended(h, ev)
<1>1. /\ p.verifier.revokedKeys \subseteq q.verifier.revokedKeys
      /\ p.verifier.revokedArtifacts \subseteq q.verifier.revokedArtifacts
      /\ ev.type = "revoke-key" => ev.keyId \in q.verifier.revokedKeys
      /\ ev.type = "revoke-artifact" => <<ev.kind, ev.artifactId>> \in q.verifier.revokedArtifacts
  <2>1. CASE ev.type = "artifact" BY <2>1, ArtifactEffect DEF Accepts
  <2>2. CASE ev.type # "artifact" BY <2>2, ExtendedHistory, RevocationEffect
  <2>3. QED BY <2>1, <2>2
<1>2. RevocationsCover(h, p) BY DEF Accepts, Covers
<1>3. ASSUME NEW i \in DOMAIN h2
      PROVE  /\ h2[i].type = "revoke-key" => h2[i].keyId \in q.verifier.revokedKeys
             /\ h2[i].type = "revoke-artifact"
                => <<h2[i].kind, h2[i].artifactId>> \in q.verifier.revokedArtifacts
  <2>1. CASE h2[i] = ev BY <1>1, <2>1
  <2>2. CASE i \in DOMAIN h /\ h2[i] = h[i] BY <1>1, <1>2, <2>2 DEF RevocationsCover
  <2>3. QED BY <2>1, <2>2, ExtendedHistory
<1>4. QED BY <1>3 DEF RevocationsCover

(* What an accepted review event adds.                                      *)
LEMMA ReviewAdds ==
  ASSUME NEW p \in Projection, NEW ev \in Event, ApplyCode(p, ev) = "OK", IsReview(ev)
  PROVE  LET q == Applied(p, ev)
             a == ev.artifact
         IN  /\ a.kind = "review" /\ a.artifact_id \in ReviewId
             /\ a.payload.id = a.artifact_id
             /\ Stream(a) = <<"review", a.artifact_id>>
             /\ ~IdentityConflict(p, a)
             /\ q.reviews = [p.reviews EXCEPT ![a.artifact_id] = a]
             /\ q.owners = p.owners \cup {Owner(a)}
             /\ q.rejected = IF a.payload.decision = "REJECT"
                             THEN p.rejected \cup {a.payload.subjectHash} ELSE p.rejected
<1> DEFINE q == Applied(p, ev)
           a == ev.artifact
<1>1. q = Applied(p, ev) /\ ev.now \in Int BY EventShape
<1>2. ~IsSnapshot(ev) /\ a \in Artifact /\ a.kind = "review" BY <1>1, EventShape DEF IsReview
<1>3. /\ ~IdentityConflict(p, a)
      /\ VerifyCode(p.verifier, a, "review", ev.now, ev.subjectHash) = "OK"
  BY <1>1, <1>2, ApplyAccepts
<1>4. Passes(p.verifier, a, "review", ev.now, ev.subjectHash) BY <1>3, VerifyAccepts
<1>5. a.payload.id = a.artifact_id BY <1>2, <1>4 DEF Passes, PayloadCode, ReviewPayloadOK
<1>6. a.artifact_id \in ReviewId /\ Stream(a) = <<"review", a.artifact_id>>
  BY <1>2, StreamTyped DEF Stream
<1>7. /\ q.reviews = [p.reviews EXCEPT ![a.artifact_id] = a]
      /\ q.owners = p.owners \cup {Owner(a)}
      /\ q.rejected = IF a.payload.decision = "REJECT"
                          THEN p.rejected \cup {a.payload.subjectHash} ELSE p.rejected
  BY <1>1, ReviewEffect
<1>8. QED BY <1>2, <1>3, <1>5, <1>6, <1>7

(* Other events leave reviews, rejections and owners alone.                 *)
LEMMA OtherAdds ==
  ASSUME NEW p \in Projection, NEW ev \in Event, ApplyCode(p, ev) = "OK", ~IsReview(ev)
  PROVE  LET q == Applied(p, ev)
         IN  /\ q.reviews = p.reviews /\ q.rejected = p.rejected
             /\ q.owners = p.owners
             /\ \A a \in Artifact : a.kind = "review"
                  => q.verifier.latest[Stream(a)] = p.verifier.latest[Stream(a)]
<1> DEFINE q == Applied(p, ev)
<1>1. q = Applied(p, ev) /\ p.verifier.latest \in [Streams -> Artifact \cup {None}]
  BY DEF Projection, VerifierState
<1>2. CASE IsSnapshot(ev)
  <2>1. q.reviews = p.reviews /\ q.rejected = p.rejected /\ q.owners = p.owners
    BY <1>1, <1>2, SnapshotEffect
  <2>2. ev.type = "artifact" /\ Stream(ev.artifact) = <<"snapshot", "organization-snapshot">>
    BY <1>2 DEF IsSnapshot, Stream
  <2>3. q.verifier.latest = [p.verifier.latest EXCEPT ![Stream(ev.artifact)] = ev.artifact]
    BY <2>2, ArtifactEffect
  <2>4. ASSUME NEW a \in Artifact, a.kind = "review"
        PROVE  q.verifier.latest[Stream(a)] = p.verifier.latest[Stream(a)]
    <3>1. Stream(a) # Stream(ev.artifact) BY <2>2, <2>4 DEF Stream
    <3>2. QED BY <1>1, <2>3, <3>1, StreamTyped
  <2>5. QED BY <2>1, <2>4
<1>3. CASE ev.type # "artifact" BY <1>1, <1>3, RevocationEffect
<1>4. QED BY <1>1, <1>2, <1>3, EventShape

(* Accepting a review keeps record ids and their owners one to one.         *)
LEMMA OwnersStep ==
  ASSUME NEW h, NEW p, NEW ev, Accepts(h, p, ev)
  PROVE  OwnersAgree(Applied(p, ev))
<1> DEFINE q == Applied(p, ev)
<1>1. OwnersAgree(p) BY DEF Accepts, Covers
<1>2. CASE IsReview(ev)
  <2> DEFINE a == ev.artifact
  <2>1. q.owners = p.owners \cup {Owner(a)} /\ ~IdentityConflict(p, a)
    BY <1>2, ReviewAdds DEF Accepts
  <2>2. Owner(a).id = a.payload.id BY DEF Owner
  <2>3. \A o \in p.owners : SameOwner(o, Owner(a)) <=> o.id = Owner(a).id
    BY <2>1, <2>2 DEF IdentityConflict
  <2>4. \A o \in p.owners : SameOwner(Owner(a), o) <=> Owner(a).id = o.id
    BY <2>3 DEF SameOwner
  <2>5. SameOwner(Owner(a), Owner(a)) BY DEF SameOwner
  <2>6. QED BY <1>1, <2>1, <2>3, <2>4, <2>5 DEF OwnersAgree
<1>3. CASE ~IsReview(ev) BY <1>1, <1>3, OtherAdds, ExtendedHistory DEF OwnersAgree
<1>4. QED BY <1>2, <1>3

(* Accepting an event keeps the account of every recorded review.           *)
LEMMA ReviewsStep ==
  ASSUME NEW h, NEW p, NEW ev, Accepts(h, p, ev)
  PROVE  ReviewsCover(Extended(h, ev), Applied(p, ev))
<1> DEFINE q  == Applied(p, ev)
           h2 == Extended(h, ev)
<1>0. ReviewsCover(h, p) BY DEF Accepts, Covers
<1>1. /\ p.reviews \in [ReviewId -> Artifact \cup {None}]
      /\ p.verifier.latest \in [Streams -> Artifact \cup {None}]
  BY ExtendedHistory DEF Projection, VerifierState
<1>2. CASE IsReview(ev)
  <2> DEFINE a == ev.artifact
  <2>1. /\ a.kind = "review" /\ a.artifact_id \in ReviewId
        /\ a.payload.id = a.artifact_id
        /\ Stream(a) = <<"review", a.artifact_id>>
        /\ q.reviews = [p.reviews EXCEPT ![a.artifact_id] = a]
        /\ q.owners = p.owners \cup {Owner(a)}
        /\ p.rejected \subseteq q.rejected
        /\ a.payload.decision = "REJECT" => a.payload.subjectHash \in q.rejected
    BY <1>2, ReviewAdds DEF Accepts
  <2>2. /\ a \in Artifact /\ Stream(a) \in Streams
        /\ q.verifier.latest = [p.verifier.latest EXCEPT ![Stream(a)] = a]
    BY <1>2, ArtifactEffect DEF IsReview, Accepts
  <2>3. Remembered(a, q)
    BY <1>1, <2>1, <2>2 DEF Remembered
  <2>4. ASSUME NEW b \in Artifact, b.kind = "review", Remembered(b, p)
        PROVE  Remembered(b, q)
    <3>1. Stream(b) = <<"review", b.artifact_id>> /\ Stream(b) \in Streams /\ b.artifact_id \in ReviewId
      BY <2>4, StreamTyped DEF Stream
    <3>2. q.reviews[b.artifact_id] = q.verifier.latest[Stream(b)]
      <4>1. CASE b.artifact_id = a.artifact_id BY <1>1, <2>1, <2>2, <3>1, <4>1
      <4>2. CASE b.artifact_id # a.artifact_id
        <5>1. Stream(b) # Stream(a) BY <2>1, <3>1, <4>2
        <5>2. QED BY <1>1, <2>1, <2>2, <2>4, <3>1, <4>2, <5>1 DEF Remembered
      <4>3. QED BY <4>1, <4>2
    <3>3. QED BY <2>1, <2>4, <3>2 DEF Remembered
  <2>5. ASSUME NEW i \in DOMAIN h2, IsReview(h2[i])
        PROVE  Remembered(h2[i].artifact, q)
    <3>1. CASE h2[i] = ev BY <2>3, <3>1
    <3>2. CASE i \in DOMAIN h /\ h2[i] = h[i] /\ h[i] \in Event
      <4>1. IsReview(h[i]) /\ h[i].artifact \in Artifact /\ h[i].artifact.kind = "review"
        BY <2>5, <3>2, EventShape DEF IsReview
      <4>2. Remembered(h[i].artifact, p) BY <1>0, <3>2, <4>1 DEF ReviewsCover
      <4>3. QED BY <2>4, <3>2, <4>1, <4>2
    <3>3. QED BY <3>1, <3>2, ExtendedHistory
  <2>6. ASSUME NEW id \in ReviewId PROVE Filed(id, q)
    <3>1. Filed(id, p) BY <1>0 DEF ReviewsCover
    <3>2. CASE id = a.artifact_id BY <1>1, <2>1, <3>2 DEF Filed
    <3>3. CASE id # a.artifact_id BY <1>1, <2>1, <3>1, <3>3 DEF Filed
    <3>4. QED BY <3>2, <3>3
  <2>7. QED BY <2>5, <2>6 DEF ReviewsCover
<1>3. CASE ~IsReview(ev)
  <2>1. ASSUME NEW i \in DOMAIN h2, IsReview(h2[i])
        PROVE  Remembered(h2[i].artifact, q)
    <3>1. i \in DOMAIN h /\ h2[i] = h[i] /\ h[i] \in Event BY <1>3, <2>1, ExtendedHistory
    <3>2. h[i].artifact \in Artifact /\ h[i].artifact.kind = "review"
      BY <2>1, <3>1, EventShape DEF IsReview
    <3>3. Remembered(h[i].artifact, p) BY <1>0, <2>1, <3>1 DEF ReviewsCover
    <3>4. QED BY <1>3, <3>1, <3>2, <3>3, OtherAdds, ExtendedHistory DEF Remembered
  <2>2. ASSUME NEW id \in ReviewId PROVE Filed(id, q)
    BY <1>0, <1>3, OtherAdds, ExtendedHistory DEF Filed, ReviewsCover
  <2>3. QED BY <2>1, <2>2 DEF ReviewsCover
<1>4. QED BY <1>2, <1>3

(* Accepting an event preserves all parts of the invariant.                 *)
LEMMA CoversExtended ==
  ASSUME NEW h, NEW p, NEW ev, Accepts(h, p, ev)
  PROVE  Covers(Extended(h, ev), Applied(p, ev))
  BY ClockStep, LatestStep, RevocationsStep, ReviewsStep, OwnersStep DEF Covers

-----------------------------------------------------------------------------
(* A step of the ledger that commits the event ev.                          *)
Accepting(ev) ==
  /\ Accepts(log, proj, ev)
  /\ log' = Extended(log, ev)
  /\ proj' = Applied(proj, ev)

(* Such a step as one of the state.                                         *)
LEMMA NewHistory ==
  ASSUME NEW ev, Accepting(ev)
  PROVE  /\ \A i \in DOMAIN log' : \/ i \in DOMAIN log /\ log'[i] = log[i] /\ log[i] \in Event
                                   \/ log'[i] = ev
         /\ \A i, j \in DOMAIN log' :
              i < j => /\ i \in DOMAIN log /\ log'[i] = log[i] /\ log[i] \in Event
                       /\ \/ j \in DOMAIN log /\ log'[j] = log[j] /\ log[j] \in Event
                          \/ log'[j] = ev
         /\ ev \in Range(log')
         /\ proj \in Projection /\ proj' \in Projection
         /\ ev \in Event /\ ev.now \in Int
         /\ ApplyCode(proj, ev) = "OK"
  BY ExtendedHistory DEF Accepting

(* What it does to the verifier when the event is an artifact's.            *)
LEMMA ArtifactStep ==
  ASSUME NEW ev, Accepting(ev), ev.type = "artifact"
  PROVE  /\ Admitted(proj, proj', ev, ev.artifact)
         /\ ev.artifact \in Artifact
         /\ Stream(ev.artifact) \in Streams
         /\ proj'.verifier.latest = [proj.verifier.latest EXCEPT ![Stream(ev.artifact)] = ev.artifact]
         /\ RevisionCode(proj.verifier, ev.artifact) = "OK"
  BY ArtifactEffect DEF Accepts, Accepting

(* It preserves the invariant.                                              *)
LEMMA CoversStep ==
  ASSUME NEW ev, Accepting(ev)
  PROVE  Covers(log', proj')
  BY CoversExtended DEF Accepting

(* The empty history is accounted for.                                      *)
LEMMA InitCovers == Init => ProjectionCoversHistory
  BY DEF Init, ProjectionCoversHistory, Covers, ClockCovers, LatestCovers, RevocationsCover,
         ReviewsCover, Filed, OwnersAgree, NewProjection, NewVerifier

(* Every step leaves history and projection alone or commits one event.     *)
LEMMA StepShape ==
  ASSUME TypeOK, ProjectionCoversHistory, [Next]_vars
  PROVE  Quiet \/ \E op \in Operation : Commits(op) /\ Accepting(EventOf(op))
<1>1. ASSUME NEW op \in Operation, Commits(op) PROVE Accepting(EventOf(op))
  <2>1. EventOf(op) \in Event BY <1>1, OperationEvent DEF Commits
  <2>2. QED BY <1>1, <2>1 DEF Commits, Recording, Extended, TypeOK, ProjectionCoversHistory, Accepts, Accepting
<1>2. QED BY <1>1, NextShape

(* Every step preserves the invariant.                                      *)
LEMMA NextCovers ==
  TypeOK /\ ProjectionCoversHistory /\ [Next]_vars => ProjectionCoversHistory'
<1> SUFFICES ASSUME TypeOK, ProjectionCoversHistory, [Next]_vars
             PROVE  ProjectionCoversHistory'
  OBVIOUS
<1>1. CASE Quiet
  BY <1>1 DEF Quiet, ProjectionCoversHistory
<1>2. CASE \E op \in Operation : Commits(op) /\ Accepting(EventOf(op))
  BY <1>2, CoversStep DEF ProjectionCoversHistory
<1>3. QED BY <1>1, <1>2, StepShape

(* The projection accounts for the whole history: clock, newest revision of *)
(* every stream, revocations, rejections and record owners. It is the       *)
(* inductive invariant under the theorems that follow.                      *)
THEOREM ProjectionSound == Spec => []ProjectionCoversHistory
  BY TypeCorrect, InitCovers, NextCovers, PTL DEF Spec
-----------------------------------------------------------------------------
(* Recorded times never go back.                                            *)
THEOREM ClockNeverRollsBack == Spec => []HistoryClockMonotone
<1>1. Init => HistoryClockMonotone BY DEF Init, HistoryClockMonotone
<1>2. TypeOK /\ ProjectionCoversHistory /\ HistoryClockMonotone /\ [Next]_vars
      => HistoryClockMonotone'
  <2> SUFFICES ASSUME TypeOK, ProjectionCoversHistory, HistoryClockMonotone, [Next]_vars
               PROVE  HistoryClockMonotone'
    OBVIOUS
  <2>1. CASE Quiet BY <2>1 DEF Quiet, HistoryClockMonotone
  <2>2. ASSUME NEW ev, Accepting(ev) PROVE HistoryClockMonotone'
    <3> SUFFICES ASSUME NEW i \in DOMAIN log', NEW j \in DOMAIN log', i < j
                 PROVE  0 <= log'[i].now /\ log'[i].now <= log'[j].now
      BY DEF HistoryClockMonotone
    <3>1. i \in DOMAIN log /\ log'[i] = log[i] /\ log[i].now \in Int
      BY <2>2, NewHistory, EventShape
    <3>2. 0 <= log[i].now /\ log[i].now <= proj.now BY <3>1 DEF ProjectionCoversHistory, Covers, ClockCovers
    <3>3. proj.now <= ev.now /\ proj.now \in Int /\ ev.now \in Int
      BY <2>2, NewHistory, ApplyAccepts DEF Projection
    <3>4. CASE log'[j] = ev BY <3>1, <3>2, <3>3, <3>4
    <3>5. CASE j \in DOMAIN log /\ log'[j] = log[j] BY <3>1, <3>5 DEF HistoryClockMonotone
    <3>6. QED BY <2>2, <3>4, <3>5, NewHistory
  <2>3. QED BY <2>1, <2>2, StepShape
<1>3. QED BY <1>1, <1>2, TypeCorrect, ProjectionSound, PTL DEF Spec

(* Along every revision stream the history only moves forward, and one      *)
(* revision number never stands for two different envelopes.                *)
THEOREM RevisionsNeverRollBack == Spec => []NoRevisionRollback
<1>1. Init => NoRevisionRollback BY DEF Init, NoRevisionRollback
<1>2. TypeOK /\ ProjectionCoversHistory /\ NoRevisionRollback /\ [Next]_vars
      => NoRevisionRollback'
  <2> SUFFICES ASSUME TypeOK, ProjectionCoversHistory, NoRevisionRollback, [Next]_vars
               PROVE  NoRevisionRollback'
    OBVIOUS
  <2>1. CASE Quiet BY <2>1 DEF Quiet, NoRevisionRollback
  <2>2. ASSUME NEW ev, Accepting(ev) PROVE NoRevisionRollback'
    <3> SUFFICES ASSUME NEW i \in DOMAIN log', NEW j \in DOMAIN log', i < j,
                        log'[i].type = "artifact", log'[j].type = "artifact",
                        Stream(log'[i].artifact) = Stream(log'[j].artifact)
                 PROVE  \/ log'[i].artifact.revision < log'[j].artifact.revision
                        \/ log'[i].artifact = log'[j].artifact
      BY DEF NoRevisionRollback
    <3>1. i \in DOMAIN log /\ log'[i] = log[i] /\ log[i] \in Event BY <2>2, NewHistory
    <3>2. CASE log'[j] = ev
      <4> DEFINE a == ev.artifact
                 b == log[i].artifact
                 last == proj.verifier.latest[Stream(a)]
      <4>1. b \in Artifact BY <3>1, EventShape
      <4>2. a \in Artifact /\ Stream(a) \in Streams /\ RevisionCode(proj.verifier, a) = "OK"
        BY <2>2, <3>2, ArtifactStep
      <4>3. last # None /\ (b.revision < last.revision \/ b = last)
        BY <3>1, <3>2 DEF ProjectionCoversHistory, Covers, LatestCovers
      <4>4. proj.verifier.latest \in [Streams -> Artifact \cup {None}]
        BY DEF TypeOK, Projection, VerifierState
      <4>5. last.revision < a.revision \/ last = a BY <4>2, <4>3, <4>4, RevisionAccepts
      <4>6. last \in Artifact BY <4>2, <4>3, <4>4
      <4>7. b.revision \in Nat /\ last.revision \in Nat /\ a.revision \in Nat
        BY <4>1, <4>2, <4>6, ArtifactAssumption
      <4> HIDE DEF last
      <4>8. QED BY <3>1, <3>2, <4>3, <4>5, <4>7
    <3>3. CASE j \in DOMAIN log /\ log'[j] = log[j] BY <3>1, <3>3 DEF NoRevisionRollback
    <3>4. QED BY <2>2, <3>2, <3>3, NewHistory
  <2>3. QED BY <2>1, <2>2, StepShape
<1>3. QED BY <1>1, <1>2, TypeCorrect, ProjectionSound, PTL DEF Spec

(* Nothing is recorded under a key or an artifact id after its revocation.  *)
THEOREM RevocationIsFinal == Spec => []NothingAfterRevocation
<1>1. Init => NothingAfterRevocation BY DEF Init, NothingAfterRevocation
<1>2. TypeOK /\ ProjectionCoversHistory /\ NothingAfterRevocation /\ [Next]_vars
      => NothingAfterRevocation'
  <2> SUFFICES ASSUME TypeOK, ProjectionCoversHistory, NothingAfterRevocation, [Next]_vars
               PROVE  NothingAfterRevocation'
    OBVIOUS
  <2>1. CASE Quiet BY <2>1 DEF Quiet, NothingAfterRevocation
  <2>2. ASSUME NEW ev, Accepting(ev) PROVE NothingAfterRevocation'
    <3> SUFFICES ASSUME NEW i \in DOMAIN log', NEW j \in DOMAIN log', i < j,
                        log'[j].type = "artifact"
                 PROVE  /\ log'[i].type = "revoke-key" => log'[j].artifact.key_id # log'[i].keyId
                        /\ log'[i].type = "revoke-artifact"
                           => <<log'[j].artifact.kind, log'[j].artifact.artifact_id>>
                                # <<log'[i].kind, log'[i].artifactId>>
      BY DEF NothingAfterRevocation
    <3>1. i \in DOMAIN log /\ log'[i] = log[i] BY <2>2, NewHistory
    <3>2. CASE log'[j] = ev
      <4>1. Admitted(proj, proj', ev, ev.artifact) BY <2>2, <3>2, ArtifactStep
      <4>2. RevocationsCover(log, proj) BY DEF ProjectionCoversHistory, Covers
      <4>3. QED BY <3>1, <3>2, <4>1, <4>2 DEF Admitted, RevocationsCover
    <3>3. CASE j \in DOMAIN log /\ log'[j] = log[j] BY <3>1, <3>3 DEF NothingAfterRevocation
    <3>4. QED BY <2>2, <3>2, <3>3, NewHistory
  <2>3. QED BY <2>1, <2>2, StepShape
<1>3. QED BY <1>1, <1>2, TypeCorrect, ProjectionSound, PTL DEF Spec

(* Reviewer, subject and record id determine one another over the history.  *)
THEOREM ReviewIdentityIsStable == Spec => []StableReviewIdentity
<1>1. ProjectionCoversHistory => StableReviewIdentity
  BY DEF ProjectionCoversHistory, Covers, ReviewsCover, Remembered, OwnersAgree, StableReviewIdentity
<1>2. QED BY <1>1, ProjectionSound, PTL
(* Every recorded artifact was trusted and current when it was recorded.    *)
THEOREM OnlyTrustedArtifacts == Spec => []AcceptedUnderTrust
<1> DEFINE Trusted(e) ==
      e.type = "artifact"
      => LET a   == e.artifact
             key == TrustedKey[a.key_id]
         IN  /\ a.signed
             /\ a.kind \in key.purposes
             /\ key.notBefore <= a.issued_at
             /\ a.issued_at <= e.now
             /\ e.now < a.expires_at
             /\ a.expires_at <= key.expiresAt
<1>0. AcceptedUnderTrust <=> \A i \in DOMAIN log : Trusted(log[i]) BY DEF AcceptedUnderTrust
<1>1. Init => AcceptedUnderTrust BY DEF Init, AcceptedUnderTrust
<1>2. TypeOK /\ ProjectionCoversHistory /\ AcceptedUnderTrust /\ [Next]_vars
      => AcceptedUnderTrust'
  <2> SUFFICES ASSUME TypeOK, ProjectionCoversHistory, AcceptedUnderTrust, [Next]_vars
               PROVE  AcceptedUnderTrust'
    OBVIOUS
  <2>1. CASE Quiet BY <2>1 DEF Quiet, AcceptedUnderTrust
  <2>2. ASSUME NEW ev, Accepting(ev) PROVE AcceptedUnderTrust'
    <3>1. Trusted(ev)
      <4> SUFFICES ASSUME ev.type = "artifact" PROVE Trusted(ev) OBVIOUS
      <4>1. Admitted(proj, proj', ev, ev.artifact) /\ ev.now \in Int
        BY <2>2, ArtifactStep, NewHistory
      <4>2. /\ ev.artifact.issued_at \in Nat /\ ev.artifact.expires_at \in Nat
            /\ TrustedKey[ev.artifact.key_id].notBefore \in Nat
            /\ TrustedKey[ev.artifact.key_id].expiresAt \in Nat
        BY <4>1, ArtifactAssumption, TrustAssumption DEF Admitted
      <4>3. QED BY <4>1, <4>2 DEF Admitted, InValidityWindow
    <3> HIDE DEF Trusted
    <3>2. \A i \in DOMAIN log' : Trusted(log'[i]) BY <1>0, <2>2, <3>1, NewHistory
    <3>3. QED BY <3>2 DEF AcceptedUnderTrust, Trusted
  <2>3. QED BY <2>1, <2>2, StepShape
<1>3. QED BY <1>1, <1>2, TypeCorrect, ProjectionSound, PTL DEF Spec

-----------------------------------------------------------------------------
(* What a positive verdict of a check says about the projection it used.    *)
LEMMA PositiveReview ==
  ASSUME NEW q, NEW op, op.name \in ReviewCheck, VerdictOf(q, op).positive
  PROVE  /\ op.subject \notin q.rejected
         /\ \A a \in StoredReviews(q, op.subject) :
              VerifyCode(q.verifier, a, "review", op.now, op.subject) = "OK"
         /\ VerifyCode(q.verifier, op.artifact, "snapshot", op.now, None) = "OK"
<1>1. ReviewVerdict(q, op).positive BY DEF VerdictOf, ReviewCheck
<1>2. op.subject \notin q.rejected BY <1>1 DEF ReviewVerdict, Returns
<1>3. StoredReviewCode(q, op) = "OK" BY <1>1, <1>2 DEF ReviewVerdict, Throws
<1>4. VerifyCode(q.verifier, op.artifact, "snapshot", op.now, None) = "OK"
  BY <1>1, <1>2, <1>3 DEF ReviewVerdict, Throws
<1>5. ASSUME NEW a \in StoredReviews(q, op.subject)
      PROVE  VerifyCode(q.verifier, a, "review", op.now, op.subject) = "OK"
  BY <1>3 DEF StoredReviewCode
<1>6. QED BY <1>2, <1>4, <1>5

(* A positive access answer comes from a verified snapshot.                 *)
LEMMA PositiveAccess ==
  ASSUME NEW q, NEW op, op.name = "checkAccess", VerdictOf(q, op).positive
  PROVE  VerifyCode(q.verifier, op.artifact, "snapshot", op.now, None) = "OK"
<1>1. AccessVerdict(q, op).positive BY DEF VerdictOf
<1>2. QED BY <1>1 DEF AccessVerdict, Throws

(* A step after which the last answer is positive committed that operation, *)
(* or changed nothing.                                                      *)
LEMMA PositiveStep ==
  ASSUME TypeOK, ProjectionCoversHistory, [Next]_vars, NEW names, Positive(names)'
  PROVE  \/ UNCHANGED vars
         \/ /\ Accepting(EventOf(reply'.op))
            /\ reply'.op \in Operation
            /\ reply'.op.name \in names
            /\ Precheck(reply'.op) = "OK"
            /\ VerdictOf(proj', reply'.op).positive
<1>1. reply'.positive /\ reply'.op.name \in names BY DEF Positive
<1>2. CASE Quiet
  <2>1. ASSUME NEW code, reply' = Refusal(code) PROVE FALSE BY <1>1, <2>1 DEF Refusal
  <2>2. QED BY <1>2, <2>1 DEF Quiet, vars
<1>3. ASSUME NEW op \in Operation, Commits(op), Accepting(EventOf(op))
      PROVE  /\ reply'.op = op
             /\ Precheck(op) = "OK"
             /\ VerdictOf(proj', op).positive
  BY <1>1, <1>3 DEF Commits, Answer
<1>4. QED BY <1>1, <1>2, <1>3, StepShape

(* One recorded rejection blocks its subject in every later state.          *)
THEOREM RejectionsAreFinal == Spec => []RejectionIsFinal
<1>1. Init => RejectionIsFinal BY DEF Init, RejectionIsFinal, Positive, Refusal
<1>2. TypeOK /\ ProjectionCoversHistory /\ RejectionIsFinal /\ [Next]_vars => RejectionIsFinal'
  <2> SUFFICES ASSUME TypeOK, ProjectionCoversHistory, RejectionIsFinal, [Next]_vars,
                      Positive(ReviewCheck)'
               PROVE  RejectionIsFinal'
    BY DEF RejectionIsFinal
  <2>1. CASE UNCHANGED vars BY <2>1 DEF vars, RejectionIsFinal, Positive
  <2>2. CASE /\ Accepting(EventOf(reply'.op)) /\ reply'.op.name \in ReviewCheck
             /\ VerdictOf(proj', reply'.op).positive
    <3>1. reply'.op.subject \notin proj'.rejected BY <2>2, PositiveReview
    <3>2. ReviewsCover(log', proj') BY <2>2, CoversStep DEF Covers
    <3>3. QED BY <3>1, <3>2 DEF ReviewsCover, Remembered, RejectionIsFinal
  <2>3. QED BY <2>1, <2>2, PositiveStep
<1>3. QED BY <1>1, <1>2, TypeCorrect, ProjectionSound, PTL DEF Spec
(* A check's event is the observation of its snapshot, and a positive check *)
(* has verified that snapshot.                                              *)
LEMMA CheckEvent ==
  ASSUME NEW op, op.name \in ReviewCheck \cup {"checkAccess"},
         NEW q, VerdictOf(q, op).positive
  PROVE  /\ EventOf(op) = ArtifactEvent(op.artifact, op.now, None)
         /\ EventOf(op).type = "artifact"
         /\ EventOf(op).artifact = op.artifact
         /\ EventOf(op).now = op.now
         /\ op.artifact.kind = "snapshot"
<1>1. EventOf(op) = ArtifactEvent(op.artifact, op.now, None) BY DEF EventOf, ReviewCheck
<1>2. VerifyCode(q.verifier, op.artifact, "snapshot", op.now, None) = "OK"
  BY PositiveReview, PositiveAccess DEF ReviewCheck
<1>3. Passes(q.verifier, op.artifact, "snapshot", op.now, None) BY <1>2, VerifyAccepts
<1>4. QED BY <1>1, <1>3 DEF Passes, ArtifactEvent

(* A positive answer rests on the newest recorded snapshot, recorded at the *)
(* time of the check.                                                       *)
THEOREM NewestSnapshotDecides == Spec => []DecisionsUseNewestSnapshot
<1> DEFINE names == ReviewCheck \cup {"checkAccess"}
<1>1. Init => DecisionsUseNewestSnapshot
  BY DEF Init, DecisionsUseNewestSnapshot, Positive, Refusal
<1>2. TypeOK /\ ProjectionCoversHistory /\ DecisionsUseNewestSnapshot /\ [Next]_vars
      => DecisionsUseNewestSnapshot'
  <2> SUFFICES ASSUME TypeOK, ProjectionCoversHistory, DecisionsUseNewestSnapshot, [Next]_vars,
                      Positive(names)'
               PROVE  DecisionsUseNewestSnapshot'
    BY DEF DecisionsUseNewestSnapshot
  <2>1. CASE UNCHANGED vars BY <2>1 DEF vars, DecisionsUseNewestSnapshot, Positive
  <2>2. CASE /\ Accepting(EventOf(reply'.op)) /\ reply'.op.name \in names
             /\ VerdictOf(proj', reply'.op).positive
    <3> DEFINE op == reply'.op
               ev == EventOf(op)
               a == op.artifact
    <3>1. /\ ev = ArtifactEvent(a, op.now, None) /\ ev.type = "artifact"
          /\ ev.artifact = a /\ a.kind = "snapshot"
      BY <2>2, CheckEvent
    <3>2. ev \in Range(log') BY <2>2, NewHistory
    <3>3. /\ Stream(a) \in Streams
          /\ proj'.verifier.latest = [proj.verifier.latest EXCEPT ![Stream(a)] = a]
      BY <2>2, <3>1, ArtifactStep
    <3>4. proj'.verifier.latest[Stream(a)] = a
      BY <3>3 DEF TypeOK, Projection, VerifierState
    <3>5. LatestCovers(log', proj') BY <2>2, CoversStep DEF Covers
    <3>6. ASSUME NEW i \in DOMAIN log', IsSnapshot(log'[i])
          PROVE  log'[i].artifact.revision < a.revision \/ log'[i].artifact = a
      <4>1. log'[i].type = "artifact" /\ Stream(log'[i].artifact) = Stream(a)
        BY <3>1, <3>6 DEF IsSnapshot, Stream
      <4>2. QED BY <3>4, <3>5, <4>1 DEF LatestCovers
    <3>7. QED BY <3>1, <3>2, <3>6 DEF DecisionsUseNewestSnapshot
  <2>3. QED BY <2>1, <2>2, PositiveStep
<1>3. QED BY <1>1, <1>2, TypeCorrect, ProjectionSound, PTL DEF Spec

(* A subject is complete only while each record accepted for it is live.    *)
THEOREM CompletionIsLive == Spec => []CompletionNeedsLiveReviews
<1>1. Init => CompletionNeedsLiveReviews
  BY DEF Init, CompletionNeedsLiveReviews, Positive, Refusal
<1>2. TypeOK /\ ProjectionCoversHistory /\ CompletionNeedsLiveReviews /\ [Next]_vars
      => CompletionNeedsLiveReviews'
  <2> SUFFICES ASSUME TypeOK, ProjectionCoversHistory, CompletionNeedsLiveReviews, [Next]_vars,
                      Positive(ReviewCheck)'
               PROVE  CompletionNeedsLiveReviews'
    BY DEF CompletionNeedsLiveReviews
  <2>1. CASE UNCHANGED vars BY <2>1 DEF vars, CompletionNeedsLiveReviews, Positive
  <2>2. CASE /\ Accepting(EventOf(reply'.op)) /\ reply'.op.name \in ReviewCheck
             /\ VerdictOf(proj', reply'.op).positive
    <3> DEFINE op == reply'.op
    <3>1. ProjectionCoversHistory' /\ proj' \in Projection /\ op.now \in Int
      <4>1. EventOf(op).now = op.now BY <2>2, CheckEvent
      <4>2. QED BY <2>2, <4>1, CoversStep, NewHistory DEF ProjectionCoversHistory
    <3>2. ASSUME NEW i \in DOMAIN log', IsReview(log'[i]),
                 log'[i].artifact.payload.subjectHash = op.subject
          PROVE  LET a == proj'.reviews[log'[i].artifact.artifact_id]
                 IN  /\ \A j \in DOMAIN log' :
                          /\ log'[j].type = "revoke-artifact" /\ log'[j].kind = "review"
                             => log'[j].artifactId # log'[i].artifact.artifact_id
                          /\ log'[j].type = "revoke-key" => log'[j].keyId # a.key_id
                     /\ log'[i].artifact.revision <= a.revision
                     /\ op.now < a.expires_at
      <4> DEFINE b == log'[i].artifact
                 a == proj'.reviews[b.artifact_id]
      <4>1. b \in Artifact /\ b.kind = "review" /\ b.artifact_id \in ReviewId /\ Stream(b) \in Streams
        <5>1. log'[i] \in Event BY <2>2, NewHistory
        <5>2. QED BY <3>2, <5>1, EventShape, StreamTyped DEF IsReview
      <4>2. /\ Owner(b) \in proj'.owners /\ b.payload.id = b.artifact_id
            /\ a = proj'.verifier.latest[Stream(b)]
        BY <3>1, <3>2 DEF ProjectionCoversHistory, Covers, ReviewsCover, Remembered, Filed
      <4>3. a # None /\ (b.revision < a.revision \/ b = a)
        BY <3>1, <3>2, <4>2 DEF ProjectionCoversHistory, Covers, LatestCovers, IsReview
      <4>4. a \in Artifact
        BY <3>1, <4>1, <4>3 DEF Projection
      <4>5. a.artifact_id = b.artifact_id /\ a.payload.id = b.artifact_id /\ Owner(a) \in proj'.owners
        BY <3>1, <4>1, <4>3 DEF ProjectionCoversHistory, Covers, ReviewsCover, Remembered, Filed
      <4>6. a.payload.subjectHash = op.subject
        <5>1. Owner(a).id = Owner(b).id BY <4>2, <4>5 DEF Owner
        <5>2. SameOwner(Owner(a), Owner(b))
          BY <3>1, <4>2, <4>5, <5>1 DEF ProjectionCoversHistory, Covers, OwnersAgree
        <5>3. QED BY <3>2, <5>2 DEF SameOwner, Owner
      <4>7. a \in StoredReviews(proj', op.subject)
        BY <4>1, <4>3, <4>6 DEF StoredReviews
      <4>8. VerifyCode(proj'.verifier, a, "review", op.now, op.subject) = "OK"
        BY <2>2, <4>7, PositiveReview
      <4>9. Passes(proj'.verifier, a, "review", op.now, op.subject) BY <4>8, VerifyAccepts
      <4>10. op.now < a.expires_at BY <4>9 DEF Passes, InValidityWindow
      <4>11. b.revision <= a.revision
        <5>1. b.revision \in Nat /\ a.revision \in Nat BY <4>1, <4>4, ArtifactAssumption
        <5>2. QED BY <4>3, <5>1
      <4>12. /\ a.key_id \notin proj'.verifier.revokedKeys
             /\ <<"review", b.artifact_id>> \notin proj'.verifier.revokedArtifacts
        BY <4>5, <4>9 DEF Passes
      <4>13. RevocationsCover(log', proj') BY <3>1 DEF ProjectionCoversHistory, Covers
      <4>14. ASSUME NEW j \in DOMAIN log'
             PROVE  /\ log'[j].type = "revoke-artifact" /\ log'[j].kind = "review"
                       => log'[j].artifactId # b.artifact_id
                    /\ log'[j].type = "revoke-key" => log'[j].keyId # a.key_id
        BY <4>12, <4>13 DEF RevocationsCover
      <4>15. QED BY <4>10, <4>11, <4>14
    <3>3. QED BY <3>2 DEF CompletionNeedsLiveReviews
  <2>3. QED BY <2>1, <2>2, PositiveStep
<1>3. QED BY <1>1, <1>2, TypeCorrect, ProjectionSound, PTL DEF Spec
-----------------------------------------------------------------------------
(* Two verifier states, or projections, with the same parts are the same.   *)
LEMMA SameVerifier ==
  ASSUME NEW v \in VerifierState, NEW w \in VerifierState,
         v.revokedKeys = w.revokedKeys, v.revokedArtifacts = w.revokedArtifacts,
         v.latest = w.latest, v.lastTime = w.lastTime
  PROVE  v = w
  BY DEF VerifierState

(* The same for projections.                                                *)
LEMMA SameProjection ==
  ASSUME NEW p \in Projection, NEW q \in Projection,
         p.verifier = q.verifier, p.now = q.now, p.reviews = q.reviews,
         p.rejected = q.rejected, p.owners = q.owners
  PROVE  p = q
  BY DEF Projection

(* An artifact of the history that is accepted again is the newest of its   *)
(* stream, at the time of the last event: verifying it changes nothing.     *)
LEMMA ReverifiedArtifact ==
  ASSUME NEW h \in Seq(Event), NEW p \in Projection, Covers(h, p), NEW i \in DOMAIN h,
         h[i].type = "artifact", ApplyCode(p, h[i]) = "OK"
  PROVE  /\ Verified(p.verifier, h[i].artifact, h[i].now) = p.verifier
         /\ h[i].now = p.now
         /\ p.verifier.latest[Stream(h[i].artifact)] = h[i].artifact
<1> DEFINE ev == h[i]
           a  == ev.artifact
           v  == p.verifier
<1>1. /\ ev \in Event /\ a \in Artifact /\ ev.now \in Int /\ p \in Projection
      /\ v \in VerifierState
  BY EventShape DEF Projection
<1>2. /\ v.latest \in [Streams -> Artifact \cup {None}] /\ v.lastTime \in Int
      /\ p.now \in Int /\ Stream(a) \in Streams
  BY <1>1, StreamTyped DEF Projection, VerifierState
<1>3. ev.now <= v.lastTime /\ v.lastTime <= p.now /\ p.now <= ev.now
  BY <1>1, <1>2, ApplyAccepts DEF Covers, ClockCovers
<1>4. v.lastTime = ev.now /\ ev.now = p.now BY <1>1, <1>2, <1>3
<1>5. v.latest[Stream(a)] = a
  <2>1. RevisionCode(v, a) = "OK" BY <1>1, AcceptedArtifact DEF Admitted
  <2>2. v.latest[Stream(a)] # None => v.latest[Stream(a)].revision < a.revision \/ v.latest[Stream(a)] = a
    BY <1>1, <1>2, <2>1, RevisionAccepts
  <2>3. /\ v.latest[Stream(a)] # None
        /\ a.revision < v.latest[Stream(a)].revision \/ a = v.latest[Stream(a)]
    BY DEF Covers, LatestCovers
  <2>4. v.latest[Stream(a)] \in Artifact BY <1>2, <2>3
  <2>5. a.revision \in Nat /\ v.latest[Stream(a)].revision \in Nat
    BY <1>1, <2>4, ArtifactAssumption
  <2>6. QED BY <2>2, <2>3, <2>5
<1>6. [v.latest EXCEPT ![Stream(a)] = a] = v.latest BY <1>2, <1>5
<1>7. Verified(v, a, ev.now) = v
  <2> DEFINE w == Verified(v, a, ev.now)
  <2>1. /\ w \in VerifierState /\ w.revokedKeys = v.revokedKeys
        /\ w.revokedArtifacts = v.revokedArtifacts /\ w.lastTime = ev.now
        /\ w.latest = [v.latest EXCEPT ![Stream(a)] = a]
    BY <1>1, VerifiedTyped
  <2>2. w.latest = v.latest /\ w.lastTime = v.lastTime BY <1>4, <1>6, <2>1
  <2> HIDE DEF w
  <2>3. w = v BY <1>1, <2>1, <2>2, SameVerifier
  <2>4. QED BY <2>3 DEF w
<1>8. QED BY <1>4, <1>5, <1>7

(* The argument for one event of the history.                               *)
LEMMA Reapplied ==
  ASSUME NEW h \in Seq(Event), NEW p \in Projection, Covers(h, p), NEW i \in DOMAIN h, ApplyCode(p, h[i]) = "OK"
  PROVE  Applied(p, h[i]) = p
<1> DEFINE ev == h[i]
           q  == Applied(p, ev)
<1>1. ev \in Event /\ p \in Projection /\ p.verifier \in VerifierState BY DEF Projection
<1>2. q \in Projection /\ q.now = ev.now BY <1>1, AppliedTyped
<1>3. CASE IsSnapshot(ev)
  <2>1. ev.type = "artifact" BY <1>3 DEF IsSnapshot
  <2>2. q.verifier = p.verifier /\ q.now = p.now
    BY <1>1, <1>2, <1>3, <2>1, ReverifiedArtifact, SnapshotEffect
  <2>3. q.reviews = p.reviews /\ q.rejected = p.rejected /\ q.owners = p.owners
    BY <1>1, <1>3, SnapshotEffect
  <2> HIDE DEF q
  <2>4. QED BY <1>1, <1>2, <2>2, <2>3, SameProjection DEF q
<1>4. CASE IsReview(ev)
  <2> DEFINE a == ev.artifact
  <2>1. ev.type = "artifact" /\ a \in Artifact /\ a.kind = "review"
    BY <1>1, <1>4, EventShape DEF IsReview
  <2>2. /\ q.verifier = p.verifier /\ q.now = p.now
        /\ p.verifier.latest[Stream(a)] = a
    BY <1>1, <1>2, <1>4, <2>1, ReverifiedArtifact, ReviewEffect
  <2>3. /\ q.reviews = [p.reviews EXCEPT ![a.artifact_id] = a]
        /\ q.owners = p.owners \cup {Owner(a)}
        /\ q.rejected = IF a.payload.decision = "REJECT"
                        THEN p.rejected \cup {a.payload.subjectHash} ELSE p.rejected
    BY <1>1, <1>4, ReviewEffect
  <2>4. Remembered(a, p) BY <1>4 DEF Covers, ReviewsCover
  <2>5. a.artifact_id \in ReviewId /\ p.reviews \in [ReviewId -> Artifact \cup {None}]
    BY <1>1, <2>1, StreamTyped DEF Projection
  <2>6. q.reviews = p.reviews BY <2>2, <2>3, <2>4, <2>5 DEF Remembered
  <2>7. q.owners = p.owners /\ q.rejected = p.rejected BY <2>3, <2>4 DEF Remembered
  <2> HIDE DEF q
  <2>8. QED BY <1>1, <1>2, <2>2, <2>6, <2>7, SameProjection DEF q
<1>5. CASE ev.type # "artifact"
  <2> DEFINE v == p.verifier
  <2>1. ev.now = p.now
    <3>1. ev.now \in Int /\ p.now \in Int BY <1>1, EventShape DEF Projection
    <3>2. ev.now <= p.now BY DEF Covers, ClockCovers
    <3>3. p.now <= ev.now BY <1>1, <3>1, ApplyAccepts
    <3>4. QED BY <3>1, <3>2, <3>3
  <2>2. ~IsSnapshot(ev) /\ ~IsReview(ev) BY <1>5 DEF IsSnapshot, IsReview
  <2>3. CASE ev.type = "revoke-key"
    <3>1. ev.keyId \in v.revokedKeys BY <2>3 DEF Covers, RevocationsCover
    <3>2. RevokeKeyIn(v, ev.keyId) = v BY <1>1, <3>1 DEF RevokeKeyIn, VerifierState
    <3>3. q = [p EXCEPT !.verifier = v, !.now = p.now]
      BY <2>1, <2>2, <2>3, <3>2 DEF Applied, ApplyRevokeKey
    <3>4. QED BY <1>1, <3>3 DEF Projection
  <2>4. CASE ev.type = "revoke-artifact"
    <3>1. <<ev.kind, ev.artifactId>> \in v.revokedArtifacts
      BY <2>4 DEF Covers, RevocationsCover
    <3>2. RevokeArtifactIn(v, ev.kind, ev.artifactId) = v
      BY <1>1, <3>1 DEF RevokeArtifactIn, VerifierState
    <3>3. q = [p EXCEPT !.verifier = v, !.now = p.now]
      BY <2>1, <2>2, <2>4, <3>2 DEF Applied, ApplyRevokeArtifact
    <3>4. QED BY <1>1, <3>3 DEF Projection
  <2>5. QED BY <1>1, <1>5, <2>3, <2>4, EventShape
<1>6. QED BY <1>1, <1>3, <1>4, <1>5, EventShape

(* #transaction: an event that the history already has may be observed      *)
(* again without being appended, since it leaves the projection as it is.   *)
THEOREM ReobservationChangesNothing == Spec => []ReobservationIsIdempotent
<1>1. TypeOK /\ ProjectionCoversHistory => ReobservationIsIdempotent
  BY Reapplied DEF TypeOK, ProjectionCoversHistory, ReobservationIsIdempotent
<1>2. QED BY <1>1, TypeCorrect, ProjectionSound, PTL

-----------------------------------------------------------------------------
(* The ledger that the durable boundary implements (Ledger) has its own     *)
(* copies of the operators that the lemmas about projections speak of.      *)
(* They are the same; first, verification.                                  *)
LEMMA SameVerification ==
  ASSUME NEW v, NEW a, NEW kind, NEW now, NEW h
  PROVE  Ledger!VerifyCode(v, a, kind, now, h) = VerifyCode(v, a, kind, now, h)
  BY DEF VerifyCode, InValidityWindow, PayloadCode, SnapshotPayloadOK, ReviewPayloadOK,
         RevisionCode, Stream, Ledger!VerifyCode, Ledger!InValidityWindow,
         Ledger!PayloadCode, Ledger!SnapshotPayloadOK, Ledger!ReviewPayloadOK,
         Ledger!RevisionCode, Ledger!Stream

(* What Projection.apply refuses.                                           *)
LEMMA SameAcceptance ==
  ASSUME NEW p, NEW ev
  PROVE  Ledger!ApplyCode(p, ev) = ApplyCode(p, ev)
  BY SameVerification
     DEF ApplyCode, SnapshotCode, ReviewCode, IdentityConflict, SameOwner, Owner, IsSnapshot,
         IsReview, Ledger!ApplyCode, Ledger!SnapshotCode, Ledger!ReviewCode,
         Ledger!IdentityConflict, Ledger!SameOwner, Ledger!Owner, Ledger!IsSnapshot,
         Ledger!IsReview

(* What Projection.apply does.                                              *)
LEMMA SameEffect ==
  ASSUME NEW p, NEW ev
  PROVE  Ledger!Applied(p, ev) = Applied(p, ev)
  BY DEF Applied, ApplySnapshot, ApplyReview, ApplyRevokeKey, ApplyRevokeArtifact,
         RevokeKeyIn, RevokeArtifactIn, Verified, Stream, Owner, IsSnapshot, IsReview,
         Ledger!Applied, Ledger!ApplySnapshot, Ledger!ApplyReview, Ledger!ApplyRevokeKey,
         Ledger!ApplyRevokeArtifact, Ledger!RevokeKeyIn, Ledger!RevokeArtifactIn,
         Ledger!Verified, Ledger!Stream, Ledger!Owner, Ledger!IsSnapshot, Ledger!IsReview

(* The projection of the empty history.                                     *)
LEMMA SameStart == Ledger!NewProjection = NewProjection
  BY DEF NewProjection, NewVerifier, ReviewId, Streams, Stream, Ledger!NewProjection,
         Ledger!NewVerifier, Ledger!ReviewId, Ledger!Streams, Ledger!Stream

(* The event of an operation.                                               *)
LEMMA SameEvent ==
  ASSUME NEW op
  PROVE  Ledger!EventOf(op) = EventOf(op)
  BY DEF EventOf, ArtifactEvent, RevokeKeyEvent, RevokeArtifactEvent, Ledger!EventOf,
         Ledger!ArtifactEvent, Ledger!RevokeKeyEvent, Ledger!RevokeArtifactEvent

(* What is refused before the store is reached.                             *)
LEMMA SamePrecheck ==
  ASSUME NEW op
  PROVE  Ledger!Precheck(op) = Precheck(op)
  BY DEF Precheck, CandidateReviewPrecheck, ReviewPrecheck, Ledger!Precheck,
         Ledger!CandidateReviewPrecheck, Ledger!ReviewPrecheck

(* The verdict of an operation.                                             *)
LEMMA SameVerdict ==
  ASSUME NEW q, NEW op
  PROVE  Ledger!VerdictOf(q, op) = VerdictOf(q, op)
<1>1. \A v, a, kind, now, h :
        Ledger!VerifyCode(v, a, kind, now, h) = VerifyCode(v, a, kind, now, h)
  BY SameVerification
<1>2. /\ \A code : Ledger!Throws(code) = Throws(code)
      /\ \A code : Ledger!Returns(code) = Returns(code)
  BY DEF Throws, Returns, Ledger!Throws, Ledger!Returns
<1>3. Ledger!AccessVerdict(q, op) = AccessVerdict(q, op)
  BY <1>1, <1>2 DEF AccessVerdict, Ledger!AccessVerdict
<1>4. \A s : Ledger!StoredReviews(q, s) = StoredReviews(q, s)
  BY DEF StoredReviews, ReviewId, Ledger!StoredReviews, Ledger!ReviewId
<1>5. \A s : Ledger!Records(q, s) = Records(q, s)
  BY <1>4 DEF Records, Ledger!Records
<1>6. Ledger!StoredReviewCode(q, op) = StoredReviewCode(q, op)
  BY <1>1, <1>4 DEF StoredReviewCode, Ledger!StoredReviewCode
<1>7. Ledger!CandidateVerdict(q, op) = CandidateVerdict(q, op)
  BY <1>2, <1>5 DEF CandidateVerdict, Ledger!CandidateVerdict
<1>8. Ledger!ReviewVerdict(q, op) = ReviewVerdict(q, op)
  BY <1>1, <1>2, <1>5, <1>6, <1>7 DEF ReviewVerdict, Ledger!ReviewVerdict
<1>9. QED BY <1>3, <1>8 DEF VerdictOf, Recorded, Ledger!VerdictOf, Ledger!Recorded

(* Answers and refusals.                                                    *)
LEMMA SameAnswer ==
  ASSUME NEW op, NEW verdict
  PROVE  Ledger!Answer(op, verdict) = Answer(op, verdict)
  BY DEF Answer, Ledger!Answer

(* The same for refusals.                                                   *)
LEMMA SameRefusal ==
  ASSUME NEW reason
  PROVE  Ledger!Refusal(reason) = Refusal(reason)
  BY DEF Refusal, Ledger!Refusal

(* The operations of the ledger's actions.                                  *)
LEMMA SameOperations ==
  /\ Ledger!AcceptSnapshots = AcceptSnapshots
  /\ Ledger!AcceptReviews = AcceptReviews
  /\ Ledger!AcceptCandidateReviews = AcceptCandidateReviews
  /\ Ledger!RevokeKeys = RevokeKeys
  /\ Ledger!RevokeArtifacts = RevokeArtifacts
  /\ Ledger!CheckAccesses = CheckAccesses
  /\ Ledger!CheckReviews = CheckReviews
  /\ Ledger!CheckCandidateReviews = CheckCandidateReviews
<1>1. /\ Ledger!AcceptSnapshots = AcceptSnapshots
      /\ Ledger!RevokeKeys = RevokeKeys
      /\ Ledger!CheckAccesses = CheckAccesses
  BY DEF AcceptSnapshots, RevokeKeys, CheckAccesses, Ledger!AcceptSnapshots,
         Ledger!RevokeKeys, Ledger!CheckAccesses
<1>2. Ledger!RevokeArtifacts = RevokeArtifacts
  BY DEF RevokeArtifacts, Kind, Ledger!RevokeArtifacts, Ledger!Kind
<1>3. /\ Ledger!AcceptReviews = AcceptReviews
      /\ Ledger!CheckReviews = CheckReviews
  BY DEF AcceptReviews, CheckReviews, Subject, Ledger!AcceptReviews,
         Ledger!CheckReviews, Ledger!Subject
<1>4. /\ Ledger!AcceptCandidateReviews = AcceptCandidateReviews
      /\ Ledger!CheckCandidateReviews = CheckCandidateReviews
  BY DEF AcceptCandidateReviews, CheckCandidateReviews, Subject,
         Ledger!AcceptCandidateReviews, Ledger!CheckCandidateReviews, Ledger!Subject
<1>5. QED BY <1>1, <1>2, <1>3, <1>4
-----------------------------------------------------------------------------
(* Induction on the length of a history, from the least-element principle.  *)
LEMMA LeastElement ==
  ASSUME NEW T \in SUBSET Nat, T # {}
  PROVE  \E x \in T : \A y \in T : ~(y < x)
<1> DEFINE R == OpToRel(<, Nat)
<1>1. \A x, y \in Nat : y < x => <<y, x>> \in R BY DEF OpToRel
<1>2. IsWellFoundedOn(R, Nat) BY NatLessThanWellFounded
<1> HIDE DEF R
<1>3. \E x \in T : \A y \in T : ~(<<y, x>> \in R) BY <1>2, WFMin
<1>4. QED BY <1>1, <1>3

(* A set with 0 and with the successor of each of its numbers has them all. *)
LEMMA SetInduction ==
  ASSUME NEW S, 0 \in S, \A n \in Nat : n \in S => n + 1 \in S
  PROVE  Nat \subseteq S
<1> DEFINE T == Nat \ S
<1>1. SUFFICES ASSUME T # {} PROVE FALSE OBVIOUS
<1>2. PICK x \in T : \A y \in T : ~(y < x) BY <1>1, LeastElement
<1>3. x # 0 /\ x \in Nat OBVIOUS
<1>4. x - 1 \in Nat /\ x - 1 < x /\ (x - 1) + 1 = x BY <1>3
<1>5. x - 1 \in S BY <1>2, <1>4
<1>6. QED BY <1>3, <1>4, <1>5

(* One turn of #transaction's loop over the stored events.                  *)
StepOf(before, ev) ==
  IF before = None THEN None
  ELSE IF ApplyCode(before, ev) # "OK" THEN None
  ELSE Applied(before, ev)

(* f holds the projections after 0, 1, ..., k events of the history.        *)
FoldsTo(history, k, f) ==
  f = [n \in 0..k |-> IF n = 0 THEN NewProjection
                      ELSE StepOf(f[n - 1], history[n])]

(* There is one such function for each k.                                   *)
LEMMA PrefixesExist ==
  ASSUME NEW history
  PROVE  \A k \in Nat : \E f : FoldsTo(history, k, f)
<1> DEFINE S == {k \in Nat : \E f : FoldsTo(history, k, f)}
<1>1. 0 \in S
  <2>1. FoldsTo(history, 0, [n \in 0..0 |-> NewProjection]) BY DEF FoldsTo
  <2>2. QED BY <2>1
<1>2. ASSUME NEW k \in Nat, k \in S PROVE k + 1 \in S
  <2>1. PICK f : FoldsTo(history, k, f) BY <1>2
  <2> DEFINE g == [n \in 0..(k + 1) |-> IF n = k + 1 THEN StepOf(f[k], history[k + 1])
                                        ELSE f[n]]
             h == [n \in 0..(k + 1) |-> IF n = 0 THEN NewProjection
                                        ELSE StepOf(g[n - 1], history[n])]
  <2>2. ASSUME NEW n \in 0..(k + 1) PROVE g[n] = h[n]
    <3>1. CASE n = k + 1 BY <3>1
    <3>2. CASE n # k + 1
      <4>1. n \in 0..k /\ (n # 0 => n - 1 \in 0..k /\ n - 1 # k + 1) BY <3>2
      <4>2. f[n] = IF n = 0 THEN NewProjection ELSE StepOf(f[n - 1], history[n])
        BY <2>1, <4>1 DEF FoldsTo
      <4>3. QED BY <4>1, <4>2, <3>2
    <3>3. QED BY <3>1, <3>2
  <2>3. g = h BY <2>2
  <2>4. FoldsTo(history, k + 1, g) BY <2>3 DEF FoldsTo
  <2>5. QED BY <2>4
<1> HIDE DEF S
<1>3. Nat \subseteq S BY <1>1, <1>2, SetInduction
<1>4. QED BY <1>3 DEF S

(* The projections of the prefixes of a history obey their recursion.       *)
LEMMA PrefixesFold ==
  ASSUME NEW history, Len(history) \in Nat
  PROVE  FoldsTo(history, Len(history), Projections(history))
<1>1. PICK f : FoldsTo(history, Len(history), f) BY PrefixesExist
<1>2. Projections(history) = CHOOSE g : FoldsTo(history, Len(history), g)
  BY DEF Projections, FoldsTo, StepOf
<1>3. QED BY <1>1, <1>2

(* #transaction on an empty store.                                          *)
LEMMA RebuildEmpty == Rebuild(<<>>) = NewProjection
<1>1. Len(<<>>) = 0 OBVIOUS
<1>2. FoldsTo(<<>>, 0, Projections(<<>>)) BY <1>1, PrefixesFold
<1>3. Projections(<<>>)[0] = NewProjection BY <1>2 DEF FoldsTo
<1>4. QED BY <1>1, <1>3 DEF Rebuild

(* #transaction on a store with one more event: one more turn of the loop.  *)
LEMMA RebuildAppend ==
  ASSUME NEW h \in Seq(Event), NEW ev \in Event
  PROVE  Rebuild(Append(h, ev)) = StepOf(Rebuild(h), ev)
<1> DEFINE h2 == Append(h, ev)
           N  == Len(h)
           P1 == Projections(h)
           P2 == Projections(h2)
<1>1. N \in Nat /\ Len(h2) = N + 1 /\ h2[N + 1] = ev /\ \A n \in 1..N : h2[n] = h[n]
  OBVIOUS
<1>2. FoldsTo(h, N, P1) BY <1>1, PrefixesFold
<1>3. FoldsTo(h2, N + 1, P2)
  <2>1. Len(h2) \in Nat BY <1>1
  <2> HIDE DEF h2, P2
  <2>2. FoldsTo(h2, Len(h2), P2) BY <2>1, PrefixesFold DEF P2
  <2>3. QED BY <1>1, <2>2
<1> HIDE DEF h2, N, P1, P2
<1>4. \A n \in 0..N : P1[n] = IF n = 0 THEN NewProjection ELSE StepOf(P1[n - 1], h[n])
  BY <1>1, <1>2 DEF FoldsTo
<1>5. \A n \in 0..(N + 1) :
        P2[n] = IF n = 0 THEN NewProjection ELSE StepOf(P2[n - 1], h2[n])
  BY <1>1, <1>3 DEF FoldsTo
<1> DEFINE S == {n \in Nat : n <= N => P1[n] = P2[n]}
<1>6. 0 \in S BY <1>1, <1>4, <1>5
<1>7. ASSUME NEW n \in Nat, n \in S PROVE n + 1 \in S
  <2>1. SUFFICES ASSUME n + 1 <= N PROVE P1[n + 1] = P2[n + 1] OBVIOUS
  <2>2. n <= N /\ n + 1 \in 0..N /\ n + 1 \in 0..(N + 1) /\ n + 1 \in 1..N /\ n + 1 # 0
        /\ (n + 1) - 1 = n
    BY <1>1, <2>1
  <2>3. P1[n] = P2[n] BY <1>7, <2>2
  <2>4. h2[n + 1] = h[n + 1] BY <1>1, <2>2
  <2>5. P1[n + 1] = StepOf(P1[n], h[n + 1]) BY <1>4, <2>2
  <2>6. P2[n + 1] = StepOf(P2[n], h2[n + 1]) BY <1>5, <2>2
  <2>7. QED BY <2>3, <2>4, <2>5, <2>6
<1> HIDE DEF S
<1>8. Nat \subseteq S BY <1>6, <1>7, SetInduction
<1>9. P1[N] = P2[N] BY <1>1, <1>8 DEF S
<1>10. P2[N + 1] = StepOf(P2[N], ev)
  <2>1. N + 1 \in 0..(N + 1) /\ N + 1 # 0 /\ (N + 1) - 1 = N BY <1>1
  <2>2. QED BY <1>1, <1>5, <2>1
<1>11. Rebuild(h) = P1[N] BY DEF Rebuild, P1, N
<1>12. Rebuild(h2) = P2[N + 1] BY <1>1 DEF Rebuild, P2
<1>13. QED BY <1>9, <1>10, <1>11, <1>12 DEF h2

(* A stored history extended by an event that its projection accepts        *)
(* rebuilds to the projection after that event.                             *)
LEMMA RebuildExtended ==
  ASSUME NEW h \in Seq(Event), NEW p \in Projection, p = Rebuild(h), Covers(h, p),
         NEW ev \in Event, ApplyCode(p, ev) = "OK"
  PROVE  Rebuild(Extended(h, ev)) = Applied(p, ev)
<1>1. CASE ev \in Range(h)
  <2>1. PICK i \in DOMAIN h : ev = h[i] BY <1>1 DEF Range
  <2>2. Applied(p, ev) = p BY <2>1, Reapplied
  <2>3. QED BY <1>1, <2>2 DEF Extended
<1>2. CASE ev \notin Range(h)
  <2>1. Rebuild(Extended(h, ev)) = StepOf(p, ev) BY <1>2, RebuildAppend DEF Extended
  <2>2. p # None BY ProjectionAssumption
  <2>3. QED BY <1>2, <2>1, <2>2 DEF StepOf
<1>3. QED BY <1>1, <1>2
-----------------------------------------------------------------------------
(* The history is always accepted again, and its projection covers it.      *)
DInv ==
  /\ log \in Seq(Event)
  /\ Rebuild(log) \in Projection
  /\ Covers(log, Rebuild(log))

(* A check that throws has a reason.                                        *)
LEMMA VerdictShape ==
  ASSUME NEW q, NEW op
  PROVE  /\ VerdictOf(q, op).commit \in BOOLEAN
         /\ ~VerdictOf(q, op).commit => VerdictOf(q, op).reason # "OK"
<1> DEFINE Shape(v) == v.commit \in BOOLEAN /\ (~v.commit => v.reason # "OK")
<1>1. \A code : Shape(Returns(code)) /\ (code # "OK" => Shape(Throws(code)))
  BY DEF Returns, Throws
<1>2. Shape(Recorded) BY DEF Recorded
<1> HIDE DEF Shape
<1>3. Shape(AccessVerdict(q, op)) BY <1>1 DEF AccessVerdict
<1>4. Shape(CandidateVerdict(q, op)) BY <1>1 DEF CandidateVerdict
<1>5. Shape(ReviewVerdict(q, op)) BY <1>1, <1>4 DEF ReviewVerdict
<1>6. Shape(VerdictOf(q, op)) BY <1>2, <1>3, <1>5 DEF VerdictOf
<1>7. QED BY <1>6 DEF Shape

(* What one transaction of operation o does to the store and its caller.    *)
Transaction(o) ==
  LET p       == Rebuild(log)
      ev      == EventOf(o)
      verdict == VerdictOf(Applied(p, ev), o)
  IN  \/ /\ ApplyCode(p, ev) # "OK"
         /\ reply' = Refusal(ApplyCode(p, ev))
         /\ log' = log
      \/ /\ ApplyCode(p, ev) = "OK"
         /\ HasRoom(ev)
         /\ ~verdict.commit
         /\ reply' = Refusal(verdict.reason)
         /\ log' = log
      \/ /\ ApplyCode(p, ev) = "OK"
         /\ HasRoom(ev)
         /\ verdict.commit
         /\ log' = Extended(log, ev)
         /\ reply' = Answer(o, verdict)

(* The work of an operation, in terms of the projection of the store.       *)
LEMMA WorkShape ==
  ASSUME NEW h, NEW o, Rebuild(h) # None
  PROVE  LET p       == Rebuild(h)
             ev      == EventOf(o)
             verdict == VerdictOf(Applied(p, ev), o)
         IN  PolicyWork(h, o) =
               IF ApplyCode(p, ev) # "OK"
               THEN [appends |-> <<>>, ok |-> FALSE, answer |-> Refusal(ApplyCode(p, ev))]
               ELSE [appends |-> IF ev \in Range(h) THEN <<>> ELSE <<ev>>,
                     ok      |-> verdict.commit,
                     answer  |-> IF verdict.commit THEN Answer(o, verdict)
                                 ELSE Refusal(verdict.reason)]
  BY DEF PolicyWork, Decided, Thrown, NewEvents

(* A call that the store performs or refuses is a transaction.              *)
LEMMA StoreStep ==
  ASSUME DInv, NEW o, Store!Perform(o) \/ Store!Refuse(o)
  PROVE  Transaction(o)
<1> DEFINE p       == Rebuild(log)
           ev      == EventOf(o)
           verdict == VerdictOf(Applied(p, ev), o)
           w       == PolicyWork(log, o)
<1>1. p # None BY ProjectionAssumption DEF DInv
<1>2. log \in Seq(Event) BY DEF DInv
<1>3. CASE ApplyCode(p, ev) # "OK"
  <2>1. w = [appends |-> <<>>, ok |-> FALSE, answer |-> Refusal(ApplyCode(p, ev))]
    BY <1>1, <1>3, WorkShape
  <2>2. ~w.ok /\ w.answer = Refusal(ApplyCode(p, ev)) BY <2>1
  <2>3. reply' = w.answer /\ log' = log
    BY <2>2 DEF Store!Perform, Store!Refuse
  <2>4. QED BY <1>3, <2>2, <2>3 DEF Transaction
<1>4. CASE ApplyCode(p, ev) = "OK"
  <2>1. w = [appends |-> IF ev \in Range(log) THEN <<>> ELSE <<ev>>,
             ok      |-> verdict.commit,
             answer  |-> IF verdict.commit THEN Answer(o, verdict)
                         ELSE Refusal(verdict.reason)]
    BY <1>1, <1>4, WorkShape
  <2>2. /\ w.appends = IF ev \in Range(log) THEN <<>> ELSE <<ev>>
        /\ w.ok = verdict.commit
        /\ w.answer = IF verdict.commit THEN Answer(o, verdict) ELSE Refusal(verdict.reason)
    BY <2>1
  <2>3. Len(log) + Len(w.appends) <= Capacity
    BY DEF Store!Perform, Store!Refuse
  <2>4. HasRoom(ev)
    <3>1. CASE ev \in Range(log) BY <3>1 DEF HasRoom
    <3>2. CASE ev \notin Range(log)
      <4>1. Len(w.appends) = 1 /\ Len(log) \in Nat BY <1>2, <2>2, <3>2
      <4>2. QED BY <2>3, <4>1, CapacityAssumption DEF HasRoom
    <3>3. QED BY <3>1, <3>2
  <2>5. CASE verdict.commit
    <3>1. log' = log \o w.appends /\ reply' = Answer(o, verdict)
      BY <2>2, <2>5 DEF Store!Perform, Store!Refuse
    <3>2. log \o w.appends = Extended(log, ev)
      BY <1>2, <2>2 DEF Extended
    <3>3. QED BY <1>4, <2>4, <2>5, <3>1, <3>2 DEF Transaction
  <2>6. CASE ~verdict.commit
    <3>1. log' = log /\ reply' = Refusal(verdict.reason)
      BY <2>2, <2>6 DEF Store!Perform, Store!Refuse
    <3>2. QED BY <1>4, <2>4, <2>6, <3>1 DEF Transaction
  <2>7. QED BY <2>5, <2>6
<1>5. QED BY <1>3, <1>4

(* The three kinds of step of the boundary.                                 *)
LEMMA DurableStep ==
  ASSUME DInv, DurableNext
  PROVE  \/ log' = log /\ reply' = Refusal("STORE_UNAVAILABLE_OR_CORRUPT")
         \/ \E o \in Operation :
              \/ Precheck(o) # "OK" /\ log' = log /\ reply' = Refusal(Precheck(o))
              \/ Precheck(o) = "OK" /\ Transaction(o)
<1>1. CASE Store!Next
  <2>1. CASE Store!Fail
    BY <2>1 DEF Store!Fail, Unavailable
  <2>2. CASE ~Store!Fail
    <3>1. PICK o \in {x \in Operation : Precheck(x) = "OK"} :
            Store!Perform(o) \/ Store!Refuse(o)
      BY <1>1, <2>2 DEF Store!Next
    <3>2. o \in Operation /\ Precheck(o) = "OK" BY <3>1
    <3>3. Transaction(o) BY <3>1, StoreStep
    <3>4. QED BY <3>2, <3>3
  <2>3. QED BY <2>1, <2>2
<1>2. CASE \E o \in Operation : RefusedEarly(o)
  <2>1. PICK o \in Operation : RefusedEarly(o) BY <1>2
  <2>2. Precheck(o) # "OK" /\ log' = log /\ reply' = Refusal(Precheck(o))
    BY <2>1 DEF RefusedEarly
  <2>3. QED BY <2>1, <2>2
<1>3. QED BY <1>1, <1>2 DEF DurableNext
-----------------------------------------------------------------------------
(* After a transaction the history still rebuilds.                          *)
LEMMA TransactionRebuilds ==
  ASSUME DInv, NEW o \in Operation, Transaction(o)
  PROVE  DInv'
<1> DEFINE p  == Rebuild(log)
           ev == EventOf(o)
<1>1. CASE log' = log BY <1>1 DEF DInv
<1>2. CASE ApplyCode(p, ev) = "OK" /\ log' = Extended(log, ev)
  <2>1. log \in Seq(Event) /\ p \in Projection /\ Covers(log, p) BY DEF DInv
  <2>2. ev \in Event BY <1>2, OperationEvent
  <2>3. Rebuild(log') = Applied(p, ev) BY <1>2, <2>1, <2>2, RebuildExtended
  <2>4. Applied(p, ev) \in Projection BY <1>2, <2>1, <2>2, AppliedTyped
  <2>5. Covers(Extended(log, ev), Applied(p, ev))
    BY <1>2, <2>1, <2>2, CoversExtended DEF Accepts
  <2>6. log' \in Seq(Event) BY <1>2, <2>1, <2>2, RecordingShape
  <2>7. QED BY <1>2, <2>3, <2>4, <2>5, <2>6 DEF DInv
<1>3. QED BY <1>1, <1>2 DEF Transaction

(* DInv is inductive.                                                       *)
LEMMA DInvStep == DInv /\ [DurableNext]_durableVars => DInv'
<1> SUFFICES ASSUME DInv, [DurableNext]_durableVars PROVE DInv' OBVIOUS
<1>1. CASE log' = log BY <1>1 DEF DInv
<1>2. CASE DurableNext BY <1>1, <1>2, DurableStep, TransactionRebuilds
<1>3. QED BY <1>1, <1>2 DEF durableVars

(* The projection of the empty history is one, and covers it.               *)
LEMMA StartTyped == NewProjection \in Projection /\ Covers(<<>>, NewProjection)
<1>1. NewVerifier \in VerifierState BY DEF NewVerifier, VerifierState
<1>2. NewProjection \in Projection BY <1>1 DEF NewProjection, Projection
<1>3. Covers(<<>>, NewProjection)
  BY DEF Covers, ClockCovers, LatestCovers, RevocationsCover, ReviewsCover, Filed,
         OwnersAgree, NewProjection, NewVerifier
<1>4. QED BY <1>2, <1>3

(* The empty store.                                                         *)
LEMMA DInvInit == DurableInit => DInv
<1> SUFFICES ASSUME DurableInit PROVE DInv OBVIOUS
<1>1. log = <<>> BY DEF DurableInit, Store!Init
<1>2. Rebuild(log) = NewProjection BY <1>1, RebuildEmpty
<1>3. NewProjection \in Projection /\ Covers(<<>>, NewProjection) BY StartTyped
<1>4. QED BY <1>1, <1>2, <1>3 DEF DInv

(* #transaction: an accepted history is always accepted again, whatever was *)
(* accepted into it and however much time has passed.                       *)
THEOREM HistoryAlwaysRebuilds == DurableSpec => []HistoryRebuilds
<1>1. DInv => HistoryRebuilds BY ProjectionAssumption DEF DInv, HistoryRebuilds
<1>2. QED BY <1>1, DInvInit, DInvStep, PTL DEF DurableSpec

(* A transaction of the boundary is one of the ledger.                      *)
LEMMA TransactionRefines ==
  ASSUME DInv, NEW o \in Operation, Precheck(o) = "OK", Transaction(o)
  PROVE  Ledger!Perform(o)
<1> DEFINE p       == Rebuild(log)
           ev      == EventOf(o)
           verdict == VerdictOf(Applied(p, ev), o)
<1>1. /\ Ledger!EventOf(o) = ev
      /\ Ledger!ApplyCode(p, ev) = ApplyCode(p, ev)
      /\ Ledger!Applied(p, ev) = Applied(p, ev)
      /\ Ledger!VerdictOf(Applied(p, ev), o) = verdict
      /\ Ledger!Answer(o, verdict) = Answer(o, verdict)
      /\ \A r : Ledger!Refusal(r) = Refusal(r)
      /\ Ledger!Precheck(o) = "OK"
      /\ Ledger!HasRoom(ev) = HasRoom(ev)
      /\ Ledger!Recording(ev) = Extended(log, ev)
  <2>1. /\ Ledger!HasRoom(ev) = HasRoom(ev)
        /\ Ledger!Recording(ev) = Extended(log, ev)
    BY DEF Ledger!HasRoom, HasRoom, Ledger!Recording, Extended,
           Ledger!Range, Range
  <2>2. Ledger!EventOf(o) = ev BY SameEvent
  <2>3. Ledger!ApplyCode(p, ev) = ApplyCode(p, ev) BY SameAcceptance
  <2>4. Ledger!Applied(p, ev) = Applied(p, ev) BY SameEffect
  <2>5. Ledger!VerdictOf(Applied(p, ev), o) = verdict BY SameVerdict
  <2>6. Ledger!Answer(o, verdict) = Answer(o, verdict) BY SameAnswer
  <2>7. \A r : Ledger!Refusal(r) = Refusal(r) BY SameRefusal
  <2>8. Ledger!Precheck(o) = "OK" BY SamePrecheck
  <2>9. QED BY <2>1, <2>2, <2>3, <2>4, <2>5, <2>6, <2>7, <2>8
<1>2. log' = log => Rebuild(log') = p OBVIOUS
<1>3. Ledger!Transact(o)
  <2>1. CASE /\ ApplyCode(p, ev) # "OK"
             /\ reply' = Refusal(ApplyCode(p, ev))
             /\ log' = log
    BY <1>1, <1>2, <2>1 DEF Ledger!Transact, Ledger!Refuse
  <2>2. CASE /\ ApplyCode(p, ev) = "OK" /\ HasRoom(ev) /\ ~verdict.commit
             /\ reply' = Refusal(verdict.reason)
             /\ log' = log
    <3>1. verdict.reason # "OK" BY <2>2, VerdictShape
    <3>2. QED BY <1>1, <1>2, <2>2, <3>1 DEF Ledger!Transact, Ledger!Refuse
  <2>3. CASE /\ ApplyCode(p, ev) = "OK" /\ HasRoom(ev) /\ verdict.commit
             /\ log' = Extended(log, ev)
             /\ reply' = Answer(o, verdict)
    <3>1. Rebuild(log') = Applied(p, ev)
      <4>1. ev \in Event BY <2>3, OperationEvent
      <4>2. QED BY <2>3, <4>1, RebuildExtended DEF DInv
    <3>2. QED BY <1>1, <2>3, <3>1 DEF Ledger!Transact
  <2>4. QED BY <2>1, <2>2, <2>3 DEF Transaction
<1>4. QED BY <1>1, <1>3 DEF Ledger!Perform

(* A step of the boundary is one of the ledger.                             *)
LEMMA StepRefines ==
  DInv /\ [DurableNext]_durableVars => [Ledger!Next]_Ledger!vars
<1> SUFFICES ASSUME DInv, [DurableNext]_durableVars
             PROVE  [Ledger!Next]_Ledger!vars
  OBVIOUS
<1>1. CASE UNCHANGED durableVars BY <1>1 DEF durableVars, Ledger!vars
<1>2. CASE log' = log /\ reply' = Refusal("STORE_UNAVAILABLE_OR_CORRUPT")
  <2>1. Ledger!Refuse("STORE_UNAVAILABLE_OR_CORRUPT")
    BY <1>2, SameRefusal DEF Ledger!Refuse
  <2>2. QED BY <2>1 DEF Ledger!StoreUnavailable, Ledger!Next
<1>3. ASSUME NEW o \in Operation, Ledger!Perform(o)
      PROVE  Ledger!Next
  BY <1>3, SameOperations
     DEF Operation, Ledger!Next, Ledger!AcceptSnapshot,
         Ledger!AcceptReview, Ledger!AcceptCandidateReview,
         Ledger!RevokeKey, Ledger!RevokeArtifact,
         Ledger!CheckAccess, Ledger!CheckReview,
         Ledger!CheckCandidateReview
<1>4. ASSUME NEW o \in Operation, Precheck(o) # "OK", log' = log,
             reply' = Refusal(Precheck(o))
      PROVE  Ledger!Next
  <2>1. Ledger!Precheck(o) = Precheck(o) BY SamePrecheck
  <2>2. Ledger!Refuse(Precheck(o))
    BY <1>4, SameRefusal DEF Ledger!Refuse
  <2>3. Ledger!Perform(o) BY <2>1, <2>2 DEF Ledger!Perform
  <2>4. QED BY <1>3, <2>3
<1>5. ASSUME NEW o \in Operation, Precheck(o) = "OK", Transaction(o)
      PROVE  Ledger!Next
  BY <1>3, <1>5, TransactionRefines
<1>6. CASE DurableNext BY <1>2, <1>4, <1>5, <1>6, DurableStep
<1>7. QED BY <1>1, <1>6

(* Class DurablePolicySimulation: rebuilding the projection from the store  *)
(* in every transaction comes to the same as keeping it up to date, so that *)
(* all that is proved of PolicyLedger holds of the boundary.                *)
THEOREM DurableImplementsLedger == DurableSpec => LedgerSpec
<1>1. DurableInit => Ledger!Init
  <2> SUFFICES ASSUME DurableInit PROVE Ledger!Init OBVIOUS
  <2>1. log = <<>> /\ reply = Refusal("NONE")
    BY DEF DurableInit, Store!Init
  <2>2. Rebuild(log) = Ledger!NewProjection BY <2>1, RebuildEmpty, SameStart
  <2>3. QED BY <2>1, <2>2, SameRefusal DEF Ledger!Init
<1>2. QED BY <1>1, DInvInit, DInvStep, StepRefines, PTL
             DEF DurableSpec, LedgerSpec, Ledger!Spec

-----------------------------------------------------------------------------
(* The ledger with the real checks of the scoped policy and of the          *)
(* packages (CandidateBoundary). First, the greedy choice of reviewers: as  *)
(* in OrganizationPolicyProofs, but for the instance Scoped.                *)

(* find: the reviewer of one of the records, if there is any.               *)
LEMMA FirstReviewerFound ==
  ASSUME NEW reviews, NEW T \in SUBSET Nat
  PROVE  /\ T = {} => Scoped!FirstReviewer(reviews, T) = NoOne
         /\ T # {} => \E i \in T : Scoped!FirstReviewer(reviews, T) = reviews[i].reviewer
<1>1. T = {} => Scoped!FirstReviewer(reviews, T) = NoOne BY DEF Scoped!FirstReviewer
<1>2. ASSUME T # {} PROVE \E i \in T : Scoped!FirstReviewer(reviews, T) = reviews[i].reviewer
  <2>1. PICK x \in T : \A y \in T : ~(y < x) BY <1>2, LeastElement
  <2>2. \A y \in T : x <= y BY <2>1
  <2> DEFINE first == CHOOSE i \in T : \A j \in T : i <= j
  <2>3. first \in T BY <2>2
  <2>4. Scoped!FirstReviewer(reviews, T) = reviews[first].reviewer BY <1>2 DEF Scoped!FirstReviewer
  <2>5. QED BY <2>3, <2>4
<1>3. QED BY <1>1, <1>2

(* The role names of a mode: one, or two different ones.                    *)
LEMMA RolesOfMode ==
  ASSUME NEW mode \in DOMAIN Scoped!ReviewerRoles
  PROVE  LET roles == Scoped!ReviewerRoles[mode]
         IN  /\ DOMAIN roles = 1..Len(roles)
             /\ Len(roles) = 1 \/ (Len(roles) = 2 /\ roles[1] # roles[2])
<1>1. mode \in {"DEFAULT", "GOVERNANCE", "ARCHITECT"} BY DEF Scoped!ReviewerRoles
<1>2. QED BY <1>1 DEF Scoped!ReviewerRoles
-----------------------------------------------------------------------------
(* The records that can fill a role for the subject.                        *)
Qualified(role, subject, reviews, taken, context) ==
  {i \in DOMAIN reviews : Scoped!Qualifies(reviews[i], role, subject, taken, context)}

(* One turn of the loop over the roles.                                     *)
Turn(role, subject, reviews, chosen, context) ==
  Scoped!FirstReviewer(reviews,
    {i \in DOMAIN reviews :
       Scoped!Qualifies(reviews[i], role, subject, {chosen[n] : n \in DOMAIN chosen}, context)})

(* The function that the loop over the roles computes.                      *)
IsLoop(f, subject, reviews, context) ==
  LET roles == Scoped!ReviewerRoles[subject.accessMode]
  IN  f = [n \in 0..Len(roles) |->
             IF n = 0 THEN <<>>
             ELSE Append(f[n - 1], Turn(roles[n], subject, reviews, f[n - 1], context))]

LEMMA ReviewersLoop ==
  ASSUME NEW subject, NEW reviews, NEW context
  PROVE  Scoped!Reviewers(subject, reviews, context)
           = LET n == Len(Scoped!ReviewerRoles[subject.accessMode])
             IN  (CHOOSE f : IsLoop(f, subject, reviews, context))[n]
  BY DEF Scoped!Reviewers, IsLoop, Turn

(* The choice for the first role of the subject's mode, and for the second. *)
FirstChoice(subject, reviews, context) ==
  Scoped!FirstReviewer(reviews,
    Qualified(Scoped!ReviewerRoles[subject.accessMode][1], subject, reviews, {}, context))

SecondChoice(subject, reviews, context) ==
  Scoped!FirstReviewer(reviews,
    Qualified(Scoped!ReviewerRoles[subject.accessMode][2], subject, reviews,
              {FirstChoice(subject, reviews, context)}, context))

(* A turn before and after the first choice.                                *)
LEMMA FirstTurn ==
  ASSUME NEW role, NEW subject, NEW reviews, NEW context
  PROVE  Turn(role, subject, reviews, <<>>, context)
           = Scoped!FirstReviewer(reviews, Qualified(role, subject, reviews, {}, context))
<1>1. {<<>>[i] : i \in DOMAIN <<>>} = {} OBVIOUS
<1>2. QED BY <1>1, Zenon DEF Turn, Qualified

LEMMA SecondTurn ==
  ASSUME NEW role, NEW subject, NEW reviews, NEW context, NEW x
  PROVE  Turn(role, subject, reviews, <<x>>, context)
           = Scoped!FirstReviewer(reviews, Qualified(role, subject, reviews, {x}, context))
<1>1. {<<x>>[i] : i \in DOMAIN <<x>>} = {x} OBVIOUS
<1>2. QED BY <1>1, Zenon DEF Turn, Qualified

(* Appending to no and to one element.                                      *)
LEMMA Appended ==
  ASSUME NEW x, NEW y
  PROVE  Append(<<>>, x) = <<x>> /\ Append(<<x>>, y) = <<x, y>>
<1> DEFINE s == Append(<<x>>, y)
<1>1. Append(<<>>, x) = <<x>> OBVIOUS
<1>2. <<x>> \in Seq({x, y}) /\ y \in {x, y} OBVIOUS
<1>3. s \in Seq({x, y}) /\ Len(s) = 2 /\ s[1] = x /\ s[2] = y BY <1>2
<1> HIDE DEF s
<1>4. DOMAIN s = 1..2 /\ s = [i \in 1..2 |-> s[i]] BY <1>3
<1>5. 1..2 = {1, 2} OBVIOUS
<1>6. s = <<s[1], s[2]>> BY <1>4, <1>5
<1>7. QED BY <1>1, <1>3, <1>6 DEF s

(* One role is filled by the first choice, two by the first and the second. *)
LEMMA ReviewersChosen ==
  ASSUME NEW subject, NEW reviews, NEW context,
         subject.accessMode \in DOMAIN Scoped!ReviewerRoles
  PROVE  LET roles  == Scoped!ReviewerRoles[subject.accessMode]
             first  == FirstChoice(subject, reviews, context)
             second == SecondChoice(subject, reviews, context)
         IN  /\ Len(roles) = 1 => Scoped!Reviewers(subject, reviews, context) = <<first>>
             /\ Len(roles) = 2 => Scoped!Reviewers(subject, reviews, context) = <<first, second>>
<1> DEFINE roles == Scoped!ReviewerRoles[subject.accessMode]
           first == FirstChoice(subject, reviews, context)
           second == SecondChoice(subject, reviews, context)
           G == CHOOSE f : IsLoop(f, subject, reviews, context)
<1>a. Turn(roles[1], subject, reviews, <<>>, context) = first
  BY FirstTurn, Zenon DEF FirstChoice
<1>b. Turn(roles[2], subject, reviews, <<first>>, context)
        = Scoped!FirstReviewer(reviews, Qualified(roles[2], subject, reviews, {first}, context))
  BY SecondTurn, Zenon
<1>c. second = Scoped!FirstReviewer(reviews,
                 Qualified(roles[2], subject, reviews, {first}, context))
  BY Zenon DEF SecondChoice
<1>d. Turn(roles[2], subject, reviews, <<first>>, context) = second BY <1>b, <1>c, Zenon
<1>1. /\ Turn(roles[1], subject, reviews, <<>>, context) = first
      /\ Turn(roles[2], subject, reviews, <<first>>, context) = second
  BY <1>a, <1>d
<1>2. Append(<<>>, first) = <<first>> /\ Append(<<first>>, second) = <<first, second>>
  BY Appended, Zenon
<1>3. Scoped!Reviewers(subject, reviews, context) = G[Len(roles)] BY ReviewersLoop, Zenon
<1>4. ASSUME Len(roles) = 1 PROVE G[1] = <<first>>
  <2> DEFINE g == [n \in 0..1 |-> IF n = 0 THEN <<>> ELSE <<first>>]
  <2>1. 0..1 = {0, 1} OBVIOUS
  <2>2. g[0] = <<>> /\ g[1] = <<first>> OBVIOUS
  <2>3. g = [n \in 0..1 |-> IF n = 0 THEN <<>>
                            ELSE Append(g[n - 1],
                                        Turn(roles[n], subject, reviews, g[n - 1], context))]
    <3> DEFINE rhs(n) == IF n = 0 THEN <<>>
                         ELSE Append(g[n - 1], Turn(roles[n], subject, reviews, g[n - 1], context))
    <3>1. rhs(0) = g[0] BY <2>2
    <3>2. 1 - 1 = 0 OBVIOUS
    <3>3. rhs(1) = g[1] BY <2>2, <3>2, <1>1, <1>2, Zenon
    <3>4. \A n \in 0..1 : rhs(n) = g[n] BY <2>1, <3>1, <3>3
    <3> HIDE DEF rhs
    <3>5. g = [n \in 0..1 |-> g[n]] OBVIOUS
    <3>6. g = [n \in 0..1 |-> rhs(n)] BY <3>4, <3>5, Zenon
    <3>7. QED BY <3>6 DEF rhs
  <2> HIDE DEF g
  <2>4. IsLoop(g, subject, reviews, context) BY <2>3, <1>4, Zenon DEF IsLoop
  <2>5. IsLoop(G, subject, reviews, context) BY <2>4, Zenon
  <2> HIDE DEF G
  <2>6. G = [n \in 0..1 |-> IF n = 0 THEN <<>>
                            ELSE Append(G[n - 1],
                                        Turn(roles[n], subject, reviews, G[n - 1], context))]
    BY <2>5, <1>4, Zenon DEF IsLoop
  <2> DEFINE step(n) == Append(G[n - 1], Turn(roles[n], subject, reviews, G[n - 1], context))
  <2> HIDE DEF step
  <2>7. G = [n \in 0..1 |-> IF n = 0 THEN <<>> ELSE step(n)] BY <2>6, Zenon DEF step
  <2>8. G[0] = <<>> /\ G[1] = step(1) BY <2>7
  <2>9. 1 - 1 = 0 OBVIOUS
  <2>10. QED BY <2>8, <2>9, <1>1, <1>2, Zenon DEF step
<1>5. ASSUME Len(roles) = 2 PROVE G[2] = <<first, second>>
  <2> DEFINE g == [n \in 0..2 |->
                     IF n = 0 THEN <<>> ELSE IF n = 1 THEN <<first>> ELSE <<first, second>>]
  <2>1. 0..2 = {0, 1, 2} OBVIOUS
  <2>2. g[0] = <<>> /\ g[1] = <<first>> /\ g[2] = <<first, second>> OBVIOUS
  <2>3. g = [n \in 0..2 |-> IF n = 0 THEN <<>>
                            ELSE Append(g[n - 1],
                                        Turn(roles[n], subject, reviews, g[n - 1], context))]
    <3> DEFINE rhs(n) == IF n = 0 THEN <<>>
                         ELSE Append(g[n - 1], Turn(roles[n], subject, reviews, g[n - 1], context))
    <3>1. rhs(0) = g[0] BY <2>2
    <3>2. 1 - 1 = 0 /\ 2 - 1 = 1 OBVIOUS
    <3>3. rhs(1) = g[1] BY <2>2, <3>2, <1>1, <1>2, Zenon
    <3>8. rhs(2) = g[2] BY <2>2, <3>2, <1>1, <1>2, Zenon
    <3>4. \A n \in 0..2 : rhs(n) = g[n] BY <2>1, <3>1, <3>3, <3>8
    <3> HIDE DEF rhs
    <3>5. g = [n \in 0..2 |-> g[n]] OBVIOUS
    <3>6. g = [n \in 0..2 |-> rhs(n)] BY <3>4, <3>5, Zenon
    <3>7. QED BY <3>6 DEF rhs
  <2> HIDE DEF g
  <2>4. IsLoop(g, subject, reviews, context) BY <2>3, <1>5, Zenon DEF IsLoop
  <2>5. IsLoop(G, subject, reviews, context) BY <2>4, Zenon
  <2> HIDE DEF G
  <2>6. G = [n \in 0..2 |-> IF n = 0 THEN <<>>
                            ELSE Append(G[n - 1],
                                        Turn(roles[n], subject, reviews, G[n - 1], context))]
    BY <2>5, <1>5, Zenon DEF IsLoop
  <2> DEFINE step(n) == Append(G[n - 1], Turn(roles[n], subject, reviews, G[n - 1], context))
  <2> HIDE DEF step
  <2>7. G = [n \in 0..2 |-> IF n = 0 THEN <<>> ELSE step(n)] BY <2>6, Zenon DEF step
  <2>8. G[0] = <<>> /\ G[1] = step(1) /\ G[2] = step(2) BY <2>7
  <2>9. 1 - 1 = 0 /\ 2 - 1 = 1 OBVIOUS
  <2>10. step(1) = <<first>> BY <2>8, <2>9, <1>1, <1>2, Zenon DEF step
  <2>11. step(2) = <<first, second>> BY <2>8, <2>9, <2>10, <1>1, <1>2, Zenon DEF step
  <2>12. QED BY <2>8, <2>11
<1>6. QED BY <1>3, <1>4, <1>5
-----------------------------------------------------------------------------
LEMMA QualifiesUntaken ==
  ASSUME NEW record, NEW role, NEW subject, NEW taken, NEW context
  PROVE  Scoped!Qualifies(record, role, subject, taken, context)
           <=> Scoped!Qualifies(record, role, subject, {}, context) /\ record.reviewer \notin taken
  BY DEF Scoped!Qualifies

(* Records by different people qualify for the roles of the subject's mode. *)
Complete(subject, reviews, context) ==
  LET roles == Scoped!ReviewerRoles[subject.accessMode]
  IN  \E choice \in [DOMAIN roles -> DOMAIN reviews] :
        /\ \A n \in DOMAIN roles :
             Scoped!Qualifies(reviews[choice[n]], roles[n], subject, {}, context)
        /\ \A m, n \in DOMAIN roles :
             m # n => reviews[choice[m]].reviewer # reviews[choice[n]].reviewer

(* The loop over the roles left none without a reviewer.                    *)
AllChosen(subject, reviews, context) ==
  ~\E n \in DOMAIN Scoped!Reviewers(subject, reviews, context) :
     Scoped!Reviewers(subject, reviews, context)[n] = NoOne

LEMMA AllChosenIs ==
  ASSUME NEW subject, NEW reviews, NEW context,
         subject.accessMode \in DOMAIN Scoped!ReviewerRoles
  PROVE  AllChosen(subject, reviews, context)
           <=> /\ FirstChoice(subject, reviews, context) # NoOne
               /\ Len(Scoped!ReviewerRoles[subject.accessMode]) = 2
                  => SecondChoice(subject, reviews, context) # NoOne
<1> DEFINE roles == Scoped!ReviewerRoles[subject.accessMode]
           first == FirstChoice(subject, reviews, context)
           second == SecondChoice(subject, reviews, context)
           chosen == Scoped!Reviewers(subject, reviews, context)
<1>1. /\ Len(roles) = 1 => chosen = <<first>>
      /\ Len(roles) = 2 => chosen = <<first, second>>
  BY ReviewersChosen, Zenon
<1>2. Len(roles) = 1 \/ Len(roles) = 2 BY RolesOfMode, Zenon
<1>3. AllChosen(subject, reviews, context) <=> \A n \in DOMAIN chosen : chosen[n] # NoOne
  BY Zenon DEF AllChosen
<1> HIDE DEF chosen, first, second, roles
<1>4. CASE Len(roles) = 1
  <2>1. chosen = <<first>> BY <1>1, <1>4
  <2>2. (\A n \in DOMAIN chosen : chosen[n] # NoOne) <=> first # NoOne BY <2>1
  <2>3. QED BY <2>2, <1>3, <1>4 DEF first, second, roles
<1>5. CASE Len(roles) = 2
  <2>1. chosen = <<first, second>> BY <1>1, <1>5
  <2>2. (\A n \in DOMAIN chosen : chosen[n] # NoOne) <=> first # NoOne /\ second # NoOne
    BY <2>1
  <2>3. QED BY <2>2, <1>3, <1>5 DEF first, second, roles
<1>6. QED BY <1>2, <1>4, <1>5

(* A complete choice is one of different people who qualify.                *)
LEMMA AllChosenComplete ==
  ASSUME NEW S, NEW subject, NEW reviews \in Seq(S), NEW context,
         subject.accessMode \in DOMAIN Scoped!ReviewerRoles,
         AllChosen(subject, reviews, context)
  PROVE  Complete(subject, reviews, context)
<1> DEFINE roles == Scoped!ReviewerRoles[subject.accessMode]
           first == FirstChoice(subject, reviews, context)
           second == SecondChoice(subject, reviews, context)
           Q(n, taken) == Qualified(roles[n], subject, reviews, taken, context)
<1>1. /\ DOMAIN roles = 1..Len(roles)
      /\ Len(roles) = 1 \/ Len(roles) = 2
  BY RolesOfMode, Zenon
<1>2. \A n, taken : Q(n, taken) \in SUBSET Nat /\ Q(n, taken) \subseteq DOMAIN reviews
  BY DEF Qualified
<1>3. first = Scoped!FirstReviewer(reviews, Q(1, {})) BY Zenon DEF FirstChoice
<1>4. second = Scoped!FirstReviewer(reviews, Q(2, {first})) BY Zenon DEF SecondChoice
<1>5. first # NoOne /\ (Len(roles) = 2 => second # NoOne) BY AllChosenIs, Zenon
<1>6. \A n, taken : \A i \in Q(n, taken) :
        /\ i \in DOMAIN reviews
        /\ Scoped!Qualifies(reviews[i], roles[n], subject, {}, context)
        /\ reviews[i].reviewer \notin taken
  BY QualifiesUntaken DEF Qualified
<1> HIDE DEF first, second, Q, roles
<1>7. PICK i \in Q(1, {}) : first = reviews[i].reviewer
  BY <1>2, <1>3, <1>5, FirstReviewerFound
<1>8. Complete(subject, reviews, context)
        <=> \E choice \in [DOMAIN roles -> DOMAIN reviews] :
              /\ \A n \in DOMAIN roles :
                   Scoped!Qualifies(reviews[choice[n]], roles[n], subject, {}, context)
              /\ \A m, n \in DOMAIN roles :
                   m # n => reviews[choice[m]].reviewer # reviews[choice[n]].reviewer
  BY DEF Complete, roles
<1>9. CASE Len(roles) = 1
  <2> DEFINE choice == [n \in 1..1 |-> i]
  <2>1. DOMAIN roles = {1} BY <1>1, <1>9
  <2>2. choice \in [DOMAIN roles -> DOMAIN reviews] /\ choice[1] = i BY <2>1, <1>6, <1>7
  <2> HIDE DEF choice
  <2>3. QED BY <2>1, <2>2, <1>6, <1>7, <1>8
<1>10. CASE Len(roles) = 2
  <2>1. PICK j \in Q(2, {first}) : second = reviews[j].reviewer
    BY <1>2, <1>4, <1>5, <1>10, FirstReviewerFound
  <2> DEFINE choice == [n \in 1..2 |-> IF n = 1 THEN i ELSE j]
  <2>2. DOMAIN roles = {1, 2} BY <1>1, <1>10
  <2>3. choice \in [DOMAIN roles -> DOMAIN reviews] /\ choice[1] = i /\ choice[2] = j
    BY <2>1, <2>2, <1>6, <1>7
  <2>4. reviews[j].reviewer # reviews[i].reviewer BY <2>1, <1>6, <1>7
  <2> HIDE DEF choice
  <2>5. \A n \in DOMAIN roles : Scoped!Qualifies(reviews[choice[n]], roles[n], subject, {}, context)
    BY <2>1, <2>2, <2>3, <1>6, <1>7
  <2>6. \A m, n \in DOMAIN roles :
          m # n => reviews[choice[m]].reviewer # reviews[choice[n]].reviewer
    BY <2>2, <2>3, <2>4
  <2>7. QED BY <2>3, <2>5, <2>6, <1>8
<1>11. QED BY <1>1, <1>9, <1>10

-----------------------------------------------------------------------------
(* Where the scoped review is complete, its mode is known and each of its   *)
(* roles has a reviewer.                                                    *)
LEMMA ReviewOK ==
  ASSUME NEW subject, NEW reviews, NEW s, NEW receipt,
         Scoped!CheckScopedReview(subject, reviews, s, receipt) = "OK",
         NEW context, context = Scoped!ReviewContext(subject, s, receipt.now)
  PROVE  /\ subject.accessMode \in DOMAIN Scoped!ReviewerRoles
         /\ AllChosen(subject, reviews, context)
<1> DEFINE simulated == Scoped!SimulateReleaseReview(subject, reviews, context)
           Missing == \E n \in DOMAIN Scoped!Reviewers(subject, reviews, context) :
                        Scoped!Reviewers(subject, reviews, context)[n] = NoOne
           Unknown == subject.accessMode \notin DOMAIN Scoped!ReviewerRoles
<1>1. simulated = "OK"
  <2> HIDE DEF simulated
  <2>1. Scoped!CheckScopedReview(subject, reviews, s, receipt) \in
          {"INVALID_REVIEW_CONTRACT", "INVALID_OR_STALE_SNAPSHOT", "SCOPE_OR_POLICY_MISMATCH",
           "AUDIENCE_ACCESS_DENIED", "EXPLICIT_DENIAL", simulated}
    BY Zenon DEF Scoped!CheckScopedReview, simulated
  <2>2. QED BY <2>1
<1>2. ~Unknown /\ ~Missing
  <2>1. Unknown => simulated = "INVALID_CONTEXT" BY Zenon DEF Scoped!SimulateReleaseReview
  <2>2. Missing => simulated \in {"INVALID_CONTEXT", "RESOURCE_DENIED", "REVIEW_REJECTED",
                                  "QUALIFIED_REVIEW_REQUIRED"}
    BY Zenon DEF Scoped!SimulateReleaseReview
  <2> HIDE DEF simulated, Missing, Unknown
  <2>3. QED BY <1>1, <2>1, <2>2
<1>3. AllChosen(subject, reviews, context) <=> ~Missing BY Zenon DEF AllChosen
<1>4. QED BY <1>2, <1>3

(* The records of a finite set, in any order.                               *)
LEMMA Ordered ==
  ASSUME NEW S, IsFiniteSet(S)
  PROVE  SetToSeq(S) \in Seq(S)
<1>1. \E f \in [1..Cardinality(S) -> S] : IsInjective(f)
  <2>1. PICK f : f \in Bijection(1..Cardinality(S), S) BY FS_CardinalityType DEF ExistsBijection
  <2>2. QED BY <2>1 DEF Bijection, Injection
<1>2. SetToSeq(S) \in [1..Cardinality(S) -> S] BY <1>1 DEF SetToSeq
<1>3. Cardinality(S) \in Nat BY FS_CardinalityType
<1>4. QED BY <1>2, <1>3
-----------------------------------------------------------------------------
(* As many checks as claims, about claims and about no claim twice, leave   *)
(* out no claim.                                                            *)
LEMMA EveryClaimChecked ==
  ASSUME NEW S, NEW T, NEW claims \in Seq(S), NEW checks \in Seq(T),
         Len(checks) = Len(claims),
         IsInjective(Package!Column(checks, "claim_id")),
         \A check \in Range(checks) : \E claim \in Range(claims) : claim.id = check.claim_id
  PROVE  \A claim \in Range(claims) : \E check \in Range(checks) : check.claim_id = claim.id
<1> DEFINE n   == Len(claims)
           ids == {claims[i].id : i \in DOMAIN claims}
           f   == [i \in 1..n |-> checks[i].claim_id]
           g   == [i \in 1..n |-> claims[i].id]
<1>1. n \in Nat /\ DOMAIN claims = 1..n /\ DOMAIN checks = 1..n OBVIOUS
<1>2. IsInjective(f) BY <1>1 DEF Package!Column
<1>3. \A i \in 1..n : checks[i] \in Range(checks) BY <1>1 DEF Range
<1>4. \A claim \in Range(claims) : claim.id \in ids BY DEF Range
<1>5. f \in [1..n -> ids] BY <1>3, <1>4
<1>6. g \in Surjection(1..n, ids) BY <1>1 DEF Surjection
<1> HIDE DEF ids, f, g, n
<1>7. IsFiniteSet(1..n) /\ Cardinality(1..n) = n
  <2>1. 1 \in Int /\ n \in Int BY <1>1
  <2>2. QED BY <1>1, <2>1, FS_Interval
<1>8. f \in Injection(1..n, ids) BY <1>2, <1>5 DEF Injection
<1>9. IsFiniteSet(ids) /\ Cardinality(ids) <= n BY <1>6, <1>7, FS_Surjection
<1>10. n <= Cardinality(ids) BY <1>7, <1>8, <1>9, FS_Injection
<1>11. Cardinality(ids) = n BY <1>1, <1>9, <1>10, FS_CardinalityType
<1>12. f \in Surjection(1..n, ids) BY <1>7, <1>8, <1>9, <1>11, FS_Injection
<1>13. ASSUME NEW claim \in Range(claims)
       PROVE  \E check \in Range(checks) : check.claim_id = claim.id
  <2>1. PICK i \in 1..n : f[i] = claim.id BY <1>4, <1>12 DEF Surjection
  <2>2. checks[i] \in Range(checks) /\ checks[i].claim_id = claim.id BY <1>3, <2>1 DEF f
  <2>3. QED BY <2>2
<1>14. QED BY <1>13

(* The instance's own names of the library's operators.                     *)
LEMMA SameLibrary ==
  ASSUME NEW f
  PROVE  Package!Range(f) = Range(f) /\ (Package!IsInjective(f) <=> IsInjective(f))
  BY DEF Package!Range, Range, Package!IsInjective, IsInjective

(* A complete assessment of a package attests to each of its claims.        *)
LEMMA CompleteAttests ==
  ASSUME NEW pkg, NEW record, Package!AssessmentComplete(pkg, record),
         IsSequence(pkg.claims),
         "candidateAssessment" \in DOMAIN record
         => IsSequence(record.candidateAssessment.claim_checks)
  PROVE  Attests(record, pkg)
<1> DEFINE checks == record.candidateAssessment.claim_checks
           bound  == Package!AssessmentBindingReason(pkg, record)
           Predates == \E time \in {pkg.candidate.provenance.completed_at}
                                     \cup {source.captured_at : source \in Package!Range(pkg.sources)} :
                         record.reviewedAt < time
           Unbound == \/ record.candidateAssessment.package # pkg
                      \/ record.candidateAssessment.answer # pkg.candidate.provenance.answer
           Mistaken == \/ ~Package!IsInjective(Package!Column(checks, "claim_id"))
                       \/ \E check \in Package!Range(checks) :
                            \A claim \in Package!Range(pkg.claims) : claim.id # check.claim_id
<1>1. /\ bound = "OK" /\ record.decision = "APPROVE"
      /\ Len(checks) = Len(pkg.claims)
      /\ \A check \in Package!Range(checks) : check.finding = "SUPPORTED"
  BY Zenon DEF Package!AssessmentComplete
<1>2. bound = IF "candidateAssessment" \notin DOMAIN record
              THEN "SIGNED_CANDIDATE_ASSESSMENT_REQUIRED"
              ELSE IF Unbound THEN "ASSESSMENT_BINDING_MISMATCH"
              ELSE IF Predates THEN "ASSESSMENT_PREDATES_CONTENT"
              ELSE IF Mistaken THEN "ASSESSMENT_CLAIM_MISMATCH"
              ELSE "OK"
  BY Zenon DEF Package!AssessmentBindingReason
<1>3. "candidateAssessment" \in DOMAIN record /\ ~Unbound /\ ~Mistaken
  <2> HIDE DEF bound, Unbound, Predates, Mistaken
  <2>1. QED BY <1>1, <1>2
<1>4. /\ IsInjective(Package!Column(checks, "claim_id"))
      /\ \A check \in Range(checks) : \E claim \in Range(pkg.claims) : claim.id = check.claim_id
      /\ \A check \in Range(checks) : check.finding = "SUPPORTED"
  <2>1. /\ Package!Range(checks) = Range(checks) /\ Package!Range(pkg.claims) = Range(pkg.claims)
        /\ Package!IsInjective(Package!Column(checks, "claim_id"))
           <=> IsInjective(Package!Column(checks, "claim_id"))
    BY SameLibrary
  <2> HIDE DEF checks
  <2>2. QED BY <1>1, <1>3, <2>1
<1>5. checks \in Seq(Range(checks)) /\ pkg.claims \in Seq(Range(pkg.claims))
  BY <1>3 DEF IsSequence
<1>6. record.candidateAssessment.package = pkg BY <1>3
<1> HIDE DEF checks
<1>7. \A claim \in Range(pkg.claims) : \E check \in Range(checks) : check.claim_id = claim.id
  BY <1>1, <1>4, <1>5, EveryClaimChecked
<1>8. QED BY <1>1, <1>4, <1>6, <1>7 DEF Attests, checks
-----------------------------------------------------------------------------
(* A reviewer who can read the sources may read each of them.               *)
LEMMA ReaderMayRead ==
  ASSUME NEW s, NEW record, NEW resources, NEW snapshot, NEW receipt,
         Scoped!ReviewerCanReadSources(s, record, resources, snapshot, receipt),
         NEW resource \in resources
  PROVE  MayRead(record.reviewer, record.role, resource, snapshot, receipt.now)
<1> DEFINE r       == Scoped!RequestOf(s, record.reviewer, resource, "read")
           context == Scoped!ContextFor(r, snapshot, receipt.now)
<1>1. Scoped!HasClearance(r, record.role, context) BY DEF Scoped!ReviewerCanReadSources
<1>2. r.actor = record.reviewer /\ r.resource = resource /\ r.operation = "read"
  BY DEF Scoped!RequestOf
<1> HIDE DEF r
<1>3. context.now = receipt.now /\ context.clearances \subseteq snapshot.clearances
  BY DEF Scoped!ContextFor
<1> HIDE DEF context
<1>4. PICK c \in context.clearances : Scoped!Grants(c, r, record.role, context)
  BY <1>1 DEF Scoped!HasClearance
<1>5. /\ c.subject = record.reviewer /\ c.issuer # record.reviewer /\ c.role = record.role
      /\ resource \in c.resources /\ "read" \in c.operations
      /\ ~c.revoked /\ c.issuedAt <= receipt.now /\ receipt.now < c.expiresAt
  BY <1>2, <1>3, <1>4 DEF Scoped!Grants
<1>6. QED BY <1>3, <1>5 DEF MayRead
-----------------------------------------------------------------------------
(* Every stored review was recorded.                                        *)
Stored(h, p) ==
  \A id \in ReviewId :
    p.reviews[id] # None
    => \E i \in DOMAIN h : IsReview(h[i]) /\ h[i].artifact = p.reviews[id]

LEMMA StoredExtended ==
  ASSUME NEW h, NEW p, NEW ev, Accepts(h, p, ev), Stored(h, p)
  PROVE  Stored(Extended(h, ev), Applied(p, ev))
<1> DEFINE q  == Applied(p, ev)
           h2 == Extended(h, ev)
<1>1. h \in Seq(Event) /\ p \in Projection /\ ev \in Event /\ ApplyCode(p, ev) = "OK"
  BY DEF Accepts
<1>2. \A i \in DOMAIN h : i \in DOMAIN h2 /\ h2[i] = h[i] BY <1>1 DEF Extended
<1>3. PICK k \in DOMAIN h2 : h2[k] = ev
  <2>1. ev \in Range(h2) BY ExtendedHistory
  <2> HIDE DEF h2
  <2>2. QED BY <2>1 DEF Range
<1>4. p.reviews \in [ReviewId -> Artifact \cup {None}] BY <1>1 DEF Projection
<1>5. ASSUME NEW id \in ReviewId, q.reviews[id] # None
      PROVE  \E i \in DOMAIN h2 : IsReview(h2[i]) /\ h2[i].artifact = q.reviews[id]
  <2>1. CASE IsReview(ev)
    <3>1. q.reviews = [p.reviews EXCEPT ![ev.artifact.artifact_id] = ev.artifact]
      BY <1>1, <2>1, ReviewAdds
    <3> HIDE DEF q, h2
    <3>2. CASE id = ev.artifact.artifact_id BY <1>3, <1>4, <2>1, <3>1, <3>2
    <3>3. CASE id # ev.artifact.artifact_id
      <4>1. q.reviews[id] = p.reviews[id] BY <1>4, <3>1, <3>3
      <4>2. QED BY <1>2, <1>5, <4>1 DEF Stored
    <3>4. QED BY <3>2, <3>3
  <2>2. CASE ~IsReview(ev)
    <3>1. q.reviews = p.reviews BY <1>1, <2>2, OtherAdds
    <3> HIDE DEF q, h2
    <3>2. QED BY <1>2, <1>5, <3>1 DEF Stored
  <2>3. QED BY <2>1, <2>2
<1>6. QED BY <1>5 DEF Stored

(* Every step keeps it so.                                                  *)
LEMMA NextStored ==
  TypeOK /\ ProjectionCoversHistory /\ Stored(log, proj) /\ [Next]_vars => Stored(log, proj)'
<1> SUFFICES ASSUME TypeOK, ProjectionCoversHistory, Stored(log, proj), [Next]_vars
             PROVE  Stored(log', proj')
  OBVIOUS
<1>1. CASE Quiet BY <1>1 DEF Quiet
<1>2. ASSUME NEW op \in Operation, Commits(op), Accepting(EventOf(op))
      PROVE  Stored(log', proj')
  BY <1>2, StoredExtended DEF Accepting
<1>3. QED BY <1>1, <1>2, StepShape

(* Hence a subject has finitely many records.                               *)
LEMMA FiniteRecords ==
  ASSUME NEW h \in Seq(Event), NEW p, Stored(h, p), NEW s
  PROVE  IsFiniteSet(Records(p, s))
<1> DEFINE n == Len(h)
           f == [i \in 1..n |-> h[i].artifact.payload]
           T == {h[i].artifact.payload : i \in 1..n}
<1>1. n \in Nat /\ DOMAIN h = 1..n OBVIOUS
<1>2. Records(p, s) \subseteq T
  <2> SUFFICES ASSUME NEW a \in StoredReviews(p, s) PROVE a.payload \in T BY DEF Records
  <2>1. PICK id \in ReviewId : a = p.reviews[id] /\ a # None BY DEF StoredReviews
  <2>2. PICK i \in DOMAIN h : h[i].artifact = a BY <2>1 DEF Stored
  <2>3. QED BY <1>1, <2>2
<1>3. f \in Surjection(1..n, T) BY DEF Surjection
<1> HIDE DEF n, f, T
<1>4. IsFiniteSet(1..n)
  <2>1. 1 \in Int /\ n \in Int BY <1>1
  <2>2. QED BY <2>1, FS_Interval
<1>5. IsFiniteSet(T) BY <1>3, <1>4, FS_Surjection
<1>6. QED BY <1>2, <1>5, FS_Subset
-----------------------------------------------------------------------------
(* What a completed candidate review rests on.                              *)
Attested(h, p, op) ==
  LET s        == op.subject
      now      == op.now
      snapshot == op.artifact.payload
      roles    == Scoped!ReviewerRoles[s.accessMode]
  IN  \E choice \in [DOMAIN roles -> {p.reviews[id] : id \in ReviewId} \ {None}] :
        /\ \A m, n \in DOMAIN roles :
             m # n => choice[m].payload.reviewer # choice[n].payload.reviewer
        /\ \A n \in DOMAIN roles :
             LET record == choice[n].payload
             IN  /\ \E i \in DOMAIN h : IsReview(h[i]) /\ h[i].artifact = choice[n]
                 /\ record.subjectHash = s /\ record.role = roles[n]
                 /\ record.reviewer \notin {s.requester, s.producer}
                 /\ record.reviewedAt <= now /\ now < choice[n].expires_at
                 /\ Attests(record, s.candidate)
                 /\ \A resource \in {s.resource} \cup Evidence(s) :
                      MayRead(record.reviewer, roles[n], resource, snapshot, now)

LEMMA ReviewTime ==
  ASSUME NEW s, NEW snapshot, NEW t, NEW context, context = Scoped!ReviewContext(s, snapshot, t)
  PROVE  context.now = t
<1> DEFINE whole == Scoped!ContextFor(Scoped!ReleaseRequest(s, s.requester), snapshot, t)
           Allowed(c) == ~Scoped!IsDenied(Scoped!ReleaseRequest(s, c.subject), snapshot)
<1>1. /\ whole.now = t
      /\ DOMAIN whole = {"principals", "resources", "issuerMandates", "now", "clearances"}
  BY DEF Scoped!ContextFor
<1>2. context = [whole EXCEPT !.clearances = {c \in @ : Allowed(c)}]
  BY Zenon DEF Scoped!ReviewContext
<1> HIDE DEF whole, Allowed
<1>3. QED BY <1>1, <1>2

(* A stored review of a subject is a review artifact, and was recorded.     *)
LEMMA StoredReview ==
  ASSUME NEW h, NEW p \in Projection, Covers(h, p), Stored(h, p), NEW s,
         NEW a \in StoredReviews(p, s)
  PROVE  /\ a \in ReviewArtifact
         /\ a \in {p.reviews[id] : id \in ReviewId} \ {None}
         /\ \E i \in DOMAIN h : IsReview(h[i]) /\ h[i].artifact = a
<1>1. PICK id \in ReviewId : a = p.reviews[id] /\ a # None BY DEF StoredReviews
<1>2. p.reviews \in [ReviewId -> Artifact \cup {None}] BY DEF Projection
<1>3. a \in Artifact /\ a.kind = "review" BY <1>1, <1>2 DEF Covers, ReviewsCover, Filed
<1>4. QED BY <1>1, <1>3 DEF ReviewArtifact, Stored

(* The records that a positive candidate check has let through.             *)
Eligible(p, op) ==
  {r \in Records(p, op.subject) :
     /\ CompleteAssessment(op.subject, r)
     /\ ReviewerReadsSources(op.subject, r, op.artifact.payload, op.now)}

LEMMA PositiveCandidate ==
  ASSUME NEW p, NEW op, op.name = "checkCandidateReview", VerdictOf(p, op).positive
  PROVE  ScopedReview(op.subject, Eligible(p, op), op.artifact.payload, op.now) = "OK"
<1>1. ReviewVerdict(p, op).positive BY DEF VerdictOf
<1>2. /\ op.subject \notin p.rejected
      /\ StoredReviewCode(p, op) = "OK"
      /\ VerifyCode(p.verifier, op.artifact, "snapshot", op.now, None) = "OK"
  BY <1>1 DEF ReviewVerdict, Returns, Throws
<1>3. ReviewVerdict(p, op) = CandidateVerdict(p, op) BY <1>2 DEF ReviewVerdict
<1> DEFINE code == ScopedReview(op.subject, Eligible(p, op), op.artifact.payload, op.now)
<1>4. CandidateVerdict(p, op)
        = IF ~AudienceReadsSources(op.subject, op.artifact.payload, op.now)
          THEN Throws("AUDIENCE_EVIDENCE_ACCESS_DENIED") ELSE Returns(code)
  BY Zenon DEF CandidateVerdict, Eligible
<1> HIDE DEF code
<1>5. Returns(code).positive BY <1>1, <1>3, <1>4 DEF Throws
<1>6. code = "OK" BY <1>5 DEF Returns
<1>7. QED BY <1>6 DEF code
-----------------------------------------------------------------------------
(* What a check asks of one record.                                         *)
Supported(h, op, a, role) ==
  LET record == a.payload
      s      == op.subject
  IN  /\ \E i \in DOMAIN h : IsReview(h[i]) /\ h[i].artifact = a
      /\ record.subjectHash = s /\ record.role = role
      /\ record.reviewer \notin {s.requester, s.producer}
      /\ record.reviewedAt <= op.now /\ op.now < a.expires_at
      /\ Attests(record, s.candidate)
      /\ \A resource \in {s.resource} \cup Evidence(s) :
           MayRead(record.reviewer, role, resource, op.artifact.payload, op.now)

(* An eligible record that qualifies for a role supports the subject in it. *)
LEMMA EligibleSupports ==
  ASSUME RealChecks, ReviewFormats,
         NEW h, NEW p \in Projection, Covers(h, p), Stored(h, p),
         NEW op \in CheckCandidateReviews, op.artifact \in SnapshotArtifact,
         Precheck(op) = "OK", VerdictOf(p, op).positive,
         NEW a \in StoredReviews(p, op.subject), a.payload \in Eligible(p, op),
         NEW role, NEW taken, NEW context, context.now = op.now,
         Scoped!Qualifies(a.payload, role, op.subject, taken, context)
  PROVE  Supported(h, op, a, role)
<1> DEFINE s        == op.subject
           now      == op.now
           record   == a.payload
           snapshot == op.artifact.payload
<1>1. /\ op.name = "checkCandidateReview" /\ s \in Subject /\ op.context \in Context
      /\ now \in Time
  BY DEF CheckCandidateReviews
<1>2. a \in ReviewArtifact /\ \E i \in DOMAIN h : IsReview(h[i]) /\ h[i].artifact = a
  BY StoredReview
<1>3. /\ record.subjectHash = s /\ record.role = role
      /\ record.reviewer \notin {s.requester, s.producer}
      /\ record.reviewedAt <= now
  BY DEF Scoped!Qualifies
<1>4. now < a.expires_at
  <2>1. VerifyCode(p.verifier, a, "review", now, s) = "OK" BY <1>1, PositiveReview DEF ReviewCheck
  <2>2. Passes(p.verifier, a, "review", now, s) BY <2>1, VerifyAccepts
  <2>3. QED BY <2>2 DEF Passes, InValidityWindow
<1>5. CompleteAssessment(s, record) /\ ReviewerReadsSources(s, record, snapshot, now)
  BY DEF Eligible
<1>6. Attests(record, s.candidate)
  <2>1. CheckedPackage(s, op.context, now) = "OK"
    <3>1. CandidateReason(s, op.context, now) = "OK" BY <1>1 DEF Precheck
    <3>2. CandidateReason(s, op.context, now) = CheckedPackage(s, op.context, now)
      BY <1>1 DEF RealChecks
    <3>3. QED BY <3>1, <3>2
  <2>2. IsSequence(s.candidate.claims) BY <1>1, <2>1 DEF ReviewFormats
  <2>3. CompleteAssessment(s, record) = CheckedAssessment(s, record) BY <1>1, <1>2 DEF RealChecks
  <2>4. Package!AssessmentComplete(s.candidate, record) BY <1>5, <2>3 DEF CheckedAssessment
  <2>5. "candidateAssessment" \in DOMAIN record
        => IsSequence(record.candidateAssessment.claim_checks)
    BY <1>2 DEF ReviewFormats
  <2> HIDE DEF record, s
  <2>6. QED BY <2>2, <2>4, <2>5, CompleteAttests
<1>7. ASSUME NEW resource \in {s.resource} \cup Evidence(s)
      PROVE  MayRead(record.reviewer, role, resource, snapshot, now)
  <2> DEFINE receipt == ReceiptFor(snapshot, now)
             resources == {s.resource} \cup Evidence(s)
  <2>1. ReviewerReadsSources(s, record, snapshot, now)
          = ReviewerReadsEvidence(s, record, snapshot, now)
    BY <1>1, <1>2 DEF RealChecks
  <2>2. Scoped!ReviewerCanReadSources(s, record, resources, snapshot, receipt)
    BY <1>5, <2>1 DEF ReviewerReadsEvidence
  <2>3. receipt.now = now BY DEF ReceiptFor, Scoped!Receipt
  <2> HIDE DEF record, s, receipt, resources, snapshot, now
  <2>4. MayRead(record.reviewer, record.role, resource, snapshot, receipt.now)
    BY <1>7, <2>2, ReaderMayRead DEF resources
  <2>5. QED BY <1>3, <2>3, <2>4
<1>8. QED BY <1>2, <1>3, <1>4, <1>6, <1>7 DEF Supported

(* A positive candidate check rests on one such record for each role, by    *)
(* different reviewers.                                                     *)
LEMMA CandidateAttested ==
  ASSUME RealChecks, ReviewFormats,
         NEW h \in Seq(Event), NEW p \in Projection, Covers(h, p), Stored(h, p),
         NEW op \in CheckCandidateReviews, Precheck(op) = "OK", VerdictOf(p, op).positive
  PROVE  Attested(h, p, op)
<1> DEFINE s        == op.subject
           now      == op.now
           snapshot == op.artifact.payload
           receipt  == ReceiptFor(snapshot, now)
           eligible == Eligible(p, op)
           reviews  == SetToSeq(eligible)
           context  == Scoped!ReviewContext(s, snapshot, receipt.now)
           roles    == Scoped!ReviewerRoles[s.accessMode]
           stored   == StoredReviews(p, s)
<1>1. /\ op.name = "checkCandidateReview" /\ s \in Subject /\ op.artifact \in Artifact
      /\ now \in Time
  BY DEF CheckCandidateReviews
<1>2. op.artifact \in SnapshotArtifact
  <2>1. VerifyCode(p.verifier, op.artifact, "snapshot", now, None) = "OK"
    BY <1>1, PositiveReview DEF ReviewCheck
  <2>2. Passes(p.verifier, op.artifact, "snapshot", now, None) BY <2>1, VerifyAccepts
  <2>3. QED BY <1>1, <2>2 DEF Passes, SnapshotArtifact
<1>3. eligible \in SUBSET {a.payload : a \in ReviewArtifact} /\ IsFiniteSet(eligible)
  <2>1. eligible \subseteq Records(p, s) BY DEF Eligible
  <2>2. Records(p, s) \subseteq {a.payload : a \in ReviewArtifact} BY StoredReview DEF Records
  <2>3. IsFiniteSet(Records(p, s)) BY FiniteRecords
  <2> HIDE DEF eligible
  <2>4. QED BY <2>1, <2>2, <2>3, FS_Subset
<1>4. Scoped!CheckScopedReview(s, reviews, snapshot, receipt) = "OK"
  <2>1. ScopedReview(s, eligible, snapshot, now) = "OK" BY <1>1, PositiveCandidate
  <2>2. ScopedReview(s, eligible, snapshot, now) = CheckedReview(s, eligible, snapshot, now)
    <3> HIDE DEF eligible
    <3>1. QED BY <1>1, <1>2, <1>3 DEF RealChecks
  <2>3. QED BY <2>1, <2>2, Zenon DEF CheckedReview
<1>5. reviews \in Seq(eligible) BY <1>3, Ordered
<1>6. receipt.now = now BY DEF ReceiptFor, Scoped!Receipt
<1>7. context.now = now BY <1>6, ReviewTime
<1>8. s.accessMode \in DOMAIN Scoped!ReviewerRoles /\ AllChosen(s, reviews, context)
  BY <1>4, ReviewOK, Zenon
<1> HIDE DEF context, reviews, receipt
<1>9. Complete(s, reviews, context) BY <1>5, <1>8, AllChosenComplete
<1>10. PICK choice \in [DOMAIN roles -> DOMAIN reviews] :
         /\ \A n \in DOMAIN roles :
              Scoped!Qualifies(reviews[choice[n]], roles[n], s, {}, context)
         /\ \A m, n \in DOMAIN roles :
              m # n => reviews[choice[m]].reviewer # reviews[choice[n]].reviewer
  BY <1>9 DEF Complete
<1> DEFINE picked == [n \in DOMAIN roles |-> CHOOSE a \in stored : a.payload = reviews[choice[n]]]
<1>11. ASSUME NEW n \in DOMAIN roles
       PROVE  picked[n] \in stored /\ picked[n].payload = reviews[choice[n]]
  <2>1. reviews[choice[n]] \in eligible BY <1>5, <1>10
  <2>2. eligible \subseteq {a.payload : a \in stored} BY DEF Eligible, Records
  <2> HIDE DEF eligible, stored, roles
  <2>3. \E a \in stored : a.payload = reviews[choice[n]] BY <2>1, <2>2
  <2>4. picked[n] = CHOOSE a \in stored : a.payload = reviews[choice[n]] BY <1>11
  <2> HIDE DEF picked
  <2>5. QED BY <2>3, <2>4
<1>12. picked \in [DOMAIN roles -> {p.reviews[id] : id \in ReviewId} \ {None}]
  <2>1. stored \subseteq {p.reviews[id] : id \in ReviewId} \ {None} BY StoredReview
  <2>2. DOMAIN picked = DOMAIN roles /\ picked = [n \in DOMAIN roles |-> picked[n]] OBVIOUS
  <2> HIDE DEF picked, stored, roles
  <2>3. QED BY <1>11, <2>1, <2>2
<1> HIDE DEF picked
<1>13. \A m, n \in DOMAIN roles :
         m # n => picked[m].payload.reviewer # picked[n].payload.reviewer
  BY <1>10, <1>11
<1>14. ASSUME NEW n \in DOMAIN roles PROVE Supported(h, op, picked[n], roles[n])
  <2>1. picked[n] \in stored /\ picked[n].payload = reviews[choice[n]] BY <1>11
  <2>2. picked[n].payload \in eligible BY <1>5, <1>10, <2>1
  <2>3. Scoped!Qualifies(picked[n].payload, roles[n], s, {}, context) BY <1>10, <2>1
  <2> HIDE DEF roles
  <2>4. QED BY <1>2, <1>7, <2>1, <2>2, <2>3, EligibleSupports
<1> HIDE DEF roles
<1>15. /\ picked \in [DOMAIN roles -> {p.reviews[id] : id \in ReviewId} \ {None}]
       /\ \A m, n \in DOMAIN roles :
            m # n => picked[m].payload.reviewer # picked[n].payload.reviewer
       /\ \A n \in DOMAIN roles : Supported(h, op, picked[n], roles[n])
  BY <1>12, <1>13, <1>14
<1>16. QED BY <1>15, Zenon DEF Attested, Supported, roles

(* checkCandidateReview: a candidate's review is complete only if somebody  *)
(* else for each role of its mode recorded an assessment of this package    *)
(* that finds each claim supported, and may read every source.              *)
THEOREM CandidatesAlwaysAttested ==
  ASSUME RealChecks, ReviewFormats
  PROVE  Spec => []CandidateCompletionIsAttested
<1> DEFINE Inv == Stored(log, proj) /\ CandidateCompletionIsAttested
<1>1. Init => Inv
  BY DEF Init, Stored, NewProjection, CandidateCompletionIsAttested, Positive, Refusal
<1>2. TypeOK /\ ProjectionCoversHistory /\ Inv /\ [Next]_vars => Inv'
  <2> SUFFICES ASSUME TypeOK, ProjectionCoversHistory, Inv, [Next]_vars
               PROVE  CandidateCompletionIsAttested'
    BY NextStored
  <2> SUFFICES ASSUME Positive({"checkCandidateReview"})'
               PROVE  Attested(log', proj', reply'.op)
    BY DEF CandidateCompletionIsAttested, Attested
  <2>1. CASE UNCHANGED vars
    <3>1. Attested(log, proj, reply.op)
      BY <2>1 DEF CandidateCompletionIsAttested, Attested, Positive, vars
    <3>2. QED BY <2>1, <3>1 DEF vars
  <2>2. CASE /\ Accepting(EventOf(reply'.op))
             /\ reply'.op \in Operation
             /\ reply'.op.name \in {"checkCandidateReview"}
             /\ Precheck(reply'.op) = "OK"
             /\ VerdictOf(proj', reply'.op).positive
    <3>1. reply'.op \in CheckCandidateReviews
      BY <2>2 DEF Operation, AcceptSnapshots, AcceptReviews, AcceptCandidateReviews, RevokeKeys,
                  RevokeArtifacts, CheckAccesses, CheckReviews
    <3>2. TypeOK' /\ Covers(log', proj') BY <2>2, NextTyped, CoversStep
    <3>3. Stored(log', proj') BY NextStored
    <3>4. log' \in Seq(Event) /\ proj' \in Projection BY <3>2 DEF TypeOK
    <3>5. QED BY <2>2, <3>1, <3>2, <3>3, <3>4, CandidateAttested
  <2>3. QED BY <2>1, <2>2, PositiveStep
<1>3. QED BY <1>1, <1>2, TypeCorrect, ProjectionSound, PTL DEF Spec
=============================================================================
