--------------------------- MODULE PackageDrafting ---------------------------
(***************************************************************************)
(* A candidate answer is put together for review: its author attaches      *)
(* sources and states claims, the controllers that captured the invocation *)
(* and the sources may capture them again, and time passes.  The package   *)
(* is prepared (prepareCandidateReview) and then checked again and again   *)
(* (validateCandidateReviewSubject) by acceptCandidateReview and           *)
(* checkCandidateReview, which may be much later.                          *)
(***************************************************************************)
EXTENDS CandidateReview

CONSTANTS
  Candidate,   \* generated answers
  Captured,    \* contexts the controllers may have captured
  Scope,       \* the subject, but for its candidate
  Source,      \* sources the author may attach
  Claim,       \* claims the author may state
  None,        \* no package was prepared yet
  MaxSources,  \* bound on the sources
  MaxClaims,   \* bound on the claims
  MaxTime      \* bound on the clock

ASSUME DraftBounds == MaxSources \in Nat /\ MaxClaims \in Nat /\ MaxTime \in Nat

(* The formats of what the drafts are made of.                              *)
IsSequence(items) == items \in Seq(Range(items))

ASSUME DraftFormats ==
  /\ \A answer \in Candidate : answer.provenance.completed_at \in Nat
  /\ \A captured \in Captured : IsSequence(captured.evidenceReceipts)
  /\ {"organization", "domain"} \subseteq DOMAIN Scope
  /\ \A source \in Source :
       /\ {"source_id", "content", "organization", "domain", "captured_at", "text"}
            \subseteq DOMAIN source
       /\ source.captured_at \in Nat
       /\ IsSequence(source.text)
  /\ \A claim \in Claim :
       /\ IsSequence(claim.support)
       /\ \A support \in Range(claim.support) : support.start \in Nat /\ support.end \in Nat

VARIABLES candidate, context, sources, claims, now, subject

vars == <<candidate, context, sources, claims, now, subject>>

Init ==
  /\ candidate \in Candidate
  /\ context \in Captured
  /\ sources = <<>> /\ claims = <<>>
  /\ now = 0
  /\ subject = None

Attach(source) ==
  /\ subject = None
  /\ Len(sources) < MaxSources
  /\ sources' = Append(sources, source)
  /\ UNCHANGED <<candidate, context, claims, now, subject>>

State(claim) ==
  /\ subject = None
  /\ Len(claims) < MaxClaims
  /\ claims' = Append(claims, claim)
  /\ UNCHANGED <<candidate, context, sources, now, subject>>

Recapture(other) ==
  /\ other # context
  /\ context' = other
  /\ UNCHANGED <<candidate, sources, claims, now, subject>>

Tick ==
  /\ now < MaxTime
  /\ now' = now + 1
  /\ UNCHANGED <<candidate, context, sources, claims, subject>>

(* A refused draft leaves nothing behind.                                   *)
Prepare ==
  LET drafted == Prepared(candidate, context, Scope, sources, claims)
  IN  /\ subject = None
      /\ PackageCode(drafted, context, now) = "OK"
      /\ subject' = drafted
      /\ UNCHANGED <<candidate, context, sources, claims, now>>

Next ==
  \/ \E source \in Source : Attach(source)
  \/ \E claim \in Claim : State(claim)
  \/ \E other \in Captured : Recapture(other)
  \/ Tick
  \/ Prepare

Spec == Init /\ [][Next]_vars
-----------------------------------------------------------------------------
(* The receipts that the controllers captured for a source.                 *)
ReceiptsOf(id, captured) ==
  {receipt \in Range(captured.evidenceReceipts) : receipt.source_id = id}

(* The claim quotes text one can see from sources that were captured, in    *)
(* the subject's organization and domain, by now.                           *)
Sourced(claim, captured) ==
  /\ claim.support # <<>>
  /\ \A support \in Range(claim.support) :
       /\ ReceiptsOf(support.source_id, captured) # {}
       /\ \A receipt \in ReceiptsOf(support.source_id, captured) :
            /\ receipt.captured_at <= now
            /\ receipt.organization = Scope.organization /\ receipt.domain = Scope.domain
            /\ \E offset \in Span(support) \cap (0..(Len(receipt.content) - 1)) :
                 receipt.content[offset + 1]

(* validateCandidateReviewSubject: in a prepared package every visible      *)
(* character of the answer belongs to exactly one claim, every claim quotes *)
(* captured text, and every captured source is quoted by some claim. This   *)
(* speaks of the receipts, not of the sources the author supplied.          *)
PreparedIsGrounded ==
  subject # None
  => LET pkg == subject.candidate
     IN  /\ \A i \in DOMAIN candidate.answer :
              candidate.answer[i]
              => Cardinality({n \in DOMAIN pkg.claims : i - 1 \in Span(pkg.claims[n])}) = 1
         /\ \A claim \in Range(pkg.claims) : Sourced(claim, pkg.context)
         /\ {receipt.source_id : receipt \in Range(pkg.context.evidenceReceipts)}
              = Used(pkg.claims)

(* validateCandidateReviewSubject: a prepared package passes every later    *)
(* check made with the context it was prepared in, however late, and none   *)
(* made with any other.                                                     *)
ValidInItsContextOnly ==
  subject # None => (PackageCode(subject, context, now) = "OK" <=> context = subject.candidate.context)
=============================================================================
