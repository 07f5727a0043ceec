------------------------------- MODULE Workbench -------------------------------
(***************************************************************************)
(* The review workbench: scripts/review-policy/workbench.ts (a session per *)
(* mode over a durable boundary), workbench-server.ts (its requests) and   *)
(* src/workbench/app.js (what a browser tab does with the answers).        *)
(*                                                                         *)
(* A handler runs to its end without a pause.  Between the page and the    *)
(* server anything may be lost or late: a request may be handled after the *)
(* page gave up on it, or never, and an answer may not arrive.  A request  *)
(* that times out before its body is there counts as never handled.  The   *)
(* reviewer is the person at the tab, and signs with the test key.         *)
(***************************************************************************)
EXTENDS WorkbenchFixture

CONSTANTS
  Tab,           \* browser tabs
  SessionMode,   \* the modes whose sessions are looked at
  MaxRequests    \* bound: requests sent and restarts of the server, together

ASSUME WorkbenchAssumption ==
  /\ SessionMode \subseteq AccessMode
  /\ MaxRequests \in Nat

VARIABLES
  session,    \* per mode, the stored history and what it projects to
  token,      \* the token of the running server
  tab,        \* the page in each tab
  sent,       \* requests sent so far; a request's number is its id
  requests,   \* the requests sent to the running server
  answers,    \* its answers, as long as a page waits for them
  written     \* ghost: the assessments stored, each with what its sender saw

vars == <<session, token, tab, sent, requests, answers, written>>
-----------------------------------------------------------------------------
(* What a reviewer may fill in: a positive, an undecided and a negative     *)
(* assessment. The other fields of the form are left at their best.         *)
Form(decision, finding) ==
  [decision |-> decision, authority_claims |-> "CLEARED", output_admissibility |-> "PASS",
   claim_checks |-> [n \in DOMAIN SessionClaims |->
                       [claim_id |-> SessionClaims[n].id, finding |-> finding]]]

Forms ==
  {Form("APPROVE", "SUPPORTED"), Form("APPROVE", "UNCERTAIN"), Form("REJECT", "SUPPORTED")}

(* The assessment that the server makes of a form, signed.                  *)
ReviewFrom(mode, who, revision, form) ==
  LET supported == \A check \in Range(form.claim_checks) : check.finding = "SUPPORTED"
  IN  SignedReview(mode, who, revision, form.decision,
        IF supported THEN "VERIFIED" ELSE "UNVERIFIED",
        IF form.authority_claims = "CLEARED" THEN "CLEARED" ELSE "PENDING",
        IF form.output_admissibility = "PASS" THEN "PASS" ELSE "FAIL",
        [package |-> SessionSubject(mode).candidate, answer |-> SessionText,
         coverage |-> "COMPLETE", claim_checks |-> form.claim_checks,
         authority_claims |-> form.authority_claims,
         output_admissibility |-> form.output_admissibility])

WorkbenchArtifact ==
  {SignedSnapshot(mode) : mode \in SessionMode}
    \cup UNION {{ReviewFrom(mode, who, revision, form) :
                   who \in RequiredReviewers(mode), revision \in 1..MaxRequests, form \in Forms} :
                mode \in SessionMode}

(* The elements of a sequence at some of its places, in order. SelectSeq    *)
(* would do, but nothing can be proved of an operator argument.             *)
Filtered(s, places) ==
  LET kept[n \in 0..Len(s)] ==
        IF n = 0 THEN <<>>
        ELSE IF n \in places THEN Append(kept[n - 1], s[n]) ELSE kept[n - 1]
  IN  kept[Len(s)]

RecordFor(ev) == [revision |-> ev.artifact.revision, record |-> ev.artifact.payload]

(* The assessments in a history, in order, as the page gets them.           *)
RecordsOf(history) ==
  LET reviews == Filtered(history, {n \in DOMAIN history : IsReview(history[n])})
  IN  [n \in DOMAIN reviews |-> RecordFor(reviews[n])]

ByReviewer(records, who) ==
  Filtered(records, {n \in DOMAIN records : records[n].record.reviewer = who})

(* Mutant of Latest: the first assessment of a reviewer is found.           *)
LatestIsFirst(records, who) ==
  LET theirs == ByReviewer(records, who)
  IN  IF theirs = <<>> THEN 0 ELSE theirs[1].revision

(* The revision a reviewer's next assessment replaces, on either side.      *)
Latest(records, who) ==
  LET theirs == ByReviewer(records, who)
  IN  IF theirs = <<>> THEN 0 ELSE theirs[Len(theirs)].revision
-----------------------------------------------------------------------------
NewSession == [log |-> <<>>, proj |-> NewProjection]

(* Mutant of Recording: the projection is kept and not brought up to date.  *)
RecordingCached(s, op) ==
  LET ev      == EventOf(op)
      early   == Precheck(op)
      code    == IF early = "OK" THEN ApplyCode(s.proj, ev) ELSE early
      q       == Applied(s.proj, ev)
      verdict == VerdictOf(q, op)
  IN  IF code # "OK" THEN [session |-> s, answer |-> Refusal(code)]
      ELSE IF ~verdict.commit THEN [session |-> s, answer |-> Refusal(verdict.reason)]
      ELSE [session |-> [s EXCEPT !.log = IF ev \in Range(@) THEN @ ELSE Append(@, ev)],
            answer  |-> Answer(op, verdict)]

(* One operation of the durable boundary on a session's store.              *)
Recording(s, op) ==
  LET ev      == EventOf(op)
      early   == Precheck(op)
      code    == IF early = "OK" THEN ApplyCode(s.proj, ev) ELSE early
      q       == Applied(s.proj, ev)
      verdict == VerdictOf(q, op)
  IN  IF code # "OK" THEN [session |-> s, answer |-> Refusal(code)]
      ELSE IF ~verdict.commit THEN [session |-> s, answer |-> Refusal(verdict.reason)]
      ELSE [session |-> [log |-> IF ev \in Range(s.log) THEN s.log ELSE Append(s.log, ev),
                         proj |-> q],
            answer  |-> Answer(op, verdict)]

StateOp(mode) ==
  [name |-> "checkCandidateReview", subject |-> SessionSubject(mode), context |-> SessionContext,
   artifact |-> SignedSnapshot(mode), now |-> SessionNow]

(* The session's state is computed anew for every answer, and computing it  *)
(* stores the snapshot it was computed with.                                *)
Checked(s, mode) == Recording(s, StateOp(mode))

View(mode, checked) ==
  [mode |-> mode, records |-> RecordsOf(checked.session.log), csrf_token |-> token,
   reason |-> checked.answer.reason, review_complete |-> checked.answer.positive]

AcceptOp(req) ==
  [name |-> "acceptCandidateReview", subject |-> SessionSubject(req.mode),
   context |-> SessionContext, now |-> SessionNow,
   artifact |-> ReviewFrom(req.mode, req.reviewer,
                  Latest(RecordsOf(session[req.mode].log), req.reviewer) + 1, req.form)]

(* Mutant of Objection: the last one to submit wins.                        *)
ObjectionLastWins(req) ==
  IF req.reviewer \notin RequiredReviewers(req.mode) THEN "INVALID_TEST_REVIEWER" ELSE "OK"

(* The page can send neither another subject nor another set of claims.     *)
Objection(req) ==
  IF req.reviewer \notin RequiredReviewers(req.mode) THEN "INVALID_TEST_REVIEWER"
  ELSE IF req.expected_revision # Latest(RecordsOf(session[req.mode].log), req.reviewer)
  THEN "REVIEW_CHANGED_REFRESH_REQUIRED"
  ELSE "OK"

(* What becomes of an assessment nobody objects to.                         *)
Accepted(req) == Recording(session[req.mode], AcceptOp(req))
-----------------------------------------------------------------------------
Success(view) == [ok |-> TRUE, view |-> view]

Failure(code) == [ok |-> FALSE, code |-> code]

Open == {req \in requests : \A answer \in answers : answer.id # req.id}

(* finish: an answer to a page that is gone is not sent.                    *)
Reply(req, body) ==
  LET waits == tab[req.tab].waiting = req.id
  IN  answers' = answers \cup {[id |-> req.id, body |-> IF waits THEN body ELSE None]}

(* The answers once the page in t has stopped waiting for its own.          *)
Abandoned(t) ==
  {IF answer.id = tab[t].waiting THEN [answer EXCEPT !.body = None] ELSE answer :
     answer \in answers}

Store(req, s) == session' = [session EXCEPT ![req.mode] = s]

(* What its sender had on the page is noted along with an assessment.       *)
Wrote(req, s) ==
  written' = Append(written,
    [mode |-> req.mode, reviewer |-> req.reviewer, seen |-> req.seen,
     revision |-> Latest(RecordsOf(s.log), req.reviewer)])

(* GET /api/workbench.                                                      *)
HandleLoad(req) ==
  LET checked == Checked(session[req.mode], req.mode)
  IN  /\ req.kind = "load"
      /\ Store(req, checked.session)
      /\ Reply(req, Success(View(req.mode, checked)))
      /\ UNCHANGED written

(* POST /api/reviews from a page that this server sent.                     *)
HandleSubmit(req) ==
  LET accepted == Accepted(req)
      checked  == Checked(accepted.session, req.mode)
  IN  /\ req.kind = "submit"
      /\ req.csrf_token = token
      /\ IF Objection(req) # "OK"
         THEN Reply(req, Failure(Objection(req))) /\ UNCHANGED <<session, written>>
         ELSE IF ~accepted.answer.positive
         THEN Reply(req, Failure(accepted.answer.reason)) /\ UNCHANGED <<session, written>>
         ELSE /\ Store(req, checked.session)
              /\ Reply(req, Success(View(req.mode, checked)))
              /\ Wrote(req, accepted.session)

(* POST /api/reviews from a page of an earlier server.                      *)
HandleRefused(req) ==
  /\ req.kind = "submit"
  /\ req.csrf_token # token
  /\ Reply(req, Failure("WORKBENCH_REQUEST_REQUIRED"))
  /\ UNCHANGED <<session, written>>

(* The store is busy or fails in one of the transactions of a request: what *)
(* the transactions before it stored is kept. The two codes for it are one. *)
HandleFailed(req) ==
  /\ req.kind = "submit" => req.csrf_token = token
  /\ Reply(req, Failure("STORE_UNAVAILABLE_OR_CORRUPT"))
  /\ \/ UNCHANGED <<session, written>>
     \/ /\ req.kind = "load"
        /\ Store(req, Checked(session[req.mode], req.mode).session)
        /\ UNCHANGED written
     \/ /\ req.kind = "submit"
        /\ Objection(req) = "OK"
        /\ Accepted(req).answer.positive
        /\ Wrote(req, Accepted(req).session)
        /\ Store(req, Accepted(req).session)

Handle(req) ==
  /\ HandleLoad(req) \/ HandleSubmit(req) \/ HandleRefused(req) \/ HandleFailed(req)
  /\ UNCHANGED <<token, tab, sent, requests>>

(* A new server has new sessions and a new token; every connection is gone. *)
Restart ==
  /\ sent + token < MaxRequests
  /\ token' = token + 1
  /\ session' = [mode \in SessionMode |-> NewSession]
  /\ requests' = {}
  /\ answers' = {}
  /\ written' = <<>>
  /\ UNCHANGED <<tab, sent>>
-----------------------------------------------------------------------------
(* A page: the view it shows, the request it waits for (0 for none), and    *)
(* whether that is a load; whether its refresh button, its form and its     *)
(* retry button can be used; and the last request it saw the answer of.     *)
ClosedPage ==
  [view |-> None, waiting |-> 0, loading |-> FALSE, refresh |-> FALSE, fields |-> FALSE,
   retry |-> FALSE, answered |-> 0]

Send(t, page, req) ==
  /\ sent + token < MaxRequests
  /\ sent' = sent + 1
  /\ requests' = requests \cup {req}
  /\ tab' = [tab EXCEPT ![t] = page]
  /\ answers' = Abandoned(t)
  /\ UNCHANGED <<session, token, written>>

LoadRequest(t, mode) == [id |-> sent + 1, tab |-> t, kind |-> "load", mode |-> mode]

(* busy(true): nothing can be used while the page waits.                    *)
Busy(page, load) ==
  [page EXCEPT !.waiting = sent + 1, !.loading = load,
               !.refresh = FALSE, !.fields = FALSE, !.retry = FALSE]

(* Refresh, retry, or a change of mode.                                     *)
Load(t) ==
  /\ tab[t].refresh \/ tab[t].retry
  /\ \E mode \in SessionMode : Send(t, Busy(tab[t], TRUE), LoadRequest(t, mode))

(* The page is opened, or loaded again by the browser.                      *)
Reload(t) ==
  \E mode \in SessionMode : Send(t, Busy(ClosedPage, TRUE), LoadRequest(t, mode))

Submit(t) ==
  LET view == tab[t].view
  IN  /\ tab[t].fields
      /\ \E who \in RequiredReviewers(view.mode), form \in Forms :
           Send(t, Busy(tab[t], FALSE),
             [id |-> sent + 1, tab |-> t, kind |-> "submit", mode |-> view.mode,
              reviewer |-> who, expected_revision |-> Latest(view.records, who),
              form |-> form, csrf_token |-> view.csrf_token,
              seen |-> ByReviewer(view.records, who), after |-> tab[t].answered])

Rendered(page, view) ==
  [page EXCEPT !.view = view, !.answered = page.waiting, !.waiting = 0,
               !.refresh = TRUE, !.fields = TRUE]

(* Mutants of Unconfirmed: the form can be used again at once, and nothing  *)
(* can be used after an assessment that was not confirmed.                  *)
UnconfirmedUsable(page) ==
  [page EXCEPT !.waiting = 0, !.refresh = TRUE, !.retry = page.loading,
               !.fields = page.view # None]

UnconfirmedStuck(page) ==
  [page EXCEPT !.waiting = 0, !.refresh = page.loading, !.retry = page.loading]

(* A load or an assessment that failed, or whose answer was lost.           *)
Unconfirmed(page) ==
  [page EXCEPT !.waiting = 0, !.refresh = TRUE, !.retry = page.loading]

AnswerArrives(t) ==
  /\ \E answer \in answers :
       /\ answer.id = tab[t].waiting
       /\ tab' = [tab EXCEPT ![t] = IF answer.body.ok THEN Rendered(@, answer.body.view)
                                                      ELSE Unconfirmed(@)]
  /\ answers' = Abandoned(t)
  /\ UNCHANGED <<session, token, sent, requests, written>>

ConnectionLost(t) ==
  /\ tab[t].waiting # 0
  /\ tab' = [tab EXCEPT ![t] = Unconfirmed(@)]
  /\ answers' = Abandoned(t)
  /\ UNCHANGED <<session, token, sent, requests, written>>
-----------------------------------------------------------------------------
Init ==
  /\ session = [mode \in SessionMode |-> NewSession]
  /\ token = 0
  /\ tab = [t \in Tab |-> ClosedPage]
  /\ sent = 0
  /\ requests = {}
  /\ answers = {}
  /\ written = <<>>

Next ==
  \/ \E t \in Tab :
       Load(t) \/ Reload(t) \/ Submit(t) \/ AnswerArrives(t) \/ ConnectionLost(t)
  \/ \E req \in Open : Handle(req)
  \/ Restart

(* A fetch of a page settles in the end: answered or failed.                *)
Fairness == \A t \in Tab : WF_vars(AnswerArrives(t) \/ ConnectionLost(t))

Spec == Init /\ [][Next]_vars /\ Fairness
-----------------------------------------------------------------------------
(* What the page calls a positive assessment, and a blocked draft.          *)
Qualified(record) ==
  LET assessment == record.candidateAssessment
  IN  /\ record.decision = "APPROVE"
      /\ assessment.coverage = "COMPLETE"
      /\ Len(assessment.claim_checks) = Len(SessionClaims)
      /\ \A check \in Range(assessment.claim_checks) : check.finding = "SUPPORTED"
      /\ assessment.authority_claims = "CLEARED"
      /\ assessment.output_admissibility = "PASS"

Rejected(records) == \E item \in Range(records) : item.record.decision = "REJECT"

(* The record that an assessment leaves, and what the boundary makes of the *)
(* latest records of a session when no key or artifact was revoked.         *)
Payload(mode, who, form) == ReviewFrom(mode, who, 1, form).payload

Standing(mode, records) ==
  LET snapshot == SessionSnapshot(mode)
      eligible == {r \in records :
                     /\ CompleteAssessment(SessionSubject(mode), r)
                     /\ ReviewerReadsSources(SessionSubject(mode), r, snapshot, SessionNow)}
  IN  ScopedReview(SessionSubject(mode), eligible, snapshot, SessionNow)

(* createSession: the boundary of a session knows the session's keys.       *)
ASSUME SessionAssumption ==
  /\ TrustedKey = SessionKeys
  /\ Artifact = WorkbenchArtifact
  /\ SessionNow \in Time
  /\ \A mode \in SessionMode : SessionSubject(mode) \in SubjectHash

(* The boundary of a session asks the checks of PolicyChecks: about its one *)
(* package, and about at most one record of each reviewer.                  *)
ASSUME SessionChecksAssumption ==
  \A mode \in SessionMode :
    LET subject  == SessionSubject(mode)
        snapshot == SessionSnapshot(mode)
    IN  /\ CandidateReason(subject, SessionContext, SessionNow)
             = CheckedPackage(subject, SessionContext, SessionNow)
        /\ AudienceReadsSources(subject, snapshot, SessionNow)
             = AudienceReadsEvidence(subject, snapshot, SessionNow)
        /\ \A who \in RequiredReviewers(mode), form \in Forms :
             LET record == Payload(mode, who, form)
             IN  /\ BindingReason(subject, record) = CheckedBinding(subject, record)
                 /\ CompleteAssessment(subject, record) = CheckedAssessment(subject, record)
                 /\ ReviewerReadsSources(subject, record, snapshot, SessionNow)
                      = ReviewerReadsEvidence(subject, record, snapshot, SessionNow)
        /\ \A given \in [RequiredReviewers(mode) -> Forms] :
             \A reviewers \in SUBSET RequiredReviewers(mode) :
               LET records == {Payload(mode, who, given[who]) : who \in reviewers}
               IN  ScopedReview(subject, records, snapshot, SessionNow)
                     = CheckedReview(subject, records, snapshot, SessionNow)

(* createSession throws if the gate refuses the session's answer.           *)
ASSUME SessionAnswerAssumption ==
  /\ OutputAdmissible(SessionContext.candidateContext.inputDecision, SessionText)
  /\ NoOne \notin Holders

(* workbench.ts, lines 95-96: whoever stores an assessment had all earlier  *)
(* ones of that reviewer on the page, whatever other tabs did meanwhile and *)
(* whatever answers were lost.                                              *)
NothingOverwrittenUnseen ==
  \A n \in DOMAIN written :
    LET w      == written[n]
        stored == ByReviewer(RecordsOf(session[w.mode].log), w.reviewer)
    IN  w.seen = SubSeq(stored, 1, w.revision - 1)

(* app.js, lines 53-59 and 94-100: the status a page shows, which the       *)
(* server computes from its stored reviews, says the same as the history    *)
(* below it, which the page judges by itself.                               *)
StatusAgreesWithHistory ==
  \A t \in Tab :
    LET view == tab[t].view
        LastQualifies(who) ==
          LET theirs == ByReviewer(view.records, who)
          IN  theirs # <<>> /\ Qualified(theirs[Len(theirs)].record)
    IN  view # None =>
          /\ (view.reason = "REVIEW_REJECTED") <=> Rejected(view.records)
          /\ view.review_complete <=>
               /\ ~Rejected(view.records)
               /\ \A who \in RequiredReviewers(view.mode) : LastQualifies(who)

(* workbench.ts, lines 109-110: what the server signs for a reviewer is     *)
(* never refused by its own boundary; a submission fails only because the   *)
(* page or the reviewer's revision is an old one, or the store is down.     *)
SignedRecordsAreAccepted ==
  \A answer \in answers :
    answer.body = None \/ answer.body.ok \/ answer.body.code \in
      {"WORKBENCH_REQUEST_REQUIRED", "REVIEW_CHANGED_REFRESH_REQUIRED",
       "STORE_UNAVAILABLE_OR_CORRUPT"}

(* app.js, line 155: a response may be lost after commit, so a page that    *)
(* writes again has shown the answer to its last write or to a later load.  *)
RefreshBeforeWrite ==
  \A first, second \in {req \in requests : req.kind = "submit"} :
    first.tab = second.tab /\ first.id < second.id => second.after >= first.id

(* app.js, lines 129 and 156: a page that waits can be used again in the    *)
(* end, whatever is lost.                                                   *)
PageRecovers == \A t \in Tab : tab[t].waiting # 0 ~> tab[t].refresh
=============================================================================
