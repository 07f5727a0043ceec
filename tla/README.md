# A TLA+ model of SkillSpring

SkillSpring evaluates inputs through a governed pipeline: it classifies a text,
decides under which mode it is answered, refuses risk, binds what it allows to
authority artifacts, and gates every output. Beside that it simulates an access
and review policy: signed policy snapshots and review records are verified,
recorded in a local append-only history, and consulted to say whether an access
would be permitted or a review is complete; a local workbench lets reviewers
file assessments. None of its answers authorizes anything (`access_authorized`
and `release_authorized` are always `false`), but everything that would make
them trustworthy is in the code: durable state, concurrent processes and tabs,
crashes, lost answers, deadlines, and long sequences of legal calls. The model
covers the review boundary and its store, the workbench and both HTTP servers,
the pipeline, the output gate and the authority artifacts, the execution
lifecycle, and the protocol by which a registry change reaches the main branch.

Paths below are relative to the repository.

## 1. Inventory

| Component | State | Operations | Interacts with | What makes it hard | What makes it correct |
|---|---|---|---|---|---|
| Verifier, `scripts/review-policy/verifier.ts` | revoked keys and artifacts, latest revision and digest per stream, last time | `verifySnapshot`, `verifyReview`, `revokeKey`, `revokeArtifact` | called by the projection and the signed boundary | order of artifacts, equal revisions, half-open windows, clock | no rollback, no two artifacts with one revision, nothing after a revocation |
| Projection, `durable-boundary.ts` 21-63 | verifier, clock, latest review per record id, rejected subjects, identities | `apply(event)` | rebuilt from the history in every transaction | replay must accept what was accepted, each event as of its time | remembers all that later checks consult |
| Boundary, `durable-boundary.ts` 66-184 | none of its own | `acceptSnapshot`, `acceptReview`, `acceptCandidateReview`, `revokeKey`, `revokeArtifact`, `checkAccess`, `checkReview`, `checkCandidateReview` | store, projection, scoped policy, candidate checks | checks also append; a check may throw after appending; repeated calls | rejections are final, only the newest snapshot decides, only live reviews count |
| History store, `history-store.ts` | SQLite file: event rows with chained digests, metadata tail and digest; per connection: open/active/closed | `create`, `open`, `transaction`, `close` | SQLite, file system | processes on one file, busy lock, crash between statements, swallowed rollback failure, replaced or damaged file, full store | calls are atomic, the history read is the committed one, every call returns |
| Scoped policy, `boundary.ts`, `simulate.ts`, `policy.ts` | none | `checkScopedAccess`, `checkScopedReview`, `reviewerCanReadSources` | called by both boundaries | greedy choice of reviewers, delegation of clearances, denials | independent reviewers, nobody clears themselves, restrictions only restrict |
| Candidate packages, `candidate-review.ts`, `runtime/answers/candidate.ts` | none | `prepareCandidateReview`, `validateCandidateReviewSubject`, `assessmentBindingReason`, `assessmentComplete` | output gate, boundary | character spans, a context captured elsewhere, checks long after preparation | every visible character claimed once and every claim sourced; accepted only in its own context |
| Signed boundary, `signed-boundary.ts` | the caller's verifier | `checkSignedAccess`, `checkSignedReview`, revocations | verifier, scoped policy | a refused batch leaves observations behind | a complete review rests on the newest records; a refusal only replaces older artifacts |
| Workbench, `workbench.ts`, `workbench-server.ts`, `src/workbench/app.js` | session over a store; the browser's view of it | create session, load, submit | boundary, HTTP | two tabs, lost requests and answers, stale revisions, restarts | nothing overwritten unseen, the page agrees with the history and can always be used again |
| HTTP servers, `src/http-server.ts`, `workbench-server.ts`, `runtime/api/evaluate.ts` | per request: timer, body, response | headers, data, end, deadline, close, stop | pipeline, workbench | deadline against a late evaluation, chunked bodies, lost sockets | one answer, about the whole body; every connection ends |
| Governed pipeline, `runtime/pipeline.ts`, `policyEngine.ts`, `policyAssembler.ts`, `lumens.ts`, `controlPlane.ts`, `metaNomos/`, `claimsEvidenceGate.ts` | none between runs | one run per input | registries, authority artifacts, gate | order of the gates, time between building and checking a token, refusal on every failure path | risk is refused in every mode, what is allowed was authorized, refusals can be traced |
| Output gate, `runtime/outputGate.ts`, `lg.ts`, `registries/` | none | `assertAdmissible` | pipeline, model tests | incomplete and inconsistent outputs, gating twice | only admissible outputs; settles after one pass |
| Authority and execution, `runtime/authority/`, `executionLifecycle.ts`, `journal.ts`, `replay.ts` | consumed and revoked authorities, journals | build, revalidate, transition, verify a replay | external executor | one use among several plans, window edges, actions apart from their plan | at most one one-use start per identity; an audited plan attempts nothing without a start |
| Model tests, `scripts/bedrock/` | reports, calls made | one series of paid calls | provider, gate, candidate checks | failing provider, cut off or split answers | bounded calls, only whole answers pass, success means all ran |
| Registry changes, `scripts/generate*.ts`, `diagnostics/registry-change-protocol.ts`, `registry-generated-sync.ts`, `governance-manifest.ts` | the tree of each branch, verdicts | edit, generate, push, check, merge | git, GitHub | interrupted generators, checks against an older main, failed pushes | versions are append-only and arrive whole; the runtime's files agree with their sources |
| Plane stubs, schemas, command line, other diagnostics | - | - | - | typing, data, I/O or tests | not modelled, or an entry of the pipeline |

`PROJECT.json` lists every component with its status, and the hazards at the
lines where they bite.

## 2. Modules

```
PolicyVerifier <- PolicyProjection <- PolicyOperations <- BoundaryState
BoundaryState  <- PolicyLedger  <- CandidateBoundary
BoundaryState  <- DurableBoundary -- instance --> AtomicHistory <-- implements -- HistoryStore
PolicyChecks (in CandidateBoundary) -- instances --> ScopedPolicy, CandidateReview
ScopedPolicy   <- OrganizationPolicy      CandidateReview <- PackageDrafting
```

* **PolicyVerifier, PolicyProjection, PolicyOperations** are the code as
  functions: what a verifier state says of an artifact (`VerifyCode`,
  `Verified`), what a projection says of and does with an event (`ApplyCode`,
  `Applied`), and what each operation of `DurablePolicySimulation` checks before
  it starts a transaction (`Precheck`), tries to record (`EventOf`) and answers
  (`VerdictOf`). The order of the checks and early returns is the code's.
* **PolicyLedger** is what the boundary promises: a history (declared with the
  last answer in **BoundaryState**), its projection kept up to date, one action
  per operation, each atomic. A refusal leaves no trace; a negative answer of a check is recorded like a positive one, since the
  transaction commits. `reply` holds the last answer so that invariants can speak
  of it.
* **DurableBoundary** is what the code does: no projection is kept, and each
  transaction folds the stored history into a new one, applies one event,
  appends it unless the history has it, and answers. It sees the store through
  **AtomicHistory**, the contract of `PolicyHistoryStore.transaction`.
* **HistoryStore** is the SQLite store, one action per statement of `create`,
  `open` and `transaction` for every process. Between any two statements the
  others run. `Crash`, `StatementFails`, `RollbackFails`, `Replace` and `Damage`
  are the failures; SQLite is taken at its word (one write lock, atomic and
  durable COMMIT, a dead transaction is rolled back). `committed`, `last` and
  `strayed` are history variables; `strayed` says of a transaction that the path
  leads elsewhere, and does so since before the transaction's last comparison.
* **ScopedPolicy** holds the access and review checks;
  **OrganizationPolicy** puts them into an organization that issues and revokes
  clearances, adds denials and files reviews while time passes.
* **CandidateReview** holds the checks of packages and assessments;
  **PackageDrafting** drafts, prepares and later re-checks packages.
* **PolicyChecks** instantiates these checks as the values of PolicyLedger's
  parameters; **CandidateBoundary** is PolicyLedger with them, which it says as a
  formula (`RealChecks`) that the run evaluates and the proof assumes.
* **WorkbenchFixture** is the synthetic session (`workbench-fixture.ts`);
  **Workbench** puts sessions of the ledger behind requests and answers that may
  be lost, late or overtaken, and models the page: what it shows, which controls
  are enabled, and when it demands a refresh. The server may be restarted (it has
  a new token and new sessions, since it works in a new directory) and its store may
  fail. `written` is a
  history variable: what the author of each record had on screen.
* **HttpServers** is the event handling of both servers, one record per
  connection. The end of an upload and the end of its evaluation are two events
  with anything between them; in the code only promise callbacks can come
  between, so the model allows more than the program does.
* **Registries** holds the current registries and their lookups, **OutputGate**
  the gate as functions in the code's order.
* **AuthorityArtifacts** holds decision artifacts, permission tokens and the
  Lumens check; **GovernedPipeline** runs the steps of `runGovernedPipeline` with
  a clock that moves between them and with the test overrides. `Gate` is a
  diagnostic that hands an output of its own to the gate, `ProbeCandidate` a model
  test that puts a model's answer in place of an emitted response and gates the
  output again. `given` is the output the gate was last handed, `out` what it made
  of it, so that properties can compare the two.
* **ExecutionLifecycle** has the lifecycle, the revalidation of execution
  authorities and `verifyReplay`. Revalidation takes the contents of an object and
  its `authority_id` as told and never computes the identity again, so `StartPlan`
  may be handed any object, whether the runtime built it or not. The repository
  types an executor and has none: the service that revalidates and consumes in one
  step (`docs/DEVELOPMENT_SLICES.md` lines 71-72 require one; a gap between the two
  is therefore not modelled), and an executor bound by `assertTransition` alone,
  are external; an auditor verifies each plan's journals after every step.
* **RegistryChanges** has trees of files with contents, generators that write one
  file at a time and may be interrupted, the three diagnostics CI runs on pull
  requests, and merges of branches whose check passed, while main moves on. Git
  and GitHub are external; a merge is three-way, file by file. `shared` and
  `outdated` are history variables.

```
Registries <- OutputGate <- AuthorityArtifacts <- GovernedPipeline
PolicyOperations <- PolicyChecks <- WorkbenchFixture <- Workbench
HttpServers     ExecutionLifecycle     RegistryChanges
```

Abstractions used throughout: a hash stands for what it is of (SHA-256 is taken
to be collision free), a signature or schema check is a Boolean of the artifact,
a text is a sequence of visible or blank characters, times are small integers
and may be negative where the code tests for it. The stored reviews of a subject
form a set; the code iterates over them in insertion order, which can change
only which of several failure codes is reported, and the choice of reviewers is
checked not to depend on it (`ReviewMatchesReference`). Both refusals of a
claim's support are one code.

Definitions whose comment says "Mutant of" are wrong variants of the definition
below them. No specification uses them; each is there to show that a property
notices the mistake.

## 3. Runs

| Run | What varies | Bounds and why they suffice | Shows |
|---|---|---|---|
| `ledger` | 9 artifacts: superseding and conflicting snapshots under two ids and two keys, a review that is renewed, one filed under a second id, one that takes over another's id, a rejection followed by an approval; revocations of keys and ids; two clock readings, one at which a review has just expired | `Capacity = 3`: every pair of events the invariants relate, with an event between them | the six invariants of PolicyLedger |
| `boundary` | 4 of the artifacts | `Capacity = 3` | DurableBoundary implements PolicyLedger (`LedgerSpec`); an accepted history is accepted again (`HistoryRebuilds`) |
| `store` | 2 processes, 2 events; operations that append an event, append it unless it is there, append nothing, or throw after an append | `Capacity = 2`: a full store, and a call after each kind of failure; a damaged file is not damaged again | mutual exclusion, reads are committed, only damage corrupts, a replaced file takes no commit, HistoryStore implements AtomicHistory, and every call returns (`CallsReturn`) |
| `organization` | 5 clearances (one self-issued, two that share an id, one that expires first, two of one reviewer, for both roles), 2 denials, 5 records of three reviewers, one of whom can fill both roles | 3 records, 2 clock readings | the greedy choice against a reference, no self-clearance, monotonicity of restrictions |
| `drafting` | an answer of two words, two sources, forged and blank quotations, overlapping and oversized claims, three captured contexts | 2 sources, 3 claims (overlaps with a claim that is not the previous one), 3 clock readings | prepared packages are grounded, and valid in their context only |
| `candidate` | one package under two snapshots, complete, doubtful and partial assessments, records that come in through either operation, a revocation | `Capacity = 3`: a snapshot and a review for each required role | a complete candidate review is attested for every role |
| `workbench` | 2 tabs on the session that needs two reviewers; requests and answers late or lost, a store that fails, restarts of the server | 4 requests and restarts together: a load and a submission of each tab in any order; or a load, a submission, a restart and a refresh of one. The other two sessions differ in who must review and run through the same code | nothing overwritten unseen, the page agrees with the history, refresh before another write, the session's records are accepted, the page recovers |
| `http` | 1 connection to each server, all combinations of headers the handlers tell apart | body limit 3, chunks of 1 or 2: exactly at, one over and in the middle of a chunk | timers, whole bodies, one answer, every connection ends |
| `pipeline` | texts with each group of keywords, every pair of overrides, 3 clock readings; outputs with each field present, missing, registered or not; answers of a model that leak or do not | a token that lives 2 units, so that it expires between two steps or does not; the clock may go back | risk refused, allowed means authorized, refusals traceable, what leaves the gate is admissible, and the gate settles after one pass |
| `execution` | 2 plans in one scope, one with two actions; a one-use, a reusable and an empty authority, and a reusable copy with the identity of the one-use | 3 instants: before, in and at the end of a window | one one-use start per identity; audited plans |
| `registry_changes` | 2 symmetric branches that add a version whole or in part, remove or edit versions and modules, edit the constitution and put it back, run the generators | 3 edits or generator runs per branch: a version added on both and one more change; a change and its reversal merged by one branch while the other waits | main only grows, versions arrive whole, the runtime's files agree with their sources |

`organization`, `drafting`, `workbench`, `http`, `execution` and
`registry_changes` may stop at their bounds or ends and do not check for
deadlock; in every other run each state has a successor and TLC checks it.
Symmetry is used in `registry_changes` only, with invariants and action
properties.

`organization` asks `RestrictionsNeverPermit` of reviews only where each
reviewer has one record for the subject, which the durable boundary enforces
(`StableReviewIdentity`). Without that condition TLC finds a revocation that
completes a review: of a reviewer with a record in each of the two roles, the
greedy choice takes the one for the first role; once the clearance for that role
is revoked, somebody else fills it and the reviewer is free for the second.

No run expects a violation. One oddity is modelled and asked of no property: the
gate's own refusals record the dual-use dataset version with the semicolon of the
note it is read from (`outputGate.ts` line 49). The repository says nowhere what
those refusals have to record.

`registry_changes` also reaches a case that `RuntimeMatchesSources` excepts: a
branch is checked while main already has part of its change, main gives that part
up, and the merge puts it back without the manifest. GitHub does not check a
branch again when main moves, and the repository does not ask for branches to be
up to date. The theorem of section 4 says that this is the only such case.

Fairness.

* `store`: weak fairness of `Progress(p)`, the next statement of a
  process that is inside a call. The store's calls are synchronous and wait for
  nothing (`busy_timeout=0`), so a process that has not died runs its next
  statement. Nothing is assumed of callers, of other processes, or of the
  failures stopping.
* `workbench`: weak fairness of "an answer arrives or the connection is
  lost" for each waiting tab: a browser settles every `fetch`. Nothing is assumed
  of the server or of the user.
* `http`: weak fairness of expired timers (`setTimeout`, Node's headers timeout)
  and of the flush of a written answer, whose socket is closed by Node or times
  out. Nothing is assumed of clients or of evaluations.

Each property is shown to depend on the code by a mutant (`PROJECT.json`): a
changed definition with which TLC finds it violated.

## 4. Proofs

TLAPS checks these for every value of the constants.

**PolicyLedgerProofs: the ledger.** Assumptions: those in the modules (artifacts
carry the types the schema imposes, trusted keys those the constructor imposes,
times are integers, the capacity is a natural number, `None` is none of the
things it stands for the absence of); nothing about the scoped policy or the
candidate checks, which are arbitrary operators. The invariants about the
history (`NoRevisionRollback`, `NothingAfterRevocation`, ...) are not inductive:
a step is judged by the projection, which says nothing of the history by itself.
The strengthening is `ProjectionCoversHistory`, that is `Covers(log, proj)`: the
verifier's latest artifact of a stream is at least as new as each recorded one,
all recorded revocations, rejections and identities are in the projection, and no
recorded time is ahead of its clocks. With it and `TypeOK` each step preserves
the history invariants, since the checks the step passes consult exactly what is
covered. The three properties of positive answers follow from the state in which
the answer was given.

**PolicyLedgerProofs: the durable boundary.** `HistoryRebuilds` and `LedgerSpec`.
Nothing is kept between two transactions, so the invariant (`DInv`) is about what
the stored history rebuilds to: a projection, which covers that history. `Rebuild`
is a recursive function on the positions of the history. That it agrees on two
histories as far as they agree is shown by the least position at which it would
not, and from this an extended history rebuilds to the projection after the added
event (`RebuildExtended`), also when the event was there already and is not
appended again: a covered event is accepted once more and changes nothing
(`Reapplied`). Each step of the boundary is then the ledger's step on the rebuilt
projection, and each failure of the store leaves the ledger's state alone.

**PolicyLedgerProofs: candidate reviews.** `CandidateCompletionIsAttested` is
about the ledger with the real checks. It is proved from two hypotheses,
`RealChecks` (the ledger's parameters have the values of PolicyChecks) and
`ReviewFormats` (what the schemas say is a list is a sequence), which
MCCandidateBoundary lets TLC evaluate for its instance. The stored reviews are
among the recorded ones (`Stored`), so there are finitely many. A complete review
made the greedy choice, which is traced through its at most two turns; each chosen
record passed the candidate's own checks, as many distinct claim checks as claims,
and by counting no claim is left out.

**HistoryStoreProofs.** For any number of processes, any callback that appends
events, any capacity. The inductive invariant is `Typed`, `OneTransaction`,
`ReadsCommitted`, that the metadata digest is the committed history
(`DigestCommitted`: `Damage` does not reach the digest, and this is why a
truncated but well-chained table is noticed), and that the answer and the
appends of a transaction are those of its callback on the history it read
(`WorkDone`). From it every step of HistoryStore is a step of AtomicHistory or
leaves `committed` and `last` alone: COMMIT is `Perform`, the rollback of a
thrown callback is `Refuse`, all other failures are `Fail`. `StoreNeverCorrupts`
adds that the content stays a table, damaged or not (`TableTyped`); only COMMIT
writes it, and what it writes into an intact table is intact, because the rows it
extends are the history the transaction read. `ReplacedNeverCommits` needs
`StrayedAway`: up to the last comparison, `strayed` of a transaction says exactly
that the path leads elsewhere, and once the comparison has passed it stays false.

Together: HistoryStore implements AtomicHistory, whatever the callback;
DurableBoundary is AtomicHistory with the boundary's callback, and implements
PolicyLedger; and PolicyLedger has the properties of the boundary. Each of these is
proved. A statement that is interrupted, repeated or overtaken in the SQLite store
can therefore not make the boundary answer in a way the ledger does not.

**OrganizationPolicyProofs.** For any principals, clearances, denials, records,
requests and subjects. Assumed (`FormatAssumption`) are the fields of clearances
and of the snapshot, and that no record is of nobody. The invariant (`OInv`):
clearances have these fields and distinct ids, which `Issue` and `Revoke` keep, and
the records are a sequence. `NoSelfGrant` holds since no other clearance ever
grants anything, and leaving clearances out keeps their ids distinct;
`RestrictionsNeverPermit` of accesses since
what grants after the restriction granted before it. For reviews the greedy
choice is compared with the reference: the first record that qualifies exists as
soon as any does (a least position), and where everybody has one record the
candidates for two roles are disjoint, so that the first choice takes nothing from
the second.

**PackageDraftingProofs.** For any answers, sources, claims and contexts of any
length; `DraftFormats` says what is a sequence and what a number. The invariant
(`DInv`): a package that was prepared, was so from the answer at hand in some
captured context, and passes the checks in that context now (`Standing`). Time only
helps: no check has an upper limit (`ValidLater`). Groundedness is read off the
checks; that a source which nothing quotes is refused is found by the code through
counting, and so by the proof.

**GovernedPipelineProofs.** For any texts, overrides, clock readings, registries
that pass their own validation (`RegistryAssumption`) and, for the gate, any
outputs whose parts have the types the schema lists (`GateAssumption`,
`InputAssumption`); `IdentityAssumption` says that identities, tokens and evidence
are not the value that stands for a missing field. The results about the gate are
lemmas on its operators: a refusal of any registered code is valid and bound, and
gating it once more neither normalizes nor replaces it. The invariant of the
pipeline (`PInv`) carries what each passed check established to the later ones:
the decision artifact is the untampered one for this text (`Recorded`), the text
has no risk and the token was built for that artifact (`Permitted`), and the two
were verified together (`Cleared`); and that the output is what the gate made of
the one it was given, also after a diagnostic gated it again.

**LocalServerProofs: connections.** For any number of connections, any headers,
any body limit and chunk size. None of the invariants is inductive by itself: that
a positive answer covers the whole body needs that a request without an answer has
status 0, that its body is within the limit and wholly in the buffer, and that
only a finished upload is evaluated. `ConnInv` collects these facts for one
request, and each handler preserves it. `AnsweredOnce` follows step by step.

**LocalServerProofs: the workbench.** For any tabs, any of the three sessions, and
any number of requests and restarts (`MaxRequests` only ends the counting). None
of the four invariants is inductive; the strengthening has three parts:

* `PagesInv`: a request is answered at most once to the page that waits for it, and
  a page whose form can be used has shown the answer to its last write or to a
  later request. `RefreshBeforeWrite` follows from it alone.
* `StoreInv`: the history of a session and what it projects to say the same
  (`SessionInv`): the projection keeps each reviewer's last record and nothing else,
  it calls the package rejected exactly when a record rejects it, and a reviewer's
  records are numbered in their order. So the next record the server signs is the
  next revision and is accepted, whatever is stored (`SignedRecordsAreAccepted`),
  and what the boundary computes agrees with what the page reads off the history.
* `KnowledgeInv`: what a page, a request under way or an answer says of a session is
  the beginning of what is stored there, as long as it carries the token of the
  running server. With the revision check of a submission, this is
  `NothingOverwrittenUnseen`; what an answer in flight says still agrees with itself
  when it arrives late (`StatusAgreesWithHistory`).

What the page selects from a history (a reviewer's records, in order) is defined by
recursion over the history. The lemmas about it (what it selects from an extended
history, and that it keeps beginnings) are proved from the least place at which
they would fail. The assumptions are three, and TLC evaluates them in
`MCWorkbench`: the session's keys and package (`SessionAssumption`), that the
operators of the boundary are the checks of PolicyChecks on what a session asks
them (`SessionChecksAssumption`), and that the gate admits the session's answer
(`SessionAnswerAssumption`; `createSession` throws if it does not). What the checks
answer is proved from their definitions: the package passes (`PackagePasses`), its
audience and its reviewers may read it and its source (`AudienceMayRead`,
`ReviewerMayRead`), whatever a reviewer fills in is about it (`AssessmentBound`), and
the review of positive assessments is complete with all required reviewers and
waits otherwise (`ReviewDecided`). That chain goes through the model of the
snapshot check, of scope and denials, and of the greedy choice of reviewers.

**ExecutionLifecycleProofs.** For any plans, actions and authorities; the only
assumption is that the two times of an authority are numbers. What a plan was
started with is never reconsidered, so `OneUseStartsOnce` needs that the identity
of a grant stays consumed (`GrantInv`). The results about audited plans need that
the journals of a plan that was audited so far verify now, and that a plan gets
past AUTHORIZED through `StartPlan` only (`AuditInv`).

**RegistryChangesProofs.** For any branches and any edits, without assumptions. A
passed check is about the branch as it still is, since every push takes the
verdict back (`CheckedInv`); with it the two action properties are facts about one
three-way merge. For `RuntimeMatchesSources` a check of the merge result with the
main of its time has to say something about the merge with a later main: for each
file the runtime loads, either main already had all that the branch changes of it
and its sources, or the branch itself brings both in agreement (`Covers`). The
first stays true as long as main keeps what it shared with the branch, the second
whatever main becomes, because a generated file determines its sources.

**Only model-checked.** `CallsReturn`, `PageRecovers` and `EveryConnectionEnds`:
liveness under fairness is out of the prover's reach. So is what a recursive
definition computes for every input when only the library's induction theorems
would show it; where a proof needs such a fact, it takes the least counterexample.

**Proved, and in no run.** Type correctness and `ProjectionCoversHistory`
(`TypeCorrect`, `ProjectionSound`), the invariant of the workbench
(`WorkbenchInvariant`), what the review check says of a session (`SessionStanding`),
and five results that follow on the way:
`ClockNeverRollsBack`, `OnlyTrustedArtifacts` and `ReobservationChangesNothing`
of PolicyLedger, `BuffersAreBounded` of the servers and `StartsAreInWindow` of
the lifecycle. TLC agreed with each on the instances above while its proof was
written.

## 5. Not modelled, and why

* SQLite's and the file system's own correctness, a restored full backup
  (`history-store.ts` line 20 excludes it), and a file replaced between the last
  comparison and COMMIT, which no observer can tell from one replaced right
  after it.
* Stores opened with another organization or trust digest (refused at
  `history-store.ts` lines 74-76: the model has one configuration), and callbacks
  that are asynchronous or re-enter the store (refused at lines 68, 93 and 99; the
  boundary has none).
* Canonical JSON, SHA-256, Ed25519 and JSON Schema validation: library functions,
  present as equality and Booleans.
* Plane stubs (`runtime/control-plane`, `execution-plane`, `output-plane`): typed
  wrappers without state. Schemas: Booleans of the artifacts, except the bounds
  that are in CandidateReview and `Validate` of OutputGate.
* `metaNomos/jurisdictionClassifier.ts`: its result is used for no decision.
* The texts themselves: keywords, banned phrases and dataset notes are what the
  code finds in a text, and the regular expressions are not modelled beyond that
  (but for the separator they read as part of a version).
* The local comparisons of the registry protocol (staged, unstaged, a base given
  by hand) and git hooks: they can be skipped and reach no shared state. The
  checks of pushes, which compare with the push before and bind no merge. Edits of
  main without a pull request, which the repository cannot prevent.
* The signed in-memory boundary (`signed-boundary.ts`): it applies the verifier
  and the scoped policy, both modelled, to the records of one call. Only the order
  of calls on a shared verifier, and what a refused batch leaves in it, is left out.
* The series of paid calls of `scripts/bedrock/` and their client: one process,
  one call after the other. What becomes of an answer, `probeCandidate`, is an
  action of GovernedPipeline.
* `scripts/bedrock/smoke.ts`, one call that prints what came back, and the
  printing of the command line.
* The executor of plans, which the repository does not have: ExecutionLifecycle
  says what its lifecycle and its replay check would allow one.
* Fields of the workbench's form beyond the decision and the finding on the
  claims: they are at their best, and no property tells their values apart.
* Layout, wording and redaction of the workbench page and of the reports.
* Diagnostics other than the three above are the repository's tests.

## 6. Plan

1. *(done)* verifier, projection, boundary, store and their refinements; scoped
   policy; candidate packages; first theorems.
2. *(done)* workbench, HTTP servers, output gate, pipeline and authority
   artifacts, execution lifecycle, registry changes; theorems about the servers,
   the lifecycle and the registry changes.
3. *(done)* theorems about the durable boundary and its refinement of the ledger,
   candidate reviews, the scoped policy, candidate packages, the gate and the
   pipeline.
4. *(done)* theorems about the workbench, and about what the policy's checks say of
   a session's package and reviews.
5. The signed in-memory boundary on one verifier, if it comes to be used by more
   than one caller; the model tests, if they come to run calls concurrently.
