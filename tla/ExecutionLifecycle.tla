-------------------------- MODULE ExecutionLifecycle --------------------------
(***************************************************************************)
(* Execution authorities, the lifecycle of plans and actions, their        *)
(* journals and the verification of a replay (runtime/authority/           *)
(* executionAuthority.ts, executionLifecycle.ts, journal.ts, replay.ts).   *)
(* The runtime itself executes nothing: the service that revalidates an    *)
(* authority and consumes it, and the executor that moves the journals,    *)
(* are external. The service does both in one step: consumption "require[s]*)
(* a trusted atomic service" (docs/DEVELOPMENT_SLICES.md, lines 71-72). It *)
(* may be handed any object; revalidation is all that it asks of it. The   *)
(* executor is bound by assertTransition only; an auditor verifies the     *)
(* journals of a plan after every step.                                    *)
(***************************************************************************)
EXTENDS Naturals, FiniteSets

CONSTANTS
  Plan,            \* plans
  ActionsOf,       \* plan -> its actions
  Authority,       \* objects presented as authorities, built by the runtime or not
  Context,         \* plan -> the context it runs in
  MaxTime          \* bound: the last instant of the clock

(* Date.parse of the two times of an authority.                             *)
ASSUME TimesAssumption ==
  \A a \in Authority : a.issued_at \in Nat /\ a.expires_at \in Nat

VARIABLES
  clock,
  issued,          \* authorities built so far
  revoked,         \* identities of revoked authorities
  consumed,        \* identities of consumed authorities
  grant,           \* plan -> the authority it was started with and when; {} before
  planStatus,      \* plan -> status in its journal
  action,          \* plan -> action -> [status, proven] in its journal
  audited          \* plan -> every journal of the plan so far verified

vars == <<clock, issued, revoked, consumed, grant, planStatus, action, audited>>
-----------------------------------------------------------------------------
Preparation == <<"NOT_ATTEMPTED", "PROPOSED", "ASSESSED", "APPROVED", "AUTHORIZED">>

(* preparation.indexOf: 0 stands for -1, "not found".                       *)
Phase(status) == IF \E n \in 1..5 : Preparation[n] = status
                 THEN CHOOSE n \in 1..5 : Preparation[n] = status ELSE 0

Terminal == {"COMPLETED", "FAILED", "REFUSED", "UNCERTAIN"}

ExecutionStatus == {Preparation[n] : n \in 1..5} \cup {"EXECUTION_STARTED"} \cup Terminal

Transitions(from) ==
  IF Phase(from) \in 1..4 THEN {Preparation[Phase(from) + 1], "REFUSED"}
  ELSE IF from = "AUTHORIZED" THEN {"EXECUTION_STARTED", "REFUSED"}
  ELSE IF from = "EXECUTION_STARTED" THEN {"COMPLETED", "FAILED", "UNCERTAIN"}
  ELSE {}

CanTransition(from, to) == to \in Transitions(from)

(* authorityId hashes everything else that a built authority says. Nobody   *)
(* computes it again: of an object that is presented it is what it says.    *)
AuthorityId(a) == [x \in DOMAIN a \ {"authority_id"} |-> a[x]]

ValidateExecutionAuthority(a) == a.wellFormed /\ a.issued_at < a.expires_at

(* Mutant of RevalidateExecutionAuthority: a consumed authority is accepted. *)
RevalidateReusable(a, context, revokedIds, consumedIds, now) ==
  IF ~ValidateExecutionAuthority(a) THEN "INVALID_AUTHORITY"
  ELSE IF a.authority_id \in revokedIds THEN "REVOKED_AUTHORITY"
  ELSE IF a.expires_at <= now THEN "EXPIRED_AUTHORITY"
  ELSE IF a.trace_id # context.trace_id THEN "SCOPE_MISMATCH"
  ELSE "OK"

RevalidateExecutionAuthority(a, context, revokedIds, consumedIds, now) ==
  IF ~ValidateExecutionAuthority(a) THEN "INVALID_AUTHORITY"
  ELSE IF ~context.riskFinite THEN "INVALID_CONTEXT"
  ELSE IF a.authority_id \in revokedIds THEN "REVOKED_AUTHORITY"
  ELSE IF a.one_use /\ a.authority_id \in consumedIds THEN "REPLAYED_AUTHORITY"
  ELSE IF a.expires_at <= now THEN "EXPIRED_AUTHORITY"
  ELSE IF a.issued_at > now THEN "NOT_YET_VALID_AUTHORITY"
  ELSE IF a.trace_id # context.trace_id THEN "SCOPE_MISMATCH"
  ELSE IF a.policy_snapshot_id # context.policy_snapshot_id THEN "POLICY_SNAPSHOT_MISMATCH"
  ELSE IF a.scope # context.scope THEN "SCOPE_MISMATCH"
  ELSE IF context.current_risk > context.risk_ceiling THEN "RISK_CEILING_EXCEEDED"
  ELSE "OK"

IsDependentExecutionAllowed(status, proven) == status = "COMPLETED" /\ proven

(* The journals of a plan whose status is s and whose actions are acts, as  *)
(* far as verifyReplay reads them: the executor counts and binds correctly. *)
PlanJournal(s, acts) ==
  [status |-> s, uncertainty |-> s = "UNCERTAIN", action_count |-> Cardinality(DOMAIN acts),
   terminal_action_count |-> Cardinality({x \in DOMAIN acts : acts[x].status \in Terminal})]

(* Mutant of VerifyReplay: the phase of the plan is not compared.           *)
VerifyReplayAnyPhase(plan, acts) ==
  /\ \A x \in DOMAIN acts : acts[x].status = "COMPLETED" => acts[x].proven
  /\ plan.status = "COMPLETED" => \A x \in DOMAIN acts : acts[x].status = "COMPLETED"
  /\ plan.status \in Terminal => \A x \in DOMAIN acts : acts[x].status # "EXECUTION_STARTED"

(* Mutant of VerifyReplay: an action may still run under a failed plan.     *)
VerifyReplayRunning(plan, acts) ==
  /\ \A x \in DOMAIN acts : acts[x].status = "COMPLETED" => acts[x].proven
  /\ (\E x \in DOMAIN acts : acts[x].status = "UNCERTAIN") => plan.uncertainty
  /\ plan.status = "COMPLETED" => \A x \in DOMAIN acts : acts[x].status = "COMPLETED"
  /\ Phase(plan.status) > 0 => \A x \in DOMAIN acts : Phase(acts[x].status) \in 1..Phase(plan.status)

VerifyReplay(plan, acts) ==
  LET status(x) == acts[x].status
  IN  /\ plan.action_count = Cardinality(DOMAIN acts)
      /\ plan.terminal_action_count = Cardinality({x \in DOMAIN acts : status(x) \in Terminal})
      /\ \A x \in DOMAIN acts :
           status(x) = "COMPLETED" => IsDependentExecutionAllowed(status(x), acts[x].proven)
      /\ plan.uncertainty <=> plan.status = "UNCERTAIN"
      /\ (\E x \in DOMAIN acts : status(x) = "UNCERTAIN") => plan.uncertainty
      /\ plan.status = "COMPLETED" => \A x \in DOMAIN acts : status(x) = "COMPLETED"
      /\ Phase(plan.status) > 0 =>
           \A x \in DOMAIN acts : Phase(status(x)) \in 1..Phase(plan.status)
      /\ plan.status = "REFUSED" =>
           \A x \in DOMAIN acts : Phase(status(x)) > 0 \/ status(x) = "REFUSED"
      /\ plan.status \in Terminal => \A x \in DOMAIN acts : status(x) # "EXECUTION_STARTED"
-----------------------------------------------------------------------------
(* buildExecutionAuthority: an input that does not validate throws.         *)
BuildExecutionAuthority(a) ==
  /\ a.authority_id = AuthorityId(a)
  /\ ValidateExecutionAuthority(a) /\ a \notin issued
  /\ issued' = issued \cup {a}
  /\ UNCHANGED <<clock, revoked, consumed, grant, planStatus, action, audited>>

Revoke(a) ==
  /\ a \in issued /\ a.authority_id \notin revoked
  /\ revoked' = revoked \cup {a.authority_id}
  /\ UNCHANGED <<clock, issued, consumed, grant, planStatus, action, audited>>

Tick ==
  /\ clock < MaxTime
  /\ clock' = clock + 1
  /\ UNCHANGED <<issued, revoked, consumed, grant, planStatus, action, audited>>

(* The auditor of a plan verifies the journals a step leaves behind.        *)
Audit(p) ==
  audited' = [audited EXCEPT ![p] = @ /\ VerifyReplay(PlanJournal(planStatus'[p], action'[p]), action'[p])]

(* The trusted service: revalidation and consumption in one step.           *)
StartPlan(p, a) ==
  /\ CanTransition(planStatus[p], "EXECUTION_STARTED")
  /\ RevalidateExecutionAuthority(a, Context[p], revoked, consumed, clock) = "OK"
  /\ planStatus' = [planStatus EXCEPT ![p] = "EXECUTION_STARTED"]
  /\ consumed' = consumed \cup {a.authority_id}
  /\ grant' = [grant EXCEPT ![p] =
                 {[authority |-> a, at |-> clock, revoked |-> a.authority_id \in revoked]}]
  /\ UNCHANGED <<clock, issued, revoked, action>> /\ Audit(p)

MovePlan(p, to) ==
  /\ to # "EXECUTION_STARTED" /\ CanTransition(planStatus[p], to)
  /\ planStatus' = [planStatus EXCEPT ![p] = to]
  /\ UNCHANGED <<clock, issued, revoked, consumed, grant, action>> /\ Audit(p)

MoveAction(p, x, to) ==
  /\ CanTransition(action[p][x].status, to)
  /\ \E proven \in IF to = "COMPLETED" THEN BOOLEAN ELSE {FALSE} :
       action' = [action EXCEPT ![p][x] = [status |-> to, proven |-> proven]]
  /\ UNCHANGED <<clock, issued, revoked, consumed, grant, planStatus>> /\ Audit(p)
-----------------------------------------------------------------------------
Init ==
  /\ clock = 0 /\ issued = {} /\ revoked = {} /\ consumed = {}
  /\ grant = [p \in Plan |-> {}]
  /\ planStatus = [p \in Plan |-> "NOT_ATTEMPTED"]
  /\ action = [p \in Plan |-> [x \in ActionsOf[p] |-> [status |-> "NOT_ATTEMPTED", proven |-> FALSE]]]
  /\ audited = [p \in Plan |-> TRUE]

Next ==
  \/ \E a \in Authority : BuildExecutionAuthority(a) \/ Revoke(a)
  \/ Tick
  \/ \E p \in Plan :
       \/ \E a \in Authority : StartPlan(p, a)
       \/ \E to \in ExecutionStatus : MovePlan(p, to)
       \/ \E x \in ActionsOf[p], to \in ExecutionStatus : MoveAction(p, x, to)

Spec == Init /\ [][Next]_vars
-----------------------------------------------------------------------------
Attempted(p) ==
  {x \in ActionsOf[p] : action[p][x].status \in {"EXECUTION_STARTED", "COMPLETED", "FAILED", "UNCERTAIN"}}

(* No two plans start as one-use under the same identity, however many      *)
(* plans in its scope present it and whatever else the objects say: what    *)
(* revalidation reads as consumed is enough to stop the second. An object   *)
(* that does not call itself one-use is not stopped.                        *)
OneUseStartsOnce ==
  \A p, q \in Plan : \A g \in grant[p], h \in grant[q] :
    p # q /\ g.authority.authority_id = h.authority.authority_id
      => ~(g.authority.one_use /\ h.authority.one_use)

(* A plan starts only under an identity that was not revoked, and at an     *)
(* instant in the window of the object it was presented with, closed at     *)
(* issued_at and open at expires_at.                                        *)
StartsInsideWindow ==
  \A p \in Plan : \A g \in grant[p] :
    /\ ~g.revoked
    /\ g.authority.issued_at <= g.at /\ g.at < g.authority.expires_at

(* If every journal of a plan verified, every action it attempted was       *)
(* attempted by a plan that was started with an authority, although the     *)
(* lifecycle of an action alone allows it to start under any plan.          *)
AuditedAttemptIsGranted ==
  \A p \in Plan : audited[p] /\ Attempted(p) # {} => grant[p] # {}

(* If every journal of a plan verified, nothing more is attempted, and      *)
(* nothing attempted changes its outcome, once the plan has ended.          *)
AuditedEndIsFinal ==
  [][\A p \in Plan : audited'[p] /\ planStatus[p] \in Terminal =>
       /\ planStatus'[p] = planStatus[p]
       /\ Attempted(p)' = Attempted(p)
       /\ \A x \in Attempted(p) : action'[p][x] = action[p][x]]_vars
=============================================================================
