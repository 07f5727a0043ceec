----------------------- MODULE ExecutionLifecycleProofs -----------------------
(***************************************************************************)
(* Proofs about ExecutionLifecycle for any plans, actions and authorities. *)
(* What a plan was started with is never reconsidered, so the invariants   *)
(* about grants need that the identity of a grant stays consumed           *)
(* (GrantInv). The two results about audited plans need that the journals  *)
(* of an audited plan verify now, and that a plan gets past AUTHORIZED     *)
(* through StartPlan only (AuditInv).                                      *)
(***************************************************************************)
EXTENDS ExecutionLifecycle, TLAPS

Started == {"EXECUTION_STARTED", "COMPLETED", "FAILED", "UNCERTAIN"}

Prepared == {"NOT_ATTEMPTED", "PROPOSED", "ASSESSED", "APPROVED", "AUTHORIZED"}

GrantInv ==
  /\ clock \in Nat
  /\ DOMAIN grant = Plan
  /\ \A p \in Plan : \A g \in grant[p] : g.authority.authority_id \in consumed
  /\ StartsInsideWindow
  /\ OneUseStartsOnce

(* What verifyReplay says of a plan's status s and its actions' records.    *)
Verified(s, acts) ==
  /\ s \in Prepared \cup {"REFUSED"} => \A x \in DOMAIN acts : acts[x].status \notin Started
  /\ s \in Terminal => \A x \in DOMAIN acts : acts[x].status # "EXECUTION_STARTED"

AuditInv ==
  /\ DOMAIN grant = Plan /\ DOMAIN planStatus = Plan
  /\ DOMAIN action = Plan /\ DOMAIN audited = Plan
  /\ \A p \in Plan : DOMAIN action[p] = ActionsOf[p]
  /\ \A p \in Plan : planStatus[p] \in ExecutionStatus
  /\ \A p \in Plan : planStatus[p] \in Started => grant[p] # {}
  /\ \A p \in Plan : audited[p] => Verified(planStatus[p], action[p])
-----------------------------------------------------------------------------
(* The statuses that come before an execution are the ones with a phase.    *)
LEMMA PhaseOfPrepared ==
  ASSUME NEW s
  PROVE  /\ Phase(s) \in 0..5
         /\ Phase(s) # 0 <=> s \in Prepared
<1>1. (\E n \in 1..5 : Preparation[n] = s) <=> s \in Prepared
  BY DEF Preparation, Prepared
<1>2. ASSUME \E n \in 1..5 : Preparation[n] = s
      PROVE  (CHOOSE n \in 1..5 : Preparation[n] = s) \in 1..5
  BY <1>2
<1> QED BY <1>1, <1>2 DEF Phase

LEMMA Statuses ==
  /\ ExecutionStatus = Prepared \cup {"EXECUTION_STARTED", "COMPLETED", "FAILED", "REFUSED", "UNCERTAIN"}
  /\ \A n \in 1..5 : Preparation[n] \in Prepared
<1>1. {Preparation[n] : n \in 1..5} = Prepared
  BY DEF Preparation, Prepared
<1> QED BY <1>1 DEF ExecutionStatus, Terminal

(* assertTransition: an end is final, an outcome comes from a start, and a  *)
(* start from AUTHORIZED.                                                   *)
LEMMA TransitionsOf ==
  ASSUME NEW from, NEW to, CanTransition(from, to)
  PROVE  /\ from \notin Terminal
         /\ to \in {"COMPLETED", "FAILED", "UNCERTAIN"} => from = "EXECUTION_STARTED"
         /\ from = "EXECUTION_STARTED" => to \in {"COMPLETED", "FAILED", "UNCERTAIN"}
         /\ to \in ExecutionStatus
<1>1. CASE Phase(from) \in 1..4
  <2>1. to \in Prepared \cup {"REFUSED"} /\ from \in Prepared
    BY <1>1, Statuses, PhaseOfPrepared DEF CanTransition, Transitions
  <2> QED BY <2>1, Statuses DEF Prepared, Terminal
<1>2. CASE Phase(from) \notin 1..4
  BY <1>2, Statuses DEF CanTransition, Transitions, Terminal
<1> QED BY <1>1, <1>2

LEMMA VerifyReplayShows ==
  ASSUME NEW s, NEW acts, VerifyReplay(PlanJournal(s, acts), acts)
  PROVE  Verified(s, acts)
<1>1. /\ Phase(s) > 0 => \A x \in DOMAIN acts : Phase(acts[x].status) \in 1..Phase(s)
      /\ s = "REFUSED" =>
           \A x \in DOMAIN acts : Phase(acts[x].status) > 0 \/ acts[x].status = "REFUSED"
      /\ s \in Terminal => \A x \in DOMAIN acts : acts[x].status # "EXECUTION_STARTED"
  BY DEF VerifyReplay, PlanJournal
<1>2. s \in Prepared => \A x \in DOMAIN acts : acts[x].status \in Prepared
  BY <1>1, PhaseOfPrepared
<1>3. s = "REFUSED" => \A x \in DOMAIN acts : acts[x].status \in Prepared \cup {"REFUSED"}
  BY <1>1, PhaseOfPrepared
<1> QED BY <1>1, <1>2, <1>3 DEF Verified, Prepared, Started
-----------------------------------------------------------------------------
(* revalidateExecutionAuthority: what its last answer implies.              *)
LEMMA Revalidated ==
  ASSUME NEW a, NEW context, NEW revokedIds, NEW consumedIds, NEW now,
         RevalidateExecutionAuthority(a, context, revokedIds, consumedIds, now) = "OK"
  PROVE  /\ a.authority_id \notin revokedIds /\ ~(a.one_use /\ a.authority_id \in consumedIds)
         /\ ~(a.expires_at <= now) /\ ~(a.issued_at > now)
BY DEF RevalidateExecutionAuthority

LEMMA GrantInductive ==
  ASSUME GrantInv, [Next]_vars
  PROVE  GrantInv'
<1> USE DEF GrantInv, StartsInsideWindow, OneUseStartsOnce
<1>1. ASSUME NEW a \in Authority, BuildExecutionAuthority(a)
      PROVE  GrantInv'
  BY <1>1 DEF BuildExecutionAuthority
<1>2. ASSUME NEW a \in Authority, Revoke(a)
      PROVE  GrantInv'
  BY <1>2 DEF Revoke
<1>3. CASE Tick
  BY <1>3 DEF Tick
<1>4. ASSUME NEW p \in Plan, NEW a \in Authority, StartPlan(p, a)
      PROVE  GrantInv'
  <2> DEFINE start == [authority |-> a, at |-> clock, revoked |-> a.authority_id \in revoked]
  <2>1. grant' = [grant EXCEPT ![p] = {start}] /\ consumed' = consumed \cup {a.authority_id}
        /\ UNCHANGED <<clock, issued, revoked>>
    BY <1>4 DEF StartPlan
  <2>2. a.authority_id \notin revoked /\ ~(a.one_use /\ a.authority_id \in consumed)
        /\ ~(a.expires_at <= clock) /\ ~(a.issued_at > clock)
    BY <1>4, Revalidated DEF StartPlan
  <2>3. a.issued_at <= clock /\ clock < a.expires_at
    BY <2>2, TimesAssumption
  <2>4. start.authority = a /\ start.at = clock /\ ~start.revoked
    BY <2>2
  <2> HIDE DEF start
  <2>5. \A q \in Plan : grant'[q] = IF q = p THEN {start} ELSE grant[q]
    BY <2>1
  <2>6. \A q \in Plan : \A g \in grant'[q] : g.authority.authority_id \in consumed'
    BY <2>1, <2>4, <2>5
  <2>7. StartsInsideWindow'
    BY <2>1, <2>3, <2>4, <2>5
  <2>8. OneUseStartsOnce'
    BY <2>2, <2>4, <2>5
  <2> QED BY <2>1, <2>6, <2>7, <2>8
<1>5. ASSUME NEW p \in Plan, NEW to, MovePlan(p, to) \/ \E x \in ActionsOf[p] : MoveAction(p, x, to)
      PROVE  GrantInv'
  <2>1. UNCHANGED <<clock, issued, consumed, grant>>
    BY <1>5 DEF MovePlan, MoveAction
  <2> QED BY <2>1
<1>6. CASE UNCHANGED vars
  BY <1>6 DEF vars
<1> QED BY <1>1, <1>2, <1>3, <1>4, <1>5, <1>6 DEF Next

(* The invariant about grants holds in every reachable state.               *)
THEOREM GrantsAreSound == Spec => []GrantInv
<1>1. Init => GrantInv
  BY DEF Init, GrantInv, StartsInsideWindow, OneUseStartsOnce
<1>2. GrantInv /\ [Next]_vars => GrantInv'
  BY GrantInductive
<1> QED BY <1>1, <1>2, PTL DEF Spec

(* At most one plan starts as one-use under an identity.                    *)
THEOREM OneUseIsOneStart == Spec => []OneUseStartsOnce
<1>1. GrantInv => OneUseStartsOnce
  BY DEF GrantInv
<1> QED BY GrantsAreSound, <1>1, PTL

(* Plans start inside the window of an authority that is not revoked.       *)
THEOREM StartsAreInWindow == Spec => []StartsInsideWindow
<1>1. GrantInv => StartsInsideWindow
  BY DEF GrantInv
<1> QED BY GrantsAreSound, <1>1, PTL
-----------------------------------------------------------------------------
(* The plan an auditor looks at after a step of plan p.                     *)
LEMMA AuditKeeps ==
  ASSUME NEW p \in Plan, DOMAIN audited = Plan, Audit(p)
  PROVE  /\ DOMAIN audited' = Plan
         /\ \A q \in Plan \ {p} : audited'[q] = audited[q]
         /\ audited'[p] => audited[p] /\ Verified(planStatus'[p], action'[p])
<1>1. audited'[p] = (audited[p] /\ VerifyReplay(PlanJournal(planStatus'[p], action'[p]), action'[p]))
  BY DEF Audit
<1>2. audited'[p] => audited[p] /\ VerifyReplay(PlanJournal(planStatus'[p], action'[p]), action'[p])
  BY <1>1
<1> QED BY <1>2, VerifyReplayShows DEF Audit

(* A step of one plan's status or actions under the audit of that plan.     *)
LEMMA AuditedStep ==
  ASSUME AuditInv, NEW p \in Plan, Audit(p),
         DOMAIN grant' = Plan, DOMAIN planStatus' = Plan, DOMAIN action' = Plan,
         \A q \in Plan \ {p} : planStatus'[q] = planStatus[q] /\ action'[q] = action[q]
                              /\ grant'[q] = grant[q],
         DOMAIN action'[p] = ActionsOf[p], planStatus'[p] \in ExecutionStatus,
         planStatus'[p] \in Started => grant'[p] # {}
  PROVE  AuditInv'
<1>1. /\ DOMAIN audited' = Plan
      /\ \A q \in Plan \ {p} : audited'[q] = audited[q]
      /\ audited'[p] => Verified(planStatus'[p], action'[p])
  BY AuditKeeps DEF AuditInv
<1>2. \A q \in Plan : audited'[q] => Verified(planStatus'[q], action'[q])
  BY <1>1 DEF AuditInv
<1>3. \A q \in Plan : /\ DOMAIN action'[q] = ActionsOf[q]
                      /\ planStatus'[q] \in ExecutionStatus
                      /\ planStatus'[q] \in Started => grant'[q] # {}
  BY DEF AuditInv
<1> QED BY <1>1, <1>2, <1>3 DEF AuditInv, Verified

LEMMA AuditInductive ==
  ASSUME AuditInv, [Next]_vars
  PROVE  AuditInv'
<1>1. ASSUME UNCHANGED <<grant, planStatus, action, audited>>
      PROVE  AuditInv'
  BY <1>1 DEF AuditInv, Verified
<1>2. ASSUME NEW p \in Plan, NEW a \in Authority, StartPlan(p, a)
      PROVE  AuditInv'
  <2>1. /\ planStatus' = [planStatus EXCEPT ![p] = "EXECUTION_STARTED"]
        /\ grant' = [grant EXCEPT ![p] = {[authority |-> a, at |-> clock, revoked |-> a.authority_id \in revoked]}]
        /\ action' = action /\ Audit(p)
    BY <1>2 DEF StartPlan
  <2>2. planStatus'[p] = "EXECUTION_STARTED" /\ grant'[p] # {}
    BY <2>1 DEF AuditInv
  <2>3. planStatus'[p] \in ExecutionStatus
    BY <2>2, Statuses
  <2>4. /\ DOMAIN grant' = Plan /\ DOMAIN planStatus' = Plan /\ DOMAIN action' = Plan
        /\ \A q \in Plan \ {p} : planStatus'[q] = planStatus[q] /\ action'[q] = action[q]
                                /\ grant'[q] = grant[q]
        /\ DOMAIN action'[p] = ActionsOf[p]
    BY <2>1 DEF AuditInv
  <2> QED BY <2>1, <2>2, <2>3, <2>4, AuditedStep
<1>3. ASSUME NEW p \in Plan, NEW to, MovePlan(p, to)
      PROVE  AuditInv'
  <2>1. /\ planStatus' = [planStatus EXCEPT ![p] = to]
        /\ grant' = grant /\ action' = action /\ Audit(p)
        /\ CanTransition(planStatus[p], to) /\ to # "EXECUTION_STARTED"
    BY <1>3 DEF MovePlan
  <2>2. planStatus'[p] = to
    BY <2>1 DEF AuditInv
  <2>3. to \in ExecutionStatus /\ (to \in Started => planStatus[p] = "EXECUTION_STARTED")
    BY <2>1, TransitionsOf DEF Started
  <2>4. to \in Started => grant'[p] # {}
    BY <2>1, <2>3 DEF AuditInv, Started
  <2>5. /\ DOMAIN grant' = Plan /\ DOMAIN planStatus' = Plan /\ DOMAIN action' = Plan
        /\ \A q \in Plan \ {p} : planStatus'[q] = planStatus[q] /\ action'[q] = action[q]
                                /\ grant'[q] = grant[q]
        /\ DOMAIN action'[p] = ActionsOf[p]
    BY <2>1 DEF AuditInv
  <2> QED BY <2>1, <2>2, <2>3, <2>4, <2>5, AuditedStep
<1>4. ASSUME NEW p \in Plan, NEW x \in ActionsOf[p], NEW to, MoveAction(p, x, to)
      PROVE  AuditInv'
  <2>1. PICK proven : action' = [action EXCEPT ![p][x] = [status |-> to, proven |-> proven]]
    BY <1>4 DEF MoveAction
  <2>2. grant' = grant /\ planStatus' = planStatus /\ Audit(p)
    BY <1>4 DEF MoveAction
  <2>3. /\ DOMAIN grant' = Plan /\ DOMAIN planStatus' = Plan /\ DOMAIN action' = Plan
        /\ \A q \in Plan \ {p} : planStatus'[q] = planStatus[q] /\ action'[q] = action[q]
                                /\ grant'[q] = grant[q]
        /\ DOMAIN action'[p] = ActionsOf[p]
        /\ planStatus'[p] \in ExecutionStatus
        /\ planStatus'[p] \in Started => grant'[p] # {}
    BY <2>1, <2>2 DEF AuditInv
  <2> QED BY <2>2, <2>3, AuditedStep
<1>5. ASSUME NEW a \in Authority, BuildExecutionAuthority(a) \/ Revoke(a)
      PROVE  UNCHANGED <<grant, planStatus, action, audited>>
  BY <1>5 DEF BuildExecutionAuthority, Revoke
<1>6. Tick \/ UNCHANGED vars => UNCHANGED <<grant, planStatus, action, audited>>
  BY DEF Tick, vars
<1> QED BY <1>1, <1>2, <1>3, <1>4, <1>5, <1>6 DEF Next

(* The invariant about audited plans holds in every reachable state.        *)
THEOREM AuditsAreSound == Spec => []AuditInv
<1>1. Init => AuditInv
  BY Statuses DEF Init, AuditInv, Verified, Prepared, Started
<1>2. AuditInv /\ [Next]_vars => AuditInv'
  BY AuditInductive
<1> QED BY <1>1, <1>2, PTL DEF Spec

(* Every action an audited plan attempted was attempted under an authority. *)
THEOREM AuditedAttemptsAreGranted == Spec => []AuditedAttemptIsGranted
<1>1. AuditInv => AuditedAttemptIsGranted
  <2> SUFFICES ASSUME AuditInv, NEW p \in Plan, audited[p], NEW x \in Attempted(p)
               PROVE  grant[p] # {}
    BY DEF AuditedAttemptIsGranted
  <2>1. x \in DOMAIN action[p] /\ action[p][x].status \in Started
    BY DEF Attempted, AuditInv, Started
  <2>2. planStatus[p] \notin Prepared \cup {"REFUSED"}
    BY <2>1 DEF AuditInv, Verified
  <2>3. planStatus[p] \in Started
    BY <2>2, Statuses DEF AuditInv, Started
  <2> QED BY <2>3 DEF AuditInv
<1> QED BY AuditsAreSound, <1>1, PTL

(* In an audited plan nothing is attempted or changes after its end.        *)
THEOREM AuditedEndsAreFinal == Spec => AuditedEndIsFinal
<1> DEFINE Final(p) ==
      audited'[p] /\ planStatus[p] \in Terminal =>
        /\ planStatus'[p] = planStatus[p]
        /\ Attempted(p)' = Attempted(p)
        /\ \A x \in Attempted(p) : action'[p][x] = action[p][x]
<1>1. ASSUME AuditInv, [Next]_vars, NEW p \in Plan
      PROVE  Final(p)
  <2>1. ASSUME planStatus'[p] = planStatus[p], action'[p] = action[p]
        PROVE  Final(p)
    BY <2>1 DEF Attempted
  <2>2. ASSUME NEW q \in Plan, NEW a \in Authority, StartPlan(q, a)
        PROVE  Final(p)
    <3>1. CASE q = p
      <4>1. planStatus[p] \notin Terminal
        BY <2>2, <3>1, TransitionsOf DEF StartPlan
      <4> QED BY <4>1
    <3>2. CASE q # p
      BY <1>1, <2>1, <2>2, <3>2 DEF StartPlan, AuditInv
    <3> QED BY <3>1, <3>2
  <2>3. ASSUME NEW q \in Plan, NEW to, MovePlan(q, to)
        PROVE  Final(p)
    <3>1. CASE q = p
      <4>1. planStatus[p] \notin Terminal
        BY <2>3, <3>1, TransitionsOf DEF MovePlan
      <4> QED BY <4>1
    <3>2. CASE q # p
      BY <1>1, <2>1, <2>3, <3>2 DEF MovePlan, AuditInv
    <3> QED BY <3>1, <3>2
  <2>4. ASSUME NEW q \in Plan, NEW x \in ActionsOf[q], NEW to, MoveAction(q, x, to)
        PROVE  Final(p)
    <3>1. PICK proven : action' = [action EXCEPT ![q][x] = [status |-> to, proven |-> proven]]
      BY <2>4 DEF MoveAction
    <3>2. planStatus' = planStatus /\ Audit(q) /\ CanTransition(action[q][x].status, to)
      BY <2>4 DEF MoveAction
    <3>3. CASE q # p
      BY <1>1, <2>1, <3>1, <3>2, <3>3 DEF AuditInv
    <3>4. ASSUME q = p, audited'[p], planStatus[p] \in Terminal
          PROVE  Attempted(p)' = Attempted(p) /\ \A y \in Attempted(p) : action'[p][y] = action[p][y]
      <4>1. audited[p] /\ Verified(planStatus[p], action'[p])
        BY <1>1, <3>2, <3>4, AuditKeeps DEF AuditInv
      <4>2. Verified(planStatus[p], action[p])
        BY <1>1, <4>1 DEF AuditInv
      <4>3. /\ p \in DOMAIN action /\ DOMAIN action[p] = ActionsOf[p] /\ DOMAIN action'[p] = ActionsOf[p]
            /\ action'[p][x] = [status |-> to, proven |-> proven]
            /\ \A y \in ActionsOf[p] \ {x} : action'[p][y] = action[p][y]
        BY <1>1, <3>1, <3>4, <2>4 DEF AuditInv
      <4>4. action[p][x].status # "EXECUTION_STARTED" /\ to # "EXECUTION_STARTED"
        BY <3>4, <2>4, <4>1, <4>2, <4>3 DEF Verified
      <4>5. action[p][x].status \notin Started /\ to \notin Started
        BY <3>2, <3>4, <4>4, TransitionsOf DEF Started, Terminal
      <4>6. action'[p][x].status = to
        BY <4>3
      <4> QED BY <4>3, <4>5, <4>6 DEF Attempted, Started
    <3> QED BY <3>2, <3>3, <3>4
  <2>5. ASSUME NEW a \in Authority, BuildExecutionAuthority(a) \/ Revoke(a)
        PROVE  Final(p)
    BY <2>1, <2>5 DEF BuildExecutionAuthority, Revoke
  <2>6. ASSUME Tick \/ UNCHANGED vars
        PROVE  Final(p)
    BY <2>1, <2>6 DEF Tick, vars
  <2> HIDE DEF Final
  <2> QED BY <1>1, <2>2, <2>3, <2>4, <2>5, <2>6 DEF Next
<1>2. AuditInv /\ [Next]_vars =>
        [\A p \in Plan : audited'[p] /\ planStatus[p] \in Terminal =>
           /\ planStatus'[p] = planStatus[p]
           /\ Attempted(p)' = Attempted(p)
           /\ \A x \in Attempted(p) : action'[p][x] = action[p][x]]_vars
  BY <1>1
<1> QED BY AuditsAreSound, <1>2, PTL DEF Spec, AuditedEndIsFinal
=============================================================================
