------------------------- MODULE MCExecutionLifecycle -------------------------
(***************************************************************************)
(* Two plans in the scope of one authority, the first with two actions.    *)
(* The last authority is a copy that says it starts later and may be used  *)
(* again.                                                                  *)
(***************************************************************************)
EXTENDS ExecutionLifecycle

MCInput(oneUse, from, until) ==
  [wellFormed |-> TRUE, trace_id |-> "t", policy_snapshot_id |-> "s", scope |-> "read",
   one_use |-> oneUse, issued_at |-> from, expires_at |-> until]

MCAuthority(input, saying) ==
  [x \in DOMAIN saying \cup {"authority_id"} |-> IF x = "authority_id" THEN input ELSE saying[x]]

MCContextOf(scope, ceiling) ==
  [riskFinite |-> TRUE, trace_id |-> "t", policy_snapshot_id |-> "s", scope |-> scope,
   current_risk |-> 1, risk_ceiling |-> ceiling]

MCAuthorities ==
  {MCAuthority(input, input) :
     input \in {MCInput(TRUE, 0, 2), MCInput(FALSE, 1, 2), MCInput(TRUE, 1, 1)}}
    \cup {MCAuthority(MCInput(TRUE, 0, 2), MCInput(FALSE, 1, 2))}

MCContext == [p |-> MCContextOf("read", 1), q |-> MCContextOf("read", 2)]

MCActionsOf == [p |-> {"x", "y"}, q |-> {}]
=============================================================================
