-------------------------- MODULE GovernedPipeline --------------------------
(***************************************************************************)
(* runGovernedPipeline, one evaluation after the other: classification of  *)
(* the text, the decision artifact, the risk refusal, the permission       *)
(* token, the execution stub and the gate on every way out. The clock      *)
(* moves between the steps, in either direction. A text is the set of      *)
(* keyword groups it mentions; the diagnostics may ask for any tampering   *)
(* of the authority artifacts, the API (evaluateV1) for none. An output    *)
(* meets the gate more than once: the paid tests put a model's answer in   *)
(* place of its response and gate it again (probeCandidate), and the       *)
(* diagnostics hand outputs to the gate that no pipeline made.             *)
(***************************************************************************)
EXTENDS AuthorityArtifacts

CONSTANTS
  Text,          \* the texts: [name, blank, mentions]
  Tampering,     \* sets of authority_test_overrides a caller asks for
  Given,         \* outputs the diagnostics hand to the gate
  Answer,        \* what the gate finds in the answers of a model
  Time           \* the clock readings

Override ==
  {"tamper_dla_hash", "tamper_pt_scope_empty", "omit_dla", "omit_pt",
   "lumens_tamper_dla_payload", "lumens_pt_binding_mismatch", "lumens_pt_expired"}

ASSUME InputAssumption ==
  /\ Time \subseteq Nat \ {0}
  /\ \A o \in Tampering : o \subseteq Override
  /\ \A out \in Given : IsOutput(out)

VARIABLES
  step,          \* idle, classified, decided, permitted, authorized, emitted or gated
  text,          \* the input of the evaluation, Absent before the first
  overrides,     \* the tampering its caller asked for
  dla,           \* what the control flow holds of the two artifacts, or Absent
  pt,
  checkedAt,     \* the clock when Lumens checked the token
  given,         \* the output last handed to the gate, or Absent
  out,           \* what the gate let out for it, or Absent
  clock

vars == <<step, text, overrides, dla, pt, checkedAt, given, out, clock>>
-----------------------------------------------------------------------------
(* scanThreats: a text that asks to reconstruct counts as dual use.         *)
ScanThreats(t) ==
  LET recon == "reconstruct" \in t.mentions
      dual  == recon \/ "weapon" \in t.mentions
  IN  [rights_impact |-> "legal advice" \in t.mentions, dual_use |-> dual,
       reconstruction_risk |-> recon, architect_hint |-> "architecture" \in t.mentions,
       trigger_hits |-> (IF recon THEN <<"RECONSTRUCTION_RISK">> ELSE <<>>)
                        \o (IF dual THEN <<"DUAL_USE">> ELSE <<>>)]

Selected(mode, reason) == [mode |-> mode, mode_reason |-> reason]

DecideModeOrdered(threat) ==
  IF threat.architect_hint THEN Selected("ARCHITECT", "ARCHITECT_KEYWORDS")
  ELSE IF threat.reconstruction_risk THEN Selected("GOVERNANCE", "RECONSTRUCTION_RISK")
  ELSE IF threat.dual_use THEN Selected("GOVERNANCE", "DUAL_USE")
  ELSE IF threat.rights_impact THEN Selected("GOVERNANCE", "RIGHTS_IMPACT")
  ELSE Selected("DEFAULT", "DEFAULT_SAFE")

(* Mutant of AtRisk: the mode the keywords selected stands for the risk.    *)
AtRiskByMode(t) == DecideModeOrdered(ScanThreats(t)).mode_reason
                     \in {"RECONSTRUCTION_RISK", "DUAL_USE"}

AtRisk(t) == ScanThreats(t).dual_use \/ ScanThreats(t).reconstruction_risk

Classify(t) ==
  LET selected == DecideModeOrdered(ScanThreats(t))
  IN  [mode |-> selected.mode, mode_reason |-> selected.mode_reason,
       trigger_hits |-> ScanThreats(t).trigger_hits]

MakeTraceId(t) == <<"sha256", t.name>>

DecideAllowDecisionCode(mode) ==
  IF mode = "DEFAULT" THEN "ALLOW_DEFAULT_SAFE"
  ELSE IF mode = "GOVERNANCE" THEN "ALLOW_GOVERNED_SAFE"
  ELSE "ALLOW_ARCHITECT_SAFE"

DecideRiskRefusalDecisionCode(t) ==
  IF ScanThreats(t).reconstruction_risk THEN "REFUSE_RECONSTRUCTION_RISK" ELSE "REFUSE_DUAL_USE"

BuildPolicySnapshotDecisionCode(t) ==
  IF AtRisk(t) THEN DecideRiskRefusalDecisionCode(t)
  ELSE DecideAllowDecisionCode(Classify(t).mode)

MakePolicy(decision, decisionCode, ctx, evidence) ==
  [decision |-> decision, decision_code |-> decisionCode,
   governance_manifest_id |-> ManifestId, mode_reason |-> ctx.mode_reason,
   dataset_versions |-> RecordedVersions, trigger_hits |-> ctx.trigger_hits,
   evidence_status |-> EvidenceStatusFrom(evidence)]

Item(datasets, status) == [datasets |-> datasets, status |-> status]

(* evaluateClaimsEvidence, then the pipeline's own four items.              *)
Evidence ==
  <<Item(Absent, "PROVIDED"), Item(Absent, "ASSUMED"), Item(Absent, "ASSUMED"),
    Item(Absent, "ASSUMED"), Item(DatasetVersionNote(FALSE), "PROVIDED"),
    Item(Absent, "PROVIDED"), Item(Absent, "PROVIDED")>>

(* executeStub's answer has none of the banned phrases.                     *)
NoPhrases == [loose |-> {}, tight |-> {}]

RefusedWith(ctx, traceId, decisionCode, refusal) ==
  [ok |-> FALSE, mode |-> ctx.mode, mode_reason |-> ctx.mode_reason, trace_id |-> traceId,
   policy |-> MakePolicy("REFUSE", decisionCode, ctx, Absent),
   evidence |-> Absent, response |-> Absent, refusal |-> refusal]

NoBinding == [invariant_id |-> Absent, failure_code |-> Absent, owner |-> Absent,
              retry_scope |-> Absent]

CanonicalRefusal(ctx, traceId, decisionCode, code, followed) ==
  RefusedWith(ctx, traceId, decisionCode,
    RefusalOf(code, Noted("canonical", DatasetVersionNote(followed)), NoBinding))

(* fail: Lumens binds its refusals itself, all of them to INV-001.          *)
LumensRefusal(t, code) ==
  RefusedWith(Classify(t), MakeTraceId(t), "REFUSE_LUMENS_AUTHORITY",
    RefusalOf(code, Noted("lumens", DatasetVersionNote(TRUE)), BindInvariant("INV-001")))
-----------------------------------------------------------------------------
Idle == step \in {"idle", "emitted", "gated"}

(* An output leaves the pipeline through the gate.                          *)
Emit(output) == step' = "emitted" /\ given' = output /\ out' = AssertAdmissible(output)

(* The evaluation goes on.                                                  *)
GoOn(next) == step' = next /\ given' = Absent /\ out' = Absent

Refuse(decisionCode, code) ==
  Emit(CanonicalRefusal(Classify(text), MakeTraceId(text), decisionCode, code, TRUE))

Init ==
  /\ step = "idle" /\ text = Absent /\ overrides = {}
  /\ dla = Absent /\ pt = Absent /\ given = Absent /\ out = Absent
  /\ clock \in Time /\ checkedAt = 0

(* runGovernedPipeline up to the classification: a blank text ends here.    *)
Receive(t, asked) ==
  /\ Idle
  /\ text' = t /\ overrides' = asked
  /\ dla' = Absent /\ pt' = Absent /\ checkedAt' = 0
  /\ IF t.blank
     THEN Emit(CanonicalRefusal([mode |-> "GOVERNANCE", mode_reason |-> "DEFAULT_SAFE",
                                 trigger_hits |-> <<>>],
                                NoTraceId, "REFUSE_INVALID_INPUT", "REFUSE-INVALID-INPUT", FALSE))
     ELSE GoOn("classified")
  /\ UNCHANGED clock

(* A caller inside the process may ask for tampering; evaluateV1 hands over *)
(* the text alone, and only one that is not blank.                          *)
Run == \E t \in Text, asked \in Tampering : Receive(t, asked)

EvaluateV1 == \E t \in Text : ~t.blank /\ Receive(t, {})

(* The artifact as built, then as the diagnostics tamper with its hash.     *)
DecisionArtifact(t, asked, now) ==
  LET built == BuildDecisionLegitimacyArtifact(
                 MakeTraceId(t), Classify(t).mode, Classify(t).mode_reason,
                 [decision      |-> IF AtRisk(t) THEN "REFUSE" ELSE "ALLOW",
                  decision_code |-> BuildPolicySnapshotDecisionCode(t),
                  mode_reason   |-> Classify(t).mode_reason], now)
  IN  IF "tamper_dla_hash" \in asked THEN [built EXCEPT !.integrity_hash = <<"zeros">>]
      ELSE built

(* Branch 1: the decision is recorded and checked before anything is        *)
(* emitted, a refusal for risk included.                                    *)
Decide ==
  /\ step = "classified"
  /\ IF "omit_dla" \in overrides
     THEN Refuse("REFUSE_MISSING_DLA", "REFUSE-MISSING-DLA") /\ UNCHANGED dla
     ELSE /\ dla' = DecisionArtifact(text, overrides, clock)
          /\ IF ValidateDecisionLegitimacyArtifact(dla')
             THEN GoOn("decided")
             ELSE Refuse("REFUSE_INVALID_DLA", "REFUSE-INVALID-DLA")
  /\ UNCHANGED <<text, overrides, pt, checkedAt, clock>>

(* The artifact Lumens is shown: the one at hand, or a tampered copy.       *)
LumensDla ==
  IF "lumens_tamper_dla_payload" \in overrides
  THEN [dla EXCEPT !.policy_snapshot.decision_code = "TAMPERED"] ELSE dla

(* The token as built, then as the diagnostics tamper with it.              *)
PermissionToken(asked, dlaId, now) ==
  LET built == BuildPermissionToken(dlaId, now)
  IN  IF "tamper_pt_scope_empty" \in asked THEN [built EXCEPT !.jurisdiction_scope = {}]
      ELSE IF "lumens_pt_binding_mismatch" \in asked
      THEN [built EXCEPT !.bound_dla_id = <<"dla_mismatch">>]
      ELSE IF "lumens_pt_expired" \in asked THEN [built EXCEPT !.expires_at = 0]
      ELSE built

(* Identities, tokens, evidence and responses are things, and never missing.*)
ASSUME IdentityAssumption ==
  /\ \A t \in Text : MakeTraceId(t) # Absent
  /\ \A t \in Text, asked \in Tampering \cup {{}}, made \in Time, now \in Time :
       PermissionToken(asked, DecisionArtifact(t, {}, made).id, now) # Absent
  /\ Absent \notin {Evidence, NoPhrases}

Permit ==
  /\ step = "decided"
  /\ IF VerifyAuthority(LumensDla, Absent, clock) # Absent
     THEN Emit(LumensRefusal(text, VerifyAuthority(LumensDla, Absent, clock))) /\ UNCHANGED pt
     ELSE IF AtRisk(text)
     THEN /\ Refuse(DecideRiskRefusalDecisionCode(text), "REFUSE-DUALUSE-OR-RECONSTRUCTION")
          /\ UNCHANGED pt
     ELSE IF "omit_pt" \in overrides
     THEN Refuse("REFUSE_MISSING_PT", "REFUSE-MISSING-PT") /\ UNCHANGED pt
     ELSE /\ pt' = PermissionToken(overrides, dla.id, clock)
          /\ IF ValidatePermissionToken(pt')
             THEN GoOn("permitted")
             ELSE Refuse("REFUSE_INVALID_PT", "REFUSE-INVALID-PT")
  /\ UNCHANGED <<text, overrides, dla, checkedAt, clock>>

(* Branch 2: Lumens checks the two together, at a later time.               *)
Authorize ==
  /\ step = "permitted"
  /\ checkedAt' = clock
  /\ IF VerifyAuthority(LumensDla, pt, clock) # Absent
     THEN Emit(LumensRefusal(text, VerifyAuthority(LumensDla, pt, clock)))
     ELSE GoOn("authorized")
  /\ UNCHANGED <<text, overrides, dla, pt, clock>>

(* executeStub answers, and the allowed output passes the gate.             *)
Execute ==
  /\ step = "authorized"
  /\ LET ctx == Classify(text)
     IN  Emit([ok |-> TRUE, mode |-> ctx.mode, mode_reason |-> ctx.mode_reason,
               trace_id |-> MakeTraceId(text),
               policy |-> MakePolicy("ALLOW", DecideAllowDecisionCode(ctx.mode), ctx, Evidence),
               evidence |-> Evidence, response |-> NoPhrases,
               refusal |-> Absent])
  /\ UNCHANGED <<text, overrides, dla, pt, checkedAt, clock>>

(* A diagnostic hands an output to the gate.                                *)
Gate ==
  /\ step = "idle"
  /\ step' = "gated" /\ given' \in Given /\ out' = AssertAdmissible(given')
  /\ UNCHANGED <<text, overrides, dla, pt, checkedAt, clock>>

(* probeCandidate: a model's answer replaces the response of an allowed     *)
(* output, a refusal goes back to the gate as it is.                        *)
ProbeCandidate ==
  /\ step \in {"emitted", "gated"}
  /\ \E answer \in Answer :
       given' = IF out.ok = TRUE THEN [out EXCEPT !.response = answer] ELSE out
  /\ step' = "gated" /\ out' = AssertAdmissible(given')
  /\ UNCHANGED <<text, overrides, dla, pt, checkedAt, clock>>

Tick == clock' \in Time \ {clock} /\ UNCHANGED <<step, text, overrides, dla, pt, checkedAt, given, out>>

Next ==
  Run \/ EvaluateV1 \/ Decide \/ Permit \/ Authorize \/ Execute \/ Gate \/ ProbeCandidate \/ Tick

Spec == Init /\ [][Next]_vars
-----------------------------------------------------------------------------
Emitted == step = "emitted"

(* An output is allowed only for a text that mentions nothing risky, even   *)
(* one whose other keywords select the architect mode, with an untampered   *)
(* record of this very decision and a token for that record which had not   *)
(* expired when it was checked, however the clock moved; also when it comes *)
(* back from the gate with a model's answer in it.                          *)
AllowedIsAuthorized ==
  text # Absent /\ out # Absent /\ out.ok = TRUE
  => /\ ~text.blank /\ text.mentions \cap {"reconstruct", "weapon"} = {}
     /\ overrides = {}
     /\ dla.policy_snapshot = [decision |-> out.policy.decision,
                               decision_code |-> out.policy.decision_code,
                               mode_reason |-> out.mode_reason]
     /\ dla.trace_id = out.trace_id /\ dla.trace_id = MakeTraceId(text)
     /\ dla.integrity_hash = ComputeDecisionLegitimacyIntegrityHash(dla)
     /\ pt.bound_dla_id = dla.id /\ pt.jurisdiction_scope # {} /\ checkedAt < pt.expires_at

(* Whichever check refused, the gate passes the refusal as it was decided:  *)
(* bound to one registered invariant, and with the trigger hits and dataset *)
(* versions of its own policy, which the gate's refusals do not have.       *)
RefusalIsTraceable ==
  Emitted /\ out.ok = FALSE
  => /\ out.refusal.invariant_id \in DOMAIN Invariants
     /\ out.refusal.failure_code = Invariants[out.refusal.invariant_id].failure_code
     /\ out.refusal.owner = Invariants[out.refusal.invariant_id].owner
     /\ out.policy.mode_reason = out.mode_reason
     /\ out.policy.dataset_versions = RecordedVersions
     /\ ~text.blank => out.policy.trigger_hits = ScanThreats(text).trigger_hits

(* A risky text is refused, and the risk is the stated reason unless its    *)
(* authority record itself failed before the risk was looked at.            *)
RiskIsRefused ==
  Emitted /\ ~text.blank /\ text.mentions \cap {"reconstruct", "weapon"} # {}
  => /\ out.ok = FALSE
     /\ overrides \cap {"omit_dla", "tamper_dla_hash", "lumens_tamper_dla_payload"} = {}
        => /\ out.refusal.code = "REFUSE-DUALUSE-OR-RECONSTRUCTION"
           /\ dla.policy_snapshot.decision_code = out.policy.decision_code

(* assertAdmissible: whatever was handed over, what the gate lets out is    *)
(* valid against the schema, free of banned phrases if it allows, the very  *)
(* output it was given if it allows, and bound to its registered failure    *)
(* code and retry scope if it refuses; a trace id of fewer than eight       *)
(* characters is kept in the refusal, which is then invalid.                *)
EmittedIsAdmissible ==
  out # Absent /\ (given.trace_id # Absent => given.trace_id[1] # "short")
  => /\ Validate(out)
     /\ out.ok = TRUE => out = given /\ out.response.loose = {} /\ out.response.tight = {}
     /\ out.ok = FALSE =>
          /\ out.refusal.failure_code \in DOMAIN FailureCodes
          /\ out.refusal.retry_scope = FailureCodes[out.refusal.failure_code].retry_scope

(* What the gate let out and is given again unchanged comes out unchanged:  *)
(* a refusal is not refused again for what the first pass wrote into it,    *)
(* and keeps its code, binding and note.                                    *)
GateSettles ==
  [][out # Absent /\ given' = out /\ Validate(out) => out' = out]_vars
=============================================================================
