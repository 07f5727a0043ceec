------------------------- MODULE MCGovernedPipeline -------------------------
(***************************************************************************)
(* Every combination of keyword groups, every pair of overrides, and a     *)
(* clock that can pass the end of a token's life in one step. Outputs as   *)
(* the diagnostics hand them to the gate: complete, missing a field, with  *)
(* a short or no trace id, bound, unbound or bound to codes and invariants *)
(* that are not registered.                                                *)
(***************************************************************************)
EXTENDS GovernedPipeline, FiniteSets

MCVersions == [dual_use |-> "v1", reconstruction |-> "v1"]

MCTexts ==
  {[name |-> mentions, blank |-> FALSE, mentions |-> mentions] :
     mentions \in SUBSET {"legal advice", "reconstruct", "weapon", "architecture"}}
  \cup {[name |-> {}, blank |-> TRUE, mentions |-> {}]}

MCTampering == {asked \in SUBSET Override : Cardinality(asked) <= 2}

MCPolicy(decision, code) ==
  [decision |-> decision, decision_code |-> code, governance_manifest_id |-> ManifestId,
   mode_reason |-> "DUAL_USE", dataset_versions |-> RecordedVersions,
   trigger_hits |-> <<>>, evidence_status |-> "KNOWN"]

MCTraces == {Absent, <<"short", "t">>, <<"sha256", "t">>}

MCModeOf == [reason \in {"DUAL_USE", Absent, "OTHER"} |->
               IF reason = "OTHER" THEN "OTHER" ELSE "GOVERNANCE"]

MCItem(datasets, status) == [datasets |-> datasets, status |-> status]

MCEvidence ==
  {Absent, <<>>, <<MCItem(Absent, "UNKNOWN")>>,
   <<MCItem(Absent, "ASSUMED"), MCItem(DatasetVersionNote(FALSE), "PROVIDED")>>}

MCAnswers == [loose : {{}, {"sudo"}}, tight : {{}, {"rmrf"}}]

MCAllows ==
  {[ok |-> ok, mode |-> MCModeOf[reason], mode_reason |-> reason, trace_id |-> trace,
    policy |-> policy, evidence |-> evidence, response |-> response, refusal |-> Absent] :
     ok \in {TRUE, Absent}, reason \in DOMAIN MCModeOf, trace \in MCTraces,
     policy \in {Absent, MCPolicy("ALLOW", "ALLOW_SAFE"), MCPolicy("REFUSE", "REFUSE_DUAL_USE")},
     evidence \in MCEvidence, response \in {Absent} \cup MCAnswers}

MCRefusalFields ==
  [code : {"REFUSE-INVALID-PT", "REFUSE-LUMENS-PT-EXPIRED"},
   message : {Absent, Noted("m", Absent), Noted("m", DatasetVersionNote(TRUE))},
   invariant_id : {Absent, "INV-010", "INV-999"}, failure_code : {Absent, "LG-S-001", "XX-000"},
   owner : {Absent, "LG"}, retry_scope : {Absent, "none", "scoped_retry"}]

MCRefusals ==
  {[ok |-> FALSE, mode |-> "GOVERNANCE", mode_reason |-> "DUAL_USE", trace_id |-> trace,
    policy |-> MCPolicy("REFUSE", "REFUSE_DUAL_USE"), evidence |-> Absent,
    response |-> Absent, refusal |-> refusal] :
     trace \in MCTraces, refusal \in {Absent} \cup MCRefusalFields}

MCGiven == MCAllows \cup MCRefusals
=============================================================================
