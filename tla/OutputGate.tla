----------------------------- MODULE OutputGate -----------------------------
(***************************************************************************)
(* The admissibility gate every pipeline output passes (outputGate.ts),    *)
(* which binds refusals to the registries. An output is a record; a        *)
(* missing field is Absent. A text is reduced to what the gate tells       *)
(* apart: the dataset note in a message, and the banned phrases in each of *)
(* the two normal forms of a response. Identifiers are tuples, a trace id  *)
(* of fewer than eight characters is <<"short", ...>>.                     *)
(***************************************************************************)
EXTENDS Registries, Sequences, Naturals

CONSTANTS
  DatasetVersions,   \* [dual_use, reconstruction]: versions in the governance manifest
  ManifestId         \* manifest_id of the governance manifest

Mode == {"DEFAULT", "GOVERNANCE", "ARCHITECT"}

ModeReasonCode ==
  {"ARCHITECT_KEYWORDS", "RECONSTRUCTION_RISK", "DUAL_USE", "RIGHTS_IMPACT", "DEFAULT_SAFE"}

(* The registry of decision codes.                                          *)
DecisionCode ==
  {"ALLOW_DEFAULT_SAFE", "ALLOW_GOVERNED_SAFE", "ALLOW_ARCHITECT_SAFE",
   "REFUSE_RECONSTRUCTION_RISK", "REFUSE_DUAL_USE", "REFUSE_POLICY_UNSPECIFIED",
   "REFUSE_INVALID_INPUT", "REFUSE_MISSING_DLA", "REFUSE_INVALID_DLA", "REFUSE_MISSING_PT",
   "REFUSE_INVALID_PT", "REFUSE_LUMENS_AUTHORITY", "REFUSE_CAPABILITY_LEAK",
   "REFUSE_SCHEMA_INVALID", "REFUSE_LG_FAILURE_CODE_UNREGISTERED",
   "REFUSE_LG_RETRY_SCOPE_MISMATCH", "REFUSE_UNSAFE_OR_UNKNOWN"}

RefusalCode ==
  {"REFUSE-INVALID-INPUT", "REFUSE-DUALUSE-OR-RECONSTRUCTION", "REFUSE-MISSING-DLA",
   "REFUSE-INVALID-DLA", "REFUSE-MISSING-PT", "REFUSE-INVALID-PT",
   "REFUSE-LUMENS-DLA-INTEGRITY", "REFUSE-LUMENS-PT-BINDING", "REFUSE-LUMENS-PT-EXPIRED",
   "REFUSE-OUTPUT-NOT-ADMISSIBLE", "REFUSE-CAPABILITY-LEAK",
   "REFUSE-LG-FAILURE-CODE-UNREGISTERED", "REFUSE-LG-RETRY-SCOPE-MISMATCH"}

EvidenceStatus == {"PROVIDED", "ASSUMED", "UNKNOWN", "ESTIMATE"}

(* The types of the parts of an output. String is STRING: the literals are  *)
(* listed because the provers do not know that they are in it.              *)
String ==
  STRING \cup DecisionCode \cup RefusalCode \cup ModeReasonCode \cup BoundInvariant
    \cup RetryScope
    \cup {"UNKNOWN", ";", "canonical", "lumens", "invalid", "unclassified", "leak"}

Note == [dual_use : Seq(String), reconstruction : Seq(String)]

EvidenceItem == [datasets : Note \cup {Absent}, status : EvidenceStatus]

PolicyBlock ==
  [decision : {"ALLOW", "REFUSE"}, decision_code : DecisionCode,
   governance_manifest_id : {ManifestId}, mode_reason : ModeReasonCode,
   dataset_versions : Note, trigger_hits : Seq(String), evidence_status : {"KNOWN", "UNKNOWN"}]

Message == [text : String, datasets : Note \cup {Absent}]

RefusalBlock ==
  [code : String \cup {Absent}, message : Message \cup {Absent},
   invariant_id : String \cup {Absent}, failure_code : String \cup {Absent},
   owner : String \cup {Absent}, retry_scope : String \cup {Absent}]

(* What the gate may be given: any output of eight fields, of which it      *)
(* looks into the evidence and the refusal.                                 *)
IsOutput(out) ==
  /\ out = [ok |-> out.ok, mode |-> out.mode, mode_reason |-> out.mode_reason,
            trace_id |-> out.trace_id, policy |-> out.policy, evidence |-> out.evidence,
            response |-> out.response, refusal |-> out.refusal]
  /\ out.evidence \in Seq(EvidenceItem) \cup {Absent}
  /\ out.refusal \in RefusalBlock \cup {Absent}

NoTraceId == <<"NO_TRACE_ID">>

(* The manifest and the registries hold texts, and a missing field is none  *)
(* of the things a field can hold.                                          *)
ASSUME GateAssumption ==
  /\ {DatasetVersions.dual_use, DatasetVersions.reconstruction, ManifestId} \subseteq STRING
  /\ DOMAIN FailureCodes \subseteq STRING
  /\ \A id \in DOMAIN Invariants : Invariants[id].owner \in STRING
  /\ Absent \notin String \cup Note \cup PolicyBlock \cup Message \cup RefusalBlock \cup {NoTraceId}

(* Mutant of BindRefusal: the retry scope is not taken from the registry.   *)
BindRefusalRetryable(code) ==
  [BindInvariant("INV-032") EXCEPT !.retry_scope = "scoped_retry"]

(* The invariant each refusal code stands for, any other code INV-032.      *)
BindRefusal(code) ==
  BindInvariant(
    IF code = "REFUSE-OUTPUT-NOT-ADMISSIBLE" THEN "INV-030"
    ELSE IF code = "REFUSE-CAPABILITY-LEAK" THEN "INV-031"
    ELSE IF code = "REFUSE-LG-FAILURE-CODE-UNREGISTERED" THEN "INV-002"
    ELSE IF code \in {"REFUSE-LG-RETRY-SCOPE-MISMATCH", "REFUSE-LUMENS-DLA-INTEGRITY",
                      "REFUSE-LUMENS-PT-BINDING", "REFUSE-LUMENS-PT-EXPIRED"} THEN "INV-001"
    ELSE "INV-032")
-----------------------------------------------------------------------------
(* A dataset note, as the gate's regular expressions read it: the text      *)
(* between "dual-use=" (or "reconstruction=") and the next space or         *)
(* parenthesis. In the note the runtime writes, a semicolon follows the     *)
(* first version, and the second one too when the mode reason comes after.  *)
Plain(version) == <<version>>

WithSemicolon(version) == <<version, ";">>

DatasetVersionNote(followed) ==
  [dual_use       |-> WithSemicolon(DatasetVersions.dual_use),
   reconstruction |-> IF followed THEN WithSemicolon(DatasetVersions.reconstruction)
                      ELSE Plain(DatasetVersions.reconstruction)]

(* The versions as the runtime records them, also the gate's own note.      *)
RecordedVersions == [dual_use       |-> Plain(DatasetVersions.dual_use),
                     reconstruction |-> Plain(DatasetVersions.reconstruction)]

Unknown == [dual_use |-> <<"UNKNOWN">>, reconstruction |-> <<"UNKNOWN">>]

(* The note of the "Dataset versions" evidence item, else of the message.   *)
ExtractDatasetNote(out) ==
  IF out.evidence # Absent /\ \E n \in DOMAIN out.evidence : out.evidence[n].datasets # Absent
  THEN out.evidence[CHOOSE n \in DOMAIN out.evidence :
                      /\ out.evidence[n].datasets # Absent
                      /\ \A m \in DOMAIN out.evidence :
                           out.evidence[m].datasets # Absent => n <= m].datasets
  ELSE IF out.refusal # Absent /\ out.refusal.message # Absent
       THEN out.refusal.message.datasets
       ELSE Absent

ParseDatasetVersions(note) == IF note = Absent THEN Unknown ELSE note

EnsureDatasetNote(message, out) ==
  [text     |-> message.text,
   datasets |-> IF message.datasets # Absent THEN message.datasets
                ELSE IF ExtractDatasetNote(out) # Absent THEN ExtractDatasetNote(out)
                ELSE RecordedVersions]

EvidenceStatusFrom(evidence) ==
  IF evidence = Absent \/ evidence = <<>> \/ \E n \in DOMAIN evidence : evidence[n].status = "UNKNOWN"
  THEN "UNKNOWN" ELSE "KNOWN"

SafeMode(out) == IF out.mode \in Mode THEN out.mode ELSE "GOVERNANCE"

SafeModeReason(out) ==
  LET reason == IF out.mode_reason # Absent \/ out.policy = Absent THEN out.mode_reason
                ELSE out.policy.mode_reason
  IN  IF reason \in ModeReasonCode THEN reason ELSE "DEFAULT_SAFE"

SafeTraceId(out) == IF out.trace_id # Absent THEN out.trace_id ELSE NoTraceId

MakeGatePolicy(out, decisionCode) ==
  [decision |-> "REFUSE", decision_code |-> decisionCode,
   governance_manifest_id |-> ManifestId, mode_reason |-> SafeModeReason(out),
   dataset_versions |-> ParseDatasetVersions(ExtractDatasetNote(out)),
   trigger_hits |-> <<>>, evidence_status |-> EvidenceStatusFrom(out.evidence)]

RefusalOf(code, message, binding) ==
  [code |-> code, message |-> message, invariant_id |-> binding.invariant_id,
   failure_code |-> binding.failure_code, owner |-> binding.owner,
   retry_scope |-> binding.retry_scope]

(* What the gate emits instead of an output it does not let through, for    *)
(* the four codes it refuses with.                                          *)
Refusal(out, code, message) ==
  [ok |-> FALSE, mode |-> SafeMode(out), mode_reason |-> SafeModeReason(out),
   trace_id |-> SafeTraceId(out),
   policy |->
     MakeGatePolicy(out,
       IF code = "REFUSE-CAPABILITY-LEAK" THEN "REFUSE_CAPABILITY_LEAK"
       ELSE IF code = "REFUSE-OUTPUT-NOT-ADMISSIBLE" THEN "REFUSE_SCHEMA_INVALID"
       ELSE IF code = "REFUSE-LG-FAILURE-CODE-UNREGISTERED" THEN "REFUSE_LG_FAILURE_CODE_UNREGISTERED"
       ELSE "REFUSE_LG_RETRY_SCOPE_MISMATCH"),
   evidence |-> Absent, response |-> Absent,
   refusal |-> RefusalOf(code, EnsureDatasetNote(message, out), BindRefusal(code))]

Noted(text, datasets) == [text |-> text, datasets |-> datasets]
-----------------------------------------------------------------------------
(* output.schema.json. Fields the schema forbids for the other kind of      *)
(* output make it invalid, as every unknown one would.                      *)
PolicyValid(policy, decision) ==
  /\ policy # Absent
  /\ policy.decision = decision /\ policy.decision_code # Absent
  /\ policy.governance_manifest_id # Absent /\ policy.mode_reason \in ModeReasonCode
  /\ policy.evidence_status \in {"KNOWN", "UNKNOWN"}

Common(out) ==
  /\ out.mode \in Mode /\ out.mode_reason \in ModeReasonCode
  /\ out.trace_id # Absent /\ out.trace_id[1] # "short"

AllowValid(out) ==
  /\ out.ok = TRUE /\ Common(out) /\ PolicyValid(out.policy, "ALLOW")
  /\ out.evidence \notin {Absent, <<>>} /\ out.response # Absent /\ out.refusal = Absent

RefusalValid(out) ==
  /\ out.ok = FALSE /\ Common(out) /\ PolicyValid(out.policy, "REFUSE")
  /\ out.evidence = Absent /\ out.response = Absent /\ out.refusal # Absent
  /\ Absent \notin {out.refusal.code, out.refusal.message, out.refusal.invariant_id,
                    out.refusal.failure_code, out.refusal.owner}
  /\ out.refusal.retry_scope \in RetryScope

Validate(out) == AllowValid(out) \/ RefusalValid(out)
-----------------------------------------------------------------------------
(* Mutant of DetectCapabilityLeak: the stripped text is not scanned.        *)
DetectLoosePhrases(response) == response.loose # {}

(* A banned phrase in the text, or in the text stripped of all separators.  *)
DetectCapabilityLeak(response) == response.loose \cup response.tight # {}

(* Binds a refusal that lacks a binding field, and notes the datasets.      *)
NormalizeRefusalIfNeeded(out) ==
  IF out.ok = FALSE /\ out.refusal # Absent /\ out.refusal.code # Absent
     /\ out.refusal.message # Absent
  THEN LET r == out.refusal
       IN  [out EXCEPT !.refusal =
              RefusalOf(r.code, EnsureDatasetNote(r.message, out),
                IF Absent \in {r.invariant_id, r.failure_code, r.owner, r.retry_scope}
                THEN BindRefusal(r.code) ELSE r)]
  ELSE out

(* Why the legitimacy gate objects to a valid refusal, or Absent.           *)
EnforceLegitimacyGateRefusal(out) ==
  IF out.refusal.failure_code \notin DOMAIN FailureCodes
  THEN "REFUSE-LG-FAILURE-CODE-UNREGISTERED"
  ELSE IF out.refusal.retry_scope
          # DecideFromFailureCode(out.refusal.failure_code).retry_scope
  THEN "REFUSE-LG-RETRY-SCOPE-MISMATCH"
  ELSE Absent

(* Mutant of AssertAdmissible: the schema is checked before normalizing.    *)
AssertBeforeNormalizing(out) ==
  IF ~Validate(out)
  THEN Refusal(out, "REFUSE-OUTPUT-NOT-ADMISSIBLE", Noted("invalid", Absent))
  ELSE out

AssertAdmissible(out) ==
  LET n == NormalizeRefusalIfNeeded(out)
  IN  IF ~Validate(n)
      THEN Refusal(n, "REFUSE-OUTPUT-NOT-ADMISSIBLE", Noted("invalid", Absent))
      ELSE IF n.ok = FALSE /\ EnforceLegitimacyGateRefusal(n) # Absent
      THEN Refusal(n, EnforceLegitimacyGateRefusal(n), Noted("unclassified", Absent))
      ELSE IF n.ok = TRUE /\ DetectCapabilityLeak(n.response)
      THEN Refusal(n, "REFUSE-CAPABILITY-LEAK", Noted("leak", ExtractDatasetNote(n)))
      ELSE n
=============================================================================
