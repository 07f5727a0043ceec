------------------------ MODULE GovernedPipelineProofs ------------------------
(***************************************************************************)
(* Proofs about the gate and the pipeline, for any registries that obey    *)
(* the binding law, any texts, overrides, given outputs and clock.         *)
(***************************************************************************)
EXTENDS GovernedPipeline, WellFoundedInduction, TLAPS
-----------------------------------------------------------------------------
(* The versions in a note are texts.                                        *)
LEMMA NotesTyped ==
  /\ RecordedVersions \in Note
  /\ Unknown \in Note
  /\ \A followed \in BOOLEAN : DatasetVersionNote(followed) \in Note
<1>1. /\ DatasetVersions.dual_use \in String /\ DatasetVersions.reconstruction \in String
      /\ "UNKNOWN" \in String /\ ";" \in String
  BY GateAssumption DEF String
<1>2. \A v, w \in String : <<v>> \in Seq(String) /\ <<v, w>> \in Seq(String)
  OBVIOUS
<1>3. /\ WithSemicolon(DatasetVersions.dual_use) \in Seq(String)
      /\ WithSemicolon(DatasetVersions.reconstruction) \in Seq(String)
      /\ Plain(DatasetVersions.dual_use) \in Seq(String)
      /\ Plain(DatasetVersions.reconstruction) \in Seq(String)
      /\ <<"UNKNOWN">> \in Seq(String)
  BY <1>1, <1>2, Zenon DEF WithSemicolon, Plain
<1>4. ASSUME NEW followed \in BOOLEAN PROVE DatasetVersionNote(followed) \in Note
  BY <1>3 DEF DatasetVersionNote, Note
<1>5. RecordedVersions \in Note /\ Unknown \in Note
  BY <1>3 DEF RecordedVersions, Unknown, Note
<1>6. QED BY <1>4, <1>5

(* A set of numbers has a least one.                                        *)
LEMMA LeastElement ==
  ASSUME NEW T \in SUBSET Nat, T # {}
  PROVE  \E x \in T : \A y \in T : ~(y < x)
<1> DEFINE R == OpToRel(<, Nat)
<1>1. \A x, y \in Nat : y < x => <<y, x>> \in R BY DEF OpToRel
<1>2. IsWellFoundedOn(R, Nat) BY NatLessThanWellFounded
<1> HIDE DEF R
<1>3. \E x \in T : \A y \in T : ~(<<y, x>> \in R) BY <1>2, WFMin
<1>4. QED BY <1>1, <1>3

(* extractDatasetNote: the note found in an output is one.                  *)
LEMMA ExtractTyped ==
  ASSUME NEW o, IsOutput(o)
  PROVE  ExtractDatasetNote(o) \in Note \cup {Absent}
<1> DEFINE Has(n) == o.evidence[n].datasets # Absent
<1>1. CASE o.evidence # Absent /\ \E n \in DOMAIN o.evidence : Has(n)
  <2>1. o.evidence \in Seq(EvidenceItem) BY <1>1 DEF IsOutput
  <2>2. DOMAIN o.evidence \subseteq Nat BY <2>1
  <2> DEFINE T == {n \in DOMAIN o.evidence : Has(n)}
             First(n) == Has(n) /\ \A m \in DOMAIN o.evidence : Has(m) => n <= m
  <2>3. \E n \in DOMAIN o.evidence : First(n)
    <3>1. T \subseteq Nat /\ T # {} BY <1>1, <2>2
    <3>2. PICK n \in T : \A m \in T : ~(m < n)
      <4> HIDE DEF T
      <4>1. QED BY <3>1, LeastElement
    <3>3. n \in DOMAIN o.evidence /\ Has(n) OBVIOUS
    <3>4. ASSUME NEW m \in DOMAIN o.evidence, Has(m) PROVE n <= m
      <4>1. m \in T /\ m \in Nat /\ n \in Nat BY <2>2, <3>3, <3>4
      <4>2. QED BY <3>2, <4>1
    <3>5. QED BY <3>3, <3>4
  <2>4. (CHOOSE n \in DOMAIN o.evidence : First(n)) \in DOMAIN o.evidence BY <2>3
  <2>5. \A n \in DOMAIN o.evidence : o.evidence[n].datasets \in Note \cup {Absent}
    <3>1. \A n \in DOMAIN o.evidence : o.evidence[n] \in EvidenceItem BY <2>1
    <3>2. QED BY <3>1 DEF EvidenceItem
  <2>6. ExtractDatasetNote(o) = o.evidence[CHOOSE n \in DOMAIN o.evidence : First(n)].datasets
    BY <1>1 DEF ExtractDatasetNote
  <2>7. QED BY <2>4, <2>5, <2>6
<1>2. CASE ~(o.evidence # Absent /\ \E n \in DOMAIN o.evidence : Has(n))
  <2>1. CASE o.refusal # Absent /\ o.refusal.message # Absent
    <3>1. o.refusal.message \in Message BY <2>1 DEF IsOutput, RefusalBlock
    <3>2. QED BY <1>2, <2>1, <3>1 DEF ExtractDatasetNote, Message
  <2>2. CASE ~(o.refusal # Absent /\ o.refusal.message # Absent)
    BY <1>2, <2>2 DEF ExtractDatasetNote
  <2>3. QED BY <2>1, <2>2
<1>3. QED BY <1>1, <1>2

(* ensureDatasetNote: the message then has a note, and keeps one it had.    *)
LEMMA EnsureTyped ==
  ASSUME NEW o, IsOutput(o), NEW m \in Message
  PROVE  LET noted == EnsureDatasetNote(m, o)
         IN  /\ noted \in Message /\ noted # Absent
             /\ noted.datasets \in Note /\ noted.datasets # Absent
             /\ m.datasets # Absent => noted = m
<1> DEFINE noted == EnsureDatasetNote(m, o)
<1>1. /\ m.text \in String /\ m.datasets \in Note \cup {Absent}
      /\ m = [text |-> m.text, datasets |-> m.datasets]
  BY DEF Message
<1>2. /\ noted.datasets \in Note /\ noted.text = m.text
      /\ noted = [text |-> noted.text, datasets |-> noted.datasets]
  BY <1>1, ExtractTyped, NotesTyped DEF EnsureDatasetNote
<1>3. noted \in Message BY <1>1, <1>2 DEF Message
<1>4. m.datasets # Absent => noted.datasets = m.datasets BY DEF EnsureDatasetNote
<1>5. QED BY <1>1, <1>2, <1>3, <1>4, GateAssumption

(* A refusal bound to a registered invariant and its failure code.          *)
Bound(r) ==
  /\ r.invariant_id \in DOMAIN Invariants
  /\ r.failure_code = Invariants[r.invariant_id].failure_code
  /\ r.owner = Invariants[r.invariant_id].owner
  /\ r.failure_code \in DOMAIN FailureCodes
  /\ r.retry_scope = FailureCodes[r.failure_code].retry_scope

(* The binding fields of a refusal are all present.                         *)
Complete(r) ==
  /\ r.invariant_id \in String /\ r.failure_code \in String /\ r.owner \in String
  /\ r.retry_scope \in RetryScope
  /\ Absent \notin {r.invariant_id, r.failure_code, r.owner, r.retry_scope}

(* bindInvariant: the registry's law makes every binding complete.          *)
LEMMA BindingTyped ==
  ASSUME NEW id \in BoundInvariant
  PROVE  Bound(BindInvariant(id)) /\ Complete(BindInvariant(id))
<1> DEFINE b == BindInvariant(id)
<1>1. id \in DOMAIN Invariants /\ id \in String BY RegistryAssumption DEF String
<1>2. Invariants[id].failure_code \in DOMAIN FailureCodes
  BY <1>1, RegistryAssumption DEF LoadInvariantRegistry
<1>3. Invariants[id].failure_code \in String BY <1>2, GateAssumption DEF String
<1>4. Invariants[id].owner \in String BY <1>1, GateAssumption DEF String
<1>5. FailureCodes[Invariants[id].failure_code].retry_scope \in RetryScope
  BY <1>2, RegistryAssumption
<1>6. RetryScope \subseteq String BY DEF String
<1>7. QED BY <1>1, <1>2, <1>3, <1>4, <1>5, <1>6, GateAssumption DEF BindInvariant, Bound, Complete

(* bindRefusal: any code is bound, to one of the five invariants.           *)
LEMMA RefusalBound ==
  ASSUME NEW code
  PROVE  Bound(BindRefusal(code)) /\ Complete(BindRefusal(code))
<1>1. \E id \in BoundInvariant : BindRefusal(code) = BindInvariant(id)
  BY DEF BindRefusal, BoundInvariant
<1>2. QED BY <1>1, BindingTyped
-----------------------------------------------------------------------------
(* A refusal that a second pass of the gate leaves as it is.                *)
Settled(o) ==
  /\ o.ok = FALSE
  /\ o.refusal = RefusalOf(o.refusal.code, o.refusal.message, o.refusal)
  /\ o.refusal.message \in Message /\ o.refusal.message.datasets # Absent

(* normalizeRefusalIfNeeded changes the refusal only; one that is then      *)
(* valid is settled.                                                        *)
LEMMA NormalShape ==
  ASSUME NEW o, IsOutput(o)
  PROVE  LET n == NormalizeRefusalIfNeeded(o)
         IN  /\ IsOutput(n)
             /\ n.ok = o.ok /\ n.trace_id = o.trace_id /\ n.mode_reason = o.mode_reason
             /\ o.ok # FALSE => n = o
             /\ RefusalValid(n) => Settled(n)
<1> DEFINE n == NormalizeRefusalIfNeeded(o)
           r == o.refusal
           Binds == /\ o.ok = FALSE /\ r # Absent /\ r.code # Absent /\ r.message # Absent
<1>1. CASE ~Binds
  <2>1. n = o BY <1>1 DEF NormalizeRefusalIfNeeded
  <2>2. ~RefusalValid(n) BY <1>1, <2>1 DEF RefusalValid
  <2>3. QED BY <2>1, <2>2
<1>2. CASE Binds
  <2> DEFINE message == EnsureDatasetNote(r.message, o)
             binding == IF Absent \in {r.invariant_id, r.failure_code, r.owner, r.retry_scope}
                        THEN BindRefusal(r.code) ELSE r
             bound   == RefusalOf(r.code, message, binding)
  <2>1. n = [o EXCEPT !.refusal = bound] BY <1>2 DEF NormalizeRefusalIfNeeded
  <2>2. r \in RefusalBlock BY <1>2 DEF IsOutput
  <2>3. r.message \in Message /\ r.code \in String BY <1>2, <2>2 DEF RefusalBlock
  <2>4. message \in Message /\ message.datasets # Absent BY <2>3, EnsureTyped
  <2>5. /\ binding.invariant_id \in String \cup {Absent}
        /\ binding.failure_code \in String \cup {Absent}
        /\ binding.owner \in String \cup {Absent}
        /\ binding.retry_scope \in String \cup {Absent}
    <3>1. CASE Absent \in {r.invariant_id, r.failure_code, r.owner, r.retry_scope}
      <4>1. binding = BindRefusal(r.code) BY <3>1
      <4>2. RetryScope \subseteq String BY DEF String
      <4>3. QED BY <4>1, <4>2, RefusalBound DEF Complete
    <3>2. CASE ~(Absent \in {r.invariant_id, r.failure_code, r.owner, r.retry_scope})
      BY <3>2, <2>2 DEF RefusalBlock
    <3>3. QED BY <3>1, <3>2
  <2> HIDE DEF message, binding
  <2>6. bound \in RefusalBlock BY <2>3, <2>4, <2>5 DEF RefusalOf, RefusalBlock
  <2>7. bound = RefusalOf(bound.code, bound.message, bound) /\ bound.message = message
    BY DEF RefusalOf
  <2> HIDE DEF bound
  <2>8. /\ n = [ok |-> o.ok, mode |-> o.mode, mode_reason |-> o.mode_reason,
                trace_id |-> o.trace_id, policy |-> o.policy, evidence |-> o.evidence,
                response |-> o.response, refusal |-> bound]
        /\ o.evidence \in Seq(EvidenceItem) \cup {Absent}
    BY <2>1 DEF IsOutput
  <2> HIDE DEF n
  <2>9. /\ n.ok = o.ok /\ n.mode = o.mode /\ n.mode_reason = o.mode_reason
        /\ n.trace_id = o.trace_id /\ n.policy = o.policy /\ n.evidence = o.evidence
        /\ n.response = o.response /\ n.refusal = bound
    BY <2>8
  <2>10. IsOutput(n) BY <2>6, <2>8, <2>9 DEF IsOutput
  <2>11. Settled(n) BY <1>2, <2>4, <2>7, <2>9 DEF Settled
  <2>12. QED BY <1>2, <2>9, <2>10, <2>11 DEF n
<1>3. QED BY <1>1, <1>2

(* A second pass leaves a settled refusal with all its fields alone.        *)
LEMMA SettledNormal ==
  ASSUME NEW o, IsOutput(o), Settled(o), RefusalValid(o)
  PROVE  NormalizeRefusalIfNeeded(o) = o
<1> DEFINE r == o.refusal
<1>1. Absent \notin {r.code, r.message, r.invariant_id, r.failure_code, r.owner, r.retry_scope}
  <2>1. Absent \notin RetryScope BY RegistryAssumption
  <2>2. QED BY <2>1 DEF RefusalValid
<1>2. EnsureDatasetNote(r.message, o) = r.message BY EnsureTyped DEF Settled
<1>3. NormalizeRefusalIfNeeded(o) = [o EXCEPT !.refusal = r]
  BY <1>1, <1>2 DEF NormalizeRefusalIfNeeded, Settled, RefusalValid
<1>4. [o EXCEPT !.refusal = r] = o BY DEF IsOutput
<1>5. QED BY <1>3, <1>4
-----------------------------------------------------------------------------
(* A trace id that is long enough for the schema, or none.                  *)
LongTrace(o) == o.trace_id # Absent => o.trace_id[1] # "short"

(* What the gate emits in place of an output is itself admissible.          *)
LEMMA GateRefusal ==
  ASSUME NEW o, IsOutput(o), NEW code \in RefusalCode, NEW m \in Message
  PROVE  LET x == Refusal(o, code, m)
         IN  /\ IsOutput(x) /\ Settled(x)
             /\ Bound(x.refusal)
             /\ LongTrace(o) => RefusalValid(x)
<1> DEFINE x       == Refusal(o, code, m)
           dc      == IF code = "REFUSE-CAPABILITY-LEAK" THEN "REFUSE_CAPABILITY_LEAK"
                      ELSE IF code = "REFUSE-OUTPUT-NOT-ADMISSIBLE" THEN "REFUSE_SCHEMA_INVALID"
                      ELSE IF code = "REFUSE-LG-FAILURE-CODE-UNREGISTERED"
                           THEN "REFUSE_LG_FAILURE_CODE_UNREGISTERED"
                      ELSE "REFUSE_LG_RETRY_SCOPE_MISMATCH"
           policy  == MakeGatePolicy(o, dc)
           message == EnsureDatasetNote(m, o)
           binding == BindRefusal(code)
           r       == RefusalOf(code, message, binding)
<1>1. dc \in DecisionCode /\ dc \in String BY DEF DecisionCode, String
<1>2. SafeMode(o) \in Mode BY DEF SafeMode, Mode
<1>3. SafeModeReason(o) \in ModeReasonCode BY DEF SafeModeReason, ModeReasonCode
<1>4. SafeTraceId(o) # Absent /\ (LongTrace(o) => SafeTraceId(o)[1] # "short")
  <2>1. NoTraceId # Absent BY GateAssumption
  <2>2. NoTraceId[1] = "NO_TRACE_ID" BY DEF NoTraceId
  <2>3. QED BY <2>1, <2>2 DEF SafeTraceId, LongTrace
<1>5. ParseDatasetVersions(ExtractDatasetNote(o)) \in Note
  BY ExtractTyped, NotesTyped DEF ParseDatasetVersions
<1>6. EvidenceStatusFrom(o.evidence) \in {"KNOWN", "UNKNOWN"} BY DEF EvidenceStatusFrom
<1>7. message \in Message /\ message # Absent /\ message.datasets # Absent BY EnsureTyped
<1>8. Bound(binding) /\ Complete(binding) BY RefusalBound
<1>9. code \in String /\ RetryScope \subseteq String BY DEF String
<1> HIDE DEF dc, message, binding
<1>10. policy = [decision |-> "REFUSE", decision_code |-> dc,
                 governance_manifest_id |-> ManifestId, mode_reason |-> SafeModeReason(o),
                 dataset_versions |-> ParseDatasetVersions(ExtractDatasetNote(o)),
                 trigger_hits |-> <<>>, evidence_status |-> EvidenceStatusFrom(o.evidence)]
  BY DEF MakeGatePolicy
<1>11. policy \in PolicyBlock
  <2>1. <<>> \in Seq(String) OBVIOUS
  <2>2. QED BY <1>1, <1>3, <1>5, <1>6, <1>10, <2>1 DEF PolicyBlock
<1>12. PolicyValid(policy, "REFUSE")
  <2>1. ManifestId # Absent /\ dc # Absent
    <3>1. ManifestId \in String BY GateAssumption DEF String
    <3>2. QED BY <1>1, <3>1, GateAssumption
  <2>2. policy # Absent BY <1>11, GateAssumption
  <2> HIDE DEF policy
  <2>3. QED BY <1>3, <1>6, <1>10, <2>1, <2>2 DEF PolicyValid
<1>13. /\ r = RefusalOf(r.code, r.message, r) /\ r.code = code /\ r.message = message
       /\ r.invariant_id = binding.invariant_id /\ r.failure_code = binding.failure_code
       /\ r.owner = binding.owner /\ r.retry_scope = binding.retry_scope
  BY DEF RefusalOf
<1>14. r \in RefusalBlock
  BY <1>7, <1>8, <1>9 DEF RefusalOf, RefusalBlock, Complete
<1>15. r # Absent /\ code # Absent BY <1>9, <1>14, GateAssumption
<1> HIDE DEF policy, r
<1>16. x = [ok |-> FALSE, mode |-> SafeMode(o), mode_reason |-> SafeModeReason(o),
            trace_id |-> SafeTraceId(o), policy |-> policy, evidence |-> Absent,
            response |-> Absent, refusal |-> r]
  BY DEF Refusal, policy, r, dc, message, binding
<1> HIDE DEF x
<1>17. /\ x.ok = FALSE /\ x.mode = SafeMode(o) /\ x.mode_reason = SafeModeReason(o)
       /\ x.trace_id = SafeTraceId(o) /\ x.policy = policy /\ x.evidence = Absent
       /\ x.response = Absent /\ x.refusal = r
  BY <1>16
<1>18. IsOutput(x) BY <1>14, <1>16, <1>17 DEF IsOutput
<1>19. Settled(x) BY <1>7, <1>13, <1>17 DEF Settled
<1>20. Bound(x.refusal) BY <1>8, <1>13, <1>17 DEF Bound
<1>21. ASSUME LongTrace(o) PROVE RefusalValid(x)
  BY <1>2, <1>3, <1>4, <1>7, <1>8, <1>12, <1>13, <1>15, <1>17, <1>21
     DEF RefusalValid, Common, Complete
<1>22. QED BY <1>18, <1>19, <1>20, <1>21 DEF x
-----------------------------------------------------------------------------
(* assertAdmissible lets a normalized output through, or puts a refusal of  *)
(* its own in its place.                                                    *)
LEMMA GateOutcome ==
  ASSUME NEW o, IsOutput(o)
  PROVE  LET n == NormalizeRefusalIfNeeded(o)
             x == AssertAdmissible(o)
         IN  \/ /\ x = n /\ Validate(n)
                /\ n.ok = FALSE => EnforceLegitimacyGateRefusal(n) = Absent
                /\ n.ok = TRUE => ~DetectCapabilityLeak(n.response)
             \/ \E code \in RefusalCode, m \in Message : x = Refusal(n, code, m)
<1> DEFINE n == NormalizeRefusalIfNeeded(o)
           x == AssertAdmissible(o)
<1>1. IsOutput(n) BY NormalShape
<1>2. ASSUME NEW wording \in {"invalid", "unclassified", "leak"}, NEW note \in Note \cup {Absent}
      PROVE  Noted(wording, note) \in Message
  BY DEF Noted, Message, String
<1>3. /\ Noted("invalid", Absent) \in Message /\ Noted("unclassified", Absent) \in Message
      /\ \A note \in Note \cup {Absent} : Noted("leak", note) \in Message
  BY <1>2
<1> HIDE DEF n, x
<1>4. CASE ~Validate(n)
  <2>1. x = Refusal(n, "REFUSE-OUTPUT-NOT-ADMISSIBLE", Noted("invalid", Absent))
    BY <1>4 DEF AssertAdmissible, n, x
  <2>2. "REFUSE-OUTPUT-NOT-ADMISSIBLE" \in RefusalCode BY DEF RefusalCode
  <2>3. QED BY <1>3, <2>1, <2>2 DEF n, x
<1>5. CASE Validate(n) /\ n.ok = FALSE /\ EnforceLegitimacyGateRefusal(n) # Absent
  <2>1. x = Refusal(n, EnforceLegitimacyGateRefusal(n), Noted("unclassified", Absent))
    BY <1>5 DEF AssertAdmissible, n, x
  <2>2. EnforceLegitimacyGateRefusal(n) \in RefusalCode
    BY <1>5 DEF EnforceLegitimacyGateRefusal, RefusalCode
  <2>3. QED BY <1>3, <2>1, <2>2 DEF n, x
<1>6. CASE /\ Validate(n) /\ ~(n.ok = FALSE /\ EnforceLegitimacyGateRefusal(n) # Absent)
           /\ n.ok = TRUE /\ DetectCapabilityLeak(n.response)
  <2>1. x = Refusal(n, "REFUSE-CAPABILITY-LEAK", Noted("leak", ExtractDatasetNote(n)))
    BY <1>6 DEF AssertAdmissible, n, x
  <2>2. "REFUSE-CAPABILITY-LEAK" \in RefusalCode BY DEF RefusalCode
  <2>3. ExtractDatasetNote(n) \in Note \cup {Absent} BY <1>1, ExtractTyped
  <2>4. QED BY <1>3, <2>1, <2>2, <2>3 DEF n, x
<1>7. CASE /\ Validate(n) /\ ~(n.ok = FALSE /\ EnforceLegitimacyGateRefusal(n) # Absent)
           /\ ~(n.ok = TRUE /\ DetectCapabilityLeak(n.response))
  <2>1. x = n BY <1>7 DEF AssertAdmissible, n, x
  <2>2. QED BY <1>7, <2>1 DEF n, x
<1>8. QED BY <1>4, <1>5, <1>6, <1>7

(* What the gate lets out is an output, and if it allows the very output    *)
(* the gate was given, with no banned phrase in its response.               *)
LEMMA GateTyped ==
  ASSUME NEW o, IsOutput(o)
  PROVE  LET x == AssertAdmissible(o)
         IN  /\ IsOutput(x)
             /\ x.ok = TRUE => x = o /\ AllowValid(o) /\ ~DetectCapabilityLeak(o.response)
<1> DEFINE n == NormalizeRefusalIfNeeded(o)
           x == AssertAdmissible(o)
<1>1. IsOutput(n) /\ n.ok = o.ok /\ (o.ok # FALSE => n = o) BY NormalShape
<1>2. CASE /\ x = n /\ Validate(n)
           /\ n.ok = FALSE => EnforceLegitimacyGateRefusal(n) = Absent
           /\ n.ok = TRUE => ~DetectCapabilityLeak(n.response)
  <2> HIDE DEF n, x
  <2>1. x.ok = TRUE => x = o /\ AllowValid(o) /\ ~DetectCapabilityLeak(o.response)
    BY <1>1, <1>2 DEF Validate, RefusalValid
  <2>2. QED BY <1>1, <1>2, <2>1 DEF x
<1>3. CASE \E code \in RefusalCode, m \in Message : x = Refusal(n, code, m)
  <2>1. PICK code \in RefusalCode, m \in Message : x = Refusal(n, code, m) BY <1>3
  <2> HIDE DEF n, x
  <2>2. IsOutput(x) /\ Settled(x) BY <1>1, <2>1, GateRefusal
  <2>3. x.ok # TRUE BY <2>2 DEF Settled
  <2>4. QED BY <2>2, <2>3 DEF x
<1>4. QED BY <1>2, <1>3, GateOutcome

(* A refusal that comes out of the gate is settled and passes the gate's    *)
(* own check of the failure code, if it is valid.                           *)
LEMMA GateRefuses ==
  ASSUME NEW o, IsOutput(o)
  PROVE  LET x == AssertAdmissible(o)
         IN  /\ LongTrace(o) => Validate(x)
             /\ RefusalValid(x) => /\ Settled(x)
                                   /\ EnforceLegitimacyGateRefusal(x) = Absent
                                   /\ x.refusal.failure_code \in DOMAIN FailureCodes
                                   /\ x.refusal.retry_scope
                                        = FailureCodes[x.refusal.failure_code].retry_scope
<1> DEFINE n == NormalizeRefusalIfNeeded(o)
           x == AssertAdmissible(o)
<1>1. IsOutput(n) /\ n.ok = o.ok /\ n.trace_id = o.trace_id /\ (RefusalValid(n) => Settled(n))
  BY NormalShape
<1> DEFINE Registered(y) == /\ y.refusal.failure_code \in DOMAIN FailureCodes
                            /\ y.refusal.retry_scope
                                 = FailureCodes[y.refusal.failure_code].retry_scope
<1>2. ASSUME NEW y PROVE EnforceLegitimacyGateRefusal(y) = Absent <=> Registered(y)
  <2>1. /\ "REFUSE-LG-FAILURE-CODE-UNREGISTERED" # Absent
        /\ "REFUSE-LG-RETRY-SCOPE-MISMATCH" # Absent
    <3>1. /\ "REFUSE-LG-FAILURE-CODE-UNREGISTERED" \in String
          /\ "REFUSE-LG-RETRY-SCOPE-MISMATCH" \in String
      BY DEF String, RefusalCode
    <3>2. QED BY <3>1, GateAssumption
  <2>2. QED BY <2>1 DEF EnforceLegitimacyGateRefusal, DecideFromFailureCode
<1>3. CASE /\ x = n /\ Validate(n)
           /\ n.ok = FALSE => EnforceLegitimacyGateRefusal(n) = Absent
  <2> HIDE DEF n, x
  <2>1. ASSUME RefusalValid(x)
        PROVE  Settled(x) /\ EnforceLegitimacyGateRefusal(x) = Absent /\ Registered(x)
    <3>1. n.ok = FALSE /\ RefusalValid(n) BY <1>3, <2>1 DEF RefusalValid
    <3>2. Settled(x) /\ EnforceLegitimacyGateRefusal(x) = Absent BY <1>1, <1>3, <3>1
    <3>3. QED BY <1>2, <3>2
  <2>2. QED BY <1>3, <2>1 DEF x
<1>4. CASE \E code \in RefusalCode, m \in Message : x = Refusal(n, code, m)
  <2>1. PICK code \in RefusalCode, m \in Message : x = Refusal(n, code, m) BY <1>4
  <2> HIDE DEF n, x
  <2>2. Settled(x) /\ Bound(x.refusal) /\ (LongTrace(n) => RefusalValid(x))
    BY <1>1, <2>1, GateRefusal
  <2>3. LongTrace(o) => LongTrace(n) BY <1>1 DEF LongTrace
  <2>4. Registered(x) BY <2>2 DEF Bound
  <2>5. EnforceLegitimacyGateRefusal(x) = Absent BY <1>2, <2>4
  <2>6. QED BY <2>2, <2>3, <2>4, <2>5 DEF x, Validate
<1>5. QED BY <1>3, <1>4, GateOutcome

(* What the gate let out passes it unchanged, if it is valid.               *)
LEMMA GateIdempotent ==
  ASSUME NEW o, IsOutput(o), Validate(AssertAdmissible(o))
  PROVE  AssertAdmissible(AssertAdmissible(o)) = AssertAdmissible(o)
<1> DEFINE x == AssertAdmissible(o)
<1>1. IsOutput(x) BY GateTyped
<1>2. CASE x.ok = TRUE
  <2>1. AllowValid(x) /\ ~DetectCapabilityLeak(x.response) BY <1>2, GateTyped
  <2> HIDE DEF x
  <2>2. x.ok # FALSE /\ NormalizeRefusalIfNeeded(x) = x BY <1>1, <1>2, NormalShape
  <2>3. AssertAdmissible(x) = x BY <1>2, <2>1, <2>2 DEF AssertAdmissible, Validate
  <2>4. QED BY <2>3 DEF x
<1>3. CASE x.ok # TRUE
  <2>1. RefusalValid(x) BY <1>3 DEF Validate, AllowValid
  <2>2. Settled(x) /\ EnforceLegitimacyGateRefusal(x) = Absent BY <2>1, GateRefuses
  <2> HIDE DEF x
  <2>3. NormalizeRefusalIfNeeded(x) = x BY <1>1, <2>1, <2>2, SettledNormal
  <2>4. AssertAdmissible(x) = x BY <1>3, <2>1, <2>2, <2>3 DEF AssertAdmissible, Validate
  <2>5. QED BY <2>4 DEF x
<1>4. QED BY <1>2, <1>3
-----------------------------------------------------------------------------
(* Classification and the codes it leads to are registered.                 *)
LEMMA ClassifyTyped ==
  ASSUME NEW t
  PROVE  /\ Classify(t).mode \in Mode /\ Classify(t).mode_reason \in ModeReasonCode
         /\ Classify(t).trigger_hits = ScanThreats(t).trigger_hits
         /\ ScanThreats(t).trigger_hits \in Seq(String)
<1>1. \A threat : /\ DecideModeOrdered(threat).mode \in Mode
                  /\ DecideModeOrdered(threat).mode_reason \in ModeReasonCode
  BY DEF DecideModeOrdered, Selected, Mode, ModeReasonCode
<1>2. "RECONSTRUCTION_RISK" \in String /\ "DUAL_USE" \in String BY DEF String, ModeReasonCode
<1>3. \A v \in String : <<v>> \in Seq(String) OBVIOUS
<1>4. <<"RECONSTRUCTION_RISK">> \in Seq(String) /\ <<"DUAL_USE">> \in Seq(String)
  BY <1>2, <1>3, Zenon
<1>5. \A x, y \in Seq(String) : x \o y \in Seq(String) OBVIOUS
<1>6. <<>> \in Seq(String) OBVIOUS
<1>7. ScanThreats(t).trigger_hits \in Seq(String)
  <2> DEFINE first(b) == IF b THEN <<"RECONSTRUCTION_RISK">> ELSE <<>>
             second(b) == IF b THEN <<"DUAL_USE">> ELSE <<>>
  <2>1. \A b : first(b) \in Seq(String) /\ second(b) \in Seq(String) BY <1>4, <1>6
  <2>2. \E b, c : ScanThreats(t).trigger_hits = first(b) \o second(c) BY DEF ScanThreats
  <2> HIDE DEF first, second
  <2>3. QED BY <1>5, <2>1, <2>2
<1>8. QED BY <1>1, <1>7 DEF Classify

(* The same for the decision codes.                                         *)
LEMMA CodesTyped ==
  ASSUME NEW t
  PROVE  /\ \A mode : DecideAllowDecisionCode(mode) \in DecisionCode
         /\ DecideRiskRefusalDecisionCode(t) \in DecisionCode
         /\ BuildPolicySnapshotDecisionCode(t) # "TAMPERED"
         /\ AtRisk(t) => BuildPolicySnapshotDecisionCode(t) = DecideRiskRefusalDecisionCode(t)
         /\ ~AtRisk(t) =>
              BuildPolicySnapshotDecisionCode(t) = DecideAllowDecisionCode(Classify(t).mode)
  BY DEF DecideAllowDecisionCode, DecideRiskRefusalDecisionCode,
         BuildPolicySnapshotDecisionCode, DecisionCode

(* A text is at risk if it mentions reconstruction or weapons.              *)
LEMMA RiskMeans ==
  ASSUME NEW t
  PROVE  AtRisk(t) <=> t.mentions \cap {"reconstruct", "weapon"} # {}
<1>1. AtRisk(t) <=> "reconstruct" \in t.mentions \/ "weapon" \in t.mentions
  BY DEF AtRisk, ScanThreats
<1>2. QED BY <1>1

(* The policy block of a pipeline output.                                   *)
LEMMA PolicyTyped ==
  ASSUME NEW decision \in {"ALLOW", "REFUSE"}, NEW dc \in DecisionCode, NEW ctx,
         ctx.mode_reason \in ModeReasonCode, ctx.trigger_hits \in Seq(String), NEW evidence
  PROVE  LET policy == MakePolicy(decision, dc, ctx, evidence)
         IN  /\ PolicyValid(policy, decision)
             /\ policy.decision = decision /\ policy.decision_code = dc
             /\ policy.mode_reason = ctx.mode_reason
             /\ policy.dataset_versions = RecordedVersions
             /\ policy.trigger_hits = ctx.trigger_hits
<1> DEFINE policy == MakePolicy(decision, dc, ctx, evidence)
           status == EvidenceStatusFrom(evidence)
<1>1. status \in {"KNOWN", "UNKNOWN"} BY DEF EvidenceStatusFrom
<1> HIDE DEF status
<1>2. policy = [decision |-> decision, decision_code |-> dc,
                governance_manifest_id |-> ManifestId, mode_reason |-> ctx.mode_reason,
                dataset_versions |-> RecordedVersions, trigger_hits |-> ctx.trigger_hits,
                evidence_status |-> status]
  BY DEF MakePolicy, status
<1>3. policy \in PolicyBlock BY <1>1, <1>2, NotesTyped DEF PolicyBlock
<1>4. policy # Absent BY <1>3, GateAssumption
<1>5. dc # Absent /\ ManifestId # Absent
  <2>1. dc \in String /\ ManifestId \in String BY GateAssumption DEF String
  <2>2. QED BY <2>1, GateAssumption
<1> HIDE DEF policy
<1>6. /\ policy.decision = decision /\ policy.decision_code = dc
      /\ policy.governance_manifest_id = ManifestId /\ policy.mode_reason = ctx.mode_reason
      /\ policy.dataset_versions = RecordedVersions /\ policy.trigger_hits = ctx.trigger_hits
      /\ policy.evidence_status = status
  BY <1>2
<1>7. PolicyValid(policy, decision) BY <1>1, <1>4, <1>5, <1>6 DEF PolicyValid
<1>8. QED BY <1>6, <1>7 DEF policy

(* A refusal as the pipeline hands it to the gate.                          *)
PipelineRefusal(ctx, trace, dc, code, wording, followed, binding) ==
  RefusedWith(ctx, trace, dc,
    RefusalOf(code, Noted(wording, DatasetVersionNote(followed)), binding))

(* The gate lets a refusal out bound, and otherwise as it was decided.      *)
PassesAsDecided(g, ctx, dc, code) ==
  LET x == AssertAdmissible(g)
  IN  /\ IsOutput(g)
      /\ x.ok = FALSE /\ x.mode_reason = ctx.mode_reason
      /\ x.policy = MakePolicy("REFUSE", dc, ctx, Absent)
      /\ x.refusal.code = code /\ Bound(x.refusal)

(* A refusal of the pipeline, bound by Lumens or not at all, passes the     *)
(* gate.                                                                    *)
LEMMA RefusalPasses ==
  ASSUME NEW ctx, ctx.mode \in Mode, ctx.mode_reason \in ModeReasonCode,
         ctx.trigger_hits \in Seq(String),
         NEW trace, trace # Absent, trace[1] # "short",
         NEW dc \in DecisionCode, NEW code \in RefusalCode,
         NEW wording \in {"canonical", "lumens"}, NEW followed \in BOOLEAN,
         NEW binding \in {NoBinding, BindInvariant("INV-001")}
  PROVE  PassesAsDecided(PipelineRefusal(ctx, trace, dc, code, wording, followed, binding),
                         ctx, dc, code)
<1> DEFINE message == Noted(wording, DatasetVersionNote(followed))
           policy  == MakePolicy("REFUSE", dc, ctx, Absent)
           r       == RefusalOf(code, message, binding)
           g       == PipelineRefusal(ctx, trace, dc, code, wording, followed, binding)
           full    == IF binding = NoBinding THEN BindRefusal(code) ELSE binding
           bound   == RefusalOf(code, message, full)
           n       == [ok |-> FALSE, mode |-> ctx.mode, mode_reason |-> ctx.mode_reason,
                       trace_id |-> trace, policy |-> policy, evidence |-> Absent,
                       response |-> Absent, refusal |-> bound]
<1>1. message \in Message /\ message # Absent /\ message.datasets # Absent
  <2>1. DatasetVersionNote(followed) \in Note BY NotesTyped
  <2>2. wording \in String BY DEF String
  <2>3. message \in Message /\ message.datasets = DatasetVersionNote(followed)
    BY <2>1, <2>2 DEF Noted, Message
  <2>4. QED BY <2>1, <2>3, GateAssumption
<1>2. code \in String /\ code # Absent
  <2>1. code \in String BY DEF String
  <2>2. QED BY <2>1, GateAssumption
<1>3. Bound(full) /\ Complete(full)
  <2>1. "INV-001" \in BoundInvariant BY DEF BoundInvariant
  <2>2. QED BY <2>1, RefusalBound, BindingTyped
<1>4. PolicyValid(policy, "REFUSE") BY PolicyTyped
<1>5. \/ binding = NoBinding
      \/ binding = full /\ Absent \notin {binding.invariant_id, binding.failure_code,
                                          binding.owner, binding.retry_scope}
  BY <1>3 DEF Complete
<1> HIDE DEF message, policy, full
<1>6. /\ r.code = code /\ r.message = message
      /\ r.invariant_id = binding.invariant_id /\ r.failure_code = binding.failure_code
      /\ r.owner = binding.owner /\ r.retry_scope = binding.retry_scope
  BY DEF RefusalOf
<1>7. r \in RefusalBlock /\ r # Absent
  <2>1. /\ binding.invariant_id \in String \cup {Absent}
        /\ binding.failure_code \in String \cup {Absent}
        /\ binding.owner \in String \cup {Absent}
        /\ binding.retry_scope \in String \cup {Absent}
    <3>1. CASE binding = NoBinding BY <3>1 DEF NoBinding
    <3>2. CASE binding = full
      <4>1. RetryScope \subseteq String BY DEF String
      <4>2. QED BY <1>3, <3>2, <4>1 DEF Complete
    <3>3. QED BY <1>5, <3>1, <3>2
  <2>2. r \in RefusalBlock BY <1>1, <1>2, <2>1 DEF RefusalOf, RefusalBlock
  <2>3. QED BY <2>2, GateAssumption
<1>8. bound \in RefusalBlock /\ bound # Absent
  <2>1. RetryScope \subseteq String BY DEF String
  <2>2. bound \in RefusalBlock
    BY <1>1, <1>2, <1>3, <2>1 DEF RefusalOf, RefusalBlock, Complete
  <2>3. QED BY <2>2, GateAssumption
<1>9. /\ bound.code = code /\ bound.message = message
      /\ bound.invariant_id = full.invariant_id /\ bound.failure_code = full.failure_code
      /\ bound.owner = full.owner /\ bound.retry_scope = full.retry_scope
  BY DEF RefusalOf
<1>10. g = [ok |-> FALSE, mode |-> ctx.mode, mode_reason |-> ctx.mode_reason,
            trace_id |-> trace, policy |-> policy, evidence |-> Absent,
            response |-> Absent, refusal |-> r]
  BY DEF PipelineRefusal, RefusedWith, policy, r, message
<1>11. IsOutput(g)
  <2> HIDE DEF r
  <2>1. QED BY <1>7, <1>10 DEF IsOutput
<1>12. NormalizeRefusalIfNeeded(g) = n
  <2>1. bound = RefusalOf(r.code, EnsureDatasetNote(r.message, g),
                  IF Absent \in {r.invariant_id, r.failure_code, r.owner, r.retry_scope}
                  THEN BindRefusal(r.code) ELSE r)
    <3>1. EnsureDatasetNote(r.message, g) = message BY <1>1, <1>6, <1>11, EnsureTyped
    <3>2. CASE binding = NoBinding
      <4>1. r.invariant_id = Absent /\ full = BindRefusal(code)
        BY <1>6, <3>2 DEF NoBinding, full
      <4>2. QED BY <1>6, <3>1, <4>1
    <3>3. CASE /\ binding = full
               /\ Absent \notin {binding.invariant_id, binding.failure_code,
                                 binding.owner, binding.retry_scope}
      BY <1>6, <3>1, <3>3 DEF RefusalOf
    <3>4. QED BY <1>5, <3>2, <3>3
  <2> HIDE DEF r, bound
  <2>2. /\ g.ok = FALSE /\ g.refusal = r /\ r.code # Absent /\ r.message # Absent
    BY <1>1, <1>2, <1>6, <1>10
  <2>3. NormalizeRefusalIfNeeded(g) = [g EXCEPT !.refusal = bound]
    BY <1>7, <2>1, <2>2 DEF NormalizeRefusalIfNeeded
  <2>4. [g EXCEPT !.refusal = bound] = n
    <3>1. /\ g.ok = FALSE /\ g.mode = ctx.mode /\ g.mode_reason = ctx.mode_reason
          /\ g.trace_id = trace /\ g.policy = policy /\ g.evidence = Absent
          /\ g.response = Absent
      BY <1>10
    <3> HIDE DEF g
    <3>2. [g EXCEPT !.refusal = bound] =
            [ok |-> g.ok, mode |-> g.mode, mode_reason |-> g.mode_reason,
             trace_id |-> g.trace_id, policy |-> g.policy, evidence |-> g.evidence,
             response |-> g.response, refusal |-> bound]
      BY <1>11 DEF IsOutput
    <3>3. QED BY <3>1, <3>2
  <2>5. QED BY <2>3, <2>4
<1> HIDE DEF r, bound, g
<1>13. /\ n.ok = FALSE /\ n.mode = ctx.mode /\ n.mode_reason = ctx.mode_reason
       /\ n.trace_id = trace /\ n.policy = policy /\ n.evidence = Absent
       /\ n.response = Absent /\ n.refusal = bound
  OBVIOUS
<1> HIDE DEF n
<1>14. RefusalValid(n)
  BY <1>1, <1>2, <1>3, <1>4, <1>8, <1>9, <1>13 DEF RefusalValid, Common, Complete
<1>15. EnforceLegitimacyGateRefusal(n) = Absent
  BY <1>3, <1>9, <1>13 DEF EnforceLegitimacyGateRefusal, DecideFromFailureCode, Bound
<1>16. AssertAdmissible(g) = n
  BY <1>12, <1>13, <1>14, <1>15 DEF AssertAdmissible, Validate
<1>17. Bound(bound) BY <1>3, <1>9 DEF Bound
<1>18. QED BY <1>9, <1>11, <1>13, <1>16, <1>17 DEF g, policy, PassesAsDecided
-----------------------------------------------------------------------------
(* What Execute hands to the gate.                                          *)
AllowedOutput(t) ==
  [ok |-> TRUE, mode |-> Classify(t).mode, mode_reason |-> Classify(t).mode_reason,
   trace_id |-> MakeTraceId(t),
   policy |-> MakePolicy("ALLOW", DecideAllowDecisionCode(Classify(t).mode), Classify(t), Evidence),
   evidence |-> Evidence, response |-> NoPhrases, refusal |-> Absent]

(* A trace id is long enough for the schema.                                *)
LEMMA TraceTyped ==
  ASSUME NEW t \in Text
  PROVE  MakeTraceId(t) # Absent /\ MakeTraceId(t)[1] = "sha256"
  BY IdentityAssumption DEF MakeTraceId

(* The gate lets an allowed output of the pipeline through.                 *)
LEMMA AllowedOutputPasses ==
  ASSUME NEW t \in Text
  PROVE  IsOutput(AllowedOutput(t)) /\ AssertAdmissible(AllowedOutput(t)) = AllowedOutput(t)
<1> DEFINE g      == AllowedOutput(t)
           dc     == DecideAllowDecisionCode(Classify(t).mode)
           policy == MakePolicy("ALLOW", dc, Classify(t), Evidence)
<1>1. Evidence \in Seq(EvidenceItem) /\ Evidence # <<>>
  <2>1. ASSUME NEW datasets \in Note \cup {Absent}, NEW status \in {"PROVIDED", "ASSUMED"}
        PROVE  Item(datasets, status) \in EvidenceItem
    BY DEF Item, EvidenceItem, EvidenceStatus
  <2>2. DatasetVersionNote(FALSE) \in Note BY NotesTyped
  <2>3. /\ Item(Absent, "PROVIDED") \in EvidenceItem /\ Item(Absent, "ASSUMED") \in EvidenceItem
        /\ Item(DatasetVersionNote(FALSE), "PROVIDED") \in EvidenceItem
    BY <2>1, <2>2
  <2>4. \A a, b, c \in EvidenceItem : <<a, b, b, b, c, a, a>> \in Seq(EvidenceItem)
                                      /\ <<a, b, b, b, c, a, a>> # <<>>
    OBVIOUS
  <2>5. QED BY <2>3, <2>4 DEF Evidence
<1>2. PolicyValid(policy, "ALLOW") BY ClassifyTyped, CodesTyped, PolicyTyped
<1>3. Evidence # Absent /\ NoPhrases # Absent BY IdentityAssumption
<1>4. ~DetectCapabilityLeak(NoPhrases) BY DEF DetectCapabilityLeak, NoPhrases
<1> HIDE DEF policy
<1>5. g = [ok |-> TRUE, mode |-> Classify(t).mode, mode_reason |-> Classify(t).mode_reason,
           trace_id |-> MakeTraceId(t), policy |-> policy, evidence |-> Evidence,
           response |-> NoPhrases, refusal |-> Absent]
  BY DEF AllowedOutput, policy
<1> HIDE DEF g
<1>6. /\ g.ok = TRUE /\ g.mode = Classify(t).mode /\ g.mode_reason = Classify(t).mode_reason
      /\ g.trace_id = MakeTraceId(t) /\ g.policy = policy /\ g.evidence = Evidence
      /\ g.response = NoPhrases /\ g.refusal = Absent
  BY <1>5
<1>7. IsOutput(g) BY <1>1, <1>5, <1>6 DEF IsOutput
<1>8. AllowValid(g) BY <1>1, <1>2, <1>3, <1>6, ClassifyTyped, TraceTyped DEF AllowValid, Common
<1>9. NormalizeRefusalIfNeeded(g) = g BY <1>6, <1>7, NormalShape
<1>10. AssertAdmissible(g) = g BY <1>4, <1>6, <1>8, <1>9 DEF AssertAdmissible, Validate
<1>11. QED BY <1>7, <1>10 DEF g

(* The decision an artifact records.                                        *)
SnapshotOf(t) ==
  [decision      |-> IF AtRisk(t) THEN "REFUSE" ELSE "ALLOW",
   decision_code |-> BuildPolicySnapshotDecisionCode(t),
   mode_reason   |-> Classify(t).mode_reason]

(* A decision artifact is valid unless its hash was tampered with.          *)
LEMMA ArtifactTyped ==
  ASSUME NEW t \in Text, NEW asked, NEW now
  PROVE  LET d == DecisionArtifact(t, asked, now)
         IN  /\ ValidateDecisionLegitimacyArtifact(d) <=> "tamper_dla_hash" \notin asked
             /\ "tamper_dla_hash" \notin asked => d = DecisionArtifact(t, {}, now)
             /\ d.trace_id = MakeTraceId(t)
             /\ d.policy_snapshot = SnapshotOf(t)
<1> DEFINE snapshot == SnapshotOf(t)
           mode   == Classify(t).mode
           reason == Classify(t).mode_reason
           core   == [trace_id |-> MakeTraceId(t), mode |-> mode, mode_reason |-> reason,
                      policy_snapshot |-> snapshot, timestamp |-> now]
           id     == <<"dla", DlaCore(core)>>
           built  == BuildDecisionLegitimacyArtifact(MakeTraceId(t), mode, reason, snapshot, now)
           d      == DecisionArtifact(t, asked, now)
<1>1. d = (IF "tamper_dla_hash" \in asked THEN [built EXCEPT !.integrity_hash = <<"zeros">>]
           ELSE built)
  BY DEF DecisionArtifact, SnapshotOf
<1>2. DecisionArtifact(t, {}, now) = built BY DEF DecisionArtifact, SnapshotOf
<1> HIDE DEF snapshot, mode, reason
<1>3. built = [id |-> id, trace_id |-> MakeTraceId(t), mode |-> mode, mode_reason |-> reason,
               policy_snapshot |-> snapshot, timestamp |-> now,
               integrity_hash |-> <<"sha256", id, DlaCore(core)>>]
  BY DEF BuildDecisionLegitimacyArtifact
<1>4. DlaCore(core) = <<MakeTraceId(t), mode, reason, snapshot, now>> BY DEF DlaCore
<1> HIDE DEF core, id, built, d
<1>5. /\ d.id = id /\ d.trace_id = MakeTraceId(t) /\ d.mode = mode /\ d.mode_reason = reason
      /\ d.policy_snapshot = snapshot /\ d.timestamp = now
      /\ d.integrity_hash = IF "tamper_dla_hash" \in asked THEN <<"zeros">>
                            ELSE <<"sha256", id, DlaCore(core)>>
  BY <1>1, <1>3
<1>6. DlaCore(d) = DlaCore(core) BY <1>4, <1>5 DEF DlaCore
<1>7. ComputeDecisionLegitimacyIntegrityHash(d) = <<"sha256", id, DlaCore(core)>>
  BY <1>5, <1>6 DEF ComputeDecisionLegitimacyIntegrityHash
<1>8. <<"zeros">> # <<"sha256", id, DlaCore(core)>> OBVIOUS
<1>9. mode \in Mode /\ reason \in ModeReasonCode BY ClassifyTyped DEF mode, reason
<1>10. ValidateDecisionLegitimacyArtifact(d) <=> "tamper_dla_hash" \notin asked
  BY <1>5, <1>7, <1>8, <1>9, TraceTyped DEF ValidateDecisionLegitimacyArtifact
<1>11. QED BY <1>1, <1>2, <1>5, <1>10 DEF d, snapshot

(* An untampered artifact passes Lumens as it is, and not with another      *)
(* decision code in it.                                                     *)
LEMMA LumensSees ==
  ASSUME NEW t \in Text, NEW made, NEW d, d = DecisionArtifact(t, {}, made)
  PROVE  /\ d.integrity_hash = ComputeDecisionLegitimacyIntegrityHash(d)
         /\ LET tampered == [d EXCEPT !.policy_snapshot.decision_code = "TAMPERED"]
            IN  tampered.integrity_hash # ComputeDecisionLegitimacyIntegrityHash(tampered)
<1> DEFINE tampered == [d EXCEPT !.policy_snapshot.decision_code = "TAMPERED"]
<1>1. d.integrity_hash = ComputeDecisionLegitimacyIntegrityHash(d)
  <2>1. "tamper_dla_hash" \notin {} OBVIOUS
  <2>2. ValidateDecisionLegitimacyArtifact(d) BY <2>1, ArtifactTyped, Zenon
  <2>3. QED BY <2>2 DEF ValidateDecisionLegitimacyArtifact
<1>2. d.policy_snapshot.decision_code = BuildPolicySnapshotDecisionCode(t)
  <2>1. d.policy_snapshot = SnapshotOf(t) BY ArtifactTyped, Zenon
  <2>2. QED BY <2>1 DEF SnapshotOf
<1>3. /\ tampered.integrity_hash = d.integrity_hash /\ tampered.id = d.id
      /\ tampered.policy_snapshot.decision_code = "TAMPERED"
  BY DEF DecisionArtifact, BuildDecisionLegitimacyArtifact
<1> HIDE DEF tampered
<1>4. ASSUME tampered.integrity_hash = ComputeDecisionLegitimacyIntegrityHash(tampered)
      PROVE  FALSE
  <2>1. <<"sha256", d.id, DlaCore(d)>> = <<"sha256", d.id, DlaCore(tampered)>>
    BY <1>1, <1>3, <1>4 DEF ComputeDecisionLegitimacyIntegrityHash
  <2>2. DlaCore(d) = DlaCore(tampered) BY <2>1
  <2>3. d.policy_snapshot = tampered.policy_snapshot BY <2>2 DEF DlaCore
  <2>4. QED BY <1>2, <1>3, <2>3, CodesTyped
<1>5. QED BY <1>1, <1>4 DEF tampered
-----------------------------------------------------------------------------
(* What the control flow knows after each step of an evaluation.            *)
Evaluating == step \in {"classified", "decided", "permitted", "authorized"}

Recorded ==
  /\ overrides \cap {"omit_dla", "tamper_dla_hash"} = {}
  /\ \E made \in Time : dla = DecisionArtifact(text, {}, made)

Permitted ==
  /\ ~AtRisk(text)
  /\ overrides \cap {"lumens_tamper_dla_payload", "omit_pt", "tamper_pt_scope_empty"} = {}
  /\ \E now \in Time : pt = PermissionToken(overrides, dla.id, now)

Cleared ==
  /\ overrides = {}
  /\ pt.bound_dla_id = dla.id /\ pt.jurisdiction_scope # {} /\ checkedAt < pt.expires_at

(* What AllowedIsAuthorized says of the output at hand.                     *)
Entitled ==
  /\ ~text.blank /\ text.mentions \cap {"reconstruct", "weapon"} = {}
  /\ overrides = {}
  /\ dla.policy_snapshot = [decision |-> out.policy.decision,
                            decision_code |-> out.policy.decision_code,
                            mode_reason |-> out.mode_reason]
  /\ dla.trace_id = out.trace_id /\ dla.trace_id = MakeTraceId(text)
  /\ dla.integrity_hash = ComputeDecisionLegitimacyIntegrityHash(dla)
  /\ pt.bound_dla_id = dla.id /\ pt.jurisdiction_scope # {} /\ checkedAt < pt.expires_at

Out == step \in {"emitted", "gated"}

(* The inductive invariant of the pipeline.                                 *)
PInv ==
  /\ clock \in Time
  /\ step \in {"idle", "emitted", "gated"} \/ Evaluating
  /\ step = "idle" => text = Absent
  /\ Out => IsOutput(given) /\ out = AssertAdmissible(given)
  /\ ~Out => given = Absent /\ out = Absent
  /\ Evaluating => text \in Text /\ ~text.blank /\ overrides \in Tampering \cup {{}}
  /\ step \in {"decided", "permitted", "authorized"} => Recorded
  /\ step \in {"permitted", "authorized"} => Permitted
  /\ step = "authorized" => Cleared
  /\ Out /\ text # Absent /\ out.ok = TRUE => Entitled
  /\ RefusalIsTraceable
  /\ RiskIsRefused

(* The overrides that leave the decision record as it was made.             *)
RecordKept(asked) == asked \cap {"omit_dla", "tamper_dla_hash", "lumens_tamper_dla_payload"} = {}

(* A refusal leaves the pipeline: traceable, and for the risk if there is   *)
(* one and nothing else was wrong.                                          *)
LEMMA RefusalEmitted ==
  ASSUME NEW ctx, ctx.mode \in Mode, ctx.mode_reason \in ModeReasonCode,
         ctx.trigger_hits \in Seq(String),
         NEW trace, trace # Absent, trace[1] # "short",
         NEW dc \in DecisionCode, NEW code \in RefusalCode,
         NEW wording \in {"canonical", "lumens"}, NEW followed \in BOOLEAN,
         NEW binding \in {NoBinding, BindInvariant("INV-001")},
         Emit(PipelineRefusal(ctx, trace, dc, code, wording, followed, binding)),
         clock' \in Time,
         ~text'.blank => ctx.trigger_hits = ScanThreats(text').trigger_hits,
         ~text'.blank /\ AtRisk(text') /\ RecordKept(overrides')
           => /\ code = "REFUSE-DUALUSE-OR-RECONSTRUCTION"
              /\ dla'.policy_snapshot.decision_code = dc
  PROVE  PInv'
<1> DEFINE g == PipelineRefusal(ctx, trace, dc, code, wording, followed, binding)
<1>1. step' = "emitted" /\ given' = g /\ out' = AssertAdmissible(g) BY DEF Emit
<1>2. /\ IsOutput(g)
      /\ AssertAdmissible(g).ok = FALSE /\ AssertAdmissible(g).mode_reason = ctx.mode_reason
      /\ AssertAdmissible(g).policy = MakePolicy("REFUSE", dc, ctx, Absent)
      /\ AssertAdmissible(g).refusal.code = code /\ Bound(AssertAdmissible(g).refusal)
  <2>1. PassesAsDecided(g, ctx, dc, code) BY RefusalPasses
  <2> HIDE DEF g
  <2>2. QED BY <2>1 DEF PassesAsDecided
<1> HIDE DEF g
<1> DEFINE x == AssertAdmissible(g)
<1>3. /\ x.policy.decision_code = dc /\ x.policy.mode_reason = ctx.mode_reason
      /\ x.policy.dataset_versions = RecordedVersions
      /\ x.policy.trigger_hits = ctx.trigger_hits
  BY <1>2, PolicyTyped
<1> HIDE DEF x
<1>4. RefusalIsTraceable' BY <1>1, <1>2, <1>3 DEF RefusalIsTraceable, Bound, x
<1>5. RiskIsRefused' BY <1>1, <1>2, <1>3, RiskMeans DEF RiskIsRefused, RecordKept, x
<1>6. step' # "idle" /\ ~Evaluating' /\ Out' BY <1>1 DEF Evaluating, Out
<1>7. QED BY <1>1, <1>2, <1>4, <1>5, <1>6 DEF PInv

(* The same for a refusal that the pipeline binds to nothing.               *)
LEMMA CanonicalEmitted ==
  ASSUME NEW t \in Text, text' = t, NEW dc \in DecisionCode, NEW code \in RefusalCode,
         Emit(CanonicalRefusal(Classify(t), MakeTraceId(t), dc, code, TRUE)),
         clock' \in Time,
         AtRisk(t) /\ RecordKept(overrides')
           => /\ code = "REFUSE-DUALUSE-OR-RECONSTRUCTION"
              /\ dla'.policy_snapshot.decision_code = dc
  PROVE  PInv'
<1>1. /\ MakeTraceId(t) # Absent /\ MakeTraceId(t)[1] # "short" BY TraceTyped
<1>2. QED BY <1>1, ClassifyTyped, RefusalEmitted DEF CanonicalRefusal, PipelineRefusal

(* The same for one that Lumens binds.                                      *)
LEMMA LumensEmitted ==
  ASSUME NEW t \in Text, text' = t, NEW code \in RefusalCode, Emit(LumensRefusal(t, code)),
         clock' \in Time, ~(AtRisk(t) /\ RecordKept(overrides'))
  PROVE  PInv'
<1>1. /\ MakeTraceId(t) # Absent /\ MakeTraceId(t)[1] # "short" BY TraceTyped
<1>2. "REFUSE_LUMENS_AUTHORITY" \in DecisionCode BY DEF DecisionCode
<1>3. BindInvariant("INV-001") \in {NoBinding, BindInvariant("INV-001")} OBVIOUS
<1>4. "lumens" \in {"canonical", "lumens"} /\ TRUE \in BOOLEAN OBVIOUS
<1>5. Emit(PipelineRefusal(Classify(t), MakeTraceId(t), "REFUSE_LUMENS_AUTHORITY",
                           code, "lumens", TRUE, BindInvariant("INV-001")))
  BY DEF LumensRefusal, PipelineRefusal
<1>6. ~text'.blank => Classify(t).trigger_hits = ScanThreats(text').trigger_hits
  BY ClassifyTyped
<1>7. ~(~text'.blank /\ AtRisk(text') /\ RecordKept(overrides')) OBVIOUS
<1>8. QED BY <1>1, <1>2, <1>3, <1>4, <1>5, <1>6, <1>7, ClassifyTyped, RefusalEmitted, Zenon

(* An evaluation that goes on has nothing out.                              *)
LEMMA GoesOn ==
  ASSUME NEW next \in {"classified", "decided", "permitted", "authorized"}, GoOn(next),
         clock' \in Time,
         text' \in Text, ~text'.blank, overrides' \in Tampering \cup {{}},
         next # "classified" => Recorded',
         next \in {"permitted", "authorized"} => Permitted',
         next = "authorized" => Cleared'
  PROVE  PInv'
<1>1. step' = next /\ given' = Absent /\ out' = Absent BY DEF GoOn
<1>2. ~Out' /\ Evaluating' /\ step' # "idle" BY <1>1 DEF Out, Evaluating
<1>3. RefusalIsTraceable' /\ RiskIsRefused'
  BY <1>1 DEF RefusalIsTraceable, RiskIsRefused, Emitted
<1>4. QED BY <1>1, <1>2, <1>3 DEF PInv
-----------------------------------------------------------------------------
(* An artifact of the text at hand, and what Lumens says of it alone.       *)
LEMMA RecordedMeans ==
  ASSUME Recorded, text \in Text
  PROVE  /\ dla.trace_id = MakeTraceId(text) /\ dla.policy_snapshot = SnapshotOf(text)
         /\ dla.integrity_hash = ComputeDecisionLegitimacyIntegrityHash(dla)
         /\ dla.id[1] = "dla"
         /\ LumensDla # dla => "lumens_tamper_dla_payload" \in overrides
         /\ "lumens_tamper_dla_payload" \in overrides =>
              LumensDla.integrity_hash # ComputeDecisionLegitimacyIntegrityHash(LumensDla)
<1>1. PICK made \in Time : dla = DecisionArtifact(text, {}, made) BY DEF Recorded
<1>2. dla.trace_id = MakeTraceId(text) /\ dla.policy_snapshot = SnapshotOf(text)
  BY <1>1, ArtifactTyped, Zenon
<1>3. dla.integrity_hash = ComputeDecisionLegitimacyIntegrityHash(dla)
  BY <1>1, LumensSees
<1>4. "lumens_tamper_dla_payload" \in overrides =>
        LumensDla.integrity_hash # ComputeDecisionLegitimacyIntegrityHash(LumensDla)
  BY <1>1, LumensSees DEF LumensDla
<1>5. dla.id[1] = "dla" BY <1>1 DEF DecisionArtifact, BuildDecisionLegitimacyArtifact
<1>6. LumensDla # dla => "lumens_tamper_dla_payload" \in overrides BY DEF LumensDla
<1>7. QED BY <1>2, <1>3, <1>4, <1>5, <1>6

(* runGovernedPipeline up to the classification.                            *)
LEMMA ReceiveKept ==
  ASSUME PInv, NEW t \in Text, NEW asked \in Tampering \cup {{}}, Receive(t, asked)
  PROVE  PInv'
<1>1. text' = t /\ overrides' = asked /\ clock' \in Time BY DEF Receive, PInv
<1>2. CASE ~t.blank
  <2>1. GoOn("classified") BY <1>2 DEF Receive
  <2>2. QED BY <1>1, <1>2, <2>1, GoesOn
<1>3. CASE t.blank
  <2> DEFINE ctx == [mode |-> "GOVERNANCE", mode_reason |-> "DEFAULT_SAFE",
                     trigger_hits |-> <<>>]
  <2>1. Emit(PipelineRefusal(ctx, NoTraceId, "REFUSE_INVALID_INPUT", "REFUSE-INVALID-INPUT",
                             "canonical", FALSE, NoBinding))
    BY <1>3 DEF Receive, CanonicalRefusal, PipelineRefusal
  <2>2. /\ ctx.mode \in Mode /\ ctx.mode_reason \in ModeReasonCode
        /\ ctx.trigger_hits \in Seq(String)
    BY DEF Mode, ModeReasonCode
  <2>3. NoTraceId # Absent /\ NoTraceId[1] # "short" BY GateAssumption DEF NoTraceId
  <2>4. "REFUSE_INVALID_INPUT" \in DecisionCode /\ "REFUSE-INVALID-INPUT" \in RefusalCode
    BY DEF DecisionCode, RefusalCode
  <2> HIDE DEF ctx
  <2>5. QED BY <1>1, <1>3, <2>1, <2>2, <2>3, <2>4, RefusalEmitted
<1>4. QED BY <1>2, <1>3

(* Branch 1, the decision artifact.                                         *)
LEMMA DecideKept ==
  ASSUME PInv, Decide
  PROVE  PInv'
<1>1. /\ text \in Text /\ ~text.blank /\ overrides \in Tampering \cup {{}} /\ clock \in Time
      /\ text' = text /\ overrides' = overrides /\ clock' = clock
  BY DEF Decide, PInv, Evaluating
<1>2. {"REFUSE_MISSING_DLA", "REFUSE_INVALID_DLA"} \subseteq DecisionCode
      /\ {"REFUSE-MISSING-DLA", "REFUSE-INVALID-DLA"} \subseteq RefusalCode
  BY DEF DecisionCode, RefusalCode
<1>3. CASE "omit_dla" \in overrides
  <2>1. Emit(CanonicalRefusal(Classify(text), MakeTraceId(text), "REFUSE_MISSING_DLA",
                              "REFUSE-MISSING-DLA", TRUE))
    BY <1>3 DEF Decide, Refuse
  <2>2. ~RecordKept(overrides') BY <1>1, <1>3 DEF RecordKept
  <2>3. QED BY <1>1, <1>2, <2>1, <2>2, CanonicalEmitted
<1>4. CASE "omit_dla" \notin overrides
  <2>1. dla' = DecisionArtifact(text, overrides, clock) BY <1>4 DEF Decide
  <2>2. CASE "tamper_dla_hash" \in overrides
    <3>1. ~ValidateDecisionLegitimacyArtifact(dla') BY <1>1, <2>1, <2>2, ArtifactTyped, Zenon
    <3>2. Emit(CanonicalRefusal(Classify(text), MakeTraceId(text), "REFUSE_INVALID_DLA",
                                "REFUSE-INVALID-DLA", TRUE))
      BY <1>4, <3>1 DEF Decide, Refuse
    <3>3. ~RecordKept(overrides') BY <1>1, <2>2 DEF RecordKept
    <3>4. QED BY <1>1, <1>2, <3>2, <3>3, CanonicalEmitted
  <2>3. CASE "tamper_dla_hash" \notin overrides
    <3> DEFINE built == DecisionArtifact(text, overrides, clock)
    <3>1. ValidateDecisionLegitimacyArtifact(dla') /\ dla' = DecisionArtifact(text, {}, clock)
      <4>1. ValidateDecisionLegitimacyArtifact(built) /\ built = DecisionArtifact(text, {}, clock)
        BY <1>1, <2>3, ArtifactTyped
      <4>2. QED BY <2>1, <4>1
    <3>2. GoOn("decided") BY <1>4, <3>1 DEF Decide
    <3>3. Recorded' BY <1>1, <1>4, <2>3, <3>1 DEF Recorded
    <3>4. QED BY <1>1, <3>2, <3>3, GoesOn
  <2>4. QED BY <2>2, <2>3
<1>5. QED BY <1>3, <1>4

(* The token as built has a scope and ends after a while.                   *)
LEMMA TokenTyped ==
  ASSUME NEW asked, NEW id, NEW now \in Nat
  PROVE  LET token == PermissionToken(asked, id, now)
         IN  /\ ValidatePermissionToken(token) <=> "tamper_pt_scope_empty" \notin asked
             /\ token.jurisdiction_scope # {} <=> "tamper_pt_scope_empty" \notin asked
             /\ token.expires_at \in Nat
             /\ "tamper_pt_scope_empty" \in asked \/ "lumens_pt_binding_mismatch" \notin asked
                  \/ token.bound_dla_id = <<"dla_mismatch">>
             /\ asked \cap {"tamper_pt_scope_empty", "lumens_pt_binding_mismatch"} # {}
                  \/ "lumens_pt_expired" \notin asked \/ token.expires_at = 0
<1>1. "none" \in RetryScope BY DEF RetryScope
<1>2. TtlSeconds \in Nat BY TtlAssumption
<1>3. QED BY <1>1, <1>2 DEF PermissionToken, BuildPermissionToken, ValidatePermissionToken
-----------------------------------------------------------------------------
(* Lumens checks the record, the risk is refused, the token is built.       *)
LEMMA PermitKept ==
  ASSUME PInv, Permit
  PROVE  PInv'
<1>1. /\ text \in Text /\ ~text.blank /\ overrides \in Tampering \cup {{}} /\ clock \in Time
      /\ Recorded /\ text' = text /\ overrides' = overrides /\ clock' = clock /\ dla' = dla
  BY DEF Permit, PInv, Evaluating
<1> DEFINE seen == VerifyAuthority(LumensDla, Absent, clock)
<1>2. CASE "lumens_tamper_dla_payload" \in overrides
  <2>1. seen = "REFUSE-LUMENS-DLA-INTEGRITY" BY <1>1, <1>2, RecordedMeans DEF VerifyAuthority
  <2>2. seen \in RefusalCode /\ seen # Absent BY <2>1, GateAssumption DEF RefusalCode, String
  <2>3. Emit(LumensRefusal(text, seen)) BY <2>2 DEF Permit
  <2>4. ~RecordKept(overrides') BY <1>1, <1>2 DEF RecordKept
  <2> HIDE DEF seen
  <2>5. QED BY <1>1, <2>2, <2>3, <2>4, LumensEmitted
<1>3. CASE "lumens_tamper_dla_payload" \notin overrides
  <2>1. seen = Absent BY <1>1, <1>3, RecordedMeans DEF VerifyAuthority
  <2>2. CASE AtRisk(text)
    <3> DEFINE dc == DecideRiskRefusalDecisionCode(text)
    <3>1. Emit(CanonicalRefusal(Classify(text), MakeTraceId(text), dc,
                                "REFUSE-DUALUSE-OR-RECONSTRUCTION", TRUE))
      BY <2>1, <2>2 DEF Permit, Refuse
    <3>2. dc \in DecisionCode /\ "REFUSE-DUALUSE-OR-RECONSTRUCTION" \in RefusalCode
      BY CodesTyped DEF RefusalCode
    <3>3. dla.policy_snapshot.decision_code = dc
      BY <1>1, <2>2, RecordedMeans, CodesTyped DEF SnapshotOf
    <3> HIDE DEF dc
    <3>4. QED BY <1>1, <3>1, <3>2, <3>3, CanonicalEmitted
  <2>3. CASE ~AtRisk(text) /\ "omit_pt" \in overrides
    <3>1. Emit(CanonicalRefusal(Classify(text), MakeTraceId(text), "REFUSE_MISSING_PT",
                                "REFUSE-MISSING-PT", TRUE))
      BY <2>1, <2>3 DEF Permit, Refuse
    <3>2. "REFUSE_MISSING_PT" \in DecisionCode /\ "REFUSE-MISSING-PT" \in RefusalCode
      BY DEF DecisionCode, RefusalCode
    <3>3. QED BY <1>1, <2>3, <3>1, <3>2, CanonicalEmitted
  <2>4. CASE ~AtRisk(text) /\ "omit_pt" \notin overrides
    <3>1. pt' = PermissionToken(overrides, dla.id, clock) BY <2>1, <2>4 DEF Permit
    <3>2. clock \in Nat BY <1>1, InputAssumption
    <3>3. ValidatePermissionToken(pt') <=> "tamper_pt_scope_empty" \notin overrides
      BY <3>1, <3>2, TokenTyped
    <3>4. CASE "tamper_pt_scope_empty" \in overrides
      <4>1. Emit(CanonicalRefusal(Classify(text), MakeTraceId(text), "REFUSE_INVALID_PT",
                                  "REFUSE-INVALID-PT", TRUE))
        BY <2>1, <2>4, <3>3, <3>4 DEF Permit, Refuse
      <4>2. "REFUSE_INVALID_PT" \in DecisionCode /\ "REFUSE-INVALID-PT" \in RefusalCode
        BY DEF DecisionCode, RefusalCode
      <4>3. QED BY <1>1, <2>4, <4>1, <4>2, CanonicalEmitted
    <3>5. CASE "tamper_pt_scope_empty" \notin overrides
      <4>1. GoOn("permitted") BY <2>1, <2>4, <3>3, <3>5 DEF Permit
      <4>2. Permitted' BY <1>1, <1>3, <2>4, <3>1, <3>5 DEF Permitted
      <4>3. Recorded' BY <1>1 DEF Recorded
      <4>4. QED BY <1>1, <4>1, <4>2, <4>3, GoesOn
    <3>6. QED BY <3>4, <3>5
  <2>5. QED BY <2>2, <2>3, <2>4
<1>4. QED BY <1>2, <1>3

(* Branch 2: Lumens checks the two artifacts together.                      *)
LEMMA AuthorizeKept ==
  ASSUME PInv, Authorize
  PROVE  PInv'
<1>1. /\ text \in Text /\ ~text.blank /\ overrides \in Tampering \cup {{}} /\ clock \in Time
      /\ Recorded /\ Permitted /\ text' = text /\ overrides' = overrides /\ clock' = clock
      /\ dla' = dla /\ pt' = pt /\ checkedAt' = clock
  BY DEF Authorize, PInv, Evaluating
<1>2. LumensDla = dla /\ dla.id[1] = "dla"
      /\ dla.integrity_hash = ComputeDecisionLegitimacyIntegrityHash(dla)
  BY <1>1, RecordedMeans DEF Permitted
<1>3. PICK now \in Time : pt = PermissionToken(overrides, dla.id, now) BY <1>1 DEF Permitted
<1>4. pt # Absent
  <2>1. PICK made \in Time : dla = DecisionArtifact(text, {}, made) BY <1>1 DEF Recorded
  <2>2. QED BY <1>1, <1>3, <2>1, IdentityAssumption
<1> DEFINE seen == VerifyAuthority(LumensDla, pt, clock)
<1>5. CASE seen # Absent
  <2>1. seen \in RefusalCode BY <1>5 DEF VerifyAuthority, RefusalCode
  <2>2. Emit(LumensRefusal(text, seen)) BY <1>5 DEF Authorize
  <2> HIDE DEF seen
  <2>3. QED BY <1>1, <2>1, <2>2, LumensEmitted DEF Permitted
<1>6. CASE seen = Absent
  <2>1. GoOn("authorized") BY <1>6 DEF Authorize
  <2>2. /\ pt.bound_dla_id = dla.id /\ ~(pt.expires_at <= clock)
    <3>1. Absent \notin {"REFUSE-LUMENS-DLA-INTEGRITY", "REFUSE-LUMENS-PT-BINDING",
                         "REFUSE-LUMENS-PT-EXPIRED"}
      BY GateAssumption DEF String, RefusalCode
    <3>2. QED BY <1>2, <1>4, <1>6, <3>1 DEF VerifyAuthority
  <2>3. now \in Nat /\ clock \in Nat BY <1>1, InputAssumption
  <2>4. /\ "tamper_pt_scope_empty" \notin overrides
        /\ pt.jurisdiction_scope # {} /\ pt.expires_at \in Nat
    BY <1>1, <1>3, <2>3, TokenTyped DEF Permitted
  <2>5. "lumens_pt_binding_mismatch" \notin overrides
    <3>1. dla.id # <<"dla_mismatch">> BY <1>2
    <3>2. QED BY <1>3, <2>2, <2>3, <2>4, <3>1, TokenTyped
  <2>6. "lumens_pt_expired" \notin overrides
    <3>1. ~(0 <= clock) \/ pt.expires_at # 0 BY <2>2
    <3>2. QED BY <1>3, <2>3, <2>4, <2>5, <3>1, TokenTyped
  <2>7. overrides = {}
    <3>1. overrides \subseteq Override BY <1>1, InputAssumption
    <3>2. QED BY <1>1, <2>4, <2>5, <2>6, <3>1 DEF Recorded, Permitted, Override
  <2>8. checkedAt' < pt'.expires_at BY <1>1, <2>2, <2>3, <2>4
  <2>9. Cleared' BY <1>1, <2>2, <2>4, <2>7, <2>8 DEF Cleared
  <2>10. Recorded' /\ Permitted' BY <1>1 DEF Recorded, Permitted
  <2>11. QED BY <1>1, <2>1, <2>9, <2>10, GoesOn
<1>7. QED BY <1>5, <1>6

(* The allowed output leaves.                                               *)
LEMMA ExecuteKept ==
  ASSUME PInv, Execute
  PROVE  PInv'
<1>1. /\ text \in Text /\ ~text.blank /\ overrides = {} /\ clock \in Time
      /\ Recorded /\ Permitted /\ Cleared /\ text' = text /\ overrides' = overrides
      /\ clock' = clock /\ dla' = dla /\ pt' = pt /\ checkedAt' = checkedAt
  BY DEF Execute, PInv, Evaluating, Cleared
<1>2. Emit(AllowedOutput(text)) BY DEF Execute, AllowedOutput
<1>3. step' = "emitted" /\ given' = AllowedOutput(text) /\ out' = AllowedOutput(text)
      /\ IsOutput(given') /\ out' = AssertAdmissible(given')
  BY <1>1, <1>2, AllowedOutputPasses DEF Emit
<1>4. /\ out'.ok = TRUE /\ out'.trace_id = MakeTraceId(text)
      /\ out'.mode_reason = Classify(text).mode_reason
      /\ out'.policy.decision = "ALLOW"
      /\ out'.policy.decision_code = DecideAllowDecisionCode(Classify(text).mode)
  BY <1>3 DEF AllowedOutput, MakePolicy
<1>5. ~AtRisk(text) BY <1>1 DEF Permitted
<1>6. dla.policy_snapshot = [decision |-> out'.policy.decision,
                             decision_code |-> out'.policy.decision_code,
                             mode_reason |-> out'.mode_reason]
  BY <1>1, <1>4, <1>5, RecordedMeans, CodesTyped DEF SnapshotOf
<1>7. Entitled'
  BY <1>1, <1>4, <1>5, <1>6, RecordedMeans, RiskMeans DEF Entitled, Cleared
<1>8. ~Evaluating' /\ step' # "idle" /\ Out' BY <1>3 DEF Evaluating, Out
<1>9. RefusalIsTraceable' /\ RiskIsRefused'
  BY <1>1, <1>4, <1>5, RiskMeans DEF RefusalIsTraceable, RiskIsRefused
<1>10. QED BY <1>1, <1>3, <1>7, <1>8, <1>9 DEF PInv
-----------------------------------------------------------------------------
(* A diagnostic hands an output to the gate.                                *)
LEMMA GateKept ==
  ASSUME PInv, Gate
  PROVE  PInv'
<1>1. /\ text' = Absent /\ clock' \in Time /\ step' = "gated" BY DEF Gate, PInv
<1>2. IsOutput(given') /\ out' = AssertAdmissible(given') BY InputAssumption DEF Gate
<1>3. ~Evaluating' /\ Out' /\ ~Emitted' BY <1>1 DEF Evaluating, Out, Emitted
<1>4. QED BY <1>1, <1>2, <1>3 DEF PInv, RefusalIsTraceable, RiskIsRefused

(* An output comes back to the gate, with a model's answer if it allows.    *)
LEMMA ProbeKept ==
  ASSUME PInv, ProbeCandidate
  PROVE  PInv'
<1>1. /\ text' = text /\ overrides' = overrides /\ dla' = dla /\ pt' = pt
      /\ checkedAt' = checkedAt /\ clock' \in Time /\ step' = "gated"
      /\ out' = AssertAdmissible(given')
  BY DEF ProbeCandidate, PInv
<1>2. Out /\ ~Evaluating' /\ Out' /\ ~Emitted'
  BY <1>1 DEF ProbeCandidate, Evaluating, Out, Emitted
<1>3. IsOutput(out) BY <1>2, GateTyped DEF PInv
<1>4. PICK answer \in Answer :
        given' = IF out.ok = TRUE THEN [out EXCEPT !.response = answer] ELSE out
  BY DEF ProbeCandidate
<1>5. /\ IsOutput(given') /\ given'.ok = out.ok /\ given'.policy = out.policy
      /\ given'.mode_reason = out.mode_reason /\ given'.trace_id = out.trace_id
  BY <1>3, <1>4 DEF IsOutput
<1>6. ASSUME text' # Absent, out'.ok = TRUE
      PROVE  Entitled'
  <2>1. out' = given' BY <1>1, <1>5, <1>6, GateTyped
  <2>2. Entitled BY <1>1, <1>2, <1>5, <1>6, <2>1 DEF PInv
  <2>3. QED BY <1>1, <1>5, <2>1, <2>2 DEF Entitled
<1>7. QED BY <1>1, <1>2, <1>5, <1>6 DEF PInv, RefusalIsTraceable, RiskIsRefused

(* Nothing but the clock moves, or nothing at all.                          *)
LEMMA StillKept ==
  ASSUME PInv, UNCHANGED <<step, text, overrides, dla, pt, checkedAt, given, out>>,
         clock' \in Time
  PROVE  PInv'
<1>1. /\ Out' = Out /\ (Evaluating' <=> Evaluating) /\ (Recorded' <=> Recorded)
      /\ (Permitted' <=> Permitted) /\ (Cleared' <=> Cleared) /\ (Entitled' <=> Entitled)
  BY DEF Out, Evaluating, Recorded, Permitted, Cleared, Entitled
<1>2. (RefusalIsTraceable' <=> RefusalIsTraceable) /\ (RiskIsRefused' <=> RiskIsRefused)
  BY DEF RefusalIsTraceable, RiskIsRefused, Emitted
<1>3. QED BY <1>1, <1>2 DEF PInv

(* Before the first evaluation.                                             *)
LEMMA InitPInv == Init => PInv
<1> SUFFICES ASSUME Init PROVE PInv OBVIOUS
<1>1. ~Out /\ ~Evaluating /\ ~Emitted BY DEF Init, Out, Evaluating, Emitted
<1>2. QED BY <1>1 DEF Init, PInv, RefusalIsTraceable, RiskIsRefused

(* Every step keeps the invariant.                                          *)
LEMMA NextPInv == PInv /\ [Next]_vars => PInv'
<1> SUFFICES ASSUME PInv, [Next]_vars PROVE PInv' OBVIOUS
<1>1. CASE Run BY <1>1, ReceiveKept DEF Run
<1>2. CASE EvaluateV1 BY <1>2, ReceiveKept DEF EvaluateV1
<1>3. CASE Decide BY <1>3, DecideKept
<1>4. CASE Permit BY <1>4, PermitKept
<1>5. CASE Authorize BY <1>5, AuthorizeKept
<1>6. CASE Execute BY <1>6, ExecuteKept
<1>7. CASE Gate BY <1>7, GateKept
<1>8. CASE ProbeCandidate BY <1>8, ProbeKept
<1>9. CASE Tick BY <1>9, StillKept DEF Tick
<1>10. CASE UNCHANGED vars BY <1>10, StillKept DEF vars, PInv
<1>11. QED BY <1>1, <1>2, <1>3, <1>4, <1>5, <1>6, <1>7, <1>8, <1>9, <1>10 DEF Next

(* The invariant of the pipeline.                                           *)
LEMMA AlwaysPInv == Spec => []PInv
<1>1. QED BY InitPInv, NextPInv, PTL DEF Spec
-----------------------------------------------------------------------------
(* No output is allowed without an untampered record of its own decision    *)
(* and a token for that record which had not expired when it was checked:   *)
(* whatever overrides were asked for, however the clock moved, and also     *)
(* when the output has come back from the gate with a model's answer.       *)
THEOREM AllowedAlwaysAuthorized == Spec => []AllowedIsAuthorized
<1>1. PInv => AllowedIsAuthorized BY DEF PInv, Entitled, AllowedIsAuthorized
<1>2. QED BY <1>1, AlwaysPInv, PTL

(* A refusal that leaves the pipeline is bound to a registered invariant    *)
(* and keeps the trigger hits and versions it was decided with.             *)
THEOREM RefusalAlwaysTraceable == Spec => []RefusalIsTraceable
<1>1. PInv => RefusalIsTraceable BY DEF PInv
<1>2. QED BY <1>1, AlwaysPInv, PTL

(* A risky text is refused, for the risk unless its record failed first.    *)
THEOREM RiskAlwaysRefused == Spec => []RiskIsRefused
<1>1. PInv => RiskIsRefused BY DEF PInv
<1>2. QED BY <1>1, AlwaysPInv, PTL

(* assertAdmissible: what leaves the gate is valid, an allowed output is    *)
(* the very one it was given, and a refusal agrees with the registry.       *)
THEOREM EmittedAlwaysAdmissible == Spec => []EmittedIsAdmissible
<1>1. PInv => EmittedIsAdmissible
  <2> SUFFICES ASSUME PInv, out # Absent, LongTrace(given)
               PROVE  /\ Validate(out)
                      /\ out.ok = TRUE => /\ out = given /\ out.response.loose = {}
                                          /\ out.response.tight = {}
                      /\ out.ok = FALSE =>
                           /\ out.refusal.failure_code \in DOMAIN FailureCodes
                           /\ out.refusal.retry_scope
                                = FailureCodes[out.refusal.failure_code].retry_scope
    BY DEF EmittedIsAdmissible, LongTrace
  <2>1. IsOutput(given) /\ out = AssertAdmissible(given) BY DEF PInv
  <2>2. Validate(out) BY <2>1, GateRefuses
  <2>3. ASSUME out.ok = TRUE
        PROVE  out = given /\ out.response.loose = {} /\ out.response.tight = {}
    <3>1. out = given /\ ~DetectCapabilityLeak(out.response) BY <2>1, <2>3, GateTyped
    <3>2. QED BY <3>1 DEF DetectCapabilityLeak
  <2>4. ASSUME out.ok = FALSE
        PROVE  /\ out.refusal.failure_code \in DOMAIN FailureCodes
               /\ out.refusal.retry_scope = FailureCodes[out.refusal.failure_code].retry_scope
    <3>1. RefusalValid(out) BY <2>2, <2>4 DEF Validate, AllowValid
    <3>2. QED BY <2>1, <3>1, GateRefuses
  <2>5. QED BY <2>2, <2>3, <2>4
<1>2. QED BY <1>1, AlwaysPInv, PTL

(* The gate settles: what it let out and is given again comes out again.    *)
THEOREM GateAlwaysSettles == Spec => GateSettles
<1> DEFINE Settling == out # Absent /\ given' = out /\ Validate(out) => out' = out
<1>1. PInv /\ PInv' /\ [Next]_vars => [Settling]_vars
  <2> SUFFICES ASSUME PInv, PInv', Next, out # Absent, given' = out, Validate(out)
               PROVE  out' = out
    BY DEF vars
  <2>1. IsOutput(given) /\ out = AssertAdmissible(given) BY DEF PInv
  <2>2. out' = AssertAdmissible(out) BY DEF PInv
  <2>3. QED BY <2>1, <2>2, GateIdempotent
<1>2. QED BY <1>1, AlwaysPInv, PTL DEF Spec, GateSettles
=============================================================================
