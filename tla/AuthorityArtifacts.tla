------------------------- MODULE AuthorityArtifacts -------------------------
(***************************************************************************)
(* Decision legitimacy artifacts (DLA), permission tokens (PT) and the     *)
(* Lumens check of the two (authority/artifacts.ts, lumens.ts). A hash is  *)
(* the tuple of what is hashed, so that it is injective and nothing else.  *)
(***************************************************************************)
EXTENDS OutputGate, Integers

CONSTANT TtlSeconds          \* lifetime of a permission token, in clock units

ASSUME TtlAssumption == TtlSeconds \in Nat \ {0}

(* The fields the identity of a DLA is a hash of.                           *)
DlaCore(dla) ==
  <<dla.trace_id, dla.mode, dla.mode_reason, dla.policy_snapshot, dla.timestamp>>

ComputeDecisionLegitimacyIntegrityHash(dla) == <<"sha256", dla.id, DlaCore(dla)>>

BuildDecisionLegitimacyArtifact(traceId, mode, reason, snapshot, now) ==
  LET core == [trace_id |-> traceId, mode |-> mode, mode_reason |-> reason,
               policy_snapshot |-> snapshot, timestamp |-> now]
      id   == <<"dla", DlaCore(core)>>
  IN  [id |-> id, trace_id |-> traceId, mode |-> mode, mode_reason |-> reason,
       policy_snapshot |-> snapshot, timestamp |-> now,
       integrity_hash |-> <<"sha256", id, DlaCore(core)>>]

ValidateDecisionLegitimacyArtifact(dla) ==
  /\ dla.trace_id[1] # "short" /\ dla.mode \in Mode /\ dla.mode_reason \in ModeReasonCode
  /\ dla.integrity_hash = ComputeDecisionLegitimacyIntegrityHash(dla)

BuildPermissionToken(dlaId, now) ==
  [token_id |-> <<"pt", dlaId, now + TtlSeconds>>, bound_dla_id |-> dlaId,
   expires_at |-> now + TtlSeconds, allow_execution |-> TRUE, allow_output |-> TRUE,
   jurisdiction_scope |-> {"GLOBAL"}, retry_scope |-> "none"]

ValidatePermissionToken(pt) == pt.jurisdiction_scope # {} /\ pt.retry_scope \in RetryScope

(* Mutant of VerifyAuthority: a token is good for any decision.             *)
VerifyUnbound(dla, pt, now) ==
  IF dla.integrity_hash # ComputeDecisionLegitimacyIntegrityHash(dla)
  THEN "REFUSE-LUMENS-DLA-INTEGRITY"
  ELSE IF pt # Absent /\ pt.expires_at <= now THEN "REFUSE-LUMENS-PT-EXPIRED"
  ELSE Absent

(* The code verifyAuthority refuses with, or Absent.                        *)
VerifyAuthority(dla, pt, now) ==
  IF dla.integrity_hash # ComputeDecisionLegitimacyIntegrityHash(dla)
  THEN "REFUSE-LUMENS-DLA-INTEGRITY"
  ELSE IF pt = Absent THEN Absent
  ELSE IF pt.bound_dla_id # dla.id THEN "REFUSE-LUMENS-PT-BINDING"
  ELSE IF pt.expires_at <= now THEN "REFUSE-LUMENS-PT-EXPIRED"
  ELSE Absent
=============================================================================
