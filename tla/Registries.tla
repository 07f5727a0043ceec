----------------------------- MODULE Registries -----------------------------
(***************************************************************************)
(* The registries of failure codes and invariants, the law that binds one  *)
(* to the other, and the legitimacy gate that classifies a failure code.   *)
(* The last section holds the registries the runtime loads; everything     *)
(* else is about any pair of registries that obeys the law.                *)
(***************************************************************************)
CONSTANTS
  Absent,            \* a missing field, or an empty text the code treats as one
  FailureCodes,      \* failure code -> [class, retry_scope]
  Invariants         \* invariant id -> [owner, failure_code, retry_scope]

RetryScope == {"none", "scoped_retry", "artifact_rebuild"}

(* The invariants the code itself names when it binds a refusal.            *)
BoundInvariant == {"INV-001", "INV-002", "INV-030", "INV-031", "INV-032"}

(* Ids are unique because the registry is a function; each entry binds a    *)
(* registered failure code and does not override its retry scope.           *)
LoadInvariantRegistry ==
  \A id \in DOMAIN Invariants :
    /\ Invariants[id].failure_code \in DOMAIN FailureCodes
    /\ Invariants[id].retry_scope \in {Absent, FailureCodes[Invariants[id].failure_code].retry_scope}

ASSUME RegistryAssumption ==
  /\ BoundInvariant \subseteq DOMAIN Invariants
  /\ LoadInvariantRegistry
  /\ \A code \in DOMAIN FailureCodes :
       code # Absent /\ FailureCodes[code].retry_scope \in RetryScope
  /\ \A id \in DOMAIN Invariants : id # Absent /\ Invariants[id].owner # Absent
  /\ Absent \notin RetryScope

(* decideFromFailureCode: what a registered failure code allows next.       *)
DecideFromFailureCode(code) ==
  [disposition |-> IF FailureCodes[code].class = "H" THEN "HALT"
                   ELSE IF FailureCodes[code].class = "S" THEN "SCOPED_RETRY"
                   ELSE "ARTIFACT_REBUILD",
   retry_scope |-> FailureCodes[code].retry_scope]

DecideFromInvariant(id) == DecideFromFailureCode(Invariants[id].failure_code)

(* The four fields that bind a refusal to the registries.                   *)
BindInvariant(id) ==
  [invariant_id |-> id, failure_code |-> Invariants[id].failure_code,
   owner |-> Invariants[id].owner,
   retry_scope |-> FailureCodes[Invariants[id].failure_code].retry_scope]
-----------------------------------------------------------------------------
FAILURE_CODES_V2 ==
  [code \in {"LG-H-001", "LG-H-002", "LG-S-001", "LG-A-001", "DIAG-H-001",
             "OP-H-001", "OP-H-002", "OP-H-003"} |->
     IF code = "LG-S-001" THEN [class |-> "S", retry_scope |-> "scoped_retry"]
     ELSE IF code = "LG-A-001" THEN [class |-> "A", retry_scope |-> "artifact_rebuild"]
     ELSE [class |-> "H", retry_scope |-> "none"]]

InvariantEntry(owner, code, scope) == [owner |-> owner, failure_code |-> code, retry_scope |-> scope]

INVARIANTS_V2 ==
  [id \in {"INV-001", "INV-002", "INV-010", "INV-020", "INV-030", "INV-031", "INV-032"} |->
     IF id = "INV-001" THEN InvariantEntry("LG", "LG-H-001", Absent)
     ELSE IF id = "INV-002" THEN InvariantEntry("LG", "LG-H-002", Absent)
     ELSE IF id = "INV-010" THEN InvariantEntry("LG", "LG-S-001", "scoped_retry")
     ELSE IF id = "INV-020" THEN InvariantEntry("LG", "LG-A-001", "artifact_rebuild")
     ELSE IF id = "INV-030" THEN InvariantEntry("OP", "OP-H-001", Absent)
     ELSE IF id = "INV-031" THEN InvariantEntry("OP", "OP-H-002", Absent)
     ELSE InvariantEntry("OP", "OP-H-003", Absent)]
=============================================================================
