SPECIFICATION Spec
CONSTANTS
  Plan = {"p", "q"}
  ActionsOf <- MCActionsOf
  Authority <- MCAuthorities
  Context <- MCContext
  MaxTime = 2
CHECK_DEADLOCK FALSE
INVARIANTS
  OneUseStartsOnce
  AuditedAttemptIsGranted
PROPERTIES
  AuditedEndIsFinal
