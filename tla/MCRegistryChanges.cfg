SPECIFICATION Spec
CONSTANTS
  Branch = {b1, b2}
  ChangeSet <- Edits
  MaxChanges = 3
  Missing = Missing
SYMMETRY Symmetry
INVARIANTS
  RuntimeMatchesSources
PROPERTIES
  MainIsAppendOnly
  NewVersionArrivesWhole
CHECK_DEADLOCK FALSE
