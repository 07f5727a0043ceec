SPECIFICATION FairSpec
CONSTANTS
  Proc = {"p1", "p2"}
  Event = {"a", "b"}
  Op = {"a", "b", "look", "throw"}
  Work <- MCWork
  Capacity = 2
  StoreFailure <- MCStoreFailure
  NoAnswer <- MCNoAnswer
  None = None
INVARIANTS
  OneTransaction
  ReadsCommitted
  ReplacedNeverCommits
PROPERTIES
  OnlyDamageCorrupts
  AtomicSpec
  CallsReturn
