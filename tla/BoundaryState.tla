---------------------------- MODULE BoundaryState ----------------------------
(***************************************************************************)
(* What anyone sees of the durable policy boundary: the history it has     *)
(* recorded and what it answered last. PolicyLedger and DurableBoundary    *)
(* both say how these two change.                                          *)
(***************************************************************************)
EXTENDS PolicyOperations, Sequences, Functions

CONSTANT Capacity   \* events the store holds at most (10000 in the code)

ASSUME CapacityAssumption == Capacity \in Nat

VARIABLES
  log,     \* the accepted history
  reply    \* the last answer: the operation, its sign and its reason
=============================================================================
