-------------------------- MODULE MCDurableBoundary --------------------------
(* DurableBoundary for the organization of MCPolicyFixture.                 *)
EXTENDS DurableBoundary, MCPolicyFixture
=============================================================================
