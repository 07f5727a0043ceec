--------------------------- MODULE MCPolicyLedger ---------------------------
(* PolicyLedger for the organization of MCPolicyFixture.                    *)
EXTENDS PolicyLedger, MCPolicyFixture
=============================================================================
