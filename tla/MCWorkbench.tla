----------------------------- MODULE MCWorkbench -----------------------------
(***************************************************************************)
(* Two tabs on the governance session, which needs two reviewers, and a    *)
(* server that may be restarted under them.                                *)
(***************************************************************************)
EXTENDS Workbench

MCSubjects == {SessionSubject(mode) : mode \in SessionMode}

MCContexts == {SessionContext}

MCOutputAdmissible(input, answer) == input.allowed
=============================================================================
