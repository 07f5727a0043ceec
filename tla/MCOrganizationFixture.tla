------------------------ MODULE MCOrganizationFixture ------------------------
(***************************************************************************)
(* One restricted document under GOVERNANCE: ann and cat review the domain,*)
(* bob and cat govern, root and ann issue clearances, uma asks.            *)
(***************************************************************************)
MCPrincipal(id, roles) == [id |-> id, roles |-> roles, domains |-> {"law"}]

MCMandate(issuer) ==
  [issuer |-> issuer, domains |-> {"law"}, modes |-> {"GOVERNANCE"},
   roles |-> {"domain_reviewer", "governance_officer"}]

MCResource(id) ==
  [id |-> id, domain |-> "law", classification |-> "domain_restricted", environment |-> "test"]

MCSnapshotOf(resources, clearances) ==
  [wellFormed |-> TRUE, id |-> "snap", organization |-> "org", policy_digest |-> "digest",
   issued_at |-> 0, expires_at |-> 9,
   principals |->
     {MCPrincipal("root", {"access_administrator"}),
      MCPrincipal("ann", {"domain_reviewer", "access_administrator"}),
      MCPrincipal("bob", {"governance_officer"}),
      MCPrincipal("cat", {"domain_reviewer", "governance_officer"}),
      MCPrincipal("uma", {"user"})},
   resources |-> {MCResource(id) : id \in resources},
   issuerMandates |-> {MCMandate("root"), MCMandate("ann")},
   clearances |-> clearances, denials |-> {}]

MCClearanceFor(resources, id, subject, role, issuer, expires) ==
  [id |-> id, subject |-> subject, role |-> role, issuer |-> issuer, domain |-> "law",
   modes |-> {"GOVERNANCE"}, resources |-> resources, operations |-> {"read", "review_release"},
   purposes |-> {"audit"}, environments |-> {"test"},
   issuedAt |-> 0, expiresAt |-> expires, revoked |-> FALSE]

MCSubjectOf(audience, candidate) ==
  [wellFormed |-> TRUE, accessMode |-> "GOVERNANCE", domain |-> "law", resource |-> "doc",
   audience |-> audience, requester |-> "uma", producer |-> "uma", policyVersion |-> "v1",
   purpose |-> "audit", environment |-> "test", organization |-> "org",
   policy_digest |-> "digest", candidate |-> candidate]
=============================================================================
