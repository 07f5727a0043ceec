-------------------------- MODULE MCPackageDrafting --------------------------
(* Drafts about the answer of MCPackageFixture, right and wrong ones.       *)
EXTENDS PackageDrafting, MCPackageFixture

MCCandidates == {MCCandidate(MCRefs), MCCandidate(<<MCRefs[1], MCRefs[1]>>)}

(* As captured; in another order; a source captured again elsewhere.        *)
MCCaptured ==
  {MCContext("t1", MCReceipts),
   MCContext("t1", <<MCReceipts[2], MCReceipts[1]>>),
   MCContext("t1", <<MCReceipts[1], MCReceipt("s2", MCText2, "copy", 2)>>)}

MCScope ==
  [wellFormed |-> TRUE, organization |-> "org", domain |-> "law",
   policyVersion |-> "v1", policy_digest |-> "digest"]

MCSources ==
  {MCSource(MCReceipts[1], MCText1), MCSource(MCReceipts[2], MCText2),
   MCSource(MCReceipts[2], MCText1)}

MCSupports ==
  {<<MCQuote("s1", 0, 1)>>, <<MCQuote("s2", 1, 2), MCQuote("s1", 1, 2)>>, <<MCQuote("s2", 0, 1)>>}

MCSpans == {<<"c1", 0, 1>>, <<"c2", 2, 3>>, <<"c3", 0, 1>>, <<"c1", 0, 3>>, <<"c2", 2, 4>>}

MCClaims ==
  {MCClaim(span[1], span[2], span[3], support) : span \in MCSpans, support \in MCSupports}
=============================================================================
