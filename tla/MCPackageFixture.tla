-------------------------- MODULE MCPackageFixture --------------------------
(***************************************************************************)
(* A candidate answer for model checking.  It has two words (offsets 0 and *)
(* 2) and cites two sources, the second captured at time 1 and starting    *)
(* with a space.                                                           *)
(***************************************************************************)
MCAnswer == <<TRUE, FALSE, TRUE>>

MCText1 == <<TRUE, TRUE>>

MCText2 == <<FALSE, TRUE>>

MCReceipt(id, content, resource, at) ==
  [source_id |-> id, content |-> content, resource |-> resource,
   organization |-> "org", domain |-> "law", captured_at |-> at]

MCReceipts == <<MCReceipt("s1", MCText1, "book", 0), MCReceipt("s2", MCText2, "page", 1)>>

MCRefs == <<[source_id |-> "s1", content |-> MCText1], [source_id |-> "s2", content |-> MCText2]>>

MCProvenance == [answer |-> MCAnswer, completed_at |-> 1, request |-> "r1"]

MCCandidate(refs) ==
  [wellFormed |-> TRUE, trace_id |-> "t1", manifest |-> "m", provenance |-> MCProvenance,
   answer |-> MCAnswer, source_refs |-> refs]

MCContext(trace, receipts) ==
  [candidateContext |->
     [inputDecision  |-> [allowed |-> TRUE, trace_id |-> trace, manifest |-> "m"],
      invocation     |-> MCProvenance,
      sourceReceipts |-> MCRefs],
   evidenceReceipts |-> receipts]

MCSource(receipt, text) ==
  [source_id |-> receipt.source_id, content |-> receipt.content, resource |-> receipt.resource,
   organization |-> "org", domain |-> "law", captured_at |-> receipt.captured_at, text |-> text]

MCQuote(id, start, end) == [source_id |-> id, start |-> start, end |-> end]

MCClaim(id, start, end, support) ==
  [id |-> id, start |-> start, end |-> end, support |-> support]

MCOutputAdmissible(input, answer) == input.allowed
=============================================================================
