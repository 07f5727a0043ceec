------------------------ MODULE PackageDraftingProofs ------------------------
(***************************************************************************)
(* Proofs about candidate packages: what passes the checks is grounded in  *)
(* the captured sources, and passes them again later, in its own context   *)
(* only; for answers, sources and claims of any number and any length.     *)
(***************************************************************************)
EXTENDS PackageDrafting, FiniteSetTheorems, TLAPS
-----------------------------------------------------------------------------
(* A set of numbers has a least one.                                        *)
LEMMA LeastElement ==
  ASSUME NEW T \in SUBSET Nat, T # {}
  PROVE  \E x \in T : \A y \in T : x <= y
<1> DEFINE R == OpToRel(<, Nat)
<1>1. \A x, y \in Nat : y < x => <<y, x>> \in R BY DEF OpToRel
<1>2. IsWellFoundedOn(R, Nat) BY NatLessThanWellFounded
<1> HIDE DEF R
<1>3. PICK x \in T : \A y \in T : ~(<<y, x>> \in R) BY <1>2, WFMin
<1>4. \A y \in T : ~(y < x) BY <1>1, <1>3
<1>5. QED BY <1>4

LEMMA FirstRefusalOK ==
  ASSUME NEW codes, DOMAIN codes \subseteq Nat
  PROVE  FirstRefusal(codes) = "OK" <=> \A n \in DOMAIN codes : codes[n] = "OK"
<1> DEFINE failing == {n \in DOMAIN codes : codes[n] # "OK"}
           first == CHOOSE n \in failing : \A m \in failing : n <= m
<1>1. FirstRefusal(codes) = IF failing = {} THEN "OK" ELSE codes[first]
  BY Zenon DEF FirstRefusal
<1>2. ASSUME failing # {} PROVE first \in failing
  <2>1. failing \in SUBSET Nat OBVIOUS
  <2>2. \E n \in failing : \A m \in failing : n <= m BY <1>2, <2>1, LeastElement, Zenon
  <2> HIDE DEF failing
  <2>3. QED BY <2>2, Zenon
<1> HIDE DEF first
<1>3. QED BY <1>1, <1>2

(* As many different values as items, where no value appears twice.         *)
LEMMA ColumnCounted ==
  ASSUME NEW S, NEW items \in Seq(S), NEW field, IsInjective(Column(items, field))
  PROVE  LET values == {items[i][field] : i \in DOMAIN items}
         IN  IsFiniteSet(values) /\ Cardinality(values) = Len(items)
<1> DEFINE values == {items[i][field] : i \in DOMAIN items}
           n == Len(items)
           f == Column(items, field)
<1>1. n \in Nat /\ DOMAIN items = 1..n OBVIOUS
<1>2. f = [i \in 1..n |-> items[i][field]] BY <1>1 DEF Column
<1>3. f \in [1..n -> values] BY <1>1, <1>2
<1>4. \A v \in values : \E i \in 1..n : f[i] = v BY <1>1, <1>2
<1> HIDE DEF f, values, n
<1>5. f \in Injection(1..n, values) BY <1>3 DEF Injection, f
<1>6. f \in Surjection(1..n, values) BY <1>3, <1>4 DEF Surjection
<1>7. f \in Bijection(1..n, values) BY <1>5, <1>6 DEF Bijection
<1>8. ExistsBijection(1..n, values) BY <1>7 DEF ExistsBijection
<1>9. IsFiniteSet(values) BY <1>1, <1>8, FS_NatBijection
<1>10. Cardinality(values) = n BY <1>1, <1>8, FS_CountingElements
<1>11. QED BY <1>9, <1>10 DEF values, n
-----------------------------------------------------------------------------
(* What is asked of a source.                                               *)
Sound(src, sub, ctx, t) ==
  /\ Receipted(src, ctx.evidenceReceipts)
  /\ src.organization = sub.organization /\ src.domain = sub.domain
  /\ ~(src.captured_at > t)
  /\ src.content = src.text
  /\ [source_id |-> src.source_id, content |-> src.content]
       \in Range(sub.candidate.candidate.source_refs)

LEMMA SourceCodeOK ==
  ASSUME NEW src, NEW sub, NEW ctx, NEW t
  PROVE  SourceCode(src, sub, ctx, t) = "OK" <=> Sound(src, sub, ctx, t)
<1> DEFINE received == Receipted(src, ctx.evidenceReceipts)
           scoped == src.organization = sub.organization /\ src.domain = sub.domain
           future == src.captured_at > t
           same == src.content = src.text
           cited == [source_id |-> src.source_id, content |-> src.content]
                      \in Range(sub.candidate.candidate.source_refs)
<1>1. SourceCode(src, sub, ctx, t)
        = IF ~received THEN "SOURCE_RECEIPT_MISMATCH"
          ELSE IF ~scoped THEN "SOURCE_SCOPE_MISMATCH"
          ELSE IF future THEN "FUTURE_SOURCE"
          ELSE IF ~(same /\ cited) THEN "SOURCE_CONTENT_MISMATCH"
          ELSE "OK"
  BY Zenon DEF SourceCode
<1> HIDE DEF received, scoped, future, same, cited
<1>2. SourceCode(src, sub, ctx, t) = "OK" <=> received /\ scoped /\ ~future /\ same /\ cited
  BY <1>1
<1>3. QED BY <1>2, Zenon DEF Sound, received, scoped, future, same, cited

LEMMA SourcesCodeOK ==
  ASSUME NEW S, NEW sub, NEW ctx, NEW t, sub.candidate.sources \in Seq(S)
  PROVE  SourcesCode(sub, ctx, t) = "OK"
           <=> /\ IsInjective(Column(ctx.evidenceReceipts, "source_id"))
               /\ IsInjective(Column(sub.candidate.sources, "source_id"))
               /\ Len(sub.candidate.candidate.source_refs) = Len(sub.candidate.sources)
               /\ Len(ctx.evidenceReceipts) = Len(sub.candidate.sources)
               /\ Len(ctx.candidateContext.sourceReceipts) = Len(sub.candidate.sources)
               /\ \A n \in DOMAIN sub.candidate.sources :
                    SourceCode(sub.candidate.sources[n], sub, ctx, t) = "OK"
<1> DEFINE pkg == sub.candidate
           codes == [n \in DOMAIN pkg.sources |-> SourceCode(pkg.sources[n], sub, ctx, t)]
           receipts == IsInjective(Column(ctx.evidenceReceipts, "source_id"))
           distinct == IsInjective(Column(pkg.sources, "source_id"))
           sizes == /\ Len(pkg.candidate.source_refs) = Len(pkg.sources)
                    /\ Len(ctx.evidenceReceipts) = Len(pkg.sources)
                    /\ Len(ctx.candidateContext.sourceReceipts) = Len(pkg.sources)
<1>1. SourcesCode(sub, ctx, t)
        = IF ~receipts THEN "INVALID_SOURCE_RECEIPTS"
          ELSE IF ~distinct THEN "DUPLICATE_SOURCE"
          ELSE IF ~sizes THEN "SOURCE_SET_MISMATCH"
          ELSE FirstRefusal(codes)
  BY Zenon DEF SourcesCode
<1>2. DOMAIN codes \subseteq Nat OBVIOUS
<1>3. FirstRefusal(codes) = "OK" <=> \A n \in DOMAIN codes : codes[n] = "OK"
  BY <1>2, FirstRefusalOK, Zenon
<1>4. FirstRefusal(codes) = "OK"
        <=> \A n \in DOMAIN pkg.sources : SourceCode(pkg.sources[n], sub, ctx, t) = "OK"
  BY <1>3
<1> HIDE DEF codes, receipts, distinct, sizes
<1>5. SourcesCode(sub, ctx, t) = "OK"
        <=> receipts /\ distinct /\ sizes /\ FirstRefusal(codes) = "OK"
  BY <1>1
<1>6. QED BY <1>4, <1>5 DEF receipts, distinct, sizes

LEMMA ClaimCodeOK ==
  ASSUME NEW n, NEW stated, NEW answer, NEW used, ClaimCode(n, stated, answer, used) = "OK"
  PROVE  /\ ~\E m \in 1..(n - 1) : Span(stated[n]) \cap Span(stated[m]) # {}
         /\ \A i \in DOMAIN stated[n].support : SupportCode(stated[n].support[i], used) = "OK"
<1> DEFINE valid == ValidSpan(stated[n], answer)
           overlaps == \E m \in 1..(n - 1) : Span(stated[n]) \cap Span(stated[m]) # {}
           once == IsInjective(stated[n].support)
           unsupported == \E i \in DOMAIN stated[n].support :
                            SupportCode(stated[n].support[i], used) # "OK"
<1>1. ClaimCode(n, stated, answer, used)
        = IF ~valid THEN "INVALID_CLAIM_SPAN"
          ELSE IF overlaps THEN "OVERLAPPING_CLAIMS"
          ELSE IF ~once THEN "DUPLICATE_SUPPORT"
          ELSE IF unsupported THEN "INVALID_SUPPORT"
          ELSE "OK"
  BY Zenon DEF ClaimCode
<1> HIDE DEF valid, overlaps, once, unsupported
<1>2. ~overlaps /\ ~unsupported BY <1>1
<1>3. QED BY <1>2 DEF overlaps, unsupported

LEMMA ClaimsCodeOK ==
  ASSUME NEW S, NEW pkg, pkg.claims \in Seq(S), ClaimsCode(pkg) = "OK"
  PROVE  /\ \A n \in DOMAIN pkg.claims :
              ClaimCode(n, pkg.claims, pkg.candidate.answer, pkg.sources) = "OK"
         /\ \A i \in DOMAIN pkg.candidate.answer :
              pkg.candidate.answer[i] => i - 1 \in Covered(pkg.claims)
         /\ Cardinality(Used(pkg.claims)) = Len(pkg.sources)
<1> DEFINE answer == pkg.candidate.answer
           stated == pkg.claims
           codes == [n \in DOMAIN stated |-> ClaimCode(n, stated, answer, pkg.sources)]
           distinct == IsInjective(Column(stated, "id"))
           uncovered == \E i \in DOMAIN answer : answer[i] /\ i - 1 \notin Covered(stated)
           unused == Cardinality(Used(stated)) # Len(pkg.sources)
<1>1. ClaimsCode(pkg)
        = IF ~distinct THEN "DUPLICATE_CLAIM"
          ELSE IF FirstRefusal(codes) # "OK" THEN FirstRefusal(codes)
          ELSE IF uncovered THEN "UNCOVERED_ANSWER_TEXT"
          ELSE IF unused THEN "UNUSED_SOURCE"
          ELSE "OK"
  BY Zenon DEF ClaimsCode
<1>2. DOMAIN codes \subseteq Nat OBVIOUS
<1>3. FirstRefusal(codes) = "OK" <=> \A n \in DOMAIN codes : codes[n] = "OK"
  BY <1>2, FirstRefusalOK, Zenon
<1>4. FirstRefusal(codes) = "OK"
        => \A n \in DOMAIN stated : ClaimCode(n, stated, answer, pkg.sources) = "OK"
  BY <1>3
<1> HIDE DEF codes, distinct, uncovered, unused
<1>5. FirstRefusal(codes) = "OK" /\ ~uncovered /\ ~unused BY <1>1
<1>6. QED BY <1>4, <1>5 DEF uncovered, unused

LEMMA PackageCodeOK ==
  ASSUME NEW sub, NEW ctx, NEW t
  PROVE  PackageCode(sub, ctx, t) = "OK"
           <=> /\ ~(t < 0) /\ sub.wellFormed /\ ValidPackage(sub.candidate)
               /\ sub.policyVersion = PolicyVersion /\ sub.policy_digest = PolicyDigest
               /\ CandidateCode(sub.candidate.candidate, ctx.candidateContext) = "OK"
               /\ InContext(sub.candidate, ctx)
               /\ ~(sub.candidate.candidate.provenance.completed_at > t)
               /\ OutputAdmissible(ctx.candidateContext.inputDecision,
                                   sub.candidate.candidate.answer)
               /\ SourcesCode(sub, ctx, t) = "OK"
               /\ ClaimsCode(sub.candidate) = "OK"
<1> DEFINE pkg == sub.candidate
           early == t < 0
           formed == sub.wellFormed
           valid == ValidPackage(pkg)
           policy == sub.policyVersion = PolicyVersion /\ sub.policy_digest = PolicyDigest
           answers == CandidateCode(pkg.candidate, ctx.candidateContext)
           inContext == InContext(pkg, ctx)
           future == pkg.candidate.provenance.completed_at > t
           admitted == OutputAdmissible(ctx.candidateContext.inputDecision, pkg.candidate.answer)
           sourced == SourcesCode(sub, ctx, t)
           claimed == ClaimsCode(pkg)
<1>1. PackageCode(sub, ctx, t)
        = IF early THEN "INVALID_REVIEW_TIME"
          ELSE IF ~(formed /\ valid) THEN "INVALID_CANDIDATE_REVIEW_PACKAGE"
          ELSE IF ~policy THEN "SCOPE_OR_POLICY_MISMATCH"
          ELSE IF answers # "OK" THEN answers
          ELSE IF ~inContext THEN "CANDIDATE_CONTEXT_MISMATCH"
          ELSE IF future THEN "FUTURE_CANDIDATE"
          ELSE IF ~admitted THEN "CANDIDATE_OUTPUT_REFUSED"
          ELSE IF sourced # "OK" THEN sourced
          ELSE claimed
  BY Zenon DEF PackageCode
<1> HIDE DEF early, formed, valid, policy, answers, inContext, future, admitted, sourced, claimed
<1>2. PackageCode(sub, ctx, t) = "OK"
        <=> /\ ~early /\ formed /\ valid /\ policy /\ answers = "OK" /\ inContext
            /\ ~future /\ admitted /\ sourced = "OK" /\ claimed = "OK"
  BY <1>1
<1>3. QED
  BY <1>2 DEF early, formed, valid, policy, answers, inContext, future, admitted, sourced, claimed
-----------------------------------------------------------------------------
LEMMA PreparedFields ==
  ASSUME NEW cand, NEW ctx, NEW src, NEW stated, NEW sub,
         sub = Prepared(cand, ctx, Scope, src, stated)
  PROVE  /\ sub.organization = Scope.organization /\ sub.domain = Scope.domain
         /\ sub.candidate.candidate = cand /\ sub.candidate.context = ctx
         /\ sub.candidate.sources = src /\ sub.candidate.claims = stated
<1> DEFINE pkg == [candidate |-> cand, context |-> ctx, sources |-> src, claims |-> stated]
<1>1. sub = [x \in DOMAIN Scope \cup {"candidate"} |->
               IF x = "candidate" THEN pkg ELSE Scope[x]]
  BY Zenon DEF Prepared
<1>2. "organization" \in DOMAIN Scope /\ "domain" \in DOMAIN Scope
  BY DraftFormats, Zenon
<1>3. sub.candidate = pkg
  <2> HIDE DEF pkg
  <2>1. QED BY <1>1
<1>4. sub.organization = Scope.organization /\ sub.domain = Scope.domain
  <2> HIDE DEF pkg
  <2>1. QED BY <1>1, <1>2
<1>5. QED BY <1>3, <1>4

(* Every visible character belongs to exactly one claim.                    *)
LEMMA ClaimedOnce ==
  ASSUME NEW S, NEW stated \in Seq(S), NEW answer, NEW used,
         \A n \in DOMAIN stated : ClaimCode(n, stated, answer, used) = "OK",
         NEW offset \in Covered(stated)
  PROVE  Cardinality({n \in DOMAIN stated : offset \in Span(stated[n])}) = 1
<1> DEFINE holders == {n \in DOMAIN stated : offset \in Span(stated[n])}
<1>1. PICK k \in DOMAIN stated : offset \in Span(stated[k]) BY Zenon DEF Covered
<1>2. \A n \in DOMAIN stated : \A m \in 1..(n - 1) : Span(stated[n]) \cap Span(stated[m]) = {}
  <2>1. \A n \in DOMAIN stated : ~\E m \in 1..(n - 1) : Span(stated[n]) \cap Span(stated[m]) # {}
    BY ClaimCodeOK
  <2>2. QED BY <2>1, Zenon
<1>3. ASSUME NEW n \in holders PROVE n = k
  <2>1. n \in Nat /\ k \in Nat /\ n >= 1 /\ k >= 1 BY <1>1, <1>3
  <2>2. ~(n < k)
    <3>1. ASSUME n < k PROVE n \in 1..(k - 1) BY <2>1, <3>1
    <3>2. QED BY <1>1, <1>2, <1>3, <3>1
  <2>3. ~(k < n)
    <3>1. ASSUME k < n PROVE k \in 1..(n - 1) BY <2>1, <3>1
    <3>2. QED BY <1>1, <1>2, <1>3, <3>1
  <2>4. QED BY <2>1, <2>2, <2>3
<1>4. k \in holders BY <1>1
<1> HIDE DEF holders
<1>5. holders = {k} BY <1>3, <1>4
<1>6. Cardinality(holders) = 1 BY <1>5, FS_Singleton
<1>7. QED BY <1>6 DEF holders

(* The package is about sources the author may attach, and quotes them.     *)
Drafted(sub, ctx, src, stated) ==
  /\ ctx \in Captured /\ src \in Seq(Source) /\ stated \in Seq(Claim)
  /\ sub.organization = Scope.organization /\ sub.domain = Scope.domain
  /\ sub.candidate.context = ctx
  /\ sub.candidate.sources = src /\ sub.candidate.claims = stated
  /\ PackageCode(sub, ctx, now) = "OK"

(* The receipt of a source is its only one, and says what the source says.  *)
LEMMA ReceiptOfSource ==
  ASSUME NEW sub, NEW ctx, NEW src, NEW stated, Drafted(sub, ctx, src, stated),
         now \in Nat, NEW n \in DOMAIN src
  PROVE  /\ ReceiptsOf(src[n].source_id, ctx) # {}
         /\ \A receipt \in ReceiptsOf(src[n].source_id, ctx) :
              /\ receipt.source_id = src[n].source_id
              /\ receipt.content = src[n].text
              /\ receipt.captured_at <= now
              /\ receipt.organization = Scope.organization /\ receipt.domain = Scope.domain
<1> DEFINE s == src[n]
           receipts == ctx.evidenceReceipts
<1>1. src \in Seq(Source) /\ sub.candidate.sources = src /\ PackageCode(sub, ctx, now) = "OK"
      /\ sub.organization = Scope.organization /\ sub.domain = Scope.domain
  BY Zenon DEF Drafted
<1>2. SourcesCode(sub, ctx, now) = "OK" BY <1>1, PackageCodeOK
<1>3. /\ IsInjective(Column(receipts, "source_id"))
      /\ SourceCode(s, sub, ctx, now) = "OK"
  BY <1>1, <1>2, SourcesCodeOK
<1>4. /\ Receipted(s, receipts)
      /\ s.organization = Scope.organization /\ s.domain = Scope.domain
      /\ ~(s.captured_at > now) /\ s.content = s.text
  <2> HIDE DEF s
  <2>0. Sound(s, sub, ctx, now) BY <1>3, SourceCodeOK, Zenon
  <2>1. /\ Receipted(s, receipts)
        /\ s.organization = sub.organization /\ s.domain = sub.domain
        /\ ~(s.captured_at > now) /\ s.content = s.text
    BY <2>0, Zenon DEF Sound
  <2>2. QED BY <1>1, <2>1, Zenon
<1>5. PICK i \in DOMAIN receipts : receipts[i] = [x \in DOMAIN s \ {"text"} |-> s[x]]
  BY <1>4, Zenon DEF Receipted
<1>6. s \in Source BY <1>1
<1>7. /\ {"source_id", "content", "organization", "domain", "captured_at", "text"} \subseteq DOMAIN s
      /\ s.captured_at \in Nat
  BY <1>6, DraftFormats, Zenon
<1> DEFINE receipt == receipts[i]
<1> HIDE DEF s
<1>8. /\ receipt.source_id = s.source_id /\ receipt.content = s.text
      /\ receipt.captured_at = s.captured_at
      /\ receipt.organization = Scope.organization /\ receipt.domain = Scope.domain
  <2>1. \A x \in DOMAIN s : x # "text" => receipt[x] = s[x] BY <1>5
  <2> HIDE DEF receipt
  <2>2. QED BY <2>1, <1>4, <1>7
<1>9. receipt \in ReceiptsOf(s.source_id, ctx) BY <1>8 DEF ReceiptsOf, Range
<1>10. \A other \in ReceiptsOf(s.source_id, ctx) : other = receipt
  <2> SUFFICES ASSUME NEW other \in ReceiptsOf(s.source_id, ctx) PROVE other = receipt
    OBVIOUS
  <2>1. PICK j \in DOMAIN receipts : other = receipts[j] /\ receipts[j].source_id = s.source_id
    BY DEF ReceiptsOf, Range
  <2> DEFINE f == Column(receipts, "source_id")
  <2>2. DOMAIN f = DOMAIN receipts /\ f[i] = receipts[i].source_id /\ f[j] = receipts[j].source_id
    BY <2>1 DEF Column
  <2>3. i = j BY <1>3, <1>8, <2>1, <2>2 DEF IsInjective
  <2>4. QED BY <2>1, <2>3
<1>11. receipt.captured_at <= now BY <1>4, <1>7, <1>8
<1> HIDE DEF receipt
<1>12. QED BY <1>8, <1>9, <1>10, <1>11 DEF s

LEMMA SupportCodeOK ==
  ASSUME NEW support, NEW used, SupportCode(support, used) = "OK"
  PROVE  \E i \in DOMAIN used :
           used[i].source_id = support.source_id /\ ValidSpan(support, used[i].text)
<1> DEFINE cited == {i \in DOMAIN used : used[i].source_id = support.source_id}
           outside == \E i \in cited : ~ValidSpan(support, used[i].text)
<1>1. SupportCode(support, used)
        = IF cited = {} THEN "UNKNOWN_SUPPORT_SOURCE"
          ELSE IF outside THEN "INVALID_SUPPORT_SPAN"
          ELSE "OK"
  BY Zenon DEF SupportCode
<1>2. cited # {} /\ ~outside
  <2> HIDE DEF cited, outside
  <2>1. QED BY <1>1
<1>3. QED BY <1>2

(* A claim's support comes from a source, and quotes text one can see.      *)
LEMMA SupportedBySource ==
  ASSUME NEW sub, NEW ctx, NEW src, NEW stated, Drafted(sub, ctx, src, stated),
         NEW n \in DOMAIN stated, NEW support \in Range(stated[n].support)
  PROVE  \E i \in DOMAIN src :
           src[i].source_id = support.source_id /\ ValidSpan(support, src[i].text)
<1>1. /\ sub.candidate.sources = src /\ sub.candidate.claims = stated
      /\ stated \in Seq(Claim) /\ PackageCode(sub, ctx, now) = "OK"
  BY Zenon DEF Drafted
<1>2. ClaimsCode(sub.candidate) = "OK" BY <1>1, PackageCodeOK
<1>3. ClaimCode(n, stated, sub.candidate.candidate.answer, src) = "OK"
  BY <1>1, <1>2, ClaimsCodeOK
<1>4. PICK k \in DOMAIN stated[n].support : support = stated[n].support[k]
  BY Zenon DEF Range
<1>5. \A k2 \in DOMAIN stated[n].support : SupportCode(stated[n].support[k2], src) = "OK"
  BY <1>3, ClaimCodeOK
<1>6. SupportCode(support, src) = "OK" BY <1>4, <1>5
<1>7. QED BY <1>6, SupportCodeOK, Zenon

LEMMA ClaimIsSourced ==
  ASSUME NEW sub, NEW ctx, NEW src, NEW stated, Drafted(sub, ctx, src, stated),
         now \in Nat, NEW n \in DOMAIN stated
  PROVE  Sourced(stated[n], ctx)
<1> DEFINE claim == stated[n]
<1>1. /\ sub.candidate.claims = stated /\ stated \in Seq(Claim) /\ src \in Seq(Source)
      /\ PackageCode(sub, ctx, now) = "OK"
  BY Zenon DEF Drafted
<1>2. ValidPackage(sub.candidate) BY <1>1, PackageCodeOK
<1>3. claim.support # <<>> BY <1>1, <1>2 DEF ValidPackage
<1>4. claim \in Claim BY <1>1
<1>5. ASSUME NEW support \in Range(claim.support)
      PROVE  /\ ReceiptsOf(support.source_id, ctx) # {}
             /\ \A receipt \in ReceiptsOf(support.source_id, ctx) :
                  /\ receipt.captured_at <= now
                  /\ receipt.organization = Scope.organization /\ receipt.domain = Scope.domain
                  /\ \E offset \in Span(support) \cap (0..(Len(receipt.content) - 1)) :
                       receipt.content[offset + 1]
  <2>1. PICK i \in DOMAIN src :
          src[i].source_id = support.source_id /\ ValidSpan(support, src[i].text)
    BY <1>5, SupportedBySource
  <2>2. /\ ReceiptsOf(support.source_id, ctx) # {}
        /\ \A receipt \in ReceiptsOf(support.source_id, ctx) :
             /\ receipt.content = src[i].text
             /\ receipt.captured_at <= now
             /\ receipt.organization = Scope.organization /\ receipt.domain = Scope.domain
    BY <2>1, ReceiptOfSource
  <2> DEFINE text == src[i].text
  <2>3. src[i] \in Source BY <1>1
  <2>4. IsSequence(text) BY <2>3, DraftFormats, Zenon
  <2>5. support.start \in Nat /\ support.end \in Nat BY <1>4, <1>5, DraftFormats, Zenon
  <2> HIDE DEF text
  <2>6. Len(text) \in Nat BY <2>4 DEF IsSequence
  <2>7. \E offset \in Span(support) \cap (0..(Len(text) - 1)) : text[offset + 1]
    <3>1. ValidSpan(support, text) BY <2>1 DEF text
    <3>2. PICK offset \in Span(support) : text[offset + 1] BY <3>1, Zenon DEF ValidSpan
    <3>3. support.end <= Len(text) BY <3>1, Zenon DEF ValidSpan
    <3>4. offset \in 0..(Len(text) - 1) BY <2>5, <2>6, <3>2, <3>3 DEF Span
    <3>5. QED BY <3>2, <3>4
  <2>8. QED BY <2>2, <2>7 DEF text
<1>6. QED BY <1>3, <1>5, Zenon DEF Sourced

(* The sources quoted are those captured: each set is as large as the list  *)
(* of sources.                                                              *)
LEMMA SourcesAreUsed ==
  ASSUME NEW sub, NEW ctx, NEW src, NEW stated, Drafted(sub, ctx, src, stated), now \in Nat
  PROVE  {receipt.source_id : receipt \in Range(ctx.evidenceReceipts)} = Used(stated)
<1> DEFINE receipts == ctx.evidenceReceipts
           ids == {src[i].source_id : i \in DOMAIN src}
           captured == {receipts[i].source_id : i \in DOMAIN receipts}
           used == Used(stated)
<1>1. /\ sub.candidate.sources = src /\ sub.candidate.claims = stated
      /\ src \in Seq(Source) /\ stated \in Seq(Claim) /\ ctx \in Captured
      /\ PackageCode(sub, ctx, now) = "OK"
  BY Zenon DEF Drafted
<1>2. SourcesCode(sub, ctx, now) = "OK" /\ ClaimsCode(sub.candidate) = "OK"
  BY <1>1, PackageCodeOK
<1>3. /\ IsInjective(Column(receipts, "source_id")) /\ IsInjective(Column(src, "source_id"))
      /\ Len(receipts) = Len(src)
  BY <1>1, <1>2, SourcesCodeOK
<1>4. IsFiniteSet(ids) /\ Cardinality(ids) = Len(src) BY <1>1, <1>3, ColumnCounted
<1>5. receipts \in Seq(Range(receipts)) BY <1>1, DraftFormats, Zenon DEF IsSequence
<1>6. IsFiniteSet(captured) /\ Cardinality(captured) = Len(src)
  BY <1>3, <1>5, ColumnCounted
<1>7. Cardinality(used) = Len(src) BY <1>1, <1>2, ClaimsCodeOK
<1>8. used \subseteq ids
  <2> SUFFICES ASSUME NEW id \in used PROVE id \in ids OBVIOUS
  <2>0. PICK support \in UNION {Range(stated[n].support) : n \in DOMAIN stated} :
          id = support.source_id
    BY Zenon DEF Used
  <2>1. PICK n \in DOMAIN stated : support \in Range(stated[n].support) BY <2>0, Zenon
  <2>2. PICK i \in DOMAIN src : src[i].source_id = support.source_id
    BY <2>1, SupportedBySource
  <2>3. QED BY <2>0, <2>2
<1>9. ids \subseteq captured
  <2> SUFFICES ASSUME NEW i \in DOMAIN src PROVE src[i].source_id \in captured OBVIOUS
  <2>1. PICK receipt \in ReceiptsOf(src[i].source_id, ctx) : TRUE BY ReceiptOfSource
  <2>2. PICK k \in DOMAIN receipts : receipts[k].source_id = src[i].source_id
    BY <2>1 DEF ReceiptsOf, Range
  <2>3. QED BY <2>2
<1>10. {receipt.source_id : receipt \in Range(receipts)} = captured BY DEF Range
<1> HIDE DEF ids, captured, used
<1>11. used = ids BY <1>4, <1>7, <1>8, FS_Subset
<1>12. ids = captured BY <1>4, <1>6, <1>9, FS_Subset
<1>13. QED BY <1>10, <1>11, <1>12 DEF used
-----------------------------------------------------------------------------
(* What was prepared, was so from the answer at hand, and passes the checks *)
(* in its own context to this day.                                          *)
Standing ==
  \E ctx \in Captured, src \in Seq(Source), stated \in Seq(Claim) :
    /\ subject = Prepared(candidate, ctx, Scope, src, stated)
    /\ PackageCode(subject, ctx, now) = "OK"

DInv ==
  /\ candidate \in Candidate /\ context \in Captured
  /\ sources \in Seq(Source) /\ claims \in Seq(Claim)
  /\ now \in Nat
  /\ subject # None => Standing

(* A package that passed the checks passes them at any later time.          *)
LEMMA ValidLater ==
  ASSUME NEW ctx, NEW cand \in Candidate, NEW src \in Seq(Source), NEW stated, NEW sub,
         sub = Prepared(cand, ctx, Scope, src, stated),
         NEW t \in Nat, NEW later \in Nat, t <= later, PackageCode(sub, ctx, t) = "OK"
  PROVE  PackageCode(sub, ctx, later) = "OK"
<1>1. sub.candidate.candidate = cand /\ sub.candidate.sources = src BY PreparedFields
<1>2. /\ ~(t < 0) /\ sub.wellFormed /\ ValidPackage(sub.candidate)
      /\ sub.policyVersion = PolicyVersion /\ sub.policy_digest = PolicyDigest
      /\ CandidateCode(sub.candidate.candidate, ctx.candidateContext) = "OK"
      /\ InContext(sub.candidate, ctx)
      /\ ~(sub.candidate.candidate.provenance.completed_at > t)
      /\ OutputAdmissible(ctx.candidateContext.inputDecision, sub.candidate.candidate.answer)
      /\ SourcesCode(sub, ctx, t) = "OK"
      /\ ClaimsCode(sub.candidate) = "OK"
  BY PackageCodeOK
<1>3. ~(later < 0) OBVIOUS
<1>4. cand.provenance.completed_at \in Nat BY DraftFormats, Zenon
<1>5. ~(sub.candidate.candidate.provenance.completed_at > later) BY <1>1, <1>2, <1>4
<1>6. SourcesCode(sub, ctx, later) = "OK"
  <2> DEFINE listed == sub.candidate.sources
  <2>0. listed \in Seq(Source) BY <1>1
  <2>1. /\ IsInjective(Column(ctx.evidenceReceipts, "source_id"))
        /\ IsInjective(Column(listed, "source_id"))
        /\ Len(sub.candidate.candidate.source_refs) = Len(listed)
        /\ Len(ctx.evidenceReceipts) = Len(listed)
        /\ Len(ctx.candidateContext.sourceReceipts) = Len(listed)
        /\ \A n \in DOMAIN listed : SourceCode(listed[n], sub, ctx, t) = "OK"
    BY <2>0, <1>2, SourcesCodeOK
  <2>2. ASSUME NEW n \in DOMAIN listed PROVE SourceCode(listed[n], sub, ctx, later) = "OK"
    <3> DEFINE s == listed[n]
    <3>1. s \in Source BY <2>0
    <3>2. s.captured_at \in Nat BY <3>1, DraftFormats, Zenon
    <3>3. SourceCode(s, sub, ctx, t) = "OK" BY <2>1
    <3> HIDE DEF s
    <3>4. Sound(s, sub, ctx, t) BY <3>3, SourceCodeOK, Zenon
    <3>5. ~(s.captured_at > t) BY <3>4, Zenon DEF Sound
    <3>6. ~(s.captured_at > later) BY <3>2, <3>5
    <3>7. Sound(s, sub, ctx, later) BY <3>4, <3>6, Zenon DEF Sound
    <3>8. SourceCode(s, sub, ctx, later) = "OK" BY <3>7, SourceCodeOK, Zenon
    <3>9. QED BY <3>8 DEF s
  <2>3. QED BY <2>0, <2>1, <2>2, SourcesCodeOK
<1>7. QED BY <1>2, <1>3, <1>5, <1>6, PackageCodeOK

LEMMA DInvInvariant == Spec => []DInv
<1>1. Init => DInv
  <2> SUFFICES ASSUME Init PROVE DInv OBVIOUS
  <2>1. /\ candidate \in Candidate /\ context \in Captured
        /\ sources = <<>> /\ claims = <<>> /\ now = 0 /\ subject = None
    BY DEF Init
  <2>2. QED BY <2>1 DEF DInv
<1>2. DInv /\ [Next]_vars => DInv'
  <2> SUFFICES ASSUME DInv, [Next]_vars PROVE DInv' OBVIOUS
  <2>1. ASSUME NEW source \in Source, Attach(source) PROVE DInv'
    <3>1. /\ sources' = Append(sources, source) /\ subject = None /\ candidate' = candidate
          /\ context' = context /\ claims' = claims /\ now' = now /\ subject' = subject
      BY <2>1 DEF Attach
    <3>2. sources' \in Seq(Source) BY <3>1 DEF DInv
    <3>3. QED BY <3>1, <3>2, Zenon DEF DInv
  <2>2. ASSUME NEW claim \in Claim, State(claim) PROVE DInv'
    <3>1. /\ claims' = Append(claims, claim) /\ subject = None /\ candidate' = candidate
          /\ context' = context /\ sources' = sources /\ now' = now /\ subject' = subject
      BY <2>2 DEF State
    <3>2. claims' \in Seq(Claim) BY <3>1 DEF DInv
    <3>3. QED BY <3>1, <3>2, Zenon DEF DInv
  <2>3. ASSUME NEW other \in Captured, Recapture(other) PROVE DInv'
    <3>1. /\ context' = other /\ candidate' = candidate /\ sources' = sources
          /\ claims' = claims /\ now' = now /\ subject' = subject
      BY <2>3 DEF Recapture
    <3>2. Standing => Standing' BY <3>1, Zenon DEF Standing
    <3>3. QED BY <3>1, <3>2, Zenon DEF DInv
  <2>4. CASE Tick
    <3>1. /\ now' = now + 1 /\ candidate' = candidate /\ context' = context
          /\ sources' = sources /\ claims' = claims /\ subject' = subject
      BY <2>4 DEF Tick
    <3>2. now \in Nat /\ candidate \in Candidate BY DEF DInv
    <3>3. now' \in Nat /\ now <= now' BY <3>1, <3>2
    <3>4. ASSUME Standing PROVE Standing'
      <4>1. PICK ctx \in Captured, src \in Seq(Source), stated \in Seq(Claim) :
              /\ subject = Prepared(candidate, ctx, Scope, src, stated)
              /\ PackageCode(subject, ctx, now) = "OK"
        BY <3>4, Zenon DEF Standing
      <4>2. PackageCode(subject, ctx, now') = "OK" BY <3>2, <3>3, <4>1, ValidLater
      <4>3. QED BY <3>1, <4>1, <4>2, Zenon DEF Standing
    <3>5. QED BY <3>1, <3>3, <3>4, Zenon DEF DInv
  <2>5. CASE Prepare
    <3>1. /\ subject' = Prepared(candidate, context, Scope, sources, claims)
          /\ PackageCode(Prepared(candidate, context, Scope, sources, claims), context, now) = "OK"
          /\ candidate' = candidate /\ context' = context /\ sources' = sources
          /\ claims' = claims /\ now' = now
      BY <2>5, Zenon DEF Prepare
    <3>2. /\ context \in Captured /\ sources \in Seq(Source) /\ claims \in Seq(Claim)
      BY DEF DInv
    <3>3. Standing' BY <3>1, <3>2, Zenon DEF Standing
    <3>4. QED BY <3>1, <3>3, Zenon DEF DInv
  <2>6. CASE UNCHANGED vars
    <3>1. /\ candidate' = candidate /\ context' = context /\ sources' = sources
          /\ claims' = claims /\ now' = now /\ subject' = subject
      BY <2>6 DEF vars
    <3>2. QED BY <3>1, Zenon DEF DInv, Standing
  <2>7. QED BY <2>1, <2>2, <2>3, <2>4, <2>5, <2>6, Zenon DEF Next
<1>3. QED BY <1>1, <1>2, PTL DEF Spec
-----------------------------------------------------------------------------
(* validateCandidateReviewSubject: in a prepared package every visible      *)
(* character of the answer belongs to exactly one claim, every claim quotes *)
(* visible captured text, and every captured source is quoted.              *)
THEOREM PreparedAlwaysGrounded == Spec => []PreparedIsGrounded
<1>1. DInv => PreparedIsGrounded
  <2> SUFFICES ASSUME DInv, subject # None PROVE PreparedIsGrounded
    BY Zenon DEF PreparedIsGrounded
  <2> DEFINE pkg == subject.candidate
  <2>1. PICK ctx \in Captured, src \in Seq(Source), stated \in Seq(Claim) :
          /\ subject = Prepared(candidate, ctx, Scope, src, stated)
          /\ PackageCode(subject, ctx, now) = "OK"
    BY Zenon DEF DInv, Standing
  <2>2. /\ subject.organization = Scope.organization /\ subject.domain = Scope.domain
        /\ pkg.candidate = candidate /\ pkg.context = ctx
        /\ pkg.sources = src /\ pkg.claims = stated
    BY <2>1, PreparedFields
  <2>3. Drafted(subject, ctx, src, stated) BY <2>1, <2>2, Zenon DEF Drafted
  <2>4. now \in Nat BY DEF DInv
  <2>5. ClaimsCode(pkg) = "OK" BY <2>1, PackageCodeOK
  <2>6. /\ \A n \in DOMAIN stated : ClaimCode(n, stated, candidate.answer, src) = "OK"
        /\ \A i \in DOMAIN candidate.answer :
             candidate.answer[i] => i - 1 \in Covered(stated)
    BY <2>2, <2>5, ClaimsCodeOK
  <2>7. \A i \in DOMAIN candidate.answer :
          candidate.answer[i]
          => Cardinality({n \in DOMAIN stated : i - 1 \in Span(stated[n])}) = 1
    BY <2>6, ClaimedOnce
  <2>8. \A claim \in Range(stated) : Sourced(claim, ctx)
    BY <2>3, <2>4, ClaimIsSourced DEF Range
  <2>9. {receipt.source_id : receipt \in Range(ctx.evidenceReceipts)} = Used(stated)
    BY <2>3, <2>4, SourcesAreUsed
  <2> HIDE DEF pkg
  <2>10. QED BY <2>2, <2>7, <2>8, <2>9, Zenon DEF PreparedIsGrounded, pkg
<1>2. QED BY <1>1, DInvInvariant, PTL

(* validateCandidateReviewSubject: a prepared package passes every later    *)
(* check in the context it was prepared in, and none in any other.          *)
THEOREM AlwaysValidInItsContextOnly == Spec => []ValidInItsContextOnly
<1>1. DInv => ValidInItsContextOnly
  <2> SUFFICES ASSUME DInv, subject # None
               PROVE  PackageCode(subject, context, now) = "OK"
                        <=> context = subject.candidate.context
    BY Zenon DEF ValidInItsContextOnly
  <2>1. PICK ctx \in Captured, src \in Seq(Source), stated \in Seq(Claim) :
          /\ subject = Prepared(candidate, ctx, Scope, src, stated)
          /\ PackageCode(subject, ctx, now) = "OK"
    BY Zenon DEF DInv, Standing
  <2>2. subject.candidate.context = ctx BY <2>1, PreparedFields
  <2>3. PackageCode(subject, context, now) = "OK" => InContext(subject.candidate, context)
    BY PackageCodeOK
  <2>4. QED BY <2>1, <2>2, <2>3, Zenon DEF InContext
<1>2. QED BY <1>1, DInvInvariant, PTL
=============================================================================
