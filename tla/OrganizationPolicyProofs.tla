----------------------- MODULE OrganizationPolicyProofs -----------------------
(***************************************************************************)
(* Proofs about the scoped policy and the organization whose records it    *)
(* judges: the greedy choice of reviewers, which is traced through its at  *)
(* most two turns, nobody's own clearances, and restrictions, for any      *)
(* principals, clearances, denials, records, requests and subjects.        *)
(***************************************************************************)
EXTENDS OrganizationPolicy, WellFoundedInduction, TLAPS
-----------------------------------------------------------------------------
(* A set of numbers has a least one.                                        *)
LEMMA LeastElement ==
  ASSUME NEW T \in SUBSET Nat, T # {}
  PROVE  \E x \in T : \A y \in T : ~(y < x)
<1> DEFINE R == OpToRel(<, Nat)
<1>1. \A x, y \in Nat : y < x => <<y, x>> \in R BY DEF OpToRel
<1>2. IsWellFoundedOn(R, Nat) BY NatLessThanWellFounded
<1> HIDE DEF R
<1>3. \E x \in T : \A y \in T : ~(<<y, x>> \in R) BY <1>2, WFMin
<1>4. QED BY <1>1, <1>3

(* find: the reviewer of one of the records, if there is any.               *)
LEMMA FirstReviewerFound ==
  ASSUME NEW reviews, NEW T \in SUBSET Nat
  PROVE  /\ T = {} => FirstReviewer(reviews, T) = NoOne
         /\ T # {} => \E i \in T : FirstReviewer(reviews, T) = reviews[i].reviewer
<1>1. T = {} => FirstReviewer(reviews, T) = NoOne BY DEF FirstReviewer
<1>2. ASSUME T # {} PROVE \E i \in T : FirstReviewer(reviews, T) = reviews[i].reviewer
  <2>1. PICK x \in T : \A y \in T : ~(y < x) BY <1>2, LeastElement
  <2>2. \A y \in T : x <= y BY <2>1
  <2> DEFINE first == CHOOSE i \in T : \A j \in T : i <= j
  <2>3. first \in T BY <2>2
  <2>4. FirstReviewer(reviews, T) = reviews[first].reviewer BY <1>2 DEF FirstReviewer
  <2>5. QED BY <2>3, <2>4
<1>3. QED BY <1>1, <1>2

(* The role names of a mode: one, or two different ones.                    *)
LEMMA RolesOfMode ==
  ASSUME NEW mode \in DOMAIN ReviewerRoles
  PROVE  LET roles == ReviewerRoles[mode]
         IN  /\ DOMAIN roles = 1..Len(roles)
             /\ Len(roles) = 1 \/ (Len(roles) = 2 /\ roles[1] # roles[2])
<1>1. mode \in {"DEFAULT", "GOVERNANCE", "ARCHITECT"} BY DEF ReviewerRoles
<1>2. QED BY <1>1 DEF ReviewerRoles
-----------------------------------------------------------------------------
(* The records that can fill a role for the subject.                        *)
Qualified(role, subject, reviews, taken, context) ==
  {i \in DOMAIN reviews : Qualifies(reviews[i], role, subject, taken, context)}

(* One turn of the loop over the roles.                                     *)
Turn(role, subject, reviews, chosen, context) ==
  FirstReviewer(reviews,
    {i \in DOMAIN reviews :
       Qualifies(reviews[i], role, subject, {chosen[n] : n \in DOMAIN chosen}, context)})

(* The function that the loop over the roles computes.                      *)
IsLoop(f, subject, reviews, context) ==
  LET roles == ReviewerRoles[subject.accessMode]
  IN  f = [n \in 0..Len(roles) |->
             IF n = 0 THEN <<>>
             ELSE Append(f[n - 1], Turn(roles[n], subject, reviews, f[n - 1], context))]

LEMMA ReviewersLoop ==
  ASSUME NEW subject, NEW reviews, NEW context
  PROVE  Reviewers(subject, reviews, context)
           = (CHOOSE f : IsLoop(f, subject, reviews, context))[Len(ReviewerRoles[subject.accessMode])]
  BY DEF Reviewers, IsLoop, Turn

(* The choice for the first role of the subject's mode, and for the second. *)
FirstChoice(subject, reviews, context) ==
  FirstReviewer(reviews,
    Qualified(ReviewerRoles[subject.accessMode][1], subject, reviews, {}, context))

SecondChoice(subject, reviews, context) ==
  FirstReviewer(reviews,
    Qualified(ReviewerRoles[subject.accessMode][2], subject, reviews,
              {FirstChoice(subject, reviews, context)}, context))

(* A turn before and after the first choice.                                *)
LEMMA FirstTurn ==
  ASSUME NEW role, NEW subject, NEW reviews, NEW context
  PROVE  Turn(role, subject, reviews, <<>>, context)
           = FirstReviewer(reviews, Qualified(role, subject, reviews, {}, context))
<1>1. {<<>>[i] : i \in DOMAIN <<>>} = {} OBVIOUS
<1>2. QED BY <1>1, Zenon DEF Turn, Qualified

LEMMA SecondTurn ==
  ASSUME NEW role, NEW subject, NEW reviews, NEW context, NEW x
  PROVE  Turn(role, subject, reviews, <<x>>, context)
           = FirstReviewer(reviews, Qualified(role, subject, reviews, {x}, context))
<1>1. {<<x>>[i] : i \in DOMAIN <<x>>} = {x} OBVIOUS
<1>2. QED BY <1>1, Zenon DEF Turn, Qualified

(* Appending to no and to one element.                                      *)
LEMMA Appended ==
  ASSUME NEW x, NEW y
  PROVE  Append(<<>>, x) = <<x>> /\ Append(<<x>>, y) = <<x, y>>
<1> DEFINE s == Append(<<x>>, y)
<1>1. Append(<<>>, x) = <<x>> OBVIOUS
<1>2. <<x>> \in Seq({x, y}) /\ y \in {x, y} OBVIOUS
<1>3. s \in Seq({x, y}) /\ Len(s) = 2 /\ s[1] = x /\ s[2] = y BY <1>2
<1> HIDE DEF s
<1>4. DOMAIN s = 1..2 /\ s = [i \in 1..2 |-> s[i]] BY <1>3
<1>5. 1..2 = {1, 2} OBVIOUS
<1>6. s = <<s[1], s[2]>> BY <1>4, <1>5
<1>7. QED BY <1>1, <1>3, <1>6 DEF s

(* One role is filled by the first choice, two by the first and the second. *)
LEMMA ReviewersChosen ==
  ASSUME NEW subject, NEW reviews, NEW context,
         subject.accessMode \in DOMAIN ReviewerRoles
  PROVE  LET roles  == ReviewerRoles[subject.accessMode]
             first  == FirstChoice(subject, reviews, context)
             second == SecondChoice(subject, reviews, context)
         IN  /\ Len(roles) = 1 => Reviewers(subject, reviews, context) = <<first>>
             /\ Len(roles) = 2 => Reviewers(subject, reviews, context) = <<first, second>>
<1> DEFINE roles == ReviewerRoles[subject.accessMode]
           first == FirstChoice(subject, reviews, context)
           second == SecondChoice(subject, reviews, context)
           G == CHOOSE f : IsLoop(f, subject, reviews, context)
<1>a. Turn(roles[1], subject, reviews, <<>>, context) = first
  BY FirstTurn, Zenon DEF FirstChoice
<1>b. Turn(roles[2], subject, reviews, <<first>>, context)
        = FirstReviewer(reviews, Qualified(roles[2], subject, reviews, {first}, context))
  BY SecondTurn, Zenon
<1>c. second = FirstReviewer(reviews, Qualified(roles[2], subject, reviews, {first}, context))
  BY Zenon DEF SecondChoice
<1>d. Turn(roles[2], subject, reviews, <<first>>, context) = second BY <1>b, <1>c, Zenon
<1>1. /\ Turn(roles[1], subject, reviews, <<>>, context) = first
      /\ Turn(roles[2], subject, reviews, <<first>>, context) = second
  BY <1>a, <1>d
<1>2. Append(<<>>, first) = <<first>> /\ Append(<<first>>, second) = <<first, second>>
  BY Appended, Zenon
<1>3. Reviewers(subject, reviews, context) = G[Len(roles)] BY ReviewersLoop, Zenon
<1>4. ASSUME Len(roles) = 1 PROVE G[1] = <<first>>
  <2> DEFINE g == [n \in 0..1 |-> IF n = 0 THEN <<>> ELSE <<first>>]
  <2>1. 0..1 = {0, 1} OBVIOUS
  <2>2. g[0] = <<>> /\ g[1] = <<first>> OBVIOUS
  <2>3. g = [n \in 0..1 |-> IF n = 0 THEN <<>>
                            ELSE Append(g[n - 1], Turn(roles[n], subject, reviews, g[n - 1], context))]
    <3> DEFINE rhs(n) == IF n = 0 THEN <<>>
                         ELSE Append(g[n - 1], Turn(roles[n], subject, reviews, g[n - 1], context))
    <3>1. rhs(0) = g[0] BY <2>2
    <3>2. 1 - 1 = 0 OBVIOUS
    <3>3. rhs(1) = g[1] BY <2>2, <3>2, <1>1, <1>2, Zenon
    <3>4. \A n \in 0..1 : rhs(n) = g[n] BY <2>1, <3>1, <3>3
    <3> HIDE DEF rhs
    <3>5. g = [n \in 0..1 |-> g[n]] OBVIOUS
    <3>6. g = [n \in 0..1 |-> rhs(n)] BY <3>4, <3>5, Zenon
    <3>7. QED BY <3>6 DEF rhs
  <2> HIDE DEF g
  <2>4. IsLoop(g, subject, reviews, context) BY <2>3, <1>4, Zenon DEF IsLoop
  <2>5. IsLoop(G, subject, reviews, context) BY <2>4, Zenon
  <2> HIDE DEF G
  <2>6. G = [n \in 0..1 |-> IF n = 0 THEN <<>>
                            ELSE Append(G[n - 1], Turn(roles[n], subject, reviews, G[n - 1], context))]
    BY <2>5, <1>4, Zenon DEF IsLoop
  <2> DEFINE step(n) == Append(G[n - 1], Turn(roles[n], subject, reviews, G[n - 1], context))
  <2> HIDE DEF step
  <2>7. G = [n \in 0..1 |-> IF n = 0 THEN <<>> ELSE step(n)] BY <2>6, Zenon DEF step
  <2>8. G[0] = <<>> /\ G[1] = step(1) BY <2>7
  <2>9. 1 - 1 = 0 OBVIOUS
  <2>10. QED BY <2>8, <2>9, <1>1, <1>2, Zenon DEF step
<1>5. ASSUME Len(roles) = 2 PROVE G[2] = <<first, second>>
  <2> DEFINE g == [n \in 0..2 |-> IF n = 0 THEN <<>> ELSE IF n = 1 THEN <<first>> ELSE <<first, second>>]
  <2>1. 0..2 = {0, 1, 2} OBVIOUS
  <2>2. g[0] = <<>> /\ g[1] = <<first>> /\ g[2] = <<first, second>> OBVIOUS
  <2>3. g = [n \in 0..2 |-> IF n = 0 THEN <<>>
                            ELSE Append(g[n - 1], Turn(roles[n], subject, reviews, g[n - 1], context))]
    <3> DEFINE rhs(n) == IF n = 0 THEN <<>>
                         ELSE Append(g[n - 1], Turn(roles[n], subject, reviews, g[n - 1], context))
    <3>1. rhs(0) = g[0] BY <2>2
    <3>2. 1 - 1 = 0 /\ 2 - 1 = 1 OBVIOUS
    <3>3. rhs(1) = g[1] BY <2>2, <3>2, <1>1, <1>2, Zenon
    <3>8. rhs(2) = g[2] BY <2>2, <3>2, <1>1, <1>2, Zenon
    <3>4. \A n \in 0..2 : rhs(n) = g[n] BY <2>1, <3>1, <3>3, <3>8
    <3> HIDE DEF rhs
    <3>5. g = [n \in 0..2 |-> g[n]] OBVIOUS
    <3>6. g = [n \in 0..2 |-> rhs(n)] BY <3>4, <3>5, Zenon
    <3>7. QED BY <3>6 DEF rhs
  <2> HIDE DEF g
  <2>4. IsLoop(g, subject, reviews, context) BY <2>3, <1>5, Zenon DEF IsLoop
  <2>5. IsLoop(G, subject, reviews, context) BY <2>4, Zenon
  <2> HIDE DEF G
  <2>6. G = [n \in 0..2 |-> IF n = 0 THEN <<>>
                            ELSE Append(G[n - 1], Turn(roles[n], subject, reviews, G[n - 1], context))]
    BY <2>5, <1>5, Zenon DEF IsLoop
  <2> DEFINE step(n) == Append(G[n - 1], Turn(roles[n], subject, reviews, G[n - 1], context))
  <2> HIDE DEF step
  <2>7. G = [n \in 0..2 |-> IF n = 0 THEN <<>> ELSE step(n)] BY <2>6, Zenon DEF step
  <2>8. G[0] = <<>> /\ G[1] = step(1) /\ G[2] = step(2) BY <2>7
  <2>9. 1 - 1 = 0 /\ 2 - 1 = 1 OBVIOUS
  <2>10. step(1) = <<first>> BY <2>8, <2>9, <1>1, <1>2, Zenon DEF step
  <2>11. step(2) = <<first, second>> BY <2>8, <2>9, <2>10, <1>1, <1>2, Zenon DEF step
  <2>12. QED BY <2>8, <2>11
<1>6. QED BY <1>3, <1>4, <1>5
-----------------------------------------------------------------------------
LEMMA QualifiesUntaken ==
  ASSUME NEW record, NEW role, NEW subject, NEW taken, NEW context
  PROVE  Qualifies(record, role, subject, taken, context)
           <=> Qualifies(record, role, subject, {}, context) /\ record.reviewer \notin taken
  BY DEF Qualifies

(* Records by different people qualify for the roles of the subject's mode. *)
Complete(subject, reviews, context) ==
  LET roles == ReviewerRoles[subject.accessMode]
  IN  \E choice \in [DOMAIN roles -> DOMAIN reviews] :
        /\ \A n \in DOMAIN roles :
             Qualifies(reviews[choice[n]], roles[n], subject, {}, context)
        /\ \A m, n \in DOMAIN roles :
             m # n => reviews[choice[m]].reviewer # reviews[choice[n]].reviewer

(* The loop over the roles left none without a reviewer.                    *)
AllChosen(subject, reviews, context) ==
  ~\E n \in DOMAIN Reviewers(subject, reviews, context) :
     Reviewers(subject, reviews, context)[n] = NoOne

LEMMA AllChosenIs ==
  ASSUME NEW subject, NEW reviews, NEW context,
         subject.accessMode \in DOMAIN ReviewerRoles
  PROVE  AllChosen(subject, reviews, context)
           <=> /\ FirstChoice(subject, reviews, context) # NoOne
               /\ Len(ReviewerRoles[subject.accessMode]) = 2
                  => SecondChoice(subject, reviews, context) # NoOne
<1> DEFINE roles == ReviewerRoles[subject.accessMode]
           first == FirstChoice(subject, reviews, context)
           second == SecondChoice(subject, reviews, context)
           chosen == Reviewers(subject, reviews, context)
<1>1. /\ Len(roles) = 1 => chosen = <<first>>
      /\ Len(roles) = 2 => chosen = <<first, second>>
  BY ReviewersChosen, Zenon
<1>2. Len(roles) = 1 \/ Len(roles) = 2 BY RolesOfMode, Zenon
<1>3. AllChosen(subject, reviews, context) <=> \A n \in DOMAIN chosen : chosen[n] # NoOne
  BY Zenon DEF AllChosen
<1> HIDE DEF chosen, first, second, roles
<1>4. CASE Len(roles) = 1
  <2>1. chosen = <<first>> BY <1>1, <1>4
  <2>2. (\A n \in DOMAIN chosen : chosen[n] # NoOne) <=> first # NoOne BY <2>1
  <2>3. QED BY <2>2, <1>3, <1>4 DEF first, second, roles
<1>5. CASE Len(roles) = 2
  <2>1. chosen = <<first, second>> BY <1>1, <1>5
  <2>2. (\A n \in DOMAIN chosen : chosen[n] # NoOne) <=> first # NoOne /\ second # NoOne
    BY <2>1
  <2>3. QED BY <2>2, <1>3, <1>5 DEF first, second, roles
<1>6. QED BY <1>2, <1>4, <1>5

(* A complete choice is one of different people who qualify.                *)
LEMMA AllChosenComplete ==
  ASSUME NEW S, NEW subject, NEW reviews \in Seq(S), NEW context,
         subject.accessMode \in DOMAIN ReviewerRoles,
         AllChosen(subject, reviews, context)
  PROVE  Complete(subject, reviews, context)
<1> DEFINE roles == ReviewerRoles[subject.accessMode]
           first == FirstChoice(subject, reviews, context)
           second == SecondChoice(subject, reviews, context)
           Q(n, taken) == Qualified(roles[n], subject, reviews, taken, context)
<1>1. /\ DOMAIN roles = 1..Len(roles)
      /\ Len(roles) = 1 \/ Len(roles) = 2
  BY RolesOfMode, Zenon
<1>2. \A n, taken : Q(n, taken) \in SUBSET Nat /\ Q(n, taken) \subseteq DOMAIN reviews
  BY DEF Qualified
<1>3. first = FirstReviewer(reviews, Q(1, {})) BY Zenon DEF FirstChoice
<1>4. second = FirstReviewer(reviews, Q(2, {first})) BY Zenon DEF SecondChoice
<1>5. first # NoOne /\ (Len(roles) = 2 => second # NoOne) BY AllChosenIs, Zenon
<1>6. \A n, taken : \A i \in Q(n, taken) :
        /\ i \in DOMAIN reviews
        /\ Qualifies(reviews[i], roles[n], subject, {}, context)
        /\ reviews[i].reviewer \notin taken
  BY QualifiesUntaken DEF Qualified
<1> HIDE DEF first, second, Q, roles
<1>7. PICK i \in Q(1, {}) : first = reviews[i].reviewer
  BY <1>2, <1>3, <1>5, FirstReviewerFound
<1>8. Complete(subject, reviews, context)
        <=> \E choice \in [DOMAIN roles -> DOMAIN reviews] :
              /\ \A n \in DOMAIN roles :
                   Qualifies(reviews[choice[n]], roles[n], subject, {}, context)
              /\ \A m, n \in DOMAIN roles :
                   m # n => reviews[choice[m]].reviewer # reviews[choice[n]].reviewer
  BY DEF Complete, roles
<1>9. CASE Len(roles) = 1
  <2> DEFINE choice == [n \in 1..1 |-> i]
  <2>1. DOMAIN roles = {1} BY <1>1, <1>9
  <2>2. choice \in [DOMAIN roles -> DOMAIN reviews] /\ choice[1] = i BY <2>1, <1>6, <1>7
  <2> HIDE DEF choice
  <2>3. QED BY <2>1, <2>2, <1>6, <1>7, <1>8
<1>10. CASE Len(roles) = 2
  <2>1. PICK j \in Q(2, {first}) : second = reviews[j].reviewer
    BY <1>2, <1>4, <1>5, <1>10, FirstReviewerFound
  <2> DEFINE choice == [n \in 1..2 |-> IF n = 1 THEN i ELSE j]
  <2>2. DOMAIN roles = {1, 2} BY <1>1, <1>10
  <2>3. choice \in [DOMAIN roles -> DOMAIN reviews] /\ choice[1] = i /\ choice[2] = j
    BY <2>1, <2>2, <1>6, <1>7
  <2>4. reviews[j].reviewer # reviews[i].reviewer BY <2>1, <1>6, <1>7
  <2> HIDE DEF choice
  <2>5. \A n \in DOMAIN roles : Qualifies(reviews[choice[n]], roles[n], subject, {}, context)
    BY <2>1, <2>2, <2>3, <1>6, <1>7
  <2>6. \A m, n \in DOMAIN roles :
          m # n => reviews[choice[m]].reviewer # reviews[choice[n]].reviewer
    BY <2>2, <2>3, <2>4
  <2>7. QED BY <2>3, <2>5, <2>6, <1>8
<1>11. QED BY <1>1, <1>9, <1>10

(* Where everybody has one record for the subject, no choice is missed.     *)
LEMMA CompleteAllChosen ==
  ASSUME NEW S, NEW subject, NEW reviews \in Seq(S), NEW context,
         subject.accessMode \in DOMAIN ReviewerRoles,
         \A i \in DOMAIN reviews : reviews[i].reviewer # NoOne,
         \A i, j \in DOMAIN reviews :
           reviews[i].reviewer = reviews[j].reviewer
           /\ reviews[i].subjectHash = reviews[j].subjectHash => i = j,
         Complete(subject, reviews, context)
  PROVE  AllChosen(subject, reviews, context)
<1> DEFINE roles == ReviewerRoles[subject.accessMode]
           first == FirstChoice(subject, reviews, context)
           second == SecondChoice(subject, reviews, context)
           Q(n, taken) == Qualified(roles[n], subject, reviews, taken, context)
<1>1. /\ DOMAIN roles = 1..Len(roles)
      /\ Len(roles) = 1 \/ (Len(roles) = 2 /\ roles[1] # roles[2])
  BY RolesOfMode, Zenon
<1>2. \A n, taken : Q(n, taken) \in SUBSET Nat /\ Q(n, taken) \subseteq DOMAIN reviews
  BY DEF Qualified
<1>3. first = FirstReviewer(reviews, Q(1, {})) BY Zenon DEF FirstChoice
<1>4. second = FirstReviewer(reviews, Q(2, {first})) BY Zenon DEF SecondChoice
<1>5. \A n, taken : \A i \in DOMAIN reviews :
        i \in Q(n, taken) <=> /\ Qualifies(reviews[i], roles[n], subject, {}, context)
                              /\ reviews[i].reviewer \notin taken
  BY QualifiesUntaken DEF Qualified
<1>6. PICK choice \in [DOMAIN roles -> DOMAIN reviews] :
        /\ \A n \in DOMAIN roles :
             Qualifies(reviews[choice[n]], roles[n], subject, {}, context)
        /\ \A m, n \in DOMAIN roles :
             m # n => reviews[choice[m]].reviewer # reviews[choice[n]].reviewer
  BY DEF Complete
<1>7. \A n : \A i \in DOMAIN reviews :
        Qualifies(reviews[i], roles[n], subject, {}, context)
        => reviews[i].role = roles[n] /\ reviews[i].subjectHash = subject
  BY DEF Qualifies
<1>8. AllChosen(subject, reviews, context)
        <=> first # NoOne /\ (Len(roles) = 2 => second # NoOne)
  BY AllChosenIs, Zenon
<1> HIDE DEF first, second, Q, roles
<1>9. choice[1] \in Q(1, {}) BY <1>1, <1>5, <1>6
<1>10. PICK k \in Q(1, {}) : first = reviews[k].reviewer
  BY <1>2, <1>3, <1>9, FirstReviewerFound
<1>11. first # NoOne BY <1>2, <1>10
<1>12. ASSUME Len(roles) = 2 PROVE second # NoOne
  <2> DEFINE j == choice[2]
  <2>1. j \in DOMAIN reviews /\ Qualifies(reviews[j], roles[2], subject, {}, context)
    BY <1>1, <1>6, <1>12
  <2>2. k \in DOMAIN reviews /\ Qualifies(reviews[k], roles[1], subject, {}, context)
    BY <1>2, <1>5, <1>10
  <2> HIDE DEF j
  <2>3. /\ reviews[j].role = roles[2] /\ reviews[j].subjectHash = subject
        /\ reviews[k].role = roles[1] /\ reviews[k].subjectHash = subject
    BY <2>1, <2>2, <1>7, Zenon
  <2>4. j # k /\ reviews[j].reviewer # first BY <2>1, <2>2, <2>3, <1>1, <1>10, <1>12
  <2>5. j \in Q(2, {first}) BY <2>1, <2>4, <1>5
  <2>6. PICK i \in Q(2, {first}) : second = reviews[i].reviewer
    BY <2>5, <1>2, <1>4, FirstReviewerFound
  <2>7. QED BY <2>6, <1>2
<1>13. QED BY <1>8, <1>11, <1>12
-----------------------------------------------------------------------------
(* The snapshot of an organization with the given clearances and denials.   *)
SnapshotOf(issued, denied) == [Base EXCEPT !.clearances = issued, !.denials = denied]

LEMMA SnapshotFields ==
  ASSUME NEW issued, NEW denied, NEW s, s = SnapshotOf(issued, denied)
  PROVE  /\ s.clearances = issued /\ s.denials = denied
         /\ s.wellFormed = Base.wellFormed /\ s.id = Base.id
         /\ s.organization = Base.organization /\ s.policy_digest = Base.policy_digest
         /\ s.issued_at = Base.issued_at /\ s.expires_at = Base.expires_at
         /\ s.principals = Base.principals /\ s.resources = Base.resources
         /\ s.issuerMandates = Base.issuerMandates
<1>1. Base = [wellFormed |-> Base.wellFormed, id |-> Base.id,
              organization |-> Base.organization, policy_digest |-> Base.policy_digest,
              issued_at |-> Base.issued_at, expires_at |-> Base.expires_at,
              principals |-> Base.principals, resources |-> Base.resources,
              issuerMandates |-> Base.issuerMandates, clearances |-> Base.clearances,
              denials |-> Base.denials]
  BY FormatAssumption, Zenon DEF IsSnapshot
<1>2. DOMAIN Base = {"wellFormed", "id", "organization", "policy_digest", "issued_at",
                     "expires_at", "principals", "resources", "issuerMandates",
                     "clearances", "denials"}
  BY <1>1
<1>3. QED BY <1>2 DEF SnapshotOf

(* What the review simulation sees of the organization.                     *)
LEMMA ReviewContextFields ==
  ASSUME NEW subject, NEW issued, NEW denied, NEW time,
         NEW s, s = SnapshotOf(issued, denied),
         NEW context, context = ReviewContext(subject, s, time)
  PROVE  /\ context.principals = Base.principals
         /\ context.resources = Base.resources
         /\ context.issuerMandates = Base.issuerMandates
         /\ context.now = time
         /\ context.clearances
              = {c \in issued : /\ subject.purpose \in c.purposes
                                /\ subject.environment \in c.environments
                                /\ ~IsDenied(ReleaseRequest(subject, c.subject), s)}
<1> DEFINE r == ReleaseRequest(subject, subject.requester)
           whole == ContextFor(r, s, time)
           Allowed(c) == ~IsDenied(ReleaseRequest(subject, c.subject), s)
<1>1. r.purpose = subject.purpose /\ r.environment = subject.environment
  BY DEF ReleaseRequest, RequestOf
<1>2. /\ s.principals = Base.principals /\ s.resources = Base.resources
      /\ s.issuerMandates = Base.issuerMandates /\ s.clearances = issued
  BY SnapshotFields
<1> HIDE DEF r
<1>3. whole = [principals |-> s.principals, resources |-> s.resources,
               issuerMandates |-> s.issuerMandates, now |-> time,
               clearances |-> {c \in s.clearances :
                                 r.purpose \in c.purposes /\ r.environment \in c.environments}]
  BY Zenon DEF ContextFor
<1>4. context = [whole EXCEPT !.clearances = {c \in @ : Allowed(c)}]
  BY Zenon DEF ReviewContext, r
<1> HIDE DEF whole, Allowed
<1>5. /\ context.principals = Base.principals
      /\ context.resources = Base.resources
      /\ context.issuerMandates = Base.issuerMandates
      /\ context.now = time
      /\ context.clearances
           = {c \in {x \in issued : r.purpose \in x.purposes /\ r.environment \in x.environments} :
                Allowed(c)}
  BY <1>2, <1>3, <1>4
<1>6. {c \in {x \in issued : r.purpose \in x.purposes /\ r.environment \in x.environments} :
         Allowed(c)}
        = {c \in issued : /\ subject.purpose \in c.purposes
                          /\ subject.environment \in c.environments
                          /\ Allowed(c)}
  BY <1>1
<1>7. context.clearances = {c \in issued : /\ subject.purpose \in c.purposes
                                           /\ subject.environment \in c.environments
                                           /\ Allowed(c)}
  BY <1>5, <1>6, Zenon
<1>8. QED BY <1>5, <1>7, Zenon DEF Allowed

(* A record qualifies for the checked review exactly when it supports the   *)
(* subject.                                                                 *)
LEMMA QualifiesIsSupports ==
  ASSUME NEW record, NEW role, NEW subject
  PROVE  Qualifies(record, role, subject, {}, ReviewContext(subject, Snapshot, now))
           <=> Supports(record, role, subject)
<1> DEFINE s == SnapshotOf(clearances, denials)
           context == ReviewContext(subject, s, now)
           r == ReleaseRequest(subject, record.reviewer)
<1>1. Snapshot = s BY Zenon DEF Snapshot, SnapshotOf
<1>2. /\ context.principals = Base.principals
      /\ context.issuerMandates = Base.issuerMandates
      /\ context.now = now
      /\ context.clearances
           = {c \in clearances : /\ subject.purpose \in c.purposes
                                 /\ subject.environment \in c.environments
                                 /\ ~IsDenied(ReleaseRequest(subject, c.subject), s)}
  BY ReviewContextFields
<1>3. /\ r.actor = record.reviewer /\ r.mode = subject.accessMode /\ r.domain = subject.domain
      /\ r.resource = subject.resource /\ r.operation = "review_release"
  BY DEF ReleaseRequest, RequestOf
<1> HIDE DEF s, context
<1>4. \A issuer : MayIssue(issuer, r, role, context) <=> MayIssue(issuer, r, role, Base)
  BY <1>2 DEF MayIssue
<1>5. HasClearance(r, role, context)
        <=> /\ ~IsDenied(r, s)
            /\ \E c \in clearances :
                 /\ c.subject = record.reviewer /\ c.issuer # record.reviewer /\ c.role = role
                 /\ MayIssue(c.issuer, r, role, Base)
                 /\ c.domain = subject.domain /\ subject.accessMode \in c.modes
                 /\ subject.resource \in c.resources /\ "review_release" \in c.operations
                 /\ subject.purpose \in c.purposes /\ subject.environment \in c.environments
                 /\ ~c.revoked /\ c.issuedAt <= now /\ now < c.expiresAt
  <2>1. HasClearance(r, role, context) <=> \E c \in context.clearances : Grants(c, r, role, context)
    BY Zenon DEF HasClearance
  <2> DEFINE Valid(c) ==
         /\ c.subject = record.reviewer /\ c.issuer # record.reviewer /\ c.role = role
         /\ MayIssue(c.issuer, r, role, Base)
         /\ c.domain = subject.domain /\ subject.accessMode \in c.modes
         /\ subject.resource \in c.resources /\ "review_release" \in c.operations
         /\ ~c.revoked /\ c.issuedAt <= now /\ now < c.expiresAt
  <2>2. \A c : Grants(c, r, role, context) <=> Valid(c)
    <3> TAKE c
    <3>1. MayIssue(c.issuer, r, role, context) <=> MayIssue(c.issuer, r, role, Base)
      BY <1>4, Zenon
    <3> HIDE DEF r
    <3>2. QED BY <1>2, <1>3, <3>1 DEF Grants
  <2>3. \A c : Valid(c) => (IsDenied(ReleaseRequest(subject, c.subject), s) <=> IsDenied(r, s))
    BY Zenon
  <2> HIDE DEF r
  <2>4. QED BY <2>1, <2>2, <2>3, <1>2
<1>6. QED BY <1>1, <1>2, <1>5 DEF Qualifies, Supports, context
-----------------------------------------------------------------------------
(* What the simulated review requires besides its reviewers.                *)
Reviewable(subject, reviews, context) ==
  /\ subject.accessMode \in DOMAIN ReviewerRoles
  /\ subject.policyVersion = PolicyVersion
  /\ UniqueIds(context.principals) /\ UniqueIds(context.resources)
  /\ UniqueIds(context.clearances)
  /\ ~\E i, j \in DOMAIN reviews : i # j /\ reviews[i].id = reviews[j].id
  /\ subject.audience # {}
  /\ {x \in context.resources : x.id = subject.resource} # {}
  /\ ~\E x \in {y \in context.resources : y.id = subject.resource} :
        \/ x.classification = "protected" \/ x.domain # subject.domain
        \/ x.classification \notin Modes[subject.accessMode].classes
  /\ ~\E i \in DOMAIN reviews :
        reviews[i].subjectHash = subject /\ reviews[i].decision = "REJECT"

LEMMA SimulatedReview ==
  ASSUME NEW subject, NEW reviews, NEW context,
         NEW answer, answer = SimulateReleaseReview(subject, reviews, context)
  PROVE  /\ answer = "OK" <=> /\ Reviewable(subject, reviews, context)
                              /\ AllChosen(subject, reviews, context)
         /\ answer = "QUALIFIED_REVIEW_REQUIRED"
            => /\ Reviewable(subject, reviews, context)
               /\ ~AllChosen(subject, reviews, context)
<1> DEFINE resources == {x \in context.resources : x.id = subject.resource}
           Invalid == \/ subject.accessMode \notin DOMAIN ReviewerRoles
                      \/ subject.policyVersion # PolicyVersion
                      \/ ~(UniqueIds(context.principals) /\ UniqueIds(context.resources)
                           /\ UniqueIds(context.clearances))
                      \/ \E i, j \in DOMAIN reviews : i # j /\ reviews[i].id = reviews[j].id
                      \/ subject.audience = {}
           NoResource == \/ resources = {}
                         \/ \E x \in resources :
                              \/ x.classification = "protected" \/ x.domain # subject.domain
                              \/ x.classification \notin Modes[subject.accessMode].classes
           Rejected == \E i \in DOMAIN reviews :
                         reviews[i].subjectHash = subject /\ reviews[i].decision = "REJECT"
           Missing == \E n \in DOMAIN Reviewers(subject, reviews, context) :
                        Reviewers(subject, reviews, context)[n] = NoOne
<1>1. answer = IF Invalid THEN "INVALID_CONTEXT"
               ELSE IF NoResource THEN "RESOURCE_DENIED"
               ELSE IF Rejected THEN "REVIEW_REJECTED"
               ELSE IF Missing THEN "QUALIFIED_REVIEW_REQUIRED"
               ELSE "OK"
  BY Zenon DEF SimulateReleaseReview
<1>2. Reviewable(subject, reviews, context) <=> ~Invalid /\ ~NoResource /\ ~Rejected
  BY DEF Reviewable
<1>3. AllChosen(subject, reviews, context) <=> ~Missing BY Zenon DEF AllChosen
<1> HIDE DEF Invalid, NoResource, Rejected, Missing
<1>4. QED BY <1>1, <1>2, <1>3

LEMMA ScopedReview ==
  ASSUME NEW subject, NEW reviews, NEW s, NEW receipt,
         NEW answer, answer = CheckScopedReview(subject, reviews, s, receipt),
         NEW context, context = ReviewContext(subject, s, receipt.now)
  PROVE  /\ answer = "OK"
            <=> /\ subject.wellFormed /\ CheckSnapshot(s, receipt)
                /\ ScopeMatches(ReleaseRequest(subject, subject.requester), s)
                /\ AudienceReads(subject, subject.resource, s, receipt)
                /\ ~IsDenied(ReleaseRequest(subject, subject.requester), s)
                /\ Reviewable(subject, reviews, context)
                /\ AllChosen(subject, reviews, context)
         /\ answer = "QUALIFIED_REVIEW_REQUIRED"
            => /\ Reviewable(subject, reviews, context)
               /\ ~AllChosen(subject, reviews, context)
<1> DEFINE simulated == SimulateReleaseReview(subject, reviews, context)
           r == ReleaseRequest(subject, subject.requester)
<1>1. answer = IF ~subject.wellFormed THEN "INVALID_REVIEW_CONTRACT"
               ELSE IF ~CheckSnapshot(s, receipt) THEN "INVALID_OR_STALE_SNAPSHOT"
               ELSE IF ~ScopeMatches(r, s) THEN "SCOPE_OR_POLICY_MISMATCH"
               ELSE IF ~AudienceReads(subject, subject.resource, s, receipt)
               THEN "AUDIENCE_ACCESS_DENIED"
               ELSE IF IsDenied(r, s) THEN "EXPLICIT_DENIAL"
               ELSE simulated
  BY Zenon DEF CheckScopedReview
<1>2. /\ simulated = "OK" <=> /\ Reviewable(subject, reviews, context)
                              /\ AllChosen(subject, reviews, context)
      /\ simulated = "QUALIFIED_REVIEW_REQUIRED"
         => /\ Reviewable(subject, reviews, context)
            /\ ~AllChosen(subject, reviews, context)
  BY SimulatedReview
<1> HIDE DEF simulated, r
<1>3. QED BY <1>1, <1>2 DEF r
-----------------------------------------------------------------------------
(* The clearances and the records are of their formats, and no two          *)
(* clearances share an id.                                                  *)
OInv ==
  /\ \A c \in clearances : IsClearance(c)
  /\ UniqueIds(clearances)
  /\ records \in Seq(Record)

LEMMA RevokedFields ==
  ASSUME NEW c, IsClearance(c)
  PROVE  IsClearance(Revoked(c)) /\ Revoked(c).id = c.id /\ Revoked(c).revoked
<1>1. c = [id |-> c.id, subject |-> c.subject, role |-> c.role, issuer |-> c.issuer,
           domain |-> c.domain, modes |-> c.modes, resources |-> c.resources,
           operations |-> c.operations, purposes |-> c.purposes,
           environments |-> c.environments, issuedAt |-> c.issuedAt,
           expiresAt |-> c.expiresAt, revoked |-> c.revoked]
  BY Zenon DEF IsClearance
<1>2. DOMAIN c = {"id", "subject", "role", "issuer", "domain", "modes", "resources",
                  "operations", "purposes", "environments", "issuedAt", "expiresAt", "revoked"}
  BY <1>1
<1> DEFINE e == Revoked(c)
<1>3. /\ DOMAIN e = DOMAIN c /\ e.revoked = TRUE
      /\ e = [x \in DOMAIN c |-> IF x = "revoked" THEN TRUE ELSE c[x]]
  BY <1>2 DEF Revoked
<1> HIDE DEF e
<1>4. e = [id |-> e.id, subject |-> e.subject, role |-> e.role, issuer |-> e.issuer,
           domain |-> e.domain, modes |-> e.modes, resources |-> e.resources,
           operations |-> e.operations, purposes |-> e.purposes,
           environments |-> e.environments, issuedAt |-> e.issuedAt,
           expiresAt |-> e.expiresAt, revoked |-> e.revoked]
  BY <1>2, <1>3
<1>5. e.id = c.id BY <1>2, <1>3
<1>6. QED BY <1>3, <1>4, <1>5, Zenon DEF IsClearance, e

LEMMA OInvInvariant == Spec => []OInv
<1>1. Init => OInv BY DEF Init, OInv, UniqueIds
<1>2. OInv /\ [Next]_vars => OInv'
  <2> SUFFICES ASSUME OInv, [Next]_vars PROVE OInv' OBVIOUS
  <2>1. ASSUME NEW c \in Clearance, Issue(c) PROVE OInv'
    <3>1. /\ clearances' = clearances \cup {c} /\ records' = records
          /\ \A x \in clearances : x.id # c.id
      BY <2>1 DEF Issue
    <3>2. IsClearance(c) BY FormatAssumption, Zenon
    <3>3. \A x \in clearances' : IsClearance(x) BY <3>1, <3>2, Zenon DEF OInv
    <3>4. UniqueIds(clearances') BY <3>1, Zenon DEF OInv, UniqueIds
    <3>5. QED BY <3>1, <3>3, <3>4, Zenon DEF OInv
  <2>2. ASSUME NEW c \in Clearance, Revoke(c) PROVE OInv'
    <3>1. /\ c \in clearances /\ clearances' = (clearances \ {c}) \cup {Revoked(c)}
          /\ records' = records
      BY <2>2 DEF Revoke
    <3>2. IsClearance(Revoked(c)) /\ Revoked(c).id = c.id
      BY <3>1, RevokedFields, Zenon DEF OInv
    <3>3. \A x \in clearances' : IsClearance(x) BY <3>1, <3>2, Zenon DEF OInv
    <3>4. \A x \in clearances : x.id = c.id => x = c BY <3>1, Zenon DEF OInv, UniqueIds
    <3>5. \A x, y \in clearances : x.id = y.id => x = y BY Zenon DEF OInv, UniqueIds
    <3>6. \A x, y \in clearances' : x.id = y.id => x = y
      BY <3>1, <3>2, <3>4, <3>5, Zenon
    <3>7. UniqueIds(clearances') BY <3>6, Zenon DEF UniqueIds
    <3>8. QED BY <3>1, <3>3, <3>7, Zenon DEF OInv
  <2>3. ASSUME NEW rule \in Denial, Deny(rule) PROVE OInv'
    BY <2>3, Zenon DEF Deny, OInv
  <2>4. ASSUME NEW record \in Record, File(record) PROVE OInv'
    <3>1. records' = Append(records, record) /\ clearances' = clearances
      BY <2>4 DEF File
    <3>2. records' \in Seq(Record) BY <3>1 DEF OInv
    <3>3. QED BY <3>1, <3>2, Zenon DEF OInv
  <2>5. CASE Tick BY <2>5, Zenon DEF Tick, OInv
  <2>6. CASE UNCHANGED vars BY <2>6, Zenon DEF vars, OInv
  <2>7. QED BY <2>1, <2>2, <2>3, <2>4, <2>5, <2>6, Zenon DEF Next
<1>3. QED BY <1>1, <1>2, PTL DEF Spec
-----------------------------------------------------------------------------
LEMMA CompleteIsIndependent ==
  ASSUME NEW subject
  PROVE  Complete(subject, records, ReviewContext(subject, Snapshot, now))
           <=> IndependentlyReviewed(subject)
<1> DEFINE roles == ReviewerRoles[subject.accessMode]
<1>1. \A choice \in [DOMAIN roles -> DOMAIN records], n \in DOMAIN roles :
        Qualifies(records[choice[n]], roles[n], subject, {}, ReviewContext(subject, Snapshot, now))
          <=> Supports(records[choice[n]], roles[n], subject)
  BY QualifiesIsSupports, Zenon
<1>2. QED BY <1>1, Zenon DEF Complete, IndependentlyReviewed

(* simulateReleaseReview, lines 112-126: a complete review has independent  *)
(* reviewers, and with one record per reviewer and subject none is missed,  *)
(* for every mode, policy and history of records.                           *)
THEOREM ReviewAlwaysMatches == Spec => []ReviewMatchesReference
<1>1. OInv => ReviewMatchesReference
  <2> SUFFICES ASSUME OInv, NEW subject \in ReviewSubject
               PROVE  /\ ReviewAnswer(subject) = "OK" => IndependentlyReviewed(subject)
                      /\ OneRecordEach /\ ReviewAnswer(subject) = "QUALIFIED_REVIEW_REQUIRED"
                         => ~IndependentlyReviewed(subject)
    BY Zenon DEF ReviewMatchesReference
  <2> DEFINE receipt == Receipt(Snapshot, Base.organization, now)
             answer == ReviewAnswer(subject)
             context == ReviewContext(subject, Snapshot, now)
  <2>1. records \in Seq(Record) BY DEF OInv
  <2>2. \A i \in DOMAIN records : records[i].reviewer # NoOne
    BY <2>1, FormatAssumption
  <2>3. receipt.now = now BY DEF Receipt
  <2>4. answer = CheckScopedReview(subject, records, Snapshot, receipt) BY Zenon DEF ReviewAnswer
  <2>5. context = ReviewContext(subject, Snapshot, receipt.now) BY <2>3, Zenon
  <2>6. Complete(subject, records, context) <=> IndependentlyReviewed(subject)
    BY CompleteIsIndependent, Zenon
  <2> HIDE DEF receipt, answer, context
  <2>7. /\ answer = "OK" => /\ Reviewable(subject, records, context)
                            /\ AllChosen(subject, records, context)
        /\ answer = "QUALIFIED_REVIEW_REQUIRED" => /\ Reviewable(subject, records, context)
                                                   /\ ~AllChosen(subject, records, context)
    BY <2>4, <2>5, ScopedReview
  <2>8. Reviewable(subject, records, context) => subject.accessMode \in DOMAIN ReviewerRoles
    BY DEF Reviewable
  <2>9. answer = "OK" => Complete(subject, records, context)
    BY <2>1, <2>7, <2>8, AllChosenComplete
  <2>10. ASSUME OneRecordEach, answer = "QUALIFIED_REVIEW_REQUIRED"
         PROVE  ~Complete(subject, records, context)
    BY <2>1, <2>2, <2>7, <2>8, <2>10, CompleteAllChosen DEF OneRecordEach
  <2>11. QED BY <2>6, <2>9, <2>10 DEF answer
<1>2. QED BY <1>1, OInvInvariant, PTL
-----------------------------------------------------------------------------
(* What the access simulation sees of the organization.                     *)
LEMMA AccessContextFields ==
  ASSUME NEW r, NEW issued, NEW denied, NEW time,
         NEW s, s = SnapshotOf(issued, denied),
         NEW context, context = ContextFor(r, s, time)
  PROVE  /\ context.principals = Base.principals
         /\ context.resources = Base.resources
         /\ context.issuerMandates = Base.issuerMandates
         /\ context.now = time
         /\ context.clearances
              = {c \in issued : r.purpose \in c.purposes /\ r.environment \in c.environments}
<1>1. /\ s.principals = Base.principals /\ s.resources = Base.resources
      /\ s.issuerMandates = Base.issuerMandates /\ s.clearances = issued
  BY SnapshotFields
<1>2. context = [principals |-> s.principals, resources |-> s.resources,
                 issuerMandates |-> s.issuerMandates, now |-> time,
                 clearances |-> {c \in s.clearances :
                                   r.purpose \in c.purposes /\ r.environment \in c.environments}]
  BY Zenon DEF ContextFor
<1>3. QED BY <1>1, <1>2

(* The simulated answer depends on the clearances only through the roles    *)
(* they grant.                                                              *)
LEMMA SameSimulatedAccess ==
  ASSUME NEW r, NEW x, NEW y,
         x.principals = y.principals, x.resources = y.resources,
         UniqueIds(x.clearances), UniqueIds(y.clearances),
         \A role : HasClearance(r, role, x) <=> HasClearance(r, role, y)
  PROVE  SimulateAccess(r, x) = SimulateAccess(r, y)
<1>1. (UniqueIds(x.principals) /\ UniqueIds(x.resources) /\ UniqueIds(x.clearances))
        <=> (UniqueIds(y.principals) /\ UniqueIds(y.resources) /\ UniqueIds(y.clearances))
  OBVIOUS
<1> DEFINE roles == UNION {p.roles : p \in {p \in y.principals : p.id = r.actor}}
                      \cap Modes[r.mode].roles
<1>2. (\E role \in roles : HasClearance(r, role, x)) <=> (\E role \in roles : HasClearance(r, role, y))
  BY Zenon
<1>3. QED BY <1>1, <1>2, Zenon DEF SimulateAccess

(* The checks of a snapshot do not depend on which clearances it holds.     *)
LEMMA SameSnapshotCheck ==
  ASSUME NEW issued, NEW other, NEW denied, NEW time,
         UniqueIds(issued), UniqueIds(other),
         NEW s, s = SnapshotOf(issued, denied), NEW t, t = SnapshotOf(other, denied)
  PROVE  CheckSnapshot(s, Receipt(s, Base.organization, time))
           <=> CheckSnapshot(t, Receipt(t, Base.organization, time))
<1>1. /\ s.clearances = issued /\ s.denials = denied
      /\ s.wellFormed = Base.wellFormed /\ s.id = Base.id
      /\ s.organization = Base.organization /\ s.policy_digest = Base.policy_digest
      /\ s.issued_at = Base.issued_at /\ s.expires_at = Base.expires_at
      /\ s.principals = Base.principals /\ s.resources = Base.resources
  BY SnapshotFields
<1>2. /\ t.clearances = other /\ t.denials = denied
      /\ t.wellFormed = Base.wellFormed /\ t.id = Base.id
      /\ t.organization = Base.organization /\ t.policy_digest = Base.policy_digest
      /\ t.issued_at = Base.issued_at /\ t.expires_at = Base.expires_at
      /\ t.principals = Base.principals /\ t.resources = Base.resources
  BY SnapshotFields
<1>3. QED BY <1>1, <1>2 DEF CheckSnapshot, Receipt

(* hasClearance, line 33: nobody's access depends on a clearance they       *)
(* issued themselves or on one issued to somebody else, whatever the        *)
(* organization's principals, mandates and clearances.                      *)
THEOREM NeverSelfGranted == Spec => []NoSelfGrant
<1>1. OInv => NoSelfGrant
  <2> SUFFICES ASSUME OInv, NEW r \in AccessRequest
               PROVE  LET others == [Snapshot EXCEPT !.clearances =
                                       {c \in clearances : c.subject = r.actor /\ c.issuer # r.actor}]
                      IN  AccessAnswer(r)
                            = CheckScopedAccess(r, others, Receipt(others, Base.organization, now))
    BY Zenon DEF NoSelfGrant
  <2> DEFINE foreign == {c \in clearances : c.subject = r.actor /\ c.issuer # r.actor}
             s == SnapshotOf(clearances, denials)
             t == SnapshotOf(foreign, denials)
             x == ContextFor(r, s, now)
             y == ContextFor(r, t, now)
  <2>1. Snapshot = s BY Zenon DEF Snapshot, SnapshotOf
  <2>2. [Snapshot EXCEPT !.clearances = foreign] = t
    BY DEF Snapshot, SnapshotOf
  <2>3. /\ s.clearances = clearances /\ s.denials = denials
        /\ s.organization = Base.organization /\ s.resources = Base.resources
        /\ t.clearances = foreign /\ t.denials = denials
        /\ t.organization = Base.organization /\ t.resources = Base.resources
    BY SnapshotFields
  <2>4. /\ x.principals = Base.principals /\ x.resources = Base.resources
        /\ x.issuerMandates = Base.issuerMandates /\ x.now = now
        /\ x.clearances = {c \in clearances : r.purpose \in c.purposes
                                              /\ r.environment \in c.environments}
    BY AccessContextFields
  <2>5. /\ y.principals = Base.principals /\ y.resources = Base.resources
        /\ y.issuerMandates = Base.issuerMandates /\ y.now = now
        /\ y.clearances = {c \in foreign : r.purpose \in c.purposes
                                           /\ r.environment \in c.environments}
    BY AccessContextFields
  <2>6. UniqueIds(clearances) BY DEF OInv
  <2>7. UniqueIds(foreign) BY <2>6, Zenon DEF UniqueIds
  <2>8. CheckSnapshot(s, Receipt(s, Base.organization, now))
          <=> CheckSnapshot(t, Receipt(t, Base.organization, now))
    BY <2>6, <2>7, SameSnapshotCheck
  <2>9. \A c : c \in foreign <=> c \in clearances /\ c.subject = r.actor /\ c.issuer # r.actor
    OBVIOUS
  <2> HIDE DEF s, t, x, y, foreign
  <2>10. /\ ScopeMatches(r, s) <=> ScopeMatches(r, t)
         /\ IsDenied(r, s) <=> IsDenied(r, t)
    BY <2>3 DEF ScopeMatches, IsDenied
  <2>11. UniqueIds(x.clearances) /\ UniqueIds(y.clearances)
    BY <2>4, <2>5, <2>6, <2>7 DEF UniqueIds
  <2>12. \A role : HasClearance(r, role, x) <=> HasClearance(r, role, y)
    <3> TAKE role
    <3>1. \A issuer : MayIssue(issuer, r, role, x) <=> MayIssue(issuer, r, role, y)
      BY <2>4, <2>5 DEF MayIssue
    <3>2. \A c : Grants(c, r, role, x) <=> Grants(c, r, role, y)
      BY <3>1, <2>4, <2>5 DEF Grants
    <3>3. \A c : Grants(c, r, role, x) => c.subject = r.actor /\ c.issuer # r.actor
      BY Zenon DEF Grants
    <3>4. \A c : Grants(c, r, role, x) => (c \in x.clearances <=> c \in y.clearances)
      BY <3>3, <2>4, <2>5, <2>9
    <3>5. QED BY <3>2, <3>4, Zenon DEF HasClearance
  <2>13. SimulateAccess(r, x) = SimulateAccess(r, y)
    BY <2>4, <2>5, <2>11, <2>12, SameSimulatedAccess
  <2>14. CheckScopedAccess(r, s, Receipt(s, Base.organization, now))
           = CheckScopedAccess(r, t, Receipt(t, Base.organization, now))
    <3>1. /\ Receipt(s, Base.organization, now).now = now
          /\ Receipt(t, Base.organization, now).now = now
      BY DEF Receipt
    <3>2. QED BY <2>8, <2>10, <2>13, <3>1, Zenon DEF CheckScopedAccess, x, y
  <2>15. QED BY <2>1, <2>2, <2>14, Zenon DEF AccessAnswer, foreign
<1>2. QED BY <1>1, OInvInvariant, PTL
-----------------------------------------------------------------------------
(* The later clearances and denials are the earlier ones restricted: what   *)
(* is not revoked was issued, and no denial is gone.                        *)
Restricts(laterIssued, laterDenied, issued, denied) ==
  /\ UniqueIds(issued)
  /\ \A c \in laterIssued : ~c.revoked => c \in issued
  /\ denied \subseteq laterDenied

LEMMA SnapshotRestricted ==
  ASSUME NEW issued, NEW denied, NEW laterIssued, NEW laterDenied, NEW time,
         Restricts(laterIssued, laterDenied, issued, denied),
         NEW s, s = SnapshotOf(issued, denied),
         NEW t, t = SnapshotOf(laterIssued, laterDenied)
  PROVE  /\ CheckSnapshot(t, Receipt(t, Base.organization, time))
            => CheckSnapshot(s, Receipt(s, Base.organization, time))
         /\ \A r : ScopeMatches(r, t) => ScopeMatches(r, s)
         /\ \A r : IsDenied(r, s) => IsDenied(r, t)
<1>1. /\ s.clearances = issued /\ s.denials = denied
      /\ s.wellFormed = Base.wellFormed /\ s.id = Base.id
      /\ s.organization = Base.organization /\ s.policy_digest = Base.policy_digest
      /\ s.issued_at = Base.issued_at /\ s.expires_at = Base.expires_at
      /\ s.principals = Base.principals /\ s.resources = Base.resources
  BY SnapshotFields
<1>2. /\ t.clearances = laterIssued /\ t.denials = laterDenied
      /\ t.wellFormed = Base.wellFormed /\ t.id = Base.id
      /\ t.organization = Base.organization /\ t.policy_digest = Base.policy_digest
      /\ t.issued_at = Base.issued_at /\ t.expires_at = Base.expires_at
      /\ t.principals = Base.principals /\ t.resources = Base.resources
  BY SnapshotFields
<1>3. UniqueIds(issued) /\ denied \subseteq laterDenied BY DEF Restricts
<1>4. UniqueIds(laterDenied) => UniqueIds(denied) BY <1>3, Zenon DEF UniqueIds
<1>5. CheckSnapshot(t, Receipt(t, Base.organization, time))
        => CheckSnapshot(s, Receipt(s, Base.organization, time))
  BY <1>1, <1>2, <1>3, <1>4 DEF CheckSnapshot, Receipt
<1>6. \A r : ScopeMatches(r, t) => ScopeMatches(r, s) BY <1>1, <1>2 DEF ScopeMatches
<1>7. \A r : IsDenied(r, s) => IsDenied(r, t) BY <1>1, <1>2, <1>3 DEF IsDenied
<1>8. QED BY <1>5, <1>6, <1>7

(* A context that holds no clearance the other lacks, but revoked ones.     *)
Narrower(y, x) ==
  /\ y.principals = x.principals /\ y.resources = x.resources
  /\ y.issuerMandates = x.issuerMandates /\ y.now = x.now
  /\ UniqueIds(x.clearances)
  /\ \A c \in y.clearances : ~c.revoked => c \in x.clearances

LEMMA ClearanceBefore ==
  ASSUME NEW x, NEW y, Narrower(y, x), NEW r, NEW role, HasClearance(r, role, y)
  PROVE  HasClearance(r, role, x)
<1>1. PICK c \in y.clearances : Grants(c, r, role, y) BY Zenon DEF HasClearance
<1>2. ~c.revoked BY <1>1, Zenon DEF Grants
<1>3. c \in x.clearances BY <1>1, <1>2, Zenon DEF Narrower
<1>4. /\ y.principals = x.principals /\ y.issuerMandates = x.issuerMandates /\ y.now = x.now
  BY Zenon DEF Narrower
<1>5. MayIssue(c.issuer, r, role, y) <=> MayIssue(c.issuer, r, role, x)
  BY <1>4 DEF MayIssue
<1>6. Grants(c, r, role, x) BY <1>1, <1>4, <1>5 DEF Grants
<1>7. QED BY <1>3, <1>6, Zenon DEF HasClearance

LEMMA SimulatedAccessBefore ==
  ASSUME NEW x, NEW y, Narrower(y, x), NEW r, SimulateAccess(r, y) = "OK"
  PROVE  SimulateAccess(r, x) = "OK"
<1>1. /\ y.principals = x.principals /\ y.resources = x.resources /\ UniqueIds(x.clearances)
  BY Zenon DEF Narrower
<1> DEFINE actors    == {p \in x.principals : p.id = r.actor}
           resources == {e \in x.resources : e.id = r.resource}
           mode      == Modes[r.mode]
           roles     == (UNION {p.roles : p \in actors}) \cap mode.roles
           Unique    == UniqueIds(x.principals) /\ UniqueIds(x.resources)
           Unknown   == actors = {} \/ resources = {}
           Protected == \E e \in resources : e.classification = "protected"
           Foreign   == \/ \E e \in resources : e.domain # r.domain
                        \/ \E p \in actors : r.domain \notin p.domains
           Outside   == \/ \E e \in resources : e.classification \notin mode.classes
                        \/ r.operation \notin mode.operations
           Cleared(z) == \E role \in roles : HasClearance(r, role, z)
           Answer(unique, cleared) ==
             IF ~(Unique /\ unique) THEN "INVALID_CONTEXT"
             ELSE IF r.mode \notin DOMAIN Modes THEN "UNKNOWN_MODE"
             ELSE IF Unknown THEN "UNKNOWN_PRINCIPAL_OR_RESOURCE"
             ELSE IF Protected THEN "PROTECTED_RESOURCE"
             ELSE IF Foreign THEN "DOMAIN_MISMATCH"
             ELSE IF Outside THEN "MODE_SCOPE_DENIED"
             ELSE IF roles = {} THEN "ROLE_DENIED"
             ELSE IF ~cleared THEN "CLEARANCE_REQUIRED"
             ELSE "OK"
<1>2. SimulateAccess(r, x) = Answer(UniqueIds(x.clearances), Cleared(x))
  BY Zenon DEF SimulateAccess
<1>3. SimulateAccess(r, y) = Answer(UniqueIds(y.clearances), Cleared(y))
  BY <1>1, Zenon DEF SimulateAccess
<1>4. Cleared(y) => Cleared(x) BY ClearanceBefore, Zenon
<1> HIDE DEF actors, resources, mode, roles, Unique, Unknown, Protected, Foreign, Outside, Cleared
<1>5. QED BY <1>1, <1>2, <1>3, <1>4

LEMMA ScopedAccessBefore ==
  ASSUME NEW issued, NEW denied, NEW laterIssued, NEW laterDenied, NEW time,
         Restricts(laterIssued, laterDenied, issued, denied),
         NEW s, s = SnapshotOf(issued, denied),
         NEW t, t = SnapshotOf(laterIssued, laterDenied),
         NEW r, CheckScopedAccess(r, t, Receipt(t, Base.organization, time)) = "OK"
  PROVE  CheckScopedAccess(r, s, Receipt(s, Base.organization, time)) = "OK"
<1> DEFINE x == ContextFor(r, s, time)
           y == ContextFor(r, t, time)
           before == CheckScopedAccess(r, s, Receipt(s, Base.organization, time))
           after == CheckScopedAccess(r, t, Receipt(t, Base.organization, time))
           Code(wellFormed, valid, matches, isDenied, simulated) ==
             IF ~wellFormed THEN "INVALID_REQUEST"
             ELSE IF ~valid THEN "INVALID_OR_STALE_SNAPSHOT"
             ELSE IF ~matches THEN "SCOPE_OR_POLICY_MISMATCH"
             ELSE IF isDenied THEN "EXPLICIT_DENIAL"
             ELSE simulated
<1>1. \A z : Receipt(z, Base.organization, time).now = time BY DEF Receipt
<1>2. /\ before = Code(r.wellFormed, CheckSnapshot(s, Receipt(s, Base.organization, time)),
                       ScopeMatches(r, s), IsDenied(r, s), SimulateAccess(r, x))
      /\ after = Code(r.wellFormed, CheckSnapshot(t, Receipt(t, Base.organization, time)),
                      ScopeMatches(r, t), IsDenied(r, t), SimulateAccess(r, y))
  BY <1>1, Zenon DEF CheckScopedAccess
<1>3. /\ CheckSnapshot(t, Receipt(t, Base.organization, time))
         => CheckSnapshot(s, Receipt(s, Base.organization, time))
      /\ ScopeMatches(r, t) => ScopeMatches(r, s)
      /\ IsDenied(r, s) => IsDenied(r, t)
  BY SnapshotRestricted
<1>4. Narrower(y, x)
  <2>1. /\ x.principals = Base.principals /\ x.resources = Base.resources
        /\ x.issuerMandates = Base.issuerMandates /\ x.now = time
        /\ x.clearances = {c \in issued : r.purpose \in c.purposes
                                          /\ r.environment \in c.environments}
    BY AccessContextFields
  <2>2. /\ y.principals = Base.principals /\ y.resources = Base.resources
        /\ y.issuerMandates = Base.issuerMandates /\ y.now = time
        /\ y.clearances = {c \in laterIssued : r.purpose \in c.purposes
                                               /\ r.environment \in c.environments}
    BY AccessContextFields
  <2> HIDE DEF x, y
  <2>3. QED BY <2>1, <2>2 DEF Narrower, Restricts, UniqueIds
<1>5. SimulateAccess(r, y) = "OK" => SimulateAccess(r, x) = "OK"
  BY <1>4, SimulatedAccessBefore, Zenon
<1> HIDE DEF x, y
<1>6. QED BY <1>2, <1>3, <1>5

(* The same of the checked review: where every reviewer has one record per  *)
(* subject, those who complete it after a restriction did so before it.     *)
LEMMA ScopedReviewBefore ==
  ASSUME NEW issued, NEW denied, NEW laterIssued, NEW laterDenied, NEW time,
         Restricts(laterIssued, laterDenied, issued, denied),
         NEW s, s = SnapshotOf(issued, denied),
         NEW t, t = SnapshotOf(laterIssued, laterDenied),
         NEW S, NEW reviews \in Seq(S), NEW subject,
         \A i \in DOMAIN reviews : reviews[i].reviewer # NoOne,
         \A i, j \in DOMAIN reviews :
           reviews[i].reviewer = reviews[j].reviewer
           /\ reviews[i].subjectHash = reviews[j].subjectHash => i = j,
         CheckScopedReview(subject, reviews, t, Receipt(t, Base.organization, time)) = "OK"
  PROVE  CheckScopedReview(subject, reviews, s, Receipt(s, Base.organization, time)) = "OK"
<1> DEFINE sReceipt == Receipt(s, Base.organization, time)
           tReceipt == Receipt(t, Base.organization, time)
           x == ReviewContext(subject, s, time)
           y == ReviewContext(subject, t, time)
           before == CheckScopedReview(subject, reviews, s, sReceipt)
           after == CheckScopedReview(subject, reviews, t, tReceipt)
           r == ReleaseRequest(subject, subject.requester)
<1>1. sReceipt.now = time /\ tReceipt.now = time BY DEF Receipt
<1>2. x = ReviewContext(subject, s, sReceipt.now) /\ y = ReviewContext(subject, t, tReceipt.now)
  BY <1>1, Zenon
<1>3. /\ CheckSnapshot(t, tReceipt) => CheckSnapshot(s, sReceipt)
      /\ \A q : ScopeMatches(q, t) => ScopeMatches(q, s)
      /\ \A q : IsDenied(q, s) => IsDenied(q, t)
  BY SnapshotRestricted
<1>4. Narrower(y, x)
  <2>1. /\ x.principals = Base.principals /\ x.resources = Base.resources
        /\ x.issuerMandates = Base.issuerMandates /\ x.now = time
        /\ x.clearances
             = {c \in issued : /\ subject.purpose \in c.purposes
                               /\ subject.environment \in c.environments
                               /\ ~IsDenied(ReleaseRequest(subject, c.subject), s)}
    BY ReviewContextFields
  <2>2. /\ y.principals = Base.principals /\ y.resources = Base.resources
        /\ y.issuerMandates = Base.issuerMandates /\ y.now = time
        /\ y.clearances
             = {c \in laterIssued : /\ subject.purpose \in c.purposes
                                    /\ subject.environment \in c.environments
                                    /\ ~IsDenied(ReleaseRequest(subject, c.subject), t)}
    BY ReviewContextFields
  <2>3. \A c : IsDenied(ReleaseRequest(subject, c.subject), s)
               => IsDenied(ReleaseRequest(subject, c.subject), t)
    BY <1>3, Zenon
  <2> HIDE DEF x, y
  <2>4. QED BY <2>1, <2>2, <2>3 DEF Narrower, Restricts, UniqueIds
<1>5. AudienceReads(subject, subject.resource, t, tReceipt)
        => AudienceReads(subject, subject.resource, s, sReceipt)
  <2>1. \A q : CheckScopedAccess(q, t, tReceipt) = "OK" => CheckScopedAccess(q, s, sReceipt) = "OK"
    BY ScopedAccessBefore
  <2> HIDE DEF sReceipt, tReceipt
  <2>2. QED BY <2>1, Zenon DEF AudienceReads
<1> HIDE DEF x, y, sReceipt, tReceipt, r
<1>6. /\ before = "OK"
         <=> /\ subject.wellFormed /\ CheckSnapshot(s, sReceipt) /\ ScopeMatches(r, s)
             /\ AudienceReads(subject, subject.resource, s, sReceipt) /\ ~IsDenied(r, s)
             /\ Reviewable(subject, reviews, x) /\ AllChosen(subject, reviews, x)
  BY <1>2, ScopedReview DEF r
<1>7. /\ after = "OK"
         <=> /\ subject.wellFormed /\ CheckSnapshot(t, tReceipt) /\ ScopeMatches(r, t)
             /\ AudienceReads(subject, subject.resource, t, tReceipt) /\ ~IsDenied(r, t)
             /\ Reviewable(subject, reviews, y) /\ AllChosen(subject, reviews, y)
  BY <1>2, ScopedReview DEF r
<1>8. Reviewable(subject, reviews, y) => Reviewable(subject, reviews, x)
  BY <1>4 DEF Reviewable, Narrower
<1>9. subject.accessMode \in DOMAIN ReviewerRoles /\ AllChosen(subject, reviews, y)
      => AllChosen(subject, reviews, x)
  <2> SUFFICES ASSUME subject.accessMode \in DOMAIN ReviewerRoles,
                      AllChosen(subject, reviews, y)
               PROVE  AllChosen(subject, reviews, x)
    OBVIOUS
  <2>1. Complete(subject, reviews, y) BY AllChosenComplete
  <2>2. \A record, role :
          Qualifies(record, role, subject, {}, y) => Qualifies(record, role, subject, {}, x)
    <3> TAKE record, role
    <3>1. HasClearance(ReleaseRequest(subject, record.reviewer), role, y)
          => HasClearance(ReleaseRequest(subject, record.reviewer), role, x)
      BY <1>4, ClearanceBefore, Zenon
    <3>2. y.principals = x.principals /\ y.now = x.now BY <1>4, Zenon DEF Narrower
    <3>3. QED BY <3>1, <3>2 DEF Qualifies
  <2>3. Complete(subject, reviews, x) BY <2>1, <2>2, Zenon DEF Complete
  <2>4. QED BY <2>3, CompleteAllChosen
<1>10. Reviewable(subject, reviews, y) => subject.accessMode \in DOMAIN ReviewerRoles
  BY Zenon DEF Reviewable
<1>11. after = "OK" BY DEF tReceipt
<1>12. before = "OK" BY <1>3, <1>5, <1>6, <1>7, <1>8, <1>9, <1>10, <1>11
<1>13. QED BY <1>12 DEF sReceipt

(* Revoking a clearance or adding a denial restricts the organization.      *)
LEMMA RestrictionStep ==
  ASSUME OInv,
         (\E c \in Clearance : Revoke(c)) \/ (\E rule \in Denial : Deny(rule))
  PROVE  /\ Restricts(clearances', denials', clearances, denials)
         /\ records' = records /\ now' = now
<1>1. UniqueIds(clearances) BY DEF OInv
<1>2. ASSUME NEW c \in Clearance, Revoke(c)
      PROVE  /\ Restricts(clearances', denials', clearances, denials)
             /\ records' = records /\ now' = now
  <2>1. /\ c \in clearances /\ clearances' = (clearances \ {c}) \cup {Revoked(c)}
        /\ denials' = denials /\ records' = records /\ now' = now
    BY <1>2 DEF Revoke
  <2>2. Revoked(c).revoked BY <2>1, RevokedFields, Zenon DEF OInv
  <2>3. \A k \in clearances' : ~k.revoked => k \in clearances BY <2>1, <2>2, Zenon
  <2>4. QED BY <1>1, <2>1, <2>3, Zenon DEF Restricts
<1>3. ASSUME NEW rule \in Denial, Deny(rule)
      PROVE  /\ Restricts(clearances', denials', clearances, denials)
             /\ records' = records /\ now' = now
  <2>1. /\ denials' = denials \cup {rule} /\ clearances' = clearances
        /\ records' = records /\ now' = now
    BY <1>3 DEF Deny
  <2>2. denials \subseteq denials' BY <2>1
  <2>3. QED BY <1>1, <2>1, <2>2, Zenon DEF Restricts
<1>4. QED BY <1>2, <1>3, Zenon

(* denied and hasClearance: revoking a clearance or adding a denial never   *)
(* opens access that was closed, nor, where every reviewer has one record   *)
(* for a subject, completes a review that was not, in any organization.     *)
THEOREM RestrictionsAlwaysRestrict == Spec => RestrictionsNeverPermit
<1> DEFINE Restricting == (\E c \in Clearance : Revoke(c)) \/ (\E rule \in Denial : Deny(rule))
           Closed == /\ \A r \in AccessRequest : AccessAnswer(r)' = "OK" => AccessAnswer(r) = "OK"
                     /\ OneRecordEach =>
                          \A subject \in ReviewSubject :
                            ReviewAnswer(subject)' = "OK" => ReviewAnswer(subject) = "OK"
<1>1. OInv /\ [Next]_vars => [Restricting => Closed]_vars
  <2> SUFFICES ASSUME OInv, Restricting PROVE Closed OBVIOUS
  <2> DEFINE s == SnapshotOf(clearances, denials)
             t == SnapshotOf(clearances', denials')
  <2>1. Restricts(clearances', denials', clearances, denials) /\ records' = records /\ now' = now
    BY RestrictionStep
  <2>2. Snapshot = s /\ Snapshot' = t BY Zenon DEF Snapshot, SnapshotOf
  <2> HIDE DEF s, t
  <2>3. ASSUME NEW r \in AccessRequest, AccessAnswer(r)' = "OK" PROVE AccessAnswer(r) = "OK"
    <3>1. AccessAnswer(r) = CheckScopedAccess(r, s, Receipt(s, Base.organization, now))
      BY <2>2, Zenon DEF AccessAnswer
    <3>2. AccessAnswer(r)' = CheckScopedAccess(r, t, Receipt(t, Base.organization, now))
      BY <2>1, <2>2, Zenon DEF AccessAnswer
    <3>3. QED BY <2>1, <2>3, <3>1, <3>2, ScopedAccessBefore DEF s, t
  <2>4. ASSUME OneRecordEach, NEW subject \in ReviewSubject, ReviewAnswer(subject)' = "OK"
        PROVE  ReviewAnswer(subject) = "OK"
    <3>1. ReviewAnswer(subject)
            = CheckScopedReview(subject, records, s, Receipt(s, Base.organization, now))
      BY <2>2, Zenon DEF ReviewAnswer
    <3>2. ReviewAnswer(subject)'
            = CheckScopedReview(subject, records, t, Receipt(t, Base.organization, now))
      BY <2>1, <2>2, Zenon DEF ReviewAnswer
    <3>3. records \in Seq(Record) BY DEF OInv
    <3>4. \A i \in DOMAIN records : records[i].reviewer # NoOne BY <3>3, FormatAssumption
    <3>5. \A i, j \in DOMAIN records :
            records[i].reviewer = records[j].reviewer
            /\ records[i].subjectHash = records[j].subjectHash => i = j
      BY <2>4, Zenon DEF OneRecordEach
    <3>6. QED BY <2>1, <2>4, <3>1, <3>2, <3>3, <3>4, <3>5, ScopedReviewBefore DEF s, t
  <2>5. QED BY <2>3, <2>4, Zenon
<1>2. QED BY <1>1, OInvInvariant, PTL DEF Spec, RestrictionsNeverPermit
=============================================================================
