------------------------ MODULE RegistryChangesProofs ------------------------
(***************************************************************************)
(* Proofs about RegistryChanges for any branches and any edits. A merge    *)
(* rests on a check of the branch against its own merge base, so what has  *)
(* to be carried along is that a branch with a passed check still is what  *)
(* was checked (CheckedInv): every push takes the verdict back. That the   *)
(* runtime matches its sources needs, beyond that, what a check of the     *)
(* merge result with the main of its time says about a merge with a later  *)
(* one: for each file the runtime loads, either main already had all that  *)
(* the branch changes of it and its sources, or the branch brings both in  *)
(* agreement (Covers).                                                     *)
(***************************************************************************)
EXTENDS RegistryChanges, TLAPS

IsTopic(t) ==
  t = [head |-> t.head, base |-> t.base, pending |-> t.pending, changes |-> t.changes,
       pull |-> t.pull, shared |-> t.shared]

CheckedInv ==
  /\ DOMAIN topic = Branch
  /\ \A b \in Branch : IsTopic(topic[b])
  /\ \A b \in Branch :
       topic[b].pull = "passed" => ValidateChanges(topic[b].base, topic[b].head)

(* The files the runtime loads, and what each is generated from.            *)
Target == {"decisionCodes.v1.ts", "invariants.v2.ts", "manifest.ts"}

Source(target) ==
  IF target = "manifest.ts" THEN {"constitution", "decision-codes.v1.json", "invariants.v2.json"}
  ELSE IF target = "invariants.v2.ts" THEN {"invariants.v2.json"}
  ELSE {"decision-codes.v1.json"}

InSync(tree, target) ==
  tree[target] =
    <<"generated",
      IF target = "manifest.ts"
      THEN <<tree["constitution"], tree["decision-codes.v1.json"], tree["invariants.v2.json"]>>
      ELSE IF target = "invariants.v2.ts" THEN tree["invariants.v2.json"]
      ELSE tree["decision-codes.v1.json"]>>

(* What a passed check shows of a branch, whatever main is when it merges.  *)
Covers(t, target) ==
  \/ \A f \in Source(target) \cup {target} : t.head[f] # t.base[f] => f \in t.shared
  \/ t.head[target] # t.base[target] /\ InSync(t.head, target)

RuntimeInv ==
  /\ outdated \in BOOLEAN
  /\ ~outdated =>
       \A target \in Target :
         /\ InSync(main, target)
         /\ \A b \in Branch : InSync(topic[b].base, target)
         /\ \A b \in Branch : topic[b].pull = "passed" => Covers(topic[b], target)
-----------------------------------------------------------------------------
LEMMA Files ==
  /\ RegistryFile \subseteq File
  /\ \A f \in RegistryFile : GeneratedFor(f) \in File
  /\ Target \subseteq File
  /\ \A target \in Target : Source(target) \subseteq File
<1>1. GeneratedFor("decision-codes.v1.json") = "decisionCodes.v1.ts"
      /\ GeneratedFor("invariants.v2.json") = "invariants.v2.ts"
  BY DEF GeneratedFor
<1>2. "decisionCodes.v1.ts" \in File /\ "invariants.v2.ts" \in File
  BY <1>1 DEF File, RegistryFile
<1>3. Target \subseteq File
  BY <1>2 DEF Target, File
<1>4. \A target \in Target : Source(target) \subseteq File
  BY DEF Source, File, RegistryFile
<1> QED BY <1>3, <1>4 DEF File

(* A push, a new branch and a check are records of the same shape.          *)
LEMMA PushedTopic ==
  ASSUME NEW t, IsTopic(t), NEW head
  PROVE  /\ IsTopic(Pushed(t, head))
         /\ Pushed(t, head).pull = "none" /\ Pushed(t, head).base = t.base
<1>1. Pushed(t, head) = [t EXCEPT !.head = head, !.pull = "none", !.shared = {}]
  BY DEF Pushed
<1>2. Pushed(t, head) = [head |-> head, base |-> t.base, pending |-> t.pending,
                         changes |-> t.changes, pull |-> "none", shared |-> {}]
  BY <1>1 DEF IsTopic
<1> QED BY <1>2 DEF IsTopic

LEMMA BranchedTopic ==
  ASSUME NEW tree
  PROVE  IsTopic(Branched(tree)) /\ Branched(tree).pull = "none" /\ Branched(tree).base = tree
BY DEF IsTopic, Branched

(* How one step changes a branch: its check is taken back and its base is   *)
(* kept or becomes main, or it is left alone but for what is pending, or it *)
(* is checked, or it is merged.                                             *)
Reset(b) ==
  /\ UNCHANGED <<main, outdated>>
  /\ topic'[b].pull = "none" /\ topic'[b].base \in {topic[b].base, main}

Untouched(b) ==
  /\ UNCHANGED <<main, outdated>>
  /\ topic'[b].pull = topic[b].pull /\ topic'[b].base = topic[b].base
  /\ topic'[b].head = topic[b].head /\ topic'[b].shared = topic[b].shared

Checked(b) ==
  /\ UNCHANGED <<main, outdated>>
  /\ Conflicts(topic[b].base, topic[b].head, main) = {}
  /\ topic'[b].base = topic[b].base /\ topic'[b].head = topic[b].head
  /\ topic'[b].shared = Shared(topic[b])
  /\ topic'[b].pull = "passed" =>
       Preflight(topic[b].base, topic[b].head, Merged(topic[b].base, topic[b].head, main, {}))

MergedIn(b) ==
  /\ topic[b].pull = "passed"
  /\ Conflicts(topic[b].base, topic[b].head, main) = {}
  /\ main' = Merged(topic[b].base, topic[b].head, main, {})
  /\ outdated' = (outdated \/ ~(topic[b].shared \subseteq Shared(topic[b])))
  /\ topic'[b].pull = "none" /\ topic'[b].base = main'

LEMMA Steps ==
  ASSUME DOMAIN topic = Branch, \A b \in Branch : IsTopic(topic[b]), Next
  PROVE  \E b \in Branch :
           /\ DOMAIN topic' = Branch /\ \A c \in Branch \ {b} : topic'[c] = topic[c]
           /\ IsTopic(topic'[b])
           /\ Reset(b) \/ Untouched(b) \/ Checked(b) \/ MergedIn(b)
<1> DEFINE Only(b) == DOMAIN topic' = Branch /\ \A c \in Branch \ {b} : topic'[c] = topic[c]
           Moves(b) == /\ Only(b) /\ IsTopic(topic'[b])
                       /\ Reset(b) \/ Untouched(b) \/ Checked(b) \/ MergedIn(b)
<1>1. ASSUME NEW b \in Branch, Edit(b)
      PROVE  Moves(b)
  <2>1. PICK change \in ChangeSet :
          topic' = [topic EXCEPT ![b] =
            [Pushed(topic[b], [f \in File |-> IF f \in DOMAIN change THEN change[f]
                                              ELSE topic[b].head[f]]) EXCEPT !.changes = @ + 1]]
    BY <1>1 DEF Edit
  <2> DEFINE t == Pushed(topic[b], [f \in File |-> IF f \in DOMAIN change THEN change[f]
                                                   ELSE topic[b].head[f]])
  <2>2. IsTopic(t) /\ t.pull = "none" /\ t.base = topic[b].base
    BY PushedTopic
  <2>3. topic' = [topic EXCEPT ![b] = [t EXCEPT !.changes = @ + 1]]
    BY <2>1
  <2> HIDE DEF t
  <2>4. IsTopic(topic'[b]) /\ topic'[b].pull = "none" /\ topic'[b].base = topic[b].base
    BY <2>2, <2>3 DEF IsTopic
  <2> QED BY <1>1, <2>3, <2>4 DEF Edit, Reset
<1>2. ASSUME NEW b \in Branch, Generate(b) \/ Interrupt(b)
      PROVE  Moves(b)
  <2>1. CASE Generate(b)
    <3>1. PICK writes : topic' = [topic EXCEPT ![b].pending = writes, ![b].changes = @ + 1]
      BY <2>1 DEF Generate
    <3>2. Only(b) /\ IsTopic(topic'[b])
      BY <3>1 DEF IsTopic
    <3>3. Untouched(b)
      BY <2>1, <3>1 DEF Generate, Untouched, IsTopic
    <3> QED BY <3>2, <3>3
  <2>2. CASE Interrupt(b)
    <3>1. topic' = [topic EXCEPT ![b].pending = <<>>]
      BY <2>2 DEF Interrupt
    <3>2. Only(b) /\ IsTopic(topic'[b])
      BY <3>1 DEF IsTopic
    <3>3. Untouched(b)
      BY <2>2, <3>1 DEF Interrupt, Untouched, IsTopic
    <3> QED BY <3>2, <3>3
  <2> QED BY <1>2, <2>1, <2>2
<1>3. ASSUME NEW b \in Branch, WriteNext(b)
      PROVE  Moves(b)
  <2> DEFINE write == Head(topic[b].pending)
             t == Pushed(topic[b], [topic[b].head EXCEPT ![write[1]] = write[2]])
  <2>1. topic' = [topic EXCEPT ![b] = [t EXCEPT !.pending = Tail(@)]]
    BY <1>3 DEF WriteNext
  <2>2. IsTopic(t) /\ t.pull = "none" /\ t.base = topic[b].base
    BY PushedTopic
  <2> HIDE DEF t
  <2>3. IsTopic(topic'[b]) /\ topic'[b].pull = "none" /\ topic'[b].base = topic[b].base
    BY <2>1, <2>2 DEF IsTopic
  <2> QED BY <1>3, <2>1, <2>3 DEF WriteNext, Reset
<1>4. ASSUME NEW b \in Branch, Update(b)
      PROVE  Moves(b)
  <2>1. PICK keep :
          topic' = [topic EXCEPT ![b] =
            [Pushed(topic[b], Merged(topic[b].base, topic[b].head, main, keep)) EXCEPT !.base = main]]
    BY <1>4 DEF Update
  <2> DEFINE t == Pushed(topic[b], Merged(topic[b].base, topic[b].head, main, keep))
  <2>2. IsTopic(t) /\ t.pull = "none"
    BY PushedTopic
  <2>3. topic' = [topic EXCEPT ![b] = [t EXCEPT !.base = main]]
    BY <2>1
  <2> HIDE DEF t
  <2>4. IsTopic(topic'[b]) /\ topic'[b].pull = "none" /\ topic'[b].base = main
    BY <2>2, <2>3 DEF IsTopic
  <2> QED BY <1>4, <2>3, <2>4 DEF Update, Reset
<1>5. ASSUME NEW b \in Branch, CheckPullRequest(b)
      PROVE  Moves(b)
  <2> DEFINE passed == Preflight(topic[b].base, topic[b].head,
                                 Merged(topic[b].base, topic[b].head, main, {}))
             verdict == Verdict(passed)
             shared == Shared(topic[b])
             t == topic[b]
  <2>1. topic' = [topic EXCEPT ![b].shared = shared, ![b].pull = verdict]
    BY <1>5 DEF CheckPullRequest
  <2>2. verdict = "passed" => passed
    BY DEF Verdict
  <2> HIDE DEF verdict, shared, passed
  <2>3. topic'[b] = [head |-> t.head, base |-> t.base, pending |-> t.pending,
                     changes |-> t.changes, pull |-> verdict,
                     shared |-> shared]
    <3>1. topic'[b] = [[t EXCEPT !.shared = shared] EXCEPT !.pull = verdict]
      BY <2>1
    <3>2. IsTopic(t)
      OBVIOUS
    <3> HIDE DEF t
    <3> QED BY <3>1, <3>2 DEF IsTopic
  <2>4. /\ IsTopic(topic'[b]) /\ topic'[b].base = t.base /\ topic'[b].head = t.head
        /\ topic'[b].shared = shared /\ topic'[b].pull = verdict
    BY <2>3 DEF IsTopic
  <2>5. Only(b)
    BY <2>1
  <2> QED BY <1>5, <2>2, <2>4, <2>5 DEF CheckPullRequest, Checked, passed, shared
<1>6. ASSUME NEW b \in Branch, MergePullRequest(b)
      PROVE  Moves(b)
  <2>1. topic' = [topic EXCEPT ![b] = [Branched(main') EXCEPT !.changes = topic[b].changes]]
    BY <1>6 DEF MergePullRequest
  <2>2. IsTopic(topic'[b]) /\ topic'[b].pull = "none" /\ topic'[b].base = main'
    BY <2>1, BranchedTopic DEF IsTopic
  <2> QED BY <1>6, <2>1, <2>2 DEF MergePullRequest, MergedIn
<1> HIDE DEF Moves
<1>7. \E b \in Branch : Moves(b)
  BY <1>1, <1>2, <1>3, <1>4, <1>5, <1>6 DEF Next
<1> QED BY <1>7 DEF Moves
-----------------------------------------------------------------------------
(* A branch with a passed check is what was checked.                        *)
THEOREM ChecksStayCurrent == Spec => []CheckedInv
<1>1. Init => CheckedInv
  BY BranchedTopic DEF Init, CheckedInv
<1>2. ASSUME CheckedInv, [Next]_vars
      PROVE  CheckedInv'
  <2>1. CASE UNCHANGED vars
    BY <1>2, <2>1 DEF CheckedInv, IsTopic, vars
  <2>2. CASE Next
    <3>1. PICK b \in Branch :
            /\ DOMAIN topic' = Branch /\ \A c \in Branch \ {b} : topic'[c] = topic[c]
            /\ IsTopic(topic'[b])
            /\ Reset(b) \/ Untouched(b) \/ Checked(b) \/ MergedIn(b)
      BY <1>2, <2>2, Steps DEF CheckedInv
    <3>2. topic'[b].pull = "passed" => ValidateChanges(topic'[b].base, topic'[b].head)
      BY <1>2, <3>1 DEF CheckedInv, Reset, Untouched, Checked, MergedIn, Preflight
    <3>3. \A c \in Branch : IsTopic(topic'[c])
      BY <1>2, <3>1 DEF CheckedInv
    <3>4. \A c \in Branch :
            topic'[c].pull = "passed" => ValidateChanges(topic'[c].base, topic'[c].head)
      BY <1>2, <3>1, <3>2 DEF CheckedInv
    <3> QED BY <3>1, <3>3, <3>4 DEF CheckedInv, IsTopic, ValidateChanges, Touched, Status
  <2> QED BY <1>2, <2>1, <2>2
<1> QED BY <1>1, <1>2, PTL DEF Spec

(* What a merge does to a registry version, whatever main became since.     *)
LEMMA MergeOfVersion ==
  ASSUME NEW base, NEW head, ValidateChanges(base, head), Conflicts(base, head, main) = {},
         NEW f \in RegistryFile
  PROVE  LET merged == Merged(base, head, main, {})
         IN  /\ main[f] # Missing => merged[f] = main[f]
             /\ main[f] = Missing /\ merged[f] # Missing => merged[GeneratedFor(f)] # Missing
<1> DEFINE g == GeneratedFor(f)
<1>1. f \in File /\ g \in File
  BY Files
<1>2. /\ Merged(base, head, main, {})[f] = IF head[f] # base[f] THEN head[f] ELSE main[f]
      /\ Merged(base, head, main, {})[g] = IF head[g] # base[g] THEN head[g] ELSE main[g]
  BY <1>1 DEF Merged
<1>3. Status(base, head, f) \in {"A", "unchanged"}
  BY DEF ValidateChanges
<1>4. head[f] # base[f] => base[f] = Missing /\ (main[f] = base[f] \/ main[f] = head[f])
  BY <1>1, <1>3 DEF Status, Conflicts
<1>5. head[f] # base[f] => head[g] # base[g] /\ head[g] # Missing
  <2>1. head[f] # base[f] => Status(base, head, f) = "A"
    BY <1>3 DEF Status
  <2>2. head[f] # base[f] => Touched(base, head, g)
    BY <2>1 DEF ValidateChanges
  <2> QED BY <2>2 DEF Touched, Status
<1> QED BY <1>2, <1>4, <1>5

(* Registry versions on main are never changed or removed by a merge.       *)
THEOREM MainOnlyGrows == Spec => MainIsAppendOnly
<1>1. ASSUME CheckedInv, [Next]_vars
      PROVE  \A f \in RegistryFile : main[f] # Missing => main'[f] = main[f]
  <2>1. CASE UNCHANGED vars
    BY <2>1 DEF vars
  <2>2. CASE Next
    <3>1. PICK b \in Branch : Reset(b) \/ Untouched(b) \/ Checked(b) \/ MergedIn(b)
      BY <1>1, <2>2, Steps DEF CheckedInv
    <3>2. CASE MergedIn(b)
      BY <1>1, <3>2, MergeOfVersion DEF CheckedInv, MergedIn
    <3> QED BY <3>1, <3>2 DEF Reset, Untouched, Checked
  <2> QED BY <1>1, <2>1, <2>2
<1>2. CheckedInv /\ [Next]_vars =>
        [\A f \in RegistryFile : main[f] # Missing => main'[f] = main[f]]_vars
  BY <1>1
<1> QED BY ChecksStayCurrent, <1>2, PTL DEF Spec, MainIsAppendOnly

(* A version new on main comes with its generated module.                   *)
THEOREM VersionsArriveWhole == Spec => NewVersionArrivesWhole
<1>1. ASSUME CheckedInv, [Next]_vars
      PROVE  \A f \in RegistryFile :
               main[f] = Missing /\ main'[f] # Missing => main'[GeneratedFor(f)] # Missing
  <2>1. CASE UNCHANGED vars
    BY <2>1 DEF vars
  <2>2. CASE Next
    <3>1. PICK b \in Branch : Reset(b) \/ Untouched(b) \/ Checked(b) \/ MergedIn(b)
      BY <1>1, <2>2, Steps DEF CheckedInv
    <3>2. CASE MergedIn(b)
      BY <1>1, <3>2, MergeOfVersion DEF CheckedInv, MergedIn
    <3> QED BY <3>1, <3>2 DEF Reset, Untouched, Checked
  <2> QED BY <1>1, <2>1, <2>2
<1>2. CheckedInv /\ [Next]_vars =>
        [\A f \in RegistryFile :
           main[f] = Missing /\ main'[f] # Missing => main'[GeneratedFor(f)] # Missing]_vars
  BY <1>1
<1> QED BY ChecksStayCurrent, <1>2, PTL DEF Spec, NewVersionArrivesWhole
-----------------------------------------------------------------------------
(* Agreement depends on the target and its sources only, and a target says  *)
(* what its sources were.                                                   *)
LEMMA InSyncLocal ==
  ASSUME NEW x, NEW y, NEW target \in Target, InSync(x, target),
         \A f \in Source(target) \cup {target} : x[f] = y[f]
  PROVE  InSync(y, target)
BY DEF InSync, Source, Target

LEMMA InSyncInjective ==
  ASSUME NEW x, NEW y, NEW target \in Target, InSync(x, target), InSync(y, target),
         x[target] = y[target]
  PROVE  \A f \in Source(target) : x[f] = y[f]
<1>1. CASE target = "manifest.ts"
  <2>1. <<x["constitution"], x["decision-codes.v1.json"], x["invariants.v2.json"]>>
        = <<y["constitution"], y["decision-codes.v1.json"], y["invariants.v2.json"]>>
    BY <1>1 DEF InSync
  <2> QED BY <1>1, <2>1 DEF Source
<1>2. CASE target = "invariants.v2.ts"
  BY <1>2 DEF InSync, Source
<1>3. CASE target = "decisionCodes.v1.ts"
  BY <1>3 DEF InSync, Source
<1> QED BY <1>1, <1>2, <1>3 DEF Target

(* The tuple Current, spelled out.                                          *)
LEMMA CurrentFiles ==
  /\ Len(Current) = 2
  /\ Current[1] = "decision-codes.v1.json" /\ Current[2] = "invariants.v2.json"
  /\ GeneratedFor(Current[1]) = "decisionCodes.v1.ts"
  /\ GeneratedFor(Current[2]) = "invariants.v2.ts"
BY DEF Current, GeneratedFor

(* The two checks of the runtime's files, per target.                       *)
LEMMA PreflightInSync ==
  ASSUME NEW tree, RegistryGeneratedSync(tree), CheckGovernanceManifest(tree),
         NEW target \in Target
  PROVE  InSync(tree, target)
<1>1. CASE target = "manifest.ts"
  BY <1>1, CurrentFiles DEF CheckGovernanceManifest, CreateGovernanceManifest, Rendered, InSync
<1>2. \A n \in 1..2 : tree[GeneratedFor(Current[n])] = <<"generated", tree[Current[n]]>>
  BY CurrentFiles DEF RegistryGeneratedSync, WriteGeneratedRegistries, Write, Rendered
<1>3. CASE target = "invariants.v2.ts"
  BY <1>2, <1>3, CurrentFiles DEF InSync
<1>4. CASE target = "decisionCodes.v1.ts"
  BY <1>2, <1>4, CurrentFiles DEF InSync
<1> QED BY <1>1, <1>3, <1>4 DEF Target

(* A merge without conflicts, file by file.                                 *)
LEMMA MergedFile ==
  ASSUME NEW base, NEW head, NEW tree, Conflicts(base, head, tree) = {}, NEW f \in File
  PROVE  /\ Merged(base, head, tree, {})[f] = IF head[f] # base[f] THEN head[f] ELSE tree[f]
         /\ head[f] # base[f] => tree[f] \in {base[f], head[f]}
BY DEF Merged, Conflicts

(* A passed check covers the branch.                                        *)
LEMMA CheckCovers ==
  ASSUME NEW t, NEW target \in Target, Conflicts(t.base, t.head, main) = {},
         InSync(t.base, target), InSync(main, target),
         InSync(Merged(t.base, t.head, main, {}), target), t.shared = Shared(t)
  PROVE  Covers(t, target)
<1> DEFINE merged == Merged(t.base, t.head, main, {})
<1>1. Source(target) \cup {target} \subseteq File
  BY Files
<1>2. \A f \in Source(target) \cup {target} :
        /\ merged[f] = IF t.head[f] # t.base[f] THEN t.head[f] ELSE main[f]
        /\ t.head[f] # t.base[f] => main[f] \in {t.base[f], t.head[f]}
        /\ f \in t.shared <=> t.head[f] # t.base[f] /\ main[f] = t.head[f]
  BY <1>1, MergedFile DEF Shared
<1> HIDE DEF merged
<1>3. CASE merged[target] = main[target]
  <2>1. \A f \in Source(target) : merged[f] = main[f]
    BY <1>3, InSyncInjective DEF merged
  <2> QED BY <1>2, <1>3, <2>1 DEF Covers
<1>4. CASE merged[target] # main[target]
  <2>1. t.head[target] # t.base[target] /\ main[target] = t.base[target]
        /\ merged[target] = t.head[target]
    BY <1>2, <1>4
  <2>2. \A f \in Source(target) : main[f] = t.base[f]
    BY <2>1, InSyncInjective
  <2>3. \A f \in Source(target) \cup {target} : merged[f] = t.head[f]
    BY <1>2, <2>1, <2>2
  <2>4. InSync(t.head, target)
    BY <2>3, InSyncLocal DEF merged
  <2> QED BY <2>1, <2>4 DEF Covers
<1> QED BY <1>3, <1>4

(* A branch that is covered merges into any later main in agreement, as     *)
(* long as main still has what it shared with the branch.                   *)
LEMMA CoveredMerge ==
  ASSUME NEW t, NEW target \in Target, Conflicts(t.base, t.head, main) = {},
         InSync(t.base, target), InSync(main, target), Covers(t, target),
         t.shared \subseteq Shared(t)
  PROVE  InSync(Merged(t.base, t.head, main, {}), target)
<1> DEFINE merged == Merged(t.base, t.head, main, {})
<1>1. Source(target) \cup {target} \subseteq File
  BY Files
<1>2. \A f \in Source(target) \cup {target} :
        /\ merged[f] = IF t.head[f] # t.base[f] THEN t.head[f] ELSE main[f]
        /\ t.head[f] # t.base[f] => main[f] \in {t.base[f], t.head[f]}
        /\ f \in t.shared => main[f] = t.head[f]
  BY <1>1, MergedFile DEF Shared
<1> HIDE DEF merged
<1>3. CASE \A f \in Source(target) \cup {target} : t.head[f] # t.base[f] => f \in t.shared
  <2>1. \A f \in Source(target) \cup {target} : merged[f] = main[f]
    BY <1>2, <1>3
  <2> QED BY <2>1, InSyncLocal DEF merged
<1>4. CASE t.head[target] # t.base[target] /\ InSync(t.head, target)
  <2>1. CASE main[target] = t.head[target]
    <3>1. \A f \in Source(target) : main[f] = t.head[f]
      BY <1>4, <2>1, InSyncInjective
    <3>2. \A f \in Source(target) \cup {target} : merged[f] = t.head[f]
      BY <1>2, <2>1, <3>1
    <3> QED BY <1>4, <3>2, InSyncLocal DEF merged
  <2>2. CASE main[target] = t.base[target]
    <3>1. \A f \in Source(target) : main[f] = t.base[f]
      BY <2>2, InSyncInjective
    <3>2. \A f \in Source(target) \cup {target} : merged[f] = t.head[f]
      BY <1>2, <1>4, <3>1
    <3> QED BY <1>4, <3>2, InSyncLocal DEF merged
  <2> QED BY <1>2, <1>4, <2>1, <2>2
<1> QED BY <1>3, <1>4 DEF Covers

(* The initial tree is generated.                                           *)
LEMMA InitiallyInSync ==
  ASSUME NEW target \in Target
  PROVE  InSync(InitialTree, target)
<1>1. {"constitution", "decision-codes.v1.json", "invariants.v2.json", "decisionCodes.v1.ts",
       "invariants.v2.ts", "manifest.ts"} \subseteq File
  BY Files DEF File, RegistryFile, Target
<1>2. \A f \in {"constitution", "decision-codes.v1.json", "invariants.v2.json"} :
        InitialTree[f] = InitialSources[f]
  BY <1>1, CurrentFiles DEF InitialTree
<1>3. InitialTree["manifest.ts"] =
        <<"generated", <<InitialSources["constitution"], InitialSources["decision-codes.v1.json"],
                         InitialSources["invariants.v2.json"]>>>>
  <2>1. InitialTree["manifest.ts"] = Rendered(CreateGovernanceManifest(InitialSources))
    BY <1>1 DEF InitialTree
  <2> QED BY <2>1, CurrentFiles DEF Rendered, CreateGovernanceManifest
<1>4. (CHOOSE g \in RegistryFile : GeneratedFor(g) = "invariants.v2.ts") = "invariants.v2.json"
      /\ (CHOOSE g \in RegistryFile : GeneratedFor(g) = "decisionCodes.v1.ts") = "decision-codes.v1.json"
  <2>1. \A g \in RegistryFile : GeneratedFor(g) = "invariants.v2.ts" <=> g = "invariants.v2.json"
    BY DEF RegistryFile, GeneratedFor
  <2>2. \A g \in RegistryFile : GeneratedFor(g) = "decisionCodes.v1.ts" <=> g = "decision-codes.v1.json"
    BY DEF RegistryFile, GeneratedFor
  <2>3. "invariants.v2.json" \in RegistryFile /\ "decision-codes.v1.json" \in RegistryFile
    BY DEF RegistryFile
  <2> QED BY <2>1, <2>2, <2>3
<1>5. InitialTree["invariants.v2.ts"] = <<"generated", InitialSources["invariants.v2.json"]>>
      /\ InitialTree["decisionCodes.v1.ts"] = <<"generated", InitialSources["decision-codes.v1.json"]>>
  <2>1. \A f \in {"invariants.v2.ts", "decisionCodes.v1.ts"} :
          \E n \in 1..Len(Current) : f = GeneratedFor(Current[n])
    BY CurrentFiles
  <2>2. \A f \in {"invariants.v2.ts", "decisionCodes.v1.ts"} :
          InitialTree[f] = Rendered(InitialSources[CHOOSE g \in RegistryFile : GeneratedFor(g) = f])
    BY <1>1, <2>1 DEF InitialTree
  <2> QED BY <1>4, <2>2 DEF Rendered
<1> QED BY <1>2, <1>3, <1>5 DEF InSync, Target

LEMMA RuntimeInductive ==
  ASSUME CheckedInv, RuntimeInv, Next
  PROVE  RuntimeInv'
<1>1. PICK b \in Branch :
        /\ DOMAIN topic' = Branch /\ \A c \in Branch \ {b} : topic'[c] = topic[c]
        /\ IsTopic(topic'[b])
        /\ Reset(b) \/ Untouched(b) \/ Checked(b) \/ MergedIn(b)
  BY Steps DEF CheckedInv
<1>2. outdated' \in BOOLEAN
  BY <1>1 DEF Reset, Untouched, Checked, MergedIn, RuntimeInv
<1>3. SUFFICES ASSUME ~outdated', NEW target \in Target
               PROVE  /\ InSync(main', target)
                      /\ \A c \in Branch : InSync(topic'[c].base, target)
                      /\ \A c \in Branch : topic'[c].pull = "passed" => Covers(topic'[c], target)
  BY <1>2 DEF RuntimeInv, InSync, Covers
<1>4. ~outdated
  BY <1>1, <1>3 DEF Reset, Untouched, Checked, MergedIn
<1>5. /\ InSync(main, target)
      /\ \A c \in Branch : InSync(topic[c].base, target)
      /\ \A c \in Branch : topic[c].pull = "passed" => Covers(topic[c], target)
  BY <1>3, <1>4 DEF RuntimeInv
<1>6. /\ InSync(main', target) /\ InSync(topic'[b].base, target)
      /\ topic'[b].pull = "passed" => Covers(topic'[b], target)
  <2>1. CASE Reset(b)
    BY <1>5, <2>1 DEF Reset
  <2>2. CASE Untouched(b)
    BY <1>5, <2>2 DEF Untouched, Covers
  <2>3. CASE Checked(b)
    <3>1. main' = main /\ topic'[b].base = topic[b].base
      BY <2>3 DEF Checked
    <3>2. ASSUME topic'[b].pull = "passed"
          PROVE  Covers(topic'[b], target)
      <4> DEFINE t == topic'[b]
      <4>1. /\ t.base = topic[b].base /\ t.head = topic[b].head
            /\ Conflicts(t.base, t.head, main) = {} /\ t.shared = Shared(t)
            /\ Preflight(t.base, t.head, Merged(t.base, t.head, main, {}))
        BY <2>3, <3>2 DEF Checked, Shared
      <4>2. InSync(Merged(t.base, t.head, main, {}), target)
        BY <4>1, PreflightInSync DEF Preflight
      <4>3. InSync(t.base, target)
        BY <1>5, <4>1
      <4> QED BY <1>5, <4>1, <4>2, <4>3, CheckCovers
    <3> QED BY <1>5, <3>1, <3>2
  <2>4. CASE MergedIn(b)
    <3>1. /\ Conflicts(topic[b].base, topic[b].head, main) = {}
          /\ topic[b].shared \subseteq Shared(topic[b]) /\ Covers(topic[b], target)
          /\ topic'[b].pull = "none" /\ topic'[b].base = main'
          /\ main' = Merged(topic[b].base, topic[b].head, main, {})
      BY <1>3, <1>5, <2>4 DEF MergedIn
    <3>2. InSync(main', target)
      BY <1>5, <3>1, CoveredMerge
    <3> QED BY <3>1, <3>2
  <2> QED BY <1>1, <2>1, <2>2, <2>3, <2>4
<1> QED BY <1>1, <1>5, <1>6

(* What the runtime loads from main is what main's sources say, unless a    *)
(* merge rested on an outdated check.                                       *)
THEOREM RuntimeFollowsSources == Spec => []RuntimeMatchesSources
<1>1. Init => RuntimeInv
  <2> SUFFICES ASSUME Init
               PROVE  RuntimeInv
    OBVIOUS
  <2>1. \A b \in Branch : topic[b].base = InitialTree /\ topic[b].pull = "none"
    BY BranchedTopic DEF Init
  <2> QED BY <2>1, InitiallyInSync DEF Init, RuntimeInv
<1>2. ASSUME CheckedInv, RuntimeInv, [Next]_vars
      PROVE  RuntimeInv'
  <2>1. CASE UNCHANGED vars
    BY <1>2, <2>1 DEF RuntimeInv, InSync, Covers, vars
  <2> QED BY <1>2, <2>1, RuntimeInductive
<1>3. RuntimeInv => RuntimeMatchesSources
  <2> SUFFICES ASSUME RuntimeInv, ~outdated
               PROVE  RuntimeMatchesSources
    BY DEF RuntimeInv, RuntimeMatchesSources
  <2>1. \A target \in Target : InSync(main, target)
    BY DEF RuntimeInv
  <2>2. \A n \in 1..2 : main[GeneratedFor(Current[n])] = <<"generated", main[Current[n]]>>
    <3>1. ASSUME NEW n \in 1..2, n = 1
          PROVE  main[GeneratedFor(Current[n])] = <<"generated", main[Current[n]]>>
      BY <2>1, <3>1, CurrentFiles DEF InSync, Target
    <3>2. ASSUME NEW n \in 1..2, n = 2
          PROVE  main[GeneratedFor(Current[n])] = <<"generated", main[Current[n]]>>
      BY <2>1, <3>2, CurrentFiles DEF InSync, Target
    <3> QED BY <3>1, <3>2
  <2>3. main["manifest.ts"] =
          <<"generated", <<main["constitution"], main[Current[1]], main[Current[2]]>>>>
    BY <2>1, CurrentFiles DEF InSync, Target
  <2> QED BY <2>2, <2>3, CurrentFiles DEF RuntimeMatchesSources
<1> QED BY ChecksStayCurrent, <1>1, <1>2, <1>3, PTL DEF Spec
=============================================================================
