--------------------------- MODULE RegistryChanges ---------------------------
(***************************************************************************)
(* How a change of the registries reaches the main branch: edits and the   *)
(* two generators (scripts/generate*.ts) change a branch file by file and  *)
(* may be interrupted; CI runs registry-change-protocol, registry-         *)
(* generated-sync and governance-manifest on pull requests; a branch whose *)
(* last pull request check passed is merged, while main may have moved on. *)
(* Git is external. A tree gives each file its content; rendering and      *)
(* hashing are injective and nothing more.                                 *)
(***************************************************************************)
EXTENDS Sequences, FiniteSets, Naturals

CONSTANTS
  Branch,          \* topic branches
  ChangeSet,       \* the edits a commit may make: functions from files to contents
  MaxChanges,      \* bound: edits and generator runs on one branch
  Missing          \* the content of a file that does not exist

VARIABLES
  main,            \* the tree of the main branch
  topic,           \* branch -> its head, its merge base with main, and CI's verdict
  outdated         \* a merge rested on changes that main had at its check and has lost since

vars == <<main, topic, outdated>>
-----------------------------------------------------------------------------
(* Versioned registries; the third is a version that does not exist yet.    *)
RegistryFile == {"decision-codes.v1.json", "invariants.v2.json", "invariants.v3.json"}

GeneratedFor(file) ==
  IF file = "decision-codes.v1.json" THEN "decisionCodes.v1.ts"
  ELSE IF file = "invariants.v2.json" THEN "invariants.v2.ts" ELSE "invariants.v3.ts"

Current == <<"decision-codes.v1.json", "invariants.v2.json">>

File == RegistryFile \cup {GeneratedFor(f) : f \in RegistryFile}
        \cup {"CHANGELOG.md", "registryIndex.ts", "constitution", "manifest.json", "manifest.ts"}

Rendered(payload) == <<"generated", payload>>

(* The registries and documents the manifest binds.                         *)
CreateGovernanceManifest(tree) == <<tree["constitution"], tree[Current[1]], tree[Current[2]]>>

Write(file, content) == <<file, content>>

(* What each generator writes, in its order, computed before the first one. *)
WriteGeneratedRegistries(tree) ==
  [n \in 1..Len(Current) |-> Write(GeneratedFor(Current[n]), Rendered(tree[Current[n]]))]

WriteGovernanceManifest(tree) ==
  <<Write("manifest.json", CreateGovernanceManifest(tree)),
    Write("manifest.ts", Rendered(CreateGovernanceManifest(tree)))>>
-----------------------------------------------------------------------------
(* registry-generated-sync: what the generator would write is there.        *)
RegistryGeneratedSync(tree) ==
  \A n \in 1..Len(Current) :
    tree[GeneratedFor(Current[n])] = WriteGeneratedRegistries(tree)[n][2]

(* Mutant of CheckGovernanceManifest: the runtime's copy is not compared.   *)
CheckManifestJson(tree) == tree["manifest.json"] = CreateGovernanceManifest(tree)

CheckGovernanceManifest(tree) ==
  /\ tree["manifest.json"] = CreateGovernanceManifest(tree)
  /\ tree["manifest.ts"] = Rendered(tree["manifest.json"])

Status(base, head, file) ==
  IF base[file] = head[file] THEN "unchanged"
  ELSE IF base[file] = Missing THEN "A"
  ELSE IF head[file] = Missing THEN "D" ELSE "M"

Touched(base, head, file) == Status(base, head, file) \in {"A", "M"}

(* Mutant of ValidateChanges: only a modification is forbidden.             *)
ValidateModifications(base, head) ==
  \A f \in RegistryFile : Status(base, head, f) # "M"

(* Mutant of ValidateChanges: any change of the generated file will do.     *)
ValidateLoosely(base, head) ==
  LET added == {f \in RegistryFile : Status(base, head, f) = "A"}
      changed(file) == Status(base, head, file) # "unchanged"
  IN  /\ \A f \in RegistryFile : Status(base, head, f) \in {"A", "unchanged"}
      /\ added # {} => /\ changed("CHANGELOG.md") /\ changed("registryIndex.ts")
                       /\ \A f \in added : changed(GeneratedFor(f))

(* validate: versions are only added, each with everything it needs.        *)
ValidateChanges(base, head) ==
  LET added == {f \in RegistryFile : Status(base, head, f) = "A"}
  IN  /\ \A f \in RegistryFile : Status(base, head, f) \in {"A", "unchanged"}
      /\ added # {} => /\ Touched(base, head, "CHANGELOG.md")
                       /\ Touched(base, head, "registryIndex.ts")
                       /\ \A f \in added : Touched(base, head, GeneratedFor(f))

(* The diagnostics of a run of CI: the two endpoints of the comparison, and *)
(* the tree that is checked out.                                            *)
Preflight(base, head, checkout) ==
  /\ ValidateChanges(base, head)
  /\ RegistryGeneratedSync(checkout)
  /\ CheckGovernanceManifest(checkout)
-----------------------------------------------------------------------------
(* A three-way merge, file by file.                                         *)
Conflicts(base, ours, theirs) ==
  {f \in File : ours[f] # base[f] /\ theirs[f] # base[f] /\ ours[f] # theirs[f]}

Merged(base, ours, theirs, keep) ==
  [f \in File |->
     IF f \in Conflicts(base, ours, theirs) THEN IF f \in keep THEN ours[f] ELSE theirs[f]
     ELSE IF ours[f] # base[f] THEN ours[f] ELSE theirs[f]]

Branched(tree) ==
  [head |-> tree, base |-> tree, pending |-> <<>>, changes |-> 0,
   pull |-> "none", shared |-> {}]

Verdict(passed) == IF passed THEN "passed" ELSE "failed"

(* A commit is pushed: the pull request has to be checked again. What the   *)
(* checks of the push itself say keeps nobody from merging, and is left out.*)
Pushed(t, head) == [t EXCEPT !.head = head, !.pull = "none", !.shared = {}]

(* The files a branch and main changed alike.                               *)
Shared(t) == {f \in File : t.head[f] # t.base[f] /\ main[f] = t.head[f]}

Edit(b) ==
  /\ topic[b].changes < MaxChanges
  /\ \E change \in ChangeSet :
       LET head == [f \in File |-> IF f \in DOMAIN change THEN change[f] ELSE topic[b].head[f]]
       IN  /\ head # topic[b].head
           /\ topic' = [topic EXCEPT ![b] = [Pushed(topic[b], head) EXCEPT !.changes = @ + 1]]
  /\ UNCHANGED <<main, outdated>>

(* gen:registries, gen:governance-manifest: a generator reads its sources.  *)
Generate(b) ==
  /\ topic[b].changes < MaxChanges /\ topic[b].pending = <<>>
  /\ \E writes \in {WriteGeneratedRegistries(topic[b].head), WriteGovernanceManifest(topic[b].head)} :
       topic' = [topic EXCEPT ![b].pending = writes, ![b].changes = @ + 1]
  /\ UNCHANGED <<main, outdated>>

(* It writes the next file, which may be pushed before the others.          *)
WriteNext(b) ==
  /\ topic[b].pending # <<>>
  /\ LET write == Head(topic[b].pending)
         head  == [topic[b].head EXCEPT ![write[1]] = write[2]]
     IN  topic' = [topic EXCEPT ![b] = [Pushed(topic[b], head) EXCEPT !.pending = Tail(@)]]
  /\ UNCHANGED <<main, outdated>>

Interrupt(b) ==
  /\ topic[b].pending # <<>>
  /\ topic' = [topic EXCEPT ![b].pending = <<>>]
  /\ UNCHANGED <<main, outdated>>

(* Main is merged into the branch; conflicts are settled either way.        *)
Update(b) ==
  /\ topic[b].base # main
  /\ \E keep \in SUBSET Conflicts(topic[b].base, topic[b].head, main) :
       LET head == Merged(topic[b].base, topic[b].head, main, keep)
       IN  topic' = [topic EXCEPT ![b] = [Pushed(topic[b], head) EXCEPT !.base = main]]
  /\ UNCHANGED <<main, outdated>>
-----------------------------------------------------------------------------
(* The pull request event compares the merge base with the head, and checks *)
(* out the result of the merge, if there is one.                            *)
CheckPullRequest(b) ==
  LET t == topic[b]
  IN  /\ t.pull = "none" /\ t.head # t.base
      /\ Conflicts(t.base, t.head, main) = {}
      /\ topic' = [topic EXCEPT ![b].shared = Shared(t),
                     ![b].pull = Verdict(Preflight(t.base, t.head, Merged(t.base, t.head, main, {})))]
      /\ UNCHANGED <<main, outdated>>

(* Main may have changed since the check, and may have lost what it shared  *)
(* with the branch (outdated). A new branch starts from it.                 *)
MergePullRequest(b) ==
  LET t == topic[b]
  IN  /\ t.pull = "passed"
      /\ Conflicts(t.base, t.head, main) = {}
      /\ main' = Merged(t.base, t.head, main, {})
      /\ outdated' = (outdated \/ ~(t.shared \subseteq Shared(t)))
      /\ topic' = [topic EXCEPT ![b] = [Branched(main') EXCEPT !.changes = t.changes]]
-----------------------------------------------------------------------------
InitialSources ==
  [f \in File |->
     IF f \in {"invariants.v3.json", "invariants.v3.ts"} THEN Missing ELSE <<"initial", f>>]

(* The generators have run.                                                 *)
InitialTree ==
  [f \in File |->
     IF f = "manifest.json" THEN CreateGovernanceManifest(InitialSources)
     ELSE IF f = "manifest.ts" THEN Rendered(CreateGovernanceManifest(InitialSources))
     ELSE IF \E n \in 1..Len(Current) : f = GeneratedFor(Current[n])
     THEN Rendered(InitialSources[CHOOSE g \in RegistryFile : GeneratedFor(g) = f])
     ELSE InitialSources[f]]

Init ==
  /\ main = InitialTree /\ outdated = FALSE
  /\ topic = [b \in Branch |-> Branched(InitialTree)]

Next ==
  \E b \in Branch :
    \/ Edit(b) \/ Generate(b) \/ WriteNext(b) \/ Interrupt(b) \/ Update(b)
    \/ CheckPullRequest(b) \/ MergePullRequest(b)

Spec == Init /\ [][Next]_vars
-----------------------------------------------------------------------------
(* Whatever is merged in whichever order, and however conflicts on other    *)
(* branches were settled, a registry version that is on main keeps its      *)
(* content (validate against the merge base).                               *)
MainIsAppendOnly ==
  [][\A f \in RegistryFile : main[f] # Missing => main'[f] = main[f]]_vars

(* A version that arrives on main arrives with its generated module, even   *)
(* if other branches remove or add that module at the same time.            *)
NewVersionArrivesWhole ==
  [][\A f \in RegistryFile :
       main[f] = Missing /\ main'[f] # Missing => main'[GeneratedFor(f)] # Missing]_vars

(* What the runtime loads is what the sources on main say: the generated    *)
(* registries are their JSON files and the manifest binds the constitution  *)
(* and the registries as they are, although each branch was checked against *)
(* an older main and generators may have been interrupted. The exception is *)
(* a branch that was checked while main had part of its change already: if  *)
(* main gives that part up, the passed check no longer covers the merge.    *)
RuntimeMatchesSources ==
  \/ outdated
  \/ /\ \A n \in 1..Len(Current) :
          main[GeneratedFor(Current[n])] = <<"generated", main[Current[n]]>>
     /\ main["manifest.ts"] =
          <<"generated", <<main["constitution"], main[Current[1]], main[Current[2]]>>>>
=============================================================================
