-------------------------- MODULE MCRegistryChanges --------------------------
(***************************************************************************)
(* Two branches. A new version is added with everything it needs, or       *)
(* without its generated module; either file is also removed by itself; an *)
(* old version is edited; the constitution is edited and put back.         *)
(***************************************************************************)
EXTENDS RegistryChanges, TLC

Changing(files, content) == [f \in files |-> content]

NewVersion == {"invariants.v3.json", "CHANGELOG.md", "registryIndex.ts"}

Edits ==
  {Changing(NewVersion \cup {"invariants.v3.ts"}, <<"edited">>), Changing(NewVersion, <<"other">>),
   Changing({"invariants.v3.ts"}, <<"edited">>), Changing({"invariants.v3.ts"}, Missing),
   Changing({"invariants.v2.json"}, <<"edited">>), Changing({"invariants.v3.json"}, Missing),
   Changing({"constitution"}, <<"edited">>), Changing({"constitution"}, <<"initial", "constitution">>)}

Symmetry == Permutations(Branch)
=============================================================================
