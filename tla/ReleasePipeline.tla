--------------------------- MODULE ReleasePipeline ---------------------------
(***************************************************************************)
(* From a new server of JetBrains to a release of the extension:           *)
(* .github/workflows (auto-update.yml, release.yml) and                    *)
(* scripts/bump-version.py, update-artifacts.py.                           *)
(*                                                                         *)
(* Jobs start by the clock or by hand, nothing keeps two of them apart,    *)
(* any step may fail, and maintainers push in between. A tree is what      *)
(* versions tell apart: the server it pins, the version of the extension,  *)
(* its sources as a number, and extension.wasm, which is what some tree    *)
(* was when it was built. `main` is the log of its commits.                *)
(***************************************************************************)
EXTENDS Naturals, Sequences, FiniteSets

CONSTANTS
    Jobs,        \* runs of the auto-update workflow
    MaxPin,      \* bound: servers JetBrains publishes
    MaxMain      \* bound: commits on main

ASSUME ReleaseAssumption == MaxPin \in Nat \ {0} /\ MaxMain \in Nat \ {0}

VARIABLES
    newest,      \* the newest server upstream
    main,        \* commits on main
    tags,        \* a set of [version, tree]
    queued,      \* versions whose tag started release.yml, not yet through
    published,   \* versions that have a release
    wasmOf,      \* per version: the extension.wasm of its release, or NoWasm
    pc, base,    \* per job: step, commits on main at its start
    tree,        \* per job: checkout, and what HEAD is once it has pushed
    unmade       \* history: jobs whose commit failed and that went on

repo     == <<main, tags>>
releases == <<queued, published, wasmOf>>
jobs     == <<pc, base, tree, unmade>>
vars == <<newest, repo, releases, jobs>>

Pins     == 1..MaxPin
Versions == 1..MaxMain
Built    == [pin: Pins, version: Versions, code: 1..MaxMain]
Trees    == [pin: Pins, version: Versions, code: 1..MaxMain, wasm: Built]
NoWasm   == [pin |-> 0, version |-> 0, code |-> 0]

Head1 == main[Len(main)]
Commits == {main[i] : i \in 1..Len(main)}
Tagged(v) == \E t \in tags : t.version = v
TagOf(v)  == CHOOSE t \in tags : t.version = v

(* cargo build: the wasm embeds the pin and the version (lib.rs:50, 351).  *)
Build(t) == [pin |-> t.pin, version |-> t.version, code |-> t.code]

FirstTree == [pin |-> 1, version |-> 1, code |-> 1,
              wasm |-> [pin |-> 1, version |-> 1, code |-> 1]]

Init ==
    /\ newest = 1
    /\ main = <<FirstTree>> /\ tags = {}
    /\ queued = {} /\ published = {}
    /\ wasmOf = [v \in Versions |-> NoWasm]
    /\ pc = [j \in Jobs |-> "idle"]
    /\ base = [j \in Jobs |-> 0] /\ tree = [j \in Jobs |-> FirstTree]
    /\ unmade = {}

GoTo(j, step) == pc' = [pc EXCEPT ![j] = step]

-----------------------------------------------------------------------------
(* Upstream and maintainers (environment).                                 *)

Upstream ==
    /\ newest < MaxPin
    /\ newest' = newest + 1
    /\ UNCHANGED <<repo, releases, jobs>>

(* A commit of a person: sources change, the version may be raised, and    *)
(* the wasm may have been rebuilt or forgotten.                            *)
MaintainerPush(raise, rebuild) ==
    /\ Len(main) < MaxMain
    /\ LET t == [Head1 EXCEPT !.code = @ + 1, !.version = @ + raise] IN
       main' = Append(main, IF rebuild THEN [t EXCEPT !.wasm = Build(t)] ELSE t)
    /\ UNCHANGED <<newest, tags, releases, jobs>>

(* A person updates the pin by the steps of README.md: update-artifacts.py, *)
(* the wasm rebuilt and only then the version raised.                       *)
MaintainerPin ==
    /\ Len(main) < MaxMain /\ Head1.pin < newest
    /\ LET t == [Head1 EXCEPT !.pin = newest] IN
       main' = Append(main, [t EXCEPT !.version = @ + 1, !.wasm = Build(t)])
    /\ UNCHANGED <<newest, tags, releases, jobs>>

(* A person tags the head of main: the push starts release.yml.            *)
MaintainerTag ==
    /\ ~Tagged(Head1.version)
    /\ tags' = tags \cup {[version |-> Head1.version, tree |-> Head1]}
    /\ queued' = queued \cup {Head1.version}
    /\ UNCHANGED <<newest, main, published, wasmOf, jobs>>

(* A person publishes a release by hand, without a wasm. The bridges that  *)
(* build-bridge.yml then attaches are left out.                            *)
MaintainerPublish(v) ==
    /\ Tagged(v) /\ v \notin published
    /\ published' = published \cup {v}
    /\ UNCHANGED <<newest, repo, queued, wasmOf, jobs>>

-----------------------------------------------------------------------------
(* auto-update.yml                                                         *)

JobStart(j) ==
    /\ pc[j] = "idle"
    /\ base' = [base EXCEPT ![j] = Len(main)] /\ tree' = [tree EXCEPT ![j] = Head1]
    /\ GoTo(j, "check")
    /\ UNCHANGED <<newest, repo, releases, unmade>>

(* The newest server is asked for; with the pin current there is nothing   *)
(* to do, else update-artifacts.py takes it.                               *)
JobCheck(j) ==
    /\ pc[j] = "check"
    /\ \/ tree[j].pin = newest /\ GoTo(j, "done") /\ UNCHANGED tree
       \/ /\ tree[j].pin # newest /\ GoTo(j, "build")
          /\ tree' = [tree EXCEPT ![j].pin = newest]
    /\ UNCHANGED <<newest, repo, releases, base, unmade>>

(* Mutant: the version is raised once per file.                            *)
BumpedTwice(v) == v + 2
Bumped(v) == v + 1

(* The wasm is built from the tree as it is then, and after that the       *)
(* version is raised (bump-version.py), the tests run and the commit made. *)
JobBuild(j) ==
    /\ pc[j] = "build"
    /\ tree[j].version < MaxMain
    /\ tree' = [tree EXCEPT ![j].wasm = Build(tree[j]), ![j].version = Bumped(@)]
    /\ GoTo(j, "push")
    /\ UNCHANGED <<newest, repo, releases, base, unmade>>

(* git commit, git push origin main: only if main is where the job found   *)
(* it. Mutants: the commit is rebased onto main first; the tag goes with   *)
(* the push.                                                               *)
JobPushRebased(j) ==
    /\ pc[j] = "push" /\ Len(main) < MaxMain
    /\ main' = Append(main, tree[j])
    /\ GoTo(j, "tag")
    /\ UNCHANGED <<newest, tags, releases, base, tree, unmade>>
JobPushWithTag(j) ==
    /\ pc[j] = "push" /\ Len(main) < MaxMain /\ ~Tagged(tree[j].version)
    /\ tags' = tags \cup {[version |-> tree[j].version, tree |-> tree[j]]}
    /\ main' = IF Len(main) = base[j] THEN Append(main, tree[j]) ELSE main
    /\ GoTo(j, "done")
    /\ UNCHANGED <<newest, releases, base, tree, unmade>>
JobPush(j) ==
    /\ pc[j] = "push"
    /\ \/ /\ Len(main) = base[j] /\ Len(main) < MaxMain
          /\ main' = Append(main, tree[j]) /\ GoTo(j, "tag")
       \/ /\ Len(main) # base[j]
          /\ GoTo(j, "failed") /\ UNCHANGED main
    /\ UNCHANGED <<newest, tags, releases, base, tree, unmade>>

(* The commit fails into an echo: HEAD stays the commit the job started    *)
(* from, and pushing that is a success as long as main is still there.     *)
JobPushNothing(j) ==
    /\ pc[j] = "push" /\ Len(main) = base[j]
    /\ tree' = [tree EXCEPT ![j] = main[base[j]]] /\ unmade' = unmade \cup {j}
    /\ GoTo(j, "tag")
    /\ UNCHANGED <<newest, repo, releases, base>>

(* HEAD is tagged with the version bump-version.py gave, and the tag is    *)
(* pushed with the token of the workflow: release.yml stays where it is. A *)
(* tag that exists is not moved.                                           *)
JobTag(j) ==
    /\ pc[j] = "tag"
    /\ LET v == Bumped(main[base[j]].version) IN
       \/ /\ ~Tagged(v) /\ GoTo(j, "done")
          /\ tags' = tags \cup {[version |-> v, tree |-> tree[j]]}
       \/ Tagged(v) /\ GoTo(j, "failed") /\ UNCHANGED tags
    /\ UNCHANGED <<newest, main, releases, base, tree, unmade>>

(* A step fails: downloads, build, tests, either push.                     *)
JobFail(j) ==
    /\ pc[j] \in {"check", "build", "push", "tag"}
    /\ GoTo(j, "failed")
    /\ UNCHANGED <<newest, repo, releases, base, tree, unmade>>

-----------------------------------------------------------------------------
(* release.yml: builds the tag. Mutant: attaches the committed wasm.       *)
PublishCommitted(v) ==
    /\ v \in queued
    /\ queued' = queued \ {v} /\ published' = published \cup {v}
    /\ wasmOf' = [wasmOf EXCEPT ![v] = TagOf(v).tree.wasm]
    /\ UNCHANGED <<newest, repo, jobs>>
Publish(v) ==
    /\ v \in queued
    /\ queued' = queued \ {v} /\ published' = published \cup {v}
    /\ wasmOf' = [wasmOf EXCEPT ![v] = Build(TagOf(v).tree)]
    /\ UNCHANGED <<newest, repo, jobs>>

Job(j) == \/ JobStart(j) \/ JobCheck(j) \/ JobBuild(j) \/ JobPush(j)
          \/ JobPushNothing(j) \/ JobTag(j) \/ JobFail(j)

Maintainer == \/ \E raise \in {0, 1}, rebuild \in BOOLEAN : MaintainerPush(raise, rebuild)
              \/ MaintainerPin \/ MaintainerTag
              \/ \E v \in Versions : MaintainerPublish(v)

Next == \/ Upstream \/ Maintainer
        \/ \E j \in Jobs : Job(j)
        \/ \E v \in Versions : Publish(v)

Spec == Init /\ [][Next]_vars

-----------------------------------------------------------------------------
TypeOK ==
    /\ newest \in Pins
    /\ main \in Seq(Trees) /\ Len(main) \in 1..MaxMain
    /\ tags \subseteq [version: Versions, tree: Trees]
    /\ queued \subseteq Versions /\ published \subseteq Versions
    /\ wasmOf \in [Versions -> Built \cup {NoWasm}]
    /\ pc \in [Jobs -> {"idle", "check", "build", "push", "tag", "done", "failed"}]
    /\ base \in [Jobs -> 0..MaxMain] /\ tree \in [Jobs -> Trees]
    /\ unmade \subseteq Jobs

(* A tag names one commit, of its version, and that commit is on main,     *)
(* whatever two jobs and a maintainer pushed at the same time and wherever *)
(* a job stopped; only a job whose commit failed tags the commit it found, *)
(* with the version that was to come (auto-update.yml:80-89).              *)
TagsAreOnMain ==
    \A t \in tags :
        /\ t.tree \in Commits
        /\ \A u \in tags : u.version = t.version => u = t
        /\ t.version # t.tree.version =>
              \E j \in unmade : /\ t.tree = main[base[j]]
                               /\ t.version = Bumped(t.tree.version)

(* A version stands for one pinned server, so an installation that looks   *)
(* for the server of its version finds one answer (auto-update.yml:24-40). *)
VersionPinsOneServer ==
    /\ \A s, t \in Commits : s.version = t.version => s.pin = t.pin
    /\ \A i \in 1..Len(main) - 1 : main[i].version <= main[i + 1].version

(* Who installs the wasm of a release runs the version he asked for, with  *)
(* the server that version stands for on main, whichever commit of it the  *)
(* registry builds: the tag a release is built from is none a job has put  *)
(* on the wrong commit, and the committed extension.wasm, which is behind  *)
(* its tree, is not what is offered (release.yml, auto-update.yml:52-89).  *)
ReleasePinsItsServer ==
    \A v \in published : wasmOf[v] # NoWasm =>
        /\ wasmOf[v].version = v
        /\ \E t \in Commits : Build(t) = wasmOf[v]
        /\ \A t \in Commits : t.version = v => t.pin = wasmOf[v].pin

=============================================================================
